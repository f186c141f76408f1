------------------------------- MODULE Supervisor -------------------------------
(***************************************************************************)
(* The desktop shells and the reader-service processes they keep alive.    *)
(* A shell takes the instance lock, reaps what a dead predecessor left     *)
(* behind, and supervises one child: a watcher thread spawns it, waits for *)
(* it, and spawns the next after a back-off; the operator asks for         *)
(* restarts; the window is closed or the server dies, and the child is     *)
(* stopped; or the shell is killed.                                        *)
(*                                                                         *)
(* A child that is told to end (its stdin is closed) does so in the end:   *)
(* if not, it is terminated and killed.  A step ends where a lock is       *)
(* released, a file written or a process waited for.                       *)
(***************************************************************************)
EXTENDS Integers, FiniteSets

CONSTANTS Shells,       \* the shell processes, each launched once
          Children,     \* the reader-service processes; one that has ended may be a new one
          None,
          JobObject,    \* whether a killed shell takes its child along
          MaxVersions,  \* bound: changes of the configuration
          MaxFaults     \* bound: children that die, spawns and looks that fail, shells killed

ASSUME NoneAssumption == None \notin Children /\ None \notin Shells
ASSUME BoundsAssumption ==
  JobObject \in BOOLEAN /\ MaxVersions \in Nat /\ MaxFaults \in Nat

VARIABLES
  shell,        \* where the main thread of each shell is, or its watchdog's handler
  watcher,      \* where the watcher thread of each shell is
  sup,          \* the fields of each ReaderSupervisor
  child,        \* the children
  lock,         \* the holder of the instance lock
  pidFile,      \* the child named in the PID file
  version,      \* the saved configuration
  astray,       \* (history) a child ran on that no PID file named, or nobody could look at
  faults

vars == <<shell, watcher, sup, child, lock, pidFile, version, astray, faults>>
------------------------------------------------------------------------------
ShellSteps   == {"off", "lock", "reap", "up", "stop", "await", "join", "clear", "exit",
                 "gone", "killed"}
WatcherSteps == {"off", "spawn", "record", "wait", "reaped", "decide", "backoff", "ended"}

(* proc: _proc; requested: _restart_requested; stopping: _stopping;        *)
(* awaited: the child stop() has found.                                    *)
Sup   == [proc : Children \cup {None}, requested : BOOLEAN, stopping : BOOLEAN,
          awaited : Children \cup {None}]
NoSup == [proc |-> None, requested |-> FALSE, stopping |-> FALSE, awaited |-> None]

(* told: its stdin has been closed; version: the configuration in its argv. *)
Child    == [state : {"up", "told", "dead"}, owner : Shells \cup {None},
             version : 0..MaxVersions]
NoChild  == [state |-> "dead", owner |-> None, version |-> 0]

Runs(c)     == child[c].state \in {"up", "told"}
Watching(s) == watcher[s] \notin {"off", "ended"}
Fault       == faults < MaxFaults /\ faults' = faults + 1

Init ==
  /\ shell = [s \in Shells |-> "off"] /\ watcher = [s \in Shells |-> "off"]
  /\ sup = [s \in Shells |-> NoSup] /\ child = [c \in Children |-> NoChild]
  /\ lock = None /\ pidFile = None /\ version = 0 /\ astray = FALSE /\ faults = 0

GotoShell(s, step)   == shell' = [shell EXCEPT ![s] = step]
GotoWatcher(s, step) == watcher' = [watcher EXCEPT ![s] = step]
Told(c)              == [child EXCEPT ![c].state = IF @ = "up" THEN "told" ELSE @]
------------------------------------------------------------------------------
(* main(): without the lock the launch ends, or waits for it. *)
Launch(s) ==
  /\ shell[s] = "off" /\ GotoShell(s, "lock")
  /\ UNCHANGED <<watcher, sup, child, lock, pidFile, version, astray, faults>>

TakeLock(s) ==
  /\ shell[s] = "lock" /\ lock = None
  /\ lock' = s /\ GotoShell(s, "reap")
  /\ UNCHANGED <<watcher, sup, child, pidFile, version, astray, faults>>

SecondInstance(s) ==
  /\ shell[s] = "lock" /\ lock # None
  /\ GotoShell(s, "gone")
  /\ UNCHANGED <<watcher, sup, child, lock, pidFile, version, astray, faults>>

(* Mutant: the recorded child is only told to end. *)
ReapedTold == IF pidFile = None THEN child ELSE Told(pidFile)

(* _kill_stale_reader_service(): the recorded child is killed. *)
Reaped ==
  IF pidFile # None /\ Runs(pidFile) THEN [child EXCEPT ![pidFile].state = "dead"] ELSE child

(* The stale child, the backend, the supervisor's start().  A child whose  *)
(* command line cannot be read, or that may not be signalled, runs on.     *)
StartUp(s) ==
  /\ shell[s] = "reap"
  /\ \/ child' = Reaped /\ pidFile' = None /\ UNCHANGED <<astray, faults>>
     \/ /\ pidFile # None /\ Runs(pidFile) /\ Fault
        /\ pidFile' \in {pidFile, None}
        /\ astray' = TRUE /\ UNCHANGED child
  /\ GotoWatcher(s, "spawn") /\ GotoShell(s, "up")
  /\ UNCHANGED <<sup, lock, version>>

(* The window is closed; or the server thread has died, and the watchdog   *)
(* does the same and launches another shell.                               *)
Close(s) ==
  /\ shell[s] = "up" /\ GotoShell(s, "stop")
  /\ UNCHANGED <<watcher, sup, child, lock, pidFile, version, astray, faults>>

(* stop(): no more spawns; the child that runs is told to end, waited for, *)
(* then the watcher is, and the PID file removed.                          *)
Stop(s) ==
  /\ shell[s] = "stop"
  /\ sup' = [sup EXCEPT ![s].stopping = TRUE, ![s].awaited = sup[s].proc]
  /\ child' = IF sup[s].proc = None THEN child ELSE Told(sup[s].proc)
  /\ GotoShell(s, "await")
  /\ UNCHANGED <<watcher, lock, pidFile, version, astray, faults>>

Awaited(s) ==
  /\ shell[s] = "await"
  /\ sup[s].awaited # None => ~Runs(sup[s].awaited)
  /\ GotoShell(s, "join")
  /\ UNCHANGED <<watcher, sup, child, lock, pidFile, version, astray, faults>>

(* The watcher is waited for, but not for ever. *)
Join(s) ==
  /\ shell[s] = "join"
  /\ GotoShell(s, "clear")
  /\ UNCHANGED <<watcher, sup, child, lock, pidFile, version, astray, faults>>

ClearPidFile(s) ==
  /\ shell[s] = "clear"
  /\ pidFile' = None /\ GotoShell(s, "exit")
  /\ UNCHANGED <<watcher, sup, child, lock, version, astray, faults>>

(* Releasing the lock is the last thing a shell does. *)
Exit(s) ==
  /\ shell[s] = "exit"
  /\ lock' = None /\ GotoShell(s, "gone") /\ GotoWatcher(s, "off")
  /\ UNCHANGED <<sup, child, pidFile, version, astray, faults>>

(* The shell is killed.  Its child's stdin is closed with it. *)
Kill(s) ==
  /\ shell[s] \notin {"off", "gone", "killed"} /\ Fault
  /\ GotoShell(s, "killed") /\ GotoWatcher(s, "off")
  /\ lock' = IF lock = s THEN None ELSE lock
  /\ child' = [c \in Children |->
                 IF child[c].owner # s \/ ~Runs(c) THEN child[c]
                 ELSE [child[c] EXCEPT !.state = IF JobObject THEN "dead" ELSE "told"]]
  /\ astray' = (astray \/ \E c \in Children : child[c].owner = s /\ Runs(c)
                                                        /\ pidFile # c /\ ~JobObject)
  /\ UNCHANGED <<sup, pidFile, version>>

Main(s) ==
  \/ TakeLock(s) \/ SecondInstance(s) \/ StartUp(s)
  \/ Stop(s) \/ Awaited(s) \/ Join(s) \/ ClearPidFile(s) \/ Exit(s)
------------------------------------------------------------------------------
(* Mutant: the stop is not looked at before the spawn. *)
MaySpawnAlways(s) == TRUE

MaySpawn(s) == ~sup[s].stopping

(* _watch_loop(), under the lock: spawn the next child with the saved      *)
(* configuration.  A restart asked for before is done by that.             *)
Spawn(s) ==
  /\ watcher[s] = "spawn" /\ MaySpawn(s)
  /\ \E c \in Children :
       /\ ~Runs(c)
       /\ child' = [child EXCEPT ![c] = [state |-> "up", owner |-> s, version |-> version]]
       /\ sup' = [sup EXCEPT ![s].proc = c, ![s].requested = FALSE]
  /\ GotoWatcher(s, "record")
  /\ UNCHANGED <<shell, lock, pidFile, version, astray, faults>>

SpawnFails(s) ==
  /\ watcher[s] = "spawn" /\ MaySpawn(s) /\ Fault
  /\ sup' = [sup EXCEPT ![s].requested = FALSE]
  /\ GotoWatcher(s, "decide")
  /\ UNCHANGED <<shell, child, lock, pidFile, version, astray>>

SpawnNoMore(s) ==
  /\ watcher[s] = "spawn" /\ ~MaySpawn(s)
  /\ GotoWatcher(s, "ended")
  /\ UNCHANGED <<shell, sup, child, lock, pidFile, version, astray, faults>>

Record(s) ==
  /\ watcher[s] = "record"
  /\ pidFile' = sup[s].proc /\ GotoWatcher(s, "wait")
  /\ UNCHANGED <<shell, sup, child, lock, version, astray, faults>>

(* proc.wait() returns. *)
Reap(s) ==
  /\ watcher[s] = "wait" /\ ~Runs(sup[s].proc)
  /\ pidFile' = None /\ GotoWatcher(s, "reaped")
  /\ UNCHANGED <<shell, sup, child, lock, version, astray, faults>>

Forget(s) ==
  /\ watcher[s] = "reaped"
  /\ sup' = [sup EXCEPT ![s].proc = None] /\ GotoWatcher(s, "decide")
  /\ UNCHANGED <<shell, child, lock, pidFile, version, astray, faults>>

(* Mutant: a child that ends without a request is not replaced. *)
AfterExitOnly(s) ==
  IF sup[s].stopping \/ ~sup[s].requested THEN "ended" ELSE "spawn"

AfterExit(s) ==
  IF sup[s].stopping THEN "ended" ELSE IF sup[s].requested THEN "spawn" ELSE "backoff"

Decide(s) ==
  /\ watcher[s] = "decide"
  /\ GotoWatcher(s, AfterExit(s))
  /\ UNCHANGED <<shell, sup, child, lock, pidFile, version, astray, faults>>

(* The back-off is over, or cut short by a stop or a restart. *)
BackoffOver(s) ==
  /\ watcher[s] = "backoff" /\ GotoWatcher(s, "spawn")
  /\ UNCHANGED <<shell, sup, child, lock, pidFile, version, astray, faults>>

Watcher(s) ==
  \/ Spawn(s) \/ SpawnFails(s) \/ SpawnNoMore(s) \/ Record(s) \/ Reap(s) \/ Forget(s)
  \/ Decide(s) \/ BackoffOver(s)
------------------------------------------------------------------------------
(* The operator saves a configuration that only a new child takes over. *)
Save ==
  /\ version < MaxVersions /\ version' = version + 1
  /\ UNCHANGED <<shell, watcher, sup, child, lock, pidFile, astray, faults>>

(* Mutant: a restart waits for the child to end by itself. *)
Unreplaced(s) == child

(* The child that a restart replaces is told to end. *)
Replaced(s) == IF sup[s].proc = None THEN child ELSE Told(sup[s].proc)

(* restart() *)
Restart(s) ==
  /\ shell[s] \in {"up", "stop"} /\ Watching(s) /\ ~sup[s].stopping /\ ~sup[s].requested
  /\ sup' = [sup EXCEPT ![s].requested = TRUE]
  /\ child' = Replaced(s)
  /\ UNCHANGED <<shell, watcher, lock, pidFile, version, astray, faults>>

(* A child ends because it was told to, or fails. *)
Die(c) ==
  /\ \/ child[c].state = "told" /\ UNCHANGED faults
     \/ child[c].state = "up" /\ Fault
  /\ child' = [child EXCEPT ![c].state = "dead"]
  /\ UNCHANGED <<shell, watcher, sup, lock, pidFile, version, astray>>

Next ==
  \/ \E s \in Shells : Launch(s) \/ Main(s) \/ Close(s) \/ Kill(s)
                         \/ Watcher(s) \/ Restart(s)
  \/ Save \/ \E c \in Children : Die(c)

(* Threads run, back-offs end, and children that are told to end do.       *)
Fairness == /\ \A s \in Shells : WF_vars(Main(s)) /\ WF_vars(Watcher(s))
            /\ \A c \in Children : WF_vars(Die(c) /\ child[c].state = "told")

Spec     == Init /\ [][Next]_vars
FairSpec == Spec /\ Fairness
------------------------------------------------------------------------------
TypeOK ==
  /\ shell \in [Shells -> ShellSteps] /\ watcher \in [Shells -> WatcherSteps]
  /\ sup \in [Shells -> Sup] /\ child \in [Children -> Child]
  /\ lock \in Shells \cup {None} /\ pidFile \in Children \cup {None}
  /\ version \in 0..MaxVersions /\ astray \in BOOLEAN /\ faults \in 0..MaxFaults

(* Two reader-services never run at a time, whichever shells are closed,   *)
(* killed and launched: they would take the reader from each other.  But   *)
(* for a shell killed between the spawn and the PID file, and a recorded   *)
(* child that cannot be looked at or signalled.                            *)
OneReader == ~astray => \A c, d \in Children : Runs(c) /\ Runs(d) => c = d

(* A shell that has ended in order leaves no child behind, in whichever    *)
(* step of the watcher the stop came.                                      *)
StopIsFinal ==
  \A s \in Shells, c \in Children : shell[s] = "gone" /\ child[c].owner = s => ~Runs(c)

(* A shell that stays up always gets a child again.                        *)
KeptAlive ==
  \A s \in Shells :
    <>[](shell[s] = "up") => []<>(\E c \in Children : Runs(c) /\ child[c].owner = s)

(* A restart is not lost, whatever the watcher was doing when it was asked *)
(* for: in the end the child has the configuration of that moment.         *)
RestartIsHonoured ==
  \A s \in Shells, v \in 0..MaxVersions :
    (version = v /\ sup[s].requested)
      ~> \/ shell[s] # "up"
         \/ \E c \in Children : Runs(c) /\ child[c].owner = s /\ child[c].version >= v
==============================================================================
