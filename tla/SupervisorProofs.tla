---------------------------- MODULE SupervisorProofs ----------------------------
(***************************************************************************)
(* Proofs about Supervisor, for any number of shells, children and faults: *)
(* one reader-service at a time, and none left behind by an orderly end.   *)
(***************************************************************************)
EXTENDS Supervisor, TLAPS

Held    == {"up", "stop", "await", "join", "clear", "exit"}
Holding == Held \cup {"reap"}

(* The lock is with the one shell that is past taking it. *)
LockHeld ==
  /\ \A s \in Shells : shell[s] \in Holding => lock = s
  /\ lock # None => shell[lock] \in Holding

(* A watcher runs within its shell; it spawns no more once stop() is on.   *)
WatcherInside == \A s \in Shells : watcher[s] # "off" => shell[s] \in Held

Stopping ==
  \A s \in Shells : shell[s] \in {"await", "join", "clear", "exit"} => sup[s].stopping

(* A child that runs has a shell: one that was killed, or one that is not  *)
(* yet past waiting for it, whose watcher holds the child.                 *)
ChildHeld ==
  \A c \in Children : Runs(c) =>
    /\ child[c].owner \in Shells
    /\ LET s == child[c].owner
       IN  \/ shell[s] = "killed"
           \/ /\ shell[s] \in {"up", "stop", "await"} /\ sup[s].proc = c
              /\ watcher[s] \in {"record", "wait"}
              /\ shell[s] = "await" => sup[s].awaited = c

(* What a killed shell has left behind is named in the PID file until the  *)
(* next shell has read it.                                                 *)
OrphanRecorded ==
  ~astray => \A c \in Children : Runs(c) /\ shell[child[c].owner] = "killed" =>
                   pidFile = c /\ (lock = None \/ shell[lock] = "reap")

SupInv == /\ TypeOK /\ LockHeld /\ WatcherInside /\ Stopping /\ ChildHeld /\ OrphanRecorded

USE NoneAssumption, BoundsAssumption
------------------------------------------------------------------------------
(* What the fields of a supervisor may be set to. *)
LEMMA SupFields ==
  ASSUME NEW x \in Sup, NEW c \in Children \cup {None}, NEW b \in BOOLEAN
  PROVE  /\ [x EXCEPT !.requested = b] \in Sup
         /\ [x EXCEPT !.proc = c, !.requested = b] \in Sup
         /\ [x EXCEPT !.stopping = b, !.awaited = c] \in Sup
BY DEF Sup

LEMMA InitSup == Init => SupInv
<1> SUFFICES ASSUME Init PROVE SupInv
  OBVIOUS
<1>1. NoSup \in Sup /\ NoChild \in Child
  BY DEF NoSup, Sup, NoChild, Child
<1>2. TypeOK
  <2>1. shell \in [Shells -> ShellSteps] /\ watcher \in [Shells -> WatcherSteps]
    BY DEF Init, ShellSteps, WatcherSteps
  <2>2. sup \in [Shells -> Sup] /\ child \in [Children -> Child]
    BY <1>1 DEF Init
  <2>3. lock \in Shells \cup {None} /\ pidFile \in Children \cup {None}
        /\ astray \in BOOLEAN
    BY DEF Init
  <2>4. version \in 0..MaxVersions /\ faults \in 0..MaxFaults
    BY DEF Init
  <2> QED BY <2>1, <2>2, <2>3, <2>4 DEF TypeOK
<1>3. \A c \in Children : ~Runs(c)
  BY DEF Init, Runs, NoChild
<1>4. LockHeld /\ WatcherInside /\ Stopping
  BY DEF Init, LockHeld, WatcherInside, Stopping, Holding, Held
<1> QED BY <1>2, <1>3, <1>4 DEF SupInv, ChildHeld, OrphanRecorded

LEMMA StepSup == SupInv /\ [Next]_vars => SupInv'
<1> USE DEF SupInv, Sup, Child, ShellSteps, WatcherSteps, Runs, Holding, Held, GotoShell, GotoWatcher, Told
<1> SUFFICES ASSUME SupInv, [Next]_vars PROVE SupInv'
  OBVIOUS
<1>1. ASSUME NEW s \in Shells, Launch(s) \/ Close(s) \/ Join(s) PROVE SupInv'
  BY <1>1 DEF Launch, Close, Join, TypeOK, LockHeld, WatcherInside, Stopping, ChildHeld, OrphanRecorded
<1>2. ASSUME NEW s \in Shells, TakeLock(s) PROVE SupInv'
  BY <1>2 DEF TakeLock, TypeOK, LockHeld, WatcherInside, Stopping, ChildHeld, OrphanRecorded
<1>3. ASSUME NEW s \in Shells, SecondInstance(s) PROVE SupInv'
  BY <1>3 DEF SecondInstance, TypeOK, LockHeld, WatcherInside, Stopping, ChildHeld, OrphanRecorded
<1>4. ASSUME NEW s \in Shells, StartUp(s) PROVE SupInv'
  <2>1. CASE child' = Reaped /\ pidFile' = None /\ UNCHANGED <<astray, faults>>
    BY <1>4, <2>1 DEF StartUp, Reaped, TypeOK, LockHeld, WatcherInside, Stopping, ChildHeld, OrphanRecorded
  <2>2. CASE /\ Fault /\ pidFile' \in {pidFile, None}
             /\ astray' = TRUE /\ UNCHANGED child
    <3>1. TypeOK'
      BY <1>4, <2>2 DEF StartUp, Fault, TypeOK
    <3>2. LockHeld' /\ WatcherInside' /\ Stopping'
      BY <1>4, <2>2 DEF StartUp, TypeOK, LockHeld, WatcherInside, Stopping
    <3>3. ChildHeld' /\ OrphanRecorded'
      BY <1>4, <2>2 DEF StartUp, TypeOK, WatcherInside, ChildHeld, OrphanRecorded
    <3> QED BY <3>1, <3>2, <3>3
  <2> QED BY <1>4, <2>1, <2>2 DEF StartUp
<1>5. ASSUME NEW s \in Shells, Stop(s) PROVE SupInv'
  <2>1. TypeOK'
    <3>1. [sup[s] EXCEPT !.stopping = TRUE, !.awaited = sup[s].proc] \in Sup
      <4>1. sup[s] \in Sup /\ sup[s].proc \in Children \cup {None}
        BY DEF TypeOK
      <4> QED BY ONLY <4>1, SupFields
    <3>2. sup' \in [Shells -> Sup]
      BY <1>5, <3>1 DEF Stop, TypeOK
    <3>3. child' \in [Children -> Child]
      BY <1>5 DEF Stop, TypeOK
    <3> QED BY <1>5, <3>2, <3>3 DEF Stop, TypeOK
  <2>2. LockHeld' /\ WatcherInside' /\ Stopping'
    BY <1>5 DEF Stop, TypeOK, LockHeld, WatcherInside, Stopping
  <2>3. ChildHeld'
    BY <1>5 DEF Stop, TypeOK, WatcherInside, Stopping, ChildHeld
  <2>4. OrphanRecorded'
    BY <1>5 DEF Stop, TypeOK, LockHeld, WatcherInside, ChildHeld, OrphanRecorded
  <2> QED BY <2>1, <2>2, <2>3, <2>4
<1>6. ASSUME NEW s \in Shells, Awaited(s) PROVE SupInv'
  BY <1>6 DEF Awaited, TypeOK, LockHeld, WatcherInside, Stopping, ChildHeld, OrphanRecorded
<1>7. ASSUME NEW s \in Shells, ClearPidFile(s) PROVE SupInv'
  BY <1>7 DEF ClearPidFile, TypeOK, LockHeld, WatcherInside, Stopping, ChildHeld, OrphanRecorded
<1>8. ASSUME NEW s \in Shells, Exit(s) PROVE SupInv'
  BY <1>8 DEF Exit, TypeOK, LockHeld, WatcherInside, Stopping, ChildHeld, OrphanRecorded
<1>9. ASSUME NEW s \in Shells, Kill(s) PROVE SupInv'
  <2>1. TypeOK'
    <3>1. astray' \in BOOLEAN
      BY ONLY <1>9 DEF Kill
    <3>2. child' \in [Children -> Child]
      BY <1>9 DEF Kill, TypeOK
    <3>3. faults' \in 0..MaxFaults
      BY <1>9 DEF Kill, Fault, TypeOK
    <3> QED BY <1>9, <3>1, <3>2, <3>3 DEF Kill, TypeOK
  <2>2. LockHeld' /\ WatcherInside' /\ Stopping'
    BY <1>9 DEF Kill, Fault, TypeOK, LockHeld, WatcherInside, Stopping
  <2>3. ChildHeld'
    BY <1>9 DEF Kill, Fault, TypeOK, WatcherInside, Stopping, ChildHeld
  <2>4. OrphanRecorded'
    <3>1. /\ shell' = [shell EXCEPT ![s] = "killed"]
          /\ lock' = IF lock = s THEN None ELSE lock
          /\ child' = [c \in Children |->
                 IF child[c].owner # s \/ ~Runs(c) THEN child[c]
                 ELSE [child[c] EXCEPT !.state = IF JobObject THEN "dead" ELSE "told"]]
          /\ pidFile' = pidFile
      BY <1>9 DEF Kill
    <3>2. ~astray' => ~astray /\ \A c \in Children :
              child[c].owner = s /\ Runs(c) => pidFile = c \/ JobObject
      BY ONLY <1>9 DEF Kill
    <3>3. \A c \in Children : Runs(c)' => Runs(c) /\ child'[c].owner = child[c].owner
      BY <3>1 DEF TypeOK
    <3>4. ASSUME ~astray', NEW c \in Children, Runs(c)', shell'[child'[c].owner] = "killed"
          PROVE  pidFile' = c /\ (lock' = None \/ shell'[lock'] = "reap")
      <4>1. CASE child[c].owner = s
        <5>1. ~JobObject /\ pidFile = c
          BY <3>1, <3>2, <3>3, <3>4, <4>1
        <5>2. shell[s] \in Holding
          BY <1>9, <3>3, <3>4, <4>1 DEF Kill, ChildHeld
        <5> QED BY <3>1, <5>1, <5>2 DEF LockHeld
      <4>2. CASE child[c].owner # s
        <5>1. shell[child[c].owner] = "killed"
          BY <3>1, <3>3, <3>4, <4>2 DEF TypeOK, ChildHeld
        <5>2. pidFile = c /\ (lock = None \/ shell[lock] = "reap")
          BY <3>2, <3>3, <3>4, <5>1 DEF OrphanRecorded
        <5> QED BY <3>1, <5>2 DEF TypeOK, LockHeld
      <4> QED BY <4>1, <4>2
    <3> QED BY <3>4 DEF OrphanRecorded
  <2> QED BY <2>1, <2>2, <2>3, <2>4
<1>10. ASSUME NEW s \in Shells, Spawn(s) PROVE SupInv'
  <2>1. TypeOK'
    <3>1. PICK c \in Children :
            /\ child' = [child EXCEPT ![c] = [state |-> "up", owner |-> s, version |-> version]]
            /\ sup' = [sup EXCEPT ![s].proc = c, ![s].requested = FALSE]
      BY <1>10 DEF Spawn
    <3>2. [sup[s] EXCEPT !.proc = c, !.requested = FALSE] \in Sup
      <4>1. sup[s] \in Sup /\ sup[s].proc \in Children \cup {None}
        BY DEF TypeOK
      <4> QED BY ONLY <4>1, SupFields
    <3>3. sup' \in [Shells -> Sup]
      BY <3>1, <3>2 DEF TypeOK
    <3>4. child' \in [Children -> Child]
      BY <3>1 DEF TypeOK
    <3> QED BY <1>10, <3>3, <3>4 DEF Spawn, TypeOK
  <2>2. LockHeld' /\ WatcherInside' /\ Stopping'
    BY <1>10 DEF Spawn, MaySpawn, TypeOK, LockHeld, WatcherInside, Stopping
  <2>3. ChildHeld'
    BY <1>10 DEF Spawn, MaySpawn, TypeOK, WatcherInside, Stopping, ChildHeld
  <2>4. OrphanRecorded'
    BY <1>10 DEF Spawn, MaySpawn, TypeOK, LockHeld, WatcherInside, ChildHeld, OrphanRecorded
  <2> QED BY <2>1, <2>2, <2>3, <2>4
<1>11. ASSUME NEW s \in Shells, SpawnFails(s) PROVE SupInv'
  <2>1. TypeOK'
    <3>1. [sup[s] EXCEPT !.requested = FALSE] \in Sup
      <4>1. sup[s] \in Sup /\ sup[s].proc \in Children \cup {None}
        BY DEF TypeOK
      <4> QED BY ONLY <4>1, SupFields
    <3>2. sup' \in [Shells -> Sup]
      BY <1>11, <3>1 DEF SpawnFails, TypeOK
    <3>3. faults' \in 0..MaxFaults
      BY <1>11 DEF SpawnFails, Fault, TypeOK
    <3> QED BY <1>11, <3>2, <3>3 DEF SpawnFails, TypeOK
  <2>2. LockHeld' /\ WatcherInside' /\ Stopping'
    BY <1>11 DEF SpawnFails, MaySpawn, Fault, TypeOK, LockHeld, WatcherInside, Stopping
  <2>3. ChildHeld'
    BY <1>11 DEF SpawnFails, MaySpawn, Fault, TypeOK, WatcherInside, Stopping, ChildHeld
  <2>4. OrphanRecorded'
    BY <1>11 DEF SpawnFails, MaySpawn, Fault, TypeOK, LockHeld, WatcherInside, ChildHeld, OrphanRecorded
  <2> QED BY <2>1, <2>2, <2>3, <2>4
<1>12. ASSUME NEW s \in Shells, SpawnNoMore(s) \/ Decide(s) \/ BackoffOver(s) PROVE SupInv'
  BY <1>12 DEF SpawnNoMore, Decide, AfterExit, BackoffOver, TypeOK, LockHeld, WatcherInside, Stopping, ChildHeld, OrphanRecorded
<1>13. ASSUME NEW s \in Shells, Record(s) PROVE SupInv'
  BY <1>13 DEF Record, TypeOK, LockHeld, WatcherInside, Stopping, ChildHeld, OrphanRecorded
<1>14. ASSUME NEW s \in Shells, Reap(s) PROVE SupInv'
  BY <1>14 DEF Reap, TypeOK, LockHeld, WatcherInside, Stopping, ChildHeld, OrphanRecorded
<1>15. ASSUME NEW s \in Shells, Forget(s) PROVE SupInv'
  BY <1>15 DEF Forget, TypeOK, LockHeld, WatcherInside, Stopping, ChildHeld, OrphanRecorded
<1>16. ASSUME NEW s \in Shells, Restart(s) PROVE SupInv'
  <2>1. TypeOK'
    <3>1. [sup[s] EXCEPT !.requested = TRUE] \in Sup
      <4>1. sup[s] \in Sup /\ sup[s].proc \in Children \cup {None}
        BY DEF TypeOK
      <4> QED BY ONLY <4>1, SupFields
    <3>2. sup' \in [Shells -> Sup]
      BY <1>16, <3>1 DEF Restart, TypeOK
    <3>3. child' \in [Children -> Child]
      BY <1>16 DEF Restart, Replaced, TypeOK
    <3> QED BY <1>16, <3>2, <3>3 DEF Restart, TypeOK
  <2>2. LockHeld' /\ WatcherInside' /\ Stopping'
    BY <1>16 DEF Restart, Replaced, TypeOK, LockHeld, WatcherInside, Stopping
  <2>3. ChildHeld'
    BY <1>16 DEF Restart, Replaced, TypeOK, WatcherInside, Stopping, ChildHeld
  <2>4. OrphanRecorded'
    BY <1>16 DEF Restart, Replaced, TypeOK, LockHeld, WatcherInside, ChildHeld, OrphanRecorded
  <2> QED BY <2>1, <2>2, <2>3, <2>4
<1>17. CASE Save
  BY <1>17 DEF Save, TypeOK, LockHeld, WatcherInside, Stopping, ChildHeld, OrphanRecorded
<1>18. ASSUME NEW c \in Children, Die(c) PROVE SupInv'
  BY <1>18 DEF Die, Fault, TypeOK, LockHeld, WatcherInside, Stopping, ChildHeld, OrphanRecorded
<1>19. CASE UNCHANGED vars
  BY <1>19 DEF vars, TypeOK, LockHeld, WatcherInside, Stopping, ChildHeld, OrphanRecorded
<1> QED BY <1>1, <1>2, <1>3, <1>4, <1>5, <1>6, <1>7, <1>8, <1>9, <1>10, <1>11, <1>12, <1>13,
           <1>14, <1>15, <1>16, <1>17, <1>18, <1>19 DEF Next, Main, Watcher

(* The inductive invariant: lock, shells, children and the PID file.       *)
THEOREM SupInvariant == Spec => []SupInv
BY InitSup, StepSup, PTL DEF Spec

(* Two reader-services never run at a time, whatever shells are launched,  *)
(* closed and killed, and whichever children and spawns fail; unless a     *)
(* shell was killed before it had recorded its child, or the recorded one  *)
(* could not be looked at or signalled.                                    *)
THEOREM AlwaysOneReader == Spec => []OneReader
<1>1. SupInv => OneReader
  BY DEF SupInv, TypeOK, LockHeld, ChildHeld, OrphanRecorded, OneReader, Holding, Held, Runs
<1> QED BY SupInvariant, <1>1, PTL

(* A shell that has ended in order leaves no child behind.                 *)
THEOREM StopAlwaysFinal == Spec => []StopIsFinal
<1>1. SupInv => StopIsFinal
  BY DEF SupInv, ChildHeld, StopIsFinal
<1> QED BY SupInvariant, <1>1, PTL
==============================================================================
