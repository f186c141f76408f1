----------------------------- MODULE SiritConnection -----------------------------
(***************************************************************************)
(* The reader-service's connection to the reader (sirit_client.py): the    *)
(* connection thread, which connects, configures, probes and reconnects;   *)
(* the EVENT receive threads, one per connection, which bind the session   *)
(* and may outlive it; the requests of the heartbeat replies; the stop.    *)
(* The reader's link breaks, falls silent and comes back at any time.      *)
(*                                                                         *)
(* A receive thread that is stuck in the configuration may outlast the     *)
(* join of the teardown; from one blocking call to the next a thread is    *)
(* quicker than that join.  Which address is dialled is in ReaderTarget.   *)
(***************************************************************************)
EXTENDS Integers, FiniteSets

CONSTANTS Antennas,             \* the ports of the reader
          ProbeMaxMisses,       \* _probe_max_misses
          MaxTroubles,          \* bound: what goes wrong with the reader and its link
          MaxRequests           \* bound: requests of the backend

ASSUME ProbeAssumption     == ProbeMaxMisses \in Nat \ {0}
ASSUME TroublesAssumption  == MaxTroubles \in Nat /\ MaxRequests \in Nat

VARIABLES
  loop,         \* where the connection thread is, and in which step of a wait
  target,       \* whether there is an ip
  discovery_enabled,            \* set once and for all
  state,        \* the published state
  misses,       \* _probe_misses
  conn,         \* _conn, kept after its teardown
  session,      \* session.id and session.bound
  recv,         \* what the EVENT receive thread of each connection does
  wake,         \* _wake
  requests,     \* the pending requests
  stop,         \* _stop_event
  link,         \* what the reader's link does
  sent,         \* (history) the session the reader was configured for on this connection
  present,      \* TagTracker.present of a tag: the antennas that see it
  field,        \* the antennas that do see it
  troubles,     \* what has gone wrong so far
  asked         \* the requests so far

threadVars == <<loop, target, state, misses>>
recvVars   == <<session, recv, sent>>
readerVars == <<link, field, troubles>>
otherVars  == <<stop, asked, discovery_enabled>>
connVars == <<threadVars, recvVars, readerVars, otherVars, conn, wake, requests, present>>
------------------------------------------------------------------------------
(* Every connection but the first follows a trouble or a request. *)
Generations == 1..(1 + MaxTroubles + MaxRequests)

(* broken: the reader has forgotten the connection; rebound: it has given  *)
(* it a new session id.                                                    *)
Conn    == [generation : {0} \cup Generations, lost : BOOLEAN, open : BOOLEAN,
            broken : BOOLEAN, rebound : BOOLEAN]
NoId    == 0
Ids     == {1, 2}                               \* of one connection
Session == [id : {NoId} \cup Ids, bound : BOOLEAN]

Waits == {"await", "active", "idle"}
Loop  == [place : Waits \cup {"top", "search", "dial", "close", "join", "after", "ended"},
          step : {"clear", "check", "sleep"},
          outcome : {"none", "lost", "reconnect", "stopped"}]

Goto(place, outcome) == loop' = [place |-> place, step |-> "clear", outcome |-> outcome]
At(place)            == Goto(place, "none")
Leave(outcome)       == Goto("close", outcome)
In(place, step)      == loop.place = place /\ loop.step = step

(* Mutant: a wait looks first and clears the flag then. *)
FollowingLate(step) == CASE step = "clear" -> "sleep" [] step = "check" -> "clear"
                         [] step = "sleep" -> "check"

(* The steps of a wait: the flag is cleared before anything is looked at. *)
Following(step) == CASE step = "clear" -> "check" [] step = "check" -> "sleep"
                     [] step = "sleep" -> "clear"

GoOn == loop' = [loop EXCEPT !.step = Following(loop.step)]

Trouble == troubles < MaxTroubles /\ troubles' = troubles + 1
Alive   == link = "up" /\ ~conn.broken          \* the reader answers on this connection

ConnInit ==
  /\ loop = [place |-> "top", step |-> "clear", outcome |-> "none"]
  /\ target \in BOOLEAN /\ misses = 0
  /\ state = IF target THEN "connecting" ELSE "searching"
  /\ conn = [generation |-> 0, lost |-> TRUE, open |-> FALSE, broken |-> TRUE, rebound |-> FALSE]
  /\ session = [id |-> NoId, bound |-> FALSE] /\ sent = NoId
  /\ recv = [g \in Generations |-> "gone"]
  /\ wake = FALSE /\ requests = {} /\ stop = FALSE
  /\ discovery_enabled \in BOOLEAN
  /\ link \in {"up", "silent", "down"}
  /\ present = {} /\ field = {} /\ troubles = 0 /\ asked = 0
------------------------------------------------------------------------------
(* _handle_requests(): all are taken; a reconnect and a new config want    *)
(* the target connected, a discover only if there was none and its sweep   *)
(* has found one.                                                          *)
Reconnects == requests \cap {"config", "reconnect"} # {}

TakesFound == "discover" \in requests /\ ~target /\ "config" \notin requests /\ link = "up"

HandleRequests ==
  /\ requests' = {}
  /\ \/ target' = (target \/ "config" \in requests)
     \/ TakesFound /\ target' = TRUE

Connects == Reconnects \/ target' # target

(* Mutant: the loop does not look at the stop. *)
TopForEver ==
  /\ loop.place = "top"
  /\ HandleRequests
  /\ At(IF target' THEN "dial" ELSE "search")
  /\ state' = IF target' THEN "connecting" ELSE "searching"
  /\ UNCHANGED <<misses, conn, recvVars, readerVars, otherVars, wake, present>>

(* The head of _connection_loop(). *)
Top ==
  /\ loop.place = "top"
  /\ IF stop
     THEN At("ended") /\ UNCHANGED <<requests, target, state>>
     ELSE /\ HandleRequests
          /\ At(IF target' THEN "dial" ELSE "search")
          /\ state' = IF target' THEN "connecting" ELSE "searching"
  /\ UNCHANGED <<misses, conn, recvVars, readerVars, otherVars, wake, present>>

(* _search(): a sweep finds the reader, or there is none, or none was due. *)
Found ==
  /\ loop.place = "search" /\ discovery_enabled /\ link = "up"
  /\ target' = TRUE /\ At("top")
  /\ UNCHANGED <<state, misses, conn, recvVars, readerVars, otherVars, wake, requests, present>>

NotFound ==
  /\ loop.place = "search"
  /\ At("idle")
  /\ UNCHANGED <<target, state, misses, conn, recvVars, readerVars, otherVars, wake,
                 requests, present>>

NewConn == [generation |-> conn.generation + 1, lost |-> FALSE, open |-> TRUE,
            broken |-> FALSE, rebound |-> FALSE]

(* Mutant: who is in the field is kept. *)
ResetSessionOnly == session' = [id |-> NoId, bound |-> FALSE] /\ UNCHANGED present

(* The per-connection reset of _begin_connection(). *)
Reset == session' = [id |-> NoId, bound |-> FALSE] /\ present' = {}

Begin ==
  /\ conn' = NewConn /\ Reset
  /\ misses' = 0 /\ sent' = NoId
  /\ recv' = [recv EXCEPT ![conn'.generation] = "recv"]
  /\ state' = "configuring"
  /\ At("await")

(* _connect_and_run(): both sockets are connected, or that fails. *)
Dial ==
  /\ loop.place = "dial"
  /\ \/ link = "up" /\ ~stop /\ Begin
     \/ /\ IF link = "up" THEN stop /\ At("top") ELSE At("after")
        /\ UNCHANGED <<conn, recvVars, misses, state, present>>
  /\ UNCHANGED <<target, wake, requests, readerVars, otherVars>>

Clear ==
  /\ loop.place \in Waits /\ loop.step = "clear"
  /\ wake' = FALSE /\ GoOn
  /\ UNCHANGED <<target, state, misses, conn, recvVars, readerVars, otherVars, requests, present>>

Woken ==
  /\ loop.place \in Waits /\ loop.step = "sleep" /\ wake
  /\ GoOn
  /\ UNCHANGED <<target, state, misses, conn, recvVars, readerVars, otherVars, wake,
                 requests, present>>

(* _await_configured() and _on_active(): what is looked at, each time      *)
(* before the thread waits on or gives up.                                 *)
AwaitLook(otherwise) ==
  /\ IF stop \/ conn.lost
     THEN Leave(IF stop THEN "stopped" ELSE "lost") /\ UNCHANGED <<requests, target, state>>
     ELSE /\ HandleRequests
          /\ IF Connects THEN Leave("reconnect") /\ UNCHANGED state
             ELSE IF session.bound THEN At("active") /\ state' = "active"
             ELSE otherwise /\ UNCHANGED state
  /\ UNCHANGED <<misses, conn, recvVars, link, field, otherVars, wake, present>>

Await == In("await", "check") /\ AwaitLook(GoOn) /\ UNCHANGED troubles

(* No session id within ten seconds, or no configuration within thirty:    *)
(* the reader does not answer, or is slow this once.                       *)
AwaitTimeout ==
  /\ In("await", "sleep") /\ ~wake
  /\ IF Alive THEN Trouble ELSE UNCHANGED troubles
  /\ AwaitLook(Leave("lost"))

(* _run_active(). *)
Active ==
  /\ In("active", "check")
  /\ IF stop \/ conn.lost \/ recv[conn.generation] = "gone"
     THEN Leave(IF stop THEN "stopped" ELSE "lost") /\ UNCHANGED <<requests, target, state>>
     ELSE /\ HandleRequests
          /\ IF Connects THEN Leave("reconnect") /\ UNCHANGED state
             ELSE GoOn /\ state' = IF session.bound THEN "active" ELSE state
  /\ UNCHANGED <<misses, conn, recvVars, readerVars, otherVars, wake, present>>

Binding == \E g \in Generations : recv[g] \in {"bind", "done"}

(* The reader counts as silent after so many probes without an answer. *)
Silent(n) == n >= ProbeMaxMisses

CountMiss == misses' = misses + 1

(* A liveness probe or a clock resync is due; it is skipped while the      *)
(* control channel is taken.                                               *)
Probe ==
  /\ In("active", "sleep")
  /\ \/ /\ ~session.bound \/ Binding
        /\ UNCHANGED <<misses, conn, troubles>>
     \/ /\ session.bound /\ ~Binding /\ Alive
        /\ misses' = 0 /\ UNCHANGED <<conn, troubles>>
     \/ /\ session.bound /\ ~Binding
        /\ IF Alive THEN Trouble ELSE UNCHANGED troubles
        /\ CountMiss
        /\ conn' = [conn EXCEPT !.lost = @ \/ Silent(misses')]
  /\ GoOn
  /\ UNCHANGED <<target, state, recvVars, link, field, otherVars, wake, requests, present>>

(* _teardown_connection(): the sockets are closed, then the threads joined *)
(* for a while; one that is stuck stays.                                   *)
Close ==
  /\ loop.place = "close"
  /\ conn' = [conn EXCEPT !.lost = TRUE, !.open = FALSE]
  /\ Goto("join", loop.outcome)
  /\ UNCHANGED <<target, state, misses, recvVars, readerVars, otherVars, wake, requests, present>>

Join ==
  /\ loop.place = "join" /\ recv[conn.generation] # "recv"
  /\ IF loop.outcome = "lost" THEN Goto("after", "lost") ELSE At("top")
  /\ UNCHANGED <<target, state, misses, conn, recvVars, readerVars, otherVars, wake,
                 requests, present>>

(* _after_failure(): a pause, unless a sweep reaches the reader. *)
AfterFailure ==
  /\ loop.place = "after"
  /\ IF stop THEN At("top") /\ UNCHANGED state
     ELSE /\ state' = IF loop.outcome = "lost" THEN "lost" ELSE "connecting"
          /\ At("idle") \/ (discovery_enabled /\ link = "up" /\ At("top"))
  /\ UNCHANGED <<target, misses, conn, recvVars, readerVars, otherVars, wake, requests, present>>

(* _idle(): until the stop, a request that wants a connection, or the end  *)
(* of the pause; a search without discovery has none.                      *)
Idle ==
  /\ In("idle", "check")
  /\ IF stop THEN At("top") /\ UNCHANGED <<requests, target>>
     ELSE HandleRequests /\ IF Connects THEN At("top") ELSE GoOn
  /\ UNCHANGED <<state, misses, conn, recvVars, readerVars, otherVars, wake, present>>

IdleOver ==
  /\ In("idle", "sleep") /\ (target \/ discovery_enabled)
  /\ At("top")
  /\ UNCHANGED <<target, state, misses, conn, recvVars, readerVars, otherVars, wake,
                 requests, present>>

ConnectionThread ==
  \/ Top \/ Found \/ NotFound \/ Dial \/ Clear \/ Woken \/ Await \/ AwaitTimeout
  \/ Active \/ Probe \/ Close \/ Join \/ AfterFailure \/ Idle \/ IdleOver
------------------------------------------------------------------------------
(* The EVENT receive thread of connection g reads event.connection id: the *)
(* first one, or a new one (W-061).  Both are to be bound.                 *)
Hello(g) ==
  /\ recv[g] = "recv" /\ g = conn.generation /\ conn.open /\ Alive
  /\ \/ /\ session.id = NoId
        /\ session' = [session EXCEPT !.id = 1]
        /\ UNCHANGED <<troubles, conn>>
     \/ /\ session.id # NoId /\ Trouble
        /\ session' = [id |-> 3 - session.id, bound |-> FALSE]
        /\ conn' = [conn EXCEPT !.rebound = TRUE]
  /\ recv' = [recv EXCEPT ![g] = "wait"] /\ wake' = TRUE
  /\ UNCHANGED <<threadVars, sent, link, field, otherVars, requests, present>>

(* _maybe_bind_and_config() gets the bind lock. *)
Lock(g) ==
  /\ recv[g] = "wait" /\ ~Binding
  /\ IF g # conn.generation \/ session.id = NoId \/ session.bound
     THEN recv' = [recv EXCEPT ![g] = "recv"] /\ UNCHANGED state
     ELSE /\ recv' = [recv EXCEPT ![g] = "bind"]
          /\ state' = IF state = "active" THEN "configuring" ELSE state
  /\ UNCHANGED <<loop, target, misses, conn, session, sent, readerVars, otherVars, wake,
                 requests, present>>

(* The bind, the clock and the antennas have been sent ... *)
Configured(g) ==
  /\ recv[g] = "bind" /\ g = conn.generation /\ conn.open /\ link # "down"
  /\ recv' = [recv EXCEPT ![g] = "done"]
  /\ sent' = session.id
  /\ UNCHANGED <<threadVars, conn, session, readerVars, otherVars, wake, requests, present>>

(* ... or could not be; that is a loss unless the connection is gone.      *)
ConfigureFails(g) ==
  /\ recv[g] = "bind"
  /\ g # conn.generation \/ ~conn.open \/ ~Alive
  /\ recv' = [recv EXCEPT ![g] = "recv"]
  /\ IF g = conn.generation /\ ~conn.lost
     THEN conn' = [conn EXCEPT !.lost = TRUE] /\ wake' = TRUE
     ELSE UNCHANGED <<conn, wake>>
  /\ UNCHANGED <<threadVars, session, sent, readerVars, otherVars, requests, present>>

(* Mutant: the connection thread is not woken. *)
BoundUnnoticed(g) ==
  /\ recv[g] = "done"
  /\ session' = [session EXCEPT !.bound = @ \/ g = conn.generation]
  /\ recv' = [recv EXCEPT ![g] = "recv"]
  /\ UNCHANGED <<threadVars, conn, sent, readerVars, otherVars, wake, requests, present>>

(* Mutant: the generation is not looked at again. *)
BoundAnyway(g) ==
  /\ recv[g] = "done"
  /\ session' = [session EXCEPT !.bound = TRUE] /\ wake' = TRUE
  /\ recv' = [recv EXCEPT ![g] = "recv"]
  /\ UNCHANGED <<threadVars, conn, sent, readerVars, otherVars, requests, present>>

(* The session is bound, if it is still that of the thread: no join of a   *)
(* teardown times out between the look and the assignment.                 *)
Bound(g) ==
  /\ recv[g] = "done"
  /\ IF g = conn.generation THEN session' = [session EXCEPT !.bound = TRUE] /\ wake' = TRUE
                            ELSE UNCHANGED <<session, wake>>
  /\ recv' = [recv EXCEPT ![g] = "recv"]
  /\ UNCHANGED <<threadVars, conn, sent, readerVars, otherVars, requests, present>>

(* The thread ends: the reader has closed, the socket was closed, a newer  *)
(* connection is up, or the stop was seen.  The first is a loss.           *)
RecvEnds(g) ==
  /\ recv[g] = "recv"
  /\ g # conn.generation \/ ~conn.open \/ link = "down" \/ (link = "up" /\ conn.broken) \/ stop
  /\ recv' = [recv EXCEPT ![g] = "gone"]
  /\ IF g = conn.generation /\ ~conn.lost /\ ~stop
     THEN conn' = [conn EXCEPT !.lost = TRUE] /\ wake' = TRUE
     ELSE UNCHANGED <<conn, wake>>
  /\ UNCHANGED <<threadVars, session, sent, readerVars, otherVars, requests, present>>

RecvThread(g) ==
  Hello(g) \/ Lock(g) \/ Configured(g) \/ ConfigureFails(g) \/ Bound(g) \/ RecvEnds(g)
------------------------------------------------------------------------------
(* Mutant: the connection thread is not woken. *)
RequestUnnoticed ==
  /\ asked < MaxRequests /\ asked' = asked + 1
  /\ \E kind \in {"config", "reconnect", "discover"} : requests' = requests \cup {kind}
  /\ UNCHANGED <<threadVars, conn, recvVars, readerVars, stop, discovery_enabled, wake, present>>

(* The reporter thread queues a request and wakes the connection thread. *)
Request ==
  /\ asked < MaxRequests /\ asked' = asked + 1
  /\ \E kind \in {"config", "reconnect", "discover"} : requests' = requests \cup {kind}
  /\ wake' = TRUE
  /\ UNCHANGED <<threadVars, conn, recvVars, readerVars, stop, discovery_enabled, present>>

(* request_stop(). *)
StopClient ==
  /\ ~stop
  /\ stop' = TRUE /\ wake' = TRUE
  /\ UNCHANGED <<threadVars, conn, recvVars, readerVars, asked, discovery_enabled, requests, present>>

(* The link: packets vanish and come through again, or the reader is off   *)
(* and has forgotten its connections.                                      *)
LinkChanges ==
  /\ Trouble
  /\ link' \in {"up", "silent", "down"} \ {link}
  /\ conn' = [conn EXCEPT !.broken = @ \/ link' = "down"]
  /\ UNCHANGED <<threadVars, recvVars, field, otherVars, wake, requests, present>>

(* Tag lines reach the tracker on a connection the reader was configured   *)
(* on; on one that is gone they are lost; on a silent one they come later. *)
Delivering == conn.open /\ ~conn.lost /\ Alive /\ session.id # NoId /\ sent = session.id
                /\ recv[conn.generation] = "recv"
Delayed    == conn.open /\ ~conn.lost /\ ~Delivering /\ link = "silent" /\ ~conn.broken

(* mark_present() and mark_absent().  After the stop nothing looks at the  *)
(* presence any more.                                                      *)
Arrive(antenna) ==
  /\ antenna \notin field /\ ~Delayed /\ ~stop
  /\ field' = field \cup {antenna}
  /\ present' = IF Delivering THEN present \cup {antenna} ELSE present
  /\ UNCHANGED <<threadVars, conn, recvVars, link, troubles, otherVars, wake, requests>>

Depart(antenna) ==
  /\ antenna \in field /\ ~Delayed /\ ~stop
  /\ field' = field \ {antenna}
  /\ present' = IF Delivering THEN present \ {antenna} ELSE present
  /\ UNCHANGED <<threadVars, conn, recvVars, link, troubles, otherVars, wake, requests>>

ConnNext ==
  \/ ConnectionThread
  \/ \E g \in Generations : RecvThread(g)
  \/ Request \/ StopClient \/ LinkChanges
  \/ \E antenna \in Antennas : Arrive(antenna) \/ Depart(antenna)

(* Threads run, a timeout comes, a reader that answers does so in time,    *)
(* and a sweep made over and over finds the reader.                        *)
Fairness ==
  /\ WF_connVars(ConnectionThread) /\ SF_connVars(Found)
  /\ \A g \in Generations : WF_connVars(RecvThread(g))

ConnSpec     == ConnInit /\ [][ConnNext]_connVars
FairConnSpec == ConnSpec /\ Fairness
------------------------------------------------------------------------------
ConnTypeOK ==
  /\ loop \in Loop /\ target \in BOOLEAN /\ discovery_enabled \in BOOLEAN /\ misses \in 0..ProbeMaxMisses
  /\ state \in {"searching", "connecting", "configuring", "active", "lost"}
  /\ conn \in Conn /\ session \in Session /\ sent \in {NoId} \cup Ids
  /\ recv \in [Generations -> {"recv", "wait", "bind", "done", "gone"}]
  /\ wake \in BOOLEAN /\ requests \subseteq {"config", "reconnect", "discover"}
  /\ stop \in BOOLEAN /\ link \in {"up", "silent", "down"}
  /\ present \subseteq Antennas /\ field \subseteq Antennas
  /\ troubles \in 0..MaxTroubles /\ asked \in 0..MaxRequests

(* A session counts as bound only if the reader was configured for it on   *)
(* this very connection: an "active" reader does send its events, whatever *)
(* receive threads of older connections still do.                          *)
BoundIsConfigured == session.bound => session.id # NoId /\ sent = session.id

(* Who counts as present is in the field: the next pass of a tag is never  *)
(* swallowed as a repeat.  A new session id on the same connection is      *)
(* excepted, which does not reset the presence.                            *)
PresenceIsReal == Delivering /\ ~conn.rebound => present \subseteq field

(* Every connection but the first has its own cause: a request reconnects  *)
(* once, however the loop takes it, and a working connection is not given  *)
(* up for nothing.                                                         *)
ConnectionsHaveCause == conn.generation <= 1 + troubles + asked

(* No request is forgotten: the connection thread does not sleep over one, *)
(* nor in the wait that has no end, without a target and without discovery *)
(* (_idle, _wake).                                                         *)
RequestsAreTaken == requests # {} ~> requests = {} \/ stop

(* A link that has gone silent does not stay "active" for ever, and once   *)
(* the reader stays reachable it ends up active and bound.                 *)
Recovers ==
  /\ link = "silent" /\ state = "active" ~> link # "silent" \/ state # "active" \/ stop
  /\ <>[](link = "up" /\ ~stop /\ (target \/ discovery_enabled))
       => <>[](state = "active" /\ session.bound)

(* A stop ends the connection thread and the connection.                   *)
StopEnds == stop ~> loop.place = "ended" /\ ~conn.open
==============================================================================
