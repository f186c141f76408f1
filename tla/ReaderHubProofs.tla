---------------------------- MODULE ReaderHubProofs ----------------------------
(***************************************************************************)
(* Proofs about ReaderHub, for any number of callers, commands and states: *)
(* types, what the browsers are shown, searches only while awaited, and    *)
(* that the hub keeps the promise of Rendezvous; and about ReaderLink: the *)
(* reader-service is the environment that ReaderHub assumes.               *)
(***************************************************************************)
EXTENDS ReaderLink, WellFoundedInduction, TLAPS

(* What is shown is what the key was taken from. *)
KeyIsShown == published.key = shown

(* The waiters of a request are the callers that hold it. *)
WaitersAgree ==
  /\ \A c \in Callers : caller[c].pc # "idle" => caller[c].id \in Ids
  /\ \A id \in Ids, c \in Callers :
       c \in requests[id].waiters <=> caller[c].pc # "idle" /\ caller[c].id = id

(* The request in flight has been issued, is open and is awaited. *)
PendingIsAwaited ==
  discovery # None => /\ discovery < next_id
                      /\ ~requests[discovery].done
                      /\ requests[discovery].waiters # {}

(* A queued search is that of the request in flight. *)
QueuedIsPending ==
  \A command \in commands :
    command.id < next_id /\ (command.type = "discover" => command.id = discovery)

(* No request is answered before it is issued. *)
UnissuedAreOpen == \A id \in Ids : id >= next_id => ~requests[id].done

HubInv == /\ TypeOK /\ ShownIsCurrent /\ KeyIsShown
          /\ WaitersAgree /\ PendingIsAwaited /\ QueuedIsPending /\ UnissuedAreOpen

(* A request the reader-service has on its hands, has a result of, or has  *)
(* sent one of, was given to it.                                           *)
ResultsAreOfGiven ==
  /\ reader.result \in {None} \cup Given
  /\ reader.sweep \in {Idle, Automatic} \cup Given
  /\ \A post \in posts : post.result \in {None} \cup Given

(* So were the commands in a reply and those that wait for the connection  *)
(* thread.                                                                 *)
CommandsAreGiven ==
  /\ \A command \in reader.pending : command.id \in Given
  /\ \A r \in reply : \A command \in r.commands : command.id \in Given

(* A command in a reply does not wait yet, and no discover command of      *)
(* either is one that is carried out or has a result.                      *)
HandsApart ==
  LET InHand == {reader.sweep, reader.result}
  IN  /\ \A r \in reply : \A command \in r.commands :
           /\ command \notin reader.pending
           /\ command.type = "discover" => command.id \notin InHand
      /\ \A command \in reader.pending : command.type = "discover" => command.id \notin InHand

LinkInv == HubInv /\ LinkTypeOK /\ ResultsAreOfGiven /\ CommandsAreGiven /\ HandsApart

USE StatesAssumption, TimesAssumption, BoundsAssumption
------------------------------------------------------------------------------
(* The hub starts with nothing known and nothing asked. *)
LEMMA InitHub == Init => HubInv
<1> SUFFICES ASSUME Init PROVE HubInv
  OBVIOUS
<1>1. TypeOK
  <2>1. requests \in [Ids -> Request]
    BY DEF Init, Request
  <2>2. caller \in [Callers -> Caller]
    BY DEF Init, Caller, None
  <2>3. /\ published \in [key : States \cup {"none", "unknown"}, ago : 0..RefreshAfter]
        /\ shown \in States \cup {"none", "unknown"}
    BY DEF Init
  <2>4. status \in States \cup {"none"} /\ stale \in BOOLEAN /\ commands \subseteq Command
    BY DEF Init
  <2>5. age \in 0..StaleAfter /\ next_id \in 1..(MaxCommands + 1) /\ discovery = None
    BY TimesAssumption, BoundsAssumption DEF Init
  <2> QED BY <2>1, <2>2, <2>3, <2>4, <2>5 DEF TypeOK
<1>2. ShownIsCurrent /\ KeyIsShown
  BY DEF Init, ShownIsCurrent, KeyIsShown
<1>3. WaitersAgree /\ UnissuedAreOpen
  BY DEF Init, WaitersAgree, UnissuedAreOpen
<1>4. PendingIsAwaited /\ QueuedIsPending
  BY DEF Init, PendingIsAwaited, QueuedIsPending
<1> QED BY <1>1, <1>2, <1>3, <1>4 DEF HubInv

(* Time passes: nothing but the two ages changes. *)
LEMMA TickHub == HubInv /\ Tick => HubInv'
BY DEF Tick, HubInv, TypeOK, ShownIsCurrent, KeyIsShown, WaitersAgree, PendingIsAwaited,
       QueuedIsPending, UnissuedAreOpen, requestVars, statusVars

(* The staleness check publishes what it finds. *)
LEMMA CheckStaleHub == HubInv /\ CheckStale => HubInv'
BY DEF CheckStale, Publish, HubInv, TypeOK, ShownIsCurrent, KeyIsShown, WaitersAgree,
       PendingIsAwaited, QueuedIsPending, UnissuedAreOpen, requestVars, statusVars

(* A reconnect request enters the queue under a fresh id. *)
LEMMA ReconnectHub == HubInv /\ QueueReconnect => HubInv'
BY DEF QueueReconnect, Enqueue, HubInv, TypeOK, ShownIsCurrent, KeyIsShown, WaitersAgree,
       PendingIsAwaited, QueuedIsPending, UnissuedAreOpen, statusVars, Command, Ids, None

(* A call that is refused changes nothing but its answer. *)
LEMMA RefuseHub == ASSUME NEW c \in Callers, HubInv, Refuse(c) PROVE HubInv'
BY DEF Refuse, HubInv, TypeOK, ShownIsCurrent, KeyIsShown, WaitersAgree,
       PendingIsAwaited, QueuedIsPending, UnissuedAreOpen, statusVars, Caller

(* The end of a wait moves the caller on. *)
LEMMA StopWaitingHub == ASSUME NEW c \in Callers, HubInv, StopWaiting(c) PROVE HubInv'
BY DEF StopWaiting, HubInv, TypeOK, ShownIsCurrent, KeyIsShown, WaitersAgree,
       PendingIsAwaited, QueuedIsPending, UnissuedAreOpen, statusVars, Caller

(* A call joins the request in flight, or issues one under a fresh id.     *)
LEMMA AskHub == ASSUME NEW c \in Callers, HubInv, Ask(c) PROVE HubInv'
<1> USE DEF HubInv
<1>1. CASE discovery # None
  <2>1. Join(c, discovery) /\ discovery \in Ids /\ UNCHANGED <<commands, next_id, discovery>>
    BY <1>1 DEF Ask, TypeOK
  <2>2. TypeOK'
    BY <2>1 DEF Ask, Join, TypeOK, statusVars, Request, Caller
  <2>3. WaitersAgree'
    BY <2>1 DEF Ask, Join, TypeOK, WaitersAgree, Request, Caller
  <2>4. PendingIsAwaited' /\ QueuedIsPending' /\ UnissuedAreOpen'
    BY <2>1 DEF Join, TypeOK, PendingIsAwaited, QueuedIsPending, UnissuedAreOpen, Request
  <2> QED BY <2>2, <2>3, <2>4 DEF Ask, ShownIsCurrent, KeyIsShown, statusVars
<1>2. CASE discovery = None
  <2>1. /\ Enqueue("discover") /\ discovery' = next_id /\ Join(c, next_id)
        /\ next_id \in Ids
    BY <1>2 DEF Ask, Enqueue, TypeOK, Ids
  <2>2. TypeOK'
    BY <2>1 DEF Ask, Enqueue, Join, TypeOK, statusVars, Request, Caller, Command, Ids
  <2>3. WaitersAgree'
    BY <2>1 DEF Ask, Join, TypeOK, WaitersAgree, Request, Caller
  <2>4. PendingIsAwaited'
    BY <2>1 DEF Enqueue, Join, TypeOK, PendingIsAwaited, UnissuedAreOpen, Request, Ids
  <2>5. QueuedIsPending'
    BY <1>2, <2>1 DEF Enqueue, TypeOK, QueuedIsPending, Command, Ids, None
  <2>6. UnissuedAreOpen'
    BY <2>1 DEF Enqueue, Join, TypeOK, UnissuedAreOpen, Request, Ids
  <2> QED BY <2>2, <2>3, <2>4, <2>5, <2>6 DEF Ask, ShownIsCurrent, KeyIsShown, statusVars
<1> QED BY <1>1, <1>2

(* A caller leaves; the last one to give up withdraws the request. *)
LEMMA LeaveHub == ASSUME NEW c \in Callers, HubInv, Leave(c) PROVE HubInv'
<1> USE DEF HubInv
<1> DEFINE id == caller[c].id
<1>1. id \in Ids /\ caller[c].pc = "leaving"
  BY DEF Leave, WaitersAgree
<1>2. TypeOK'
  BY <1>1 DEF Leave, Outcome, QueueAfterLeave, TypeOK, statusVars, Request, Caller, None
<1>3. WaitersAgree'
  BY <1>1 DEF Leave, TypeOK, WaitersAgree, Request, Caller
<1>4. PendingIsAwaited'
  BY <1>1 DEF Leave, Withdraws, TypeOK, PendingIsAwaited, Request
<1>5. QueuedIsPending'
  BY <1>1 DEF Leave, Withdraws, QueueAfterLeave, TypeOK, QueuedIsPending, Command
<1>6. UnissuedAreOpen'
  BY <1>1 DEF Leave, TypeOK, UnissuedAreOpen, Request
<1> QED BY <1>2, <1>3, <1>4, <1>5, <1>6 DEF Leave, ShownIsCurrent, KeyIsShown, statusVars

(* A heartbeat: status and publication, the answer, and the command that   *)
(* leaves the queue.                                                       *)
LEMMA HeardHub == ASSUME NEW heartbeat \in Heartbeat, HubInv, Heard(heartbeat) PROVE HubInv'
<1> USE DEF HubInv
<1>1. heartbeat.state \in States /\ commands' \subseteq commands
  BY DEF Heard, Ingest, QueueAfter, Heartbeat
<1>2. TypeOK' /\ ShownIsCurrent' /\ KeyIsShown'
  <2>1. ShownIsCurrent' /\ KeyIsShown'
    BY <1>1 DEF Heard, Ingest, Publish, ShownIsCurrent, KeyIsShown
  <2>2. requests' \in [Ids -> Request] /\ discovery' \in {None} \cup Ids
    <3>1. TypeOK
      OBVIOUS
    <3>2. CASE Answers(heartbeat)
      <4>1. discovery \in Ids
        BY <3>1, <3>2 DEF Answers, TypeOK
      <4>2. /\ requests' = [requests EXCEPT ![discovery].done = TRUE]
            /\ discovery' = None
        BY <3>2 DEF Heard, Ingest
      <4> QED BY <3>1, <4>1, <4>2 DEF TypeOK, Request
    <3>3. CASE ~Answers(heartbeat)
      <4>1. UNCHANGED <<requests, discovery>>
        BY <3>3 DEF Heard, Ingest
      <4> QED BY <3>1, <4>1 DEF TypeOK
    <3> QED BY <3>2, <3>3
  <2>3. /\ published' \in [key : States \cup {"none", "unknown"}, ago : 0..RefreshAfter]
        /\ shown' \in States \cup {"none", "unknown"}
    <3>1. CASE UNCHANGED <<published, shown>>
      BY <3>1 DEF TypeOK
    <3>2. CASE Publish(heartbeat.state)
      BY <1>1, <3>2 DEF Publish
    <3> QED BY <3>1, <3>2 DEF Heard, Ingest
  <2>4. /\ status' \in States \cup {"none"} /\ age' \in 0..StaleAfter /\ stale' \in BOOLEAN
        /\ commands' \subseteq Command /\ next_id' = next_id /\ caller' = caller
    <3>1. /\ status' = heartbeat.state /\ age' = 0 /\ stale' = FALSE
          /\ next_id' = next_id /\ caller' = caller
      BY DEF Heard, Ingest
    <3>2. 0 \in 0..StaleAfter
      OBVIOUS
    <3>3. commands' \subseteq Command
      BY <1>1 DEF TypeOK
    <3> QED BY <1>1, <3>1, <3>2, <3>3
  <2>5. TypeOK
    OBVIOUS
  <2> QED BY <2>1, <2>2, <2>3, <2>4, <2>5 DEF TypeOK
<1>3. CASE Answers(heartbeat)
  <2>1. /\ discovery \in Ids /\ discovery' = None
        /\ requests' = [requests EXCEPT ![discovery].done = TRUE]
        /\ \A command \in commands : command.id # discovery
        /\ UNCHANGED <<next_id, caller>>
    BY <1>3 DEF Heard, Given, Ingest, Answers, TypeOK
  <2>2. WaitersAgree'
    BY <2>1 DEF TypeOK, WaitersAgree, Request
  <2>3. PendingIsAwaited' /\ QueuedIsPending'
    BY <1>1, <2>1 DEF PendingIsAwaited, QueuedIsPending
  <2>4. UnissuedAreOpen'
    BY <2>1 DEF TypeOK, UnissuedAreOpen, PendingIsAwaited, Request, Ids, None
  <2> QED BY <1>2, <2>2, <2>3, <2>4
<1>4. CASE ~Answers(heartbeat)
  <2>1. UNCHANGED <<requests, discovery, next_id, caller>>
    BY <1>4 DEF Heard, Ingest
  <2> QED
    BY <1>1, <1>2, <2>1 DEF WaitersAgree, PendingIsAwaited, QueuedIsPending, UnissuedAreOpen
<1> QED BY <1>3, <1>4

(* Every step keeps the invariant. *)
LEMMA HubStep == HubInv /\ [Next]_vars => HubInv'
<1> SUFFICES ASSUME HubInv, [Next]_vars PROVE HubInv'
  OBVIOUS
<1>1. CASE Tick BY <1>1, TickHub
<1>2. CASE CheckStale BY <1>2, CheckStaleHub
<1>3. CASE QueueReconnect BY <1>3, ReconnectHub
<1>4. ASSUME NEW heartbeat \in Heartbeat, Heard(heartbeat) PROVE HubInv'
  BY <1>4, HeardHub
<1>5. ASSUME NEW c \in Callers, Refuse(c) \/ Ask(c) \/ StopWaiting(c) \/ Leave(c)
      PROVE HubInv'
  BY <1>5, RefuseHub, AskHub, StopWaitingHub, LeaveHub
<1>6. CASE UNCHANGED vars
  BY <1>6 DEF vars, HubInv, TypeOK, ShownIsCurrent, KeyIsShown, WaitersAgree,
              PendingIsAwaited, QueuedIsPending, UnissuedAreOpen
<1> QED BY <1>1, <1>2, <1>3, <1>4, <1>5, <1>6 DEF Next

(* The invariant of the hub. *)
THEOREM HubInvariant == Spec => []HubInv
<1> QED BY InitHub, HubStep, PTL DEF Spec

(* The hub's state is well formed however heartbeats and calls come. *)
THEOREM HubTypeCorrect == Spec => []TypeOK
<1>1. HubInv => TypeOK
  BY DEF HubInv
<1> QED BY <1>1, HubInvariant, PTL

(* Browsers are always told what the hub believes. *)
THEOREM AlwaysShownCurrent == Spec => []ShownIsCurrent
<1>1. HubInv => ShownIsCurrent
  BY DEF HubInv
<1> QED BY <1>1, HubInvariant, PTL

(* A search in the queue is always one that somebody waits for. *)
THEOREM SearchAlwaysAwaited == Spec => []SearchIsAwaited
<1>1. HubInv => SearchIsAwaited
  <2> SUFFICES ASSUME HubInv, NEW command \in commands, command.type = "discover"
               PROVE \E c \in Callers : caller[c].pc # "idle" /\ caller[c].id = command.id
    BY DEF SearchIsAwaited
  <2>1. command.id \in Ids /\ command.id = discovery
    BY DEF HubInv, TypeOK, QueuedIsPending, Command
  <2>2. PICK c \in Callers : c \in requests[discovery].waiters
    BY <2>1 DEF HubInv, TypeOK, PendingIsAwaited, Request, Ids, None
  <2> QED BY <2>1, <2>2 DEF HubInv, WaitersAgree
<1> QED BY <1>1, HubInvariant, PTL
------------------------------------------------------------------------------
(* A step of the hub is, to the callers, a step of Rendezvous or nothing.  *)
LEMMA HubStepKeepsPromise ==
  ASSUME HubInv, [Next]_vars
  PROVE  [Promise!Next]_(Promise!vars)
<1> DEFINE phase == [c \in Callers |-> Phase(c)]
           answer == [c \in Callers |-> caller[c].answer]
<1> USE DEF HubInv
<1>1. ASSUME UNCHANGED <<requests, caller>>
      PROVE  UNCHANGED <<phase, answer>>
  BY <1>1 DEF Phase
<1>2. CASE Tick \/ CheckStale \/ QueueReconnect \/ UNCHANGED vars
  <2>1. UNCHANGED <<requests, caller>>
    BY <1>2 DEF Tick, CheckStale, QueueReconnect, vars, requestVars
  <2> QED BY <1>1, <2>1 DEF Promise!vars
<1>3. ASSUME NEW heartbeat \in Heartbeat, Heard(heartbeat)
      PROVE  [Promise!Next]_(Promise!vars)
  <2>1. CASE ~Answers(heartbeat)
    BY <1>1, <1>3, <2>1 DEF Heard, Ingest, Promise!vars
  <2>2. CASE Answers(heartbeat)
    <3> DEFINE calls == {c \in Callers : caller[c].pc # "idle" /\ caller[c].id = discovery}
    <3>1. /\ discovery \in Ids /\ ~requests[discovery].done /\ caller' = caller
          /\ requests' = [requests EXCEPT ![discovery].done = TRUE]
      BY <1>3, <2>2 DEF Heard, Ingest, Answers, TypeOK, PendingIsAwaited
    <3>2. \A c \in calls : phase[c] = "asking"
      BY <3>1 DEF Phase
    <3>3. \A c \in Callers :
            Phase(c)' = IF c \in calls THEN "answered" ELSE Phase(c)
      BY <3>1 DEF Phase, TypeOK, WaitersAgree, Request
    <3>4. Promise!Answer(calls)
      BY <3>1, <3>2, <3>3 DEF Promise!Answer
    <3> QED BY <3>4 DEF Promise!Next
  <2> QED BY <2>1, <2>2
<1>4. ASSUME NEW c \in Callers, Refuse(c)
      PROVE  Promise!Next
  <2>1. /\ caller[c].pc = "idle" /\ requests' = requests
        /\ caller' = [caller EXCEPT ![c].answer = "unavailable"]
    BY <1>4 DEF Refuse
  <2>2. \A d \in Callers : Phase(d)' = Phase(d)
    BY <2>1 DEF Phase, TypeOK, Caller
  <2>3. answer' = [answer EXCEPT ![c] = "unavailable"]
    BY <2>1 DEF TypeOK, Caller
  <2>4. Promise!Refuse(c)
    BY <2>1, <2>2, <2>3 DEF Promise!Refuse, Phase
  <2> QED BY <2>4 DEF Promise!Next
<1>5. ASSUME NEW c \in Callers, Ask(c)
      PROVE  Promise!Next
  <2>1. PICK id \in Ids : ~requests[id].done /\ Join(c, id)
    <3>1. CASE discovery # None
      BY <1>5, <3>1 DEF Ask, TypeOK, PendingIsAwaited
    <3>2. CASE discovery = None
      BY <1>5, <3>2 DEF Ask, Enqueue, TypeOK, UnissuedAreOpen, Ids
    <3> QED BY <3>1, <3>2
  <2>2. \A d \in Ids : requests'[d].done = requests[d].done
    BY <2>1 DEF Join, TypeOK, Request
  <2>3. \A d \in Callers : Phase(d)' = IF d = c THEN "asking" ELSE Phase(d)
    BY <2>1, <2>2 DEF Join, Phase, TypeOK, WaitersAgree, Caller
  <2>4. answer' = [answer EXCEPT ![c] = "none"]
    BY <2>1 DEF Join, TypeOK, Caller
  <2>5. caller[c].pc = "idle"
    BY <1>5 DEF Ask
  <2>6. Promise!Ask(c)
    BY <2>3, <2>4, <2>5 DEF Promise!Ask, Phase
  <2> QED BY <2>6 DEF Promise!Next
<1>6. ASSUME NEW c \in Callers, StopWaiting(c)
      PROVE  UNCHANGED <<phase, answer>>
  <2>1. /\ caller[c].pc = "waiting" /\ requests' = requests
        /\ caller' = [caller EXCEPT ![c].pc = "leaving"]
    BY <1>6 DEF StopWaiting
  <2>2. \A d \in Callers : Phase(d)' = Phase(d)
    BY <2>1 DEF Phase, TypeOK, Caller
  <2>3. \A d \in Callers : caller'[d].answer = caller[d].answer
    BY <2>1 DEF TypeOK, Caller
  <2> QED BY <2>2, <2>3
<1>7. ASSUME NEW c \in Callers, Leave(c)
      PROVE  Promise!Next
  <2> DEFINE id == caller[c].id
             result == IF requests[id].done THEN "found" ELSE "timeout"
  <2>1. /\ caller[c].pc = "leaving" /\ id \in Ids
        /\ requests' = [requests EXCEPT ![id].waiters = @ \ {c}]
        /\ caller' = [caller EXCEPT ![c] = [pc |-> "idle", id |-> None, answer |-> result]]
    BY <1>7 DEF Leave, Outcome, WaitersAgree
  <2>2. \A d \in Ids : requests'[d].done = requests[d].done
    BY <2>1 DEF TypeOK, Request
  <2>3. \A d \in Callers : Phase(d)' = IF d = c THEN "idle" ELSE Phase(d)
    BY <2>1, <2>2 DEF Phase, TypeOK, WaitersAgree, Caller
  <2>4. answer' = [answer EXCEPT ![c] = result]
    BY <2>1 DEF TypeOK, Caller
  <2>5. phase[c] = IF requests[id].done THEN "answered" ELSE "asking"
    BY <2>1 DEF Phase
  <2>6. Promise!Return(c) \/ Promise!GiveUp(c)
    BY <2>3, <2>4, <2>5 DEF Promise!Return, Promise!GiveUp
  <2> QED BY <2>6 DEF Promise!Next
<1> QED BY <1>2, <1>3, <1>4, <1>5, <1>6, <1>7 DEF Next, Promise!vars

(* The hub implements Rendezvous: whoever has been answered is told so, and *)
(* nobody is given an answer that did not come.                            *)
THEOREM PromiseAlwaysKept == Spec => KeepsPromise
<1>1. Init => Promise!Init
  BY DEF Init, Promise!Init, Phase
<1>2. HubInv /\ [Next]_vars => [Promise!Next]_(Promise!vars)
  BY HubStepKeepsPromise
<1> QED BY <1>1, <1>2, HubInvariant, PTL DEF Spec, KeepsPromise, Promise!Spec
------------------------------------------------------------------------------
(* A set of numbers has a least one. *)
LEMMA Least ==
  ASSUME NEW S \in SUBSET Nat, S # {}
  PROVE  \E i \in S : \A j \in S : i <= j
<1>1. PICK i \in S : \A j \in S : <<j, i>> \notin OpToRel(<, Nat)
  BY NatLessThanWellFounded, WFMin
<1>2. ASSUME NEW j \in S PROVE i <= j
  <2>1. <<j, i>> \notin OpToRel(<, Nat)
    BY <1>1
  <2>2. i \in Nat /\ j \in Nat
    OBVIOUS
  <2>3. ~(j < i)
    BY <2>1, <2>2 DEF OpToRel
  <2> QED BY <2>2, <2>3
<1> QED BY <1>2

(* A set of ids has a greatest one.                                        *)
LEMMA Greatest ==
  ASSUME NEW S \in SUBSET Ids, S # {}
  PROVE  \E i \in S : \A j \in S : j <= i
<1> DEFINE left == {MaxCommands - i : i \in S}
<1>1. \A i \in S : i \in Nat /\ MaxCommands - i \in Nat /\ MaxCommands - i \in left
  BY DEF Ids
<1> HIDE DEF left
<1>2. left \in SUBSET Nat /\ left # {}
  BY <1>1 DEF left
<1>3. PICK n \in left : \A m \in left : n <= m
  BY <1>2, Least
<1>4. PICK i \in S : n = MaxCommands - i
  BY DEF left
<1> QED BY <1>1, <1>3, <1>4

(* The newest discover command is one of those that wait.                  *)
LEMMA NewestWaits ==
  ASSUME LinkTypeOK, NEW default
  PROVE  \/ Newest(default) = default
         \/ \E command \in reader.pending :
              command.type = "discover" /\ command.id = Newest(default)
<1> DEFINE ids == {command.id : command \in {c \in reader.pending : c.type = "discover"}}
<1>1. CASE ids = {}
  BY <1>1 DEF Newest
<1>2. CASE ids # {}
  <2>1. ids \in SUBSET Ids
    BY DEF LinkTypeOK, Reader, Command
  <2>2. \E id \in ids : \A other \in ids : other <= id
    BY <1>2, <2>1, Greatest
  <2>3. Newest(default) = CHOOSE id \in ids : \A other \in ids : other <= id
    BY <1>2 DEF Newest
  <2>4. Newest(default) \in ids
    BY <2>2, <2>3
  <2> QED BY <2>4
<1> QED BY <1>1, <1>2

(* No step of the hub takes a command back that the reader-service has.    *)
LEMMA GivenGrows ==
  ASSUME HubInv, [Next]_vars PROVE Given \subseteq Given'
<1> SUFFICES ASSUME NEW id \in Given PROVE id \in Given'
  OBVIOUS
<1>1. id \in Ids /\ id < next_id /\ \A command \in commands : command.id # id
  BY DEF Given
<1>2. next_id \in Nat
  BY DEF HubInv, TypeOK
<1>3. CASE UNCHANGED <<next_id, commands>>
  BY <1>1, <1>3 DEF Given
<1>4. CASE next_id' = next_id /\ commands' \subseteq commands
  BY <1>1, <1>4 DEF Given
<1>5. CASE \E type \in {"discover", "reconnect"} : Enqueue(type)
  <2>1. PICK type \in {"discover", "reconnect"} :
          /\ commands' = commands \cup {[id |-> next_id, type |-> type]}
          /\ next_id' = next_id + 1
    BY <1>5 DEF Enqueue
  <2>2. id < next_id' /\ \A command \in commands' : command.id # id
    BY <1>1, <1>2, <2>1 DEF Ids
  <2> QED BY <1>1, <2>2 DEF Given
<1>6. \/ UNCHANGED <<next_id, commands>>
      \/ next_id' = next_id /\ commands' \subseteq commands
      \/ \E type \in {"discover", "reconnect"} : Enqueue(type)
  BY DEF Next, vars, Tick, CheckStale, QueueReconnect, Heard, Ingest, QueueAfter, Refuse, Ask,
         StopWaiting, Leave, QueueAfterLeave, requestVars
<1> QED BY <1>3, <1>4, <1>5, <1>6

(* What happens in the backend alone touches nothing the reader-service    *)
(* has.                                                                    *)
LEMMA BackendLink ==
  ASSUME LinkInv, Backend, UNCHANGED <<reader, posts, reply>> PROVE LinkInv' /\ Next
<1>1. Next
  BY DEF Backend, Next
<1>2. HubInv' /\ Given \subseteq Given'
  BY <1>1, HubStep, GivenGrows DEF LinkInv
<1>3. LinkTypeOK'
  BY <1>2 DEF LinkInv, HubInv, LinkTypeOK
<1> QED
  BY <1>1, <1>2, <1>3 DEF LinkInv, ResultsAreOfGiven, CommandsAreGiven, HandsApart

(* A step that leaves the hub alone keeps the hub's part.                  *)
LEMMA HubUntouched ==
  ASSUME LinkInv, UNCHANGED vars
  PROVE  HubInv' /\ TypeOK' /\ Given' = Given
<1>1. HubInv'
  BY HubStep DEF LinkInv
<1> QED BY <1>1 DEF HubInv, Given, vars

(* A heartbeat arrives: it is one the hub may be sent, and what the reply  *)
(* carries was in the queue until now.                                     *)
LEMMA ArriveLink ==
  ASSUME LinkInv, NEW post \in posts, Arrive(post) PROVE LinkInv' /\ Next
<1> DEFINE heartbeat == [state |-> post.state, discovery |-> post.result]
<1>1. /\ Ingest(heartbeat) /\ posts' = posts \ {post} /\ reader' = reader
      /\ reply' = IF post.awaited
                  THEN {[result |-> post.result, commands |-> Delivered(heartbeat)]}
                  ELSE reply
  BY DEF Arrive
<1>2. post \in Post /\ post.result \in {None} \cup Given
  BY DEF LinkInv, LinkTypeOK, ResultsAreOfGiven
<1>3. heartbeat \in Heartbeat /\ Heard(heartbeat)
  BY <1>1, <1>2 DEF Post, Heartbeat, Heard
<1>4. Next
  BY <1>3 DEF Next
<1>5. HubInv' /\ Given \subseteq Given'
  BY <1>4, HubStep, GivenGrows DEF LinkInv
<1>6. /\ Delivered(heartbeat) \subseteq commands
      /\ commands' = commands \ Delivered(heartbeat) /\ next_id' = next_id
  BY <1>1 DEF Ingest, QueueAfter, Delivered
<1>7. ASSUME NEW command \in Delivered(heartbeat)
      PROVE  command \in Command /\ command.id \in Given' \ Given
  <2>1. /\ command \in commands /\ command \in Command /\ command.id \in Ids
        /\ command.id < next_id
    BY <1>6 DEF LinkInv, HubInv, TypeOK, QueuedIsPending, Command
  <2>2. command.id \notin Given
    BY <2>1 DEF Given
  <2>3. \A other \in commands' : other.id # command.id
    <3> SUFFICES ASSUME NEW other \in commands, other.id = command.id
                 PROVE  other \in Delivered(heartbeat)
      BY <1>6
    <3> QED BY DEF Delivered
  <2> QED BY <1>6, <2>1, <2>2, <2>3 DEF Given
<1>8. LinkTypeOK'
  <2>1. reply' \subseteq Reply
    BY <1>1, <1>2, <1>7 DEF LinkInv, LinkTypeOK, Post, Reply
  <2> QED BY <1>1, <1>5, <2>1 DEF LinkInv, LinkTypeOK, HubInv
<1>9. ResultsAreOfGiven' /\ CommandsAreGiven'
  BY <1>1, <1>5, <1>7 DEF LinkInv, ResultsAreOfGiven, CommandsAreGiven
<1>10. HandsApart'
  <2>1. \A command \in Delivered(heartbeat) :
          /\ command \notin reader.pending
          /\ command.id \notin {reader.sweep, reader.result}
    <3>1. \A command \in Delivered(heartbeat) :
            command.id \in Ids /\ command.id \notin {None, Idle, Automatic}
      BY <1>7 DEF Command, Ids, None, Idle, Automatic
    <3> QED BY <1>7, <3>1 DEF LinkInv, ResultsAreOfGiven, CommandsAreGiven
  <2> QED BY <1>1, <2>1 DEF LinkInv, HandsApart
<1> QED BY <1>4, <1>5, <1>8, <1>9, <1>10 DEF LinkInv

(* The reply arrives: what it carries goes to the connection thread.       *)
LEMMA ReceiveLink ==
  ASSUME LinkInv, NEW r \in reply, Receive(r) PROVE LinkInv'
<1>1. /\ reader' = [reader EXCEPT !.result  = IF @ = r.result THEN None ELSE @,
                                 !.pending = @ \cup r.commands]
      /\ reply' = {} /\ UNCHANGED <<vars, posts>>
  BY DEF Receive
<1>2. HubInv' /\ TypeOK' /\ Given' = Given
  BY <1>1, HubUntouched
<1>3. reader \in Reader /\ r \in Reply
  BY DEF LinkInv, LinkTypeOK
<1>4. reader' \in Reader
  BY <1>1, <1>3 DEF Reader, Reply
<1>5. /\ reader'.result \in {reader.result, None} /\ reader'.sweep = reader.sweep
      /\ reader'.pending = reader.pending \cup r.commands
  BY <1>1, <1>3 DEF Reader
<1>6. LinkTypeOK' /\ ResultsAreOfGiven' /\ CommandsAreGiven'
  BY <1>1, <1>2, <1>4, <1>5
     DEF LinkInv, LinkTypeOK, ResultsAreOfGiven, CommandsAreGiven
<1>7. \A command \in reader.pending \cup r.commands : command.id # None
  BY <1>3 DEF Reader, Reply, Command, Ids, None
<1> QED BY <1>1, <1>2, <1>5, <1>6, <1>7 DEF LinkInv, HandsApart

(* The steps of the reader-service that deal with commands.                *)
LEMMA HandleLink == ASSUME LinkInv, Handle \/ SweepDone \/ AutoSweep PROVE LinkInv'
<1>1. UNCHANGED <<vars, posts, reply>>
  BY DEF Handle, SweepDone, AutoSweep
<1>2. HubInv' /\ TypeOK' /\ Given' = Given
  BY <1>1, HubUntouched
<1>3. reader \in Reader /\ LinkTypeOK
  BY DEF LinkInv, LinkTypeOK
<1>4. \A default : \/ Newest(default) = default
                   \/ \E command \in reader.pending :
                        command.type = "discover" /\ command.id = Newest(default)
  BY <1>3, NewestWaits
<1>5. /\ \A command \in reader.pending : command \in Command /\ command.id \in Given
      /\ \A r \in reply : \A command \in r.commands :
           command \in Command /\ command.id \in Given
  BY DEF LinkInv, LinkTypeOK, CommandsAreGiven, Reader, Reply
<1>6. CASE Handle
  <2>1. reader' = [reader EXCEPT !.pending = {}, !.sweep = Newest(Idle)]
    BY <1>6 DEF Handle
  <2>2. Newest(Idle) \in {Idle} \cup Given
    BY <1>4, <1>5
  <2>3. /\ reader' \in Reader /\ reader'.pending = {} /\ reader'.sweep = Newest(Idle)
        /\ reader'.result = reader.result
    BY <1>3, <2>1, <2>2 DEF Reader, Given
  <2>4. ASSUME NEW r \in reply, NEW command \in r.commands, command.type = "discover"
        PROVE  command.id \notin {Newest(Idle), reader.result}
    <3>1. command \in Command /\ command.id # Idle
      BY <1>5 DEF Command, Ids, Idle
    <3>2. \A other \in reader.pending : other.type = "discover" => other.id # command.id
      <4> SUFFICES ASSUME NEW other \in reader.pending,
                          other.type = "discover", other.id = command.id
                   PROVE  FALSE
        OBVIOUS
      <4>1. other = command
        BY <1>5, <2>4, <3>1 DEF Command
      <4> QED BY <4>1, <2>4 DEF LinkInv, HandsApart
    <3>3. command.id # Newest(Idle)
      BY <1>4, <3>1, <3>2
    <3> QED BY <2>4, <3>3 DEF LinkInv, HandsApart
  <2>5. HandsApart'
    BY <1>1, <2>3, <2>4 DEF HandsApart
  <2> QED BY <1>1, <1>2, <2>2, <2>3, <2>5
          DEF LinkInv, LinkTypeOK, ResultsAreOfGiven, CommandsAreGiven
<1>7. CASE SweepDone
  <2> DEFINE id == Newest(reader.sweep)
  <2>1. reader' = [reader EXCEPT !.sweep   = Idle,
                                 !.pending = {c \in @ : c.type # "discover"},
                                 !.result  = IF id # Automatic THEN id ELSE @]
    BY <1>7 DEF SweepDone
  <2>2. id \in {Automatic} \cup Given
    BY <1>4, <1>5, <1>7 DEF SweepDone, LinkInv, ResultsAreOfGiven
  <2>3. reader.result \in {None} \cup Given
    BY DEF LinkInv, ResultsAreOfGiven
  <2>4. /\ reader' \in Reader /\ reader'.sweep = Idle
        /\ reader'.pending = {c \in reader.pending : c.type # "discover"}
        /\ reader'.result = IF id # Automatic THEN id ELSE reader.result
        /\ reader'.result \in {None} \cup Given
    BY <1>3, <2>1, <2>2, <2>3 DEF Reader, Given
  <2>5. ASSUME NEW r \in reply, NEW command \in r.commands, command.type = "discover"
        PROVE  command.id \notin {Idle, id, reader.result}
    <3>1. command \in Command /\ command.id # Idle
      BY <1>5 DEF Command, Ids, Idle
    <3>2. \A other \in reader.pending : other.type = "discover" => other.id # command.id
      <4> SUFFICES ASSUME NEW other \in reader.pending,
                          other.type = "discover", other.id = command.id
                   PROVE  FALSE
        OBVIOUS
      <4>1. other = command
        BY <1>5, <2>5, <3>1 DEF Command
      <4> QED BY <4>1, <2>5 DEF LinkInv, HandsApart
    <3>3. command.id \notin {reader.sweep, reader.result}
      BY <2>5 DEF LinkInv, HandsApart
    <3>4. command.id # id
      BY <1>4, <3>2, <3>3
    <3> QED BY <3>1, <3>3, <3>4
  <2>6. HandsApart'
    BY <1>1, <2>4, <2>5 DEF LinkInv, HandsApart
  <2> QED BY <1>1, <1>2, <2>4, <2>6
          DEF LinkInv, LinkTypeOK, ResultsAreOfGiven, CommandsAreGiven
<1>8. CASE AutoSweep
  <2>1. /\ reader' \in Reader /\ reader'.sweep = Automatic
        /\ reader'.pending = reader.pending /\ reader'.result = reader.result
    BY <1>3, <1>8 DEF AutoSweep, Reader
  <2>2. /\ \A command \in reader.pending : command.id # Automatic
        /\ \A r \in reply : \A command \in r.commands : command.id # Automatic
    BY <1>5 DEF Command, Ids, Automatic, None
  <2> QED BY <1>1, <1>2, <2>1, <2>2
          DEF LinkInv, LinkTypeOK, ResultsAreOfGiven, CommandsAreGiven, HandsApart
<1> QED BY <1>6, <1>7, <1>8

(* The life of the reader-service, its reporter, and the network.          *)
LEMMA CarryLink ==
  ASSUME LinkInv,
         \/ StartService \/ Kill \/ PostStatus \/ LoseReply \/ GiveUp
         \/ \E state \in States : ChangeState(state)
         \/ \E post \in posts : Lose(post)
  PROVE  LinkInv'
<1>1. UNCHANGED vars
  BY DEF StartService, Kill, PostStatus, LoseReply, GiveUp, ChangeState, Lose
<1>2. HubInv' /\ TypeOK' /\ Given' = Given
  BY <1>1, HubUntouched
<1>3. reader \in Reader /\ posts \subseteq Post /\ reply \subseteq Reply
  BY DEF LinkInv, LinkTypeOK
<1>4. reply' \subseteq reply
  BY DEF StartService, Kill, PostStatus, LoseReply, GiveUp, ChangeState, Lose
<1>5. /\ Started \in Reader /\ Started.pending = {} /\ Started.result = None
      /\ Started.sweep = Idle
      /\ Gone \in Reader /\ Gone.pending = {} /\ Gone.result = None /\ Gone.sweep = Idle
  BY ReportsAssumption DEF Started, Gone, Reader
<1>6. /\ reader' \in Reader
      /\ \/ reader'.pending = {} /\ reader'.result = None /\ reader'.sweep = Idle
         \/ reader'.pending = reader.pending /\ reader'.result = reader.result
            /\ reader'.sweep = reader.sweep
  <2>1. CASE StartService \/ Kill
    BY <1>5, <2>1 DEF StartService, Kill
  <2>2. CASE PostStatus
    BY <1>3, <1>5, <2>2 DEF PostStatus
  <2>3. CASE LoseReply \/ GiveUp \/ \E post \in posts : Lose(post)
    BY <1>3, <2>3 DEF LoseReply, GiveUp, Lose
  <2>4. CASE \E state \in States : ChangeState(state)
    BY <1>3, <2>4 DEF ChangeState, Reader
  <2> QED BY <2>1, <2>2, <2>3, <2>4
<1>7. \A post \in posts' : post \in Post /\ post.result \in {None} \cup Given
  <2>1. \A post \in posts : post \in Post /\ post.result \in {None} \cup Given
    BY <1>3 DEF LinkInv, ResultsAreOfGiven
  <2>2. \A post \in Abandoned : post \in Post /\ post.result \in {None} \cup Given
    BY <2>1 DEF Abandoned, Post
  <2>3. CASE PostStatus
    <3>1. reader.state \in States /\ reader.result \in {None} \cup Given
      BY <1>3, <2>3 DEF PostStatus, Alive, Reader, LinkInv, ResultsAreOfGiven
    <3> DEFINE new == [state |-> reader.state, result |-> reader.result,
                       awaited |-> reader.state # "stopped"]
    <3>2. new \in Post /\ new.result \in {None} \cup Given
      BY <3>1 DEF Post, Given
    <3>3. posts' = posts \cup {new}
      BY <2>3 DEF PostStatus
    <3> QED BY <2>1, <3>2, <3>3
  <2>4. CASE ~PostStatus
    BY <2>1, <2>2, <2>4 DEF StartService, Kill, LoseReply, GiveUp, ChangeState, Lose
  <2> QED BY <2>3, <2>4
<1>8. LinkTypeOK'
  BY <1>2, <1>3, <1>4, <1>6, <1>7 DEF LinkTypeOK
<1>9. ResultsAreOfGiven' /\ CommandsAreGiven'
  BY <1>2, <1>4, <1>6, <1>7 DEF LinkInv, ResultsAreOfGiven, CommandsAreGiven
<1>10. \A r \in reply' : \A command \in r.commands : command.id \notin {Idle, None}
  BY <1>3, <1>4 DEF Reply, Command, Ids, Idle, None
<1>11. HandsApart'
  BY <1>4, <1>6, <1>10 DEF LinkInv, HandsApart
<1> QED BY <1>2, <1>8, <1>9, <1>11 DEF LinkInv

(* Both ends together: a step of the link keeps the invariant and is a     *)
(* step of the hub or none.                                                *)
LEMMA LinkStep == LinkInv /\ [LinkNext]_linkVars => LinkInv' /\ [Next]_vars
<1> SUFFICES ASSUME LinkInv, [LinkNext]_linkVars PROVE LinkInv' /\ [Next]_vars
  OBVIOUS
<1>1. CASE Backend /\ UNCHANGED <<reader, posts, reply>>
  BY <1>1, BackendLink
<1>2. ASSUME NEW post \in posts, Arrive(post) PROVE LinkInv' /\ [Next]_vars
  BY <1>2, ArriveLink
<1>3. ASSUME NEW r \in reply, Receive(r) PROVE LinkInv' /\ [Next]_vars
  BY <1>3, ReceiveLink DEF Receive
<1>4. CASE Handle \/ SweepDone \/ AutoSweep
  BY <1>4, HandleLink DEF Handle, SweepDone, AutoSweep
<1>5. CASE \/ StartService \/ Kill \/ PostStatus \/ LoseReply \/ GiveUp
           \/ \E state \in States : ChangeState(state)
           \/ \E post \in posts : Lose(post)
  BY <1>5, CarryLink
     DEF StartService, Kill, PostStatus, LoseReply, GiveUp, ChangeState, Lose
<1>6. CASE UNCHANGED linkVars
  <2>1. UNCHANGED <<reader, posts, reply>> /\ UNCHANGED vars
    BY <1>6 DEF linkVars
  <2>2. HubInv' /\ TypeOK' /\ Given' = Given
    BY <2>1, HubUntouched
  <2> QED BY <2>1, <2>2
          DEF LinkInv, LinkTypeOK, ResultsAreOfGiven, CommandsAreGiven, HandsApart
<1> QED BY <1>1, <1>2, <1>3, <1>4, <1>5, <1>6 DEF LinkNext, Service, Network

(* The invariant of both ends. *)
THEOREM LinkInvariant == LinkSpec => []LinkInv
<1>1. LinkInit => LinkInv
  <2> SUFFICES ASSUME LinkInit PROVE LinkInv
    OBVIOUS
  <2>1. HubInv
    BY InitHub DEF LinkInit
  <2>2. Gone \in Reader /\ Gone.pending = {} /\ Gone.result = None /\ Gone.sweep = Idle
    BY ReportsAssumption DEF Started, Gone, Reader
  <2> QED BY <2>1, <2>2 DEF LinkInit, LinkInv, HubInv, LinkTypeOK, ResultsAreOfGiven,
                            CommandsAreGiven, HandsApart
<1> QED BY <1>1, LinkStep, PTL DEF LinkSpec

(* Both ends and what is between them are well formed, however heartbeats  *)
(* and replies are lost, overtake each other or outlive their process.     *)
THEOREM LinkTypeCorrect == LinkSpec => []LinkTypeOK
<1>1. LinkInv => LinkTypeOK
  BY DEF LinkInv
<1> QED BY <1>1, LinkInvariant, PTL

(* The link implements the hub with its assumption about the reader-       *)
(* service: results come only of requests it was given, whatever is lost   *)
(* or late.                                                                *)
THEOREM AlwaysObeyed == LinkSpec => Obeyed
<1>1. LinkInit => Init
  BY DEF LinkInit
<1> QED BY <1>1, LinkStep, LinkInvariant, PTL DEF LinkSpec, Obeyed

(* No command of the hub is in two places, and none of a search that is    *)
(* running or has its result: it is carried out at most once.              *)
THEOREM CommandAlwaysInOnePlace == LinkSpec => []CommandInOnePlace
<1>1. LinkInv => CommandInOnePlace
  <2> SUFFICES ASSUME LinkInv PROVE CommandInOnePlace
    OBVIOUS
  <2> DEFINE sent == UNION {r.commands : r \in reply}
  <2>1. \A command \in commands : command.id \notin Given /\ command.id \in Ids
    BY DEF Given, LinkInv, HubInv, TypeOK, Command
  <2>2. \A command \in sent \cup reader.pending : command.id \in Given
    BY DEF LinkInv, CommandsAreGiven
  <2>3. commands \cap sent = {} /\ commands \cap reader.pending = {}
    BY <2>1, <2>2
  <2>4. sent \cap reader.pending = {}
    BY DEF LinkInv, HandsApart
  <2>5. \A command \in commands : command.id \notin {reader.sweep, reader.result}
    BY <2>1 DEF LinkInv, ResultsAreOfGiven, Ids, None, Idle, Automatic
  <2>6. \A command \in sent \cup reader.pending :
          command.type = "discover" => command.id \notin {reader.sweep, reader.result}
    BY DEF LinkInv, HandsApart
  <2> QED BY <2>3, <2>4, <2>5, <2>6 DEF CommandInOnePlace
<1> QED BY <1>1, LinkInvariant, PTL
==============================================================================
