------------------------------- MODULE ReaderHub -------------------------------
(***************************************************************************)
(* The backend's side of the reader status protocol (reader_status_hub.py):*)
(* the last heartbeat and its age, what the browsers were told, the queue  *)
(* of commands that travel in heartbeat replies, and the rendezvous of     *)
(* POST /reader/discover with a result that arrives in a later heartbeat.  *)
(* The state stands for all the fields whose change is published at once.  *)
(* Every operation holds the hub's lock, so it is one action; a discovery  *)
(* request gives the lock up while it waits.                               *)
(*                                                                         *)
(* Heartbeats are what the reader-service and the network may make of      *)
(* them, late and repeated ones included; but a reader-service reports the *)
(* result only of a request it was given.                                  *)
(***************************************************************************)
EXTENDS Integers

CONSTANTS Callers,      \* threads that serve POST /reader/discover
          States,       \* the states a reader-service reports
          StaleAfter,   \* ticks without a heartbeat until the state is unknown
          RefreshAfter, \* ticks until a status is published again unchanged
          MaxCommands   \* bound: the commands ever queued

ASSUME StatesAssumption == "none" \notin States /\ "unknown" \notin States
ASSUME TimesAssumption  == StaleAfter \in Nat \ {0} /\ RefreshAfter \in Nat \ {0}
ASSUME BoundsAssumption == MaxCommands \in Nat

VARIABLES
  status,               \* the state of the last heartbeat, "none" before the first
  age,                  \* ticks since it was received, up to StaleAfter
  stale,                \* whether the staleness check has found it too old
  published,            \* _published_key and how long ago, up to RefreshAfter
  shown,                \* the state the browsers were last told
  commands,             \* the command queue, in the order of the ids
  next_id,              \* _next_command_id
  discovery,            \* the id of the request in flight, or None
  requests,             \* every request ever made, by id: waiters and done
  caller                \* what each caller is doing and what it returned

statusVars  == <<status, age, stale, published, shown>>
requestVars == <<commands, next_id, discovery, requests, caller>>
vars == <<status, age, stale, published, shown, commands, next_id, discovery, requests, caller>>
------------------------------------------------------------------------------
None == 0
Ids  == 1..MaxCommands

Command   == [id : Ids, type : {"discover", "reconnect"}]
Heartbeat == [state : States, discovery : {None} \cup Ids]
Request   == [waiters : SUBSET Callers, done : BOOLEAN]
Caller    == [pc     : {"idle", "waiting", "leaving"},
              id     : {None} \cup Ids,
              answer : {"none", "found", "timeout", "unavailable"}]

(* _effective_state_locked(). *)
Effective ==
  IF status = "none" \/ stale \/ age >= StaleAfter THEN "unknown" ELSE status

(* Mutant: the key is taken from the heartbeat, not from what was sent. *)
PublishHeartbeatKey(state) ==
  /\ shown' = state
  /\ published' = [key |-> status', ago |-> 0]

(* _publish_locked(). *)
Publish(state) ==
  /\ shown' = state
  /\ published' = [key |-> state, ago |-> 0]

(* _enqueue_locked(). *)
Enqueue(type) ==
  /\ next_id <= MaxCommands
  /\ commands' = commands \cup {[id |-> next_id, type |-> type]}
  /\ next_id' = next_id + 1

(* Mutant: any discovery result ends the request in flight. *)
AnswersAny(heartbeat) == discovery # None /\ heartbeat.discovery # None

(* _resolve_discovery_locked(): a result of another request is ignored. *)
Answers(heartbeat) == discovery # None /\ heartbeat.discovery = discovery
------------------------------------------------------------------------------
Init ==
  /\ status = "none" /\ age = 0 /\ stale = FALSE
  /\ published = [key |-> "none", ago |-> RefreshAfter] /\ shown = "none"
  /\ commands = {} /\ next_id = 1 /\ discovery = None
  /\ requests = [id \in Ids |-> [waiters |-> {}, done |-> FALSE]]
  /\ caller = [c \in Callers |-> [pc |-> "idle", id |-> None, answer |-> "none"]]

(* The command the reply to a heartbeat carries: the oldest one, but none  *)
(* for the last words of a reader-service.                                 *)
Delivered(heartbeat) ==
  IF heartbeat.state = "stopped" THEN {}
  ELSE {command \in commands : \A other \in commands : command.id <= other.id}

(* Mutant: the reply carries a command and the queue keeps it. *)
QueuePeeked(heartbeat) == commands

QueueAfter(heartbeat) == commands \ Delivered(heartbeat)

(* ingest(). *)
Ingest(heartbeat) ==
  /\ status' = heartbeat.state /\ age' = 0 /\ stale' = FALSE
  /\ IF Answers(heartbeat)
     THEN /\ requests' = [requests EXCEPT ![discovery].done = TRUE]
          /\ discovery' = None
     ELSE UNCHANGED <<requests, discovery>>
  /\ IF heartbeat.state # published.key \/ published.ago >= RefreshAfter
     THEN Publish(heartbeat.state)
     ELSE UNCHANGED <<published, shown>>
  /\ commands' = QueueAfter(heartbeat)
  /\ UNCHANGED <<next_id, caller>>

(* Mutant: a heartbeat must be older than the limit. *)
CheckStaleLate ==
  /\ status # "none" /\ ~stale /\ age > StaleAfter
  /\ stale' = TRUE
  /\ Publish("unknown")
  /\ UNCHANGED <<status, age, requestVars>>

(* check_stale(), on its own thread. *)
CheckStale ==
  /\ status # "none" /\ ~stale /\ age >= StaleAfter
  /\ stale' = TRUE
  /\ UNCHANGED status
  /\ Publish("unknown")
  /\ UNCHANGED <<age, requestVars>>

(* queue_reconnect(). *)
QueueReconnect ==
  /\ \A command \in commands : command.type # "reconnect"
  /\ Enqueue("reconnect")
  /\ UNCHANGED <<statusVars, discovery, requests, caller>>

(* request_discovery() up to its wait.  Refused when the state is unknown, *)
(* except that before the first heartbeat the supervisor may say that a    *)
(* reader-service is starting up.                                          *)
Refuse(c) ==
  /\ caller[c].pc = "idle"
  /\ Effective = "unknown"
  /\ caller' = [caller EXCEPT ![c] = [@ EXCEPT !.answer = "unavailable"]]
  /\ UNCHANGED <<statusVars, commands, next_id, discovery, requests>>

Join(c, id) ==
  /\ requests' = [requests EXCEPT ![id].waiters = @ \cup {c}]
  /\ caller' = [caller EXCEPT ![c] = [pc |-> "waiting", id |-> id, answer |-> "none"]]

Ask(c) ==
  /\ caller[c].pc = "idle"
  /\ Effective # "unknown" \/ status = "none"
  /\ IF discovery # None
     THEN Join(c, discovery) /\ UNCHANGED <<commands, next_id, discovery>>
     ELSE Enqueue("discover") /\ discovery' = next_id /\ Join(c, next_id)
  /\ UNCHANGED statusVars

(* The wait ends, with the answer or without it. *)
StopWaiting(c) ==
  /\ caller[c].pc = "waiting"
  /\ caller' = [caller EXCEPT ![c].pc = "leaving"]
  /\ UNCHANGED <<statusVars, commands, next_id, discovery, requests>>

(* Mutants: the request is not looked at again under the lock; a command   *)
(* nobody waits for any more stays in the queue.                           *)
OutcomeUnchecked(c) == "timeout"
QueueKept(c)        == commands

(* The rest of request_discovery(), under the lock again.  The last waiter *)
(* to give up withdraws the request and its command.                       *)
Outcome(c) == IF requests[caller[c].id].done THEN "found" ELSE "timeout"

Withdraws(c) ==
  LET id == caller[c].id
  IN  ~requests[id].done /\ requests[id].waiters \ {c} = {} /\ discovery = id

QueueAfterLeave(c) ==
  IF Withdraws(c) THEN {command \in commands : command.id # caller[c].id} ELSE commands

Leave(c) ==
  /\ caller[c].pc = "leaving"
  /\ requests' = [requests EXCEPT ![caller[c].id].waiters = @ \ {c}]
  /\ caller' = [caller EXCEPT ![c] = [pc |-> "idle", id |-> None, answer |-> Outcome(c)]]
  /\ discovery' = IF Withdraws(c) THEN None ELSE discovery
  /\ commands' = QueueAfterLeave(c)
  /\ UNCHANGED <<statusVars, next_id>>

Tick ==
  /\ age' = IF status # "none" /\ age < StaleAfter THEN age + 1 ELSE age
  /\ published' = [published EXCEPT !.ago = IF @ < RefreshAfter THEN @ + 1 ELSE @]
  /\ UNCHANGED <<status, stale, shown, requestVars>>

Given == {id \in Ids : id < next_id /\ \A command \in commands : command.id # id}

Heard(heartbeat) ==
  /\ heartbeat.discovery \in {None} \cup Given
  /\ Ingest(heartbeat)

Next ==
  \/ Tick \/ CheckStale \/ QueueReconnect
  \/ \E heartbeat \in Heartbeat : Heard(heartbeat)
  \/ \E c \in Callers : Refuse(c) \/ Ask(c) \/ StopWaiting(c) \/ Leave(c)

(* The clock runs, the staleness check comes round every second, and a     *)
(* thread that may go on does: waits time out.  Nothing makes heartbeats   *)
(* come.                                                                   *)
Fairness ==
  /\ WF_vars(Tick) /\ WF_vars(CheckStale)
  /\ \A c \in Callers : WF_vars(StopWaiting(c)) /\ WF_vars(Leave(c))

Spec == Init /\ [][Next]_vars /\ Fairness
------------------------------------------------------------------------------
TypeOK ==
  /\ status \in States \cup {"none"} /\ age \in 0..StaleAfter /\ stale \in BOOLEAN
  /\ published \in [key : States \cup {"none", "unknown"}, ago : 0..RefreshAfter]
  /\ shown \in States \cup {"none", "unknown"}
  /\ commands \subseteq Command /\ next_id \in 1..(MaxCommands + 1)
  /\ discovery \in {None} \cup Ids /\ requests \in [Ids -> Request]
  /\ caller \in [Callers -> Caller]

(* Browsers are told what the hub believes: the last state reported, or    *)
(* unknown once it is stale, and the real state again after the silence    *)
(* even when that is the state from before it.                             *)
ShownIsCurrent ==
  shown = IF status = "none" THEN "none" ELSE IF stale THEN "unknown" ELSE status

(* A search waits in the queue only while somebody waits for its result:   *)
(* the reader-service never sweeps the network for nobody.                 *)
SearchIsAwaited ==
  \A command \in commands : command.type = "discover" =>
    \E c \in Callers : caller[c].pc # "idle" /\ caller[c].id = command.id

(* What the callers see of all this is a Rendezvous: whoever has been      *)
(* answered is told so, however late the answer raced the timeout, and     *)
(* nobody is given an answer that did not come.                            *)
Phase(c) == IF caller[c].pc = "idle" THEN "idle"
            ELSE IF requests[caller[c].id].done THEN "answered" ELSE "asking"

Promise == INSTANCE Rendezvous WITH
             phase  <- [c \in Callers |-> Phase(c)],
             answer <- [c \in Callers |-> caller[c].answer]

KeepsPromise == Promise!Spec

(* Every call returns. *)
EveryCallReturns == \A c \in Callers : caller[c].pc # "idle" ~> caller[c].pc = "idle"

(* A reader-service that falls silent is shown as unknown, unless it       *)
(* speaks up again.                                                        *)
SilenceIsNoticed == age > 0 ~> (shown = "unknown" \/ age = 0)
==============================================================================
