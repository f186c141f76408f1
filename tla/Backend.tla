-------------------------------- MODULE Backend --------------------------------
(***************************************************************************)
(* The backend process around one active race: the SQLite file, the race   *)
(* and the rider registry in memory, and the worker thread that serves an  *)
(* HTTP request.  Requests come one after the other (what they do to each  *)
(* other when they overlap is the matter of Workers), and a handler is a   *)
(* chain of steps.  A step ends where the handler has written the file or  *)
(* read what it works on; the process may die between any two, and the     *)
(* readings may be exported.                                               *)
(*                                                                         *)
(* An event is a row of tag_events; only arrive events are ever stored.    *)
(* One event is one batch: a batch of n is n ingests of the same thread,   *)
(* and a batch that fails half-way is delivered again.                     *)
(***************************************************************************)
EXTENDS RaceState, FiniteSets, Folds

CONSTANTS Threads,      \* worker threads of the HTTP server
          Main,         \* the thread that loads the race when the process starts
          Formats,      \* the formats the race may have
          Requests,     \* the kinds of request that are made, and of failure
          Verdicts,     \* the statuses the operator gives
          LateBy,       \* how many ticks late an event may arrive
          EpochReads,   \* whether the reader's clock may be unset
          MaxTime,      \* bound: the last tick
          MaxRows       \* bound: the events ever stored

Kinds == {"ingest", "manual", "remove", "passes", "register", "unregister", "judge",
          "start", "end", "reopen", "reset", "restart", "crash"}

ASSUME ThreadsAssumption  == Main \in Threads
ASSUME FormatsAssumption  == Formats \subseteq Format
ASSUME RequestsAssumption == Requests \subseteq Kinds
ASSUME VerdictsAssumption == Verdicts \subseteq Statuses
ASSUME BoundsAssumption   == /\ LateBy \in Nat /\ EpochReads \in BOOLEAN
                             /\ MaxTime \in Nat \ {0} /\ MaxRows \in Nat

VARIABLES db,           \* the SQLite file
          race,         \* the RaceState
          riders,       \* the RiderStore: the registered tags and their statuses
          job,          \* what each thread is doing
          now           \* the clock

vars == <<db, race, riders, job, now>>
------------------------------------------------------------------------------
Row    == [id : Nat, tag : Tags, ts : Nat, manual : BOOLEAN]
Riders == [Tags -> Statuses \cup {"unregistered"}]

Database == [log          : SUBSET Row,
             last_id      : Nat,                 \* AUTOINCREMENT
             format       : Format,
             started_at   : Nat,                 \* of the races row
             ended_at     : Nat,
             meta_started : Nat,                 \* meta race_started_at
             riders       : Riders]

(* Where a thread is in its handler; rows are the events it has in hand,   *)
(* at the timestamp it has read or is about to write.                      *)
Steps == {"idle", "count", "log", "delete", "clear", "read", "replay", "load",
          "start_meta", "start_row", "end_row", "reset_meta", "reset_row", "reset_log"}
Job   == [pc : Steps, rows : SUBSET Row, at : Nat]
Idle  == [pc |-> "idle", rows |-> {}, at |-> None]

Event(tag, ts, manual) == [id |-> None, tag |-> tag, ts |-> ts, manual |-> manual]

Stored(d, event) == \E row \in d.log : row.tag = event.tag /\ row.ts = event.ts

(* append_event: INSERT OR IGNORE under the unique index. *)
AppendEvent(d, event) ==
  IF Stored(d, event) THEN d
  ELSE [d EXCEPT !.log = @ \cup {[event EXCEPT !.id = d.last_id + 1]},
                 !.last_id = @ + 1]

(* ORDER BY timestamp, id. *)
Before(a, b) == a.ts < b.ts \/ (a.ts = b.ts /\ a.id < b.id)

Registered(tag) == riders[tag] # "unregistered"

StatusOf(registry) ==
  [tag \in Tags |-> IF registry[tag] = "unregistered" THEN "racing" ELSE registry[tag]]

(* Mutant: events after the end count on replay.                           *)
ReplayableAfterEnd(row, registry, cutoff) == registry[row.tag] # "unregistered"

(* _replay_event: what the replay feeds into add_lap. *)
Replayable(row, registry, cutoff) ==
  registry[row.tag] # "unregistered" /\ (cutoff # None => row.ts <= cutoff)

(* Mutant: the race is ended before the replay. *)
LoadedEnded(d) ==
  LET fresh   == [NewRace(d.format) EXCEPT !.status = StatusOf(d.riders)]
      started == IF d.started_at # None THEN Start(fresh, d.started_at) ELSE fresh
  IN  IF d.ended_at # None THEN End(started, d.ended_at) ELSE started

(* _load_active_race_state: the meta key overrides the row. *)
Loaded(d) ==
  LET started_at == IF d.meta_started # None THEN d.meta_started ELSE d.started_at
      fresh      == [NewRace(d.format) EXCEPT !.status = StatusOf(d.riders)]
  IN  IF started_at # None THEN Start(fresh, started_at) ELSE fresh
------------------------------------------------------------------------------
Init ==
  /\ \E format \in Formats, registry \in [Tags -> {"racing", "unregistered"}] :
       /\ db = [log |-> {}, last_id |-> 0, format |-> format, started_at |-> None,
                ended_at |-> None, meta_started |-> None, riders |-> registry]
       /\ race = NewRace(format)
       /\ riders = registry
  /\ job = [t \in Threads |-> Idle]
  /\ now = 1

(* A thread takes up a request when no other is in hand and the race is    *)
(* loaded.                                                                 *)
Accept(t, kind) ==
  /\ kind \in Requests
  /\ \A other \in Threads : job[other].pc = "idle"

Goto(t, pc, rows, at) == job' = [job EXCEPT ![t] = [pc |-> pc, rows |-> rows, at |-> at]]
Reply(t)              == job' = [job EXCEPT ![t] = Idle]

Recent == {ts \in 1..now : ts + LateBy >= now}

(* What the reader-service may deliver: a recent read, or again an event   *)
(* it has delivered before.                                                *)
Deliverable(tag) ==
  Recent \cup (IF EpochReads THEN {Epoch} ELSE {})
         \cup {row.ts : row \in {r \in db.log : r.tag = tag}}

(* POST /events/tag/batch: persist, then count. *)
Ingest(t) ==
  /\ Accept(t, "ingest")
  /\ \E tag \in Tags : \E ts \in Deliverable(tag) :
       LET event == Event(tag, ts, FALSE)
       IN  /\ Stored(db, event) \/ db.last_id < MaxRows
           /\ db' = AppendEvent(db, event)
           /\ Goto(t, "count", {event}, None)
  /\ UNCHANGED <<race, riders, now>>

IngestCount(t) ==
  /\ job[t].pc = "count"
  /\ \E event \in job[t].rows :
       race' = IF Registered(event.tag) THEN AddLap(race, event.tag, event.ts, now) ELSE race
  /\ Reply(t)
  /\ UNCHANGED <<db, riders, now>>

(* POST /riders/{tag}/laps: count, then persist; a refused lap is not      *)
(* persisted.                                                              *)
ManualLap(t) ==
  /\ Accept(t, "manual")
  /\ race.started_at # None /\ race.ended_at = None
  /\ db.last_id < MaxRows
  /\ \E tag \in Tags, ts \in Recent :
       /\ Registered(tag)
       /\ race' = AddLap(race, tag, ts, now)
       /\ IF Laps(race', tag) # Laps(race, tag)
          THEN Goto(t, "log", {Event(tag, ts, TRUE)}, None)
          ELSE UNCHANGED job
  /\ UNCHANGED <<db, riders, now>>

ManualLog(t) ==
  /\ job[t].pc = "log"
  /\ \E event \in job[t].rows : db' = AppendEvent(db, event)
  /\ Reply(t)
  /\ UNCHANGED <<race, riders, now>>

(* DELETE /riders/{tag}/laps: find the newest row, delete it by id, rebuild. *)
RemoveLap(t) ==
  /\ Accept(t, "remove")
  /\ race.ended_at = None
  /\ \E row \in db.log :
       /\ Registered(row.tag)
       /\ \A other \in db.log : other.tag = row.tag => other.id <= row.id
       /\ Goto(t, "delete", {row}, None)
  /\ UNCHANGED <<db, race, riders, now>>

RemoveRow(t) ==
  /\ job[t].pc = "delete"
  /\ db' = [db EXCEPT !.log = @ \ job[t].rows]
  /\ Goto(t, "clear", {}, None)
  /\ UNCHANGED <<race, riders, now>>

(* DELETE /riders/{tag}/passes. *)
DeletePasses(t) ==
  /\ Accept(t, "passes")
  /\ race.ended_at = None
  /\ \E tag \in Tags :
       /\ Registered(tag)
       /\ db' = [db EXCEPT !.log = {row \in @ : row.tag # tag}]
  /\ Goto(t, "clear", {}, None)
  /\ UNCHANGED <<race, riders, now>>

(* DELETE /riders/{tag}: the readings stay. *)
DeleteRider(t) ==
  /\ Accept(t, "unregister")
  /\ \E tag \in Tags :
       /\ Registered(tag)
       /\ riders' = [riders EXCEPT ![tag] = "unregistered"]
       /\ db' = [db EXCEPT !.riders[tag] = "unregistered"]
  /\ Goto(t, "clear", {}, None)
  /\ UNCHANGED <<race, now>>

(* POST /race/reopen. *)
Reopen(t) ==
  /\ Accept(t, "reopen")
  /\ race.ended_at # None
  /\ db' = [db EXCEPT !.ended_at = None]
  /\ Goto(t, "clear", {}, None)
  /\ UNCHANGED <<race, riders, now>>

(* _rebuild_active_race_state_in_place: clear the race, start it from its  *)
(* row, replay the events, end it from its row.                            *)
RebuildClear(t) ==
  /\ job[t].pc = "clear"
  /\ race' = Clear(race)
  /\ Goto(t, "read", {}, None)
  /\ UNCHANGED <<db, riders, now>>

RebuildRead(t) ==
  /\ job[t].pc = "read"
  /\ race' = IF db.started_at # None THEN Start(race, db.started_at) ELSE race
  /\ Goto(t, "replay", db.log, db.ended_at)
  /\ UNCHANGED <<db, riders, now>>

(* One event of the replay, of a rebuild or of the start of the process. *)
Replay(t) ==
  /\ job[t].pc \in {"replay", "load"}
  /\ \E row \in job[t].rows :
       /\ \A other \in job[t].rows \ {row} : Before(row, other)
       /\ race' = IF Replayable(row, riders, job[t].at)
                  THEN AddLap(race, row.tag, row.ts, now) ELSE race
       /\ job' = [job EXCEPT ![t].rows = @ \ {row}]
  /\ UNCHANGED <<db, riders, now>>

ReplayDone(t) ==
  /\ job[t].pc \in {"replay", "load"} /\ job[t].rows = {}
  /\ LET ended == IF db.ended_at # None THEN End(race, db.ended_at) ELSE race
     IN  race' = [ended EXCEPT !.status = StatusOf(riders)]
  /\ Reply(t)
  /\ UNCHANGED <<db, riders, now>>

(* POST /race/start: memory, then the meta key, then the row. *)
StartRace(t) ==
  /\ Accept(t, "start")
  /\ race' = Start(race, now)
  /\ Goto(t, "start_meta", {}, Start(race, now).started_at)
  /\ UNCHANGED <<db, riders, now>>

StartMeta(t) ==
  /\ job[t].pc = "start_meta"
  /\ db' = [db EXCEPT !.meta_started = job[t].at]
  /\ Goto(t, "start_row", {}, job[t].at)
  /\ UNCHANGED <<race, riders, now>>

StartRow(t) ==
  /\ job[t].pc = "start_row"
  /\ db' = [db EXCEPT !.started_at = job[t].at]
  /\ Reply(t)
  /\ UNCHANGED <<race, riders, now>>

(* POST /race/end: memory, then the row. *)
EndRace(t) ==
  /\ Accept(t, "end")
  /\ race' = End(race, now)
  /\ Goto(t, "end_row", {}, End(race, now).ended_at)
  /\ UNCHANGED <<db, riders, now>>

EndRow(t) ==
  /\ job[t].pc = "end_row"
  /\ db' = [db EXCEPT !.ended_at = job[t].at]
  /\ Reply(t)
  /\ UNCHANGED <<race, riders, now>>

(* POST /race/reset: memory, meta key, row, events. *)
Reset(t) ==
  /\ Accept(t, "reset")
  /\ race' = Clear(race)
  /\ Goto(t, "reset_meta", {}, None)
  /\ UNCHANGED <<db, riders, now>>

ResetMeta(t) ==
  /\ job[t].pc = "reset_meta"
  /\ db' = [db EXCEPT !.meta_started = None]
  /\ Goto(t, "reset_row", {}, None)
  /\ UNCHANGED <<race, riders, now>>

ResetRow(t) ==
  /\ job[t].pc = "reset_row"
  /\ db' = [db EXCEPT !.started_at = None, !.ended_at = None]
  /\ Goto(t, "reset_log", {}, None)
  /\ UNCHANGED <<race, riders, now>>

ResetLog(t) ==
  /\ job[t].pc = "reset_log"
  /\ db' = [db EXCEPT !.log = {}]
  /\ Reply(t)
  /\ UNCHANGED <<race, riders, now>>

(* POST /riders: an upsert that keeps the status of a rider it knows. *)
Register(t) ==
  /\ Accept(t, "register")
  /\ \E tag \in Tags :
       /\ ~Registered(tag)
       /\ riders' = [riders EXCEPT ![tag] = "racing"]
       /\ db' = [db EXCEPT !.riders[tag] = "racing"]
  /\ UNCHANGED <<race, job, now>>

(* PATCH /riders/{tag}/status. *)
Judge(t) ==
  /\ Accept(t, "judge")
  /\ \E tag \in Tags, status \in Verdicts :
       /\ Registered(tag)
       /\ riders' = [riders EXCEPT ![tag] = status]
       /\ db' = [db EXCEPT !.riders[tag] = status]
       /\ race' = SetStatus(race, tag, status)
  /\ UNCHANGED <<job, now>>

(* The process dies and starts again: what was in memory is loaded from    *)
(* the file, every request in flight is lost.                              *)
Quiet == \A t \in Threads : job[t].pc = "idle"

Restart ==
  /\ "crash" \in Requests \/ ("restart" \in Requests /\ Quiet)
  /\ race' = Loaded(db)
  /\ riders' = db.riders
  /\ job' = [t \in Threads |-> IF t = Main
                               THEN [pc |-> "load", rows |-> db.log, at |-> db.ended_at]
                               ELSE Idle]
  /\ UNCHANGED <<db, now>>

Tick == now < MaxTime /\ now' = now + 1 /\ UNCHANGED <<db, race, riders, job>>

(* The requests a thread may take up, and the steps that carry one on. *)
Request(t) ==
  \/ Ingest(t) \/ ManualLap(t) \/ RemoveLap(t) \/ DeletePasses(t) \/ DeleteRider(t)
  \/ Reopen(t) \/ StartRace(t) \/ EndRace(t) \/ Reset(t) \/ Register(t) \/ Judge(t)

Step(t) ==
  \/ IngestCount(t) \/ ManualLog(t) \/ RemoveRow(t)
  \/ RebuildClear(t) \/ RebuildRead(t) \/ Replay(t) \/ ReplayDone(t)
  \/ StartMeta(t) \/ StartRow(t) \/ EndRow(t)
  \/ ResetMeta(t) \/ ResetRow(t) \/ ResetLog(t)

Next == Tick \/ Restart \/ \E t \in Threads : Request(t) \/ Step(t)

Spec == Init /\ [][Next]_vars
------------------------------------------------------------------------------
TypeOK ==
  /\ db \in Database /\ race \in Race /\ riders \in Riders
  /\ job \in [Threads -> Job] /\ now \in 1..MaxTime

(* Requests one after the other, events late or repeated, the process      *)
(* dying anywhere: the race in memory obeys the rules at every step of a   *)
(* handler: passes spaced, finishes earned, no rider past the target       *)
(* without a finish.                                                       *)
RaceRulesHold ==
  /\ \A tag \in Tags : Spaced(race, tag) /\ FinishOnPass(race, tag)
  /\ FinishingPhase(race) /\ DistanceMeansFinish(race)

(* A lap on the standings is on disk: every pass counted in memory is a    *)
(* stored event, but for the manual lap that is about to be stored and the *)
(* event whose deletion is about to be followed by the rebuild.            *)
CountedAreLogged ==
  \A tag \in Tags : \A i \in 1..Laps(race, tag) :
    LET pass == race.participants[tag].passes[i]
    IN  \/ \E row \in db.log : row.tag = tag /\ row.ts = pass
        \/ \E t \in Threads :
             \/ job[t].pc = "clear"
             \/ job[t].pc = "log" /\ \E e \in job[t].rows : e.tag = tag /\ e.ts = pass

(* Only registered riders have a row of the standings, whatever was read   *)
(* (the phantom rows of BUG-003).                                          *)
PhantomFree == Quiet => \A tag \in Tags : race.participants[tag].seen => Registered(tag)

(* The race ranks riders by the statuses the operator gave them. *)
StatusesAgree == Quiet => race.status = StatusOf(riders) /\ riders = db.riders

(* Between requests the standings are of the riders as the file has them:  *)
(* none is shown who is not registered, none with an old verdict.          *)
StandingsAreOfRiders == PhantomFree /\ StatusesAgree

(* The race a start of the process would load now. *)
Reloaded ==
  LET replay(row, r) == IF Replayable(row, db.riders, db.ended_at)
                        THEN AddLap(r, row.tag, row.ts, now) ELSE r
      last(rows)     == CHOOSE row \in rows : \A other \in rows \ {row} : Before(other, row)
      replayed       == MapThenFoldSet(replay, Loaded(db), LAMBDA row : row, last, db.log)
  IN  IF db.ended_at # None THEN End(replayed, db.ended_at) ELSE replayed

(* What the standings are computed from. *)
Result(r) ==
  [r EXCEPT !.participants =
     [tag \in Tags |-> [passes      |-> r.participants[tag].passes,
                        finish_time |-> r.participants[tag].finish_time]]]

(* Events arriving in order, one request at a time, every rider registered *)
(* from the start: a restart changes nothing.  Excepted is an event of the *)
(* very tick the race ended in.                                            *)
RestartChangesNothing ==
  Quiet /\ (\A row \in db.log : row.ts # db.ended_at) => Result(Reloaded) = Result(race)

(* In whatever order events arrive and wherever the process dies, a        *)
(* restart never loses a lap that is on the standings.                     *)
RestartLosesNoLap ==
  Quiet => \A tag \in Tags : Laps(race, tag) <= Laps(Reloaded, tag)
------------------------------------------------------------------------------
(* Stated by race.py ("After end() the race is frozen: late/stray reads    *)
(* don't change standings"), of the passes of an ended race.               *)
EndedIsFrozen ==
  Quiet /\ race.ended_at # None =>
    \A tag \in Tags : Laps(Reloaded, tag) = Laps(race, tag)

(* Stated by app.py of the removal of a lap: replaying is the same code    *)
(* path as restart, so it produces the correct standings.  Of a rebuild    *)
(* that leaves no request in flight.                                       *)
RebuildIsRestart ==
  [][ \A t \in Threads :
        job[t].pc = "replay" /\ Quiet' =>
          \A tag \in Tags : Laps(race', tag) = Laps(Reloaded', tag) ]_vars
==============================================================================
