---------------------------- MODULE BackendProofs -----------------------------
(***************************************************************************)
(* While requests come one after the other, and wherever the process dies, *)
(* the race in memory obeys the rules of RaceState.  The invariant is      *)
(* RaceInv: a rebuild, a load or a request may leave the standings out of  *)
(* date between two steps, but each step applies one operation of the      *)
(* race, and each operation keeps it.  What a restart would replay is at   *)
(* least what memory has counted (RestartLosesNoLap); when events come in  *)
(* order besides, it is what memory has counted (RestartChangesNothing).   *)
(***************************************************************************)
EXTENDS MCBackend, RaceStateProofs

BackendInv == TypeOK /\ RaceInv(race)

LEMMA EventType ==
  ASSUME NEW tag \in Tags, NEW ts \in Nat, NEW manual \in BOOLEAN
  PROVE  Event(tag, ts, manual) \in Row
BY DEF Event, Row, None

LEMMA AppendEventType ==
  ASSUME NEW d \in Database, NEW event \in Row
  PROVE  AppendEvent(d, event) \in Database
<1>1. d.log \in SUBSET Row /\ d.last_id \in Nat /\ d.last_id + 1 \in Nat
  BY DEF Database
<1>2. [event EXCEPT !.id = d.last_id + 1] \in Row
  BY <1>1 DEF Row
<1>3. d.log \cup {[event EXCEPT !.id = d.last_id + 1]} \in SUBSET Row
  BY <1>1, <1>2
<1> QED BY <1>1, <1>3 DEF AppendEvent, Database

LEMMA DeliverableType ==
  ASSUME TypeOK, NEW tag \in Tags, NEW ts \in Deliverable(tag)
  PROVE  ts \in Nat
BY DEF TypeOK, Deliverable, Recent, Epoch, Database, Row

LEMMA StatusOfType ==
  ASSUME NEW registry \in Riders
  PROVE  StatusOf(registry) \in [Tags -> Statuses]
BY DEF StatusOf, Riders, Statuses

LEMMA StatusInv ==
  ASSUME NEW r, RaceInv(r), NEW status \in [Tags -> Statuses]
  PROVE  RaceInv([r EXCEPT !.status = status])
<1>1. [r EXCEPT !.status = status] \in Race
  BY DEF RaceInv, Race
<1> QED BY <1>1, SameRunInv DEF RaceInv, Race

LEMMA ClearInv ==
  ASSUME NEW r, RaceInv(r)
  PROVE  RaceInv(Clear(r))
<1>1. r.format \in Format /\ r.status \in [Tags -> Statuses]
  BY DEF RaceInv, Race
<1> QED BY <1>1, NewRaceInv, StatusInv DEF Clear

LEMMA LoadedInv ==
  ASSUME NEW d \in Database
  PROVE  RaceInv(Loaded(d))
<1> DEFINE started_at == IF d.meta_started # None THEN d.meta_started ELSE d.started_at
           fresh      == [NewRace(d.format) EXCEPT !.status = StatusOf(d.riders)]
<1>1. d.format \in Format /\ d.riders \in Riders /\ started_at \in Nat
  BY DEF Database
<1>2. RaceInv(fresh)
  BY <1>1, NewRaceInv, StatusOfType, StatusInv
<1>3. started_at # None => RaceInv(Start(fresh, started_at))
  <2> HIDE DEF fresh
  <2> QED BY <1>1, <1>2, StartInv DEF None
<1> QED BY <1>2, <1>3 DEF Loaded

LEMMA GotoType ==
  ASSUME TypeOK, NEW t \in Threads, NEW pc \in Steps, NEW rows \in SUBSET Row, NEW at \in Nat,
         Goto(t, pc, rows, at)
  PROVE  job' \in [Threads -> Job]
BY DEF Goto, TypeOK, Job

LEMMA ReplyType ==
  ASSUME TypeOK, NEW t \in Threads, Reply(t)
  PROVE  job' \in [Threads -> Job]
BY DEF Reply, TypeOK, Job, Idle, Steps, None

LEMMA JobType ==
  ASSUME TypeOK, NEW t \in Threads
  PROVE  job[t].rows \in SUBSET Row /\ job[t].at \in Nat
BY DEF TypeOK, Job
------------------------------------------------------------------------------
LEMMA InitBackend == Init => BackendInv
<1> SUFFICES ASSUME Init PROVE BackendInv
  OBVIOUS
<1>1. PICK format \in Formats, registry \in [Tags -> {"racing", "unregistered"}] :
        /\ db = [log |-> {}, last_id |-> 0, format |-> format, started_at |-> None,
                 ended_at |-> None, meta_started |-> None, riders |-> registry]
        /\ race = NewRace(format)
        /\ riders = registry
  BY DEF Init
<1>2. format \in Format /\ registry \in Riders
  BY FormatsAssumption DEF Riders, Statuses
<1>3. db \in Database
  BY <1>1, <1>2 DEF Database, None
<1>4. RaceInv(race)
  BY <1>1, <1>2, NewRaceInv
<1>5. job \in [Threads -> Job] /\ now \in 1..MaxTime
  BY BoundsAssumption DEF Init, Idle, Job, Steps, None
<1> QED BY <1>1, <1>2, <1>3, <1>4, <1>5 DEF BackendInv, TypeOK, RaceInv

(* A request is taken up. *)
LEMMA RequestBackend ==
  ASSUME BackendInv, NEW t \in Threads, Request(t)
  PROVE  BackendInv'
<1>1. /\ TypeOK /\ RaceInv(race) /\ race \in Race /\ now \in Nat \ {0}
      /\ db \in Database /\ riders \in Riders
  BY BoundsAssumption DEF BackendInv, TypeOK
<1>2. {} \in SUBSET Row /\ None \in Nat
  BY DEF None
<1>3. CASE Ingest(t)
  <2> PICK tag \in Tags : \E ts \in Deliverable(tag) :
          /\ db' = AppendEvent(db, Event(tag, ts, FALSE))
          /\ Goto(t, "count", {Event(tag, ts, FALSE)}, None)
    BY <1>3 DEF Ingest
  <2>1. PICK ts \in Deliverable(tag) :
          /\ db' = AppendEvent(db, Event(tag, ts, FALSE))
          /\ Goto(t, "count", {Event(tag, ts, FALSE)}, None)
    OBVIOUS
  <2>2. Event(tag, ts, FALSE) \in Row
    BY <1>1, DeliverableType, EventType
  <2>3. db' \in Database
    BY <1>1, <2>1, <2>2, AppendEventType
  <2>4. job' \in [Threads -> Job]
    BY <1>1, <1>2, <2>1, <2>2, GotoType DEF Steps
  <2> QED BY <1>1, <1>3, <2>3, <2>4 DEF Ingest, BackendInv, TypeOK
<1>4. CASE ManualLap(t)
  <2>1. PICK tag \in Tags, ts \in Recent :
          /\ race' = AddLap(race, tag, ts, now)
          /\ Goto(t, "log", {Event(tag, ts, TRUE)}, None) \/ UNCHANGED job
    BY <1>4 DEF ManualLap
  <2>2. ts \in Nat
    BY DEF Recent
  <2>3. RaceInv(race')
    BY <1>1, <2>1, <2>2, AddLapInv
  <2>4. job' \in [Threads -> Job]
    BY <1>1, <1>2, <2>1, <2>2, EventType, GotoType DEF Steps, TypeOK
  <2> QED BY <1>1, <1>4, <2>3, <2>4 DEF ManualLap, BackendInv, TypeOK, RaceInv
<1>5. CASE RemoveLap(t)
  <2>1. PICK row \in db.log : Goto(t, "delete", {row}, None)
    BY <1>5 DEF RemoveLap
  <2>2. row \in Row
    BY <1>1 DEF Database
  <2>3. job' \in [Threads -> Job]
    BY <1>1, <1>2, <2>1, <2>2, GotoType DEF Steps
  <2> QED BY <1>1, <1>5, <2>3 DEF RemoveLap, BackendInv, TypeOK
<1>6. CASE DeletePasses(t)
  <2>1. PICK tag \in Tags : db' = [db EXCEPT !.log = {row \in @ : row.tag # tag}]
    BY <1>6 DEF DeletePasses
  <2>2. db' \in Database
    BY <1>1, <2>1 DEF Database
  <2>3. job' \in [Threads -> Job]
    BY <1>1, <1>2, <1>6, GotoType DEF DeletePasses, Steps
  <2> QED BY <1>1, <1>6, <2>2, <2>3 DEF DeletePasses, BackendInv, TypeOK
<1>7. CASE DeleteRider(t)
  <2>1. PICK tag \in Tags : /\ riders' = [riders EXCEPT ![tag] = "unregistered"]
                            /\ db' = [db EXCEPT !.riders[tag] = "unregistered"]
    BY <1>7 DEF DeleteRider
  <2>2. db' \in Database /\ riders' \in Riders
    BY <1>1, <2>1 DEF Database, Riders
  <2>3. job' \in [Threads -> Job]
    BY <1>1, <1>2, <1>7, GotoType DEF DeleteRider, Steps
  <2> QED BY <1>1, <1>7, <2>2, <2>3 DEF DeleteRider, BackendInv, TypeOK
<1>8. CASE Reopen(t)
  <2>1. db' \in Database
    BY <1>1, <1>2, <1>8 DEF Reopen, Database
  <2>2. job' \in [Threads -> Job]
    BY <1>1, <1>2, <1>8, GotoType DEF Reopen, Steps
  <2> QED BY <1>1, <1>8, <2>1, <2>2 DEF Reopen, BackendInv, TypeOK
<1>9. CASE StartRace(t)
  <2>1. RaceInv(Start(race, now))
    BY <1>1, StartInv
  <2>2. Start(race, now).started_at \in Nat
    BY <2>1 DEF RaceInv, Race
  <2>3. job' \in [Threads -> Job]
    BY <1>1, <1>2, <1>9, <2>2, GotoType DEF StartRace, Steps
  <2> QED BY <1>1, <1>9, <2>1, <2>3 DEF StartRace, BackendInv, TypeOK, RaceInv
<1>10. CASE EndRace(t)
  <2>1. RaceInv(End(race, now))
    BY <1>1, EndInv
  <2>2. End(race, now).ended_at \in Nat
    BY <2>1 DEF RaceInv, Race
  <2>3. job' \in [Threads -> Job]
    BY <1>1, <1>2, <1>10, <2>2, GotoType DEF EndRace, Steps
  <2> QED BY <1>1, <1>10, <2>1, <2>3 DEF EndRace, BackendInv, TypeOK, RaceInv
<1>11. CASE Reset(t)
  <2>1. RaceInv(Clear(race))
    BY <1>1, ClearInv
  <2>2. job' \in [Threads -> Job]
    BY <1>1, <1>2, <1>11, GotoType DEF Reset, Steps
  <2> QED BY <1>1, <1>11, <2>1, <2>2 DEF Reset, BackendInv, TypeOK, RaceInv
<1>12. CASE Register(t)
  <2>1. PICK tag \in Tags : /\ riders' = [riders EXCEPT ![tag] = "racing"]
                            /\ db' = [db EXCEPT !.riders[tag] = "racing"]
    BY <1>12 DEF Register
  <2>2. db' \in Database /\ riders' \in Riders
    BY <1>1, <2>1 DEF Database, Riders, Statuses
  <2> QED BY <1>1, <1>12, <2>2 DEF Register, BackendInv, TypeOK
<1>13. CASE Judge(t)
  <2>1. PICK tag \in Tags, status \in Verdicts :
          /\ riders' = [riders EXCEPT ![tag] = status]
          /\ db' = [db EXCEPT !.riders[tag] = status]
          /\ race' = SetStatus(race, tag, status)
    BY <1>13 DEF Judge
  <2>2. status \in Statuses
    BY VerdictsAssumption
  <2>3. db' \in Database /\ riders' \in Riders
    BY <1>1, <2>1, <2>2 DEF Database, Riders
  <2>4. RaceInv(race')
    BY <1>1, <2>1, <2>2, SetStatusInv
  <2> QED BY <1>1, <1>13, <2>3, <2>4 DEF Judge, BackendInv, TypeOK, RaceInv
<1> QED BY <1>3, <1>4, <1>5, <1>6, <1>7, <1>8, <1>9, <1>10, <1>11, <1>12, <1>13 DEF Request

(* A handler is carried on by a step. *)
LEMMA StepBackend ==
  ASSUME BackendInv, NEW t \in Threads, Step(t)
  PROVE  BackendInv'
<1>1. /\ TypeOK /\ RaceInv(race) /\ race \in Race /\ now \in Nat \ {0}
      /\ db \in Database /\ riders \in Riders
  BY BoundsAssumption DEF BackendInv, TypeOK
<1>2. {} \in SUBSET Row /\ None \in Nat
  BY DEF None
<1>3. job[t].rows \in SUBSET Row /\ job[t].at \in Nat
  BY <1>1, JobType
<1>4. CASE IngestCount(t)
  <2>1. PICK event \in job[t].rows :
          race' = IF Registered(event.tag) THEN AddLap(race, event.tag, event.ts, now) ELSE race
    BY <1>4 DEF IngestCount
  <2>2. event.tag \in Tags /\ event.ts \in Nat
    BY <1>3, <2>1 DEF Row
  <2>3. RaceInv(race')
    BY <1>1, <2>1, <2>2, AddLapInv
  <2> QED BY <1>1, <1>4, <2>3, ReplyType DEF IngestCount, BackendInv, TypeOK, RaceInv
<1>5. CASE ManualLog(t)
  <2>1. PICK event \in job[t].rows : db' = AppendEvent(db, event)
    BY <1>5 DEF ManualLog
  <2>2. db' \in Database
    BY <1>1, <1>3, <2>1, AppendEventType
  <2> QED BY <1>1, <1>5, <2>2, ReplyType DEF ManualLog, BackendInv, TypeOK
<1>6. CASE RemoveRow(t)
  <2>1. db' \in Database
    BY <1>1, <1>6 DEF RemoveRow, Database
  <2>2. job' \in [Threads -> Job]
    BY <1>1, <1>2, <1>6, GotoType DEF RemoveRow, Steps
  <2> QED BY <1>1, <1>6, <2>1, <2>2 DEF RemoveRow, BackendInv, TypeOK
<1>7. CASE RebuildClear(t)
  <2>1. RaceInv(race')
    BY <1>1, <1>7, ClearInv DEF RebuildClear
  <2>2. job' \in [Threads -> Job]
    BY <1>1, <1>2, <1>7, GotoType DEF RebuildClear, Steps
  <2> QED BY <1>1, <1>7, <2>1, <2>2 DEF RebuildClear, BackendInv, TypeOK, RaceInv
<1>8. CASE RebuildRead(t)
  <2>1. db.started_at \in Nat /\ db.ended_at \in Nat /\ db.log \in SUBSET Row
    BY <1>1 DEF Database
  <2>2. RaceInv(race')
    BY <1>1, <1>8, <2>1, StartInv DEF RebuildRead, None
  <2>3. job' \in [Threads -> Job]
    BY <1>1, <1>8, <2>1, GotoType DEF RebuildRead, Steps
  <2> QED BY <1>1, <1>8, <2>2, <2>3 DEF RebuildRead, BackendInv, TypeOK, RaceInv
<1>9. CASE Replay(t)
  <2>1. PICK row \in job[t].rows :
          /\ race' = IF Replayable(row, riders, job[t].at)
                     THEN AddLap(race, row.tag, row.ts, now) ELSE race
          /\ job' = [job EXCEPT ![t].rows = @ \ {row}]
    BY <1>9 DEF Replay
  <2>2. row.tag \in Tags /\ row.ts \in Nat
    BY <1>3, <2>1 DEF Row
  <2>3. RaceInv(race')
    BY <1>1, <2>1, <2>2, AddLapInv
  <2>4. job' \in [Threads -> Job]
    BY <1>1, <1>3, <2>1 DEF TypeOK, Job
  <2> QED BY <1>1, <1>9, <2>3, <2>4 DEF Replay, BackendInv, TypeOK, RaceInv
<1>10. CASE ReplayDone(t)
  <2> DEFINE ended == IF db.ended_at # None THEN End(race, db.ended_at) ELSE race
  <2>1. db.ended_at \in Nat
    BY <1>1 DEF Database
  <2>2. RaceInv(ended)
    BY <1>1, <2>1, EndInv DEF None
  <2>3. race' = [ended EXCEPT !.status = StatusOf(riders)]
    BY <1>10 DEF ReplayDone
  <2>4. RaceInv(race')
    <3> HIDE DEF ended
    <3> QED BY <1>1, <2>2, <2>3, StatusOfType, StatusInv
  <2> QED BY <1>1, <1>10, <2>4, ReplyType DEF ReplayDone, BackendInv, TypeOK, RaceInv
<1>11. CASE StartMeta(t) \/ ResetMeta(t)
  <2>1. db' \in Database
    BY <1>1, <1>2, <1>3, <1>11 DEF StartMeta, ResetMeta, Database
  <2>2. job' \in [Threads -> Job]
    BY <1>1, <1>2, <1>3, <1>11, GotoType DEF StartMeta, ResetMeta, Steps
  <2> QED BY <1>1, <1>11, <2>1, <2>2 DEF StartMeta, ResetMeta, BackendInv, TypeOK
<1>12. CASE StartRow(t) \/ EndRow(t)
  <2>1. db' \in Database
    BY <1>1, <1>3, <1>12 DEF StartRow, EndRow, Database
  <2> QED BY <1>1, <1>12, <2>1, ReplyType DEF StartRow, EndRow, BackendInv, TypeOK
<1>13. CASE ResetRow(t)
  <2>1. db' \in Database
    BY <1>1, <1>2, <1>13 DEF ResetRow, Database
  <2>2. job' \in [Threads -> Job]
    BY <1>1, <1>2, <1>13, GotoType DEF ResetRow, Steps
  <2> QED BY <1>1, <1>13, <2>1, <2>2 DEF ResetRow, BackendInv, TypeOK
<1>14. CASE ResetLog(t)
  <2>1. db' \in Database
    BY <1>1, <1>14 DEF ResetLog, Database
  <2> QED BY <1>1, <1>14, <2>1, ReplyType DEF ResetLog, BackendInv, TypeOK
<1> QED BY <1>4, <1>5, <1>6, <1>7, <1>8, <1>9, <1>10, <1>11, <1>12, <1>13, <1>14 DEF Step

(* The process dies and loads the race again. *)
LEMMA RestartBackend ==
  ASSUME BackendInv, Restart
  PROVE  BackendInv'
<1>1. db \in Database /\ now \in 1..MaxTime
  BY DEF BackendInv, TypeOK
<1>2. RaceInv(race') /\ riders' \in Riders
  BY <1>1, LoadedInv DEF Restart, Database
<1>3. job' \in [Threads -> Job]
  <2>1. db.log \in SUBSET Row /\ db.ended_at \in Nat
    BY <1>1 DEF Database
  <2>2. [pc |-> "load", rows |-> db.log, at |-> db.ended_at] \in Job /\ Idle \in Job
    BY <2>1 DEF Job, Idle, Steps, None
  <2> QED BY <2>2 DEF Restart
<1> QED BY <1>1, <1>2, <1>3 DEF Restart, BackendInv, TypeOK, RaceInv

LEMMA NextBackend == BackendInv /\ [Next]_vars => BackendInv'
<1> SUFFICES ASSUME BackendInv, [Next]_vars PROVE BackendInv'
  OBVIOUS
<1>1. CASE Tick
  BY <1>1, BoundsAssumption DEF Tick, BackendInv, TypeOK
<1>2. CASE UNCHANGED vars
  BY <1>2 DEF vars, BackendInv, TypeOK
<1> QED BY <1>1, <1>2, RequestBackend, StepBackend, RestartBackend DEF Next

(* The race in memory satisfies RaceInv at every step of every handler. *)
THEOREM BackendInvariant == Spec => []BackendInv
BY InitBackend, NextBackend, PTL DEF Spec

(* Memory, file and every handler in flight keep their shape. *)
THEOREM BackendTypeCorrect == Spec => []TypeOK
<1>1. BackendInv => TypeOK
  BY DEF BackendInv
<1> QED BY BackendInvariant, <1>1, PTL

(* Requests one after the other: late and repeated events, rebuilds,       *)
(* crashes and reloads never leave a race in memory that breaks the rules  *)
(* of counting and finishing (race.py add_lap, app.py                      *)
(* _rebuild_active_race_state_in_place, _load_active_race_state).          *)
THEOREM RaceRulesAlwaysHold == Spec => []RaceRulesHold
<1>1. BackendInv => RaceRulesHold
  BY DEF BackendInv, RaceInv, RaceRulesHold
<1> QED BY BackendInvariant, <1>1, PTL
------------------------------------------------------------------------------
(* The standings and the registry.  While a rebuild has not cleared the    *)
(* race yet, riders who were deleted may still have a row; until a rebuild *)
(* is done, their status may be an old one.                                *)
Clearing   == \E t \in Threads : job[t].pc = "clear"
Rebuilding == \E t \in Threads : job[t].pc \in {"clear", "read", "replay", "load"}

Standings ==
  /\ Clearing \/ \A tag \in Tags : race.participants[tag].seen => Registered(tag)
  /\ Rebuilding \/ race.status = StatusOf(riders)
  /\ riders = db.riders

LEMMA CountPassFrame ==
  ASSUME NEW r \in Race, NEW tag \in Tags, NEW ts
  PROVE  /\ CountPass(r, tag, ts).status = r.status
         /\ \A other \in Tags : other # tag =>
              CountPass(r, tag, ts).participants[other] = r.participants[other]
BY DEF CountPass, Race

(* A pass makes its own rider appear, and changes no status. *)
LEMMA AddLapFrame ==
  ASSUME NEW r \in Race, NEW tag \in Tags, NEW ts, NEW at
  PROVE  /\ AddLap(r, tag, ts, at).status = r.status
         /\ \A other \in Tags : other # tag =>
              AddLap(r, tag, ts, at).participants[other] = r.participants[other]
<1>1. LET s == [r EXCEPT !.participants[tag].seen = TRUE]
      IN  /\ s.status = r.status
          /\ \A other \in Tags : other # tag => s.participants[other] = r.participants[other]
  BY DEF Race
<1> QED BY <1>1, CountPassFrame DEF AddLap

(* A race that is cleared or started or ended. *)
LEMMA ClearFrame ==
  ASSUME NEW r \in Race
  PROVE  /\ Clear(r).status = r.status
         /\ \A tag \in Tags : ~Clear(r).participants[tag].seen /\ Clear(r).participants[tag].passes = <<>>
BY DEF Clear, NewRace, NoParticipants, Race

LEMMA StartEndFrame ==
  ASSUME NEW r \in Race, NEW at
  PROVE  /\ Start(r, at).status = r.status /\ Start(r, at).participants = r.participants
         /\ End(r, at).status = r.status /\ End(r, at).participants = r.participants
         /\ Start(r, at).started_at # None => r.started_at # None \/ at # None
BY DEF Start, End, Race

LEMMA LoadedFrame ==
  ASSUME NEW d
  PROVE  \A tag \in Tags : ~Loaded(d).participants[tag].seen /\ Loaded(d).participants[tag].passes = <<>>
BY DEF Loaded, Start, NewRace, NoParticipants

LEMMA JobFrame ==
  ASSUME TypeOK, NEW t \in Threads, NEW x, job' = [job EXCEPT ![t] = x]
  PROVE  job'[t] = x /\ \A u \in Threads : u # t => job'[u] = job[u]
BY DEF TypeOK

LEMMA GotoFrame ==
  ASSUME TypeOK, NEW t \in Threads, NEW pc, NEW rows, NEW at, Goto(t, pc, rows, at)
  PROVE  /\ job'[t].pc = pc /\ job'[t].rows = rows
         /\ \A u \in Threads : u # t => job'[u] = job[u]
<1>1. job'[t] = [pc |-> pc, rows |-> rows, at |-> at] /\ \A u \in Threads : u # t => job'[u] = job[u]
  BY JobFrame DEF Goto
<1> QED BY <1>1

(* What neither ends a rebuild nor touches the standings keeps them true.  *)
LEMMA StandingsStay ==
  ASSUME Standings, race'.participants = race.participants, race'.status = race.status,
         riders' = riders, db'.riders = db.riders,
         Clearing => Clearing', Rebuilding => Rebuilding'
  PROVE  Standings'
BY DEF Standings, Registered

LEMMA StandingsOfPass ==
  ASSUME Standings, TypeOK, NEW tag \in Tags, NEW ts, Registered(tag),
         race' = AddLap(race, tag, ts, now), riders' = riders, db'.riders = db.riders,
         Clearing => Clearing', Rebuilding => Rebuilding'
  PROVE  Standings'
<1>1. /\ race'.status = race.status
      /\ \A other \in Tags : other # tag => race'.participants[other] = race.participants[other]
  BY AddLapFrame DEF TypeOK
<1> QED BY <1>1 DEF Standings, Registered

(* A thread that goes on from anywhere but a rebuild. *)
LEMMA Elsewhere ==
  ASSUME TypeOK, NEW t \in Threads, job[t].pc \notin {"clear", "read", "replay", "load"},
         UNCHANGED job \/ \E x : job' = [job EXCEPT ![t] = x]
  PROVE  (Clearing => Clearing') /\ (Rebuilding => Rebuilding')
<1>1. \A u \in Threads : u # t => job'[u] = job[u]
  BY JobFrame
<1> QED BY <1>1 DEF Clearing, Rebuilding

LEMMA RequestStandings ==
  ASSUME BackendInv, Standings, NEW t \in Threads, Request(t)
  PROVE  Standings'
<1>1. TypeOK /\ race \in Race /\ db \in Database /\ riders \in Riders
  BY DEF BackendInv, TypeOK
<1>2. /\ job[t].pc = "idle"
      /\ UNCHANGED job \/ \E x : job' = [job EXCEPT ![t] = x]
  BY DEF Request, Accept, Goto, Reply, Ingest, ManualLap, RemoveLap, DeletePasses, DeleteRider, Reopen,
         StartRace, EndRace, Reset, Register, Judge
<1>3. (Clearing => Clearing') /\ (Rebuilding => Rebuilding')
  BY <1>1, <1>2, Elsewhere
<1>4. CASE Ingest(t) \/ RemoveLap(t) \/ DeletePasses(t) \/ Reopen(t)
  <2>1. UNCHANGED <<race, riders>>
    BY <1>4 DEF Ingest, RemoveLap, DeletePasses, Reopen
  <2>2. db'.riders = db.riders
    BY <1>1, <1>4 DEF Ingest, AppendEvent, RemoveLap, DeletePasses, Reopen, Database
  <2> QED BY <1>3, <2>1, <2>2, StandingsStay
<1>5. CASE StartRace(t) \/ EndRace(t)
  <2>1. UNCHANGED <<db, riders>> /\ (race' = Start(race, now) \/ race' = End(race, now))
    BY <1>5 DEF StartRace, EndRace
  <2>2. race'.participants = race.participants /\ race'.status = race.status
    BY <1>1, <2>1, StartEndFrame
  <2> QED BY <1>3, <2>1, <2>2, StandingsStay
<1>6. CASE ManualLap(t)
  <2>1. PICK tag \in Tags, ts \in Recent : Registered(tag) /\ race' = AddLap(race, tag, ts, now)
    BY <1>6 DEF ManualLap
  <2> QED BY <1>1, <1>3, <1>6, <2>1, StandingsOfPass DEF ManualLap
<1>7. CASE Reset(t)
  <2>1. race' = Clear(race) /\ UNCHANGED <<db, riders>>
    BY <1>7 DEF Reset
  <2> QED BY <1>1, <1>3, <2>1, ClearFrame DEF Standings
<1>8. CASE DeleteRider(t)
  <2>1. job'[t].pc = "clear"
    BY <1>1, <1>8, GotoFrame DEF DeleteRider
  <2>2. PICK tag \in Tags : /\ riders' = [riders EXCEPT ![tag] = "unregistered"]
                            /\ db' = [db EXCEPT !.riders[tag] = "unregistered"]
    BY <1>8 DEF DeleteRider
  <2>3. riders' = db'.riders
    BY <1>1, <2>2 DEF Standings, Database
  <2> QED BY <2>1, <2>3 DEF Standings, Clearing, Rebuilding
<1>9. CASE Register(t)
  <2>1. PICK tag \in Tags : /\ ~Registered(tag) /\ riders' = [riders EXCEPT ![tag] = "racing"]
                            /\ db' = [db EXCEPT !.riders[tag] = "racing"]
    BY <1>9 DEF Register
  <2>2. riders' = db'.riders
    BY <1>1, <2>1 DEF Standings, Database
  <2>3. StatusOf(riders') = StatusOf(riders)
    BY <1>1, <2>1 DEF StatusOf, Riders, Registered
  <2>4. \A other \in Tags : Registered(other) => Registered(other)'
    BY <1>1, <2>1 DEF Registered, Riders
  <2> QED BY <1>3, <1>9, <2>2, <2>3, <2>4 DEF Register, Standings
<1>10. CASE Judge(t)
  <2>1. PICK tag \in Tags, status \in Verdicts :
          /\ riders' = [riders EXCEPT ![tag] = status]
          /\ db' = [db EXCEPT !.riders[tag] = status]
          /\ race' = SetStatus(race, tag, status)
          /\ Registered(tag)
    BY <1>10 DEF Judge
  <2>2. status \in Statuses /\ status # "unregistered"
    BY VerdictsAssumption DEF Statuses
  <2>3. riders' = db'.riders
    BY <1>1, <2>1 DEF Standings, Database
  <2>4. race'.participants = race.participants /\ race'.status = [race.status EXCEPT ![tag] = status]
    BY <1>1, <2>1 DEF SetStatus, Race
  <2>5. StatusOf(riders') = [StatusOf(riders) EXCEPT ![tag] = status]
    BY <1>1, <2>1, <2>2 DEF StatusOf, Riders
  <2>6. \A other \in Tags : Registered(other) => Registered(other)'
    BY <1>1, <2>1, <2>2 DEF Registered, Riders
  <2> QED BY <1>3, <2>3, <2>4, <2>5, <2>6 DEF Standings
<1> QED BY <1>4, <1>5, <1>6, <1>7, <1>8, <1>9, <1>10 DEF Request

LEMMA StepStandings ==
  ASSUME BackendInv, Standings, NEW t \in Threads, Step(t)
  PROVE  Standings'
<1>1. /\ TypeOK /\ race \in Race /\ db \in Database /\ riders \in Riders
      /\ job[t].rows \in SUBSET Row
  BY JobType DEF BackendInv, TypeOK
<1>2. CASE IngestCount(t)
  <2>1. (Clearing => Clearing') /\ (Rebuilding => Rebuilding')
    BY <1>1, <1>2, Elsewhere DEF IngestCount, Reply
  <2>2. PICK event \in job[t].rows :
          race' = IF Registered(event.tag) THEN AddLap(race, event.tag, event.ts, now) ELSE race
    BY <1>2 DEF IngestCount
  <2>3. event.tag \in Tags
    BY <1>1, <2>2 DEF Row
  <2> QED BY <1>1, <1>2, <2>1, <2>2, <2>3, StandingsOfPass, StandingsStay DEF IngestCount
<1>3. CASE ManualLog(t) \/ RemoveRow(t) \/ StartMeta(t) \/ StartRow(t) \/ EndRow(t) \/ ResetMeta(t)
           \/ ResetRow(t) \/ ResetLog(t)
  <2>1. /\ UNCHANGED <<race, riders>> /\ job[t].pc \notin {"clear", "read", "replay", "load"}
        /\ \E x : job' = [job EXCEPT ![t] = x]
    BY <1>3 DEF ManualLog, RemoveRow, StartMeta, StartRow, EndRow, ResetMeta, ResetRow, ResetLog, Goto, Reply
  <2>2. db'.riders = db.riders
    BY <1>1, <1>3 DEF ManualLog, AppendEvent, RemoveRow, StartMeta, StartRow, EndRow, ResetMeta, ResetRow,
                      ResetLog, Database
  <2>3. (Clearing => Clearing') /\ (Rebuilding => Rebuilding')
    BY <1>1, <2>1, Elsewhere
  <2> QED BY <2>1, <2>2, <2>3, StandingsStay
<1>4. CASE RebuildClear(t)
  <2>1. race' = Clear(race) /\ UNCHANGED <<db, riders>>
    BY <1>4 DEF RebuildClear
  <2>2. job'[t].pc = "read"
    BY <1>1, <1>4, GotoFrame DEF RebuildClear
  <2> QED BY <1>1, <2>1, <2>2, ClearFrame DEF Standings, Rebuilding
<1>5. CASE RebuildRead(t)
  <2>1. job[t].pc = "read" /\ job'[t].pc = "replay" /\ \A u \in Threads : u # t => job'[u] = job[u]
    BY <1>1, <1>5, GotoFrame DEF RebuildRead
  <2>2. Rebuilding' /\ (Clearing => Clearing')
    BY <2>1 DEF Rebuilding, Clearing
  <2>3. race'.participants = race.participants /\ race'.status = race.status
    BY <1>1, <1>5, StartEndFrame DEF RebuildRead
  <2> QED BY <1>5, <2>2, <2>3, StandingsStay DEF RebuildRead
<1>6. CASE Replay(t)
  <2>1. PICK row \in job[t].rows :
          /\ race' = IF Replayable(row, riders, job[t].at)
                     THEN AddLap(race, row.tag, row.ts, now) ELSE race
          /\ job' = [job EXCEPT ![t].rows = @ \ {row}]
    BY <1>6 DEF Replay
  <2>2. \A u \in Threads : job'[u].pc = job[u].pc
    BY <1>1, <2>1 DEF TypeOK, Job
  <2>3. (Clearing => Clearing') /\ (Rebuilding => Rebuilding')
    BY <2>2 DEF Clearing, Rebuilding
  <2>4. row.tag \in Tags
    BY <1>1, <2>1 DEF Row
  <2>5. Replayable(row, riders, job[t].at) => Registered(row.tag)
    BY DEF Replayable, Registered
  <2> QED BY <1>1, <1>6, <2>1, <2>3, <2>4, <2>5, StandingsOfPass, StandingsStay DEF Replay
<1>7. CASE ReplayDone(t)
  <2> DEFINE ended == IF db.ended_at # None THEN End(race, db.ended_at) ELSE race
  <2>1. race' = [ended EXCEPT !.status = StatusOf(riders)] /\ UNCHANGED <<db, riders>>
    BY <1>7 DEF ReplayDone
  <2>2. ended.participants = race.participants /\ ended \in Race
    BY <1>1, StartEndFrame, EndInv DEF BackendInv, RaceInv, Database, None
  <2>3. race'.participants = race.participants /\ race'.status = StatusOf(riders)
    <3> HIDE DEF ended
    <3> QED BY <2>1, <2>2 DEF Race
  <2>4. job[t].pc # "clear" /\ \A u \in Threads : u # t => job'[u] = job[u]
    BY <1>1, <1>7, JobFrame DEF ReplayDone, Reply
  <2>5. Clearing => Clearing'
    BY <2>4 DEF Clearing
  <2> QED BY <2>1, <2>3, <2>5 DEF Standings, Registered
<1> QED BY <1>2, <1>3, <1>4, <1>5, <1>6, <1>7 DEF Step

LEMMA RestartStandings == ASSUME BackendInv, Restart PROVE Standings'
<1>1. race' = Loaded(db) /\ riders' = db.riders /\ db' = db
  BY DEF Restart
<1>2. job'[Main].pc = "load"
  BY ThreadsAssumption DEF Restart
<1> QED BY <1>1, <1>2, LoadedFrame, ThreadsAssumption DEF Standings, Rebuilding

LEMMA InitStandings == Init => Standings
<1> SUFFICES ASSUME Init PROVE Standings
  OBVIOUS
<1>1. PICK format \in Formats, registry \in [Tags -> {"racing", "unregistered"}] :
        db.riders = registry /\ race = NewRace(format) /\ riders = registry
  BY DEF Init
<1>2. StatusOf(riders) = race.status
  BY <1>1 DEF StatusOf, NewRace
<1> QED BY <1>1, <1>2 DEF Standings, NewRace, NoParticipants

LEMMA NextStandings == BackendInv /\ Standings /\ [Next]_vars => Standings'
<1> SUFFICES ASSUME BackendInv, Standings, [Next]_vars PROVE Standings'
  OBVIOUS
<1>1. CASE Tick \/ UNCHANGED vars
  <2>1. UNCHANGED <<db, race, riders, job>>
    BY <1>1 DEF Tick, vars
  <2> QED BY <2>1, StandingsStay DEF Clearing, Rebuilding
<1> QED BY <1>1, RequestStandings, StepStandings, RestartStandings DEF Next

THEOREM StandingsInvariant == Spec => []Standings
BY BackendInvariant, InitStandings, NextStandings, PTL DEF Spec

(* Between requests that do not overlap, whatever tags were read,          *)
(* registered and deleted: only a registered rider is on the standings     *)
(* (app.py post_events_batch, _replay_event, BUG-003).                     *)
THEOREM PhantomAlwaysFree == Spec => []PhantomFree
<1>1. Standings => PhantomFree
  BY DEF Standings, PhantomFree, Clearing, Quiet
<1> QED BY StandingsInvariant, <1>1, PTL

(* Between requests that do not overlap, the race ranks by the statuses    *)
(* the operator gave, and a restart finds the same ones in the file.       *)
THEOREM StatusesAlwaysAgree == Spec => []StatusesAgree
<1>1. Standings => StatusesAgree
  BY DEF Standings, StatusesAgree, Rebuilding, Quiet
<1> QED BY StandingsInvariant, <1>1, PTL

(* Both together, of requests that do not overlap: the standings are of    *)
(* the riders as the file has them, however many requests, crashes and     *)
(* reloads there were before (app.py delete_rider, patch_rider_status,     *)
(* _rebuild_active_race_state_in_place).                                   *)
THEOREM StandingsAlwaysOfRiders == Spec => []StandingsAreOfRiders
<1>1. PhantomFree /\ StatusesAgree => StandingsAreOfRiders
  BY DEF StandingsAreOfRiders
<1> QED BY PhantomAlwaysFree, StatusesAlwaysAgree, <1>1, PTL
------------------------------------------------------------------------------
(* One thread serves, and the reader's clock is set: what is counted is on *)
(* disk, or about to be.                                                   *)
OneWorker == Threads = {Main} /\ ~EpochReads

(* The steps of a backend that serves one request after the other. *)
MainNext == Tick \/ Restart \/ Request(Main) \/ Step(Main)

LEMMA OnlyMain == OneWorker /\ [Next]_vars => [MainNext]_vars
BY DEF OneWorker, Next, MainNext

Logged(log, tag, ts) == \E row \in log : row.tag = tag /\ row.ts = ts

AllLogged(r, log) ==
  \A tag \in Tags : \A i \in DOMAIN r.participants[tag].passes :
    Logged(log, tag, r.participants[tag].passes[i])

InHand(tag, ts) == job[Main].pc = "log" /\ \E event \in job[Main].rows : event.tag = tag /\ event.ts = ts

OnDisk ==
  /\ \A row \in db.log : row.ts # Epoch
  /\ job[Main].pc = "count" => \A event \in job[Main].rows : Logged(db.log, event.tag, event.ts)
  /\ job[Main].pc = "log" => \E event \in Row : job[Main].rows = {event} /\ event.ts # Epoch
  /\ job[Main].pc \in {"replay", "load"} => job[Main].rows \subseteq db.log
  /\ job[Main].pc \in {"reset_meta", "reset_row", "reset_log"} =>
       \A tag \in Tags : race.participants[tag].passes = <<>>
  /\ job[Main].pc # "clear" =>
       \A tag \in Tags : \A i \in DOMAIN race.participants[tag].passes :
         \/ Logged(db.log, tag, race.participants[tag].passes[i])
         \/ InHand(tag, race.participants[tag].passes[i])

(* AddLap counts the pass at its own time, or counts nothing. *)
LEMMA AddLapPasses ==
  ASSUME NEW r \in Race, NEW tag \in Tags, NEW ts \in Nat, ts # Epoch, NEW at
  PROVE  \A other \in Tags :
           \/ AddLap(r, tag, ts, at).participants[other].passes = r.participants[other].passes
           \/ /\ other = tag
              /\ AddLap(r, tag, ts, at).participants[other].passes = Append(r.participants[other].passes, ts)
<1>1. PassTime(ts, at) = ts
  BY DEF PassTime
<1>2. CASE Counts(r, tag, ts)
  <2>1. AddLap(r, tag, ts, at) = CountPass(r, tag, ts)
    BY <1>1, <1>2 DEF AddLap
  <2>2. CountPass(r, tag, ts).participants[tag].passes = Append(r.participants[tag].passes, ts)
    BY DEF CountPass, Race
  <2> QED BY <2>1, <2>2, CountPassFrame
<1>3. CASE ~Counts(r, tag, ts)
  <2>1. AddLap(r, tag, ts, at) = [r EXCEPT !.participants[tag].seen = TRUE]
    BY <1>1, <1>3 DEF AddLap
  <2> QED BY <2>1 DEF Race, Participant
<1> QED BY <1>2, <1>3

LEMMA AppendEventLogs ==
  ASSUME NEW d \in Database, NEW event \in Row
  PROVE  /\ d.log \subseteq AppendEvent(d, event).log
         /\ \E row \in AppendEvent(d, event).log : row.tag = event.tag /\ row.ts = event.ts
         /\ \A row \in AppendEvent(d, event).log : row \in d.log \/ row.ts = event.ts
<1>1. CASE Stored(d, event)
  BY <1>1 DEF AppendEvent, Stored
<1>2. CASE ~Stored(d, event)
  <2>1. PICK new : new = [event EXCEPT !.id = d.last_id + 1]
    OBVIOUS
  <2>2. new.tag = event.tag /\ new.ts = event.ts
    BY <2>1 DEF Row
  <2>3. AppendEvent(d, event).log = d.log \cup {new}
    BY <1>2, <2>1 DEF AppendEvent, Database
  <2> QED BY <2>2, <2>3
<1> QED BY <1>1, <1>2

(* The passes are as they were, and the log has them still. *)
LEMMA PassesStay ==
  ASSUME job[Main].pc # "clear", job[Main].pc # "log", OnDisk,
         \A tag \in Tags : race'.participants[tag].passes = race.participants[tag].passes,
         db.log \subseteq db'.log
  PROVE  AllLogged(race', db'.log)
BY DEF OnDisk, Logged, AllLogged, InHand

LEMMA PassIsNat == ASSUME NEW q \in Seq(Nat), NEW i \in 1..Len(q) PROVE q[i] \in Nat
OBVIOUS

LEMMA Appended ==
  ASSUME NEW q \in Seq(Nat), NEW ts \in Nat
  PROVE  \A i \in DOMAIN Append(q, ts) : (i \in DOMAIN q /\ Append(q, ts)[i] = q[i]) \/ Append(q, ts)[i] = ts
OBVIOUS

(* A pass is counted: it is in the log, or is the one in hand. *)
LEMMA PassCounted ==
  ASSUME NEW r \in Race, NEW tag \in Tags, NEW ts \in Nat, ts # Epoch, NEW at, NEW log, AllLogged(r, log),
         NEW s, s = AddLap(r, tag, ts, at)
  PROVE  \A other \in Tags : \A i \in DOMAIN s.participants[other].passes :
           \/ Logged(log, other, s.participants[other].passes[i])
           \/ other = tag /\ s.participants[other].passes[i] = ts
<1>1. \A other \in Tags :
        \/ s.participants[other].passes = r.participants[other].passes
        \/ /\ other = tag
           /\ s.participants[other].passes = Append(r.participants[other].passes, ts)
  BY AddLapPasses
<1>2. \A other \in Tags : r.participants[other].passes \in Seq(Nat)
  BY DEF Race, Participant
<1>3. ASSUME NEW other \in Tags, NEW i \in DOMAIN s.participants[other].passes
      PROVE  \/ Logged(log, other, s.participants[other].passes[i])
             \/ other = tag /\ s.participants[other].passes[i] = ts
  <2>1. CASE s.participants[other].passes = r.participants[other].passes
    BY <1>3, <2>1 DEF AllLogged
  <2>2. CASE /\ other = tag
             /\ s.participants[other].passes = Append(r.participants[other].passes, ts)
    BY <1>2, <1>3, <2>2, Appended DEF AllLogged
  <2> QED BY <1>1, <2>1, <2>2
<1> QED BY <1>3

LEMMA EventCounted ==
  ASSUME NEW r \in Race, NEW tag \in Tags, NEW ts \in Nat, ts # Epoch, NEW at, NEW log, AllLogged(r, log),
         Logged(log, tag, ts)
  PROVE  AllLogged(AddLap(r, tag, ts, at), log)
<1> DEFINE s == AddLap(r, tag, ts, at)
<1>1. s = AddLap(r, tag, ts, at)
  OBVIOUS
<1> HIDE DEF s
<1>2. \A other \in Tags : \A i \in DOMAIN s.participants[other].passes :
        \/ Logged(log, other, s.participants[other].passes[i])
        \/ other = tag /\ s.participants[other].passes[i] = ts
  BY <1>1, PassCounted
<1>3. AllLogged(s, log)
  BY <1>2 DEF AllLogged
<1> QED BY <1>1, <1>3

(* Where nothing is counted, cleared or logged. *)
LEMMA OnDiskIdle ==
  ASSUME AllLogged(race, db.log), \A row \in db.log : row.ts # Epoch,
         job[Main].pc \notin {"count", "log", "replay", "load", "reset_meta", "reset_row", "reset_log"}
  PROVE  OnDisk
BY DEF OnDisk, AllLogged

LEMMA RequestOnDisk ==
  ASSUME ~EpochReads, BackendInv, OnDisk, Request(Main)
  PROVE  OnDisk'
<1>1. TypeOK /\ race \in Race /\ db \in Database /\ now \in Nat /\ Main \in Threads
  BY ThreadsAssumption, BoundsAssumption DEF BackendInv, TypeOK
<1>2. job[Main].pc = "idle"
  BY ThreadsAssumption
  DEF Request, Accept, Ingest, ManualLap, RemoveLap, DeletePasses, DeleteRider, Reopen,
         StartRace, EndRace, Reset, Register, Judge
<1>3. AllLogged(race, db.log) /\ \A row \in db.log : row.ts # Epoch
  BY <1>2 DEF OnDisk, AllLogged, InHand
<1>4. CASE Ingest(Main)
  <2> PICK tag \in Tags : \E ts \in Deliverable(tag) :
          /\ db' = AppendEvent(db, Event(tag, ts, FALSE))
          /\ Goto(Main, "count", {Event(tag, ts, FALSE)}, None)
    BY <1>4 DEF Ingest
  <2>1. PICK ts \in Deliverable(tag) :
          /\ db' = AppendEvent(db, Event(tag, ts, FALSE))
          /\ Goto(Main, "count", {Event(tag, ts, FALSE)}, None)
    OBVIOUS
  <2>2. ts \in Nat /\ ts # Epoch
    BY <1>1, <1>3 DEF Deliverable, Recent, Epoch, Database, Row
  <2>3. Event(tag, ts, FALSE) \in Row /\ Event(tag, ts, FALSE).tag = tag /\ Event(tag, ts, FALSE).ts = ts
    BY <2>2, EventType DEF Event
  <2>4. /\ db.log \subseteq db'.log /\ Logged(db'.log, tag, ts)
        /\ \A row \in db'.log : row \in db.log \/ row.ts = ts
    <3> DEFINE event == Event(tag, ts, FALSE)
    <3>1. event \in Row /\ event.tag = tag /\ event.ts = ts /\ db' = AppendEvent(db, event)
      BY <2>1, <2>3
    <3> HIDE DEF event
    <3> QED BY <1>1, <3>1, AppendEventLogs DEF Logged
  <2>5. AllLogged(race', db'.log)
    BY <1>3, <1>4, <2>4 DEF Ingest, AllLogged, Logged
  <2>6. job'[Main].pc = "count" /\ job'[Main].rows = {Event(tag, ts, FALSE)}
    BY <1>1, <2>1, GotoFrame
  <2> QED BY <1>3, <2>2, <2>3, <2>4, <2>5, <2>6 DEF OnDisk, AllLogged
<1>5. CASE ManualLap(Main)
  <2>1. PICK tag \in Tags, ts \in Recent :
          /\ race' = AddLap(race, tag, ts, now)
          /\ IF Laps(race', tag) # Laps(race, tag)
             THEN Goto(Main, "log", {Event(tag, ts, TRUE)}, None) ELSE UNCHANGED job
    BY <1>5 DEF ManualLap
  <2>2. ts \in Nat /\ ts # Epoch
    BY DEF Recent, Epoch
  <2>3. Event(tag, ts, TRUE) \in Row /\ Event(tag, ts, TRUE).tag = tag /\ Event(tag, ts, TRUE).ts = ts
    BY <2>2, EventType DEF Event
  <2>4. \A other \in Tags : \A i \in DOMAIN race'.participants[other].passes :
          \/ Logged(db.log, other, race'.participants[other].passes[i])
          \/ other = tag /\ race'.participants[other].passes[i] = ts
    BY <1>1, <1>3, <2>1, <2>2, PassCounted
  <2>5. UNCHANGED db
    BY <1>5 DEF ManualLap
  <2>6. CASE Laps(race', tag) # Laps(race, tag)
    <3>1. job'[Main].pc = "log" /\ job'[Main].rows = {Event(tag, ts, TRUE)}
      BY <1>1, <2>1, <2>6, GotoFrame
    <3>2. \A other \in Tags : \A i \in DOMAIN race'.participants[other].passes :
            \/ Logged(db.log, other, race'.participants[other].passes[i])
            \/ \E event \in job'[Main].rows :
                 event.tag = other /\ event.ts = race'.participants[other].passes[i]
      BY <2>3, <2>4, <3>1
    <3>3. \E event \in Row : job'[Main].rows = {event} /\ event.ts # Epoch
      BY <2>2, <2>3, <3>1
    <3>4. job'[Main].pc = "log" /\ \A row \in db'.log : row.ts # Epoch
      BY <1>3, <2>5, <3>1
    <3> QED BY <2>5, <3>2, <3>3, <3>4 DEF OnDisk, InHand
  <2>7. CASE Laps(race', tag) = Laps(race, tag)
    <3>1. UNCHANGED job
      BY <2>1, <2>7
    <3>2. \A other \in Tags :
            \/ race'.participants[other].passes = race.participants[other].passes
            \/ /\ other = tag
               /\ race'.participants[other].passes = Append(race.participants[other].passes, ts)
      BY <1>1, <2>1, <2>2, AddLapPasses
    <3>3. race.participants[tag].passes \in Seq(Nat)
      BY <1>1 DEF Race, Participant
    <3>4. race'.participants[tag].passes # Append(race.participants[tag].passes, ts)
      BY <2>2, <2>7, <3>3 DEF Laps
    <3>5. \A other \in Tags : race'.participants[other].passes = race.participants[other].passes
      BY <3>2, <3>4
    <3> QED BY <1>2, <1>3, <2>5, <3>1, <3>5 DEF OnDisk, AllLogged
  <2> QED BY <2>6, <2>7
<1>6. CASE RemoveLap(Main) \/ DeletePasses(Main) \/ DeleteRider(Main) \/ Reopen(Main) \/ StartRace(Main)
           \/ EndRace(Main)
  <2>1. job'[Main].pc \in {"delete", "clear", "start_meta", "end_row"}
    BY <1>1, <1>6, GotoFrame DEF RemoveLap, DeletePasses, DeleteRider, Reopen, StartRace, EndRace
  <2>2. db'.log \subseteq db.log
    BY <1>1, <1>6 DEF RemoveLap, DeletePasses, DeleteRider, Reopen, StartRace, EndRace, Database
  <2>3. CASE job'[Main].pc = "clear"
    BY <1>3, <2>2, <2>3 DEF OnDisk
  <2>4. CASE job'[Main].pc # "clear"
    <3>1. RemoveLap(Main) \/ StartRace(Main) \/ EndRace(Main)
      BY <1>1, <1>6, <2>4, GotoFrame DEF DeletePasses, DeleteRider, Reopen
    <3>2. race'.participants = race.participants /\ db' = db
      BY <1>1, <3>1, StartEndFrame DEF RemoveLap, StartRace, EndRace
    <3> QED BY <1>3, <2>1, <2>4, <3>2 DEF OnDisk, AllLogged
  <2> QED BY <2>3, <2>4
<1>7. CASE Reset(Main)
  <2>1. \A tag \in Tags : race'.participants[tag].passes = <<>>
    BY <1>1, <1>7, ClearFrame DEF Reset
  <2>2. job'[Main].pc = "reset_meta" /\ db' = db
    BY <1>1, <1>7, GotoFrame DEF Reset
  <2> QED BY <1>3, <2>1, <2>2 DEF OnDisk
<1>8. CASE Register(Main) \/ Judge(Main)
  <2>1. race'.participants = race.participants /\ job' = job
    BY <1>1, <1>8 DEF Register, Judge, SetStatus, Race
  <2>2. db'.log = db.log
    BY <1>1, <1>8 DEF Register, Judge, Database
  <2> QED BY <1>2, <1>3, <2>1, <2>2 DEF OnDisk, AllLogged
<1> QED BY <1>4, <1>5, <1>6, <1>7, <1>8 DEF Request

LEMMA StepOnDisk ==
  ASSUME BackendInv, OnDisk, Step(Main)
  PROVE  OnDisk'
<1>1. /\ TypeOK /\ race \in Race /\ db \in Database /\ Main \in Threads
      /\ job[Main].rows \in SUBSET Row /\ \A row \in db.log : row.ts # Epoch
  BY ThreadsAssumption, JobType DEF BackendInv, TypeOK, OnDisk
<1>2. CASE IngestCount(Main)
  <2>1. PICK event \in job[Main].rows :
          race' = IF Registered(event.tag) THEN AddLap(race, event.tag, event.ts, now) ELSE race
    BY <1>2 DEF IngestCount
  <2>2. event.tag \in Tags /\ event.ts \in Nat /\ Logged(db.log, event.tag, event.ts)
    BY <1>1, <1>2, <2>1 DEF IngestCount, OnDisk, Row
  <2>3. event.ts # Epoch
    BY <1>1, <2>2 DEF Logged
  <2>4. AllLogged(race, db.log)
    BY <1>2 DEF IngestCount, OnDisk, AllLogged, InHand
  <2>5. AllLogged(race', db.log)
    BY <1>1, <2>1, <2>2, <2>3, <2>4, EventCounted
  <2>6. job'[Main] = Idle /\ db' = db
    BY <1>1, <1>2, JobFrame DEF IngestCount, Reply
  <2>7. job'[Main].pc = "idle"
    BY <2>6 DEF Idle
  <2> QED BY <1>1, <2>5, <2>6, <2>7 DEF OnDisk, AllLogged
<1>3. CASE ManualLog(Main)
  <2>1. PICK event \in Row : job[Main].rows = {event} /\ event.ts # Epoch
    BY <1>3 DEF ManualLog, OnDisk
  <2>2. db' = AppendEvent(db, event)
    BY <1>3, <2>1 DEF ManualLog
  <2>3. /\ db.log \subseteq db'.log /\ Logged(db'.log, event.tag, event.ts)
        /\ \A row \in db'.log : row \in db.log \/ row.ts = event.ts
    BY <1>1, <2>2, AppendEventLogs DEF Logged
  <2>4. UNCHANGED race /\ job'[Main] = Idle
    BY <1>1, <1>3, JobFrame DEF ManualLog, Reply
  <2>5. job'[Main].pc = "idle"
    BY <2>4 DEF Idle
  <2>6. AllLogged(race, db'.log)
    BY <1>3, <2>1, <2>3 DEF ManualLog, OnDisk, InHand, Logged, AllLogged
  <2> QED BY <1>1, <2>1, <2>3, <2>4, <2>5, <2>6 DEF OnDisk, AllLogged
<1>4. CASE RemoveRow(Main)
  <2>1. job'[Main].pc = "clear" /\ db'.log \subseteq db.log
    BY <1>1, <1>4, GotoFrame DEF RemoveRow, Database
  <2> QED BY <1>1, <2>1 DEF OnDisk
<1>5. CASE RebuildClear(Main)
  <2>1. job'[Main].pc = "read" /\ db' = db
    BY <1>1, <1>5, GotoFrame DEF RebuildClear
  <2>2. \A tag \in Tags : race'.participants[tag].passes = <<>>
    BY <1>1, <1>5, ClearFrame DEF RebuildClear
  <2> QED BY <1>1, <2>1, <2>2 DEF OnDisk
<1>6. CASE RebuildRead(Main)
  <2>1. job'[Main].pc = "replay" /\ job'[Main].rows = db.log /\ db' = db
    BY <1>1, <1>6, GotoFrame DEF RebuildRead
  <2>2. race'.participants = race.participants
    BY <1>1, <1>6, StartEndFrame DEF RebuildRead
  <2>3. AllLogged(race', db.log)
    BY <1>6, <2>2 DEF RebuildRead, OnDisk, AllLogged, InHand
  <2> QED BY <1>1, <2>1, <2>3 DEF OnDisk, AllLogged
<1>7. CASE Replay(Main)
  <2>1. PICK row \in job[Main].rows :
          /\ race' = IF Replayable(row, riders, job[Main].at)
                     THEN AddLap(race, row.tag, row.ts, now) ELSE race
          /\ job' = [job EXCEPT ![Main].rows = @ \ {row}]
    BY <1>7 DEF Replay
  <2>2. job[Main].pc \in {"replay", "load"} /\ db' = db
    BY <1>7 DEF Replay
  <2>3. job'[Main].pc = job[Main].pc /\ job'[Main].rows \subseteq job[Main].rows
    BY <1>1, <2>1 DEF TypeOK, Job
  <2>4. row \in db.log /\ row.tag \in Tags /\ row.ts \in Nat /\ row.ts # Epoch
    BY <1>1, <2>1, <2>2 DEF OnDisk, Row
  <2>5. Logged(db.log, row.tag, row.ts) /\ AllLogged(race, db.log)
    BY <2>2, <2>4 DEF OnDisk, AllLogged, InHand, Logged
  <2>6. AllLogged(race', db.log)
    BY <1>1, <2>1, <2>4, <2>5, EventCounted
  <2> QED BY <1>1, <2>2, <2>3, <2>6 DEF OnDisk, AllLogged
<1>8. CASE ReplayDone(Main)
  <2> DEFINE ended == IF db.ended_at # None THEN End(race, db.ended_at) ELSE race
  <2>1. race' = [ended EXCEPT !.status = StatusOf(riders)] /\ UNCHANGED db
    BY <1>8 DEF ReplayDone
  <2>2. ended.participants = race.participants /\ ended \in Race
    BY <1>1, StartEndFrame, EndInv DEF BackendInv, RaceInv, Database, None
  <2>3. race'.participants = race.participants
    <3> HIDE DEF ended
    <3> QED BY <2>1, <2>2 DEF Race
  <2>4. job'[Main] = Idle
    BY <1>1, <1>8, JobFrame DEF ReplayDone, Reply
  <2>5. job'[Main].pc = "idle"
    BY <2>4 DEF Idle
  <2>6. AllLogged(race', db'.log)
    BY <1>8, <2>1, <2>3 DEF ReplayDone, OnDisk, AllLogged, InHand
  <2> QED BY <1>1, <2>1, <2>5, <2>6 DEF OnDisk, AllLogged
<1>9. CASE StartMeta(Main) \/ StartRow(Main) \/ EndRow(Main)
  <2>1. UNCHANGED race /\ job[Main].pc \notin {"clear", "log"}
    BY <1>9 DEF StartMeta, StartRow, EndRow
  <2>2. db'.log = db.log
    BY <1>1, <1>9 DEF StartMeta, StartRow, EndRow, Database
  <2>3. CASE StartMeta(Main)
    <3>1. job'[Main].pc = "start_row"
      BY <1>1, <2>3, GotoFrame DEF StartMeta
    <3> QED BY <1>1, <2>1, <2>2, <3>1 DEF OnDisk, InHand
  <2>4. CASE StartRow(Main) \/ EndRow(Main)
    <3>1. job'[Main] = Idle
      BY <1>1, <2>4, JobFrame DEF StartRow, EndRow, Reply
    <3>2. job'[Main].pc = "idle"
      BY <3>1 DEF Idle
    <3> QED BY <1>1, <2>1, <2>2, <3>2 DEF OnDisk, InHand
  <2> QED BY <1>9, <2>3, <2>4
<1>10. CASE ResetMeta(Main) \/ ResetRow(Main)
  <2>1. job'[Main].pc \in {"reset_row", "reset_log"}
    BY <1>1, <1>10, GotoFrame DEF ResetMeta, ResetRow
  <2>2. db'.log = db.log /\ UNCHANGED race
    BY <1>1, <1>10 DEF ResetMeta, ResetRow, Database
  <2>3. \A tag \in Tags : race.participants[tag].passes = <<>>
    BY <1>10 DEF ResetMeta, ResetRow, OnDisk
  <2> QED BY <1>1, <2>1, <2>2, <2>3 DEF OnDisk
<1>11. CASE ResetLog(Main)
  <2>1. db'.log = {} /\ UNCHANGED race /\ job'[Main] = Idle
    BY <1>1, <1>11, JobFrame DEF ResetLog, Reply, Database
  <2>2. job'[Main].pc = "idle"
    BY <2>1 DEF Idle
  <2>3. \A tag \in Tags : race.participants[tag].passes = <<>>
    BY <1>11 DEF ResetLog, OnDisk
  <2> QED BY <2>1, <2>2, <2>3 DEF OnDisk
<1> QED BY <1>2, <1>3, <1>4, <1>5, <1>6, <1>7, <1>8, <1>9, <1>10, <1>11 DEF Step

LEMMA RestartOnDisk == ASSUME OnDisk, Restart PROVE OnDisk'
<1>1. race' = Loaded(db) /\ db' = db
  BY DEF Restart
<1>2. job'[Main].pc = "load" /\ job'[Main].rows = db.log
  BY ThreadsAssumption DEF Restart
<1> QED BY <1>1, <1>2, LoadedFrame DEF OnDisk

LEMMA InitOnDisk == Init => OnDisk
<1> SUFFICES ASSUME Init PROVE OnDisk
  OBVIOUS
<1>1. db.log = {}
  BY DEF Init
<1>2. \A tag \in Tags : race.participants[tag].passes = <<>>
  <2>1. PICK format \in Formats : race = NewRace(format)
    BY DEF Init
  <2> QED BY <2>1 DEF NewRace, NoParticipants
<1>3. job[Main].pc = "idle"
  BY ThreadsAssumption DEF Init, Idle
<1> QED BY <1>1, <1>2, <1>3 DEF OnDisk

LEMMA NextOnDisk == ~EpochReads /\ BackendInv /\ OnDisk /\ [MainNext]_vars => OnDisk'
<1> SUFFICES ASSUME ~EpochReads, BackendInv, OnDisk, [MainNext]_vars PROVE OnDisk'
  OBVIOUS
<1>1. CASE Tick \/ UNCHANGED vars
  BY <1>1 DEF Tick, vars, OnDisk, InHand
<1> QED BY <1>1, RequestOnDisk, StepOnDisk, RestartOnDisk DEF MainNext

LEMMA OnDiskCounted == BackendInv /\ OnDisk => CountedAreLogged
<1> SUFFICES ASSUME BackendInv, OnDisk, NEW tag \in Tags, NEW i \in 1..Laps(race, tag)
             PROVE  LET pass == race.participants[tag].passes[i]
                    IN  \/ \E row \in db.log : row.tag = tag /\ row.ts = pass
                        \/ \E t \in Threads :
                             \/ job[t].pc = "clear"
                             \/ job[t].pc = "log" /\ \E e \in job[t].rows : e.tag = tag /\ e.ts = pass
  BY DEF CountedAreLogged
<1>1. race.participants[tag].passes \in Seq(Nat)
  BY DEF BackendInv, TypeOK, Race, Participant
<1>2. i \in DOMAIN race.participants[tag].passes
  BY <1>1 DEF Laps
<1> QED BY <1>2, ThreadsAssumption DEF OnDisk, Logged, InHand

(* Requests one at a time, the reader's clock set: a lap on the standings  *)
(* is on disk, but for the manual lap that is about to be stored, through  *)
(* removals, rebuilds, resets and crashes at any point, for any number of  *)
(* riders, events and ticks (app.py post_events_batch, add_manual_lap).    *)
THEOREM CountedAlwaysLogged ==
  ASSUME OneWorker PROVE Spec => []CountedAreLogged
<1>1. BackendInv /\ OnDisk /\ [Next]_vars => OnDisk'
  BY OnlyMain, NextOnDisk DEF OneWorker
<1> QED BY BackendInvariant, OnDiskCounted, InitOnDisk, <1>1, PTL DEF Spec
------------------------------------------------------------------------------
(* The timeline: what memory and file say of the start and of the end      *)
(* while a request writes them one after the other, that nothing which has *)
(* been counted lies after the end, and that the log is a log.             *)
LoadedStart == IF db.meta_started # None THEN db.meta_started ELSE db.started_at

PassesUntil(time) ==
  \A tag \in Tags : \A i \in DOMAIN race.participants[tag].passes :
    race.participants[tag].passes[i] <= time

(* An id is given once, and nothing is from the future. *)
LogIsLog ==
  /\ IsFiniteSet(db.log)
  /\ \A row \in db.log : row.id <= db.last_id /\ row.ts <= now
  /\ \A row, other \in db.log : row.id = other.id => row = other
  /\ \A event \in job[Main].rows : event.ts <= now

StartsAgree ==
  /\ db.started_at # None /\ db.meta_started # None => db.started_at = db.meta_started
  /\ race.started_at # None /\ job[Main].pc # "start_meta" => race.started_at = LoadedStart
  /\ race.started_at = None /\ job[Main].pc \notin {"read", "reset_meta", "reset_row"} =>
       db.started_at = None
  /\ job[Main].pc \in {"read", "reset_meta", "reset_row", "reset_log"} => race.started_at = None
  /\ job[Main].pc \in {"start_meta", "start_row"} =>
       /\ job[Main].at = race.started_at /\ race.started_at # None
       /\ db.started_at \in {None, race.started_at}
  /\ job[Main].pc = "start_row" => db.meta_started = race.started_at

EndsAgree ==
  /\ race.ended_at # None => PassesUntil(race.ended_at)
  /\ db.ended_at # None => PassesUntil(db.ended_at)
  /\ db.ended_at # None
     /\ job[Main].pc \notin {"read", "replay", "load", "reset_meta", "reset_row"} =>
       race.ended_at # None
  /\ job[Main].pc \in {"replay", "load"} => job[Main].at = db.ended_at
  /\ job[Main].pc = "end_row" => job[Main].at = race.ended_at /\ race.ended_at # None

(* Who has laps has a row. *)
Shown == \A tag \in Tags : race.participants[tag].passes # <<>> => race.participants[tag].seen

Timeline == race.format = db.format /\ Shown /\ LogIsLog /\ StartsAgree /\ EndsAgree

(* A pass changes neither the format nor the start nor the end, and counts *)
(* in no race that is over.                                                *)
LEMMA AddLapRun ==
  ASSUME NEW r \in Race, NEW tag \in Tags, NEW ts, NEW at, NEW s, s = AddLap(r, tag, ts, at)
  PROVE  /\ s.format = r.format /\ s.started_at = r.started_at /\ s.ended_at = r.ended_at
         /\ s.participants[tag].seen
         /\ r.ended_at # None =>
              \A other \in Tags : s.participants[other].passes = r.participants[other].passes
<1> DEFINE time == PassTime(ts, at)
<1>1. CASE Counts(r, tag, time)
  <2>1. s = CountPass(r, tag, time) /\ r.ended_at = None
    BY <1>1 DEF AddLap, Counts
  <2> QED BY <2>1 DEF CountPass, Race
<1>2. CASE ~Counts(r, tag, time)
  <2>1. s = [r EXCEPT !.participants[tag].seen = TRUE]
    BY <1>2 DEF AddLap
  <2> QED BY <2>1 DEF Race, Participant
<1> QED BY <1>1, <1>2

LEMMA ClearRun ==
  ASSUME NEW r PROVE Clear(r).format = r.format /\ Clear(r).started_at = None /\ Clear(r).ended_at = None
BY DEF Clear, NewRace

LEMMA LoadedRun ==
  ASSUME NEW d
  PROVE  /\ Loaded(d).format = d.format /\ Loaded(d).ended_at = None
         /\ Loaded(d).started_at = IF d.meta_started # None THEN d.meta_started ELSE d.started_at
BY DEF Loaded, Start, NewRace

LEMMA StartEndRun ==
  ASSUME NEW r \in Race, NEW at
  PROVE  /\ Start(r, at).format = r.format /\ Start(r, at).ended_at = r.ended_at
         /\ Start(r, at).started_at = IF r.started_at # None THEN r.started_at ELSE at
         /\ End(r, at).format = r.format /\ End(r, at).started_at = r.started_at
         /\ End(r, at).ended_at = IF r.ended_at # None THEN r.ended_at ELSE at
BY DEF Start, End, Race

LEMMA GotoAt ==
  ASSUME TypeOK, NEW pc, NEW rows, NEW at, Goto(Main, pc, rows, at)
  PROVE  job'[Main].pc = pc /\ job'[Main].rows = rows /\ job'[Main].at = at
<1>1. job'[Main] = [pc |-> pc, rows |-> rows, at |-> at]
  BY JobFrame, ThreadsAssumption DEF Goto
<1> QED BY <1>1

LEMMA ReplyAt ==
  ASSUME TypeOK, Reply(Main)
  PROVE  job'[Main].pc = "idle" /\ job'[Main].rows = {} /\ job'[Main].at = None
<1>1. job'[Main] = Idle
  BY JobFrame, ThreadsAssumption DEF Reply
<1> QED BY <1>1 DEF Idle

LEMMA DoneRun ==
  ASSUME BackendInv, ReplayDone(Main)
  PROVE  /\ race'.format = race.format /\ race'.started_at = race.started_at
         /\ race'.ended_at = IF race.ended_at # None THEN race.ended_at ELSE db.ended_at
         /\ race'.participants = race.participants
<1> DEFINE ended == IF db.ended_at # None THEN End(race, db.ended_at) ELSE race
<1>1. TypeOK /\ RaceInv(race) /\ race \in Race /\ db \in Database
  BY DEF BackendInv, TypeOK
<1>2. race' = [ended EXCEPT !.status = StatusOf(riders)]
  BY DEF ReplayDone
<1>3. ended \in Race
  BY <1>1, EndInv DEF RaceInv, Database, None
<1>4. /\ ended.format = race.format /\ ended.started_at = race.started_at
      /\ ended.ended_at = IF race.ended_at # None THEN race.ended_at ELSE db.ended_at
      /\ ended.participants = race.participants
  BY <1>1, StartEndRun, StartEndFrame
<1> HIDE DEF ended
<1> QED BY <1>2, <1>3, <1>4 DEF Race
------------------------------------------------------------------------------
(* The log. *)
LEMMA AppendEventIsLog ==
  ASSUME NEW d \in Database, NEW event \in Row, NEW time \in Nat, event.ts <= time,
         IsFiniteSet(d.log),
         \A row \in d.log : row.id <= d.last_id /\ row.ts <= time,
         \A row, other \in d.log : row.id = other.id => row = other,
         NEW e, e = AppendEvent(d, event)
  PROVE  /\ IsFiniteSet(e.log)
         /\ \A row \in e.log : row.id <= e.last_id /\ row.ts <= time
         /\ \A row, other \in e.log : row.id = other.id => row = other
<1>1. CASE Stored(d, event)
  BY <1>1 DEF AppendEvent
<1>2. CASE ~Stored(d, event)
  <2>1. PICK new : new = [event EXCEPT !.id = d.last_id + 1]
    OBVIOUS
  <2>2. new.id = d.last_id + 1 /\ new.ts = event.ts
    BY <2>1 DEF Row
  <2>3. e.log = d.log \cup {new} /\ e.last_id = d.last_id + 1
    BY <1>2, <2>1 DEF AppendEvent, Database
  <2>4. IsFiniteSet(e.log)
    BY <2>3, FS_AddElement
  <2>5. d.last_id \in Nat /\ \A row \in d.log : row.id \in Nat /\ row.id # d.last_id + 1
    BY DEF Database, Row
  <2> QED BY <2>2, <2>3, <2>4, <2>5
<1> QED BY <1>1, <1>2

(* Where rows are at most taken away from the log. *)
LEMMA LogShrinks ==
  ASSUME LogIsLog, TypeOK, db'.log \subseteq db.log, db'.last_id = db.last_id, now' = now,
         \A event \in job'[Main].rows : event \in db.log \cup job[Main].rows
  PROVE  LogIsLog'
<1>1. IsFiniteSet(db'.log)
  BY FS_Subset DEF LogIsLog
<1> QED BY <1>1 DEF LogIsLog

LEMMA RequestLog ==
  ASSUME BackendInv, OnDisk, LogIsLog, Request(Main) PROVE LogIsLog'
<1>1. TypeOK /\ race \in Race /\ db \in Database /\ now \in Nat /\ Main \in Threads
  BY ThreadsAssumption, BoundsAssumption DEF BackendInv, TypeOK
<1>2. CASE Ingest(Main)
  <2> PICK tag \in Tags : \E ts \in Deliverable(tag) :
          /\ db' = AppendEvent(db, Event(tag, ts, FALSE))
          /\ Goto(Main, "count", {Event(tag, ts, FALSE)}, None)
    BY <1>2 DEF Ingest
  <2> PICK ts \in Deliverable(tag) :
          /\ db' = AppendEvent(db, Event(tag, ts, FALSE))
          /\ Goto(Main, "count", {Event(tag, ts, FALSE)}, None)
    OBVIOUS
  <2> DEFINE event == Event(tag, ts, FALSE)
  <2>1. ts \in Nat /\ ts <= now
    BY <1>1 DEF Deliverable, Recent, Epoch, Database, Row, LogIsLog
  <2>2. event \in Row /\ event.ts <= now
    BY <2>1, EventType DEF Event
  <2>3. db' = AppendEvent(db, event) /\ Goto(Main, "count", {event}, None) /\ now' = now
    BY <1>2 DEF Ingest
  <2> HIDE DEF event
  <2>4. job'[Main].rows = {event}
    BY <1>1, <2>3, GotoAt
  <2>5. /\ IsFiniteSet(db'.log)
        /\ \A row \in db'.log : row.id <= db'.last_id /\ row.ts <= now
        /\ \A row, other \in db'.log : row.id = other.id => row = other
    BY <1>1, <2>2, <2>3, AppendEventIsLog DEF LogIsLog
  <2> QED BY <2>2, <2>3, <2>4, <2>5 DEF LogIsLog
<1>3. CASE ManualLap(Main)
  <2>1. PICK tag \in Tags, ts \in Recent :
          \/ Goto(Main, "log", {Event(tag, ts, TRUE)}, None)
          \/ UNCHANGED job
    BY <1>3 DEF ManualLap
  <2>2. ts <= now /\ Event(tag, ts, TRUE).ts = ts
    BY DEF Recent, Event
  <2>3. \A event \in job'[Main].rows : event.ts <= now
    <3>1. CASE Goto(Main, "log", {Event(tag, ts, TRUE)}, None)
      <4>1. job'[Main].rows = {Event(tag, ts, TRUE)}
        BY <1>1, <3>1, GotoAt
      <4> QED BY <2>2, <4>1
    <3> QED BY <2>1, <3>1 DEF LogIsLog
  <2> QED BY <1>3, <2>3 DEF ManualLap, LogIsLog
<1>4. CASE ~Ingest(Main) /\ ~ManualLap(Main)
  <2>1. now' = now /\ db'.log \subseteq db.log /\ db'.last_id = db.last_id
    BY <1>1, <1>4 DEF Request, RemoveLap, DeletePasses, DeleteRider, Reopen, StartRace, EndRace, Reset,
                      Register, Judge, Database
  <2>2. \/ UNCHANGED job
        \/ \E row \in db.log : Goto(Main, "delete", {row}, None)
        \/ \E pc, at : Goto(Main, pc, {}, at)
    BY <1>4 DEF Request, RemoveLap, DeletePasses, DeleteRider, Reopen, StartRace, EndRace, Reset,
                Register, Judge
  <2>3. \A event \in job'[Main].rows : event \in db.log \cup job[Main].rows
    <3>1. ASSUME NEW row \in db.log, Goto(Main, "delete", {row}, None) PROVE job'[Main].rows = {row}
      BY <1>1, <3>1, GotoAt
    <3>2. ASSUME NEW pc, NEW at, Goto(Main, pc, {}, at) PROVE job'[Main].rows = {}
      BY <1>1, <3>2, GotoAt
    <3> QED BY <2>2, <3>1, <3>2
  <2> QED BY <1>1, <2>1, <2>3, LogShrinks
<1> QED BY <1>2, <1>3, <1>4

LEMMA StepLog ==
  ASSUME BackendInv, OnDisk, LogIsLog, Step(Main) PROVE LogIsLog'
<1>1. TypeOK /\ race \in Race /\ db \in Database /\ now \in Nat /\ Main \in Threads
  BY ThreadsAssumption, BoundsAssumption DEF BackendInv, TypeOK
<1>2. CASE ManualLog(Main)
  <2>1. PICK event \in Row : job[Main].rows = {event}
    BY <1>2 DEF ManualLog, OnDisk
  <2>2. db' = AppendEvent(db, event) /\ now' = now /\ event.ts <= now
    BY <1>2, <2>1 DEF ManualLog, LogIsLog
  <2>3. job'[Main].rows = {}
    BY <1>1, <1>2, ReplyAt DEF ManualLog
  <2>4. /\ IsFiniteSet(db'.log)
        /\ \A row \in db'.log : row.id <= db'.last_id /\ row.ts <= now
        /\ \A row, other \in db'.log : row.id = other.id => row = other
    BY <1>1, <2>2, AppendEventIsLog DEF LogIsLog
  <2> QED BY <2>2, <2>3, <2>4 DEF LogIsLog
<1>3. CASE Replay(Main)
  <2>1. job'[Main].rows \subseteq job[Main].rows
    BY <1>1, <1>3 DEF Replay, TypeOK, Job
  <2> QED BY <1>1, <1>3, <2>1, LogShrinks DEF Replay
<1>4. CASE ~ManualLog(Main) /\ ~Replay(Main)
  <2>1. now' = now /\ db'.log \subseteq db.log /\ db'.last_id = db.last_id
    BY <1>1, <1>4 DEF Step, IngestCount, RemoveRow, RebuildClear, RebuildRead, ReplayDone, StartMeta,
                      StartRow, EndRow, ResetMeta, ResetRow, ResetLog, Database
  <2>2. Reply(Main) \/ \E pc, at : Goto(Main, pc, {}, at) \/ Goto(Main, pc, db.log, at)
    BY <1>4 DEF Step, IngestCount, RemoveRow, RebuildClear, RebuildRead, ReplayDone, StartMeta,
                StartRow, EndRow, ResetMeta, ResetRow, ResetLog
  <2>3. \A event \in job'[Main].rows : event \in db.log \cup job[Main].rows
    BY <1>1, <2>2, GotoAt, ReplyAt
  <2> QED BY <1>1, <2>1, <2>3, LogShrinks
<1> QED BY <1>2, <1>3, <1>4

LEMMA RestartLog ==
  ASSUME BackendInv, LogIsLog, Restart PROVE LogIsLog'
<1>1. job'[Main].rows = db.log
  BY ThreadsAssumption DEF Restart
<1> QED BY <1>1, LogShrinks DEF Restart, BackendInv
------------------------------------------------------------------------------
(* Who is counted appears. *)
LEMMA ShownAfterPass ==
  ASSUME Shown, race \in Race, NEW tag \in Tags, NEW ts, race' = AddLap(race, tag, ts, now)
  PROVE  Shown'
<1>1. race'.participants[tag].seen
  BY AddLapRun
<1>2. \A other \in Tags : other # tag => race'.participants[other] = race.participants[other]
  BY AddLapFrame
<1> QED BY <1>1, <1>2 DEF Shown

LEMMA ShownStay ==
  ASSUME Shown, race'.participants = race.participants PROVE Shown'
BY DEF Shown

LEMMA NothingToShow ==
  ASSUME \A tag \in Tags : race'.participants[tag].passes = <<>> PROVE Shown'
BY DEF Shown

LEMMA NextShown ==
  ASSUME BackendInv, Shown, [MainNext]_vars PROVE Shown'
<1>1. TypeOK /\ race \in Race /\ RaceInv(race) /\ db \in Database /\ job[Main].rows \in SUBSET Row
  BY JobType, ThreadsAssumption DEF BackendInv, TypeOK
<1>2. CASE Tick \/ UNCHANGED vars
  BY <1>2, ShownStay DEF Tick, vars
<1>3. CASE Restart
  BY <1>3, LoadedFrame, NothingToShow DEF Restart
<1>4. CASE Request(Main)
  <2>1. CASE ManualLap(Main)
    BY <1>1, <2>1, ShownAfterPass DEF ManualLap
  <2>2. CASE Reset(Main)
    BY <1>1, <2>2, ClearFrame, NothingToShow DEF Reset
  <2>3. CASE ~ManualLap(Main) /\ ~Reset(Main)
    <3>1. CASE StartRace(Main) \/ EndRace(Main)
      BY <1>1, <3>1, StartEndFrame, ShownStay DEF StartRace, EndRace
    <3>2. CASE Judge(Main)
      <4>1. race'.participants = race.participants
        BY <1>1, <3>2 DEF Judge, SetStatus, Race
      <4> QED BY <4>1, ShownStay
    <3>3. CASE UNCHANGED race
      BY <3>3, ShownStay
    <3> QED BY <1>4, <2>3, <3>1, <3>2, <3>3
            DEF Request, Ingest, RemoveLap, DeletePasses, DeleteRider, Reopen, Register
  <2> QED BY <2>1, <2>2, <2>3
<1>5. CASE Step(Main)
  <2>1. CASE IngestCount(Main)
    <3>1. PICK event \in job[Main].rows :
            race' = IF Registered(event.tag) THEN AddLap(race, event.tag, event.ts, now) ELSE race
      BY <2>1 DEF IngestCount
    <3>2. event.tag \in Tags
      BY <1>1, <3>1 DEF Row
    <3> QED BY <1>1, <3>1, <3>2, ShownAfterPass, ShownStay
  <2>2. CASE Replay(Main)
    <3>1. PICK row \in job[Main].rows :
            race' = IF Replayable(row, riders, job[Main].at)
                    THEN AddLap(race, row.tag, row.ts, now) ELSE race
      BY <2>2 DEF Replay
    <3>2. row.tag \in Tags
      BY <1>1, <3>1 DEF Row
    <3> QED BY <1>1, <3>1, <3>2, ShownAfterPass, ShownStay
  <2>3. CASE RebuildClear(Main)
    BY <1>1, <2>3, ClearFrame, NothingToShow DEF RebuildClear
  <2>4. CASE RebuildRead(Main)
    BY <1>1, <2>4, StartEndFrame, ShownStay DEF RebuildRead
  <2>5. CASE ReplayDone(Main)
    BY <1>1, <2>5, DoneRun, ShownStay
  <2>6. CASE UNCHANGED race
    BY <2>6, ShownStay
  <2> QED BY <1>5, <2>1, <2>2, <2>3, <2>4, <2>5, <2>6
          DEF Step, ManualLog, RemoveRow, StartMeta, StartRow, EndRow, ResetMeta, ResetRow, ResetLog
<1> QED BY <1>2, <1>3, <1>4, <1>5 DEF MainNext
------------------------------------------------------------------------------
(* Format, start and end.  First the steps that leave them alone. *)
Ordinary == {"idle", "count", "log", "delete", "clear"}

RunsAgree == race.format = db.format /\ StartsAgree /\ EndsAgree

LEMMA OrdinaryRun ==
  ASSUME RunsAgree, job[Main].pc \in Ordinary, job'[Main].pc \in Ordinary,
         race'.format = race.format, race'.started_at = race.started_at,
         race'.ended_at = race.ended_at,
         db'.format = db.format, db'.started_at = db.started_at, db'.meta_started = db.meta_started,
         db'.ended_at \in {db.ended_at, None},
         race.ended_at # None =>
           \A tag \in Tags : race'.participants[tag].passes = race.participants[tag].passes
  PROVE  RunsAgree'
<1>1. LoadedStart' = LoadedStart
  BY DEF LoadedStart
<1>2. StartsAgree'
  BY <1>1 DEF RunsAgree, StartsAgree, Ordinary
<1>3. race.ended_at # None => \A time : PassesUntil(time) => PassesUntil(time)'
  BY DEF PassesUntil
<1>4. db'.ended_at # None => db'.ended_at = db.ended_at /\ race.ended_at # None
  BY DEF RunsAgree, EndsAgree, Ordinary
<1>5. (race'.ended_at # None => PassesUntil(race.ended_at)')
  BY DEF RunsAgree, EndsAgree, PassesUntil
<1>6. (db'.ended_at # None => PassesUntil(db.ended_at)')
  BY <1>4 DEF RunsAgree, EndsAgree, PassesUntil
<1>7. EndsAgree'
  BY <1>4, <1>5, <1>6 DEF EndsAgree, Ordinary
<1> QED BY <1>2, <1>7 DEF RunsAgree

LEMMA IdleLogged ==
  ASSUME BackendInv, OnDisk, LogIsLog, job[Main].pc = "idle" PROVE PassesUntil(now)
<1>1. \A tag \in Tags : \A i \in DOMAIN race.participants[tag].passes :
        Logged(db.log, tag, race.participants[tag].passes[i])
  BY DEF OnDisk, InHand
<1> QED BY <1>1 DEF PassesUntil, Logged, LogIsLog

LEMMA RequestRun ==
  ASSUME BackendInv, OnDisk, LogIsLog, RunsAgree, Request(Main) PROVE RunsAgree'
<1>1. TypeOK /\ race \in Race /\ RaceInv(race) /\ db \in Database /\ now \in Nat \ {0} /\ Main \in Threads
  BY ThreadsAssumption, BoundsAssumption DEF BackendInv, TypeOK
<1>2. job[Main].pc = "idle"
  BY ThreadsAssumption
  DEF Request, Accept, Ingest, ManualLap, RemoveLap, DeletePasses, DeleteRider, Reopen,
         StartRace, EndRace, Reset, Register, Judge
<1>3. CASE \/ Ingest(Main) \/ RemoveLap(Main) \/ DeletePasses(Main) \/ DeleteRider(Main) \/ Reopen(Main)
           \/ Register(Main) \/ Judge(Main)
  <2>1. /\ race'.format = race.format /\ race'.started_at = race.started_at
        /\ race'.ended_at = race.ended_at /\ race'.participants = race.participants
    BY <1>1, <1>3 DEF Ingest, RemoveLap, DeletePasses, DeleteRider, Reopen, Register, Judge,
                      SetStatus, Race
  <2>2. /\ db'.format = db.format /\ db'.started_at = db.started_at
        /\ db'.meta_started = db.meta_started /\ db'.ended_at \in {db.ended_at, None}
    BY <1>1, <1>3 DEF Ingest, RemoveLap, DeletePasses, DeleteRider, Reopen, Register, Judge,
                      AppendEvent, Database
  <2>3. UNCHANGED job \/ \E pc \in Ordinary : \E rows, at : Goto(Main, pc, rows, at)
    BY <1>3 DEF Ingest, RemoveLap, DeletePasses, DeleteRider, Reopen, Register, Judge, Ordinary
  <2>4. job'[Main].pc \in Ordinary
    BY <1>1, <1>2, <2>3, GotoAt DEF Ordinary
  <2> QED BY <1>2, <2>1, <2>2, <2>4, OrdinaryRun DEF Ordinary
<1>4. CASE ManualLap(Main)
  <2>1. PICK tag \in Tags, ts \in Recent :
          /\ race' = AddLap(race, tag, ts, now)
          /\ \/ Goto(Main, "log", {Event(tag, ts, TRUE)}, None)
             \/ UNCHANGED job
    BY <1>4 DEF ManualLap
  <2>2. /\ race'.format = race.format /\ race'.started_at = race.started_at
        /\ race'.ended_at = race.ended_at /\ race.ended_at = None
    BY <1>1, <1>4, <2>1, AddLapRun DEF ManualLap
  <2>3. job'[Main].pc \in Ordinary
    BY <1>1, <1>2, <2>1, GotoAt DEF Ordinary
  <2> QED BY <1>2, <1>4, <2>2, <2>3, OrdinaryRun DEF ManualLap, Ordinary
<1>5. CASE StartRace(Main)
  <2>1. /\ race'.format = race.format /\ race'.ended_at = race.ended_at
        /\ race'.started_at = IF race.started_at # None THEN race.started_at ELSE now
        /\ race'.participants = race.participants
    BY <1>1, <1>5, StartEndRun, StartEndFrame DEF StartRace
  <2>2. job'[Main].pc = "start_meta" /\ job'[Main].at = race'.started_at /\ db' = db
    BY <1>1, <1>5, GotoAt DEF StartRace
  <2>3. race'.started_at # None
    BY <1>1, <2>1 DEF None
  <2>4. db.started_at \in {None, race'.started_at}
    BY <1>2, <2>1 DEF RunsAgree, StartsAgree, LoadedStart
  <2>5. StartsAgree'
    BY <2>2, <2>3, <2>4 DEF RunsAgree, StartsAgree
  <2>6. EndsAgree'
    BY <1>2, <2>1, <2>2 DEF RunsAgree, EndsAgree, PassesUntil
  <2> QED BY <2>1, <2>2, <2>5, <2>6 DEF RunsAgree
<1>6. CASE EndRace(Main)
  <2>1. /\ race'.format = race.format /\ race'.started_at = race.started_at
        /\ race'.ended_at = IF race.ended_at # None THEN race.ended_at ELSE now
        /\ race'.participants = race.participants
    BY <1>1, <1>6, StartEndRun, StartEndFrame DEF EndRace
  <2>2. job'[Main].pc = "end_row" /\ job'[Main].at = race'.ended_at /\ db' = db
    BY <1>1, <1>6, GotoAt DEF EndRace
  <2>3. race'.ended_at # None
    BY <1>1, <2>1 DEF None
  <2>4. PassesUntil(race.ended_at)'
    BY <1>2, <2>1, IdleLogged DEF RunsAgree, EndsAgree, PassesUntil
  <2>5. db'.ended_at # None => PassesUntil(db.ended_at)'
    BY <2>1, <2>2 DEF RunsAgree, EndsAgree, PassesUntil
  <2>6. EndsAgree'
    BY <2>2, <2>3, <2>4, <2>5 DEF EndsAgree
  <2>7. StartsAgree'
    BY <1>2, <2>1, <2>2 DEF RunsAgree, StartsAgree, LoadedStart
  <2> QED BY <2>1, <2>2, <2>6, <2>7 DEF RunsAgree
<1>7. CASE Reset(Main)
  <2>1. /\ race'.format = race.format /\ race'.started_at = None /\ race'.ended_at = None
        /\ \A tag \in Tags : race'.participants[tag].passes = <<>>
    BY <1>1, <1>7, ClearRun, ClearFrame DEF Reset
  <2>2. job'[Main].pc = "reset_meta" /\ db' = db
    BY <1>1, <1>7, GotoAt DEF Reset
  <2>3. StartsAgree'
    BY <1>2, <2>1, <2>2 DEF RunsAgree, StartsAgree
  <2>4. EndsAgree'
    BY <2>1, <2>2 DEF EndsAgree, PassesUntil
  <2> QED BY <2>1, <2>2, <2>3, <2>4 DEF RunsAgree
<1> QED BY <1>3, <1>4, <1>5, <1>6, <1>7 DEF Request

(* The steps of a rebuild. *)
LEMMA RebuildRun ==
  ASSUME BackendInv, OnDisk, RunsAgree, RebuildClear(Main) \/ RebuildRead(Main) PROVE RunsAgree'
<1>1. TypeOK /\ race \in Race /\ db \in Database
  BY DEF BackendInv, TypeOK
<1>2. CASE RebuildClear(Main)
  <2>1. /\ race'.format = race.format /\ race'.started_at = None /\ race'.ended_at = None
        /\ \A tag \in Tags : race'.participants[tag].passes = <<>>
    BY <1>1, <1>2, ClearRun, ClearFrame DEF RebuildClear
  <2>2. job'[Main].pc = "read" /\ db' = db
    BY <1>1, <1>2, GotoAt DEF RebuildClear
  <2>3. StartsAgree'
    BY <2>1, <2>2 DEF RunsAgree, StartsAgree
  <2>4. EndsAgree'
    BY <2>1, <2>2 DEF EndsAgree, PassesUntil
  <2> QED BY <2>1, <2>2, <2>3, <2>4 DEF RunsAgree
<1>3. CASE RebuildRead(Main)
  <2>1. job[Main].pc = "read" /\ race.started_at = None
    BY <1>3 DEF RebuildRead, RunsAgree, StartsAgree
  <2>2. /\ race'.format = race.format /\ race'.started_at = db.started_at
        /\ race'.ended_at = race.ended_at /\ race'.participants = race.participants
    BY <1>1, <1>3, <2>1, StartEndRun, StartEndFrame DEF RebuildRead
  <2>3. job'[Main].pc = "replay" /\ job'[Main].at = db.ended_at /\ db' = db
    BY <1>1, <1>3, GotoAt DEF RebuildRead
  <2>4. StartsAgree'
    BY <2>2, <2>3 DEF RunsAgree, StartsAgree, LoadedStart
  <2>5. EndsAgree'
    BY <2>2, <2>3 DEF RunsAgree, EndsAgree, PassesUntil
  <2> QED BY <2>2, <2>3, <2>4, <2>5 DEF RunsAgree
<1> QED BY <1>2, <1>3

(* A replay counts nothing after the end, and ends the race as the row says. *)
LEMMA ReplayRun ==
  ASSUME BackendInv, OnDisk, RunsAgree, Replay(Main) PROVE RunsAgree'
<1>1. /\ TypeOK /\ race \in Race /\ db \in Database /\ job[Main].rows \in SUBSET Row
      /\ job[Main].pc \in {"replay", "load"} /\ db' = db
  BY JobType, ThreadsAssumption DEF BackendInv, TypeOK, Replay
<1>2. PICK row \in job[Main].rows :
        /\ race' = IF Replayable(row, riders, job[Main].at)
                   THEN AddLap(race, row.tag, row.ts, now) ELSE race
        /\ job' = [job EXCEPT ![Main].rows = @ \ {row}]
  BY DEF Replay
<1>3. job'[Main].pc = job[Main].pc /\ job'[Main].at = job[Main].at
  BY <1>1, <1>2, ThreadsAssumption DEF TypeOK, Job
<1>4. row.tag \in Tags /\ row.ts \in Nat /\ row.ts # Epoch
  BY <1>1, <1>2 DEF Row, OnDisk
<1>5. /\ race'.format = race.format /\ race'.started_at = race.started_at
      /\ race'.ended_at = race.ended_at
      /\ race.ended_at # None =>
           \A tag \in Tags : race'.participants[tag].passes = race.participants[tag].passes
  BY <1>1, <1>2, <1>4, AddLapRun
<1>6. db.ended_at # None => PassesUntil(db.ended_at)'
  <2> SUFFICES ASSUME db.ended_at # None, NEW tag \in Tags,
                      NEW i \in DOMAIN race'.participants[tag].passes
               PROVE  race'.participants[tag].passes[i] <= db.ended_at
    BY <1>1 DEF PassesUntil
  <2>1. job[Main].at = db.ended_at /\ PassesUntil(db.ended_at)
    BY <1>1 DEF RunsAgree, EndsAgree
  <2>2. Replayable(row, riders, job[Main].at) => row.ts <= db.ended_at
    BY <2>1 DEF Replayable
  <2>3. race.participants[tag].passes \in Seq(Nat)
    BY <1>1 DEF Race, Participant
  <2>4. CASE race'.participants[tag].passes = race.participants[tag].passes
    BY <2>1, <2>4 DEF PassesUntil
  <2>5. CASE race'.participants[tag].passes # race.participants[tag].passes
    <3>1. Replayable(row, riders, job[Main].at) /\ race' = AddLap(race, row.tag, row.ts, now)
      BY <1>2, <2>5
    <3>2. race'.participants[tag].passes = Append(race.participants[tag].passes, row.ts)
      BY <1>1, <1>4, <2>5, <3>1, AddLapPasses
    <3> PICK q \in Seq(Nat) : q = race.participants[tag].passes
      BY <2>3
    <3>3. \A k \in DOMAIN q : q[k] <= db.ended_at
      BY <2>1 DEF PassesUntil
    <3>4. row.ts \in Nat /\ row.ts <= db.ended_at
      BY <1>4, <2>2, <3>1
    <3>5. i \in DOMAIN Append(q, row.ts) /\ race'.participants[tag].passes[i] = Append(q, row.ts)[i]
      BY <3>2
    <3>6. (i \in DOMAIN q /\ Append(q, row.ts)[i] = q[i]) \/ Append(q, row.ts)[i] = row.ts
      BY <3>4, <3>5, Appended
    <3> QED BY <3>3, <3>4, <3>5, <3>6
  <2> QED BY <2>4, <2>5
<1>7. race'.ended_at # None => PassesUntil(race.ended_at)'
  BY <1>5 DEF RunsAgree, EndsAgree, PassesUntil
<1>8. StartsAgree'
  BY <1>1, <1>3, <1>5 DEF RunsAgree, StartsAgree, LoadedStart
<1>9. EndsAgree'
  BY <1>1, <1>3, <1>6, <1>7 DEF RunsAgree, EndsAgree
<1> QED BY <1>1, <1>5, <1>8, <1>9 DEF RunsAgree

LEMMA ReplayDoneRun ==
  ASSUME BackendInv, RunsAgree, ReplayDone(Main) PROVE RunsAgree'
<1>1. TypeOK /\ job[Main].pc \in {"replay", "load"} /\ db' = db
  BY DEF BackendInv, ReplayDone
<1>2. /\ race'.format = race.format /\ race'.started_at = race.started_at
      /\ race'.ended_at = IF race.ended_at # None THEN race.ended_at ELSE db.ended_at
      /\ race'.participants = race.participants
  BY DoneRun
<1>3. job'[Main].pc = "idle"
  BY <1>1, ReplyAt DEF ReplayDone
<1>4. StartsAgree'
  BY <1>1, <1>2, <1>3 DEF RunsAgree, StartsAgree, LoadedStart
<1>5. EndsAgree'
  BY <1>1, <1>2, <1>3 DEF RunsAgree, EndsAgree, PassesUntil
<1> QED BY <1>1, <1>2, <1>4, <1>5 DEF RunsAgree

(* The writes of a start, of an end and of a reset. *)
LEMMA WriteRun ==
  ASSUME BackendInv, OnDisk, RunsAgree,
         StartMeta(Main) \/ StartRow(Main) \/ EndRow(Main) \/ ResetMeta(Main) \/ ResetRow(Main)
         \/ ResetLog(Main)
  PROVE  RunsAgree'
<1>1. TypeOK /\ db \in Database /\ race' = race
  BY DEF BackendInv, TypeOK, StartMeta, StartRow, EndRow, ResetMeta, ResetRow, ResetLog
<1>2. db'.format = db.format
  BY <1>1 DEF StartMeta, StartRow, EndRow, ResetMeta, ResetRow, ResetLog, Database
<1>3. CASE StartMeta(Main)
  <2>1. /\ db'.meta_started = job[Main].at /\ db'.started_at = db.started_at
        /\ db'.ended_at = db.ended_at
    BY <1>1, <1>3 DEF StartMeta, Database
  <2>2. /\ job[Main].pc = "start_meta" /\ job'[Main].pc = "start_row"
        /\ job'[Main].at = job[Main].at
    BY <1>1, <1>3, GotoAt DEF StartMeta
  <2>3. StartsAgree'
    BY <1>1, <2>1, <2>2 DEF RunsAgree, StartsAgree, LoadedStart
  <2>4. EndsAgree'
    BY <1>1, <2>1, <2>2 DEF RunsAgree, EndsAgree, PassesUntil
  <2> QED BY <1>1, <1>2, <2>3, <2>4 DEF RunsAgree
<1>4. CASE StartRow(Main)
  <2>1. /\ db'.started_at = job[Main].at /\ db'.meta_started = db.meta_started
        /\ db'.ended_at = db.ended_at
    BY <1>1, <1>4 DEF StartRow, Database
  <2>2. job[Main].pc = "start_row" /\ job'[Main].pc = "idle"
    BY <1>1, <1>4, ReplyAt DEF StartRow
  <2>3. StartsAgree'
    BY <1>1, <2>1, <2>2 DEF RunsAgree, StartsAgree, LoadedStart
  <2>4. EndsAgree'
    BY <1>1, <2>1, <2>2 DEF RunsAgree, EndsAgree, PassesUntil
  <2> QED BY <1>1, <1>2, <2>3, <2>4 DEF RunsAgree
<1>5. CASE EndRow(Main)
  <2>1. /\ db'.started_at = db.started_at /\ db'.meta_started = db.meta_started
        /\ db'.ended_at = job[Main].at
    BY <1>1, <1>5 DEF EndRow, Database
  <2>2. job[Main].pc = "end_row" /\ job'[Main].pc = "idle"
    BY <1>1, <1>5, ReplyAt DEF EndRow
  <2>3. StartsAgree'
    BY <1>1, <2>1, <2>2 DEF RunsAgree, StartsAgree, LoadedStart
  <2>4. EndsAgree'
    BY <1>1, <2>1, <2>2 DEF RunsAgree, EndsAgree, PassesUntil
  <2> QED BY <1>1, <1>2, <2>3, <2>4 DEF RunsAgree
<1>6. CASE ResetMeta(Main) \/ ResetRow(Main) \/ ResetLog(Main)
  <2>1. /\ job[Main].pc \in {"reset_meta", "reset_row", "reset_log"}
        /\ race.started_at = None
        /\ \A tag \in Tags : race.participants[tag].passes = <<>>
    BY <1>6 DEF ResetMeta, ResetRow, ResetLog, OnDisk, RunsAgree, StartsAgree
  <2>2. CASE ResetMeta(Main)
    <3>1. db'.started_at = db.started_at /\ db'.meta_started = None /\ db'.ended_at = db.ended_at
      BY <1>1, <2>2 DEF ResetMeta, Database
    <3>2. job'[Main].pc = "reset_row"
      BY <1>1, <2>2, GotoAt DEF ResetMeta
    <3> QED BY <1>1, <1>2, <2>1, <3>1, <3>2 DEF RunsAgree, StartsAgree, EndsAgree, PassesUntil
  <2>3. CASE ResetRow(Main)
    <3>1. db'.started_at = None /\ db'.meta_started = db.meta_started /\ db'.ended_at = None
      BY <1>1, <2>3 DEF ResetRow, Database
    <3>2. job'[Main].pc = "reset_log"
      BY <1>1, <2>3, GotoAt DEF ResetRow
    <3> QED BY <1>1, <1>2, <2>1, <3>1, <3>2 DEF RunsAgree, StartsAgree, EndsAgree, PassesUntil
  <2>4. CASE ResetLog(Main)
    <3>1. /\ db'.started_at = db.started_at /\ db'.meta_started = db.meta_started
          /\ db'.ended_at = db.ended_at
      BY <1>1, <2>4 DEF ResetLog, Database
    <3>2. job[Main].pc = "reset_log" /\ job'[Main].pc = "idle"
      BY <1>1, <2>4, ReplyAt DEF ResetLog
    <3> QED BY <1>1, <1>2, <2>1, <3>1, <3>2 DEF RunsAgree, StartsAgree, EndsAgree, PassesUntil
  <2> QED BY <1>6, <2>2, <2>3, <2>4
<1> QED BY <1>3, <1>4, <1>5, <1>6

LEMMA StepRun ==
  ASSUME BackendInv, OnDisk, RunsAgree, Step(Main) PROVE RunsAgree'
<1>1. TypeOK /\ race \in Race /\ db \in Database /\ job[Main].rows \in SUBSET Row
  BY JobType, ThreadsAssumption DEF BackendInv, TypeOK
<1>2. CASE IngestCount(Main) \/ ManualLog(Main) \/ RemoveRow(Main)
  <2>1. job[Main].pc \in Ordinary /\ job'[Main].pc \in Ordinary
    BY <1>1, <1>2, ReplyAt, GotoAt DEF IngestCount, ManualLog, RemoveRow, Ordinary
  <2>2. /\ db'.format = db.format /\ db'.started_at = db.started_at
        /\ db'.meta_started = db.meta_started /\ db'.ended_at = db.ended_at
    BY <1>1, <1>2 DEF IngestCount, ManualLog, RemoveRow, AppendEvent, Database
  <2>3. /\ race'.format = race.format /\ race'.started_at = race.started_at
        /\ race'.ended_at = race.ended_at
        /\ race.ended_at # None =>
             \A tag \in Tags : race'.participants[tag].passes = race.participants[tag].passes
    <3>1. CASE race' = race
      BY <3>1
    <3>2. CASE race' # race
      <4>1. PICK event \in job[Main].rows : race' = AddLap(race, event.tag, event.ts, now)
        BY <1>2, <3>2 DEF IngestCount, ManualLog, RemoveRow
      <4>2. event.tag \in Tags
        BY <1>1, <4>1 DEF Row
      <4> QED BY <1>1, <4>1, <4>2, AddLapRun
    <3> QED BY <3>1, <3>2
  <2> QED BY <2>1, <2>2, <2>3, OrdinaryRun
<1> QED BY <1>2, RebuildRun, ReplayRun, ReplayDoneRun, WriteRun DEF Step

LEMMA RestartRun == ASSUME BackendInv, RunsAgree, Restart PROVE RunsAgree'
<1>1. /\ race'.format = db.format /\ race'.ended_at = None /\ race'.started_at = LoadedStart
      /\ \A tag \in Tags : race'.participants[tag].passes = <<>>
  BY LoadedRun, LoadedFrame DEF Restart, LoadedStart
<1>2. job'[Main].pc = "load" /\ job'[Main].at = db.ended_at /\ db' = db
  BY ThreadsAssumption DEF Restart
<1>3. StartsAgree'
  BY <1>1, <1>2 DEF RunsAgree, StartsAgree, LoadedStart
<1>4. EndsAgree'
  BY <1>1, <1>2 DEF EndsAgree, PassesUntil
<1> QED BY <1>1, <1>2, <1>3, <1>4 DEF RunsAgree

LEMMA InitTimeline == Init => Timeline
<1> SUFFICES ASSUME Init PROVE Timeline
  OBVIOUS
<1>1. PICK format \in Formats :
        /\ db.log = {} /\ db.format = format /\ db.started_at = None /\ db.ended_at = None
        /\ db.meta_started = None /\ race = NewRace(format)
  BY DEF Init
<1>2. /\ race.format = format /\ race.started_at = None /\ race.ended_at = None
      /\ \A tag \in Tags : race.participants[tag].passes = <<>>
  BY <1>1 DEF NewRace, NoParticipants
<1>3. job[Main].pc = "idle" /\ job[Main].rows = {}
  BY ThreadsAssumption DEF Init, Idle
<1>4. IsFiniteSet(db.log)
  BY <1>1, FS_EmptySet
<1>5. LogIsLog /\ Shown
  BY <1>1, <1>2, <1>3, <1>4 DEF LogIsLog, Shown
<1>6. StartsAgree /\ EndsAgree
  BY <1>1, <1>2, <1>3 DEF StartsAgree, EndsAgree
<1> QED BY <1>1, <1>2, <1>5, <1>6 DEF Timeline

LEMMA NextTimeline ==
  BackendInv /\ OnDisk /\ Timeline /\ [MainNext]_vars => Timeline'
<1> SUFFICES ASSUME BackendInv, OnDisk, Timeline, [MainNext]_vars PROVE Timeline'
  OBVIOUS
<1>1. Shown' /\ LogIsLog /\ RunsAgree
  BY NextShown DEF Timeline, RunsAgree
<1>2. CASE Tick \/ UNCHANGED vars
  <2>1. UNCHANGED <<db, race, job>> /\ now' >= now /\ now \in Nat /\ now' \in Nat
    BY <1>2 DEF Tick, vars, BackendInv, TypeOK
  <2>2. LogIsLog'
    <3>1. \A row \in db.log : row.ts \in Nat
      BY DEF BackendInv, TypeOK, Database, Row
    <3>2. \A event \in job[Main].rows : event.ts \in Nat
      BY JobType, ThreadsAssumption DEF BackendInv, Row
    <3> QED BY <1>1, <2>1, <3>1, <3>2 DEF LogIsLog
  <2>3. StartsAgree' /\ EndsAgree'
    BY <1>1, <2>1 DEF RunsAgree, StartsAgree, EndsAgree, PassesUntil, LoadedStart
  <2> QED BY <1>1, <2>1, <2>2, <2>3 DEF RunsAgree, Timeline
<1>3. LogIsLog' /\ RunsAgree' => Timeline'
  BY <1>1 DEF RunsAgree, Timeline
<1> QED BY <1>1, <1>2, <1>3, RequestLog, RequestRun, StepLog, StepRun, RestartLog, RestartRun
        DEF MainNext
------------------------------------------------------------------------------
(* The replay of a log: rows, no two with an id, from the earliest on.     *)
Latest(rows) == CHOOSE row \in rows : \A other \in rows \ {row} : Before(other, row)

IsLog(rows) ==
  /\ rows \in SUBSET Row /\ IsFiniteSet(rows)
  /\ \A row, other \in rows : row.id = other.id => row = other
  /\ \E bound \in Nat : \A row \in rows : row.ts <= bound /\ row.id <= bound

LEMMA PartOfLog == ASSUME NEW rows, IsLog(rows), NEW part \in SUBSET rows PROVE IsLog(part)
BY FS_Subset DEF IsLog

LEMMA LatestIs ==
  ASSUME NEW rows \in SUBSET Row, NEW row \in rows, \A other \in rows \ {row} : Before(other, row)
  PROVE  Latest(rows) = row
<1>1. Latest(rows) \in rows /\ \A other \in rows \ {Latest(rows)} : Before(other, Latest(rows))
  BY DEF Latest
<1>2. \A a, b \in Row : ~(Before(a, b) /\ Before(b, a))
  BY DEF Before, Row
<1> HIDE DEF Latest
<1> QED BY <1>1, <1>2

LEMMA LatestOfLog ==
  ASSUME NEW rows, IsLog(rows), rows # {}
  PROVE  Latest(rows) \in rows /\ \A other \in rows \ {Latest(rows)} : Before(other, Latest(rows))
<1> DEFINE times == {row.ts : row \in rows}
<1>1. PICK bound \in Nat : \A row \in rows : row.ts \in 0..bound /\ row.id \in 0..bound
  BY DEF IsLog, Row
<1>2. PICK time \in times : \A other \in times : other <= time
  <2>1. times \in SUBSET (0..bound) /\ times # {}
    BY <1>1
  <2> HIDE DEF times
  <2> QED BY <1>1, <2>1, GreatestNumber
<1> DEFINE ids == {row.id : row \in {r \in rows : r.ts = time}}
<1>3. PICK id \in ids : \A other \in ids : other <= id
  <2>1. ids \in SUBSET (0..bound) /\ ids # {}
    BY <1>1, <1>2
  <2> HIDE DEF ids
  <2> QED BY <1>1, <2>1, GreatestNumber
<1>4. PICK row \in rows : row.ts = time /\ row.id = id
  BY <1>3
<1>5. ASSUME NEW other \in rows \ {row} PROVE Before(other, row)
  <2>1. other.ts <= row.ts /\ (other.ts = row.ts => other.id <= row.id)
    BY <1>2, <1>3, <1>4
  <2>2. other.id # row.id
    BY <1>4, <1>5 DEF IsLog
  <2> QED BY <1>1, <1>4, <2>1, <2>2 DEF Before
<1> QED BY <1>4, <1>5 DEF Latest

(* The sets of rows a replay has been through: what holds of none, and of  *)
(* some with the latest whenever it holds of them without it, holds of all.*)
LEMMA LogInduction ==
  ASSUME NEW rows, IsLog(rows), NEW good, {} \in good,
         \A part \in SUBSET rows : part # {} /\ part \ {Latest(part)} \in good => part \in good
  PROVE  \A part \in SUBSET rows : part \in good
<1> DEFINE bad == {part \in SUBSET rows : part \notin good}
<1> SUFFICES ASSUME bad # {} PROVE FALSE
  OBVIOUS
<1>1. PICK part \in bad : \A row \in part : part \ {row} \notin bad
  <2>1. IsFiniteSet(rows) /\ bad \in SUBSET SUBSET rows
    BY DEF IsLog
  <2> HIDE DEF bad
  <2> QED BY <2>1, SmallestSet
<1>2. part \in SUBSET rows /\ part \notin good /\ part # {}
  BY <1>1
<1>3. Latest(part) \in part
  BY <1>2, PartOfLog, LatestOfLog
<1>4. part \ {Latest(part)} \in good
  BY <1>1, <1>2, <1>3
<1> QED BY <1>2, <1>4

(* How rows are replayed: for which riders, until which time, at which.    *)
How == [riders : Riders, until : Nat, at : Nat \ {0}]

Fed(row, r, how) ==
  IF Replayable(row, how.riders, how.until) THEN AddLap(r, row.tag, row.ts, how.at) ELSE r

IsReplayOf(g, rows, base, how) ==
  g = [part \in SUBSET rows |->
         IF part = {} THEN base ELSE Fed(Latest(part), g[part \ {Latest(part)}], how)]

ReplayOf(rows, base, how) == CHOOSE g : IsReplayOf(g, rows, base, how)

(* The race that has been replayed. *)
Replayed(rows, base, how) == ReplayOf(rows, base, how)[rows]

LEMMA FedInv ==
  ASSUME NEW row \in Row, NEW r, RaceInv(r), NEW how \in How
  PROVE  RaceInv(Fed(row, r, how))
<1>1. row.tag \in Tags /\ row.ts \in Nat /\ how.at \in Nat \ {0}
  BY DEF Row, How
<1> QED BY <1>1, AddLapInv DEF Fed

LEMMA ReplayOfExists ==
  ASSUME NEW rows, IsLog(rows), NEW base, RaceInv(base), NEW how \in How
  PROVE  \E g : IsReplayOf(g, rows, base, how)
<1> DEFINE R    == {r \in Race : RaceInv(r)}
           pick == [part \in SUBSET rows |-> Latest(part)]
           step == [x \in rows \X R |-> Fed(x[1], x[2], how)]
<1>1. base \in R /\ rows \in SUBSET Row
  BY DEF RaceInv, IsLog
<1>2. \A part \in SUBSET rows : part # {} => pick[part] \in part
  BY PartOfLog, LatestOfLog
<1>3. step \in [rows \X R -> R]
  BY <1>1, FedInv DEF RaceInv
<1>4. IsFiniteSet(rows)
  BY DEF IsLog
<1>5. PICK g \in [SUBSET rows -> R] :
        \A part \in SUBSET rows :
          g[part] = IF part = {} THEN base ELSE step[<<pick[part], g[part \ {pick[part]}]>>]
  <2>1. Foldable(rows, R, base, pick, step)
    <3> HIDE DEF R, step, pick
    <3> QED BY <1>1, <1>2, <1>3, <1>4 DEF Foldable
  <2> HIDE DEF R, pick, step
  <2>2. PICK g \in [SUBSET rows -> R] : FoldsTo(g, rows, base, pick, step)
    BY <2>1, FoldExists
  <2>3. \A part \in SUBSET rows :
          g[part] = IF part = {} THEN base ELSE step[<<pick[part], g[part \ {pick[part]}]>>]
    BY <2>2 DEF FoldsTo
  <2> QED BY <2>3
<1>6. ASSUME NEW part \in SUBSET rows, part # {}
      PROVE  step[<<pick[part], g[part \ {pick[part]}]>>] = Fed(Latest(part), g[part \ {Latest(part)}], how)
  <2>1. Latest(part) \in rows /\ g[part \ {Latest(part)}] \in R /\ pick[part] = Latest(part)
    BY <1>2, <1>6
  <2> QED BY <2>1
<1>7. g = [part \in SUBSET rows |-> IF part = {} THEN base
                                    ELSE Fed(Latest(part), g[part \ {Latest(part)}], how)]
  <2>1. g = [part \in SUBSET rows |-> g[part]]
    OBVIOUS
  <2>2. \A part \in SUBSET rows : g[part] = IF part = {} THEN base
                                            ELSE Fed(Latest(part), g[part \ {Latest(part)}], how)
    <3> HIDE DEF step, pick
    <3> QED BY <1>5, <1>6
  <2> QED BY <2>1, <2>2
<1> QED BY <1>7 DEF IsReplayOf

LEMMA ReplayOfIs ==
  ASSUME NEW rows, IsLog(rows), NEW base, RaceInv(base), NEW how \in How,
         NEW g, g = ReplayOf(rows, base, how)
  PROVE  \A part \in SUBSET rows :
           g[part] = IF part = {} THEN base ELSE Fed(Latest(part), g[part \ {Latest(part)}], how)
<1>1. IsReplayOf(g, rows, base, how)
  BY ReplayOfExists DEF ReplayOf
<1> QED BY <1>1 DEF IsReplayOf

(* There is one replay of some rows, and one of more is one of fewer first. *)
LEMMA ReplayOfPart ==
  ASSUME NEW rows, IsLog(rows), NEW base, RaceInv(base), NEW how \in How, NEW g,
         \A some \in SUBSET rows :
           g[some] = IF some = {} THEN base ELSE Fed(Latest(some), g[some \ {Latest(some)}], how),
         NEW part \in SUBSET rows
  PROVE  g[part] = Replayed(part, base, how)
<1> PICK h : h = ReplayOf(part, base, how)
  OBVIOUS
<1> DEFINE good == {some \in SUBSET part : g[some] = h[some]}
<1>1. IsLog(part)
  BY PartOfLog
<1>2. \A some \in SUBSET part :
        h[some] = IF some = {} THEN base ELSE Fed(Latest(some), h[some \ {Latest(some)}], how)
  BY <1>1, ReplayOfIs
<1>3. {} \in good
  BY <1>2
<1>4. ASSUME NEW some \in SUBSET part, some # {}, some \ {Latest(some)} \in good
      PROVE  some \in good
  BY <1>2, <1>4
<1>5. \A some \in SUBSET part : some \in good
  <2> HIDE DEF good
  <2> QED BY <1>1, <1>3, <1>4, LogInduction
<1> QED BY <1>5 DEF Replayed

LEMMA ReplayedNone ==
  ASSUME NEW base, RaceInv(base), NEW how \in How PROVE Replayed({}, base, how) = base
<1>1. IsLog({})
  BY FS_EmptySet DEF IsLog
<1> QED BY <1>1, ReplayOfIs DEF Replayed

LEMMA ReplayedLast ==
  ASSUME NEW rows, IsLog(rows), rows # {}, NEW base, RaceInv(base), NEW how \in How
  PROVE  Replayed(rows, base, how) = Fed(Latest(rows), Replayed(rows \ {Latest(rows)}, base, how), how)
<1> PICK g : g = ReplayOf(rows, base, how)
  OBVIOUS
<1>1. \A some \in SUBSET rows :
        g[some] = IF some = {} THEN base ELSE Fed(Latest(some), g[some \ {Latest(some)}], how)
  BY ReplayOfIs
<1>2. g[rows] = Replayed(rows, base, how)
  BY DEF Replayed
<1>3. \A part \in SUBSET rows : g[part] = Replayed(part, base, how)
  BY <1>1, ReplayOfPart
<1> QED BY <1>1, <1>2, <1>3

(* A replay ends up with a race that has not ended, begun as it was.       *)
LEMMA ReplayedRace ==
  ASSUME NEW rows, IsLog(rows), NEW base, RaceInv(base), base.ended_at = None, NEW how \in How,
         NEW s, s = Replayed(rows, base, how)
  PROVE  /\ RaceInv(s) /\ s \in Race /\ s.ended_at = None
         /\ s.format = base.format /\ s.started_at = base.started_at /\ s.status = base.status
<1> DEFINE Same(q) == /\ RaceInv(q) /\ q.ended_at = None /\ q.format = base.format
                      /\ q.started_at = base.started_at /\ q.status = base.status
           good == {part \in SUBSET rows : Same(Replayed(part, base, how))}
<1>1. {} \in good
  BY ReplayedNone
<1>2. ASSUME NEW part \in SUBSET rows, part # {}, part \ {Latest(part)} \in good
      PROVE  part \in good
  <2> PICK q : q = Replayed(part \ {Latest(part)}, base, how)
    OBVIOUS
  <2>1. Replayed(part, base, how) = Fed(Latest(part), q, how)
    BY <1>2, PartOfLog, ReplayedLast
  <2>2. Same(q)
    BY <1>2
  <2>3. Latest(part) \in Row
    BY <1>2, PartOfLog, LatestOfLog DEF IsLog
  <2>4. RaceInv(Fed(Latest(part), q, how))
    BY <2>2, <2>3, FedInv
  <2>5. Latest(part).tag \in Tags /\ q \in Race
    BY <2>2, <2>3 DEF Row, RaceInv
  <2>6. Same(Fed(Latest(part), q, how))
    BY <2>2, <2>4, <2>5, AddLapRun, AddLapFrame DEF Fed
  <2> QED BY <2>1, <2>6
<1>3. rows \in good
  <2> HIDE DEF good
  <2> QED BY <1>1, <1>2, LogInduction
<1> QED BY <1>3 DEF RaceInv
------------------------------------------------------------------------------
(* The replay of a start, as Reloaded has it. *)
Feed(row, r) == IF Replayable(row, db.riders, db.ended_at)
                THEN AddLap(r, row.tag, row.ts, now) ELSE r

IsReplay(g) ==
  g = [rows \in SUBSET db.log |->
         IF rows = {} THEN Loaded(db) ELSE Feed(Latest(rows), g[rows \ {Latest(rows)}])]

LEMMA LogOfFile == ASSUME TypeOK, LogIsLog PROVE IsLog(db.log)
<1>1. /\ now \in Nat /\ db.last_id \in Nat /\ db.log \in SUBSET Row
      /\ \A row \in db.log : row.id \in Nat /\ row.ts \in Nat
  BY BoundsAssumption DEF TypeOK, Database, Row
<1>2. PICK bound \in Nat : now <= bound /\ db.last_id <= bound
  BY <1>1
<1>3. \A row \in db.log : row.ts <= bound /\ row.id <= bound
  BY <1>1, <1>2 DEF LogIsLog
<1> QED BY <1>1, <1>3 DEF IsLog, LogIsLog

LEMMA FeedInv ==
  ASSUME BackendInv, NEW row \in db.log, NEW r, RaceInv(r)
  PROVE  RaceInv(Feed(row, r))
<1>1. row.tag \in Tags /\ row.ts \in Nat /\ now \in Nat \ {0}
  BY BoundsAssumption DEF BackendInv, TypeOK, Database, Row
<1>2. Feed(row, r) = r \/ Feed(row, r) = AddLap(r, row.tag, row.ts, now)
  BY DEF Feed
<1> QED BY <1>1, <1>2, AddLapInv

LEMMA FeedIsFed ==
  ASSUME NEW how, how = [riders |-> db.riders, until |-> db.ended_at, at |-> now]
  PROVE  \A row, r : Feed(row, r) = Fed(row, r, how)
BY DEF Feed, Fed

LEMMA ReplayExists ==
  ASSUME BackendInv, LogIsLog PROVE \E g : IsReplay(g)
<1> PICK how : how = [riders |-> db.riders, until |-> db.ended_at, at |-> now]
  OBVIOUS
<1>1. how \in How /\ IsLog(db.log) /\ RaceInv(Loaded(db))
  BY LogOfFile, LoadedInv, BoundsAssumption DEF BackendInv, TypeOK, Database, Riders, How
<1>2. PICK g : IsReplayOf(g, db.log, Loaded(db), how)
  BY <1>1, ReplayOfExists
<1>3. IsReplay(g)
  BY <1>2, FeedIsFed DEF IsReplayOf, IsReplay
<1> QED BY <1>3

(* Reloaded is what the replay makes of the whole log, and its end.        *)
LEMMA ReloadedIsReplay ==
  ASSUME BackendInv, LogIsLog
  PROVE  \E g : /\ IsReplay(g)
                /\ Reloaded = IF db.ended_at # None THEN End(g[db.log], db.ended_at) ELSE g[db.log]
<1> DEFINE g == CHOOSE f : IsReplay(f)
<1>1. IsReplay(g)
  BY ReplayExists
<1>2. Reloaded = IF db.ended_at # None THEN End(g[db.log], db.ended_at) ELSE g[db.log]
  BY DEF Reloaded, IsReplay, Feed, Latest, MapThenFoldSet
<1> HIDE DEF g
<1> QED BY <1>1, <1>2
------------------------------------------------------------------------------
(* A restart loses no lap.  r has been started as a start of the process   *)
(* starts a race, and has been fed with these rows only.                   *)
FedWith(r, rows) ==
  /\ RaceInv(r) /\ r.format = db.format /\ r.started_at = LoadedStart /\ r.ended_at = None
  /\ AllLogged(r, rows)

(* As far as the passes of the race in memory are among these rows, r has  *)
(* as many, and none is later.                                             *)
KeepsUp(r, rows) ==
  \A tag \in Tags : \A j \in 0..Laps(race, tag) :
    (\A i \in 1..j : Logged(rows, tag, race.participants[tag].passes[i])) =>
      /\ j <= Laps(r, tag)
      /\ \A i \in 1..j : r.participants[tag].passes[i] <= race.participants[tag].passes[i]

LEMMA PassesType ==
  ASSUME NEW r \in Race, NEW tag \in Tags
  PROVE  r.participants[tag].passes \in Seq(Nat)
BY DEF Race, Participant

(* What has been counted would be replayed into a race that has started.   *)
LEMMA PassReplayable ==
  ASSUME BackendInv, Standings, Timeline, Quiet, NEW tag \in Tags, NEW i \in 1..Laps(race, tag),
         NEW row \in db.log, row.tag = tag, row.ts = race.participants[tag].passes[i]
  PROVE  /\ Replayable(row, db.riders, db.ended_at)
         /\ race.started_at # None /\ race.started_at = LoadedStart
<1>1. race \in Race /\ RaceInv(race) /\ race.participants[tag].passes \in Seq(Nat)
  BY PassesType DEF BackendInv, TypeOK
<1>2. i \in DOMAIN race.participants[tag].passes /\ race.participants[tag].passes # <<>>
  BY <1>1 DEF Laps
<1>3. db.riders[tag] # "unregistered"
  BY <1>2 DEF Timeline, Shown, Standings, Clearing, Quiet, Registered
<1>4. db.ended_at # None => row.ts <= db.ended_at
  BY <1>2 DEF Timeline, EndsAgree, PassesUntil
<1>5. Laps(race, tag) > 0
  BY <1>1 DEF Laps
<1>6. race.started_at # None
  BY <1>1, <1>5 DEF RaceInv, NothingEarly
<1>7. job[Main].pc = "idle"
  BY ThreadsAssumption DEF Quiet
<1> QED BY <1>3, <1>4, <1>6, <1>7 DEF Replayable, Timeline, StartsAgree

LEMMA LoadedKeepsUp ==
  ASSUME BackendInv PROVE FedWith(Loaded(db), {}) /\ KeepsUp(Loaded(db), {})
<1>1. race \in Race /\ db \in Database
  BY DEF BackendInv, TypeOK
<1>2. \A tag \in Tags : Loaded(db).participants[tag].passes = <<>>
  BY LoadedFrame
<1>3. FedWith(Loaded(db), {})
  BY <1>1, <1>2, LoadedInv, LoadedRun DEF FedWith, AllLogged, LoadedStart
<1>4. ASSUME NEW tag \in Tags, NEW j \in 0..Laps(race, tag),
             \A i \in 1..j : Logged({}, tag, race.participants[tag].passes[i])
      PROVE  j = 0
  <2>1. Laps(race, tag) \in Nat
    BY <1>1, LapsType
  <2>2. 1 \notin 1..j
    BY <1>4 DEF Logged
  <2> QED BY <2>1, <2>2
<1>5. ASSUME NEW tag \in Tags PROVE Laps(Loaded(db), tag) = 0
  <2>1. Loaded(db).participants[tag].passes = <<>> /\ Len(<<>>) = 0
    BY <1>2
  <2> HIDE <1>2
  <2> QED BY <2>1, Zenon DEF Laps
<1> QED BY <1>3, <1>4, <1>5 DEF KeepsUp

LEMMA FeedFed ==
  ASSUME BackendInv, OnDisk, NEW rows \in SUBSET db.log, NEW row \in rows, NEW r,
         FedWith(r, rows \ {row})
  PROVE  FedWith(Feed(row, r), rows)
<1>1. /\ row.tag \in Tags /\ row.ts \in Nat /\ row.ts # Epoch /\ Logged(rows, row.tag, row.ts)
      /\ r \in Race
  BY DEF BackendInv, TypeOK, Database, Row, OnDisk, Logged, FedWith, RaceInv
<1>2. AllLogged(r, rows)
  BY DEF FedWith, AllLogged, Logged
<1>3. AllLogged(Feed(row, r), rows)
  BY <1>1, <1>2, EventCounted DEF Feed
<1>4. RaceInv(Feed(row, r))
  BY FeedInv DEF FedWith
<1>5. /\ Feed(row, r).format = r.format /\ Feed(row, r).started_at = r.started_at
      /\ Feed(row, r).ended_at = r.ended_at
  BY <1>1, AddLapRun DEF Feed
<1> QED BY <1>3, <1>4, <1>5 DEF FedWith

(* A race that keeps up is fed with the next row.  If that is a pass of    *)
(* the race in memory, it is at most the lap after those r has, and far    *)
(* enough from them, since they are no later than in memory.               *)
LEMMA FeedKeepsUp ==
  ASSUME BackendInv, Standings, OnDisk, Timeline, Quiet,
         NEW rows \in SUBSET db.log, NEW row \in rows,
         \A other \in rows \ {row} : Before(other, row),
         NEW r, FedWith(r, rows \ {row}), KeepsUp(r, rows \ {row})
  PROVE  KeepsUp(Feed(row, r), rows)
<1> DEFINE s    == Feed(row, r)
           rest == rows \ {row}
<1> SUFFICES ASSUME NEW tag \in Tags, NEW j \in 0..Laps(race, tag),
                    \A i \in 1..j : Logged(rows, tag, race.participants[tag].passes[i])
             PROVE  /\ j <= Laps(s, tag)
                    /\ \A i \in 1..j :
                         s.participants[tag].passes[i] <= race.participants[tag].passes[i]
  BY DEF KeepsUp
<1> PICK p, q : p = race.participants[tag].passes /\ q = r.participants[tag].passes
  OBVIOUS
<1>1. /\ race \in Race /\ RaceInv(race) /\ r \in Race /\ RaceInv(r)
      /\ row.tag \in Tags /\ row.ts \in Nat /\ row.ts # Epoch
  BY DEF BackendInv, TypeOK, Database, Row, OnDisk, FedWith, RaceInv
<1>2. p \in Seq(Nat) /\ q \in Seq(Nat) /\ Laps(race, tag) = Len(p) /\ Laps(r, tag) = Len(q)
  BY <1>1, PassesType DEF Laps
<1>3. \A other \in rows : other.ts \in Nat /\ other.ts <= row.ts
  BY <1>1 DEF Before, BackendInv, TypeOK, Database, Row
<1>4. s.participants[tag].passes = q \/ s.participants[tag].passes = Append(q, row.ts)
  BY <1>1, AddLapPasses DEF Feed
<1>5. Len(q) <= Laps(s, tag) /\ \A i \in 1..Len(q) : s.participants[tag].passes[i] = q[i]
  BY <1>1, <1>2, <1>4 DEF Laps
<1>6. \A i \in 2..Len(p) : p[i - 1] < p[i] /\ p[i] >= p[i - 1] + race.format.min_pass
  <2>1. Spaced(race, tag)
    BY <1>1 DEF RaceInv
  <2>2. \A i \in 2..Len(race.participants[tag].passes) :
          /\ race.participants[tag].passes[i - 1] < race.participants[tag].passes[i]
          /\ race.participants[tag].passes[i] >=
               race.participants[tag].passes[i - 1] + race.format.min_pass
    BY <1>1, <1>2, <2>1 DEF Spaced
  <2> QED BY <2>2
<1>7. \A i \in 1..j : p[i] <= row.ts
  BY <1>3 DEF Logged
<1>8. \A i \in 1..(j - 1) : p[i] < row.ts
  <2> SUFFICES ASSUME NEW i \in 1..(j - 1) PROVE p[i] < row.ts
    OBVIOUS
  <2>1. i + 1 \in 2..Len(p) /\ i + 1 \in 1..j /\ (i + 1) - 1 = i
    BY <1>2
  <2>2. p[i] < p[i + 1] /\ p[i + 1] <= row.ts
    BY <1>6, <1>7, <2>1
  <2>3. p[i] \in Nat /\ p[i + 1] \in Nat
    <3>1. p \in Seq(Nat) /\ Len(p) \in Nat
      BY <1>2
    <3>2. i \in 1..Len(p) /\ i + 1 \in 1..Len(p)
      BY <2>1, <3>1
    <3> QED BY ONLY <3>1, <3>2, PassIsNat
  <2> QED BY <1>1, <2>2, <2>3
<1>9. CASE \A i \in 1..j : Logged(rest, tag, p[i])
  <2>1. j <= Len(q) /\ \A i \in 1..j : q[i] <= p[i]
    BY <1>2, <1>9 DEF KeepsUp
  <2>2. \A i \in 1..j : i \in 1..Len(q)
    BY <1>2, <2>1
  <2>3. Laps(s, tag) \in Nat
    BY <1>1, <1>2, <1>4 DEF Laps
  <2> QED BY <1>2, <1>5, <2>1, <2>2, <2>3
<1>10. CASE ~\A i \in 1..j : Logged(rest, tag, p[i])
  <2>1. PICK i \in 1..j : ~Logged(rest, tag, p[i])
    BY <1>10
  <2>2. row.tag = tag /\ row.ts = p[i]
    BY <2>1 DEF Logged
  <2>3. i = j /\ j \in 1..Len(p) /\ j \in Nat \ {0}
    BY <1>1, <1>2, <1>8, <2>2
  <2>4. \A k \in 1..(j - 1) : Logged(rest, tag, p[k])
    <3> SUFFICES ASSUME NEW k \in 1..(j - 1) PROVE Logged(rest, tag, p[k])
      OBVIOUS
    <3>1. PICK other \in rows : other.tag = tag /\ other.ts = p[k]
      BY DEF Logged
    <3>2. other # row
      BY <1>1, <1>8, <3>1
    <3> QED BY <3>1, <3>2 DEF Logged
  <2>5. j - 1 <= Len(q) /\ \A k \in 1..(j - 1) : q[k] <= p[k]
    <3>1. j - 1 \in 0..Laps(race, tag)
      BY <1>2, <2>3
    <3> QED BY <1>2, <2>4, <3>1 DEF KeepsUp
  <2>6. CASE j <= Len(q)
    <3>1. j \in DOMAIN q
      BY <1>2, <2>3, <2>6
    <3>2. Logged(rest, tag, q[j])
      BY <3>1 DEF FedWith, AllLogged
    <3>3. q[j] <= p[j]
      BY <1>3, <2>2, <2>3, <3>2 DEF Logged
    <3>0. Len(q) \in Nat
      BY <1>2
    <3>6. \A k \in 1..j : k \in 1..(j - 1) \/ k = j
      BY <2>3
    <3>7. \A k \in 1..j : k \in 1..Len(q)
      BY <3>0, <2>3, <2>6
    <3>4. \A k \in 1..j : q[k] <= p[k]
      BY <2>5, <3>3, <3>6
    <3>5. Laps(s, tag) \in Nat
      BY <1>1, <1>2, <1>4 DEF Laps
    <3> HIDE DEF s
    <3>8. j <= Laps(s, tag)
      BY <1>5, <2>3, <2>6, <3>0, <3>5
    <3>9. \A k \in 1..j : s.participants[tag].passes[k] = q[k]
      BY <1>5, <3>7
    <3> QED BY <3>4, <3>8, <3>9
  <2>7. CASE Len(q) = j - 1
    <3>1. /\ Replayable(row, db.riders, db.ended_at)
          /\ race.started_at # None /\ race.started_at = LoadedStart
      BY <1>2, <2>2, <2>3, PassReplayable
    <3>2. /\ r.started_at = race.started_at /\ r.ended_at = None
          /\ r.format.min_pass = race.format.min_pass
      BY <3>1 DEF FedWith, Timeline
    <3>3. Counts(r, tag, row.ts)
      <4>1. r.format.min_pass \in Nat /\ race.started_at \in Nat
        BY <1>1 DEF Race, Format
      <4>2. CASE Len(q) = 0
        <5>1. p[1] >= race.started_at + race.format.min_pass
          BY <1>1, <1>2, <2>3 DEF RaceInv, Spaced
        <5>2. j = 1 /\ row.ts = p[1]
          BY <2>2, <2>3, <2>7, <4>2
        <5>3. Laps(r, tag) = 0
          BY <1>2, <4>2
        <5>4. r.started_at \in Nat /\ r.started_at # None
          BY <3>1, <3>2, <4>1
        <5>5. row.ts >= r.started_at + r.format.min_pass
          BY <3>2, <5>1, <5>2
        <5> HIDE DEF s
        <5>6. row.ts >= r.started_at
          BY <1>1, <4>1, <5>4, <5>5
        <5>7. row.ts - r.started_at >= r.format.min_pass
          BY <1>1, <4>1, <5>4, <5>5
        <5> QED BY <3>2, <5>3, <5>4, <5>6, <5>7 DEF Counts
      <4>3. CASE Len(q) # 0
        <5>1. j \in 2..Len(p) /\ j - 1 \in 1..(j - 1) /\ LastPass(r, tag) = q[j - 1]
          BY <1>2, <2>3, <2>7, <4>3 DEF LastPass, Laps
        <5>2. /\ p[j - 1] < p[j] /\ p[j] >= p[j - 1] + r.format.min_pass
              /\ q[j - 1] <= p[j - 1]
          BY <1>6, <2>5, <3>2, <5>1
        <5>3. p[j] \in Nat /\ p[j - 1] \in Nat /\ q[j - 1] \in Nat
          <6>1. p \in Seq(Nat) /\ q \in Seq(Nat)
            BY <1>2
          <6>2. Len(p) \in Nat /\ Len(q) \in Nat
            BY <6>1
          <6>3. j \in 1..Len(p) /\ j - 1 \in 1..Len(p) /\ j - 1 \in 1..Len(q)
            BY <2>3, <2>7, <5>1, <6>2
          <6> QED BY ONLY <6>1, <6>3, PassIsNat
        <5>4. row.ts > LastPass(r, tag) /\ row.ts - LastPass(r, tag) >= r.format.min_pass
          BY <2>2, <2>3, <4>1, <5>1, <5>2, <5>3
        <5> QED BY <1>2, <3>1, <3>2, <4>3, <5>4 DEF Counts
      <4> QED BY <4>2, <4>3
    <3>4. s = CountPass(r, tag, row.ts)
      <4>1. PassTime(row.ts, now) = row.ts
        BY <1>1 DEF PassTime
      <4>2. s = AddLap(r, tag, row.ts, now)
        BY <2>2, <3>1 DEF Feed
      <4> HIDE DEF s
      <4> QED BY <3>3, <4>1, <4>2 DEF AddLap
    <3>5. s.participants[tag].passes = Append(q, row.ts)
      <4>1. CountPass(r, tag, row.ts).participants[tag].passes = Append(r.participants[tag].passes, row.ts)
        BY <1>1 DEF CountPass, Race
      <4> QED BY <3>4, <4>1
    <3>6. Laps(s, tag) = j /\ s.participants[tag].passes[j] = row.ts
      BY <1>1, <1>2, <2>3, <2>7, <3>5 DEF Laps
    <3>7. \A k \in 1..j : k = j \/ (k \in 1..(j - 1) /\ k \in 1..Len(q))
      BY <2>3, <2>7
    <3> HIDE DEF s
    <3>8. \A k \in 1..(j - 1) : k \in 1..Len(q) => s.participants[tag].passes[k] <= p[k]
      BY <1>5, <2>5
    <3>9. s.participants[tag].passes[j] <= p[j]
      BY <1>1, <2>2, <2>3, <3>6
    <3>10. j <= Laps(s, tag)
      BY <2>3, <3>6
    <3> QED BY <3>7, <3>8, <3>9, <3>10
  <2>8. Len(q) \in Nat
    BY <1>2
  <2>9. j <= Len(q) \/ Len(q) = j - 1
    BY <2>3, <2>5, <2>8
  <2> HIDE DEF s
  <2> QED BY <2>6, <2>7, <2>9
<1> QED BY <1>9, <1>10

LEMMA ReplayKeepsUp ==
  ASSUME BackendInv, Standings, OnDisk, Timeline, Quiet, NEW g, IsReplay(g)
  PROVE  FedWith(g[db.log], db.log) /\ KeepsUp(g[db.log], db.log)
<1> DEFINE good == {rows \in SUBSET db.log : FedWith(g[rows], rows) /\ KeepsUp(g[rows], rows)}
<1>1. g[{}] = Loaded(db)
  BY DEF IsReplay
<1>2. {} \in good
  BY <1>1, LoadedKeepsUp
<1>3. IsLog(db.log)
  BY LogOfFile DEF BackendInv, Timeline
<1>4. ASSUME NEW rows \in SUBSET db.log, rows # {}, rows \ {Latest(rows)} \in good
      PROVE  rows \in good
  <2> PICK row : row = Latest(rows)
    OBVIOUS
  <2>1. row \in rows /\ \A other \in rows \ {row} : Before(other, row)
    BY <1>3, <1>4, PartOfLog, LatestOfLog
  <2>2. g[rows] = Feed(row, g[rows \ {row}])
    BY <1>4 DEF IsReplay
  <2>3. FedWith(g[rows \ {row}], rows \ {row}) /\ KeepsUp(g[rows \ {row}], rows \ {row})
    BY <1>4
  <2>4. FedWith(g[rows], rows) /\ KeepsUp(g[rows], rows)
    BY <1>4, <2>1, <2>2, <2>3, FeedFed, FeedKeepsUp
  <2> QED BY <1>4, <2>4
<1>5. \A rows \in SUBSET db.log : rows \in good
  <2> HIDE DEF good
  <2> QED BY <1>2, <1>3, <1>4, LogInduction
<1> QED BY <1>5

(* Between requests a restart has every lap that is on the standings.      *)
LEMMA NothingLost ==
  BackendInv /\ Standings /\ OnDisk /\ Timeline => RestartLosesNoLap
<1> SUFFICES ASSUME BackendInv, Standings, OnDisk, Timeline, Quiet, NEW tag \in Tags
             PROVE  Laps(race, tag) <= Laps(Reloaded, tag)
  BY DEF RestartLosesNoLap
<1>1. race \in Race /\ job[Main].pc = "idle"
  BY ThreadsAssumption DEF BackendInv, TypeOK, Quiet
<1>2. PICK g : /\ IsReplay(g)
               /\ Reloaded = IF db.ended_at # None THEN End(g[db.log], db.ended_at) ELSE g[db.log]
  BY ReloadedIsReplay DEF Timeline
<1>3. FedWith(g[db.log], db.log) /\ KeepsUp(g[db.log], db.log)
  BY <1>2, ReplayKeepsUp
<1>4. Laps(Reloaded, tag) = Laps(g[db.log], tag)
  BY <1>2, <1>3, StartEndFrame DEF FedWith, RaceInv, Laps
<1>5. race.participants[tag].passes \in Seq(Nat) /\ Laps(race, tag) = Len(race.participants[tag].passes)
  BY <1>1, PassesType DEF Laps
<1>6. \A i \in 1..Laps(race, tag) : Logged(db.log, tag, race.participants[tag].passes[i])
  BY <1>1, <1>5 DEF OnDisk, InHand
<1>7. Laps(race, tag) \in 0..Laps(race, tag)
  BY <1>5
<1>8. Laps(race, tag) <= Laps(g[db.log], tag)
  BY <1>3, <1>6, <1>7 DEF KeepsUp
<1> QED BY <1>4, <1>8
------------------------------------------------------------------------------
(* Requests one at a time, the reader's clock set: between requests no lap *)
(* on the standings would be lost if the process started again now,        *)
(* whatever was removed, rebuilt, registered, ended, reopened or reset     *)
(* before and wherever the process died (app.py _load_active_race_state,   *)
(* _replay_event).                                                         *)
THEOREM RestartAlwaysLosesNoLap ==
  ASSUME OneWorker PROVE Spec => []RestartLosesNoLap
<1>1. BackendInv /\ OnDisk /\ [Next]_vars => OnDisk'
  BY OnlyMain, NextOnDisk DEF OneWorker
<1>2. BackendInv /\ OnDisk /\ Timeline /\ [Next]_vars => Timeline'
  BY OnlyMain, NextTimeline
<1> QED BY BackendInvariant, StandingsInvariant, InitOnDisk, InitTimeline, <1>1, <1>2, NothingLost, PTL
        DEF Spec

(* The days of the run MCBackend makes, as far as their laps are concerned. *)
DayInv ==
  /\ day \in {"troubled", "orderly", "reported"}
  /\ BackendInv /\ Standings
  /\ day \in {"troubled", "orderly"} => OnDisk /\ Timeline

LEMMA DayRequestIsRequest == ASSUME NEW t, DayRequest(t) PROVE Request(t)
BY DEF DayRequest, Request

LEMMA DayStep ==
  ASSUME day \in {"troubled", "orderly", "reported"}, [DayNext]_<<vars, export, day>>
  PROVE  /\ UNCHANGED day /\ [Next]_vars
         /\ OneWorker => [MainNext]_vars
<1>1. CASE UNCHANGED <<vars, export, day>>
  BY <1>1
<1>2. CASE DayNext
  <2>1. UNCHANGED day /\ \/ Tick \/ Restart \/ UNCHANGED vars
                         \/ \E t \in Threads : Request(t) \/ Step(t)
    BY <1>2, DayRequestIsRequest DEF DayNext, Export, ExportRace, ExportRiders, ExportRows, Download
  <2> QED BY <2>1 DEF Next, MainNext, OneWorker
<1> QED BY <1>1, <1>2

(* On the days of late deliveries, crashes and orderly requests, every lap *)
(* on the standings is on disk and survives a restart (app.py              *)
(* _load_active_race_state, _replay_event).                                *)
THEOREM LapsAlwaysSurvive ==
  ASSUME OneWorker PROVE DaySpec => []LapsSurvive
<1>1. DayInit => DayInv
  <2> SUFFICES ASSUME DayInit PROVE DayInv
    OBVIOUS
  <2>1. Init /\ day \in {"troubled", "orderly", "reported"}
    BY DEF DayInit, ReadingsInit, Bounds
  <2> QED BY <2>1, InitBackend, InitStandings, InitOnDisk, InitTimeline DEF DayInv
<1>2. DayInv /\ [DayNext]_<<vars, export, day>> => DayInv'
  <2> SUFFICES ASSUME DayInv, [DayNext]_<<vars, export, day>> PROVE DayInv'
    OBVIOUS
  <2>1. /\ UNCHANGED day /\ [Next]_vars
        /\ [MainNext]_vars
    BY DayStep DEF DayInv
  <2>2. BackendInv' /\ Standings'
    BY <2>1, NextBackend, NextStandings DEF DayInv
  <2>3. day \in {"troubled", "orderly"} => OnDisk' /\ Timeline'
    BY <2>1, NextOnDisk, NextTimeline DEF DayInv, OneWorker
  <2> QED BY <2>1, <2>2, <2>3 DEF DayInv
<1>3. DayInv => LapsSurvive
  BY OnDiskCounted, NothingLost DEF DayInv, LapsSurvive
<1> QED BY <1>1, <1>2, <1>3, PTL DEF DaySpec
------------------------------------------------------------------------------
(* A restart changes nothing.  What a race has come to: all of it but who  *)
(* has a row, the statuses and whether it is over.                         *)
Course(r) ==
  [format |-> r.format, started_at |-> r.started_at, finishing_at |-> r.finishing_at,
   time_target |-> r.time_target,
   passes |-> [tag \in Tags |-> r.participants[tag].passes],
   finish |-> [tag \in Tags |-> r.participants[tag].finish_time]]

LEMMA CourseFields ==
  ASSUME NEW r, NEW s
  PROVE  Course(r) = Course(s) <=>
           /\ r.format = s.format /\ r.started_at = s.started_at
           /\ r.finishing_at = s.finishing_at /\ r.time_target = s.time_target
           /\ \A tag \in Tags : /\ r.participants[tag].passes = s.participants[tag].passes
                                /\ r.participants[tag].finish_time = s.participants[tag].finish_time
<1> DEFINE p(q) == [tag \in Tags |-> q.participants[tag].passes]
           f(q) == [tag \in Tags |-> q.participants[tag].finish_time]
<1>1. p(r) = p(s) <=> \A tag \in Tags : r.participants[tag].passes = s.participants[tag].passes
  OBVIOUS
<1>2. f(r) = f(s) <=> \A tag \in Tags : r.participants[tag].finish_time = s.participants[tag].finish_time
  OBVIOUS
<1>3. Course(r) = [format |-> r.format, started_at |-> r.started_at, finishing_at |-> r.finishing_at,
                   time_target |-> r.time_target, passes |-> p(r), finish |-> f(r)]
  BY DEF Course
<1>4. Course(s) = [format |-> s.format, started_at |-> s.started_at, finishing_at |-> s.finishing_at,
                   time_target |-> s.time_target, passes |-> p(s), finish |-> f(s)]
  BY DEF Course
<1> HIDE DEF p, f
<1>5. Course(r) = Course(s) <=>
        /\ r.format = s.format /\ r.started_at = s.started_at
        /\ r.finishing_at = s.finishing_at /\ r.time_target = s.time_target
        /\ p(r) = p(s) /\ f(r) = f(s)
  BY <1>3, <1>4
<1> QED BY <1>1, <1>2, <1>5

(* Races that have come to the same count the same passes.                 *)
LEMMA CourseCounts ==
  ASSUME NEW r, NEW s, r.ended_at = None, s.ended_at = None, Course(r) = Course(s),
         NEW tag \in Tags, NEW ts
  PROVE  Counts(r, tag, ts) <=> Counts(s, tag, ts)
BY CourseFields DEF Counts, Laps, LastPass

LEMMA CountPassCourse ==
  ASSUME NEW r, RaceInv(r), NEW s, RaceInv(s), Course(r) = Course(s),
         NEW tag \in Tags, NEW ts \in Nat \ {0}, Counts(r, tag, ts), Counts(s, tag, ts)
  PROVE  Course(CountPass(r, tag, ts)) = Course(CountPass(s, tag, ts))
<1>1. /\ r.format = s.format /\ r.started_at = s.started_at
      /\ r.finishing_at = s.finishing_at /\ r.time_target = s.time_target
      /\ \A t \in Tags : /\ r.participants[t].passes = s.participants[t].passes
                         /\ r.participants[t].finish_time = s.participants[t].finish_time
  BY CourseFields
<1>2. \A t \in Tags : Laps(r, t) = Laps(s, t) /\ (Finished(r, t) <=> Finished(s, t))
  BY <1>1 DEF Laps, Finished
<1>3. PICK laps : laps = Laps(r, tag) + 1 /\ laps = Laps(s, tag) + 1
  BY <1>2
<1>4. PICK target : target = NextTarget(r, tag, laps, ts) /\ target = NextTarget(s, tag, laps, ts)
  BY <1>1, <1>2 DEF NextTarget, Timed
<1>5. PICK done : done = Finishes(r, tag, laps, target) /\ done = Finishes(s, tag, laps, target)
  BY <1>1, <1>2 DEF Finishes, Leader, TargetKnown, Timed, TotalLaps
<1>6. PICK c, d : c = CountPass(r, tag, ts) /\ d = CountPass(s, tag, ts)
  OBVIOUS
<1>7. /\ c.format = r.format /\ c.started_at = r.started_at /\ c.time_target = target
      /\ c.finishing_at = IF done /\ Leader(r) /\ r.finishing_at = None THEN ts ELSE r.finishing_at
      /\ \A t \in Tags \ {tag} : c.participants[t] = r.participants[t]
      /\ c.participants[tag].passes = Append(r.participants[tag].passes, ts)
      /\ c.participants[tag].finish_time = IF done THEN ts ELSE r.participants[tag].finish_time
  BY <1>3, <1>4, <1>5, <1>6, CountPassFields
<1>8. /\ d.format = s.format /\ d.started_at = s.started_at /\ d.time_target = target
      /\ d.finishing_at = IF done /\ Leader(s) /\ s.finishing_at = None THEN ts ELSE s.finishing_at
      /\ \A t \in Tags \ {tag} : d.participants[t] = s.participants[t]
      /\ d.participants[tag].passes = Append(s.participants[tag].passes, ts)
      /\ d.participants[tag].finish_time = IF done THEN ts ELSE s.participants[tag].finish_time
  BY <1>3, <1>4, <1>5, <1>6, CountPassFields
<1>9. /\ c.format = d.format /\ c.started_at = d.started_at
      /\ c.finishing_at = d.finishing_at /\ c.time_target = d.time_target
  BY <1>1, <1>7, <1>8 DEF Leader
<1>10. ASSUME NEW t \in Tags
       PROVE  /\ c.participants[t].passes = d.participants[t].passes
              /\ c.participants[t].finish_time = d.participants[t].finish_time
  <2>1. CASE t = tag
    BY <1>1, <1>7, <1>8, <2>1
  <2>2. CASE t # tag
    BY <1>1, <1>7, <1>8, <2>2
  <2> QED BY <2>1, <2>2
<1> QED BY <1>6, <1>9, <1>10, CourseFields

LEMMA SeenCourse ==
  ASSUME NEW r \in Race, NEW tag \in Tags
  PROVE  Course([r EXCEPT !.participants[tag].seen = TRUE]) = Course(r)
<1> DEFINE s == [r EXCEPT !.participants[tag].seen = TRUE]
<1>1. /\ s.format = r.format /\ s.started_at = r.started_at
      /\ s.time_target = r.time_target /\ s.finishing_at = r.finishing_at
  BY DEF Race
<1>2. \A t \in Tags : /\ s.participants[t].passes = r.participants[t].passes
                      /\ s.participants[t].finish_time = r.participants[t].finish_time
  BY DEF Race, Participant
<1> HIDE DEF s
<1>3. Course(s) = Course(r)
  BY <1>1, <1>2, CourseFields
<1> QED BY <1>3 DEF s

(* A pass with a time counts the same in races that have come to the same, *)
(* or in neither.                                                          *)
LEMMA AddLapCourse ==
  ASSUME NEW r, RaceInv(r), NEW s, RaceInv(s), r.ended_at = None, s.ended_at = None, Course(r) = Course(s),
         NEW tag \in Tags, NEW ts \in Nat, ts # Epoch, NEW at, NEW on
  PROVE  Course(AddLap(r, tag, ts, at)) = Course(AddLap(s, tag, ts, on))
<1>1. PassTime(ts, at) = ts /\ PassTime(ts, on) = ts
  BY DEF PassTime
<1>2. CASE Counts(r, tag, ts)
  BY <1>1, <1>2, CourseCounts, CountPassCourse DEF AddLap, Epoch
<1>3. CASE ~Counts(r, tag, ts)
  BY <1>1, <1>3, CourseCounts, SeenCourse DEF AddLap, RaceInv
<1> QED BY <1>2, <1>3

LEMMA RefusedCourse ==
  ASSUME NEW r \in Race, NEW tag \in Tags, NEW ts \in Nat, ts # Epoch, NEW at, ~Counts(r, tag, ts)
  PROVE  Course(AddLap(r, tag, ts, at)) = Course(r)
BY SeenCourse DEF AddLap, PassTime

Dated(rows) == \A row \in rows : row.ts # Epoch

(* Races that have come to the same come to the same again when the same   *)
(* rows are replayed into them, whenever.                                  *)
LEMMA ReplayedAlike ==
  ASSUME NEW rows, IsLog(rows), Dated(rows),
         NEW base, RaceInv(base), base.ended_at = None, NEW other, RaceInv(other), other.ended_at = None,
         Course(base) = Course(other), NEW how \in How, NEW why \in How,
         \A row \in rows : Replayable(row, how.riders, how.until) <=> Replayable(row, why.riders, why.until)
  PROVE  Course(Replayed(rows, base, how)) = Course(Replayed(rows, other, why))
<1>0. ASSUME NEW part \in SUBSET rows
      PROVE  /\ RaceInv(Replayed(part, base, how)) /\ Replayed(part, base, how).ended_at = None
             /\ RaceInv(Replayed(part, other, why)) /\ Replayed(part, other, why).ended_at = None
  <2>1. IsLog(part)
    BY PartOfLog
  <2>2. RaceInv(Replayed(part, base, how)) /\ Replayed(part, base, how).ended_at = None
    BY ONLY <2>1, RaceInv(base), base.ended_at = None, how \in How, ReplayedRace
  <2>3. RaceInv(Replayed(part, other, why)) /\ Replayed(part, other, why).ended_at = None
    BY ONLY <2>1, RaceInv(other), other.ended_at = None, why \in How, ReplayedRace
  <2> QED BY <2>2, <2>3
<1> DEFINE good == {part \in SUBSET rows :
                      Course(Replayed(part, base, how)) = Course(Replayed(part, other, why))}
<1>1. {} \in good
  BY ReplayedNone
<1>2. ASSUME NEW part \in SUBSET rows, part # {}, part \ {Latest(part)} \in good
      PROVE  part \in good
  <2> PICK last, r, s : /\ last = Latest(part)
                       /\ r = Replayed(part \ {last}, base, how)
                       /\ s = Replayed(part \ {last}, other, why)
    OBVIOUS
  <2>1. IsLog(part) /\ IsLog(part \ {last})
    BY <1>2, PartOfLog
  <2>2. Replayed(part, base, how) = Fed(last, r, how) /\ Replayed(part, other, why) = Fed(last, s, why)
    BY <1>2, <2>1, ReplayedLast
  <2>3. RaceInv(r) /\ r.ended_at = None /\ RaceInv(s) /\ s.ended_at = None
    BY <1>0, <1>2
  <2>4. Course(r) = Course(s)
    BY <1>2
  <2>5. last \in rows /\ last.tag \in Tags /\ last.ts \in Nat /\ last.ts # Epoch
    BY <1>2, <2>1, LatestOfLog DEF IsLog, Row, Dated
  <2>6. Course(AddLap(r, last.tag, last.ts, how.at)) = Course(AddLap(s, last.tag, last.ts, why.at))
    BY <2>3, <2>4, <2>5, AddLapCourse
  <2>7. Course(Fed(last, r, how)) = Course(Fed(last, s, why))
    BY <2>4, <2>5, <2>6 DEF Fed
  <2> QED BY <2>2, <2>7
<1> HIDE DEF good
<1>3. rows \in good
  BY <1>1, <1>2, LogInduction
<1> QED BY <1>3 DEF good

LEMMA ReplayedNext ==
  ASSUME NEW rows, NEW row, row \notin rows, IsLog(rows \cup {row}),
         \A other \in rows : Before(other, row),
         NEW base, RaceInv(base), NEW how \in How
  PROVE  Replayed(rows \cup {row}, base, how) = Fed(row, Replayed(rows, base, how), how)
<1>1. Latest(rows \cup {row}) = row
  BY LatestIs DEF IsLog
<1>2. (rows \cup {row}) \ {row} = rows
  OBVIOUS
<1> QED BY <1>1, <1>2, ReplayedLast

(* A counted pass or a refused one, later ones of the rider or not: what   *)
(* has been replayed would not count a second time.                        *)
LEMMA CountsAfter ==
  ASSUME NEW r, RaceInv(r), r.ended_at = None, NEW tag \in Tags, NEW ts \in Nat, ts # Epoch,
         NEW last \in Tags, NEW time \in Nat, time # Epoch, ts <= time, NEW at,
         ~Counts(r, tag, ts) \/ (tag = last /\ ts = time)
  PROVE  ~Counts(AddLap(r, last, time, at), tag, ts)
<1>1. r \in Race /\ PassTime(time, at) = time
  BY DEF RaceInv, PassTime
<1>2. CASE ~Counts(r, last, time)
  <2>1. Course(AddLap(r, last, time, at)) = Course(r)
    BY <1>1, <1>2, RefusedCourse
  <2>2. AddLap(r, last, time, at).ended_at = None
    BY <1>1, AddLapRun
  <2>3. ~Counts(r, tag, ts)
    BY <1>2
  <2> QED BY <2>1, <2>2, <2>3, CourseCounts
<1>3. CASE Counts(r, last, time)
  <2> PICK s : s = AddLap(r, last, time, at)
    OBVIOUS
  <2>1. s = CountPass(r, last, time)
    BY <1>1, <1>3 DEF AddLap
  <2>2. /\ s.format = r.format /\ s.started_at = r.started_at
        /\ \A t \in Tags \ {last} : s.participants[t] = r.participants[t]
        /\ s.participants[last].passes = Append(r.participants[last].passes, time)
    BY <1>3, <2>1, CountPassFields DEF Epoch
  <2>3. s.ended_at = None
    BY <1>1, AddLapRun
  <2>4. CASE tag = last
    <3>1. r.participants[tag].passes \in Seq(Nat)
      BY <1>1, PassesType
    <3> PICK q \in Seq(Nat) : q = r.participants[tag].passes
      BY <3>1
    <3>2. s.participants[tag].passes = Append(q, time)
      BY <2>2, <2>4
    <3>3. Len(Append(q, time)) # 0 /\ Append(q, time)[Len(Append(q, time))] = time
      OBVIOUS
    <3>4. Laps(s, tag) # 0 /\ LastPass(s, tag) = time
      BY <3>2, <3>3 DEF Laps, LastPass
    <3> QED BY <3>4 DEF Counts
  <2>5. CASE tag # last
    <3>1. Counts(s, tag, ts) <=> Counts(r, tag, ts)
      BY <2>2, <2>3, <2>5 DEF Counts, Laps, LastPass
    <3> QED BY <2>5, <3>1
  <2> QED BY <2>4, <2>5
<1> QED BY <1>2, <1>3

LEMMA ReplayedOnce ==
  ASSUME NEW rows, IsLog(rows), Dated(rows), NEW base, RaceInv(base), base.ended_at = None,
         NEW how \in How, NEW row \in rows, Replayable(row, how.riders, how.until)
  PROVE  ~Counts(Replayed(rows, base, how), row.tag, row.ts)
<1> DEFINE good == {part \in SUBSET rows :
                      row \in part => ~Counts(Replayed(part, base, how), row.tag, row.ts)}
<1>0. row.tag \in Tags /\ row.ts \in Nat /\ row.ts # Epoch
  BY DEF IsLog, Row, Dated
<1>1. {} \in good
  OBVIOUS
<1>2. ASSUME NEW part \in SUBSET rows, part # {}, part \ {Latest(part)} \in good
      PROVE  part \in good
  <2> SUFFICES ASSUME row \in part PROVE ~Counts(Replayed(part, base, how), row.tag, row.ts)
    OBVIOUS
  <2> PICK last, r : last = Latest(part) /\ r = Replayed(part \ {last}, base, how)
    OBVIOUS
  <2>1. IsLog(part) /\ IsLog(part \ {last})
    BY <1>2, PartOfLog
  <2>2. Replayed(part, base, how) = Fed(last, r, how)
    BY <1>2, <2>1, ReplayedLast
  <2>3. RaceInv(r) /\ r.ended_at = None
    BY <2>1, ReplayedRace
  <2>4. last \in part /\ \A other \in part \ {last} : Before(other, last)
    BY <1>2, <2>1, LatestOfLog
  <2>5. last.tag \in Tags /\ last.ts \in Nat /\ last.ts # Epoch
    BY <2>4 DEF IsLog, Row, Dated
  <2>6. row.ts <= last.ts
    BY <1>0, <2>4, <2>5 DEF Before
  <2>7. row # last => ~Counts(r, row.tag, row.ts)
    BY <1>2
  <2>8. CASE Replayable(last, how.riders, how.until)
    <3>1. ~Counts(AddLap(r, last.tag, last.ts, how.at), row.tag, row.ts)
      BY <1>0, <2>3, <2>5, <2>6, <2>7, CountsAfter
    <3> QED BY <2>2, <2>8, <3>1 DEF Fed
  <2>9. CASE ~Replayable(last, how.riders, how.until)
    BY <2>2, <2>7, <2>9 DEF Fed
  <2> QED BY <2>8, <2>9
<1> HIDE DEF good
<1>3. rows \in good
  BY <1>1, <1>2, LogInduction
<1> QED BY <1>3 DEF good

(* Before the start, and in a race that has not begun, nothing counts.     *)
LEMMA ReplayedEarly ==
  ASSUME NEW rows, IsLog(rows), Dated(rows), NEW base, RaceInv(base), base.ended_at = None,
         \A tag \in Tags : base.participants[tag].passes = <<>>, NEW how \in How,
         \/ base.started_at = None
         \/ base.format.min_pass > 0 /\ \A row \in rows : row.ts <= base.started_at
  PROVE  Course(Replayed(rows, base, how)) = Course(base)
<1> DEFINE good == {part \in SUBSET rows : Course(Replayed(part, base, how)) = Course(base)}
<1>1. {} \in good
  BY ReplayedNone
<1>2. ASSUME NEW part \in SUBSET rows, part # {}, part \ {Latest(part)} \in good
      PROVE  part \in good
  <2> PICK last, r : last = Latest(part) /\ r = Replayed(part \ {last}, base, how)
    OBVIOUS
  <2>1. IsLog(part) /\ IsLog(part \ {last})
    BY <1>2, PartOfLog
  <2>2. Replayed(part, base, how) = Fed(last, r, how)
    BY <1>2, <2>1, ReplayedLast
  <2>3. RaceInv(r) /\ r \in Race /\ r.ended_at = None
    BY <2>1, ReplayedRace
  <2>4. Course(r) = Course(base)
    BY <1>2
  <2>5. last \in rows /\ last.tag \in Tags /\ last.ts \in Nat /\ last.ts # Epoch
    BY <1>2, <2>1, LatestOfLog DEF IsLog, Row, Dated
  <2>6. ~Counts(base, last.tag, last.ts)
    <3>1. base.participants[last.tag].passes = <<>> /\ Len(<<>>) = 0
      BY <2>5
    <3>2. Laps(base, last.tag) = 0
      BY <3>1, Zenon DEF Laps
    <3>3. base.started_at \in Nat /\ base.format.min_pass \in Nat
      BY DEF RaceInv, Race, Format
    <3> QED BY <2>5, <3>2, <3>3 DEF Counts
  <2>7. ~Counts(r, last.tag, last.ts)
    BY <2>3, <2>4, <2>5, <2>6, CourseCounts
  <2>8. Course(Fed(last, r, how)) = Course(base)
    BY <2>3, <2>4, <2>5, <2>7, RefusedCourse DEF Fed
  <2> QED BY <2>2, <2>8
<1> HIDE DEF good
<1>3. rows \in good
  BY <1>1, <1>2, LogInduction
<1> QED BY <1>3 DEF good

------------------------------------------------------------------------------
(* A race as a rebuild or a start of the process finds it before the replay. *)
Begun(format, started_at) ==
  IF started_at # None THEN Start(NewRace(format), started_at) ELSE NewRace(format)

(* The rows have a time, so it does not matter when they are replayed.     *)
Replaying(registry, until) == [riders |-> registry, until |-> until, at |-> 1]

OfLog(log, format, started_at, registry, until) ==
  Replayed(log, Begun(format, started_at), Replaying(registry, until))

(* The race has come to what the replay of the log would come to, but for  *)
(* events of the very tick it ended in.                                    *)
Matches(r, log, registry) ==
  (\A row \in log : row.ts # r.ended_at) =>
    Course(r) = Course(OfLog(log, r.format, r.started_at, registry, r.ended_at))

LEMMA BegunRace ==
  ASSUME NEW format \in Format, NEW started_at \in Nat, NEW r, r = Begun(format, started_at)
  PROVE  /\ RaceInv(r) /\ r \in Race /\ r.format = format /\ r.started_at = started_at
         /\ r.ended_at = None /\ \A tag \in Tags : r.participants[tag].passes = <<>>
<1>1. RaceInv(NewRace(format))
  BY NewRaceInv
<1>2. /\ NewRace(format).format = format /\ NewRace(format).started_at = None
      /\ NewRace(format).ended_at = None
      /\ \A tag \in Tags : NewRace(format).participants[tag].passes = <<>>
  BY DEF NewRace, NoParticipants
<1> PICK s : s = NewRace(format)
  OBVIOUS
<1>3. CASE started_at = None
  BY <1>1, <1>2, <1>3 DEF Begun, RaceInv
<1>4. CASE started_at # None
  <2>1. RaceInv(s) /\ s \in Race
    BY <1>1 DEF RaceInv
  <2>2. r = Start(s, started_at) /\ started_at \in Nat \ {0}
    BY <1>4 DEF Begun, None
  <2>3. RaceInv(r)
    BY <2>1, <2>2, StartInv
  <2> QED BY <1>2, <2>1, <2>2, <2>3, StartEndRun, StartEndFrame DEF RaceInv
<1> QED BY <1>3, <1>4

LEMMA ReplayingHow ==
  ASSUME NEW registry \in Riders, NEW until \in Nat PROVE Replaying(registry, until) \in How
BY DEF Replaying, How

(* Races that agree on the course agree on the log. *)
LEMMA MatchesAlike ==
  ASSUME NEW r, NEW s, Course(r) = Course(s), r.ended_at = s.ended_at, NEW log, NEW registry,
         Matches(s, log, registry)
  PROVE  Matches(r, log, registry)
BY CourseFields DEF Matches

LEMMA FedCourse ==
  ASSUME NEW r, RaceInv(r), r.ended_at = None, NEW s, RaceInv(s), s.ended_at = None,
         Course(r) = Course(s), NEW row \in Row, row.ts # Epoch, NEW how
  PROVE  Course(Fed(row, r, how)) = Course(Fed(row, s, how))
<1>1. row.tag \in Tags /\ row.ts \in Nat
  BY DEF Row
<1>2. Course(AddLap(r, row.tag, row.ts, how.at)) = Course(AddLap(s, row.tag, row.ts, how.at))
  BY <1>1, AddLapCourse
<1> QED BY <1>2 DEF Fed

(* To a race that has ended nothing is added. *)
LEMMA EndedCourse ==
  ASSUME NEW r, RaceInv(r), r.ended_at # None, NEW tag \in Tags, NEW ts \in Nat, ts # Epoch, NEW at
  PROVE  Course(AddLap(r, tag, ts, at)) = Course(r)
<1>1. ~Counts(r, tag, ts) /\ r \in Race
  BY DEF Counts, RaceInv
<1> QED BY <1>1, RefusedCourse

LEMMA NewCourse ==
  ASSUME NEW r PROVE Course(Clear(r)) = Course(NewRace(r.format))
<1> PICK c, d : c = Clear(r) /\ d = NewRace(r.format)
  OBVIOUS
<1>1. /\ c.format = d.format /\ c.started_at = d.started_at
      /\ c.finishing_at = d.finishing_at /\ c.time_target = d.time_target
      /\ c.participants = d.participants
  BY DEF Clear, NewRace
<1> QED BY <1>1, CourseFields

LEMMA LoadedCourse ==
  ASSUME NEW d, NEW started_at, started_at = (IF d.meta_started # None THEN d.meta_started ELSE d.started_at)
  PROVE  Course(Loaded(d)) = Course(Begun(d.format, started_at))
<1> PICK a, b : a = Loaded(d) /\ b = Begun(d.format, started_at)
  OBVIOUS
<1>1. /\ a.format = b.format /\ a.started_at = b.started_at
      /\ a.finishing_at = b.finishing_at /\ a.time_target = b.time_target
      /\ a.participants = b.participants
  BY DEF Loaded, Begun, Start, NewRace
<1> QED BY <1>1, CourseFields

LEMMA StartCourse ==
  ASSUME NEW r \in Race, NEW s \in Race, Course(r) = Course(s), NEW at
  PROVE  Course(Start(r, at)) = Course(Start(s, at))
<1>1. /\ r.format = s.format /\ r.started_at = s.started_at
      /\ r.finishing_at = s.finishing_at /\ r.time_target = s.time_target
      /\ \A tag \in Tags : /\ r.participants[tag].passes = s.participants[tag].passes
                           /\ r.participants[tag].finish_time = s.participants[tag].finish_time
  BY CourseFields
<1>2. ASSUME NEW q \in Race, NEW c, c = Start(q, at)
      PROVE  /\ c.format = q.format /\ c.finishing_at = q.finishing_at /\ c.time_target = q.time_target
             /\ c.participants = q.participants
             /\ c.started_at = IF q.started_at # None THEN q.started_at ELSE at
  BY <1>2 DEF Start, Race
<1> PICK c, d : c = Start(r, at) /\ d = Start(s, at)
  OBVIOUS
<1>3. /\ c.format = d.format /\ c.started_at = d.started_at
      /\ c.finishing_at = d.finishing_at /\ c.time_target = d.time_target
      /\ \A tag \in Tags : /\ c.participants[tag].passes = d.participants[tag].passes
                           /\ c.participants[tag].finish_time = d.participants[tag].finish_time
  BY <1>1, <1>2
<1> QED BY <1>3, CourseFields

LEMMA EndCourse ==
  ASSUME NEW r \in Race, NEW at PROVE Course(End(r, at)) = Course(r)
<1> PICK c : c = End(r, at)
  OBVIOUS
<1>1. /\ c.format = r.format /\ c.started_at = r.started_at
      /\ c.finishing_at = r.finishing_at /\ c.time_target = r.time_target
      /\ c.participants = r.participants
  BY DEF End, Race
<1> QED BY <1>1, CourseFields

LEMMA StatusCourse ==
  ASSUME NEW r \in Race, NEW status PROVE Course([r EXCEPT !.status = status]) = Course(r)
<1> PICK c : c = [r EXCEPT !.status = status]
  OBVIOUS
<1>1. /\ c.format = r.format /\ c.started_at = r.started_at
      /\ c.finishing_at = r.finishing_at /\ c.time_target = r.time_target
      /\ c.participants = r.participants
  BY DEF Race
<1> QED BY <1>1, CourseFields
------------------------------------------------------------------------------
(* What is in the log already would not count again. *)
LEMMA StoredOnce ==
  ASSUME NEW r, RaceInv(r), r.ended_at = None, NEW registry \in Riders, NEW log, IsLog(log), Dated(log),
         Matches(r, log, registry), NEW row \in log, registry[row.tag] # "unregistered"
  PROVE  ~Counts(r, row.tag, row.ts)
<1>1. r.format \in Format /\ r.started_at \in Nat /\ None \in Nat
  BY DEF RaceInv, Race, None
<1> PICK base : base = Begun(r.format, r.started_at)
  OBVIOUS
<1> PICK how : how = Replaying(registry, None)
  OBVIOUS
<1>2. RaceInv(base) /\ base.ended_at = None
  BY <1>1, BegunRace
<1>3. how \in How /\ how.riders = registry /\ how.until = None
  BY <1>1, ReplayingHow DEF Replaying
<1>4. Replayable(row, how.riders, how.until)
  BY <1>3 DEF Replayable
<1> PICK s : s = Replayed(log, base, how)
  OBVIOUS
<1>5. ~Counts(s, row.tag, row.ts)
  BY <1>2, <1>3, <1>4, ReplayedOnce
<1>6. RaceInv(s) /\ s.ended_at = None
  BY <1>2, <1>3, ReplayedRace
<1>7. Course(r) = Course(s)
  BY DEF Matches, Dated, OfLog, None, Epoch
<1>8. row.tag \in Tags
  BY DEF IsLog, Row
<1> QED BY <1>5, <1>6, <1>7, <1>8, CourseCounts

(* An event of this tick joins the log as it joins the race. *)
LEMMA NewestMatches ==
  ASSUME NEW r, RaceInv(r), NEW time \in Nat, r.ended_at <= time, NEW registry \in Riders,
         NEW log, NEW row, row \notin log, IsLog(log \cup {row}), Dated(log \cup {row}), row.ts = time,
         \A other \in log : Before(other, row), Matches(r, log, registry),
         NEW s, s = Fed(row, r, Replaying(registry, None))
  PROVE  Matches(s, log \cup {row}, registry)
<1>1. /\ r \in Race /\ r.format \in Format /\ r.started_at \in Nat /\ r.ended_at \in Nat /\ None \in Nat
      /\ row \in Row /\ row.tag \in Tags /\ row.ts \in Nat /\ row.ts # Epoch
  BY DEF RaceInv, Race, None, IsLog, Row, Dated
<1> PICK base : base = Begun(r.format, r.started_at)
  OBVIOUS
<1> PICK how : how = Replaying(registry, r.ended_at)
  OBVIOUS
<1>2. RaceInv(base) /\ base.ended_at = None
  BY <1>1, BegunRace
<1>3. how \in How /\ how.riders = registry /\ how.until = r.ended_at
  BY <1>1, ReplayingHow DEF Replaying
<1> PICK q : q = Replayed(log, base, how)
  OBVIOUS
<1>4. IsLog(log)
  BY PartOfLog
<1>5. RaceInv(q) /\ q.ended_at = None
  BY <1>2, <1>3, <1>4, ReplayedRace
<1>6. s.format = r.format /\ s.started_at = r.started_at /\ s.ended_at = r.ended_at
  BY <1>1, AddLapRun DEF Fed
<1> SUFFICES ASSUME \A other \in log \cup {row} : other.ts # r.ended_at
             PROVE  Course(s) = Course(Replayed(log \cup {row}, base, how))
  BY <1>6 DEF Matches, OfLog
<1>7. Course(r) = Course(q)
  BY DEF Matches, OfLog
<1>8. Replayed(log \cup {row}, base, how) = Fed(row, q, how)
  BY <1>2, <1>3, ReplayedNext
<1>9. CASE r.ended_at = None
  <2>1. how = Replaying(registry, None)
    BY <1>9
  <2>2. s = Fed(row, r, how)
    BY <2>1
  <2>3. Course(Fed(row, r, how)) = Course(Fed(row, q, how))
    BY <1>1, <1>5, <1>7, <1>9, FedCourse
  <2> QED BY <1>8, <2>2, <2>3
<1>10. CASE r.ended_at # None
  <2>1. ~Replayable(row, how.riders, how.until)
    BY <1>1, <1>3, <1>10 DEF Replayable
  <2>2. Course(s) = Course(r)
    BY <1>1, <1>10, EndedCourse DEF Fed
  <2> QED BY <1>7, <1>8, <2>1, <2>2 DEF Fed
<1> QED BY <1>9, <1>10

(* A race that has not begun, or begins now, has counted nothing. *)
LEMMA EarlyCourse ==
  ASSUME NEW format \in Format, NEW started_at \in Nat, NEW registry \in Riders, NEW until \in Nat,
         NEW log, IsLog(log), Dated(log),
         started_at = None \/ (format.min_pass > 0 /\ \A row \in log : row.ts <= started_at)
  PROVE  Course(OfLog(log, format, started_at, registry, until)) = Course(Begun(format, started_at))
<1> PICK base : base = Begun(format, started_at)
  OBVIOUS
<1>1. /\ RaceInv(base) /\ base.ended_at = None /\ base.format = format
      /\ base.started_at = started_at /\ \A tag \in Tags : base.participants[tag].passes = <<>>
  BY BegunRace
<1>2. Replaying(registry, until) \in How
  BY ReplayingHow
<1> QED BY <1>1, <1>2, ReplayedEarly DEF OfLog

(* It does not matter until when the replay goes if the log does not reach *)
(* beyond, nor how the riders are judged who stay registered.              *)
LEMMA OfLogAlike ==
  ASSUME NEW format \in Format, NEW started_at \in Nat, NEW log, IsLog(log), Dated(log),
         NEW registry \in Riders, NEW until \in Nat, NEW others \in Riders, NEW end \in Nat,
         \A row \in log : Replayable(row, registry, until) <=> Replayable(row, others, end)
  PROVE  Course(OfLog(log, format, started_at, registry, until)) =
         Course(OfLog(log, format, started_at, others, end))
<1> PICK base, how, why : /\ base = Begun(format, started_at) /\ how = Replaying(registry, until)
                          /\ why = Replaying(others, end)
  OBVIOUS
<1>1. RaceInv(base) /\ base.ended_at = None
  BY BegunRace
<1>2. how \in How /\ why \in How
  BY ReplayingHow
<1>3. how.riders = registry /\ how.until = until /\ why.riders = others /\ why.until = end
  BY DEF Replaying
<1>4. Course(Replayed(log, base, how)) = Course(Replayed(log, base, why))
  BY <1>1, <1>2, <1>3, ReplayedAlike
<1> QED BY <1>4 DEF OfLog

------------------------------------------------------------------------------
(* Events in order: one that is not in the log yet is of this tick.  Every *)
(* rider is registered from the start, no request dies half-way.           *)
Timely == \A event \in job'[Main].rows : Stored(db, event) \/ event.ts >= now

OrderlyRequest ==
  \/ (Ingest(Main) \/ ManualLap(Main)) /\ (job'[Main].pc \in {"count", "log"} => Timely)
  \/ RemoveLap(Main) \/ DeletePasses(Main) \/ DeleteRider(Main) \/ Reopen(Main)
  \/ StartRace(Main) \/ EndRace(Main) \/ Reset(Main) \/ Judge(Main)

OrderlyNext == Tick \/ (Quiet /\ Restart) \/ OrderlyRequest \/ Step(Main)

(* The file says when the race started and ended, but for the request that *)
(* writes it.                                                              *)
FileAgrees ==
  /\ job[Main].pc \notin {"start_row", "reset_row"} => db.meta_started = db.started_at
  /\ job[Main].pc = "reset_row" => db.meta_started = None
  /\ job[Main].pc \in {"idle", "count", "log", "start_meta", "start_row", "reset_log"} =>
       race.ended_at = db.ended_at
  /\ job[Main].pc \in {"read", "replay", "load", "reset_meta", "reset_row", "reset_log"} =>
       race.ended_at = None
  /\ race.ended_at <= now /\ db.ended_at <= now
  /\ race.format.min_pass > 0

(* The race matches the log; or does when the event in hand is counted, or *)
(* logged; or is as far as the replay.                                     *)
MatchesLog ==
  /\ job[Main].pc \in {"idle", "start_meta", "start_row", "end_row",
                       "reset_meta", "reset_row", "reset_log"} => Matches(race, db.log, riders)
  /\ job[Main].pc = "count" =>
       \A event \in job[Main].rows :
         /\ event.ts # Epoch
         /\ Matches(Fed(event, race, Replaying(riders, None)), db.log, riders)
  /\ job[Main].pc = "log" =>
       \A event \in job[Main].rows : Matches(race, AppendEvent(db, event).log, riders)
  /\ job[Main].pc = "read" => Course(race) = Course(NewRace(race.format))
  /\ job[Main].pc \in {"replay", "load"} =>
       /\ \A row \in db.log \ job[Main].rows, other \in job[Main].rows : Before(row, other)
       /\ Course(race) = Course(OfLog(db.log \ job[Main].rows, race.format, race.started_at,
                                      riders, db.ended_at))

LEMMA LogOnDisk ==
  ASSUME BackendInv, OnDisk, LogIsLog PROVE IsLog(db.log) /\ Dated(db.log)
BY LogOfFile DEF BackendInv, Dated, OnDisk

(* An event that joins the log. *)
LEMMA Joining ==
  ASSUME BackendInv, OnDisk, LogIsLog, FileAgrees, Matches(race, db.log, riders),
         NEW event \in Row, event.ts # Epoch, event.ts \in Nat, event.ts <= now,
         Stored(db, event) \/ event.ts >= now
  PROVE  Matches(Fed(event, race, Replaying(riders, None)), AppendEvent(db, event).log, riders)
<1>1. /\ RaceInv(race) /\ race \in Race /\ riders \in Riders /\ now \in Nat /\ race.ended_at \in Nat
      /\ race.ended_at <= now /\ db \in Database
  BY BoundsAssumption DEF BackendInv, TypeOK, RaceInv, Race, FileAgrees
<1>2. IsLog(db.log) /\ Dated(db.log)
  BY LogOnDisk
<1>3. event.tag \in Tags
  BY DEF Row
<1> PICK how : how = Replaying(riders, None)
  OBVIOUS
<1>4. how.riders = riders /\ how.until = None
  BY DEF Replaying
<1>5. Replayable(event, how.riders, how.until) <=> riders[event.tag] # "unregistered"
  BY <1>4 DEF Replayable
<1>6. CASE Stored(db, event)
  <2>1. AppendEvent(db, event).log = db.log
    BY <1>6 DEF AppendEvent
  <2>2. PICK row \in db.log : row.tag = event.tag /\ row.ts = event.ts
    BY <1>6 DEF Stored
  <2> PICK s : s = Fed(event, race, how)
    OBVIOUS
  <2>3. s.ended_at = race.ended_at
    BY <1>1, <1>3, AddLapRun DEF Fed
  <2>4. Course(s) = Course(race)
    <3>1. CASE race.ended_at # None
      BY <1>1, <1>3, <3>1, EndedCourse DEF Fed
    <3>2. CASE race.ended_at = None /\ riders[event.tag] # "unregistered"
      <4>1. ~Counts(race, event.tag, event.ts)
        BY <1>1, <1>2, <2>2, <3>2, StoredOnce
      <4> QED BY <1>1, <1>3, <4>1, RefusedCourse DEF Fed
    <3>3. CASE riders[event.tag] = "unregistered"
      BY <1>5, <3>3 DEF Fed
    <3> QED BY <3>1, <3>2, <3>3
  <2> QED BY <2>1, <2>3, <2>4, MatchesAlike
<1>7. CASE ~Stored(db, event)
  <2>1. PICK row : row = [event EXCEPT !.id = db.last_id + 1]
    OBVIOUS
  <2>2. AppendEvent(db, event).log = db.log \cup {row}
    BY <1>1, <1>7, <2>1 DEF AppendEvent, Database
  <2>3. /\ row.tag = event.tag /\ row.ts = event.ts /\ row.ts = now /\ row.id = db.last_id + 1
        /\ row \in Row /\ db.last_id \in Nat
    BY <1>1, <1>7, <2>1 DEF Row, Database
  <2>4. \A other \in db.log : other.id <= db.last_id /\ other.ts <= now /\ other.id \in Nat /\ other.ts \in Nat
    BY <1>2 DEF LogIsLog, IsLog, Row
  <2>5. row \notin db.log /\ \A other \in db.log : Before(other, row)
    BY <1>1, <2>3, <2>4 DEF Before
  <2>6. IsLog(db.log \cup {row})
    <3>1. PICK bound \in Nat : \A other \in db.log : other.ts <= bound /\ other.id <= bound
      BY <1>2 DEF IsLog
    <3>2. PICK most \in Nat : bound <= most /\ now <= most /\ db.last_id + 1 <= most
      <4>1. bound + now + (db.last_id + 1) \in Nat
        BY <1>1, <2>3
      <4> QED BY <1>1, <2>3, <4>1
    <3>3. \A other \in db.log \cup {row} : other.ts <= most /\ other.id <= most
      BY <1>1, <2>3, <2>4, <3>2
    <3>4. IsFiniteSet(db.log \cup {row})
      BY <1>2, FS_AddElement DEF IsLog
    <3>5. \A one, other \in db.log \cup {row} : one.id = other.id => one = other
      BY <1>2, <2>3, <2>4 DEF IsLog
    <3>6. db.log \cup {row} \in SUBSET Row
      BY <1>2, <2>3 DEF IsLog
    <3> QED BY <3>2, <3>3, <3>4, <3>5, <3>6 DEF IsLog
  <2>7. Dated(db.log \cup {row})
    BY <1>2, <2>3 DEF Dated
  <2>8. Fed(event, race, how) = Fed(row, race, how)
    BY <2>3 DEF Fed, Replayable
  <2>9. Matches(Fed(row, race, how), db.log \cup {row}, riders)
    BY <1>1, <2>3, <2>5, <2>6, <2>7, NewestMatches
  <2> QED BY <2>2, <2>8, <2>9
<1> QED BY <1>6, <1>7

------------------------------------------------------------------------------
(* What holds throughout when events come in order, request by request.    *)
OrderlyInv == BackendInv /\ Standings /\ OnDisk /\ Timeline /\ FileAgrees /\ MatchesLog

LEMMA OrderlyTypes ==
  ASSUME OrderlyInv
  PROVE  /\ TypeOK /\ RaceInv(race) /\ race \in Race /\ race.format \in Format
         /\ race.started_at \in Nat /\ race.ended_at \in Nat
         /\ db \in Database /\ riders \in Riders /\ riders = db.riders /\ Main \in Threads
         /\ now \in Nat \ {0} /\ now # None /\ None \in Nat
         /\ db.log \in SUBSET Row /\ db.ended_at \in Nat /\ db.started_at \in Nat
         /\ job[Main].rows \in SUBSET Row
         /\ IsLog(db.log) /\ Dated(db.log) /\ \A row \in db.log : row.ts <= now
         /\ race.format = db.format
<1>1. TypeOK /\ RaceInv(race) /\ Main \in Threads
  BY ThreadsAssumption DEF OrderlyInv, BackendInv
<1>2. /\ race \in Race /\ race.format \in Format
      /\ race.started_at \in Nat /\ race.ended_at \in Nat
      /\ db \in Database /\ riders \in Riders
      /\ now \in Nat \ {0} /\ now # None /\ None \in Nat
  BY <1>1, BoundsAssumption DEF TypeOK, RaceInv, Race, None
<1>3. db.log \in SUBSET Row /\ db.ended_at \in Nat /\ db.started_at \in Nat
  BY <1>2 DEF Database
<1>4. job[Main].rows \in SUBSET Row
  BY <1>1, JobType
<1>5. IsLog(db.log) /\ Dated(db.log)
  BY LogOnDisk DEF OrderlyInv, Timeline
<1> QED BY <1>1, <1>2, <1>3, <1>4, <1>5 DEF OrderlyInv, Timeline, LogIsLog, Standings

(* A request that leaves race, log and registry as they are, or is going   *)
(* to rebuild the race anyway.                                             *)
LEMMA ToRebuild ==
  ASSUME OrderlyInv, job'[Main].pc \in {"delete", "clear"}, race' = race,
         db'.started_at = db.started_at, db'.meta_started = db.meta_started,
         db'.ended_at \in {db.ended_at, None}, now' = now, job[Main].pc \in {"idle", "delete"}
  PROVE  FileAgrees' /\ MatchesLog'
<1>1. db'.ended_at <= now
  BY OrderlyTypes DEF OrderlyInv, FileAgrees, None
<1> QED BY <1>1 DEF OrderlyInv, FileAgrees, MatchesLog


LEMMA IngestMatches ==
  ASSUME ~EpochReads, OrderlyInv, Ingest(Main), job'[Main].pc \in {"count", "log"} => Timely
  PROVE  FileAgrees' /\ MatchesLog'
<1>1. PICK tag \in Tags : \E ts \in Deliverable(tag) :
          /\ db' = AppendEvent(db, Event(tag, ts, FALSE))
          /\ Goto(Main, "count", {Event(tag, ts, FALSE)}, None)
  BY DEF Ingest
<1>2. PICK ts \in Deliverable(tag) :
          /\ db' = AppendEvent(db, Event(tag, ts, FALSE))
          /\ Goto(Main, "count", {Event(tag, ts, FALSE)}, None)
  BY <1>1
<1>3. PICK event : event = Event(tag, ts, FALSE)
  OBVIOUS
<1>4. TypeOK /\ db \in Database
  BY OrderlyTypes
<1>5. ts \in Nat /\ ts # Epoch /\ ts <= now
  BY OrderlyTypes DEF Deliverable, Recent, Epoch, Dated, Row
<1>6. event \in Row /\ event.ts = ts
  BY <1>3, <1>5, EventType DEF Event
<1>7. job'[Main].pc = "count" /\ job'[Main].rows = {event}
  BY <1>2, <1>3, <1>4, GotoAt
<1>8. race' = race /\ riders' = riders /\ now' = now /\ db' = AppendEvent(db, event)
      /\ job[Main].pc = "idle"
  BY <1>2, <1>3, ThreadsAssumption DEF Ingest, Accept
<1>9. /\ db'.started_at = db.started_at /\ db'.meta_started = db.meta_started
      /\ db'.ended_at = db.ended_at
  BY <1>4, <1>8 DEF AppendEvent, Database
<1>10. Stored(db, event) \/ event.ts >= now
  BY <1>7 DEF Timely
<1>11. Matches(Fed(event, race, Replaying(riders, None)), db'.log, riders)
  BY <1>5, <1>6, <1>8, <1>10, Joining DEF OrderlyInv, Timeline, MatchesLog
<1>12. MatchesLog'
  BY <1>5, <1>6, <1>7, <1>8, <1>11 DEF MatchesLog
<1>13. FileAgrees'
  BY <1>7, <1>8, <1>9 DEF OrderlyInv, FileAgrees
<1> QED BY <1>12, <1>13

(* A manual lap that is refused changes nothing; one that counts is not in *)
(* the log.                                                                *)
LEMMA ManualMatches ==
  ASSUME OrderlyInv, ManualLap(Main), job'[Main].pc \in {"count", "log"} => Timely
  PROVE  FileAgrees' /\ MatchesLog'
<1>1. PICK tag \in Tags, ts \in Recent :
        /\ Registered(tag)
        /\ race' = AddLap(race, tag, ts, now)
        /\ IF Laps(race', tag) # Laps(race, tag)
           THEN Goto(Main, "log", {Event(tag, ts, TRUE)}, None)
           ELSE UNCHANGED job
  BY DEF ManualLap
<1>2. /\ TypeOK /\ RaceInv(race) /\ race \in Race
      /\ ts \in Nat /\ ts # Epoch /\ ts <= now
  BY OrderlyTypes DEF Recent, Epoch
<1>3. race.ended_at = None /\ db' = db /\ riders' = riders /\ now' = now /\ job[Main].pc = "idle"
  BY ThreadsAssumption DEF ManualLap, Accept
<1>4. /\ race'.format = race.format /\ race'.started_at = race.started_at
      /\ race'.ended_at = race.ended_at
  BY <1>1, <1>2, AddLapRun
<1>5. Matches(race, db.log, riders)
  BY <1>3 DEF OrderlyInv, MatchesLog
<1>6. CASE Laps(race', tag) = Laps(race, tag)
  <2>1. job' = job
    BY <1>1, <1>6
  <2>2. ~Counts(race, tag, ts)
    <3> SUFFICES ASSUME Counts(race, tag, ts) PROVE FALSE
      OBVIOUS
    <3>1. race' = CountPass(race, tag, ts)
      BY <1>1, <1>2 DEF AddLap, PassTime
    <3>2. race'.participants[tag].passes = Append(race.participants[tag].passes, ts)
      BY <1>2, <3>1, CountPassFields DEF Epoch
    <3>3. race.participants[tag].passes \in Seq(Nat)
      BY <1>2, PassesType
    <3> QED BY <1>2, <1>6, <3>2, <3>3 DEF Laps
  <2>3. Course(race') = Course(race)
    BY <1>1, <1>2, <2>2, RefusedCourse
  <2>4. Matches(race', db.log, riders)
    BY <1>4, <1>5, <2>3, MatchesAlike
  <2>5. MatchesLog'
    BY <1>3, <2>1, <2>4 DEF MatchesLog
  <2> QED BY <1>3, <1>4, <2>1, <2>5 DEF OrderlyInv, FileAgrees
<1>7. CASE Laps(race', tag) # Laps(race, tag)
  <2>1. PICK event : event = Event(tag, ts, TRUE)
    OBVIOUS
  <2>2. event \in Row /\ event.ts = ts /\ event.tag = tag
    BY <1>2, <2>1, EventType DEF Event
  <2>3. job'[Main].pc = "log" /\ job'[Main].rows = {event}
    BY <1>1, <1>2, <1>7, <2>1, GotoAt
  <2>4. Stored(db, event) \/ event.ts >= now
    BY <2>3 DEF Timely
  <2> PICK how : how = Replaying(riders, None)
    OBVIOUS
  <2> PICK s : s = Fed(event, race, how)
    OBVIOUS
  <2>5. Matches(s, AppendEvent(db, event).log, riders)
    BY <1>2, <1>5, <2>2, <2>4, Joining DEF OrderlyInv, Timeline
  <2>6. Replayable(event, how.riders, how.until)
    BY <1>1, <2>2 DEF Replayable, Replaying, Registered
  <2>7. s = AddLap(race, tag, ts, how.at)
    BY <2>2, <2>6 DEF Fed
  <2>8. Course(race') = Course(s)
    BY <1>1, <1>2, <1>3, <2>7, AddLapCourse
  <2>9. race'.ended_at = s.ended_at
    BY <1>2, <1>4, <2>7, AddLapRun
  <2>10. Matches(race', AppendEvent(db, event).log, riders)
    BY <2>5, <2>8, <2>9, MatchesAlike
  <2>11. MatchesLog'
    BY <1>3, <2>3, <2>10 DEF MatchesLog
  <2> QED BY <1>3, <1>4, <2>3, <2>11 DEF OrderlyInv, FileAgrees
<1> QED BY <1>6, <1>7

(* Start: of a race that has not begun, nothing in the log counts, before  *)
(* and after.                                                              *)
LEMMA StartMatches ==
  ASSUME OrderlyInv, StartRace(Main) PROVE FileAgrees' /\ MatchesLog'
<1>1. /\ TypeOK /\ RaceInv(race) /\ race \in Race /\ race.format \in Format /\ now \in Nat \ {0}
      /\ now # None /\ None \in Nat /\ riders \in Riders /\ race.ended_at \in Nat
      /\ IsLog(db.log) /\ Dated(db.log) /\ \A row \in db.log : row.ts <= now
  BY OrderlyTypes
<1>2. /\ race' = Start(race, now) /\ db' = db /\ riders' = riders /\ now' = now
      /\ job[Main].pc = "idle"
  BY ThreadsAssumption DEF StartRace, Accept
<1>3. job'[Main].pc = "start_meta"
  BY <1>1, GotoAt DEF StartRace
<1>4. /\ race'.format = race.format /\ race'.ended_at = race.ended_at
      /\ race'.started_at = IF race.started_at # None THEN race.started_at ELSE now
  BY <1>1, <1>2, StartEndRun
<1>5. Matches(race, db.log, riders)
  BY <1>2 DEF OrderlyInv, MatchesLog
<1>6. Matches(race', db.log, riders)
  <2>1. CASE race.started_at # None
    BY <1>2, <1>5, <2>1 DEF Start
  <2>2. CASE race.started_at = None
    <3> SUFFICES ASSUME \A row \in db.log : row.ts # race.ended_at
                 PROVE  Course(race') = Course(OfLog(db.log, race.format, now, riders, race.ended_at))
      BY <1>4, <2>2 DEF Matches
    <3>1. Course(race) = Course(OfLog(db.log, race.format, None, riders, race.ended_at))
      BY <1>5, <2>2 DEF Matches
    <3>2. Course(race) = Course(Begun(race.format, None))
      BY <1>1, <3>1, EarlyCourse
    <3>3. Begun(race.format, None) = NewRace(race.format) /\ Begun(race.format, None) \in Race
      BY <1>1, BegunRace DEF Begun
    <3>4. Course(race') = Course(Start(NewRace(race.format), now))
      BY <1>1, <1>2, <3>2, <3>3, StartCourse
    <3>5. Course(race') = Course(Begun(race.format, now))
      BY <1>1, <3>4 DEF Begun
    <3>6. race.format.min_pass > 0
      BY DEF OrderlyInv, FileAgrees
    <3> QED BY <1>1, <3>5, <3>6, EarlyCourse
  <2> QED BY <2>1, <2>2
<1>7. MatchesLog'
  BY <1>2, <1>3, <1>6 DEF MatchesLog
<1>8. FileAgrees'
  BY <1>2, <1>3, <1>4 DEF OrderlyInv, FileAgrees
<1> QED BY <1>7, <1>8

(* End: the log does not reach beyond. *)
LEMMA EndMatches ==
  ASSUME OrderlyInv, EndRace(Main) PROVE FileAgrees' /\ MatchesLog'
<1>1. /\ TypeOK /\ RaceInv(race) /\ race \in Race /\ race.format \in Format /\ now \in Nat \ {0}
      /\ now # None /\ None \in Nat /\ riders \in Riders /\ race.ended_at \in Nat
      /\ race.started_at \in Nat
      /\ IsLog(db.log) /\ Dated(db.log) /\ \A row \in db.log : row.ts <= now
  BY OrderlyTypes
<1>2. /\ race' = End(race, now) /\ db' = db /\ riders' = riders /\ now' = now
      /\ job[Main].pc = "idle"
  BY ThreadsAssumption DEF EndRace, Accept
<1>3. job'[Main].pc = "end_row"
  BY <1>1, GotoAt DEF EndRace
<1>4. /\ race'.format = race.format /\ race'.started_at = race.started_at
      /\ race'.ended_at = IF race.ended_at # None THEN race.ended_at ELSE now
  BY <1>1, <1>2, StartEndRun
<1>5. Matches(race, db.log, riders)
  BY <1>2 DEF OrderlyInv, MatchesLog
<1>6. Matches(race', db.log, riders)
  <2>1. CASE race.ended_at # None
    BY <1>2, <1>5, <2>1 DEF End
  <2>2. CASE race.ended_at = None
    <3> SUFFICES Course(race') = Course(OfLog(db.log, race.format, race.started_at, riders, now))
      BY <1>4, <2>2 DEF Matches
    <3>1. Course(race) = Course(OfLog(db.log, race.format, race.started_at, riders, None))
      BY <1>1, <1>5, <2>2 DEF Matches, Dated, None, Epoch
    <3>2. \A row \in db.log : Replayable(row, riders, None) <=> Replayable(row, riders, now)
      BY <1>1 DEF Replayable
    <3>3. Course(OfLog(db.log, race.format, race.started_at, riders, None)) =
          Course(OfLog(db.log, race.format, race.started_at, riders, now))
      BY <1>1, <3>2, OfLogAlike
    <3> QED BY <1>1, <1>2, <3>1, <3>3, EndCourse
  <2> QED BY <2>1, <2>2
<1>7. MatchesLog'
  BY <1>2, <1>3, <1>6 DEF MatchesLog
<1>8. FileAgrees'
  BY <1>1, <1>2, <1>3, <1>4 DEF OrderlyInv, FileAgrees
<1> QED BY <1>7, <1>8

(* A race that has not begun has come to what any log comes to before it.  *)
LEMMA NotBegunMatches ==
  ASSUME NEW r, r.format \in Format, r.started_at = None, r.ended_at \in Nat,
         Course(r) = Course(NewRace(r.format)),
         NEW log, IsLog(log), Dated(log), NEW registry \in Riders
  PROVE  Matches(r, log, registry)
<1>1. Begun(r.format, None) = NewRace(r.format) /\ None \in Nat
  BY DEF Begun, None
<1>2. Course(OfLog(log, r.format, None, registry, r.ended_at)) = Course(Begun(r.format, None))
  BY <1>1, EarlyCourse
<1> QED BY <1>1, <1>2 DEF Matches

LEMMA ResetMatches ==
  ASSUME OrderlyInv, Reset(Main) PROVE FileAgrees' /\ MatchesLog'
<1>1. /\ TypeOK /\ race.format \in Format /\ riders \in Riders /\ None \in Nat
      /\ IsLog(db.log) /\ Dated(db.log) /\ now \in Nat \ {0}
  BY OrderlyTypes
<1>2. /\ race' = Clear(race) /\ db' = db /\ riders' = riders /\ now' = now
      /\ job[Main].pc = "idle"
  BY ThreadsAssumption DEF Reset, Accept
<1>3. job'[Main].pc = "reset_meta"
  BY <1>1, GotoAt DEF Reset
<1>4. race'.format = race.format /\ race'.started_at = None /\ race'.ended_at = None
  BY <1>2, ClearRun
<1>5. Course(race') = Course(NewRace(race'.format))
  BY <1>2, <1>4, NewCourse
<1>6. Matches(race', db.log, riders)
  BY <1>1, <1>4, <1>5, NotBegunMatches
<1>7. MatchesLog'
  BY <1>2, <1>3, <1>6 DEF MatchesLog
<1>8. None <= now
  BY <1>1 DEF None
<1>9. FileAgrees'
  BY <1>2, <1>3, <1>4, <1>8 DEF OrderlyInv, FileAgrees
<1> QED BY <1>7, <1>9

(* A verdict: who is registered stays so. *)
LEMMA JudgeMatches ==
  ASSUME OrderlyInv, Judge(Main) PROVE FileAgrees' /\ MatchesLog'
<1>1. /\ TypeOK /\ race \in Race /\ race.format \in Format /\ riders \in Riders /\ db \in Database
      /\ race.started_at \in Nat /\ race.ended_at \in Nat /\ IsLog(db.log) /\ Dated(db.log)
  BY OrderlyTypes
<1>2. PICK tag \in Tags, status \in Verdicts :
        /\ Registered(tag)
        /\ riders' = [riders EXCEPT ![tag] = status]
        /\ db' = [db EXCEPT !.riders[tag] = status]
        /\ race' = SetStatus(race, tag, status)
  BY DEF Judge
<1>3. job' = job /\ job[Main].pc = "idle" /\ now' = now
  BY ThreadsAssumption DEF Judge, Accept
<1>4. status \in Statuses /\ status # "unregistered"
  BY VerdictsAssumption DEF Statuses
<1>5. riders' \in Riders /\ \A t \in Tags : riders'[t] # "unregistered" <=> riders[t] # "unregistered"
  BY <1>1, <1>2, <1>4 DEF Riders, Registered
<1>6. /\ race'.format = race.format /\ race'.started_at = race.started_at
      /\ race'.ended_at = race.ended_at
  BY <1>1, <1>2 DEF SetStatus, Race
<1>7. Course(race') = Course(race)
  <2>1. race' = [race EXCEPT !.status = [race.status EXCEPT ![tag] = status]]
    BY <1>1, <1>2 DEF SetStatus, Race
  <2> QED BY <1>1, <2>1, StatusCourse
<1>8. db'.log = db.log /\ db'.ended_at = db.ended_at /\ db'.started_at = db.started_at
      /\ db'.meta_started = db.meta_started
  BY <1>1, <1>2 DEF Database
<1>9. \A row \in db.log : Replayable(row, riders, race.ended_at) <=> Replayable(row, riders', race.ended_at)
  BY <1>1, <1>5 DEF Replayable, IsLog, Row
<1>10. Course(OfLog(db.log, race.format, race.started_at, riders, race.ended_at)) =
       Course(OfLog(db.log, race.format, race.started_at, riders', race.ended_at))
  BY <1>1, <1>5, <1>9, OfLogAlike
<1>11. Matches(race, db.log, riders)
  BY <1>3 DEF OrderlyInv, MatchesLog
<1>12. Matches(race', db.log, riders')
  BY <1>6, <1>7, <1>10, <1>11 DEF Matches
<1>13. MatchesLog'
  BY <1>3, <1>8, <1>12 DEF MatchesLog
<1> QED BY <1>3, <1>6, <1>8, <1>13 DEF OrderlyInv, FileAgrees

LEMMA OrderlyRequestMatches ==
  ASSUME ~EpochReads, OrderlyInv, OrderlyRequest PROVE FileAgrees' /\ MatchesLog'
<1>1. CASE RemoveLap(Main) \/ DeletePasses(Main) \/ DeleteRider(Main) \/ Reopen(Main)
  <2>1. TypeOK /\ db \in Database /\ riders \in Riders
    BY OrderlyTypes
  <2>2. job[Main].pc = "idle" /\ race' = race /\ now' = now
    BY <1>1, ThreadsAssumption DEF RemoveLap, DeletePasses, DeleteRider, Reopen, Accept
  <2>3. job'[Main].pc \in {"delete", "clear"}
    BY <1>1, <2>1, GotoAt DEF RemoveLap, DeletePasses, DeleteRider, Reopen
  <2>4. /\ db'.started_at = db.started_at /\ db'.meta_started = db.meta_started
        /\ db'.ended_at \in {db.ended_at, None}
    BY <1>1, <2>1 DEF RemoveLap, DeletePasses, DeleteRider, Reopen, Database
  <2> QED BY <2>2, <2>3, <2>4, ToRebuild
<1> QED BY <1>1, IngestMatches, ManualMatches, StartMatches, EndMatches, ResetMatches, JudgeMatches
        DEF OrderlyRequest

------------------------------------------------------------------------------
(* Then step by step.  The event in hand is counted, logged, or deleted.   *)
LEMMA HandMatches ==
  ASSUME OrderlyInv, IngestCount(Main) \/ ManualLog(Main) \/ RemoveRow(Main)
  PROVE  FileAgrees' /\ MatchesLog'
<1>1. /\ TypeOK /\ RaceInv(race) /\ race \in Race /\ db \in Database /\ riders \in Riders
      /\ job[Main].rows \in SUBSET Row
  BY OrderlyTypes
<1>2. riders' = riders /\ now' = now
  BY DEF IngestCount, ManualLog, RemoveRow
<1>3. CASE IngestCount(Main)
  <2>1. PICK event \in job[Main].rows :
          race' = IF Registered(event.tag) THEN AddLap(race, event.tag, event.ts, now) ELSE race
    BY <1>3 DEF IngestCount
  <2> PICK how : how = Replaying(riders, None)
    OBVIOUS
  <2> PICK s : s = Fed(event, race, how)
    OBVIOUS
  <2>2. /\ event.tag \in Tags /\ event.ts \in Nat /\ event.ts # Epoch
        /\ Matches(s, db.log, riders)
    BY <1>1, <1>3, <2>1 DEF OrderlyInv, MatchesLog, IngestCount, Row
  <2>3. s = IF Registered(event.tag) THEN AddLap(race, event.tag, event.ts, how.at) ELSE race
    BY DEF Fed, Replayable, Replaying, Registered
  <2>4. /\ race'.format = race.format /\ race'.ended_at = race.ended_at
        /\ s.ended_at = race.ended_at
    BY <1>1, <2>1, <2>2, <2>3, AddLapRun
  <2>5. Course(race') = Course(s)
    <3>1. CASE race.ended_at = None
      BY <1>1, <2>1, <2>2, <2>3, <3>1, AddLapCourse
    <3>2. CASE race.ended_at # None
      BY <1>1, <2>1, <2>2, <2>3, <3>2, EndedCourse
    <3> QED BY <3>1, <3>2
  <2>6. Matches(race', db.log, riders)
    BY <2>2, <2>4, <2>5, MatchesAlike
  <2>7. job'[Main].pc = "idle" /\ db' = db /\ job[Main].pc = "count"
    BY <1>1, <1>3, ReplyAt DEF IngestCount
  <2>8. MatchesLog'
    BY <1>2, <2>6, <2>7 DEF MatchesLog
  <2> QED BY <1>2, <2>4, <2>7, <2>8 DEF OrderlyInv, FileAgrees
<1>4. CASE ManualLog(Main)
  <2>1. PICK event \in job[Main].rows : db' = AppendEvent(db, event)
    BY <1>4 DEF ManualLog
  <2>2. job'[Main].pc = "idle" /\ race' = race /\ job[Main].pc = "log"
    BY <1>1, <1>4, ReplyAt DEF ManualLog
  <2>3. Matches(race, db'.log, riders)
    BY <2>1, <2>2 DEF OrderlyInv, MatchesLog
  <2>4. /\ db'.started_at = db.started_at /\ db'.meta_started = db.meta_started
        /\ db'.ended_at = db.ended_at
    BY <1>1, <2>1 DEF AppendEvent, Database
  <2>5. MatchesLog'
    BY <1>2, <2>2, <2>3 DEF MatchesLog
  <2> QED BY <1>2, <2>2, <2>4, <2>5 DEF OrderlyInv, FileAgrees
<1>5. CASE RemoveRow(Main)
  <2>1. job'[Main].pc = "clear" /\ race' = race /\ job[Main].pc = "delete"
    BY <1>1, <1>5, GotoAt DEF RemoveRow
  <2>2. /\ db'.started_at = db.started_at /\ db'.meta_started = db.meta_started
        /\ db'.ended_at = db.ended_at
    BY <1>1, <1>5 DEF RemoveRow, Database
  <2> QED BY <1>2, <2>1, <2>2, ToRebuild
<1> QED BY <1>3, <1>4, <1>5

(* A rebuild begins. *)
LEMMA ClearMatches ==
  ASSUME OrderlyInv, RebuildClear(Main) PROVE FileAgrees' /\ MatchesLog'
<1>1. TypeOK /\ now \in Nat \ {0}
  BY OrderlyTypes
<1>2. /\ race' = Clear(race) /\ db' = db /\ riders' = riders /\ now' = now /\ job[Main].pc = "clear"
  BY DEF RebuildClear
<1>3. job'[Main].pc = "read"
  BY <1>1, GotoAt DEF RebuildClear
<1>4. race'.format = race.format /\ race'.started_at = None /\ race'.ended_at = None
  BY <1>2, ClearRun
<1>5. Course(race') = Course(NewRace(race'.format))
  BY <1>2, <1>4, NewCourse
<1>6. None <= now
  BY <1>1 DEF None
<1>7. MatchesLog'
  BY <1>3, <1>5 DEF MatchesLog
<1>8. FileAgrees'
  BY <1>2, <1>3, <1>4, <1>6 DEF OrderlyInv, FileAgrees
<1> QED BY <1>7, <1>8

LEMMA ReadMatches ==
  ASSUME OrderlyInv, RebuildRead(Main) PROVE FileAgrees' /\ MatchesLog'
<1>1. /\ TypeOK /\ race \in Race /\ race.format \in Format /\ now \in Nat \ {0} /\ None \in Nat
      /\ riders \in Riders /\ db.started_at \in Nat /\ db.ended_at \in Nat
  BY OrderlyTypes
<1>2. /\ race' = IF db.started_at # None THEN Start(race, db.started_at) ELSE race
      /\ db' = db /\ riders' = riders /\ now' = now /\ job[Main].pc = "read"
  BY DEF RebuildRead
<1>3. job'[Main].pc = "replay" /\ job'[Main].rows = db.log
  BY <1>1, GotoAt DEF RebuildRead
<1>4. Course(race) = Course(NewRace(race.format)) /\ race.ended_at = None /\ race.started_at = None
  BY <1>2 DEF OrderlyInv, MatchesLog, FileAgrees, Timeline, StartsAgree
<1>5. /\ race'.format = race.format /\ race'.ended_at = None /\ race'.started_at = db.started_at
  BY <1>1, <1>2, <1>4, StartEndRun
<1>6. Course(race') = Course(Begun(race'.format, race'.started_at))
  <2>1. NewRace(race.format) = Begun(race.format, None) /\ NewRace(race.format) \in Race
    BY <1>1, BegunRace DEF Begun
  <2>2. CASE db.started_at = None
    BY <1>2, <1>4, <1>5, <2>1, <2>2
  <2>3. CASE db.started_at # None
    <3>1. Course(race') = Course(Start(NewRace(race.format), db.started_at))
      BY <1>1, <1>2, <1>4, <2>1, <2>3, StartCourse
    <3> QED BY <1>5, <2>3, <3>1 DEF Begun
  <2> QED BY <2>2, <2>3
<1>7. Course(OfLog({}, race'.format, race'.started_at, riders, db.ended_at)) = Course(race')
  BY <1>1, <1>5, <1>6, BegunRace, ReplayingHow, ReplayedNone DEF OfLog
<1>8. db'.log \ job'[Main].rows = {}
  BY <1>2, <1>3
<1>9. MatchesLog'
  BY <1>2, <1>3, <1>7, <1>8 DEF MatchesLog
<1>10. None <= now
  BY <1>1 DEF None
<1>11. FileAgrees'
  BY <1>2, <1>3, <1>5, <1>10 DEF OrderlyInv, FileAgrees
<1> QED BY <1>9, <1>11

(* The replay goes on with the earliest of the rows left. *)
LEMMA ReplayMatches ==
  ASSUME OrderlyInv, Replay(Main) PROVE FileAgrees' /\ MatchesLog'
<1>1. /\ TypeOK /\ RaceInv(race) /\ race \in Race /\ race.format \in Format /\ race.started_at \in Nat
      /\ None \in Nat /\ riders \in Riders /\ db.ended_at \in Nat /\ Main \in Threads
      /\ job[Main].rows \in SUBSET Row /\ IsLog(db.log) /\ Dated(db.log)
  BY OrderlyTypes
<1>2. PICK row \in job[Main].rows :
        /\ \A other \in job[Main].rows \ {row} : Before(row, other)
        /\ race' = IF Replayable(row, riders, job[Main].at)
                   THEN AddLap(race, row.tag, row.ts, now) ELSE race
        /\ job' = [job EXCEPT ![Main].rows = @ \ {row}]
  BY DEF Replay
<1>3. db' = db /\ riders' = riders /\ now' = now /\ job[Main].pc \in {"replay", "load"}
  BY DEF Replay
<1>4. /\ job'[Main].pc = job[Main].pc /\ job'[Main].at = job[Main].at
      /\ job'[Main].rows = job[Main].rows \ {row}
  BY <1>1, <1>2 DEF TypeOK, Job
<1>5. job[Main].at = db.ended_at /\ race.ended_at = None /\ row \in db.log
  BY <1>2, <1>3 DEF OrderlyInv, Timeline, EndsAgree, FileAgrees, OnDisk
<1>6. row.tag \in Tags /\ row.ts \in Nat /\ row.ts # Epoch /\ row \in Row
  BY <1>1, <1>2, <1>5 DEF Row, Dated
<1>7. /\ race'.format = race.format /\ race'.started_at = race.started_at /\ race'.ended_at = None
  BY <1>1, <1>2, <1>5, <1>6, AddLapRun
<1> PICK done : done = db.log \ job[Main].rows
  OBVIOUS
<1> PICK base, how : base = Begun(race.format, race.started_at) /\ how = Replaying(riders, db.ended_at)
  OBVIOUS
<1>8. RaceInv(base) /\ base.ended_at = None /\ how \in How
  BY <1>1, BegunRace, ReplayingHow
<1> PICK s : s = Replayed(done, base, how)
  OBVIOUS
<1>9. /\ \A one \in done, other \in job[Main].rows : Before(one, other)
      /\ Course(race) = Course(s)
  BY <1>3 DEF OrderlyInv, MatchesLog, OfLog
<1>10. /\ db.log \ job'[Main].rows = done \cup {row} /\ row \notin done
       /\ IsLog(done) /\ IsLog(done \cup {row})
  <2>1. db.log \ job'[Main].rows = done \cup {row} /\ row \notin done
    BY <1>2, <1>4, <1>5
  <2>2. done \in SUBSET db.log /\ done \cup {row} \in SUBSET db.log
    BY <1>5
  <2> QED BY <1>1, <2>1, <2>2, PartOfLog
<1>11. Replayed(done \cup {row}, base, how) = Fed(row, s, how)
  BY <1>8, <1>9, <1>10, ReplayedNext
<1>12. RaceInv(s) /\ s.ended_at = None
  BY <1>8, <1>10, ReplayedRace
<1>13. Course(race') = Course(Fed(row, s, how))
  <2>1. Course(AddLap(race, row.tag, row.ts, now)) = Course(AddLap(s, row.tag, row.ts, how.at))
    BY <1>1, <1>5, <1>6, <1>9, <1>12, AddLapCourse
  <2>2. how.riders = riders /\ how.until = db.ended_at
    BY DEF Replaying
  <2> QED BY <1>2, <1>5, <1>9, <2>1, <2>2 DEF Fed
<1>14. Course(race') = Course(OfLog(db.log \ job'[Main].rows, race'.format, race'.started_at,
                                    riders, db.ended_at))
  BY <1>7, <1>10, <1>11, <1>13 DEF OfLog
<1>15. \A one \in db.log \ job'[Main].rows, other \in job'[Main].rows : Before(one, other)
  BY <1>2, <1>4, <1>9, <1>10
<1>16. MatchesLog'
  BY <1>3, <1>4, <1>14, <1>15 DEF MatchesLog
<1>17. FileAgrees'
  BY <1>3, <1>4, <1>5, <1>7 DEF OrderlyInv, FileAgrees
<1> QED BY <1>16, <1>17

LEMMA DoneMatches ==
  ASSUME OrderlyInv, ReplayDone(Main) PROVE FileAgrees' /\ MatchesLog'
<1>1. /\ TypeOK /\ RaceInv(race) /\ race \in Race /\ db.ended_at \in Nat /\ riders \in Riders
      /\ None \in Nat
  BY OrderlyTypes
<1>2. /\ db' = db /\ riders' = riders /\ now' = now /\ job[Main].pc \in {"replay", "load"}
      /\ job[Main].rows = {}
  BY DEF ReplayDone
<1>3. job'[Main].pc = "idle"
  BY <1>1, ReplyAt DEF ReplayDone
<1>4. race.ended_at = None
  BY <1>2 DEF OrderlyInv, FileAgrees
<1>5. /\ race'.format = race.format /\ race'.started_at = race.started_at
      /\ race'.ended_at = db.ended_at
  BY <1>4, DoneRun DEF OrderlyInv
<1>6. Course(race') = Course(race)
  <2> PICK ended : ended = IF db.ended_at # None THEN End(race, db.ended_at) ELSE race
    OBVIOUS
  <2>1. race' = [ended EXCEPT !.status = StatusOf(riders)]
    BY DEF ReplayDone
  <2>2. ended \in Race /\ Course(ended) = Course(race)
    BY <1>1, EndInv, EndCourse DEF RaceInv, None
  <2> QED BY <2>1, <2>2, StatusCourse
<1>7. db.log \ job[Main].rows = db.log
  BY <1>2
<1>8. Matches(race', db.log, riders)
  BY <1>2, <1>5, <1>6, <1>7 DEF OrderlyInv, MatchesLog, Matches
<1>9. MatchesLog'
  BY <1>2, <1>3, <1>8 DEF MatchesLog
<1>10. FileAgrees'
  BY <1>2, <1>3, <1>5 DEF OrderlyInv, FileAgrees
<1> QED BY <1>9, <1>10

(* What start, end and reset write. *)
LEMMA WriteMatches ==
  ASSUME OrderlyInv, \/ StartMeta(Main) \/ StartRow(Main) \/ EndRow(Main)
                     \/ ResetMeta(Main) \/ ResetRow(Main)
  PROVE  FileAgrees' /\ MatchesLog'
<1>1. TypeOK /\ db \in Database /\ now \in Nat \ {0} /\ race.ended_at \in Nat
  BY OrderlyTypes
<1>2. race' = race /\ riders' = riders /\ now' = now
  BY DEF StartMeta, StartRow, EndRow, ResetMeta, ResetRow
<1>3. db'.log = db.log
  BY <1>1 DEF StartMeta, StartRow, EndRow, ResetMeta, ResetRow, Database
<1>4. job'[Main].pc \in {"idle", "start_row", "reset_row", "reset_log"}
  BY <1>1, ReplyAt, GotoAt DEF StartMeta, StartRow, EndRow, ResetMeta, ResetRow
<1>5. job[Main].pc \in {"start_meta", "start_row", "end_row", "reset_meta", "reset_row"}
  BY DEF StartMeta, StartRow, EndRow, ResetMeta, ResetRow
<1>6. Matches(race, db.log, riders)
  BY <1>5 DEF OrderlyInv, MatchesLog
<1>7. MatchesLog'
  BY <1>2, <1>3, <1>4, <1>6 DEF MatchesLog
<1>8. None <= now
  BY <1>1 DEF None
<1>9. CASE StartMeta(Main)
  <2>1. job[Main].pc = "start_meta" /\ job'[Main].pc = "start_row" /\ db'.ended_at = db.ended_at
    BY <1>1, <1>9, GotoAt DEF StartMeta, Database
  <2> QED BY <1>2, <1>7, <2>1 DEF OrderlyInv, FileAgrees
<1>10. CASE StartRow(Main)
  <2>1. /\ job[Main].pc = "start_row" /\ job'[Main].pc = "idle" /\ db'.ended_at = db.ended_at
        /\ db'.started_at = job[Main].at /\ db'.meta_started = db.meta_started
    BY <1>1, <1>10, ReplyAt DEF StartRow, Database
  <2>2. db'.started_at = db'.meta_started
    BY <2>1 DEF OrderlyInv, Timeline, StartsAgree
  <2> QED BY <1>2, <1>7, <2>1, <2>2 DEF OrderlyInv, FileAgrees
<1>11. CASE EndRow(Main)
  <2>1. /\ job[Main].pc = "end_row" /\ job'[Main].pc = "idle" /\ db'.ended_at = job[Main].at
        /\ db'.started_at = db.started_at /\ db'.meta_started = db.meta_started
    BY <1>1, <1>11, ReplyAt DEF EndRow, Database
  <2>2. db'.ended_at = race.ended_at
    BY <2>1 DEF OrderlyInv, Timeline, EndsAgree
  <2> QED BY <1>2, <1>7, <2>1, <2>2 DEF OrderlyInv, FileAgrees
<1>12. CASE ResetMeta(Main)
  <2>1. /\ job[Main].pc = "reset_meta" /\ job'[Main].pc = "reset_row" /\ db'.ended_at = db.ended_at
        /\ db'.meta_started = None
    BY <1>1, <1>12, GotoAt DEF ResetMeta, Database
  <2> QED BY <1>2, <1>7, <2>1 DEF OrderlyInv, FileAgrees
<1>13. CASE ResetRow(Main)
  <2>1. /\ job[Main].pc = "reset_row" /\ job'[Main].pc = "reset_log" /\ db'.ended_at = None
        /\ db'.started_at = None /\ db'.meta_started = db.meta_started
    BY <1>1, <1>13, GotoAt DEF ResetRow, Database
  <2> QED BY <1>2, <1>7, <1>8, <2>1 DEF OrderlyInv, FileAgrees
<1> QED BY <1>9, <1>10, <1>11, <1>12, <1>13

LEMMA ResetLogMatches ==
  ASSUME OrderlyInv, ResetLog(Main) PROVE FileAgrees' /\ MatchesLog'
<1>1. /\ TypeOK /\ db \in Database /\ race.format \in Format /\ riders \in Riders /\ None \in Nat
      /\ IsLog(db.log) /\ Dated(db.log)
  BY OrderlyTypes
<1>2. race' = race /\ riders' = riders /\ now' = now /\ job[Main].pc = "reset_log"
  BY DEF ResetLog
<1>3. job'[Main].pc = "idle"
  BY <1>1, ReplyAt DEF ResetLog
<1>4. /\ db'.log = {} /\ db'.started_at = db.started_at /\ db'.ended_at = db.ended_at
      /\ db'.meta_started = db.meta_started
  BY <1>1 DEF ResetLog, Database
<1>5. race.started_at = None /\ race.ended_at = None
  BY <1>2 DEF OrderlyInv, FileAgrees, Timeline, StartsAgree
<1>6. Course(race) = Course(OfLog(db.log, race.format, None, riders, None))
  BY <1>1, <1>2, <1>5 DEF OrderlyInv, MatchesLog, Matches, Dated, None, Epoch
<1>7. Course(race) = Course(NewRace(race.format))
  BY <1>1, <1>6, EarlyCourse DEF Begun
<1>8. IsLog({}) /\ Dated({})
  BY <1>1, PartOfLog DEF Dated
<1>9. Matches(race, {}, riders)
  BY <1>1, <1>5, <1>7, <1>8, NotBegunMatches
<1>10. MatchesLog'
  BY <1>2, <1>3, <1>4, <1>9 DEF MatchesLog
<1>11. FileAgrees'
  BY <1>2, <1>3, <1>4 DEF OrderlyInv, FileAgrees
<1> QED BY <1>10, <1>11

LEMMA StepMatches == ASSUME OrderlyInv, Step(Main) PROVE FileAgrees' /\ MatchesLog'
BY HandMatches, ClearMatches, ReadMatches, ReplayMatches, DoneMatches, WriteMatches, ResetLogMatches
   DEF Step

(* The process starts again between two requests. *)
LEMMA RestartMatches == ASSUME OrderlyInv, Quiet, Restart PROVE FileAgrees' /\ MatchesLog'
<1>1. /\ TypeOK /\ db \in Database /\ riders \in Riders /\ riders = db.riders /\ None \in Nat
      /\ Main \in Threads /\ now \in Nat \ {0} /\ db.ended_at \in Nat /\ race.format = db.format
      /\ race.format \in Format
  BY OrderlyTypes
<1>2. /\ race' = Loaded(db) /\ riders' = riders /\ db' = db /\ now' = now
  BY <1>1 DEF Restart
<1>3. job'[Main].pc = "load" /\ job'[Main].rows = db.log /\ job[Main].pc = "idle"
  BY <1>1 DEF Restart, Quiet
<1>4. LoadedStart \in Nat
  BY <1>1 DEF LoadedStart, Database
<1>5. race'.format = db.format /\ race'.ended_at = None /\ race'.started_at = LoadedStart
  BY <1>2, LoadedRun DEF LoadedStart
<1>6. Course(race') = Course(Begun(db.format, LoadedStart))
  BY <1>2, LoadedCourse DEF LoadedStart
<1>7. Course(OfLog({}, race'.format, race'.started_at, riders, db.ended_at)) = Course(race')
  BY <1>1, <1>4, <1>5, <1>6, BegunRace, ReplayingHow, ReplayedNone DEF OfLog
<1>8. db'.log \ job'[Main].rows = {}
  BY <1>2, <1>3
<1>9. MatchesLog'
  BY <1>2, <1>3, <1>7, <1>8 DEF MatchesLog
<1>10. None <= now
  BY <1>1 DEF None
<1>11. FileAgrees'
  BY <1>1, <1>2, <1>3, <1>5, <1>10 DEF OrderlyInv, FileAgrees
<1> QED BY <1>9, <1>11

LEMMA InitMatches ==
  ASSUME Init, db.format.min_pass > 0 PROVE FileAgrees /\ MatchesLog
<1>1. PICK format \in Formats, registry \in [Tags -> {"racing", "unregistered"}] :
        /\ db.log = {} /\ db.started_at = None /\ db.ended_at = None /\ db.meta_started = None
        /\ db.format = format /\ race = NewRace(format) /\ riders = registry
  BY DEF Init
<1>2. /\ race.format = format /\ race.started_at = None /\ race.ended_at = None
      /\ format \in Format /\ format.min_pass > 0
  BY <1>1, FormatsAssumption DEF NewRace
<1>3. job[Main].pc = "idle" /\ now = 1
  BY ThreadsAssumption DEF Init, Idle
<1>4. registry \in Riders /\ IsLog({}) /\ Dated({})
  <2>1. registry \in Riders
    BY <1>1 DEF Riders, Statuses
  <2>2. IsLog({}) /\ Dated({})
    BY FS_EmptySet DEF IsLog, Dated
  <2> QED BY <2>1, <2>2
<1>5. Matches(race, {}, registry)
  BY <1>1, <1>2, <1>4, NotBegunMatches DEF None
<1>6. MatchesLog
  BY <1>1, <1>3, <1>5 DEF MatchesLog
<1>7. FileAgrees
  BY <1>1, <1>2, <1>3 DEF FileAgrees, None
<1> QED BY <1>6, <1>7

LEMMA OrderlyIsMain == ASSUME [OrderlyNext]_vars PROVE [MainNext]_vars
BY DEF OrderlyNext, OrderlyRequest, MainNext, Request

LEMMA NextMatches ==
  ASSUME ~EpochReads, OrderlyInv, [OrderlyNext]_vars PROVE FileAgrees' /\ MatchesLog'
<1>1. CASE Tick \/ UNCHANGED vars
  <2>1. UNCHANGED <<db, race, riders, job>> /\ now' >= now /\ now \in Nat /\ now' \in Nat
        /\ race.ended_at \in Nat /\ db.ended_at \in Nat
    BY <1>1, OrderlyTypes DEF Tick, vars
  <2>2. MatchesLog'
    BY <2>1 DEF OrderlyInv, MatchesLog
  <2> QED BY <2>1, <2>2 DEF OrderlyInv, FileAgrees
<1> QED BY <1>1, OrderlyRequestMatches, StepMatches, RestartMatches DEF OrderlyNext

LEMMA ResultAlike ==
  ASSUME NEW r \in Race, NEW s \in Race, r.format = s.format, r.started_at = s.started_at,
         r.ended_at = s.ended_at, r.finishing_at = s.finishing_at, r.time_target = s.time_target,
         r.status = s.status,
         \A tag \in Tags : /\ r.participants[tag].passes = s.participants[tag].passes
                           /\ r.participants[tag].finish_time = s.participants[tag].finish_time
  PROVE  Result(r) = Result(s)
<1> PICK p : p = [tag \in Tags |-> [passes      |-> r.participants[tag].passes,
                                   finish_time |-> r.participants[tag].finish_time]]
  OBVIOUS
<1>1. p = [tag \in Tags |-> [passes      |-> s.participants[tag].passes,
                            finish_time |-> s.participants[tag].finish_time]]
  OBVIOUS
<1>2. Result(r) = [r EXCEPT !.participants = p] /\ Result(s) = [s EXCEPT !.participants = p]
  BY <1>1 DEF Result
<1>3. [r EXCEPT !.participants = p] = [s EXCEPT !.participants = p]
  BY DEF Race
<1> QED BY <1>2, <1>3

(* Between requests the race is what a start of the process would load.    *)
LEMMA NothingChanges == ASSUME OrderlyInv PROVE RestartChangesNothing
<1> SUFFICES ASSUME Quiet, \A row \in db.log : row.ts # db.ended_at
             PROVE  Result(Reloaded) = Result(race)
  BY DEF RestartChangesNothing
<1>1. /\ TypeOK /\ race \in Race /\ db \in Database /\ riders \in Riders /\ riders = db.riders
      /\ None \in Nat /\ Main \in Threads /\ now \in Nat \ {0} /\ db.ended_at \in Nat
      /\ race.format = db.format /\ race.format \in Format /\ race.started_at \in Nat
      /\ IsLog(db.log) /\ Dated(db.log)
  BY OrderlyTypes
<1>2. job[Main].pc = "idle"
  BY <1>1 DEF Quiet
<1>3. /\ race.ended_at = db.ended_at /\ race.started_at = LoadedStart
      /\ Matches(race, db.log, riders) /\ race.status = StatusOf(riders)
  <2>1. race.ended_at = db.ended_at /\ db.meta_started = db.started_at /\ Matches(race, db.log, riders)
    BY <1>2 DEF OrderlyInv, FileAgrees, MatchesLog
  <2>2. race.started_at = LoadedStart
    BY <1>2, <2>1 DEF OrderlyInv, Timeline, StartsAgree, LoadedStart
  <2>3. race.status = StatusOf(riders)
    BY DEF OrderlyInv, Standings, Rebuilding, Quiet
  <2> QED BY <2>1, <2>2, <2>3
<1>4. PICK g : /\ IsReplay(g)
               /\ Reloaded = IF db.ended_at # None THEN End(g[db.log], db.ended_at) ELSE g[db.log]
  BY ReloadedIsReplay DEF OrderlyInv, Timeline
<1> PICK how : how = [riders |-> db.riders, until |-> db.ended_at, at |-> now]
  OBVIOUS
<1>5. how \in How /\ how.riders = riders /\ how.until = db.ended_at
  BY <1>1 DEF How
<1> PICK base : base = Loaded(db)
  OBVIOUS
<1>6. /\ RaceInv(base) /\ base.ended_at = None /\ base.status = StatusOf(db.riders)
  BY <1>1, LoadedInv, LoadedRun DEF Loaded, Start, NewRace
<1>7. \A part \in SUBSET db.log :
        g[part] = IF part = {} THEN base ELSE Fed(Latest(part), g[part \ {Latest(part)}], how)
  <2>1. \A row, r : Feed(row, r) = Fed(row, r, how)
    BY FeedIsFed
  <2>2. \A part \in SUBSET db.log :
          g[part] = IF part = {} THEN base ELSE Feed(Latest(part), g[part \ {Latest(part)}])
    BY <1>4 DEF IsReplay
  <2> QED BY <2>1, <2>2
<1>8. g[db.log] = Replayed(db.log, base, how)
  <2> PICK log : log = db.log
    OBVIOUS
  <2>1. IsLog(log) /\ log \in SUBSET log
    BY <1>1
  <2>2. \A some \in SUBSET log :
          g[some] = IF some = {} THEN base ELSE Fed(Latest(some), g[some \ {Latest(some)}], how)
    BY <1>7
  <2>3. g[log] = Replayed(log, base, how)
    BY ONLY <1>5, <1>6, <2>1, <2>2, ReplayOfPart
  <2> QED BY <2>3
<1> PICK s : s = Replayed(db.log, base, how)
  OBVIOUS
<1>9. s \in Race /\ s.ended_at = None /\ s.status = StatusOf(db.riders)
  BY <1>1, <1>5, <1>6, ReplayedRace
<1>10. Course(s) = Course(race)
  <2> PICK begun, why : begun = Begun(race.format, race.started_at) /\ why = Replaying(riders, db.ended_at)
    OBVIOUS
  <2>1. RaceInv(begun) /\ begun.ended_at = None /\ why \in How
    BY <1>1, BegunRace, ReplayingHow
  <2>2. why.riders = riders /\ why.until = db.ended_at
    BY DEF Replaying
  <2>3. Course(base) = Course(begun)
    BY <1>1, <1>3, LoadedCourse DEF LoadedStart
  <2>4. \A row \in db.log : Replayable(row, how.riders, how.until) <=> Replayable(row, why.riders, why.until)
    BY <1>5, <2>2
  <2>5. Course(Replayed(db.log, base, how)) = Course(Replayed(db.log, begun, why))
    BY <1>1, <1>5, <1>6, <2>1, <2>3, <2>4, ReplayedAlike
  <2>6. Course(race) = Course(Replayed(db.log, begun, why))
    BY <1>3 DEF Matches, OfLog
  <2> QED BY <2>5, <2>6
<1> PICK c : c = Reloaded
  OBVIOUS
<1>11. /\ c \in Race /\ Course(c) = Course(race) /\ c.ended_at = race.ended_at /\ c.status = race.status
  <2>1. CASE db.ended_at = None
    BY <1>1, <1>3, <1>4, <1>8, <1>9, <1>10, <2>1
  <2>2. CASE db.ended_at # None
    <3>1. c = End(s, db.ended_at)
      BY <1>4, <1>8, <2>2
    <3>2. c \in Race
      BY <1>1, <1>9, <3>1 DEF End, Race
    <3> QED BY <1>1, <1>3, <1>9, <1>10, <3>1, <3>2, EndCourse, StartEndRun, StartEndFrame
  <2> QED BY <2>1, <2>2
<1>12. /\ c.format = race.format /\ c.started_at = race.started_at
       /\ c.finishing_at = race.finishing_at /\ c.time_target = race.time_target
       /\ \A tag \in Tags : /\ c.participants[tag].passes = race.participants[tag].passes
                            /\ c.participants[tag].finish_time = race.participants[tag].finish_time
  BY <1>11, CourseFields
<1>13. Result(c) = Result(race)
  BY <1>1, <1>11, <1>12, ResultAlike
<1> QED BY <1>13

(* A step of an orderly backend keeps it orderly. *)
LEMMA NextOrderly ==
  ASSUME ~EpochReads, OrderlyInv, [Next]_vars, [OrderlyNext]_vars PROVE OrderlyInv'
<1>1. FileAgrees' /\ MatchesLog'
  BY NextMatches
<1>2. BackendInv' /\ Standings'
  BY NextBackend, NextStandings DEF OrderlyInv
<1>3. OnDisk' /\ Timeline'
  BY OrderlyIsMain, NextOnDisk, NextTimeline DEF OrderlyInv
<1> QED BY <1>1, <1>2, <1>3 DEF OrderlyInv

(* When nothing is late, an event is in the log or of this tick. *)
LEMMA OnTime ==
  ASSUME TypeOK, ~EpochReads, LateBy = 0, Ingest(Main) \/ ManualLap(Main),
         job'[Main].pc \in {"count", "log"}
  PROVE  Timely
<1>1. now \in Nat /\ \A ts \in Recent : ts >= now
  BY BoundsAssumption DEF Recent, TypeOK
<1>2. CASE Ingest(Main)
  <2>1. PICK tag \in Tags : \E ts \in Deliverable(tag) :
            Goto(Main, "count", {Event(tag, ts, FALSE)}, None)
    BY <1>2 DEF Ingest
  <2>2. PICK ts \in Deliverable(tag) : Goto(Main, "count", {Event(tag, ts, FALSE)}, None)
    BY <2>1
  <2> PICK event : event = Event(tag, ts, FALSE)
    OBVIOUS
  <2>3. event.tag = tag /\ event.ts = ts
    BY DEF Event
  <2>4. job'[Main].rows = {event}
    BY <2>2, GotoAt
  <2>5. ts \in Recent \/ \E row \in db.log : row.tag = tag /\ row.ts = ts
    BY DEF Deliverable
  <2>6. Stored(db, event) \/ event.ts >= now
    BY <1>1, <2>3, <2>5 DEF Stored
  <2> QED BY <2>4, <2>6 DEF Timely
<1>3. CASE ManualLap(Main)
  <2>1. job[Main].pc = "idle"
    BY <1>3, ThreadsAssumption DEF ManualLap, Accept
  <2>2. PICK tag \in Tags, ts \in Recent :
          Goto(Main, "log", {Event(tag, ts, TRUE)}, None) \/ UNCHANGED job
    BY <1>3 DEF ManualLap
  <2> PICK event : event = Event(tag, ts, TRUE)
    OBVIOUS
  <2>3. event.ts = ts
    BY DEF Event
  <2>4. job'[Main].rows = {event}
    BY <2>1, <2>2, GotoAt
  <2> QED BY <1>1, <2>3, <2>4 DEF Timely
<1> QED BY <1>2, <1>3

(* One request at a time, events in order, the riders registered before,   *)
(* the cooldown not zero, no request cut off: between requests the race in *)
(* memory is, but for events of the tick it ended in, the one a start of   *)
(* the process would load: passes, finishes, target, phase, statuses, start*)
(* and end (app.py _load_active_race_state, _replay_event and              *)
(* _rebuild_active_race_state_in_place against race.py add_lap).           *)
THEOREM RestartAlwaysChangesNothing ==
  ASSUME OneWorker, LateBy = 0, Requests \subseteq Kinds \ {"crash", "register"},
         \A format \in Formats : format.min_pass > 0
  PROVE  Spec => []RestartChangesNothing
<1>1. TypeOK /\ [Next]_vars => [OrderlyNext]_vars
  <2> SUFFICES ASSUME TypeOK, Next PROVE OrderlyNext
    BY DEF OrderlyNext
  <2>1. Tick \/ Restart \/ Request(Main) \/ Step(Main)
    BY DEF Next, OneWorker
  <2>2. Restart => Quiet
    BY DEF Restart
  <2>3. ~Register(Main)
    BY DEF Register, Accept
  <2>4. Ingest(Main) \/ ManualLap(Main) => (job'[Main].pc \in {"count", "log"} => Timely)
    BY OnTime DEF OneWorker
  <2> QED BY <2>1, <2>2, <2>3, <2>4 DEF Request, OrderlyNext, OrderlyRequest
<1>2. Init => OrderlyInv
  <2> SUFFICES ASSUME Init PROVE OrderlyInv
    OBVIOUS
  <2>1. db.format.min_pass > 0
    BY DEF Init
  <2> QED BY <2>1, InitBackend, InitStandings, InitOnDisk, InitTimeline, InitMatches DEF OrderlyInv
<1>3. OrderlyInv /\ [Next]_vars => OrderlyInv'
  BY <1>1, NextOrderly DEF OrderlyInv, BackendInv, OneWorker
<1>4. OrderlyInv => RestartChangesNothing
  BY NothingChanges
<1> QED BY <1>2, <1>3, <1>4, PTL DEF Spec

(* The orderly day of the run MCBackend makes, among the others. *)
OrderlyDay ==
  /\ day \in {"troubled", "orderly", "reported"}
  /\ day = "orderly" => OrderlyInv

LEMMA OrderlyDayStep ==
  ASSUME OneWorker, TypeOK', day = "orderly", [DayNext]_<<vars, export, day>>
  PROVE  [OrderlyNext]_vars
<1>1. /\ Threads = {Main} /\ Bounds[day].late = 0
      /\ ~May("crash") /\ ~May("register")
  BY DEF Bounds, May, OneWorker
<1>2. InTime => (job'[Main].pc \in {"count", "log"} => Timely)
  <2> SUFFICES ASSUME InTime, job'[Main].pc \in {"count", "log"}, NEW event \in job'[Main].rows,
                      ~Stored(db, event)
               PROVE  event.ts >= now
    BY DEF Timely
  <2>1. event.ts + 0 >= now
    BY <1>1, ThreadsAssumption DEF InTime
  <2>2. event.ts \in Nat
    BY ThreadsAssumption DEF TypeOK, Job, Row
  <2> QED BY <2>1, <2>2
<1>3. CASE UNCHANGED <<vars, export, day>>
  BY <1>3
<1>4. CASE DayNext
  <2>1. \/ Tick \/ (Quiet /\ Restart) \/ UNCHANGED vars
        \/ DayRequest(Main) \/ Step(Main)
    BY <1>1, <1>4 DEF DayNext, Export, ExportRace, ExportRiders, ExportRows, Download
  <2>2. DayRequest(Main) => OrderlyRequest
    BY <1>1, <1>2 DEF DayRequest, OrderlyRequest
  <2> QED BY <2>1, <2>2 DEF OrderlyNext
<1> QED BY <1>3, <1>4

(* On the day of everything in order, a start of the process would load    *)
(* between requests the race that is in memory (app.py _load_active_race_state, _replay_event).      *)
THEOREM RestartIsAlwaysInvisible ==
  ASSUME OneWorker PROVE DaySpec => []RestartIsInvisible
<1>1. DayInit => OrderlyDay
  <2> SUFFICES ASSUME DayInit PROVE OrderlyDay
    OBVIOUS
  <2>1. Init /\ day \in {"troubled", "orderly", "reported"} /\ db.format \in FormatsOf[day]
    BY DEF DayInit, ReadingsInit, Bounds
  <2>2. day = "orderly" => db.format.min_pass > 0
    BY <2>1 DEF FormatsOf, TimeTrial, TimeRace
  <2> QED BY <2>1, <2>2, InitBackend, InitStandings, InitOnDisk, InitTimeline, InitMatches
          DEF OrderlyDay, OrderlyInv
<1>2. OrderlyDay /\ [DayNext]_<<vars, export, day>> => OrderlyDay'
  <2> SUFFICES ASSUME OrderlyDay, [DayNext]_<<vars, export, day>> PROVE OrderlyDay'
    OBVIOUS
  <2>1. UNCHANGED day /\ [Next]_vars
    BY DayStep DEF OrderlyDay
  <2>2. CASE day = "orderly"
    <3>1. OrderlyInv /\ TypeOK'
      BY <2>1, <2>2, NextBackend DEF OrderlyDay, OrderlyInv, BackendInv
    <3>2. OrderlyInv'
      BY <2>1, <2>2, <3>1, OrderlyDayStep, NextOrderly DEF OneWorker
    <3> QED BY <2>1, <3>2 DEF OrderlyDay
  <2> QED BY <2>1, <2>2 DEF OrderlyDay
<1>3. OrderlyDay => RestartIsInvisible
  BY NothingChanges DEF OrderlyDay, RestartIsInvisible
<1> QED BY <1>1, <1>2, <1>3, PTL DEF DaySpec
==============================================================================
