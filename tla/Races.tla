---------------------------------- MODULE Races ----------------------------------
(***************************************************************************)
(* The races of a day in one backend process: the rows of the file, which  *)
(* of them is active, the legacy meta keys that override its row, the race *)
(* in memory.  The operator, who makes one request at a time, creates,     *)
(* deletes, switches, starts, ends and edits races while the reader's      *)
(* events come in on another thread; the process may die between any two   *)
(* writes to the file.                                                     *)
(*                                                                         *)
(* A pass is the number of a pass of one registered tag, in the order of   *)
(* the reader's clock.  What a race makes of its passes is in RaceState,   *)
(* what else the operator does to the active race in Backend.              *)
(***************************************************************************)
EXTENDS Integers, Sequences

CONSTANTS RaceIds,
          LapCounts,    \* values of total_laps
          None,
          MaxPasses,    \* bound: passes of the day
          MaxRequests,  \* bound: requests of the operator
          MaxFaults     \* bound: crashes and lost replies

ASSUME NoneAssumption == None \notin Nat /\ None \notin LapCounts /\ None \notin RaceIds
ASSUME BoundsAssumption ==
  MaxPasses \in Nat /\ MaxRequests \in Nat /\ MaxFaults \in Nat

VARIABLES
  db,           \* the SQLite file
  memory,       \* the module's race
  todo,         \* what is left of the operator's request
  ingest,       \* the pass that is stored but not counted yet, or None
  clock,        \* the passes so far
  acked,        \* the passes the reader-service will not deliver again
  erased,       \* (history) passes deleted with their race
  overlap,      \* (history) an event came in during a switch
  torn,         \* (history) a crash cut a request short
  requests, faults

vars == <<db, memory, todo, ingest, clock, acked, erased, overlap, torn, requests, faults>>
------------------------------------------------------------------------------
Passes == 1..MaxPasses
Time   == 0..MaxPasses \cup {None}      \* a time is the number of passes before it
Row    == [laps : LapCounts, started : Time, ended : Time]
NoRow  == [laps |-> None, started |-> None, ended |-> None]
NewRow(laps) == [NoRow EXCEPT !.laps = laps]

Database == [rows : [RaceIds -> Row \cup {NoRow}], active : RaceIds,
             meta_started : Time, meta_laps : LapCounts \cup {None},
             log : [RaceIds -> SUBSET Passes]]

Race == [id : RaceIds, laps : LapCounts, started : Time, ended : Time,
         counted : SUBSET Passes]

Exists(r) == db.rows[r] # NoRow

(* _load_active_race_state(): the meta keys override the row; the passes   *)
(* and the end are still to come.                                          *)
Loaded(d) ==
  LET row == d.rows[d.active]
  IN  [id      |-> d.active,
       laps    |-> IF d.meta_laps # None THEN d.meta_laps ELSE row.laps,
       started |-> IF d.meta_started # None THEN d.meta_started ELSE row.started,
       ended   |-> None,
       counted |-> {}]

(* The passes that a replay feeds into the race. *)
Replayable(d) ==
  LET ended == d.rows[d.active].ended
  IN  {p \in d.log[d.active] : ended # None => p <= ended}

(* Mutant: a race that has ended still counts. *)
CountAfterEnd(m, p) ==
  IF m.started # None /\ m.started < p /\ \A q \in m.counted : q < p
  THEN [m EXCEPT !.counted = @ \cup {p}]
  ELSE m

(* add_lap(): not before the start, not after the end, not out of order. *)
Count(m, p) ==
  IF m.ended = None /\ m.started # None /\ m.started < p /\ \A q \in m.counted : q < p
  THEN [m EXCEPT !.counted = @ \cup {p}]
  ELSE m

(* The race as a starting process builds it, before it serves anything: a  *)
(* replay is in order.                                                     *)
Booted(d) ==
  LET fresh == Loaded(d)
  IN  [fresh EXCEPT !.ended   = d.rows[d.active].ended,
                    !.counted = {p \in Replayable(d) :
                                   fresh.started # None /\ fresh.started < p}]

Init ==
  /\ \E r \in RaceIds, laps \in LapCounts :
       db = [rows |-> [other \in RaceIds |-> IF other = r THEN NewRow(laps) ELSE NoRow],
             active |-> r, meta_started |-> None, meta_laps |-> None,
             log |-> [other \in RaceIds |-> {}]]
  /\ memory = Booted(db)
  /\ todo = <<>> /\ ingest = None /\ clock = 0 /\ acked = {} /\ erased = {}
  /\ overlap = FALSE /\ torn = FALSE /\ requests = 0 /\ faults = 0
------------------------------------------------------------------------------
(* What a request does after its first step: writes to the file, each its  *)
(* own transaction, and the steps of a switch in memory.                   *)
SetActive(r)     == [do |-> "active", race |-> r]
SetStarted(time) == [do |-> "meta_started", time |-> time]
SetLaps(laps)    == [do |-> "meta_laps", laps |-> laps]
SetRow(r, row)   == [do |-> "row", race |-> r, row |-> row]
Load             == [do |-> "load"]
Fetch            == [do |-> "fetch"]
Replay(passes)   == [do |-> "replay", passes |-> passes]
ApplyEnd         == [do |-> "end"]

Request(steps) ==
  /\ todo = <<>> /\ requests < MaxRequests
  /\ requests' = requests + 1 /\ todo' = steps
  /\ UNCHANGED <<ingest, clock, acked, faults>>

(* POST /races *)
CreateRace(r, laps) ==
  /\ ~Exists(r)
  /\ db' = [db EXCEPT !.rows[r] = NewRow(laps)]
  /\ Request(<<>>) /\ UNCHANGED <<memory, erased>>

(* Mutant: any race may be deleted. *)
DeletableAlways(r) == Exists(r)

Deletable(r) == Exists(r) /\ r # db.active

(* DELETE /races/{id}, with its events *)
DeleteRace(r) ==
  /\ Deletable(r)
  /\ db' = [db EXCEPT !.rows[r] = NoRow, !.log[r] = {}]
  /\ erased' = erased \cup db.log[r]
  /\ Request(<<>>) /\ UNCHANGED memory

(* Mutant: the laps of the last race stay in the meta table. *)
SwitchKeepingLaps(r) == <<SetActive(r), SetStarted(None), Load, Fetch, ApplyEnd>>

(* _switch_active_race() *)
Switch(r) == <<SetActive(r), SetStarted(None), SetLaps(None), Load, Fetch, ApplyEnd>>

Activate(r) ==
  /\ Exists(r)
  /\ Request(Switch(r)) /\ UNCHANGED <<db, memory, erased>>

(* POST /race/start: a second start keeps the first start's time. *)
StartRace ==
  LET time == IF memory.started = None THEN clock ELSE memory.started
  IN  /\ memory' = [memory EXCEPT !.started = time]
      /\ Request(<<SetStarted(time),
                   SetRow(memory.id, [db.rows[memory.id] EXCEPT !.started = time])>>)
      /\ UNCHANGED <<db, erased>>

(* POST /race/end *)
EndRace ==
  LET time == IF memory.ended = None THEN clock ELSE memory.ended
  IN  /\ memory' = [memory EXCEPT !.ended = time]
      /\ Request(<<SetRow(memory.id, [db.rows[memory.id] EXCEPT !.ended = time])>>)
      /\ UNCHANGED <<db, erased>>

(* PATCH /race *)
PatchRace(laps) ==
  /\ memory' = [memory EXCEPT !.laps = laps]
  /\ Request(<<SetLaps(laps), SetRow(memory.id, [db.rows[memory.id] EXCEPT !.laps = laps])>>)
  /\ UNCHANGED <<db, erased>>

(* PATCH /config: only the meta key. *)
PatchConfig(laps) ==
  /\ db' = [db EXCEPT !.meta_laps = laps]
  /\ memory' = [memory EXCEPT !.laps = laps]
  /\ Request(<<>>) /\ UNCHANGED erased

(* Mutant: the meta key is not brought into line. *)
MirrorRowOnly(r, laps) ==
  /\ memory' = IF r = memory.id THEN [memory EXCEPT !.laps = laps] ELSE memory
  /\ Request(<<>>)

(* PATCH /races/{id}: the row; of the active race also the live one. *)
Mirror(r, laps) ==
  IF r = memory.id THEN memory' = [memory EXCEPT !.laps = laps] /\ Request(<<SetLaps(laps)>>)
                   ELSE UNCHANGED memory /\ Request(<<>>)

PatchRaceById(r, laps) ==
  /\ Exists(r)
  /\ db' = [db EXCEPT !.rows[r].laps = laps]
  /\ Mirror(r, laps)
  /\ UNCHANGED erased

(* The next step of the request.  A replay takes its passes one by one.    *)
Proceed ==
  /\ todo # <<>>
  /\ LET step == Head(todo) IN
     \/ /\ step.do = "active" /\ db' = [db EXCEPT !.active = step.race]
        /\ todo' = Tail(todo) /\ UNCHANGED memory
     \/ /\ step.do = "meta_started" /\ db' = [db EXCEPT !.meta_started = step.time]
        /\ todo' = Tail(todo) /\ UNCHANGED memory
     \/ /\ step.do = "meta_laps" /\ db' = [db EXCEPT !.meta_laps = step.laps]
        /\ todo' = Tail(todo) /\ UNCHANGED memory
     \/ /\ step.do = "row" /\ db' = [db EXCEPT !.rows[step.race] = step.row]
        /\ todo' = Tail(todo) /\ UNCHANGED memory
     \/ /\ step.do = "load" /\ memory' = Loaded(db)
        /\ todo' = Tail(todo) /\ UNCHANGED db
     \/ /\ step.do = "fetch" /\ todo' = <<Replay(Replayable(db))>> \o Tail(todo)
        /\ UNCHANGED <<db, memory>>
     \/ /\ step.do = "replay"
        /\ IF step.passes = {} THEN todo' = Tail(todo) /\ UNCHANGED memory
           ELSE \E p \in step.passes :
                  /\ \A q \in step.passes : p <= q
                  /\ memory' = Count(memory, p)
                  /\ todo' = <<Replay(step.passes \ {p})>> \o Tail(todo)
        /\ UNCHANGED db
     \/ /\ step.do = "end" /\ memory' = [memory EXCEPT !.ended = db.rows[memory.id].ended]
        /\ todo' = Tail(todo) /\ UNCHANGED db
  /\ UNCHANGED <<ingest, clock, acked, erased, requests, faults>>
------------------------------------------------------------------------------
(* The tag passes the antenna. *)
Pass ==
  /\ clock < MaxPasses /\ clock' = clock + 1
  /\ UNCHANGED <<db, memory, todo, ingest, acked, erased, requests, faults>>

(* append_event() stores under the race the file names. *)
Stored(p) == [db EXCEPT !.log[db.active] = @ \cup {p}]

(* POST /events/tag/batch: a pass is stored ... *)
Ingest ==
  /\ ingest = None
  /\ \E p \in 1..clock \ acked : db' = Stored(p) /\ ingest' = p
  /\ UNCHANGED <<memory, todo, clock, acked, erased, requests, faults>>

(* ... and counted by the race in memory; the reply may get lost.          *)
IngestCount ==
  /\ ingest # None
  /\ memory' = Count(memory, ingest) /\ ingest' = None
  /\ \/ acked' = acked \cup {ingest} /\ UNCHANGED faults
     \/ faults < MaxFaults /\ faults' = faults + 1 /\ UNCHANGED acked
  /\ UNCHANGED <<db, todo, clock, erased, requests>>

(* The process dies and is started again. *)
Crash ==
  /\ faults < MaxFaults /\ faults' = faults + 1
  /\ memory' = Booted(db) /\ todo' = <<>> /\ ingest' = None
  /\ UNCHANGED <<db, clock, acked, erased, requests>>

Operator ==
  \/ \E r \in RaceIds : DeleteRace(r) \/ Activate(r)
  \/ \E r \in RaceIds, laps \in LapCounts : CreateRace(r, laps) \/ PatchRaceById(r, laps)
  \/ \E laps \in LapCounts : PatchRace(laps) \/ PatchConfig(laps)
  \/ StartRace \/ EndRace

Switching(steps) == \E i \in DOMAIN steps : steps[i].do = "end"

History ==
  /\ overlap' = (overlap \/ (Switching(todo') /\ ingest' # None))
  /\ torn' = (torn \/ (Crash /\ todo # <<>>))

Next ==
  /\ Operator \/ Proceed \/ Pass \/ Ingest \/ IngestCount \/ Crash
  /\ History

Spec == Init /\ [][Next]_vars
------------------------------------------------------------------------------
Step ==
  {SetActive(r) : r \in RaceIds} \cup {SetStarted(time) : time \in Time}
    \cup {SetLaps(laps) : laps \in LapCounts \cup {None}} \cup {Load, Fetch, ApplyEnd}
    \cup {SetRow(r, row) : r \in RaceIds, row \in Row}
    \cup {Replay(passes) : passes \in SUBSET Passes}

TypeOK ==
  /\ db \in Database /\ memory \in Race /\ todo \in Seq(Step)
  /\ ingest \in Passes \cup {None} /\ clock \in 0..MaxPasses
  /\ acked \subseteq Passes /\ erased \subseteq Passes
  /\ overlap \in BOOLEAN /\ torn \in BOOLEAN
  /\ requests \in 0..MaxRequests /\ faults \in 0..MaxFaults

(* The race the file calls active exists, whatever is deleted and however  *)
(* a switch is cut short: the process can always start.                    *)
ActiveExists == Exists(db.active)

(* Between requests a restart changes nothing on the active race: not its  *)
(* laps, whichever of the three endpoints set them, not its start or end.  *)
(* Unless a crash has cut a request short.                                 *)
RestartKeepsRace ==
  todo = <<>> /\ ~torn =>
    LET booted == Booted(db)
    IN  /\ memory.id = booted.id /\ memory.laps = booted.laps
        /\ memory.started = booted.started /\ memory.ended = booted.ended

(* A lap on the standings survives a restart, through any number of        *)
(* switches; unless an event came in while the race was switched.          *)
RestartKeepsLaps ==
  todo = <<>> /\ ~torn /\ ~overlap => memory.counted \subseteq Booted(db).counted

(* A pass the backend has confirmed is in the log of some race, or was     *)
(* deleted with it.                                                        *)
PassesAreLogged ==
  \A p \in acked : p \in erased \/ \E r \in RaceIds : p \in db.log[r]

(* The race switched to comes up with its own laps and its own start,      *)
(* nothing of the race before it; unless a crash cut a switch short.       *)
SwitchIsClean ==
  [][ memory'.id # memory.id /\ ~torn' =>
        /\ memory'.laps = db.rows[memory'.id].laps
        /\ memory'.started = db.rows[memory'.id].started ]_vars
==============================================================================
