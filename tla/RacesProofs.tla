------------------------------ MODULE RacesProofs ------------------------------
(***************************************************************************)
(* Proofs about Races and Snapshots, for any number of races, passes,      *)
(* requests and crashes: types, the active race always exists, no          *)
(* confirmed pass is lost; a restart changes nothing on the race and takes *)
(* no lap, a switch leaves nothing of the race before; and a race never    *)
(* loses its last complete snapshot.                                       *)
(***************************************************************************)
EXTENDS Snapshots, FiniteSetTheorems, WellFoundedInduction, TLAPS

(* TypeOK without the two history flags. *)
Shape ==
  /\ db \in Database /\ memory \in Race /\ todo \in Seq(Step)
  /\ ingest \in Passes \cup {None} /\ clock \in 0..MaxPasses
  /\ acked \subseteq Passes /\ erased \subseteq Passes
  /\ requests \in 0..MaxRequests /\ faults \in 0..MaxFaults

(* The race in memory has a row: what a request writes back to it is one.  *)
MemoryExists == Exists(memory.id)

(* What a request has still to do names races that exist, and a switch of  *)
(* the file is followed by one in memory.                                  *)
Sound(steps, i) ==
  steps[i].do = "active" => /\ Exists(steps[i].race)
                            /\ \E j \in DOMAIN steps : i < j /\ steps[j].do = "load"

StepsNameRaces == \A i \in DOMAIN todo : Sound(todo, i)

(* Between requests, file and memory name the same race. *)
SameRace ==
  memory.id # db.active => \E i \in DOMAIN todo : todo[i].do = "load"

(* The pass that is stored and not counted is in a log, too. *)
Logged(p)    == p \in erased \/ \E r \in RaceIds : p \in db.log[r]
IngestIsKept == ingest # None => Logged(ingest)

Core == /\ Shape /\ ActiveExists /\ MemoryExists /\ StepsNameRaces /\ SameRace
        /\ PassesAreLogged /\ IngestIsKept

RacesInv == Core /\ overlap \in BOOLEAN /\ torn \in BOOLEAN

USE NoneAssumption, BoundsAssumption
------------------------------------------------------------------------------
(* A row is not the absence of one. *)
LEMMA RowExists == \A row \in Row : row # NoRow
BY DEF Row, NoRow

(* A race that exists has a row. *)
LEMMA HasRow == ASSUME Shape, NEW r \in RaceIds, Exists(r) PROVE db.rows[r] \in Row
BY DEF Shape, Database, Exists

(* What a step is made of is told by its kind. *)
LEMMA StepFields ==
  ASSUME NEW step \in Step
  PROVE  /\ step.do = "active" => step.race \in RaceIds
         /\ step.do = "meta_started" => step.time \in Time
         /\ step.do = "meta_laps" => step.laps \in LapCounts \cup {None}
         /\ step.do = "row" => step.race \in RaceIds /\ step.row \in Row
         /\ step.do = "replay" => step.passes \in SUBSET Passes
BY DEF Step, SetActive, SetStarted, SetLaps, SetRow, Load, Fetch, Replay, ApplyEnd

(* The steps that come after the first one. *)
LEMMA AfterFirst ==
  ASSUME NEW S, NEW q \in Seq(S), q # <<>>
  PROVE  /\ Tail(q) \in Seq(S) /\ Head(q) = q[1] /\ Head(q) \in S /\ 1 \in DOMAIN q
         /\ \A i \in DOMAIN Tail(q) : i + 1 \in DOMAIN q /\ Tail(q)[i] = q[i + 1]
         /\ \A i \in DOMAIN q \ {1} : i - 1 \in DOMAIN Tail(q) /\ Tail(q)[i - 1] = q[i]
OBVIOUS

(* A first step that is replaced by another one. *)
LEMMA FirstReplaced ==
  ASSUME NEW S, NEW q \in Seq(S), q # <<>>, NEW e \in S
  PROVE  /\ <<e>> \o Tail(q) \in Seq(S)
         /\ DOMAIN (<<e>> \o Tail(q)) = DOMAIN q
         /\ (<<e>> \o Tail(q))[1] = e
         /\ \A i \in DOMAIN q \ {1} : (<<e>> \o Tail(q))[i] = q[i]
OBVIOUS

(* A race loaded from a file whose active race exists is a race. *)
LEMMA LoadedRace ==
  ASSUME Shape, ActiveExists
  PROVE  Loaded(db) \in Race /\ Loaded(db).id = db.active
<1>1. db.active \in RaceIds /\ db.rows[db.active] \in Row
  BY HasRow DEF Shape, Database, ActiveExists
<1> QED BY <1>1 DEF Loaded, Race, Row, Shape, Database, Time

(* The passes of a replay are passes. *)
LEMMA ReplayablePasses ==
  ASSUME Shape, ActiveExists PROVE Replayable(db) \in SUBSET Passes
BY DEF Replayable, Shape, Database

(* ... and so is what a starting process makes of it. *)
LEMMA BootedRace ==
  ASSUME Shape, ActiveExists
  PROVE  Booted(db) \in Race /\ Booted(db).id = db.active
<1>1. db.active \in RaceIds /\ db.rows[db.active] \in Row
  BY HasRow DEF Shape, Database, ActiveExists
<1>2. db.rows[db.active].ended \in Time
  BY <1>1 DEF Row
<1> QED BY LoadedRace, ReplayablePasses, <1>2 DEF Booted, Race

(* Counting a pass keeps the race a race, and its identity. *)
LEMMA CountRace ==
  ASSUME NEW m \in Race, NEW p \in Passes
  PROVE  Count(m, p) \in Race /\ Count(m, p).id = m.id
BY DEF Count, Race

(* The process starts with one race, which is active. *)
LEMMA InitRaces == Init => RacesInv
<1> SUFFICES ASSUME Init PROVE RacesInv
  OBVIOUS
<1>1. PICK r \in RaceIds, laps \in LapCounts :
        db = [rows |-> [other \in RaceIds |-> IF other = r THEN NewRow(laps) ELSE NoRow],
              active |-> r, meta_started |-> None, meta_laps |-> None,
              log |-> [other \in RaceIds |-> {}]]
  BY DEF Init
<1>2. NewRow(laps) \in Row
  BY DEF NewRow, NoRow, Row, Time
<1>3. db \in Database /\ ActiveExists
  BY <1>1, <1>2, RowExists DEF Database, ActiveExists, Exists, Time
<1>4. memory \in Race /\ memory.id = db.active
  <2>1. db.rows[db.active] = NewRow(laps) /\ db.active = r /\ db.meta_laps = None
        /\ db.meta_started = None /\ db.log[r] = {}
    BY <1>1
  <2>2. Loaded(db) \in Race /\ Loaded(db).id = db.active
    BY <2>1, <1>2 DEF Loaded, Race, Row, Time
  <2>3. NewRow(laps).ended = None /\ Replayable(db) = {}
    BY <2>1 DEF NewRow, NoRow, Replayable
  <2> QED BY <2>1, <2>2, <2>3 DEF Init, Booted, Race, Time
<1>5. /\ todo = <<>> /\ ingest = None /\ clock = 0 /\ acked = {} /\ erased = {}
      /\ overlap = FALSE /\ torn = FALSE /\ requests = 0 /\ faults = 0
  BY ONLY Init DEF Init
<1>6. Shape
  BY <1>3, <1>4, <1>5 DEF Shape
<1>7. MemoryExists /\ StepsNameRaces /\ SameRace /\ PassesAreLogged /\ IngestIsKept
  BY <1>3, <1>4, <1>5 DEF MemoryExists, ActiveExists, StepsNameRaces, SameRace,
     PassesAreLogged, IngestIsKept
<1> QED BY <1>3, <1>5, <1>6, <1>7 DEF RacesInv, Core
------------------------------------------------------------------------------
(* What is kept stays kept while logs grow, and when a log is erased.      *)
LEMMA LoggedGrows ==
  ASSUME Shape, erased' = erased, \A r \in RaceIds : db.log[r] \subseteq db'.log[r]
  PROVE  \A p \in Passes : Logged(p) => Logged(p)'
BY DEF Logged

(* The request's first step leaves the active race, and the requests still *)
(* to make.                                                                *)
LEMMA RequestKeeps ==
  ASSUME Core, NEW steps \in Seq(Step), Request(steps),
         db' \in Database, memory' \in Race, erased' \subseteq Passes,
         memory'.id = memory.id, db'.active = db.active, Exists(db.active)',
         \A i \in DOMAIN steps : Sound(steps, i)',
         \A p \in Passes : Logged(p) => Logged(p)'
  PROVE  Core'
<1>1. /\ todo = <<>> /\ todo' = steps /\ ingest' = ingest /\ acked' = acked
      /\ clock' = clock /\ faults' = faults /\ requests' = requests + 1
      /\ requests < MaxRequests
  BY DEF Request
<1>2. Shape'
  BY <1>1 DEF Core, Shape
<1>3. memory.id = db.active
  BY <1>1 DEF Core, SameRace
<1>4. ActiveExists' /\ MemoryExists' /\ SameRace'
  BY <1>3 DEF ActiveExists, MemoryExists, SameRace
<1>5. StepsNameRaces'
  BY <1>1 DEF StepsNameRaces
<1>6. PassesAreLogged' /\ IngestIsKept'
  BY <1>1 DEF Core, Shape, PassesAreLogged, IngestIsKept, Logged
<1> QED BY <1>2, <1>4, <1>5, <1>6 DEF Core

(* Steps that do not switch are sound. *)
LEMMA NoSwitch ==
  ASSUME NEW steps, \A i \in DOMAIN steps : steps[i].do # "active"
  PROVE  \A i \in DOMAIN steps : Sound(steps, i)'
BY DEF Sound

LEMMA CreateKeeps ==
  ASSUME Core, NEW r \in RaceIds, NEW laps \in LapCounts, CreateRace(r, laps)
  PROVE  Core'
<1>1. NewRow(laps) \in Row /\ <<>> \in Seq(Step)
  BY DEF NewRow, NoRow, Row, Time
<1>2. db' = [db EXCEPT !.rows[r] = NewRow(laps)] /\ Request(<<>>) /\ memory' = memory
      /\ erased' = erased
  BY DEF CreateRace
<1>3. db' \in Database /\ db'.active = db.active /\ Exists(db.active)'
      /\ \A s \in RaceIds : db'.log[s] = db.log[s]
  BY <1>1, <1>2, RowExists DEF Core, Shape, Database, ActiveExists, Exists
<1>4. \A p \in Passes : Logged(p) => Logged(p)'
  BY <1>2, <1>3, LoggedGrows DEF Core
<1>5. \A i \in DOMAIN <<>> : Sound(<<>>, i)'
  OBVIOUS
<1> QED BY <1>1, <1>2, <1>3, <1>4, <1>5, RequestKeeps DEF Core, Shape

LEMMA DeleteKeeps ==
  ASSUME Core, NEW r \in RaceIds, DeleteRace(r)
  PROVE  Core'
<1>1. /\ r # db.active /\ Request(<<>>) /\ memory' = memory
      /\ db' = [db EXCEPT !.rows[r] = NoRow, !.log[r] = {}]
      /\ erased' = erased \cup db.log[r]
  BY DEF DeleteRace, Deletable
<1>2. db' \in Database /\ db'.active = db.active /\ Exists(db.active)'
      /\ erased' \subseteq Passes
  BY <1>1 DEF Core, Shape, Database, ActiveExists, Exists
<1>3. \A p \in Passes : Logged(p) => Logged(p)'
  <2>1. \A s \in RaceIds : s # r => db'.log[s] = db.log[s]
    BY <1>1 DEF Core, Shape, Database
  <2> QED BY <1>1, <2>1 DEF Logged
<1>4. <<>> \in Seq(Step)
  OBVIOUS
<1>5. \A i \in DOMAIN <<>> : Sound(<<>>, i)'
  OBVIOUS
<1> QED BY <1>1, <1>2, <1>3, <1>4, <1>5, RequestKeeps DEF Core, Shape

LEMMA ActivateKeeps ==
  ASSUME Core, NEW r \in RaceIds, Activate(r)
  PROVE  Core'
<1>1. Exists(r) /\ Request(Switch(r)) /\ db' = db /\ memory' = memory /\ erased' = erased
  BY DEF Activate
<1>2. Switch(r) \in Seq(Step)
  <2>1. SetActive(r) \in Step /\ SetStarted(None) \in Step /\ SetLaps(None) \in Step
        /\ Load \in Step /\ Fetch \in Step /\ ApplyEnd \in Step
    BY DEF Step, Time
  <2> QED BY <2>1 DEF Switch
<1>3. \A i \in DOMAIN Switch(r) : Sound(Switch(r), i)'
  <2>1. DOMAIN Switch(r) = 1..6 /\ Switch(r)[4] = Load /\ Switch(r)[1] = SetActive(r)
    BY DEF Switch
  <2>2. \A i \in 2..6 : Switch(r)[i].do # "active"
    BY DEF Switch, SetStarted, SetLaps, Load, Fetch, ApplyEnd
  <2>3. Switch(r)[4].do = "load" /\ Switch(r)[1].race = r
    BY <2>1 DEF Load, SetActive
  <2>4. Exists(r)'
    BY <1>1 DEF Exists
  <2>5. \A i \in 1..6 : i = 1 \/ i \in 2..6
    OBVIOUS
  <2>6. Sound(Switch(r), 1)'
    BY <2>1, <2>3, <2>4 DEF Sound
  <2> QED BY <2>1, <2>2, <2>5, <2>6 DEF Sound
<1>4. Exists(db.active)'
  BY <1>1 DEF Core, ActiveExists, Exists
<1>5. \A p \in Passes : Logged(p) => Logged(p)'
  BY <1>1, LoggedGrows DEF Core
<1> QED BY <1>1, <1>2, <1>3, <1>4, <1>5, RequestKeeps DEF Core, Shape

(* Requests that only change the race in memory, and then write the file.  *)
LEMMA EditKeeps ==
  ASSUME Core, NEW steps \in Seq(Step), Request(steps),
         UNCHANGED <<db, erased>>, memory' \in Race, memory'.id = memory.id,
         \A i \in DOMAIN steps : steps[i].do # "active"
  PROVE  Core'
<1>1. Exists(db.active)'
  BY DEF Core, ActiveExists, Exists
<1>2. \A p \in Passes : Logged(p) => Logged(p)'
  BY LoggedGrows DEF Core
<1> QED BY <1>1, <1>2, NoSwitch, RequestKeeps DEF Core, Shape

LEMMA StartKeeps == ASSUME Core, StartRace PROVE Core'
<1> DEFINE time  == IF memory.started = None THEN clock ELSE memory.started
           row   == [db.rows[memory.id] EXCEPT !.started = time]
           steps == <<SetStarted(time), SetRow(memory.id, row)>>
<1>1. time \in Time
  BY DEF Core, Shape, Race, Time
<1>2. memory.id \in RaceIds /\ db.rows[memory.id] \in Row
  BY HasRow DEF Core, Shape, Race, MemoryExists
<1>3. row \in Row
  BY <1>1, <1>2 DEF Row
<1>4. SetStarted(time) \in Step /\ SetRow(memory.id, row) \in Step
  BY <1>1, <1>2, <1>3 DEF Step
<1>5. \A i \in DOMAIN steps : steps[i].do # "active"
  BY DEF SetStarted, SetRow
<1>6. memory' = [memory EXCEPT !.started = time] /\ Request(steps) /\ UNCHANGED <<db, erased>>
  BY DEF StartRace
<1>7. memory' \in Race /\ memory'.id = memory.id
  BY <1>1, <1>6 DEF Core, Shape, Race
<1>8. steps \in Seq(Step)
  BY <1>4
<1> HIDE DEF steps
<1> QED BY <1>4, <1>5, <1>6, <1>7, <1>8, EditKeeps

LEMMA EndKeeps == ASSUME Core, EndRace PROVE Core'
<1> DEFINE time  == IF memory.ended = None THEN clock ELSE memory.ended
           row   == [db.rows[memory.id] EXCEPT !.ended = time]
           steps == <<SetRow(memory.id, row)>>
<1>1. time \in Time
  BY DEF Core, Shape, Race, Time
<1>2. memory.id \in RaceIds /\ db.rows[memory.id] \in Row
  BY HasRow DEF Core, Shape, Race, MemoryExists
<1>3. row \in Row
  BY <1>1, <1>2 DEF Row
<1>4. SetRow(memory.id, row) \in Step
  BY <1>2, <1>3 DEF Step
<1>5. \A i \in DOMAIN steps : steps[i].do # "active"
  BY DEF SetRow
<1>6. memory' = [memory EXCEPT !.ended = time] /\ Request(steps) /\ UNCHANGED <<db, erased>>
  BY DEF EndRace
<1>7. memory' \in Race /\ memory'.id = memory.id
  BY <1>1, <1>6 DEF Core, Shape, Race
<1>8. steps \in Seq(Step)
  BY <1>4
<1> HIDE DEF steps
<1> QED BY <1>4, <1>5, <1>6, <1>7, <1>8, EditKeeps

LEMMA PatchKeeps == ASSUME Core, NEW laps \in LapCounts, PatchRace(laps) PROVE Core'
<1> DEFINE row   == [db.rows[memory.id] EXCEPT !.laps = laps]
           steps == <<SetLaps(laps), SetRow(memory.id, row)>>
<1>1. memory.id \in RaceIds /\ db.rows[memory.id] \in Row
  BY HasRow DEF Core, Shape, Race, MemoryExists
<1>2. row \in Row
  BY <1>1 DEF Row
<1>3. SetLaps(laps) \in Step /\ SetRow(memory.id, row) \in Step
  BY <1>1, <1>2 DEF Step
<1>4. \A i \in DOMAIN steps : steps[i].do # "active"
  BY DEF SetLaps, SetRow
<1>5. memory' = [memory EXCEPT !.laps = laps] /\ Request(steps) /\ UNCHANGED <<db, erased>>
  BY DEF PatchRace
<1>6. memory' \in Race /\ memory'.id = memory.id
  BY <1>5 DEF Core, Shape, Race
<1>7. steps \in Seq(Step)
  BY <1>3
<1> HIDE DEF steps
<1> QED BY <1>3, <1>4, <1>5, <1>6, <1>7, EditKeeps

LEMMA PatchConfigKeeps == ASSUME Core, NEW laps \in LapCounts, PatchConfig(laps) PROVE Core'
<1>1. /\ db' = [db EXCEPT !.meta_laps = laps] /\ memory' = [memory EXCEPT !.laps = laps]
      /\ Request(<<>>) /\ erased' = erased
  BY DEF PatchConfig
<1>2. memory' \in Race /\ memory'.id = memory.id
  BY <1>1 DEF Core, Shape, Race
<1>3. db' \in Database /\ db'.active = db.active /\ db'.rows = db.rows /\ db'.log = db.log
  BY <1>1 DEF Core, Shape, Database
<1>4. Exists(db.active)' /\ \A p \in Passes : Logged(p) => Logged(p)'
  BY <1>1, <1>3, LoggedGrows DEF Core, ActiveExists, Exists
<1>5. <<>> \in Seq(Step)
  OBVIOUS
<1>6. \A i \in DOMAIN <<>> : Sound(<<>>, i)'
  OBVIOUS
<1> QED BY <1>1, <1>2, <1>3, <1>4, <1>5, <1>6, RequestKeeps DEF Core, Shape

LEMMA PatchByIdKeeps ==
  ASSUME Core, NEW r \in RaceIds, NEW laps \in LapCounts, PatchRaceById(r, laps)
  PROVE  Core'
<1>1. Exists(r) /\ db' = [db EXCEPT !.rows[r].laps = laps] /\ Mirror(r, laps)
      /\ erased' = erased
  BY DEF PatchRaceById
<1>2. [db.rows[r] EXCEPT !.laps = laps] \in Row
  BY <1>1, HasRow DEF Core, Row
<1>3. db' \in Database /\ db'.active = db.active /\ db'.log = db.log
      /\ Exists(db.active)'
  BY <1>1, <1>2, RowExists DEF Core, Shape, Database, ActiveExists, Exists
<1>4. \A p \in Passes : Logged(p) => Logged(p)'
  BY <1>1, <1>3, LoggedGrows DEF Core
<1>5. PICK steps \in {<<>>, <<SetLaps(laps)>>} : Request(steps)
  BY <1>1 DEF Mirror
<1>6. memory' \in Race /\ memory'.id = memory.id
  BY <1>1 DEF Mirror, Core, Shape, Race
<1>7. SetLaps(laps) \in Step /\ SetLaps(laps).do # "active"
  BY DEF Step, SetLaps
<1>8. steps \in Seq(Step) /\ \A i \in DOMAIN steps : steps[i].do # "active"
  <2>1. CASE steps = <<>>
    BY <2>1
  <2>2. CASE steps = <<SetLaps(laps)>>
    BY <1>7, <2>2
  <2> QED BY <1>5, <2>1, <2>2
<1> QED BY <1>1, <1>3, <1>4, <1>5, <1>6, <1>8, NoSwitch, RequestKeeps DEF Core, Shape

LEMMA OperatorKeeps == ASSUME Core, Operator PROVE Core'
BY CreateKeeps, DeleteKeeps, ActivateKeeps, StartKeeps, EndKeeps, PatchKeeps,
   PatchConfigKeeps, PatchByIdKeeps DEF Operator
------------------------------------------------------------------------------
(* A step done: what is left is sound, but for what the step changed.      *)
LEMMA StepDone ==
  ASSUME Core, todo # <<>>, todo' = Tail(todo), \A r \in RaceIds : Exists(r) => Exists(r)'
  PROVE  StepsNameRaces' /\ todo' \in Seq(Step)
<1>1. todo \in Seq(Step)
  BY DEF Core, Shape
<1>2. todo' \in Seq(Step)
  BY <1>1, AfterFirst
<1>3. ASSUME NEW i \in DOMAIN todo', todo'[i].do = "active"
      PROVE  Sound(todo, i)'
  <2>1. i \in Nat \ {0} /\ i + 1 \in DOMAIN todo /\ todo'[i] = todo[i + 1]
        /\ todo[i + 1] \in Step
    BY <1>1, <1>2, <1>3, AfterFirst
  <2>2. Exists(todo[i + 1].race) /\ todo[i + 1].race \in RaceIds
    BY <1>3, <2>1, StepFields DEF Core, StepsNameRaces, Sound
  <2>3. PICK j \in DOMAIN todo : i + 1 < j /\ todo[j].do = "load"
    BY <1>3, <2>1 DEF Core, StepsNameRaces, Sound
  <2>4. j - 1 \in DOMAIN todo' /\ i < j - 1 /\ todo'[j - 1].do = "load"
    BY <1>1, <2>1, <2>3, AfterFirst
  <2> QED BY <2>1, <2>2, <2>4 DEF Sound
<1> QED BY <1>2, <1>3 DEF StepsNameRaces, Sound

(* A step put in the place of the first one, which was not a load.         *)
LEMMA StepReplaced ==
  ASSUME Core, todo # <<>>, NEW e \in Step, todo' = <<e>> \o Tail(todo),
         e.do \notin {"active"}, todo[1].do # "load", db' = db
  PROVE  /\ StepsNameRaces' /\ todo' \in Seq(Step)
         /\ (\E i \in DOMAIN todo : todo[i].do = "load") => \E i \in DOMAIN todo' : todo'[i].do = "load"
<1>1. todo \in Seq(Step)
  BY DEF Core, Shape
<1>2. /\ todo' \in Seq(Step) /\ DOMAIN todo' = DOMAIN todo /\ todo'[1] = e
      /\ \A i \in DOMAIN todo \ {1} : todo'[i] = todo[i]
  BY <1>1, FirstReplaced
<1>3. ASSUME NEW i \in DOMAIN todo', todo'[i].do = "active"
      PROVE  Sound(todo, i)'
  <2>1. i # 1 /\ i \in DOMAIN todo /\ todo'[i] = todo[i] /\ i > 0
    BY <1>1, <1>2, <1>3
  <2>2. Exists(todo[i].race)
    BY <1>3, <2>1 DEF Core, StepsNameRaces, Sound
  <2>3. PICK j \in DOMAIN todo : i < j /\ todo[j].do = "load"
    BY <1>3, <2>1 DEF Core, StepsNameRaces, Sound
  <2> QED BY <1>2, <2>1, <2>2, <2>3 DEF Sound, Exists
<1> QED BY <1>2, <1>3 DEF StepsNameRaces, Sound

(* What Proceed leaves alone. *)
LEMMA FrameKeeps ==
  ASSUME Core, UNCHANGED <<ingest, clock, acked, erased, requests, faults>>,
         db' \in Database, memory' \in Race, todo' \in Seq(Step),
         db'.log = db.log, ActiveExists', MemoryExists', StepsNameRaces', SameRace'
  PROVE  Core'
<1>1. Shape'
  BY DEF Core, Shape
<1>2. PassesAreLogged' /\ IngestIsKept'
  BY DEF Core, PassesAreLogged, IngestIsKept, Logged
<1> QED BY <1>1, <1>2 DEF Core

LEMMA ProceedKeeps == ASSUME Core, Proceed PROVE Core'
<1> DEFINE step == Head(todo)
<1>1. todo # <<>> /\ UNCHANGED <<ingest, clock, acked, erased, requests, faults>>
  BY DEF Proceed
<1>2. /\ todo \in Seq(Step) /\ db \in Database /\ memory \in Race
      /\ Shape /\ ActiveExists /\ Exists(memory.id)
  BY DEF Core, Shape, MemoryExists
<1>3. step \in Step /\ step = todo[1] /\ 1 \in DOMAIN todo
  BY <1>1, <1>2, AfterFirst
<1>4. ASSUME todo' = Tail(todo), step.do # "load", memory'.id # db.active,
             memory'.id = memory.id
      PROVE  \E i \in DOMAIN todo' : todo'[i].do = "load"
  <2>1. PICK i \in DOMAIN todo : todo[i].do = "load"
    BY <1>4 DEF Core, SameRace
  <2>2. i # 1
    BY <1>3, <1>4, <2>1
  <2> QED BY <1>1, <1>2, <1>4, <2>1, <2>2, AfterFirst
<1>5. CASE step.do = "active" /\ db' = [db EXCEPT !.active = step.race]
           /\ todo' = Tail(todo) /\ UNCHANGED memory
  <2>1. step.race \in RaceIds /\ Exists(step.race)
    BY <1>3, <1>5, StepFields DEF Core, StepsNameRaces, Sound
  <2>2. db' \in Database /\ db'.rows = db.rows /\ db'.log = db.log /\ db'.active = step.race
    BY <1>2, <1>5, <2>1 DEF Database
  <2>3. ActiveExists' /\ MemoryExists' /\ \A r \in RaceIds : Exists(r) => Exists(r)'
    BY <1>2, <1>5, <2>1, <2>2 DEF ActiveExists, MemoryExists, Exists
  <2>4. PICK j \in DOMAIN todo : 1 < j /\ todo[j].do = "load"
    BY <1>3, <1>5 DEF Core, StepsNameRaces, Sound
  <2>5. j - 1 \in DOMAIN todo' /\ todo'[j - 1].do = "load"
    BY <1>1, <1>2, <1>5, <2>4, AfterFirst
  <2>6. SameRace'
    BY <2>5 DEF SameRace
  <2> QED BY <1>1, <1>2, <1>5, <2>2, <2>3, <2>6, StepDone, FrameKeeps
<1>6. CASE /\ \/ step.do = "meta_started" /\ db' = [db EXCEPT !.meta_started = step.time]
              \/ step.do = "meta_laps" /\ db' = [db EXCEPT !.meta_laps = step.laps]
           /\ todo' = Tail(todo) /\ UNCHANGED memory
  <2>1. db' \in Database /\ db'.rows = db.rows /\ db'.log = db.log /\ db'.active = db.active
    BY <1>2, <1>3, <1>6, StepFields DEF Database
  <2>2. ActiveExists' /\ MemoryExists' /\ \A r \in RaceIds : Exists(r) => Exists(r)'
    BY <1>2, <1>6, <2>1 DEF ActiveExists, MemoryExists, Exists
  <2>3. SameRace'
    BY <1>4, <1>6, <2>1 DEF SameRace
  <2> QED BY <1>1, <1>2, <1>6, <2>1, <2>2, <2>3, StepDone, FrameKeeps
<1>7. CASE step.do = "row" /\ db' = [db EXCEPT !.rows[step.race] = step.row]
           /\ todo' = Tail(todo) /\ UNCHANGED memory
  <2>1. step.race \in RaceIds /\ step.row \in Row
    BY <1>3, <1>7, StepFields
  <2>2. db' \in Database /\ db'.log = db.log /\ db'.active = db.active
        /\ db'.rows = [db.rows EXCEPT ![step.race] = step.row]
    BY <1>2, <1>7, <2>1 DEF Database
  <2>3. \A r \in RaceIds : Exists(r) => Exists(r)'
    BY <1>2, <2>1, <2>2, RowExists DEF Exists, Database
  <2>4. ActiveExists' /\ MemoryExists'
    BY <1>2, <1>7, <2>2, <2>3 DEF ActiveExists, MemoryExists, Exists, Database, Race
  <2>5. SameRace'
    BY <1>4, <1>7, <2>2 DEF SameRace
  <2> QED BY <1>1, <1>2, <1>7, <2>2, <2>3, <2>4, <2>5, StepDone, FrameKeeps
<1>8. CASE step.do = "load" /\ memory' = Loaded(db) /\ todo' = Tail(todo) /\ UNCHANGED db
  <2>1. memory' \in Race /\ memory'.id = db.active
    BY <1>2, <1>8, LoadedRace
  <2>2. ActiveExists' /\ MemoryExists' /\ SameRace' /\ \A r \in RaceIds : Exists(r) => Exists(r)'
    BY <1>2, <1>8, <2>1 DEF ActiveExists, MemoryExists, SameRace, Exists
  <2> QED BY <1>1, <1>2, <1>8, <2>1, <2>2, StepDone, FrameKeeps
<1>9. CASE step.do = "fetch" /\ todo' = <<Replay(Replayable(db))>> \o Tail(todo)
           /\ UNCHANGED <<db, memory>>
  <2>1. Replay(Replayable(db)) \in Step
    BY <1>2, ReplayablePasses DEF Step
  <2>2. Replay(Replayable(db)).do = "replay"
    BY DEF Replay
  <2>3. /\ StepsNameRaces' /\ todo' \in Seq(Step)
        /\ (\E i \in DOMAIN todo : todo[i].do = "load") => \E i \in DOMAIN todo' : todo'[i].do = "load"
    BY <1>1, <1>3, <1>9, <2>1, <2>2, StepReplaced
  <2>4. ActiveExists' /\ MemoryExists' /\ SameRace'
    BY <1>9, <2>3 DEF Core, ActiveExists, MemoryExists, SameRace, Exists
  <2> QED BY <1>1, <1>2, <1>9, <2>3, <2>4, FrameKeeps
<1>10. CASE step.do = "replay" /\ step.passes = {} /\ todo' = Tail(todo)
            /\ UNCHANGED <<db, memory>>
  <2>1. ActiveExists' /\ MemoryExists' /\ \A r \in RaceIds : Exists(r) => Exists(r)'
    BY <1>2, <1>10 DEF ActiveExists, MemoryExists, Exists
  <2>2. SameRace'
    BY <1>4, <1>10 DEF SameRace
  <2> QED BY <1>1, <1>2, <1>10, <2>1, <2>2, StepDone, FrameKeeps
<1>11. ASSUME step.do = "replay", UNCHANGED db,
              NEW p \in step.passes, memory' = Count(memory, p),
              todo' = <<Replay(step.passes \ {p})>> \o Tail(todo)
       PROVE  Core'
  <2>1. p \in Passes /\ step.passes \ {p} \in SUBSET Passes
    BY <1>3, <1>11, StepFields
  <2>2. Replay(step.passes \ {p}) \in Step /\ Replay(step.passes \ {p}).do = "replay"
    BY <2>1 DEF Step, Replay
  <2>3. /\ StepsNameRaces' /\ todo' \in Seq(Step)
        /\ (\E i \in DOMAIN todo : todo[i].do = "load") => \E i \in DOMAIN todo' : todo'[i].do = "load"
    BY <1>1, <1>3, <1>11, <2>2, StepReplaced
  <2>4. memory' \in Race /\ memory'.id = memory.id
    BY <1>2, <1>11, <2>1, CountRace
  <2>5. ActiveExists' /\ MemoryExists' /\ SameRace'
    BY <1>11, <2>3, <2>4 DEF Core, ActiveExists, MemoryExists, SameRace, Exists
  <2> QED BY <1>1, <1>2, <1>11, <2>3, <2>4, <2>5, FrameKeeps
<1>12. CASE step.do = "end" /\ memory' = [memory EXCEPT !.ended = db.rows[memory.id].ended]
            /\ todo' = Tail(todo) /\ UNCHANGED db
  <2>1. db.rows[memory.id].ended \in Time
    BY <1>2, HasRow DEF Race, Row
  <2>2. memory' \in Race /\ memory'.id = memory.id
    BY <1>2, <1>12, <2>1 DEF Race
  <2>3. ActiveExists' /\ MemoryExists' /\ \A r \in RaceIds : Exists(r) => Exists(r)'
    BY <1>2, <1>12, <2>2 DEF ActiveExists, MemoryExists, Exists
  <2>4. SameRace'
    BY <1>4, <1>12, <2>2 DEF SameRace
  <2> QED BY <1>1, <1>2, <1>12, <2>2, <2>3, <2>4, StepDone, FrameKeeps
<1> QED BY <1>5, <1>6, <1>7, <1>8, <1>9, <1>10, <1>11, <1>12 DEF Proceed
------------------------------------------------------------------------------
LEMMA PassKeeps == ASSUME Core, Pass PROVE Core'
<1>1. clock < MaxPasses /\ clock' = clock + 1
      /\ UNCHANGED <<db, memory, todo, ingest, acked, erased, requests, faults>>
  BY DEF Pass
<1>2. Shape'
  BY <1>1 DEF Core, Shape
<1>3. ActiveExists' /\ MemoryExists' /\ SameRace' /\ StepsNameRaces'
  BY <1>1 DEF Core, ActiveExists, MemoryExists, SameRace, StepsNameRaces, Sound, Exists
<1>4. PassesAreLogged' /\ IngestIsKept'
  BY <1>1 DEF Core, PassesAreLogged, IngestIsKept, Logged
<1> QED BY <1>2, <1>3, <1>4 DEF Core

LEMMA IngestKeeps == ASSUME Core, Ingest PROVE Core'
<1>1. PICK p \in 1..clock \ acked : db' = Stored(p) /\ ingest' = p
  BY DEF Ingest
<1>2. UNCHANGED <<memory, todo, clock, acked, erased, requests, faults>>
  BY DEF Ingest
<1>3. p \in Passes /\ db \in Database
  BY <1>1 DEF Core, Shape, Passes
<1>4. /\ db' \in Database /\ db'.active = db.active /\ db'.rows = db.rows
      /\ p \in db'.log[db.active] /\ \A r \in RaceIds : db.log[r] \subseteq db'.log[r]
  BY <1>1, <1>3 DEF Stored, Database
<1>5. Shape'
  BY <1>1, <1>2, <1>3, <1>4 DEF Core, Shape
<1>6. ActiveExists' /\ MemoryExists' /\ SameRace' /\ StepsNameRaces'
  BY <1>2, <1>4 DEF Core, ActiveExists, MemoryExists, SameRace, StepsNameRaces, Sound, Exists
<1>7. \A q \in Passes : Logged(q) => Logged(q)'
  BY <1>2, <1>4, LoggedGrows DEF Core
<1>8. PassesAreLogged'
  BY <1>2, <1>7 DEF Core, Shape, PassesAreLogged, Logged
<1>9. IngestIsKept'
  BY <1>1, <1>3, <1>4 DEF IngestIsKept, Logged, Database
<1> QED BY <1>5, <1>6, <1>8, <1>9 DEF Core

LEMMA IngestCountKeeps == ASSUME Core, IngestCount PROVE Core'
<1>1. /\ ingest # None /\ memory' = Count(memory, ingest) /\ ingest' = None
      /\ UNCHANGED <<db, todo, clock, erased, requests>>
      /\ acked' \in {acked, acked \cup {ingest}}
      /\ faults' = faults \/ (faults < MaxFaults /\ faults' = faults + 1)
  BY DEF IngestCount
<1>2. ingest \in Passes
  BY <1>1 DEF Core, Shape
<1>3. memory' \in Race /\ memory'.id = memory.id
  BY <1>1, <1>2, CountRace DEF Core, Shape
<1>4. faults' \in 0..MaxFaults
  BY <1>1 DEF Core, Shape
<1>5. Shape'
  BY <1>1, <1>2, <1>3, <1>4 DEF Core, Shape
<1>6. ActiveExists' /\ MemoryExists' /\ SameRace' /\ StepsNameRaces'
  BY <1>1, <1>3 DEF Core, ActiveExists, MemoryExists, SameRace, StepsNameRaces, Sound, Exists
<1>7. PassesAreLogged' /\ IngestIsKept'
  BY <1>1 DEF Core, PassesAreLogged, IngestIsKept, Logged
<1> QED BY <1>5, <1>6, <1>7 DEF Core

LEMMA CrashKeeps == ASSUME Core, Crash PROVE Core'
<1>1. /\ faults < MaxFaults /\ faults' = faults + 1 /\ memory' = Booted(db)
      /\ todo' = <<>> /\ ingest' = None /\ UNCHANGED <<db, clock, acked, erased, requests>>
  BY DEF Crash
<1>2. memory' \in Race /\ memory'.id = db.active
  BY <1>1, BootedRace DEF Core
<1>3. Shape'
  BY <1>1, <1>2 DEF Core, Shape
<1>4. ActiveExists' /\ MemoryExists' /\ SameRace' /\ StepsNameRaces'
  BY <1>1, <1>2 DEF Core, ActiveExists, MemoryExists, SameRace, StepsNameRaces, Exists
<1>5. PassesAreLogged' /\ IngestIsKept'
  BY <1>1 DEF Core, PassesAreLogged, IngestIsKept
<1> QED BY <1>3, <1>4, <1>5 DEF Core

LEMMA StepRaces == RacesInv /\ [Next]_vars => RacesInv'
<1> SUFFICES ASSUME RacesInv, [Next]_vars PROVE RacesInv'
  OBVIOUS
<1>1. CASE Next
  <2>1. Core'
    BY <1>1, OperatorKeeps, ProceedKeeps, PassKeeps, IngestKeeps, IngestCountKeeps,
       CrashKeeps DEF Next, RacesInv
  <2>2. overlap' \in BOOLEAN /\ torn' \in BOOLEAN
    BY <1>1 DEF Next, History
  <2> QED BY <2>1, <2>2 DEF RacesInv
<1>2. CASE UNCHANGED vars
  <2>1. Shape'
    BY <1>2 DEF vars, RacesInv, Core, Shape
  <2>2. ActiveExists' /\ MemoryExists' /\ SameRace' /\ StepsNameRaces'
    BY <1>2 DEF vars, RacesInv, Core, ActiveExists, MemoryExists, SameRace, StepsNameRaces,
       Sound, Exists
  <2>3. PassesAreLogged' /\ IngestIsKept' /\ overlap' \in BOOLEAN /\ torn' \in BOOLEAN
    BY <1>2 DEF vars, RacesInv, Core, PassesAreLogged, IngestIsKept, Logged
  <2> QED BY <2>1, <2>2, <2>3 DEF RacesInv, Core
<1> QED BY <1>1, <1>2

(* The inductive invariant: the file, the memory, the steps left of a      *)
(* request and the passes, as every step leaves them.                      *)
THEOREM RacesInvariant == Spec => []RacesInv
BY InitRaces, StepRaces, PTL DEF Spec

(* File, memory and the steps of a request keep their types. *)
THEOREM RacesTypeCorrect == Spec => []TypeOK
<1>1. RacesInv => TypeOK
  BY DEF RacesInv, Core, Shape, TypeOK
<1> QED BY RacesInvariant, <1>1, PTL

(* Whatever races are created, deleted and switched, and wherever a switch *)
(* is cut short, the race that the file calls active exists: the process   *)
(* can always start.                                                       *)
THEOREM ActiveAlwaysExists == Spec => []ActiveExists
<1>1. RacesInv => ActiveExists
  BY DEF RacesInv, Core
<1> QED BY RacesInvariant, <1>1, PTL

(* A pass that the backend has confirmed is in the log of a race for good, *)
(* unless that race is deleted.                                            *)
THEOREM PassesAlwaysLogged == Spec => []PassesAreLogged
<1>1. RacesInv => PassesAreLogged
  BY DEF RacesInv, Core
<1> QED BY RacesInvariant, <1>1, PTL
------------------------------------------------------------------------------
(***************************************************************************)
(* What a restart would make of the file, step by step of a request.  The  *)
(* memory agrees with the file once the request's writes are done; during  *)
(* a switch the file is cleared first and the memory follows it.           *)
(***************************************************************************)

(* The race that a row makes under these two meta keys. *)
Settled(active, row, started, laps) ==
  /\ memory.id = active
  /\ memory.laps = (IF laps # None THEN laps ELSE row.laps)
  /\ memory.started = (IF started # None THEN started ELSE row.started)
  /\ memory.ended = row.ended

(* A request that writes the file after the memory, by what is left of it. *)
Quiet == todo = <<>> /\ Settled(db.active, db.rows[db.active], db.meta_started, db.meta_laps)
LapsLeft(laps) ==
  /\ todo = <<SetLaps(laps)>>
  /\ Settled(db.active, db.rows[db.active], db.meta_started, laps)
RowLeft(row) ==
  /\ todo = <<SetRow(memory.id, row)>>
  /\ Settled(db.active, row, db.meta_started, db.meta_laps)
StartLeft(time, row) ==
  /\ todo = <<SetStarted(time), SetRow(memory.id, row)>>
  /\ Settled(db.active, row, time, db.meta_laps)
PatchLeft(laps, row) ==
  /\ todo = <<SetLaps(laps), SetRow(memory.id, row)>>
  /\ Settled(db.active, row, db.meta_started, laps)

Writing ==
  \/ Quiet
  \/ \E laps \in LapCounts : LapsLeft(laps)
  \/ \E row \in Row : RowLeft(row)
  \/ \E time \in Time, row \in Row : StartLeft(time, row)
  \/ \E laps \in LapCounts, row \in Row : PatchLeft(laps, row)

(* A switch, until the race is loaded ... *)
Clearing ==
  \/ \E r \in RaceIds : todo = Switch(r)
  \/ todo = <<SetStarted(None), SetLaps(None), Load, Fetch, ApplyEnd>>
  \/ todo = <<SetLaps(None), Load, Fetch, ApplyEnd>> /\ db.meta_started = None
  \/ todo = <<Load, Fetch, ApplyEnd>> /\ db.meta_started = None /\ db.meta_laps = None

(* ... and from there on: only the end of the race is still to come. *)
Replaying(passes) == todo = <<Replay(passes), ApplyEnd>>
Filling ==
  /\ \/ todo = <<Fetch, ApplyEnd>>
     \/ \E passes \in SUBSET Passes : Replaying(passes)
     \/ todo = <<ApplyEnd>>
  /\ db.meta_started = None /\ db.meta_laps = None
  /\ memory.id = db.active /\ memory.ended = None
  /\ memory.laps = db.rows[db.active].laps /\ memory.started = db.rows[db.active].started

Continuous == ~torn => Writing \/ Clearing \/ Filling

(* A pass between its two steps is in the log of the active race. *)
Between ==
  /\ ingest # None => ingest \in db.log[db.active]
  /\ Switching(todo) => ingest = None

(* Every lap is one that a restart would count. *)
AfterStart == \A p \in memory.counted : memory.started # None /\ memory.started < p
Standing ==
  /\ AfterStart /\ memory.counted \subseteq db.log[db.active]
  /\ memory.ended # None => \A p \in memory.counted : p <= memory.ended
Replayed ==
  /\ AfterStart /\ memory.counted \subseteq Replayable(db)
  /\ \A passes \in SUBSET Passes : Replaying(passes) => passes \subseteq Replayable(db)

LapsStand ==
  ~torn /\ ~overlap => Between /\ (Writing => Standing) /\ (Filling => Replayed)

(* No log is ahead of the clock. *)
LogsArePast == \A r \in RaceIds : db.log[r] \subseteq 1..clock

DayInv == RacesInv /\ Continuous /\ LapsStand /\ LogsArePast
------------------------------------------------------------------------------
(* Taking a short list apart. *)
LEMMA ShortLists ==
  ASSUME NEW a, NEW b, NEW c, NEW d, NEW e, NEW f
  PROVE  /\ Head(<<a>>) = a /\ Tail(<<a>>) = <<>> /\ <<a>> # <<>>
         /\ Head(<<a, b>>) = a /\ Tail(<<a, b>>) = <<b>> /\ <<a, b>> # <<>>
         /\ Head(<<a, b, c>>) = a /\ Tail(<<a, b, c>>) = <<b, c>> /\ <<a, b, c>> # <<>>
         /\ Head(<<a, b, c, d>>) = a /\ Tail(<<a, b, c, d>>) = <<b, c, d>>
         /\ <<a, b, c, d>> # <<>>
         /\ Head(<<a, b, c, d, e>>) = a /\ Tail(<<a, b, c, d, e>>) = <<b, c, d, e>>
         /\ <<a, b, c, d, e>> # <<>>
         /\ Head(<<a, b, c, d, e, f>>) = a /\ Tail(<<a, b, c, d, e, f>>) = <<b, c, d, e, f>>
         /\ <<a, b, c, d, e, f>> # <<>>
OBVIOUS

LEMMA FirstOfTwo ==
  ASSUME NEW S, NEW q \in Seq(S), Len(q) = 2, NEW e \in S
  PROVE  <<e>> \o Tail(q) = <<e, q[2]>>
<1>1. q # <<>> /\ q[2] \in S /\ DOMAIN q = 1..2
  <2>1. DOMAIN q = 1..2 /\ \A i \in 1..2 : q[i] \in S
    OBVIOUS
  <2>2. q # <<>>
    OBVIOUS
  <2> QED BY <2>1, <2>2
<1>2. /\ <<e>> \o Tail(q) \in Seq(S) /\ DOMAIN (<<e>> \o Tail(q)) = 1..2
      /\ (<<e>> \o Tail(q))[1] = e /\ (<<e>> \o Tail(q))[2] = q[2]
  <2>1. /\ <<e>> \o Tail(q) \in Seq(S)
        /\ DOMAIN (<<e>> \o Tail(q)) = DOMAIN q
        /\ (<<e>> \o Tail(q))[1] = e
        /\ \A i \in DOMAIN q \ {1} : (<<e>> \o Tail(q))[i] = q[i]
    BY <1>1, FirstReplaced
  <2>2. 2 \in DOMAIN q \ {1}
    BY <1>1
  <2> QED BY <1>1, <2>1, <2>2
<1>3. \A s, t \in Seq(S) : DOMAIN s = 1..2 /\ DOMAIN t = 1..2 /\ s[1] = t[1] /\ s[2] = t[2] => s = t
  OBVIOUS
<1>4. ASSUME NEW b \in S, NEW s \in Seq(S), DOMAIN s = 1..2, s[1] = e, s[2] = b
      PROVE  s = <<e, b>>
  <2>1. <<e, b>> \in Seq(S) /\ DOMAIN <<e, b>> = 1..2 /\ <<e, b>>[1] = e /\ <<e, b>>[2] = b
    OBVIOUS
  <2>2. PICK t \in Seq(S) : t = <<e, b>>
    BY <2>1
  <2>3. DOMAIN t = 1..2 /\ t[1] = e /\ t[2] = b
    BY <2>1, <2>2
  <2>4. s = t
    BY ONLY <1>3, <1>4, <2>2, <2>3
  <2> QED BY <2>2, <2>4
<1>5. PICK b \in S, s \in Seq(S) : b = q[2] /\ s = <<e>> \o Tail(q)
  BY <1>1, <1>2
<1>6. s = <<e, b>>
  BY <1>2, <1>4, <1>5
<1> QED BY <1>5, <1>6

(* The kinds of the steps. *)
LEMMA Kinds ==
  /\ \A r : SetActive(r).do = "active" /\ SetActive(r).race = r
  /\ \A time : SetStarted(time).do = "meta_started" /\ SetStarted(time).time = time
  /\ \A laps : SetLaps(laps).do = "meta_laps" /\ SetLaps(laps).laps = laps
  /\ \A r, row : /\ SetRow(r, row).do = "row" /\ SetRow(r, row).race = r
                 /\ SetRow(r, row).row = row
  /\ Load.do = "load" /\ Fetch.do = "fetch" /\ ApplyEnd.do = "end"
  /\ \A passes : Replay(passes).do = "replay" /\ Replay(passes).passes = passes
BY DEF SetActive, SetStarted, SetLaps, SetRow, Load, Fetch, Replay, ApplyEnd

(* The three parts of a day are told apart by the first step that is left. *)
FirstStep ==
  /\ Writing => todo = <<>> \/ Head(todo).do \in {"meta_laps", "row", "meta_started"}
  /\ Clearing => /\ todo # <<>>
                 /\ Head(todo).do \in {"active", "meta_started", "meta_laps", "load"}
  /\ Filling => todo # <<>> /\ Head(todo).do \in {"fetch", "replay", "end"}

LEMMA FirstSteps == FirstStep
<1>1. Writing => todo = <<>> \/ Head(todo).do \in {"meta_laps", "row", "meta_started"}
  BY ShortLists, Kinds DEF Writing, Quiet, LapsLeft, RowLeft, StartLeft, PatchLeft
<1>2. Clearing => todo # <<>>
                  /\ Head(todo).do \in {"active", "meta_started", "meta_laps", "load"}
  BY ShortLists, Kinds DEF Clearing, Switch
<1>3. Filling => todo # <<>> /\ Head(todo).do \in {"fetch", "replay", "end"}
  BY ShortLists, Kinds DEF Filling, Replaying
<1> QED BY <1>1, <1>2, <1>3 DEF FirstStep

LEMMA FirstStepsAfter == FirstStep'
BY FirstSteps, PTL

(* Only a switch ends with the end of the race. *)
SwitchEnds ==
  /\ Writing => ~Switching(todo)
  /\ Clearing \/ Filling => Switching(todo)

LEMMA SwitchOrNot == SwitchEnds
<1>1. Writing => ~Switching(todo)
  <2>1. ASSUME Writing, NEW i \in DOMAIN todo PROVE todo[i].do # "end"
    <3>1. CASE todo = <<>>
      BY <2>1, <3>1
    <3>2. CASE \E a : todo = <<a>> /\ a.do # "end"
      BY <2>1, <3>2
    <3>3. CASE \E a, b : todo = <<a, b>> /\ a.do # "end" /\ b.do # "end"
      BY <2>1, <3>3
    <3> QED BY <2>1, <3>1, <3>2, <3>3, Kinds
        DEF Writing, Quiet, LapsLeft, RowLeft, StartLeft, PatchLeft
  <2> QED BY <2>1 DEF Switching
<1>2. Clearing => Switching(todo)
  <2>1. ASSUME NEW n \in 3..6, n \in DOMAIN todo, todo[n] = ApplyEnd PROVE Switching(todo)
    BY <2>1, Kinds DEF Switching
  <2>2. ASSUME NEW r, todo = Switch(r) PROVE 6 \in DOMAIN todo /\ todo[6] = ApplyEnd
    BY <2>2 DEF Switch
  <2>3. ASSUME todo = <<SetStarted(None), SetLaps(None), Load, Fetch, ApplyEnd>>
        PROVE  5 \in DOMAIN todo /\ todo[5] = ApplyEnd
    BY <2>3
  <2>4. ASSUME todo = <<SetLaps(None), Load, Fetch, ApplyEnd>>
        PROVE  4 \in DOMAIN todo /\ todo[4] = ApplyEnd
    BY <2>4
  <2>5. ASSUME todo = <<Load, Fetch, ApplyEnd>>
        PROVE  3 \in DOMAIN todo /\ todo[3] = ApplyEnd
    BY <2>5
  <2> QED BY <2>1, <2>2, <2>3, <2>4, <2>5 DEF Clearing
<1>3. Filling => Switching(todo)
  <2>1. ASSUME NEW a, todo = <<a, ApplyEnd>> PROVE 2 \in DOMAIN todo /\ todo[2] = ApplyEnd
    BY <2>1
  <2>2. ASSUME todo = <<ApplyEnd>> PROVE 1 \in DOMAIN todo /\ todo[1] = ApplyEnd
    BY <2>2
  <2> QED BY <2>1, <2>2, Kinds DEF Filling, Replaying, Switching
<1> QED BY <1>1, <1>2, <1>3 DEF SwitchEnds

LEMMA SwitchOrNotAfter == SwitchEnds'
BY SwitchOrNot, PTL

(* Between requests nothing is left to write. *)
LEMMA NothingLeft == ASSUME Continuous, ~torn, todo = <<>> PROVE Quiet
<1>1. Writing
  BY FirstSteps DEF Continuous, FirstStep
<1> QED BY <1>1, ShortLists DEF Writing, LapsLeft, RowLeft, StartLeft, PatchLeft

(* What the flags say of a step that leaves them down. *)
LEMMA FlagsDown ==
  ASSUME History
  PROVE  /\ ~torn' => ~torn /\ ~(Crash /\ todo # <<>>)
         /\ ~overlap' => ~overlap /\ ~(Switching(todo') /\ ingest' # None)
BY Zenon DEF History
------------------------------------------------------------------------------
(* The steps of a request, each for itself. *)
LEMMA ProceedFrame ==
  ASSUME Proceed, Shape
  PROVE  /\ UNCHANGED <<ingest, clock, acked, erased, requests, faults>> /\ todo # <<>>
         /\ db'.log = db.log
BY DEF Proceed, Shape, Database

LEMMA DoActive ==
  ASSUME Proceed, NEW r, Head(todo) = SetActive(r)
  PROVE  db' = [db EXCEPT !.active = r] /\ todo' = Tail(todo) /\ memory' = memory
BY Kinds DEF Proceed

LEMMA DoStarted ==
  ASSUME Proceed, NEW time, Head(todo) = SetStarted(time)
  PROVE  db' = [db EXCEPT !.meta_started = time] /\ todo' = Tail(todo) /\ memory' = memory
BY Kinds DEF Proceed

LEMMA DoLaps ==
  ASSUME Proceed, NEW laps, Head(todo) = SetLaps(laps)
  PROVE  db' = [db EXCEPT !.meta_laps = laps] /\ todo' = Tail(todo) /\ memory' = memory
BY Kinds DEF Proceed

LEMMA DoRow ==
  ASSUME Proceed, NEW r, NEW row, Head(todo) = SetRow(r, row)
  PROVE  db' = [db EXCEPT !.rows[r] = row] /\ todo' = Tail(todo) /\ memory' = memory
BY Kinds DEF Proceed

LEMMA DoLoad ==
  ASSUME Proceed, Head(todo) = Load
  PROVE  memory' = Loaded(db) /\ todo' = Tail(todo) /\ db' = db
BY Kinds DEF Proceed

LEMMA DoFetch ==
  ASSUME Proceed, Head(todo) = Fetch
  PROVE  todo' = <<Replay(Replayable(db))>> \o Tail(todo) /\ db' = db /\ memory' = memory
BY Kinds DEF Proceed

LEMMA DoReplay ==
  ASSUME Proceed, NEW passes, Head(todo) = Replay(passes)
  PROVE  /\ db' = db
         /\ \/ passes = {} /\ todo' = Tail(todo) /\ memory' = memory
            \/ \E p \in passes : /\ memory' = Count(memory, p)
                                 /\ todo' = <<Replay(passes \ {p})>> \o Tail(todo)
<1>1. Head(todo).do = "replay" /\ Head(todo).passes = passes
  BY Kinds
<1>2. /\ db' = db
      /\ IF passes = {} THEN todo' = Tail(todo) /\ UNCHANGED memory
         ELSE \E p \in passes :
                /\ \A q \in passes : p <= q
                /\ memory' = Count(memory, p)
                /\ todo' = <<Replay(passes \ {p})>> \o Tail(todo)
  BY <1>1 DEF Proceed
<1> QED BY <1>2

LEMMA DoEnd ==
  ASSUME Proceed, Head(todo) = ApplyEnd
  PROVE  /\ memory' = [memory EXCEPT !.ended = db.rows[memory.id].ended]
         /\ todo' = Tail(todo) /\ db' = db
BY Kinds DEF Proceed
------------------------------------------------------------------------------
(* A request that writes ends with the file as the memory is. *)
LEMMA WritingGoesOn ==
  ASSUME Core, Writing, Proceed
  PROVE  Writing' /\ memory' = memory /\ db'.active = db.active
<1>1. todo # <<>> /\ db \in Database /\ memory \in Race /\ db.active \in RaceIds
  BY ProceedFrame DEF Core, Shape, Database
<1>2. ASSUME NEW laps \in LapCounts, LapsLeft(laps)
      PROVE  Quiet' /\ memory' = memory /\ db'.active = db.active
  <2>1. Head(todo) = SetLaps(laps) /\ Tail(todo) = <<>>
    BY <1>2, ShortLists DEF LapsLeft
  <2>2. db' = [db EXCEPT !.meta_laps = laps] /\ todo' = <<>> /\ memory' = memory
    BY <2>1, DoLaps
  <2>3. /\ db'.meta_laps = laps /\ db'.rows = db.rows /\ db'.active = db.active
        /\ db'.meta_started = db.meta_started
    BY <1>1, <2>2 DEF Database
  <2> QED BY <1>2, <2>2, <2>3 DEF LapsLeft, Quiet, Settled
<1>3. ASSUME NEW row \in Row, RowLeft(row)
      PROVE  Quiet' /\ memory' = memory /\ db'.active = db.active
  <2>1. Head(todo) = SetRow(memory.id, row) /\ Tail(todo) = <<>> /\ memory.id = db.active
    BY <1>3, ShortLists DEF RowLeft, Settled
  <2>2. db' = [db EXCEPT !.rows[memory.id] = row] /\ todo' = <<>> /\ memory' = memory
    BY <2>1, DoRow
  <2>3. /\ db'.meta_laps = db.meta_laps /\ db'.rows[db.active] = row /\ db'.active = db.active
        /\ db'.meta_started = db.meta_started
    BY <1>1, <2>1, <2>2 DEF Database
  <2> QED BY <1>3, <2>2, <2>3 DEF RowLeft, Quiet, Settled
<1>4. ASSUME NEW time \in Time, NEW row \in Row, StartLeft(time, row)
      PROVE  RowLeft(row)' /\ memory' = memory /\ db'.active = db.active
  <2>1. Head(todo) = SetStarted(time) /\ Tail(todo) = <<SetRow(memory.id, row)>>
    BY <1>4, ShortLists DEF StartLeft
  <2>2. /\ db' = [db EXCEPT !.meta_started = time] /\ memory' = memory
        /\ todo' = <<SetRow(memory.id, row)>>
    BY <2>1, DoStarted
  <2>3. db'.meta_laps = db.meta_laps /\ db'.active = db.active /\ db'.meta_started = time
    BY <1>1, <2>2 DEF Database
  <2> QED BY <1>4, <2>2, <2>3 DEF RowLeft, StartLeft, Settled, SetRow
<1>5. ASSUME NEW laps \in LapCounts, NEW row \in Row, PatchLeft(laps, row)
      PROVE  RowLeft(row)' /\ memory' = memory /\ db'.active = db.active
  <2>1. Head(todo) = SetLaps(laps) /\ Tail(todo) = <<SetRow(memory.id, row)>>
    BY <1>5, ShortLists DEF PatchLeft
  <2>2. /\ db' = [db EXCEPT !.meta_laps = laps] /\ memory' = memory
        /\ todo' = <<SetRow(memory.id, row)>>
    BY <2>1, DoLaps
  <2>3. /\ db'.meta_started = db.meta_started /\ db'.active = db.active
        /\ db'.meta_laps = laps
    BY <1>1, <2>2 DEF Database
  <2> QED BY <1>5, <2>2, <2>3 DEF RowLeft, PatchLeft, Settled, SetRow
<1> QED BY <1>1, <1>2, <1>3, <1>4, <1>5 DEF Writing, Quiet

(* A switch clears the file, then loads the race, with no laps yet. *)
LEMMA ClearingGoesOn ==
  ASSUME Core, Clearing, Proceed
  PROVE  \/ Clearing' /\ memory' = memory
         \/ /\ Filling' /\ memory' = Loaded(db) /\ memory'.counted = {} /\ db' = db
            /\ todo' = <<Fetch, ApplyEnd>>
            /\ db.meta_started = None /\ db.meta_laps = None
<1>1. /\ db \in Database /\ ActiveExists /\ Shape /\ db.active \in RaceIds
  BY DEF Core, Shape, Database
<1>2. ASSUME NEW r \in RaceIds, todo = Switch(r) PROVE Clearing' /\ memory' = memory
  <2>1. /\ Head(todo) = SetActive(r)
        /\ Tail(todo) = <<SetStarted(None), SetLaps(None), Load, Fetch, ApplyEnd>>
    BY <1>2, ShortLists DEF Switch
  <2> QED BY <2>1, DoActive DEF Clearing
<1>3. ASSUME todo = <<SetStarted(None), SetLaps(None), Load, Fetch, ApplyEnd>>
      PROVE  Clearing' /\ memory' = memory
  <2>1. /\ Head(todo) = SetStarted(None)
        /\ Tail(todo) = <<SetLaps(None), Load, Fetch, ApplyEnd>>
    BY <1>3, ShortLists
  <2>2. db' = [db EXCEPT !.meta_started = None] /\ memory' = memory
        /\ todo' = <<SetLaps(None), Load, Fetch, ApplyEnd>>
    BY <2>1, DoStarted
  <2>3. db'.meta_started = None
    BY <1>1, <2>2 DEF Database
  <2> QED BY <2>2, <2>3 DEF Clearing
<1>4. ASSUME todo = <<SetLaps(None), Load, Fetch, ApplyEnd>>, db.meta_started = None
      PROVE  Clearing' /\ memory' = memory
  <2>1. Head(todo) = SetLaps(None) /\ Tail(todo) = <<Load, Fetch, ApplyEnd>>
    BY <1>4, ShortLists
  <2>2. db' = [db EXCEPT !.meta_laps = None] /\ memory' = memory
        /\ todo' = <<Load, Fetch, ApplyEnd>>
    BY <2>1, DoLaps
  <2>3. db'.meta_started = None /\ db'.meta_laps = None
    BY <1>1, <1>4, <2>2 DEF Database
  <2> QED BY <2>2, <2>3 DEF Clearing
<1>5. ASSUME todo = <<Load, Fetch, ApplyEnd>>, db.meta_started = None, db.meta_laps = None
      PROVE  /\ Filling' /\ memory' = Loaded(db) /\ memory'.counted = {} /\ db' = db
             /\ todo' = <<Fetch, ApplyEnd>>
  <2>1. Head(todo) = Load /\ Tail(todo) = <<Fetch, ApplyEnd>>
    BY <1>5, ShortLists
  <2>2. memory' = Loaded(db) /\ db' = db /\ todo' = <<Fetch, ApplyEnd>>
    BY <2>1, DoLoad
  <2>3. /\ memory'.id = db.active /\ memory'.laps = db.rows[db.active].laps
        /\ memory'.started = db.rows[db.active].started /\ memory'.ended = None
        /\ memory'.counted = {}
    BY <1>5, <2>2 DEF Loaded
  <2> QED BY <1>5, <2>2, <2>3 DEF Filling
<1> QED BY <1>2, <1>3, <1>4, <1>5 DEF Clearing

(* ... and fills it: the end comes last. *)
LEMMA FillingGoesOn ==
  ASSUME Core, Filling, Proceed
  PROVE  Filling' \/ Quiet'
<1>1. /\ db \in Database /\ memory \in Race /\ Shape /\ ActiveExists /\ todo \in Seq(Step)
      /\ db.active \in RaceIds
  BY DEF Core, Shape, Database
<1>2. ApplyEnd \in Step
  BY DEF Step
<1>3. ASSUME todo = <<Fetch, ApplyEnd>> PROVE Filling'
  <2>1. Replay(Replayable(db)) \in Step /\ Replayable(db) \in SUBSET Passes
    BY <1>1, ReplayablePasses DEF Step
  <2>2. Head(todo) = Fetch /\ Len(todo) = 2 /\ todo[2] = ApplyEnd
    BY <1>3, ShortLists
  <2>3. todo' = <<Replay(Replayable(db)), ApplyEnd>> /\ db' = db /\ memory' = memory
    BY <1>1, <1>3, <2>1, <2>2, DoFetch, FirstOfTwo
  <2> QED BY <1>3, <2>1, <2>3 DEF Filling, Replaying
<1>4. ASSUME NEW passes \in SUBSET Passes, Replaying(passes) PROVE Filling'
  <2>1. Head(todo) = Replay(passes) /\ Tail(todo) = <<ApplyEnd>> /\ db' = db
    BY <1>4, ShortLists, DoReplay DEF Replaying
  <2>2. CASE todo' = Tail(todo) /\ memory' = memory
    BY <2>1, <2>2 DEF Filling
  <2>3. ASSUME NEW p \in passes, memory' = Count(memory, p),
               todo' = <<Replay(passes \ {p})>> \o Tail(todo)
        PROVE  Filling'
    <3>1. Replay(passes \ {p}) \in Step /\ passes \ {p} \in SUBSET Passes
      BY DEF Step
    <3>2. <<Replay(passes \ {p})>> \o Tail(todo) = <<Replay(passes \ {p}), ApplyEnd>>
      <4>1. Len(todo) = 2 /\ todo[2] = ApplyEnd
        BY <1>4 DEF Replaying
      <4> QED BY <1>1, <3>1, <4>1, FirstOfTwo
    <3>3. /\ memory'.id = memory.id /\ memory'.laps = memory.laps
          /\ memory'.started = memory.started /\ memory'.ended = memory.ended
      BY <1>1, <2>3 DEF Count, Race
    <3> QED BY <2>1, <2>3, <3>1, <3>2, <3>3 DEF Filling, Replaying
  <2> QED BY <2>1, <2>2, <2>3, DoReplay
<1>5. ASSUME todo = <<ApplyEnd>> PROVE Quiet'
  <2>1. Head(todo) = ApplyEnd /\ Tail(todo) = <<>>
    BY <1>5, ShortLists
  <2>2. /\ memory' = [memory EXCEPT !.ended = db.rows[memory.id].ended]
        /\ todo' = <<>> /\ db' = db
    BY <2>1, DoEnd
  <2>3. /\ memory'.id = memory.id /\ memory'.laps = memory.laps
        /\ memory'.started = memory.started /\ memory'.ended = db.rows[memory.id].ended
    BY <1>1, <2>2 DEF Race
  <2>4. /\ db.meta_started = None /\ db.meta_laps = None /\ memory.id = db.active
        /\ memory.laps = db.rows[db.active].laps /\ memory.started = db.rows[db.active].started
    BY DEF Filling
  <2>5. Settled(db.active, db.rows[db.active], db.meta_started, db.meta_laps)'
    BY <2>2, <2>3, <2>4 DEF Settled
  <2> QED BY <2>2, <2>5 DEF Quiet
<1> QED BY <1>3, <1>4, <1>5 DEF Filling
------------------------------------------------------------------------------
(* What the operator's requests do to the race, when they start.           *)

(* The laps of the race still stand after a request's first step. *)
Unharmed == Standing => Standing'

(* What stands, stands in a race that is the same but for its laps to go,  *)
(* and for a start or an end that it did not have.                         *)
LEMMA StandingHolds ==
  ASSUME Core, LogsArePast, db'.active = db.active, db'.log[db.active] = db.log[db.active],
         memory'.counted = memory.counted,
         memory.started # None => memory'.started = memory.started,
         memory'.ended \in {memory.ended, clock},
         memory.ended # None => memory'.ended = memory.ended
  PROVE  Unharmed
<1> SUFFICES ASSUME Standing PROVE Standing'
  BY DEF Unharmed
<1>1. db.log[db.active] \subseteq 1..clock /\ clock \in Nat
  BY DEF Core, Shape, Database, LogsArePast
<1>2. \A p \in memory.counted : p <= clock
  BY <1>1 DEF Standing
<1>3. AfterStart'
  BY DEF AfterStart, Standing
<1>4. memory'.ended # None => \A p \in memory.counted : p <= memory'.ended
  BY <1>2 DEF Standing
<1> QED BY <1>3, <1>4 DEF Standing

LEMMA CreateGoesOn ==
  ASSUME Core, Quiet, LogsArePast, NEW r \in RaceIds, NEW laps \in LapCounts, CreateRace(r, laps)
  PROVE  Writing' /\ Unharmed /\ db'.active = db.active /\ db'.log[db.active] = db.log[db.active]
<1>1. /\ db \in Database /\ db.active \in RaceIds /\ Exists(db.active)
  BY DEF Core, Shape, Database, ActiveExists
<1>2. /\ ~Exists(r) /\ db' = [db EXCEPT !.rows[r] = NewRow(laps)] /\ memory' = memory
      /\ todo' = <<>>
  BY DEF CreateRace, Request
<1>3. /\ db'.active = db.active /\ db'.log = db.log /\ db'.meta_started = db.meta_started
      /\ db'.meta_laps = db.meta_laps /\ db'.rows[db.active] = db.rows[db.active]
  BY <1>1, <1>2 DEF Database
<1>4. Quiet'
  BY <1>2, <1>3 DEF Quiet, Settled
<1>5. Unharmed
  BY <1>2, <1>3, StandingHolds
<1> QED BY <1>3, <1>4, <1>5 DEF Writing

LEMMA DeleteGoesOn ==
  ASSUME Core, Quiet, LogsArePast, NEW r \in RaceIds, DeleteRace(r)
  PROVE  Writing' /\ Unharmed /\ db'.active = db.active /\ db'.log[db.active] = db.log[db.active]
<1>1. db \in Database /\ db.active \in RaceIds
  BY DEF Core, Shape, Database
<1>2. /\ r # db.active /\ db' = [db EXCEPT !.rows[r] = NoRow, !.log[r] = {}]
      /\ memory' = memory /\ todo' = <<>>
  BY DEF DeleteRace, Deletable, Request
<1>3. /\ db'.active = db.active /\ db'.log[db.active] = db.log[db.active]
      /\ db'.meta_started = db.meta_started
      /\ db'.meta_laps = db.meta_laps /\ db'.rows[db.active] = db.rows[db.active]
  BY <1>1, <1>2 DEF Database
<1>4. Quiet'
  BY <1>2, <1>3 DEF Quiet, Settled
<1>5. Unharmed
  BY <1>2, <1>3, StandingHolds
<1> QED BY <1>3, <1>4, <1>5 DEF Writing

LEMMA ActivateGoesOn ==
  ASSUME NEW r \in RaceIds, Activate(r)
  PROVE  Clearing'
BY DEF Activate, Request, Clearing

(* The row that a request writes is the row of the active race. *)
LEMMA OwnRow ==
  ASSUME Core, Quiet
  PROVE  /\ memory.id = db.active /\ db.active \in RaceIds /\ db.rows[db.active] \in Row
         /\ memory \in Race /\ db \in Database /\ clock \in Time /\ clock # None
<1>1. db.active \in RaceIds /\ db.rows[db.active] \in Row
  BY HasRow DEF Core, Shape, Database, ActiveExists
<1> QED BY <1>1 DEF Core, Shape, Quiet, Settled, Time

LEMMA StartGoesOn ==
  ASSUME Core, Quiet, LogsArePast, StartRace
  PROVE  Writing' /\ Unharmed /\ db'.active = db.active /\ db'.log[db.active] = db.log[db.active]
<1>1. PICK time \in Time : time = (IF memory.started = None THEN clock ELSE memory.started)
  BY OwnRow DEF Race
<1>2. PICK row : row = [db.rows[memory.id] EXCEPT !.started = time]
  OBVIOUS
<1>3. /\ memory' = [memory EXCEPT !.started = time] /\ db' = db
      /\ todo' = <<SetStarted(time), SetRow(memory.id, row)>>
  BY <1>1, <1>2 DEF StartRace, Request
<1>4. /\ row \in Row /\ row.laps = db.rows[db.active].laps /\ row.started = time
      /\ row.ended = db.rows[db.active].ended /\ time # None
  BY <1>1, <1>2, OwnRow DEF Row
<1>5. /\ memory'.id = memory.id /\ memory'.laps = memory.laps /\ memory'.started = time
      /\ memory'.ended = memory.ended /\ memory'.counted = memory.counted
  BY <1>3, OwnRow DEF Race
<1>6. Unharmed
  BY <1>1, <1>3, <1>5, StandingHolds
<1>7. Settled(db.active, row, time, db.meta_laps)'
  BY <1>3, <1>4, <1>5 DEF Quiet, Settled
<1>8. StartLeft(time, row)'
  BY <1>3, <1>5, <1>7 DEF StartLeft
<1> QED BY <1>3, <1>4, <1>6, <1>8 DEF Writing

LEMMA EndGoesOn ==
  ASSUME Core, Quiet, LogsArePast, EndRace
  PROVE  Writing' /\ Unharmed /\ db'.active = db.active /\ db'.log[db.active] = db.log[db.active]
<1>1. PICK time \in Time : time = (IF memory.ended = None THEN clock ELSE memory.ended)
  BY OwnRow DEF Race
<1>2. PICK row : row = [db.rows[memory.id] EXCEPT !.ended = time]
  OBVIOUS
<1>3. /\ memory' = [memory EXCEPT !.ended = time] /\ db' = db
      /\ todo' = <<SetRow(memory.id, row)>>
  BY <1>1, <1>2 DEF EndRace, Request
<1>4. /\ row \in Row /\ row.laps = db.rows[db.active].laps /\ row.ended = time
      /\ row.started = db.rows[db.active].started
  BY <1>1, <1>2, OwnRow DEF Row
<1>5. /\ memory'.id = memory.id /\ memory'.laps = memory.laps /\ memory'.ended = time
      /\ memory'.started = memory.started /\ memory'.counted = memory.counted
  BY <1>3, OwnRow DEF Race
<1>6. Unharmed
  BY <1>1, <1>3, <1>5, StandingHolds
<1>7. Settled(db.active, row, db.meta_started, db.meta_laps)'
  BY <1>3, <1>4, <1>5 DEF Quiet, Settled
<1>8. RowLeft(row)'
  BY <1>3, <1>5, <1>7 DEF RowLeft
<1> QED BY <1>3, <1>4, <1>6, <1>8 DEF Writing

LEMMA PatchGoesOn ==
  ASSUME Core, Quiet, LogsArePast, NEW laps \in LapCounts, PatchRace(laps)
  PROVE  Writing' /\ Unharmed /\ db'.active = db.active /\ db'.log[db.active] = db.log[db.active]
<1>1. PICK row : row = [db.rows[memory.id] EXCEPT !.laps = laps]
  OBVIOUS
<1>2. /\ memory' = [memory EXCEPT !.laps = laps] /\ db' = db
      /\ todo' = <<SetLaps(laps), SetRow(memory.id, row)>>
  BY <1>1 DEF PatchRace, Request
<1>3. /\ row \in Row /\ row.laps = laps /\ row.ended = db.rows[db.active].ended
      /\ row.started = db.rows[db.active].started /\ laps # None
  BY <1>1, OwnRow DEF Row
<1>4. /\ memory'.id = memory.id /\ memory'.laps = laps /\ memory'.ended = memory.ended
      /\ memory'.started = memory.started /\ memory'.counted = memory.counted
  BY <1>2, OwnRow DEF Race
<1>5. Unharmed
  BY <1>2, <1>4, StandingHolds
<1>6. Settled(db.active, row, db.meta_started, laps)'
  BY <1>2, <1>3, <1>4 DEF Quiet, Settled
<1>7. PatchLeft(laps, row)'
  BY <1>2, <1>4, <1>6 DEF PatchLeft
<1> QED BY <1>2, <1>3, <1>5, <1>7 DEF Writing

LEMMA PatchConfigGoesOn ==
  ASSUME Core, Quiet, LogsArePast, NEW laps \in LapCounts, PatchConfig(laps)
  PROVE  Writing' /\ Unharmed /\ db'.active = db.active /\ db'.log[db.active] = db.log[db.active]
<1>1. /\ memory' = [memory EXCEPT !.laps = laps] /\ db' = [db EXCEPT !.meta_laps = laps]
      /\ todo' = <<>>
  BY DEF PatchConfig, Request
<1>2. /\ db'.active = db.active /\ db'.log = db.log /\ db'.meta_started = db.meta_started
      /\ db'.meta_laps = laps /\ db'.rows = db.rows /\ laps # None
  BY <1>1, OwnRow DEF Database
<1>3. /\ memory'.id = memory.id /\ memory'.laps = laps /\ memory'.ended = memory.ended
      /\ memory'.started = memory.started /\ memory'.counted = memory.counted
  BY <1>1, OwnRow DEF Race
<1>4. Unharmed
  BY <1>2, <1>3, StandingHolds
<1>5. Quiet'
  BY <1>1, <1>2, <1>3 DEF Quiet, Settled
<1> QED BY <1>2, <1>4, <1>5 DEF Writing

LEMMA PatchByIdGoesOn ==
  ASSUME Core, Quiet, LogsArePast, NEW r \in RaceIds, NEW laps \in LapCounts,
         PatchRaceById(r, laps)
  PROVE  Writing' /\ Unharmed /\ db'.active = db.active /\ db'.log[db.active] = db.log[db.active]
<1>1. db' = [db EXCEPT !.rows[r].laps = laps] /\ Mirror(r, laps) /\ Exists(r)
  BY DEF PatchRaceById
<1>2. db.rows[r] \in Row /\ laps # None
  BY <1>1, HasRow DEF Core
<1>3. /\ db'.active = db.active /\ db'.log = db.log /\ db'.meta_started = db.meta_started
      /\ db'.meta_laps = db.meta_laps
      /\ db'.rows = [db.rows EXCEPT ![r] = [db.rows[r] EXCEPT !.laps = laps]]
  BY <1>1, OwnRow DEF Database
<1>4. CASE r = memory.id
  <2>1. memory' = [memory EXCEPT !.laps = laps] /\ todo' = <<SetLaps(laps)>>
    BY <1>1, <1>4 DEF Mirror, Request
  <2>2. /\ memory'.id = memory.id /\ memory'.laps = laps /\ memory'.ended = memory.ended
        /\ memory'.started = memory.started /\ memory'.counted = memory.counted
    BY <2>1, OwnRow DEF Race
  <2>3. db'.rows[db.active] = [db.rows[db.active] EXCEPT !.laps = laps]
    BY <1>3, <1>4, OwnRow DEF Database
  <2>4. /\ db'.rows[db.active].started = db.rows[db.active].started
        /\ db'.rows[db.active].ended = db.rows[db.active].ended
    BY <2>3, OwnRow DEF Row
  <2>5. Settled(db.active, db.rows[db.active], db.meta_started, laps)'
    BY <1>2, <1>3, <2>2, <2>4 DEF Quiet, Settled
  <2>6. LapsLeft(laps)'
    BY <2>1, <2>5 DEF LapsLeft
  <2>7. Unharmed
    BY <1>3, <2>2, StandingHolds
  <2> QED BY <1>3, <2>6, <2>7 DEF Writing
<1>5. CASE r # memory.id
  <2>1. memory' = memory /\ todo' = <<>>
    BY <1>1, <1>5 DEF Mirror, Request
  <2>2. db'.rows[db.active] = db.rows[db.active]
    BY <1>3, <1>5, OwnRow DEF Database
  <2>3. Quiet'
    BY <1>3, <2>1, <2>2 DEF Quiet, Settled
  <2>4. Unharmed
    BY <1>3, <2>1, StandingHolds
  <2> QED BY <1>3, <2>3, <2>4 DEF Writing
<1> QED BY <1>4, <1>5
------------------------------------------------------------------------------
(* The operator's requests together: each starts when nothing is left to   *)
(* write, and leaves its writes or a switch to be done.                    *)
LEMMA OperatorGoesOn ==
  ASSUME Core, Quiet, LogsArePast, Operator
  PROVE  \/ Clearing' /\ db' = db /\ ingest' = ingest
         \/ /\ Writing' /\ Unharmed /\ ingest' = ingest
            /\ db'.active = db.active /\ db'.log[db.active] = db.log[db.active]
<1>1. ingest' = ingest
  BY DEF Operator, DeleteRace, Activate, CreateRace, PatchRaceById, Mirror, PatchRace,
     PatchConfig, StartRace, EndRace, Request
<1>2. ASSUME NEW r \in RaceIds, Activate(r) PROVE Clearing' /\ db' = db
  BY <1>2, ActivateGoesOn DEF Activate
<1>3. ASSUME NEW r \in RaceIds, DeleteRace(r)
      PROVE  Writing' /\ Unharmed /\ db'.active = db.active
             /\ db'.log[db.active] = db.log[db.active]
  BY <1>3, DeleteGoesOn
<1>4. ASSUME NEW r \in RaceIds, NEW laps \in LapCounts, CreateRace(r, laps) \/ PatchRaceById(r, laps)
      PROVE  Writing' /\ Unharmed /\ db'.active = db.active
             /\ db'.log[db.active] = db.log[db.active]
  BY <1>4, CreateGoesOn, PatchByIdGoesOn
<1>5. ASSUME NEW laps \in LapCounts, PatchRace(laps) \/ PatchConfig(laps)
      PROVE  Writing' /\ Unharmed /\ db'.active = db.active
             /\ db'.log[db.active] = db.log[db.active]
  BY <1>5, PatchGoesOn, PatchConfigGoesOn
<1>6. ASSUME StartRace \/ EndRace
      PROVE  Writing' /\ Unharmed /\ db'.active = db.active
             /\ db'.log[db.active] = db.log[db.active]
  BY <1>6, StartGoesOn, EndGoesOn
<1> QED BY <1>1, <1>2, <1>3, <1>4, <1>5, <1>6 DEF Operator

(* A request is the operator's only one. *)
LEMMA OperatorWaits == Operator => todo = <<>>
BY DEF Operator, DeleteRace, Activate, CreateRace, PatchRaceById, Mirror, PatchRace,
   PatchConfig, StartRace, EndRace, Request

(* Steps of the reader's events do not touch what the parts of a day are   *)
(* made of.                                                                *)
LEMMA SameDay ==
  ASSUME todo' = todo, db'.active = db.active, db'.rows = db.rows,
         db'.meta_started = db.meta_started, db'.meta_laps = db.meta_laps,
         memory'.id = memory.id, memory'.laps = memory.laps,
         memory'.started = memory.started, memory'.ended = memory.ended
  PROVE  (Writing => Writing') /\ (Clearing => Clearing') /\ (Filling => Filling')
<1>1. \A active, row, started, laps :
        Settled(active, row, started, laps) => Settled(active, row, started, laps)'
  BY DEF Settled
<1>2. Quiet => Quiet'
  BY DEF Quiet, Settled
<1>3. \A laps : LapsLeft(laps) => LapsLeft(laps)'
  BY DEF LapsLeft, Settled
<1>4. \A row : RowLeft(row) => RowLeft(row)'
  BY DEF RowLeft, Settled, SetRow
<1>5. \A time, row : StartLeft(time, row) => StartLeft(time, row)'
  BY DEF StartLeft, Settled, SetRow
<1>6. \A laps, row : PatchLeft(laps, row) => PatchLeft(laps, row)'
  BY DEF PatchLeft, Settled, SetRow
<1>7. Writing => Writing'
  BY <1>2, <1>3, <1>4, <1>5, <1>6 DEF Writing
<1>8. Clearing => Clearing'
  BY DEF Clearing
<1>9. Filling => Filling'
  BY DEF Filling, Replaying
<1> QED BY <1>7, <1>8, <1>9

(* What a process starts with agrees with its file, laps and all. *)
LEMMA BootedAgrees ==
  ASSUME Shape, ActiveExists, memory' = Booted(db), todo' = <<>>, db' = db
  PROVE  Quiet' /\ Standing'
<1>1. db.active \in RaceIds /\ db.rows[db.active] \in Row
  BY HasRow DEF Shape, Database, ActiveExists
<1>2. /\ memory'.id = db.active
      /\ memory'.laps = (IF db.meta_laps # None THEN db.meta_laps ELSE db.rows[db.active].laps)
      /\ memory'.started = (IF db.meta_started # None THEN db.meta_started
                                                      ELSE db.rows[db.active].started)
      /\ memory'.ended = db.rows[db.active].ended
  BY DEF Booted, Loaded
<1>3. memory'.counted = {p \in Replayable(db) : memory'.started # None /\ memory'.started < p}
  BY DEF Booted, Loaded
<1>4. Quiet'
  BY <1>2 DEF Quiet, Settled
<1>5. Standing'
  BY <1>2, <1>3 DEF Standing, AfterStart, Replayable
<1> QED BY <1>4, <1>5

(* The memory follows the file, step by step. *)
LEMMA ContinuousKept ==
  ASSUME Core, Continuous, LogsArePast, Next
  PROVE  Continuous'
<1> SUFFICES ASSUME ~torn' PROVE Writing' \/ Clearing' \/ Filling'
  BY DEF Continuous
<1>1. ~torn /\ ~(Crash /\ todo # <<>>)
  BY FlagsDown DEF Next
<1>2. Writing \/ Clearing \/ Filling
  BY <1>1 DEF Continuous
<1>3. CASE Operator
  BY <1>1, <1>3, OperatorWaits, NothingLeft, OperatorGoesOn
<1>4. CASE Proceed
  <2>1. Quiet' => Writing'
    BY DEF Writing
  <2> QED BY <1>2, <1>4, <2>1, WritingGoesOn, ClearingGoesOn, FillingGoesOn
<1>5. CASE Pass
  BY <1>2, <1>5, SameDay DEF Pass
<1>6. CASE Ingest
  <2>1. PICK p : db' = Stored(p) /\ todo' = todo /\ memory' = memory
    BY <1>6 DEF Ingest
  <2>2. /\ db'.active = db.active /\ db'.rows = db.rows
        /\ db'.meta_started = db.meta_started /\ db'.meta_laps = db.meta_laps
    BY <2>1 DEF Stored, Core, Shape, Database
  <2> QED BY <1>2, <2>1, <2>2, SameDay
<1>7. CASE IngestCount
  <2>1. memory' = Count(memory, ingest) /\ todo' = todo /\ db' = db
    BY <1>7 DEF IngestCount
  <2>2. /\ memory'.id = memory.id /\ memory'.laps = memory.laps
        /\ memory'.started = memory.started /\ memory'.ended = memory.ended
    BY <2>1 DEF Count, Core, Shape, Race
  <2> QED BY <1>2, <2>1, <2>2, SameDay
<1>8. CASE Crash
  BY <1>8, BootedAgrees DEF Crash, Core, Writing
<1> QED BY <1>3, <1>4, <1>5, <1>6, <1>7, <1>8 DEF Next

(* No log is ahead of the clock. *)
LEMMA LogsKept == ASSUME Core, LogsArePast, Next PROVE LogsArePast'
<1>1. /\ db \in Database /\ clock \in Nat /\ Shape
  BY DEF Core, Shape
<1>2. CASE \E r \in RaceIds : DeleteRace(r)
  BY <1>1, <1>2 DEF DeleteRace, Request, Database, LogsArePast
<1>3. CASE \/ \E r \in RaceIds : Activate(r)
           \/ StartRace \/ EndRace \/ \E laps \in LapCounts : PatchRace(laps)
  BY <1>3 DEF Activate, StartRace, EndRace, PatchRace, Request, LogsArePast
<1>4. CASE \E r \in RaceIds, laps \in LapCounts : CreateRace(r, laps)
  BY <1>1, <1>4 DEF CreateRace, Request, Database, LogsArePast
<1>5. CASE \E r \in RaceIds, laps \in LapCounts : PatchRaceById(r, laps)
  BY <1>1, <1>5 DEF PatchRaceById, Mirror, Request, Database, LogsArePast
<1>6. CASE \E laps \in LapCounts : PatchConfig(laps)
  BY <1>1, <1>6 DEF PatchConfig, Request, Database, LogsArePast
<1>7. CASE Proceed
  BY <1>1, <1>7, ProceedFrame DEF LogsArePast
<1>8. CASE Pass
  BY <1>1, <1>8 DEF Pass, LogsArePast
<1>9. CASE Ingest
  <2>1. PICK p \in 1..clock : db' = Stored(p) /\ clock' = clock
    BY <1>9 DEF Ingest
  <2>2. \A r \in RaceIds : db'.log[r] = IF r = db.active THEN db.log[r] \cup {p} ELSE db.log[r]
    BY <1>1, <2>1 DEF Stored, Database
  <2> QED BY <2>1, <2>2 DEF LogsArePast
<1>10. CASE IngestCount
  BY <1>10 DEF IngestCount, LogsArePast
<1>11. CASE Crash
  BY <1>11 DEF Crash, LogsArePast
<1> QED BY <1>2, <1>3, <1>4, <1>5, <1>6, <1>7, <1>8, <1>9, <1>10, <1>11 DEF Next, Operator
------------------------------------------------------------------------------
(* A replay feeds the race only what a restart would count, and its end    *)
(* leaves laps that stand.                                                 *)
LEMMA ReplayedGoesOn ==
  ASSUME Core, Filling, Replayed, Proceed
  PROVE  (Filling' => Replayed') /\ (Writing' => Standing')
<1>1. /\ memory \in Race /\ Shape /\ ActiveExists /\ todo \in Seq(Step)
  BY DEF Core, Shape
<1>2. /\ memory.id = db.active /\ memory.ended = None
      /\ AfterStart /\ memory.counted \subseteq Replayable(db)
  BY DEF Filling, Replayed
<1>3. CASE todo = <<Fetch, ApplyEnd>>
  <2>1. Head(todo) = Fetch /\ Len(todo) = 2 /\ todo[2] = ApplyEnd
    BY <1>3, ShortLists
  <2>2. Replay(Replayable(db)) \in Step
    BY <1>1, ReplayablePasses DEF Step
  <2>3. todo' = <<Replay(Replayable(db)), ApplyEnd>> /\ db' = db /\ memory' = memory
    BY <1>1, <2>1, <2>2, DoFetch, FirstOfTwo
  <2>4. \A passes : Replaying(passes)' => passes = Replayable(db)
    BY <2>3, ShortLists, Kinds DEF Replaying
  <2>5. Head(todo').do = "replay" /\ todo' # <<>>
    BY <2>3, ShortLists, Kinds
  <2>6. ~Writing'
    BY <2>5, FirstStepsAfter DEF FirstStep
  <2> QED BY <1>2, <2>3, <2>4, <2>6 DEF Replayed, AfterStart
<1>4. ASSUME NEW passes \in SUBSET Passes, Replaying(passes)
      PROVE  (Filling' => Replayed') /\ (Writing' => Standing')
  <2>1. Head(todo) = Replay(passes) /\ Tail(todo) = <<ApplyEnd>> /\ db' = db
    BY <1>4, ShortLists, DoReplay DEF Replaying
  <2>2. passes \subseteq Replayable(db)
    BY <1>4 DEF Replayed
  <2>3. CASE todo' = <<ApplyEnd>> /\ memory' = memory
    <3>1. \A some : ~Replaying(some)'
      BY <2>3, ShortLists, Kinds DEF Replaying
    <3>2. Head(todo').do = "end" /\ todo' # <<>>
      BY <2>3, ShortLists, Kinds
    <3>3. ~Writing'
      BY <3>2, FirstStepsAfter DEF FirstStep
    <3> QED BY <1>2, <2>1, <2>3, <3>1, <3>3 DEF Replayed, AfterStart
  <2>4. ASSUME NEW p \in passes, memory' = Count(memory, p),
               todo' = <<Replay(passes \ {p})>> \o Tail(todo)
        PROVE  (Filling' => Replayed') /\ (Writing' => Standing')
    <3>1. Replay(passes \ {p}) \in Step /\ Len(todo) = 2 /\ todo[2] = ApplyEnd
      BY <1>4 DEF Step, Replaying
    <3>2. todo' = <<Replay(passes \ {p}), ApplyEnd>>
      BY <1>1, <2>4, <3>1, FirstOfTwo
    <3>3. \A some : Replaying(some)' => some = passes \ {p}
      BY <3>2, ShortLists, Kinds DEF Replaying
    <3>4. Head(todo').do = "replay" /\ todo' # <<>>
      BY <3>2, ShortLists, Kinds
    <3>5. ~Writing'
      BY <3>4, FirstStepsAfter DEF FirstStep
    <3>6. /\ memory'.started = memory.started
          /\ \/ memory'.counted = memory.counted
             \/ /\ memory'.counted = memory.counted \cup {p}
                /\ memory.started # None /\ memory.started < p
      BY <1>1, <2>4 DEF Count, Race
    <3>7. AfterStart' /\ memory'.counted \subseteq Replayable(db)
      BY <1>2, <2>2, <3>6 DEF AfterStart
    <3> QED BY <2>1, <2>2, <3>3, <3>5, <3>7 DEF Replayed
  <2> QED BY <2>1, <2>3, <2>4, DoReplay
<1>5. CASE todo = <<ApplyEnd>>
  <2>1. Head(todo) = ApplyEnd /\ Tail(todo) = <<>>
    BY <1>5, ShortLists
  <2>2. /\ memory' = [memory EXCEPT !.ended = db.rows[memory.id].ended]
        /\ todo' = <<>> /\ db' = db
    BY <2>1, DoEnd
  <2>3. /\ memory'.started = memory.started /\ memory'.counted = memory.counted
        /\ memory'.ended = db.rows[db.active].ended
    BY <1>1, <1>2, <2>2 DEF Race
  <2>4. ~Filling'
    BY <2>2, FirstStepsAfter DEF FirstStep
  <2>5. Standing'
    BY <1>2, <2>2, <2>3 DEF Standing, AfterStart, Replayable
  <2> QED BY <2>4, <2>5
<1>6. \/ todo = <<Fetch, ApplyEnd>> \/ todo = <<ApplyEnd>>
      \/ \E passes \in SUBSET Passes : Replaying(passes)
  BY DEF Filling
<1> QED BY <1>3, <1>4, <1>5, <1>6

(* The laps of a race stand, and a pass between its two steps is one of    *)
(* the race's.                                                             *)
LEMMA LapsKept ==
  ASSUME Core, Continuous, LapsStand, LogsArePast, Next
  PROVE  LapsStand'
<1> SUFFICES ASSUME ~torn', ~overlap'
             PROVE  Between' /\ (Writing' => Standing') /\ (Filling' => Replayed')
  BY DEF LapsStand
<1>1. /\ ~torn /\ ~(Crash /\ todo # <<>>) /\ ~overlap
      /\ Switching(todo') => ingest' = None
  BY FlagsDown DEF Next
<1>2. Between /\ (Writing => Standing) /\ (Filling => Replayed)
  BY <1>1 DEF LapsStand
<1>3. Writing \/ Clearing \/ Filling
  BY <1>1 DEF Continuous
<1>4. /\ db \in Database /\ db.active \in RaceIds /\ memory \in Race
      /\ ingest \in Passes \cup {None} /\ Shape /\ ActiveExists
  BY DEF Core, Shape, Database
<1>5. Writing' => ~Clearing' /\ ~Filling'
  BY SwitchOrNotAfter DEF SwitchEnds
<1>6. Clearing' => ~Filling'
  BY FirstStepsAfter DEF FirstStep
<1>7. CASE Operator
  <2>1. Quiet /\ Writing
    BY <1>1, <1>7, OperatorWaits, NothingLeft DEF Writing
  <2>2. CASE Clearing' /\ db' = db /\ ingest' = ingest
    BY <1>1, <1>2, <1>5, <1>6, <2>2 DEF Between
  <2>3. CASE /\ Writing' /\ Unharmed /\ ingest' = ingest
             /\ db'.active = db.active /\ db'.log[db.active] = db.log[db.active]
    <3>1. Standing'
      BY <1>2, <2>1, <2>3 DEF Unharmed
    <3> QED BY <1>1, <1>2, <1>5, <2>3, <3>1 DEF Between
  <2> QED BY <1>7, <2>1, <2>2, <2>3, OperatorGoesOn
<1>8. CASE Proceed
  <2>1. ingest' = ingest /\ db'.log = db.log
    BY <1>4, <1>8, ProceedFrame
  <2>2. CASE Writing
    <3>1. Writing' /\ memory' = memory /\ db'.active = db.active
      BY <1>8, <2>2, WritingGoesOn
    <3>2. Standing'
      BY <1>2, <2>1, <2>2, <3>1 DEF Standing, AfterStart
    <3> QED BY <1>1, <1>2, <1>5, <2>1, <3>1, <3>2 DEF Between
  <2>3. CASE Clearing
    <3>1. ingest = None
      BY <1>2, <2>3, SwitchOrNot DEF SwitchEnds, Between
    <3>2. Between'
      BY <2>1, <3>1 DEF Between
    <3>3. CASE Clearing'
      BY <1>5, <1>6, <3>2, <3>3
    <3>4. CASE Filling' /\ memory'.counted = {} /\ todo' = <<Fetch, ApplyEnd>>
      <4>1. \A passes : ~Replaying(passes)'
        BY <3>4, ShortLists, Kinds DEF Replaying
      <4>2. Replayed'
        BY <3>4, <4>1 DEF Replayed, AfterStart
      <4> QED BY <1>5, <3>2, <3>4, <4>2
    <3> QED BY <1>8, <2>3, <3>3, <3>4, ClearingGoesOn
  <2>4. CASE Filling
    <3>1. ingest = None
      BY <1>2, <2>4, SwitchOrNot DEF SwitchEnds, Between
    <3>2. Between'
      BY <2>1, <3>1 DEF Between
    <3> QED BY <1>2, <1>8, <2>4, <3>2, ReplayedGoesOn
  <2> QED BY <1>3, <2>2, <2>3, <2>4
<1>9. CASE Pass
  <2>1. todo' = todo /\ db' = db /\ memory' = memory /\ ingest' = ingest
    BY <1>9 DEF Pass
  <2>2. Between'
    BY <1>2, <2>1 DEF Between, Switching
  <2>3. Standing => Standing'
    BY <2>1 DEF Standing, AfterStart
  <2>4. Replayed => Replayed'
    BY <2>1 DEF Replayed, AfterStart, Replaying
  <2>5. Writing' => ~Clearing /\ ~Filling
    BY <2>1, SwitchOrNot, SwitchOrNotAfter DEF SwitchEnds
  <2>6. Filling' => ~Writing /\ ~Clearing
    BY <2>1, SwitchOrNot, SwitchOrNotAfter, FirstSteps, FirstStepsAfter
       DEF SwitchEnds, FirstStep
  <2> QED BY <1>2, <1>3, <2>2, <2>3, <2>4, <2>5, <2>6
<1>10. CASE Ingest
  <2>1. PICK p \in 1..clock : db' = Stored(p) /\ ingest' = p
    BY <1>10 DEF Ingest
  <2>2. todo' = todo /\ memory' = memory /\ ingest' # None
    BY <1>10, <2>1 DEF Ingest
  <2>3. ~Switching(todo') /\ ~Switching(todo)
    BY <1>1, <2>2
  <2>4. Writing /\ ~Filling'
    BY <1>3, <2>3, SwitchOrNot, SwitchOrNotAfter DEF SwitchEnds
  <2>5. db'.active = db.active /\ db'.log[db.active] = db.log[db.active] \cup {p}
    BY <1>4, <2>1 DEF Stored, Database
  <2>6. Standing'
    BY <1>2, <2>2, <2>4, <2>5 DEF Standing, AfterStart
  <2>7. Between'
    BY <2>1, <2>3, <2>5 DEF Between
  <2> QED BY <2>4, <2>6, <2>7
<1>11. CASE IngestCount
  <2>1. /\ ingest # None /\ memory' = Count(memory, ingest) /\ ingest' = None
        /\ db' = db /\ todo' = todo
    BY <1>11 DEF IngestCount
  <2>2. ingest \in db.log[db.active] /\ ~Switching(todo) /\ ~Switching(todo')
    BY <1>2, <2>1 DEF Between
  <2>3. Writing /\ ~Filling' /\ Between'
    BY <1>3, <2>1, <2>2, SwitchOrNot, SwitchOrNotAfter DEF SwitchEnds, Between
  <2>4. CASE memory' = memory
    BY <1>2, <2>1, <2>3, <2>4 DEF Standing, AfterStart
  <2>5. CASE /\ memory.ended = None /\ memory.started # None /\ memory.started < ingest
             /\ memory' = [memory EXCEPT !.counted = @ \cup {ingest}]
    <3>1. /\ memory'.started = memory.started /\ memory'.ended = memory.ended
          /\ memory'.counted = memory.counted \cup {ingest}
      BY <1>4, <2>5 DEF Race
    <3>2. AfterStart'
      BY <1>2, <2>3, <2>5, <3>1 DEF Standing, AfterStart
    <3>3. Standing'
      BY <1>2, <2>1, <2>2, <2>3, <2>5, <3>1, <3>2 DEF Standing
    <3> QED BY <2>3, <3>3
  <2> QED BY <2>1, <2>4, <2>5 DEF Count
<1>12. CASE Crash
  <2>1. memory' = Booted(db) /\ todo' = <<>> /\ db' = db /\ ingest' = None
    BY <1>12 DEF Crash
  <2>2. Quiet' /\ Standing'
    BY <1>4, <2>1, BootedAgrees
  <2>3. ~Filling'
    BY <2>1, FirstStepsAfter DEF FirstStep
  <2>4. Between'
    BY <2>1 DEF Between
  <2> QED BY <2>2, <2>3, <2>4
<1> QED BY <1>7, <1>8, <1>9, <1>10, <1>11, <1>12 DEF Next

LEMMA InitDay == Init => DayInv
<1> SUFFICES ASSUME Init PROVE DayInv
  OBVIOUS
<1>1. RacesInv /\ Core /\ Shape /\ ActiveExists
  BY InitRaces DEF RacesInv, Core
<1>2. /\ memory = Booted(db) /\ todo = <<>> /\ ingest = None /\ clock = 0
      /\ \A r \in RaceIds : db.log[r] = {}
  BY DEF Init
<1>3. db.active \in RaceIds /\ Replayable(db) = {}
  BY <1>1, <1>2 DEF Shape, Database, Replayable
<1>4. /\ memory.id = db.active
      /\ memory.laps = (IF db.meta_laps # None THEN db.meta_laps ELSE db.rows[db.active].laps)
      /\ memory.started = (IF db.meta_started # None THEN db.meta_started
                                                     ELSE db.rows[db.active].started)
      /\ memory.ended = db.rows[db.active].ended /\ memory.counted = {}
  BY <1>2, <1>3 DEF Booted, Loaded
<1>5. Quiet /\ Writing
  BY <1>2, <1>4 DEF Quiet, Settled, Writing
<1>6. Standing
  BY <1>4 DEF Standing, AfterStart
<1>7. ~Filling /\ ~Switching(todo)
  BY <1>2, <1>5, FirstSteps, SwitchOrNot DEF FirstStep, SwitchEnds
<1>8. Continuous /\ LapsStand /\ LogsArePast
  BY <1>2, <1>5, <1>6, <1>7 DEF Continuous, LapsStand, Between, LogsArePast
<1> QED BY <1>1, <1>8 DEF DayInv

LEMMA StepDay == DayInv /\ [Next]_vars => DayInv'
<1> SUFFICES ASSUME DayInv, [Next]_vars PROVE DayInv'
  OBVIOUS
<1>1. RacesInv' /\ Core
  BY StepRaces DEF DayInv, RacesInv
<1>2. CASE Next
  BY <1>1, <1>2, ContinuousKept, LapsKept, LogsKept DEF DayInv
<1>3. CASE UNCHANGED vars
  <2>1. UNCHANGED <<db, memory, todo, ingest, clock, torn, overlap>>
    BY <1>3 DEF vars
  <2>2. /\ Writing' = Writing /\ Clearing' = Clearing /\ Filling' = Filling
        /\ Standing' = Standing /\ Replayed' = Replayed /\ Between' = Between
    BY <2>1 DEF Writing, Quiet, LapsLeft, RowLeft, StartLeft, PatchLeft, Settled, Clearing,
       Filling, Replaying, Standing, AfterStart, Replayed, Between, Switching
  <2>3. Continuous' /\ LapsStand' /\ LogsArePast'
    BY <2>1, <2>2 DEF DayInv, Continuous, LapsStand, LogsArePast
  <2> QED BY <1>1, <2>3 DEF DayInv
<1> QED BY <1>2, <1>3

(* How the memory follows the file through every request and switch, as    *)
(* every step leaves it.                                                   *)
THEOREM DayInvariant == Spec => []DayInv
BY InitDay, StepDay, PTL DEF Spec

(* Between requests, a restart gives the active race the laps, the start   *)
(* and the end it has, whichever endpoint set them and however often the   *)
(* race was switched; unless a crash cut a request short.                  *)
THEOREM RestartAlwaysKeepsRace == Spec => []RestartKeepsRace
<1>1. DayInv => RestartKeepsRace
  <2> SUFFICES ASSUME DayInv, todo = <<>>, ~torn
               PROVE  LET booted == Booted(db)
                      IN  /\ memory.id = booted.id /\ memory.laps = booted.laps
                          /\ memory.started = booted.started /\ memory.ended = booted.ended
    BY DEF RestartKeepsRace
  <2>1. Quiet
    BY NothingLeft DEF DayInv
  <2> QED BY <2>1 DEF Quiet, Settled, Booted, Loaded
<1> QED BY DayInvariant, <1>1, PTL

(* Every lap on the standings survives a restart, unless a crash cut a     *)
(* request short or an event came in while the race was switched.          *)
THEOREM RestartAlwaysKeepsLaps == Spec => []RestartKeepsLaps
<1>1. DayInv => RestartKeepsLaps
  <2> SUFFICES ASSUME DayInv, todo = <<>>, ~torn, ~overlap
               PROVE  memory.counted \subseteq Booted(db).counted
    BY DEF RestartKeepsLaps
  <2>1. Quiet
    BY NothingLeft DEF DayInv
  <2>2. Standing
    BY <2>1 DEF DayInv, LapsStand, Writing
  <2>3. memory.started = Loaded(db).started /\ memory.ended = db.rows[db.active].ended
    BY <2>1 DEF Quiet, Settled, Loaded
  <2>4. Booted(db).counted = {p \in Replayable(db) : /\ Loaded(db).started # None
                                                     /\ Loaded(db).started < p}
    BY DEF Booted, Loaded
  <2> QED BY <2>2, <2>3, <2>4 DEF Standing, AfterStart, Replayable
<1> QED BY DayInvariant, <1>1, PTL

(* A race that is switched to comes up with the laps and the start of its  *)
(* own row: nothing of the race before it is left in the meta keys.        *)
THEOREM SwitchAlwaysClean == Spec => SwitchIsClean
<1>1. ASSUME DayInv, [Next]_vars, memory'.id # memory.id, ~torn'
      PROVE  /\ memory'.laps = db.rows[memory'.id].laps
             /\ memory'.started = db.rows[memory'.id].started
  <2>1. Core /\ memory \in Race /\ Shape /\ ActiveExists /\ Continuous
    BY <1>1 DEF DayInv, RacesInv, Core, Shape
  <2>2. memory' # memory /\ Next
    BY <1>1 DEF vars
  <2>3. ~torn /\ ~(Crash /\ todo # <<>>)
    BY <1>1, <2>2, FlagsDown DEF Next
  <2>4. CASE Operator
    BY <1>1, <2>1, <2>4 DEF Operator, DeleteRace, Activate, CreateRace, PatchRaceById, Mirror,
       PatchRace, PatchConfig, StartRace, EndRace, Race
  <2>5. CASE Proceed
    <3>1. CASE Writing
      BY <1>1, <2>1, <2>5, <3>1, WritingGoesOn
    <3>2. CASE Clearing
      <4>1. memory' = Loaded(db) /\ db.meta_started = None /\ db.meta_laps = None
        BY <2>1, <2>2, <2>5, <3>2, ClearingGoesOn
      <4> QED BY <4>1 DEF Loaded
    <3>3. CASE Filling
      <4>1. Head(todo).do \in {"fetch", "replay", "end"}
        BY <3>3, FirstSteps DEF FirstStep
      <4>2. memory'.id = memory.id
        BY <2>1, <2>5, <4>1 DEF Proceed, Count, Race
      <4> QED BY <1>1, <4>2
    <3> QED BY <2>1, <2>3, <3>1, <3>2, <3>3 DEF Continuous
  <2>6. CASE Pass \/ Ingest
    BY <2>2, <2>6 DEF Pass, Ingest
  <2>7. CASE IngestCount
    BY <1>1, <2>1, <2>7 DEF IngestCount, Count, Race
  <2>8. CASE Crash
    <3>1. Quiet
      BY <2>1, <2>3, <2>8, NothingLeft
    <3>2. memory'.id = memory.id
      BY <2>1, <2>8, <3>1, BootedRace DEF Crash, Quiet, Settled
    <3> QED BY <1>1, <3>2
  <2> QED BY <2>2, <2>4, <2>5, <2>6, <2>7, <2>8 DEF Next
<1>2. DayInv /\ [Next]_vars =>
        [ memory'.id # memory.id /\ ~torn' =>
            /\ memory'.laps = db.rows[memory'.id].laps
            /\ memory'.started = db.rows[memory'.id].started ]_vars
  BY <1>1
<1> QED BY DayInvariant, <1>2, PTL DEF Spec, SwitchIsClean
------------------------------------------------------------------------------
(* Snapshots.  A writer has a stem of its own until it is done, newer than *)
(* every file but what the other writer adds.                              *)
Busy(w) == job[w].pc \in {"csv", "backup", "prune"}

OwnStems ==
  /\ \A w \in Writers : Busy(w) => job[w].stem \in 1..stems /\ job[w].text # None
  /\ \A w \in Writers : job[w].pc # "idle" => job[w].dir # None
  /\ \A v, w \in Writers : v # w /\ Busy(v) /\ Busy(w) => job[v].stem # job[w].stem
  /\ \A w \in Writers : Busy(w) => \A r \in RaceIds : \A file \in files[r] :
       file.stem = job[w].stem => job[w].pc # "csv" /\ r = job[w].dir

(* A stem names one file of a race. *)
OneFilePerStem ==
  \A r \in RaceIds :
    /\ \A file \in files[r] : file.csv # None /\ file.stem <= stems
    /\ \A f, g \in files[r] : f.stem = g.stem => f = g

(* The halves newer than a stem that nobody is working on any more.        *)
Halves(r, stem) ==
  {file \in files[r] : /\ file.db = None /\ file.stem > stem
                       /\ \A w \in Writers : ~(job[w].pc = "backup" /\ job[w].stem = file.stem)}

(* A half that is newer than a writer at work cost a failure: a crash      *)
(* would have ended the writer.                                            *)
HalvesCost ==
  \A w \in Writers : Busy(w) => Cardinality(Halves(job[w].dir, job[w].stem)) <= faults

(* Who has copied the database has left a complete snapshot, unless a      *)
(* newer one has pushed it out; who is about to, its half.                 *)
CopyLeaves ==
  \A w \in Writers :
    /\ job[w].pc = "backup" =>
         \E file \in files[job[w].dir] : /\ file.stem >= job[w].stem
                                         /\ file.stem = job[w].stem \/ Complete(file)
    /\ job[w].pc = "prune" =>
         \E file \in files[job[w].dir] : file.stem >= job[w].stem /\ Complete(file)

SnapInv == RacesInv /\ SnapTypeOK /\ OwnStems /\ OneFilePerStem /\ HalvesCost /\ CopyLeaves

(* TypeOK of a writer's job and of the files, for one of them. *)
LEMMA JobFields ==
  ASSUME SnapTypeOK, NEW w \in Writers
  PROVE  /\ job[w].pc \in {"idle", "build", "csv", "backup", "prune"}
         /\ job[w].dir \in RaceIds \cup {None} /\ job[w].text \in RaceIds \cup {None}
         /\ job[w].stem \in 0..MaxStems /\ stems \in 0..MaxStems /\ MaxStems \in Nat
BY KeepAssumption DEF SnapTypeOK, Job

LEMMA FileFields ==
  ASSUME SnapTypeOK, NEW r \in RaceIds, NEW file \in files[r]
  PROVE  file \in File /\ file.stem \in 1..MaxStems /\ file.stem \in Nat
BY KeepAssumption DEF SnapTypeOK, File

(* A stem names one file, so the files of a race are finitely many.        *)
LEMMA FilesFinite ==
  ASSUME SnapTypeOK, OneFilePerStem, NEW r \in RaceIds PROVE IsFiniteSet(files[r])
<1> DEFINE stem == [file \in files[r] |-> file.stem]
<1>1. stem \in [files[r] -> 1..MaxStems]
  BY FileFields
<1>2. \A f, g \in files[r] : stem[f] = stem[g] => f = g
  BY DEF OneFilePerStem
<1>3. stem \in Injection(files[r], 1..MaxStems)
  BY <1>1, <1>2 DEF Injection, IsInjective
<1>4. IsFiniteSet(1..MaxStems)
  BY FS_Interval, KeepAssumption
<1> QED BY <1>3, <1>4, FS_Injection

LEMMA HalvesFinite ==
  ASSUME SnapTypeOK, OneFilePerStem, NEW r \in RaceIds, NEW stem
  PROVE  IsFiniteSet(Halves(r, stem)) /\ Cardinality(Halves(r, stem)) \in Nat
<1>1. Halves(r, stem) \in SUBSET files[r]
  BY DEF Halves
<1> QED BY <1>1, FilesFinite, FS_Subset, FS_CardinalityType

(* A set of stems has a greatest one.                                      *)
LEMMA GreatestStem ==
  ASSUME NEW S \in SUBSET (1..MaxStems), S # {}
  PROVE  \E i \in S : \A j \in S : j <= i
<1> DEFINE left == {MaxStems - i : i \in S}
<1>1. \A i \in S : i \in Nat /\ MaxStems - i \in Nat /\ MaxStems - i \in left
  BY KeepAssumption
<1> HIDE DEF left
<1>2. left \in SUBSET Nat /\ left # {}
  BY <1>1 DEF left
<1>3. PICK n \in left : \A m \in left : <<m, n>> \notin OpToRel(<, Nat)
  BY <1>2, NatLessThanWellFounded, WFMin
<1>4. PICK i \in S : n = MaxStems - i
  BY DEF left
<1>5. ASSUME NEW j \in S PROVE j <= i
  <2>1. <<MaxStems - j, n>> \notin OpToRel(<, Nat)
    BY <1>1, <1>3
  <2>2. ~(MaxStems - j < n)
    BY <1>1, <1>2, <2>1 DEF OpToRel
  <2> QED BY <1>1, <1>4, <2>2, KeepAssumption
<1> QED BY <1>5

(* A writer at work has a race, and a stem that is among those used.       *)
LEMMA BusyFields ==
  ASSUME SnapInv, NEW w \in Writers, Busy(w)
  PROVE  /\ job[w].dir \in RaceIds /\ job[w].text \in RaceIds
         /\ job[w].stem \in 1..stems /\ job[w].stem \in Nat
<1>1. job[w].dir # None /\ job[w].text # None /\ job[w].stem \in 1..stems
  BY DEF SnapInv, OwnStems, Busy
<1> QED BY <1>1, JobFields DEF SnapInv

(* While one writer prunes, few of the files newer than a writer's stem    *)
(* are halves: those that failures left, and the one of the other writer.  *)
LEMMA FewHalves ==
  ASSUME SnapInv, NEW w \in Writers, job[w].pc = "prune", NEW v \in Writers, Busy(v),
         NEW newer \in SUBSET files[job[v].dir],
         \A file \in newer : file.db = None /\ file.stem > job[v].stem
  PROVE  Cardinality(newer) < Keep
<1> DEFINE r    == job[v].dir
           s    == job[v].stem
           mine == {file \in files[r] : \E u \in Writers \ {w} : file.stem = job[u].stem}
<1>1. r \in RaceIds
  BY BusyFields
<1>2. SnapTypeOK /\ OneFilePerStem /\ Cardinality(Halves(r, s)) <= faults
      /\ faults \in 0..MaxFaults
  BY DEF SnapInv, HalvesCost, RacesInv, Core, Shape
<1>3. \E u \in Writers : Writers \ {w} = {u}
  BY DEF Writers
<1>4. \A f, g \in mine : f = g
  BY <1>1, <1>2, <1>3 DEF OneFilePerStem
<1>5. IsFiniteSet(mine) /\ Cardinality(mine) \in Nat /\ Cardinality(mine) <= 1
  <2>1. CASE mine = {}
    <3> HIDE DEF mine
    <3>1. IsFiniteSet({}) /\ Cardinality({}) = 0
      BY FS_EmptySet
    <3> QED BY <2>1, <3>1
  <2>2. CASE mine # {}
    <3>1. PICK f \in mine : TRUE
      BY <2>2
    <3> HIDE DEF mine
    <3>2. mine = {f}
      BY <1>4, <3>1
    <3>3. IsFiniteSet({f}) /\ Cardinality({f}) = 1
      BY FS_Singleton
    <3> QED BY <3>2, <3>3
  <2> QED BY <2>1, <2>2
<1>6. IsFiniteSet(Halves(r, s)) /\ Cardinality(Halves(r, s)) \in Nat
  BY <1>1, <1>2, HalvesFinite
<1>7. newer \in SUBSET (Halves(r, s) \cup mine)
  <2> SUFFICES ASSUME NEW file \in newer, file \notin mine
               PROVE  file \in Halves(r, s)
    OBVIOUS
  <2>1. \A u \in Writers : ~(job[u].pc = "backup" /\ job[u].stem = file.stem)
    OBVIOUS
  <2> QED BY <2>1 DEF Halves
<1> HIDE DEF mine, r, s
<1>8. IsFiniteSet(Halves(r, s) \cup mine)
      /\ Cardinality(Halves(r, s) \cup mine) <= faults + 1
  <2>1. Cardinality(Halves(r, s) \cap mine) \in Nat
    BY <1>5, FS_Intersection, FS_CardinalityType
  <2> QED BY <1>2, <1>5, <1>6, <2>1, FS_Union
<1>9. Cardinality(newer) <= Cardinality(Halves(r, s) \cup mine)
      /\ Cardinality(newer) \in Nat /\ Cardinality(Halves(r, s) \cup mine) \in Nat
  BY <1>7, <1>8, FS_Subset, FS_CardinalityType
<1> QED BY <1>2, <1>8, <1>9, KeepAssumption

(* The pruning keeps the newest complete snapshot.                         *)
LEMMA CompleteIsKept ==
  ASSUME SnapInv, NEW w \in Writers, job[w].pc = "prune", NEW v \in Writers, Busy(v),
         NEW file \in files[job[v].dir], Complete(file), file.stem >= job[v].stem
  PROVE  \E kept \in Kept(files[job[v].dir]) : Complete(kept) /\ kept.stem >= file.stem
<1> DEFINE r        == job[v].dir
           complete == {f \in files[r] : Complete(f)}
           all      == {f.stem : f \in complete}
<1>1. r \in RaceIds /\ job[v].stem \in Nat /\ SnapTypeOK
  BY BusyFields DEF SnapInv
<1>2. all \in SUBSET (1..MaxStems) /\ file.stem \in all
  BY <1>1, FileFields
<1>3. PICK top \in all : \A stem \in all : stem <= top
  BY <1>2, GreatestStem
<1>4. PICK best \in complete : best.stem = top
  BY <1>3
<1>5. \A f \in complete : f.stem <= best.stem
  BY <1>3, <1>4
<1>6. best \in files[r] /\ Complete(best) /\ file.stem <= best.stem
  BY <1>4, <1>5
<1>7. ASSUME NEW f \in files[r], f.stem > best.stem
      PROVE  f.db = None /\ f.stem > job[v].stem
  <2>1. f.stem \in Nat /\ best.stem \in Nat /\ file.stem \in Nat
    BY <1>1, <1>6, FileFields
  <2>2. ~Complete(f) /\ f.csv # None
    BY <1>1, <1>5, <1>7, <2>1 DEF SnapInv, OneFilePerStem
  <2> QED BY <1>1, <1>6, <1>7, <2>1, <2>2 DEF Complete
<1>8. Cardinality({f \in files[r] : f.stem > best.stem}) < Keep
  BY <1>7, FewHalves
<1>9. best \in Kept(files[r])
  BY <1>6, <1>8 DEF Kept
<1> QED BY <1>6, <1>9

(* No race loses its last complete snapshot in a step.                     *)
Survives ==
  \A r \in RaceIds : (\E file \in files[r] : Complete(file))
                       => \E file \in files'[r] : Complete(file)

(* The race, the writers being left alone.                                 *)
LEMMA RaceGoesOn ==
  ASSUME SnapInv, RacesInv', UNCHANGED <<files, job, stems>>, faults' >= faults
  PROVE  SnapInv' /\ Survives
<1>1. SnapTypeOK' /\ OwnStems' /\ OneFilePerStem' /\ CopyLeaves' /\ Survives
  BY DEF SnapInv, SnapTypeOK, OwnStems, Busy, OneFilePerStem, CopyLeaves, Survives
<1>2. HalvesCost'
  <2> SUFFICES ASSUME NEW w \in Writers, Busy(w)
               PROVE  Cardinality(Halves(job[w].dir, job[w].stem)) <= faults'
    BY DEF HalvesCost, Busy, Halves
  <2>1. Cardinality(Halves(job[w].dir, job[w].stem)) <= faults
    BY DEF SnapInv, HalvesCost
  <2>2. Cardinality(Halves(job[w].dir, job[w].stem)) \in Nat
    BY HalvesFinite, BusyFields DEF SnapInv
  <2>3. faults \in Nat /\ faults' \in Nat
    BY DEF SnapInv, RacesInv, Core, Shape
  <2> QED BY <2>1, <2>2, <2>3
<1> QED BY <1>1, <1>2 DEF SnapInv

(* The process dies: nobody is at work.                                    *)
LEMMA WritersDie ==
  ASSUME SnapInv, RacesInv', UNCHANGED <<files, stems>>, job' = [w \in Writers |-> Idle]
  PROVE  SnapInv' /\ Survives
<1>1. Idle \in Job /\ \A w \in Writers : job'[w].pc = "idle"
  BY KeepAssumption DEF Idle, Job
<1>2. SnapTypeOK'
  BY <1>1 DEF SnapInv, SnapTypeOK
<1>3. \A w \in Writers : ~Busy(w)'
  BY <1>1 DEF Busy
<1>4. OwnStems' /\ OneFilePerStem' /\ HalvesCost' /\ CopyLeaves' /\ Survives
  BY <1>1, <1>3 DEF SnapInv, OwnStems, OneFilePerStem, HalvesCost, CopyLeaves, Survives
<1> QED BY <1>2, <1>4 DEF SnapInv

(* What a writer that begins knows of its race.                            *)
LEMMA BeginSnapshot ==
  ASSUME SnapInv, NEW w \in Writers, job[w].pc = "idle", UNCHANGED <<vars, files, stems>>,
         job' = [job EXCEPT ![w] = [Idle EXCEPT !.pc = "build", !.dir = memory.id]]
  PROVE  SnapInv' /\ Survives
<1>1. RacesInv' /\ memory.id \in RaceIds /\ memory.id # None
  BY StepRaces DEF SnapInv, RacesInv, Core, Shape, Race
<1>2. /\ job \in [Writers -> Job] /\ job'[w].pc = "build" /\ job'[w].dir = memory.id
      /\ job'[w] \in Job /\ \A v \in Writers \ {w} : job'[v] = job[v]
  <2> DEFINE begun == [Idle EXCEPT !.pc = "build", !.dir = memory.id]
  <2>1. begun \in Job /\ begun.pc = "build" /\ begun.dir = memory.id
    <3>1. Idle \in Job
      BY KeepAssumption DEF Idle, Job
    <3> QED BY <1>1, <3>1 DEF Job
  <2> HIDE DEF begun
  <2>2. job \in [Writers -> Job] /\ job' = [job EXCEPT ![w] = begun]
    BY DEF SnapInv, SnapTypeOK, begun
  <2> QED BY <2>1, <2>2
<1>3. SnapTypeOK'
  BY <1>2 DEF SnapInv, SnapTypeOK
<1>4. \A v \in Writers : Busy(v)' => Busy(v) /\ job'[v] = job[v]
  BY <1>2 DEF Busy
<1>5. \A r, stem : Halves(r, stem)' = Halves(r, stem)
  BY <1>2 DEF Halves
<1>6. OwnStems'
  BY <1>1, <1>2, <1>4 DEF SnapInv, OwnStems
<1>7. HalvesCost'
  BY <1>4, <1>5 DEF SnapInv, HalvesCost, vars
<1>8. CopyLeaves' /\ OneFilePerStem' /\ Survives
  BY <1>2 DEF SnapInv, CopyLeaves, OneFilePerStem, Survives
<1> QED BY <1>1, <1>3, <1>6, <1>7, <1>8 DEF SnapInv

(* A new stem is newer than every file.                                    *)
LEMMA BuildSnapshot ==
  ASSUME SnapInv, NEW w \in Writers, Build(w) PROVE SnapInv' /\ Survives
<1>1. /\ RacesInv' /\ memory.id \in RaceIds /\ memory.id # None /\ job[w].pc = "build"
      /\ stems < MaxStems /\ stems' = stems + 1 /\ UNCHANGED <<vars, files>>
      /\ job' = [job EXCEPT ![w].pc = "csv", ![w].text = memory.id, ![w].stem = stems']
  BY StepRaces DEF SnapInv, RacesInv, Core, Shape, Race, Build
<1>2. stems \in Nat /\ MaxStems \in Nat /\ stems \in 0..MaxStems /\ stems' \in 0..MaxStems
  BY <1>1, KeepAssumption DEF SnapInv, SnapTypeOK
<1>3. /\ job \in [Writers -> Job] /\ job' \in [Writers -> Job] /\ job'[w].pc = "csv"
      /\ job'[w].dir = job[w].dir /\ job'[w].text = memory.id /\ job'[w].stem = stems + 1
      /\ \A v \in Writers \ {w} : job'[v] = job[v]
  BY <1>1, <1>2 DEF SnapInv, SnapTypeOK, Job
<1>4. SnapTypeOK'
  BY <1>1, <1>2, <1>3 DEF SnapInv, SnapTypeOK
<1>5. \A v \in Writers \ {w} : Busy(v)' => Busy(v)
  BY <1>3 DEF Busy
<1>6. \A v \in Writers \ {w} : Busy(v) => job[v].stem \in 1..stems
  BY DEF SnapInv, OwnStems
<1>7. \A r \in RaceIds : \A file \in files[r] : file.stem <= stems /\ file.stem \in Nat
  BY FileFields DEF SnapInv, OneFilePerStem
<1>8. OwnStems'
  <2>1. \A v \in Writers : Busy(v)' => job'[v].stem \in 1..stems' /\ job'[v].text # None
    BY <1>1, <1>2, <1>3, <1>5 DEF SnapInv, OwnStems
  <2>2. \A v \in Writers : job'[v].pc # "idle" => job'[v].dir # None
    BY <1>1, <1>3 DEF SnapInv, OwnStems
  <2>3. \A u, v \in Writers : u # v /\ Busy(u)' /\ Busy(v)' => job'[u].stem # job'[v].stem
    BY <1>2, <1>3, <1>5, <1>6 DEF SnapInv, OwnStems
  <2>4. \A v \in Writers : Busy(v)' => \A r \in RaceIds : \A file \in files[r] :
          file.stem = job'[v].stem => job'[v].pc # "csv" /\ r = job'[v].dir
    BY <1>2, <1>3, <1>5, <1>7 DEF SnapInv, OwnStems
  <2> QED BY <1>1, <2>1, <2>2, <2>3, <2>4 DEF OwnStems
<1>9. \A r, stem : Halves(r, stem)' = Halves(r, stem)
  BY <1>1, <1>3 DEF Halves
<1>10. Halves(job[w].dir, stems + 1) = {}
  <2>1. job[w].dir \in RaceIds
    BY <1>1, JobFields DEF SnapInv, OwnStems
  <2> QED BY <1>2, <1>7, <2>1 DEF Halves
<1>11. HalvesCost'
  <2>1. Cardinality({}) = 0 /\ faults \in Nat /\ faults' = faults
    BY <1>1, FS_EmptySet DEF vars, SnapInv, RacesInv, Core, Shape
  <2>2. \A v \in Writers \ {w} : Busy(v)' =>
          Cardinality(Halves(job[v].dir, job[v].stem)) <= faults
    BY <1>5 DEF SnapInv, HalvesCost
  <2>3. Cardinality(Halves(job[w].dir, stems + 1)) <= faults
    BY <1>10, <2>1
  <2> QED BY <1>3, <1>9, <2>1, <2>2, <2>3 DEF HalvesCost
<1>12. OneFilePerStem'
  BY <1>1, <1>2, <1>7 DEF SnapInv, OneFilePerStem
<1>13. CopyLeaves' /\ Survives
  BY <1>1, <1>3 DEF SnapInv, CopyLeaves, Survives
<1> QED BY <1>1, <1>4, <1>8, <1>11, <1>12, <1>13 DEF SnapInv

(* Fewer halves, at the same faults, have cost enough.                     *)
LEMMA FewerHalves ==
  ASSUME SnapInv, faults' = faults,
         \A w \in Writers : Busy(w)' => /\ Busy(w) /\ job'[w].stem = job[w].stem
                                        /\ job'[w].dir = job[w].dir,
         \A r \in RaceIds, stem \in Nat : Halves(r, stem)' \in SUBSET Halves(r, stem)
  PROVE  HalvesCost'
<1> SUFFICES ASSUME NEW w \in Writers, Busy(w)'
             PROVE  Cardinality(Halves(job[w].dir, job[w].stem)') <= faults'
  BY DEF HalvesCost
<1>1. Busy(w) /\ job[w].dir \in RaceIds /\ job[w].stem \in Nat /\ faults' \in Nat
  BY BusyFields DEF SnapInv, RacesInv, Core, Shape
<1>2. Halves(job[w].dir, job[w].stem)' \in SUBSET Halves(job[w].dir, job[w].stem)
  BY <1>1
<1>3. /\ IsFiniteSet(Halves(job[w].dir, job[w].stem))
      /\ Cardinality(Halves(job[w].dir, job[w].stem)) \in Nat
      /\ Cardinality(Halves(job[w].dir, job[w].stem)) <= faults'
  BY <1>1, HalvesFinite DEF SnapInv, HalvesCost
<1>4. /\ Cardinality(Halves(job[w].dir, job[w].stem)') \in Nat
      /\ Cardinality(Halves(job[w].dir, job[w].stem)')
           <= Cardinality(Halves(job[w].dir, job[w].stem))
  BY <1>2, <1>3, FS_Subset, FS_CardinalityType
<1> QED BY <1>1, <1>3, <1>4

(* The first file of a snapshot: a half that its writer works on.          *)
LEMMA WriteHalf ==
  ASSUME SnapInv, NEW w \in Writers, WriteCsv(w) PROVE SnapInv' /\ Survives
<1> DEFINE d   == job[w].dir
           s   == job[w].stem
           new == [stem |-> s, csv |-> job[w].text, db |-> None]
<1>1. /\ RacesInv' /\ job[w].pc = "csv" /\ Busy(w) /\ UNCHANGED <<vars, stems>>
      /\ files' = [files EXCEPT ![d] = @ \cup {new}] /\ job' = [job EXCEPT ![w].pc = "backup"]
  BY StepRaces DEF SnapInv, WriteCsv, Busy
<1>2. /\ d \in RaceIds /\ job[w].text \in RaceIds /\ s \in 1..stems /\ s \in 1..MaxStems
      /\ stems \in Nat /\ stems \in 0..MaxStems
  BY <1>1, BusyFields, KeepAssumption DEF SnapInv, SnapTypeOK
<1>3. new \in File /\ new.csv # None /\ new.db = None /\ new.stem = s
  BY <1>2 DEF File
<1>4. /\ files \in [RaceIds -> SUBSET File] /\ files'[d] = files[d] \cup {new}
      /\ \A r \in RaceIds \ {d} : files'[r] = files[r]
  BY <1>1, <1>2 DEF SnapInv, SnapTypeOK
<1>5. /\ job \in [Writers -> Job] /\ job' \in [Writers -> Job] /\ job'[w].pc = "backup"
      /\ job'[w].dir = d /\ job'[w].text = job[w].text /\ job'[w].stem = s
      /\ \A v \in Writers \ {w} : job'[v] = job[v]
  BY <1>1 DEF SnapInv, SnapTypeOK, Job
<1> HIDE DEF new
<1>6. SnapTypeOK'
  BY <1>1, <1>2, <1>3, <1>4, <1>5 DEF SnapInv, SnapTypeOK
<1>7. \A v \in Writers : Busy(v)' => /\ Busy(v) /\ job'[v].stem = job[v].stem
                                     /\ job'[v].dir = job[v].dir /\ job'[v].text = job[v].text
  BY <1>1, <1>5 DEF Busy
<1>8. \A r \in RaceIds : \A file \in files[r] : file.stem # s
  BY <1>1 DEF SnapInv, OwnStems
<1>9. OwnStems'
  <2>1. \A v \in Writers : Busy(v)' => job'[v].stem \in 1..stems' /\ job'[v].text # None
    BY <1>1, <1>7 DEF SnapInv, OwnStems
  <2>2. \A v \in Writers : job'[v].pc # "idle" => job'[v].dir # None
    BY <1>1, <1>5 DEF SnapInv, OwnStems
  <2>3. \A u, v \in Writers : u # v /\ Busy(u)' /\ Busy(v)' => job'[u].stem # job'[v].stem
    BY <1>7 DEF SnapInv, OwnStems
  <2>4. ASSUME NEW v \in Writers, Busy(v)', NEW r \in RaceIds, NEW file \in files'[r],
               file.stem = job'[v].stem
        PROVE  job'[v].pc # "csv" /\ r = job'[v].dir
    <3>1. CASE file \in files[r]
      BY <1>5, <1>7, <2>4, <3>1 DEF SnapInv, OwnStems
    <3>2. CASE file = new /\ r = d
      <4>1. v = w
        BY <1>1, <1>3, <1>7, <2>4, <3>2 DEF SnapInv, OwnStems
      <4> QED BY <1>5, <3>2, <4>1
    <3> QED BY <1>4, <2>4, <3>1, <3>2
  <2> QED BY <2>1, <2>2, <2>3, <2>4 DEF OwnStems
<1>10. \A r \in RaceIds, stem \in Nat : Halves(r, stem)' \in SUBSET Halves(r, stem)
  BY <1>1, <1>3, <1>4, <1>5 DEF Halves
<1>11. HalvesCost'
  BY <1>1, <1>7, <1>10, FewerHalves DEF vars
<1>12. OneFilePerStem'
  BY <1>1, <1>2, <1>3, <1>4, <1>8 DEF SnapInv, OneFilePerStem
<1>13. CopyLeaves'
  <2>1. \A v \in Writers \ {w} : files[job[v].dir] \subseteq files'[job'[v].dir]
                                 \/ ~Busy(v)
    BY <1>1, <1>4, <1>5, BusyFields
  <2>2. \A v \in Writers \ {w} : job[v].pc \in {"backup", "prune"} => Busy(v)
    BY DEF Busy
  <2>3. new \in files'[job'[w].dir] /\ new.stem >= job'[w].stem /\ new.stem = job'[w].stem
    BY <1>2, <1>3, <1>4, <1>5
  <2> QED BY <1>5, <2>1, <2>2, <2>3 DEF SnapInv, CopyLeaves
<1>14. Survives
  BY <1>4 DEF Survives
<1> QED BY <1>1, <1>6, <1>9, <1>11, <1>12, <1>13, <1>14 DEF SnapInv

(* The second file: the half becomes complete, if it is still there.       *)
LEMMA CompleteHalf ==
  ASSUME SnapInv, NEW w \in Writers, Backup(w) PROVE SnapInv' /\ Survives
<1> DEFINE d       == job[w].dir
           s       == job[w].stem
           done(f) == IF f.stem = s THEN [f EXCEPT !.db = db.active] ELSE f
<1>1. /\ RacesInv' /\ job[w].pc = "backup" /\ Busy(w) /\ UNCHANGED <<vars, stems>>
      /\ files' = [files EXCEPT ![d] = {done(f) : f \in @}]
      /\ job' = [job EXCEPT ![w].pc = "prune"]
  BY StepRaces DEF SnapInv, Backup, Busy
<1>2. /\ d \in RaceIds /\ s \in Nat /\ db.active \in RaceIds /\ db.active # None
  BY <1>1, BusyFields DEF SnapInv, RacesInv, Core, Shape, Database
<1>3. /\ files \in [RaceIds -> SUBSET File] /\ files'[d] = {done(f) : f \in files[d]}
      /\ \A r \in RaceIds \ {d} : files'[r] = files[r]
  BY <1>1, <1>2 DEF SnapInv, SnapTypeOK
<1>4. ASSUME NEW f \in files[d]
      PROVE  /\ done(f) \in File /\ done(f).stem = f.stem /\ done(f).csv = f.csv
             /\ f.stem = s => done(f).db = db.active
             /\ f.stem # s => done(f) = f
             /\ Complete(f) => Complete(done(f))
  <2>1. f \in File
    BY <1>2, <1>3
  <2> QED BY <1>2, <2>1 DEF File, Complete
<1>5. /\ job \in [Writers -> Job] /\ job' \in [Writers -> Job] /\ job'[w].pc = "prune"
      /\ job'[w].dir = d /\ job'[w].text = job[w].text /\ job'[w].stem = s
      /\ \A v \in Writers \ {w} : job'[v] = job[v]
  BY <1>1 DEF SnapInv, SnapTypeOK, Job
<1>6. ASSUME NEW r \in RaceIds, NEW file \in files'[r]
      PROVE  \E f \in files[r] : /\ file.stem = f.stem /\ file.csv = f.csv /\ file \in File
                                 /\ f.stem = s /\ r = d => file.db = db.active
                                 /\ f.stem # s \/ r # d => file = f
  <2>1. CASE r = d
    <3>1. PICK f \in files[d] : file = done(f)
      BY <1>3, <1>6, <2>1
    <3> HIDE DEF done
    <3> QED BY <1>4, <2>1, <3>1
  <2>2. CASE r # d
    BY <1>3, <1>6, <2>2
  <2> QED BY <2>1, <2>2
<1>7. ASSUME NEW r \in RaceIds, NEW f \in files[r]
      PROVE  \E file \in files'[r] : /\ file.stem = f.stem /\ (Complete(f) => Complete(file))
                                     /\ f.stem = s /\ r = d => Complete(file)
  <2>1. CASE r = d
    <3>1. done(f) \in files'[d] /\ f.csv # None
      BY <1>2, <1>3, <1>7, <2>1 DEF SnapInv, OneFilePerStem
    <3>2. f.stem = s => Complete(done(f))
      BY <1>2, <1>4, <1>7, <2>1, <3>1 DEF Complete
    <3> HIDE DEF done
    <3> QED BY <1>4, <1>7, <2>1, <3>1, <3>2
  <2>2. CASE r # d
    BY <1>3, <1>7, <2>2
  <2> QED BY <2>1, <2>2
<1> HIDE DEF done
<1>8. SnapTypeOK'
  <2>1. files' \in [RaceIds -> SUBSET File]
    <3>1. \A r \in RaceIds : files'[r] \in SUBSET File
      BY <1>6
    <3>2. DOMAIN files' = RaceIds /\ files' = [r \in RaceIds |-> files'[r]]
      BY <1>1, <1>3
    <3> QED BY <3>1, <3>2
  <2> QED BY <1>1, <1>5, <2>1 DEF SnapInv, SnapTypeOK
<1>9. \A v \in Writers : Busy(v)' => /\ Busy(v) /\ job'[v].stem = job[v].stem
                                     /\ job'[v].dir = job[v].dir /\ job'[v].text = job[v].text
  BY <1>1, <1>5 DEF Busy
<1>10. OwnStems'
  <2>1. \A v \in Writers : Busy(v)' => job'[v].stem \in 1..stems' /\ job'[v].text # None
    BY <1>1, <1>9 DEF SnapInv, OwnStems
  <2>2. \A v \in Writers : job'[v].pc # "idle" => job'[v].dir # None
    BY <1>1, <1>5 DEF SnapInv, OwnStems
  <2>3. \A u, v \in Writers : u # v /\ Busy(u)' /\ Busy(v)' => job'[u].stem # job'[v].stem
    BY <1>9 DEF SnapInv, OwnStems
  <2>4. \A v \in Writers : Busy(v)' => \A r \in RaceIds : \A f \in files[r] :
          f.stem = job'[v].stem => job'[v].pc # "csv" /\ r = job'[v].dir
    BY <1>5, <1>9 DEF SnapInv, OwnStems
  <2>5. \A v \in Writers : Busy(v)' => \A r \in RaceIds : \A file \in files'[r] :
          file.stem = job'[v].stem => job'[v].pc # "csv" /\ r = job'[v].dir
    BY <1>6, <2>4
  <2> QED BY <2>1, <2>2, <2>3, <2>5 DEF OwnStems
<1>11. ASSUME NEW r \in RaceIds, NEW stem, NEW file \in Halves(r, stem)'
       PROVE  file \in Halves(r, stem)
  <2>1. /\ file \in files'[r] /\ file.db = None /\ file.stem > stem
        /\ \A u \in Writers : ~(job'[u].pc = "backup" /\ job'[u].stem = file.stem)
    BY <1>11 DEF Halves
  <2>2. file \in files[r] /\ ~(file.stem = s /\ r = d)
    BY <1>2, <1>6, <2>1
  <2>3. file.stem # s
    BY <1>1, <2>2 DEF SnapInv, OwnStems
  <2> QED BY <1>5, <2>1, <2>2, <2>3 DEF Halves
<1>12. HalvesCost'
  BY <1>1, <1>9, <1>11, FewerHalves DEF vars
<1>13. OneFilePerStem'
  <2>1. ASSUME NEW r \in RaceIds, NEW a \in files'[r], NEW b \in files'[r], a.stem = b.stem
        PROVE  a = b
    <3>1. PICK f \in files[r] : /\ a.stem = f.stem
                                /\ f.stem # s \/ r # d => a = f
                                /\ f.stem = s /\ r = d => a = done(f)
      BY <1>3, <1>4, <1>6, <2>1
    <3>2. PICK g \in files[r] : /\ b.stem = g.stem
                                /\ g.stem # s \/ r # d => b = g
                                /\ g.stem = s /\ r = d => b = done(g)
      BY <1>3, <1>4, <1>6, <2>1
    <3>3. f = g
      BY <2>1, <3>1, <3>2 DEF SnapInv, OneFilePerStem
    <3> QED BY <3>1, <3>2, <3>3
  <2>2. ASSUME NEW r \in RaceIds, NEW file \in files'[r]
        PROVE  file.csv # None /\ file.stem <= stems'
    BY <1>1, <1>6, <2>2 DEF SnapInv, OneFilePerStem
  <2> QED BY <2>1, <2>2 DEF OneFilePerStem
<1>14. CopyLeaves'
  <2>1. PICK f \in files[d] : f.stem >= s /\ (f.stem = s \/ Complete(f))
    BY <1>1 DEF SnapInv, CopyLeaves
  <2>2. \E file \in files'[job'[w].dir] : file.stem >= job'[w].stem /\ Complete(file)
    BY <1>2, <1>5, <1>7, <2>1
  <2>3. ASSUME NEW v \in Writers \ {w}, job'[v].pc = "backup"
        PROVE  \E file \in files'[job'[v].dir] :
                 file.stem >= job'[v].stem /\ (file.stem = job'[v].stem \/ Complete(file))
    <3>1. Busy(v) /\ job'[v] = job[v] /\ job[v].pc = "backup"
      BY <1>5, <2>3 DEF Busy
    <3>2. PICK g \in files[job[v].dir] :
            g.stem >= job[v].stem /\ (g.stem = job[v].stem \/ Complete(g))
      BY <3>1 DEF SnapInv, CopyLeaves
    <3> QED BY <1>7, <3>1, <3>2, BusyFields
  <2>4. ASSUME NEW v \in Writers \ {w}, job'[v].pc = "prune"
        PROVE  \E file \in files'[job'[v].dir] : file.stem >= job'[v].stem /\ Complete(file)
    <3>1. Busy(v) /\ job'[v] = job[v] /\ job[v].pc = "prune"
      BY <1>5, <2>4 DEF Busy
    <3>2. PICK g \in files[job[v].dir] : g.stem >= job[v].stem /\ Complete(g)
      BY <3>1 DEF SnapInv, CopyLeaves
    <3> QED BY <1>7, <3>1, <3>2, BusyFields
  <2> QED BY <1>5, <2>2, <2>3, <2>4 DEF CopyLeaves, Complete
<1>15. Survives
  BY <1>7 DEF Survives
<1> QED BY <1>1, <1>8, <1>10, <1>12, <1>13, <1>14, <1>15 DEF SnapInv

(* The pruning leaves every race a complete snapshot that had one, and     *)
(* every writer what it counts on.                                         *)
LEMMA PruneFiles ==
  ASSUME SnapInv, NEW w \in Writers, Prune(w) PROVE SnapInv' /\ Survives
<1> DEFINE d == job[w].dir
           s == job[w].stem
<1>1. /\ RacesInv' /\ job[w].pc = "prune" /\ Busy(w) /\ UNCHANGED <<vars, stems>>
      /\ files' = [files EXCEPT ![d] = Kept(@)] /\ job' = [job EXCEPT ![w] = Idle]
  BY StepRaces DEF SnapInv, Prune, Busy
<1>2. d \in RaceIds /\ s \in Nat
  BY <1>1, BusyFields
<1>3. /\ files \in [RaceIds -> SUBSET File] /\ files'[d] = Kept(files[d])
      /\ \A r \in RaceIds \ {d} : files'[r] = files[r]
  BY <1>1, <1>2 DEF SnapInv, SnapTypeOK
<1>4. \A r \in RaceIds : files'[r] \subseteq files[r]
  BY <1>3 DEF Kept
<1>5. Idle \in Job /\ Idle.pc = "idle"
  BY KeepAssumption DEF Idle, Job
<1>6. /\ job \in [Writers -> Job] /\ job' \in [Writers -> Job] /\ job'[w].pc = "idle"
      /\ \A v \in Writers \ {w} : job'[v] = job[v]
  BY <1>1, <1>5 DEF SnapInv, SnapTypeOK
<1>7. SnapTypeOK'
  <2>1. files' \in [RaceIds -> SUBSET File]
    BY <1>1, <1>2, <1>3, <1>4
  <2> QED BY <1>1, <1>6, <2>1 DEF SnapInv, SnapTypeOK
<1>8. \A v \in Writers : Busy(v)' => Busy(v) /\ v # w /\ job'[v] = job[v]
  BY <1>6 DEF Busy
<1>9. OwnStems'
  <2>1. \A v \in Writers : Busy(v)' => job'[v].stem \in 1..stems' /\ job'[v].text # None
    BY <1>1, <1>8 DEF SnapInv, OwnStems
  <2>2. \A v \in Writers : job'[v].pc # "idle" => job'[v].dir # None
    BY <1>6 DEF SnapInv, OwnStems
  <2>3. \A u, v \in Writers : u # v /\ Busy(u)' /\ Busy(v)' => job'[u].stem # job'[v].stem
    BY <1>8 DEF SnapInv, OwnStems
  <2>4. \A v \in Writers : Busy(v)' => \A r \in RaceIds : \A file \in files'[r] :
          file.stem = job'[v].stem => job'[v].pc # "csv" /\ r = job'[v].dir
    BY <1>4, <1>8 DEF SnapInv, OwnStems
  <2> QED BY <2>1, <2>2, <2>3, <2>4 DEF OwnStems
<1>10. \A r \in RaceIds, stem \in Nat : Halves(r, stem)' \in SUBSET Halves(r, stem)
  BY <1>1, <1>4, <1>6 DEF Halves
<1>11. HalvesCost'
  BY <1>1, <1>8, <1>10, FewerHalves DEF vars
<1>12. OneFilePerStem'
  BY <1>1, <1>4 DEF SnapInv, OneFilePerStem
<1>13. ASSUME NEW v \in Writers, Busy(v), NEW file \in files[job[v].dir], Complete(file),
              file.stem >= job[v].stem
       PROVE  \E kept \in files'[job[v].dir] : Complete(kept) /\ kept.stem >= job[v].stem
  <2>1. job[v].dir \in RaceIds /\ job[v].stem \in Nat
    BY <1>13, BusyFields
  <2>2. CASE job[v].dir # d
    BY <1>3, <1>13, <2>1, <2>2
  <2>3. CASE job[v].dir = d
    <3>1. PICK kept \in Kept(files[job[v].dir]) : Complete(kept) /\ kept.stem >= file.stem
      BY <1>1, <1>13, CompleteIsKept
    <3>2. kept \in files[d] /\ kept \in files'[d]
      BY <1>3, <2>3, <3>1 DEF Kept
    <3>3. kept.stem \in Nat /\ file.stem \in Nat
      BY <1>2, <1>13, <2>3, <3>2, FileFields DEF SnapInv
    <3> QED BY <1>13, <2>1, <2>3, <3>1, <3>2, <3>3
  <2> QED BY <2>2, <2>3
<1>14. CopyLeaves'
  <2>1. ASSUME NEW v \in Writers, job'[v].pc = "prune"
        PROVE  \E file \in files'[job'[v].dir] : file.stem >= job'[v].stem /\ Complete(file)
    <3>1. Busy(v) /\ job'[v] = job[v] /\ job[v].pc = "prune"
      BY <1>6, <2>1 DEF Busy
    <3>2. PICK g \in files[job[v].dir] : g.stem >= job[v].stem /\ Complete(g)
      BY <3>1 DEF SnapInv, CopyLeaves
    <3> QED BY <1>13, <3>1, <3>2
  <2>2. ASSUME NEW v \in Writers, job'[v].pc = "backup"
        PROVE  \E file \in files'[job'[v].dir] :
                 file.stem >= job'[v].stem /\ (file.stem = job'[v].stem \/ Complete(file))
    <3>1. Busy(v) /\ job'[v] = job[v] /\ job[v].pc = "backup" /\ v # w
      BY <1>6, <2>2 DEF Busy
    <3>2. PICK g \in files[job[v].dir] :
            g.stem >= job[v].stem /\ (g.stem = job[v].stem \/ Complete(g))
      BY <3>1 DEF SnapInv, CopyLeaves
    <3>3. job[v].dir \in RaceIds /\ job[v].stem \in Nat
      BY <3>1, BusyFields
    <3>4. CASE \E f \in files[job[v].dir] : Complete(f) /\ f.stem >= job[v].stem
      BY <1>13, <3>1, <3>4
    <3>5. CASE ~\E f \in files[job[v].dir] : Complete(f) /\ f.stem >= job[v].stem
      <4> DEFINE newer == {f \in files[job[v].dir] : f.stem > g.stem}
      <4>1. g.stem = job[v].stem
        BY <3>2, <3>5
      <4>2. \A f \in newer : f.stem \in Nat /\ f.csv # None
        BY <3>3, FileFields DEF SnapInv, OneFilePerStem
      <4>3. \A f \in newer : f.db = None /\ f.stem > job[v].stem
        BY <3>3, <3>5, <4>1, <4>2 DEF Complete
      <4>4. Cardinality(newer) < Keep
        BY <1>1, <3>1, <4>3, FewHalves
      <4>5. g \in Kept(files[job[v].dir])
        BY <4>4 DEF Kept
      <4>6. g \in files'[job[v].dir]
        BY <1>3, <3>3, <4>5
      <4> QED BY <3>1, <3>2, <4>6
    <3> QED BY <3>4, <3>5
  <2> QED BY <2>1, <2>2 DEF CopyLeaves, Complete
<1>15. Survives
  <2>1. PICK file \in files[d] : file.stem >= s /\ Complete(file)
    BY <1>1 DEF SnapInv, CopyLeaves
  <2>2. \E kept \in files'[d] : Complete(kept)
    BY <1>1, <1>13, <2>1
  <2> QED BY <1>3, <2>2 DEF Survives
<1> QED BY <1>1, <1>7, <1>9, <1>11, <1>12, <1>14, <1>15 DEF SnapInv

(* A snapshot that fails leaves a half at most, and is one of the faults.  *)
LEMMA SnapshotFails ==
  ASSUME SnapInv, NEW w \in Writers, Fail(w) PROVE SnapInv' /\ Survives
<1>1. /\ job[w].pc \in {"csv", "backup"} /\ Busy(w) /\ faults < MaxFaults /\ faults' = faults + 1
      /\ UNCHANGED <<files, stems>> /\ job' = [job EXCEPT ![w] = Idle]
      /\ UNCHANGED <<db, memory, todo, ingest, clock, acked, erased, overlap, torn, requests>>
  BY DEF Fail, Busy
<1>2. RacesInv' /\ faults \in Nat
  <2>1. faults' \in 0..MaxFaults /\ faults \in Nat
    BY <1>1 DEF SnapInv, RacesInv, Core, Shape
  <2>2. Shape'
    BY <1>1, <2>1 DEF SnapInv, RacesInv, Core, Shape
  <2>3. ActiveExists' /\ MemoryExists' /\ SameRace' /\ StepsNameRaces'
    BY <1>1 DEF SnapInv, RacesInv, Core, ActiveExists, MemoryExists, SameRace, StepsNameRaces,
       Sound, Exists
  <2>4. PassesAreLogged' /\ IngestIsKept' /\ overlap' \in BOOLEAN /\ torn' \in BOOLEAN
    BY <1>1 DEF SnapInv, RacesInv, Core, PassesAreLogged, IngestIsKept, Logged
  <2> QED BY <2>1, <2>2, <2>3, <2>4 DEF RacesInv, Core
<1>3. Idle \in Job /\ Idle.pc = "idle"
  BY KeepAssumption DEF Idle, Job
<1>4. /\ job \in [Writers -> Job] /\ job' \in [Writers -> Job] /\ job'[w].pc = "idle"
      /\ \A v \in Writers \ {w} : job'[v] = job[v]
  BY <1>1, <1>3 DEF SnapInv, SnapTypeOK
<1>5. \A v \in Writers : Busy(v)' => Busy(v) /\ v # w /\ job'[v] = job[v]
  BY <1>4 DEF Busy
<1>6. SnapTypeOK' /\ OwnStems' /\ OneFilePerStem'
  <2>1. SnapTypeOK'
    BY <1>1, <1>4 DEF SnapInv, SnapTypeOK
  <2>2. OwnStems'
    BY <1>1, <1>4, <1>5 DEF SnapInv, OwnStems
  <2>3. OneFilePerStem'
    BY <1>1 DEF SnapInv, OneFilePerStem
  <2> QED BY <2>1, <2>2, <2>3
<1>7. HalvesCost'
  <2> SUFFICES ASSUME NEW v \in Writers, Busy(v)'
               PROVE  Cardinality(Halves(job[v].dir, job[v].stem)') <= faults'
    BY DEF HalvesCost
  <2>1. Busy(v) /\ v # w /\ job'[v] = job[v] /\ job[v].dir \in RaceIds
    BY <1>5, BusyFields
  <2> DEFINE r    == job[v].dir
             s    == job[v].stem
             left == {f \in files[r] : f.stem = job[w].stem}
  <2>2. Halves(job[v].dir, job[v].stem)' \in SUBSET (Halves(r, s) \cup left)
    BY <1>1, <1>4, <2>1 DEF Halves
  <2>3. \A f, g \in left : f = g
    BY <2>1 DEF SnapInv, OneFilePerStem
  <2>4. PICK f : left \in SUBSET {f}
    BY <2>3
  <2> HIDE DEF left
  <2>5. IsFiniteSet(Halves(r, s)) /\ Cardinality(Halves(r, s)) \in Nat
        /\ Cardinality(Halves(r, s)) <= faults
    BY <2>1, HalvesFinite DEF SnapInv, HalvesCost
  <2>6. /\ IsFiniteSet(Halves(r, s) \cup {f})
        /\ Cardinality(Halves(r, s) \cup {f}) \in Nat
        /\ Cardinality(Halves(r, s) \cup {f}) <= Cardinality(Halves(r, s)) + 1
    BY <2>5, FS_AddElement
  <2>7. Halves(job[v].dir, job[v].stem)' \in SUBSET (Halves(r, s) \cup {f})
    BY <2>2, <2>4
  <2>8. /\ Cardinality(Halves(job[v].dir, job[v].stem)') \in Nat
        /\ Cardinality(Halves(job[v].dir, job[v].stem)')
             <= Cardinality(Halves(r, s) \cup {f})
    BY <2>6, <2>7, FS_Subset, FS_CardinalityType
  <2> QED BY <1>1, <1>2, <2>5, <2>6, <2>8
<1>8. CopyLeaves' /\ Survives
  BY <1>1, <1>4 DEF SnapInv, CopyLeaves, Survives
<1> QED BY <1>2, <1>6, <1>7, <1>8 DEF SnapInv

LEMMA InitSnap == SnapInit => SnapInv
<1> SUFFICES ASSUME SnapInit PROVE SnapInv
  OBVIOUS
<1>1. /\ RacesInv /\ files = [r \in RaceIds |-> {}] /\ job = [w \in Writers |-> Idle]
      /\ stems = 0
  BY InitRaces DEF SnapInit
<1>2. Idle \in Job /\ \A w \in Writers : job[w].pc = "idle"
  BY <1>1, KeepAssumption DEF Idle, Job
<1>3. SnapTypeOK
  BY <1>1, <1>2, KeepAssumption DEF SnapTypeOK
<1>4. OwnStems /\ OneFilePerStem /\ HalvesCost /\ CopyLeaves
  BY <1>1, <1>2 DEF OwnStems, OneFilePerStem, HalvesCost, CopyLeaves, Busy
<1> QED BY <1>1, <1>3, <1>4 DEF SnapInv

LEMMA SnapStep == SnapInv /\ [SnapNext]_<<vars, snapVars>> => SnapInv' /\ Survives
<1> SUFFICES ASSUME SnapInv, [SnapNext]_<<vars, snapVars>> PROVE SnapInv' /\ Survives
  OBVIOUS
<1>1. CASE /\ \/ Operator /\ job["request"].pc = "idle"
              \/ Proceed \/ Pass \/ Ingest \/ IngestCount
           /\ History /\ UNCHANGED snapVars
  <2>1. Next
    BY <1>1 DEF Next
  <2>2. RacesInv' /\ faults' >= faults
    <3>1. RacesInv' /\ faults \in Nat
      BY <2>1, StepRaces DEF SnapInv, RacesInv, Core, Shape
    <3>2. faults' \in {faults, faults + 1}
      BY <1>1 DEF Operator, DeleteRace, Activate, CreateRace, PatchRaceById, Mirror, PatchRace,
         PatchConfig, StartRace, EndRace, Request, Proceed, Pass, Ingest, IngestCount
    <3> QED BY <3>1, <3>2
  <2> QED BY <1>1, <2>2, RaceGoesOn DEF snapVars
<1>2. CASE Crash /\ History /\ job' = [w \in Writers |-> Idle] /\ UNCHANGED <<files, stems>>
  <2>1. RacesInv'
    BY <1>2, StepRaces DEF Next, SnapInv
  <2> QED BY <1>2, <2>1, WritersDie
<1>3. CASE Look \/ Ask
  BY <1>3, BeginSnapshot DEF Look, Ask, Writers
<1>4. CASE \E w \in Writers : Writer(w)
  BY <1>4, BuildSnapshot, WriteHalf, CompleteHalf, PruneFiles, SnapshotFails DEF Writer
<1>5. CASE UNCHANGED <<vars, snapVars>>
  <2>1. RacesInv' /\ faults' >= faults
    BY <1>5, StepRaces DEF SnapInv, RacesInv, Core, Shape, vars
  <2> QED BY <1>5, <2>1, RaceGoesOn DEF snapVars
<1> QED BY <1>1, <1>2, <1>3, <1>4, <1>5 DEF SnapNext

(* The invariant of the snapshots. *)
THEOREM SnapInvariant == SnapSpec => []SnapInv
BY InitSnap, SnapStep, PTL DEF SnapSpec

(* The snapshot files and the writers keep their types. *)
THEOREM SnapTypeCorrect == SnapSpec => []SnapTypeOK
<1>1. SnapInv => SnapTypeOK
  BY DEF SnapInv
<1> QED BY <1>1, SnapInvariant, PTL

(* A race that has a complete snapshot keeps one, however two writers,     *)
(* prunings, failures and crashes interleave, as long as more snapshots    *)
(* are kept than fail (write_snapshot, cleanup_old_snapshots).             *)
THEOREM SnapshotAlwaysSurvives == SnapSpec => SnapshotSurvives
<1>1. SnapInv /\ [SnapNext]_<<vars, snapVars>> =>
        [ \A r \in RaceIds : (\E file \in files[r] : Complete(file))
                               => \E file \in files'[r] : Complete(file) ]_snapVars
  BY SnapStep DEF Survives
<1> QED BY <1>1, SnapInvariant, PTL DEF SnapSpec, SnapshotSurvives
==============================================================================
