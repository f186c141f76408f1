-------------------------------- MODULE Snapshots --------------------------------
(***************************************************************************)
(* The snapshots of the races: a timer thread writes one of the active     *)
(* race whenever one is due, the operator asks for one at any time.  A     *)
(* snapshot is a CSV file and a copy of the database under one stem in the *)
(* directory of its race; after each only the newest are kept.  Writing    *)
(* may fail half-way, and the process may die anywhere.                    *)
(*                                                                         *)
(* Every race has an interval; when it has passed is left open.            *)
(***************************************************************************)
EXTENDS Races, FiniteSets

CONSTANTS Keep,         \* ROLLING_WINDOW
          MaxStems      \* bound: snapshots begun

Writers == {"timer", "request"}

(* Fewer snapshots fail than are kept, which are 30. *)
ASSUME KeepAssumption == Keep \in Nat /\ Keep >= MaxFaults + 2 /\ MaxStems \in Nat

VARIABLES
  files,        \* the snapshot files of each race
  job,          \* what each writer is doing
  stems         \* the stems used so far: the clock

snapVars == <<files, job, stems>>
------------------------------------------------------------------------------
File == [stem : 1..MaxStems, csv : RaceIds \cup {None}, db : RaceIds \cup {None}]
Job  == [pc : {"idle", "build", "csv", "backup", "prune"}, dir : RaceIds \cup {None},
         text : RaceIds \cup {None}, stem : 0..MaxStems]
Idle == [pc |-> "idle", dir |-> None, text |-> None, stem |-> 0]

SnapInit ==
  /\ Init
  /\ files = [r \in RaceIds |-> {}] /\ job = [w \in Writers |-> Idle] /\ stems = 0

Complete(file) == file.csv # None /\ file.db # None

(* _snapshot_state_provider(): which race, if it has started. *)
Look ==
  /\ job["timer"].pc = "idle" /\ memory.started # None /\ Exists(memory.id)
  /\ job' = [job EXCEPT !["timer"] = [Idle EXCEPT !.pc = "build", !.dir = memory.id]]
  /\ UNCHANGED <<vars, files, stems>>

(* POST /races/{id}/snapshots of the active race. *)
Ask ==
  /\ job["request"].pc = "idle" /\ todo = <<>>
  /\ job' = [job EXCEPT !["request"] = [Idle EXCEPT !.pc = "build", !.dir = memory.id]]
  /\ UNCHANGED <<vars, files, stems>>

(* The classification of the race in memory by now, and the stem. *)
Build(w) ==
  /\ job[w].pc = "build" /\ stems < MaxStems
  /\ stems' = stems + 1
  /\ job' = [job EXCEPT ![w].pc = "csv", ![w].text = memory.id, ![w].stem = stems']
  /\ UNCHANGED <<vars, files>>

(* write_snapshot(): the CSV file ... *)
WriteCsv(w) ==
  /\ job[w].pc = "csv"
  /\ files' = [files EXCEPT ![job[w].dir] =
                 @ \cup {[stem |-> job[w].stem, csv |-> job[w].text, db |-> None]}]
  /\ job' = [job EXCEPT ![w].pc = "backup"]
  /\ UNCHANGED <<vars, stems>>

(* ... the copy of the database, ...                                       *)
Backup(w) ==
  /\ job[w].pc = "backup"
  /\ files' = [files EXCEPT ![job[w].dir] =
                 {IF file.stem = job[w].stem THEN [file EXCEPT !.db = db.active] ELSE file
                    : file \in @}]
  /\ job' = [job EXCEPT ![w].pc = "prune"]
  /\ UNCHANGED <<vars, stems>>

(* Mutant: only the newest stem is kept. *)
KeptNewest(all) == {file \in all : \A f \in all : f.stem <= file.stem}

(* cleanup_old_snapshots(): the newest stems, with one file or both. *)
Kept(all) == {file \in all : Cardinality({f \in all : f.stem > file.stem}) < Keep}

(* ... and the pruning.                                                    *)
Prune(w) ==
  /\ job[w].pc = "prune"
  /\ files' = [files EXCEPT ![job[w].dir] = Kept(@)]
  /\ job' = [job EXCEPT ![w] = Idle]
  /\ UNCHANGED <<vars, stems>>

(* A file cannot be written: the snapshot is given up, the next comes.     *)
Fail(w) ==
  /\ job[w].pc \in {"csv", "backup"} /\ faults < MaxFaults
  /\ faults' = faults + 1
  /\ job' = [job EXCEPT ![w] = Idle]
  /\ UNCHANGED <<db, memory, todo, ingest, clock, acked, erased, overlap, torn, requests,
                 files, stems>>

Writer(w) == Build(w) \/ WriteCsv(w) \/ Backup(w) \/ Prune(w) \/ Fail(w)

SnapNext ==
  \/ /\ \/ Operator /\ job["request"].pc = "idle"
        \/ Proceed \/ Pass \/ Ingest \/ IngestCount
     /\ History /\ UNCHANGED snapVars
  \/ Crash /\ History /\ job' = [w \in Writers |-> Idle] /\ UNCHANGED <<files, stems>>
  \/ Look \/ Ask
  \/ \E w \in Writers : Writer(w)

SnapSpec == SnapInit /\ [][SnapNext]_<<vars, snapVars>>
------------------------------------------------------------------------------
SnapTypeOK ==
  /\ files \in [RaceIds -> SUBSET File]
  /\ job \in [Writers -> Job]
  /\ stems \in 0..MaxStems

(* A race that has a complete snapshot always has one: failed and cut      *)
(* short ones, two writers at a time and the pruning never leave it with   *)
(* halves only.                                                            *)
SnapshotSurvives ==
  [][ \A r \in RaceIds : (\E file \in files[r] : Complete(file))
                           => \E file \in files'[r] : Complete(file) ]_snapVars
==============================================================================
