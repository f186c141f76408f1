------------------------------- MODULE Readings -------------------------------
(***************************************************************************)
(* The readings sheet (GET /readings.xlsx): every stored reading of the    *)
(* race with the verdict whether it counted as a lap.  The verdict is not  *)
(* stored; the export replays the readings through a fresh race.  It is a  *)
(* request of its own thread, which reads the row of the race, the riders  *)
(* and the readings one after the other while the others go on.            *)
(***************************************************************************)
EXTENDS Backend, SequencesExt

VARIABLE export       \* what the exporting thread has read, the sheet, and (history)
                      \* whether the file has not changed meanwhile

Reading == [row : Row, counted : BOOLEAN,
            lap : Nat,                       \* None: not counted
            since_start : Int, gap_lap : Int,  \* None: no earlier counted reading
            known : BOOLEAN]                 \* a rider is named in the row

NoExport == [pc |-> "idle", file |-> <<>>, riders |-> <<>>, sheet |-> <<>>, settled |-> TRUE]
------------------------------------------------------------------------------
(* Mutant: the gap to the last lap is that to the last reading. *)
GapToAny(previous, tag, ts, counted) == [previous EXCEPT ![tag] = ts]

(* previous_lap after a reading. *)
NextPrevious(previous, tag, ts, counted) ==
  IF counted THEN [previous EXCEPT ![tag] = ts] ELSE previous

(* One row: fed into the fresh race if the rider is registered and the     *)
(* race had not ended; it counted if the laps of the rider grew.           *)
ReadRow(acc, row, started_at, ended_at, registry) ==
  LET tag     == row.tag
      fed     == IF Replayable(row, registry, ended_at)
                 THEN AddLap(acc.race, tag, row.ts, now) ELSE acc.race
      counted == Laps(fed, tag) > Laps(acc.race, tag)
      before  == acc.previous_lap[tag]
      reading == [row         |-> row,
                  counted     |-> counted,
                  lap         |-> IF counted THEN Laps(fed, tag) ELSE None,
                  since_start |-> IF started_at # None THEN row.ts - started_at ELSE None,
                  gap_lap     |-> IF before # None THEN row.ts - before ELSE None,
                  known       |-> registry[tag] # "unregistered"]
  IN  [race         |-> fed,
       previous_lap |-> NextPrevious(acc.previous_lap, tag, row.ts, counted),
       rows         |-> Append(acc.rows, reading)]

(* The race of the replay: that of the row, the meta key is not looked at. *)
Fresh(format, started_at) ==
  IF started_at # None THEN Start(NewRace(format), started_at) ELSE NewRace(format)

InOrder(log) == SetToSortSeq(log, Before)

(* _collect_readings. *)
Collect(file, registry, log) ==
  LET empty == [race |-> Fresh(file.format, file.started_at),
                previous_lap |-> [tag \in Tags |-> None], rows |-> <<>>]
      read(acc, row) == ReadRow(acc, row, file.started_at, file.ended_at, registry)
  IN  FoldLeft(read, empty, InOrder(log)).rows

(* The sheet Zusammenfassung: a line for each tag that was read. *)
Summary(sheet) ==
  LET of(tag) == {i \in DOMAIN sheet : sheet[i].row.tag = tag}
  IN  [tag \in {sheet[i].row.tag : i \in DOMAIN sheet} |->
         [reads   |-> Cardinality(of(tag)),
          counted |-> Cardinality({i \in of(tag) : sheet[i].counted})]]
------------------------------------------------------------------------------
ExportRace ==
  /\ export.pc = "idle" /\ job[Main].pc # "load"
  /\ export' = [export EXCEPT !.pc = "riders",
                              !.file = [format     |-> db.format,
                                        started_at |-> db.started_at,
                                        ended_at   |-> db.ended_at]]
  /\ UNCHANGED vars

ExportRiders ==
  /\ export.pc = "riders"
  /\ export' = [export EXCEPT !.pc = "rows", !.riders = db.riders]
  /\ UNCHANGED vars

ExportRows ==
  /\ export.pc = "rows"
  /\ export' = [export EXCEPT !.pc = "done",
                              !.sheet = Collect(export.file, export.riders, db.log)]
  /\ UNCHANGED vars

Download == export.pc = "done" /\ export' = NoExport /\ UNCHANGED vars

Watch ==
  export' = [export EXCEPT !.settled = export.pc = "idle" \/ (@ /\ db' = db)]

ReadingsInit == Init /\ export = NoExport

Export == ExportRace \/ ExportRiders \/ ExportRows \/ Download

ReadingsNext ==
  \/ Export
  \/ Restart /\ export' = NoExport
  \/ Tick /\ Watch
  \/ \E t \in Threads : (Request(t) \/ Step(t)) /\ Watch

ReadingsSpec == ReadingsInit /\ [][ReadingsNext]_<<vars, export>>
------------------------------------------------------------------------------
Done == export.pc = "done"

ReadingsTypeOK ==
  /\ TypeOK
  /\ export.pc \in {"idle", "riders", "rows", "done"}
  /\ \A i \in DOMAIN export.sheet : export.sheet[i] \in Reading

(* Whatever happens while the sheet is put together, its own columns       *)
(* explain every verdict: a reading of a named rider from the time of the  *)
(* race counted if and only if the cooldown was over, measured from the    *)
(* start or from the last counted reading, both of which the row shows;    *)
(* and the laps of a rider are numbered without a gap.                     *)
VerdictsExplained ==
  Done => \A i \in DOMAIN export.sheet :
    LET r     == export.sheet[i]
        file  == export.file
        ahead == {j \in 1..(i - 1) : export.sheet[j].row.tag = r.row.tag
                                     /\ export.sheet[j].counted}
    IN  /\ r.counted <=>
             /\ r.known /\ file.started_at # None
             /\ file.ended_at # None => r.row.ts <= file.ended_at
             /\ IF r.gap_lap = None THEN r.since_start >= file.format.min_pass
                ELSE r.gap_lap >= file.format.min_pass
        /\ r.counted => r.lap = Cardinality(ahead) + 1

(* Events in order and a file that no request changed meanwhile: the sheet *)
(* counts for every rider the laps that are on the standings, manual laps, *)
(* removed ones and restarts included, but for an event of the very tick   *)
(* the race ended in.                                                      *)
SheetIsStandings ==
  Done /\ Quiet /\ export.settled /\ (\A row \in db.log : row.ts # db.ended_at) =>
    \A tag \in Tags :
      Registered(tag) =>
        Laps(race, tag) = IF tag \in DOMAIN Summary(export.sheet)
                          THEN Summary(export.sheet)[tag].counted ELSE 0

(* The sheet is right: of itself at any time, and next to the standings    *)
(* when nothing has come in between.                                       *)
SheetIsRight == VerdictsExplained /\ SheetIsStandings

(* Stated by _collect_readings ("Manual lap corrections are not part of    *)
(* tag_events and therefore not part of the reconstruction") and by the    *)
(* comment on the column.                                                  *)
ManualLapsLeftOut ==
  Done => \A i \in DOMAIN export.sheet :
            export.sheet[i].counted => ~export.sheet[i].row.manual
==============================================================================
