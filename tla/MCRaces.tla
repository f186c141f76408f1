---------------------------------- MODULE MCRaces ----------------------------------
(***************************************************************************)
(* Two kinds of day for one run: races are created, switched and edited    *)
(* while passes come in; or races are only switched, and snapshots taken.  *)
(***************************************************************************)
EXTENDS Snapshots

VARIABLE day

DayInit == SnapInit /\ day \in {"racing", "snapshots"}

Racing == Operator \/ Proceed \/ Pass \/ Ingest \/ IngestCount \/ Crash

Snapshooting ==
  \/ /\ \/ StartRace /\ memory.started = None
        \/ \E r \in RaceIds \ {db.active} :
             Activate(r) \/ (\E laps \in LapCounts : CreateRace(r, laps)) \/ DeleteRace(r)
     /\ requests < 3 /\ job["request"].pc = "idle"
  \/ Proceed

DayNext ==
  /\ \/ day = "racing" /\ Racing /\ History /\ UNCHANGED snapVars
     \/ /\ day = "snapshots"
        /\ \/ Snapshooting /\ History /\ UNCHANGED snapVars
           \/ Crash /\ History /\ job' = [w \in Writers |-> Idle] /\ UNCHANGED <<files, stems>>
           \/ Look \/ Ask
           \/ \E w \in Writers : Writer(w)
  /\ UNCHANGED day

DaySpec == DayInit /\ [][DayNext]_<<vars, snapVars, day>>
==============================================================================
