------------------------------- MODULE MCBackend -------------------------------
(***************************************************************************)
(* Three kinds of race day for one run of Backend: late deliveries and     *)
(* crashes; everything in order; and a day whose readings sheet is asked   *)
(* for once all of them are in.  The day is chosen at the start.           *)
(***************************************************************************)
EXTENDS Readings, TLC

VARIABLE day

(* The bounds of a day: the last tick, and the last one to start the race  *)
(* in, the events stored, the delay of a delivery, the requests served.    *)
Bounds == [
  troubled |-> [time |-> 4, start |-> 4, rows |-> 2, late |-> 2,
                requests |-> Kinds \ {"restart", "judge"}],
  orderly  |-> [time |-> 4, start |-> 4, rows |-> 3, late |-> 0,
                requests |-> Kinds \ {"crash", "register"}],
  reported |-> [time |-> 5, start |-> 2, rows |-> 3, late |-> 0,
                requests |-> {"ingest", "manual", "remove", "start", "end", "report"}]]

TimeTrial == [total_laps |-> 2, min_pass |-> 2, finish_mode |-> "per_rider",
              duration |-> None, final_laps |-> NoLaps]
TimeRace  == [total_laps |-> 2, min_pass |-> 1, finish_mode |-> "leader",
              duration |-> 2, final_laps |-> 1]

AllFormats == {TimeTrial, TimeRace}

FormatsOf == [troubled |-> {TimeTrial, TimeRace}, orderly |-> {TimeTrial, TimeRace},
              reported |-> {TimeTrial}]

DayInit == ReadingsInit /\ day \in DOMAIN Bounds /\ db.format \in FormatsOf[day]

May(kind) == kind \in Bounds[day].requests

(* What may come in on the day: an event again, or a recent one. *)
InTime == \A t \in Threads : job'[t].pc \in {"count", "log"} =>
            \A event \in job'[t].rows :
              Stored(db, event) \/ event.ts + Bounds[day].late >= now

DayRequest(t) ==
  \/ May("ingest") /\ Ingest(t) /\ InTime
  \/ May("manual") /\ ManualLap(t) /\ InTime
  \/ May("remove") /\ RemoveLap(t)
  \/ May("passes") /\ DeletePasses(t)
  \/ May("unregister") /\ DeleteRider(t)
  \/ May("reopen") /\ Reopen(t)
  \/ May("start") /\ StartRace(t) /\ now <= Bounds[day].start
  \/ May("end") /\ EndRace(t)
  \/ May("reset") /\ Reset(t)
  \/ May("register") /\ Register(t)
  \/ May("judge") /\ Judge(t)

AllIn == export'.pc = "riders" => db.last_id = Bounds[day].rows

(* No tick falls into an export (nothing it reads depends on the time), and *)
(* a sheet that is done is taken before anything else: it changes no more. *)
DayNext ==
  /\ \/ export.pc = "idle" /\ Tick /\ now < Bounds[day].time /\ Watch
     \/ Restart /\ (May("crash") \/ Quiet) /\ export' = NoExport
     \/ /\ export.pc # "done"
        /\ \E t \in Threads : (DayRequest(t) \/ Step(t)) /\ Watch
     \/ May("report") /\ Export /\ AllIn
  /\ db'.last_id <= Bounds[day].rows
  /\ UNCHANGED day

DaySpec == DayInit /\ [][DayNext]_<<vars, export, day>>

ReportedSpec == DayInit /\ day = "reported" /\ [][DayNext]_<<vars, export, day>>

TagSymmetry == Permutations(Tags)
------------------------------------------------------------------------------
(* Late deliveries and crashes: a lap on the standings is on disk, and a   *)
(* restart loses none.                                                     *)
LapsSurvive == day \in {"troubled", "orderly"} => CountedAreLogged /\ RestartLosesNoLap

(* Events in order: a restart changes nothing on the standings.            *)
RestartIsInvisible == day = "orderly" => RestartChangesNothing
==============================================================================
