------------------------------- MODULE LiveRace -------------------------------
(***************************************************************************)
(* One race in memory while passes arrive: the life of a RaceState object  *)
(* between its construction and the end of the race.  Passes arrive in any *)
(* order of their timestamps up to LateBy ticks late, as after an outage,  *)
(* when the reader-service drains its spool behind newer live events.      *)
(***************************************************************************)
EXTENDS RaceState

CONSTANTS Formats,      \* the formats a race may be created with
          LateBy,       \* how many ticks late a pass may arrive
          EpochReads,   \* whether the reader's clock may be unset
          Verdicts,     \* the statuses the operator gives
          MaxTime       \* bound: the last tick

ASSUME FormatsAssumption  == Formats \subseteq Format
ASSUME VerdictsAssumption == Verdicts \subseteq Statuses
ASSUME BoundsAssumption   == LateBy \in Nat /\ EpochReads \in BOOLEAN /\ MaxTime \in Nat \ {0}

VARIABLES race,         \* the RaceState
          now           \* the clock of the server, and of the reader

vars == <<race, now>>
------------------------------------------------------------------------------
Init == /\ \E format \in Formats : race = NewRace(format)
        /\ now = 1

Tick == now < MaxTime /\ now' = now + 1 /\ UNCHANGED race

StartRace == race' = Start(race, now) /\ UNCHANGED now

EndRace == race' = End(race, now) /\ UNCHANGED now

(* The timestamps of the passes that may arrive now. *)
Arriving == {ts \in 1..now : ts + LateBy >= now} \cup (IF EpochReads THEN {Epoch} ELSE {})

Pass(tag) == \E ts \in Arriving : race' = AddLap(race, tag, ts, now) /\ UNCHANGED now

Judge(tag) == \E status \in Verdicts : race' = SetStatus(race, tag, status) /\ UNCHANGED now

Next == Tick \/ StartRace \/ EndRace \/ (\E tag \in Tags : Pass(tag) \/ Judge(tag))

Spec == Init /\ [][Next]_vars
------------------------------------------------------------------------------
TypeOK == race \in Race /\ now \in 1..MaxTime

(* A rider's counted passes are in chronological order and at least the    *)
(* cooldown apart, the first one that long after the start, whatever order *)
(* the reads arrived in (the signed cooldown of add_lap).                  *)
PassesSpaced == \A tag \in Tags : Spaced(race, tag)

(* A finish time is the time of a pass that counted, and in leader mode    *)
(* nobody finishes before a rider who has ridden the whole distance.       *)
FinishIsEarned == (\A tag \in Tags : FinishOnPass(race, tag)) /\ FinishingPhase(race)

(* The 'laps to go' display reaches 0 with a finish: nobody rides past the *)
(* target unnoticed (see DistanceMeansFinish for the one exception).       *)
BellIsTruthful == DistanceMeansFinish(race)

(* The rules of counting and finishing, all of them. *)
RulesHold == PassesSpaced /\ FinishIsEarned /\ BellIsTruthful

(* Once a race is decided it stays decided: a locked lap target, the start *)
(* of the finishing phase and a rider's finish time never change.          *)
DecisionsStand ==
  [][ /\ race.time_target # None => race'.time_target = race.time_target
      /\ race.finishing_at # None => race'.finishing_at = race.finishing_at
      /\ \A tag \in Tags : Finished(race, tag) =>
           race'.participants[tag].finish_time = race.participants[tag].finish_time
    ]_vars

(* Leader mode: in the finishing phase every rider is flagged off at the   *)
(* next pass, whatever lap that completes.                                 *)
FlaggedOffAtNextPass ==
  [][ Leader(race) /\ race.finishing_at # None =>
        \A tag \in Tags : Laps(race', tag) > Laps(race, tag) => Finished(race', tag) ]_vars

(* The countdown shown to the riders never goes up.                        *)
LapsToGoFalls ==
  [][ LapsToGo(race) # NoLaps /\ LapsToGo(race') # NoLaps =>
        LapsToGo(race') <= LapsToGo(race) ]_vars

(* Leader mode: no classified rider is ranked above the rider who began    *)
(* the finishing phase, however many laps are ridden afterwards, except by *)
(* a finish at an earlier time that was only read later.                   *)
WinnerUnbeaten ==
  Leader(race) /\ race.finishing_at # None =>
    \E winner \in Tags :
      /\ race.participants[winner].finish_time = race.finishing_at
      /\ \A tag \in Tags \ {winner} :
           Classified(race, winner) /\ Classified(race, tag) /\ Beats(race, tag, winner) =>
             Finished(race, tag) /\ race.participants[tag].finish_time < race.finishing_at
------------------------------------------------------------------------------
(* Stated by race.py: "Subsequent passes will keep laps and last_pass_time *)
(* advancing, but standings/gaps are computed against the finish state".   *)
(* The order of two riders who have both finished never turns around.      *)
FinishOrderStands ==
  [][ \A p, q \in Tags :
        /\ Finished(race, p) /\ Finished(race, q)
        /\ race'.status = race.status
        /\ Beats(race, p, q)
        => ~Beats(race', q, p) ]_vars
==============================================================================
