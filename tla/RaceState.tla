------------------------------ MODULE RaceState ------------------------------
(***************************************************************************)
(* The domain object of apps/backend/racetag-backend/domain/race.py: one   *)
(* race in memory.  A race is a record, an operation of the class is an    *)
(* operator from a race to a race.                                         *)
(*                                                                         *)
(* Time is a natural number of ticks.  The timestamps the code compares    *)
(* are ticks >= 1; None (0) stands for Python's None wherever the code     *)
(* keeps an Optional timestamp, duration or lap target, none of which can  *)
(* be 0 otherwise.  A pass stamped Epoch is one whose timestamp the code   *)
(* calls implausible (before 2020, or unparseable).                        *)
(***************************************************************************)
EXTENDS Integers, Sequences

CONSTANT Tags                     \* transponders (tag_id)

None   == 0                       \* an absent timestamp, duration or target
NoLaps == -1                      \* final_laps = None (0 is a legal value)
Epoch  == 0                       \* an implausible timestamp

Modes    == {"leader", "per_rider"}
Statuses == {"racing", "dnf", "dsq", "dns"}      \* "racing": status None

Format == [total_laps  : Nat \ {0},
           min_pass    : Nat,                    \* min_pass_interval_s
           finish_mode : Modes,
           duration    : Nat,                    \* duration_s
           final_laps  : Nat \cup {NoLaps}]

(* laps, last_pass_time and pass_times change together, in one place: they *)
(* are the length, the last element and the whole of passes.  finished and *)
(* finish_time are set together: finished is finish_time # None.           *)
Participant == [seen : BOOLEAN, passes : Seq(Nat), finish_time : Nat]

Race == [format       : Format,
         started_at   : Nat,                     \* None: not started
         ended_at     : Nat,                     \* None: not ended
         finishing_at : Nat,                     \* None: not finishing
         time_target  : Nat,                     \* time_target_laps
         participants : [Tags -> Participant],
         status       : [Tags -> Statuses]]
------------------------------------------------------------------------------
NoParticipants == [tag \in Tags |-> [seen |-> FALSE, passes |-> <<>>, finish_time |-> None]]

NewRace(format) ==
  [format |-> format, started_at |-> None, ended_at |-> None,
   finishing_at |-> None, time_target |-> None,
   participants |-> NoParticipants, status |-> [tag \in Tags |-> "racing"]]

Laps(r, tag)     == Len(r.participants[tag].passes)
LastPass(r, tag) == IF Laps(r, tag) = 0 THEN None
                    ELSE r.participants[tag].passes[Laps(r, tag)]
Finished(r, tag) == r.participants[tag].finish_time # None
Timed(r)         == r.format.duration # None
Leader(r)        == r.format.finish_mode = "leader"

(* effective_total_laps(), given the time target. *)
TotalLaps(r, time_target) ==
  IF time_target # None THEN time_target ELSE r.format.total_laps
EffectiveTotalLaps(r) == TotalLaps(r, r.time_target)

(* A time-based race has no finish threshold until its target is locked. *)
TargetKnown(r, time_target) == ~(Timed(r) /\ time_target = None)

(* start() and end(): a second call changes nothing. *)
Start(r, now) == IF r.started_at # None THEN r ELSE [r EXCEPT !.started_at = now]
End(r, now)   == IF r.ended_at # None THEN r ELSE [r EXCEPT !.ended_at = now]

SetStatus(r, tag, status) == [r EXCEPT !.status[tag] = status]

(* Mutant: the finishing phase outlives the passes that began it. *)
ClearButPhase(r) ==
  [NewRace(r.format) EXCEPT !.status = r.status, !.finishing_at = r.finishing_at]

(* What POST /race/reset and the rebuild clear: everything but the format  *)
(* and the operator's statuses.                                            *)
Clear(r) == [NewRace(r.format) EXCEPT !.status = r.status]
------------------------------------------------------------------------------
(* The timestamp add_lap works with: the server's clock replaces an        *)
(* implausible one.                                                        *)
PassTime(ts, now) == IF ts = Epoch THEN now ELSE ts

(* Mutant: the cooldown is measured with abs(), the bug the signed delta    *)
(* replaced.                                                               *)
CountsAbs(r, tag, ts) ==
  LET Apart(t) == IF ts > t THEN ts - t ELSE t - ts
  IN  /\ r.started_at # None
      /\ r.ended_at = None
      /\ IF Laps(r, tag) = 0
         THEN ts - r.started_at >= r.format.min_pass
         ELSE ts # LastPass(r, tag) /\ Apart(LastPass(r, tag)) >= r.format.min_pass

(* The early returns of add_lap: not started, ended, too soon after the    *)
(* start, or not far enough after the last counted pass.                   *)
Counts(r, tag, ts) ==
  /\ r.started_at # None
  /\ r.ended_at = None
  /\ IF Laps(r, tag) = 0
     THEN ts - r.started_at >= r.format.min_pass
     ELSE /\ ts > LastPass(r, tag)
          /\ ts - LastPass(r, tag) >= r.format.min_pass

(* Mutant: the target is locked again by every later leading pass. *)
NextTargetRelocks(r, tag, laps, ts) ==
  IF /\ Timed(r) /\ r.format.final_laps # NoLaps
     /\ ts - r.started_at >= r.format.duration
     /\ \A other \in Tags \ {tag} : Laps(r, other) <= laps
  THEN laps + r.format.final_laps
  ELSE r.time_target

(* The lap target after a pass that brings tag to laps: locked by the      *)
(* first pass after the duration of a rider nobody is ahead of.            *)
NextTarget(r, tag, laps, ts) ==
  IF /\ Timed(r) /\ r.format.final_laps # NoLaps
     /\ r.time_target = None
     /\ ts - r.started_at >= r.format.duration
     /\ \A other \in Tags \ {tag} : Laps(r, other) <= laps
  THEN laps + r.format.final_laps
  ELSE r.time_target

Finishes(r, tag, laps, time_target) ==
  /\ ~Finished(r, tag)
  /\ \/ Leader(r) /\ r.finishing_at # None           \* flagged off
     \/ TargetKnown(r, time_target) /\ laps >= TotalLaps(r, time_target)

CountPass(r, tag, ts) ==
  LET laps   == Laps(r, tag) + 1
      target == NextTarget(r, tag, laps, ts)
      done   == Finishes(r, tag, laps, target)
  IN  [r EXCEPT
         !.participants[tag] = [seen        |-> TRUE,
                                passes      |-> Append(@.passes, ts),
                                finish_time |-> IF done THEN ts ELSE @.finish_time],
         !.time_target  = target,
         !.finishing_at = IF done /\ Leader(r) /\ @ = None THEN ts ELSE @]

AddLap(r, tag, pass_time, now) ==
  LET ts == PassTime(pass_time, now)
  IN  IF Counts(r, tag, ts) THEN CountPass(r, tag, ts)
      ELSE [r EXCEPT !.participants[tag].seen = TRUE]
------------------------------------------------------------------------------
(* Mutant: only the riders still on the course are looked at. *)
LeaderLapsRacing(r) ==
  LET all == {Laps(r, tag) : tag \in {t \in Tags : ~Finished(r, t)}} \cup {0}
  IN  CHOOSE n \in all : \A m \in all : m <= n

LeaderLaps(r) ==
  LET all == {Laps(r, tag) : tag \in Tags} \cup {0}
  IN  CHOOSE n \in all : \A m \in all : m <= n

(* laps_to_go(): NoLaps when it cannot be stated. *)
LapsToGo(r) ==
  IF r.started_at = None \/ r.ended_at # None \/ ~TargetKnown(r, r.time_target)
  THEN NoLaps
  ELSE IF EffectiveTotalLaps(r) > LeaderLaps(r)
       THEN EffectiveTotalLaps(r) - LeaderLaps(r) ELSE 0

(* The order of standings(): Beats(r, p, q) when p's row is above q's      *)
(* whatever the order their rows were created in.                          *)
InStandings(r, tag) == r.participants[tag].seen \/ r.status[tag] # "racing"
Classified(r, tag)  == r.status[tag] = "racing"

(* Mutant: cool-down laps count in the order. *)
CappedLapsRaw(r, tag) == Laps(r, tag)

CappedLaps(r, tag) ==
  IF Laps(r, tag) < EffectiveTotalLaps(r) THEN Laps(r, tag) ELSE EffectiveTotalLaps(r)

RefTime(r, tag) ==
  IF Finished(r, tag) THEN r.participants[tag].finish_time ELSE LastPass(r, tag)

StatusRank == [racing |-> 0, dnf |-> 1, dsq |-> 2, dns |-> 3]

Beats(r, p, q) ==
  \/ StatusRank[r.status[p]] < StatusRank[r.status[q]]
  \/ /\ r.status[p] = r.status[q] /\ ~Classified(r, p)
     /\ CappedLaps(r, p) > CappedLaps(r, q)
  \/ /\ Classified(r, p) /\ Classified(r, q)
     /\ \/ Finished(r, p) /\ ~Finished(r, q)
        \/ /\ Finished(r, p) = Finished(r, q)
           /\ \/ CappedLaps(r, p) > CappedLaps(r, q)
              \/ /\ CappedLaps(r, p) = CappedLaps(r, q)
                 /\ RefTime(r, p) # None
                 /\ RefTime(r, q) = None \/ RefTime(r, p) < RefTime(r, q)
------------------------------------------------------------------------------
(* What the operations above keep true of a race, a conjunct at a time.    *)
(* Counted passes are in chronological order and the cooldown apart. *)
Spaced(r, tag) ==
  \A i \in 1..Laps(r, tag) :
    LET passes == r.participants[tag].passes
        before == IF i = 1 THEN r.started_at ELSE passes[i - 1]
    IN  /\ passes[i] >= before + r.format.min_pass
        /\ i > 1 => passes[i] > before

(* finish_time is the time of a pass that counted.                         *)
FinishOnPass(r, tag) ==
  Finished(r, tag) => \E i \in 1..Laps(r, tag) :
                        r.participants[tag].passes[i] = r.participants[tag].finish_time

(* Leader mode: nobody finishes before the finishing phase begins, and it  *)
(* begins with the pass of a rider who has ridden the whole distance.      *)
FinishingPhase(r) ==
  Leader(r) =>
    /\ (\E tag \in Tags : Finished(r, tag)) => r.finishing_at # None
    /\ r.finishing_at # None =>
         \E tag \in Tags : /\ r.participants[tag].finish_time = r.finishing_at
                           /\ Laps(r, tag) >= EffectiveTotalLaps(r)

(* A rider who has ridden the distance has finished: nobody rides past the *)
(* target unnoticed, so the "laps to go" display reaches 0 with a finish.  *)
(* A timed race with final_laps = 0 is excepted: its lock may come when    *)
(* another rider already has the locked number of laps.                    *)
DistanceMeansFinish(r) ==
  TargetKnown(r, r.time_target) /\ ~(Timed(r) /\ r.format.final_laps = 0) =>
    \A tag \in Tags : Laps(r, tag) >= EffectiveTotalLaps(r) => Finished(r, tag)
==============================================================================
