------------------------------ MODULE MissedReads ------------------------------
(***************************************************************************)
(* The advisory detection of missed reads (suspected_missed_reads of       *)
(* domain/race.py): a rider laps steadily, the reader misses some of the   *)
(* crossings, and the backend reports from the counted passes alone how    *)
(* many laps look missed and where to put the first of them back.          *)
(***************************************************************************)
EXTENDS RaceState, FiniteSetsExt

CONSTANTS Rider,        \* the tag
          LapTimes,     \* the seconds a lap may take
          MaxGap,       \* bound: crossings missed in a row
          MaxCrossings  \* bound: crossings of the line

ASSUME RiderAssumption  == Rider \in Tags
ASSUME LapsAssumption   == LapTimes \subseteq Nat \ {0}
ASSUME CrossingsAssumption == MaxGap \in Nat /\ MaxCrossings \in Nat

VARIABLES ride,         \* the RaceState
          crossings,    \* how often the rider has crossed the line
          crossed_at,   \* when the rider last crossed it
          gaps          \* the crossings missed since each read, the last one's last

rideVars == <<ride, crossings, crossed_at, gaps>>
------------------------------------------------------------------------------
(* _lap_intervals_s(). *)
Intervals(passes) == [i \in 1..(Len(passes) - 1) |-> passes[i + 1] - passes[i]]

(* The k-th of the intervals when they are sorted. *)
Smallest(intervals, k) ==
  CHOOSE time \in {intervals[i] : i \in DOMAIN intervals} :
    /\ Cardinality({i \in DOMAIN intervals : intervals[i] < time}) < k
    /\ Cardinality({i \in DOMAIN intervals : intervals[i] <= time}) >= k

(* statistics.median(), doubled to stay an integer. *)
TwiceMedian(intervals) ==
  Smallest(intervals, (Len(intervals) + 1) \div 2) + Smallest(intervals, (Len(intervals) + 2) \div 2)

(* Mutant: int() in place of round(). *)
Truncated(a, b) == a \div b

(* round() of a quotient: to the nearest, a half to the even neighbour. *)
Rounded(a, b) ==
  LET quotient == a \div b
      twice    == 2 * (a % b)
  IN  IF twice > b \/ (twice = b /\ quotient % 2 = 1) THEN quotient + 1 ELSE quotient

(* A gap is an interval above 1.7 and not above 3.5 times the median. *)
Gaps(passes) ==
  LET intervals == Intervals(passes)
      median2   == TwiceMedian(intervals)
  IN  IF Len(intervals) < 4 THEN {}
      ELSE {i \in DOMAIN intervals : /\ 20 * intervals[i] > 17 * median2
                                     /\ 20 * intervals[i] <= 35 * median2}

MissedIn(passes, i) ==
  LET laps == Rounded(2 * Intervals(passes)[i], TwiceMedian(Intervals(passes)))
  IN  IF laps > 2 THEN laps - 1 ELSE 1

SuspectedMissed(passes) == MapThenSumSet(LAMBDA i : MissedIn(passes, i), Gaps(passes))

(* The midpoint of the first gap, None without one. *)
SuspectedMidpoint(passes) ==
  IF Gaps(passes) = {} THEN None
  ELSE LET i == CHOOSE i \in Gaps(passes) : \A j \in Gaps(passes) : i <= j
       IN  (passes[i] + passes[i + 1]) \div 2
------------------------------------------------------------------------------
TrainingRide == [total_laps |-> MaxCrossings + 1, min_pass |-> 1, finish_mode |-> "per_rider",
                 duration |-> None, final_laps |-> NoLaps]

Passes == ride.participants[Rider].passes

RideInit ==
  /\ ride = Start(NewRace(TrainingRide), 1)
  /\ crossings = 0 /\ crossed_at = 1 /\ gaps = <<>>

(* The rider crosses the line and the reader sees the tag, or misses it. *)
Cross(seen) ==
  /\ crossings < MaxCrossings
  /\ crossings' = crossings + 1
  /\ \E lap \in LapTimes : crossed_at' = crossed_at + lap
  /\ IF seen
     THEN /\ ride' = AddLap(ride, Rider, crossed_at', crossed_at')
          /\ gaps' = Append(gaps, 0)
     ELSE /\ gaps # <<>> /\ gaps[Len(gaps)] < MaxGap
          /\ gaps' = [gaps EXCEPT ![Len(gaps)] = @ + 1]
          /\ UNCHANGED ride

RideNext == \E seen \in BOOLEAN : Cross(seen)

RideSpec == RideInit /\ [][RideNext]_rideVars
------------------------------------------------------------------------------
(* Between the first read and the last the crossings the reader missed are *)
(* found, every one and no other, as long as four laps or more lie between *)
(* reads and most of them were seen whole.                                 *)
MissesAreFound ==
  LET closed == 1..(Len(gaps) - 1)
  IN  Len(gaps) >= 5 /\ 2 * Cardinality({i \in closed : gaps[i] > 0}) < Len(gaps) - 1
        => SuspectedMissed(Passes) = MapThenSumSet(LAMBDA i : gaps[i], closed)

(* Stated by race.py ("so the UI can pre-fill the manual-lap dialog"): the *)
(* lap the backend suggests is one it accepts when the operator confirms.  *)
SuggestionIsAccepted ==
  SuspectedMidpoint(Passes) # None => Counts(ride, Rider, SuspectedMidpoint(Passes))
==============================================================================
