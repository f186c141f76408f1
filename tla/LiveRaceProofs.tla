---------------------------- MODULE LiveRaceProofs ----------------------------
(***************************************************************************)
(* The safety of LiveRace for every set of riders, every set of formats,   *)
(* every lateness and every length of race.  RaceInv (RaceStateProofs) is  *)
(* inductive: each action applies one of the operations whose lemma says   *)
(* that it keeps RaceInv.  And what MissedReads finds, for every rider who *)
(* laps steadily.                                                          *)
(***************************************************************************)
EXTENDS MCLiveRace, MissedReads, RaceStateProofs

LiveInv == TypeOK /\ RaceInv(race)

LEMMA ArrivingType ==
  ASSUME TypeOK, NEW ts \in Arriving
  PROVE  ts \in Nat
BY DEF TypeOK, Arriving, Epoch

LEMMA InitLive == Init => LiveInv
<1> SUFFICES ASSUME Init PROVE LiveInv
  OBVIOUS
<1>1. PICK format \in Formats : race = NewRace(format)
  BY DEF Init
<1>2. RaceInv(race)
  BY <1>1, NewRaceInv, FormatsAssumption
<1> QED BY <1>2, BoundsAssumption DEF Init, LiveInv, TypeOK, RaceInv

LEMMA StepLive == LiveInv /\ [Next]_vars => LiveInv'
<1> SUFFICES ASSUME LiveInv, [Next]_vars PROVE LiveInv'
  OBVIOUS
<1>1. now \in Nat \ {0} /\ now \in 1..MaxTime /\ RaceInv(race)
  BY BoundsAssumption DEF LiveInv, TypeOK
<1>2. CASE Tick
  BY <1>1, <1>2, BoundsAssumption DEF Tick, LiveInv, TypeOK
<1>3. CASE StartRace
  BY <1>1, <1>3, StartInv DEF StartRace, LiveInv, TypeOK, RaceInv
<1>4. CASE EndRace
  BY <1>1, <1>4, EndInv DEF EndRace, LiveInv, TypeOK, RaceInv
<1>5. ASSUME NEW tag \in Tags, Pass(tag) PROVE LiveInv'
  <2>1. PICK ts \in Arriving : race' = AddLap(race, tag, ts, now) /\ UNCHANGED now
    BY <1>5 DEF Pass
  <2>2. RaceInv(race')
    BY <1>1, <2>1, ArrivingType, AddLapInv DEF LiveInv
  <2> QED BY <1>1, <2>1, <2>2 DEF LiveInv, TypeOK, RaceInv
<1>6. ASSUME NEW tag \in Tags, Judge(tag) PROVE LiveInv'
  <2>1. PICK status \in Verdicts : race' = SetStatus(race, tag, status) /\ UNCHANGED now
    BY <1>6 DEF Judge
  <2>2. RaceInv(race')
    BY <1>1, <2>1, SetStatusInv, VerdictsAssumption
  <2> QED BY <1>1, <2>1, <2>2 DEF LiveInv, TypeOK, RaceInv
<1>7. CASE UNCHANGED vars
  BY <1>7 DEF vars, LiveInv, TypeOK
<1> QED BY <1>2, <1>3, <1>4, <1>5, <1>6, <1>7 DEF Next

(* Everything RaceInv says holds of the race at all times. *)
THEOREM LiveInvariant == Spec => []LiveInv
BY InitLive, StepLive, PTL DEF Spec

(* The race keeps the shape of a RaceState and the clock its bound. *)
THEOREM TypeCorrect == Spec => []TypeOK
<1>1. LiveInv => TypeOK
  BY DEF LiveInv
<1> QED BY LiveInvariant, <1>1, PTL

(* Whatever the order reads arrive in, the counted passes of a rider are   *)
(* in chronological order and the cooldown apart.                          *)
THEOREM PassesAlwaysSpaced == Spec => []PassesSpaced
<1>1. LiveInv => PassesSpaced
  BY DEF LiveInv, RaceInv, PassesSpaced
<1> QED BY LiveInvariant, <1>1, PTL

(* A finish is the finish of a counted pass, and in leader mode nobody     *)
(* finishes before a rider who rode the whole distance.                    *)
THEOREM FinishAlwaysEarned == Spec => []FinishIsEarned
<1>1. LiveInv => FinishIsEarned
  BY DEF LiveInv, RaceInv, FinishIsEarned
<1> QED BY LiveInvariant, <1>1, PTL

(* Nobody rides past the target unnoticed. *)
THEOREM BellAlwaysTruthful == Spec => []BellIsTruthful
<1>1. LiveInv => BellIsTruthful
  BY DEF LiveInv, RaceInv, BellIsTruthful
<1> QED BY LiveInvariant, <1>1, PTL

(* All rules of counting and finishing together, as the run checks them.   *)
THEOREM RulesAlwaysHold == Spec => []RulesHold
BY PassesAlwaysSpaced, FinishAlwaysEarned, BellAlwaysTruthful, PTL DEF RulesHold
------------------------------------------------------------------------------
(* What no step of the race may do, from the fields CountPass changes.     *)
Decided(r, s) ==
  /\ r.time_target # None => s.time_target = r.time_target
  /\ r.finishing_at # None => s.finishing_at = r.finishing_at
  /\ \A tag \in Tags : Finished(r, tag) =>
       s.participants[tag].finish_time = r.participants[tag].finish_time

FlaggedOff(r, s) ==
  Leader(r) /\ r.finishing_at # None =>
    \A tag \in Tags : Laps(s, tag) > Laps(r, tag) => Finished(s, tag)

LEMMA CountPassDecides ==
  ASSUME NEW r, RaceInv(r), NEW tag \in Tags, NEW ts \in Nat \ {0}, Counts(r, tag, ts)
  PROVE  Decided(r, CountPass(r, tag, ts)) /\ FlaggedOff(r, CountPass(r, tag, ts))
<1> DEFINE laps   == Laps(r, tag) + 1
           target == NextTarget(r, tag, laps, ts)
           done   == Finishes(r, tag, laps, target)
           s      == CountPass(r, tag, ts)
<1>1. /\ s.time_target = target
      /\ s.finishing_at = IF done /\ Leader(r) /\ r.finishing_at = None
                          THEN ts ELSE r.finishing_at
      /\ \A t \in Tags \ {tag} : s.participants[t] = r.participants[t]
      /\ s.participants[tag].finish_time =
           IF done THEN ts ELSE r.participants[tag].finish_time
  BY CountPassFields
<1>2. r.time_target # None => target = r.time_target
  BY DEF NextTarget
<1>3. Finished(r, tag) => ~done
  BY DEF Finishes
<1>4. Leader(r) /\ r.finishing_at # None /\ ~Finished(r, tag) => done
  BY DEF Finishes
<1> HIDE DEF s, done, target
<1>5. Decided(r, s)
  BY <1>1, <1>2, <1>3 DEF Decided
<1>6. Leader(r) /\ r.finishing_at # None => Finished(s, tag)
  BY <1>1, <1>3, <1>4 DEF Finished, None
<1>7. \A t \in Tags \ {tag} : Laps(s, t) = Laps(r, t)
  BY <1>1 DEF Laps
<1>8. \A t \in Tags : Laps(r, t) \in Nat
  BY LapsType DEF RaceInv
<1>9. FlaggedOff(r, s)
  BY <1>6, <1>7, <1>8 DEF FlaggedOff
<1> QED BY <1>5, <1>9 DEF s

LEMMA SameRunDecides ==
  ASSUME NEW r, RaceInv(r), NEW s,
         s.time_target = r.time_target, s.finishing_at = r.finishing_at,
         \A t \in Tags : /\ s.participants[t].passes = r.participants[t].passes
                         /\ s.participants[t].finish_time = r.participants[t].finish_time
  PROVE  Decided(r, s) /\ FlaggedOff(r, s)
<1>1. \A t \in Tags : Laps(s, t) = Laps(r, t) /\ Laps(r, t) \in Nat
  BY LapsType DEF Laps, RaceInv
<1> QED BY <1>1 DEF Decided, FlaggedOff

LEMMA StepDecides ==
  LiveInv /\ [Next]_vars => Decided(race, race') /\ FlaggedOff(race, race')
<1> SUFFICES ASSUME LiveInv, [Next]_vars
             PROVE  Decided(race, race') /\ FlaggedOff(race, race')
  OBVIOUS
<1>1. RaceInv(race) /\ race \in Race /\ now \in Nat \ {0}
  BY BoundsAssumption DEF LiveInv, TypeOK
<1>2. CASE UNCHANGED race
  BY <1>1, <1>2, SameRunDecides
<1>3. CASE StartRace \/ EndRace \/ \E tag \in Tags : Judge(tag)
  <2>1. /\ race'.time_target = race.time_target /\ race'.finishing_at = race.finishing_at
        /\ race'.participants = race.participants
    BY <1>1, <1>3 DEF StartRace, EndRace, Judge, Start, End, SetStatus, Race
  <2> QED BY <1>1, <2>1, SameRunDecides
<1>4. ASSUME NEW tag \in Tags, Pass(tag)
      PROVE  Decided(race, race') /\ FlaggedOff(race, race')
  <2>1. PICK ts \in Arriving : race' = AddLap(race, tag, ts, now)
    BY <1>4 DEF Pass
  <2>2. PassTime(ts, now) \in Nat \ {0}
    BY <1>1, <2>1, ArrivingType DEF LiveInv, PassTime, Epoch
  <2>3. CASE Counts(race, tag, PassTime(ts, now))
    BY <1>1, <2>1, <2>2, <2>3, CountPassDecides DEF AddLap
  <2>4. CASE ~Counts(race, tag, PassTime(ts, now))
    <3>1. race' = [race EXCEPT !.participants[tag].seen = TRUE]
      BY <2>1, <2>4 DEF AddLap
    <3>2. /\ race'.time_target = race.time_target /\ race'.finishing_at = race.finishing_at
          /\ \A t \in Tags : /\ race'.participants[t].passes = race.participants[t].passes
                             /\ race'.participants[t].finish_time
                                  = race.participants[t].finish_time
      BY <1>1, <3>1 DEF Race, Participant
    <3> QED BY <1>1, <3>2, SameRunDecides
  <2> QED BY <2>3, <2>4
<1> QED BY <1>2, <1>3, <1>4 DEF Next, Tick, vars

(* A locked target, the start of the finishing phase and a finish time     *)
(* never change once they are set.                                         *)
THEOREM DecisionsAlwaysStand == Spec => DecisionsStand
<1>1. LiveInv /\ [Next]_vars =>
        [/\ race.time_target # None => race'.time_target = race.time_target
         /\ race.finishing_at # None => race'.finishing_at = race.finishing_at
         /\ \A tag \in Tags : Finished(race, tag) =>
              race'.participants[tag].finish_time = race.participants[tag].finish_time
        ]_vars
  BY StepDecides DEF Decided
<1> QED BY LiveInvariant, <1>1, PTL DEF Spec, DecisionsStand

(* In the finishing phase a counted pass is always a finish. *)
THEOREM AlwaysFlaggedOff == Spec => FlaggedOffAtNextPass
<1>1. LiveInv /\ [Next]_vars =>
        [Leader(race) /\ race.finishing_at # None =>
           \A tag \in Tags : Laps(race', tag) > Laps(race, tag) => Finished(race', tag)]_vars
  BY StepDecides DEF FlaggedOff
<1> QED BY LiveInvariant, <1>1, PTL DEF Spec, FlaggedOffAtNextPass
------------------------------------------------------------------------------
(* Who begins the finishing phase has ridden the whole distance, so nobody *)
(* has more laps that are ranked: what is above is an earlier finish.      *)
LEMMA PhaseHasWinner ==
  ASSUME RaceInv(race), Leader(race), race.finishing_at # None
  PROVE  \E winner \in Tags :
           /\ race.participants[winner].finish_time = race.finishing_at
           /\ \A tag \in Tags \ {winner} :
                Classified(race, winner) /\ Classified(race, tag) /\ Beats(race, tag, winner) =>
                  Finished(race, tag) /\ race.participants[tag].finish_time < race.finishing_at
<1>1. PICK winner \in Tags : /\ race.participants[winner].finish_time = race.finishing_at
                             /\ Laps(race, winner) >= EffectiveTotalLaps(race)
  BY DEF RaceInv, FinishingPhase
<1>2. \A tag \in Tags : Laps(race, tag) \in Nat /\ race.participants[tag].finish_time \in Nat
  BY LapsType DEF RaceInv, Race, Participant
<1>3. EffectiveTotalLaps(race) \in Nat
  BY DEF EffectiveTotalLaps, TotalLaps, RaceInv, Race, Format
<1>4. /\ Finished(race, winner) /\ RefTime(race, winner) = race.finishing_at
      /\ RefTime(race, winner) # None /\ CappedLaps(race, winner) = EffectiveTotalLaps(race)
  BY <1>1, <1>2, <1>3 DEF Finished, RefTime, CappedLaps
<1>5. ASSUME NEW tag \in Tags, Classified(race, winner), Classified(race, tag), Beats(race, tag, winner)
      PROVE  Finished(race, tag) /\ race.participants[tag].finish_time < race.finishing_at
  <2>1. ~(StatusRank[race.status[tag]] < StatusRank[race.status[winner]])
    BY <1>5 DEF Classified, StatusRank
  <2>2. /\ Finished(race, tag)
        /\ \/ CappedLaps(race, tag) > CappedLaps(race, winner)
           \/ RefTime(race, tag) < RefTime(race, winner)
    BY <1>4, <1>5, <2>1 DEF Beats
  <2>3. ~(CappedLaps(race, tag) > CappedLaps(race, winner))
    BY <1>2, <1>3, <1>4 DEF CappedLaps
  <2>4. RefTime(race, tag) = race.participants[tag].finish_time
    BY <2>2 DEF RefTime
  <2> QED BY <1>4, <2>2, <2>3, <2>4
<1> QED BY <1>1, <1>5

(* Leader mode: above the rider who began the finishing phase is ranked    *)
(* nobody who is classified, but by an earlier finish that was read later  *)
(* (race.py standings, add_lap).                                           *)
THEOREM WinnerAlwaysUnbeaten == Spec => []WinnerUnbeaten
<1>1. LiveInv => WinnerUnbeaten
  BY PhaseHasWinner DEF LiveInv, WinnerUnbeaten
<1> QED BY LiveInvariant, <1>1, PTL
------------------------------------------------------------------------------
(* No rider has more laps than some number: the most laps are somebody's,  *)
(* however many riders there are.                                          *)
Reached(r) == \E n \in Nat : \A tag \in Tags : Laps(r, tag) <= n

LEMMA LeaderLapsIsMost ==
  ASSUME NEW r \in Race, Reached(r)
  PROVE  /\ LeaderLaps(r) \in Nat
         /\ LeaderLaps(r) = 0 \/ \E tag \in Tags : LeaderLaps(r) = Laps(r, tag)
         /\ \A tag \in Tags : Laps(r, tag) <= LeaderLaps(r)
<1> DEFINE all == {Laps(r, tag) : tag \in Tags} \cup {0}
           bounds == {n \in Nat : \A m \in all : m <= n}
<1>1. all \subseteq Nat
  BY LapsType
<1>2. bounds # {}
  BY DEF Reached
<1>3. PICK most \in bounds : \A n \in bounds : most <= n
  BY <1>2, LeastNumber
<1>4. most \in all
  <2> SUFFICES ASSUME most \notin all PROVE FALSE
    OBVIOUS
  <2>1. \A m \in all : m < most
    BY <1>1, <1>3
  <2>2. most > 0 /\ most - 1 \in Nat
    BY <1>3, <2>1
  <2>3. \A m \in all : m <= most - 1
    BY <1>1, <1>3, <2>1
  <2> QED BY <1>3, <2>2, <2>3
<1>5. \E n \in all : \A m \in all : m <= n
  BY <1>3, <1>4
<1>6. LeaderLaps(r) \in all /\ \A m \in all : m <= LeaderLaps(r)
  BY <1>5 DEF LeaderLaps
<1> QED BY <1>1, <1>6

(* A step of a race: a lap more for a rider, or none; the distance of a    *)
(* race that is not timed stays.                                           *)
RidesOn(r, s) ==
  /\ s.format = r.format /\ (~Timed(r) => s.time_target = r.time_target)
  /\ \A tag \in Tags : Laps(r, tag) <= Laps(s, tag) /\ Laps(s, tag) <= Laps(r, tag) + 1

LEMMA SameLaps ==
  ASSUME NEW r \in Race, NEW s, s.format = r.format, s.time_target = r.time_target,
         \A t \in Tags : s.participants[t].passes = r.participants[t].passes
  PROVE  RidesOn(r, s)
<1>1. \A t \in Tags : Laps(s, t) = Laps(r, t) /\ Laps(r, t) \in Nat
  BY LapsType DEF Laps
<1> QED BY <1>1 DEF RidesOn

LEMMA StepRides == LiveInv /\ [Next]_vars => RidesOn(race, race')
<1> SUFFICES ASSUME LiveInv, [Next]_vars PROVE RidesOn(race, race')
  OBVIOUS
<1>1. RaceInv(race) /\ race \in Race /\ now \in Nat \ {0}
  BY BoundsAssumption DEF LiveInv, TypeOK
<1>2. CASE UNCHANGED race
  BY <1>1, <1>2, SameLaps
<1>3. CASE StartRace \/ EndRace \/ \E tag \in Tags : Judge(tag)
  <2>1. /\ race'.time_target = race.time_target /\ race'.format = race.format
        /\ race'.participants = race.participants
    BY <1>1, <1>3 DEF StartRace, EndRace, Judge, Start, End, SetStatus, Race
  <2> QED BY <1>1, <2>1, SameLaps
<1>4. ASSUME NEW tag \in Tags, Pass(tag) PROVE RidesOn(race, race')
  <2>1. PICK ts \in Arriving : race' = AddLap(race, tag, ts, now)
    BY <1>4 DEF Pass
  <2> DEFINE at == PassTime(ts, now)
  <2>2. at \in Nat \ {0}
    BY <1>1, <2>1, ArrivingType DEF LiveInv, PassTime, Epoch
  <2> HIDE DEF at
  <2>3. CASE Counts(race, tag, at)
    <3>1. race' = CountPass(race, tag, at)
      BY <2>1, <2>3 DEF AddLap, at
    <3>2. /\ race'.format = race.format
          /\ race'.time_target = NextTarget(race, tag, Laps(race, tag) + 1, at)
          /\ \A t \in Tags \ {tag} : race'.participants[t] = race.participants[t]
          /\ race'.participants[tag].passes = Append(race.participants[tag].passes, at)
      BY <1>1, <2>2, <2>3, <3>1, CountPassFields
    <3>3. Laps(race', tag) = Laps(race, tag) + 1
      BY <1>1, <2>2, <3>2 DEF Laps, Race, Participant
    <3>4. ~Timed(race) => race'.time_target = race.time_target
      BY <3>2 DEF NextTarget
    <3>5. \A t \in Tags : Laps(race, t) \in Nat /\ (t # tag => Laps(race', t) = Laps(race, t))
      BY <1>1, <3>2, LapsType DEF Laps
    <3> QED BY <3>2, <3>3, <3>4, <3>5 DEF RidesOn
  <2>4. CASE ~Counts(race, tag, at)
    <3>1. race' = [race EXCEPT !.participants[tag].seen = TRUE]
      BY <2>1, <2>4 DEF AddLap, at
    <3>2. /\ race'.time_target = race.time_target /\ race'.format = race.format
          /\ \A t \in Tags : race'.participants[t].passes = race.participants[t].passes
      BY <1>1, <3>1 DEF Race, Participant
    <3> QED BY <1>1, <3>2, SameLaps
  <2> QED BY <2>3, <2>4
<1> QED BY <1>2, <1>3, <1>4 DEF Next, Tick, vars

LEMMA InitReached == Init => Reached(race)
<1>1. ASSUME NEW format, race = NewRace(format) PROVE \A tag \in Tags : Laps(race, tag) = 0
  <2>1. \A tag \in Tags : race.participants[tag].passes = <<>>
    BY <1>1 DEF NewRace, NoParticipants
  <2>2. Len(<<>>) = 0
    OBVIOUS
  <2> QED BY <2>1, <2>2, Zenon DEF Laps
<1>2. 0 \in Nat /\ 0 <= 0
  OBVIOUS
<1> QED BY <1>1, <1>2, Zenon DEF Init, Reached

LEMMA StepReached ==
  ASSUME LiveInv, TypeOK', Reached(race), RidesOn(race, race') PROVE Reached(race')
<1>1. PICK n \in Nat : \A tag \in Tags : Laps(race, tag) <= n
  BY DEF Reached
<1>2. \A tag \in Tags : /\ Laps(race, tag) \in Nat /\ Laps(race', tag) \in Nat
                        /\ Laps(race', tag) <= Laps(race, tag) + 1
  BY LapsType DEF LiveInv, TypeOK, RidesOn
<1>3. \A tag \in Tags : Laps(race', tag) <= n + 1
  BY <1>1, <1>2
<1> QED BY <1>1, <1>3 DEF Reached

LEMMA StepFalls ==
  ASSUME LiveInv, TypeOK', Reached(race), Reached(race'), RidesOn(race, race'), Decided(race, race'),
         LapsToGo(race) # NoLaps, LapsToGo(race') # NoLaps
  PROVE  LapsToGo(race') <= LapsToGo(race)
<1>1. race \in Race /\ race' \in Race
  BY DEF LiveInv, TypeOK
<1>2. EffectiveTotalLaps(race') = EffectiveTotalLaps(race) /\ EffectiveTotalLaps(race) \in Nat
  <2>1. TargetKnown(race, race.time_target)
    BY DEF LapsToGo
  <2>2. race'.time_target = race.time_target /\ race'.format = race.format
    BY <2>1 DEF TargetKnown, RidesOn, Decided
  <2> QED BY <1>1, <2>2 DEF EffectiveTotalLaps, TotalLaps, Race, Format
<1>3. /\ LeaderLaps(race) \in Nat /\ LeaderLaps(race') \in Nat
      /\ LeaderLaps(race) = 0 \/ \E tag \in Tags : LeaderLaps(race) = Laps(race, tag)
      /\ \A tag \in Tags : Laps(race', tag) <= LeaderLaps(race')
  BY <1>1, LeaderLapsIsMost
<1>4. \A tag \in Tags : Laps(race, tag) \in Nat /\ Laps(race', tag) \in Nat /\ Laps(race, tag) <= Laps(race', tag)
  BY <1>1, LapsType DEF RidesOn
<1>5. LeaderLaps(race) <= LeaderLaps(race')
  BY <1>3, <1>4
<1> QED BY <1>2, <1>3, <1>5 DEF LapsToGo

(* The countdown shown to the riders never goes up (race.py laps_to_go).   *)
THEOREM LapsToGoAlwaysFalls == Spec => LapsToGoFalls
<1>1. LiveInv /\ LiveInv' /\ Reached(race) /\ [Next]_vars => Reached(race)'
  <2>1. Reached(race)' <=> Reached(race')
    BY DEF Reached, Laps
  <2>2. LiveInv' => TypeOK'
    BY DEF LiveInv
  <2> QED BY <2>1, <2>2, StepRides, StepReached
<1>2. LiveInv /\ LiveInv' /\ Reached(race) /\ Reached(race)' /\ [Next]_vars =>
        [LapsToGo(race) # NoLaps /\ LapsToGo(race') # NoLaps =>
           LapsToGo(race') <= LapsToGo(race)]_vars
  <2>1. Reached(race)' <=> Reached(race')
    BY DEF Reached, Laps
  <2>2. LiveInv' => TypeOK'
    BY DEF LiveInv
  <2> QED BY <2>1, <2>2, StepRides, StepDecides, StepFalls
<1> QED BY InitReached, LiveInvariant, <1>1, <1>2, PTL DEF Spec, LapsToGoFalls
------------------------------------------------------------------------------
(* Missed reads.  The rider laps so evenly that two laps are more than 1.7 *)
(* times a lap, and the most that is missed in a row less than 3.5 times.  *)
SteadyBetween(shortest, longest) ==
  /\ LapTimes \subseteq shortest..longest
  /\ 17 * longest < 20 * shortest
  /\ 2 * (MaxGap + 1) * longest < 7 * shortest

SteadyLaps == \E shortest, longest \in Nat \ {0} : SteadyBetween(shortest, longest)

LEMMA GreatestOfFinite ==
  ASSUME NEW S \in SUBSET Nat, IsFiniteSet(S), S # {}
  PROVE  \E i \in S : \A j \in S : j <= i
<1> DEFINE Tops(s) == \E i \in s : \A j \in s : j <= i
           bad == {s \in SUBSET S : s # {} /\ ~Tops(s)}
<1> SUFFICES ASSUME bad # {} PROVE FALSE
  OBVIOUS
<1>1. PICK s \in bad : \A x \in s : s \ {x} \notin bad
  <2>1. bad \in SUBSET SUBSET S
    OBVIOUS
  <2> HIDE DEF bad
  <2> QED BY <2>1, SmallestSet
<1>2. s \in SUBSET S /\ s # {} /\ ~Tops(s)
  BY <1>1
<1>3. PICK x \in s : TRUE
  BY <1>2
<1>4. CASE s \ {x} = {}
  <2>1. s = {x} /\ x \in Nat
    BY <1>2, <1>3, <1>4
  <2> QED BY <1>2, <2>1
<1>5. CASE s \ {x} # {}
  <2>1. Tops(s \ {x})
    BY <1>1, <1>2, <1>5
  <2>2. PICK y \in s \ {x} : \A j \in s \ {x} : j <= y
    BY <2>1
  <2>3. x \in Nat /\ y \in Nat /\ \A j \in s : j \in Nat
    BY <1>2
  <2>4. CASE x <= y
    BY <1>2, <2>2, <2>3, <2>4
  <2>5. CASE y <= x
    BY <1>2, <2>2, <2>3, <2>5
  <2> QED BY <2>3, <2>4, <2>5
<1> QED BY <1>4, <1>5

LEMMA FiniteList ==
  ASSUME NEW n \in Nat
  PROVE  /\ IsFiniteSet(1..n) /\ Cardinality(1..n) = n
         /\ \A s \in SUBSET (1..n) : IsFiniteSet(s) /\ Cardinality(s) \in Nat
<1>1. IsFiniteSet(1..n) /\ Cardinality(1..n) = IF 1 > n THEN 0 ELSE n - 1 + 1
  BY FS_Interval
<1>2. ASSUME NEW s \in SUBSET (1..n) PROVE IsFiniteSet(s) /\ Cardinality(s) \in Nat
  BY <1>1, FS_Subset, FS_CardinalityType
<1> QED BY <1>1, <1>2

(* The k-th of a list when it is sorted exists: the smallest number that k *)
(* of the list do not exceed.                                              *)
LEMMA SmallestFound ==
  ASSUME NEW n \in Nat, NEW f \in [1..n -> Nat], NEW k \in 1..n
  PROVE  /\ \E i \in 1..n : Smallest(f, k) = f[i]
         /\ Cardinality({i \in 1..n : f[i] < Smallest(f, k)}) < k
<1> DEFINE values   == {f[i] : i \in 1..n}
           upto(v)  == {i \in 1..n : f[i] <= v}
           below(v) == {i \in 1..n : f[i] < v}
           enough   == {v \in values : Cardinality(upto(v)) >= k}
<1>1. /\ IsFiniteSet(1..n) /\ Cardinality(1..n) = n
      /\ \A s \in SUBSET (1..n) : IsFiniteSet(s) /\ Cardinality(s) \in Nat
  BY FiniteList
<1>2. values \in SUBSET Nat /\ values # {} /\ \A v \in values : \E i \in 1..n : v = f[i]
  OBVIOUS
<1>3. enough # {}
  <2>1. IsFiniteSet(values)
    <3>1. f \in Surjection(1..n, values)
      BY DEF Surjection
    <3> HIDE DEF values
    <3> QED BY <1>1, <3>1, FS_Surjection
  <2>2. PICK top \in values : \A v \in values : v <= top
    <3> HIDE DEF values
    <3> QED BY <1>2, <2>1, GreatestOfFinite
  <2>3. upto(top) = 1..n
    BY <2>2
  <2>4. Cardinality(upto(top)) >= k
    BY <1>1, <2>3
  <2> QED BY <2>2, <2>4
<1>4. PICK v \in enough : \A w \in enough : v <= w
  <2>1. enough \in SUBSET Nat
    BY <1>2
  <2> HIDE DEF enough
  <2> QED BY <1>3, <2>1, LeastNumber
<1>5. v \in values /\ v \in Nat /\ Cardinality(upto(v)) >= k
  BY <1>2, <1>4
<1>6. Cardinality(below(v)) < k
  <2> SUFFICES ASSUME Cardinality(below(v)) >= k PROVE FALSE
    BY <1>1
  <2> DEFINE lower == {f[i] : i \in below(v)}
  <2>1. below(v) # {}
    <3>1. Cardinality({}) = 0
      BY FS_EmptySet
    <3> QED BY <3>1
  <2>2. PICK u \in lower : \A w \in lower : w <= u
    <3>0. \A i \in 1..n : f[i] \in Nat
      OBVIOUS
    <3>1. lower # {}
      BY <2>1
    <3>2. ASSUME NEW w \in lower PROVE w \in 0..v
      <4>1. PICK i \in 1..n : w = f[i] /\ f[i] < v
        OBVIOUS
      <4> QED BY <1>5, <3>0, <4>1
    <3> HIDE DEF lower
    <3> QED BY <1>5, <3>1, <3>2, GreatestNumber
  <2>3. u \in values /\ u \in Nat /\ u < v
    BY <1>2, <1>5
  <2>4. upto(u) = below(v)
    <3>1. \A i \in 1..n : f[i] \in Nat /\ (f[i] < v => f[i] \in lower)
      OBVIOUS
    <3>2. \A i \in 1..n : f[i] <= u <=> f[i] < v
      <4> HIDE DEF lower
      <4> QED BY <1>5, <2>2, <2>3, <3>1
    <3> QED BY <3>2
  <2>5. u \in enough
    BY <2>3, <2>4
  <2> HIDE DEF enough
  <2> QED BY <1>4, <1>5, <2>3, <2>5
<1>7. \E w \in values : Cardinality(below(w)) < k /\ Cardinality(upto(w)) >= k
  BY <1>5, <1>6
<1>8. /\ Smallest(f, k) \in values
      /\ Cardinality(below(Smallest(f, k))) < k
  <2>1. DOMAIN f = 1..n
    OBVIOUS
  <2>2. Smallest(f, k) = CHOOSE w \in values : Cardinality(below(w)) < k /\ Cardinality(upto(w)) >= k
    BY <2>1 DEF Smallest
  <2> HIDE DEF values, below, upto
  <2> QED BY <1>7, <2>2
<1> QED BY <1>8

(* Most of a list below a bound, its median is below it, too.              *)
LEMMA MedianOfMost ==
  ASSUME NEW n \in Nat, NEW f \in [1..n -> Nat], NEW k \in 1..n, 2 * k <= n + 2,
         NEW lo \in Nat, NEW hi \in Nat, \A i \in 1..n : f[i] >= lo,
         NEW few \in SUBSET (1..n), 2 * Cardinality(few) < n,
         \A i \in (1..n) \ few : f[i] <= hi
  PROVE  Smallest(f, k) \in lo..hi
<1> DEFINE v     == Smallest(f, k)
           most  == (1..n) \ few
           below == {i \in 1..n : f[i] < v}
<1>1. /\ IsFiniteSet(1..n) /\ Cardinality(1..n) = n
      /\ \A s \in SUBSET (1..n) : IsFiniteSet(s) /\ Cardinality(s) \in Nat
  BY FiniteList
<1>2. v \in Nat /\ v >= lo /\ Cardinality(below) < k
  BY SmallestFound
<1>3. Cardinality(few) + Cardinality(most) = n
  <2>1. few \cup most = 1..n /\ few \cap most = {} /\ most \in SUBSET (1..n)
    OBVIOUS
  <2>2. Cardinality({}) = 0
    BY FS_EmptySet
  <2>3. Cardinality(few \cup most) = Cardinality(few) + Cardinality(most) - Cardinality(few \cap most)
    <3>1. IsFiniteSet(few) /\ IsFiniteSet(most)
      BY <1>1
    <3> HIDE DEF most
    <3> QED BY <3>1, FS_Union
  <2>4. /\ Cardinality(few) \in Nat /\ Cardinality(most) \in Nat
        /\ Cardinality(few \cup most) = n /\ Cardinality(few \cap most) = 0
    BY <1>1, <2>1, <2>2
  <2> HIDE DEF most
  <2> QED BY <2>3, <2>4
<1>4. ASSUME v > hi PROVE FALSE
  <2>1. most \in SUBSET below
    BY <1>2, <1>4
  <2>2. Cardinality(most) <= Cardinality(below)
    <3>1. IsFiniteSet(below)
      BY <1>1
    <3> HIDE DEF most, below
    <3> QED BY <2>1, <3>1, FS_Subset
  <2>3. Cardinality(most) \in Nat /\ Cardinality(below) \in Nat /\ Cardinality(few) \in Nat
    BY <1>1
  <2> HIDE DEF most, below
  <2> QED BY <1>2, <1>3, <2>2, <2>3
<1> HIDE DEF v
<1> QED BY <1>2, <1>4 DEF v

(* Sums.  What MapThenSumSet chooses is a function on the subsets; taking  *)
(* any element first comes to the same, so the elements that add nothing   *)
(* can be left out.                                                        *)
IsSum(g, S, f) ==
  g = [s \in SUBSET S |-> IF s = {} THEN 0
                          ELSE f[CHOOSE x \in s : TRUE] + g[s \ {CHOOSE x \in s : TRUE}]]

LEMMA SumExists ==
  ASSUME NEW S, IsFiniteSet(S), NEW f \in [S -> Nat]
  PROVE  \E g : IsSum(g, S, f)
<1> DEFINE pick == [s \in SUBSET S |-> CHOOSE x \in s : TRUE]
           step == [x \in S \X Nat |-> f[x[1]] + x[2]]
<1>1. \A s \in SUBSET S : s # {} => pick[s] \in s
  OBVIOUS
<1>2. step \in [S \X Nat -> Nat]
  OBVIOUS
<1>3. Foldable(S, Nat, 0, pick, step)
  <2> HIDE DEF pick, step
  <2> QED BY <1>1, <1>2 DEF Foldable
<1>4. PICK g \in [SUBSET S -> Nat] : FoldsTo(g, S, 0, pick, step)
  <2> HIDE DEF pick, step
  <2> QED BY <1>3, FoldExists
<1>5. \A s \in SUBSET S : g[s] = IF s = {} THEN 0 ELSE step[<<pick[s], g[s \ {pick[s]}]>>]
  <2> HIDE DEF pick, step
  <2> QED BY <1>4 DEF FoldsTo
<1>6. \A s \in SUBSET S : s # {} =>
        step[<<pick[s], g[s \ {pick[s]}]>>]
          = f[CHOOSE x \in s : TRUE] + g[s \ {CHOOSE x \in s : TRUE}]
  <2> SUFFICES ASSUME NEW s \in SUBSET S, s # {}
               PROVE  step[<<pick[s], g[s \ {pick[s]}]>>] = f[pick[s]] + g[s \ {pick[s]}]
    OBVIOUS
  <2>1. pick[s] \in S /\ g[s \ {pick[s]}] \in Nat
    BY <1>1, <1>4
  <2> HIDE DEF pick
  <2> QED BY <2>1
<1>7. g = [s \in SUBSET S |-> IF s = {} THEN 0
                               ELSE f[CHOOSE x \in s : TRUE] + g[s \ {CHOOSE x \in s : TRUE}]]
  <2>1. DOMAIN g = SUBSET S /\ g = [s \in SUBSET S |-> g[s]]
    BY <1>4
  <2>2. \A s \in SUBSET S : g[s] = IF s = {} THEN 0
                            ELSE f[CHOOSE x \in s : TRUE] + g[s \ {CHOOSE x \in s : TRUE}]
    <3> HIDE DEF pick, step
    <3> QED BY <1>5, <1>6
  <2> QED BY <2>1, <2>2
<1> QED BY <1>7 DEF IsSum

LEMMA SumType ==
  ASSUME NEW S, IsFiniteSet(S), NEW f \in [S -> Nat], NEW g, IsSum(g, S, f)
  PROVE  /\ g[{}] = 0 /\ \A s \in SUBSET S : g[s] \in Nat
         /\ \A s \in SUBSET S : s # {} =>
              \E y \in s : g[s] = f[y] + g[s \ {y}]
<1>1. g[{}] = 0
  BY DEF IsSum
<1>2. ASSUME NEW s \in SUBSET S, s # {} PROVE \E y \in s : g[s] = f[y] + g[s \ {y}]
  <2> DEFINE y == CHOOSE x \in s : TRUE
  <2>1. y \in s /\ g[s] = f[y] + g[s \ {y}]
    BY <1>2 DEF IsSum
  <2> HIDE DEF y
  <2> QED BY <2>1
<1> DEFINE bad == {s \in SUBSET S : g[s] \notin Nat}
<1>3. bad = {}
  <2> SUFFICES ASSUME bad # {} PROVE FALSE
    OBVIOUS
  <2>1. PICK s \in bad : \A x \in s : s \ {x} \notin bad
    <3>1. bad \in SUBSET SUBSET S
      OBVIOUS
    <3> HIDE DEF bad
    <3> QED BY <3>1, SmallestSet
  <2>2. s \in SUBSET S /\ g[s] \notin Nat /\ s # {}
    BY <1>1, <2>1
  <2>3. PICK y \in s : g[s] = f[y] + g[s \ {y}]
    BY <1>2, <2>2
  <2>4. g[s \ {y}] \in Nat /\ f[y] \in Nat
    BY <2>1, <2>2
  <2> QED BY <2>2, <2>3, <2>4
<1> QED BY <1>1, <1>2, <1>3

LEMMA SumOfAny ==
  ASSUME NEW S, IsFiniteSet(S), NEW f \in [S -> Nat], NEW g, IsSum(g, S, f),
         NEW t \in SUBSET S, NEW z \in t
  PROVE  g[t] = f[z] + g[t \ {z}]
<1> DEFINE Fine(s) == \A x \in s : g[s] = f[x] + g[s \ {x}]
           bad     == {s \in SUBSET S : ~Fine(s)}
<1> SUFFICES ASSUME bad # {} PROVE FALSE
  OBVIOUS
<1>1. PICK s \in bad : \A x \in s : s \ {x} \notin bad
  <2>1. bad \in SUBSET SUBSET S
    OBVIOUS
  <2> HIDE DEF bad
  <2> QED BY <2>1, SmallestSet
<1>2. s \in SUBSET S /\ ~Fine(s)
  BY <1>1
<1>3. \A x \in s : Fine(s \ {x}) /\ f[x] \in Nat
  BY <1>1, <1>2
<1>4. PICK x \in s : g[s] # f[x] + g[s \ {x}]
  BY <1>2
<1>5. PICK y \in s : g[s] = f[y] + g[s \ {y}]
  <2>1. s # {}
    BY <1>4
  <2> QED BY <1>2, <2>1, SumType
<1>6. x \in s \ {y} /\ y \in s \ {x} /\ (s \ {x}) \ {y} = (s \ {y}) \ {x}
  BY <1>4, <1>5
<1>7. g[s \ {y}] = f[x] + g[(s \ {y}) \ {x}] /\ g[s \ {x}] = f[y] + g[(s \ {x}) \ {y}]
  BY <1>3, <1>6
<1>8. g[(s \ {y}) \ {x}] \in Nat
  <2>1. (s \ {y}) \ {x} \in SUBSET S
    BY <1>2
  <2> QED BY <2>1, SumType
<1>9. f[x] \in Nat /\ f[y] \in Nat
  BY <1>2
<1> HIDE DEF Fine, bad
<1>10. g[(s \ {x}) \ {y}] = g[(s \ {y}) \ {x}]
  BY <1>6
<1> DEFINE rest == g[(s \ {y}) \ {x}]
<1>11. /\ g[s] = f[y] + (f[x] + rest) /\ g[s \ {x}] = f[y] + rest
       /\ rest \in Nat
  BY <1>5, <1>7, <1>8, <1>10
<1> HIDE DEF rest
<1>12. g[s] = f[x] + g[s \ {x}]
  BY <1>9, <1>11
<1> QED BY <1>4, <1>12

LEMMA SumOfSome ==
  ASSUME NEW S, IsFiniteSet(S), NEW T \in SUBSET S,
         NEW f \in [S -> Nat], NEW h \in [T -> Nat],
         \A x \in T : f[x] = h[x], \A x \in S \ T : f[x] = 0,
         NEW g, IsSum(g, S, f), NEW k, IsSum(k, T, h)
  PROVE  g[S] = k[T]
<1> DEFINE bad == {s \in SUBSET S : g[s] # k[s \cap T]}
<1>0. IsFiniteSet(T)
  BY FS_Subset
<1>1. bad = {}
  <2> SUFFICES ASSUME bad # {} PROVE FALSE
    OBVIOUS
  <2>1. PICK s \in bad : \A x \in s : s \ {x} \notin bad
    <3>1. bad \in SUBSET SUBSET S
      OBVIOUS
    <3> HIDE DEF bad
    <3> QED BY <3>1, SmallestSet
  <2>2. s \in SUBSET S /\ g[s] # k[s \cap T]
    BY <2>1
  <2>3. s # {}
    <3>1. g[{}] = 0 /\ k[{}] = 0
      BY <1>0, SumType
    <3>2. {} \cap T = {}
      OBVIOUS
    <3> QED BY <2>2, <3>1, <3>2
  <2>4. PICK x \in s : TRUE
    BY <2>3
  <2>5. g[s] = f[x] + g[s \ {x}]
    BY <2>2, SumOfAny
  <2>6. g[s \ {x}] = k[(s \ {x}) \cap T]
    BY <2>1, <2>2
  <2>7. CASE x \in T
    <3>1. s \cap T \in SUBSET T /\ x \in s \cap T /\ (s \ {x}) \cap T = (s \cap T) \ {x}
      BY <2>7
    <3>2. k[s \cap T] = h[x] + k[(s \cap T) \ {x}]
      BY <1>0, <3>1, SumOfAny
    <3>3. f[x] = h[x]
      BY <2>7
    <3>4. k[(s \cap T) \ {x}] = g[s \ {x}]
      BY <2>6, <3>1
    <3>5. g[s] = k[s \cap T]
      BY <2>5, <3>2, <3>3, <3>4
    <3> QED BY <2>2, <3>5
  <2>8. CASE x \notin T
    <3>1. (s \ {x}) \cap T = s \cap T /\ f[x] = 0 /\ s \cap T \in SUBSET T
      BY <2>2, <2>8
    <3>2. k[s \cap T] \in Nat
      BY <1>0, <3>1, SumType
    <3>3. g[s \ {x}] = k[s \cap T]
      BY <2>6, <3>1
    <3>4. g[s] = k[s \cap T]
      BY <2>5, <3>1, <3>2, <3>3
    <3> QED BY <2>2, <3>4
  <2> QED BY <2>7, <2>8
<1>2. S \cap T = T
  OBVIOUS
<1> QED BY <1>1, <1>2
------------------------------------------------------------------------------
(* The ride: every crossing that is read counts, and the time between two  *)
(* passes is that of as many laps as were missed between them, and one.    *)
TakesLaps(time, laps, shortest, longest) ==
  laps * shortest <= time /\ time <= laps * longest

RideInv(shortest, longest) ==
  /\ RaceInv(ride) /\ ride.format = TrainingRide
  /\ ride.started_at = 1 /\ ride.ended_at = None
  /\ crossed_at \in Nat \ {0}
  /\ gaps \in Seq(0..MaxGap) /\ Len(gaps) = Len(Passes)
  /\ \A i \in 1..(Len(gaps) - 1) :
       TakesLaps(Passes[i + 1] - Passes[i], gaps[i] + 1, shortest, longest)
  /\ Len(gaps) > 0 =>
       TakesLaps(crossed_at - Passes[Len(gaps)], gaps[Len(gaps)], shortest, longest)

LEMMA TrainingFormat == TrainingRide \in Format
BY CrossingsAssumption DEF TrainingRide, Format, Modes, None, NoLaps

LEMMA InitRide ==
  ASSUME NEW shortest \in Nat \ {0}, NEW longest \in Nat \ {0}, RideInit
  PROVE  RideInv(shortest, longest)
<1>0. RaceInv(ride)
  <2>1. RaceInv(NewRace(TrainingRide))
    BY TrainingFormat, NewRaceInv
  <2> QED BY <2>1, StartInv DEF RideInit
<1>1. /\ ride.format = TrainingRide /\ ride.started_at = 1 /\ ride.ended_at = None
      /\ Passes = <<>>
  BY RiderAssumption DEF RideInit, Start, NewRace, NoParticipants, None, Passes
<1>2. gaps = <<>> /\ gaps \in Seq(0..MaxGap) /\ Len(gaps) = 0 /\ crossed_at = 1
  BY DEF RideInit
<1> QED BY <1>0, <1>1, <1>2 DEF RideInv

LEMMA StepRide ==
  ASSUME NEW shortest \in Nat \ {0}, NEW longest \in Nat \ {0}, SteadyBetween(shortest, longest),
         RideInv(shortest, longest), [RideNext]_rideVars
  PROVE  RideInv(shortest, longest)'
<1> DEFINE n == Len(gaps)
<1>0. CASE UNCHANGED rideVars
  BY <1>0 DEF rideVars, RideInv, Passes
<1> SUFFICES ASSUME NEW seen \in BOOLEAN, Cross(seen) PROVE RideInv(shortest, longest)'
  BY <1>0 DEF RideNext
<1>1. PICK lap \in LapTimes : crossed_at' = crossed_at + lap
  BY DEF Cross
<1>2. lap \in Nat \ {0} /\ shortest <= lap /\ lap <= longest
  BY LapsAssumption DEF SteadyBetween
<1>3. /\ Passes \in Seq(Nat) /\ n = Len(Passes) /\ n \in Nat /\ gaps \in Seq(0..MaxGap)
      /\ crossed_at \in Nat \ {0} /\ crossed_at' \in Nat \ {0} /\ crossed_at' > crossed_at
      /\ MaxGap \in Nat /\ Laps(ride, Rider) = n
  BY <1>1, <1>2, RiderAssumption, CrossingsAssumption DEF RideInv, RaceInv, Passes, Race, Participant, Laps
<1>4. \A i \in 1..n : gaps[i] \in 0..MaxGap /\ Passes[i] \in Nat
  BY <1>3
<1>5. \A i \in 1..(n - 1) : TakesLaps(Passes[i + 1] - Passes[i], gaps[i] + 1, shortest, longest)
  BY DEF RideInv
<1>6. n > 0 => TakesLaps(crossed_at - Passes[n], gaps[n], shortest, longest)
  BY DEF RideInv
<1>7. n > 0 => TakesLaps(crossed_at' - Passes[n], gaps[n] + 1, shortest, longest)
  <2> SUFFICES ASSUME n > 0 PROVE TakesLaps(crossed_at' - Passes[n], gaps[n] + 1, shortest, longest)
    OBVIOUS
  <2> DEFINE g == gaps[n]
             p == Passes[n]
  <2>1. g \in Nat /\ p \in Nat
    BY <1>3, <1>4
  <2>2. g * shortest <= crossed_at - p /\ crossed_at - p <= g * longest
    BY <1>6 DEF TakesLaps
  <2> HIDE DEF g, p, n
  <2>3. (g + 1) * shortest = g * shortest + shortest /\ (g + 1) * longest = g * longest + longest
    BY <2>1
  <2>4. g * shortest \in Nat /\ g * longest \in Nat
    BY <2>1
  <2>5. (g + 1) * shortest <= crossed_at' - p /\ crossed_at' - p <= (g + 1) * longest
    BY <1>1, <1>2, <1>3, <2>1, <2>2, <2>3, <2>4
  <2> QED BY <2>5 DEF TakesLaps, g, p, n
<1>8. CASE seen
  <2>1. ride' = AddLap(ride, Rider, crossed_at', crossed_at') /\ gaps' = Append(gaps, 0)
    BY <1>8 DEF Cross
  <2>2. n > 0 => Passes[n] < crossed_at'
    <3> SUFFICES ASSUME n > 0 PROVE Passes[n] < crossed_at'
      OBVIOUS
    <3>1. gaps[n] \in Nat /\ Passes[n] \in Nat /\ gaps[n] * shortest \in Nat
      BY <1>3, <1>4
    <3>2. gaps[n] * shortest <= crossed_at - Passes[n]
      BY <1>6 DEF TakesLaps
    <3> HIDE DEF n
    <3> QED BY <1>3, <3>1, <3>2
  <2>3. Counts(ride, Rider, crossed_at')
    <3>1. ride.format.min_pass = 1 /\ ride.started_at = 1 /\ ride.ended_at = None
      BY DEF RideInv, TrainingRide
    <3>2. CASE n = 0
      <4>1. crossed_at' - 1 >= 1
        <5>1. \A a \in Nat \ {0}, b \in Nat \ {0} : b > a => b - 1 >= 1
          OBVIOUS
        <5> QED BY <1>3, <5>1
      <4> QED BY <1>3, <3>1, <3>2, <4>1 DEF Counts, None
    <3>3. CASE n # 0
      <4>1. LastPass(ride, Rider) = Passes[n] /\ Passes[n] \in Nat
        BY <1>3, <1>4, <3>3 DEF LastPass, Passes
      <4>2. Passes[n] < crossed_at'
        BY <1>3, <2>2, <3>3
      <4> HIDE DEF n
      <4> QED BY <1>3, <3>1, <3>3, <4>1, <4>2 DEF Counts, None
    <3> QED BY <3>2, <3>3
  <2>4. ride' = CountPass(ride, Rider, crossed_at')
    <3>1. PassTime(crossed_at', crossed_at') = crossed_at'
      BY DEF PassTime
    <3> QED BY <2>1, <2>3, <3>1 DEF AddLap
  <2>5. /\ RaceInv(ride') /\ ride'.format = ride.format
        /\ ride'.started_at = ride.started_at /\ ride'.ended_at = ride.ended_at
    <3>1. RaceInv(ride) /\ ride \in Race
      BY DEF RideInv, RaceInv
    <3>2. ride'.ended_at = ride.ended_at
      BY <2>4, <3>1 DEF CountPass, Race
    <3>3. RaceInv(ride')
      BY <1>3, <2>1, <3>1, RiderAssumption, AddLapInv
    <3> QED BY <1>3, <2>3, <2>4, <3>1, <3>2, <3>3, RiderAssumption, CountPassFields
  <2>6. Passes' = Append(Passes, crossed_at')
    BY <2>4, RiderAssumption DEF RideInv, RaceInv, CountPass, Race, Passes
  <2>7. /\ gaps' \in Seq(0..MaxGap) /\ Len(gaps') = n + 1 /\ Len(Passes') = n + 1
        /\ \A i \in 1..n : gaps'[i] = gaps[i] /\ Passes'[i] = Passes[i]
        /\ gaps'[n + 1] = 0 /\ Passes'[n + 1] = crossed_at'
    BY <1>3, <2>1, <2>6
  <2>8. \A i \in 1..n : TakesLaps(Passes'[i + 1] - Passes'[i], gaps'[i] + 1, shortest, longest)
    <3> SUFFICES ASSUME NEW i \in 1..n
                 PROVE  TakesLaps(Passes'[i + 1] - Passes'[i], gaps'[i] + 1, shortest, longest)
      OBVIOUS
    <3>1. CASE i = n
      BY <1>3, <1>7, <2>7, <3>1
    <3>2. CASE i # n
      <4>1. i \in 1..(n - 1) /\ i + 1 \in 1..n
        BY <1>3, <3>2
      <4> HIDE DEF n
      <4> QED BY <1>5, <2>7, <4>1
    <3> QED BY <3>1, <3>2
  <2>9. TakesLaps(crossed_at' - Passes'[n + 1], gaps'[n + 1], shortest, longest)
    <3>1. TakesLaps(crossed_at' - crossed_at', 0, shortest, longest)
      <4>1. \A a \in Nat \ {0} : a - a = 0
        OBVIOUS
      <4>2. 0 * shortest = 0 /\ 0 * longest = 0
        OBVIOUS
      <4>3. crossed_at' - crossed_at' = 0
        BY <1>3, <4>1
      <4> QED BY <4>2, <4>3 DEF TakesLaps
    <3> QED BY <2>7, <3>1
  <2> HIDE DEF n
  <2> QED BY <1>3, <2>5, <2>7, <2>8, <2>9 DEF RideInv
<1>9. CASE ~seen
  <2>1. /\ ride' = ride /\ n > 0 /\ gaps[n] < MaxGap
        /\ gaps' = [gaps EXCEPT ![n] = gaps[n] + 1]
    BY <1>3, <1>9 DEF Cross
  <2>2. Passes' = Passes
    BY <2>1 DEF Passes
  <2>3. /\ gaps' \in Seq(0..MaxGap) /\ Len(gaps') = n /\ gaps'[n] = gaps[n] + 1
        /\ \A i \in 1..(n - 1) : gaps'[i] = gaps[i]
    <3>1. gaps[n] + 1 \in 0..MaxGap /\ n \in 1..n
      BY <1>3, <1>4, <2>1
    <3> QED BY <1>3, <2>1, <3>1
  <2> HIDE DEF n
  <2> QED BY <1>3, <1>5, <1>7, <2>1, <2>2, <2>3 DEF RideInv
<1> QED BY <1>8, <1>9

(* round(): to k, when the quotient is nearer to k than to k - 1/2, k + 1/2. *)
LEMMA Quotient ==
  ASSUME NEW a \in Nat, NEW b \in Nat \ {0}, NEW q \in Nat, b * q <= a, a < b * q + b
  PROVE  a \div b = q /\ a % b = a - b * q
<1>1. a = b * (a \div b) + (a % b) /\ a % b \in 0..(b - 1) /\ a \div b \in Int
  OBVIOUS
<1>2. a \div b = q
  <2> DEFINE d == a \div b
             r == a % b
  <2>1. d \in Int /\ r \in Int /\ a = b * d + r /\ 0 <= r /\ r < b
    BY <1>1
  <2> HIDE DEF d, r
  <2>2. CASE d < q
    <3>1. b * (q - d) >= b /\ b * (q - d) = b * q - b * d
      BY <2>1, <2>2
    <3> QED BY <2>1, <3>1
  <2>3. CASE d > q
    <3>1. b * (d - q) >= b /\ b * (d - q) = b * d - b * q
      BY <2>1, <2>3
    <3> QED BY <2>1, <3>1
  <2> QED BY <2>1, <2>2, <2>3 DEF d
<1> QED BY <1>1, <1>2

LEMMA RoundedTo ==
  ASSUME NEW a \in Nat, NEW b \in Nat \ {0}, NEW k \in {2, 3},
         2 * a > (2 * k - 1) * b, 2 * a < (2 * k + 1) * b
  PROVE  Rounded(a, b) = k
<1>1. CASE a < k * b
  <2>1. b * (k - 1) <= a /\ a < b * (k - 1) + b
    BY <1>1
  <2>2. a \div b = k - 1 /\ a % b = a - b * (k - 1)
    <3>1. k - 1 \in Nat
      OBVIOUS
    <3> QED BY <2>1, <3>1, Quotient
  <2>3. 2 * (a % b) > b
    BY <2>2
  <2> QED BY <2>2, <2>3 DEF Rounded
<1>2. CASE a >= k * b
  <2>1. b * k <= a /\ a < b * k + b
    BY <1>2
  <2>2. a \div b = k /\ a % b = a - b * k
    BY <2>1, Quotient
  <2>3. 2 * (a % b) < b
    BY <2>2
  <2> QED BY <2>2, <2>3 DEF Rounded
<1> QED BY <1>1, <1>2

(* Of a time the backend tells whether reads were missed in it, and how    *)
(* many: g, where M is twice the median lap.                               *)
Tells(time, M, g) ==
  /\ (20 * time > 17 * M /\ 20 * time <= 35 * M) <=> g > 0
  /\ g > 0 => g = IF Rounded(2 * time, M) > 2 THEN Rounded(2 * time, M) - 1 ELSE 1

(* It does so of the time a steady rider takes for one lap, two or three.  *)
LEMMA TellsLaps ==
  ASSUME NEW shortest \in Nat \ {0}, NEW longest \in Nat \ {0}, SteadyBetween(shortest, longest),
         NEW M \in (2 * shortest)..(2 * longest),
         NEW g \in 0..MaxGap, NEW time \in Nat, TakesLaps(time, g + 1, shortest, longest)
  PROVE  Tells(time, M, g)
<1> SUFFICES /\ (20 * time > 17 * M /\ 20 * time <= 35 * M) <=> g > 0
             /\ g > 0 => g = IF Rounded(2 * time, M) > 2 THEN Rounded(2 * time, M) - 1 ELSE 1
  BY DEF Tells
<1>1. /\ 17 * longest < 20 * shortest /\ 2 * (MaxGap + 1) * longest < 7 * shortest
      /\ MaxGap \in Nat /\ g \in Nat /\ g <= MaxGap /\ M \in Nat \ {0}
      /\ 2 * shortest <= M /\ M <= 2 * longest
  BY CrossingsAssumption DEF SteadyBetween
<1>2. (g + 1) * shortest <= time /\ time <= (g + 1) * longest
  BY DEF TakesLaps
<1>3. (g + 1) * longest <= (MaxGap + 1) * longest
  BY <1>1
<1>4. 2 * ((g + 1) * longest) < 7 * shortest
  <2>1. 2 * (MaxGap + 1) * longest = 2 * ((MaxGap + 1) * longest)
    BY <1>1
  <2>2. (g + 1) * longest \in Nat /\ (MaxGap + 1) * longest \in Nat
    BY <1>1
  <2> QED BY <1>1, <1>3, <2>1, <2>2
<1>5. g \in {0, 1, 2}
  <2> SUFFICES ASSUME g >= 3 PROVE FALSE
    BY <1>1
  <2>1. (g + 1) * longest >= 4 * longest
    BY <1>1
  <2>2. (g + 1) * longest \in Nat
    BY <1>1
  <2> QED BY <1>1, <1>4, <2>1, <2>2
<1>6. CASE g = 0
  <2>1. time <= longest
    BY <1>2, <1>6
  <2> QED BY <1>1, <1>6, <2>1
<1>7. CASE g = 1
  <2>1. 2 * shortest <= time /\ time <= 2 * longest
    BY <1>2, <1>7
  <2>2. /\ 2 * (2 * time) > (2 * 2 - 1) * M /\ 2 * (2 * time) < (2 * 2 + 1) * M
        /\ 2 * time \in Nat
    BY <1>1, <2>1
  <2>3. Rounded(2 * time, M) = 2
    BY <1>1, <2>2, RoundedTo
  <2>4. 20 * time > 17 * M /\ 20 * time <= 35 * M
    BY <1>1, <2>1
  <2> QED BY <1>7, <2>3, <2>4
<1>8. CASE g = 2
  <2>1. 3 * shortest <= time /\ time <= 3 * longest /\ 6 * longest < 7 * shortest
    BY <1>2, <1>4, <1>8
  <2>2. /\ 2 * (2 * time) > (2 * 3 - 1) * M /\ 2 * (2 * time) < (2 * 3 + 1) * M
        /\ 2 * time \in Nat
    BY <1>1, <2>1
  <2>3. Rounded(2 * time, M) = 3
    BY <1>1, <2>2, RoundedTo
  <2>4. 20 * time > 17 * M /\ 20 * time <= 35 * M
    BY <1>1, <2>1
  <2> QED BY <1>8, <2>3, <2>4
<1> QED BY <1>5, <1>6, <1>7, <1>8

(* What a sum by MapThenSumSet is. *)
LEMMA SumOfGaps ==
  ASSUME NEW S, IsFiniteSet(S), NEW f \in [S -> Nat], \A i \in S : f[i] = gaps[i]
  PROVE  \E g : IsSum(g, S, f) /\ g[S] = MapThenSumSet(LAMBDA i : gaps[i], S)
<1> DEFINE Is(g) == g = [s \in SUBSET S |-> IF s = {} THEN 0
                         ELSE gaps[CHOOSE x \in s : TRUE] + g[s \ {CHOOSE x \in s : TRUE}]]
<1>1. \A s \in SUBSET S : s # {} => f[CHOOSE x \in s : TRUE] = gaps[CHOOSE x \in s : TRUE]
  <2> SUFFICES ASSUME NEW s \in SUBSET S, s # {}
               PROVE  f[CHOOSE x \in s : TRUE] = gaps[CHOOSE x \in s : TRUE]
    OBVIOUS
  <2>1. (CHOOSE x \in s : TRUE) \in S
    OBVIOUS
  <2> QED BY <2>1
<1>2. \A g : Is(g) <=> IsSum(g, S, f)
  BY <1>1 DEF IsSum
<1>3. \E g : Is(g)
  <2>1. PICK g : IsSum(g, S, f)
    BY SumExists
  <2> HIDE DEF Is
  <2> QED BY <1>2, <2>1
<1> DEFINE g == CHOOSE h : Is(h)
<1>4. Is(g)
  BY <1>3
<1>5. g[S] = MapThenSumSet(LAMBDA i : gaps[i], S)
  BY DEF MapThenSumSet, MapThenFoldSet
<1> HIDE DEF g, Is
<1> QED BY <1>2, <1>4, <1>5

LEMMA SumOfMissed ==
  ASSUME NEW S, IsFiniteSet(S), NEW f \in [S -> Nat],
         \A i \in S : f[i] = MissedIn(Passes, i)
  PROVE  \E g : IsSum(g, S, f) /\ g[S] = MapThenSumSet(LAMBDA i : MissedIn(Passes, i), S)
<1> DEFINE Is(g) == g = [s \in SUBSET S |-> IF s = {} THEN 0
                         ELSE MissedIn(Passes, CHOOSE x \in s : TRUE)
                              + g[s \ {CHOOSE x \in s : TRUE}]]
<1>1. \A s \in SUBSET S : s # {} => f[CHOOSE x \in s : TRUE] = MissedIn(Passes, CHOOSE x \in s : TRUE)
  <2> SUFFICES ASSUME NEW s \in SUBSET S, s # {}
               PROVE  f[CHOOSE x \in s : TRUE] = MissedIn(Passes, CHOOSE x \in s : TRUE)
    OBVIOUS
  <2>1. (CHOOSE x \in s : TRUE) \in S
    OBVIOUS
  <2> QED BY <2>1
<1>2. \A g : Is(g) <=> IsSum(g, S, f)
  BY <1>1 DEF IsSum
<1>3. \E g : Is(g)
  <2>1. PICK g : IsSum(g, S, f)
    BY SumExists
  <2> HIDE DEF Is
  <2> QED BY <1>2, <2>1
<1> DEFINE g == CHOOSE h : Is(h)
<1>4. Is(g)
  BY <1>3
<1>5. g[S] = MapThenSumSet(LAMBDA i : MissedIn(Passes, i), S)
  BY DEF MapThenSumSet, MapThenFoldSet
<1> HIDE DEF g, Is
<1> QED BY <1>2, <1>4, <1>5

LEMMA SteadyMisses ==
  ASSUME NEW shortest \in Nat \ {0}, NEW longest \in Nat \ {0}, SteadyBetween(shortest, longest),
         RideInv(shortest, longest)
  PROVE  MissesAreFound
<1> DEFINE n      == Len(gaps) - 1
           closed == 1..n
           few    == {i \in closed : gaps[i] > 0}
           f      == Intervals(Passes)
           M      == TwiceMedian(f)
<1> SUFFICES ASSUME Len(gaps) >= 5, 2 * Cardinality(few) < Len(gaps) - 1
             PROVE  SuspectedMissed(Passes) = MapThenSumSet(LAMBDA i : gaps[i], closed)
  BY DEF MissesAreFound
<1>1. /\ gaps \in Seq(0..MaxGap) /\ Passes \in Seq(Nat) /\ Len(gaps) = Len(Passes)
      /\ n \in Nat /\ n >= 4 /\ n + 1 = Len(Passes)
  BY RiderAssumption DEF RideInv, RaceInv, Passes, Race, Participant
<1>2. \A i \in closed : /\ gaps[i] \in 0..MaxGap
                        /\ Passes[i] \in Nat /\ Passes[i + 1] \in Nat
                        /\ TakesLaps(Passes[i + 1] - Passes[i], gaps[i] + 1, shortest, longest)
  <2> SUFFICES ASSUME NEW i \in closed
               PROVE  /\ gaps[i] \in 0..MaxGap /\ Passes[i] \in Nat /\ Passes[i + 1] \in Nat
                      /\ TakesLaps(Passes[i + 1] - Passes[i], gaps[i] + 1, shortest, longest)
    OBVIOUS
  <2>1. i \in 1..Len(gaps) /\ i + 1 \in 1..Len(Passes)
    BY <1>1
  <2>2. TakesLaps(Passes[i + 1] - Passes[i], gaps[i] + 1, shortest, longest)
    BY DEF RideInv
  <2>3. gaps[i] \in 0..MaxGap /\ Passes[i] \in Nat /\ Passes[i + 1] \in Nat
    <3>1. i \in 1..Len(Passes)
      BY <1>1, <2>1
    <3> HIDE DEF n, closed, few, f, M
    <3>2. gaps[i] \in 0..MaxGap
      <4>1. gaps \in Seq(0..MaxGap) /\ i \in 1..Len(gaps)
        BY <1>1, <2>1
      <4>2. \A S : \A s \in Seq(S) : \A j \in 1..Len(s) : s[j] \in S
        OBVIOUS
      <4> QED BY <4>1, <4>2
    <3> QED BY <1>1, <2>1, <3>1, <3>2
  <2> QED BY <2>2, <2>3
<1>3. \A i \in closed : /\ f[i] = Passes[i + 1] - Passes[i] /\ f[i] \in Nat /\ f[i] >= shortest
                        /\ gaps[i] = 0 => f[i] <= longest
  <2> SUFFICES ASSUME NEW i \in closed
               PROVE  /\ f[i] = Passes[i + 1] - Passes[i] /\ f[i] \in Nat /\ f[i] >= shortest
                      /\ gaps[i] = 0 => f[i] <= longest
    OBVIOUS
  <2>1. f[i] = Passes[i + 1] - Passes[i]
    BY <1>1 DEF Intervals
  <2> DEFINE g == gaps[i]
             t == Passes[i + 1] - Passes[i]
  <2>2. g \in Nat /\ t \in Int
    BY <1>2, CrossingsAssumption
  <2>3. (g + 1) * shortest <= t /\ t <= (g + 1) * longest
    BY <1>2 DEF TakesLaps
  <2> HIDE DEF g, t, f
  <2>4. (g + 1) * shortest >= shortest /\ (g + 1) * shortest \in Nat
    BY <2>2
  <2>5. t \in Nat /\ t >= shortest
    BY <2>2, <2>3, <2>4
  <2>6. g = 0 => t <= longest
    BY <2>2, <2>3
  <2> QED BY <2>1, <2>5, <2>6 DEF g, t
<1>4. f \in [1..n -> Nat] /\ Len(f) = n /\ DOMAIN f = 1..n
  <2>1. f = [i \in 1..n |-> Passes[i + 1] - Passes[i]]
    BY <1>1 DEF Intervals
  <2>2. f \in [1..n -> Nat]
    <3> HIDE DEF f
    <3>1. \A i \in 1..n : Passes[i + 1] - Passes[i] \in Nat
      BY <1>3
    <3> QED BY <2>1, <3>1
  <2> HIDE DEF f
  <2>3. f \in Seq(Nat) /\ DOMAIN f = 1..n
    BY <1>1, <2>2
  <2>4. Len(f) = n
    BY <1>1, <2>3
  <2> QED BY <2>2, <2>3, <2>4
<1> HIDE DEF f
<1>5. M \in (2 * shortest)..(2 * longest)
  <2> DEFINE a == (n + 1) \div 2
             b == (n + 2) \div 2
  <2>1. a \in 1..n /\ b \in 1..n /\ 2 * a <= n + 2 /\ 2 * b <= n + 2
    BY <1>1
  <2>2. \A i \in (1..n) \ few : f[i] <= longest
    BY <1>2, <1>3, CrossingsAssumption
  <2>3. Smallest(f, a) \in shortest..longest /\ Smallest(f, b) \in shortest..longest
    <3> HIDE DEF a, b
    <3>1. few \in SUBSET (1..n) /\ \A i \in 1..n : f[i] >= shortest
      BY <1>3
    <3> HIDE DEF few, n
    <3> QED BY <1>1, <1>4, <2>1, <2>2, <3>1, MedianOfMost DEF n
  <2>4. M = Smallest(f, a) + Smallest(f, b)
    BY <1>4 DEF TwiceMedian
  <2> HIDE DEF a, b, M
  <2> QED BY <2>3, <2>4
<1>6. \A i \in closed :
        /\ (20 * f[i] > 17 * M /\ 20 * f[i] <= 35 * M) <=> gaps[i] > 0
        /\ gaps[i] > 0 => gaps[i] = MissedIn(Passes, i)
  <2> SUFFICES ASSUME NEW i \in closed
               PROVE  /\ (20 * f[i] > 17 * M /\ 20 * f[i] <= 35 * M) <=> gaps[i] > 0
                      /\ gaps[i] > 0 => gaps[i] = MissedIn(Passes, i)
    OBVIOUS
  <2>1. MissedIn(Passes, i) = IF Rounded(2 * f[i], M) > 2 THEN Rounded(2 * f[i], M) - 1 ELSE 1
    BY DEF MissedIn, f
  <2>2. gaps[i] \in 0..MaxGap /\ f[i] \in Nat /\ TakesLaps(f[i], gaps[i] + 1, shortest, longest)
    BY <1>2, <1>3
  <2>3. Tells(f[i], M, gaps[i])
    <3>1. \A m \in (2 * shortest)..(2 * longest), g \in 0..MaxGap, time \in Nat :
            TakesLaps(time, g + 1, shortest, longest) => Tells(time, m, g)
      BY TellsLaps
    <3> HIDE DEF M, few, closed, n
    <3> QED BY ONLY <1>5, <2>2, <3>1
  <2> QED BY <2>1, <2>3 DEF Tells
<1>7. Gaps(Passes) = few
  <2>1. Gaps(Passes) = {i \in DOMAIN f : 20 * f[i] > 17 * M /\ 20 * f[i] <= 35 * M}
    <3>1. ~(Len(f) < 4)
      BY <1>1, <1>4
    <3> QED BY <3>1 DEF Gaps, f
  <2> QED BY <1>4, <1>6, <2>1
<1>8. IsFiniteSet(closed) /\ IsFiniteSet(few) /\ few \in SUBSET closed
  <2>1. few \in SUBSET closed
    OBVIOUS
  <2> HIDE DEF few
  <2> QED BY <1>1, <2>1, FiniteList
<1> DEFINE each == [i \in closed |-> gaps[i]]
           some == [i \in few |-> MissedIn(Passes, i)]
<1>9. each \in [closed -> Nat] /\ some \in [few -> Nat]
  <2>1. \A i \in closed : gaps[i] \in Nat
    BY <1>2, CrossingsAssumption
  <2>2. \A i \in few : i \in closed /\ MissedIn(Passes, i) = gaps[i]
    BY <1>6
  <2> QED BY <2>1, <2>2
<1>10. PICK g : IsSum(g, closed, each) /\ g[closed] = MapThenSumSet(LAMBDA i : gaps[i], closed)
  <2>1. \A i \in closed : each[i] = gaps[i]
    OBVIOUS
  <2> HIDE DEF each, closed
  <2> QED BY <1>8, <1>9, <2>1, SumOfGaps
<1>11. PICK k : IsSum(k, few, some) /\ k[few] = MapThenSumSet(LAMBDA i : MissedIn(Passes, i), few)
  <2>1. \A i \in few : some[i] = MissedIn(Passes, i)
    OBVIOUS
  <2> HIDE DEF some, few
  <2> QED BY <1>8, <1>9, <2>1, SumOfMissed
<1>12. /\ \A i \in few : each[i] = some[i]
       /\ \A i \in closed \ few : each[i] = 0
  BY <1>2, <1>6, CrossingsAssumption
<1>13. g[closed] = k[few]
  <2> HIDE DEF each, some, closed, few
  <2> QED BY <1>8, <1>9, <1>10, <1>11, <1>12, SumOfSome
<1>14. SuspectedMissed(Passes) = MapThenSumSet(LAMBDA i : MissedIn(Passes, i), few)
  BY <1>7 DEF SuspectedMissed
<1> HIDE DEF few, closed
<1> QED BY <1>10, <1>11, <1>13, <1>14

(* A rider who laps steadily, however fast, and misses at most MaxGap      *)
(* crossings in a row: the misses between the reads are found, every one   *)
(* and no other (race.py suspected_missed_reads).                          *)
THEOREM MissesAlwaysFound ==
  ASSUME SteadyLaps PROVE RideSpec => []MissesAreFound
<1>1. PICK shortest \in Nat \ {0}, longest \in Nat \ {0} : SteadyBetween(shortest, longest)
  BY DEF SteadyLaps
<1>2. RideInit => RideInv(shortest, longest)
  BY InitRide
<1>3. RideInv(shortest, longest) /\ [RideNext]_rideVars => RideInv(shortest, longest)'
  BY <1>1, StepRide
<1>4. RideInv(shortest, longest) => MissesAreFound
  BY <1>1, SteadyMisses
<1> QED BY <1>2, <1>3, <1>4, PTL DEF RideSpec
==============================================================================
