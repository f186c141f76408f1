--------------------------- MODULE RaceStateProofs ---------------------------
(***************************************************************************)
(* What add_lap, start and end keep true of a race, whatever the riders,   *)
(* the format and the pass: lemmas about the operators of RaceState, used  *)
(* by the proofs about every module that keeps a race in memory.           *)
(***************************************************************************)
EXTENDS RaceState, FiniteSets, FiniteSetTheorems, WellFoundedInduction, TLAPS

(* Nothing is decided before it can be: no pass counts before the start,   *)
(* nobody has finished while a time-based race has no target, the          *)
(* finishing phase began with somebody's finish.                           *)
NothingEarly(r) ==
  /\ \A tag \in Tags : Laps(r, tag) > 0 => r.started_at # None
  /\ \A tag \in Tags : Finished(r, tag) => TargetKnown(r, r.time_target)
  /\ r.finishing_at # None => \E tag \in Tags : Finished(r, tag)

RaceInv(r) ==
  /\ r \in Race
  /\ \A tag \in Tags : Spaced(r, tag)
  /\ \A tag \in Tags : FinishOnPass(r, tag)
  /\ FinishingPhase(r)
  /\ DistanceMeansFinish(r)
  /\ NothingEarly(r)

LEMMA LapsType ==
  ASSUME NEW r \in Race, NEW tag \in Tags
  PROVE  Laps(r, tag) \in Nat
BY DEF Laps, Race, Participant

(* A new race, and one that has been cleared, satisfies the invariant. *)
LEMMA NewRaceInv ==
  ASSUME NEW format \in Format
  PROVE  RaceInv(NewRace(format))
<1>1. NewRace(format) \in Race
  BY DEF NewRace, NoParticipants, Race, Participant, None, Statuses
<1>2. \A tag \in Tags : Laps(NewRace(format), tag) = 0 /\ ~Finished(NewRace(format), tag)
  BY DEF NewRace, NoParticipants, Laps, Finished, None
<1>3. ASSUME NEW tag \in Tags
      PROVE  Spaced(NewRace(format), tag) /\ FinishOnPass(NewRace(format), tag)
  <2>1. Laps(NewRace(format), tag) = 0 /\ ~Finished(NewRace(format), tag)
    BY <1>2
  <2>2. 1..Laps(NewRace(format), tag) = {}
    BY <2>1
  <2> QED BY <2>1, <2>2 DEF Spaced, FinishOnPass
<1>4. NewRace(format).finishing_at = None /\ NewRace(format).time_target = None
      /\ NewRace(format).format = format
  BY DEF NewRace
<1>5. FinishingPhase(NewRace(format)) /\ NothingEarly(NewRace(format))
  BY <1>2, <1>4 DEF FinishingPhase, NothingEarly
<1>6. DistanceMeansFinish(NewRace(format))
  BY <1>2, <1>4 DEF DistanceMeansFinish, EffectiveTotalLaps, TotalLaps, Timed, TargetKnown,
                    Format, None
<1> QED BY <1>1, <1>3, <1>5, <1>6 DEF RaceInv

(* start() on a race without passes, end() and set_status() keep it. *)
LEMMA StartInv ==
  ASSUME NEW r, RaceInv(r), NEW now \in Nat \ {0}
  PROVE  RaceInv(Start(r, now))
<1>1. CASE r.started_at # None
  BY <1>1 DEF Start
<1>2. CASE r.started_at = None
  <2> DEFINE s == Start(r, now)
  <2>1. s = [r EXCEPT !.started_at = now]
    BY <1>2 DEF Start
  <2>2. s \in Race /\ s.participants = r.participants /\ s.format = r.format
        /\ s.time_target = r.time_target /\ s.finishing_at = r.finishing_at
    BY <2>1 DEF RaceInv, Race
  <2>3. ASSUME NEW tag \in Tags
        PROVE  Laps(r, tag) = 0 /\ 1..Laps(r, tag) = {}
    <3>1. Laps(r, tag) \in Nat
      BY LapsType DEF RaceInv
    <3>2. ~(Laps(r, tag) > 0)
      BY <1>2 DEF RaceInv, NothingEarly
    <3> QED BY <3>1, <3>2
  <2>4. \A tag \in Tags : Laps(s, tag) = Laps(r, tag) /\ (Finished(s, tag) <=> Finished(r, tag))
    BY <2>2 DEF Laps, Finished
  <2>5. \A tag \in Tags : Spaced(s, tag)
    BY <2>3, <2>4 DEF Spaced
  <2>6. \A tag \in Tags : FinishOnPass(s, tag)
    BY <2>2, <2>4 DEF RaceInv, FinishOnPass
  <2>7. FinishingPhase(s) /\ DistanceMeansFinish(s)
    BY <2>2, <2>4 DEF RaceInv, FinishingPhase, DistanceMeansFinish, Leader, Timed, TargetKnown,
                      EffectiveTotalLaps, TotalLaps
  <2>8. NothingEarly(s)
    BY <2>2, <2>3, <2>4 DEF RaceInv, NothingEarly, TargetKnown, Timed
  <2> QED BY <2>2, <2>5, <2>6, <2>7, <2>8 DEF RaceInv
<1> QED BY <1>1, <1>2

LEMMA SameRunInv ==
  ASSUME NEW r, RaceInv(r), NEW s \in Race,
         s.participants = r.participants, s.format = r.format,
         s.started_at = r.started_at,
         s.time_target = r.time_target, s.finishing_at = r.finishing_at
  PROVE  RaceInv(s)
<1>1. \A tag \in Tags : Laps(s, tag) = Laps(r, tag) /\ (Finished(s, tag) <=> Finished(r, tag))
  BY DEF Laps, Finished
<1>2. \A tag \in Tags : Spaced(s, tag) /\ FinishOnPass(s, tag)
  BY <1>1 DEF RaceInv, Spaced, FinishOnPass
<1>3. FinishingPhase(s) /\ DistanceMeansFinish(s)
  BY <1>1 DEF RaceInv, FinishingPhase, DistanceMeansFinish, Leader, Timed, TargetKnown,
              EffectiveTotalLaps, TotalLaps
<1>4. NothingEarly(s)
  BY <1>1 DEF RaceInv, NothingEarly, TargetKnown, Timed
<1> QED BY <1>2, <1>3, <1>4 DEF RaceInv

LEMMA EndInv ==
  ASSUME NEW r, RaceInv(r), NEW now \in Nat \ {0}
  PROVE  RaceInv(End(r, now))
<1>1. CASE r.ended_at # None
  BY <1>1 DEF End
<1>2. CASE r.ended_at = None
  <2>1. End(r, now) = [r EXCEPT !.ended_at = now]
    BY <1>2 DEF End
  <2> QED BY <2>1, SameRunInv DEF RaceInv, Race
<1> QED BY <1>1, <1>2

LEMMA SetStatusInv ==
  ASSUME NEW r, RaceInv(r), NEW tag \in Tags, NEW status \in Statuses
  PROVE  RaceInv(SetStatus(r, tag, status))
<1>1. SetStatus(r, tag, status) \in Race
  BY DEF SetStatus, RaceInv, Race
<1> QED BY <1>1, SameRunInv DEF SetStatus, RaceInv, Race
------------------------------------------------------------------------------
(* A pass that does not count only makes the rider appear. *)
LEMMA SeenInv ==
  ASSUME NEW r, RaceInv(r), NEW tag \in Tags
  PROVE  RaceInv([r EXCEPT !.participants[tag].seen = TRUE])
<1> DEFINE s == [r EXCEPT !.participants[tag].seen = TRUE]
<1>1. s \in Race /\ s.format = r.format /\ s.started_at = r.started_at
      /\ s.time_target = r.time_target /\ s.finishing_at = r.finishing_at
  BY DEF RaceInv, Race, Participant
<1>2. \A t \in Tags : /\ s.participants[t].passes = r.participants[t].passes
                      /\ s.participants[t].finish_time = r.participants[t].finish_time
  BY DEF RaceInv, Race, Participant
<1>3. \A t \in Tags : Laps(s, t) = Laps(r, t) /\ (Finished(s, t) <=> Finished(r, t))
  BY <1>2 DEF Laps, Finished
<1>4. \A t \in Tags : Spaced(s, t) /\ FinishOnPass(s, t)
  BY <1>1, <1>2, <1>3 DEF RaceInv, Spaced, FinishOnPass
<1>5. FinishingPhase(s) /\ DistanceMeansFinish(s)
  BY <1>1, <1>2, <1>3 DEF RaceInv, FinishingPhase, DistanceMeansFinish, Leader, Timed,
              TargetKnown, EffectiveTotalLaps, TotalLaps
<1>6. NothingEarly(s)
  BY <1>1, <1>3 DEF RaceInv, NothingEarly, TargetKnown, Timed
<1> QED BY <1>1, <1>4, <1>5, <1>6 DEF RaceInv

(* The fields of the race after a pass that counts. *)
LEMMA CountPassFields ==
  ASSUME NEW r, RaceInv(r), NEW tag \in Tags, NEW ts \in Nat \ {0}, Counts(r, tag, ts),
         NEW laps, laps = Laps(r, tag) + 1,
         NEW target, target = NextTarget(r, tag, laps, ts),
         NEW done, done = Finishes(r, tag, laps, target),
         NEW s, s = CountPass(r, tag, ts)
  PROVE  /\ s \in Race
         /\ s.format = r.format /\ s.started_at = r.started_at
         /\ s.time_target = target /\ target \in Nat /\ laps \in Nat
         /\ s.finishing_at = IF done /\ Leader(r) /\ r.finishing_at = None
                             THEN ts ELSE r.finishing_at
         /\ \A t \in Tags \ {tag} : s.participants[t] = r.participants[t]
         /\ s.participants[tag].passes = Append(r.participants[tag].passes, ts)
         /\ s.participants[tag].finish_time =
              IF done THEN ts ELSE r.participants[tag].finish_time
<1>1. r \in Race /\ laps \in Nat
  BY LapsType DEF RaceInv
<1>2. target \in Nat
  <2>1. CASE r.format.final_laps # NoLaps
    <3>1. r.format.final_laps \in Nat
      BY <1>1, <2>1 DEF Race, Format
    <3> QED BY <1>1, <3>1 DEF NextTarget, Race
  <2>2. CASE r.format.final_laps = NoLaps
    BY <1>1, <2>2 DEF NextTarget, Race
  <2> QED BY <2>1, <2>2
<1>3. done \in BOOLEAN
  BY DEF Finishes
<1>4. s = [r EXCEPT
             !.participants[tag] = [seen        |-> TRUE,
                                    passes      |-> Append(@.passes, ts),
                                    finish_time |-> IF done THEN ts ELSE @.finish_time],
             !.time_target  = target,
             !.finishing_at = IF done /\ Leader(r) /\ @ = None THEN ts ELSE @]
  BY DEF CountPass
<1>5. r.participants \in [Tags -> Participant] /\ r.participants[tag].passes \in Seq(Nat)
      /\ r.participants[tag].finish_time \in Nat /\ r.finishing_at \in Nat
  BY <1>1 DEF Race, Participant
<1> DEFINE row == [seen        |-> TRUE,
                    passes      |-> Append(r.participants[tag].passes, ts),
                    finish_time |-> IF done THEN ts ELSE r.participants[tag].finish_time]
           rows == [r.participants EXCEPT ![tag] = row]
           began == IF done /\ Leader(r) /\ r.finishing_at = None
                    THEN ts ELSE r.finishing_at
<1>6. row \in Participant /\ began \in Nat
  BY <1>3, <1>5 DEF Participant
<1>7. rows \in [Tags -> Participant]
  BY <1>5, <1>6
<1>8. s = [r EXCEPT !.participants = rows, !.time_target = target, !.finishing_at = began]
  BY <1>1, <1>4 DEF Race
<1>9. s \in Race
  <2> HIDE DEF rows, began
  <2> QED BY <1>1, <1>2, <1>6, <1>7, <1>8 DEF Race
<1> QED BY <1>1, <1>2, <1>3, <1>4, <1>5, <1>9 DEF Race

(* A pass that counts keeps the invariant: the new pass is the cooldown    *)
(* after the last, a finish is the finish of this pass, and a target is    *)
(* locked above everybody's laps.                                          *)
LEMMA CountPassInv ==
  ASSUME NEW r, RaceInv(r), NEW tag \in Tags, NEW ts \in Nat \ {0}, Counts(r, tag, ts)
  PROVE  RaceInv(CountPass(r, tag, ts))
<1> DEFINE laps   == Laps(r, tag) + 1
           target == NextTarget(r, tag, laps, ts)
           done   == Finishes(r, tag, laps, target)
           s      == CountPass(r, tag, ts)
<1>1. /\ s \in Race
      /\ s.format = r.format /\ s.started_at = r.started_at
      /\ s.time_target = target /\ target \in Nat /\ laps \in Nat
      /\ s.finishing_at = IF done /\ Leader(r) /\ r.finishing_at = None
                          THEN ts ELSE r.finishing_at
      /\ \A t \in Tags \ {tag} : s.participants[t] = r.participants[t]
      /\ s.participants[tag].passes = Append(r.participants[tag].passes, ts)
      /\ s.participants[tag].finish_time =
           IF done THEN ts ELSE r.participants[tag].finish_time
  BY CountPassFields
<1>2. r \in Race /\ (\A t \in Tags : Laps(r, t) \in Nat)
      /\ r.participants[tag].passes \in Seq(Nat)
  BY LapsType DEF RaceInv, Race, Participant
<1>3. /\ Laps(s, tag) = laps
      /\ s.participants[tag].passes[laps] = ts
      /\ \A i \in 1..Laps(r, tag) :
           s.participants[tag].passes[i] = r.participants[tag].passes[i]
  BY <1>1, <1>2 DEF Laps
<1>4. \A t \in Tags \ {tag} : Laps(s, t) = Laps(r, t) /\ (Finished(s, t) <=> Finished(r, t))
  BY <1>1 DEF Laps, Finished
<1>5. Finished(s, tag) <=> done \/ Finished(r, tag)
  BY <1>1 DEF Finished, None
<1>6. s.started_at # None
  BY <1>1 DEF Counts
<1>7. target # r.time_target =>
        /\ Timed(r) /\ r.time_target = None /\ r.format.final_laps \in Nat
        /\ target = laps + r.format.final_laps /\ target # None
        /\ \A t \in Tags \ {tag} : Laps(r, t) <= laps
  BY <1>1, <1>2 DEF NextTarget, Race, Format, NoLaps, None
<1> HIDE DEF s, done, target, laps
<1>8. \A t \in Tags : Spaced(s, t)
  <2>1. ASSUME NEW t \in Tags, t # tag
        PROVE  Spaced(s, t)
    BY <1>1, <1>4, <2>1 DEF RaceInv, Spaced
  <2>2. Spaced(s, tag)
    <3>1. Spaced(r, tag)
      BY DEF RaceInv
    <3>2. ASSUME NEW i \in 1..Laps(r, tag)
          PROVE  LET passes == s.participants[tag].passes
                     before == IF i = 1 THEN s.started_at ELSE passes[i - 1]
                 IN  /\ passes[i] >= before + s.format.min_pass
                     /\ i > 1 => passes[i] > before
      <4>1. i # 1 => i - 1 \in 1..Laps(r, tag)
        BY <1>2
      <4> QED BY <1>1, <1>3, <3>1, <4>1 DEF Spaced
    <3>3. LET passes == s.participants[tag].passes
              before == IF laps = 1 THEN s.started_at ELSE passes[laps - 1]
          IN  /\ passes[laps] >= before + s.format.min_pass
              /\ laps > 1 => passes[laps] > before
      <4>1. CASE Laps(r, tag) = 0
        <5>1. laps = 1
          BY <4>1 DEF laps
        <5>2. ts - r.started_at >= r.format.min_pass
          BY <4>1 DEF Counts
        <5>3. r.started_at \in Nat /\ r.format.min_pass \in Nat
          BY <1>2 DEF Race, Format
        <5> QED BY <1>1, <1>3, <5>1, <5>2, <5>3
      <4>2. CASE Laps(r, tag) # 0
        <5>1. laps # 1 /\ laps - 1 = Laps(r, tag) /\ Laps(r, tag) \in 1..Laps(r, tag)
          BY <1>2, <4>2 DEF laps
        <5>2. LastPass(r, tag) = s.participants[tag].passes[laps - 1]
          BY <1>3, <4>2, <5>1 DEF LastPass
        <5>3. ts > LastPass(r, tag) /\ ts - LastPass(r, tag) >= r.format.min_pass
          BY <4>2 DEF Counts
        <5>4. LastPass(r, tag) \in Nat /\ r.format.min_pass \in Nat
          BY <1>2, <4>2, <5>1 DEF LastPass, Laps, Race, Format
        <5>5. ts >= LastPass(r, tag) + r.format.min_pass
          BY <5>3, <5>4
        <5> QED BY <1>1, <1>3, <5>1, <5>2, <5>3, <5>5
      <4> QED BY <4>1, <4>2
    <3>4. \A i \in 1..Laps(s, tag) : i = laps \/ i \in 1..Laps(r, tag)
      BY <1>2, <1>3 DEF laps
    <3> QED BY <3>2, <3>3, <3>4 DEF Spaced
  <2> QED BY <2>1, <2>2
<1>9. \A t \in Tags : FinishOnPass(s, t)
  <2>1. ASSUME NEW t \in Tags, t # tag
        PROVE  FinishOnPass(s, t)
    BY <1>1, <1>4, <2>1 DEF RaceInv, FinishOnPass
  <2>2. CASE done
    <3>1. laps \in 1..Laps(s, tag)
      BY <1>2, <1>3 DEF laps
    <3> QED BY <1>1, <1>3, <2>1, <2>2, <3>1 DEF FinishOnPass
  <2>3. CASE ~done
    <3>1. \A i \in 1..Laps(r, tag) : i \in 1..Laps(s, tag)
      BY <1>2, <1>3 DEF laps
    <3>2. FinishOnPass(r, tag)
      BY DEF RaceInv
    <3> QED BY <1>1, <1>3, <1>5, <2>1, <2>3, <3>1, <3>2 DEF FinishOnPass
  <2> QED BY <2>2, <2>3
<1>10. \A t \in Tags : Finished(s, t) => TargetKnown(s, s.time_target)
  <2>1. TargetKnown(r, r.time_target) => TargetKnown(s, s.time_target)
    BY <1>1, <1>7 DEF TargetKnown, Timed
  <2>2. done => TargetKnown(s, s.time_target)
    BY <1>1, <2>1 DEF done, Finishes, RaceInv, NothingEarly, TargetKnown, Timed
  <2> QED BY <1>4, <1>5, <2>1, <2>2 DEF RaceInv, NothingEarly
<1>11. s.finishing_at # None => \E t \in Tags : Finished(s, t)
  BY <1>1, <1>4, <1>5 DEF RaceInv, NothingEarly
<1>12. NothingEarly(s)
  BY <1>6, <1>10, <1>11 DEF NothingEarly
<1>13. FinishingPhase(s)
  <2> SUFFICES ASSUME Leader(s)
               PROVE  /\ (\E t \in Tags : Finished(s, t)) => s.finishing_at # None
                      /\ s.finishing_at # None =>
                           \E t \in Tags : /\ s.participants[t].finish_time = s.finishing_at
                                           /\ Laps(s, t) >= EffectiveTotalLaps(s)
    BY DEF FinishingPhase
  <2>1. Leader(r) /\ FinishingPhase(r)
    BY <1>1 DEF Leader, RaceInv
  <2>2. (\E t \in Tags : Finished(s, t)) => s.finishing_at # None
    BY <1>1, <1>4, <1>5, <2>1 DEF FinishingPhase, None
  <2>3. CASE r.finishing_at # None
    <3>1. PICK t \in Tags : /\ r.participants[t].finish_time = r.finishing_at
                            /\ Laps(r, t) >= EffectiveTotalLaps(r)
      BY <2>1, <2>3 DEF FinishingPhase
    <3>2. Finished(r, t)
      BY <2>3, <3>1 DEF Finished
    <3>3. EffectiveTotalLaps(s) = EffectiveTotalLaps(r)
      BY <1>1, <1>7, <3>2 DEF EffectiveTotalLaps, TotalLaps, RaceInv, NothingEarly, TargetKnown
    <3>4. t = tag => ~done
      BY <3>2 DEF done, Finishes
    <3>5. s.participants[t].finish_time = s.finishing_at
      BY <1>1, <2>3, <3>1, <3>4
    <3>6. Laps(s, t) >= Laps(r, t)
      BY <1>2, <1>3, <1>4 DEF laps
    <3>7. EffectiveTotalLaps(r) \in Nat /\ Laps(s, t) \in Nat
      BY <1>1, <1>2, LapsType DEF EffectiveTotalLaps, TotalLaps, Race, Format
    <3>8. Laps(s, t) >= EffectiveTotalLaps(s)
      BY <1>2, <3>1, <3>3, <3>6, <3>7
    <3> QED BY <2>2, <3>5, <3>8
  <2>4. CASE r.finishing_at = None
    <3>1. ASSUME s.finishing_at # None
          PROVE  /\ s.participants[tag].finish_time = s.finishing_at
                 /\ Laps(s, tag) >= EffectiveTotalLaps(s)
      <4>1. done
        BY <1>1, <2>4, <3>1
      <4>2. laps >= TotalLaps(r, target)
        BY <2>4, <4>1 DEF done, Finishes
      <4>3. EffectiveTotalLaps(s) = TotalLaps(r, target)
        BY <1>1 DEF EffectiveTotalLaps, TotalLaps
      <4> QED BY <1>1, <1>3, <2>1, <2>4, <4>1, <4>2, <4>3
    <3> QED BY <2>2, <3>1
  <2> QED BY <2>3, <2>4
<1>14. DistanceMeansFinish(s)
  <2> SUFFICES ASSUME TargetKnown(s, s.time_target),
                      ~(Timed(s) /\ s.format.final_laps = 0),
                      NEW t \in Tags, Laps(s, t) >= EffectiveTotalLaps(s)
               PROVE  Finished(s, t)
    BY DEF DistanceMeansFinish
  <2>1. EffectiveTotalLaps(s) = TotalLaps(r, target)
    BY <1>1 DEF EffectiveTotalLaps, TotalLaps
  <2>2. CASE target = r.time_target
    <3>1. TargetKnown(r, target) /\ ~(Timed(r) /\ r.format.final_laps = 0)
          /\ EffectiveTotalLaps(r) = TotalLaps(r, target)
      BY <1>1, <2>2 DEF TargetKnown, Timed, EffectiveTotalLaps
    <3>2. CASE t = tag
      BY <1>3, <1>5, <2>1, <3>1, <3>2 DEF done, Finishes
    <3>3. CASE t # tag
      BY <1>4, <2>1, <2>2, <3>1, <3>3 DEF RaceInv, DistanceMeansFinish
    <3> QED BY <3>2, <3>3
  <2>3. CASE target # r.time_target
    <3>1. Timed(s) /\ r.format.final_laps \in Nat \ {0}
      BY <1>1, <1>7, <2>3 DEF Timed
    <3>2. EffectiveTotalLaps(s) = laps + r.format.final_laps
      BY <1>7, <2>1, <2>3 DEF TotalLaps
    <3>3. Laps(s, t) <= laps /\ Laps(s, t) \in Nat
      BY <1>1, <1>2, <1>3, <1>4, <1>7, <2>3
    <3> QED BY <1>1, <3>1, <3>2, <3>3
  <2> QED BY <2>2, <2>3
<1> QED BY <1>1, <1>8, <1>9, <1>12, <1>13, <1>14 DEF RaceInv, s

LEMMA AddLapInv ==
  ASSUME NEW r, RaceInv(r), NEW tag \in Tags, NEW ts \in Nat, NEW now \in Nat \ {0}
  PROVE  RaceInv(AddLap(r, tag, ts, now))
<1>1. PassTime(ts, now) \in Nat \ {0}
  BY DEF PassTime, Epoch
<1> QED BY <1>1, CountPassInv, SeenInv DEF AddLap
------------------------------------------------------------------------------
(* What folds over finite sets come to.  A set of numbers has a least one, *)
(* so that a claim about all finite sets can be had from one about a set   *)
(* and what is left of it without one element.                             *)
LEMMA LeastNumber ==
  ASSUME NEW S \in SUBSET Nat, S # {}
  PROVE  \E i \in S : \A j \in S : i <= j
<1>1. PICK i \in S : \A j \in S : <<j, i>> \notin OpToRel(<, Nat)
  BY NatLessThanWellFounded, WFMin
<1>2. ASSUME NEW j \in S PROVE i <= j
  <2>1. ~(j < i)
    BY <1>1 DEF OpToRel
  <2> QED BY <2>1
<1> QED BY <1>2

(* Of a set of finite sets, one that no smaller one is in.                 *)
LEMMA SmallestSet ==
  ASSUME NEW S, IsFiniteSet(S), NEW bad \in SUBSET SUBSET S, bad # {}
  PROVE  \E s \in bad : \A x \in s : s \ {x} \notin bad
<1> DEFINE sizes == {Cardinality(s) : s \in bad}
<1>1. \A s \in bad : IsFiniteSet(s) /\ Cardinality(s) \in Nat
  BY FS_Subset, FS_CardinalityType
<1>2. sizes \in SUBSET Nat /\ sizes # {}
  BY <1>1
<1>3. PICK n \in sizes : \A m \in sizes : n <= m
  <2> HIDE DEF sizes
  <2> QED BY <1>2, LeastNumber
<1>4. PICK s \in bad : n = Cardinality(s)
  BY <1>3
<1>5. ASSUME NEW x \in s, s \ {x} \in bad PROVE FALSE
  <2>1. Cardinality(s \ {x}) = Cardinality(s) - 1
    BY <1>1, FS_RemoveElement
  <2>2. n <= Cardinality(s \ {x}) /\ Cardinality(s) \in Nat
    BY <1>1, <1>3, <1>5
  <2> QED BY <1>4, <2>1, <2>2
<1> QED BY <1>5

(* The function that MapThenFoldSet chooses exists: up to sets of size n   *)
(* it does, for every n.                                                   *)
Foldable(S, R, base, pick, step) ==
  /\ IsFiniteSet(S) /\ base \in R
  /\ \A s \in SUBSET S : s # {} => pick[s] \in s
  /\ step \in [S \X R -> R]

FoldsTo(g, S, base, pick, step) ==
  \A s \in SUBSET S :
    g[s] = IF s = {} THEN base ELSE step[<<pick[s], g[s \ {pick[s]}]>>]

LEMMA FoldExists ==
  ASSUME NEW S, NEW R, NEW base, NEW pick, NEW step, Foldable(S, R, base, pick, step)
  PROVE  \E g \in [SUBSET S -> R] : FoldsTo(g, S, base, pick, step)
<1>0. /\ IsFiniteSet(S) /\ base \in R
      /\ \A s \in SUBSET S : s # {} => pick[s] \in s
      /\ step \in [S \X R -> R]
  BY DEF Foldable
<1> USE <1>0
<1> DEFINE Follows(g, s) == g[s] = IF s = {} THEN base ELSE step[<<pick[s], g[s \ {pick[s]}]>>]
           Good(n) == \E g \in [SUBSET S -> R] :
                        \A s \in SUBSET S : Cardinality(s) <= n => Follows(g, s)
           bad == {n \in Nat : ~Good(n)}
<1>1. \A s \in SUBSET S : /\ IsFiniteSet(s) /\ Cardinality(s) \in Nat
                          /\ Cardinality(s) <= Cardinality(S)
  BY FS_Subset, FS_CardinalityType
<1>2. \A s \in SUBSET S : Cardinality(s) = 0 <=> s = {}
  BY <1>1, FS_EmptySet
<1>3. \A s \in SUBSET S : \A x \in s : Cardinality(s \ {x}) = Cardinality(s) - 1
  BY <1>1, FS_RemoveElement
<1>4. Good(0)
  <2> DEFINE g == [s \in SUBSET S |-> base]
  <2>1. g \in [SUBSET S -> R] /\ \A s \in SUBSET S : Cardinality(s) <= 0 => Follows(g, s)
    BY <1>1, <1>2
  <2> QED BY <2>1
<1>5. ASSUME NEW n \in Nat, Good(n) PROVE Good(n + 1)
  <2>1. PICK g \in [SUBSET S -> R] : \A s \in SUBSET S : Cardinality(s) <= n => Follows(g, s)
    BY <1>5
  <2> DEFINE h == [s \in SUBSET S |-> IF Cardinality(s) = n + 1
                                      THEN step[<<pick[s], g[s \ {pick[s]}]>>] ELSE g[s]]
  <2>2. \A s \in SUBSET S : Cardinality(s) = n + 1 => s # {} /\ pick[s] \in S
    BY <1>2
  <2>3. h \in [SUBSET S -> R]
    <3> SUFFICES ASSUME NEW s \in SUBSET S, Cardinality(s) = n + 1
                 PROVE  step[<<pick[s], g[s \ {pick[s]}]>>] \in R
      OBVIOUS
    <3>1. pick[s] \in S /\ g[s \ {pick[s]}] \in R
      BY <2>2
    <3> QED BY <3>1
  <2>4. ASSUME NEW s \in SUBSET S, Cardinality(s) <= n + 1 PROVE Follows(h, s)
    <3>1. CASE s = {}
      <4>1. Cardinality(s) = 0
        BY <1>2, <3>1
      <4>2. h[s] = g[s] /\ Follows(g, s)
        BY <2>1, <4>1
      <4> QED BY <3>1, <4>2
    <3>2. CASE s # {}
      <4>1. pick[s] \in s /\ s \ {pick[s]} \in SUBSET S
        BY <3>2
      <4>2. Cardinality(s \ {pick[s]}) = Cardinality(s) - 1
        BY <1>3, <4>1
      <4>3. h[s \ {pick[s]}] = g[s \ {pick[s]}]
        BY <1>1, <2>4, <4>1, <4>2
      <4>4. CASE Cardinality(s) = n + 1
        <5>1. h[s] = step[<<pick[s], g[s \ {pick[s]}]>>]
          BY <4>4
        <5> HIDE DEF h
        <5> QED BY <3>2, <4>3, <5>1
      <4>5. CASE Cardinality(s) # n + 1
        <5>1. Cardinality(s) <= n /\ h[s] = g[s]
          BY <1>1, <2>4, <4>5
        <5>2. Follows(g, s)
          BY <2>1, <5>1
        <5> HIDE DEF h
        <5> QED BY <3>2, <4>3, <5>1, <5>2
      <4> QED BY <4>4, <4>5
    <3> QED BY <3>1, <3>2
  <2> HIDE DEF h
  <2> QED BY <2>3, <2>4
<1>6. bad = {}
  <2> SUFFICES ASSUME bad # {} PROVE FALSE
    OBVIOUS
  <2>1. PICK n \in bad : \A m \in bad : n <= m
    <3>1. bad \in SUBSET Nat
      OBVIOUS
    <3> HIDE DEF bad
    <3> QED BY <3>1, LeastNumber
  <2>2. n \in Nat /\ ~Good(n)
    OBVIOUS
  <2> HIDE DEF Good
  <2>3. n # 0
    BY <1>4, <2>2
  <2>4. n - 1 \in Nat /\ n - 1 \notin bad
    BY <2>1, <2>2, <2>3
  <2>5. Good(n - 1)
    BY <2>4
  <2>6. Good((n - 1) + 1)
    BY <1>5, <2>4, <2>5
  <2> QED BY <2>2, <2>6
<1>7. Good(Cardinality(S))
  <2>1. Cardinality(S) \in Nat
    BY FS_CardinalityType
  <2> HIDE DEF Good
  <2> QED BY <1>6, <2>1
<1>8. PICK g \in [SUBSET S -> R] : \A s \in SUBSET S : Follows(g, s)
  BY <1>1, <1>7
<1> QED BY <1>8 DEF FoldsTo

(* A set of numbers that is bounded has a greatest one.                    *)
LEMMA GreatestNumber ==
  ASSUME NEW bound \in Nat, NEW S \in SUBSET (0..bound), S # {}
  PROVE  \E i \in S : \A j \in S : j <= i
<1> DEFINE left == {bound - i : i \in S}
<1>1. \A i \in S : i \in Nat /\ bound - i \in Nat /\ bound - i \in left
  OBVIOUS
<1>2. left \in SUBSET Nat /\ left # {}
  BY <1>1
<1>3. PICK n \in left : \A m \in left : n <= m
  <2> HIDE DEF left
  <2> QED BY <1>2, LeastNumber
<1>4. PICK i \in S : n = bound - i
  BY <1>3
<1> HIDE DEF left
<1>5. ASSUME NEW j \in S PROVE j <= i
  BY <1>1, <1>3, <1>4
<1> QED BY <1>5
==============================================================================
