----------------------------- MODULE FrontendProofs -----------------------------
(***************************************************************************)
(* Proofs about the two sides of the browser, for any tags, numbers,       *)
(* races, browsers, request threads and bounds.  Coupling: a number is     *)
(* only saved for the tag it was typed for, the tags of the panel are of   *)
(* the race it has heard of or strays of a switch, and one loop hands out  *)
(* no number twice.                                                        *)
(* EventStream: a browser has at most one stream or retry, and one whose   *)
(* stream is open lacks no change for good.                                *)
(***************************************************************************)
EXTENDS Coupling, EventStream, FiniteSetTheorems, WellFoundedInduction, TLAPS

Sequence(q) == q \in Seq({q[i] : i \in DOMAIN q})

Fields == {"on", "phase", "armed", "info", "queue", "bib", "confirm", "saving", "auto", "autoSaving"}

(* The shape of the panel, as far as the proofs need it. *)
Shaped(p) ==
  /\ p = [field \in Fields |-> p[field]]
  /\ Sequence(p.queue)

(* The number on the card was typed for its tag. *)
Typed(p, tag) == p.phase = "armed" /\ p.bib # None => tag = p.armed.tag

(* What the panel shows and holds is of the race h tells of, or a stray.   *)
Fits(waved, h) == waved.race = h.race \/ waved \in h.strays

OfRace(p, h) ==
  /\ p.armed # None => Fits(p.armed, h)
  /\ p.phase = "info" => Fits([tag |-> p.info.tag, race |-> p.info.race], h)
  /\ \A i \in DOMAIN p.queue : Fits(p.queue[i], h)

(* A change of the panel that keeps all that. *)
Keeps(p, q) ==
  /\ Shaped(q) /\ q.on = p.on
  /\ \A tag : Typed(p, tag) => Typed(q, tag)
  /\ \A h : OfRace(p, h) => OfRace(q, h)
------------------------------------------------------------------------------
(* A set of numbers has a least one. *)
LEMMA Least ==
  ASSUME NEW S \in SUBSET Nat, S # {}
  PROVE  \E i \in S : \A j \in S : i <= j
<1>1. PICK i \in S : \A j \in S : <<j, i>> \notin OpToRel(<, Nat)
  BY NatLessThanWellFounded, WFMin
<1>2. ASSUME NEW j \in S PROVE i <= j
  <2>1. <<j, i>> \notin OpToRel(<, Nat)
    BY <1>1
  <2>2. i \in Nat /\ j \in Nat
    OBVIOUS
  <2>3. ~(j < i)
    BY <2>1, <2>2 DEF OpToRel
  <2> QED BY <2>2, <2>3
<1> QED BY <1>2

(* A sequence is one of its own elements. *)
LEMMA OwnElements ==
  ASSUME NEW S, NEW q \in Seq(S) PROVE Sequence(q)
<1> DEFINE R == {q[i] : i \in DOMAIN q}
<1>1. DOMAIN q = 1..Len(q) /\ Len(q) \in Nat /\ q = [i \in 1..Len(q) |-> q[i]]
  OBVIOUS
<1>2. \A i \in 1..Len(q) : q[i] \in R
  BY <1>1
<1> HIDE DEF R
<1>3. q \in Seq(R)
  BY <1>1, <1>2
<1> QED BY <1>3 DEF Sequence, R

(* Sequences stay sequences, and their elements are those they had. *)
LEMMA Appended ==
  ASSUME NEW q, Sequence(q), NEW e
  PROVE  /\ Sequence(Append(q, e)) /\ DOMAIN Append(q, e) = 1..(Len(q) + 1)
         /\ Append(q, e)[Len(q) + 1] = e
         /\ \A i \in DOMAIN q : Append(q, e)[i] = q[i]
         /\ DOMAIN q = 1..Len(q) /\ Len(q) \in Nat
<1> DEFINE R == {q[i] : i \in DOMAIN q}
<1>1. q \in Seq(R \cup {e}) /\ q \in Seq(R)
  BY DEF Sequence
<1> HIDE DEF R
<1>2. /\ Append(q, e) \in Seq(R \cup {e}) /\ DOMAIN Append(q, e) = 1..(Len(q) + 1)
      /\ Append(q, e)[Len(q) + 1] = e /\ \A i \in DOMAIN q : Append(q, e)[i] = q[i]
      /\ DOMAIN q = 1..Len(q) /\ Len(q) \in Nat
  BY <1>1
<1>3. Sequence(Append(q, e))
  BY <1>2, OwnElements
<1> QED BY <1>2, <1>3

LEMMA Cut ==
  ASSUME NEW q, Sequence(q), NEW n \in Nat
  PROVE  /\ Sequence(SubSeq(q, n + 1, Len(q)))
         /\ \A i \in DOMAIN SubSeq(q, n + 1, Len(q)) :
              n + i \in DOMAIN q /\ SubSeq(q, n + 1, Len(q))[i] = q[n + i]
<1> DEFINE R == {q[i] : i \in DOMAIN q}
           c == SubSeq(q, n + 1, Len(q))
<1>1. q \in Seq(R)
  BY DEF Sequence
<1> HIDE DEF R
<1>2. c \in Seq(R) /\ \A i \in DOMAIN c : n + i \in DOMAIN q /\ c[i] = q[n + i]
  BY <1>1
<1> HIDE DEF c
<1>3. Sequence(c)
  BY <1>2, OwnElements
<1> QED BY <1>2, <1>3 DEF c

LEMMA TailCut ==
  ASSUME NEW q, Sequence(q), q # <<>>
  PROVE  /\ Sequence(Tail(q)) /\ Head(q) = q[1] /\ 1 \in DOMAIN q
         /\ \A i \in DOMAIN Tail(q) : i + 1 \in DOMAIN q /\ Tail(q)[i] = q[i + 1] /\ i \in Nat \ {0}
         /\ DOMAIN Tail(q) = 1..(Len(q) - 1) /\ DOMAIN q = 1..Len(q) /\ Len(q) \in Nat
<1> DEFINE R == {q[i] : i \in DOMAIN q}
           c == Tail(q)
<1>1. q \in Seq(R)
  BY DEF Sequence
<1> HIDE DEF R
<1>2. /\ c \in Seq(R) /\ \A i \in DOMAIN c : i + 1 \in DOMAIN q /\ c[i] = q[i + 1] /\ i \in Nat \ {0}
      /\ Head(q) = q[1] /\ 1 \in DOMAIN q /\ DOMAIN q = 1..Len(q) /\ Len(q) \in Nat
      /\ DOMAIN c = 1..(Len(q) - 1)
  BY <1>1
<1> HIDE DEF c
<1>3. Sequence(c)
  BY <1>2, OwnElements
<1> QED BY <1>2, <1>3 DEF c

LEMMA EmptySequence == Sequence(<<>>)
BY DEF Sequence
------------------------------------------------------------------------------
(* What the changes of the card keep. *)
LEMMA ToIdleKeeps == ASSUME NEW p, Shaped(p) PROVE Keeps(p, ToIdle(p)) /\ Shaped(ToIdle(p))
BY DEF Keeps, Shaped, Typed, OfRace, ToIdle, Fields

(* An idle card with nobody waiting is of any race. *)
LEMMA ClearedIsAnyones ==
  ASSUME NEW p, Shaped(p), p.queue = <<>>, NEW tag, NEW h
  PROVE  Shaped(ToIdle(p)) /\ Typed(ToIdle(p), tag) /\ OfRace(ToIdle(p), h)
<1>1. /\ ToIdle(p).phase = "idle" /\ ToIdle(p).armed = None /\ ToIdle(p).queue = <<>>
  BY DEF ToIdle, Shaped, Fields
<1> QED BY <1>1, ToIdleKeeps DEF Typed, OfRace

LEMMA ArmKeeps ==
  ASSUME NEW p, Shaped(p), NEW waved, NEW bib
  PROVE  /\ Shaped(Arm(p, waved, bib)) /\ Arm(p, waved, bib).on = p.on
         /\ \A tag : (bib # None => tag = waved.tag) => Typed(Arm(p, waved, bib), tag)
         /\ \A h : OfRace(p, h) /\ Fits(waved, h) => OfRace(Arm(p, waved, bib), h)
BY DEF Shaped, Typed, OfRace, Arm, Fields

LEMMA QueueKeeps ==
  ASSUME NEW p, Shaped(p), NEW queue, Sequence(queue),
         \A i \in DOMAIN queue : \E j \in DOMAIN p.queue : queue[i] = p.queue[j]
  PROVE  Keeps(p, [p EXCEPT !.queue = queue])
BY DEF Keeps, Shaped, Typed, OfRace, Fields

LEMMA PopKeeps == ASSUME NEW p, Shaped(p), NEW known PROVE Keeps(p, Pop(p, known))
<1> DEFINE waiting == {i \in DOMAIN p.queue : p.queue[i].tag \notin known}
           next    == CHOOSE i \in waiting : \A j \in waiting : i <= j
           rest    == SubSeq(p.queue, next + 1, Len(p.queue))
           q       == [p EXCEPT !.queue = rest]
<1>1. Sequence(p.queue)
  BY DEF Shaped
<1>2. CASE waiting = {}
  <2>1. Keeps(p, [p EXCEPT !.queue = <<>>])
    BY EmptySequence, QueueKeeps
  <2>2. Pop(p, known) = ToIdle([p EXCEPT !.queue = <<>>])
    BY <1>2 DEF Pop
  <2> QED BY <2>1, <2>2, ToIdleKeeps DEF Keeps
<1>3. CASE waiting # {}
  <2>1. DOMAIN p.queue \in SUBSET Nat
    BY <1>1 DEF Sequence
  <2>2. waiting \in SUBSET Nat
    BY <2>1
  <2>3. next \in waiting /\ next \in Nat
    <3> HIDE DEF waiting
    <3> QED BY <1>3, <2>2, Least
  <2> HIDE DEF next
  <2>4. Sequence(rest) /\ \A i \in DOMAIN rest : \E j \in DOMAIN p.queue : rest[i] = p.queue[j]
    BY <1>1, <2>3, Cut
  <2>5. Keeps(p, q)
    <3> HIDE DEF rest
    <3> QED BY <2>4, QueueKeeps
  <2>6. Pop(p, known) = Arm(q, p.queue[next], None)
    BY <1>3 DEF Pop, next
  <2> HIDE DEF q
  <2>7. next \in DOMAIN p.queue
    BY <2>3
  <2> QED BY <2>5, <2>6, <2>7, ArmKeeps DEF Keeps, OfRace
<1> QED BY <1>2, <1>3

LEMMA AutoStopKeeps == ASSUME NEW p, Shaped(p) PROVE Keeps(p, AutoStop(p))
<1>1. Keeps(p, [p EXCEPT !.auto = {}])
  BY DEF Keeps, Shaped, Typed, OfRace, Fields
<1>2. CASE p.on
  BY <1>1, <1>2, ToIdleKeeps DEF AutoStop, Keeps
<1>3. CASE ~p.on
  BY <1>1, <1>3 DEF AutoStop
<1> QED BY <1>2, <1>3

LEMMA AutoAdvanceKeeps == ASSUME NEW p, Shaped(p) PROVE Keeps(p, AutoAdvance(p))
<1>1. PICK later : later = {i \in p.auto : \E j \in p.auto : j < i}
  OBVIOUS
<1>2. Keeps(p, [p EXCEPT !.auto = later])
  BY DEF Keeps, Shaped, Typed, OfRace, Fields
<1>3. AutoAdvance(p) = [p EXCEPT !.auto = later] \/ AutoAdvance(p) = AutoStop(p)
  BY <1>1 DEF AutoAdvance
<1> QED BY <1>2, <1>3, AutoStopKeeps

(* A tag that is waved is put on the card or in the queue with its race.   *)
LEMMA TagSeenKeeps ==
  ASSUME NEW p, Shaped(p), NEW frame
  PROVE  /\ Shaped(TagSeen(p, frame)) /\ TagSeen(p, frame).on = p.on
         /\ \A tag : Typed(p, tag) => Typed(TagSeen(p, frame), tag)
         /\ \A h : OfRace(p, h) /\ Fits([tag |-> frame.tag, race |-> frame.race], h)
                  => OfRace(TagSeen(p, frame), h)
<1> DEFINE waved == [tag |-> frame.tag, race |-> frame.race]
<1>2. Keeps(p, p)
  BY DEF Keeps
<1> HIDE DEF waved
<1>3. CASE TagSeen(p, frame) = p
  BY <1>2, <1>3 DEF Keeps
<1>4. CASE TagSeen(p, frame) = [p EXCEPT !.queue = Append(@, waved)]
  <2>1. Sequence(p.queue)
    BY DEF Shaped
  <2>2. /\ Sequence(Append(p.queue, waved))
        /\ \A i \in DOMAIN Append(p.queue, waved) :
             \/ i \in DOMAIN p.queue /\ Append(p.queue, waved)[i] = p.queue[i]
             \/ Append(p.queue, waved)[i] = waved
    BY <2>1, Appended
  <2>3. /\ Shaped(TagSeen(p, frame)) /\ TagSeen(p, frame).on = p.on
        /\ \A tag : Typed(p, tag) => Typed(TagSeen(p, frame), tag)
    BY <1>4, <2>2 DEF Shaped, Typed, Fields
  <2>4. ASSUME NEW h, OfRace(p, h), Fits(waved, h) PROVE OfRace(TagSeen(p, frame), h)
    BY <1>4, <2>2, <2>4 DEF Shaped, Fields, OfRace
  <2> QED BY <2>3, <2>4 DEF waved
<1>5. CASE TagSeen(p, frame) = [p EXCEPT !.phase = "info", !.info = frame]
  BY <1>5 DEF Shaped, Typed, OfRace, Fields
<1>6. CASE TagSeen(p, frame) = Arm(p, waved, None)
  BY <1>6, ArmKeeps DEF waved
<1> QED BY <1>3, <1>4, <1>5, <1>6 DEF TagSeen, Queued, waved
------------------------------------------------------------------------------
(* The card: shaped, typed for, and of the race the panel has heard of, or *)
(* stray, while the panel is on and the stream had no gap.                 *)
Cards ==
  /\ history = [field \in {"typedFor", "race", "gap", "strays", "given", "lost"} |-> history[field]]
  /\ Shaped(panel) /\ Typed(panel, history.typedFor)
  /\ panel.on /\ ~history.gap => OfRace(panel, history)

(* The requests: well formed, the operator's for the tag typed for. *)
Requests ==
  /\ posts = [w \in Who |-> posts[w]]
  /\ \A w \in Who : posts[w] # None =>
       posts[w] = [field \in {"tag", "bib", "typedFor", "state"} |-> posts[w][field]]
  /\ posts["operator"] # None => posts["operator"].typedFor = posts["operator"].tag

(* The frames on the way: a tag is stray, or of the race that the last     *)
(* change before it told of, which is the one the panel has heard of if    *)
(* there is none.                                                          *)
Switched(frame) == "switched" \in DOMAIN frame

SwitchIn(j) == IF j = 0 THEN ~history.gap ELSE j \in DOMAIN feed /\ Switched(feed[j])

LastBefore(j, i) == SwitchIn(j) /\ \A k \in DOMAIN feed : j < k /\ k < i => ~Switched(feed[k])

Told(j) == IF j = 0 THEN history.race ELSE feed[j].switched

FitsTold(frame, j) ==
  frame.race = Told(j) \/ [tag |-> frame.tag, race |-> frame.race] \in history.strays

FeedInv ==
  /\ Sequence(feed)
  /\ serving.looked # None => ~Switched(serving.looked)
  /\ \A i \in DOMAIN feed, j \in Nat :
       j < i /\ ~Switched(feed[i]) /\ LastBefore(j, i) => FitsTold(feed[i], j)
  /\ \A j \in Nat : j <= Len(feed) /\ LastBefore(j, Len(feed) + 1) => serving.told = Told(j)

CouplingInv == Cards /\ Requests /\ FeedInv

(* The history keeps its fields. *)
RecordHistory ==
  history' = [field \in {"typedFor", "race", "gap", "strays", "given", "lost"} |-> history'[field]]

(* The part of the history that the card depends on is left alone. *)
SameHistory ==
  /\ history' = [field \in {"typedFor", "race", "gap", "strays", "given", "lost"} |-> history'[field]]
  /\ history'.typedFor = history.typedFor /\ history'.race = history.race
  /\ history'.gap = history.gap /\ history.strays \subseteq history'.strays

(* ... or all of it but whom the number was typed for. *)
SameRace ==
  /\ RecordHistory /\ history'.race = history.race /\ history'.gap = history.gap
  /\ history.strays \subseteq history'.strays

LEMMA OfRaceStill ==
  ASSUME NEW p, NEW h, NEW k, k.race = h.race, h.strays \subseteq k.strays, OfRace(p, h)
  PROVE  OfRace(p, k)
BY DEF OfRace, Fits

LEMMA HistoryKept == Cards /\ UNCHANGED history => SameHistory
BY DEF Cards, SameHistory

LEMMA CardsKept ==
  ASSUME Cards, SameHistory, Keeps(panel, panel') PROVE Cards'
BY OfRaceStill DEF Cards, SameHistory, Keeps

LEMMA CardsStay == ASSUME Cards, SameHistory, UNCHANGED panel PROVE Cards'
BY OfRaceStill DEF Cards, SameHistory

LEMMA FramesStay == ASSUME FeedInv, SameHistory, UNCHANGED <<feed, serving>> PROVE FeedInv'
BY DEF FeedInv, SameHistory, LastBefore, SwitchIn, Told, FitsTold, Switched

LEMMA FramesStill ==
  ASSUME FeedInv, SameRace, UNCHANGED <<feed, serving>> PROVE FeedInv'
BY DEF FeedInv, SameRace, LastBefore, SwitchIn, Told, FitsTold, Switched

LEMMA InitCouplingInv == CouplingInit => CouplingInv
<1> SUFFICES ASSUME CouplingInit PROVE CouplingInv
  OBVIOUS
<1>1. Cards
  BY EmptySequence DEF CouplingInit, Cards, Fresh, Shaped, Fields, Typed, OfRace
<1>2. Requests
  BY DEF CouplingInit, Requests, Who, Deletions
<1>3. FeedInv
  BY EmptySequence DEF CouplingInit, FeedInv, LastBefore, SwitchIn, Told
<1> QED BY <1>1, <1>2, <1>3 DEF CouplingInv
------------------------------------------------------------------------------
(* A frame is taken off the stream. *)
LEMMA TagTaken ==
  ASSUME FeedInv, SameHistory, feed # <<>>, ~Switched(Head(feed)), feed' = Tail(feed), serving' = serving
  PROVE  FeedInv'
<1>1. /\ Sequence(feed) /\ Sequence(feed') /\ Head(feed) = feed[1] /\ 1 \in DOMAIN feed
      /\ \A i \in DOMAIN feed' : i + 1 \in DOMAIN feed /\ feed'[i] = feed[i + 1] /\ i \in Nat \ {0}
      /\ DOMAIN feed' = 1..(Len(feed) - 1) /\ DOMAIN feed = 1..Len(feed) /\ Len(feed) \in Nat
  BY TailCut DEF FeedInv
<1>2. Len(feed') = Len(feed) - 1
  <2>1. feed' \in Seq({feed'[i] : i \in DOMAIN feed'}) /\ Len(feed) - 1 \in Nat
    BY <1>1 DEF Sequence
  <2> QED BY <1>1, <2>1
<1> DEFINE Back(j) == IF j = 0 THEN 0 ELSE j + 1
<1>3. ASSUME NEW i \in Nat \ {0}, i <= Len(feed), NEW j \in Nat, j < i, LastBefore(j, i)'
      PROVE  LastBefore(Back(j), i + 1) /\ Told(j)' = Told(Back(j))
  <2>1. SwitchIn(Back(j)) /\ Told(j)' = Told(Back(j))
    BY <1>1, <1>3 DEF LastBefore, SwitchIn, Told, SameHistory
  <2>2. ASSUME NEW k \in DOMAIN feed, Back(j) < k, k < i + 1 PROVE ~Switched(feed[k])
    <3>1. CASE k = 1
      BY <1>1, <3>1
    <3>2. CASE k # 1
      <4>1. k - 1 \in DOMAIN feed' /\ j < k - 1 /\ k - 1 < i /\ feed'[k - 1] = feed[k]
        BY <1>1, <1>3, <2>2, <3>2
      <4> QED BY <1>3, <4>1 DEF LastBefore, Switched
    <3> QED BY <3>1, <3>2
  <2> QED BY <2>1, <2>2 DEF LastBefore
<1>4. ASSUME NEW i \in DOMAIN feed', NEW j \in Nat, j < i, ~Switched(feed'[i]), LastBefore(j, i)'
      PROVE  FitsTold(feed[i], j)'
  <2>1. i + 1 \in DOMAIN feed /\ Back(j) < i + 1 /\ Back(j) \in Nat /\ feed'[i] = feed[i + 1]
        /\ i \in Nat \ {0} /\ i <= Len(feed)
    BY <1>1, <1>4
  <2>2. LastBefore(Back(j), i + 1) /\ Told(j)' = Told(Back(j))
    BY <1>3, <1>4, <2>1
  <2> HIDE DEF Back
  <2> QED BY <1>4, <2>1, <2>2 DEF FeedInv, FitsTold, SameHistory
<1>5. ASSUME NEW j \in Nat, j <= Len(feed'), LastBefore(j, Len(feed) + 1)' PROVE serving'.told = Told(j)'
  <2>1. LastBefore(Back(j), Len(feed) + 1) /\ Told(j)' = Told(Back(j))
    <3>1. PICK n \in Nat \ {0} : n = Len(feed) /\ j < n
      <4>1. Len(feed) \in Nat \ {0} /\ j < Len(feed)
        BY <1>1, <1>2, <1>5
      <4> QED BY <4>1
    <3>2. LastBefore(j, n)'
      BY <1>1, <1>2, <1>5, <3>1 DEF LastBefore
    <3> QED BY <1>3, <3>1, <3>2
  <2>2. Back(j) \in Nat /\ Back(j) <= Len(feed)
    BY <1>1, <1>2, <1>5
  <2> HIDE DEF Back
  <2> QED BY <2>1, <2>2 DEF FeedInv
<1> QED BY <1>1, <1>4, <1>5 DEF FeedInv, Switched

(* A change of the race is taken off the stream, and heard of. *)
LEMMA ChangeTaken ==
  ASSUME FeedInv, feed # <<>>, Switched(Head(feed)), feed' = Tail(feed), serving' = serving,
         history'.race = Head(feed).switched, history'.gap = FALSE, history'.strays = history.strays
  PROVE  FeedInv'
<1>1. /\ Sequence(feed) /\ Sequence(feed') /\ Head(feed) = feed[1] /\ 1 \in DOMAIN feed
      /\ \A i \in DOMAIN feed' : i + 1 \in DOMAIN feed /\ feed'[i] = feed[i + 1] /\ i \in Nat \ {0}
      /\ DOMAIN feed' = 1..(Len(feed) - 1) /\ DOMAIN feed = 1..Len(feed) /\ Len(feed) \in Nat
  BY TailCut DEF FeedInv
<1>2. Len(feed') = Len(feed) - 1
  <2>1. feed' \in Seq({feed'[i] : i \in DOMAIN feed'}) /\ Len(feed) - 1 \in Nat
    BY <1>1 DEF Sequence
  <2> QED BY <1>1, <2>1
<1>3. ASSUME NEW i \in Nat \ {0}, i <= Len(feed), NEW j \in Nat, j < i, LastBefore(j, i)'
      PROVE  LastBefore(j + 1, i + 1) /\ Told(j)' = Told(j + 1)
  <2>1. SwitchIn(j + 1) /\ Told(j)' = Told(j + 1)
    BY <1>1, <1>3 DEF LastBefore, SwitchIn, Told, Switched
  <2>2. ASSUME NEW k \in DOMAIN feed, j + 1 < k, k < i + 1 PROVE ~Switched(feed[k])
    <3>1. k - 1 \in DOMAIN feed' /\ j < k - 1 /\ k - 1 < i /\ feed'[k - 1] = feed[k]
      BY <1>1, <1>3, <2>2
    <3> QED BY <1>3, <3>1 DEF LastBefore, Switched
  <2> QED BY <2>1, <2>2 DEF LastBefore
<1>4. ASSUME NEW i \in DOMAIN feed', NEW j \in Nat, j < i, ~Switched(feed'[i]), LastBefore(j, i)'
      PROVE  FitsTold(feed[i], j)'
  <2>1. i + 1 \in DOMAIN feed /\ j + 1 < i + 1 /\ j + 1 \in Nat /\ feed'[i] = feed[i + 1]
        /\ i \in Nat \ {0} /\ i <= Len(feed)
    BY <1>1, <1>4
  <2>2. LastBefore(j + 1, i + 1) /\ Told(j)' = Told(j + 1)
    BY <1>3, <1>4, <2>1
  <2> QED BY <1>4, <2>1, <2>2 DEF FeedInv, FitsTold, SameHistory
<1>5. ASSUME NEW j \in Nat, j <= Len(feed'), LastBefore(j, Len(feed) + 1)' PROVE serving'.told = Told(j)'
  <2>1. PICK n \in Nat \ {0} : n = Len(feed) /\ j < n /\ j + 1 \in Nat /\ j + 1 <= n
    <3>1. Len(feed) \in Nat \ {0} /\ j < Len(feed)
      BY <1>1, <1>2, <1>5
    <3> QED BY <3>1
  <2>2. LastBefore(j, n)'
    BY <1>1, <1>2, <1>5, <2>1 DEF LastBefore
  <2>3. LastBefore(j + 1, Len(feed) + 1) /\ Told(j)' = Told(j + 1)
    BY <1>3, <2>1, <2>2
  <2> QED BY <2>1, <2>3 DEF FeedInv
<1> QED BY <1>1, <1>4, <1>5 DEF FeedInv, Switched

(* A frame is put on the stream. *)
LEMMA FramePut ==
  ASSUME FeedInv, SameHistory, NEW frame, feed' = Append(feed, frame),
         serving'.looked \in {None, serving.looked},
         \/ /\ ~Switched(frame) /\ serving'.told = serving.told
            /\ \/ frame.race = serving.told
               \/ [tag |-> frame.tag, race |-> frame.race] \in history'.strays
         \/ Switched(frame) /\ serving'.told = frame.switched
  PROVE  FeedInv'
<1>1. /\ Sequence(feed') /\ DOMAIN feed' = 1..(Len(feed) + 1) /\ feed'[Len(feed) + 1] = frame
      /\ \A i \in DOMAIN feed : feed'[i] = feed[i]
      /\ DOMAIN feed = 1..Len(feed) /\ Len(feed) \in Nat
  BY Appended DEF FeedInv
<1>2. Len(feed') = Len(feed) + 1
  <2>1. feed' \in Seq({feed'[i] : i \in DOMAIN feed'}) /\ Len(feed) + 1 \in Nat
    BY <1>1 DEF Sequence
  <2> QED BY <1>1, <2>1
<1>3. ASSUME NEW i \in Nat, i <= Len(feed) + 1, NEW j \in Nat, j < i, LastBefore(j, i)'
      PROVE  LastBefore(j, i) /\ Told(j)' = Told(j)
  BY <1>1, <1>3 DEF LastBefore, SwitchIn, Told, SameHistory, Switched
<1>4. ASSUME NEW i \in DOMAIN feed', NEW j \in Nat, j < i, ~Switched(feed'[i]), LastBefore(j, i)'
      PROVE  FitsTold(feed[i], j)'
  <2>1. i \in Nat /\ i <= Len(feed) + 1 /\ LastBefore(j, i) /\ Told(j)' = Told(j)
    BY <1>1, <1>3, <1>4
  <2>2. CASE i \in DOMAIN feed
    BY <1>1, <1>4, <2>1, <2>2 DEF FeedInv, FitsTold, SameHistory
  <2>3. CASE i = Len(feed) + 1
    <3>1. LastBefore(j, Len(feed) + 1) /\ j <= Len(feed) /\ feed'[i] = frame
      BY <1>1, <1>4, <2>1, <2>3
    <3> QED BY <1>4, <2>1, <3>1 DEF FeedInv, FitsTold
  <2> QED BY <1>1, <2>2, <2>3
<1>5. ASSUME NEW j \in Nat, j <= Len(feed'), LastBefore(j, Len(feed) + 1)' PROVE serving'.told = Told(j)'
  <2>1. Len(feed) + 1 \in DOMAIN feed' /\ Len(feed) + 1 < Len(feed') + 1
    BY <1>1, <1>2
  <2>2. CASE j = Len(feed) + 1
    <3>1. j # 0 /\ feed'[j] = frame
      BY <1>1, <2>2
    <3>2. Switched(frame)
      BY <1>1, <1>5, <3>1 DEF LastBefore, SwitchIn, Switched
    <3> QED BY <3>1, <3>2 DEF Told
  <2>3. CASE j <= Len(feed)
    <3>1. ~Switched(frame)
      BY <1>1, <1>2, <1>5, <2>1, <2>3 DEF LastBefore, Switched
    <3>2. PICK n \in Nat : n = Len(feed) + 1
      BY <1>1
    <3>3. LastBefore(j, n)'
      BY <1>1, <1>2, <1>5, <3>2 DEF LastBefore
    <3>4. LastBefore(j, n) /\ Told(j)' = Told(j)
      BY <1>1, <1>3, <2>3, <3>2, <3>3
    <3> QED BY <2>3, <3>1, <3>2, <3>4 DEF FeedInv
  <2> QED BY <1>1, <1>2, <1>5, <2>2, <2>3
<1> QED BY <1>1, <1>4, <1>5 DEF FeedInv, Switched
------------------------------------------------------------------------------
LEMMA RequestsStay == Requests /\ UNCHANGED posts => Requests'
BY DEF Requests

(* A request is sent, answered or forgotten. *)
LEMMA RequestsChange ==
  ASSUME Requests, NEW w \in Who, NEW post, posts' = [posts EXCEPT ![w] = post],
         post = None \/ post = [field \in {"tag", "bib", "typedFor", "state"} |-> post[field]],
         w = "operator" /\ post # None => post.typedFor = post.tag
  PROVE  Requests'
BY DEF Requests, Who, Deletions

(* A change of the panel, and at most of the part of the history that the  *)
(* card does not depend on.                                                *)
LEMMA PanelStep ==
  ASSUME CouplingInv, SameHistory, Keeps(panel, panel'), UNCHANGED <<feed, serving>>, Requests'
  PROVE  CouplingInv'
BY CardsKept, FramesStay DEF CouplingInv

LEMMA OtherStep ==
  ASSUME CouplingInv, UNCHANGED <<panel, history, feed, serving>>, Requests'
  PROVE  CouplingInv'
BY CardsStay, FramesStay, HistoryKept DEF CouplingInv

(* Fields the proofs do not look at. *)
LEMMA FlagsKeep ==
  ASSUME NEW p, Shaped(p), NEW value
  PROVE  /\ Keeps(p, [p EXCEPT !.saving = value]) /\ Keeps(p, [p EXCEPT !.autoSaving = value])
         /\ Keeps(p, [p EXCEPT !.confirm = value]) /\ Keeps(p, p)
BY DEF Keeps, Shaped, Typed, OfRace, Fields

LEMMA KeepsOn ==
  ASSUME NEW p, NEW q, NEW r, Keeps(p, q), Keeps(q, r) PROVE Keeps(p, r)
BY DEF Keeps

LEMMA PostFields ==
  ASSUME NEW tag, NEW bib, NEW typed_for, NEW state, NEW post,
         post = [tag |-> tag, bib |-> bib, typedFor |-> typed_for, state |-> state]
  PROVE  /\ post = [field \in {"tag", "bib", "typedFor", "state"} |-> post[field]]
         /\ post.tag = tag /\ post.typedFor = typed_for
OBVIOUS

LEMMA TagKeeps ==
  ASSUME CouplingInv, OnMessageOfPanel, ~Switched(Head(feed)) PROVE CouplingInv'
<1>1. feed # <<>> /\ feed' = Tail(feed) /\ serving' = serving /\ OnTagSeen(Head(feed))
  BY DEF OnMessageOfPanel, Switched
<1>2. history' = history
  BY <1>1 DEF OnTagSeen
<1>3. SameHistory
  BY <1>2, HistoryKept DEF CouplingInv
<1>4. FeedInv'
  BY <1>1, <1>3, TagTaken DEF CouplingInv
<1>5. CASE UNCHANGED <<panel, posts>>
  BY <1>3, <1>4, <1>5, CardsStay, RequestsStay DEF CouplingInv
<1>6. CASE panel' = [panel EXCEPT !.autoSaving = TRUE] /\ OnTagSeen(Head(feed)) /\ AutoTagSeen(Head(feed))
  <2>1. Cards'
    BY <1>3, <1>6, FlagsKeep, CardsKept DEF CouplingInv, Cards
  <2>2. Requests'
    <3>1. CASE UNCHANGED posts
      BY <3>1, RequestsStay DEF CouplingInv
    <3>2. CASE posts' = [posts EXCEPT !["loop"] =
                           [tag |-> Head(feed).tag, bib |-> Current(panel),
                            typedFor |-> Head(feed).tag, state |-> "sent"]]
      <4>1. PICK post : post = [tag |-> Head(feed).tag, bib |-> Current(panel),
                                typedFor |-> Head(feed).tag, state |-> "sent"]
        OBVIOUS
      <4>2. post = [field \in {"tag", "bib", "typedFor", "state"} |-> post[field]]
        BY <4>1
      <4>3. posts' = [posts EXCEPT !["loop"] = post]
        BY <3>2, <4>1
      <4>4. "loop" \in Who /\ "loop" # "operator"
        BY DEF Who, Deletions
      <4> QED BY <4>2, <4>3, <4>4, RequestsChange DEF CouplingInv
    <3> QED BY <1>6, <3>1, <3>2 DEF AutoTagSeen
  <2> QED BY <1>4, <2>1, <2>2 DEF CouplingInv
<1>7. CASE panel.on /\ panel' = TagSeen(panel, Head(feed)) /\ UNCHANGED posts
  <2>1. ~history.gap => Fits([tag |-> Head(feed).tag, race |-> Head(feed).race], history)
    <3>1. Head(feed) = feed[1] /\ 1 \in DOMAIN feed
      BY <1>1, TailCut DEF CouplingInv, FeedInv
    <3>2. ~history.gap => LastBefore(0, 1)
      <4>1. \A k \in DOMAIN feed : ~(0 < k /\ k < 1)
        BY <1>1, TailCut DEF CouplingInv, FeedInv
      <4> QED BY <4>1 DEF LastBefore, SwitchIn
    <3>3. 0 \in Nat /\ 0 < 1
      OBVIOUS
    <3>4. ~history.gap => FitsTold(feed[1], 0)
      BY <3>1, <3>2, <3>3 DEF CouplingInv, FeedInv
    <3> QED BY <3>1, <3>4 DEF FitsTold, Told, Fits
  <2>2. Cards'
    BY <1>2, <1>7, <2>1, TagSeenKeeps DEF CouplingInv, Cards
  <2> QED BY <1>4, <1>7, <2>2, RequestsStay DEF CouplingInv
<1>8. AutoTagSeen(Head(feed)) => UNCHANGED <<panel, posts>> \/ panel' = [panel EXCEPT !.autoSaving = TRUE]
  BY DEF AutoTagSeen
<1> QED BY <1>1, <1>5, <1>6, <1>7, <1>8 DEF OnTagSeen

LEMMA ChangeKeeps ==
  ASSUME CouplingInv, OnMessageOfPanel, Switched(Head(feed)) PROVE CouplingInv'
<1> DEFINE race == Head(feed).switched
<1>1. feed # <<>> /\ feed' = Tail(feed) /\ serving' = serving /\ OnRaceChanged(race)
  BY DEF OnMessageOfPanel, Switched
<1>2. /\ panel' = IF panel.on THEN RaceChanged(panel) ELSE panel
      /\ history' = [history EXCEPT !.race = race, !.gap = FALSE] /\ UNCHANGED posts
  BY <1>1 DEF OnRaceChanged
<1>3. /\ history'.race = race /\ history'.gap = FALSE /\ history'.typedFor = history.typedFor
      /\ history'.strays = history.strays
      /\ history' = [field \in {"typedFor", "race", "gap", "strays", "given", "lost"} |-> history'[field]]
  BY <1>2 DEF CouplingInv, Cards
<1>4. FeedInv'
  BY <1>1, <1>3, ChangeTaken DEF CouplingInv
<1>5. CASE ~panel.on
  BY <1>2, <1>3, <1>4, <1>5, RequestsStay DEF CouplingInv, Cards
<1>6. CASE panel.on
  <2> DEFINE q == [AutoStop(panel) EXCEPT !.queue = <<>>]
  <2>1. Shaped(AutoStop(panel))
    BY AutoStopKeeps DEF CouplingInv, Cards, Keeps
  <2>2. Shaped(q) /\ q.queue = <<>>
    BY <2>1, EmptySequence DEF Shaped, Fields
  <2>3. panel' = ToIdle(q)
    BY <1>2, <1>6 DEF RaceChanged
  <2> HIDE DEF q
  <2>4. Shaped(panel') /\ Typed(panel', history'.typedFor) /\ OfRace(panel', history')
    BY <2>2, <2>3, ClearedIsAnyones
  <2> HIDE DEF race
  <2>5. Cards'
    BY <1>3, <2>4 DEF Cards
  <2> QED BY <1>2, <1>4, <2>5, RequestsStay DEF CouplingInv
<1> QED BY <1>5, <1>6
------------------------------------------------------------------------------
(* The operator's keys that leave the requests alone. *)
LEMMA CardStep ==
  ASSUME CouplingInv, UNCHANGED <<posts, feed, serving>>, Cards', SameHistory PROVE CouplingInv'
BY FramesStay, RequestsStay DEF CouplingInv

LEMMA ModeOnKeeps == ASSUME CouplingInv, ModeOn PROVE CouplingInv'
<1> DEFINE q == [panel EXCEPT !.on = TRUE, !.queue = <<>>]
<1>1. Shaped(q) /\ q.queue = <<>> /\ panel' = ToIdle(q) /\ history' = history
  BY EmptySequence DEF ModeOn, CouplingInv, Cards, Shaped, Fields
<1> HIDE DEF q
<1>2. Shaped(panel') /\ Typed(panel', history.typedFor) /\ OfRace(panel', history)
  BY <1>1, ClearedIsAnyones
<1>3. Cards' /\ SameHistory
  BY <1>1, <1>2, HistoryKept DEF CouplingInv, Cards
<1> QED BY <1>3, CardStep DEF ModeOn

LEMMA ModeOffKeeps == ASSUME CouplingInv, ModeOff PROVE CouplingInv'
<1> DEFINE q == [AutoStop(panel) EXCEPT !.on = FALSE, !.queue = <<>>]
<1>1. Shaped(AutoStop(panel))
  BY AutoStopKeeps DEF CouplingInv, Cards, Keeps
<1>2. Shaped(q) /\ q.queue = <<>> /\ panel' = ToIdle(q) /\ history' = history
  BY <1>1, EmptySequence DEF ModeOff, Shaped, Fields
<1> HIDE DEF q
<1>3. Shaped(panel') /\ Typed(panel', history.typedFor) /\ OfRace(panel', history)
  BY <1>2, ClearedIsAnyones
<1>4. Cards' /\ SameHistory
  BY <1>2, <1>3, HistoryKept DEF CouplingInv, Cards
<1> QED BY <1>4, CardStep DEF ModeOff

LEMMA TypeKeeps == ASSUME CouplingInv, NEW b, Type(b) PROVE CouplingInv'
<1>1. /\ panel' = [panel EXCEPT !.bib = b, !.confirm = None]
      /\ history' = [history EXCEPT !.typedFor = panel.armed.tag]
  BY DEF Type
<1>2. /\ SameRace /\ history'.typedFor = panel.armed.tag
  BY <1>1 DEF CouplingInv, Cards, SameRace, RecordHistory
<1>3. Shaped(panel') /\ panel'.on = panel.on /\ panel'.armed = panel.armed
  BY <1>1 DEF CouplingInv, Cards, Shaped, Fields
<1>4. \A h : OfRace(panel, h) => OfRace(panel', h)
  BY <1>1 DEF CouplingInv, Cards, Shaped, Fields, OfRace
<1>5. Cards'
  BY <1>2, <1>3, <1>4, OfRaceStill DEF CouplingInv, Cards, Typed, SameRace, RecordHistory
<1> QED BY <1>2, <1>5, FramesStill, RequestsStay DEF CouplingInv, Type

LEMMA RecoupleKeeps == ASSUME CouplingInv, Recouple PROVE CouplingInv'
<1> DEFINE waved == [tag |-> panel.info.tag, race |-> panel.info.race]
<1>1. /\ panel' = Arm(panel, waved, panel.info.bib) /\ panel.phase = "info"
      /\ history' = [history EXCEPT !.typedFor = panel.info.tag]
  BY DEF Recouple
<1>2. SameRace /\ history'.typedFor = waved.tag /\ (\A h : OfRace(panel, h) => Fits(waved, h))
  BY <1>1 DEF CouplingInv, Cards, SameRace, RecordHistory, OfRace
<1> HIDE DEF waved
<1>3. /\ Shaped(panel') /\ panel'.on = panel.on /\ Typed(panel', history'.typedFor)
      /\ \A h : OfRace(panel, h) => OfRace(panel', h)
  BY <1>1, <1>2, ArmKeeps DEF CouplingInv, Cards
<1>4. Cards'
  BY <1>2, <1>3, OfRaceStill DEF CouplingInv, Cards, SameRace, RecordHistory
<1> QED BY <1>2, <1>4, FramesStill, RequestsStay DEF CouplingInv, Recouple

LEMMA DeleteKeeps == ASSUME CouplingInv, Delete PROVE CouplingInv'
<1>1. PICK post : post = [tag |-> panel.info.tag, bib |-> None, typedFor |-> panel.info.tag,
                          state |-> "sent"]
  OBVIOUS
<1>2. PICK who \in Deletions : posts' = [posts EXCEPT ![who] = post]
  BY <1>1 DEF Delete
<1>3. post = [field \in {"tag", "bib", "typedFor", "state"} |-> post[field]]
      /\ who \in Who /\ who # "operator"
  BY <1>1 DEF Who, Deletions
<1>4. Requests'
  BY <1>2, <1>3, RequestsChange DEF CouplingInv
<1> QED BY <1>4, OtherStep DEF Delete

LEMMA SaveKeeps == ASSUME CouplingInv, Save PROVE CouplingInv'
<1>1. SameHistory /\ Shaped(panel)
  BY HistoryKept DEF CouplingInv, Cards, Save
<1>2. CASE panel' = [panel EXCEPT !.confirm = panel.bib] /\ UNCHANGED posts
  BY <1>1, <1>2, FlagsKeep, RequestsStay, PanelStep DEF Save, CouplingInv
<1>3. CASE /\ panel' = [panel EXCEPT !.saving = TRUE]
           /\ posts' = [posts EXCEPT !["operator"] =
                          [tag |-> panel.armed.tag, bib |-> panel.bib,
                           typedFor |-> history.typedFor, state |-> "sent"]]
  <2>1. PICK post : post = [tag |-> panel.armed.tag, bib |-> panel.bib,
                            typedFor |-> history.typedFor, state |-> "sent"]
    OBVIOUS
  <2>2. posts' = [posts EXCEPT !["operator"] = post]
    BY <1>3, <2>1
  <2>3. post = [field \in {"tag", "bib", "typedFor", "state"} |-> post[field]]
        /\ "operator" \in Who
    BY <2>1 DEF Who, Deletions
  <2>4. post.typedFor = post.tag
    BY <2>1 DEF Save, CouplingInv, Cards, Typed
  <2>5. Requests'
    BY <2>2, <2>3, <2>4, RequestsChange DEF CouplingInv
  <2>6. Keeps(panel, panel')
    BY <1>1, <1>3, FlagsKeep
  <2> QED BY <1>1, <2>5, <2>6, PanelStep DEF Save
<1> QED BY <1>2, <1>3 DEF Save

(* A step that only changes the panel, and keeps what is to be kept. *)
LEMMA PanelOnly ==
  ASSUME CouplingInv, UNCHANGED <<posts, feed, serving, history>>, Keeps(panel, panel')
  PROVE  CouplingInv'
BY PanelStep, RequestsStay, HistoryKept DEF CouplingInv

LEMMA InfoClearsKeeps == ASSUME CouplingInv, InfoClears PROVE CouplingInv'
BY PanelOnly, ToIdleKeeps DEF InfoClears, CouplingInv, Cards

LEMMA SkipKeeps == ASSUME CouplingInv, Skip PROVE CouplingInv'
<1>1. Shaped(panel)
  BY DEF CouplingInv, Cards
<1>2. panel' \in {AutoAdvance(panel), Pop(panel, cache.byTag), panel}
  BY DEF Skip
<1>3. Keeps(panel, panel')
  BY <1>1, <1>2, AutoAdvanceKeeps, PopKeeps, FlagsKeep
<1> QED BY <1>3, PanelOnly DEF Skip

LEMMA AutoStoppedKeeps == ASSUME CouplingInv, AutoStopped PROVE CouplingInv'
BY PanelOnly, AutoStopKeeps DEF AutoStopped, CouplingInv, Cards

LEMMA AutoStartKeeps == ASSUME CouplingInv, AutoStart PROVE CouplingInv'
<1>1. PICK free : panel' = [panel EXCEPT !.auto = free, !.phase = "auto", !.armed = None,
                                         !.info = None, !.confirm = None]
  BY DEF AutoStart
<1>2. Keeps(panel, panel')
  BY <1>1 DEF Keeps, CouplingInv, Cards, Shaped, Fields, Typed, OfRace
<1>3. SameHistory
  BY DEF AutoStart, SameHistory, CouplingInv, Cards
<1> QED BY <1>2, <1>3, PanelStep, RequestsStay DEF AutoStart, CouplingInv

(* The replies. *)
LEMMA FailedKeeps ==
  ASSUME CouplingInv, NEW w, Failed(w) PROVE Keeps(panel, panel')
<1>1. PICK saving, autoSaving : panel' = [panel EXCEPT !.saving = saving, !.autoSaving = autoSaving]
  BY DEF Failed
<1> QED BY <1>1 DEF Keeps, CouplingInv, Cards, Shaped, Fields, Typed, OfRace

LEMMA StoredKeeps ==
  ASSUME CouplingInv, NEW w, Stored(w) PROVE Keeps(panel, panel')
<1>1. Shaped(panel)
  BY DEF CouplingInv, Cards
<1>2. CASE w = "operator"
  <2>1. PICK known : panel' = Pop([panel EXCEPT !.saving = FALSE], known)
    BY <1>2 DEF Stored
  <2>2. PICK p : p = [panel EXCEPT !.saving = FALSE] /\ panel' = Pop(p, known)
    BY <2>1
  <2>3. Keeps(panel, p) /\ Shaped(p)
    BY <1>1, <2>2, FlagsKeep DEF Keeps
  <2> QED BY <2>2, <2>3, PopKeeps, KeepsOn
<1>3. CASE w # "operator"
  <2>1. PICK p : p = [panel EXCEPT !.autoSaving = FALSE] /\ panel' = AutoAdvance(p)
    BY <1>3 DEF Stored
  <2>2. Keeps(panel, p) /\ Shaped(p)
    BY <1>1, <2>1, FlagsKeep DEF Keeps
  <2> QED BY <2>1, <2>2, AutoAdvanceKeeps, KeepsOn
<1> QED BY <1>2, <1>3

LEMMA Forgotten ==
  ASSUME CouplingInv, NEW w \in Who, posts' = [posts EXCEPT ![w] = None] PROVE Requests'
BY RequestsChange DEF CouplingInv

LEMMA ReplyKeeps == ASSUME CouplingInv, NEW w \in Who, Reply(w) PROVE CouplingInv'
<1>1. Requests' /\ SameHistory
  BY Forgotten, HistoryKept DEF Reply, CouplingInv
<1>2. Deleted \/ Stored(w) \/ Failed(w)
  BY DEF Reply
<1>3. Deleted => Keeps(panel, panel')
  BY ToIdleKeeps DEF Deleted, CouplingInv, Cards
<1>4. Keeps(panel, panel')
  BY <1>2, <1>3, StoredKeeps, FailedKeeps
<1> QED BY <1>1, <1>4, PanelStep DEF Reply

LEMMA LostKeeps == ASSUME CouplingInv, NEW w \in Who, Lost(w) PROVE CouplingInv'
<1>1. Requests' /\ Keeps(panel, panel')
  BY Forgotten, FailedKeeps DEF Lost
<1>2. PICK lost : history' = [history EXCEPT !.lost = lost]
  BY DEF Lost
<1>3. SameHistory
  BY <1>2 DEF SameHistory, CouplingInv, Cards
<1> QED BY <1>1, <1>3, PanelStep DEF Lost

(* The backend. *)
LEMMA AnotherState ==
  ASSUME CouplingInv, NEW w \in Who, posts[w] # None, NEW state,
         posts' = [posts EXCEPT ![w].state = state]
  PROVE  Requests'
<1>1. PICK post : post = [posts[w] EXCEPT !.state = state]
  OBVIOUS
<1>2. posts' = [posts EXCEPT ![w] = post]
  BY <1>1
<1>3. /\ post = [field \in {"tag", "bib", "typedFor", "state"} |-> post[field]]
      /\ post.tag = posts[w].tag /\ post.typedFor = posts[w].typedFor
  BY <1>1 DEF CouplingInv, Requests
<1>4. w = "operator" => post.typedFor = post.tag
  BY <1>3 DEF CouplingInv, Requests
<1> QED BY <1>2, <1>3, <1>4, RequestsChange DEF CouplingInv

LEMMA PostRiderKeeps == ASSUME CouplingInv, NEW w \in Who, PostRider(w) PROVE CouplingInv'
<1>1. Requests'
  BY AnotherState DEF PostRider
<1>2. history' = history \/ \E given : history' = [history EXCEPT !.given = given]
  BY DEF PostRider
<1>3. SameHistory
  BY <1>2 DEF SameHistory, CouplingInv, Cards
<1>4. Cards'
  BY <1>3, CardsStay DEF PostRider, CouplingInv
<1> QED BY <1>1, <1>3, <1>4, FramesStay DEF PostRider, CouplingInv

LEMMA RefuseKeeps == ASSUME CouplingInv, NEW w \in Who, Refuse(w) PROVE CouplingInv'
BY AnotherState, OtherStep DEF Refuse

LEMMA LookUpKeeps == ASSUME CouplingInv, NEW t, LookUp(t) PROVE CouplingInv'
<1>1. /\ UNCHANGED <<panel, posts, feed, history>> /\ serving'.told = serving.told
      /\ ~Switched(serving'.looked)
  BY DEF LookUp, Switched, CouplingInv, FeedInv
<1>2. SameHistory
  BY <1>1, HistoryKept DEF CouplingInv
<1>3. FeedInv'
  BY <1>1 DEF CouplingInv, FeedInv, LastBefore, SwitchIn, Told, FitsTold, Switched
<1> QED BY <1>1, <1>2, <1>3, CardsStay, RequestsStay DEF CouplingInv

(* A tag_seen in the middle of a switch is remembered as stray. *)
LEMMA PublishSeenKeeps == ASSUME CouplingInv, PublishSeen PROVE CouplingInv'
<1> DEFINE waved == [tag |-> serving.looked.tag, race |-> serving.looked.race]
<1>1. PICK frame : /\ frame = serving.looked /\ frame # None /\ feed' = Append(feed, frame)
                   /\ ~Switched(frame)
  BY DEF PublishSeen, CouplingInv, FeedInv
<1>2. serving'.told = serving.told /\ serving'.looked \in {None, serving.looked}
  BY DEF PublishSeen, CouplingInv, FeedInv
<1>3. \/ UNCHANGED history /\ waved.race = serving.told
      \/ history' = [history EXCEPT !.strays = @ \cup {waved}]
  BY DEF PublishSeen
<1>4. SameHistory /\ (waved.race = serving.told \/ waved \in history'.strays)
  <2> HIDE DEF waved
  <2> QED BY <1>3, HistoryKept DEF SameHistory, CouplingInv, Cards
<1>5. FeedInv'
  BY <1>1, <1>2, <1>4, FramePut DEF CouplingInv
<1> QED BY <1>4, <1>5, CardsStay, RequestsStay DEF PublishSeen, CouplingInv

LEMMA SwitchKeeps == ASSUME CouplingInv, NEW r, SwitchRace(r) PROVE CouplingInv'
<1>1. /\ UNCHANGED <<panel, posts, feed, history>>
      /\ serving'.told = serving.told /\ serving'.looked = serving.looked
  BY DEF SwitchRace, CouplingInv, FeedInv
<1>2. SameHistory
  BY <1>1, HistoryKept DEF CouplingInv
<1>3. FeedInv'
  BY <1>1 DEF CouplingInv, FeedInv, LastBefore, SwitchIn, Told, FitsTold, Switched
<1> QED BY <1>1, <1>2, <1>3, CardsStay, RequestsStay DEF CouplingInv

LEMMA PublishSwitchKeeps == ASSUME CouplingInv, PublishSwitch PROVE CouplingInv'
<1>1. PICK frame : frame = [switched |-> serving.race] /\ feed' = Append(feed, frame)
  BY DEF PublishSwitch
<1>2. /\ Switched(frame) /\ frame.switched = serving.race
      /\ serving'.told = serving.race /\ serving'.looked = serving.looked
  BY <1>1 DEF Switched, PublishSwitch, CouplingInv, FeedInv
<1>3. SameHistory
  BY HistoryKept DEF PublishSwitch, CouplingInv
<1>4. FeedInv'
  BY <1>1, <1>2, <1>3, FramePut DEF CouplingInv
<1> QED BY <1>3, <1>4, CardsStay, RequestsStay DEF PublishSwitch, CouplingInv

LEMMA GapKeeps == ASSUME CouplingInv, Gap PROVE CouplingInv'
<1>1. /\ feed' = <<>> /\ serving' = serving /\ panel' = panel /\ posts' = posts
      /\ history' = [history EXCEPT !.gap = history.gap \/ \E i \in DOMAIN feed : Switched(feed[i])]
  BY DEF Gap, Switched
<1>2. /\ RecordHistory /\ history'.race = history.race /\ history'.typedFor = history.typedFor
      /\ history'.strays = history.strays
      /\ ~history'.gap => ~history.gap /\ \A i \in DOMAIN feed : ~Switched(feed[i])
  BY <1>1 DEF CouplingInv, Cards, RecordHistory
<1>3. Cards'
  BY <1>1, <1>2, OfRaceStill DEF CouplingInv, Cards, RecordHistory
<1>4. ~history'.gap => serving.told = history.race
  <2>1. ~history'.gap => LastBefore(0, Len(feed) + 1)
    BY <1>2 DEF LastBefore, SwitchIn
  <2>2. 0 \in Nat /\ 0 <= Len(feed)
    <3>1. feed \in Seq({feed[i] : i \in DOMAIN feed})
      BY DEF CouplingInv, FeedInv, Sequence
    <3> QED BY <3>1
  <2> QED BY <2>1, <2>2 DEF CouplingInv, FeedInv, Told
<1>5. FeedInv'
  <2>1. Sequence(feed') /\ DOMAIN feed' = {} /\ Len(feed') = 0
    BY <1>1, EmptySequence
  <2>2. \A j \in Nat : j <= Len(feed') /\ LastBefore(j, Len(feed) + 1)' => serving'.told = Told(j)'
    <3>1. ASSUME NEW j \in Nat, j <= Len(feed'), LastBefore(j, Len(feed) + 1)'
          PROVE  serving'.told = Told(j)'
      <4>1. j = 0
        BY <2>1, <3>1
      <4> QED BY <1>1, <1>2, <1>4, <3>1, <4>1 DEF LastBefore, SwitchIn, Told
    <3> QED BY <3>1
  <2> QED BY <1>1, <2>1, <2>2 DEF CouplingInv, FeedInv, Switched
<1> QED BY <1>1, <1>3, <1>5, RequestsStay DEF CouplingInv
------------------------------------------------------------------------------
LEMMA CouplingStep == CouplingInv /\ [CouplingNext]_coupleVars => CouplingInv'
<1> SUFFICES ASSUME CouplingInv, [CouplingNext]_coupleVars PROVE CouplingInv'
  OBVIOUS
<1>1. CASE OnMessageOfPanel
  BY <1>1, TagKeeps, ChangeKeeps
<1>2. CASE PullAnswered \/ PullFails \/ GetRiders
  BY <1>2, OtherStep, RequestsStay DEF PullAnswered, PullFails, GetRiders, CouplingInv
<1>3. CASE \E b \in Bibs : Type(b)
  BY <1>3, TypeKeeps
<1>4. CASE PublishSeen \/ \E t \in Tags : LookUp(t)
  BY <1>4, PublishSeenKeeps, LookUpKeeps
<1>5. CASE PublishSwitch \/ \E r \in Races : SwitchRace(r)
  BY <1>5, PublishSwitchKeeps, SwitchKeeps
<1>6. CASE \E w \in Who : PostRider(w) \/ Refuse(w) \/ Reply(w) \/ Lost(w)
  BY <1>6, PostRiderKeeps, RefuseKeeps, ReplyKeeps, LostKeeps
<1>7. CASE UNCHANGED coupleVars
  BY <1>7, OtherStep, RequestsStay DEF coupleVars, CouplingInv
<1>8. CASE InfoClears \/ ModeOn \/ ModeOff \/ Recouple \/ Delete \/ Save \/ Skip
  BY <1>8, InfoClearsKeeps, ModeOnKeeps, ModeOffKeeps, RecoupleKeeps, DeleteKeeps, SaveKeeps,
     SkipKeeps
<1>9. CASE AutoStart \/ AutoStopped \/ Gap
  BY <1>9, AutoStartKeeps, AutoStoppedKeeps, GapKeeps
<1> QED BY <1>1, <1>2, <1>3, <1>4, <1>5, <1>6, <1>7, <1>8, <1>9 DEF CouplingNext

(* The invariant of the panel, its requests and its frames. *)
THEOREM CouplingInvariant == CouplingSpec => []CouplingInv
BY InitCouplingInv, CouplingStep, PTL DEF CouplingSpec

(* Whatever tags are waved, replies come in and races change, a number is  *)
(* only saved for the tag that was on the card when it was typed.          *)
THEOREM CouplesAlwaysWhatWasTyped == CouplingSpec => []CouplesWhatWasTyped
<1>1. CouplingInv => CouplesWhatWasTyped
  BY DEF CouplingInv, Cards, Requests, Typed, CouplesWhatWasTyped
<1> QED BY <1>1, CouplingInvariant, PTL

(* The tags of the panel are of the race it has heard of, but for those    *)
(* whose tag_seen was sent in the middle of a switch (between the change   *)
(* of the race in memory and its announcement, or looked up before and     *)
(* sent after), and unless the stream was down at a switch.                *)
THEOREM TagsAlwaysOfThisRace == CouplingSpec => []TagsOfThisRace
<1>1. CouplingInv => TagsOfThisRace
  <2> SUFFICES ASSUME CouplingInv, panel.on, ~history.gap,
                      NEW waved \in ToSet(panel.queue) \cup ({panel.armed} \ {None})
               PROVE  Fits(waved, history)
    BY DEF TagsOfThisRace, Fits
  <2>1. OfRace(panel, history)
    BY DEF CouplingInv, Cards
  <2> QED BY <2>1 DEF OfRace, ToSet
<1> QED BY <1>1, CouplingInvariant, PTL
------------------------------------------------------------------------------
(* The loop.  While its request is awaited it saves; the number in the     *)
(* request is the current one, or has been skipped; and a number handed    *)
(* out is none of those left, but for the one whose reply is to come.      *)
LoopInv ==
  /\ panel.auto \subseteq DOMAIN Numbers
  /\ panel.autoSaving \in BOOLEAN
  /\ posts["loop"] # None => panel.autoSaving

CurrentFirst ==
  posts["loop"] # None =>
    \A i \in panel.auto : Numbers[i] = posts["loop"].bib => \A j \in panel.auto : i <= j

GivenIsGone ==
  /\ \A g \in history.given, i \in panel.auto : Numbers[i] = g[2] =>
       panel.autoSaving /\ posts["loop"].state = "stored" /\ posts["loop"].bib = g[2]
  /\ \A g \in history.given :
       posts["loop"] # None /\ posts["loop"].state = "sent" => g[2] # posts["loop"].bib
  /\ \A g, h \in history.given : g[2] = h[2] => g = h

NumbersInv == LoopInv /\ (~history.lost => CurrentFirst /\ GivenIsGone)

(* A change of the panel that hands out nothing.                           *)
LeavesLoop(p, q) == q.auto \subseteq p.auto /\ q.autoSaving = p.autoSaving

LEMMA NumbersStay ==
  ASSUME NumbersInv, LeavesLoop(panel, panel'), posts'["loop"] = posts["loop"],
         history'.given = history.given, history'.lost = history.lost
  PROVE  NumbersInv'
BY DEF NumbersInv, LoopInv, CurrentFirst, GivenIsGone, LeavesLoop

LEMMA LeavesOn ==
  ASSUME NEW p, NEW q, NEW r, LeavesLoop(p, q), LeavesLoop(q, r) PROVE LeavesLoop(p, r)
BY DEF LeavesLoop

LEMMA LeavesNothing == ASSUME NEW p PROVE LeavesLoop(p, p)
BY DEF LeavesLoop

LEMMA ToIdleLeaves == ASSUME NEW p, Shaped(p) PROVE LeavesLoop(p, ToIdle(p))
BY DEF LeavesLoop, Shaped, ToIdle, Fields

LEMMA ArmLeaves ==
  ASSUME NEW p, Shaped(p), NEW waved, NEW bib PROVE LeavesLoop(p, Arm(p, waved, bib))
BY DEF LeavesLoop, Shaped, Arm, Fields

LEMMA QueueLeaves ==
  ASSUME NEW p, Shaped(p), NEW queue, Sequence(queue)
  PROVE  Shaped([p EXCEPT !.queue = queue]) /\ LeavesLoop(p, [p EXCEPT !.queue = queue])
BY DEF LeavesLoop, Shaped, Fields

LEMMA PopLeaves == ASSUME NEW p, Shaped(p), NEW known PROVE LeavesLoop(p, Pop(p, known))
<1> DEFINE waiting == {i \in DOMAIN p.queue : p.queue[i].tag \notin known}
           next    == CHOOSE i \in waiting : \A j \in waiting : i <= j
<1>1. CASE waiting = {}
  <2>1. Pop(p, known) = ToIdle([p EXCEPT !.queue = <<>>])
    BY <1>1 DEF Pop
  <2> QED BY <2>1, EmptySequence, QueueLeaves, ToIdleLeaves, LeavesOn
<1>2. CASE waiting # {}
  <2>1. waiting \subseteq DOMAIN p.queue /\ waiting \in SUBSET Nat
    BY OwnElements DEF Shaped, Sequence
  <2>2. \E i \in waiting : \A j \in waiting : i <= j
    BY <1>2, <2>1, Least
  <2>3. next \in Nat
    BY <2>1, <2>2
  <2>4. PICK queue : queue = SubSeq(p.queue, next + 1, Len(p.queue))
    OBVIOUS
  <2>5. Sequence(queue)
    BY <2>3, <2>4, Cut DEF Shaped
  <2>6. Pop(p, known) = Arm([p EXCEPT !.queue = queue], p.queue[next], None)
    BY <1>2, <2>4 DEF Pop
  <2> HIDE DEF next
  <2> QED BY <2>5, <2>6, QueueLeaves, ArmLeaves, LeavesOn
<1> QED BY <1>1, <1>2

LEMMA LoopShrinks ==
  ASSUME NEW p, Shaped(p), NEW left, left \subseteq p.auto
  PROVE  /\ Shaped([p EXCEPT !.auto = left]) /\ LeavesLoop(p, [p EXCEPT !.auto = left])
         /\ [p EXCEPT !.auto = left].auto = left
BY DEF LeavesLoop, Shaped, Fields

LEMMA AutoStopLeaves ==
  ASSUME NEW p, Shaped(p) PROVE LeavesLoop(p, AutoStop(p)) /\ AutoStop(p).auto = {}
<1>1. PICK q : q = [p EXCEPT !.auto = {}]
  OBVIOUS
<1>2. Shaped(q) /\ LeavesLoop(p, q) /\ q.auto = {}
  BY <1>1, LoopShrinks
<1>3. LeavesLoop(q, ToIdle(q))
  BY <1>2, ToIdleLeaves
<1>4. AutoStop(p) = ToIdle(q) \/ AutoStop(p) = q
  BY <1>1 DEF AutoStop
<1> QED BY <1>2, <1>3, <1>4, LeavesOn DEF LeavesLoop

(* The number that was current is none of those left after it.             *)
LEMMA AutoAdvanceLeaves ==
  ASSUME NEW p, Shaped(p)
  PROVE  /\ LeavesLoop(p, AutoAdvance(p))
         /\ \A i \in AutoAdvance(p).auto : \E j \in p.auto : j < i
<1>1. PICK later : later = {i \in p.auto : \E j \in p.auto : j < i}
  OBVIOUS
<1>2. CASE later # {}
  <2>1. AutoAdvance(p) = [p EXCEPT !.auto = later]
    BY <1>1, <1>2 DEF AutoAdvance
  <2>2. later \subseteq p.auto
    BY <1>1
  <2> QED BY <1>1, <2>1, <2>2, LoopShrinks
<1>3. CASE later = {}
  BY <1>1, <1>3, AutoStopLeaves DEF AutoAdvance
<1> QED BY <1>2, <1>3

LEMMA TagSeenLeaves ==
  ASSUME NEW p, Shaped(p), NEW frame PROVE LeavesLoop(p, TagSeen(p, frame))
<1> DEFINE waved == [tag |-> frame.tag, race |-> frame.race]
<1>1. LeavesLoop(p, [p EXCEPT !.phase = "info", !.info = frame])
  BY DEF LeavesLoop, Shaped, Fields
<1>2. LeavesLoop(p, Queued(p, waved))
  <2>1. Sequence(Append(p.queue, waved))
    BY Appended DEF Shaped
  <2> QED BY <2>1, QueueLeaves, LeavesNothing DEF Queued
<1>3. LeavesLoop(p, Arm(p, waved, None))
  BY ArmLeaves
<1> HIDE DEF waved
<1>4. \/ TagSeen(p, frame) = p \/ TagSeen(p, frame) = Queued(p, waved)
      \/ TagSeen(p, frame) = [p EXCEPT !.phase = "info", !.info = frame]
      \/ TagSeen(p, frame) = Arm(p, waved, None)
  BY DEF TagSeen, waved
<1> QED BY <1>1, <1>2, <1>3, <1>4, LeavesNothing
------------------------------------------------------------------------------
LEMMA InitNumbersInv == CouplingInit => NumbersInv
<1> SUFFICES ASSUME CouplingInit PROVE NumbersInv
  OBVIOUS
<1>1. posts["loop"] = None /\ panel = Fresh /\ history.given = {}
  BY DEF CouplingInit, Who
<1> QED BY <1>1 DEF NumbersInv, LoopInv, CurrentFirst, GivenIsGone, Fresh

LEMMA CurrentIsLeft ==
  ASSUME NumbersInv, Running
  PROVE  \E i \in panel.auto : Current(panel) = Numbers[i] /\ \A j \in panel.auto : i <= j
<1>1. panel.auto \in SUBSET Nat /\ panel.auto # {}
  BY NumbersAssumption DEF NumbersInv, LoopInv, Running
<1> QED BY <1>1, Least DEF Current

(* The loop hands out its current number. *)
LEMMA HandsOut ==
  ASSUME CouplingInv, NumbersInv, Running, UNCHANGED history,
         NEW frame, AutoTagSeen(frame)
  PROVE  NumbersInv'
<1>1. CASE UNCHANGED <<panel, posts>>
  BY <1>1, NumbersStay, LeavesNothing
<1>2. CASE ~UNCHANGED <<panel, posts>>
  <2>1. /\ ~panel.autoSaving /\ panel' = [panel EXCEPT !.autoSaving = TRUE]
        /\ posts' = [posts EXCEPT !["loop"] =
                       [tag |-> frame.tag, bib |-> Current(panel), typedFor |-> frame.tag,
                        state |-> "sent"]]
    BY <1>2 DEF AutoTagSeen, AutoFree
  <2>2. panel'.autoSaving = TRUE /\ panel'.auto = panel.auto
    BY <2>1 DEF CouplingInv, Cards, Shaped, Fields
  <2>3. posts'["loop"].bib = Current(panel) /\ posts'["loop"].state = "sent"
    BY <2>1 DEF CouplingInv, Requests, Who, Deletions
  <2>4. PICK i \in panel.auto : Current(panel) = Numbers[i] /\ \A j \in panel.auto : i <= j
    BY CurrentIsLeft
  <2>5. LoopInv'
    BY <2>2 DEF NumbersInv, LoopInv
  <2>6. CurrentFirst'
    <3>1. \A k \in panel.auto : Numbers[k] = Numbers[i] => k = i
      BY NumbersAssumption DEF NumbersInv, LoopInv
    <3> QED BY <2>2, <2>3, <2>4, <3>1 DEF CurrentFirst
  <2>7. ASSUME ~history.lost PROVE GivenIsGone'
    <3>1. \A g \in history.given : \A k \in panel.auto : Numbers[k] # g[2]
      BY <2>1, <2>7 DEF NumbersInv, GivenIsGone
    <3>2. \A g \in history.given : g[2] # Current(panel)
      BY <2>4, <3>1
    <3>3. \A g, h \in history.given : g[2] = h[2] => g = h
      BY <2>7 DEF NumbersInv, GivenIsGone
    <3> QED BY <2>2, <2>3, <3>1, <3>2, <3>3 DEF GivenIsGone
  <2> QED BY <2>5, <2>6, <2>7 DEF NumbersInv
<1> QED BY <1>1, <1>2

LEMMA FrameLeaves ==
  ASSUME CouplingInv, NumbersInv, OnMessageOfPanel PROVE NumbersInv'
<1> USE DEF CouplingInv, Cards
<1>1. CASE OnTagSeen(Head(feed))
  <2>1. CASE UNCHANGED posts /\ (UNCHANGED panel \/ panel' = TagSeen(panel, Head(feed)))
    BY <1>1, <2>1, TagSeenLeaves, LeavesNothing, NumbersStay DEF OnTagSeen
  <2>2. CASE Running /\ AutoTagSeen(Head(feed))
    BY <1>1, <2>2, HandsOut DEF OnTagSeen
  <2> QED BY <1>1, <2>1, <2>2 DEF OnTagSeen
<1>2. ASSUME NEW race, OnRaceChanged(race) PROVE NumbersInv'
  <2>1. PICK q : q = AutoStop(panel)
    OBVIOUS
  <2>2. LeavesLoop(panel, q) /\ Shaped(q)
    BY <2>1, AutoStopLeaves, AutoStopKeeps DEF Keeps
  <2>3. RaceChanged(panel) = ToIdle([q EXCEPT !.queue = <<>>])
    BY <2>1 DEF RaceChanged
  <2>4. LeavesLoop(panel, RaceChanged(panel))
    BY <2>2, <2>3, EmptySequence, QueueLeaves, ToIdleLeaves, LeavesOn
  <2>5. LeavesLoop(panel, panel')
    BY <1>2, <2>4, LeavesNothing DEF OnRaceChanged
  <2>6. history'.given = history.given /\ history'.lost = history.lost
    BY <1>2 DEF OnRaceChanged
  <2> QED BY <1>2, <2>5, <2>6, NumbersStay DEF OnRaceChanged
<1> QED BY <1>1, <1>2 DEF OnMessageOfPanel

(* The operator's keys that leave the requests and what was handed out.    *)
LEMMA KeysLeave ==
  ASSUME CouplingInv, NumbersInv,
         \/ ModeOn \/ ModeOff \/ Recouple \/ InfoClears \/ Skip \/ AutoStopped
         \/ \E b \in Bibs : Type(b)
  PROVE  NumbersInv'
<1> USE DEF CouplingInv, Cards
<1>1. UNCHANGED posts
  BY DEF ModeOn, ModeOff, Recouple, InfoClears, Skip, AutoStopped, Type
<1>2. history'.given = history.given /\ history'.lost = history.lost
  BY DEF ModeOn, ModeOff, Recouple, InfoClears, Skip, AutoStopped, Type
<1>3. CASE ModeOn
  <2>1. PICK p : p = [panel EXCEPT !.on = TRUE]
    OBVIOUS
  <2>2. Shaped(p) /\ LeavesLoop(panel, p)
    BY <2>1 DEF Shaped, Fields, LeavesLoop
  <2>3. panel' = ToIdle([p EXCEPT !.queue = <<>>])
    BY <1>3, <2>1 DEF ModeOn
  <2> QED BY <1>1, <1>2, <2>2, <2>3, EmptySequence, QueueLeaves, ToIdleLeaves, LeavesOn, NumbersStay
<1>4. CASE ModeOff
  <2>1. PICK q : q = AutoStop(panel)
    OBVIOUS
  <2>2. LeavesLoop(panel, q) /\ Shaped(q)
    BY <2>1, AutoStopLeaves, AutoStopKeeps DEF Keeps
  <2>3. PICK p : p = [q EXCEPT !.on = FALSE]
    OBVIOUS
  <2>4. Shaped(p) /\ LeavesLoop(q, p)
    BY <2>2, <2>3 DEF Shaped, Fields, LeavesLoop
  <2>5. panel' = ToIdle([p EXCEPT !.queue = <<>>])
    BY <1>4, <2>1, <2>3 DEF ModeOff
  <2> QED BY <1>1, <1>2, <2>2, <2>4, <2>5, EmptySequence, QueueLeaves, ToIdleLeaves, LeavesOn,
             NumbersStay
<1>5. CASE \E b \in Bibs : Type(b)
  <2>1. LeavesLoop(panel, panel')
    BY <1>5 DEF Type, LeavesLoop, Shaped, Fields
  <2> QED BY <1>1, <1>2, <2>1, NumbersStay
<1>6. CASE Recouple \/ InfoClears
  BY <1>1, <1>2, <1>6, ArmLeaves, ToIdleLeaves, NumbersStay DEF Recouple, InfoClears
<1>7. CASE Skip \/ AutoStopped
  BY <1>1, <1>2, <1>7, AutoAdvanceLeaves, AutoStopLeaves, PopLeaves, LeavesNothing, NumbersStay
     DEF Skip, AutoStopped
<1> QED BY <1>3, <1>4, <1>5, <1>6, <1>7

LEMMA AutoStartLeaves == ASSUME CouplingInv, NumbersInv, AutoStart PROVE NumbersInv'
<1>1. PICK free : /\ free \subseteq DOMAIN Numbers
                  /\ panel' = [panel EXCEPT !.auto = free, !.phase = "auto", !.armed = None,
                                            !.info = None, !.confirm = None]
  BY DEF AutoStart
<1>2. panel'.auto \subseteq DOMAIN Numbers /\ panel'.autoSaving = panel.autoSaving
  BY <1>1 DEF CouplingInv, Cards, Shaped, Fields
<1>3. UNCHANGED posts /\ history'.given = {} /\ (~history'.lost => posts["loop"] = None)
  BY DEF AutoStart, CouplingInv, Cards
<1> QED BY <1>2, <1>3 DEF NumbersInv, LoopInv, CurrentFirst, GivenIsGone

(* A request of the operator is none of the loop's. *)
LEMMA OthersLeave ==
  ASSUME CouplingInv, NEW w \in Who, w # "loop", NEW post, posts' = [posts EXCEPT ![w] = post]
  PROVE  posts'["loop"] = posts["loop"]
BY DEF CouplingInv, Requests, Who, Deletions

LEMMA SaveDeleteLeave ==
  ASSUME CouplingInv, NumbersInv, Save \/ Delete PROVE NumbersInv'
<1>1. LeavesLoop(panel, panel')
  BY LeavesNothing DEF Save, Delete, LeavesLoop, CouplingInv, Cards, Shaped, Fields
<1>2. posts'["loop"] = posts["loop"]
  BY OthersLeave DEF Save, Delete, Who, Deletions
<1> QED BY <1>1, <1>2, NumbersStay DEF Save, Delete
------------------------------------------------------------------------------
(* The replies, the loop's first. *)
LEMMA StoredLeaves ==
  ASSUME CouplingInv, NumbersInv, posts["loop"] # None, posts["loop"].state = "stored",
         Stored("loop"), posts' = [posts EXCEPT !["loop"] = None], UNCHANGED history
  PROVE  NumbersInv'
<1>1. PICK p : p = [panel EXCEPT !.autoSaving = FALSE] /\ panel' = AutoAdvance(p)
  BY DEF Stored
<1>2. Shaped(p) /\ p.auto = panel.auto /\ p.autoSaving = FALSE
  BY <1>1 DEF CouplingInv, Cards, Shaped, Fields
<1>3. /\ panel'.auto \subseteq panel.auto /\ panel'.autoSaving = FALSE
      /\ \A i \in panel'.auto : \E j \in panel.auto : j < i
  BY <1>1, <1>2, AutoAdvanceLeaves DEF LeavesLoop
<1>4. posts'["loop"] = None
  BY DEF CouplingInv, Requests, Who, Deletions
<1>5. LoopInv'
  BY <1>3, <1>4 DEF NumbersInv, LoopInv
<1>6. ASSUME ~history.lost, NEW g \in history.given, NEW i \in panel'.auto PROVE Numbers[i] # g[2]
  <2>1. Numbers[i] # posts["loop"].bib
    <3>1. PICK j \in panel.auto : j < i
      BY <1>3, <1>6
    <3>2. i \in Nat /\ j \in Nat
      BY <1>3, <1>6, NumbersAssumption DEF NumbersInv, LoopInv
    <3> QED BY <1>3, <1>6, <3>1, <3>2 DEF NumbersInv, CurrentFirst
  <2> QED BY <1>3, <1>6, <2>1 DEF NumbersInv, GivenIsGone
<1>7. ~history.lost => CurrentFirst' /\ GivenIsGone'
  BY <1>4, <1>6 DEF NumbersInv, CurrentFirst, GivenIsGone
<1> QED BY <1>5, <1>7 DEF NumbersInv

(* A reply is lost, or says no: the number was not handed out, or the      *)
(* history says that nobody knows.                                         *)
LEMMA FailedLeaves ==
  ASSUME CouplingInv, NumbersInv, posts["loop"] # None,
         posts["loop"].state # "stored" \/ history'.lost,
         Failed("loop"), posts' = [posts EXCEPT !["loop"] = None],
         history'.given = history.given, history.lost => history'.lost
  PROVE  NumbersInv'
<1>1. panel'.auto = panel.auto /\ panel'.autoSaving = FALSE
  BY DEF Failed, CouplingInv, Cards, Shaped, Fields
<1>2. posts'["loop"] = None
  BY DEF CouplingInv, Requests, Who, Deletions
<1>3. LoopInv'
  BY <1>1, <1>2 DEF NumbersInv, LoopInv
<1>4. ~history'.lost => CurrentFirst' /\ GivenIsGone'
  BY <1>1, <1>2 DEF NumbersInv, CurrentFirst, GivenIsGone
<1> QED BY <1>3, <1>4 DEF NumbersInv

(* The replies to the operator. *)
LEMMA FailedElse ==
  ASSUME CouplingInv, NumbersInv, NEW w, w # "loop", Failed(w) PROVE LeavesLoop(panel, panel')
BY DEF Failed, LeavesLoop, NumbersInv, LoopInv, CouplingInv, Cards, Shaped, Fields

LEMMA StoredElse ==
  ASSUME CouplingInv, NumbersInv, Stored("operator") PROVE LeavesLoop(panel, panel')
<1>1. PICK p, known : p = [panel EXCEPT !.saving = FALSE] /\ panel' = Pop(p, known)
  BY DEF Stored
<1>2. Shaped(p) /\ LeavesLoop(panel, p)
  BY <1>1 DEF LeavesLoop, CouplingInv, Cards, Shaped, Fields
<1> QED BY <1>1, <1>2, PopLeaves, LeavesOn

LEMMA ReplyLeaves ==
  ASSUME CouplingInv, NumbersInv, NEW w \in Who, Reply(w) PROVE NumbersInv'
<1>1. /\ posts[w] # None /\ posts' = [posts EXCEPT ![w] = None] /\ UNCHANGED history
      /\ \/ posts[w].state = "stored" /\ w \in Deletions /\ Deleted
         \/ posts[w].state = "stored" /\ w \notin Deletions /\ Stored(w)
         \/ posts[w].state = "refused" /\ Failed(w)
  BY DEF Reply
<1>2. CASE w = "loop"
  <2>1. w \notin Deletions
    BY <1>2 DEF Deletions
  <2>2. CASE posts[w].state = "stored" /\ Stored(w)
    BY <1>1, <1>2, <2>2, StoredLeaves
  <2>3. CASE posts[w].state = "refused" /\ Failed(w)
    BY <1>1, <1>2, <2>3, FailedLeaves
  <2> QED BY <1>1, <2>1, <2>2, <2>3
<1>3. CASE w # "loop"
  <2>1. posts'["loop"] = posts["loop"]
    BY <1>1, <1>3, OthersLeave
  <2>2. Deleted => LeavesLoop(panel, panel')
    BY ToIdleLeaves DEF Deleted, CouplingInv, Cards
  <2>3. LeavesLoop(panel, panel')
    BY <1>1, <1>3, <2>2, FailedElse, StoredElse DEF Who, Deletions
  <2> QED BY <1>1, <2>1, <2>3, NumbersStay
<1> QED BY <1>2, <1>3

LEMMA LostLeaves ==
  ASSUME CouplingInv, NumbersInv, NEW w \in Who, Lost(w) PROVE NumbersInv'
<1>1. /\ posts[w] # None /\ posts' = [posts EXCEPT ![w] = None] /\ Failed(w)
      /\ history' = [history EXCEPT !.lost = @ \/ w = "loop"]
  BY DEF Lost
<1>2. history'.given = history.given /\ history'.lost = (history.lost \/ w = "loop")
  BY <1>1 DEF CouplingInv, Cards
<1>3. CASE w = "loop"
  BY <1>1, <1>2, <1>3, FailedLeaves
<1>4. CASE w # "loop"
  <2>1. posts'["loop"] = posts["loop"] /\ LeavesLoop(panel, panel')
    BY <1>1, <1>4, OthersLeave, FailedElse
  <2> QED BY <1>2, <1>4, <2>1 DEF NumbersInv, LoopInv, CurrentFirst, GivenIsGone, LeavesLoop
<1> QED BY <1>3, <1>4

(* The backend takes a request: the loop's number is handed out. *)
LEMMA PostRiderLeaves ==
  ASSUME CouplingInv, NumbersInv, NEW w \in Who, PostRider(w) PROVE NumbersInv'
<1>1. /\ posts[w] # None /\ posts[w].state = "sent"
      /\ posts' = [posts EXCEPT ![w].state = "stored"] /\ UNCHANGED panel
  BY DEF PostRider
<1>2. CASE w = "loop"
  <2> DEFINE new == <<serving.race, posts["loop"].bib, posts["loop"].tag>>
  <2>1. history' = [history EXCEPT !.given = @ \cup {new}] /\ new[2] = posts["loop"].bib
    BY <1>2 DEF PostRider
  <2> HIDE DEF new
  <2>2. history'.given = history.given \cup {new} /\ history'.lost = history.lost
    BY <2>1 DEF CouplingInv, Cards
  <2>3. posts'["loop"].state = "stored" /\ posts'["loop"].bib = posts["loop"].bib
    BY <1>1, <1>2 DEF CouplingInv, Requests
  <2>4. panel.autoSaving
    BY <1>1, <1>2 DEF NumbersInv, LoopInv
  <2>5. LoopInv'
    BY <1>1, <2>4 DEF NumbersInv, LoopInv
  <2>6. ASSUME ~history.lost PROVE CurrentFirst' /\ GivenIsGone'
    <3>1. CurrentFirst'
      BY <1>1, <1>2, <2>3, <2>6 DEF NumbersInv, CurrentFirst
    <3>2. \A g \in history.given : g[2] # new[2] /\ \A i \in panel.auto : Numbers[i] # g[2]
      BY <1>1, <1>2, <2>1, <2>6 DEF NumbersInv, GivenIsGone
    <3>3. \A g, h \in history'.given : g[2] = h[2] => g = h
      BY <2>2, <2>6, <3>2 DEF NumbersInv, GivenIsGone
    <3> QED BY <1>1, <2>1, <2>2, <2>3, <2>4, <3>1, <3>2, <3>3 DEF GivenIsGone
  <2> QED BY <2>2, <2>5, <2>6 DEF NumbersInv
<1>3. CASE w # "loop"
  <2>1. posts'["loop"] = posts["loop"] /\ UNCHANGED history
    BY <1>1, <1>3 DEF PostRider, CouplingInv, Requests, Who, Deletions
  <2> QED BY <1>1, <2>1, LeavesNothing, NumbersStay
<1> QED BY <1>2, <1>3

LEMMA RefuseLeaves ==
  ASSUME CouplingInv, NumbersInv, NEW w \in Who, Refuse(w) PROVE NumbersInv'
<1>1. /\ posts[w] # None /\ posts[w].state = "sent"
      /\ posts' = [posts EXCEPT ![w].state = "refused"] /\ UNCHANGED <<panel, history>>
  BY DEF Refuse
<1>2. CASE w = "loop"
  <2>1. posts'["loop"].state = "refused" /\ posts'["loop"].bib = posts["loop"].bib
    BY <1>1, <1>2 DEF CouplingInv, Requests
  <2> QED BY <1>1, <1>2, <2>1 DEF NumbersInv, LoopInv, CurrentFirst, GivenIsGone
<1>3. CASE w # "loop"
  <2>1. posts'["loop"] = posts["loop"]
    BY <1>1, <1>3 DEF CouplingInv, Requests, Who, Deletions
  <2> QED BY <1>1, <2>1, LeavesNothing, NumbersStay
<1> QED BY <1>2, <1>3

LEMMA NumbersStep ==
  CouplingInv /\ NumbersInv /\ [CouplingNext]_coupleVars => NumbersInv'
<1> SUFFICES ASSUME CouplingInv, NumbersInv, [CouplingNext]_coupleVars PROVE NumbersInv'
  OBVIOUS
<1>1. CASE OnMessageOfPanel
  BY <1>1, FrameLeaves
<1>2. CASE \/ ModeOn \/ ModeOff \/ Recouple \/ InfoClears \/ Skip \/ AutoStopped
           \/ \E b \in Bibs : Type(b)
  BY <1>2, KeysLeave
<1>3. CASE Save \/ Delete \/ AutoStart
  BY <1>3, SaveDeleteLeave, AutoStartLeaves
<1>4. CASE \/ PullAnswered \/ PullFails \/ GetRiders \/ Gap \/ UNCHANGED coupleVars
           \/ PublishSwitch \/ (\E t \in Tags : LookUp(t)) \/ (\E r \in Races : SwitchRace(r))
  <2>1. UNCHANGED <<panel, posts>>
    BY <1>4 DEF PullAnswered, PullFails, GetRiders, Gap, coupleVars, LookUp, SwitchRace,
          PublishSwitch
  <2>2. \/ UNCHANGED history
        \/ history' = [history EXCEPT !.gap = @ \/ \E i \in DOMAIN feed : "switched" \in DOMAIN feed[i]]
    BY <1>4 DEF PullAnswered, PullFails, GetRiders, Gap, coupleVars, LookUp, SwitchRace,
          PublishSwitch
  <2>3. PICK gap : history' = [history EXCEPT !.gap = gap] \/ UNCHANGED history
    BY <2>2
  <2>4. history'.given = history.given /\ history'.lost = history.lost
    BY <2>3 DEF CouplingInv, Cards
  <2> QED BY <2>1, <2>4, LeavesNothing, NumbersStay
<1>5. CASE \E w \in Who : PostRider(w) \/ Refuse(w) \/ Reply(w) \/ Lost(w)
  <2> PICK w \in Who : PostRider(w) \/ Refuse(w) \/ Reply(w) \/ Lost(w)
    BY <1>5
  <2>1. CASE PostRider(w)  BY <2>1, PostRiderLeaves
  <2>2. CASE Refuse(w)     BY <2>2, RefuseLeaves
  <2>3. CASE Reply(w)      BY <2>3, ReplyLeaves
  <2>4. CASE Lost(w)       BY <2>4, LostLeaves
  <2> QED BY <2>1, <2>2, <2>3, <2>4
<1>6. CASE PublishSeen
  <2>1. UNCHANGED <<panel, posts>> /\ \E strays : history' \in {history, [history EXCEPT !.strays = strays]}
    BY <1>6 DEF PublishSeen
  <2>2. history'.given = history.given /\ history'.lost = history.lost
    BY <2>1 DEF CouplingInv, Cards
  <2> QED BY <2>1, <2>2, LeavesNothing, NumbersStay
<1> QED BY <1>1, <1>2, <1>3, <1>4, <1>5, <1>6 DEF CouplingNext

(* However the loop is skipped and interrupted, it hands out no number of  *)
(* a race twice, unless a reply is lost or one of an earlier loop is still *)
(* to come (onCoupleAutoTagSeen, coupleAutoAdvance).                       *)
THEOREM NumbersAlwaysGoOnce == CouplingSpec => []NumbersGoOnce
<1>1. CouplingInit => NumbersInv
  BY InitNumbersInv
<1>2. NumbersInv => NumbersGoOnce
  BY DEF NumbersInv, GivenIsGone, NumbersGoOnce
<1>3. CouplingInv /\ CouplingInv' /\ NumbersInv /\ [CouplingNext]_coupleVars => NumbersInv'
  BY NumbersStep
<1> QED BY <1>1, <1>2, <1>3, CouplingInvariant, PTL DEF CouplingSpec
------------------------------------------------------------------------------
(* The stream of standings. *)

(* What carries standings carries none that are newer than the backend's.  *)
FramesTo(n) == [kind : {"standings"}, at : 0..n] \cup [kind : {"reload"}]
StepsTo(n)  == [pc : {"idle"}] \cup [pc : {"changed"}, kind : {"standings", "reload"}]
               \cup [pc : {"built"}, at : 0..n]
AsksTo(n)   == [since : 0..n, then : BOOLEAN]

StreamShape ==
  /\ version \in Versions
  /\ thread \in [Threads -> StepsTo(version)]
  /\ net \in [Browsers -> [Attempts -> NetSteps]]
  /\ wire \in [Browsers -> [Attempts -> Seq(FramesTo(version))]]
  /\ finished \in [Browsers -> [Attempts -> BOOLEAN]]
  /\ asks \in [Browsers -> Seq(AsksTo(version))]
  /\ newest \in [Browsers -> 0..version] /\ missed \in [Browsers -> BOOLEAN]

(* A browser has a stream, or a retry to come, or neither. *)
Single ==
  \A b \in Browsers :
    /\ timers \in [Browsers -> Nat] /\ timers[b] \in {0, 1}
    /\ timers[b] = 1 => \A a \in Attempts : ~Live(b, a)
    /\ \A a, c \in Attempts : Live(b, a) /\ Live(b, c) => a = c

(* Somebody brings the newest standings to an attempt of a browser. *)
Brought(b, a) ==
  \/ newest[b] = version
  \/ \E t \in Threads : thread[t].pc = "changed" \/ (thread[t].pc = "built" /\ thread[t].at = version)
  \/ \E i \in DOMAIN wire[b][a] : wire[b][a][i].kind = "reload" \/ wire[b][a][i].at = version
  \/ \E i \in DOMAIN asks[b] : asks[b][i].since = version

Loaded(b, a) == net[b][a] = "open" /\ ~finished[b][a] /\ ~missed[b]

Complete == \A b \in Browsers, a \in Attempts : Loaded(b, a) => Brought(b, a)

StreamInv == StreamShape /\ Single /\ Complete
------------------------------------------------------------------------------
LEMMA Without ==
  ASSUME NEW S, NEW s \in Seq(S), NEW i \in DOMAIN s
  PROVE  /\ RemoveAt(s, i) \in Seq(S)
         /\ \A j \in DOMAIN s : j # i => \E k \in DOMAIN RemoveAt(s, i) : RemoveAt(s, i)[k] = s[j]
<1> DEFINE left == SubSeq(s, 1, i - 1)
           right == SubSeq(s, i + 1, Len(s))
<1>1. i \in 1..Len(s) /\ Len(s) \in Nat
  OBVIOUS
<1>2. left \in Seq(S) /\ Len(left) = i - 1 /\ \A j \in 1..(i - 1) : left[j] = s[j]
  BY <1>1
<1>3. /\ right \in Seq(S) /\ Len(right) = Len(s) - i
      /\ \A j \in 1..(Len(s) - i) : right[j] = s[i + j]
  BY <1>1
<1>4. RemoveAt(s, i) = left \o right
  BY DEF RemoveAt
<1> HIDE DEF left, right
<1>5. left \o right \in Seq(S) /\ Len(left \o right) = Len(left) + Len(right)
  <2>1. \A p, q \in Seq(S) : p \o q \in Seq(S) /\ Len(p \o q) = Len(p) + Len(q)
    OBVIOUS
  <2> QED BY <1>2, <1>3, <2>1
<1>6. ASSUME NEW j \in DOMAIN s, j # i
      PROVE  \E k \in DOMAIN (left \o right) : (left \o right)[k] = s[j]
  <2>1. CASE j < i
    <3>1. j \in 1..Len(left) /\ j \in DOMAIN (left \o right)
      BY <1>1, <1>2, <1>3, <1>5, <2>1
    <3>2. (left \o right)[j] = left[j]
      BY <1>2, <1>3, <3>1
    <3> QED BY <1>1, <1>2, <2>1, <3>1, <3>2
  <2>2. CASE j > i
    <3>1. j - 1 \in DOMAIN (left \o right) /\ j - 1 > Len(left) /\ j - i \in 1..Len(right)
      BY <1>1, <1>2, <1>3, <1>5, <2>2
    <3>2. (left \o right)[j - 1] = right[(j - 1) - Len(left)]
      BY <1>2, <1>3, <3>1
    <3>3. (j - 1) - Len(left) = j - i /\ i + (j - i) = j
      BY <1>1, <1>2
    <3> QED BY <1>1, <1>3, <3>1, <3>2, <3>3
  <2> QED BY <1>1, <1>6, <2>1, <2>2
<1> QED BY <1>4, <1>5, <1>6

LEMMA PutLast ==
  ASSUME NEW S, NEW s \in Seq(S), NEW e \in S
  PROVE  /\ Append(s, e) \in Seq(S) /\ Len(s) + 1 \in DOMAIN Append(s, e)
         /\ Append(s, e)[Len(s) + 1] = e
         /\ \A i \in DOMAIN s : i \in DOMAIN Append(s, e) /\ Append(s, e)[i] = s[i]
OBVIOUS

LEMMA FirstTaken ==
  ASSUME NEW S, NEW s \in Seq(S), s # <<>>
  PROVE  /\ Tail(s) \in Seq(S) /\ Head(s) = s[1] /\ Head(s) \in S
         /\ \A i \in DOMAIN s : i = 1 \/ (i - 1 \in DOMAIN Tail(s) /\ Tail(s)[i - 1] = s[i])
OBVIOUS

(* The same sequences are ones of newer versions. *)
LEMMA Newer ==
  ASSUME NEW n \in Nat
  PROVE  /\ FramesTo(n) \subseteq FramesTo(n + 1) /\ StepsTo(n) \subseteq StepsTo(n + 1)
         /\ AsksTo(n) \subseteq AsksTo(n + 1)
BY DEF FramesTo, StepsTo, AsksTo
------------------------------------------------------------------------------
LEMMA InitStreamInv == StreamInit => StreamInv
<1> SUFFICES ASSUME StreamInit PROVE StreamInv
  OBVIOUS
<1> USE StreamAssumption
<1>1. StreamShape
  <2>1. <<[since |-> 0, then |-> TRUE]>> \in Seq(AsksTo(0)) /\ <<>> \in Seq(FramesTo(0))
    BY DEF AsksTo
  <2> QED BY <2>1 DEF StreamInit, StreamShape, Versions, NetSteps, StepsTo
<1>2. Single /\ Complete
  BY DEF StreamInit, Single, Complete, Loaded, Live
<1> QED BY <1>1, <1>2 DEF StreamInv

(* What changes neither the retries nor which attempts are live. *)
LEMMA SameAttempts ==
  ASSUME Single, UNCHANGED <<timers, finished>>,
         \A b \in Browsers, a \in Attempts : net[b][a] = "none" <=> net'[b][a] = "none"
  PROVE  Single'
BY DEF Single, Live

LEMMA ChangeStep ==
  ASSUME StreamInv, NEW t \in Threads, NEW kind \in {"standings", "reload"}, Change(t, kind)
  PROVE  StreamInv'
<1> USE StreamAssumption
<1>1. /\ version \in Nat /\ version' = version + 1 /\ version' \in Versions
      /\ thread' = [thread EXCEPT ![t] = [pc |-> "changed", kind |-> kind]]
      /\ UNCHANGED <<net, wire, finished, timers, asks, newest, missed>>
  BY DEF StreamInv, StreamShape, Change, Versions
<1>2. /\ FramesTo(version) \subseteq FramesTo(version') /\ StepsTo(version) \subseteq StepsTo(version')
      /\ AsksTo(version) \subseteq AsksTo(version')
  BY <1>1, Newer
<1>3. StreamShape'
  <2>1. /\ Seq(FramesTo(version)) \subseteq Seq(FramesTo(version'))
        /\ Seq(AsksTo(version)) \subseteq Seq(AsksTo(version'))
    BY <1>2
  <2>2. thread' \in [Threads -> StepsTo(version')]
    <3>1. [pc |-> "changed", kind |-> kind] \in StepsTo(version')
      BY DEF StepsTo
    <3> QED BY <1>1, <1>2, <3>1 DEF StreamInv, StreamShape
  <2>3. wire' \in [Browsers -> [Attempts -> Seq(FramesTo(version'))]]
    BY <1>1, <2>1 DEF StreamInv, StreamShape
  <2>4. asks' \in [Browsers -> Seq(AsksTo(version'))] /\ newest' \in [Browsers -> 0..version']
    BY <1>1, <2>1 DEF StreamInv, StreamShape
  <2> QED BY <1>1, <2>2, <2>3, <2>4 DEF StreamInv, StreamShape
<1>4. Single'
  BY <1>1, SameAttempts DEF StreamInv
<1>5. Complete'
  <2>1. thread'[t].pc = "changed"
    BY <1>1 DEF StreamInv, StreamShape
  <2> QED BY <2>1 DEF Complete, Brought
<1> QED BY <1>3, <1>4, <1>5 DEF StreamInv

LEMMA BuildStep ==
  ASSUME StreamInv, NEW t \in Threads, BuildStandings(t)
  PROVE  StreamInv'
<1>1. /\ thread' = [thread EXCEPT ![t] = [pc |-> "built", at |-> version]]
      /\ UNCHANGED <<version, net, wire, finished, timers, asks, newest, missed>>
  BY DEF BuildStandings
<1>2. StreamShape'
  <2>1. [pc |-> "built", at |-> version] \in StepsTo(version)
    BY StreamAssumption DEF StepsTo, StreamInv, StreamShape, Versions
  <2> QED BY <1>1, <2>1 DEF StreamInv, StreamShape
<1>3. Single'
  BY <1>1, SameAttempts DEF StreamInv
<1>4. Complete'
  <2>1. thread'[t] = [pc |-> "built", at |-> version]
    BY <1>1 DEF StreamInv, StreamShape
  <2>2. thread'[t].pc = "built" /\ thread'[t].at = version'
    BY <1>1, <2>1
  <2> QED BY <2>2 DEF Complete, Brought
<1> QED BY <1>2, <1>3, <1>4 DEF StreamInv

(* The frame of the thread is for every subscriber: one that is open gets it. *)
LEMMA PublishStep ==
  ASSUME StreamInv, NEW t \in Threads, Publish(t)
  PROVE  StreamInv'
<1> DEFINE frame == IF thread[t].pc = "built" THEN [kind |-> "standings", at |-> thread[t].at]
                    ELSE [kind |-> "reload"]
<1>1. /\ thread[t].pc = "built" \/ (thread[t].pc = "changed" /\ thread[t].kind = "reload")
      /\ wire' = [b \in Browsers |-> [a \in Attempts |->
                    IF <<b, a>> \in Subscribers THEN Append(wire[b][a], frame) ELSE wire[b][a]]]
      /\ thread' = [thread EXCEPT ![t] = [pc |-> "idle"]]
      /\ UNCHANGED <<version, net, finished, timers, asks, newest, missed>>
  BY DEF Publish
<1>2. /\ frame \in FramesTo(version)
      /\ thread[t].pc = "changed" => frame.kind = "reload"
      /\ thread[t].pc = "built" => frame.at = thread[t].at
  <2>1. thread[t] \in StepsTo(version)
    BY DEF StreamInv, StreamShape
  <2> QED BY <1>1, <2>1 DEF StepsTo, FramesTo
<1> HIDE DEF frame
<1>3. StreamShape'
  <2>1. wire' \in [Browsers -> [Attempts -> Seq(FramesTo(version))]]
    BY <1>1, <1>2, PutLast DEF StreamInv, StreamShape
  <2>2. thread' \in [Threads -> StepsTo(version)]
    <3>1. [pc |-> "idle"] \in StepsTo(version)
      BY DEF StepsTo
    <3> QED BY <1>1, <3>1 DEF StreamInv, StreamShape
  <2> QED BY <1>1, <2>1, <2>2 DEF StreamInv, StreamShape
<1>4. Single'
  BY <1>1, SameAttempts DEF StreamInv
<1>5. ASSUME NEW b \in Browsers, NEW a \in Attempts, Loaded(b, a)' PROVE Brought(b, a)'
  <2>1. Brought(b, a) /\ <<b, a>> \in Subscribers
    BY <1>1, <1>5 DEF StreamInv, Complete, Loaded, Subscribers
  <2>2. wire[b][a] \in Seq(FramesTo(version)) /\ wire'[b][a] = Append(wire[b][a], frame)
    BY <1>1, <2>1 DEF StreamInv, StreamShape
  <2>3. /\ Len(wire[b][a]) + 1 \in DOMAIN wire'[b][a] /\ wire'[b][a][Len(wire[b][a]) + 1] = frame
        /\ \A i \in DOMAIN wire[b][a] : i \in DOMAIN wire'[b][a] /\ wire'[b][a][i] = wire[b][a][i]
    BY <1>2, <2>2, PutLast
  <2>4. CASE newest[b] = version \/ \E i \in DOMAIN asks[b] : asks[b][i].since = version
    BY <1>1, <2>4 DEF Brought
  <2>5. CASE \E i \in DOMAIN wire[b][a] : wire[b][a][i].kind = "reload" \/ wire[b][a][i].at = version
    BY <1>1, <2>3, <2>5 DEF Brought
  <2>6. CASE \E s \in Threads : thread[s].pc = "changed" \/ (thread[s].pc = "built" /\ thread[s].at = version)
    <3> PICK s \in Threads : thread[s].pc = "changed" \/ (thread[s].pc = "built" /\ thread[s].at = version)
      BY <2>6
    <3>1. CASE s = t
      BY <1>1, <1>2, <2>3, <3>1 DEF Brought
    <3>2. CASE s # t
      <4>1. thread'[s] = thread[s]
        BY <1>1, <3>2 DEF StreamInv, StreamShape
      <4> QED BY <1>1, <4>1 DEF Brought
    <3> QED BY <3>1, <3>2
  <2> QED BY <2>1, <2>4, <2>5, <2>6 DEF Brought
<1> QED BY <1>3, <1>4, <1>5 DEF StreamInv, Complete

(* Nobody has more to bring, and no attempt more to show. *)
LEMMA SameBrought ==
  ASSUME Complete, UNCHANGED <<version, thread, newest, asks>>,
         \A b \in Browsers, a \in Attempts :
           Loaded(b, a)' => Loaded(b, a) /\ UNCHANGED wire[b][a]
  PROVE  Complete'
BY DEF Complete, Brought

LEMMA StreamEventsStep ==
  ASSUME StreamInv, NEW b \in Browsers, NEW a \in Attempts, StreamEvents(b, a)
  PROVE  StreamInv'
<1>1. /\ net[b][a] = "sent" /\ net' = [net EXCEPT ![b][a] = "accepted"]
      /\ wire' = [wire EXCEPT ![b][a] = <<>>]
      /\ UNCHANGED <<version, thread, finished, timers, asks, newest, missed>>
  BY DEF StreamEvents
<1>2. /\ net \in [Browsers -> [Attempts -> NetSteps]]
      /\ wire \in [Browsers -> [Attempts -> Seq(FramesTo(version))]]
  BY DEF StreamInv, StreamShape
<1>3. StreamShape'
  BY <1>1 DEF StreamInv, StreamShape, NetSteps
<1>4. \A c \in Browsers, d \in Attempts :
        /\ net[c][d] = "none" <=> net'[c][d] = "none"
        /\ c # b \/ d # a => net'[c][d] = net[c][d] /\ wire'[c][d] = wire[c][d]
  BY <1>1, <1>2
<1>5. net'[b][a] = "accepted"
  BY <1>1, <1>2
<1>6. Single' /\ Complete'
  BY <1>1, <1>4, <1>5, SameAttempts, SameBrought DEF StreamInv, Loaded
<1> QED BY <1>3, <1>6 DEF StreamInv

LEMMA FaultStep ==
  ASSUME StreamInv, NEW b \in Browsers, NEW a \in Attempts, NEW step \in {"over", "hung"},
         Fault(b, a, step)
  PROVE  StreamInv'
<1>1. /\ net[b][a] # "none" /\ net' = [net EXCEPT ![b][a] = step]
      /\ UNCHANGED <<version, thread, wire, finished, timers, asks, newest, missed>>
  BY DEF Fault
<1>2. net \in [Browsers -> [Attempts -> NetSteps]]
  BY DEF StreamInv, StreamShape
<1>3. StreamShape'
  BY <1>1 DEF StreamInv, StreamShape, NetSteps
<1>4. \A c \in Browsers, d \in Attempts :
        /\ net[c][d] = "none" <=> net'[c][d] = "none"
        /\ net'[c][d] = "open" => net[c][d] = "open"
  BY <1>1, <1>2
<1>5. Single' /\ Complete'
  BY <1>1, <1>4, SameAttempts, SameBrought DEF StreamInv, Loaded
<1> QED BY <1>3, <1>5 DEF StreamInv

LEMMA RestartStep == ASSUME StreamInv, Restart PROVE StreamInv'
<1>1. /\ net' = [b \in Browsers |-> [a \in Attempts |->
                   IF net[b][a] \in {"sent", "accepted", "open"} THEN "over" ELSE net[b][a]]]
      /\ thread' = [t \in Threads |-> [pc |-> "idle"]]
      /\ UNCHANGED <<version, wire, finished, timers, asks, newest, missed>>
  BY DEF Restart
<1>2. StreamShape'
  <2>1. [pc |-> "idle"] \in StepsTo(version)
    BY DEF StepsTo
  <2>2. net' \in [Browsers -> [Attempts -> NetSteps]]
    BY <1>1 DEF StreamInv, StreamShape, NetSteps
  <2> QED BY <1>1, <2>1, <2>2 DEF StreamInv, StreamShape
<1>3. \A c \in Browsers, d \in Attempts :
        (net[c][d] = "none" <=> net'[c][d] = "none") /\ net'[c][d] # "open"
  BY <1>1
<1>4. Single' /\ Complete'
  BY <1>1, <1>3, SameAttempts DEF StreamInv, Complete, Loaded
<1> QED BY <1>2, <1>4 DEF StreamInv
------------------------------------------------------------------------------
(* A browser asks: everybody who was to bring something still does. *)
LEMMA AskedKeeps ==
  ASSUME StreamShape, NEW b \in Browsers, NEW then \in BOOLEAN, asks' = Asked(b, then), UNCHANGED version
  PROVE  /\ asks' \in [Browsers -> Seq(AsksTo(version))]
         /\ \E i \in DOMAIN asks'[b] : asks'[b][i].since = version
         /\ \A c \in Browsers : \A i \in DOMAIN asks[c] :
              i \in DOMAIN asks'[c] /\ asks'[c][i] = asks[c][i]
<1> DEFINE ask == [since |-> version, then |-> then]
<1>1. ask \in AsksTo(version) /\ ask.since = version
  BY StreamAssumption DEF AsksTo, StreamShape, Versions
<1>2. asks' = [asks EXCEPT ![b] = Append(@, ask)]
  BY DEF Asked
<1> HIDE DEF ask
<1>3. asks \in [Browsers -> Seq(AsksTo(version))]
  BY DEF StreamShape
<1>4. asks[b] \in Seq(AsksTo(version)) /\ asks'[b] = Append(asks[b], ask)
  BY <1>2, <1>3
<1>5. /\ Append(asks[b], ask) \in Seq(AsksTo(version))
      /\ Len(asks[b]) + 1 \in DOMAIN Append(asks[b], ask)
      /\ Append(asks[b], ask)[Len(asks[b]) + 1] = ask
      /\ \A i \in DOMAIN asks[b] : /\ i \in DOMAIN Append(asks[b], ask)
                                  /\ Append(asks[b], ask)[i] = asks[b][i]
  BY <1>1, <1>4, PutLast
<1>6. \A c \in Browsers : c # b => asks'[c] = asks[c]
  BY <1>2, <1>3
<1>7. asks' \in [Browsers -> Seq(AsksTo(version))]
  BY <1>2, <1>3, <1>5
<1> QED BY <1>1, <1>4, <1>5, <1>6, <1>7

LEMMA ClickStep == ASSUME StreamInv, NEW b \in Browsers, Click(b) PROVE StreamInv'
<1>1. asks' = Asked(b, TRUE) /\ UNCHANGED <<version, thread, net, wire, finished, timers, newest, missed>>
  BY DEF Click
<1>2. /\ asks' \in [Browsers -> Seq(AsksTo(version))]
      /\ \A c \in Browsers : \A i \in DOMAIN asks[c] :
           i \in DOMAIN asks'[c] /\ asks'[c][i] = asks[c][i]
  BY <1>1, AskedKeeps DEF StreamInv
<1>3. StreamShape' /\ Single'
  BY <1>1, <1>2, SameAttempts DEF StreamInv, StreamShape
<1>4. Complete'
  BY <1>1, <1>2 DEF StreamInv, Complete, Loaded, Brought
<1> QED BY <1>3, <1>4 DEF StreamInv

(* The stream opens: what it may lack is asked for. *)
LEMMA OpenedStep ==
  ASSUME StreamInv, NEW b \in Browsers, NEW a \in Attempts, Opened(b, a) PROVE StreamInv'
<1>1. /\ net[b][a] = "accepted" /\ net' = [net EXCEPT ![b][a] = "open"]
      /\ asks' = Asked(b, FALSE) /\ missed' = [missed EXCEPT ![b] = FALSE]
      /\ UNCHANGED <<version, thread, wire, finished, timers, newest>>
  BY DEF Opened, Reload
<1>2. /\ asks' \in [Browsers -> Seq(AsksTo(version))]
      /\ \E i \in DOMAIN asks'[b] : asks'[b][i].since = version
      /\ \A c \in Browsers : \A i \in DOMAIN asks[c] :
           i \in DOMAIN asks'[c] /\ asks'[c][i] = asks[c][i]
  BY <1>1, AskedKeeps DEF StreamInv
<1>3. net \in [Browsers -> [Attempts -> NetSteps]] /\ missed \in [Browsers -> BOOLEAN]
  BY DEF StreamInv, StreamShape
<1>4. StreamShape'
  BY <1>1, <1>2 DEF StreamInv, StreamShape, NetSteps
<1>5. Single'
  BY <1>1, <1>3, SameAttempts DEF StreamInv
<1>6. ASSUME NEW c \in Browsers, NEW d \in Attempts, Loaded(c, d)' PROVE Brought(c, d)'
  <2>1. CASE c = b
    BY <1>1, <1>2, <2>1 DEF Brought
  <2>2. CASE c # b
    <3>1. Loaded(c, d)
      BY <1>1, <1>3, <1>6, <2>2 DEF Loaded
    <3> QED BY <1>1, <1>2, <3>1 DEF StreamInv, Complete, Brought
  <2> QED BY <2>1, <2>2
<1> QED BY <1>4, <1>5, <1>6 DEF StreamInv, Complete

(* A frame is taken: its standings are shown, or it makes the browser ask. *)
LEMMA ReceiveStep ==
  ASSUME StreamInv, NEW b \in Browsers, NEW a \in Attempts, Receive(b, a) PROVE StreamInv'
<1> DEFINE frame == Head(wire[b][a])
<1>1. /\ wire[b][a] # <<>> /\ OnMessage(b, frame)
      /\ wire' = [wire EXCEPT ![b][a] = Tail(@)]
      /\ UNCHANGED <<version, thread, net, finished, timers, missed>>
  BY DEF Receive
<1>2. /\ wire \in [Browsers -> [Attempts -> Seq(FramesTo(version))]]
      /\ wire[b][a] \in Seq(FramesTo(version))
      /\ version \in Nat /\ newest \in [Browsers -> 0..version]
      /\ asks \in [Browsers -> Seq(AsksTo(version))]
  BY StreamAssumption DEF StreamInv, StreamShape, Versions
<1>3. /\ Tail(wire[b][a]) \in Seq(FramesTo(version)) /\ frame = wire[b][a][1]
      /\ frame \in FramesTo(version)
      /\ \A i \in DOMAIN wire[b][a] :
           i = 1 \/ (i - 1 \in DOMAIN Tail(wire[b][a]) /\ Tail(wire[b][a])[i - 1] = wire[b][a][i])
  BY <1>1, <1>2, FirstTaken
<1>4. frame.kind \in {"standings", "reload"} /\ (frame.kind = "standings" => frame.at \in 0..version)
  BY <1>3 DEF FramesTo
<1> HIDE DEF frame
<1>5. /\ asks' \in [Browsers -> Seq(AsksTo(version))]
      /\ frame.kind = "reload" => \E i \in DOMAIN asks'[b] : asks'[b][i].since = version
      /\ \A c \in Browsers : \A i \in DOMAIN asks[c] :
           i \in DOMAIN asks'[c] /\ asks'[c][i] = asks[c][i]
  <2>1. CASE frame.kind = "standings"
    <3>1. UNCHANGED asks /\ frame.kind # "reload"
      BY <1>1, <2>1 DEF OnMessage
    <3> QED BY <1>2, <3>1
  <2>2. CASE frame.kind = "reload"
    <3>1. asks' = Asked(b, FALSE)
      BY <1>1, <2>2 DEF OnMessage
    <3> QED BY <1>1, <3>1, AskedKeeps DEF StreamInv
  <2> QED BY <1>4, <2>1, <2>2
<1>6. /\ newest' \in [Browsers -> 0..version]
      /\ \A c \in Browsers : newest[c] = version => newest'[c] = version
      /\ frame.kind = "standings" /\ frame.at = version => newest'[b] = version
  <2>1. CASE frame.kind = "standings"
    <3>1. newest' = [newest EXCEPT ![b] = IF frame.at > @ THEN frame.at ELSE @]
      BY <1>1, <2>1 DEF OnMessage, Render
    <3> QED BY <1>2, <1>4, <2>1, <3>1
  <2>2. CASE frame.kind = "reload"
    <3>1. UNCHANGED newest /\ frame.kind # "standings"
      BY <1>1, <2>2 DEF OnMessage
    <3> QED BY <1>2, <3>1
  <2> QED BY <1>4, <2>1, <2>2
<1>7. StreamShape'
  <2>1. wire' \in [Browsers -> [Attempts -> Seq(FramesTo(version))]]
    BY <1>1, <1>2, <1>3
  <2> QED BY <1>1, <1>5, <1>6, <2>1 DEF StreamInv, StreamShape
<1>8. Single'
  BY <1>1, SameAttempts DEF StreamInv
<1>9. ASSUME NEW c \in Browsers, NEW d \in Attempts, Loaded(c, d)' PROVE Brought(c, d)'
  <2>1. Brought(c, d)
    BY <1>1, <1>9 DEF StreamInv, Complete, Loaded
  <2>2. CASE newest[c] = version
    BY <1>1, <1>6, <2>2 DEF Brought
  <2>3. CASE \E t \in Threads : thread[t].pc = "changed" \/ (thread[t].pc = "built" /\ thread[t].at = version)
    BY <1>1, <2>3 DEF Brought
  <2>4. CASE \E i \in DOMAIN asks[c] : asks[c][i].since = version
    BY <1>1, <1>5, <2>4 DEF Brought
  <2>5. CASE \E i \in DOMAIN wire[c][d] : wire[c][d][i].kind = "reload" \/ wire[c][d][i].at = version
    <3>1. CASE c = b /\ d = a
      <4>1. wire'[b][a] = Tail(wire[b][a])
        BY <1>1, <1>2
      <4>2. CASE frame.kind = "reload" \/ frame.at = version
        <5>1. frame.kind = "reload" \/ (frame.kind = "standings" /\ frame.at = version)
          BY <1>4, <4>2
        <5> QED BY <1>1, <1>5, <1>6, <3>1, <5>1 DEF Brought
      <4>3. CASE ~(frame.kind = "reload" \/ frame.at = version)
        <5>1. PICK i \in DOMAIN wire[b][a] : i # 1 /\ (wire[b][a][i].kind = "reload" \/ wire[b][a][i].at = version)
          BY <1>3, <2>5, <3>1, <4>3
        <5>2. i - 1 \in DOMAIN wire'[b][a] /\ wire'[b][a][i - 1] = wire[b][a][i]
          BY <1>3, <4>1, <5>1
        <5> QED BY <1>1, <3>1, <5>1, <5>2 DEF Brought
      <4> QED BY <4>2, <4>3
    <3>2. CASE ~(c = b /\ d = a)
      <4>1. wire'[c][d] = wire[c][d]
        BY <1>1, <1>2, <3>2
      <4> QED BY <1>1, <2>5, <4>1 DEF Brought
    <3> QED BY <3>1, <3>2
  <2> QED BY <2>1, <2>2, <2>3, <2>4, <2>5 DEF Brought
<1> QED BY <1>7, <1>8, <1>9 DEF StreamInv, Complete
------------------------------------------------------------------------------
LEMMA RetryStep == ASSUME StreamInv, NEW b \in Browsers, Retry(b) PROVE StreamInv'
<1>1. PICK a \in Attempts : Connect(b, a)
  BY DEF Retry
<1>2. /\ timers[b] > 0 /\ timers' = [timers EXCEPT ![b] = @ - 1]
      /\ net[b][a] = "none" /\ net' = [net EXCEPT ![b][a] = "sent"]
      /\ finished' = [finished EXCEPT ![b][a] = FALSE]
      /\ UNCHANGED <<version, thread, wire, asks, newest, missed>>
  BY <1>1 DEF Retry, Connect
<1>3. /\ net \in [Browsers -> [Attempts -> NetSteps]]
      /\ finished \in [Browsers -> [Attempts -> BOOLEAN]] /\ timers \in [Browsers -> Nat]
  BY DEF StreamInv, StreamShape, Single
<1>4. StreamShape'
  BY <1>2 DEF StreamInv, StreamShape, NetSteps
<1>5. timers[b] = 1 /\ timers'[b] = 0 /\ timers' \in [Browsers -> Nat]
  BY <1>2, <1>3 DEF StreamInv, Single
<1>6. \A c \in Browsers, d \in Attempts : c # b \/ d # a =>
        net'[c][d] = net[c][d] /\ finished'[c][d] = finished[c][d] /\ (c # b => timers'[c] = timers[c])
  BY <1>2, <1>3
<1>7. Single'
  <2>1. \A d \in Attempts : d # a => ~Live(b, d)'
    BY <1>5, <1>6 DEF StreamInv, Single, Live
  <2>2. ASSUME NEW c \in Browsers, c # b
        PROVE  timers'[c] = timers[c] /\ \A d \in Attempts : Live(c, d)' <=> Live(c, d)
    BY <1>2, <1>3, <1>6, <2>2 DEF Live
  <2> QED BY <1>5, <2>1, <2>2 DEF StreamInv, Single
<1>8. net'[b][a] = "sent"
  BY <1>2, <1>3
<1>9. Complete'
  BY <1>2, <1>6, <1>8, SameBrought DEF StreamInv, Loaded
<1> QED BY <1>4, <1>7, <1>9 DEF StreamInv

(* An attempt ends, if it has not yet, and a retry is scheduled for it. *)
LEMMA FailKeeps ==
  ASSUME StreamInv, NEW b \in Browsers, NEW a \in Attempts, net[b][a] # "none", Fail(b, a),
         NEW step \in NetSteps, net' = [net EXCEPT ![b][a] = step],
         NEW sent \in Seq(FramesTo(version)), wire' = [wire EXCEPT ![b][a] = sent],
         UNCHANGED <<version, thread, asks, newest, missed>>
  PROVE  StreamInv'
<1>1. /\ net \in [Browsers -> [Attempts -> NetSteps]]
      /\ wire \in [Browsers -> [Attempts -> Seq(FramesTo(version))]]
      /\ finished \in [Browsers -> [Attempts -> BOOLEAN]] /\ timers \in [Browsers -> Nat]
  BY DEF StreamInv, StreamShape, Single
<1>2. /\ finished' = [finished EXCEPT ![b][a] = TRUE]
      /\ timers' = IF finished[b][a] THEN timers ELSE [timers EXCEPT ![b] = @ + 1]
  BY DEF Fail, Scheduled
<1>3. StreamShape'
  BY <1>1, <1>2 DEF StreamInv, StreamShape
<1>4. \A c \in Browsers, d \in Attempts : c # b \/ d # a =>
        net'[c][d] = net[c][d] /\ finished'[c][d] = finished[c][d] /\ wire'[c][d] = wire[c][d]
  BY <1>1, <1>2
<1>5. finished'[b][a]
  BY <1>1, <1>2
<1>6. ~Live(b, a)' /\ \A c \in Browsers, d \in Attempts : c # b \/ d # a => (Live(c, d)' <=> Live(c, d))
  BY <1>4, <1>5 DEF Live
<1>7. Single'
  <2>1. CASE finished[b][a]
    <3>1. UNCHANGED timers
      BY <1>2, <2>1
    <3>2. \A c \in Browsers, d \in Attempts : Live(c, d)' => Live(c, d)
      BY <1>6
    <3> QED BY <3>1, <3>2 DEF StreamInv, Single
  <2>2. CASE ~finished[b][a]
    <3>1. Live(b, a)
      BY <2>2 DEF Live
    <3>2. timers[b] = 0 /\ \A d \in Attempts : Live(b, d) => d = a
      BY <3>1 DEF StreamInv, Single
    <3>3. timers' \in [Browsers -> Nat] /\ timers'[b] = 1 /\ \A c \in Browsers : c # b => timers'[c] = timers[c]
      BY <1>1, <1>2, <2>2, <3>2
    <3>4. \A d \in Attempts : ~Live(b, d)'
      BY <1>6, <3>2
    <3> QED BY <1>6, <3>3, <3>4 DEF StreamInv, Single
  <2> QED BY <2>1, <2>2
<1>8. Complete'
  BY <1>4, <1>5, SameBrought DEF StreamInv, Loaded
<1> QED BY <1>3, <1>7, <1>8 DEF StreamInv

LEMMA StallStep ==
  ASSUME StreamInv, NEW b \in Browsers, NEW a \in Attempts, Stall(b, a) PROVE StreamInv'
<1>1. wire \in [Browsers -> [Attempts -> Seq(FramesTo(version))]]
  BY DEF StreamInv, StreamShape
<1>2. wire[b][a] \in Seq(FramesTo(version)) /\ wire = [wire EXCEPT ![b][a] = wire[b][a]]
  BY <1>1
<1>3. "over" \in NetSteps /\ net[b][a] # "none"
  BY DEF Stall, Silent, NetSteps
<1> QED BY <1>2, <1>3, FailKeeps DEF Stall

LEMMA RejectedStep ==
  ASSUME StreamInv, NEW b \in Browsers, NEW a \in Attempts, Rejected(b, a) PROVE StreamInv'
<1>1. "none" \in NetSteps /\ net[b][a] # "none" /\ <<>> \in Seq(FramesTo(version))
  BY DEF Rejected, NetSteps
<1> QED BY <1>1, FailKeeps DEF Rejected

(* Whatever a request has led to: the streams are as they were, or all are *)
(* closed and one attempt is made.                                         *)
LEMMA ThenKeeps ==
  ASSUME StreamInv, NEW b \in Browsers, NEW i \in DOMAIN asks[b], Then(b, i)
  PROVE  /\ Single'
         /\ net' \in [Browsers -> [Attempts -> NetSteps]]
         /\ finished' \in [Browsers -> [Attempts -> BOOLEAN]]
         /\ asks' \in [Browsers -> Seq(AsksTo(version))]
         /\ \A c \in Browsers : c # b => asks'[c] = asks[c]
         /\ \A j \in DOMAIN asks[b] : j # i => \E k \in DOMAIN asks'[b] : asks'[b][k] = asks[b][j]
         /\ \A c \in Browsers, d \in Attempts :
              net'[c][d] = "open" /\ ~finished'[c][d] => net[c][d] = "open" /\ ~finished[c][d]
<1>1. /\ net \in [Browsers -> [Attempts -> NetSteps]]
      /\ finished \in [Browsers -> [Attempts -> BOOLEAN]] /\ timers \in [Browsers -> Nat]
      /\ asks \in [Browsers -> Seq(AsksTo(version))]
  BY DEF StreamInv, StreamShape, Single
<1>2. asks' = [asks EXCEPT ![b] = RemoveAt(@, i)]
  BY DEF Then
<1>3. /\ asks' \in [Browsers -> Seq(AsksTo(version))]
      /\ \A c \in Browsers : c # b => asks'[c] = asks[c]
      /\ \A j \in DOMAIN asks[b] : j # i => \E k \in DOMAIN asks'[b] : asks'[b][k] = asks[b][j]
  <2>1. asks[b] \in Seq(AsksTo(version)) /\ asks'[b] = RemoveAt(asks[b], i)
    BY <1>1, <1>2
  <2>2. /\ RemoveAt(asks[b], i) \in Seq(AsksTo(version))
        /\ \A j \in DOMAIN asks[b] : j # i =>
             \E k \in DOMAIN RemoveAt(asks[b], i) : RemoveAt(asks[b], i)[k] = asks[b][j]
    BY <2>1, Without
  <2>3. asks' \in [Browsers -> Seq(AsksTo(version))] /\ \A c \in Browsers : c # b => asks'[c] = asks[c]
    BY <1>1, <1>2, <2>2
  <2> QED BY <2>1, <2>2, <2>3
<1>4. CASE ~asks[b][i].then
  <2>1. UNCHANGED <<net, finished, timers>>
    BY <1>4 DEF Then
  <2> QED BY <1>1, <1>3, <2>1, SameAttempts DEF StreamInv
<1>5. CASE asks[b][i].then
  <2> DEFINE nets == [d \in Attempts |-> IF Live(b, d) THEN "over" ELSE net[b][d]]
             ends == [d \in Attempts |-> TRUE]
             left == IF timers[b] > 0 THEN timers[b] - 1 ELSE 0
  <2>1. Reopen(b) /\ Close(b) = [finished |-> ends, net |-> nets, timers |-> left]
    BY <1>5 DEF Then, Close
  <2>2. nets \in [Attempts -> NetSteps] /\ ends \in [Attempts -> BOOLEAN] /\ left = 0
    BY <1>1 DEF NetSteps, StreamInv, Single
  <2> HIDE DEF nets, ends, left
  <2>3. PICK a \in Attempts :
          /\ net' = [net EXCEPT ![b] = [nets EXCEPT ![a] = "sent"]]
          /\ finished' = [finished EXCEPT ![b] = [ends EXCEPT ![a] = FALSE]]
          /\ timers' = [timers EXCEPT ![b] = left]
    <3>1. PICK a \in Attempts :
            /\ net' = [net EXCEPT ![b] = [Close(b).net EXCEPT ![a] = "sent"]]
            /\ finished' = [finished EXCEPT ![b] = [Close(b).finished EXCEPT ![a] = FALSE]]
            /\ timers' = [timers EXCEPT ![b] = Close(b).timers]
      BY <2>1, Zenon DEF Reopen
    <3>2. Close(b).net = nets /\ Close(b).finished = ends /\ Close(b).timers = left
      BY <2>1
    <3> QED BY <3>1, <3>2, Zenon
  <2>4. /\ [nets EXCEPT ![a] = "sent"] \in [Attempts -> NetSteps]
        /\ [ends EXCEPT ![a] = FALSE] \in [Attempts -> BOOLEAN]
    BY <2>2 DEF NetSteps
  <2>5. /\ net' \in [Browsers -> [Attempts -> NetSteps]]
        /\ finished' \in [Browsers -> [Attempts -> BOOLEAN]] /\ timers' \in [Browsers -> Nat]
    BY <1>1, <2>2, <2>3, <2>4
  <2>6. timers'[b] = 0 /\ net'[b][a] = "sent" /\ \A d \in Attempts : d # a => finished'[b][d]
    BY <1>1, <2>2, <2>3 DEF ends
  <2>7. \A c \in Browsers : c # b => net'[c] = net[c] /\ finished'[c] = finished[c] /\ timers'[c] = timers[c]
    BY <1>1, <2>3
  <2>8. \A d \in Attempts : Live(b, d)' => d = a
    BY <2>6 DEF Live
  <2>9. \A c \in Browsers, d \in Attempts : c # b => (Live(c, d)' <=> Live(c, d))
    BY <2>7 DEF Live
  <2>10. Single'
    BY <2>5, <2>6, <2>7, <2>8, <2>9 DEF StreamInv, Single
  <2>11. \A c \in Browsers, d \in Attempts :
           net'[c][d] = "open" /\ ~finished'[c][d] => net[c][d] = "open" /\ ~finished[c][d]
    BY <2>6, <2>7
  <2> QED BY <1>3, <2>5, <2>10, <2>11
<1> QED BY <1>4, <1>5

LEMMA AnsweredStep ==
  ASSUME StreamInv, NEW b \in Browsers, NEW i \in DOMAIN asks[b], NEW at \in Versions, Answered(b, i, at)
  PROVE  StreamInv'
<1>1. /\ at \in asks[b][i].since..version /\ Render(b, at) /\ Then(b, i)
      /\ UNCHANGED <<version, thread, wire, missed>>
  BY DEF Answered
<1>2. /\ version \in Nat /\ newest \in [Browsers -> 0..version] /\ asks[b][i] \in AsksTo(version)
  BY StreamAssumption DEF StreamInv, StreamShape, Versions
<1>3. at \in 0..version /\ asks[b][i].since \in 0..version
  BY <1>1, <1>2 DEF AsksTo
<1>4. newest' = [newest EXCEPT ![b] = IF at > @ THEN at ELSE @]
  BY <1>1 DEF Render
<1>5. /\ newest' \in [Browsers -> 0..version]
      /\ \A c \in Browsers : newest[c] = version => newest'[c] = version
      /\ asks[b][i].since = version => newest'[b] = version
  BY <1>1, <1>2, <1>3, <1>4
<1>6. StreamShape' /\ Single'
  BY <1>1, <1>5, ThenKeeps DEF StreamInv, StreamShape
<1>7. ASSUME NEW c \in Browsers, NEW d \in Attempts, Loaded(c, d)' PROVE Brought(c, d)'
  <2>1. Loaded(c, d)
    BY <1>1, <1>7, ThenKeeps DEF Loaded
  <2>2. Brought(c, d)
    BY <2>1 DEF StreamInv, Complete
  <2>3. CASE \E j \in DOMAIN asks[c] : asks[c][j].since = version
    <3>1. PICK j \in DOMAIN asks[c] : asks[c][j].since = version
      BY <2>3
    <3>2. /\ \A e \in Browsers : e # b => asks'[e] = asks[e]
          /\ \A k \in DOMAIN asks[b] : k # i => \E l \in DOMAIN asks'[b] : asks'[b][l] = asks[b][k]
      BY <1>1, ThenKeeps
    <3>3. CASE c = b /\ j = i
      BY <1>1, <1>5, <3>1, <3>3 DEF Brought
    <3>4. CASE c = b /\ j # i
      <4>1. PICK k \in DOMAIN asks'[b] : asks'[b][k] = asks[b][j]
        BY <3>1, <3>2, <3>4
      <4> QED BY <1>1, <3>1, <3>4, <4>1 DEF Brought
    <3>5. CASE c # b
      BY <1>1, <3>1, <3>2, <3>5 DEF Brought
    <3> QED BY <3>3, <3>4, <3>5
  <2>4. CASE ~\E j \in DOMAIN asks[c] : asks[c][j].since = version
    BY <1>1, <1>5, <2>2, <2>4 DEF Brought
  <2> QED BY <2>3, <2>4
<1> QED BY <1>6, <1>7 DEF StreamInv, Complete

LEMMA AskFailsStep ==
  ASSUME StreamInv, NEW b \in Browsers, NEW i \in DOMAIN asks[b], AskFails(b, i)
  PROVE  StreamInv'
<1>1. /\ missed' = [missed EXCEPT ![b] = TRUE] /\ Then(b, i)
      /\ UNCHANGED <<version, thread, wire, newest>>
  BY DEF AskFails
<1>2. StreamShape' /\ Single'
  BY <1>1, ThenKeeps DEF StreamInv, StreamShape
<1>3. ASSUME NEW c \in Browsers, NEW d \in Attempts, Loaded(c, d)' PROVE Brought(c, d)'
  <2>1. missed \in [Browsers -> BOOLEAN]
    BY DEF StreamInv, StreamShape
  <2>2. c # b /\ missed'[c] = missed[c]
    BY <1>1, <1>3, <2>1 DEF Loaded
  <2>3. Loaded(c, d) /\ asks'[c] = asks[c]
    BY <1>3, <1>1, <2>2, ThenKeeps DEF Loaded
  <2> QED BY <1>1, <2>3 DEF StreamInv, Complete, Brought
<1> QED BY <1>2, <1>3 DEF StreamInv, Complete

LEMMA StreamStep == StreamInv /\ [StreamNext]_streamVars => StreamInv'
<1> SUFFICES ASSUME StreamInv, [StreamNext]_streamVars PROVE StreamInv'
  OBVIOUS
<1>1. CASE \E t \in Threads : Backend(t) \/ \E kind \in {"standings", "reload"} : Change(t, kind)
  BY <1>1, BuildStep, PublishStep, ChangeStep DEF Backend
<1>2. CASE \E b \in Browsers : Browser(b) \/ Click(b)
  BY <1>2, RetryStep, OpenedStep, ReceiveStep, StallStep, RejectedStep, AnsweredStep, ClickStep DEF Browser
<1>3. CASE \E b \in Browsers, a \in Attempts :
             StreamEvents(b, a) \/ \E step \in {"over", "hung"} : Fault(b, a, step)
  BY <1>3, StreamEventsStep, FaultStep
<1>4. CASE \E b \in Browsers : \E i \in DOMAIN asks[b] : AskFails(b, i)
  BY <1>4, AskFailsStep
<1>5. CASE Restart
  BY <1>5, RestartStep
<1>6. CASE UNCHANGED streamVars
  BY <1>6 DEF streamVars, StreamInv, StreamShape, Single, Complete, Loaded, Brought, Live
<1> QED BY <1>1, <1>2, <1>3, <1>4, <1>5, <1>6 DEF StreamNext

THEOREM StreamInvariant == StreamSpec => []StreamInv
BY InitStreamInv, StreamStep, PTL DEF StreamSpec

(* A browser has at most one stream or one retry to come, whichever of its *)
(* callbacks run after an abort, a stall or a click, and in whatever order *)
(* (api.js connectSSEWithHeaders).                                         *)
THEOREM OneStreamAlways == StreamSpec => []OneStream
<1>1. ASSUME StreamInv, NEW b \in Browsers
      PROVE  timers[b] + Cardinality({a \in Attempts : Live(b, a)}) <= 1
  <2> DEFINE live == {a \in Attempts : Live(b, a)}
  <2>1. /\ timers[b] \in {0, 1}
        /\ timers[b] = 1 => live = {}
        /\ \A a, c \in live : a = c
    BY <1>1 DEF StreamInv, Single
  <2> HIDE DEF live
  <2>2. CASE live = {}
    <3>1. Cardinality(live) = 0
      BY <2>2, FS_EmptySet
    <3> QED BY <2>1, <3>1 DEF live
  <2>3. CASE live # {}
    <3>1. PICK a : live = {a}
      BY <2>1, <2>3
    <3>2. Cardinality(live) = 1
      BY <3>1, FS_Singleton
    <3>3. timers[b] = 0
      BY <2>1, <2>3
    <3> QED BY <3>2, <3>3 DEF live
  <2> QED BY <2>2, <2>3
<1>2. StreamInv => OneStream
  BY <1>1 DEF OneStream
<1> QED BY <1>2, StreamInvariant, PTL

(* A browser with an open stream that has loaded what it had to load lacks *)
(* no change for good: a frame or a request thread still brings the newest *)
(* standings, or it has shown them (app.py stream_events, app.js onOpen).  *)
THEOREM NoGapAlways == StreamSpec => []NoGap
<1>1. ASSUME StreamInv, NEW b \in Browsers, NEW a \in Attempts,
             net[b][a] = "open", ~finished[b][a], asks[b] = <<>>, ~missed[b]
      PROVE  \/ newest[b] = version
             \/ \E t \in Threads : thread[t].pc # "idle"
             \/ \E i \in DOMAIN wire[b][a] :
                  wire[b][a][i].kind = "reload" \/ wire[b][a][i].at = version
  BY <1>1 DEF StreamInv, Complete, Loaded, Brought
<1>2. StreamInv => NoGap
  BY <1>1 DEF NoGap
<1> QED BY <1>2, StreamInvariant, PTL
==============================================================================
