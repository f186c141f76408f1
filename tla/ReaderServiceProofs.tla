--------------------------- MODULE ReaderServiceProofs ---------------------------
(***************************************************************************)
(* Proofs about the parts of the reader-service.  SpoolClient, for         *)
(* any numbers of events, attempts and faults and any sizes of batches and *)
(* queue: the client implements Outbox, and loses events by faults and a   *)
(* full queue only.  SiritConnection, for any antennas, troubles and       *)
(* requests: a bound session is configured, who counts as present is in    *)
(* the field, and every connection has a cause.  ReaderTarget, for any     *)
(* addresses: a discovery is saved once.                                   *)
(***************************************************************************)
EXTENDS SpoolClient, SiritConnection, ReaderTarget, FiniteSetTheorems, FunctionTheorems,
        WellFoundedInduction, TLAPS

(* n lines, numbered from a. *)
Block(lines, a, n) ==
  /\ \A line \in lines : line.no \in a..(a + n - 1)
  /\ \A no \in a..(a + n - 1) : \E line \in lines : line.no = no
  /\ \A line, other \in lines : line.no = other.no => line = other

(* The lines of the file are numbered from 1; what a rewrite has still to  *)
(* write is numbered from where the drain has stopped.                     *)
Blocks ==
  /\ \E n \in Nat : Block(spool, 1, n) /\ (pc = "drain" => at <= n + 1)
  /\ IF pc = "rewrite" THEN spool = {} /\ \E n \in Nat : Block(rest, at, n) ELSE rest = {}

(* What the drain is past, and the batch that came before it, are settled. *)
Drained ==
  /\ pc = "drain" =>
       \A line \in spool : line.whole /\ line.no < at => line.events \subseteq log \cup refused
  /\ pc \in {"drain", "rewrite"} => buf \subseteq log \cup refused

(* The worker ends with nothing in memory. *)
Ending ==
  /\ pc \in {"final", "lastPost", "save", "exited"} => stopping
  /\ pc \in {"lastPost", "save", "exited", "off"} => queue = {}
  /\ pc \in {"exited", "off"} => buf = {}

(* Nothing is anywhere that has not been read, and what waits in the queue *)
(* is nowhere else.                                                        *)
Known ==
  /\ queue \cup buf \cup log \cup refused \subseteq 1..made
  /\ queue \cap (buf \cup log \cup refused) = {}
  /\ \A line \in spool \cup rest : line.events \subseteq 1..made /\ line.events \cap queue = {}

(* Without a fault the file is readable. *)
Clean == faults = 0 => ~torn /\ \A line \in spool \cup rest : line.whole

SpoolInv == TypeOK /\ Blocks /\ Drained /\ Ending /\ Known /\ Clean /\ LossNeedsFault

USE SizesAssumption, BoundsAssumption
------------------------------------------------------------------------------
(* A set of numbers has a least one. *)
LEMMA Least ==
  ASSUME NEW S \in SUBSET Nat, S # {}
  PROVE  \E i \in S : \A j \in S : i <= j
<1>1. PICK i \in S : \A j \in S : <<j, i>> \notin OpToRel(<, Nat)
  BY NatLessThanWellFounded, WFMin
<1>2. ASSUME NEW j \in S PROVE i <= j
  <2>1. <<j, i>> \notin OpToRel(<, Nat)
    BY <1>1
  <2>2. i \in Nat /\ j \in Nat
    OBVIOUS
  <2>3. ~(j < i)
    BY <2>1, <2>2 DEF OpToRel
  <2> QED BY <2>2, <2>3
<1> QED BY <1>2

LEMMA FirstIsFirst ==
  ASSUME NEW lines, lines \subseteq Line, lines # {}
  PROVE  First(lines) \in lines /\ \A other \in lines : First(lines).no <= other.no
<1> DEFINE numbers == {line.no : line \in lines}
<1>1. numbers \in SUBSET Nat /\ numbers # {}
  BY DEF Line
<1>2. \E no \in numbers : \A other \in numbers : no <= other
  <2> HIDE DEF numbers
  <2> QED BY <1>1, Least
<1>3. \E line \in lines : \A other \in lines : line.no <= other.no
  BY <1>2
<1> QED BY <1>3 DEF First

LEMMA SmallestIsOne ==
  ASSUME NEW S \in SUBSET Events, S # {} PROVE Smallest(S) \in S
<1>1. S \in SUBSET Nat
  BY DEF Events
<1> QED BY <1>1, Least DEF Smallest

(* The numbers of a block of lines tell how many there are. *)
LEMMA BlockCount ==
  ASSUME NEW lines, NEW a \in Nat, NEW n \in Nat, Block(lines, a, n)
  PROVE  IsFiniteSet(lines) /\ Cardinality(lines) = n
<1> DEFINE numbers == a..(a + n - 1)
           f       == [no \in numbers |-> CHOOSE line \in lines : line.no = no]
<1>1. \A no \in numbers : f[no] \in lines /\ f[no].no = no
  BY DEF Block
<1>2. f \in [numbers -> lines]
  BY <1>1
<1>3. \A x, y \in numbers : f[x] = f[y] => x = y
  BY <1>1
<1>4. \A line \in lines : \E no \in numbers : f[no] = line
  <2>1. ASSUME NEW line \in lines PROVE f[line.no] = line /\ line.no \in numbers
    <3>1. line.no \in numbers
      BY DEF Block
    <3>2. PICK other \in lines : other = f[line.no] /\ other.no = line.no
      <4> HIDE DEF f, numbers
      <4> QED BY <1>1, <3>1
    <3>3. other = line
      BY <3>2 DEF Block
    <3> HIDE DEF f, numbers
    <3> QED BY <3>1, <3>2, <3>3
  <2> HIDE DEF f, numbers
  <2> QED BY <2>1
<1>5. IsFiniteSet(numbers) /\ Cardinality(numbers) = n
  <2>1. PICK b \in Int : b = a + n - 1
    OBVIOUS
  <2>2. IsFiniteSet(a..b) /\ Cardinality(a..b) = IF a > b THEN 0 ELSE b - a + 1
    BY FS_Interval
  <2>3. (IF a > b THEN 0 ELSE b - a + 1) = n
    BY <2>1
  <2> QED BY <2>1, <2>2, <2>3
<1> HIDE DEF f, numbers
<1>6. f \in Bijection(numbers, lines)
  BY <1>2, <1>3, <1>4, Fun_IsBij
<1>7. ExistsBijection(numbers, lines)
  BY <1>6 DEF ExistsBijection
<1> QED BY <1>5, <1>7, FS_Bijection

(* Blocks that are extended, cut, and numbered anew. *)
LEMMA BlockAppend ==
  ASSUME NEW lines, NEW n \in Nat, Block(lines, 1, n), NEW line, line.no = n + 1
  PROVE  Block(lines \cup {line}, 1, n + 1)
BY DEF Block

LEMMA BlockRest ==
  ASSUME NEW lines, NEW n \in Nat, Block(lines, 1, n), NEW a \in Nat \ {0}, a <= n + 1
  PROVE  n + 1 - a \in Nat /\ Block({line \in lines : line.no >= a}, a, n + 1 - a)
BY DEF Block

LEMMA BlockHead ==
  ASSUME NEW lines, NEW a \in Nat, NEW n \in Nat, Block(lines, a, n), NEW k \in 0..n
  PROVE  Block({line \in lines : line.no < a + k}, a, k)
BY DEF Block

LEMMA BlockRenumbered ==
  ASSUME NEW lines, lines \subseteq Line, at \in Nat \ {0}, NEW n \in Nat, Block(lines, at, n)
  PROVE  Block(Renumbered(lines), 1, n) /\ Renumbered(lines) \subseteq Line
<1> DEFINE new(line) == [line EXCEPT !.no = line.no - at + 1]
<1>1. ASSUME NEW line \in lines
      PROVE  new(line) \in Line /\ new(line).no = line.no - at + 1 /\ new(line).no \in 1..n
             /\ line.no \in Nat
  BY DEF Block, Line
<1>2. Renumbered(lines) = {new(line) : line \in lines}
  BY DEF Renumbered
<1> HIDE DEF new
<1>3. \A no \in 1..n : \E line \in lines : new(line).no = no
  <2>1. ASSUME NEW no \in 1..n PROVE \E line \in lines : new(line).no = no
    <3>1. PICK line \in lines : line.no = no + at - 1
      BY DEF Block
    <3> QED BY <1>1, <3>1
  <2> QED BY <2>1
<1>4. \A line, other \in lines : new(line).no = new(other).no => line = other
  BY <1>1 DEF Block
<1>5. \A line \in Renumbered(lines) : line \in Line /\ line.no \in 1..n
  BY <1>1, <1>2
<1>6. \A no \in 1..n : \E line \in Renumbered(lines) : line.no = no
  BY <1>2, <1>3
<1>7. \A line, other \in Renumbered(lines) : line.no = other.no => line = other
  BY <1>2, <1>4
<1> QED BY <1>5, <1>6, <1>7 DEF Block

(* A line keeps what it holds. *)
LEMMA RenumberedHolds ==
  ASSUME NEW lines, lines \subseteq Line, NEW line \in Renumbered(lines)
  PROVE  \E old \in lines : line.events = old.events /\ line.whole = old.whole
BY DEF Renumbered, Line

LEMMA HeldByRenumbered ==
  ASSUME NEW lines, lines \subseteq Line, NEW old \in lines
  PROVE  \E line \in Renumbered(lines) : line.events = old.events /\ line.whole = old.whole
<1>1. PICK line : line = [old EXCEPT !.no = old.no - at + 1]
  OBVIOUS
<1>2. line \in Renumbered(lines)
  BY <1>1 DEF Renumbered
<1>3. line.events = old.events /\ line.whole = old.whole
  BY <1>1 DEF Line
<1> QED BY <1>2, <1>3
------------------------------------------------------------------------------

(* Where an event is, from what the places hold. *)
StageAt(e, settled, lines, memory, read) ==
  IF e \in settled THEN "settled"
  ELSE IF \E line \in lines : line.whole /\ e \in line.events THEN "disk"
  ELSE IF e \in memory THEN "memory"
  ELSE IF e <= read THEN "lost"
  ELSE "new"

LEMMA OnLines ==
  ASSUME NEW lines, NEW e
  PROVE  e \in EventsOf({line \in lines : line.whole})
           <=> \E line \in lines : line.whole /\ e \in line.events
BY DEF EventsOf

LEMMA StageNow ==
  ASSUME NEW e \in Events
  PROVE  Stage[e] = StageAt(e, log \cup refused, spool \cup rest, queue \cup buf, made)
<1>1. e \in OnDisk <=> \E line \in spool \cup rest : line.whole /\ e \in line.events
  BY OnLines DEF OnDisk
<1> QED BY <1>1 DEF Stage, StageAt

LEMMA StageNext ==
  ASSUME NEW e \in Events
  PROVE  Stage'[e] = StageAt(e, log' \cup refused', spool' \cup rest', queue' \cup buf', made')
<1>1. e \in OnDisk' <=> \E line \in spool' \cup rest' : line.whole /\ e \in line.events
  BY OnLines DEF OnDisk
<1> QED BY <1>1 DEF Stage, StageAt

(* The ways a step moves events on. *)
Stays(e)      == Stage'[e] = Stage[e]
StaysAll      == \A e \in Events : Stays(e)
SettlesSome   == \A e \in Events : Stays(e) \/ (Stage[e] \in {"memory", "disk"} /\ Stage'[e] = "settled")
SavesSome     == \A e \in Events : Stays(e) \/ (Stage[e] = "memory" /\ Stage'[e] = "disk")
LosesSome     == \A e \in Events :
                   Stays(e) \/ ((Stage[e] = "memory" \/ (Stage[e] = "disk" /\ pc = "rewrite"))
                                /\ Stage'[e] = "lost")
ReadsOne      == \E e \in Events :
                   /\ \A other \in Events \ {e} : Stays(other)
                   /\ Stage[e] = "new"
                   /\ Stage'[e] = "memory" \/ (Stage'[e] = "lost" /\ e \in dropped')

Promised ==
  /\ dropped \subseteq dropped' /\ (faults' = 0 => faults = 0)
  /\ \/ StaysAll \/ SettlesSome \/ SavesSome \/ ReadsOne
     \/ LosesSome /\ (faults' # 0 \/ StaysAll)

(* Each of them is a step of the promise ... *)
LEMMA MovesThem ==
  ASSUME NEW events \in SUBSET Events, NEW to,
         \A e \in Events : Stage'[e] = IF e \in events THEN to ELSE Stage[e]
  PROVE  Stage' = Promise!Moved(events, to)
BY DEF Stage, Promise!Moved

LEMMA PromisedSteps ==
  ASSUME Promised PROVE Promise!Next
<1>1. (pc = "rewrite")' \in BOOLEAN
  OBVIOUS
<1>2. CASE StaysAll
  BY <1>1, <1>2 DEF StaysAll, Stays, Stage, Promise!Next
<1>3. CASE SettlesSome
  <2> DEFINE events == {e \in Events : ~Stays(e)}
  <2>1. events \in SUBSET Events /\ \A e \in events : Stage[e] \in {"memory", "disk"}
    BY <1>3 DEF SettlesSome
  <2>2. \A e \in Events : Stage'[e] = IF e \in events THEN "settled" ELSE Stage[e]
    BY <1>3 DEF SettlesSome, Stays
  <2> HIDE DEF events
  <2>3. Promise!Settle(events)
    BY <2>1, <2>2, MovesThem DEF Promise!Settle
  <2> QED BY <1>1, <2>1, <2>3 DEF Promise!Next
<1>4. CASE SavesSome
  <2> DEFINE events == {e \in Events : ~Stays(e)}
  <2>1. events \in SUBSET Events /\ \A e \in events : Stage[e] = "memory"
    BY <1>4 DEF SavesSome
  <2>2. \A e \in Events : Stage'[e] = IF e \in events THEN "disk" ELSE Stage[e]
    BY <1>4 DEF SavesSome, Stays
  <2> HIDE DEF events
  <2>3. Promise!Save(events)
    BY <2>1, <2>2, MovesThem DEF Promise!Save
  <2> QED BY <1>1, <2>1, <2>3 DEF Promise!Next
<1>5. CASE LosesSome
  <2> DEFINE events == {e \in Events : ~Stays(e)}
  <2>1. /\ events \in SUBSET Events
        /\ \A e \in events : Stage[e] = "memory" \/ (Stage[e] = "disk" /\ pc = "rewrite")
    BY <1>5 DEF LosesSome
  <2>2. \A e \in Events : Stage'[e] = IF e \in events THEN "lost" ELSE Stage[e]
    BY <1>5 DEF LosesSome, Stays
  <2> HIDE DEF events
  <2>3. Promise!Lose(events)
    BY <2>1, <2>2, MovesThem DEF Promise!Lose
  <2> QED BY <1>1, <2>1, <2>3 DEF Promise!Next
<1>6. CASE ReadsOne
  <2>1. PICK e \in Events : /\ \A other \in Events \ {e} : Stays(other)
                            /\ Stage[e] = "new" /\ Stage'[e] \in {"memory", "lost"}
    BY <1>6 DEF ReadsOne
  <2>2. PICK to \in {"memory", "lost"} : to = Stage'[e]
    BY <2>1
  <2>3. \A other \in Events : Stage'[other] = IF other \in {e} THEN to ELSE Stage[other]
    BY <2>1, <2>2 DEF Stays
  <2>4. Stage' = Promise!Moved({e}, to)
    BY <2>3, MovesThem
  <2>5. Promise!Accept(e) \/ Promise!Overflow(e)
    BY <2>1, <2>2, <2>4 DEF Promise!Accept, Promise!Overflow
  <2> QED BY <1>1, <2>5 DEF Promise!Next
<1> QED BY <1>2, <1>3, <1>4, <1>5, <1>6 DEF Promised

(* ... and loses events by faults and a full queue only. *)
LEMMA PromisedLosses ==
  ASSUME Promised, LossNeedsFault, TypeOK, TypeOK' PROVE LossNeedsFault'
<1> SUFFICES ASSUME NEW e \in Events, Stage'[e] = "lost", faults' = 0 PROVE e \in dropped'
  <2>1. faults' \in Nat
    BY DEF TypeOK
  <2> QED BY <2>1 DEF LossNeedsFault
<1>1. Stage[e] = "lost" => e \in dropped'
  BY DEF Promised, LossNeedsFault
<1> QED BY <1>1 DEF Promised, StaysAll, SettlesSome, SavesSome, LosesSome, ReadsOne, Stays
------------------------------------------------------------------------------
(* What is to be shown of every step. *)
Kept == TypeOK /\ Blocks /\ Drained /\ Ending /\ Known /\ Clean

LEMMA InitSpool == Init => SpoolInv
<1> SUFFICES ASSUME Init PROVE SpoolInv
  OBVIOUS
<1>0. stopping \in BOOLEAN /\ torn \in BOOLEAN
  BY Zenon DEF Init
<1>1. TypeOK
  <2>1. /\ made = 0 /\ queue = {} /\ buf = {} /\ dropped = {} /\ pc = "off" /\ attempt = 1
        /\ at = 1 /\ spool = {} /\ rest = {} /\ log = {} /\ refused = {} /\ faults = 0
    BY DEF Init
  <2> QED BY <1>0, <2>1 DEF TypeOK
<1>2. Block({}, 1, 0)
  BY DEF Block
<1>3. Blocks
  BY <1>2 DEF Init, Blocks
<1>4. Drained /\ Ending /\ Known /\ Clean
  BY DEF Init, Drained, Ending, Known, Clean
<1>5. ASSUME NEW e \in Events PROVE Stage[e] # "lost"
  <2>1. ~(e <= made) /\ spool \cup rest = {}
    BY DEF Init, Events
  <2> QED BY <2>1, StageNow DEF StageAt
<1>6. LossNeedsFault
  BY <1>5 DEF LossNeedsFault
<1> QED BY <1>1, <1>3, <1>4, <1>6 DEF SpoolInv

(* The steps that do not touch the file. *)
LEMMA FileAlone ==
  ASSUME SpoolInv, UNCHANGED fileVars, pc # "rewrite", pc' # "rewrite",
         pc' = "drain" => (at' = 1 \/ (pc = "drain" /\ at' = at))
  PROVE  Blocks'
<1>1. PICK n \in Nat : Block(spool, 1, n) /\ (pc = "drain" => at <= n + 1)
  BY DEF SpoolInv, Blocks
<1>2. Block(spool, 1, n)' /\ (pc' = "drain" => at' <= n + 1)
  BY <1>1 DEF fileVars, Block
<1>3. rest' = {}
  BY DEF SpoolInv, Blocks, fileVars
<1> QED BY <1>2, <1>3 DEF Blocks

LEMMA PlacesAlone ==
  ASSUME UNCHANGED fileVars, UNCHANGED backendVars, made' = made,
         queue' \cup buf' = queue \cup buf
  PROVE  StaysAll
<1>1. spool' \cup rest' = spool \cup rest /\ log' \cup refused' = log \cup refused
  BY DEF fileVars, backendVars
<1>2. ASSUME NEW e \in Events PROVE Stays(e)
  BY <1>1, StageNow, StageNext DEF Stays
<1> QED BY <1>2 DEF StaysAll

LEMMA StartKeeps ==
  ASSUME SpoolInv, Start PROVE Kept' /\ Promised
<1>0. stopping' \in BOOLEAN
  BY Zenon DEF Start
<1>1. TypeOK'
  <2>1. /\ pc' = "drain" /\ at' = 1 /\ memoryVars' = memoryVars /\ backendVars' = backendVars
        /\ fileVars' = fileVars /\ buf' = buf /\ attempt' = attempt /\ faults' = faults
    BY DEF Start
  <2> QED BY <1>0, <2>1 DEF SpoolInv, TypeOK, memoryVars, backendVars, fileVars
<1>2. Blocks'
  BY FileAlone DEF Start, memoryVars, backendVars, fileVars
<1>3. Drained' /\ Ending' /\ Known' /\ Clean'
  BY DEF SpoolInv, TypeOK, Line, Drained, Ending, Known, Clean, Start, memoryVars, backendVars, fileVars
<1>4. StaysAll
  BY PlacesAlone DEF Start, memoryVars
<1>5. dropped' = dropped /\ faults' = faults
  BY DEF Start, memoryVars
<1> QED BY <1>1, <1>2, <1>3, <1>4, <1>5 DEF Kept, Promised

LEMMA FlushDueKeeps ==
  ASSUME SpoolInv, FlushDue PROVE Kept' /\ Promised
<1>1. TypeOK'
  BY DEF SpoolInv, TypeOK, FlushDue, memoryVars, backendVars, fileVars
<1>2. Blocks'
  BY FileAlone DEF FlushDue, memoryVars, backendVars, fileVars
<1>3. Drained' /\ Ending' /\ Known' /\ Clean'
  BY DEF SpoolInv, Drained, Ending, Known, Clean, FlushDue, memoryVars, backendVars, fileVars
<1>4. StaysAll
  BY PlacesAlone DEF FlushDue, memoryVars
<1>5. dropped' = dropped /\ faults' = faults
  BY DEF FlushDue, memoryVars
<1> QED BY <1>1, <1>2, <1>3, <1>4, <1>5 DEF Kept, Promised

LEMMA NoticeStopKeeps ==
  ASSUME SpoolInv, NoticeStop PROVE Kept' /\ Promised
<1>1. TypeOK'
  BY DEF SpoolInv, TypeOK, NoticeStop, memoryVars, backendVars, fileVars
<1>2. Blocks'
  BY FileAlone DEF NoticeStop, memoryVars, backendVars, fileVars
<1>3. Drained' /\ Ending' /\ Known' /\ Clean'
  BY DEF SpoolInv, Drained, Ending, Known, Clean, NoticeStop, memoryVars, backendVars, fileVars
<1>4. StaysAll
  BY PlacesAlone DEF NoticeStop, memoryVars
<1>5. dropped' = dropped /\ faults' = faults
  BY DEF NoticeStop, memoryVars
<1> QED BY <1>1, <1>2, <1>3, <1>4, <1>5 DEF Kept, Promised

LEMMA RequestStopKeeps ==
  ASSUME SpoolInv, RequestStop PROVE Kept' /\ Promised
<1>1. TypeOK'
  BY DEF SpoolInv, TypeOK, RequestStop, memoryVars, backendVars, fileVars
<1>2. Blocks'
  BY DEF SpoolInv, Blocks, Block, RequestStop, fileVars
<1>3. Drained' /\ Ending' /\ Known' /\ Clean'
  BY DEF SpoolInv, Drained, Ending, Known, Clean, RequestStop, memoryVars, backendVars, fileVars
<1>4. StaysAll
  BY PlacesAlone DEF RequestStop, memoryVars
<1>5. dropped' = dropped /\ faults' = faults
  BY DEF RequestStop, memoryVars
<1> QED BY <1>1, <1>2, <1>3, <1>4, <1>5 DEF Kept, Promised

LEMMA ExitKeeps ==
  ASSUME SpoolInv, Exit PROVE Kept' /\ Promised
<1>1. TypeOK'
  BY DEF SpoolInv, TypeOK, Exit, memoryVars, backendVars, fileVars
<1>2. Blocks'
  BY FileAlone DEF Exit, memoryVars, backendVars, fileVars
<1>3. Drained' /\ Ending' /\ Known' /\ Clean'
  BY DEF SpoolInv, Drained, Ending, Known, Clean, Exit, memoryVars, backendVars, fileVars
<1>4. StaysAll
  BY PlacesAlone DEF Exit, memoryVars
<1>5. dropped' = dropped /\ faults' = faults
  BY DEF Exit, memoryVars
<1> QED BY <1>1, <1>2, <1>3, <1>4, <1>5 DEF Kept, Promised

LEMMA TakeKeeps ==
  ASSUME SpoolInv, Take PROVE Kept' /\ Promised
<1>0. Smallest(queue) \in queue
  BY SmallestIsOne DEF SpoolInv, TypeOK, Take
<1>1. TypeOK'
  BY <1>0 DEF SpoolInv, TypeOK, Take, Resume, memoryVars, backendVars, fileVars
<1>2. Blocks'
  BY FileAlone DEF Take, Resume, memoryVars, backendVars, fileVars
<1>3. Drained' /\ Ending' /\ Known' /\ Clean'
  BY <1>0 DEF SpoolInv, Drained, Ending, Known, Clean, Take, Resume, memoryVars, backendVars, fileVars
<1>4. StaysAll
  BY <1>0, PlacesAlone DEF Take, Resume, memoryVars
<1>5. dropped' = dropped /\ faults' = faults
  BY DEF Take, memoryVars
<1> QED BY <1>1, <1>2, <1>3, <1>4, <1>5 DEF Kept, Promised

LEMMA FinalKeeps ==
  ASSUME SpoolInv, Final PROVE Kept' /\ Promised
<1>1. TypeOK'
  BY DEF SpoolInv, TypeOK, Final, memoryVars, backendVars, fileVars
<1>2. Blocks'
  BY FileAlone DEF Final, memoryVars, backendVars, fileVars
<1>3. Drained' /\ Ending' /\ Known' /\ Clean'
  BY DEF SpoolInv, Drained, Ending, Known, Clean, Final, memoryVars, backendVars, fileVars
<1>4. StaysAll
  BY PlacesAlone DEF Final, memoryVars
<1>5. dropped' = dropped /\ faults' = faults
  BY DEF Final, memoryVars
<1> QED BY <1>1, <1>2, <1>3, <1>4, <1>5 DEF Kept, Promised

(* A tag is read. *)
LEMMA SendKeeps ==
  ASSUME SpoolInv, Send PROVE Kept' /\ Promised
<1>0. PICK e \in Events : e = made + 1
  BY DEF SpoolInv, TypeOK, Send, Events
<1>1. /\ made' = e /\ faults' = faults /\ spool' = spool /\ rest' = rest /\ buf' = buf
      /\ log' = log /\ refused' = refused
      /\ \/ queue' = queue \cup {e} /\ dropped' = dropped
         \/ queue' = queue /\ dropped' = dropped \cup {e}
  BY <1>0 DEF Send, fileVars, backendVars
<1>2. TypeOK'
  <2>1. /\ pc' = pc /\ attempt' = attempt /\ at' = at /\ stopping' = stopping /\ torn' = torn
    BY DEF Send, fileVars
  <2>2. made' \in 0..MaxEvents
    BY <1>0, <1>1 DEF SpoolInv, TypeOK, Events
  <2> QED BY <1>1, <2>1, <2>2 DEF SpoolInv, TypeOK
<1>3. Blocks'
  BY DEF SpoolInv, Blocks, Block, Send, fileVars
<1>4. Drained' /\ Clean'
  BY DEF SpoolInv, Drained, Clean, Send, fileVars, backendVars
<1>5. Ending'
  BY DEF SpoolInv, Ending, Send
<1>6. Known'
  <2>1. made \in Nat /\ e \notin 1..made /\ \A other \in 1..made : other \in 1..e
    BY <1>0 DEF SpoolInv, TypeOK
  <2> QED BY <1>0, <1>1, <2>1 DEF SpoolInv, Known
<1>7. ReadsOne
  <2>1. ASSUME NEW other \in Events \ {e} PROVE Stays(other)
    <3>1. other <= made <=> other <= made'
      BY <1>0, <1>1 DEF SpoolInv, TypeOK, Events
    <3> QED BY <1>1, <3>1, StageNow, StageNext DEF Stays, StageAt
  <2>2. /\ e \notin queue \cup buf \cup log \cup refused /\ ~(e <= made) /\ e <= made'
        /\ \A line \in spool \cup rest : e \notin line.events
    BY <1>0, <1>1 DEF SpoolInv, Known, TypeOK
  <2>3. Stage[e] = "new"
    BY <2>2, StageNow DEF StageAt
  <2>4. Stage'[e] = IF e \in queue' THEN "memory" ELSE "lost"
    BY <1>1, <2>2, StageNext DEF StageAt
  <2>5. e \in queue' \/ e \in dropped'
    BY <1>1
  <2> QED BY <2>1, <2>3, <2>4, <2>5 DEF ReadsOne
<1> QED BY <1>1, <1>2, <1>3, <1>4, <1>5, <1>6, <1>7 DEF Kept, Promised

(* A batch is posted: what was in hand, or on the lines, gets settled. *)
LEMMA Settled ==
  ASSUME NEW batch, batch \subseteq OnDisk \cup buf, Answered(batch) \/ Raised(batch),
         made' = made, queue' = queue, buf' \subseteq buf,
         buf \ buf' \subseteq log' \cup refused',
         \A line \in spool' \cup rest' : line \in spool \cup rest,
         \A line \in (spool \cup rest) \ (spool' \cup rest') :
           line.whole => line.events \subseteq log \cup refused
  PROVE  SettlesSome
<1>1. /\ log \cup refused \subseteq log' \cup refused'
      /\ log' \cup refused' \subseteq log \cup refused \cup batch
  BY DEF Answered, Raised
<1>2. ASSUME NEW e \in Events
      PROVE  Stays(e) \/ (Stage[e] \in {"memory", "disk"} /\ Stage'[e] = "settled")
  <2>1. CASE e \in log \cup refused
    BY <1>1, <2>1, StageNow, StageNext DEF Stays, StageAt
  <2>2. CASE e \notin log \cup refused /\ e \in log' \cup refused'
    <3>1. e \in OnDisk \cup buf
      BY <1>1, <2>2
    <3>2. Stage[e] \in {"memory", "disk"}
      BY <2>2, <3>1, StageNow, OnLines DEF StageAt, OnDisk
    <3>3. Stage'[e] = "settled"
      BY <2>2, StageNext DEF StageAt
    <3> QED BY <3>2, <3>3
  <2>3. CASE e \notin log' \cup refused'
    <3>1. e \in queue \cup buf <=> e \in queue' \cup buf'
      BY <2>3
    <3>2. /\ e \notin log \cup refused
          /\ (\E line \in spool \cup rest : line.whole /\ e \in line.events)
               <=> (\E line \in spool' \cup rest' : line.whole /\ e \in line.events)
      BY <1>1, <2>3
    <3> QED BY <2>3, <3>1, <3>2, StageNow, StageNext DEF Stays, StageAt
  <2> QED BY <2>1, <2>2, <2>3
<1> QED BY <1>2 DEF SettlesSome

LEMMA FlushKeeps ==
  ASSUME SpoolInv, Flush PROVE Kept' /\ Promised
<1>1. TypeOK'
  BY DEF SpoolInv, TypeOK, Flush, Answered, Raised, memoryVars, fileVars
<1>2. Blocks'
  BY FileAlone DEF Flush, fileVars
<1>3. Drained'
  BY DEF SpoolInv, TypeOK, Line, Drained, Flush, Answered, Raised, fileVars
<1>4. Ending'
  BY DEF SpoolInv, Ending, Flush, memoryVars
<1>5. Known'
  BY DEF SpoolInv, Known, Flush, Answered, Raised, memoryVars, fileVars
<1>6. Clean'
  BY DEF SpoolInv, Clean, Flush, fileVars
<1>7. SettlesSome
  BY Settled DEF Flush, memoryVars, fileVars
<1>8. dropped' = dropped /\ faults' = faults
  BY DEF Flush, memoryVars
<1> QED BY <1>1, <1>2, <1>3, <1>4, <1>5, <1>6, <1>7, <1>8 DEF Kept, Promised

LEMMA LastPostKeeps ==
  ASSUME SpoolInv, LastPost PROVE Kept' /\ Promised
<1>1. TypeOK'
  BY DEF SpoolInv, TypeOK, LastPost, Answered, Raised, memoryVars, fileVars
<1>2. Blocks'
  BY FileAlone DEF LastPost, fileVars
<1>3. Drained'
  BY DEF Drained, LastPost
<1>4. Ending'
  BY DEF SpoolInv, Ending, LastPost, memoryVars
<1>5. Known'
  BY DEF SpoolInv, Known, LastPost, Answered, Raised, memoryVars, fileVars
<1>6. Clean'
  BY DEF SpoolInv, Clean, LastPost, fileVars
<1>7. SettlesSome
  <2>1. buf \ buf' \subseteq log' \cup refused' /\ buf' \subseteq buf
    BY DEF LastPost, Answered
  <2> QED BY <2>1, Settled DEF LastPost, memoryVars, fileVars
<1>8. dropped' = dropped /\ faults' = faults
  BY DEF LastPost, memoryVars
<1> QED BY <1>1, <1>2, <1>3, <1>4, <1>5, <1>6, <1>7, <1>8 DEF Kept, Promised

(* The line the drain is at. *)
LEMMA FirstUndrained ==
  ASSUME SpoolInv, pc = "drain", Undrained # {}
  PROVE  /\ First(Undrained) \in spool /\ First(Undrained).no >= at
         /\ First(Undrained).no \in Nat \ {0}
         /\ \A line \in spool : line.no < First(Undrained).no + 1 =>
              line.no < at \/ line = First(Undrained)
<1>1. PICK n \in Nat : Block(spool, 1, n)
  BY DEF SpoolInv, Blocks
<1>2. Undrained \subseteq Line /\ spool \subseteq Line
  BY DEF SpoolInv, TypeOK, Undrained
<1>3. /\ First(Undrained) \in Undrained
      /\ \A other \in Undrained : First(Undrained).no <= other.no
  BY <1>2, FirstIsFirst
<1>4. PICK first : first = First(Undrained)
  OBVIOUS
<1>5. first \in spool /\ first.no >= at /\ first.no \in Nat \ {0}
  BY <1>2, <1>3, <1>4 DEF Undrained, Line
<1>6. ASSUME NEW line \in spool, line.no < first.no + 1, ~(line.no < at)
      PROVE  line = first
  <2>1. line.no \in Nat /\ at \in Nat
    BY <1>2 DEF Line, SpoolInv, TypeOK
  <2>2. first.no <= line.no
    BY <1>3, <1>4, <1>6, <2>1 DEF Undrained
  <2>3. first.no = line.no
    BY <1>5, <1>6, <2>1, <2>2
  <2> QED BY <1>1, <1>5, <2>3 DEF Block
<1> QED BY <1>4, <1>5, <1>6

(* The drain goes on behind the line it is at. *)
LEMMA DrainsOn ==
  ASSUME SpoolInv, pc = "drain", Undrained # {}, at' = First(Undrained).no + 1,
         UNCHANGED fileVars, pc' = pc, buf' = buf,
         log \cup refused \subseteq log' \cup refused',
         First(Undrained).whole => First(Undrained).events \subseteq log' \cup refused'
  PROVE  Blocks' /\ Drained' /\ at' \in Nat \ {0}
<1>1. PICK first : first = First(Undrained)
  OBVIOUS
<1>2. /\ first \in spool /\ first.no \in Nat \ {0}
      /\ \A line \in spool : line.no < first.no + 1 => line.no < at \/ line = first
  BY <1>1, FirstUndrained
<1>3. at' \in Nat \ {0}
  BY <1>1, <1>2
<1>4. PICK n \in Nat : Block(spool, 1, n)
  BY DEF SpoolInv, Blocks
<1>5. at' <= n + 1
  BY <1>1, <1>2, <1>4 DEF Block
<1>6. Blocks'
  BY <1>4, <1>5 DEF SpoolInv, Blocks, Block, fileVars
<1>7. ASSUME NEW line \in spool, line.whole, line.no < at'
      PROVE  line.events \subseteq log' \cup refused'
  BY <1>1, <1>2, <1>7 DEF SpoolInv, Drained
<1>8. Drained'
  BY <1>7 DEF SpoolInv, Drained, fileVars
<1> QED BY <1>3, <1>6, <1>8

LEMMA QuarantineKeeps ==
  ASSUME SpoolInv, Quarantine PROVE Kept' /\ Promised
<1>1. Blocks' /\ Drained' /\ at' \in Nat \ {0}
  BY DrainsOn DEF Quarantine, backendVars
<1>2. TypeOK'
  BY <1>1 DEF SpoolInv, TypeOK, Quarantine, memoryVars, backendVars, fileVars
<1>3. Ending' /\ Known' /\ Clean'
  BY DEF SpoolInv, Ending, Known, Clean, Quarantine, memoryVars, backendVars, fileVars
<1>4. StaysAll
  BY PlacesAlone DEF Quarantine, memoryVars
<1>5. dropped' = dropped /\ faults' = faults
  BY DEF Quarantine, memoryVars
<1> QED BY <1>1, <1>2, <1>3, <1>4, <1>5 DEF Kept, Promised

LEMMA DrainLineKeeps ==
  ASSUME SpoolInv, DrainLine PROVE Kept' /\ Promised
<1>1. PICK first : first = First(Undrained)
  OBVIOUS
<1>2. /\ first \in spool /\ first.no >= at /\ first.whole
      /\ first.events \subseteq Events /\ first.events \subseteq OnDisk
  <2>1. first \in spool /\ first.no >= at /\ first.whole
    BY <1>1, FirstUndrained DEF DrainLine
  <2> QED BY <2>1 DEF SpoolInv, TypeOK, Line, OnDisk, EventsOf
<1>3. /\ pc = "drain" /\ memoryVars' = memoryVars /\ buf' = buf /\ attempt' = attempt
      /\ stopping' = stopping /\ faults' = faults /\ torn' = torn
  BY DEF DrainLine
<1>4. Answered(first.events) \/ Raised(first.events)
  BY <1>1 DEF DrainLine
<1>5. /\ log \cup refused \subseteq log' \cup refused'
      /\ log' \cup refused' \subseteq log \cup refused \cup first.events
  BY <1>4 DEF Answered, Raised
<1>6. PICK n \in Nat : Block(spool, 1, n) /\ at <= n + 1
  BY <1>3 DEF SpoolInv, Blocks
<1>7. /\ \A line \in spool' \cup rest' : line \in spool
      /\ \A line \in spool \ (spool' \cup rest') : line.no < at
  BY <1>3, <1>6 DEF SpoolInv, Blocks, TypeOK, Line, DrainLine, Undrained
<1>8. rest = {}
  BY <1>3 DEF SpoolInv, Blocks
<1>9. Blocks' /\ Drained' /\ at' \in Nat \ {0} /\ pc' \in {"drain", "rewrite"}
  <2>1. CASE Answered(first.events) /\ at' = first.no + 1 /\ UNCHANGED <<pc, spool, torn, rest>>
    <3>1. first.events \subseteq log' \cup refused'
      BY <2>1 DEF Answered
    <3> QED BY <1>1, <1>3, <1>5, <2>1, <3>1, DrainsOn DEF DrainLine, fileVars
  <2>2. CASE rest' = Undrained /\ spool' = {} /\ pc' = "rewrite" /\ at' = at
    <3>1. at \in Nat \ {0}
      BY DEF SpoolInv, TypeOK
    <3>2. n + 1 - at \in Nat /\ Block(rest', at', n + 1 - at)
      BY <1>6, <2>2, <3>1, BlockRest DEF Undrained
    <3>3. \E m \in Nat : Block(rest', at', m)
      BY <3>2
    <3>4. Block({}, 1, 0)
      BY DEF Block
    <3>5. Blocks'
      BY <2>2, <3>3, <3>4 DEF Blocks
    <3> QED BY <1>3, <1>5, <2>2, <3>1, <3>5 DEF SpoolInv, Drained
  <2> QED BY <1>1, <2>1, <2>2 DEF DrainLine
<1>10. TypeOK'
  <2>1. log' \subseteq Events /\ refused' \subseteq Events
    BY <1>2, <1>5 DEF SpoolInv, TypeOK
  <2>2. spool' \subseteq Line /\ rest' \subseteq Line
    BY <1>7 DEF SpoolInv, TypeOK
  <2> QED BY <1>3, <1>9, <2>1, <2>2 DEF SpoolInv, TypeOK, memoryVars
<1>11. Ending'
  BY <1>3, <1>9 DEF Ending
<1>12. Known'
  <2>1. first.events \subseteq 1..made /\ first.events \cap queue = {}
    BY <1>2 DEF SpoolInv, Known
  <2> QED BY <1>3, <1>5, <1>7, <2>1 DEF SpoolInv, Known, memoryVars
<1>13. Clean'
  BY <1>3, <1>7 DEF SpoolInv, Clean
<1>14. SettlesSome
  <2>1. \A line \in (spool \cup rest) \ (spool' \cup rest') :
           line.whole => line.events \subseteq log \cup refused
    BY <1>3, <1>7, <1>8 DEF SpoolInv, Drained
  <2>2. \A line \in spool' \cup rest' : line \in spool \cup rest
    BY <1>7
  <2> QED BY <1>2, <1>3, <1>4, <2>1, <2>2, Settled DEF memoryVars
<1>15. dropped' = dropped
  BY <1>3 DEF memoryVars
<1> QED BY <1>3, <1>9, <1>10, <1>11, <1>12, <1>13, <1>14, <1>15 DEF Kept, Promised

(* The file can go when the drain is past its end. *)
LEMMA DrainDoneKeeps ==
  ASSUME SpoolInv, DrainDone PROVE Kept' /\ Promised
<1>1. /\ pc = "drain" /\ spool' = {} /\ rest' = rest /\ rest = {} /\ buf' = {}
      /\ made' = made /\ queue' = queue /\ log' = log /\ refused' = refused
      /\ dropped' = dropped /\ faults' = faults
  BY DEF DrainDone, memoryVars, backendVars, SpoolInv, Blocks
<1>2. TypeOK'
  <2>1. torn' \in BOOLEAN
    BY Zenon DEF DrainDone
  <2>2. pc' \in {"get", "final"} /\ attempt' = attempt /\ at' = at /\ stopping' = stopping
    BY DEF DrainDone, Resume
  <2> QED BY <1>1, <2>1, <2>2 DEF SpoolInv, TypeOK
<1>3. Block({}, 1, 0)
  BY DEF Block
<1>4. Blocks'
  BY <1>1, <1>3 DEF DrainDone, Resume, Blocks
<1>5. Drained' /\ Ending'
  BY <1>1 DEF Drained, Ending, DrainDone, Resume
<1>6. Known' /\ Clean'
  BY <1>1 DEF SpoolInv, Known, Clean, DrainDone
<1>7. /\ \A line \in spool \cup rest : line.whole => line.events \subseteq log \cup refused
      /\ buf \subseteq log \cup refused
  BY <1>1 DEF SpoolInv, Drained, DrainDone, Undrained, TypeOK, Line
<1>8. ASSUME NEW e \in Events PROVE Stays(e)
  <2>1. CASE e \in log \cup refused
    BY <1>1, <2>1, StageNow, StageNext DEF Stays, StageAt
  <2>2. CASE e \notin log \cup refused
    BY <1>1, <1>7, <2>2, StageNow, StageNext DEF Stays, StageAt
  <2> QED BY <2>1, <2>2
<1>9. StaysAll
  BY <1>8 DEF StaysAll
<1> QED BY <1>1, <1>2, <1>4, <1>5, <1>6, <1>9 DEF Kept, Promised

(* An append makes the file a line longer. *)
LEMMA Grows ==
  ASSUME SpoolInv, NEW batch \in SUBSET Events, NEW whole \in BOOLEAN, NEW lines,
         lines = spool \cup {[no |-> NextNo, events |-> batch, whole |-> whole]}
  PROVE  /\ lines \subseteq Line
         /\ \E n \in Nat : Block(lines, 1, n)
<1>1. PICK n \in Nat : Block(spool, 1, n)
  BY DEF SpoolInv, Blocks
<1>2. NextNo = n + 1
  <2>1. 1 \in Nat /\ Cardinality(spool) = n
    BY <1>1, BlockCount
  <2> QED BY <2>1 DEF NextNo
<1>3. PICK line : line = [no |-> n + 1, events |-> batch, whole |-> whole]
  OBVIOUS
<1>4. line.no = n + 1 /\ line \in Line /\ lines = spool \cup {line}
  BY <1>2, <1>3 DEF Line
<1>5. Block(lines, 1, n + 1)
  BY <1>1, <1>4, BlockAppend
<1> QED BY <1>4, <1>5 DEF SpoolInv, TypeOK

(* Part of what is in hand goes to the file. *)
LEMMA Appends ==
  ASSUME SpoolInv, NEW batch, batch \subseteq buf, AppendLine(batch) \/ AppendFails(batch),
         pc \in {"append", "save"}, pc' \in {"get", "final", "save", "exited"},
         memoryVars' = memoryVars, backendVars' = backendVars,
         buf' = buf \ batch, attempt' = attempt, at' = at, stopping' = stopping
  PROVE  /\ TypeOK' /\ Blocks' /\ Drained' /\ Known' /\ Clean' /\ Promised
<1>1. /\ made' = made /\ queue' = queue /\ dropped' = dropped /\ log' = log /\ refused' = refused
      /\ rest' = rest /\ rest = {}
  BY DEF AppendLine, AppendFails, memoryVars, backendVars, SpoolInv, Blocks
<1>2. batch \subseteq Events /\ {} \subseteq Events /\ torn \in BOOLEAN /\ (~torn) \in BOOLEAN
  BY Zenon DEF SpoolInv, TypeOK
<1>3. PICK line, broken : /\ line = [no |-> NextNo, events |-> batch, whole |-> ~torn]
                          /\ broken = [no |-> NextNo, events |-> {}, whole |-> FALSE]
  OBVIOUS
<1>4. /\ line.events = batch /\ (line.whole <=> ~torn)
      /\ broken.events = {} /\ ~broken.whole
  BY <1>3
<1>5. \/ /\ spool' = spool \cup {line} /\ ~torn' /\ faults' = faults
      \/ /\ spool' = spool \cup {broken} /\ torn' /\ faults' = faults + 1
      \/ /\ spool' = spool /\ (torn' <=> torn) /\ faults' = faults + 1
  BY <1>3 DEF AppendLine, AppendFails
<1>6. faults' \in 0..MaxFaults
  BY DEF AppendLine, AppendFails, SpoolInv, TypeOK
<1>7. torn' \in BOOLEAN
  BY <1>2 DEF AppendLine, AppendFails
<1>8. spool' \subseteq Line /\ \E n \in Nat : Block(spool', 1, n)
  <2>1. CASE spool' = spool \cup {line}
    BY <1>2, <1>3, <2>1, Grows
  <2>2. CASE spool' = spool \cup {broken}
    BY <1>2, <1>3, <2>2, Grows
  <2>3. CASE spool' = spool
    BY <2>3 DEF SpoolInv, TypeOK, Blocks
  <2> QED BY <1>5, <2>1, <2>2, <2>3
<1>9. TypeOK'
  BY <1>1, <1>6, <1>7, <1>8 DEF SpoolInv, TypeOK
<1>10. Blocks'
  BY <1>1, <1>8 DEF Blocks
<1>11. Drained'
  BY DEF Drained
<1>12. Known'
  BY <1>1, <1>4, <1>5 DEF SpoolInv, Known
<1>13. faults \in Nat /\ faults + 1 # 0
  BY DEF SpoolInv, TypeOK
<1>14. dropped \subseteq dropped' /\ (faults' = 0 => faults = 0)
  BY <1>1, <1>5, <1>13
<1>15. Clean'
  BY <1>1, <1>4, <1>5, <1>13 DEF SpoolInv, Clean
<1>16. CASE spool' = spool \cup {line} /\ ~torn
  <2>1. ASSUME NEW e \in Events
        PROVE  Stays(e) \/ (Stage[e] = "memory" /\ Stage'[e] = "disk")
    BY <1>1, <1>4, <1>16, StageNow, StageNext DEF Stays, StageAt
  <2> QED BY <1>9, <1>10, <1>11, <1>12, <1>14, <1>15, <2>1 DEF SavesSome, Promised
<1>17. CASE ~(spool' = spool \cup {line} /\ ~torn)
  <2>1. ASSUME NEW e \in Events
        PROVE  Stays(e) \/ (Stage[e] = "memory" /\ Stage'[e] = "lost")
    <3>1. (\E l \in spool' \cup rest' : l.whole /\ e \in l.events)
            <=> (\E l \in spool \cup rest : l.whole /\ e \in l.events)
      BY <1>1, <1>4, <1>5, <1>17
    <3>2. e \in queue \cup buf => e <= made
      BY DEF SpoolInv, Known
    <3> QED BY <1>1, <3>1, <3>2, StageNow, StageNext DEF Stays, StageAt
  <2>2. faults' # 0
    BY <1>5, <1>13, <1>17 DEF SpoolInv, Clean
  <2>3. LosesSome
    BY <2>1 DEF LosesSome
  <2> QED BY <1>9, <1>10, <1>11, <1>12, <1>14, <1>15, <2>2, <2>3 DEF Promised
<1> QED BY <1>16, <1>17

LEMMA SpoolKeeps ==
  ASSUME SpoolInv, Spool PROVE Kept' /\ Promised
<1>1. /\ pc = "append" /\ pc' \in {"get", "final"} /\ (pc' = "final" => stopping')
      /\ buf' = buf \ buf
  BY DEF Spool, Resume
<1>2. TypeOK' /\ Blocks' /\ Drained' /\ Known' /\ Clean' /\ Promised
  BY <1>1, Appends DEF Spool
<1>3. Ending'
  BY <1>1 DEF Ending
<1> QED BY <1>2, <1>3 DEF Kept

LEMMA SaveKeeps ==
  ASSUME SpoolInv, Save PROVE Kept' /\ Promised
<1>1. /\ pc = "save" /\ pc' \in {"save", "exited"} /\ (pc' = "exited" => buf' = {})
      /\ Chunk \subseteq buf /\ stopping' = stopping /\ queue' = queue
  BY DEF Save, Chunk, memoryVars
<1>2. TypeOK' /\ Blocks' /\ Drained' /\ Known' /\ Clean' /\ Promised
  BY <1>1, Appends DEF Save
<1>3. Ending'
  BY <1>1 DEF SpoolInv, Ending
<1> QED BY <1>2, <1>3 DEF Kept

(* A rewrite writes nothing but what was there to be written, and all of   *)
(* it unless it is cut off.                                                *)
LEMMA Rewritten ==
  ASSUME SpoolInv, pc = "rewrite", spool' = Renumbered(rest) \/ CutOff
  PROVE  /\ spool' \subseteq Line
         /\ \E n \in Nat : Block(spool', 1, n)
         /\ \A line \in spool' :
              \/ ~line.whole /\ line.events = {}
              \/ \E old \in rest : line.events = old.events /\ line.whole = old.whole
<1>1. rest \subseteq Line /\ at \in Nat \ {0}
  BY DEF SpoolInv, TypeOK
<1>2. PICK n \in Nat : Block(rest, at, n)
  BY DEF SpoolInv, Blocks
<1>3. Cardinality(rest) = n
  BY <1>1, <1>2, BlockCount
<1>4. CASE spool' = Renumbered(rest)
  BY <1>1, <1>2, <1>4, BlockRenumbered, RenumberedHolds
<1>5. CASE CutOff
  <2>1. PICK k \in 0..n :
          LET head == Renumbered({line \in rest : line.no < at + k})
          IN  \/ spool' = head
              \/ spool' = head \cup {[no |-> k + 1, events |-> {}, whole |-> FALSE]}
    BY <1>3, <1>5 DEF CutOff
  <2>2. PICK lines : lines = {line \in rest : line.no < at + k}
    OBVIOUS
  <2>3. PICK head : head = Renumbered(lines)
    OBVIOUS
  <2>4. PICK broken : broken = [no |-> k + 1, events |-> {}, whole |-> FALSE]
    OBVIOUS
  <2>5. k \in Nat /\ lines \subseteq rest /\ lines \subseteq Line /\ Block(lines, at, k)
    BY <1>1, <1>2, <2>2, BlockHead
  <2>6. head \subseteq Line /\ Block(head, 1, k)
    BY <1>1, <2>3, <2>5, BlockRenumbered
  <2>7. broken \in Line /\ broken.no = k + 1 /\ ~broken.whole /\ broken.events = {}
    BY <2>4, <2>5 DEF Line
  <2>8. k + 1 \in Nat /\ Block(head \cup {broken}, 1, k + 1)
    BY <2>5, <2>6, <2>7, BlockAppend
  <2>9. \A line \in head : \E old \in rest : line.events = old.events /\ line.whole = old.whole
    BY <2>3, <2>5, RenumberedHolds
  <2>10. spool' = head \/ spool' = head \cup {broken}
    BY <2>1, <2>2, <2>3, <2>4
  <2>11. CASE spool' = head
    BY <2>5, <2>6, <2>9, <2>11
  <2>12. CASE spool' = head \cup {broken}
    BY <2>6, <2>7, <2>8, <2>9, <2>12
  <2> QED BY <2>10, <2>11, <2>12
<1> QED BY <1>4, <1>5

LEMMA RewriteKeeps ==
  ASSUME SpoolInv, Rewrite PROVE Kept' /\ Promised
<1>1. /\ pc = "rewrite" /\ pc' \in {"get", "final"} /\ (pc' = "final" => stopping')
      /\ spool = {} /\ rest' = {} /\ buf' = {} /\ buf \subseteq log \cup refused
      /\ made' = made /\ queue' = queue /\ dropped' = dropped /\ log' = log /\ refused' = refused
      /\ attempt' = attempt /\ at' = at /\ stopping' = stopping
  BY DEF Rewrite, Resume, memoryVars, backendVars, SpoolInv, Blocks, Drained
<1>2. /\ spool' \subseteq Line
      /\ \E n \in Nat : Block(spool', 1, n)
      /\ \A line \in spool' :
           \/ ~line.whole /\ line.events = {}
           \/ \E old \in rest : line.events = old.events /\ line.whole = old.whole
  BY <1>1, Rewritten DEF Rewrite
<1>3. faults' \in 0..MaxFaults /\ torn' \in BOOLEAN
  <2>1. faults' \in 0..MaxFaults
    BY DEF Rewrite, SpoolInv, TypeOK
  <2>2. CutOff => torn' \in BOOLEAN
    BY Zenon DEF CutOff
  <2>3. torn \in BOOLEAN
    BY DEF SpoolInv, TypeOK
  <2> QED BY <2>1, <2>2, <2>3 DEF Rewrite
<1>4. TypeOK'
  BY <1>1, <1>2, <1>3 DEF SpoolInv, TypeOK
<1>5. Blocks' /\ Drained' /\ Ending'
  BY <1>1, <1>2 DEF Blocks, Drained, Ending
<1>6. Known'
  BY <1>1, <1>2 DEF SpoolInv, Known
<1>7. CASE spool' = Renumbered(rest) /\ UNCHANGED <<torn, faults>>
  <2>1. \A line \in spool' : \E old \in rest : line.events = old.events /\ line.whole = old.whole
    BY <1>7, RenumberedHolds DEF SpoolInv, TypeOK
  <2>2. \A old \in rest : \E line \in spool' : line.events = old.events /\ line.whole = old.whole
    BY <1>7, HeldByRenumbered DEF SpoolInv, TypeOK
  <2>3. Clean'
    BY <1>1, <1>7, <2>1 DEF SpoolInv, Clean
  <2>4. ASSUME NEW e \in Events PROVE Stays(e)
    <3>1. (\E line \in spool' \cup rest' : line.whole /\ e \in line.events)
            <=> (\E line \in spool \cup rest : line.whole /\ e \in line.events)
      BY <1>1, <2>1, <2>2
    <3> QED BY <1>1, <3>1, StageNow, StageNext DEF Stays, StageAt
  <2> QED BY <1>1, <1>4, <1>5, <1>6, <1>7, <2>3, <2>4 DEF Kept, Promised, StaysAll
<1>8. CASE faults' = faults + 1
  <2>1. faults' # 0
    BY <1>8 DEF SpoolInv, TypeOK
  <2>2. Clean'
    BY <2>1 DEF Clean
  <2>3. ASSUME NEW e \in Events
        PROVE  Stays(e) \/ (Stage[e] = "disk" /\ Stage'[e] = "lost")
    <3>1. (\E line \in spool' \cup rest' : line.whole /\ e \in line.events)
            => \E line \in spool \cup rest : line.whole /\ e \in line.events
      BY <1>1, <1>2
    <3>2. (\E line \in spool \cup rest : line.whole /\ e \in line.events)
            => e \notin queue /\ e <= made
      BY DEF SpoolInv, Known
    <3> QED BY <1>1, <3>1, <3>2, StageNow, StageNext DEF Stays, StageAt
  <2>4. LosesSome
    BY <1>1, <2>3 DEF LosesSome
  <2> QED BY <1>1, <1>4, <1>5, <1>6, <2>1, <2>2, <2>4 DEF Kept, Promised
<1> QED BY <1>7, <1>8 DEF Rewrite

LEMMA KillKeeps ==
  ASSUME SpoolInv, Kill PROVE Kept' /\ Promised
<1>1. /\ pc' = "off" /\ queue' = {} /\ buf' = {} /\ rest' = {} /\ faults' = faults + 1
      /\ made' = made /\ dropped' = dropped /\ log' = log /\ refused' = refused
      /\ attempt' = attempt /\ at' = at /\ stopping' = stopping
  BY DEF Kill, memoryVars, backendVars
<1>2. /\ spool' \subseteq Line
      /\ \E n \in Nat : Block(spool', 1, n)
      /\ \A line \in spool' :
           \/ ~line.whole /\ line.events = {}
           \/ \E old \in spool \cup rest : line.events = old.events /\ line.whole = old.whole
      /\ \/ pc = "rewrite"
         \/ \A line \in spool \cup rest : line \in spool'
  <2>1. CASE pc # "rewrite" /\ spool' = spool
    BY <2>1 DEF SpoolInv, TypeOK, Blocks
  <2>2. CASE /\ pc \in {"append", "save"}
             /\ spool' = spool \cup {[no |-> NextNo, events |-> {}, whole |-> FALSE]}
    <3>1. PICK broken : broken = [no |-> NextNo, events |-> {}, whole |-> FALSE]
      OBVIOUS
    <3>2. broken.events = {} /\ ~broken.whole /\ spool' = spool \cup {broken}
      BY <2>2, <3>1
    <3>3. spool' \subseteq Line /\ \E n \in Nat : Block(spool', 1, n)
      BY <2>2, Grows
    <3>4. rest = {}
      BY <2>2 DEF SpoolInv, Blocks
    <3> QED BY <3>2, <3>3, <3>4
  <2>3. CASE pc = "rewrite" /\ CutOff
    BY <2>3, Rewritten
  <2> QED BY <2>1, <2>2, <2>3 DEF Kill
<1>3. torn' \in BOOLEAN
  <2>1. torn \in BOOLEAN
    BY DEF SpoolInv, TypeOK
  <2>2. CutOff => torn' \in BOOLEAN
    BY Zenon DEF CutOff
  <2> QED BY <2>1, <2>2 DEF Kill
<1>4. faults' \in 0..MaxFaults /\ faults' # 0
  BY DEF Kill, SpoolInv, TypeOK
<1>5. TypeOK'
  BY <1>1, <1>2, <1>3, <1>4 DEF SpoolInv, TypeOK
<1>6. Blocks' /\ Drained' /\ Ending'
  BY <1>1, <1>2 DEF Blocks, Drained, Ending
<1>7. Known'
  BY <1>1, <1>2 DEF SpoolInv, Known
<1>8. Clean'
  BY <1>4 DEF Clean
<1>9. ASSUME NEW e \in Events
      PROVE  \/ Stays(e)
             \/ (Stage[e] = "memory" \/ (Stage[e] = "disk" /\ pc = "rewrite")) /\ Stage'[e] = "lost"
  <2>1. (\E line \in spool' \cup rest' : line.whole /\ e \in line.events)
          => \E line \in spool \cup rest : line.whole /\ e \in line.events
    BY <1>1, <1>2
  <2>2. pc # "rewrite" /\ (\E line \in spool \cup rest : line.whole /\ e \in line.events)
          => \E line \in spool' \cup rest' : line.whole /\ e \in line.events
    BY <1>2
  <2>3. \/ e \in queue \cup buf
        \/ \E line \in spool \cup rest : line.whole /\ e \in line.events
        => e <= made
    BY DEF SpoolInv, Known
  <2> QED BY <1>1, <2>1, <2>2, <2>3, StageNow, StageNext DEF Stays, StageAt
<1>10. LosesSome
  BY <1>9 DEF LosesSome
<1> QED BY <1>1, <1>4, <1>5, <1>6, <1>7, <1>8, <1>10 DEF Kept, Promised
------------------------------------------------------------------------------
LEMMA WorkKeeps ==
  ASSUME SpoolInv, Work PROVE Kept' /\ Promised
BY TakeKeeps, FlushDueKeeps, NoticeStopKeeps, FlushKeeps, SpoolKeeps, DrainDoneKeeps,
   QuarantineKeeps, DrainLineKeeps, RewriteKeeps, FinalKeeps, LastPostKeeps, SaveKeeps DEF Work

LEMMA NextKeeps ==
  ASSUME SpoolInv, Next PROVE SpoolInv' /\ Promised
<1>1. Kept' /\ Promised
  BY StartKeeps, SendKeeps, WorkKeeps, RequestStopKeeps, ExitKeeps, KillKeeps DEF Next
<1>2. LossNeedsFault'
  BY <1>1, PromisedLosses DEF SpoolInv, Kept
<1> QED BY <1>1, <1>2 DEF Kept, SpoolInv

LEMMA StutterKeeps ==
  ASSUME SpoolInv, UNCHANGED vars PROVE SpoolInv' /\ UNCHANGED Promise!vars
<1>1. /\ made' = made /\ queue' = queue /\ buf' = buf /\ pc' = pc /\ attempt' = attempt
      /\ at' = at /\ stopping' = stopping /\ spool' = spool /\ torn' = torn /\ rest' = rest
      /\ log' = log /\ refused' = refused /\ dropped' = dropped /\ faults' = faults
  BY DEF vars
<1>2. Stage' = Stage /\ (pc = "rewrite")' = (pc = "rewrite")
  BY <1>1 DEF Stage, OnDisk, EventsOf
<1>3. TypeOK' /\ Blocks' /\ Drained' /\ Ending' /\ Known' /\ Clean'
  BY <1>1 DEF SpoolInv, TypeOK, Blocks, Block, Drained, Ending, Known, Clean
<1>4. LossNeedsFault'
  BY <1>1, <1>2 DEF SpoolInv, LossNeedsFault
<1> QED BY <1>2, <1>3, <1>4 DEF SpoolInv, Promise!vars

(* The invariant: the lines of the file are numbered without a gap, what a  *)
(* drain is past has reached the backend, the queue holds nothing that is   *)
(* anywhere else, and nothing is lost without a fault.                      *)
THEOREM SpoolInvariant == Spec => []SpoolInv
<1>1. SpoolInv /\ [Next]_vars => SpoolInv'
  BY NextKeeps, StutterKeeps
<1> QED BY <1>1, InitSpool, PTL DEF Spec

(* An event is lost by a kill, a failed write or a full queue only: neither *)
(* the retries of _flush_with_retry, nor a drain that fails half-way, nor   *)
(* an orderly stop loses one.                                               *)
THEOREM LossAlwaysNeedsFault == Spec => []LossNeedsFault
<1>1. SpoolInv => LossNeedsFault
  BY DEF SpoolInv
<1> QED BY <1>1, SpoolInvariant, PTL

(* The client implements Outbox: an event goes from memory to disk or to   *)
(* the backend and from disk to the backend only, and what is on disk is    *)
(* lost by nothing but a rewrite that is cut off.                           *)
THEOREM OutboxAlwaysKept == Spec => OutboxKept
<1>1. Init => Promise!Init
  <2> SUFFICES ASSUME Init PROVE Promise!Init
    OBVIOUS
  <2>1. /\ spool \cup rest = {} /\ log \cup refused = {} /\ queue \cup buf = {}
        /\ \A e \in Events : ~(e <= made)
    BY DEF Init, Events
  <2>2. ASSUME NEW e \in Events PROVE Stage[e] = "new"
    BY <2>1, StageNow DEF StageAt
  <2>3. Stage = [e \in Events |-> "new"]
    BY <2>2 DEF Stage
  <2> QED BY <2>3 DEF Init, Promise!Init
<1>2. SpoolInv /\ [Next]_vars => [Promise!Next]_(Promise!vars)
  BY NextKeeps, StutterKeeps, PromisedSteps
<1> QED BY <1>1, <1>2, SpoolInvariant, PTL DEF Spec, OutboxKept, Promise!Spec
------------------------------------------------------------------------------
(* The connection to the reader. *)
USE ProbeAssumption, TroublesAssumption

(* Whether the connection thread is past the dialling of a connection that *)
(* it has not begun to tear down.                                          *)
Connected == loop.place \in {"await", "active"}

(* A connection is only dialled with a target. *)
Targeted == loop.place \in {"dial", "await", "active"} => target

(* What an open connection has, and one that is up. *)
Opened ==
  /\ conn.open => conn.generation \in Generations
  /\ Connected => conn.open
  /\ link = "down" => conn.broken

(* A connection that is on its way to its end, or a request for one, is    *)
(* paid for by a trouble or a request that no connection has followed yet. *)
Spent   == IF Connected /\ ~conn.lost /\ Alive THEN 0 ELSE 1
Pending == IF Reconnects THEN 1 ELSE 0
Caused  ==
  /\ ConnectionsHaveCause
  /\ ~stop => conn.generation + Spent + Pending <= 1 + troubles + asked

(* Why a receive thread has ended, and when too many probes were missed. *)
Endings ==
  /\ Connected /\ recv[conn.generation] = "gone" /\ ~stop => conn.lost
  /\ misses = ProbeMaxMisses => conn.lost
  /\ In("active", "sleep") => misses < ProbeMaxMisses

(* A receive thread that configures the reader has a session to do it for. *)
Sessions ==
  \A g \in Generations : g = conn.generation =>
    /\ recv[g] \in {"bind", "done"} => session.id # NoId
    /\ recv[g] = "done" => sent = session.id

(* While anybody is present the reader still talks to the receive thread   *)
(* on the session it was configured for, or the presence is over.          *)
Presence ==
  present # {} /\ ~conn.rebound /\ conn.open /\ ~conn.lost /\ ~conn.broken =>
    /\ present \subseteq field
    /\ session.id # NoId /\ sent = session.id
    /\ recv[conn.generation] \in {"recv", "gone"}
    /\ recv[conn.generation] = "gone" => stop

ConnInv ==
  /\ ConnTypeOK /\ Targeted /\ Opened /\ Caused /\ Endings /\ Sessions /\ BoundIsConfigured
  /\ Presence
------------------------------------------------------------------------------
States == {"searching", "connecting", "configuring", "active", "lost"}

(* The places of the loop, as Goto and GoOn reach them. *)
LEMMA LoopPlaces ==
  /\ \A place \in Waits \cup {"top", "search", "dial", "close", "join", "after", "ended"},
        outcome \in {"none", "lost", "reconnect", "stopped"} :
       Goto(place, outcome) => /\ loop' \in Loop /\ loop'.place = place
                               /\ loop'.step = "clear" /\ loop'.outcome = outcome
  /\ loop \in Loop /\ GoOn => /\ loop' \in Loop /\ loop'.place = loop.place
                              /\ loop'.step = Following(loop.step)
<1>1. ASSUME NEW place \in Waits \cup {"top", "search", "dial", "close", "join", "after", "ended"},
             NEW outcome \in {"none", "lost", "reconnect", "stopped"}, Goto(place, outcome)
      PROVE  /\ loop' \in Loop /\ loop'.place = place
             /\ loop'.step = "clear" /\ loop'.outcome = outcome
  BY <1>1 DEF Goto, Loop
<1>2. ASSUME loop \in Loop, GoOn
      PROVE  /\ loop' \in Loop /\ loop'.place = loop.place
             /\ loop'.step = Following(loop.step)
  BY <1>2 DEF GoOn, Loop, Following
<1> QED BY <1>1, <1>2

LEMMA Numbers ==
  ASSUME ConnTypeOK
  PROVE  /\ conn.generation \in Nat /\ troubles \in Nat /\ asked \in Nat
         /\ Spent \in {0, 1} /\ Pending \in {0, 1}
BY DEF ConnTypeOK, Conn, Generations, Spent, Pending

(* The connection thread moves on and takes what was asked for; it leaves  *)
(* a connection only for a stop, a loss or a request.                      *)
LEMMA LoopMoves ==
  ASSUME ConnInv, UNCHANGED <<misses, conn, recvVars, readerVars, otherVars, present>>,
         loop' \in Loop, target' \in BOOLEAN, state' \in States, wake' \in BOOLEAN,
         requests' \in {requests, {}}, Connected' => Connected, Targeted',
         Connected /\ ~Connected' => \/ stop \/ conn.lost
                                     \/ Reconnects /\ requests' = {},
         In("active", "sleep")' => In("active", "sleep") \/ ~conn.lost
  PROVE  ConnInv'
<1>1. UNCHANGED <<misses, conn, session, recv, sent, link, field, troubles, stop, asked, discovery_enabled, present>>
  BY DEF recvVars, readerVars, otherVars
<1>2. ConnTypeOK'
  BY <1>1 DEF ConnInv, ConnTypeOK, States
<1>3. Opened'
  BY <1>1 DEF ConnInv, Opened
<1>4. Pending' = Pending \/ (Pending' = 0 /\ Pending = 1)
  BY DEF Pending, Reconnects
<1>5. Alive' = Alive
  BY <1>1 DEF Alive
<1>6. stop \/ Spent' = Spent \/ (Pending' = 0 /\ Pending = 1)
  <2>1. CASE Connected'
    BY <1>1, <1>5, <2>1 DEF Spent
  <2>2. CASE ~Connected
    BY <2>2 DEF Spent
  <2>3. CASE Connected /\ ~Connected'
    <3>1. CASE conn.lost
      BY <2>3, <3>1 DEF Spent
    <3>2. CASE Reconnects /\ requests' = {}
      BY <3>2 DEF Pending, Reconnects
    <3> QED BY <2>3, <3>1, <3>2
  <2> QED BY <2>1, <2>2, <2>3
<1>7. Caused'
  <2>1. /\ conn.generation \in Nat /\ troubles \in Nat /\ asked \in Nat
        /\ Spent' \in {0, 1} /\ Spent \in {0, 1} /\ Pending' \in {0, 1} /\ Pending \in {0, 1}
    BY Numbers DEF ConnInv, Spent, Pending
  <2>2. SUFFICES ASSUME ~stop'
                 PROVE  conn'.generation + Spent' + Pending' <= 1 + troubles' + asked'
    BY <1>1 DEF Caused, ConnInv, ConnectionsHaveCause
  <2>3. ~stop /\ conn.generation + Spent + Pending <= 1 + troubles + asked
    BY <1>1, <2>2 DEF ConnInv, Caused
  <2>4. conn'.generation = conn.generation /\ troubles' = troubles /\ asked' = asked
    BY <1>1
  <2>5. (Spent' = Spent /\ Pending' = Pending) \/ (Pending' = 0 /\ Pending = 1)
    BY <1>4, <1>6, <2>3
  <2>6. \A g, t, a \in Nat : \A s1, s2, p1, p2 \in {0, 1} :
          /\ g + s1 + p1 <= 1 + t + a
          /\ (s2 = s1 /\ p2 = p1) \/ (p2 = 0 /\ p1 = 1)
          => g + s2 + p2 <= 1 + t + a
    OBVIOUS
  <2> QED BY ONLY <2>1, <2>3, <2>4, <2>5, <2>6
<1>8. Endings'
  BY <1>1 DEF ConnInv, Endings, In, ConnTypeOK
<1>9. Sessions' /\ BoundIsConfigured' /\ Presence'
  BY <1>1 DEF ConnInv, Sessions, BoundIsConfigured, Presence
<1> QED BY <1>2, <1>3, <1>7, <1>8, <1>9 DEF ConnInv

LEMMA TopKeeps == ASSUME ConnInv, Top PROVE ConnInv'
<1>1. loop' \in Loop /\ loop'.place \in {"ended", "dial", "search"} /\ loop.place = "top"
  BY LoopPlaces DEF Top, At, Waits
<1>2. /\ target' \in BOOLEAN /\ state' \in States /\ requests' \in {requests, {}}
      /\ wake' \in BOOLEAN
  BY DEF ConnInv, ConnTypeOK, Top, HandleRequests, States
<1>3. Targeted'
  BY <1>1, LoopPlaces DEF Top, At, Waits, Targeted
<1> QED BY <1>1, <1>2, <1>3, LoopMoves DEF Top, Connected, In

LEMMA SearchKeeps == ASSUME ConnInv, Found \/ NotFound PROVE ConnInv'
<1>1. loop' \in Loop /\ loop'.place \in {"top", "idle"} /\ loop.place = "search"
  BY LoopPlaces DEF Found, NotFound, At, Waits
<1>2. /\ target' \in BOOLEAN /\ state' \in States /\ requests' \in {requests, {}}
      /\ wake' \in BOOLEAN
  BY DEF ConnInv, ConnTypeOK, Found, NotFound, States
<1> QED BY <1>1, <1>2, LoopMoves DEF Found, NotFound, Connected, Targeted, In

LEMMA ClearKeeps == ASSUME ConnInv, Clear \/ Woken PROVE ConnInv'
<1>1. /\ loop' \in Loop /\ loop'.place = loop.place /\ loop'.step = Following(loop.step)
      /\ loop.step \in {"clear", "sleep"}
  BY LoopPlaces DEF Clear, Woken, ConnInv, ConnTypeOK
<1>2. loop'.step # "sleep"
  BY <1>1 DEF Following
<1>3. /\ target' \in BOOLEAN /\ state' \in States /\ requests' \in {requests, {}}
      /\ wake' \in BOOLEAN
  BY DEF ConnInv, ConnTypeOK, Clear, Woken, States
<1>4. UNCHANGED <<misses, conn, recvVars, readerVars, otherVars, present>>
  BY DEF Clear, Woken
<1>5. Targeted'
  BY <1>1 DEF Clear, Woken, Targeted, ConnInv
<1> QED BY <1>1, <1>2, <1>3, <1>4, <1>5, LoopMoves DEF Connected, In

(* While there is a target a request is all that makes the thread connect. *)
LEMMA Handled ==
  ASSUME ConnTypeOK, HandleRequests
  PROVE  /\ requests' = {} /\ target' \in BOOLEAN /\ (target => target')
         /\ target => (Connects <=> Reconnects)
BY DEF ConnTypeOK, HandleRequests, TakesFound, Connects

(* What is looked at before the thread waits on or gives up. *)
LEMMA Looked ==
  ASSUME ConnInv, loop.place = "await", NEW otherwise \in BOOLEAN,
         \/ /\ stop \/ conn.lost
            /\ Leave(IF stop THEN "stopped" ELSE "lost") /\ UNCHANGED <<requests, target, state>>
         \/ /\ ~stop /\ ~conn.lost /\ HandleRequests
            /\ \/ Connects /\ Leave("reconnect") /\ UNCHANGED state
               \/ At("active") /\ state' = "active"
               \/ otherwise /\ loop' \in Loop /\ loop'.place \in {"await", "close"} /\ UNCHANGED state
  PROVE  /\ loop' \in Loop /\ target' /\ state' \in States /\ requests' \in {requests, {}}
         /\ \/ /\ loop'.place = "close" /\ \/ stop \/ conn.lost
                                           \/ Reconnects /\ requests' = {}
            \/ loop'.place = "active" /\ loop'.step = "clear"
            \/ otherwise /\ loop'.place \in {"await", "close"}
<1>1. target /\ state \in States /\ ConnTypeOK
  BY DEF ConnInv, ConnTypeOK, Targeted, States
<1>2. CASE /\ stop \/ conn.lost
           /\ Leave(IF stop THEN "stopped" ELSE "lost") /\ UNCHANGED <<requests, target, state>>
  BY <1>1, <1>2, LoopPlaces DEF Leave, Waits
<1>3. CASE HandleRequests /\ Connects /\ Leave("reconnect") /\ UNCHANGED state
  BY <1>1, <1>3, Handled, LoopPlaces DEF Leave, Waits
<1>4. CASE HandleRequests /\ At("active") /\ state' = "active"
  BY <1>1, <1>4, Handled, LoopPlaces DEF At, Waits, States
<1>5. CASE HandleRequests /\ otherwise /\ loop' \in Loop /\ loop'.place \in {"await", "close"} /\ UNCHANGED state
  BY <1>1, <1>5, Handled
<1> QED BY <1>2, <1>3, <1>4, <1>5

LEMMA AwaitKeeps == ASSUME ConnInv, Await PROVE ConnInv'
<1>0. loop \in Loop /\ loop.place = "await" /\ loop.step = "check"
  BY DEF Await, In, ConnInv, ConnTypeOK
<1>1. GoOn => loop' \in Loop /\ loop'.place = "await"
  BY <1>0, LoopPlaces
<1>2. /\ loop' \in Loop /\ target' /\ state' \in States /\ requests' \in {requests, {}}
      /\ \/ /\ loop'.place = "close" /\ \/ stop \/ conn.lost
                                        \/ Reconnects /\ requests' = {}
         \/ loop'.place = "active" /\ loop'.step = "clear"
         \/ loop'.place = "await"
  <2>1. \/ /\ stop \/ conn.lost
           /\ Leave(IF stop THEN "stopped" ELSE "lost") /\ UNCHANGED <<requests, target, state>>
        \/ /\ ~stop /\ ~conn.lost /\ HandleRequests
           /\ \/ Connects /\ Leave("reconnect") /\ UNCHANGED state
              \/ At("active") /\ state' = "active"
              \/ GoOn /\ UNCHANGED state
    BY DEF Await, AwaitLook
  <2>2. PICK waits \in BOOLEAN : waits = (loop' \in Loop /\ loop'.place = "await")
    OBVIOUS
  <2> QED BY <1>0, <1>1, <2>1, <2>2, Looked
<1>3. UNCHANGED <<misses, conn, recvVars, readerVars, otherVars, present>> /\ wake' \in BOOLEAN
  BY DEF Await, AwaitLook, readerVars, ConnInv, ConnTypeOK
<1>4. target' \in BOOLEAN
  BY Handled DEF Await, AwaitLook, ConnInv, ConnTypeOK
<1> QED BY <1>0, <1>2, <1>3, <1>4, LoopMoves DEF Connected, Targeted, In

LEMMA ActiveKeeps == ASSUME ConnInv, Active PROVE ConnInv'
<1>1. loop.place = "active" /\ loop.step = "check" /\ Connected
  BY DEF Active, In, Connected
<1>2. /\ loop' \in Loop
      /\ \/ /\ loop'.place = "close"
            /\ \/ stop \/ conn.lost \/ recv[conn.generation] = "gone"
               \/ Reconnects /\ requests' = {}
         \/ loop'.place = "active" /\ ~conn.lost
  <2>1. loop \in Loop
    BY DEF ConnInv, ConnTypeOK
  <2>2. CASE /\ stop \/ conn.lost \/ recv[conn.generation] = "gone"
             /\ Leave(IF stop THEN "stopped" ELSE "lost")
    BY <2>2, LoopPlaces DEF Leave, Waits
  <2>0. target /\ ConnTypeOK
    BY <1>1 DEF ConnInv, Targeted
  <2>3. CASE ~conn.lost /\ HandleRequests /\ Connects /\ Leave("reconnect")
    BY <2>0, <2>3, Handled, LoopPlaces DEF Leave, Waits
  <2>4. CASE ~conn.lost /\ GoOn
    BY <1>1, <2>1, <2>4, LoopPlaces
  <2> QED BY <2>2, <2>3, <2>4 DEF Active
<1>3. recv[conn.generation] = "gone" => stop \/ conn.lost
  BY <1>1 DEF ConnInv, Endings
<1>4. /\ target' \in BOOLEAN /\ state' \in States /\ requests' \in {requests, {}}
      /\ wake' \in BOOLEAN
  BY Handled DEF ConnInv, ConnTypeOK, Active, States
<1>6. Targeted'
  BY <1>1, Handled DEF Active, Targeted, ConnInv
<1>5. UNCHANGED <<misses, conn, recvVars, readerVars, otherVars, present>>
  BY DEF Active
<1> QED BY <1>1, <1>2, <1>3, <1>4, <1>5, <1>6, LoopMoves DEF Connected, In

LEMMA PauseKeeps ==
  ASSUME ConnInv, Join \/ AfterFailure \/ Idle \/ IdleOver PROVE ConnInv'
<1>1. loop' \in Loop /\ loop'.place \in {"top", "idle", "after"} /\ ~Connected
  BY LoopPlaces DEF Join, AfterFailure, Idle, IdleOver, In, At, Waits, Connected, ConnInv,
     ConnTypeOK
<1>2. /\ target' \in BOOLEAN /\ state' \in States /\ requests' \in {requests, {}}
      /\ wake' \in BOOLEAN
  BY Handled DEF ConnInv, ConnTypeOK, Join, AfterFailure, Idle, IdleOver, States
<1>3. UNCHANGED <<misses, conn, recvVars, readerVars, otherVars, present>>
  BY DEF Join, AfterFailure, Idle, IdleOver
<1> QED BY <1>1, <1>2, <1>3, LoopMoves DEF Connected, Targeted, In
------------------------------------------------------------------------------
(* A trouble or a request pays for one connection more. *)
LEMMA CausedStays ==
  ASSUME ConnInv, conn'.generation = conn.generation, stop => stop',
         troubles' \in {troubles, troubles + 1}, asked' \in {asked, asked + 1},
         \/ stop
         \/ troubles' = troubles /\ asked' = asked /\ Spent' = Spent /\ Pending' = Pending
         \/ /\ (troubles' = troubles + 1 /\ asked' = asked) \/ (troubles' = troubles /\ asked' = asked + 1)
            /\ Spent' = Spent \/ Pending' = Pending
  PROVE  Caused'
<1>0. ConnectionsHaveCause'
  <2>1. conn.generation <= 1 + troubles + asked
    BY DEF ConnInv, Caused, ConnectionsHaveCause
  <2>2. conn.generation \in Nat /\ troubles \in Nat /\ asked \in Nat
    BY Numbers DEF ConnInv
  <2> QED BY <2>1, <2>2 DEF ConnectionsHaveCause
<1> SUFFICES ASSUME ~stop'
             PROVE  conn'.generation + Spent' + Pending' <= 1 + troubles' + asked'
  BY <1>0 DEF Caused
<1>1. /\ conn.generation \in Nat /\ troubles \in Nat /\ asked \in Nat
      /\ Spent' \in {0, 1} /\ Spent \in {0, 1} /\ Pending' \in {0, 1} /\ Pending \in {0, 1}
  BY Numbers DEF ConnInv, Spent, Pending
<1>2. conn.generation + Spent + Pending <= 1 + troubles + asked
  BY DEF ConnInv, Caused
<1>3. \/ troubles' = troubles /\ asked' = asked /\ Spent' = Spent /\ Pending' = Pending
      \/ /\ (troubles' = troubles + 1 /\ asked' = asked) \/ (troubles' = troubles /\ asked' = asked + 1)
         /\ Spent' = Spent \/ Pending' = Pending
  OBVIOUS
<1>4. \A g, t, a, t2, a2 \in Nat : \A s, p, s2, p2 \in {0, 1} :
        /\ g + s + p <= 1 + t + a
        /\ \/ t2 = t /\ a2 = a /\ s2 = s /\ p2 = p
           \/ /\ (t2 = t + 1 /\ a2 = a) \/ (t2 = t /\ a2 = a + 1)
              /\ s2 = s \/ p2 = p
        => g + s2 + p2 <= 1 + t2 + a2
  OBVIOUS
<1>5. troubles' \in Nat /\ asked' \in Nat
  BY <1>1, <1>3
<1>6. conn'.generation = conn.generation
  OBVIOUS
<1> QED BY ONLY <1>1, <1>2, <1>3, <1>4, <1>5, <1>6

(* The connection is begun: its predecessor is paid for. *)
LEMMA DialKeeps == ASSUME ConnInv, Dial PROVE ConnInv'
<1>1. loop.place = "dial" /\ UNCHANGED <<target, wake, requests, readerVars, otherVars>>
      /\ loop \in Loop /\ ~Connected
  BY DEF Dial, Connected, ConnInv, ConnTypeOK
<1>2. CASE UNCHANGED <<conn, recvVars, misses, state, present>> /\ (At("top") \/ At("after"))
  <2>1. loop' \in Loop /\ loop'.place \in {"top", "after"}
    BY <1>2, LoopPlaces DEF At, Waits
  <2>2. /\ target' \in BOOLEAN /\ state' \in States /\ requests' \in {requests, {}}
        /\ wake' \in BOOLEAN
    BY <1>1, <1>2 DEF ConnInv, ConnTypeOK, States
  <2> QED BY <1>1, <1>2, <2>1, <2>2, LoopMoves DEF Connected, Targeted, In
<1>3. CASE link = "up" /\ ~stop /\ Begin
  <2>1. /\ conn' = NewConn /\ session' = [id |-> NoId, bound |-> FALSE] /\ present' = {}
        /\ misses' = 0 /\ sent' = NoId /\ state' = "configuring"
        /\ recv' = [recv EXCEPT ![conn'.generation] = "recv"]
    BY <1>3 DEF Begin, Reset
  <2>2. loop' \in Loop /\ loop'.place = "await" /\ loop'.step = "clear"
    BY <1>3, LoopPlaces DEF Begin, At, Waits
  <2>3. /\ conn'.generation = conn.generation + 1 /\ ~conn'.lost /\ conn'.open
        /\ ~conn'.broken /\ ~conn'.rebound
    BY <2>1 DEF NewConn
  <2>4. UNCHANGED <<stop, link, troubles, asked, discovery_enabled, requests, field, target, wake>>
    BY <1>1 DEF readerVars, otherVars
  <2>5. Spent = 1 /\ Pending' = Pending
    BY <1>1, <2>4 DEF Spent, Pending, Reconnects
  <2>6. /\ conn.generation \in Nat /\ troubles \in 0..MaxTroubles /\ asked \in 0..MaxRequests
        /\ Pending \in {0, 1}
    BY Numbers DEF ConnInv, ConnTypeOK
  <2>7. conn.generation + 1 + Pending <= 1 + troubles + asked
    BY <1>3, <2>5 DEF ConnInv, Caused
  <2>8. conn'.generation \in Generations
    BY <2>3, <2>6, <2>7 DEF Generations
  <2>9. conn' \in Conn
    BY <2>1, <2>8, <2>3 DEF NewConn, Conn
  <2>10. ConnTypeOK'
    <3>1. /\ recv' \in [Generations -> {"recv", "wait", "bind", "done", "gone"}]
          /\ misses' \in 0..ProbeMaxMisses /\ present' \subseteq Antennas
      BY <2>1, <2>8 DEF ConnInv, ConnTypeOK
    <3>2. session' \in Session /\ sent' \in {NoId} \cup Ids
      BY <2>1 DEF Session
    <3> QED BY <2>1, <2>2, <2>4, <2>9, <3>1, <3>2 DEF ConnInv, ConnTypeOK
  <2>11. Opened'
    BY <1>3, <2>3, <2>4, <2>8 DEF Opened
  <2>12. Spent' = 0
    BY <1>3, <2>2, <2>3, <2>4 DEF Spent, Connected, Alive
  <2>13. Caused'
    BY <2>3, <2>4, <2>5, <2>6, <2>7, <2>12 DEF Caused, ConnectionsHaveCause
  <2>14. recv'[conn'.generation] = "recv"
    BY <2>1, <2>8 DEF ConnInv, ConnTypeOK
  <2>15. Endings'
    BY <2>1, <2>2, <2>14 DEF Endings, In
  <2>16. Sessions' /\ BoundIsConfigured' /\ Presence'
    BY <2>1, <2>14 DEF Sessions, BoundIsConfigured, Presence
  <2>17. Targeted'
    BY <1>1, <2>4 DEF ConnInv, Targeted
  <2> QED BY <2>17, <2>10, <2>11, <2>13, <2>15, <2>16 DEF ConnInv
<1> QED BY <1>2, <1>3 DEF Dial

LEMMA AwaitTimeoutKeeps == ASSUME ConnInv, AwaitTimeout PROVE ConnInv'
<1>1. /\ UNCHANGED <<misses, conn, session, recv, sent, present, link, field,
                     stop, asked, discovery_enabled, wake>>
      /\ Connected /\ loop.place = "await"
  BY DEF AwaitTimeout, AwaitLook, recvVars, otherVars, In, Connected
<1>2. /\ loop' \in Loop /\ target' /\ target' \in BOOLEAN /\ state' \in States
      /\ requests' \in {requests, {}}
      /\ loop'.place = "close" \/ (loop'.place = "active" /\ loop'.step = "clear")
  <2>1. \/ /\ stop \/ conn.lost
           /\ Leave(IF stop THEN "stopped" ELSE "lost") /\ UNCHANGED <<requests, target, state>>
        \/ /\ ~stop /\ ~conn.lost /\ HandleRequests
           /\ \/ Connects /\ Leave("reconnect") /\ UNCHANGED state
              \/ At("active") /\ state' = "active"
              \/ Leave("lost") /\ UNCHANGED state
    BY DEF AwaitTimeout, AwaitLook
  <2>2. Leave("lost") => loop' \in Loop /\ loop'.place = "close"
    BY LoopPlaces DEF Leave, Waits
  <2>3. PICK gives_up \in BOOLEAN : gives_up = (loop' \in Loop /\ loop'.place = "close")
    OBVIOUS
  <2>4. target' \in BOOLEAN
    BY <2>1, Handled DEF ConnInv, ConnTypeOK
  <2> QED BY <1>1, <2>1, <2>2, <2>3, <2>4, Looked
<1>3. \/ Alive /\ troubles < MaxTroubles /\ troubles' = troubles + 1
      \/ ~Alive /\ troubles' = troubles
  BY DEF AwaitTimeout, Trouble
<1>4. ConnTypeOK' /\ Targeted'
  BY <1>1, <1>2, <1>3 DEF ConnInv, ConnTypeOK, States, Targeted
<1>5. Caused'
  <2>1. /\ Pending' \in {Pending, 0} /\ Spent' \in {0, 1} /\ (~Alive => Spent = 1)
        /\ Pending \in {0, 1} /\ Spent \in {0, 1}
    BY <1>1, <1>2 DEF Pending, Reconnects, Spent, Connected
  <2>2. /\ conn'.generation = conn.generation /\ conn.generation \in Nat /\ troubles \in Nat
        /\ asked \in Nat /\ asked' = asked
    BY <1>1, Numbers DEF ConnInv
  <2>3. conn.generation <= 1 + troubles + asked
    BY DEF ConnInv, Caused, ConnectionsHaveCause
  <2>4. ~stop => conn.generation + Spent + Pending <= 1 + troubles + asked
    BY DEF ConnInv, Caused
  <2>5. \/ troubles' = troubles + 1
        \/ troubles' = troubles /\ Spent = 1
    BY <1>3, <2>1
  <2>6. conn'.generation <= 1 + troubles' + asked'
    BY <2>2, <2>3, <2>5
  <2>7. ~stop => conn'.generation + Spent' + Pending' <= 1 + troubles' + asked'
    BY ONLY <2>1, <2>2, <2>4, <2>5
  <2> QED BY <1>1, <2>6, <2>7 DEF Caused, ConnectionsHaveCause
<1>6. Opened' /\ Endings'
  BY <1>1, <1>2 DEF ConnInv, Opened, Endings, In, Connected
<1>7. Sessions' /\ BoundIsConfigured' /\ Presence'
  BY <1>1 DEF ConnInv, Sessions, BoundIsConfigured, Presence
<1> QED BY <1>4, <1>5, <1>6, <1>7 DEF ConnInv

LEMMA ProbeKeeps == ASSUME ConnInv, Probe PROVE ConnInv'
<1>1. /\ UNCHANGED <<target, state, session, recv, sent, present, link, field,
                     stop, asked, discovery_enabled, wake, requests>>
      /\ loop.place = "active" /\ Connected /\ loop \in Loop /\ conn \in Conn
      /\ misses \in 0..ProbeMaxMisses /\ misses < ProbeMaxMisses
  BY DEF Probe, recvVars, otherVars, In, Connected, ConnInv, ConnTypeOK, Endings
<1>2. loop' \in Loop /\ loop'.place = "active" /\ loop'.step = "clear"
  BY <1>1, LoopPlaces DEF Probe, In, Following
<1>3. \/ misses' \in {misses, 0} /\ conn' = conn /\ troubles' = troubles
      \/ /\ misses' = misses + 1 /\ conn' = [conn EXCEPT !.lost = @ \/ Silent(misses')]
         /\ \/ Alive /\ troubles < MaxTroubles /\ troubles' = troubles + 1
            \/ ~Alive /\ troubles' = troubles
  BY DEF Probe, CountMiss, Trouble
<1>4. /\ conn' \in Conn /\ conn'.generation = conn.generation /\ conn'.open = conn.open
      /\ conn'.broken = conn.broken /\ conn'.rebound = conn.rebound
      /\ conn.lost => conn'.lost
      /\ misses' = misses + 1 /\ misses' = ProbeMaxMisses => conn'.lost
      /\ conn' = conn \/ misses' = misses + 1
  <2>1. CASE misses' \in {misses, 0} /\ conn' = conn
    BY <1>1, <2>1
  <2>2. CASE misses' = misses + 1 /\ conn' = [conn EXCEPT !.lost = @ \/ Silent(misses')]
    <3>1. PICK lost \in BOOLEAN : lost = (conn.lost \/ Silent(misses'))
      OBVIOUS
    <3>2. conn' = [conn EXCEPT !.lost = lost]
      BY <2>2, <3>1
    <3>3. misses' = ProbeMaxMisses => Silent(misses')
      BY DEF Silent
    <3>4. (conn.lost => lost) /\ (misses' = ProbeMaxMisses => lost)
      BY <3>1, <3>3
    <3>5. conn' \in Conn /\ conn'.lost = lost
      BY <1>1, <3>2 DEF Conn
    <3>6. /\ conn'.generation = conn.generation /\ conn'.open = conn.open
          /\ conn'.broken = conn.broken /\ conn'.rebound = conn.rebound
      BY <1>1, <3>2 DEF Conn
    <3> QED BY <2>2, <3>4, <3>5, <3>6
  <2> QED BY <1>3, <2>1, <2>2
<1>5. ConnTypeOK'
  BY <1>1, <1>2, <1>3, <1>4 DEF ConnInv, ConnTypeOK
<1>6. Opened'
  BY <1>1, <1>2, <1>4 DEF ConnInv, Opened, Connected
<1>7. Caused'
  <2>1. Pending' = Pending /\ Connected' = Connected /\ Alive' = Alive
    BY <1>1, <1>2, <1>4 DEF Pending, Reconnects, Connected, Alive
  <2>2. (~Alive => Spent = 1 /\ Spent' = 1) /\ (conn' = conn => Spent' = Spent)
    BY <2>1 DEF Spent
  <2> QED BY <1>1, <1>3, <1>4, <2>1, <2>2, CausedStays
<1>8. Endings'
  BY <1>1, <1>2, <1>3, <1>4 DEF ConnInv, Endings, In, Connected
<1>9. Sessions' /\ BoundIsConfigured' /\ Presence'
  BY <1>1, <1>4 DEF ConnInv, Sessions, BoundIsConfigured, Presence
<1> QED BY <1>1, <1>2, <1>5, <1>6, <1>7, <1>8, <1>9 DEF ConnInv, Targeted

LEMMA CloseKeeps == ASSUME ConnInv, Close PROVE ConnInv'
<1>1. /\ UNCHANGED <<target, state, misses, session, recv, sent, present, link, field,
                     troubles, stop, asked, discovery_enabled, wake, requests>>
      /\ loop.place = "close" /\ ~Connected /\ loop \in Loop /\ conn \in Conn
  BY DEF Close, recvVars, otherVars, readerVars, Connected, ConnInv, ConnTypeOK
<1>2. loop' \in Loop /\ loop'.place = "join"
  <2>1. loop.outcome \in {"none", "lost", "reconnect", "stopped"}
    BY <1>1 DEF Loop
  <2> QED BY <2>1, LoopPlaces DEF Close
<1>3. /\ conn' = [conn EXCEPT !.lost = TRUE, !.open = FALSE]
      /\ conn' \in Conn /\ conn'.generation = conn.generation /\ ~conn'.open
      /\ conn'.broken = conn.broken /\ conn'.lost
  BY <1>1 DEF Close, Conn
<1>4. ConnTypeOK'
  BY <1>1, <1>2, <1>3 DEF ConnInv, ConnTypeOK
<1>5. Opened' /\ Endings'
  BY <1>1, <1>2, <1>3 DEF ConnInv, Opened, Endings, In, Connected
<1>6. Caused'
  <2>1. Pending' = Pending /\ Spent = 1 /\ Spent' = 1
    BY <1>1, <1>3 DEF Pending, Reconnects, Spent
  <2> QED BY <1>1, <1>3, <2>1, CausedStays
<1>7. Sessions' /\ BoundIsConfigured' /\ Presence'
  BY <1>1, <1>3 DEF ConnInv, Sessions, BoundIsConfigured, Presence
<1> QED BY <1>1, <1>2, <1>4, <1>5, <1>6, <1>7 DEF ConnInv, Targeted
------------------------------------------------------------------------------
Doing == {"recv", "wait", "bind", "done", "gone"}

(* A receive thread that moves leaves the others alone. *)
LEMMA OthersStay ==
  ASSUME ConnTypeOK, NEW g \in Generations, NEW doing \in Doing,
         recv' = [recv EXCEPT ![g] = doing]
  PROVE  /\ recv' \in [Generations -> Doing] /\ recv'[g] = doing
         /\ \A h \in Generations \ {g} : recv'[h] = recv[h]
BY DEF ConnTypeOK, Doing

(* A step of a receive thread, but for what it says of the session: it     *)
(* gives up only a connection that is no longer of use, and ends only when *)
(* it has given it up.                                                     *)
LEMMA RecvMoves ==
  ASSUME ConnInv, NEW g \in Generations, NEW doing \in Doing,
         recv' = [recv EXCEPT ![g] = doing],
         UNCHANGED <<loop, target, misses, readerVars, otherVars, requests, present>>,
         state' \in States, wake' \in BOOLEAN, session' \in Session,
         sent' \in {NoId} \cup Ids,
         \/ conn' = conn
         \/ conn' = [conn EXCEPT !.lost = TRUE] /\ (~Connected \/ ~Alive),
         doing = "gone" /\ g = conn.generation /\ ~stop => conn'.lost,
         Sessions', BoundIsConfigured', Presence'
  PROVE  ConnInv'
<1>1. UNCHANGED <<loop, target, misses, link, field, troubles, stop, asked, discovery_enabled, requests, present>>
  BY DEF readerVars, otherVars
<1>2. /\ conn \in Conn /\ conn' \in Conn /\ conn'.generation = conn.generation
      /\ conn'.open = conn.open /\ conn'.broken = conn.broken
      /\ conn.lost => conn'.lost
  BY DEF ConnInv, ConnTypeOK, Conn
<1>3. /\ recv' \in [Generations -> Doing] /\ recv'[g] = doing
      /\ \A h \in Generations \ {g} : recv'[h] = recv[h]
  BY OthersStay DEF ConnInv
<1>4. ConnTypeOK'
  BY <1>1, <1>2, <1>3 DEF ConnInv, ConnTypeOK, States, Doing
<1>5. Opened'
  BY <1>1, <1>2 DEF ConnInv, Opened, Connected
<1>6. Caused'
  <2>1. Pending' = Pending /\ Connected' = Connected /\ Alive' = Alive
    BY <1>1, <1>2 DEF Pending, Reconnects, Connected, Alive
  <2>2. Spent' = Spent
    BY <2>1 DEF Spent
  <2> QED BY <1>1, <1>2, <2>1, <2>2, CausedStays
<1>7. Endings'
  <2>1. Connected => conn.generation \in Generations
    BY DEF ConnInv, Opened
  <2>2. Connected' /\ recv'[conn'.generation] = "gone" /\ ~stop' => conn'.lost
    BY <1>1, <1>2, <1>3, <2>1 DEF ConnInv, Endings, Connected
  <2> QED BY <1>1, <1>2, <2>2 DEF ConnInv, Endings, In
<1> QED BY <1>1, <1>4, <1>5, <1>6, <1>7 DEF ConnInv, Targeted

LEMMA HelloKeeps == ASSUME ConnInv, NEW g \in Generations, Hello(g) PROVE ConnInv'
<1>1. /\ recv[g] = "recv" /\ g = conn.generation /\ conn.open /\ conn \in Conn
      /\ session \in Session /\ recv' = [recv EXCEPT ![g] = "wait"] /\ wake' = TRUE
      /\ UNCHANGED <<loop, target, state, misses, sent, link, field, stop, asked, discovery_enabled, requests, present>>
  BY DEF Hello, threadVars, otherVars, ConnInv, ConnTypeOK
<1>2. \/ session.id = NoId /\ session' = [session EXCEPT !.id = 1] /\ UNCHANGED <<troubles, conn>>
      \/ /\ session.id \in Ids /\ troubles < MaxTroubles /\ troubles' = troubles + 1
         /\ session' = [id |-> 3 - session.id, bound |-> FALSE]
         /\ conn' = [conn EXCEPT !.rebound = TRUE]
  BY <1>1 DEF Hello, Trouble, Session
<1>3. session' \in Session /\ ~session'.bound
  <2>1. CASE session.id = NoId /\ session' = [session EXCEPT !.id = 1]
    <3>1. ~session.bound
      BY <2>1 DEF ConnInv, BoundIsConfigured
    <3> QED BY <1>1, <2>1, <3>1 DEF Session, Ids
  <2>2. CASE session.id \in Ids /\ session' = [id |-> 3 - session.id, bound |-> FALSE]
    <3>1. 3 - session.id \in Ids
      BY <2>2 DEF Ids
    <3> QED BY <2>2, <3>1 DEF Session
  <2> QED BY <1>2, <2>1, <2>2
<1>4. /\ conn' \in Conn /\ conn'.generation = conn.generation /\ conn'.open = conn.open
      /\ conn'.broken = conn.broken /\ conn'.lost = conn.lost
      /\ (conn' = conn /\ session.id = NoId) \/ conn'.rebound
  BY <1>1, <1>2 DEF Conn
<1>5. recv' \in [Generations -> Doing] /\ recv'[conn'.generation] = "wait"
  BY <1>1, <1>4, OthersStay DEF ConnInv, Doing
<1>6. ConnTypeOK'
  BY <1>1, <1>2, <1>3, <1>4, <1>5 DEF ConnInv, ConnTypeOK, Doing
<1>7. Caused'
  <2>1. Pending' = Pending /\ Connected' = Connected /\ Alive' = Alive
    BY <1>1, <1>4 DEF Pending, Reconnects, Connected, Alive
  <2>2. Spent' = Spent
    BY <1>4, <2>1 DEF Spent
  <2> QED BY <1>1, <1>2, <1>4, <2>1, <2>2, CausedStays
<1>8. Opened' /\ Endings'
  BY <1>1, <1>4, <1>5 DEF ConnInv, Opened, Endings, Connected, In
<1>9. Sessions' /\ BoundIsConfigured'
  BY <1>3, <1>5 DEF Sessions, BoundIsConfigured
<1>10. Presence'
  BY <1>1, <1>4 DEF ConnInv, Presence
<1> QED BY <1>1, <1>6, <1>7, <1>8, <1>9, <1>10 DEF ConnInv, Targeted

LEMMA LockKeeps == ASSUME ConnInv, NEW g \in Generations, Lock(g) PROVE ConnInv'
<1>1. /\ recv[g] = "wait" /\ session \in Session /\ sent \in {NoId} \cup Ids
      /\ UNCHANGED <<loop, target, misses, conn, session, sent, readerVars, otherVars, wake,
                     requests, present>>
  BY DEF Lock, ConnInv, ConnTypeOK
<1>2. /\ state' \in States /\ wake' \in BOOLEAN
  BY DEF Lock, ConnInv, ConnTypeOK, States
<1>3. PICK doing \in {"recv", "bind"} :
        /\ recv' = [recv EXCEPT ![g] = doing]
        /\ doing = "bind" => g = conn.generation /\ session.id # NoId
  BY DEF Lock
<1>4. recv'[g] = doing /\ \A h \in Generations \ {g} : recv'[h] = recv[h]
  BY <1>3, OthersStay DEF ConnInv, Doing
<1>5. Sessions' /\ BoundIsConfigured'
  BY <1>1, <1>3, <1>4 DEF ConnInv, Sessions, BoundIsConfigured
<1>6. Presence'
  BY <1>1, <1>4 DEF ConnInv, Presence, Opened, readerVars, otherVars
<1> QED BY <1>1, <1>2, <1>3, <1>5, <1>6, RecvMoves DEF Doing

LEMMA ConfiguredKeeps == ASSUME ConnInv, NEW g \in Generations, Configured(g) PROVE ConnInv'
<1>1. /\ recv[g] = "bind" /\ g = conn.generation /\ session \in Session
      /\ sent' = session.id /\ recv' = [recv EXCEPT ![g] = "done"]
      /\ state' \in States /\ wake' \in BOOLEAN
      /\ UNCHANGED <<loop, target, state, misses, conn, session, readerVars, otherVars, wake,
                     requests, present>>
  BY DEF Configured, threadVars, ConnInv, ConnTypeOK, States
<1>2. recv'[g] = "done" /\ sent' \in {NoId} \cup Ids
  BY <1>1, OthersStay DEF ConnInv, Doing, Session
<1>3. Sessions' /\ BoundIsConfigured' /\ Presence'
  BY <1>1, <1>2 DEF ConnInv, Sessions, BoundIsConfigured, Presence
<1> QED BY <1>1, <1>2, <1>3, RecvMoves DEF Doing

LEMMA ConfigureFailsKeeps ==
  ASSUME ConnInv, NEW g \in Generations, ConfigureFails(g) PROVE ConnInv'
<1>1. /\ recv[g] = "bind" /\ session \in Session /\ sent \in {NoId} \cup Ids /\ conn \in Conn
      /\ recv' = [recv EXCEPT ![g] = "recv"] /\ state' \in States /\ wake' \in BOOLEAN
      /\ UNCHANGED <<loop, target, misses, session, sent, readerVars, otherVars, requests, present>>
  BY DEF ConfigureFails, threadVars, ConnInv, ConnTypeOK, States
<1>2. \/ conn' = conn
      \/ conn' = [conn EXCEPT !.lost = TRUE] /\ (~Connected \/ ~Alive)
  BY DEF ConfigureFails, ConnInv, Opened
<1>3. /\ conn'.generation = conn.generation /\ conn'.open = conn.open
      /\ conn'.broken = conn.broken /\ conn'.rebound = conn.rebound /\ (conn.lost => conn'.lost)
  BY <1>1, <1>2 DEF Conn
<1>4. recv'[g] = "recv" /\ \A h \in Generations \ {g} : recv'[h] = recv[h]
  BY <1>1, OthersStay DEF ConnInv, Doing
<1>5. Sessions' /\ BoundIsConfigured'
  BY <1>1, <1>3, <1>4 DEF ConnInv, Sessions, BoundIsConfigured
<1>6. Presence'
  BY <1>1, <1>3, <1>4 DEF ConnInv, Presence, Opened, readerVars, otherVars
<1> QED BY <1>1, <1>2, <1>5, <1>6, RecvMoves DEF Doing

LEMMA BoundKeeps == ASSUME ConnInv, NEW g \in Generations, Bound(g) PROVE ConnInv'
<1>1. /\ recv[g] = "done" /\ session \in Session /\ sent \in {NoId} \cup Ids
      /\ recv' = [recv EXCEPT ![g] = "recv"] /\ state' \in States /\ wake' \in BOOLEAN
      /\ UNCHANGED <<loop, target, misses, conn, sent, readerVars, otherVars, requests, present>>
  BY DEF Bound, threadVars, ConnInv, ConnTypeOK, States
<1>2. \/ g = conn.generation /\ session' = [session EXCEPT !.bound = TRUE]
      \/ g # conn.generation /\ session' = session
  BY DEF Bound
<1>3. session' \in Session /\ session'.id = session.id
  BY <1>1, <1>2 DEF Session
<1>4. recv'[g] = "recv" /\ \A h \in Generations \ {g} : recv'[h] = recv[h]
  BY <1>1, OthersStay DEF ConnInv, Doing
<1>5. Sessions' /\ BoundIsConfigured'
  BY <1>1, <1>2, <1>3, <1>4 DEF ConnInv, Sessions, BoundIsConfigured
<1>6. Presence'
  BY <1>1, <1>3, <1>4 DEF ConnInv, Presence, Opened, readerVars, otherVars
<1> QED BY <1>1, <1>3, <1>5, <1>6, RecvMoves DEF Doing

LEMMA RecvEndsKeeps == ASSUME ConnInv, NEW g \in Generations, RecvEnds(g) PROVE ConnInv'
<1>1. /\ recv[g] = "recv" /\ session \in Session /\ sent \in {NoId} \cup Ids /\ conn \in Conn
      /\ recv' = [recv EXCEPT ![g] = "gone"] /\ state' \in States /\ wake' \in BOOLEAN
      /\ UNCHANGED <<loop, target, misses, session, sent, readerVars, otherVars, requests, present>>
  BY DEF RecvEnds, threadVars, ConnInv, ConnTypeOK, States
<1>2. \/ conn' = conn
      \/ conn' = [conn EXCEPT !.lost = TRUE] /\ (~Connected \/ ~Alive)
  BY DEF RecvEnds, ConnInv, Opened, Alive
<1>3. /\ conn'.generation = conn.generation /\ conn'.open = conn.open
      /\ conn'.broken = conn.broken /\ conn'.rebound = conn.rebound /\ (conn.lost => conn'.lost)
  BY <1>1, <1>2 DEF Conn
<1>4. g = conn.generation /\ ~stop => conn'.lost
  BY <1>1 DEF RecvEnds, Conn
<1>5. recv'[g] = "gone" /\ \A h \in Generations \ {g} : recv'[h] = recv[h]
  BY <1>1, OthersStay DEF ConnInv, Doing
<1>6. Sessions' /\ BoundIsConfigured'
  BY <1>1, <1>3, <1>5 DEF ConnInv, Sessions, BoundIsConfigured
<1>7. Presence'
  BY <1>1, <1>3, <1>4, <1>5 DEF ConnInv, Presence, Opened, readerVars, otherVars
<1> QED BY <1>1, <1>2, <1>4, <1>6, <1>7, RecvMoves DEF Doing
------------------------------------------------------------------------------
LEMMA RequestKeeps == ASSUME ConnInv, Request PROVE ConnInv'
<1>1. /\ asked < MaxRequests /\ asked' = asked + 1 /\ wake' = TRUE
      /\ UNCHANGED <<loop, target, state, misses, conn, session, recv, sent, link, field,
                     troubles, stop, discovery_enabled, present>>
  BY DEF Request, threadVars, recvVars, readerVars
<1>2. requests' \subseteq {"config", "reconnect", "discover"}
  BY DEF Request, ConnInv, ConnTypeOK
<1>3. ConnTypeOK'
  BY <1>1, <1>2 DEF ConnInv, ConnTypeOK
<1>4. Caused'
  <2>1. Spent' = Spent
    BY <1>1 DEF Spent, Connected, Alive
  <2> QED BY <1>1, <2>1, CausedStays DEF ConnInv, ConnTypeOK
<1>5. Opened' /\ Endings' /\ Sessions' /\ BoundIsConfigured' /\ Presence'
  BY <1>1 DEF ConnInv, Opened, Endings, Sessions, BoundIsConfigured, Presence, Connected, In
<1> QED BY <1>1, <1>3, <1>4, <1>5 DEF ConnInv, Targeted

LEMMA StopClientKeeps == ASSUME ConnInv, StopClient PROVE ConnInv'
<1>1. /\ stop' = TRUE /\ wake' = TRUE
      /\ UNCHANGED <<loop, target, state, misses, conn, session, recv, sent, link, field,
                     troubles, asked, discovery_enabled, requests, present>>
  BY DEF StopClient, threadVars, recvVars, readerVars
<1>2. ConnTypeOK' /\ Caused'
  BY <1>1 DEF ConnInv, ConnTypeOK, Caused, ConnectionsHaveCause
<1>3. Opened' /\ Endings' /\ Sessions' /\ BoundIsConfigured' /\ Presence'
  BY <1>1 DEF ConnInv, Opened, Endings, Sessions, BoundIsConfigured, Presence, Connected, In
<1> QED BY <1>1, <1>2, <1>3 DEF ConnInv, Targeted

LEMMA LinkChangesKeeps == ASSUME ConnInv, LinkChanges PROVE ConnInv'
<1>1. /\ troubles < MaxTroubles /\ troubles' = troubles + 1 /\ link' \in {"up", "silent", "down"}
      /\ conn' = [conn EXCEPT !.broken = @ \/ link' = "down"] /\ conn \in Conn
      /\ UNCHANGED <<loop, target, state, misses, session, recv, sent, field, stop, asked, discovery_enabled,
                     wake, requests, present>>
  BY DEF LinkChanges, Trouble, threadVars, recvVars, otherVars, ConnInv, ConnTypeOK
<1>2. PICK broken \in BOOLEAN : broken = (conn.broken \/ link' = "down")
  OBVIOUS
<1>3. conn' = [conn EXCEPT !.broken = broken]
  BY <1>1, <1>2
<1>4. /\ conn' \in Conn /\ conn'.generation = conn.generation /\ conn'.open = conn.open
      /\ conn'.rebound = conn.rebound /\ conn'.lost = conn.lost /\ conn'.broken = broken
  BY <1>1, <1>3 DEF Conn
<1>5. (conn.broken => broken) /\ (link' = "down" => broken)
  BY <1>2
<1>6. ConnTypeOK'
  BY <1>1, <1>4 DEF ConnInv, ConnTypeOK
<1>7. Opened'
  BY <1>1, <1>4, <1>5 DEF ConnInv, Opened, Connected
<1>8. Caused'
  <2>1. Pending' = Pending
    BY <1>1 DEF Pending, Reconnects
  <2> QED BY <1>1, <1>4, <2>1, CausedStays
<1>9. Endings' /\ Sessions' /\ BoundIsConfigured'
  BY <1>1, <1>4 DEF ConnInv, Endings, Sessions, BoundIsConfigured, Connected, In
<1>10. Presence'
  BY <1>1, <1>4, <1>5 DEF ConnInv, Presence
<1> QED BY <1>1, <1>6, <1>7, <1>8, <1>9, <1>10 DEF ConnInv, Targeted

(* An antenna sees the tag, or loses it, while the tracker is told, or     *)
(* while the reader will not say so on this connection any more.           *)
LEMMA PassesKeep ==
  ASSUME ConnInv, NEW antenna \in Antennas, Arrive(antenna) \/ Depart(antenna)
  PROVE  ConnInv'
<1>1. /\ ~Delayed /\ ~stop
      /\ UNCHANGED <<loop, target, state, misses, conn, session, recv, sent, link, troubles,
                     stop, asked, discovery_enabled, wake, requests>>
  BY DEF Arrive, Depart, threadVars, recvVars, otherVars
<1>2. \/ /\ field' = field \cup {antenna}
         /\ present' = IF Delivering THEN present \cup {antenna} ELSE present
      \/ /\ field' = field \ {antenna}
         /\ present' = IF Delivering THEN present \ {antenna} ELSE present
  BY DEF Arrive, Depart
<1>3. ConnTypeOK'
  BY <1>1, <1>2 DEF ConnInv, ConnTypeOK
<1>4. Caused'
  <2>1. Spent' = Spent /\ Pending' = Pending
    BY <1>1 DEF Spent, Pending, Reconnects, Connected, Alive
  <2> QED BY <1>1, <2>1, CausedStays
<1>5. Opened' /\ Endings' /\ Sessions' /\ BoundIsConfigured'
  BY <1>1 DEF ConnInv, Opened, Endings, Sessions, BoundIsConfigured, Connected, In
<1>6. Presence'
  <2> SUFFICES ASSUME present' # {}, ~conn.rebound, conn.open, ~conn.lost, ~conn.broken
               PROVE  /\ present' \subseteq field'
                      /\ session.id # NoId /\ sent = session.id
                      /\ recv[conn.generation] = "recv"
    BY <1>1 DEF Presence
  <2>1. present = {} \/ /\ present \subseteq field /\ session.id # NoId /\ sent = session.id
                        /\ recv[conn.generation] = "recv"
    BY <1>1 DEF ConnInv, Presence
  <2>2. CASE Delivering
    BY <1>2, <2>1, <2>2 DEF Delivering
  <2>3. CASE ~Delivering /\ present = {}
    BY <1>2, <2>3
  <2>4. CASE ~Delivering /\ present # {}
    <3>1. link = "silent"
      BY <2>1, <2>4 DEF Delivering, Alive, ConnInv, Opened, ConnTypeOK
    <3> QED BY <1>1, <2>4, <3>1 DEF Delayed
  <2> QED BY <2>2, <2>3, <2>4
<1> QED BY <1>1, <1>3, <1>4, <1>5, <1>6 DEF ConnInv, Targeted
------------------------------------------------------------------------------
LEMMA ConnInitially == ConnInit => ConnInv
<1> SUFFICES ASSUME ConnInit PROVE ConnInv
  OBVIOUS
<1>1. ConnTypeOK
  <2>1. loop \in Loop /\ conn \in Conn /\ session \in Session
    BY DEF ConnInit, Loop, Waits, Conn, Session
  <2>2. state \in {"searching", "connecting", "configuring", "active", "lost"}
    BY DEF ConnInit
  <2>3. recv \in [Generations -> {"recv", "wait", "bind", "done", "gone"}]
    BY DEF ConnInit
  <2>4. misses \in 0..ProbeMaxMisses /\ troubles \in 0..MaxTroubles /\ asked \in 0..MaxRequests
    BY DEF ConnInit
  <2> QED BY <2>1, <2>2, <2>3, <2>4 DEF ConnInit, ConnTypeOK
<1>2. Caused
  <2>1. conn.generation = 0 /\ troubles = 0 /\ asked = 0 /\ Pending = 0 /\ Spent = 1
    BY DEF ConnInit, Spent, Pending, Reconnects, Connected
  <2> QED BY <2>1 DEF Caused, ConnectionsHaveCause
<1>3. Opened /\ Endings /\ Sessions /\ BoundIsConfigured /\ Presence
  BY DEF ConnInit, Opened, Endings, Sessions, BoundIsConfigured, Presence, Connected, In,
     Generations
<1> QED BY <1>1, <1>2, <1>3 DEF ConnInit, ConnInv, Targeted

LEMMA ConnStep == ConnInv /\ [ConnNext]_connVars => ConnInv'
<1> SUFFICES ASSUME ConnInv, [ConnNext]_connVars PROVE ConnInv'
  OBVIOUS
<1>1. CASE ConnectionThread
  BY <1>1, TopKeeps, SearchKeeps, DialKeeps, ClearKeeps, AwaitKeeps, AwaitTimeoutKeeps,
     ActiveKeeps, ProbeKeeps, CloseKeeps, PauseKeeps DEF ConnectionThread
<1>2. ASSUME NEW g \in Generations, RecvThread(g) PROVE ConnInv'
  BY <1>2, HelloKeeps, LockKeeps, ConfiguredKeeps, ConfigureFailsKeeps, BoundKeeps,
     RecvEndsKeeps DEF RecvThread
<1>3. CASE Request \/ StopClient \/ LinkChanges
  BY <1>3, RequestKeeps, StopClientKeeps, LinkChangesKeeps
<1>4. ASSUME NEW antenna \in Antennas, Arrive(antenna) \/ Depart(antenna) PROVE ConnInv'
  BY <1>4, PassesKeep
<1>5. CASE UNCHANGED connVars
  <2>1. UNCHANGED <<loop, target, state, misses, conn, session, recv, sent, link, field,
                    troubles, stop, asked, discovery_enabled, wake, requests, present>>
    BY <1>5 DEF connVars, threadVars, recvVars, readerVars, otherVars
  <2> QED BY <2>1 DEF ConnInv, ConnTypeOK, Targeted, Opened, Caused, ConnectionsHaveCause, Endings,
     Sessions, BoundIsConfigured, Presence, Connected, In, Spent, Pending, Reconnects, Alive
<1> QED BY <1>1, <1>2, <1>3, <1>4, <1>5 DEF ConnNext

THEOREM ConnectionInvariant == ConnSpec => []ConnInv
<1> QED BY ConnInitially, ConnStep, PTL DEF ConnSpec

(* The connection keeps its types: with any number of antennas, troubles   *)
(* and requests no probe is missed more often than ProbeMaxMisses says.    *)
THEOREM ConnTypeCorrect == ConnSpec => []ConnTypeOK
<1>1. ConnInv => ConnTypeOK
  BY DEF ConnInv
<1> QED BY <1>1, ConnectionInvariant, PTL

(* A session counts as bound only when the reader was configured for it on *)
(* this very connection, whatever the receive threads of older connections *)
(* still do (_maybe_bind_and_config, sirit_client.py).                     *)
THEOREM BoundAlwaysConfigured == ConnSpec => []BoundIsConfigured
<1>1. ConnInv => BoundIsConfigured
  BY DEF ConnInv
<1> QED BY <1>1, ConnectionInvariant, PTL

(* While tag lines arrive, whoever counts as present is in the field:      *)
(* across losses, reconnects and a silent link no antenna is left behind   *)
(* that would swallow the next pass (_begin_connection, TagTracker).       *)
THEOREM PresenceAlwaysReal == ConnSpec => []PresenceIsReal
<1>1. ConnInv => PresenceIsReal
  BY DEF ConnInv, Presence, PresenceIsReal, Delivering, Alive
<1> QED BY <1>1, ConnectionInvariant, PTL

(* Every connection but the first has a cause of its own, a trouble or a   *)
(* request: neither a request that is looked at again nor a probe that is  *)
(* counted twice makes the client drop a reader that works                 *)
(* (_connection_loop, _handle_requests, sirit_client.py).                  *)
THEOREM ConnectionsAlwaysHaveCause == ConnSpec => []ConnectionsHaveCause
<1>1. ConnInv => ConnectionsHaveCause
  BY DEF ConnInv, Caused
<1> QED BY <1>1, ConnectionInvariant, PTL
------------------------------------------------------------------------------
(* ReaderTarget.  The reporter waits for one heartbeat at a time, the      *)
(* numbers of the discoveries only grow, and what is reported is where the *)
(* reader-service connects to.                                             *)
InTurn ==
  /\ \A p, q \in posts : p.awaited /\ q.awaited => p = q
  /\ client.found <= changes /\ \A post \in posts : post.found <= changes
  /\ \A number \in used : number <= changes
  /\ DiscoveredIsTarget

(* The key the backend remembers of a discovery it has saved. *)
Remembered(ip) == taken = [pid |-> 1, ip |-> ip]

(* While everything is in order, a saved discovery that is still reported  *)
(* is the one remembered, and what the awaited heartbeat reports is the    *)
(* newest but for what was discovered after it was sent.                   *)
InOrder ==
  mishaps = 0 =>
    /\ client.pid = 1
    /\ \A number \in used : number <= client.found
    /\ client.discovered # None /\ client.found \in used => Remembered(client.discovered)
    /\ \A post \in posts : post.awaited =>
         /\ post.pid = 1 /\ post.found <= client.found
         /\ \A number \in used : number <= post.found
         /\ post.discovered # None /\ post.found \in used => Remembered(post.discovered)
         /\ post.found = client.found /\ client.discovered # None =>
              post.discovered = client.discovered

TargetInv == TargetTypeOK /\ InTurn /\ InOrder

USE ChangesAssumption, NoneAssumption, StartAssumption

(* Nothing has been discovered at the start. *)
LEMMA InitTarget == TargetInit => TargetInv
<1> SUFFICES ASSUME TargetInit PROVE TargetInv
  OBVIOUS
<1>1. /\ saved \in Address /\ posts = {} /\ reply = {} /\ used = {} /\ changes = 0 /\ mishaps = 0
      /\ client = Started(1) /\ taken = Nothing
  BY DEF TargetInit
<1>2. /\ client \in Client /\ client.pid = 1 /\ client.found = 0 /\ client.discovered = None
  BY <1>1 DEF Started, Client, Address
<1>3. taken \in [pid : Nat, ip : Address]
  BY <1>1 DEF Nothing, Address
<1>4. TargetTypeOK
  BY <1>1, <1>2, <1>3 DEF TargetTypeOK
<1>5. InTurn /\ InOrder
  BY <1>1, <1>2 DEF InTurn, InOrder, DiscoveredIsTarget
<1> QED BY <1>4, <1>5 DEF TargetInv

(* What the operator, the network and the replies do; the discovered       *)
(* address is given up, or stays.                                          *)
LEMMA SaveIpTarget == ASSUME TargetInv, NEW ip \in Address, SaveIp(ip) PROVE TargetInv'
<1>1. /\ saved' = ip /\ changes' = changes + 1
      /\ UNCHANGED <<taken, client, posts, reply, used, mishaps>>
  BY DEF SaveIp, Change
<1>2. /\ changes \in Nat /\ client.found \in Nat /\ used \subseteq Nat
      /\ \A post \in posts : post.found \in Nat
  BY DEF TargetInv, TargetTypeOK, Client, Post
<1>3. TargetTypeOK'
  BY <1>1 DEF TargetInv, TargetTypeOK
<1>4. InTurn'
  BY <1>1, <1>2 DEF TargetInv, InTurn, DiscoveredIsTarget
<1>5. InOrder'
  BY <1>1 DEF TargetInv, InOrder, Remembered
<1> QED BY <1>3, <1>4, <1>5 DEF TargetInv

LEMMA LoseTarget == ASSUME TargetInv, Lose PROVE TargetInv'
<1>1. posts' \subseteq posts /\ UNCHANGED <<saved, taken, client, reply, used, changes, mishaps>>
  BY DEF Lose
<1> QED BY <1>1 DEF TargetInv, TargetTypeOK, InTurn, InOrder, Remembered, DiscoveredIsTarget

(* Nobody waits any more for the heartbeats of a reporter that gave up or  *)
(* was restarted.                                                          *)
LEMMA AbandonedTarget ==
  ASSUME TargetInv, NEW post \in Abandoned
  PROVE  post \in Post /\ post.found <= changes /\ ~post.awaited
<1>1. PICK old \in posts : post = [old EXCEPT !.awaited = FALSE]
  BY DEF Abandoned
<1>2. old \in Post /\ old.found <= changes
  BY DEF TargetInv, TargetTypeOK, InTurn
<1> QED BY <1>1, <1>2 DEF Post

LEMMA GiveUpTarget == ASSUME TargetInv, GiveUp PROVE TargetInv'
<1>1. \A post \in posts' : post \in Post /\ post.found <= changes /\ ~post.awaited
  BY AbandonedTarget DEF GiveUp
<1>2. reply' = {} /\ UNCHANGED <<saved, taken, client, used, changes, mishaps>>
  BY DEF GiveUp
<1> QED BY <1>1, <1>2
        DEF TargetInv, TargetTypeOK, InTurn, InOrder, Remembered, DiscoveredIsTarget

LEMMA ReceiveTarget == ASSUME TargetInv, Receive PROVE TargetInv'
<1>1. /\ client \in Client /\ reply \subseteq Reply
      /\ UNCHANGED <<saved, taken, posts, used, changes, mishaps>> /\ reply' = {}
  BY DEF Receive, TargetInv, TargetTypeOK
<1>2. /\ client' \in Client /\ client'.pid = client.pid /\ client'.found = client.found
      /\ client'.discovered = client.discovered /\ client'.ip = client.ip
  <2>1. PICK r \in reply : client' = IF Adopts(r) THEN [client EXCEPT !.queued = r.ip] ELSE client
    BY DEF Receive
  <2>2. r.ip \in Address
    BY <1>1 DEF Reply
  <2> QED BY <1>1, <2>1, <2>2 DEF Client
<1> QED BY <1>1, <1>2
        DEF TargetInv, TargetTypeOK, InTurn, InOrder, Remembered, DiscoveredIsTarget

LEMMA HandleTarget == ASSUME TargetInv, Handle PROVE TargetInv'
<1>1. client \in Client /\ UNCHANGED <<saved, taken, posts, reply, used, changes, mishaps>>
  BY DEF Handle, TargetInv, TargetTypeOK
<1>2. /\ client' \in Client /\ client'.pid = client.pid /\ client'.found = client.found
      /\ \/ client'.discovered = None
         \/ client'.discovered = client.discovered /\ client'.ip = client.ip
  BY <1>1 DEF Handle, Client, Address
<1> QED BY <1>1, <1>2
        DEF TargetInv, TargetTypeOK, InTurn, InOrder, Remembered, DiscoveredIsTarget

(* A discovery has a number no other had. *)
LEMMA SelectTarget == ASSUME TargetInv, Select PROVE TargetInv'
<1>1. /\ client \in Client /\ changes \in Nat /\ changes' = changes + 1
      /\ UNCHANGED <<saved, taken, posts, reply, used, mishaps>>
  BY DEF Select, Change, TargetInv, TargetTypeOK
<1>2. PICK ip \in Ips : client' = [client EXCEPT !.ip = ip, !.discovered = ip, !.found = changes']
  BY DEF Select
<1>3. /\ client' \in Client /\ client'.pid = client.pid /\ client'.found = changes + 1
      /\ client'.discovered = ip /\ client'.ip = ip
  <2>1. ip \in Address /\ changes' \in Nat
    BY <1>1 DEF Address
  <2> QED BY <1>1, <1>2, <2>1 DEF Client
<1>4. posts \subseteq Post /\ used \subseteq Nat
  BY DEF TargetInv, TargetTypeOK
<1>5. client.found \in Nat /\ \A post \in posts : post.found \in Nat
  BY <1>1, <1>4 DEF Client, Post
<1>6. TargetTypeOK' /\ InTurn'
  <2>1. TargetTypeOK'
    BY <1>1, <1>3 DEF TargetInv, TargetTypeOK
  <2>2. InTurn'
    BY <1>1, <1>3, <1>4, <1>5 DEF TargetInv, InTurn, DiscoveredIsTarget
  <2> QED BY <2>1, <2>2
<1>7. InOrder'
  BY <1>1, <1>3, <1>4, <1>5 DEF TargetInv, InTurn, InOrder, Remembered
<1> QED BY <1>6, <1>7 DEF TargetInv

(* A heartbeat is sent: what it reports is what the client has. *)
LEMMA PostTarget == ASSUME TargetInv, PostStatus PROVE TargetInv'
<1> DEFINE new == [pid |-> client.pid, discovered |-> client.discovered,
                   found |-> client.found, awaited |-> TRUE]
<1>1. /\ client \in Client /\ \A post \in posts : ~post.awaited
      /\ posts' = posts \cup {new}
      /\ UNCHANGED <<saved, taken, client, reply, used, changes, mishaps>>
  BY DEF PostStatus, TargetInv, TargetTypeOK
<1>2. new \in Post
  BY <1>1 DEF Client, Post
<1>3. TargetTypeOK' /\ InTurn'
  <2>1. TargetTypeOK'
    BY <1>1, <1>2 DEF TargetInv, TargetTypeOK
  <2>2. new.found <= changes /\ new.awaited
    BY DEF TargetInv, InTurn
  <2>3. InTurn'
    BY <1>1, <2>2 DEF TargetInv, InTurn, DiscoveredIsTarget
  <2> QED BY <2>1, <2>3
<1>4. InOrder'
  BY <1>1, <1>2 DEF TargetInv, InOrder, Remembered, Client
<1> QED BY <1>3, <1>4 DEF TargetInv

(* What the arrival of a heartbeat does to the backend. *)
LEMMA AnswerTarget ==
  ASSUME TargetInv, NEW post \in posts, Answer(post)
  PROVE  /\ saved' \in Address /\ taken' \in [pid : Nat, ip : Address]
         /\ posts' = posts \ {post} /\ reply' \subseteq Reply
         /\ used' \subseteq used \cup {post.found} /\ post \in Post
         /\ UNCHANGED <<client, changes>>
<1>1. /\ TargetTypeOK /\ post \in Post /\ Persist(post) /\ posts' = posts \ {post}
      /\ UNCHANGED <<client, changes>>
  BY DEF Answer, TargetInv, TargetTypeOK
<1>2. saved' \in Address /\ taken' \in [pid : Nat, ip : Address]
  BY <1>1 DEF Persist, TargetTypeOK, Post, Address, Nothing
<1>3. used' \subseteq used \cup {post.found}
  BY <1>1 DEF Persist
<1>4. reply' \subseteq Reply
  <2>1. Effective(saved') \in Address
    BY <1>2 DEF Effective, Address
  <2> QED BY <1>1, <2>1 DEF Answer, Reply, Post, TargetTypeOK
<1> QED BY <1>1, <1>2, <1>3, <1>4

(* The awaited heartbeat arrives: a discovery it reports is remembered     *)
(* from now on, and was not saved before unless it was remembered.         *)
LEMMA ArrivesTarget ==
  ASSUME TargetInv, PostArrives
  PROVE  /\ TargetInv'
         /\ mishaps' = 0 /\ saved' # saved => \E number \in used' : number \notin used
<1>1. PICK post \in posts : post.awaited /\ Answer(post) /\ UNCHANGED mishaps
  BY DEF PostArrives
<1>2. /\ saved' \in Address /\ taken' \in [pid : Nat, ip : Address]
      /\ posts' = posts \ {post} /\ reply' \subseteq Reply
      /\ used' \subseteq used \cup {post.found} /\ post \in Post
      /\ UNCHANGED <<client, changes>>
  BY <1>1, AnswerTarget
<1>3. \A q \in posts' : ~q.awaited
  BY <1>1, <1>2 DEF TargetInv, InTurn
<1>4. /\ client \in Client /\ post.found \in Nat /\ used \subseteq Nat /\ changes \in Nat
      /\ client.found \in Nat
  BY <1>2 DEF TargetInv, TargetTypeOK, Client, Post
<1>5. CASE mishaps = 0
  <2>1. /\ client.pid = 1 /\ post.pid = 1 /\ post.found <= client.found
        /\ \A number \in used : number <= post.found
        /\ post.discovered # None /\ post.found \in used => Remembered(post.discovered)
        /\ post.found = client.found /\ client.discovered # None =>
             post.discovered = client.discovered
        /\ client.discovered # None /\ client.found \in used => Remembered(client.discovered)
        /\ client.found <= changes
    BY <1>1, <1>5 DEF TargetInv, InOrder, InTurn
  <2>2. Persist(post)
    BY <1>1 DEF Answer
  <2>3. saved' # saved => post.found \in used' /\ post.found \notin used
    BY <2>1, <2>2 DEF Persist, Remembered
  <2>4. post.discovered # None => taken' = [pid |-> 1, ip |-> post.discovered]
    BY <2>1, <2>2 DEF Persist
  <2>5. TargetTypeOK' /\ InTurn'
    BY <1>1, <1>2, <1>3, <1>4, <2>1 DEF TargetInv, TargetTypeOK, InTurn, DiscoveredIsTarget
  <2>6. ASSUME client.discovered # None, client.found \in used'
        PROVE  taken' = [pid |-> 1, ip |-> client.discovered]
    <3>1. client.found = post.found
      BY <1>2, <1>4, <2>1, <2>6
    <3> QED BY <2>1, <2>4, <2>6, <3>1
  <2>7. InOrder'
    BY <1>1, <1>2, <1>3, <1>4, <2>1, <2>6 DEF InOrder, Remembered
  <2> QED BY <2>3, <2>5, <2>7 DEF TargetInv
<1>6. CASE mishaps # 0
  <2>1. TargetTypeOK' /\ InTurn'
    BY <1>1, <1>2, <1>3, <1>4 DEF TargetInv, TargetTypeOK, InTurn, DiscoveredIsTarget
  <2> QED BY <1>1, <1>6, <2>1 DEF TargetInv, InOrder
<1> QED BY <1>5, <1>6

(* A late heartbeat, and the restarts: nothing is in order any more. *)
LEMMA LateTarget == ASSUME TargetInv, PostArrivesLate PROVE TargetInv' /\ mishaps' # 0
<1>1. PICK post \in posts : ~post.awaited /\ Answer(post) /\ Mishap
  BY DEF PostArrivesLate
<1>2. /\ saved' \in Address /\ taken' \in [pid : Nat, ip : Address]
      /\ posts' = posts \ {post} /\ reply' \subseteq Reply
      /\ used' \subseteq used \cup {post.found} /\ post \in Post
      /\ UNCHANGED <<client, changes>>
  BY <1>1, AnswerTarget
<1>3. mishaps' = mishaps + 1 /\ mishaps' # 0 /\ mishaps' \in Nat
  BY <1>1 DEF Mishap, TargetInv, TargetTypeOK
<1>4. TargetTypeOK' /\ InTurn'
  BY <1>1, <1>2, <1>3 DEF TargetInv, TargetTypeOK, InTurn, DiscoveredIsTarget, Post
<1> QED BY <1>3, <1>4 DEF TargetInv, InOrder

LEMMA RestartTarget ==
  ASSUME TargetInv, RestartService \/ RestartBackend PROVE TargetInv' /\ mishaps' # 0
<1>1. mishaps' = mishaps + 1 /\ mishaps' # 0 /\ mishaps' \in Nat
  BY DEF RestartService, RestartBackend, Mishap, TargetInv, TargetTypeOK
<1>2. \A post \in posts' : post \in Post /\ post.found <= changes /\ ~post.awaited
  BY AbandonedTarget DEF RestartService, RestartBackend
<1>3. /\ client' \in Client /\ client'.found <= changes
      /\ client'.discovered \in {None, client'.ip}
  BY DEF RestartService, RestartBackend, Started, TargetInv, TargetTypeOK, InTurn,
         DiscoveredIsTarget, Client, Address
<1>4. taken' \in [pid : Nat, ip : Address] /\ UNCHANGED <<saved, used, changes>> /\ reply' = {}
  BY DEF RestartService, RestartBackend, Nothing, TargetInv, TargetTypeOK, Address
<1> QED BY <1>1, <1>2, <1>3, <1>4
        DEF TargetInv, TargetTypeOK, InTurn, InOrder, DiscoveredIsTarget

LEMMA TargetStep ==
  TargetInv /\ [TargetNext]_targetVars =>
    /\ TargetInv'
    /\ mishaps' = 0 /\ saved' # saved =>
         \/ \E ip \in Address : SaveIp(ip)
         \/ \E number \in used' : number \notin used
<1> SUFFICES ASSUME TargetInv, [TargetNext]_targetVars
             PROVE  /\ TargetInv'
                    /\ mishaps' = 0 /\ saved' # saved =>
                         \/ \E ip \in Address : SaveIp(ip)
                         \/ \E number \in used' : number \notin used
  OBVIOUS
<1>1. CASE \E ip \in Address : SaveIp(ip)
  BY <1>1, SaveIpTarget
<1>2. CASE Select \/ PostStatus \/ Lose \/ GiveUp \/ Receive \/ Handle
  <2>1. saved' = saved
    BY <1>2 DEF Select, PostStatus, Lose, GiveUp, Receive, Handle
  <2> QED BY <1>2, <2>1, SelectTarget, PostTarget, LoseTarget, GiveUpTarget, ReceiveTarget,
             HandleTarget
<1>3. CASE PostArrives
  BY <1>3, ArrivesTarget
<1>4. CASE PostArrivesLate \/ RestartService \/ RestartBackend
  BY <1>4, LateTarget, RestartTarget
<1>5. CASE UNCHANGED targetVars
  BY <1>5 DEF targetVars, TargetInv, TargetTypeOK, InTurn, InOrder, Remembered, DiscoveredIsTarget
<1> QED BY <1>1, <1>2, <1>3, <1>4, <1>5 DEF TargetNext

(* The invariant of the addresses. *)
THEOREM TargetInvariant == TargetSpec => []TargetInv
BY InitTarget, TargetStep, PTL DEF TargetSpec

(* What both ends remember of the addresses is well formed. *)
THEOREM TargetTypeCorrect == TargetSpec => []TargetTypeOK
<1>1. TargetInv => TargetTypeOK
  BY DEF TargetInv
<1> QED BY <1>1, TargetInvariant, PTL

(* The address reported as discovered is the one connected to, whatever    *)
(* the replies, the operator, sweeps and restarts do.                      *)
THEOREM DiscoveredAlwaysTarget == TargetSpec => []DiscoveredIsTarget
<1>1. TargetInv => DiscoveredIsTarget
  BY DEF TargetInv, InTurn
<1> QED BY <1>1, TargetInvariant, PTL

(* As long as heartbeats are in order and both processes live, the backend *)
(* saves each discovery once: a later change of the saved address is the   *)
(* operator's, or comes of a discovery that was never saved.               *)
THEOREM DiscoveryAlwaysSavedOnce == TargetSpec => SavedOnce
BY TargetStep, TargetInvariant, PTL DEF TargetSpec, SavedOnce
==============================================================================
