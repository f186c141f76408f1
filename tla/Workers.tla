------------------------------- MODULE Workers -------------------------------
(***************************************************************************)
(* Requests that overlap.  FastAPI runs the handlers of app.py in a pool   *)
(* of threads; the file has a lock, the race and the riders in memory have *)
(* none.  Here a step is one statement that reads or writes what is        *)
(* shared, and any other thread may run between two.  Four requests meet:  *)
(* an event, a removal of a rider with its rebuild, a verdict, the start.  *)
(*                                                                         *)
(* The race is one over a fixed distance, finished in leader mode; it is   *)
(* never ended, and nobody registers while it is watched.  The clock moves *)
(* with every request: events come in the order of their timestamps, but   *)
(* the reader-service may deliver one again at any time.                   *)
(* Of the race, what decides about laps and finishes is kept; p.laps += 1  *)
(* is two steps, since a Participant assigns through a method.             *)
(***************************************************************************)
EXTENDS RaceState, FiniteSets, Folds

CONSTANTS Workers,      \* the threads
          Distance,     \* total_laps
          Cooldown,     \* min_pass_interval_s
          MaxRequests   \* bound: the requests ever made

ASSUME WorkersAssumption ==
  Distance \in Nat \ {0} /\ Cooldown \in Nat \ {0} /\ MaxRequests \in Nat

VARIABLES ram,          \* the race and the rider registry in memory
          file,         \* the SQLite file
          hands,        \* what each thread is doing
          past,         \* history: the requests that overlapped
          clock         \* the time, in requests taken up

workVars == <<ram, file, hands, past, clock>>
------------------------------------------------------------------------------
WorkKinds == {"event", "removal", "verdict", "start"}

(* participants maps a tag to an object, by its place among the objects    *)
(* ever made: a thread may hold one that is in the dictionary no more.     *)
Object   == [laps : Nat, last : Nat, finished : BOOLEAN]
Registry == [Tags -> Statuses \cup {"unregistered"}]

Memory == [started : BOOLEAN, started_at : Nat, finishing : BOOLEAN,
           participants : [Tags -> Nat], objects : Seq(Object),
           status : [Tags -> Statuses], riders : Registry]
File   == [log : SUBSET (Tags \X Nat), riders : Registry, started_at : Nat]

(* tag and ts are of the event or of the row that is replayed (ts also of  *)
(* a start), rows what is still to be replayed, riders still to be synced. *)
Hand == [kind   : WorkKinds \cup {"none"},
         pc     : STRING,
         tag    : Tags \cup {"none"},
         ts     : Nat,
         object : Nat,
         laps   : Nat,
         status : Statuses,
         rows   : SUBSET (Tags \X Nat),
         riders : SUBSET (Tags \X Statuses),
         alone  : BOOLEAN]

FreeHand == [kind |-> "none", pc |-> "idle", tag |-> "none", ts |-> None, object |-> 0,
             laps |-> 0, status |-> "racing", rows |-> {}, riders |-> {}, alone |-> TRUE]

FirstClock == 1 + Cooldown * Distance

(* All riders are registered; the race has not started, or has and one     *)
(* rider has passed some times.                                            *)
WorkInit ==
  /\ \E started_at \in {None, 1}, tag \in Tags, n \in 0..Distance :
       LET passed == {<<tag, 1 + Cooldown * i>> : i \in 1..n}
       IN  /\ n > 0 => started_at # None
           /\ ram = [started |-> started_at # None, started_at |-> started_at,
                     finishing |-> n = Distance,
                     participants |-> [t \in Tags |-> IF t = tag /\ n > 0 THEN 1 ELSE 0],
                     objects |-> IF n = 0 THEN <<>>
                                 ELSE <<[laps |-> n, last |-> 1 + Cooldown * n, finished |-> n = Distance]>>,
                     status |-> [t \in Tags |-> "racing"],
                     riders |-> [t \in Tags |-> "racing"]]
           /\ file = [log |-> passed, riders |-> ram.riders, started_at |-> started_at]
  /\ hands = [w \in Workers |-> FreeHand]
  /\ past = [ever |-> {}, since |-> {}]
  /\ clock = FirstClock
------------------------------------------------------------------------------
At(w, pc)      == hands[w].pc = pc
Go(w, pc)      == hands' = [hands EXCEPT ![w].pc = pc]
Busy           == {w \in Workers : hands[w].kind # "none"}
Known(tag)     == ram.riders[tag] # "unregistered"
Mine(w)        == ram.objects[hands[w].object]
Untouched      == UNCHANGED <<file, past, clock>>

(* A request is taken up; with every request in hand it has overlapped.    *)
TakeUp(w, hand) ==
  LET met == {{hand.kind, hands[o].kind} : o \in Busy}
  IN  /\ w \notin Busy
      /\ clock < FirstClock + MaxRequests /\ clock' = clock + 1
      /\ hands' = [o \in Workers |->
                     IF o = w THEN [hand EXCEPT !.alone = Busy = {}]
                     ELSE [hands[o] EXCEPT !.alone = @ /\ hands[o].kind = "none"]]
      /\ past' = [ever |-> past.ever \cup met, since |-> past.since \cup met]

(* A handler returns or raises; the history forgets the overlaps when a    *)
(* removal has run its whole rebuild alone.                                *)
Release(w) ==
  /\ hands' = [hands EXCEPT ![w] = FreeHand]
  /\ past' = IF hands[w].alone /\ At(w, "sync") THEN [past EXCEPT !.since = {}] ELSE past

(* add_lap returns: the event is done, a replay goes on with the next row. *)
Counted(w) ==
  IF hands[w].kind = "event" THEN Release(w) ELSE Go(w, "replay") /\ UNCHANGED past
------------------------------------------------------------------------------
(* POST /events/tag/batch: the event is stored, or ignored if it is there. *)
TakeEvent(w) ==
  /\ \E tag \in Tags, ts \in 1..(clock + 1) :
       /\ ts = clock + 1 \/ <<tag, ts>> \in file.log
       /\ file' = [file EXCEPT !.log = @ \cup {<<tag, ts>>}]
       /\ TakeUp(w, [FreeHand EXCEPT !.kind = "event", !.pc = "rider", !.tag = tag, !.ts = ts])
  /\ UNCHANGED ram

FindRider(w) ==
  /\ At(w, "rider")
  /\ IF Known(hands[w].tag) THEN Go(w, "present") /\ UNCHANGED past ELSE Release(w)
  /\ UNCHANGED <<ram, file, clock>>

(* was_present and prev_laps: a row that goes in between is a KeyError.    *)
WasPresent(w) ==
  /\ At(w, "present")
  /\ Go(w, IF ram.participants[hands[w].tag] # 0 THEN "previous" ELSE "get")
  /\ UNCHANGED ram /\ Untouched

PreviousLaps(w) ==
  /\ At(w, "previous")
  /\ IF ram.participants[hands[w].tag] # 0 THEN Go(w, "get") /\ UNCHANGED past ELSE Release(w)
  /\ UNCHANGED <<ram, file, clock>>

(* add_lap. *)
GetParticipant(w) ==
  /\ At(w, "get")
  /\ LET object == ram.participants[hands[w].tag]
     IN  hands' = [hands EXCEPT ![w].object = object,
                                ![w].pc = IF object = 0 THEN "insert" ELSE "started"]
  /\ UNCHANGED ram /\ Untouched

InsertParticipant(w) ==
  /\ At(w, "insert")
  /\ LET made == Len(ram.objects) + 1
     IN  /\ ram' = [ram EXCEPT !.objects = Append(@, [laps |-> 0, last |-> None, finished |-> FALSE]),
                               !.participants[hands[w].tag] = made]
         /\ hands' = [hands EXCEPT ![w].object = made, ![w].pc = "started"]
  /\ Untouched

RaceStarted(w) ==
  /\ At(w, "started")
  /\ IF ram.started /\ ram.started_at # None THEN Go(w, "spacing") /\ UNCHANGED past ELSE Counted(w)
  /\ UNCHANGED <<ram, file, clock>>

(* The first pass is measured from started_at, which a rebuild may have    *)
(* taken away since: a TypeError.                                          *)
Spacing(w) ==
  /\ At(w, "spacing")
  /\ LET first  == Mine(w).last = None
         anchor == IF first THEN ram.started_at ELSE Mine(w).last
     IN  CASE first /\ anchor = None             -> Release(w)
           [] hands[w].ts - anchor >= Cooldown   -> Go(w, "laps") /\ UNCHANGED past
           [] OTHER                              -> Counted(w)
  /\ UNCHANGED <<ram, file, clock>>

ReadLaps(w) ==
  /\ At(w, "laps")
  /\ hands' = [hands EXCEPT ![w].laps = Mine(w).laps, ![w].pc = "lapped"]
  /\ UNCHANGED ram /\ Untouched

WriteLaps(w) ==
  /\ At(w, "lapped")
  /\ ram' = [ram EXCEPT !.objects[hands[w].object].laps = hands[w].laps + 1]
  /\ hands' = [hands EXCEPT ![w].laps = 0, ![w].pc = "last"]
  /\ Untouched

WriteLastPass(w) ==
  /\ At(w, "last")
  /\ ram' = [ram EXCEPT !.objects[hands[w].object].last = hands[w].ts]
  /\ Go(w, "flag")
  /\ Untouched

FlaggedOff(w) ==
  /\ At(w, "flag")
  /\ IF Mine(w).finished THEN Counted(w)
     ELSE Go(w, IF ram.finishing THEN "flagged" ELSE "target") /\ UNCHANGED past
  /\ UNCHANGED <<ram, file, clock>>

ReachedTarget(w) ==
  /\ At(w, "target")
  /\ IF Mine(w).laps >= Distance THEN Go(w, "winner") /\ UNCHANGED past ELSE Counted(w)
  /\ UNCHANGED <<ram, file, clock>>

(* finished, and finish_time, which nothing here reads.                    *)
Finish(w) ==
  /\ hands[w].pc \in {"flagged", "winner"}
  /\ ram' = [ram EXCEPT !.objects[hands[w].object].finished = TRUE]
  /\ IF At(w, "winner") THEN Go(w, "phase") /\ UNCHANGED past ELSE Counted(w)
  /\ UNCHANGED <<file, clock>>

PhaseBegun(w) ==
  /\ At(w, "phase")
  /\ IF ram.finishing THEN Counted(w) ELSE Go(w, "signal") /\ UNCHANGED past
  /\ UNCHANGED <<ram, file, clock>>

BeginPhase(w) ==
  /\ At(w, "signal")
  /\ ram' = [ram EXCEPT !.finishing = TRUE]
  /\ Counted(w)
  /\ UNCHANGED <<file, clock>>
------------------------------------------------------------------------------
(* DELETE /riders/{tag}: found, deleted from the file, then from memory,   *)
(* where another removal of the same rider makes it a KeyError.            *)
TakeRemoval(w) ==
  /\ \E tag \in Tags :
       /\ Known(tag)
       /\ TakeUp(w, [FreeHand EXCEPT !.kind = "removal", !.pc = "unfile", !.tag = tag])
  /\ UNCHANGED <<ram, file>>

DeleteRow(w) ==
  /\ At(w, "unfile")
  /\ file' = [file EXCEPT !.riders[hands[w].tag] = "unregistered"]
  /\ Go(w, "forget")
  /\ UNCHANGED <<ram, past, clock>>

Forget(w) ==
  /\ At(w, "forget")
  /\ ram' = [ram EXCEPT !.riders[hands[w].tag] = "unregistered"]
  /\ IF Known(hands[w].tag) THEN Go(w, "clear") /\ UNCHANGED past ELSE Release(w)
  /\ UNCHANGED <<file, clock>>

(* Mutant: the rebuild keeps the finishing phase. *)
ClearedButPhase(field) ==
  CASE field = "clear" -> [ram EXCEPT !.participants = [tag \in Tags |-> 0]]
    [] field = "stop"  -> [ram EXCEPT !.started = FALSE]
    [] field = "unset" -> [ram EXCEPT !.started_at = None]
    [] field = "calm"  -> ram

(* _rebuild_active_race_state_in_place clears the race one assignment      *)
(* after the other.                                                        *)
Cleared(field) ==
  CASE field = "clear" -> [ram EXCEPT !.participants = [tag \in Tags |-> 0]]
    [] field = "stop"  -> [ram EXCEPT !.started = FALSE]
    [] field = "unset" -> [ram EXCEPT !.started_at = None]
    [] field = "calm"  -> [ram EXCEPT !.finishing = FALSE]

ClearField(w, field, next) ==
  /\ At(w, field)
  /\ ram' = Cleared(field)
  /\ Go(w, next)
  /\ Untouched

ClearRace(w) ==
  \/ ClearField(w, "clear", "stop") \/ ClearField(w, "stop", "unset")
  \/ ClearField(w, "unset", "calm") \/ ClearField(w, "calm", "row")

RaceRow(w) ==
  /\ At(w, "row")
  /\ hands' = [hands EXCEPT ![w].pc = IF file.started_at # None THEN "begin" ELSE "select",
                            ![w].ts = file.started_at]
  /\ UNCHANGED ram /\ Untouched

SelectEvents(w) ==
  /\ At(w, "select")
  /\ hands' = [hands EXCEPT ![w].rows = file.log, ![w].pc = "replay"]
  /\ UNCHANGED ram /\ Untouched

(* _replay_event: only of a registered rider the event goes to add_lap.    *)
ReplayEvent(w) ==
  /\ At(w, "replay")
  /\ \E row \in hands[w].rows :
       /\ \A other \in hands[w].rows : row[2] <= other[2]
       /\ hands' = [hands EXCEPT ![w].rows = @ \ {row}, ![w].tag = row[1], ![w].ts = row[2],
                                 ![w].object = 0,
                                 ![w].pc = IF Known(row[1]) THEN "get" ELSE "replay"]
  /\ UNCHANGED ram /\ Untouched

ClearStatuses(w) ==
  /\ At(w, "replay") /\ hands[w].rows = {}
  /\ ram' = [ram EXCEPT !.status = [tag \in Tags |-> "racing"]]
  /\ hands' = [hands EXCEPT ![w].pc = "list", ![w].tag = "none", ![w].ts = None, ![w].object = 0]
  /\ Untouched

ListRiders(w) ==
  /\ At(w, "list")
  /\ hands' = [hands EXCEPT ![w].pc = "sync",
                            ![w].riders = {<<tag, ram.riders[tag]>> :
                                             tag \in {t \in Tags : ram.riders[t] \notin
                                                                     {"unregistered", "racing"}}}]
  /\ UNCHANGED ram /\ Untouched

SyncStatus(w) ==
  /\ At(w, "sync")
  /\ \E rider \in hands[w].riders :
       /\ ram' = [ram EXCEPT !.status[rider[1]] = rider[2]]
       /\ hands' = [hands EXCEPT ![w].riders = @ \ {rider}]
  /\ Untouched

Rebuilt(w) ==
  /\ At(w, "sync") /\ hands[w].riders = {}
  /\ Release(w)
  /\ UNCHANGED <<ram, file, clock>>
------------------------------------------------------------------------------
(* POST /race/start, and the start inside a rebuild: asked whether it has  *)
(* started, the race is given its time and then its flag.                  *)
TakeStart(w) ==
  /\ TakeUp(w, [FreeHand EXCEPT !.kind = "start", !.pc = "begin", !.ts = clock + 1])
  /\ UNCHANGED <<ram, file>>

Begun(w) == IF hands[w].kind = "removal" THEN "select" ELSE "answer"

BeginRace(w) ==
  /\ At(w, "begin")
  /\ Go(w, IF ram.started /\ ram.started_at # None THEN Begun(w) ELSE "time")
  /\ UNCHANGED ram /\ Untouched

SetStartedAt(w) ==
  /\ At(w, "time")
  /\ ram' = [ram EXCEPT !.started_at = hands[w].ts]
  /\ Go(w, "mark")
  /\ Untouched

SetStarted(w) ==
  /\ At(w, "mark")
  /\ ram' = [ram EXCEPT !.started = TRUE]
  /\ Go(w, Begun(w))
  /\ Untouched

(* start() returns started_at as it is now: None would be an               *)
(* AttributeError.                                                         *)
AnswerStart(w) ==
  /\ At(w, "answer")
  /\ IF ram.started_at = None THEN Release(w)
     ELSE hands' = [hands EXCEPT ![w].ts = ram.started_at, ![w].pc = "file"] /\ UNCHANGED past
  /\ UNCHANGED <<ram, file, clock>>

FileStart(w) ==
  /\ At(w, "file")
  /\ file' = [file EXCEPT !.started_at = hands[w].ts]
  /\ Release(w)
  /\ UNCHANGED <<ram, clock>>
------------------------------------------------------------------------------
(* PATCH /riders/{tag}/status: set_status looks the rider up again, writes *)
(* the row if it is there and puts its copy of the rider back; whatever    *)
(* became of that, the race is told.                                       *)
TakeVerdict(w) ==
  /\ \E tag \in Tags, status \in {"racing", "dnf"} :
       /\ Known(tag)
       /\ TakeUp(w, [FreeHand EXCEPT !.kind = "verdict", !.pc = "fetch", !.tag = tag,
                                     !.status = status])
  /\ UNCHANGED <<ram, file>>

FetchRider(w) ==
  /\ At(w, "fetch")
  /\ Go(w, IF Known(hands[w].tag) THEN "judge" ELSE "tell")
  /\ UNCHANGED ram /\ Untouched

FileVerdict(w) ==
  /\ At(w, "judge")
  /\ file' = [file EXCEPT !.riders[hands[w].tag] =
                IF @ = "unregistered" THEN @ ELSE hands[w].status]
  /\ Go(w, "keep")
  /\ UNCHANGED <<ram, past, clock>>

KeepVerdict(w) ==
  /\ At(w, "keep")
  /\ ram' = [ram EXCEPT !.riders[hands[w].tag] = hands[w].status]
  /\ Go(w, "tell")
  /\ Untouched

TellRace(w) ==
  /\ At(w, "tell")
  /\ ram' = [ram EXCEPT !.status[hands[w].tag] = hands[w].status]
  /\ Release(w)
  /\ UNCHANGED <<file, clock>>
------------------------------------------------------------------------------
AddLapStep(w) ==
  \/ GetParticipant(w) \/ InsertParticipant(w) \/ RaceStarted(w) \/ Spacing(w)
  \/ ReadLaps(w) \/ WriteLaps(w) \/ WriteLastPass(w) \/ FlaggedOff(w)
  \/ ReachedTarget(w) \/ Finish(w) \/ PhaseBegun(w) \/ BeginPhase(w)

WorkNext ==
  \E w \in Workers :
    \/ TakeEvent(w) \/ TakeRemoval(w) \/ TakeStart(w) \/ TakeVerdict(w)
    \/ FindRider(w) \/ WasPresent(w) \/ PreviousLaps(w) \/ AddLapStep(w)
    \/ DeleteRow(w) \/ Forget(w) \/ ClearRace(w) \/ RaceRow(w) \/ SelectEvents(w)
    \/ ReplayEvent(w) \/ ClearStatuses(w) \/ ListRiders(w) \/ SyncStatus(w) \/ Rebuilt(w)
    \/ BeginRace(w) \/ SetStartedAt(w) \/ SetStarted(w) \/ AnswerStart(w) \/ FileStart(w)
    \/ FetchRider(w) \/ FileVerdict(w) \/ KeepVerdict(w) \/ TellRace(w)

WorkSpec == WorkInit /\ [][WorkNext]_workVars
------------------------------------------------------------------------------
WorkTypeOK ==
  /\ ram \in Memory /\ file \in File /\ hands \in [Workers -> Hand]
  /\ clock \in FirstClock..(FirstClock + MaxRequests)
  /\ past \in [ever : SUBSET SUBSET WorkKinds, since : SUBSET SUBSET WorkKinds]

(* The race the file and the registry stand for, by RaceState: the events  *)
(* of the registered riders in their order.                                *)
Ordered ==
  LET format == [total_laps |-> Distance, min_pass |-> Cooldown, finish_mode |-> "leader",
                 duration |-> None, final_laps |-> NoLaps]
      fresh  == NewRace(format)
      start  == IF file.started_at # None THEN Start(fresh, file.started_at) ELSE fresh
      known  == {row \in file.log : Known(row[1])}
      last(rows) == CHOOSE row \in rows : \A other \in rows : other[2] <= row[2]
  IN  MapThenFoldSet(LAMBDA row, r : AddLap(r, row[1], row[2], row[2]),
                     start, LAMBDA row : row, last, known)

Shown(tag) == IF ram.participants[tag] = 0 THEN [laps |-> 0, last |-> None, finished |-> FALSE]
              ELSE ram.objects[ram.participants[tag]]

(* Whether two requests of these kinds have overlapped since a removal     *)
(* last ran alone; at all.                                                 *)
Met(a, b)     == {a, b} \in past.since
MetEver(a, b) == {a, b} \in past.ever

NoPhantom   == \A tag \in Tags : ram.participants[tag] # 0 => Known(tag)
LapsInOrder == \A tag \in Tags :
                 /\ Shown(tag).laps = Laps(Ordered, tag)
                 /\ Shown(tag).last = LastPass(Ordered, tag)
                 /\ Shown(tag).finished = Finished(Ordered, tag)
PhaseEarned == ram.finishing => \E tag \in Tags : Shown(tag).finished
StartKept   == /\ ram.started_at = file.started_at
               /\ ram.started <=> file.started_at # None
StatusShown == \A tag \in Tags : ram.status[tag] = IF Known(tag) THEN ram.riders[tag] ELSE "racing"
FileAgrees  == ram.riders = file.riders

(* Which requests may overlap.  When no request is in hand, whatever is    *)
(* wrong with the race has been done by two requests of a pair named here  *)
(* that overlapped: a row of a rider who is gone, laps other than the      *)
(* events in their order give, a finishing phase nobody began, a start     *)
(* lost, a verdict not shown, a registry other than the file's.  All other *)
(* pairs (an event and a verdict, say) may meet, and but for the registry  *)
(* a removal that runs alone puts everything right again.                  *)
HarmHasItsOverlap ==
  Busy = {} =>
    /\ NoPhantom   \/ Met("event", "removal") \/ Met("removal", "removal")
    /\ LapsInOrder \/ Met("event", "event") \/ Met("event", "removal") \/ Met("event", "start")
                   \/ Met("removal", "removal") \/ Met("removal", "start")
                   \/ Met("removal", "verdict") \/ Met("start", "start")
    /\ PhaseEarned \/ Met("event", "event") \/ Met("event", "removal")
                   \/ Met("removal", "removal")
    /\ StartKept   \/ Met("removal", "start") \/ Met("start", "start")
    /\ StatusShown \/ Met("removal", "removal") \/ Met("removal", "verdict")
                   \/ Met("verdict", "verdict")
    /\ FileAgrees  \/ MetEver("removal", "verdict") \/ MetEver("verdict", "verdict")
==============================================================================
