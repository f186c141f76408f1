-------------------------------- MODULE Coupling --------------------------------
(***************************************************************************)
(* The coupling panel of the browser: tags are waved at an antenna, one    *)
(* after the other, and the operator types the number each of them gets;   *)
(* or the panel hands out the free numbers by itself.  The frames of the   *)
(* live stream, the replies of the backend and the operator's keys come in *)
(* any order, each handled in one go.                                      *)
(*                                                                         *)
(* The tag_seen frames are taken without their throttle; text is a number  *)
(* or nothing; of several GET /riders in flight one is followed; names,    *)
(* beeps, toasts and the log are left out.                                 *)
(***************************************************************************)
EXTENDS Naturals, Sequences, SequencesExt

CONSTANTS Tags, Races, None,
          Numbers,       \* the numbers the loop hands out, in order, and the operator types
          QueueCap,      \* COUPLE_QUEUE_CAP
          MaxReads, MaxKeys,
          MaxUpsets      \* bounds; the last of faults, and of switches of the race

(* parseNumberRanges drops a number that is there already. *)
ASSUME NumbersAssumption ==
  /\ Numbers \in Seq(ToSet(Numbers))
  /\ \A i, j \in DOMAIN Numbers : Numbers[i] = Numbers[j] => i = j

VARIABLES
  panel,      \* `couple`, without the cache
  cache,      \* its riders: ridersByTag and ridersByBib
  posts,      \* in flight: the POST /riders of the operator and of the loop, two DELETEs
  pull,       \* the GET /riders in flight, and its answer
  feed,       \* the frames on the way from the backend
  riders,     \* the backend's riders: the number of a tag in a race
  serving,    \* of the backend: its active race, the one last announced, a tag_seen in hand
  history,    \* who typed what for which tag, which race the panel has heard of, and so on
  budget

coupleVars == <<panel, cache, posts, pull, feed, riders, serving, history, budget>>
------------------------------------------------------------------------------
Bibs  == ToSet(Numbers)
Waved == [tag : Tags, race : Races]   \* a tag, and the race of the frame that showed it

(* auto: the places in the list of the numbers the loop has left, the      *)
(* first of them that of the number on the card; it runs while there are   *)
(* any.                                                                    *)
Panels == [on : BOOLEAN, phase : {"idle", "info", "armed", "auto"},
           armed : Waved \cup {None}, info : [tag : Tags, bib : Bibs, race : Races] \cup {None},
           queue : Seq(Waved), bib : Bibs \cup {None}, confirm : Bibs \cup {None},
           saving : BOOLEAN, auto : SUBSET DOMAIN Numbers, autoSaving : BOOLEAN]

Posts  == [tag : Tags, bib : Bibs \cup {None}, typedFor : Tags, state : {"sent", "stored", "refused"}]
Caches == [byTag : SUBSET Tags, byBib : [Bibs -> Tags \cup {None}]]
PanelFrames == [tag : Tags, race : Races, bib : Bibs \cup {None}] \cup [switched : Races]
Deletions == {"deletion", "deletion again"}
Who       == {"operator", "loop"} \cup Deletions

CouplingTypeOK ==
  /\ panel \in Panels /\ cache \in Caches /\ posts \in [Who -> Posts \cup {None}]
  /\ pull \in [state : {"none", "sent", "answered"}, riders : [Tags -> Bibs \cup {None}]]
  /\ feed \in Seq(PanelFrames) /\ riders \in [Races -> [Tags -> Bibs \cup {None}]]
  /\ serving \in [race : Races, told : Races,
                  looked : [tag : Tags, race : Races, bib : Bibs \cup {None}] \cup {None}]

NoPull == [state |-> "none", riders |-> [t \in Tags |-> None]]

Fresh == [on |-> FALSE, phase |-> "idle", armed |-> None, info |-> None, queue |-> <<>>,
          bib |-> None, confirm |-> None, saving |-> FALSE, auto |-> {}, autoSaving |-> FALSE]

(* history: the tag on the card when the number was typed; the race the    *)
(* panel was told of; whether the stream had a gap since; the frames that  *)
(* were sent in the middle of a switch; what this loop handed out; whether *)
(* a reply was lost to it, or one of an earlier loop is still to come.     *)
CouplingInit ==
  /\ panel = Fresh /\ cache = [byTag |-> {}, byBib |-> [b \in Bibs |-> None]]
  /\ posts = [w \in Who |-> None] /\ pull = NoPull /\ feed = <<>>
  /\ riders = [r \in Races |-> [t \in Tags |-> None]] /\ serving \in [race : Races, told : Races, looked : {None}] /\ serving.told = serving.race
  /\ history = [typedFor |-> None, race |-> serving.race, gap |-> FALSE, strays |-> {},
                given |-> {}, lost |-> FALSE]
  /\ budget = [reads |-> 0, keys |-> 0, upsets |-> 0]

Spend(what, most) == budget[what] < most /\ budget' = [budget EXCEPT ![what] = @ + 1]
Key               == Spend("keys", MaxKeys)

Running == panel.auto # {}
Refresh == pull' = IF pull.state = "none" THEN [pull EXCEPT !.state = "sent"] ELSE pull
------------------------------------------------------------------------------
(* What the card is set to; every change of the card clears the inputs. *)

ToIdle(p) == [p EXCEPT !.phase = "idle", !.armed = None, !.info = None, !.bib = None,
                       !.confirm = None]

(* Mutant: the number typed for the last tag is still there. *)
ArmWithBib(p, waved, bib) ==
  [p EXCEPT !.phase = "armed", !.armed = waved, !.info = None,
            !.bib = IF bib = None THEN p.bib ELSE bib, !.confirm = None]

Arm(p, waved, bib) ==
  [p EXCEPT !.phase = "armed", !.armed = waved, !.info = None, !.bib = bib, !.confirm = None]

(* couplePopQueue: the first that is not coupled by now. *)
Pop(p, known) ==
  LET waiting == {i \in DOMAIN p.queue : p.queue[i].tag \notin known}
  IN IF waiting = {} THEN ToIdle([p EXCEPT !.queue = <<>>])
     ELSE LET next == CHOOSE i \in waiting : \A j \in waiting : i <= j
          IN Arm([p EXCEPT !.queue = SubSeq(@, next + 1, Len(@))], p.queue[next], None)

AutoStop(p) ==
  IF p.on THEN ToIdle([p EXCEPT !.auto = {}]) ELSE [p EXCEPT !.auto = {}]

AutoAdvance(p) ==
  LET later == {i \in p.auto : \E j \in p.auto : j < i}
  IN IF later # {} THEN [p EXCEPT !.auto = later] ELSE AutoStop(p)
------------------------------------------------------------------------------
(* The frames. *)

Queued(p, waved) ==
  IF waved.tag \notin {p.queue[i].tag : i \in DOMAIN p.queue} /\ Len(p.queue) < QueueCap
  THEN [p EXCEPT !.queue = Append(@, waved)] ELSE p

TagSeen(p, frame) ==
  LET waved == [tag |-> frame.tag, race |-> frame.race]
  IN IF p.phase = "armed"
     THEN IF frame.tag = p.armed.tag \/ frame.bib # None THEN p ELSE Queued(p, waved)
     ELSE IF frame.bib # None
          THEN [p EXCEPT !.phase = "info", !.info = frame]
          ELSE Arm(p, waved, None)

(* onCoupleAutoTagSeen: one tag at a time.  Mutant: any number of them. *)
AutoFreeAlways(p) == TRUE
AutoFree(p)       == ~p.autoSaving

Current(p) == Numbers[CHOOSE i \in p.auto : \A j \in p.auto : i <= j]

AutoTagSeen(frame) ==
  IF frame.bib # None \/ ~AutoFree(panel)
  THEN UNCHANGED <<panel, posts>>
  ELSE /\ panel' = [panel EXCEPT !.autoSaving = TRUE]
       /\ posts' = [posts EXCEPT !["loop"] =
                      [tag |-> frame.tag, bib |-> Current(panel), typedFor |-> frame.tag,
                       state |-> "sent"]]

OnTagSeen(frame) ==
  /\ IF ~panel.on THEN UNCHANGED <<panel, posts>>
     ELSE IF Running THEN AutoTagSeen(frame)
     ELSE panel' = TagSeen(panel, frame) /\ UNCHANGED posts
  /\ UNCHANGED <<pull, history>>

(* Mutant: the tags that wait are kept. *)
RaceChangedKeepingQueue(p) == ToIdle(AutoStop(p))
RaceChanged(p)             == ToIdle([AutoStop(p) EXCEPT !.queue = <<>>])

OnRaceChanged(race) ==
  /\ panel' = IF panel.on THEN RaceChanged(panel) ELSE panel
  /\ IF panel.on THEN Refresh ELSE UNCHANGED pull
  /\ history' = [history EXCEPT !.race = race, !.gap = FALSE]
  /\ UNCHANGED posts

OnMessageOfPanel ==
  /\ feed # <<>> /\ feed' = Tail(feed)
  /\ LET frame == Head(feed)
     IN IF "switched" \in DOMAIN frame THEN OnRaceChanged(frame.switched) ELSE OnTagSeen(frame)
  /\ UNCHANGED <<cache, riders, serving, budget>>
------------------------------------------------------------------------------
(* The operator. *)

ModeOn ==
  /\ ~panel.on /\ Key
  /\ panel' = ToIdle([panel EXCEPT !.on = TRUE, !.queue = <<>>])
  /\ Refresh
  /\ UNCHANGED <<cache, posts, feed, riders, serving, history>>

(* A number that is typed and not saved is discarded on confirmation. *)
ModeOff ==
  /\ panel.on /\ Key
  /\ panel' = ToIdle([AutoStop(panel) EXCEPT !.on = FALSE, !.queue = <<>>])
  /\ UNCHANGED <<cache, posts, pull, feed, riders, serving, history>>

Type(bib) ==
  /\ panel.phase = "armed" /\ Key
  /\ panel' = [panel EXCEPT !.bib = bib, !.confirm = None]
  /\ history' = [history EXCEPT !.typedFor = panel.armed.tag]
  /\ UNCHANGED <<cache, posts, pull, feed, riders, serving>>

Recouple ==
  /\ panel.phase = "info" /\ Key
  /\ panel' = Arm(panel, [tag |-> panel.info.tag, race |-> panel.info.race], panel.info.bib)
  /\ history' = [history EXCEPT !.typedFor = panel.info.tag]
  /\ UNCHANGED <<cache, posts, pull, feed, riders, serving>>

Delete ==
  /\ panel.phase = "info" /\ Key
  /\ \E who \in Deletions :
       /\ posts[who] = None
       /\ posts' = [posts EXCEPT ![who] = [tag |-> panel.info.tag, bib |-> None,
                                          typedFor |-> panel.info.tag, state |-> "sent"]]
  /\ UNCHANGED <<panel, cache, pull, feed, riders, serving, history>>

InfoClears ==
  /\ panel.phase = "info" /\ panel' = ToIdle(panel)
  /\ UNCHANGED <<cache, posts, pull, feed, riders, serving, history, budget>>

(* A number that another tag has by the cache is saved on the second press. *)
Unconfirmed(bib) ==
  cache.byBib[bib] \notin {None, panel.armed.tag} /\ panel.confirm # bib

Save ==
  /\ panel.on /\ panel.phase = "armed" /\ ~panel.saving /\ panel.bib # None /\ Key
  /\ IF Unconfirmed(panel.bib)
     THEN panel' = [panel EXCEPT !.confirm = panel.bib] /\ UNCHANGED posts
     ELSE /\ panel' = [panel EXCEPT !.saving = TRUE]
          /\ posts' = [posts EXCEPT !["operator"] =
                         [tag |-> panel.armed.tag, bib |-> panel.bib,
                          typedFor |-> history.typedFor, state |-> "sent"]]
  /\ UNCHANGED <<cache, pull, feed, riders, serving, history>>

Skip ==
  /\ panel.on /\ Key
  /\ panel' = IF Running THEN AutoAdvance(panel)
              ELSE IF panel.phase = "armed" THEN Pop(panel, cache.byTag) ELSE panel
  /\ panel' # panel
  /\ UNCHANGED <<cache, posts, pull, feed, riders, serving, history>>

(* coupleAutoStart: the numbers nobody has by the cache.  The Enter key in *)
(* the field of the ranges starts a running loop again.                    *)
AutoStart ==
  LET free == {i \in DOMAIN Numbers : cache.byBib[Numbers[i]] = None}
  IN /\ panel.on /\ free # {} /\ Key
     /\ panel' = [panel EXCEPT !.auto = free, !.phase = "auto", !.armed = None, !.info = None,
                               !.confirm = None]
     /\ history' = [history EXCEPT !.given = {}, !.lost = posts["loop"] # None]
     /\ UNCHANGED <<cache, posts, pull, feed, riders, serving>>

AutoStopped ==
  /\ Running /\ Key /\ panel' = AutoStop(panel)
  /\ UNCHANGED <<cache, posts, pull, feed, riders, serving, history>>
------------------------------------------------------------------------------
(* The replies. *)

Coupled(c, post) ==
  [byTag |-> c.byTag \cup {post.tag}, byBib |-> [c.byBib EXCEPT ![post.bib] = post.tag]]

(* What follows a stored coupling; what follows one that failed. *)
Stored(who) ==
  LET known == Coupled(cache, posts[who])
  IN /\ cache' = known /\ Refresh
     /\ panel' = IF who = "operator" THEN Pop([panel EXCEPT !.saving = FALSE], known.byTag)
                 ELSE AutoAdvance([panel EXCEPT !.autoSaving = FALSE])

Deleted == panel' = ToIdle(panel) /\ UNCHANGED cache /\ IF panel.on THEN Refresh ELSE UNCHANGED pull

Failed(who) ==
  /\ panel' = [panel EXCEPT !.saving = @ /\ who # "operator",
                             !.autoSaving = @ /\ who # "loop"]
  /\ UNCHANGED <<cache, pull>>

Reply(who) ==
  /\ posts[who] # None
  /\ \/ posts[who].state = "stored" /\ (IF who \in Deletions THEN Deleted ELSE Stored(who))
     \/ posts[who].state = "refused" /\ Failed(who)
  /\ posts' = [posts EXCEPT ![who] = None]
  /\ UNCHANGED <<feed, riders, serving, history, budget>>

(* The request or its reply is lost. *)
Lost(who) ==
  /\ posts[who] # None /\ Spend("upsets", MaxUpsets)
  /\ Failed(who)
  /\ posts' = [posts EXCEPT ![who] = None]
  /\ history' = [history EXCEPT !.lost = @ \/ who = "loop"]
  /\ UNCHANGED <<feed, riders, serving>>

(* refreshCoupleRiders: the cache is what the backend had when it answered. *)
PullAnswered ==
  /\ pull.state = "answered" /\ pull' = NoPull
  /\ cache' = [byTag |-> {t \in Tags : pull.riders[t] # None},
               byBib |-> [b \in Bibs |->
                 LET holders == {t \in Tags : pull.riders[t] = b}
                 IN IF holders = {} THEN None ELSE CHOOSE t \in holders : TRUE]]
  /\ UNCHANGED <<panel, posts, feed, riders, serving, history, budget>>
(* ... or what it was, if the refresh fails. *)
PullFails ==
  /\ pull.state # "none" /\ Spend("upsets", MaxUpsets) /\ pull' = NoPull
  /\ UNCHANGED <<panel, cache, posts, feed, riders, serving, history>>
------------------------------------------------------------------------------
(* The backend. *)

(* An arrive of a tag: post_events_batch looks the tag up in the race that *)
(* is in memory ...                                                        *)
LookUp(tag) ==
  /\ serving.looked = None /\ Spend("reads", MaxReads)
  /\ serving' = [serving EXCEPT !.looked = [tag |-> tag, race |-> serving.race,
                                            bib |-> riders[serving.race][tag]]]
  /\ UNCHANGED <<panel, cache, posts, pull, feed, riders, history>>

(* ... and then publishes what it found. *)
PublishSeen ==
  /\ serving.looked # None
  /\ feed' = Append(feed, serving.looked)
  /\ serving' = [serving EXCEPT !.looked = None]
  /\ LET waved == [tag |-> serving.looked.tag, race |-> serving.looked.race]
     IN history' = IF waved.race = serving.told THEN history
                   ELSE [history EXCEPT !.strays = @ \cup {waved}]
  /\ UNCHANGED <<panel, cache, posts, pull, riders, budget>>

(* post_rider, delete_rider: in the race that is active by now. *)
PostRider(who) ==
  /\ posts[who] # None /\ posts[who].state = "sent"
  /\ riders' = [riders EXCEPT ![serving.race][posts[who].tag] = posts[who].bib]
  /\ posts' = [posts EXCEPT ![who].state = "stored"]
  /\ history' = IF who = "loop"
                THEN [history EXCEPT !.given = @ \cup {<<serving.race, posts[who].bib, posts[who].tag>>}]
                ELSE history
  /\ UNCHANGED <<panel, cache, pull, feed, serving, budget>>

Refuse(who) ==
  /\ posts[who] # None /\ posts[who].state = "sent" /\ Spend("upsets", MaxUpsets)
  /\ posts' = [posts EXCEPT ![who].state = "refused"]
  /\ UNCHANGED <<panel, cache, pull, feed, riders, serving, history>>

GetRiders ==
  /\ pull.state = "sent" /\ pull' = [state |-> "answered", riders |-> riders[serving.race]]
  /\ UNCHANGED <<panel, cache, posts, feed, riders, serving, history, budget>>

(* POST /races/{id}/activate, one at a time: the race is loaded in memory, *)
(* its events are replayed, and only then is the switch announced.         *)
SwitchRace(race) ==
  /\ race # serving.race /\ serving.told = serving.race /\ Spend("upsets", MaxUpsets)
  /\ serving' = [serving EXCEPT !.race = race]
  /\ UNCHANGED <<panel, cache, posts, pull, feed, riders, history>>

PublishSwitch ==
  /\ serving.told # serving.race
  /\ feed' = Append(feed, [switched |-> serving.race])
  /\ serving' = [serving EXCEPT !.told = serving.race]
  /\ UNCHANGED <<panel, cache, posts, pull, riders, history, budget>>

(* The stream is down for a while: its frames are gone, onOpen refreshes. *)
Gap ==
  /\ feed # <<>> /\ Spend("upsets", MaxUpsets) /\ feed' = <<>>
  /\ IF panel.on THEN Refresh ELSE UNCHANGED pull
  /\ history' = [history EXCEPT !.gap = @ \/ \E i \in DOMAIN feed : "switched" \in DOMAIN feed[i]]
  /\ UNCHANGED <<panel, cache, posts, riders, serving>>

CouplingNext ==
  \/ OnMessageOfPanel \/ PullAnswered \/ PullFails \/ GetRiders \/ InfoClears
  \/ PublishSeen \/ PublishSwitch
  \/ ModeOn \/ ModeOff \/ Recouple \/ Delete \/ Save \/ Skip \/ AutoStart \/ AutoStopped \/ Gap
  \/ \E b \in Bibs : Type(b)
  \/ \E t \in Tags : LookUp(t)
  \/ \E r \in Races : SwitchRace(r)
  \/ \E w \in Who : PostRider(w) \/ Refuse(w) \/ Reply(w) \/ Lost(w)

CouplingSpec == CouplingInit /\ [][CouplingNext]_coupleVars
------------------------------------------------------------------------------
(* A number is only ever saved for the tag that was on the card when the   *)
(* operator typed it, whatever tags are waved, replies come in and races   *)
(* change in between ("typing 12 for tag A can never couple tag B").       *)
CouplesWhatWasTyped ==
  /\ panel.phase = "armed" /\ panel.bib # None => history.typedFor = panel.armed.tag
  /\ posts["operator"] # None => posts["operator"].typedFor = posts["operator"].tag

(* One run of the loop hands out no number of a race twice, with stops,    *)
(* skips, reads and saves of the operator in between: unless a reply was   *)
(* lost, or the loop was stopped and started again while it was awaited    *)
(* (onCoupleAutoTagSeen, coupleAutoAdvance).                               *)
NumbersGoOnce ==
  history.lost \/ \A g, h \in history.given : g[1] = h[1] /\ g[2] = h[2] => g = h

(* No tag is carried over into another race: one on the card or in the     *)
(* queue was waved in the race the panel has heard of, unless its tag_seen *)
(* was sent in the middle of a switch (looked up before the race changed   *)
(* and sent after it was announced, or between the two), or the stream was *)
(* down at the switch (onCoupleRaceChanged).                               *)
TagsOfThisRace ==
  panel.on /\ ~history.gap =>
    \A waved \in ToSet(panel.queue) \cup ({panel.armed} \ {None}) :
      waved.race = history.race \/ waved \in history.strays
==============================================================================
