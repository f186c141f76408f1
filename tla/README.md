# Racetag in TLA+

Racetag is a lap-timing system for cycling races. A UHF reader at the finish line (Sirit INfinity 510) sees the
riders' transponders; the *reader-service* turns what it sees into arrive/depart events and delivers them to the
*backend*, which counts laps, decides who has finished and keeps everything in an SQLite file; browsers follow over
HTTP and server-sent events; a *desktop shell* starts all of it on one PC and restarts what dies.

This directory holds TLA+ models of that code, TLC configurations that check them on small instances, and theorems
checked by the TLA+ proof system. `PROJECT.json` ties each definition to the lines it models, each run to its
properties, each property to a mutation of the code that breaks it, and lists the hazards and the disagreements found.

Sources below are relative to `src/apps/`. B is `backend/racetag-backend/`, R is `reader-service/src/`, D is
`desktop/`, F is `frontend/`.

## 1. Inventory

| component | state | operations | what is hard | what makes it correct | modules |
|---|---|---|---|---|---|
| Race domain, `B domain/race.py` | one `RaceState`: format, start/end, lap target, start of the finishing phase, participants with their counted passes and finish time, statuses | `start`, `end`, `set_status`, `add_lap`, `laps_to_go`, `standings`, missed-read detection | passes arrive out of order; the target of a timed race is locked by one pass out of many; in leader mode the first finish changes the rules for everybody | passes spaced by the cooldown, finishes earned, decisions final, nobody rides past the target unnoticed, the winner stays the winner | `RaceState`, `LiveRace`, `MissedReads` |
| Backend around the active race, `B app.py`, `storage.py`, `domain/riders.py` | SQLite tables `tag_events`, `races`, `riders`, `meta`; in memory the race and the rider registry | event ingest, manual laps, removal of laps and passes, rider CRUD, start/end/reopen/reset, in-place rebuild, replay at startup | handlers run in a thread pool without a lock on the race; a handler writes several places; the process may die anywhere; events are delivered again | nothing counted is lost by a restart; no phantom riders; statuses agree; what overlapping requests may spoil is known | `Backend`, `Workers` |
| Race management, `B app.py`, `domain/races.py`, `domain/config.py` | the rows of the races, the active one, meta keys that override its row, a request half done | create, delete, activate, three `PATCH` routes, startup | switching the race under arriving events; two places hold the format; a crash between two writes | the active race exists; what is shown survives a restart; a switch carries nothing over | `Races` |
| Snapshots, `B snapshots.py` | files of each race, two writers | timer and forced snapshot, retention | two writers in one directory, halves left by failures | a race with a complete snapshot keeps one | `Snapshots` |
| Reader status hub, `B reader_status_hub.py` | last heartbeat and its age, published state, command queue, the discovery in flight and its waiters | heartbeat, staleness check, reconnect request, discovery request | threads wait for an answer that arrives in a later heartbeat, time out, share one request | an answer reaches exactly those who asked; what was published is the state | `ReaderHub`, `Rendezvous` |
| Status reporter, `R status_reporter.py` | latest status, result to report | update, send, deliver the reply | lost and overtaken heartbeats | a command is carried out at most once | `ReaderLink` |
| Reader connection, `R sirit_client.py` | where the connection thread is, connection, session, receive threads, target address, requests | connect, configure, bind, probe, teardown, back-off, discovery, commands, stop | receive threads of an old connection, half-open sockets, requests from other threads | bound means configured; every loss ends in a new attempt; the address agrees with the operator's | `SiritConnection`, `ReaderTarget`, `ReaderLink` |
| Tag presence, `R tag_tracker.py` | per tag the antennas that see it | arrive, depart, reset | lost departs, reconnects | who is present is there | `SiritConnection` |
| Backend client and spool, `R backend_client/http.py` | bounded queue, batch in hand, spool file, stop flag | enqueue, flush with retries, spool, drain, quarantine, rewrite, stop | a kill or a failure half-way, duplicate delivery, full queue | an event on disk leaves it only to the backend | `SpoolClient`, `Outbox` |
| Network discovery, `R discovery.py` | none | ARP table and socket probes | network I/O | – | an action of `ReaderTarget` and `SiritConnection` |
| Supervisor, `D reader_supervisor.py` | child, restart and stop flags, PID file | start, watch, restart, stop, reap | a restart racing a crash, a stop racing a spawn, a killed shell | one child; none left behind; no restart lost | `Supervisor` |
| Desktop shell, `D app.py`, `native.py` … | instance lock, server thread, window | start-up, shutdown, watchdog | platform I/O | one shell at work | `Supervisor` |
| SSE fan-out, `B app.py`, `F api.js` | subscribers and their queues, the stream of a browser, its retries | publish, subscribe, drop, stall, reopen | frames missed while the stream was down | one stream; no change missed for good | `EventStream` |
| Browser UI, `F script.js` | standings shown; the coupling panel: card, queue, auto-assign loop, requests in flight | frames, keys, replies | frames and replies change the card under the operator's fingers | a number goes to the tag it was typed for; a number once; tags of this race | `EventStream`, `Coupling` |
| Exports and DTOs, `B app.py`, `exports_xlsx.py`, `models_api.py` | none: an export reads the row, the riders and the readings | the readings workbook and its summary; other workbooks, validation | the verdict of a reading is not stored but replayed, while others write | every verdict has its reason; the sheet counts what the standings count | `Readings` |

**Interactions.** Reader → connection → presence → client and spool → `POST /events/tag/batch` → log, then race, then
the subscribers of `/stream`. The status reporter posts heartbeats to the hub; the reply carries the configuration and
the queued commands. The supervisor owns the reader-service process. Browsers load the standings when their stream
opens and follow its frames; the coupling panel answers `tag_seen` frames with `POST /riders`.

## 2. Modules

The four groups below are each checked on their own: what one takes from another is an input that may do anything, and
where it may not, the composition that justifies it is a module of its own (`ReaderLink` for `ReaderHub`).

| module | models | uses |
|---|---|---|
| **the race** | | |
| `RaceState` | `domain/race.py` as pure operators from a race to a race | – |
| `LiveRace`, `MCLiveRace` | one race in memory while passes arrive in any order | `RaceState` |
| `MissedReads` | `suspected_missed_reads` against a rider who really misses reads | `RaceState` |
| `MCRaceDay` | the two, and the overlapping requests, in one run | `MCLiveRace`, `MissedReads`, `Workers` |
| **the backend process** | | |
| `Backend`, `MCBackend` | the active race: file, memory, requests one at a time, crashes | `RaceState`; the run also `Readings` |
| `Workers` | requests that overlap: two threads, statement by statement | `RaceState`, for what the race should be |
| `Readings` | the readings workbook, put together beside all that | `Backend` |
| `Races` | the rows of the day, the active race, meta overrides, startup | – |
| `Snapshots`, `MCRaces` | the snapshot writers beside all that | `Races` |
| **reader and backend** | | |
| `Rendezvous` | what `POST /reader/discover` promises its callers (abstract) | – |
| `ReaderHub`, `MCReaderHub` | heartbeats, staleness, publishing, commands, discovery | implements `Rendezvous` |
| `ReaderLink`, `MCReaderLink` | the hub, a lossy connection, the status reporter, the commands in the reader-service | `ReaderHub`, which it implements for the reader-service's part |
| `ReaderTarget` | `reader_ip`, `discovered_ip` and the replies, on both sides | – |
| `SiritConnection` | connection thread, receive threads, session, tag presence | – |
| `Outbox` | what becomes of an event handed to the client (abstract) | – |
| `SpoolClient` | queue, worker, spool file | implements `Outbox` |
| **the desk** | | |
| `Supervisor` | shells, watcher threads, children, PID file | – |
| `EventStream` | fan-out, `api.js`, the loading of standings | – |
| `Coupling` | the coupling panel of `script.js` with the routes it calls | – |
| `MCFrontend` | the two sides of the browser | `EventStream`, `Coupling` |
| **theorems** | | |
| `RaceStateProofs`, `SupervisorProofs` | | the modules named |
| `LiveRaceProofs` | | `LiveRace`, `MissedReads` |
| `BackendProofs` | | `Backend`, `MCBackend` |
| `RacesProofs` | | `Races`, `Snapshots` |
| `ReaderHubProofs` | | `ReaderHub`, `Rendezvous`, `ReaderLink` |
| `FrontendProofs` | | `Coupling`, `EventStream` |
| `ReaderServiceProofs` | | `SpoolClient`, `SiritConnection`, `ReaderTarget` |

### How the modules read the code

**RaceState.** A race is a record, a method of the class an operator. `laps`, `last_pass_time` and `pass_times` of a
participant change together in one place of `add_lap`; they are the length, the last element and the whole of
`passes`. `finished` and `finish_time` are set together, so `finished` is `finish_time # None`. Time is a number of
ticks; `None` is 0, which is no legal timestamp, duration or target, and `final_laps`, for which 0 is legal, uses -1. A
timestamp before 2020, or one that cannot be parsed, is the value `Epoch`; `PassTime` replaces it by the server's
clock, as `add_lap` does. `Counts` is the chain of early returns, `NextTarget` the lock of a timed race, `Finishes`
the two ways to finish, `CountPass` the assignments. `Beats` is the comparison that `standings` sorts by, without the
row order that breaks ties. Gaps and total, net and lap times are derived display values and are left out.

**LiveRace.** The life of one such object: the clock ticks, the race is started and ended, passes arrive with a
timestamp up to `LateBy` ticks old (a spool drained behind newer live events) or with an unset clock, the operator
changes statuses.

**MissedReads.** A rider with lap times from `LapTimes` crosses the line, the reader sees or misses the crossing;
`gaps` remembers the truth, which the backend does not know. Fractions are compared multiplied out (1.7 is 17/10, the
median is kept doubled); `Smallest` picks the k-th of a list without sorting it; `Rounded` is Python's rounding to even.

**Backend.** `db` is the file, `race` and `riders` the memory, `job[t]` what worker thread `t` is doing: at which step
of its handler it is, with which rows in hand. Requests come one after the other (`Accept`), as the operator's page and
the reader-service each make theirs, and as `_switch_active_race` says it assumes (`B app.py:1337`); nothing in the code
makes sure of it, and `Workers` is about what happens when two overlap. A handler is cut into steps where it reads or
writes the file or walks on to the next row of a replay: there the process can die, and the export can read. Ingest is
`Ingest` (the insert) then `IngestCount`; a manual lap is counted first (`ManualLap`) and stored after (`ManualLog`); a
removal is lookup, delete, rebuild (`RemoveLap`, `RemoveRow`, then `RebuildClear`, `RebuildRead`, `Replay`*,
`ReplayDone`); start, end and reset write memory first and then the meta key, the row and the log one after another.
`Restart` is a crash and the load at the next start: memory is rebuilt from the file by thread `Main`, every request in
flight is gone, and no request is served until the replay is done. Events are at-least-once: `Ingest` offers a recent
read or any event stored before. Abstractions: one event per batch (a batch of n is n ingests of one thread, and one
that fails half-way is delivered again); statements that no crash and no export can tell apart are one step, such as the
rider lookup and `add_lap` after it, the look at a rider and the deletions that follow, or the three reads of a rebuild;
a manual lap is of the last ticks; a statement of the database is atomic and does not fail; the format of the active
race is constant; the presence log, the feed of unknown tags and the published messages are left out; `race_ended_at` in
`meta`, which is written and never read, is left out; at most one implausible read per tag, since equal timestamps of
one tag are one row.

**Readings.** The export is a thread of its own with three reads: the row of the race, the riders, the readings
(`ExportRace`, `ExportRiders`, `ExportRows`); between them every action of `Backend` may come. `Collect` is the
reconstruction: the readings in their order, each fed into a fresh race, counted if the laps of its rider grew.
`settled` remembers that the file has not changed meanwhile. The race is that of the row; the meta keys are not read.

**Workers.** Handlers run in a thread pool; the file has a lock, the race and the riders in memory have none. Here each
statement that reads or writes what is shared is an action of its own, and the other thread may run between any two:
`ram` is the race field by field, with its `Participant` objects apart from the dictionary (a thread may hold one that
has been dropped from it), and the rider registry; `file` the log, the riders and the row of the race; `hands[w]` the
request of thread `w`, its `pc` and its local variables. An event is `TakeEvent` (the insert), `FindRider`,
`WasPresent`, `PreviousLaps`, and `add_lap` from `GetParticipant` to `BeginPhase`, with `p.laps += 1` in two steps; a
removal is the deletion in the file (`DeleteRow`) and in memory (`Forget`), then the rebuild: the fields are cleared one
after the other (`ClearField`), the row is read, the race started, the events are selected and replayed through the
same steps of `add_lap`, the statuses cleared and set again; a start is `BeginRace` to `FileStart`; a verdict
`FetchRider`, `FileVerdict`, `KeepVerdict`, `TellRace`. An exception (a `KeyError` in `PreviousLaps` or `Forget`, a
`TypeError` in `Spacing`, an `AttributeError` in `AnswerStart`) ends the request and leaves what it has done. The race
is one over a fixed distance in leader mode that is never ended; registration, manual laps, reset, restart, the
`race_started_at` key, the time target and `pass_times` are not in it. `past` remembers which kinds of requests have
overlapped. `Ordered` is the race that `RaceState` makes of the log, the registry and the start.

**Races.** One tag, whose passes are numbers in the order of the reader's clock; what a race makes of its passes is
`RaceState`'s business. `todo` is what is left of the operator's request, as a sequence of steps, each one write to the
file or one change of memory: a switch is `SetActive`, the clearing of the meta keys, the load, the replay of the log
that was fetched, the end. Passes come in between (`Ingest` stores under the active id of the file, `IngestCount` counts
in the race in memory) and a crash drops `todo`. `Booted(db)` is what a start of the process would load; `overlap` and
`torn` remember that an event came in during a switch, and that a crash cut a request short.

**Snapshots** extends it with the timer thread and the route, each `Build`, `WriteCsv`, `Backup`, `Prune`; a file pair
remembers of which race its two halves are. A stem is the clock.

**ReaderHub.** Every public method of the hub holds its lock from end to end, so it is one action; only
`request_discovery` gives the lock up while it waits, and is three: `Ask` (or `Refuse`), `StopWaiting`, `Leave`. Between
the end of the wait and the lock the answer may still arrive, which is why `Leave` looks again. Command ids grow by
one and commands are appended in that order, so the queue is the set of its commands and its head the one with the
smallest id; `waiters` is the set of the callers that the code counts. The state of a heartbeat stands for the seven
fields whose change is published at once; `age` and `published.ago` are the two clocks, stopped at their limits.
`published.key` is what the hub remembers to have sent, `shown` what it sent. Heartbeats are arbitrary, with one
assumption: a result is that of a request the reader-service was given (`Given`).

**ReaderLink** discharges that assumption. The reporter has one heartbeat under way and waits for its reply
(`awaited`); when it gives up the heartbeat may be lost or may reach the backend later, after newer ones, and what the
reply carries is lost. The connection thread takes all queued commands at once (`Handle`), sweeps for the newest
discover, and lets a sweep that is just ending answer a command that came meanwhile (`SweepDone`). The process may stop
(one last heartbeat, whose reply is not delivered) or die anywhere, and starts again empty. The wake-up of the sender
only shortens its interval and is left out; the states of the connection are free to change. The backend does not
restart here.

**ReaderTarget** is the same connection seen for the address alone, with both processes restarting: `saved` and `taken`
are the backend's (`taken` is `_last_persisted_discovery`, gone with a restart), `client` the reader-service's. The
number `found` of a discovery and `used` are history, to tell two discoveries of one address apart.

**SiritConnection.** `loop` is where the connection thread is, and in which step of a wait it is, `recv` what the EVENT
receive thread of each connection does: receive, wait, bind. `discovery_enabled` is a constant of the process; where it
is FALSE and there is no target, the wait of `_search` has no end but the wake-up (`IdleOver` needs discovery or a
target). A generation is one connection. A wait is cut into the
clearing of its flag, the check of what was asked for, and the sleep, since a request may come between. The link is up,
silent or down and changes at any time; `field` is which antennas really see the tag, `present` what the tracker
believes. The commands of a configuration and the lines of a reader's answer are data.

**SpoolClient.** Events are numbered in the order of their reads and batches keep that order, so queue and buffer are
sets whose head is the smallest; so are the lines of the spool. A step ends where a POST is answered (or not), a line is
written, or the stop flag is looked at. An append that is killed leaves a torn line, into which the next append runs; a
rewrite truncates first and then writes its lines one by one.

**Supervisor.** `shell[s]` is where the main thread of a shell is, `watcher[s]` its watcher thread, `sup[s]` the fields
of the `ReaderSupervisor`; a step ends where a lock is released, a file written or a process waited for. A child that is
told to end does so: terminate and kill follow. Children that have ended may be reused by a new spawn, so two suffice.

**EventStream.** The standings are a version number. A request thread changes them, builds the payload, puts it into the
queue of every subscriber: three steps, so that two threads publish in either order. An attempt of a browser is one
`fetch` of `/stream`: `net` is where it is on the way, `wire` what is queued, `finished` its flag; `timers`, `asks` are
the scheduled retries and the requests for `/classification`.

**Coupling.** `panel` is the object `couple` of `script.js`, `cache` its two maps of riders, `posts` and `pull` its
requests in flight. JavaScript runs every handler to the end, so a frame, a key and a reply are one action each, and the
order among them is free. `serving` is the backend: the race in memory, the one it has announced last, and the tag an
ingest has looked up (`LookUp`) and not published yet (`PublishSeen`); a switch changes the race first (`SwitchRace`)
and is announced when all is loaded (`PublishSwitch`). `history` remembers which tag was on the card when the number was
typed, which race the panel was told of, which tags were published for a race that was not the announced one (`strays`),
and what the auto-assign loop has handed out. Two `DELETE`s may be in flight. The numbers still to hand out (`auto`) are
positions in the list `Numbers`, which has no number twice; the loop offers the first of them, `Current`.

## 3. Runs

| run | question | bounds |
|---|---|---|
| `race` | do counting, target lock, finishing phase, the winner's rank and the countdown obey the rules? are all missed crossings found, and no others? which overlapping requests can do what harm to the race, the riders and the file? | two riders, both modes, seven formats (with and without cooldown, by laps and by the clock, with and without extra laps), six ticks, up to three ticks late; eight crossings, lap times 19 to 21, up to two missed in a row: the factors 1.7 and 3.5 lie on both sides; two threads, two riders, three requests, two laps, a cooldown of two, from a race not started, or started with up to two passes of one rider |
| `finish_order` | does the order of finished riders stand? **No**, see 5 | three riders, eight ticks |
| `backend` | three kinds of day, requests one at a time: *troubled*, late events, crashes anywhere (is every counted pass on disk, does a restart keep it, are the rules kept?); *orderly*, events in order (does a restart change anything?); *reported*, events in order and an export beside them (does every verdict of the readings sheet have its reason, and does it count what the standings count?) | two tags, four ticks, two stored events (three on an orderly day); three stored events and five ticks on a reported one, for two laps with a cooldown after a start in the first two ticks; no tick falls into an export, and a finished sheet is taken before anything else happens |
| `manual_laps` | are manual laps left out of the sheet? **No**, see 5 | a reported day |
| `races` | two kinds of day: races are created, deleted, switched, started, ended and edited while passes come in and the process dies between two writes; or snapshots are taken by two writers | two races, two lap counts, two passes, four requests, two faults; four snapshots kept of six |
| `reader_hub` | does the hub keep the promise of `Rendezvous`, queue no search nobody waits for, show what it believes, notice silence? | two callers, three commands, three states, stale after three ticks, refreshed after two |
| `reader_link` | is a command carried out at most once, and is the reader-service the environment `ReaderHub` assumes, over a lossy, reordering connection and crashes? | two callers, two commands, two heartbeats under way (so that one can overtake the other), one tick of age |
| `target` | is a discovery saved once, and do both sides come to agree on the address? | three addresses, two heartbeats, three changes, two faults |
| `connection` | is a bound session configured, presence real; is no request slept over, even in the wait without an end, does the connection come back, does a stop end? | two troubles, one request, one antenna: four generations; with a target or without, with discovery or without |
| `spool` | does an event on disk stay there, do events get lost only by faults, do they leave memory? | four events, batches of two, a queue of three, two attempts, one fault |
| `supervisor` | one reader-service, none left behind, kept alive, restarts honoured? | two shells, two children, one change of the configuration, two faults, no Job Object (the harder platform) |
| `frontend` | the stream: one at a time, no change missed for good, shown in the end; the panel: numbers to the tags they were typed for, once, of this race | one browser with two attempts, two request threads, two changes, two faults; two tags, two numbers, two races, two reads, four keys, one upset |

The bounds are small because the rules are local. A pass is compared with the last one of the same rider, with the
start, with the lap counts of the others and with one target: two laps and two or three riders reach every branch of
`add_lap` and every combination of finished, unfinished, late and lapped riders; two stored events are needed for one to
be out of order, three for one to be removed between others. Two commands are needed for a result to meet a newer
request, three for a reconnect between two searches, two callers for one to share the request of the other and to give
up before it. Two races are needed for a switch there and back, with requests left to edit and to start them; four
generations let a receive thread outlive two successors; two shells are the killed one and its successor; two tags are
the one on the card and the one that comes in between; a spool of two batches has a first line, a last one and a torn
one. Riders, callers and threads are symmetric where a run says so: their names are never compared. Two requests overlap
in `Workers`, and the third is what shows the harm, or a removal that repairs it. The runs of several kinds of day
choose the kind in the initial state (`MCRaceDay`, `MCBackend`, `MCRaces`, `MCFrontend`); their properties name the kind
where they are about one. In `frontend` the fairness is that of the stream, so that the temporal property speaks of the
behaviours in which the stream moves, the invariants of all.

Deadlock is not checked where a day may simply be over: clocks, reads and requests are bounded, everybody is idle.
Each component has a type invariant; those of the proved modules are theorems, and all have been checked by TLC.

**Fairness.** A race, the backend, its overlapping requests, the readings sheet, races and snapshots and the coupling
panel are checked for safety only: nothing in them must happen. Elsewhere:

* `ReaderHub`: weak fairness of the clock, of the staleness check (a daemon thread that runs every second) and of a
  caller's own steps (its wait times out after 15 s). Nothing of heartbeats: silence is noticed though the
  reader-service may never speak.
* `ReaderTarget`: weak fairness of the reporter's and the connection thread's steps, strong fairness of a heartbeat and
  its reply arriving: two processes on one computer do not lose every heartbeat for ever.
* `SiritConnection`: weak fairness of the threads, whose waits have timeouts, and strong fairness of a sweep that finds
  a reader that is there. `Recovers` assumes in its own premiss that the link stays up.
* `SpoolClient`: weak fairness of the worker. Nothing of the backend, which may never answer.
* `Supervisor`: weak fairness of main and watcher threads, and a child that is told to end does (it is killed if not).
* `EventStream`: weak fairness of request threads and of the browser's event loop. Faults are bounded; `Heals` is about
  the time after the last one.

## 4. Proofs

`RaceStateProofs` defines `RaceInv`, the conjunction of `r \in Race` with what the operations keep true of a race:
`Spaced`, `FinishOnPass`, `FinishingPhase`, `DistanceMeansFinish`, and a strengthening without which they are not
inductive, `NothingEarly`: passes exist only after the start, a finish only with a known target, and a finishing phase
only in a race that has begun.
`DistanceMeansFinish`, for instance, survives the lock of the target only because nobody has more laps than the rider
who locks it. A lemma per operation (`Start`, `End`, `SetStatus`, `Clear`, `AddLap`, with `CountPass` as the hard case)
shows that it keeps `RaceInv`. The module also holds the facts about finite sets, sums and largest elements the other
proofs cite: without induction, by the smallest of the sets for which they fail.

`LiveRaceProofs` lifts this to `Spec => []LiveInv`, hence `TypeCorrect`, `PassesAlwaysSpaced`, `FinishAlwaysEarned`,
`BellAlwaysTruthful`, together `RulesAlwaysHold`; from the same invariant come the action properties
`DecisionsAlwaysStand` and `AlwaysFlaggedOff`. `WinnerAlwaysUnbeaten` follows from
`FinishingPhase`: who begins that phase has ridden the whole distance, so nobody has more laps that are ranked, and who
is above has finished earlier (`PhaseHasWinner`). `LapsToGoAlwaysFalls` is about a maximum over the riders, of whom
there may be any number: `Reached` says that their laps are bounded, so that the maximum is somebody's, and a step that
raises nobody's laps by more than one (`RidesOn`) does not raise the maximum by more.

`MissesAlwaysFound` says for which riders the detection of missed reads is right (`SteadyLaps`): the shortest lap is
longer than 0.85 of the longest, and as many laps as can be missed in a row, and one, take less than 3.5 of the
shortest. `RideInv` says that the time between two passes is that of the missed laps and one. The median lies between
the shortest and the longest lap, since fewer than half of the intervals are gaps (`MedianOfMost`); then the thresholds
1.7 and 3.5 single out the gaps, and the rounded quotient tells their laps (`TellsLaps`). Sums over different sets are
compared by leaving out elements that add nothing (`SumOfSome`). The run's lap times, 19 to 21, are of this kind, and
close to its border.

`BackendProofs` is about requests that come one after the other, and crashes anywhere: `BackendTypeCorrect`, and
`RaceRulesAlwaysHold`, which says that no order of requests, rebuilds and restarts brings the race in memory into a
state that breaks the rules, for any number of tags and events. None of its theorems speaks of requests that overlap;
some of them fail then, and the run of `Workers` says by which pairs. `Standings` says what a handler that is half
done may leave open: a row of a tag that is no rider any more is in the race only while the handler is about to clear it
(`Clearing`), and an old status only until a rebuild or a load is done (`Rebuilding`). From it `PhantomAlwaysFree` and
`StatusesAlwaysAgree`, together `StandingsAlwaysOfRiders`. `CountedAlwaysLogged` holds when
clocks are set and one thread serves (`OneWorker`, the *troubled* day of the run): what the race has counted
is in the log, or is the row a manual lap is about to store (`OnDisk`); it needs that a replay feeds rows of the log
only.

`RestartAlwaysLosesNoLap` says more: a start of the process would count at least the laps that are on the standings.
`Timeline` is what file and memory say of the start and of the end while a request writes them one after the other
(`StartsAgree`, `EndsAgree`: nothing counted lies after the end that is stored), that the log has one row to an id and
none from the future, and that only riders have passes. With it, everything counted would be replayed
(`PassReplayable`). `Reloaded` folds over the log, and what it comes to is shown by `LogInduction`: a class of parts of
the log that has the empty one, and every part if it has that without its latest row, has them all, since a part that it
has not would have a smallest one, and that loses its last row (`SmallestSet`; `FoldExists` shows the same way that the
function the fold chooses exists).
What is claimed of the replay so far is `KeepsUp`: as far as the passes of a rider in memory are among its rows, it has
as many, and the n-th is no later than the n-th in memory. So the next one that is in memory is far enough from it, and
counts. It is not the same laps: a reading that came late and was refused counts in the replay, and may replace one.
`LapsAlwaysSurvive` is the same, and `CountedAreLogged`, for the days of the run.

`RestartAlwaysChangesNothing` says that it is the same race if nothing comes late besides. Two races have come to the
same (`Course`) if they differ at most in empty rows, statuses and the end; a pass counts alike in such races, and
leaves such races behind (`AddLapCourse`), so a replay comes to the same from either (`ReplayedAlike`). `Replayed` is
what the replay of a set of rows comes to, and `MatchesLog` follows it through every request (`OrderlyInv`, with
`FileAgrees` for what the file says of start and end): between requests the race has come to what a replay of the log
would come to; with an event in hand it will, once that is counted or logged; and during a rebuild it has come to what
the rows replayed so far come to, which are the earliest. A new event is of this tick, so it is the latest of the log
and is replayed last (`NewestMatches`); one that is in the log already would not be counted again (`StoredOnce`): what
has been counted or refused once is refused from then on, whatever follows (`CountsAfter`). A start changes no replay,
since the log up to then counts neither before it nor after (`ReplayedEarly`), and an end changes none, since the log
does not reach beyond it. Both need a look at the very tick: after a start in the same tick a pass from before is
refused because there is a cooldown, and an event of the tick of the end may be replayed though memory refused it, which
is why the property excepts it. `RestartIsAlwaysInvisible` is the same for the orderly day of the run.

`RacesProofs`: `ActiveExists` is not inductive, since a request may be half done; `RacesInv` adds that every step still
to come names a race that exists by then (`StepsNameRaces`: a race that is being created counts once its row is
written), that memory holds a race of the file, and that file and memory name the same one unless a load is to come
(`SameRace`; `DELETE` compares with the file, the passes are counted in memory). `ActiveAlwaysExists` and
`PassesAlwaysLogged` follow; the latter needs `IngestIsKept`, that the pass in hand is in a log already.

`DayInv` adds what a restart would find. As long as no crash has cut a request short, a request is in one of three
phases (`Continuous`), told by the steps it has left: it writes (`Writing`: the file will agree with memory once the
remaining meta key or row is written), it is switching and has still to clear the keys of the race before (`Clearing`),
or the keys are clear and memory is being filled (`Filling`). `RestartAlwaysKeepsRace` is the first phase with nothing
left; `SwitchAlwaysClean` is the passage through the other two: no step but the clearing leads from the second to the
third, and none leads out of them but the end of the load. For the laps, `LapsStand` says that what memory has counted
is in the log of the active race, after its start and not after its end (`Standing`), or during a replay that it and
what is still to be replayed are what a restart would count (`Replayed`), unless a pass came in during a switch
(`Between`); that an end does not exclude what has been counted needs `LogsArePast`, that no log is ahead of the clock.
`RestartAlwaysKeepsLaps` follows. The history flags `torn` and `overlap` in these properties are the two cases section 5
lists as found.

The snapshots have an inductive invariant of their own on top, `SnapInv`: a writer at work has a stem that is its own
(`OwnStems`, `OneFilePerStem`); who has copied the database leaves a complete file, his own or a newer one
(`CopyLeaves`); and every half that is newer than the stem of a writer at work has cost a failure (`HalvesCost`), since
a crash would have ended that writer too. So when files are pruned, those newer than a complete one that has to stay are
at most the failures and the half the other writer is at: fewer than `Keep` (`FewHalves`). `SnapshotAlwaysSurvives`
follows for any number of races, writers' stems and failures below `Keep - 1`.

`ReaderHubProofs` proves `HubInv`, by which the waiters of a request are the callers that hold it, the request in flight
is open, issued and awaited, and a queued search is that request's. From it follow `HubTypeCorrect`,
`AlwaysShownCurrent`, `SearchAlwaysAwaited`, and `PromiseAlwaysKept`: each step of the hub is a step of `Rendezvous` or
changes nothing the callers see. The step that needs the invariant is the arrival of a result: it must answer all
callers of the request and nobody else. `AlwaysObeyed` composes: the hub with the connection, the reporter and the
reader-service takes steps of `ReaderHub` only, so that all of the above holds of the composition. What `ReaderHub`
assumes of results is `ResultsAreOfGiven`; it needs `CommandsAreGiven` and `HandsApart`, by which no command is in two
places at once among queue, replies, commands in hand and results. From the same invariant
`CommandAlwaysInOnePlace`.

`SupervisorProofs`: a running child belongs to a shell that was killed or that still holds it in `_proc`, with the
watcher about to record it or waiting for it (`ChildHeld`); what a killed shell left behind is named in the PID file
until the next holder of the lock has read it (`OrphanRecorded`), unless it could not be looked at (`astray`); the lock
is with the one shell past taking it (`LockHeld`); and from the moment `stop()` has set its flag no watcher spawns
(`Stopping`, `WatcherInside`). `AlwaysOneReader` and `StopAlwaysFinal` follow, for any number of shells, children and
faults.

`FrontendProofs`, the panel: what matters of a frame on its way is which race it is of, and that depends on the switch
before it. `FeedInv` says that a tag's frame is of the race of the last switch frame before it, or of the one the panel
has heard of if there is none and the stream had no gap, and that the active race is that of the last switch frame. With
`Cards` (the number on the card was typed for its tag; card and queue are of the race heard of) and `Requests` it is
inductive, and gives `CouplesAlwaysWhatWasTyped` and `TagsAlwaysOfThisRace` for any tags, numbers, races, bounds and
lengths of the queues. The sequences need facts about `Append`, `Tail` and `SubSeq`, and that a set of positions has a
least one, which come from the well-foundedness of the numbers. `NumbersAlwaysGoOnce`: as long as no reply is lost or of
an earlier loop, what the loop has handed out is gone from its numbers (`GivenIsGone`), but for the one whose reply is
still to come, and that one is the first of those left (`CurrentFirst`), so that the reply takes just it away.

The stream: `Single` says that a browser has one live attempt at most, and one retry only when it has none, which gives
`OneStreamAlways`. `NoGapAlways` follows from `Complete`: if the stream is open and the standings are loaded, the
current version is on the screen, in a frame on the way, in the reply of a request under way, or in the hands of a
request thread that has still to publish (`Brought`). It is inductive because a thread publishes to whoever is
subscribed by then, and a stream asks for the standings when it opens.

`ReaderServiceProofs`, the spool: `SpoolInv` says that the lines of the file are numbered without a gap (`Blocks`; a
rewrite numbers anew what it writes), that what a drain is past, and the batch that was posted before it, have reached
the backend (`Drained`), that what waits in the queue is nowhere else (`Known`), that an orderly end leaves no memory
behind (`Ending`) and that without a fault no line is torn (`Clean`). A lemma per action shows that it keeps `SpoolInv`
and moves events on in one of five ways, each of them a step of `Outbox` and all but the loss harmless. From this follow
`LossAlwaysNeedsFault` and the refinement `OutboxAlwaysKept`, for any number of events, attempts and faults and any
sizes of batches and queue. That numbers without a gap are as many as there are lines comes from a bijection.

The connection: `BoundIsConfigured` needs that a receive thread which is configuring the reader on the present
connection has a session, and once it is done has configured that one (`Sessions`). `PresenceIsReal` is not inductive:
antennas change unnoticed while the tracker is not told. `Presence` says that while anybody is present on a connection
that is not given up, the reader talks to a receive thread that listens, on the session it was configured for, so that
only a link that is silent can keep a change back, and that delays it. `Caused` counts: a connection that is lost,
broken or given up, and a request that will give it up, are each paid for by a trouble or a request that no connection
has followed yet. It gives `ConnectionsAlwaysHaveCause`, and with it that a new generation is always within
`Generations`, without which not even the types could be proved: a loss without a cause, of a receive thread that ends
or of a probe that is counted twice, would go beyond (`Endings`).

The address: `DiscoveryAlwaysSavedOnce` says that a step which saves a discovery saves a new one, as long as nothing was
lost or restarted. `TargetInv` says why: one heartbeat at a time is awaited and discoveries are numbered in their order
(`InTurn`), a saved discovery that is still reported is the one the backend remembers, and an awaited heartbeat reports
the newest discovery but for what came after it was sent (`InOrder`). `DiscoveredAlwaysTarget` is a part of it.

The theorems assume what the modules' ASSUMEs say: formats are formats (a positive number of laps, natural cooldown,
duration and extra laps), verdicts are statuses, the loading thread is one of the threads, bounds are natural numbers,
sizes, attempts and missed probes are positive, `None` is no race and no child, the list of numbers is a list that has
none twice (`parseNumberRanges` drops the second). `CountedAlwaysLogged` and `RestartAlwaysLosesNoLap` assume
`OneWorker` besides, `RestartAlwaysChangesNothing` also that no event is late, that nobody is registered later, that no
crash cuts a request off, and that there is a cooldown; `MissesAlwaysFound` assumes `SteadyLaps`. `LapsAlwaysSurvive`
and `RestartIsAlwaysInvisible` assume only that clocks are set, since the days they are about have the rest.

Only model-checked are:

* what a recursion over a sequence computes, since the provers have no induction over data: `VerdictsExplained` and
  `SheetIsStandings` (together `SheetIsRight`);
* what overlapping requests do (`HarmHasItsOverlap`);
* all liveness, `LeavesMemory` among it, which the prover does not do under fairness.

## 5. Where the code and its documentation disagree

* **Cool-down laps reorder the finish** (run `finish_order`): `_cap_laps` caps at the target, not at the laps of the
  finish, so a rider flagged off below the target rises with every lap ridden after the finish.
* **Manual laps are in the readings sheet** (run `manual_laps`): `B app.py:831` and the comment on the column at
  `B exports_xlsx.py:445` say they are not, but a manual lap is stored in `tag_events`, and the export replays it.

The rest was met on the way. Where a definition is named, it is in the module, says what a comment or a document says,
and TLC finds a counterexample when it is made a property of the module's specification; it is in no run.

*The race and its log.*
* `SuggestionIsAccepted` (`MissedReads`): the midpoint suggested for a missed lap lies between two counted passes, and
  the signed cooldown of `add_lap` refuses everything older than the last one.
* `EndedIsFrozen` (`Backend`): a late read of an ended race is stored, and the replay compares its timestamp, not its
  arrival, with the end, so it counts after a restart.
* `RebuildIsRestart` (`Backend`): a rebuild starts the race by its row alone, a restart by the meta key as well. After a
  crash between the two writes of a race start the race runs by the key, and a rebuild un-starts it.
* A pass read with an unset clock is counted at the server's time but stored with the implausible one, and is lost by a
  restart: `EpochReads` is FALSE in the run `backend`.
* With `final_laps = 0` a rider who only draws level with the leader locks the target (`DistanceMeansFinish` excepts
  this case). A removal deletes the newest stored read even when the cooldown had not counted it.

*Requests that overlap* (`Workers`). Nothing locks the race and the riders in memory, so two requests at once can leave
it wrong. `HarmHasItsOverlap` names the pairs that can do each harm and says that no others can. None of them is named
for nothing: TLC finds the harm when any one is left out of the property. Examples:

* *An event and an event.* Two events of one rider lose a lap (`p.laps += 1`, `B domain/race.py:331`) or count one that
  the cooldown would have refused; the first two each insert a row, and the second (`:290`) replaces that of a rider who
  has just finished, so that the finishing phase has begun and nobody has finished.
* *An event and a removal* (or any other rebuild). A rider looked up before the removal (`B app.py:506`) is counted
  after it and stays on the standings as a row of a tag that nobody has; a lap is counted by the event and again by the
  replay; an old object is finished and begins the finishing phase of a race that was just cleared. Between `B
  app.py:206` and `:214` the race has a finishing phase and no finisher for a moment in any case.
* *An event or a removal and the start.* A start that falls between the clearing of `started_at` and the reading of the
  row is undone in memory and stored in the file, or the reverse; an event that comes while the race is started is
  refused though its time is later.
* *A verdict and a verdict, or a removal.* The file, the registry and the race are written one after the other
  (`B app.py:2011`), so two verdicts can leave a different one in each. A verdict that has fetched its rider before a
  removal puts the rider back into the registry, and not into the file. A removal that runs alone puts everything else
  right again, but not this: the registry differs from the file until the next start.
* Some of these pairs end one of the requests with an exception: a `KeyError` at `B app.py:534` or
  `B domain/riders.py:115`, a `TypeError` at `B domain/race.py:307`, an `AttributeError` at `B app.py:1170`.

*Races and snapshots.* `RestartKeepsRace`, `RestartKeepsLaps` and `SwitchIsClean` except the first two.
* A crash between the change of the active id and the clearing of the meta keys lets race B come up with the start of
  race A (`B app.py:1343` comments on that leak).
* An event that comes in between the switch of the id and the load is stored under the new race and counted in the old
  one, or the other way round; one counted between the replay and the end counts in an ended race.
* `PATCH` with `duration_s = 0` leaves a locked target of a timed race live (comment at `B app.py:1451`). Passes that
  are delivered again after a switch are logged under the new race.
* The CSV of a snapshot is built of the race that is active by then, and written into the directory of the one that was
  looked up. `cleanup_old_snapshots` counts half pairs, so as many failed ticks as are kept push out the complete ones
  (`B snapshots.py:51` says pairs): `KeepAssumption`.

*Reader-service.*
* `OldestFirst` (`SpoolClient`): the current batch is posted before the spool is drained, though the docstring at `R
  backend_client/http.py:139` says the spool comes first. The spool is drained only after a POST that succeeded, or at
  the start. A kill during the rewrite loses what was not rewritten; a torn line takes the batch appended after it into
  quarantine; `stop()` joins for three seconds, and a worker still retrying is killed with what it holds.
* A heartbeat without `discovered_ip` that arrives late, or a restart of the backend, ends the discovery the backend
  remembers, and its repeats then overwrite what the operator has saved since (the backend's README, line 105, says they
  cannot): the premiss of `SavedOnce`.
* A new session id on the same connection does not reset the presence: the premiss of `PresenceIsReal`.

*Shell.* `restart_pending` is false again after a spawn that failed, though its docstring
(`D reader_supervisor.py:256`) says until the replacement is spawned. `stop()` removes the PID file even of a child that
survived it. A shell killed between spawn and PID file leaves a child nobody knows of, and one whose
command line cannot be read, or that may not be signalled (`D app.py:474`, `:494`), is left running: the premiss of
`OneReader`.

*Browser.*
* `ShowsNewest` (`EventStream`): an overtaken frame, or an older `/classification` reply that comes last, stays on the
  screen until the next change (comment at `F script.js:1991`). A snapshot that fails in `onOpen` is swallowed.
* The reply of a `DELETE`, and the late reply of a save after the tag was skipped, change a card that has been armed
  meanwhile, contrary to the "Core invariant" at `F script.js:407`; `CouplesWhatWasTyped` holds, since the inputs are
  cleared with it.
* The auto-assign loop hands out a number twice when it is stopped and started again while its POST is awaited, or when
  a reply is lost: the premiss of `NumbersGoOnce`. A switch whose frame is lost in a gap of the stream leaves card,
  queue and loop for the new race, and `POST /riders` lands in whatever race is active by then. A tag that was looked up
  in the old race (`B app.py:506`) may be published after the switch was announced, and comes on the card of the new
  race. Both are premisses of `TagsOfThisRace`. Starting the loop leaves the queue as it is.
* Frames of manual laps and removals leave out the live race status (`B app.py:2105`, `2173`), though the docstring at
  `B app.py:592` says every lap brings it. `post_rider` and `PATCH /races/{id}` publish nothing. A subscriber whose
  client is gone before the first frame is asked for stays registered.

## 6. Other definitions that are stated and in no run

`FlaggedOffAtNextPass` (`LiveRace`), `PassesAreLogged` (`Races`) and `ConnectionsHaveCause` (`SiritConnection`) are
proved; so are `PhantomFree` and `StatusesAgree` (`Backend`), together `StandingsAreOfRiders`, of
requests that come one after the other;
`CountedAreLogged` and `RestartLosesNoLap` (`Backend`), both proved, are the run's `LapsSurvive`, and
`RestartChangesNothing`, proved too, is its `RestartIsInvisible`. `DiscoveredIsTarget` (`ReaderTarget`) and
`CommandInOnePlace` (`ReaderLink`) are proved. `EveryCallReturns` (`ReaderHub`) and `WorkTypeOK` (`Workers`) hold in
the runs' instances.

## 7. Not modelled

* Formatting, the exports but the readings sheet, DTO validation, rendering and platform I/O have no state worth a
  model. Of the desktop shell the instance lock, the start and the end are in `Supervisor`; the server's port, the
  window, dialogs and file export are not. Of the browser the forms other than the coupling panel are not, nor the
  Escape key, the register dialog and the ring of unknown tags; of several `GET /riders` in flight one is followed; the
  throttle of `tag_seen` is left out.
* Requests that overlap are in `Workers` for the event, the removal, the start and the verdict; the end, reopening,
  resetting, manual laps, registration, the switch and a timed race are in the sequential modules only.
* In `Races` a pass counts whenever the race runs: the cooldown is the business of `RaceState` and `Backend`. Two
  requests of the operator at once are not in it: a `DELETE` that has checked its race while another request activates
  it would leave no active race (`B app.py:1471`).
* Statements that are one step though they are two: the check of the generation and `bound = True`
  (`R sirit_client.py:1308`), the queueing of a request and the wake-up after it, which a waiting thread cannot tell
  apart. More than two `DELETE`s of couplings in flight.
* Failing SQL statements, the bulk import of riders, edits of riders across races, durations and half-specified formats
  in `PATCH`, names and categories of races, the finish mode of a race in the middle of it.
* A restart of the backend under a reader-service that outlives it is in `ReaderTarget`, not in `ReaderLink`: command
  ids start at 1 again there, and a result under an old id would be taken for that of a new request.
* Of the connection the standby command of a stop, the contents of the configuration and of the answers; the minimum lap
  interval of `TagTracker` is 0, as shell and backend have it. Of the supervisor the lengths of the back-off, and a
  watchdog that stops the child while the window is being closed. The sockets of a sweep are I/O.

The hazards these leave without a property are listed with the reason in `PROJECT.json`.
