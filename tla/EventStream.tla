------------------------------ MODULE EventStream ------------------------------
(***************************************************************************)
(* The live stream from the backend to the browsers.  Every change of the  *)
(* standings is published to the subscribers' queues; a browser holds one  *)
(* stream open, opens the next after a failure or a stall, and fetches the *)
(* standings afresh each time a stream opens, for the frames in between.   *)
(*                                                                         *)
(* Standings are versions: the backend's is the newest.  An attempt of a   *)
(* browser is one fetch of /stream, with the callbacks still to run for it.*)
(***************************************************************************)
EXTENDS Naturals, Sequences, SequencesExt, FiniteSets

CONSTANTS Browsers, Attempts,
          Threads,       \* the backend's request threads
          MaxChanges,    \* bound
          MaxFaults      \* bound: faults, and clicks of the operator

ASSUME StreamAssumption == MaxChanges \in Nat /\ MaxFaults \in Nat

VARIABLES
  version,    \* the backend's standings
  thread,     \* what each request thread has changed and not yet published
  net,        \* where the fetch of an attempt is
  wire,       \* the frames on the way to an attempt: its queue, and what is sent
  finished,   \* the flag `finished` of an attempt
  timers,     \* retries of a browser that are scheduled
  asks,       \* the requests for /classification of a browser: sent at which version
  shown,      \* the standings a browser shows
  newest,     \* (history) the newest it has shown
  missed,     \* (history) a request for the standings has failed since the stream opened
  faults

streamVars == <<version, thread, net, wire, finished, timers, asks, shown, newest, missed,
                faults>>
------------------------------------------------------------------------------
Versions    == 0..MaxChanges
Frames      == [kind : {"standings"}, at : Versions] \cup [kind : {"reload"}]
ThreadSteps == [pc : {"idle"}] \cup [pc : {"changed"}, kind : {"standings", "reload"}]
               \cup [pc : {"built"}, at : Versions]
(* then: whether the stream is opened once this request is answered. *)
AskRecords  == [since : Versions, then : BOOLEAN]

(* "hung": nothing arrives any more, and nobody has been told. *)
NetSteps == {"none", "sent", "accepted", "open", "hung", "over"}

StreamTypeOK ==
  /\ version \in Versions /\ thread \in [Threads -> ThreadSteps]
  /\ net \in [Browsers -> [Attempts -> NetSteps]]
  /\ wire \in [Browsers -> [Attempts -> Seq(Frames)]]
  /\ finished \in [Browsers -> [Attempts -> BOOLEAN]]
  /\ timers \in [Browsers -> Nat] /\ asks \in [Browsers -> Seq(AskRecords)]
  /\ shown \in [Browsers -> Versions] /\ newest \in [Browsers -> Versions]
  /\ missed \in [Browsers -> BOOLEAN]
  /\ faults \in 0..MaxFaults

Live(b, a)  == net[b][a] # "none" /\ ~finished[b][a]
Subscribers == {s \in Browsers \X Attempts : net[s[1]][s[2]] \in {"accepted", "open", "hung"}}

(* The page loads: the standings are asked for, then the stream is opened. *)
StreamInit ==
  /\ version = 0 /\ thread = [t \in Threads |-> [pc |-> "idle"]]
  /\ net = [b \in Browsers |-> [a \in Attempts |-> "none"]]
  /\ wire = [b \in Browsers |-> [a \in Attempts |-> <<>>]]
  /\ finished = [b \in Browsers |-> [a \in Attempts |-> TRUE]]
  /\ timers = [b \in Browsers |-> 0]
  /\ asks = [b \in Browsers |-> <<[since |-> 0, then |-> TRUE]>>]
  /\ shown = [b \in Browsers |-> 0] /\ newest = shown
  /\ missed = [b \in Browsers |-> FALSE] /\ faults = 0
------------------------------------------------------------------------------
(* The backend. *)

(* A request changes the standings; what it publishes for that is a table  *)
(* it builds next, or a frame that makes the browsers load one.            *)
Change(t, kind) ==
  /\ thread[t].pc = "idle" /\ version < MaxChanges
  /\ version' = version + 1
  /\ thread' = [thread EXCEPT ![t] = [pc |-> "changed", kind |-> kind]]
  /\ UNCHANGED <<net, wire, finished, timers, asks, shown, newest, missed, faults>>

BuildStandings(t) ==
  /\ thread[t].pc = "changed" /\ thread[t].kind = "standings"
  /\ thread' = [thread EXCEPT ![t] = [pc |-> "built", at |-> version]]
  /\ UNCHANGED <<version, net, wire, finished, timers, asks, shown, newest, missed, faults>>

Publish(t) ==
  LET frame == IF thread[t].pc = "built" THEN [kind |-> "standings", at |-> thread[t].at]
               ELSE [kind |-> "reload"]
  IN /\ thread[t].pc = "built" \/ (thread[t].pc = "changed" /\ thread[t].kind = "reload")
     /\ wire' = [b \in Browsers |-> [a \in Attempts |->
                   IF <<b, a>> \in Subscribers THEN Append(wire[b][a], frame)
                   ELSE wire[b][a]]]
     /\ thread' = [thread EXCEPT ![t] = [pc |-> "idle"]]
     /\ UNCHANGED <<version, net, finished, timers, asks, shown, newest, missed, faults>>

(* GET /stream: the queue is registered before the response begins. *)
StreamEvents(b, a) ==
  /\ net[b][a] = "sent"
  /\ net' = [net EXCEPT ![b][a] = "accepted"]
  /\ wire' = [wire EXCEPT ![b][a] = <<>>]
  /\ UNCHANGED <<version, thread, finished, timers, asks, shown, newest, missed, faults>>
------------------------------------------------------------------------------
(* The browser. *)

Connect(b, a) ==
  /\ net[b][a] = "none"
  /\ net' = [net EXCEPT ![b][a] = "sent"] /\ finished' = [finished EXCEPT ![b][a] = FALSE]

Retry(b) ==
  /\ timers[b] > 0 /\ \E a \in Attempts : Connect(b, a)
  /\ timers' = [timers EXCEPT ![b] = @ - 1]
  /\ UNCHANGED <<version, thread, wire, asks, shown, newest, missed, faults>>

Asked(b, then) == [asks EXCEPT ![b] = Append(@, [since |-> version, then |-> then])]

(* Mutant: nothing is loaded when a stream opens. *)
ReloadNothing(b) == missed' = [missed EXCEPT ![b] = FALSE] /\ UNCHANGED asks

(* onOpen of connectSSE: what was published in between may be missing. *)
Reload(b) == asks' = Asked(b, FALSE) /\ missed' = [missed EXCEPT ![b] = FALSE]

Opened(b, a) ==
  /\ net[b][a] = "accepted" /\ ~finished[b][a]
  /\ net' = [net EXCEPT ![b][a] = "open"]
  /\ Reload(b)
  /\ UNCHANGED <<version, thread, wire, finished, timers, shown, newest, faults>>

Render(b, at) ==
  /\ shown' = [shown EXCEPT ![b] = at]
  /\ newest' = [newest EXCEPT ![b] = IF at > @ THEN at ELSE @]

(* Mutant: a change of the active race loads nothing. *)
OnMessageLater(b, frame) ==
  \/ frame.kind = "standings" /\ Render(b, frame.at) /\ UNCHANGED asks
  \/ frame.kind = "reload" /\ UNCHANGED <<asks, shown, newest>>

OnMessage(b, frame) ==
  \/ frame.kind = "standings" /\ Render(b, frame.at) /\ UNCHANGED asks
  \/ frame.kind = "reload" /\ asks' = Asked(b, FALSE) /\ UNCHANGED <<shown, newest>>

Receive(b, a) ==
  /\ net[b][a] = "open" /\ ~finished[b][a] /\ wire[b][a] # <<>>
  /\ OnMessage(b, Head(wire[b][a]))
  /\ wire' = [wire EXCEPT ![b][a] = Tail(@)]
  /\ UNCHANGED <<version, thread, net, finished, timers, missed, faults>>

Scheduled(b) == [timers EXCEPT ![b] = @ + 1]

(* Mutant: no look at `finished`. *)
FailTwice(b, a) == finished' = [finished EXCEPT ![b][a] = TRUE] /\ timers' = Scheduled(b)

(* An attempt ends once; aborting it makes its fetch or read() reject. *)
Fail(b, a) ==
  /\ finished' = [finished EXCEPT ![b][a] = TRUE]
  /\ timers' = IF finished[b][a] THEN timers ELSE Scheduled(b)

Silent(step) == step = "hung"

Stall(b, a) ==
  /\ Silent(net[b][a]) /\ ~finished[b][a]
  /\ net' = [net EXCEPT ![b][a] = "over"]
  /\ Fail(b, a)
  /\ UNCHANGED <<version, thread, wire, asks, shown, newest, missed, faults>>

(* The promise of an attempt rejects, or its stream is at the end. *)
Rejected(b, a) ==
  /\ net[b][a] = "over"
  /\ net' = [net EXCEPT ![b][a] = "none"] /\ wire' = [wire EXCEPT ![b][a] = <<>>]
  /\ Fail(b, a)
  /\ UNCHANGED <<version, thread, asks, shown, newest, missed, faults>>

(* connectSSE: the old stream is closed, timer and attempt, and a new one is opened. *)
Close(b) ==
  [finished |-> [a \in Attempts |-> TRUE],
   net      |-> [a \in Attempts |-> IF Live(b, a) THEN "over" ELSE net[b][a]],
   timers   |-> IF timers[b] > 0 THEN timers[b] - 1 ELSE 0]

Reopen(b) ==
  LET closed == Close(b)
  IN \E a \in Attempts :
       /\ closed.net[a] = "none"
       /\ net' = [net EXCEPT ![b] = [closed.net EXCEPT ![a] = "sent"]]
       /\ finished' = [finished EXCEPT ![b] = [closed.finished EXCEPT ![a] = FALSE]]
       /\ timers' = [timers EXCEPT ![b] = closed.timers]

(* connectToBackend: Reopen follows when its request is answered, or fails. *)
Click(b) ==
  /\ faults < MaxFaults /\ faults' = faults + 1
  /\ asks' = Asked(b, TRUE)
  /\ UNCHANGED <<version, thread, net, wire, finished, timers, shown, newest, missed>>

Then(b, i) ==
  /\ asks' = [asks EXCEPT ![b] = RemoveAt(@, i)]
  /\ IF asks[b][i].then THEN Reopen(b) ELSE UNCHANGED <<net, finished, timers>>

(* /classification was computed at some time since it was asked for; the   *)
(* answers come in any order.                                              *)
Answered(b, i, at) ==
  /\ i \in DOMAIN asks[b] /\ at \in asks[b][i].since..version
  /\ Render(b, at)
  /\ Then(b, i)
  /\ UNCHANGED <<version, thread, wire, missed, faults>>

AskFails(b, i) ==
  /\ i \in DOMAIN asks[b] /\ faults < MaxFaults /\ faults' = faults + 1
  /\ missed' = [missed EXCEPT ![b] = TRUE]
  /\ Then(b, i)
  /\ UNCHANGED <<version, thread, wire, shown, newest>>
------------------------------------------------------------------------------
(* A connection is dropped, or goes silent with both ends unaware of it. *)
Fault(b, a, step) ==
  /\ net[b][a] \in {"sent", "accepted", "open", "hung"} \ {step}
  /\ faults < MaxFaults /\ faults' = faults + 1
  /\ net' = [net EXCEPT ![b][a] = step]
  /\ UNCHANGED <<version, thread, wire, finished, timers, asks, shown, newest, missed>>

(* The backend restarts: the log keeps the standings, nothing else is left. *)
Restart ==
  /\ faults < MaxFaults /\ faults' = faults + 1
  /\ net' = [b \in Browsers |-> [a \in Attempts |->
               IF net[b][a] \in {"sent", "accepted", "open"} THEN "over" ELSE net[b][a]]]
  /\ thread' = [t \in Threads |-> [pc |-> "idle"]]
  /\ UNCHANGED <<version, wire, finished, timers, asks, shown, newest, missed>>

Backend(t) == BuildStandings(t) \/ Publish(t)

Browser(b) ==
  \/ Retry(b)
  \/ \E a \in Attempts : Opened(b, a) \/ Receive(b, a) \/ Stall(b, a) \/ Rejected(b, a)
  \/ \E i \in DOMAIN asks[b], at \in Versions : Answered(b, i, at)

StreamNext ==
  \/ \E t \in Threads : Backend(t) \/ \E kind \in {"standings", "reload"} : Change(t, kind)
  \/ \E b \in Browsers :
       \/ Browser(b) \/ Click(b)
       \/ \E a \in Attempts :
            StreamEvents(b, a) \/ \E step \in {"over", "hung"} : Fault(b, a, step)
       \/ \E i \in DOMAIN asks[b] : AskFails(b, i)
  \/ Restart

(* The event loops of both sides run on: a request is answered, a timer    *)
(* fires, a frame that is on the way arrives, unless a fault prevents it.  *)
StreamFairness ==
  /\ \A t \in Threads : WF_streamVars(Backend(t))
  /\ \A b \in Browsers :
       /\ WF_streamVars(Retry(b))
       /\ WF_streamVars(\E i \in DOMAIN asks[b], at \in Versions : Answered(b, i, at))
       /\ \A a \in Attempts :
            /\ WF_streamVars(StreamEvents(b, a)) /\ WF_streamVars(Opened(b, a))
            /\ WF_streamVars(Receive(b, a)) /\ WF_streamVars(Stall(b, a))
            /\ WF_streamVars(Rejected(b, a))

StreamSpec == StreamInit /\ [][StreamNext]_streamVars /\ StreamFairness
------------------------------------------------------------------------------
(* A browser never has two streams, or a stream and a retry to come, or    *)
(* two retries: whichever of its callbacks run after an abort, a stall or  *)
(* a click, and in whatever order (api.js connectSSEWithHeaders).          *)
OneStream ==
  \A b \in Browsers : timers[b] + Cardinality({a \in Attempts : Live(b, a)}) <= 1

(* A browser with an open stream that has loaded what it had to load lacks *)
(* no change for good: the newest standings are shown or were, or a frame  *)
(* that brings them is on its way, or a request thread is about to send it *)
(* (stream_events registers first, onOpen of connectSSE loads after).      *)
NoGap ==
  \A b \in Browsers, a \in Attempts :
    net[b][a] = "open" /\ ~finished[b][a] /\ asks[b] = <<>> /\ ~missed[b] =>
      \/ newest[b] = version
      \/ \E t \in Threads : thread[t].pc # "idle"
      \/ \E i \in DOMAIN wire[b][a] :
           wire[b][a][i].kind = "reload" \/ wire[b][a][i].at = version

(* Once changes and faults are over, a browser has an open stream, as no   *)
(* failure, stall or restart leaves it without a retry; and it has shown   *)
(* the newest standings, unless its request for them failed while the      *)
(* stream stayed up (onOpen swallows that).                                *)
Heals ==
  <>[](\A b \in Browsers :
         /\ \E a \in Attempts : net[b][a] = "open" /\ ~finished[b][a]
         /\ newest[b] = version \/ missed[b])

(* Not so: the last standings a browser shows may be overtaken ones. *)
ShowsNewest == <>[](\A b \in Browsers : shown[b] = version \/ missed[b])
==============================================================================
