------------------------------- MODULE SpoolClient -------------------------------
(***************************************************************************)
(* The reader-service's HTTP client (backend_client/http.py): a bounded    *)
(* queue, one worker thread that posts batches with retries, and a spool   *)
(* file for the batches it could not deliver, drained when the backend     *)
(* answers again.  The process may be killed anywhere, a killed append may *)
(* leave a torn line, a write may fail, and an answer may be lost.         *)
(*                                                                         *)
(* Events are numbered in the order the tags were read and batches keep    *)
(* that order, so the queue and the buffer are sets whose head is the      *)
(* smallest; so are the lines of the spool, by line number.                *)
(***************************************************************************)
EXTENDS Integers, FiniteSets

CONSTANTS MaxEvents,    \* bound: the events of a day
          BatchSize,    \* batch_size
          QueueSize,    \* queue_maxsize
          Attempts,     \* POSTs of a batch before it is spooled
          MaxFaults     \* bound: kills and failed writes

ASSUME SizesAssumption == /\ BatchSize \in Nat \ {0} /\ QueueSize \in Nat \ {0}
                          /\ Attempts \in Nat \ {0}
ASSUME BoundsAssumption == MaxEvents \in Nat /\ MaxFaults \in Nat

Events == 1..MaxEvents

VARIABLES
  made,                 \* the events read so far
  queue,                \* _q
  buf,                  \* buf, the batch in hand
  pc,                   \* what the worker is doing
  attempt,              \* the attempt of _flush_with_retry
  at,                   \* the next spool line of the drain
  stopping,             \* _stop
  spool,                \* the lines of spool.jsonl
  torn,                 \* whether the file ends within a line
  rest,                 \* the lines a rewrite has still to write
  log,                  \* what the backend has recorded
  refused,              \* what the backend answered with 4xx
  dropped,              \* what did not fit into the queue
  faults                \* kills and failed writes so far

memoryVars  == <<made, queue, dropped>>
backendVars == <<log, refused>>
fileVars    == <<spool, torn, rest>>
vars == <<made, queue, buf, pc, attempt, at, stopping, spool, torn, rest,
          log, refused, dropped, faults>>
------------------------------------------------------------------------------
Line == [no : Nat \ {0}, events : SUBSET Events, whole : BOOLEAN]

Smallest(S)   == CHOOSE e \in S : \A f \in S : e <= f
EventsOf(lines) == UNION {line.events : line \in lines}

(* Where the while loop goes on: it looks at _stop first. *)
Resume == IF stopping THEN "final" ELSE "get"

(* The lines of the spool the drain has not dealt with, and the first. *)
Undrained == {line \in spool : line.no >= at}
First(lines) == CHOOSE line \in lines : \A other \in lines : line.no <= other.no

(* The number of a line appended to the file. *)
NextNo == 1 + Cardinality(spool)

Init ==
  /\ made = 0 /\ queue = {} /\ buf = {} /\ dropped = {}
  /\ pc = "off" /\ attempt = 1 /\ at = 1 /\ stopping = FALSE
  /\ spool = {} /\ torn = FALSE /\ rest = {}
  /\ log = {} /\ refused = {} /\ faults = 0
------------------------------------------------------------------------------
(* The process starts; its worker drains the spool first. *)
Start ==
  /\ pc = "off"
  /\ pc' = "drain" /\ at' = 1 /\ stopping' = FALSE
  /\ UNCHANGED <<memoryVars, backendVars, fileVars, buf, attempt, faults>>

(* send(): put_nowait, or the event is dropped.  Nothing is read once the  *)
(* connection has been torn down for the stop.                             *)
Send ==
  /\ pc # "off" /\ ~stopping /\ made < MaxEvents
  /\ made' = made + 1
  /\ IF Cardinality(queue) < QueueSize
     THEN queue' = queue \cup {made'} /\ UNCHANGED dropped
     ELSE dropped' = dropped \cup {made'} /\ UNCHANGED queue
  /\ UNCHANGED <<backendVars, fileVars, buf, pc, attempt, at, stopping, faults>>

(* The worker takes an event; a full batch is posted at once. *)
Take ==
  /\ pc = "get" /\ queue # {}
  /\ buf' = buf \cup {Smallest(queue)}
  /\ queue' = queue \ {Smallest(queue)}
  /\ pc' = IF Cardinality(buf') >= BatchSize THEN "post" ELSE Resume
  /\ attempt' = 1
  /\ UNCHANGED <<made, dropped, backendVars, fileVars, at, stopping, faults>>

(* get() times out: the flush is due, or stop() has been called. *)
FlushDue ==
  /\ pc = "get" /\ queue = {} /\ buf # {}
  /\ pc' = "post" /\ attempt' = 1
  /\ UNCHANGED <<memoryVars, backendVars, fileVars, buf, at, stopping, faults>>

NoticeStop ==
  /\ pc = "get" /\ queue = {} /\ stopping
  /\ pc' = "final"
  /\ UNCHANGED <<memoryVars, backendVars, fileVars, buf, attempt, at, stopping, faults>>
------------------------------------------------------------------------------
(* _post_batch(): the backend takes the batch or refuses it for good ... *)
Answered(batch) == \/ log' = log \cup batch /\ UNCHANGED refused
                   \/ refused' = refused \cup batch /\ UNCHANGED log

(* ... or it raises, and then the batch may have been recorded all the same. *)
Raised(batch) == log' \in {log, log \cup batch} /\ UNCHANGED refused

(* Mutant: after the last attempt it starts over. *)
FlushForEver ==
  /\ pc = "post"
  /\ \/ /\ Answered(buf)
        /\ pc' = "drain" /\ at' = 1 /\ UNCHANGED attempt
     \/ /\ Raised(buf)
        /\ attempt' = 1 + (attempt % Attempts)
        /\ UNCHANGED <<pc, at>>
  /\ UNCHANGED <<memoryVars, fileVars, buf, stopping, faults>>

(* One attempt of _flush_with_retry(): an answer is followed by a drain. *)
Flush ==
  /\ pc = "post"
  /\ \/ /\ Answered(buf)
        /\ pc' = "drain" /\ at' = 1 /\ UNCHANGED attempt
     \/ /\ Raised(buf)
        /\ UNCHANGED at
        /\ IF attempt < Attempts THEN attempt' = attempt + 1 /\ UNCHANGED pc
                                 ELSE pc' = "append" /\ UNCHANGED attempt
  /\ UNCHANGED <<memoryVars, fileVars, buf, stopping, faults>>

(* _spool_batch() succeeds.  Behind a torn line the new one is unreadable. *)
AppendLine(batch) ==
  /\ spool' = spool \cup {[no |-> NextNo, events |-> batch, whole |-> ~torn]}
  /\ torn' = FALSE
  /\ UNCHANGED <<rest, faults>>

(* _spool_batch() fails, with or without a part of the line in the file. *)
AppendFails(batch) ==
  /\ faults < MaxFaults /\ faults' = faults + 1
  /\ \/ UNCHANGED <<spool, torn>>
     \/ /\ spool' = spool \cup {[no |-> NextNo, events |-> {}, whole |-> FALSE]}
        /\ torn' = TRUE
  /\ UNCHANGED rest

Spool ==
  /\ pc = "append"
  /\ AppendLine(buf) \/ AppendFails(buf)
  /\ buf' = {} /\ pc' = Resume
  /\ UNCHANGED <<memoryVars, backendVars, attempt, at, stopping>>
------------------------------------------------------------------------------
(* The drain has reached the end of the file and truncates it. *)
DrainDone ==
  /\ pc = "drain" /\ Undrained = {}
  /\ spool' = {} /\ torn' = FALSE
  /\ buf' = {} /\ pc' = Resume
  /\ UNCHANGED <<memoryVars, backendVars, rest, attempt, at, stopping, faults>>

(* A line that cannot be read goes to spool.corrupt.jsonl. *)
Quarantine ==
  /\ pc = "drain" /\ Undrained # {} /\ ~First(Undrained).whole
  /\ at' = First(Undrained).no + 1
  /\ UNCHANGED <<memoryVars, backendVars, fileVars, buf, pc, attempt, stopping, faults>>

(* Mutant: the rest of the file begins behind the line that failed. *)
DrainLineSkips ==
  /\ pc = "drain" /\ Undrained # {} /\ First(Undrained).whole
  /\ \/ /\ Answered(First(Undrained).events)
        /\ at' = First(Undrained).no + 1
        /\ UNCHANGED <<pc, spool, torn, rest>>
     \/ /\ Raised(First(Undrained).events)
        /\ rest' = Undrained \ {First(Undrained)} /\ spool' = {} /\ pc' = "rewrite"
        /\ UNCHANGED <<at, torn>>
  /\ UNCHANGED <<memoryVars, buf, attempt, stopping, faults>>

(* A line is posted.  When that fails the file is opened for writing, which *)
(* truncates it, to be rewritten from this line on.                        *)
DrainLine ==
  /\ pc = "drain" /\ Undrained # {} /\ First(Undrained).whole
  /\ \/ /\ Answered(First(Undrained).events)
        /\ at' = First(Undrained).no + 1
        /\ UNCHANGED <<pc, spool, torn, rest>>
     \/ /\ Raised(First(Undrained).events)
        /\ rest' = Undrained /\ spool' = {} /\ pc' = "rewrite"
        /\ UNCHANGED <<at, torn>>
  /\ UNCHANGED <<memoryVars, buf, attempt, stopping, faults>>

(* The lines that remain, as they stand in the new file. *)
Renumbered(lines) == {[line EXCEPT !.no = line.no - at + 1] : line \in lines}

(* A rewrite that is cut off leaves the first lines, and perhaps a part of *)
(* the next one.                                                           *)
CutOff ==
  \E n \in 0..Cardinality(rest) :
    LET head == Renumbered({line \in rest : line.no < at + n})
    IN  \/ spool' = head /\ torn' = FALSE
        \/ spool' = head \cup {[no |-> n + 1, events |-> {}, whole |-> FALSE]} /\ torn' = TRUE

Rewrite ==
  /\ pc = "rewrite"
  /\ \/ spool' = Renumbered(rest) /\ UNCHANGED <<torn, faults>>
     \/ faults < MaxFaults /\ faults' = faults + 1 /\ CutOff
  /\ rest' = {} /\ buf' = {} /\ pc' = Resume
  /\ UNCHANGED <<memoryVars, backendVars, attempt, at, stopping>>
------------------------------------------------------------------------------
(* stop() is called; it waits for the worker a while. *)
RequestStop ==
  /\ pc # "off" /\ ~stopping
  /\ stopping' = TRUE
  /\ UNCHANGED <<memoryVars, backendVars, fileVars, buf, pc, attempt, at, faults>>

(* The shutdown path: everything still queued joins the buffer. *)
Final ==
  /\ pc = "final"
  /\ buf' = buf \cup queue /\ queue' = {}
  /\ pc' = IF buf' = {} THEN "exited" ELSE "lastPost"
  /\ UNCHANGED <<made, dropped, backendVars, fileVars, attempt, at, stopping, faults>>

(* One quick attempt, then the spool. *)
LastPost ==
  /\ pc = "lastPost"
  /\ \/ Answered(buf) /\ pc' = "exited" /\ buf' = {}
     \/ Raised(buf) /\ pc' = "save" /\ UNCHANGED buf
  /\ UNCHANGED <<memoryVars, fileVars, attempt, at, stopping, faults>>

(* The BatchSize oldest events of the buffer. *)
Chunk == {e \in buf : Cardinality({f \in buf : f <= e}) <= BatchSize}

(* Mutant: only the first batch is saved. *)
SaveOneBatch ==
  /\ pc = "save"
  /\ AppendLine(Chunk) \/ AppendFails(Chunk)
  /\ buf' = {}
  /\ pc' = "exited"
  /\ UNCHANGED <<memoryVars, backendVars, attempt, at, stopping>>

Save ==
  /\ pc = "save"
  /\ AppendLine(Chunk) \/ AppendFails(Chunk)
  /\ buf' = buf \ Chunk
  /\ pc' = IF buf' = {} THEN "exited" ELSE "save"
  /\ UNCHANGED <<memoryVars, backendVars, attempt, at, stopping>>

(* The worker is done, stop() returns and the process ends. *)
Exit ==
  /\ pc = "exited"
  /\ pc' = "off"
  /\ UNCHANGED <<memoryVars, backendVars, fileVars, buf, attempt, at, stopping, faults>>

(* The process ends with the worker still at it: stop() has waited three    *)
(* seconds, somebody has killed it, or the power has failed.               *)
Kill ==
  /\ pc \notin {"off", "exited"} /\ faults < MaxFaults /\ faults' = faults + 1
  /\ pc' = "off" /\ queue' = {} /\ buf' = {} /\ rest' = {}
  /\ \/ /\ pc # "rewrite" /\ UNCHANGED <<spool, torn>>
     \/ /\ pc \in {"append", "save"}
        /\ spool' = spool \cup {[no |-> NextNo, events |-> {}, whole |-> FALSE]}
        /\ torn' = TRUE
     \/ pc = "rewrite" /\ CutOff
  /\ UNCHANGED <<made, dropped, backendVars, attempt, at, stopping>>

Work == \/ Take \/ FlushDue \/ NoticeStop \/ Flush \/ Spool
        \/ DrainDone \/ Quarantine \/ DrainLine \/ Rewrite
        \/ Final \/ LastPost \/ Save

Next == Start \/ Send \/ Work \/ RequestStop \/ Exit \/ Kill

Spec     == Init /\ [][Next]_vars
FairSpec == Spec /\ WF_vars(Work)
------------------------------------------------------------------------------
TypeOK ==
  /\ made \in 0..MaxEvents
  /\ queue \subseteq Events /\ buf \subseteq Events
  /\ pc \in {"off", "get", "post", "append", "drain", "rewrite",
             "final", "lastPost", "save", "exited"}
  /\ attempt \in 1..Attempts /\ at \in Nat \ {0} /\ stopping \in BOOLEAN
  /\ spool \subseteq Line /\ rest \subseteq Line /\ torn \in BOOLEAN
  /\ log \subseteq Events /\ refused \subseteq Events /\ dropped \subseteq Events
  /\ faults \in 0..MaxFaults

(* Where an event is, for the promise: what the backend has seen counts    *)
(* first, then what is on disk (or about to be written there again).       *)
OnDisk == EventsOf({line \in spool \cup rest : line.whole})

Stage == [e \in Events |->
  IF e \in log \cup refused       THEN "settled"
  ELSE IF e \in OnDisk           THEN "disk"
  ELSE IF e \in queue \cup buf   THEN "memory"
  ELSE IF e <= made              THEN "lost"
  ELSE "new"]

Promise == INSTANCE Outbox WITH stage <- Stage, rewriting <- (pc = "rewrite")

(* An event on disk leaves it only to the backend, however often the       *)
(* process dies; but for a rewrite that is cut off.                        *)
OutboxKept == Promise!Spec

(* Events get lost by a fault or a full queue, never by themselves: not by *)
(* retries, not by a drain that fails half-way, not by an orderly stop.    *)
LossNeedsFault ==
  \A e \in Events : Stage[e] = "lost" => faults > 0 \/ e \in dropped

(* An event does not stay in memory for ever while the worker runs, though *)
(* the backend may never answer.                                           *)
LeavesMemory == \A e \in Events : Stage[e] = "memory" ~> Stage[e] # "memory"

(* Batches of an outage reach the backend before newer events.             *)
OldestFirst ==
  [][\A e \in log' \ log : \A f \in OnDisk : f < e => f \in log']_vars
==============================================================================
