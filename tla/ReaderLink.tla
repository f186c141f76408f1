------------------------------- MODULE ReaderLink -------------------------------
(***************************************************************************)
(* Both ends of the reader status protocol: the ReaderHub of the backend   *)
(* and the reader-service, whose status reporter posts heartbeats over a   *)
(* connection that loses and delays them and whose connection thread       *)
(* carries out the commands that come back in the replies.                 *)
(*                                                                         *)
(* The reporter makes one attempt per heartbeat and waits one second for   *)
(* the reply; a heartbeat it has given up may still reach the backend,     *)
(* after later ones.                                                       *)
(***************************************************************************)
EXTENDS ReaderHub, FiniteSets

CONSTANT MaxPosts       \* bound: heartbeats under way at a time

ASSUME PostsAssumption  == MaxPosts \in Nat \ {0}
ASSUME ReportsAssumption == {"searching", "stopped"} \subseteq States /\ "gone" \notin States

VARIABLES
  reader,               \* the reader-service process
  posts,                \* the heartbeats under way
  reply                 \* the reply under way, if any

linkVars == <<vars, reader, posts, reply>>
------------------------------------------------------------------------------
Idle      == -1         \* no sweep of the network is running
Automatic == None       \* one that nobody asked for

(* result: the discovery result to report; pending: _pending_commands;     *)
(* sweep: the request the running sweep is for.                            *)
Reader == [state : States \cup {"gone"}, result : {None} \cup Ids,
           pending : SUBSET Command, sweep : {Idle, Automatic} \cup Ids]

Post  == [state : States, result : {None} \cup Ids, awaited : BOOLEAN]
Reply == [result : {None} \cup Ids, commands : SUBSET Command]

Started == [state |-> "searching", result |-> None, pending |-> {}, sweep |-> Idle]
Gone    == [Started EXCEPT !.state = "gone"]

Alive   == reader.state # "gone"
Running == Alive /\ reader.state # "stopped"

(* The newest of the discover commands waiting for the connection thread,  *)
(* or else the one given.                                                  *)
Newest(default) ==
  LET ids == {command.id : command \in {c \in reader.pending : c.type = "discover"}}
  IN  IF ids = {} THEN default ELSE CHOOSE id \in ids : \A other \in ids : other <= id

LinkInit == Init /\ reader = Gone /\ posts = {} /\ reply = {}

(* The supervisor starts the reader-service. *)
StartService == ~Alive /\ reader' = Started /\ UNCHANGED <<vars, posts, reply>>

(* It dies without a word; what was on its way to the backend stays so.    *)
Abandoned == {[post EXCEPT !.awaited = FALSE] : post \in posts}

Kill == /\ Alive
        /\ reader' = Gone /\ posts' = Abandoned /\ reply' = {}
        /\ UNCHANGED vars

(* update(state=...) by the connection thread; stop(). *)
ChangeState(state) ==
  /\ Running
  /\ reader' = [reader EXCEPT !.state = state]
  /\ UNCHANGED <<vars, posts, reply>>

(* _post() up to the reply; the heartbeat "stopped" is the last one and    *)
(* its reply is not delivered.                                             *)
PostStatus ==
  /\ Alive /\ reply = {}
  /\ \A post \in posts : ~post.awaited
  /\ Cardinality(posts) < MaxPosts
  /\ posts' = posts \cup {[state |-> reader.state, result |-> reader.result,
                           awaited |-> reader.state # "stopped"]}
  /\ reader' = IF reader.state = "stopped" THEN Gone ELSE reader
  /\ UNCHANGED <<vars, reply>>

(* post_reader_status(). *)
Arrive(post) ==
  LET heartbeat == [state |-> post.state, discovery |-> post.result]
  IN  /\ Ingest(heartbeat)
      /\ posts' = posts \ {post}
      /\ reply' = IF post.awaited
                  THEN {[result |-> post.result, commands |-> Delivered(heartbeat)]}
                  ELSE reply
      /\ UNCHANGED reader

Lose(post) == posts' = posts \ {post} /\ UNCHANGED <<vars, reader, reply>>

LoseReply == reply # {} /\ reply' = {} /\ UNCHANGED <<vars, reader, posts>>

(* The timeout of the attempt. *)
GiveUp == /\ \E post \in posts : post.awaited
          /\ posts' = Abandoned
          /\ UNCHANGED <<vars, reader, reply>>

(* _post() from the reply on, and _on_status_reply(): a result delivered   *)
(* is cleared unless a newer one has replaced it.                          *)
Receive(r) ==
  /\ Alive
  /\ reader' = [reader EXCEPT !.result  = IF @ = r.result THEN None ELSE @,
                              !.pending = @ \cup r.commands]
  /\ reply' = {}
  /\ UNCHANGED <<vars, posts>>

(* _handle_requests(): all commands are taken; one sweep answers the       *)
(* newest discover.                                                        *)
Handle ==
  /\ Running /\ reader.sweep = Idle /\ reader.pending # {}
  /\ reader' = [reader EXCEPT !.pending = {}, !.sweep = Newest(Idle)]
  /\ UNCHANGED <<vars, posts, reply>>

(* The connection thread looks for a lost reader by itself. *)
AutoSweep ==
  /\ Running /\ reader.sweep = Idle
  /\ reader' = [reader EXCEPT !.sweep = Automatic]
  /\ UNCHANGED <<vars, posts, reply>>

(* The end of _run_discovery(): a discover command that came meanwhile is  *)
(* answered with the result of this sweep.                                 *)
SweepDone ==
  /\ Alive /\ reader.sweep # Idle
  /\ LET id == Newest(reader.sweep)
     IN  reader' = [reader EXCEPT !.sweep   = Idle,
                                  !.pending = {c \in @ : c.type # "discover"},
                                  !.result  = IF id # Automatic THEN id ELSE @]
  /\ UNCHANGED <<vars, posts, reply>>

Backend ==
  \/ Tick \/ CheckStale \/ QueueReconnect
  \/ \E c \in Callers : Refuse(c) \/ Ask(c) \/ StopWaiting(c) \/ Leave(c)

Service ==
  \/ StartService \/ Kill \/ PostStatus \/ Handle \/ AutoSweep \/ SweepDone
  \/ \E state \in States : ChangeState(state)
  \/ \E r \in reply : Receive(r)

Network == LoseReply \/ GiveUp \/ \E post \in posts : Arrive(post) \/ Lose(post)

LinkNext ==
  \/ Backend /\ UNCHANGED <<reader, posts, reply>>
  \/ Service
  \/ Network

LinkSpec == LinkInit /\ [][LinkNext]_linkVars
------------------------------------------------------------------------------
LinkTypeOK ==
  TypeOK /\ reader \in Reader /\ posts \subseteq Post /\ reply \subseteq Reply

(* The reader-service is a well-behaved environment of the hub: it reports *)
(* results only of requests it was given, and no command reaches it twice. *)
Obeyed == Init /\ [][Next]_vars

(* A command is in one place: in the queue, in a reply, or with the        *)
(* connection thread; it is carried out at most once.                      *)
CommandInOnePlace ==
  LET sent == UNION {r.commands : r \in reply}
  IN  /\ commands \cap sent = {} /\ commands \cap reader.pending = {}
      /\ sent \cap reader.pending = {}
      /\ \A command \in commands \cup sent \cup reader.pending :
           command.type = "discover" => command.id \notin {reader.sweep, reader.result}
==============================================================================
