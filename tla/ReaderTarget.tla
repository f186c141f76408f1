------------------------------ MODULE ReaderTarget ------------------------------
(***************************************************************************)
(* Which address the reader-service connects to.  The backend keeps        *)
(* reader_ip, the operator changes it; the reader-service adopts it from   *)
(* the replies to its heartbeats, but may also find the reader at another  *)
(* address, switch to it and report it as discovered_ip until the backend  *)
(* echoes it.  Heartbeats are lost and overtaken; both processes restart.  *)
(*                                                                         *)
(* antenna_power travels the same way but only downwards; the commands of  *)
(* the replies are in ReaderLink.                                          *)
(***************************************************************************)
EXTENDS Integers, FiniteSets

CONSTANTS Ips,          \* the addresses
          None,
          EnvIp,        \* reader_ip from the environment, None if unset
          CliIp,        \* the address on the reader-service's command line
          MaxPosts,     \* bound: heartbeats under way at a time
          MaxChanges,   \* bound: addresses saved or discovered
          MaxMishaps    \* bound: late heartbeats and restarts

ASSUME NoneAssumption  == None \notin Ips
ASSUME StartAssumption == EnvIp \in Ips \cup {None} /\ CliIp \in Ips \cup {None}
ASSUME ChangesAssumption ==
  MaxPosts \in Nat \ {0} /\ MaxChanges \in Nat /\ MaxMishaps \in Nat

VARIABLES
  saved,        \* reader_ip in the backend's meta table
  taken,        \* _last_persisted_discovery
  client,       \* the reader-service
  posts,        \* the heartbeats under way
  reply,        \* the reply under way, if any
  used,         \* (history) the discoveries the backend has saved
  changes,      \* addresses saved by the operator or discovered so far
  mishaps       \* late heartbeats and restarts so far

targetVars == <<saved, taken, client, posts, reply, used, changes, mishaps>>
------------------------------------------------------------------------------
Address == Ips \cup {None}

(* ip: the target; discovered: _discovered_ip; found: the number of the    *)
(* discovery it comes from (history); queued: _pending_reader_ip.          *)
Client == [pid : Nat, ip : Address, discovered : Address, found : Nat, queued : Address]
Post   == [pid : Nat, discovered : Address, found : Nat, awaited : BOOLEAN]
Reply  == [carried : Address, ip : Address]     \* the heartbeat's and the config's address

Started(pid) == [pid |-> pid, ip |-> CliIp, discovered |-> None, found |-> 0, queued |-> None]

Nothing == [pid |-> 0, ip |-> None]             \* no discovery has been taken over

Effective(ip) == IF ip # None THEN ip ELSE EnvIp

TargetInit ==
  /\ saved \in Address /\ taken = Nothing
  /\ client = Started(1) /\ posts = {} /\ reply = {}
  /\ used = {} /\ changes = 0 /\ mishaps = 0

Change == changes < MaxChanges /\ changes' = changes + 1
Mishap == mishaps < MaxMishaps /\ mishaps' = mishaps + 1

(* PATCH /config with an address, or with null. *)
SaveIp(ip) ==
  /\ Change
  /\ saved' = ip
  /\ UNCHANGED <<taken, client, posts, reply, used, mishaps>>
------------------------------------------------------------------------------
(* discover(): the readers that answer on the local networks or at the     *)
(* factory address; one that is connected is not probed but listed.        *)
Candidates(answering, connected) ==
  IF connected THEN (answering \ {client.ip}) \cup {client.ip} ELSE answering

(* _select_target() after a sweep: the target is kept if it answers, and   *)
(* replaced if exactly one other does.                                     *)
Select ==
  /\ Change
  /\ \E answering \in SUBSET Ips, connected \in BOOLEAN :
       LET candidates == Candidates(answering, connected /\ client.ip # None)
       IN  /\ client.ip \notin candidates
           /\ \E ip \in Ips :
                /\ candidates = {ip}
                /\ client' = [client EXCEPT !.ip = ip, !.discovered = ip,
                                            !.found = changes']
  /\ UNCHANGED <<saved, taken, posts, reply, used, mishaps>>

(* _post(): the reporter thread sends the status and waits for the reply. *)
PostStatus ==
  /\ reply = {} /\ \A post \in posts : ~post.awaited
  /\ Cardinality(posts) < MaxPosts
  /\ posts' = posts \cup {[pid |-> client.pid, discovered |-> client.discovered,
                           found |-> client.found, awaited |-> TRUE]}
  /\ UNCHANGED <<saved, taken, client, reply, used, changes, mishaps>>

(* Mutant: every repeat of a discovery is taken over. *)
PersistAlways(post) ==
  /\ taken' = Nothing
  /\ IF post.discovered = None
     THEN UNCHANGED <<saved, used>>
     ELSE saved' = post.discovered /\ used' = used \cup {post.found}

(* _persist_discovered_ip(): once per discovery; a heartbeat without one   *)
(* ends it.                                                                *)
Persist(post) ==
  LET key == [pid |-> post.pid, ip |-> post.discovered]
  IN  /\ taken' = IF post.discovered = None THEN Nothing ELSE key
      /\ IF post.discovered = None \/ key = taken
         THEN UNCHANGED <<saved, used>>
         ELSE saved' = post.discovered /\ used' = used \cup {post.found}

(* post_reader_status(): save, then answer with the config. *)
Answer(post) ==
  /\ Persist(post)
  /\ reply' = IF post.awaited
              THEN {[carried |-> post.discovered, ip |-> Effective(saved')]}
              ELSE reply
  /\ posts' = posts \ {post}
  /\ UNCHANGED <<client, changes>>

PostArrives     == \E post \in posts : post.awaited /\ Answer(post) /\ UNCHANGED mishaps
PostArrivesLate == \E post \in posts : ~post.awaited /\ Answer(post) /\ Mishap

Lose == /\ \E post \in posts : ~post.awaited /\ posts' = posts \ {post}
        /\ UNCHANGED <<saved, taken, client, reply, used, changes, mishaps>>

(* The reporter gives up after a second; the reply is lost, or the         *)
(* heartbeat is and may still arrive.                                      *)
Abandoned == {[post EXCEPT !.awaited = FALSE] : post \in posts}

GiveUp ==
  /\ reply # {} \/ \E post \in posts : post.awaited
  /\ reply' = {} /\ posts' = Abandoned
  /\ UNCHANGED <<saved, taken, client, used, changes, mishaps>>

(* Mutant: nothing is adopted while a discovery is pending. *)
AdoptsWhenSettled(r) ==
  /\ r.ip # None
  /\ client.discovered = None
  /\ r.ip # client.ip

(* _on_status_reply(): the config is adopted unless it may be older than   *)
(* the discovery.                                                          *)
Adopts(r) ==
  /\ r.ip # None
  /\ client.discovered = None \/ r.carried = client.discovered
  /\ r.ip # client.ip \/ r.ip = client.discovered

Receive ==
  /\ \E r \in reply :
       client' = IF Adopts(r) THEN [client EXCEPT !.queued = r.ip] ELSE client
  /\ reply' = {}
  /\ UNCHANGED <<saved, taken, posts, used, changes, mishaps>>

(* _handle_requests() in the connection thread. *)
Handle ==
  /\ client.queued # None
  /\ client' = [client EXCEPT !.queued = None, !.ip = client.queued,
                  !.discovered = IF client.queued = client.ip /\ client.queued # @
                                 THEN @ ELSE None]
  /\ UNCHANGED <<saved, taken, posts, reply, used, changes, mishaps>>
------------------------------------------------------------------------------
(* The supervisor restarts the reader-service. *)
RestartService ==
  /\ Mishap
  /\ client' = Started(client.pid + 1)
  /\ posts' = Abandoned /\ reply' = {}
  /\ UNCHANGED <<saved, taken, used, changes>>

(* The backend restarts: only what is in the file survives. *)
RestartBackend ==
  /\ Mishap
  /\ taken' = Nothing /\ posts' = {} /\ reply' = {}
  /\ UNCHANGED <<saved, client, used, changes>>

TargetNext ==
  \/ \E ip \in Address : SaveIp(ip)
  \/ Select \/ PostStatus \/ PostArrives \/ PostArrivesLate \/ Lose \/ GiveUp
  \/ Receive \/ Handle
  \/ RestartService \/ RestartBackend

(* The reporter thread posts every two seconds and the connection thread   *)
(* looks at its requests in every wait; the network, between two processes *)
(* of one computer, does not lose every heartbeat for ever.                *)
TargetFairness == /\ WF_targetVars(PostStatus) /\ WF_targetVars(Handle) /\ WF_targetVars(Lose)
                  /\ SF_targetVars(PostArrives) /\ SF_targetVars(Receive)

TargetSpec     == TargetInit /\ [][TargetNext]_targetVars
FairTargetSpec == TargetSpec /\ TargetFairness
------------------------------------------------------------------------------
TargetTypeOK ==
  /\ saved \in Address
  /\ taken \in [pid : Nat, ip : Address]
  /\ client \in Client
  /\ posts \subseteq Post /\ reply \subseteq Reply
  /\ used \subseteq Nat /\ changes \in Nat /\ mishaps \in Nat

(* What the reader-service reports as discovered is where it connects to,  *)
(* whatever the operator, the replies and the sweeps do meanwhile.         *)
DiscoveredIsTarget == client.discovered \in {None, client.ip}

(* A discovery is saved once: its repeats do not overwrite what the        *)
(* operator has saved since.  Of heartbeats in order and one backend       *)
(* process; a late heartbeat without discovered_ip ends the discovery too  *)
(* early.                                                                  *)
SavedOnce ==
  [][ mishaps' = 0 /\ saved' # saved =>
        \/ \E ip \in Address : SaveIp(ip)
        \/ \E number \in used' : number \notin used ]_targetVars

(* Once the operator and the discoveries are quiet, backend and            *)
(* reader-service come to agree on the address, whatever was lost or late. *)
Agreement ==
  <>[](Effective(saved) # None => client.ip = Effective(saved))
==============================================================================
