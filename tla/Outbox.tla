--------------------------------- MODULE Outbox ---------------------------------
(***************************************************************************)
(* What the reader-service promises for the events it hands to its backend *)
(* client: an event in memory may be lost, one on disk stays there until   *)
(* the backend has taken or refused it.  The one exception is the rewrite  *)
(* of the file, which truncates it first.                                  *)
(***************************************************************************)
CONSTANT Events

VARIABLES stage,        \* where each event is
          rewriting     \* whether the file is being rewritten

vars == <<stage, rewriting>>

Init == /\ stage = [e \in Events |-> "new"]
        /\ rewriting = FALSE

Moved(events, to) == [e \in Events |-> IF e \in events THEN to ELSE stage[e]]

Accept(e) == /\ stage[e] = "new"
             /\ stage' = Moved({e}, "memory")

Overflow(e) == /\ stage[e] = "new"
               /\ stage' = Moved({e}, "lost")

(* The backend has answered for a batch, or has recorded it at least. *)
Settle(events) ==
  /\ \A e \in events : stage[e] \in {"memory", "disk"}
  /\ stage' = Moved(events, "settled")

Save(events) ==
  /\ \A e \in events : stage[e] = "memory"
  /\ stage' = Moved(events, "disk")

Lose(events) ==
  /\ \A e \in events : stage[e] = "memory" \/ (stage[e] = "disk" /\ rewriting)
  /\ stage' = Moved(events, "lost")

Next == /\ rewriting' \in BOOLEAN
        /\ \/ UNCHANGED stage
           \/ \E e \in Events : Accept(e) \/ Overflow(e)
           \/ \E events \in SUBSET Events :
                Save(events) \/ Lose(events) \/ Settle(events)

Spec == Init /\ [][Next]_vars
==============================================================================
