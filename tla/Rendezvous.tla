------------------------------- MODULE Rendezvous -------------------------------
(***************************************************************************)
(* What POST /reader/discover promises its callers, whatever happens       *)
(* behind it: a call is refused, or it asks and is then answered or gives  *)
(* up waiting, and a call that has been answered does not give up.         *)
(***************************************************************************)
CONSTANT Callers        \* the calls, each of which may be made again

VARIABLES phase,        \* where each call is
          answer        \* what it returned with

vars == <<phase, answer>>

Init == /\ phase = [c \in Callers |-> "idle"]
        /\ answer = [c \in Callers |-> "none"]

Refuse(c) == /\ phase[c] = "idle"
             /\ answer' = [answer EXCEPT ![c] = "unavailable"]
             /\ UNCHANGED phase

Ask(c) == /\ phase[c] = "idle"
          /\ phase' = [phase EXCEPT ![c] = "asking"]
          /\ answer' = [answer EXCEPT ![c] = "none"]

(* One discovery answers the calls that share it. *)
Answer(calls) == /\ \A c \in calls : phase[c] = "asking"
                 /\ phase' = [c \in Callers |-> IF c \in calls THEN "answered" ELSE phase[c]]
                 /\ UNCHANGED answer

Return(c) == /\ phase[c] = "answered"
             /\ phase' = [phase EXCEPT ![c] = "idle"]
             /\ answer' = [answer EXCEPT ![c] = "found"]

GiveUp(c) == /\ phase[c] = "asking"
             /\ phase' = [phase EXCEPT ![c] = "idle"]
             /\ answer' = [answer EXCEPT ![c] = "timeout"]

Next == \/ \E c \in Callers : Refuse(c) \/ Ask(c) \/ Return(c) \/ GiveUp(c)
        \/ \E calls \in SUBSET Callers : Answer(calls)

Spec == Init /\ [][Next]_vars
==============================================================================
