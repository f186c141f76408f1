------------------------------- MODULE MCFrontend -------------------------------
(***************************************************************************)
(* Two sides of the browser for one run: its stream of standings, with     *)
(* faults of the network and the backend; or its coupling panel, with      *)
(* frames and replies in any order.  The fairness is the stream's: where   *)
(* only the panel moves, the temporal properties say nothing.              *)
(***************************************************************************)
EXTENDS EventStream, Coupling

VARIABLE side

TwoNumbers == <<1, 2>>

FrontInit == StreamInit /\ CouplingInit /\ side \in {"stream", "panel"}

FrontNext ==
  /\ \/ side = "stream" /\ StreamNext /\ UNCHANGED coupleVars
     \/ side = "panel" /\ CouplingNext /\ UNCHANGED streamVars
  /\ UNCHANGED side

FrontSpec ==
  FrontInit /\ [][FrontNext]_<<streamVars, coupleVars, side>> /\ StreamFairness
==============================================================================
