-------------------------------- MODULE MCRaceDay --------------------------------
(***************************************************************************)
(* Three uses of a RaceState for one run: a race of several riders whose   *)
(* passes come in in any order; a training ride of one rider some of whose *)
(* crossings the reader misses; or requests that overlap in the backend,   *)
(* where the race is taken apart into its fields.  Nothing happens in the  *)
(* two that are not watched.                                               *)
(***************************************************************************)
EXTENDS MCLiveRace, MissedReads, Workers

VARIABLE event

Still == race = NewRace(Fixed("per_rider", 2, 0))

EventInit ==
  /\ Init /\ RideInit /\ WorkInit
  /\ \/ event = "race" /\ file.log = {} /\ ram.started
     \/ event = "ride" /\ Still /\ file.log = {} /\ ram.started
     \/ event = "requests" /\ Still

EventNext ==
  /\ \/ event = "race" /\ Next /\ UNCHANGED <<rideVars, workVars>>
     \/ event = "ride" /\ RideNext /\ UNCHANGED <<vars, workVars>>
     \/ event = "requests" /\ WorkNext /\ UNCHANGED <<vars, rideVars>>
  /\ UNCHANGED event

EventSpec == EventInit /\ [][EventNext]_<<vars, rideVars, workVars, event>>

Hands == Permutations(Workers)
==============================================================================
