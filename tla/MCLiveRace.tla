------------------------------ MODULE MCLiveRace ------------------------------
(* Formats for the runs of LiveRace, and the symmetry of the riders.       *)
EXTENDS LiveRace, TLC

Fixed(mode, laps, cooldown) ==
  [total_laps |-> laps, min_pass |-> cooldown, finish_mode |-> mode,
   duration |-> None, final_laps |-> NoLaps]

ByClock(mode, duration, final_laps, cooldown) ==
  [total_laps |-> 2, min_pass |-> cooldown, finish_mode |-> mode,
   duration |-> duration, final_laps |-> final_laps]

AllFormats == {Fixed(mode, 2, cooldown) : mode \in Modes, cooldown \in {0, 2}}
              \cup {ByClock(mode, 2, 1, 1) : mode \in Modes}
              \cup {ByClock("leader", 3, 0, 1)}

Criterium == {Fixed("leader", 2, 1)}

Riders == Permutations(Tags)
==============================================================================
