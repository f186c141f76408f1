------------------------------ MODULE MCReaderLink ------------------------------
(* Sizes for the runs of ReaderLink. *)
EXTENDS ReaderLink, TLC

Reports == {"searching", "active", "stopped"}

CallerSymmetry == Permutations(Callers)
==============================================================================
