------------------------------ MODULE MCReaderHub ------------------------------
(* Sizes for the run of ReaderHub. *)
EXTENDS ReaderHub

Reports == {"active", "lost", "stopped"}
==============================================================================
