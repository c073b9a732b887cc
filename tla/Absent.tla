-------------------------------- MODULE Absent --------------------------------
(***************************************************************************)
(* What is not there: one value for all modules that are checked together. *)
(***************************************************************************)
CONSTANT None
=============================================================================
