-------------------------------- MODULE Suite ---------------------------------
(***************************************************************************)
(* Modules that share no state, checked together: each behaviour is of one *)
(* of them, its subject, and what the others use is off, or as it is at    *)
(* first.  A property says of its subject what the subject's module says.  *)
(***************************************************************************)
EXTENDS Absent

CONSTANT off

VARIABLE subject
=============================================================================
