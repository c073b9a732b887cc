-------------------------- MODULE MCIngestWriter --------------------------
(***************************************************************************)
(* Instances of IngestWriter for TLC: two or three batches, two of which   *)
(* share a record as the retry of an enlarged batch does.                  *)
(***************************************************************************)
EXTENDS IngestWriter, TLC

CONSTANTS
    small, large, lone,       \* batches; large has the record of small too
    r1, r2, r3                \* records

MCRecordsOf ==
    [b \in Batches |-> IF b = small THEN {r1}
                       ELSE IF b = large THEN {r1, r2} ELSE {r3}]
=============================================================================
