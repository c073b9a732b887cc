----------------------------- MODULE Retention -----------------------------
(***************************************************************************)
(* What the store promises, without tiers, indexes, files or batches: the  *)
(* live projects and the records kept for them.  A record is kept once     *)
(* from the write that accepts it until retention, over the target, or the *)
(* removal of its project takes it.  Without safe durability a power loss  *)
(* may take records too, and nothing else.                                 *)
(***************************************************************************)
EXTENDS Naturals

CONSTANTS
    Projects,     \* the ids projects may have
    Keys,         \* the (project, id) keys of records
    Target,       \* the logical storage target
    Safe          \* whether accepted means durable

VARIABLES
    live,         \* ids of the projects being served
    kept,         \* keys of the records kept for them
    bytes         \* what the store occupies, in logical bytes

vars == <<live, kept, bytes>>

Init == live = {} /\ kept = {} /\ bytes = 0

Create(p) ==
    /\ live' = live \cup {p}
    /\ UNCHANGED <<kept, bytes>>

\* Records of live projects that are not kept already.
Accept(new) ==
    /\ new # {}
    /\ \A key \in new : key.project \in live
    /\ kept' = kept \cup new
    /\ bytes' > bytes
    /\ UNCHANGED live

\* Retention takes records only while the store is over its target.
Evict ==
    /\ bytes > Target
    /\ kept' \subseteq kept
    /\ bytes' < bytes
    /\ UNCHANGED live

Close(p) ==
    /\ live' = live \ {p}
    /\ kept' = {key \in kept : key.project # p}
    /\ bytes' \in Nat

\* The rows of a closed project come and go while it is being cleared.
Reclaim ==
    /\ bytes' \in Nat
    /\ UNCHANGED <<live, kept>>

Lose ==
    /\ ~Safe
    /\ kept' \subseteq kept
    /\ bytes' \in Nat
    /\ UNCHANGED live

Next ==
    \/ \E p \in Projects \ live : Create(p)
    \/ \E new \in SUBSET (Keys \ kept) : Accept(new)
    \/ Evict
    \/ \E p \in live : Close(p)
    \/ Reclaim
    \/ Lose

Spec == Init /\ [][Next]_vars
=============================================================================
