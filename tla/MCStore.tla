------------------------------ MODULE MCStore ------------------------------
(***************************************************************************)
(* Instances of Store for TLC: two errors of one issue and a point of a    *)
(* cumulative sum (or two such points), in one or two projects, two parts. *)
(***************************************************************************)
EXTENDS Store, TLC

CONSTANTS
    older, newer,             \* errors of one group, of event times 1 and 2
    metric,                   \* a point of a cumulative sum
    oops, requests, sent,     \* the group's issue and two metric streams
    demo, other,              \* project names
    p1, p2                    \* archive parts

MCSignalOf == [r \in Records |-> IF r = metric THEN "metric" ELSE "error"]
MCIssueOf == [r \in Records |-> IF r = metric THEN None ELSE oops]
MCStreamOf == [r \in Records |-> IF r = metric THEN requests ELSE None]
MCTimeOf == [r \in Records |-> IF r = newer THEN 2 ELSE 1]

\* Two cumulative sums instead.
SumSignalOf == [r \in Records |-> "metric"]
SumIssueOf == [r \in Records |-> None]
SumStreamOf == [r \in Records |-> IF r = metric THEN requests ELSE sent]

\* Everything belongs to the first project created ...
OneProject == [r \in Records |-> 1]
\* ... or the metric to the second one.
TwoProjects == [r \in Records |-> IF r = metric THEN 2 ELSE 1]

PartSymmetry == Permutations(Parts)
=============================================================================
