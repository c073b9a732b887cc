------------------------------ MODULE Intervals -------------------------------
(***************************************************************************)
(* The interval of the buckets of a metric query that names none           *)
(* (automatic_interval, src/src/query.rs).                                 *)
(***************************************************************************)
EXTENDS Integers

Minute == 60000
Hour == 60 * Minute
Day == 24 * Hour

NamedIntervals ==
    {1000, 5000, 10000, 30000, Minute, 5 * Minute, 15 * Minute, Hour, 6 * Hour,
     Day, 7 * Day}

Longest == 30 * Day

\* The length a bucket needs so that 299 of them span the range.
Target(range) == IF range = 0 THEN 1 ELSE (range + 298) \div 299

\* The shortest of the named intervals that is long enough.
AutomaticInterval(range) ==
    LET fitting == {i \in NamedIntervals : i >= Target(range)}
    IN  IF fitting = {} THEN Longest
        ELSE CHOOSE i \in fitting : \A j \in fitting : i <= j

=============================================================================
