----------------------------- MODULE MetricQuery ------------------------------
(***************************************************************************)
(* The aggregation of a metric query (aggregate_metrics and aggregate,     *)
(* src/src/query.rs): records of the hot tier and the archive are read in  *)
(* the order they come, those of the metric become samples, and samples    *)
(* become buckets, series and a ranking.                                   *)
(*                                                                         *)
(* The name, the unit and the expression of the query are one question     *)
(* here, whether a record is asked for.  A value is a fraction             *)
(* <<numerator, denominator>>.                                             *)
(***************************************************************************)
EXTENDS Intervals, Sequences, SequencesExt, FiniteSetsExt

CONSTANTS
    Records,      \* [time, value, group, type, asked], value None if missing
    Requests,     \* [aggregate, type, interval, limit, start, end]; type "any"
                  \* and interval 0 if not given
    None,
    MaxPoints,    \* points of an answer, 100,000 in the code
    MaxRecords    \* bound: records read

VARIABLES
    request,
    read,         \* the records read so far
    identities,   \* the metric types among those asked for
    samples,      \* [time, value, group]
    answer        \* [outcome, series]; outcome "none" until there is one

vars == <<request, read, identities, samples, answer>>

-----------------------------------------------------------------------------
(* Aggregates over a set of samples, given by their positions.             *)

Whole(n) == <<n, 1>>
Less(x, y) == x[1] * y[2] < y[1] * x[2]

Sum(at) == MapThenSumSet(LAMBDA k : samples[k].value, at)

\* The last of the samples with the latest time.
Latest(at) ==
    LET time == Max({samples[k].time : k \in at})
    IN  Max({k \in at : samples[k].time = time})

Sorted(at) ==
    LET order == SetToSortSeq(at, LAMBDA j, k :
                     \/ samples[j].value < samples[k].value
                     \/ samples[j].value = samples[k].value /\ j < k)
    IN  [k \in DOMAIN order |-> samples[order[k]].value]

\* Between two neighbours in proportion.
Percentile(at, p) ==
    LET sorted == Sorted(at)
        position == (Cardinality(at) - 1) * p
        lower == position \div 100
        part == position % 100
        upper == IF part = 0 THEN lower ELSE lower + 1
    IN  <<(100 - part) * sorted[lower + 1] + part * sorted[upper + 1], 100>>

Rate(at, type, units, period) ==
    <<(IF type = "sum" THEN Sum(at) ELSE Cardinality(at)) * units, Max({period, 1})>>

Aggregate(at, type, aggregate, period) ==
    CASE aggregate \in {"increase", "sum"} -> Whole(Sum(at))
      [] aggregate = "count" -> Whole(Cardinality(at))
      [] aggregate = "avg" -> <<Sum(at), Cardinality(at)>>
      [] aggregate = "min" -> Whole(Min({samples[k].value : k \in at}))
      [] aggregate = "max" -> Whole(Max({samples[k].value : k \in at}))
      [] aggregate = "latest" -> Whole(samples[Latest(at)].value)
      [] aggregate \in {"rate_per_second", "per_second"} -> Rate(at, type, 1000, period)
      [] aggregate \in {"rate_per_minute", "per_minute"} -> Rate(at, type, 60000, period)
      [] aggregate = "p50" -> Percentile(at, 50)
      [] aggregate = "p90" -> Percentile(at, 90)

Rates == {"per_second", "per_minute"}

Allowed(type) ==
    CASE type = "sum" ->
            {"increase", "rate_per_second", "rate_per_minute", "sum"} \cup Rates
      [] type = "gauge" -> {"min", "max", "avg", "sum", "count", "latest"}
      [] type = "distribution" ->
            {"min", "max", "avg", "sum", "count", "p50", "p90"} \cup Rates
      [] OTHER -> {}

-----------------------------------------------------------------------------
(* Buckets, series and their ranking.                                      *)

Interval ==
    IF request.interval > 0 THEN request.interval
    ELSE AutomaticInterval(request.end - request.start)

Bucket(time) == request.start + ((time - request.start) \div Interval) * Interval

OfGroup(g) == {k \in DOMAIN samples : samples[k].group = g}

Points(g, type) ==
    [b \in {Bucket(samples[k].time) : k \in OfGroup(g)} |->
        Aggregate({k \in OfGroup(g) : Bucket(samples[k].time) = b}, type,
                  request.aggregate, Interval)]

Rank(g, type) ==
    Aggregate(OfGroup(g), type, request.aggregate, request.end - request.start)

Groups == {samples[k].group : k \in DOMAIN samples}

\* Highest rank first, groups of equal rank in the order of their keys.
Ranked(type) ==
    SetToSortSeq(Groups, LAMBDA g, h :
        \/ Less(Rank(h, type), Rank(g, type))
        \/ ~Less(Rank(g, type), Rank(h, type)) /\ g < h)

Series(type) ==
    LET kept == SubSeq(Ranked(type), 1, Min({Len(Ranked(type)), request.limit}))
    IN  [k \in DOMAIN kept |-> [group |-> kept[k], points |-> Points(kept[k], type)]]

-----------------------------------------------------------------------------
(* The query.                                                              *)

Answer(outcome, series) == answer' = [outcome |-> outcome, series |-> series]

NotAnswered == answer.outcome = "none"

\* Mutant of InWindow: the end of the range is left out.
InWindowOpen(r) == r.time >= request.start /\ r.time < request.end

InWindow(r) == r.time >= request.start /\ r.time <= request.end

Wanted(r) == InWindow(r) /\ r.asked /\ request.type \in {"any", r.type}

Read(r) ==
    /\ NotAnswered
    /\ Len(read) < MaxRecords
    /\ read' = Append(read, r)
    /\ UNCHANGED request

Skip(r) ==
    /\ Read(r)
    /\ ~Wanted(r)
    /\ UNCHANGED <<identities, samples, answer>>

Take(r) ==
    /\ Read(r)
    /\ Wanted(r)
    /\ r.value # None
    /\ identities' = identities \cup {r.type}
    /\ samples' = Append(samples, [time |-> r.time, value |-> r.value, group |-> r.group])
    /\ UNCHANGED answer

\* Histograms and sums may have no value; a gauge or distribution must.
NoValue(r) ==
    /\ Read(r)
    /\ Wanted(r)
    /\ r.value = None
    /\ identities' = identities \cup {r.type}
    /\ IF r.type \in {"sum", "histogram"} THEN UNCHANGED answer
       ELSE Answer("missing value", <<>>)
    /\ UNCHANGED samples

Refusal ==
    CASE identities = {} -> "not found"
      [] Cardinality(identities) > 1 -> "ambiguous"
      [] OTHER -> IF request.aggregate \in Allowed(CHOOSE t \in identities : TRUE)
                  THEN "none" ELSE "unsupported"

PointsOf(series) == MapThenSumSet(LAMBDA k : Cardinality(DOMAIN series[k].points), DOMAIN series)

\* All records are read.  The points are counted after the limit of groups.
Finish ==
    /\ NotAnswered
    /\ IF Refusal # "none" THEN Answer(Refusal, <<>>)
       ELSE LET series == Series(CHOOSE t \in identities : TRUE)
            IN  IF PointsOf(series) > MaxPoints THEN Answer("too many points", <<>>)
                ELSE Answer("series", series)
    /\ UNCHANGED <<request, read, identities, samples>>

Init ==
    /\ request \in Requests
    /\ read = <<>>
    /\ identities = {}
    /\ samples = <<>>
    /\ answer = [outcome |-> "none", series |-> <<>>]

Next == (\E r \in Records : Skip(r) \/ Take(r) \/ NoValue(r)) \/ Finish

Spec == Init /\ [][Next]_vars

-----------------------------------------------------------------------------
(* Properties.                                                             *)

Answered == answer.outcome = "series"

\* The records behind a group, and behind the part of it from one time to
\* another.
Behind(g) == {k \in DOMAIN read : Wanted(read[k]) /\ read[k].value # None
                                  /\ read[k].group = g}
Between(g, from, to) == {k \in Behind(g) : from <= read[k].time /\ read[k].time < to}

Total(at) == MapThenSumSet(LAMBDA k : read[k].value, at)

\* Every record that counts is in exactly one point, the one whose time is
\* the last bucket start before it, and a point has no other records: the
\* sums and counts of a series add up to those of its records.
PointsAccountForRecords ==
    Answered /\ request.aggregate \in {"sum", "increase", "count"} =>
        \A s \in Range(answer.series) :
            LET amount(at) == IF request.aggregate = "count" THEN Cardinality(at)
                              ELSE Total(at)
            IN  /\ \A t \in DOMAIN s.points :
                      s.points[t] = Whole(amount(Between(s.group, t, t + Interval)))
                /\ MapThenSumSet(LAMBDA t : s.points[t][1], DOMAIN s.points)
                      = amount({k \in DOMAIN read :
                            /\ read[k].asked /\ read[k].group = s.group
                            /\ read[k].value # None
                            /\ read[k].time \in request.start..request.end})

\* Points lie in the range asked for, at whole intervals from its start, and
\* an interval chosen by the server makes at most 300 of them.
PointsOnTheGrid ==
    Answered =>
        \A s \in Range(answer.series) : \A t \in DOMAIN s.points :
            /\ t \in request.start..request.end
            /\ (t - request.start) % Interval = 0
            /\ request.interval = 0 => (t - request.start) \div Interval < 300

\* A series that the limit leaves out does not outrank one that is kept, in
\* the sum of all its records or the highest of them.
TopGroupsKept ==
    Answered /\ request.aggregate \in {"sum", "max"} =>
        LET kept == {s.group : s \in Range(answer.series)}
            rank(g) == IF request.aggregate = "sum" THEN Total(Behind(g))
                       ELSE Max({read[k].value : k \in Behind(g)})
        IN  /\ Cardinality(kept) <= request.limit
            /\ \A g \in Groups \ kept : /\ Cardinality(kept) = request.limit
                                        /\ \A h \in kept : rank(g) <= rank(h)

\* A percentile lies between the values around it: at least p percent of the
\* records of its bucket are not above the value that follows it, and no
\* order of arrival changes that.
PercentilesInOrder ==
    Answered /\ request.aggregate = "p50" =>
        \A s \in Range(answer.series) : \A t \in DOMAIN s.points :
            LET at == Between(s.group, t, t + Interval)
                value == s.points[t]
                above == {k \in at : Less(value, Whole(read[k].value))}
                below == {k \in at : Less(Whole(read[k].value), value)}
            IN  2 * Cardinality(above) <= Cardinality(at)
                /\ 2 * Cardinality(below) <= Cardinality(at)

=============================================================================
