------------------------------ MODULE MCQueries -------------------------------
(***************************************************************************)
(* The query language and metric queries for TLC, over every input up to   *)
(* the bounds below.  The modules share no state, so that each behaviour   *)
(* is of one of them, its subject, and what the others use is off.         *)
(***************************************************************************)
EXTENDS Naturals, Sequences, QuerySuite

VARIABLES
    tokens,
    text, scan,
    record, expression, parts,
    request, read, identities, samples, result

atomVars == <<text, scan>>
hintVars == <<record, expression, parts>>
metricVars == <<request, read, identities, samples, result>>
suiteVars == <<subject, tokens, globVars, atomVars, hintVars, metricVars>>

-----------------------------------------------------------------------------
(* Instances.                                                              *)

\* Queries of up to 6 tokens.
Parser == INSTANCE QueryParser WITH MaxTokens <- 6

\* Values and patterns of up to 4 bytes.
MCBytes == {"a", "b", Star}

\* Up to 4 of a letter and every character the scanner, lists and quotes look at.
Atoms == INSTANCE SearchAtoms WITH
    Characters <- {"x", "\"", "\\", " ", "[", "]", "(", ":", ","}, MaxLength <- 4

ASSUME Match!StarAssumption

a == [type |-> "string", n |-> 1]
b == [type |-> "string", n |-> 2]
Number == [type |-> "number", n |-> 1]
AnyString == [type |-> "string", n |-> 0]

\* Nothing, one value, a list, a list that starts with a number; an issue is
\* one string or absent.
HintRecords ==
    {[level |-> l, issue |-> i, trace_id |-> t, release |-> <<a>>] :
        l \in {<<>>, <<a>>, <<b>>, <<Number>>, <<a, b>>, <<Number, a>>},
        i \in {<<>>, <<a>>}, t \in {<<a>>, <<b, a>>}}

Predicate(field, operator, values) ==
    [op |-> "predicate", field |-> field, operator |-> operator, values |-> values]

HintPredicates ==
    {Predicate(f, "=", v) : f \in {"level", "issue", "trace"},
        v \in {<<a>>, <<AnyString>>, <<b, a>>}}
    \cup {Predicate("level", "=", <<Number>>), Predicate("level", ">", <<a>>),
          Predicate("release", "=", <<a>>), Predicate("issue", "exists", <<>>)}

\* Expressions of up to 3 predicates.
Hints == INSTANCE SearchHints WITH
    Records <- HintRecords, Predicates <- HintPredicates, MaxParts <- 3

\* Times at both ends of the range and of a bucket and outside, two groups,
\* two values.
Sample(time, v, group, type) ==
    [time |-> time, value |-> v, group |-> group, type |-> type, asked |-> TRUE]

Of(type) ==
    {Sample(t, v, g, type) : t \in {1500, 2499, 2500}, v \in {1, 4}, g \in {1, 2}}

Others ==
    {Sample(5000, 1, 1, "gauge"), Sample(1499, 4, 1, "gauge"), Sample(4500, 4, 1, "gauge"),
     Sample(2499, None, 1, "gauge"), Sample(1500, None, 2, "histogram"),
     Sample(301500, 1, 1, "gauge"),
     [Sample(1500, 1, 1, "gauge") EXCEPT !.asked = FALSE]}

Request(aggregate, interval, limit) ==
    [aggregate |-> aggregate, type |-> "any", interval |-> interval, limit |-> limit,
     start |-> 1500, end |-> 4500]

GaugeRequests ==
    {Request(g, i, n) : g \in {"sum", "count", "max", "latest", "p50"}, i \in {0, 700},
                        n \in {1, 20}}
    \cup {[Request("sum", 0, 20) EXCEPT !.type = "gauge"],
          [Request("sum", 0, 20) EXCEPT !.end = 301500]}

DistributionRequests ==
    {Request(g, i, 20) : g \in {"p50", "avg", "per_second"}, i \in {0, 5000}}

Gauges == INSTANCE MetricQuery WITH
    Records <- Of("gauge") \cup Others, Requests <- GaugeRequests, MaxRecords <- 3,
    MaxPoints <- 2, answer <- result

Distributions == INSTANCE MetricQuery WITH
    Records <- Of("distribution") \cup {Sample(2499, 2, 1, "distribution")},
    Requests <- DistributionRequests, MaxRecords <- 4, MaxPoints <- 3,
    answer <- result

-----------------------------------------------------------------------------

ParserOff == tokens = off

AtomsOff == text = off /\ scan = off

HintsOff == record = off /\ expression = off /\ parts = off

MetricsOff ==
    /\ request = off /\ read = off /\ identities = off /\ samples = off /\ result = off

SuiteInit ==
    \/ subject = "parser" /\ Parser!Init /\ MatchOff /\ AtomsOff /\ HintsOff /\ MetricsOff
    \/ subject = "wildcard" /\ ParserOff /\ Match!Init /\ AtomsOff /\ HintsOff /\ MetricsOff
    \/ subject = "atoms" /\ ParserOff /\ MatchOff /\ Atoms!Init /\ HintsOff /\ MetricsOff
    \/ subject = "hints" /\ ParserOff /\ MatchOff /\ AtomsOff /\ Hints!Init /\ MetricsOff
    \/ /\ ParserOff /\ MatchOff /\ AtomsOff /\ HintsOff
       /\ \/ subject = "gauges" /\ Gauges!Init
          \/ subject = "distributions" /\ Distributions!Init

SuiteNext ==
    /\ \/ /\ subject = "parser" /\ Parser!Next
          /\ UNCHANGED <<globVars, atomVars, hintVars, metricVars>>
       \/ /\ subject = "wildcard" /\ Match!Next
          /\ UNCHANGED <<tokens, atomVars, hintVars, metricVars>>
       \/ /\ subject = "atoms" /\ Atoms!Next
          /\ UNCHANGED <<tokens, globVars, hintVars, metricVars>>
       \/ /\ subject = "hints" /\ Hints!Next
          /\ UNCHANGED <<tokens, globVars, atomVars, metricVars>>
       \/ /\ subject = "gauges" /\ Gauges!Next
          /\ UNCHANGED <<tokens, globVars, atomVars, hintVars>>
       \/ /\ subject = "distributions" /\ Distributions!Next
          /\ UNCHANGED <<tokens, globVars, atomVars, hintVars>>
    /\ UNCHANGED subject

SuiteSpec == SuiteInit /\ [][SuiteNext]_suiteVars

-----------------------------------------------------------------------------
(* Properties: those of the modules, each for its subject.                 *)

\* The parser accepts exactly the queries of the grammar, and the empty one; an
\* accepted query matches what the grammar says, with neighbours joined to phrases.
ParserIsRight ==
    subject = "parser" =>
        Parser!AcceptsGrammar /\ Parser!MeansWhatItSays /\ Parser!PhrasesAreNeighbours

\* Quoted ids and lists are searched for as they are, a space outside separates.
AtomsAreRead ==
    subject = "atoms" =>
        Atoms!QuotedIdIsFound /\ Atoms!ListsKeepTheirValues /\ Atoms!SpacesSeparate

\* The hot tier misses a match only by a value that is not first in a list.
HintsHiddenOnlyInLists == subject = "hints" => Hints!HiddenOnlyInLists

\* Every record that counts is in exactly one point, that of its bucket; points
\* lie in the range at whole intervals, at most 300; no series that is left out
\* outranks one that is kept; a percentile lies between the values around it.
MetricsAddUp ==
    /\ subject = "gauges" => /\ Gauges!PointsAccountForRecords /\ Gauges!PointsOnTheGrid
                             /\ Gauges!TopGroupsKept
    /\ subject = "distributions" => Distributions!PercentilesInOrder
=============================================================================
