----------------------------- MODULE SearchHints ------------------------------
(***************************************************************************)
(* What a search expression matches and which index entries the search of  *)
(* the hot tier reads for it (matches, compare, field_values, index_hint,  *)
(* src/src/query.rs; record_index_keys, search_records, src/src/store.rs). *)
(* An index entry that is not read hides the record behind it; an archived *)
(* record is only matched.                                                 *)
(*                                                                         *)
(* A value is [type, n]; strings are ordered by n.  A search may also name *)
(* the string AnyText, which stands for a pattern with a star.  A field holds *)
(* the sequence of its values, more than one if it was stored as a list.   *)
(***************************************************************************)
EXTENDS Naturals, Sequences, SequencesExt

CONSTANTS
    Records,        \* records: functions from Fields to sequences of values
    Predicates,     \* predicates of queries: [op, field, operator, values]
    MaxParts        \* bound: predicates in an expression

VARIABLES
    record,
    expression,
    parts           \* how many predicates the expression has

String(n) == [type |-> "string", n |-> n]
Number(n) == [type |-> "number", n |-> n]
AnyText == [type |-> "string", n |-> 0]

Fields == {"level", "issue", "trace_id", "release"}

-----------------------------------------------------------------------------
(* Matching.                                                               *)

Canonical(field) == IF field = "trace" THEN "trace_id" ELSE field

FieldValues(r, field) == r[Canonical(field)]

Compare(stored, expected, operator) ==
    /\ stored.type = expected.type
    /\ CASE operator = "=" -> stored = expected \/ expected = AnyText
         [] operator = ">" -> stored.n > expected.n

MatchesPredicate(r, p) ==
    IF p.operator = "exists" THEN FieldValues(r, p.field) # <<>>
    ELSE \E stored \in Range(FieldValues(r, p.field)), expected \in Range(p.values) :
            Compare(stored, expected, p.operator)

RECURSIVE Matches(_, _)
Matches(r, e) ==
    CASE e.op = "predicate" -> MatchesPredicate(r, e)
      [] e.op = "not" -> ~Matches(r, e.args[1])
      [] e.op = "and" -> \A k \in DOMAIN e.args : Matches(r, e.args[k])
      [] e.op = "or" -> \E k \in DOMAIN e.args : Matches(r, e.args[k])

-----------------------------------------------------------------------------
(* Index entries: every record has one by time; a level, an issue or a     *)
(* trace adds one if its first value is a string.                          *)

NoHint == <<"time">>

Indexed == {"level", "issue", "trace_id"}

RecordIndexKeys(r) ==
    {NoHint} \cup
    {<<field, r[field][1].n>> :
        field \in {f \in Indexed : r[f] # <<>> /\ r[f][1].type = "string"}}

\* Mutant of PredicateHint: any of the values may be the one to look for.
PredicateHintOfList(p) ==
    IF /\ p.operator = "="
       /\ p.values[1].type = "string" /\ p.values[1] # AnyText
       /\ Canonical(p.field) \in Indexed
    THEN <<Canonical(p.field), p.values[1].n>>
    ELSE NoHint

\* The entries an equality with one plain string can do with.
PredicateHint(p) ==
    IF /\ p.operator = "=" /\ Len(p.values) = 1
       /\ p.values[1].type = "string" /\ p.values[1] # AnyText
       /\ Canonical(p.field) \in Indexed
    THEN <<Canonical(p.field), p.values[1].n>>
    ELSE NoHint

RECURSIVE IndexHint(_)
IndexHint(e) ==
    CASE e.op = "predicate" -> PredicateHint(e)
      [] e.op = "and" ->
            LET hints == SelectSeq([k \in DOMAIN e.args |-> IndexHint(e.args[k])],
                                   LAMBDA hint : hint # NoHint)
            IN  IF hints = <<>> THEN NoHint ELSE Head(hints)
      [] OTHER -> NoHint

\* The answers of the hot tier and of the archive.
HotFinds == IndexHint(expression) \in RecordIndexKeys(record) /\ Matches(record, expression)
ArchiveFinds == Matches(record, expression)

-----------------------------------------------------------------------------
(* A user refines a query.                                                 *)

Init ==
    /\ record \in Records
    /\ expression \in Predicates
    /\ parts = 1

Join(op, p) ==
    /\ parts < MaxParts
    /\ expression' = [op |-> op, args |-> <<expression, p>>]
    /\ parts' = parts + 1
    /\ UNCHANGED record

Negate ==
    /\ expression.op # "not"
    /\ expression' = [op |-> "not", args |-> <<expression>>]
    /\ UNCHANGED <<record, parts>>

Next == Negate \/ (\E op \in {"and", "or"}, p \in Predicates : Join(op, p))

Spec == Init /\ [][Next]_<<record, expression, parts>>

-----------------------------------------------------------------------------
(* Properties.                                                             *)

\* A search of the hot tier misses a record that matches, and that the same
\* search finds once it is archived, only if the field of the hint was stored
\* as a list and the value asked for is not its first.
HiddenOnlyInLists ==
    ArchiveFinds /\ ~HotFinds =>
        LET hint == IndexHint(expression)
        IN  Len(record[hint[1]]) > 1 /\ record[hint[1]][1] # String(hint[2])

=============================================================================
