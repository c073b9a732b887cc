----------------------------- MODULE QueryParser -----------------------------
(***************************************************************************)
(* The parser of search expressions (src/src/query.rs) over the tokens of  *)
(* the tokenizer, checked against a grammar for every sequence of tokens.  *)
(*                                                                         *)
(* An atom is a free text or a field search; it stands for its position in *)
(* the query.  A part of the tree is [op, args, words]: words are the      *)
(* positions of the atoms of a leaf, args the parts of the others.         *)
(***************************************************************************)
EXTENDS Naturals, Sequences, SequencesExt, FiniteSets

CONSTANT MaxTokens    \* bound: tokens in a query

VARIABLE tokens

Atoms == {"text", "field"}
Token == Atoms \cup {"AND", "OR", "!", "(", ")"}

-----------------------------------------------------------------------------
(* The parser.  A result is [ok, tree, cursor].                            *)

Leaf(op, k) == [op |-> op, args |-> <<>>, words |-> <<k>>]
All == [op |-> "all", args |-> <<>>, words |-> <<>>]
Not(t) == [op |-> "not", args |-> <<t>>, words |-> <<>>]

\* A list of one expression is that expression.
Group(op, trees) ==
    IF Len(trees) = 1 THEN trees[1]
    ELSE [op |-> op, args |-> trees, words |-> <<>>]

Parsed(tree, cursor) == [ok |-> TRUE, tree |-> tree, cursor |-> cursor]
Failed == [ok |-> FALSE, tree |-> All, cursor |-> 0]

IsAt(s, k, some) == k <= Len(s) /\ s[k] \in some

\* A text that follows a text without AND continues it.
Joined(trees, next, explicit) ==
    IF ~explicit /\ Last(trees).op = "text" /\ next.op = "text"
    THEN Append(Front(trees), [Last(trees) EXCEPT !.words = @ \o next.words])
    ELSE Append(trees, next)

\* Where parse_and stops.
EndsAnd(s, k) == k > Len(s) \/ IsAt(s, k, {"OR", ")"})

RECURSIVE ParseOr(_, _), OrMore(_, _, _), ParseAnd(_, _), AndMore(_, _, _),
          ParseUnary(_, _)

ParseOr(s, k) ==
    LET first == ParseAnd(s, k)
    IN  IF first.ok THEN OrMore(s, first.cursor, <<first.tree>>) ELSE Failed

OrMore(s, k, trees) ==
    IF ~IsAt(s, k, {"OR"}) THEN Parsed(Group("or", trees), k)
    ELSE LET next == ParseAnd(s, k + 1)
         IN  IF next.ok THEN OrMore(s, next.cursor, Append(trees, next.tree))
             ELSE Failed

ParseAnd(s, k) ==
    LET first == ParseUnary(s, k)
    IN  IF first.ok THEN AndMore(s, first.cursor, <<first.tree>>) ELSE Failed

AndMore(s, k, trees) ==
    LET explicit == IsAt(s, k, {"AND"})
        start == IF explicit THEN k + 1 ELSE k
    IN  IF EndsAnd(s, start)
        THEN IF explicit THEN Failed ELSE Parsed(Group("and", trees), start)
        ELSE LET next == ParseUnary(s, start)
             IN  IF next.ok
                 THEN AndMore(s, next.cursor, Joined(trees, next.tree, explicit))
                 ELSE Failed

\* Mutant of Negated: ! binds weaker than AND.
NegatedAnd(s, k) ==
    LET arg == ParseAnd(s, k)
    IN  IF arg.ok THEN Parsed(Not(arg.tree), arg.cursor) ELSE Failed

\* The negation whose operand starts at k.
Negated(s, k) ==
    LET arg == ParseUnary(s, k)
    IN  IF arg.ok THEN Parsed(Not(arg.tree), arg.cursor) ELSE Failed

ParseUnary(s, k) ==
    IF IsAt(s, k, {"!"}) THEN Negated(s, k + 1)
    ELSE IF IsAt(s, k, {"("})
    THEN LET inner == ParseOr(s, k + 1)
         IN  IF inner.ok /\ IsAt(s, inner.cursor, {")"})
             THEN Parsed(inner.tree, inner.cursor + 1) ELSE Failed
    ELSE IF IsAt(s, k, Atoms) THEN Parsed(Leaf(s[k], k), k + 1)
    ELSE Failed

Parse(s) ==
    IF s = <<>> THEN Parsed(All, 1)
    ELSE LET result == ParseOr(s, 1)
         IN  IF result.ok /\ result.cursor = Len(s) + 1 THEN result ELSE Failed

-----------------------------------------------------------------------------
(* What a query matches, for a record that the atoms in truth match.  A    *)
(* phrase is taken as all of its words.                                    *)

RECURSIVE Matches(_, _)
Matches(t, truth) ==
    CASE t.op = "all" -> TRUE
      [] t.op \in Atoms -> ToSet(t.words) \subseteq truth
      [] t.op = "not" -> ~Matches(t.args[1], truth)
      [] t.op = "and" -> \A k \in DOMAIN t.args : Matches(t.args[k], truth)
      [] t.op = "or" -> \E k \in DOMAIN t.args : Matches(t.args[k], truth)

RECURSIVE Leaves(_)
Leaves(t) ==
    IF t.op \in Atoms THEN {t}
    ELSE UNION {Leaves(t.args[k]) : k \in DOMAIN t.args}

-----------------------------------------------------------------------------
(* The grammar, over the part of the query from position i to j:           *)
(*    or ::= and | and OR or      and ::= unary | unary [AND] and          *)
(*    unary ::= atom | ! unary | ( or )                                    *)

RECURSIVE IsOr(_, _, _), IsAnd(_, _, _), IsUnary(_, _, _)

IsOr(s, i, j) ==
    \/ IsAnd(s, i, j)
    \/ \E k \in i+1..j-1 : s[k] = "OR" /\ IsAnd(s, i, k - 1) /\ IsOr(s, k + 1, j)

IsAnd(s, i, j) ==
    \/ IsUnary(s, i, j)
    \/ \E k \in i..j-1 :
          /\ IsUnary(s, i, k)
          /\ \/ IsAnd(s, k + 1, j)
             \/ s[k + 1] = "AND" /\ IsAnd(s, k + 2, j)

IsUnary(s, i, j) ==
    \/ i = j /\ s[i] \in Atoms
    \/ i < j /\ s[i] = "!" /\ IsUnary(s, i + 1, j)
    \/ i + 1 < j /\ s[i] = "(" /\ s[j] = ")" /\ IsOr(s, i + 1, j - 1)

\* Its meaning: OR binds weakest, then juxtaposition and AND, then !.
RECURSIVE OrHolds(_, _, _, _), AndHolds(_, _, _, _), UnaryHolds(_, _, _, _)

OrHolds(s, i, j, truth) ==
    \/ IsAnd(s, i, j) /\ AndHolds(s, i, j, truth)
    \/ \E k \in i+1..j-1 :
          /\ s[k] = "OR" /\ IsAnd(s, i, k - 1) /\ IsOr(s, k + 1, j)
          /\ AndHolds(s, i, k - 1, truth) \/ OrHolds(s, k + 1, j, truth)

AndHolds(s, i, j, truth) ==
    IF IsUnary(s, i, j) THEN UnaryHolds(s, i, j, truth)
    ELSE \E k \in i..j-1 :
            /\ IsUnary(s, i, k)
            /\ UnaryHolds(s, i, k, truth)
            /\ \/ IsAnd(s, k + 1, j) /\ AndHolds(s, k + 1, j, truth)
               \/ /\ s[k + 1] = "AND" /\ IsAnd(s, k + 2, j)
                  /\ AndHolds(s, k + 2, j, truth)

UnaryHolds(s, i, j, truth) ==
    CASE i = j -> i \in truth
      [] i < j /\ s[i] = "!" -> ~UnaryHolds(s, i + 1, j, truth)
      [] i < j /\ s[i] = "(" -> OrHolds(s, i + 1, j - 1, truth)

-----------------------------------------------------------------------------
(* Every query, token by token.                                            *)

Init == tokens = <<>>

Type(token) ==
    /\ Len(tokens) < MaxTokens
    /\ tokens' = Append(tokens, token)

Next == \E token \in Token : Type(token)

Spec == Init /\ [][Next]_tokens

-----------------------------------------------------------------------------
(* Properties.                                                             *)

Places == {k \in 1..Len(tokens) : tokens[k] \in Atoms}

\* The parser accepts exactly the queries of the grammar, and the empty one.
AcceptsGrammar ==
    Parse(tokens).ok <=> tokens = <<>> \/ IsOr(tokens, 1, Len(tokens))

\* An accepted query matches a record if and only if the grammar says so,
\* whatever its atoms match: OR weakest, ! strongest, parentheses respected.
MeansWhatItSays ==
    Parse(tokens).ok /\ tokens # <<>> =>
        \A truth \in SUBSET Places :
            Matches(Parse(tokens).tree, truth)
                <=> OrHolds(tokens, 1, Len(tokens), truth)

\* Phrases join neighbours: the words of a text stand side by side in the
\* query, with nothing but parentheses between them, and every atom is in
\* exactly one leaf.
PhrasesAreNeighbours ==
    Parse(tokens).ok =>
        LET leaves == Leaves(Parse(tokens).tree)
        IN  /\ UNION {ToSet(t.words) : t \in leaves} = Places
            /\ \A t, u \in leaves :
                  ToSet(t.words) \cap ToSet(u.words) # {} => t = u
            /\ \A t \in leaves :
                  /\ \A k \in 1..Len(t.words) - 1 : t.words[k] < t.words[k + 1]
                  /\ \A k \in t.words[1]..Last(t.words) :
                        tokens[k] \in {"text", "(", ")"} \/ t.op = "field"

=============================================================================
