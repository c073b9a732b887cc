----------------------------- MODULE SearchAtoms ------------------------------
(***************************************************************************)
(* From the characters of a query to its atoms and from an atom to its     *)
(* field, operator and values (tokenize, parse_atom, src/src/query.rs).    *)
(* The query is typed one character at a time; what the scanner has made   *)
(* of it so far is the state.  The words AND and OR are ordinary atoms     *)
(* here: QueryParser has the grammar above the atoms.                      *)
(***************************************************************************)
EXTENDS Naturals, Sequences, SequencesExt

CONSTANTS
    Characters,    \* the characters typed
    MaxLength      \* bound: characters in a query

VARIABLES text, scan

Quote == "\""
Escape == "\\"
Digits == {"1", "2"}

-----------------------------------------------------------------------------
(* The scanner.                                                            *)

Start == [tokens |-> <<>>, inside |-> FALSE, atom |-> <<>>, quoted |-> FALSE,
          escaped |-> FALSE, depth |-> 0]

Mark(c) == [kind |-> c, atom |-> <<>>]
Atom(atom) == [kind |-> "atom", atom |-> atom]

\* A character outside atoms.
Outside(s, c) ==
    CASE c = " " -> s
      [] c \in {"(", ")", "!"} -> [s EXCEPT !.tokens = Append(@, Mark(c))]
      [] OTHER -> [s EXCEPT !.inside = TRUE, !.atom = <<c>>,
                            !.quoted = (c = Quote), !.depth = 0]

Close(s) == [Start EXCEPT !.tokens = Append(s.tokens, Atom(s.atom))]

\* Mutant of Ends: brackets do not protect.
EndsInBrackets(s, c) == ~s.quoted /\ c \in {" ", "(", ")"}

\* Whether the atom ends before this character.
Ends(s, c) == ~s.quoted /\ s.depth = 0 /\ c \in {" ", "(", ")"}

\* A character that belongs to the atom.
Read(s, c) ==
    LET more == [s EXCEPT !.atom = Append(@, c)]
    IN  CASE s.escaped -> [more EXCEPT !.escaped = FALSE]
          [] ~s.escaped /\ s.quoted /\ c = Escape -> [more EXCEPT !.escaped = TRUE]
          [] ~s.escaped /\ c = Quote -> [more EXCEPT !.quoted = ~@]
          [] ~s.quoted /\ c = "[" -> [more EXCEPT !.depth = @ + 1]
          [] ~s.quoted /\ c = "]" /\ s.depth > 0 -> [more EXCEPT !.depth = @ - 1]
          [] OTHER -> more

Scan(s, c) ==
    CASE ~s.inside -> Outside(s, c)
      [] s.inside /\ ~s.escaped /\ Ends(s, c) -> Outside(Close(s), c)
      [] OTHER -> Read(s, c)

\* The tokens of a query that ends here.
Finish(s) ==
    CASE ~s.inside -> [ok |-> TRUE, tokens |-> s.tokens]
      [] s.inside /\ ~s.quoted /\ s.depth = 0 -> [ok |-> TRUE, tokens |-> Close(s).tokens]
      [] OTHER -> [ok |-> FALSE, tokens |-> <<>>]

Tokenize(query) == Finish(FoldLeft(Scan, Start, query))

-----------------------------------------------------------------------------
(* Atoms.                                                                  *)

Failed == [ok |-> FALSE]

StartsWith(s, c) == s # <<>> /\ Head(s) = c
EndsWith(s, c) == s # <<>> /\ Last(s) = c
Inner(s) == SubSeq(s, 2, Len(s) - 1)

Unescape(out, c) ==
    CASE out.escaped -> [text |-> Append(out.text, c), escaped |-> FALSE]
      [] ~out.escaped /\ c = Escape -> [out EXCEPT !.escaped = TRUE]
      [] OTHER -> [out EXCEPT !.text = Append(@, c)]

Unquote(s) ==
    LET out == FoldLeft(Unescape, [text |-> <<>>, escaped |-> FALSE], Inner(s))
    IN  CASE ~StartsWith(s, Quote) -> [ok |-> TRUE, text |-> s]
          [] StartsWith(s, Quote) /\ EndsWith(s, Quote) /\ Len(s) > 1 /\ ~out.escaped ->
                [ok |-> TRUE, text |-> out.text]
          [] OTHER -> Failed

\* What Rust's parser of floating point numbers takes, over this alphabet.
AllDigits(s) == s # <<>> /\ \A k \in DOMAIN s : s[k] \in Digits
IsNumber(s) ==
    \/ AllDigits(s)
    \/ \E k \in DOMAIN s : /\ s[k] = "e"
                           /\ AllDigits(SubSeq(s, 1, k - 1))
                           /\ AllDigits(SubSeq(s, k + 1, Len(s)))

Literal(s) ==
    IF StartsWith(s, Quote)
    THEN IF Unquote(s).ok THEN [ok |-> TRUE, type |-> "string", text |-> Unquote(s).text]
         ELSE Failed
    ELSE [ok |-> TRUE, type |-> IF IsNumber(s) THEN "number" ELSE "string", text |-> s]

Trim(s) ==
    LET kept == {k \in DOMAIN s : s[k] # " "}
    IN  IF kept = {} THEN <<>>
        ELSE SubSeq(s, CHOOSE k \in kept : \A i \in kept : k <= i,
                       CHOOSE k \in kept : \A i \in kept : k >= i)

SplitStep(parts, c) ==
    IF c = "," THEN Append(parts, <<>>)
    ELSE [parts EXCEPT ![Len(parts)] = Append(@, c)]

\* The commas of a list separate its values, also inside quotes.
Values(raw) ==
    IF StartsWith(raw, "[") /\ EndsWith(raw, "]")
    THEN LET parts == FoldLeft(SplitStep, <<<<>>>>, Inner(raw))
         IN  [k \in DOMAIN parts |-> Literal(Trim(parts[k]))]
    ELSE <<Literal(raw)>>

Operators == <<<<">", "=">>, <<"<", "=">>, <<">">>, <<"<">>>>

\* The first operator the value starts with, none for equality.
OperatorOf(raw) ==
    LET starts == {k \in DOMAIN Operators : IsPrefix(Operators[k], raw)}
    IN  IF starts = {} THEN <<>>
        ELSE Operators[CHOOSE k \in starts : \A i \in starts : k <= i]

ParseAtom(atom) ==
    LET colon == SelectInSeq(atom, LAMBDA c : c = ":")
        field == SubSeq(atom, 1, colon - 1)
        raw == SubSeq(atom, colon + 1, Len(atom))
        operator == OperatorOf(raw)
        given == Values(SubSeq(raw, Len(operator) + 1, Len(raw)))
    IN  CASE colon = 0 ->
                IF Unquote(atom).ok
                THEN [ok |-> TRUE, kind |-> "text", text |-> Unquote(atom).text]
                ELSE Failed
          [] colon # 0 /\ (field = <<>> \/ raw = <<>>) -> Failed
          [] colon # 0 /\ field = <<"h", "a", "s">> /\ raw # <<>> ->
                IF Unquote(raw).ok
                THEN [ok |-> TRUE, kind |-> "exists", field |-> Unquote(raw).text]
                ELSE Failed
          [] OTHER ->
                IF \A k \in DOMAIN given : given[k].ok
                THEN [ok |-> TRUE, kind |-> "field", field |-> field,
                      operator |-> operator, values |-> given]
                ELSE Failed

\* What a query of one atom searches for.
Search(query) ==
    IF Tokenize(query).ok /\ Len(Tokenize(query).tokens) = 1
    THEN ParseAtom(Tokenize(query).tokens[1].atom)
    ELSE Failed

\* Equality with a stored string, for values without stars.
EqualsString(stored, expected) == expected.type = "string" /\ expected.text = stored

-----------------------------------------------------------------------------

Init == text = <<>> /\ scan = Start

Type(c) ==
    /\ Len(text) < MaxLength
    /\ text' = Append(text, c)
    /\ scan' = Scan(scan, c)

Next == \E c \in Characters : Type(c)

Spec == Init /\ [][Next]_<<text, scan>>

-----------------------------------------------------------------------------
(* Properties.  The text typed is also taken as an id or a value that      *)
(* somebody quotes, as JSON does, to search for it.                        *)

Quoted(s) ==
    <<Quote>> \o FoldLeft(LAMBDA out, c :
        IF c \in {Quote, Escape} THEN out \o <<Escape, c>> ELSE Append(out, c),
        <<>>, s) \o <<Quote>>

FieldSearch(s) == <<"f", ":">> \o s

Strings(found) == [k \in DOMAIN found.values |->
                      [type |-> found.values[k].type, text |-> found.values[k].text]]

\* The get tool quotes the id it looks for (src/mcp.rs:178): whatever the
\* characters of the id are, the query searches the field for that id.
QuotedIdIsFound ==
    LET found == Search(FieldSearch(Quoted(text)))
    IN  /\ found.ok /\ found.kind = "field" /\ found.field = <<"f">>
        /\ found.operator = <<>> /\ Len(found.values) = 1
        /\ EqualsString(text, found.values[1])

\* A list of quoted values searches for exactly these values, if they have
\* no commas.
ListsKeepTheirValues ==
    \A k \in 0..Len(text) :
        LET first == SubSeq(text, 1, k)
            second == SubSeq(text, k + 1, Len(text))
            found == Search(FieldSearch(<<"[">> \o Quoted(first) \o <<",", " ">>
                                               \o Quoted(second) \o <<"]">>))
        IN  "," \notin Range(text) =>
                /\ found.ok /\ found.kind = "field"
                /\ Strings(found) = << [type |-> "string", text |-> first],
                                       [type |-> "string", text |-> second] >>

\* A space outside quotes and lists separates: what stands before it means
\* the same as alone, and so does what stands behind it.
SpacesSeparate ==
    \A k \in DOMAIN text :
        LET before == Tokenize(SubSeq(text, 1, k - 1))
            after == Tokenize(SubSeq(text, k + 1, Len(text)))
        IN  text[k] = " " /\ before.ok =>
                IF after.ok THEN Finish(scan) = [ok |-> TRUE,
                                                 tokens |-> before.tokens \o after.tokens]
                ELSE ~Finish(scan).ok

\* Searching for an id as README.md:95 does ('trace_id:TRACE_ID'), without
\* quotes, finds that id.
BareIdIsFound ==
    text # <<>> =>
        LET found == Search(FieldSearch(text))
        IN  found.ok /\ found.kind = "field" /\ EqualsString(text, found.values[1])

=============================================================================
