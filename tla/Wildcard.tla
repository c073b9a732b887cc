------------------------------- MODULE Wildcard -------------------------------
(***************************************************************************)
(* The matcher of `*` patterns (wildcard, src/src/query.rs), one action    *)
(* per branch of its loop, for every value and pattern over a small        *)
(* alphabet, checked against the meaning of a pattern: a star stands for   *)
(* any text, every other byte for itself.                                  *)
(***************************************************************************)
EXTENDS Naturals, Sequences, SequencesExt

CONSTANTS
    Bytes,       \* the bytes of values and patterns
    Star,        \* the one a pattern gives its meaning
    MaxValue,    \* bound: bytes of a value
    MaxPattern   \* bound: bytes of a pattern

StarAssumption == Star \in Bytes /\ MaxValue \in Nat /\ MaxPattern \in Nat

VARIABLES
    value,
    pattern,
    value_index,
    pattern_index,
    star,          \* where the last star was read, 0 for none
    checkpoint,    \* the value from which that star last took its text
    answer         \* "none" while the loop runs, then "yes" or "no"

texts == <<value, pattern>>
vars == <<value, pattern, value_index, pattern_index, star, checkpoint, answer>>

-----------------------------------------------------------------------------
(* What a pattern means.                                                   *)

\* Where the text of the first k bytes of a pattern ends: at f[k], if f has them.
End(f, k) == IF k = 0 THEN 0 ELSE f[k]

\* The k-th byte of the pattern stands for what is between two ends.
StandsFor(v, p, f, k) ==
    IF p[k] = Star
    THEN End(f, k - 1) <= f[k]
    ELSE f[k] = End(f, k - 1) + 1 /\ v[f[k]] = p[k]

\* The first j bytes of a pattern describe the first i of a value.
Describes(v, p, i, j) ==
    \E f \in [1..j -> 0..i] : End(f, j) = i /\ \A k \in 1..j : StandsFor(v, p, f, k)

Glob(v, p) == Describes(v, p, Len(v), Len(p))

-----------------------------------------------------------------------------
(* The loop.                                                               *)

Running == answer = "none" /\ value_index <= Len(value)

PatternHas(bytes) ==
    pattern_index <= Len(pattern) /\ pattern[pattern_index] \in bytes

SameByte == PatternHas({value[value_index]})

\* The byte, a star included, is the one of the value.
Literal ==
    /\ Running
    /\ SameByte
    /\ value_index' = value_index + 1
    /\ pattern_index' = pattern_index + 1
    /\ UNCHANGED <<texts, star, checkpoint, answer>>

\* Mutant of MeetStar: a star takes at least one byte.
MeetStarGreedy ==
    /\ Running
    /\ ~SameByte
    /\ PatternHas({Star})
    /\ star' = pattern_index
    /\ pattern_index' = pattern_index + 1
    /\ value_index' = value_index + 1
    /\ checkpoint' = value_index + 1
    /\ UNCHANGED <<texts, answer>>

MeetStar ==
    /\ Running
    /\ ~SameByte
    /\ PatternHas({Star})
    /\ star' = pattern_index
    /\ pattern_index' = pattern_index + 1
    /\ checkpoint' = value_index
    /\ UNCHANGED <<texts, value_index, answer>>

\* Mutant of GoBack: the star is tried again from the same place.
GoBackInPlace ==
    /\ Running
    /\ ~SameByte
    /\ ~PatternHas({Star})
    /\ star # 0
    /\ pattern_index' = star + 1
    /\ value_index' = checkpoint
    /\ UNCHANGED <<texts, star, checkpoint, answer>>

\* The last star takes one byte more.
GoBack ==
    /\ Running
    /\ ~SameByte
    /\ ~PatternHas({Star})
    /\ star # 0
    /\ pattern_index' = star + 1
    /\ checkpoint' = checkpoint + 1
    /\ value_index' = checkpoint + 1
    /\ UNCHANGED <<texts, star, answer>>

GiveUp ==
    /\ Running
    /\ ~SameByte
    /\ ~PatternHas({Star})
    /\ star = 0
    /\ answer' = "no"
    /\ UNCHANGED <<texts, value_index, pattern_index, star, checkpoint>>

AllStars(bytes) == \A k \in DOMAIN bytes : bytes[k] = Star

\* The value is at its end: only stars may be left of the pattern.
Finish ==
    /\ answer = "none"
    /\ value_index > Len(value)
    /\ answer' = IF AllStars(SubSeq(pattern, pattern_index, Len(pattern)))
                 THEN "yes" ELSE "no"
    /\ UNCHANGED <<texts, value_index, pattern_index, star, checkpoint>>

-----------------------------------------------------------------------------

Init ==
    /\ value \in BoundedSeq(Bytes, MaxValue)
    /\ pattern \in BoundedSeq(Bytes, MaxPattern)
    /\ value_index = 1
    /\ pattern_index = 1
    /\ star = 0
    /\ checkpoint = 1
    /\ answer = "none"

Next == Literal \/ MeetStar \/ GoBack \/ GiveUp \/ Finish

Spec == Init /\ [][Next]_vars /\ WF_vars(Next)

-----------------------------------------------------------------------------
(* Properties.                                                             *)

\* A yes is right, whatever the loop has tried and taken back before it.
YesIsRight == answer = "yes" => Glob(value, pattern)

\* A no is right for every value that has no star of its own.  (Such a star is
\* taken for the pattern's: see NoIsRight.)
NoIsRightWithoutStars ==
    answer = "no" /\ Star \notin Range(value) => ~Glob(value, pattern)

\* The matcher is right, but for a no to a value that has a star.
WildcardIsRight == YesIsRight /\ NoIsRightWithoutStars

\* A search for 'message:*timeout' (README.md:94) finds every message that
\* ends with timeout: no is always right.
NoIsRight == answer = "no" => ~Glob(value, pattern)

\* The loop ends: going back always makes progress.
Ends == answer = "none" ~> answer # "none"

=============================================================================
