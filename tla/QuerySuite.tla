------------------------------ MODULE QuerySuite ------------------------------
(***************************************************************************)
(* The matcher of patterns, in a suite.                                    *)
(***************************************************************************)
EXTENDS Suite

CONSTANTS Bytes, Star, MaxValue, MaxPattern

VARIABLES value, pattern, value_index, pattern_index, star, checkpoint, answer

globVars == <<value, pattern, value_index, pattern_index, star, checkpoint, answer>>

Match == INSTANCE Wildcard

MatchOff ==
    /\ value = off /\ pattern = off /\ value_index = off /\ pattern_index = off
    /\ star = off /\ checkpoint = off /\ answer = off

\* The matcher of patterns says yes only to what the pattern describes, and no
\* only to what it does not, if the value has no star.
WildcardIsRight == subject = "wildcard" => Match!WildcardIsRight
=============================================================================
