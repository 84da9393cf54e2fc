----------------------------- MODULE MC_Wildcard -----------------------------
(***************************************************************************)
(* Checks the spec's matching algorithm against the reference definition  *)
(* on every pattern and literal up to MaxLen symbols.  The two strings are *)
(* built one symbol at a time, so every pair is a reachable state; the     *)
(* enumeration stops when both have MaxLen symbols.                        *)
(***************************************************************************)
EXTENDS Wildcard

CONSTANTS Alphabet,   \* literal symbols
          MaxLen      \* bound on the length of pattern and literal

VARIABLES pattern, literal
vars == <<pattern, literal>>

Init == pattern = <<>> /\ literal = <<>>

ExtendPattern ==
    /\ Len(pattern) < MaxLen
    /\ \E c \in Alphabet \cup {Star} : pattern' = Append(pattern, c)
    /\ UNCHANGED literal

ExtendLiteral ==
    /\ Len(literal) < MaxLen
    /\ \E c \in Alphabet : literal' = Append(literal, c)
    /\ UNCHANGED pattern

Next == ExtendPattern \/ ExtendLiteral

Spec == Init /\ [][Next]_vars

(* The prefix/suffix/in-order algorithm of spec 4.2 decides exactly what   *)
(* glob matching decides, including patterns whose first and last        *)
(* segments would overlap in a short literal ("ab*ba" against "aba") and  *)
(* patterns with adjacent or repeated stars; the empty pattern matches     *)
(* nothing.                                                                *)
MatcherAgreesWithReference ==
    Matches(pattern, literal) = (pattern # <<>> /\ MatchesRef(pattern, literal))
=============================================================================
