------------------------------ MODULE Wildcard ------------------------------
(***************************************************************************)
(* The Pattern Matcher of the policy engine (spec section 4.2).  The       *)
(* matcher is not part of src/ (the engine's GetPoliciesAuthorized is      *)
(* called from src/api/policy.go but defined elsewhere), so the operators  *)
(* here are modelled from the spec.                                        *)
(*                                                                         *)
(* A string is a sequence of symbols; Star is the wildcard symbol.         *)
(* Matches is the algorithm the spec prescribes: split the pattern on      *)
(* Star, the literal must start with the first segment, end with the last *)
(* one and contain the interior segments in order without overlap.         *)
(* MatchesRef is the textbook definition of glob matching that the         *)
(* algorithm must agree with.                                              *)
(***************************************************************************)
EXTENDS Naturals, Sequences, SequencesExt

CONSTANT Star

(* The segments of pattern p between its Star symbols, in order.  A       *)
(* pattern with k stars has k+1 (possibly empty) segments.                *)
RECURSIVE Segments(_)
Segments(p) ==
    IF \A i \in 1..Len(p) : p[i] # Star
    THEN <<p>>
    ELSE LET k == SelectInSeq(p, LAMBDA c : c = Star)
         IN  <<SubSeq(p, 1, k - 1)>> \o Segments(SubSeq(p, k + 1, Len(p)))

(* The smallest j such that seg occurs in s starting at j, or 0.          *)
FirstIndexOf(seg, s) ==
    LET at == {j \in 1..(Len(s) - Len(seg) + 1) :
                  SubSeq(s, j, j + Len(seg) - 1) = seg}
    IN  IF at = {} THEN 0 ELSE CHOOSE j \in at : \A i \in at : j <= i

(* Every segment of segs occurs in s, in order and without overlap; each  *)
(* is taken at its leftmost occurrence after the previous one.            *)
RECURSIVE InOrder(_, _)
InOrder(segs, s) ==
    IF segs = <<>> THEN TRUE
    ELSE LET j == FirstIndexOf(Head(segs), s)
         IN  /\ j > 0
             /\ InOrder(Tail(segs), SubSeq(s, j + Len(Head(segs)), Len(s)))

(* Mutant of Matches: the prefix and the suffix are checked separately    *)
(* but may overlap in the literal (the length check is dropped).          *)
MatchesOverlapping(pattern, literal) ==
    LET segs  == Segments(pattern)
        first == Head(segs)
        last  == segs[Len(segs)]
    IN  CASE pattern = <<>>     -> FALSE
          [] pattern = <<Star>> -> TRUE
          [] Len(segs) = 1      -> pattern = literal
          [] OTHER ->
               /\ IsPrefix(first, literal)
               /\ IsSuffix(last, literal)
               /\ InOrder(SubSeq(segs, 2, Len(segs) - 1),
                          SubSeq(literal, Len(first) + 1,
                                 Len(literal) - Len(last)))

(* Spec 4.2: empty pattern matches nothing, "*" matches everything, a      *)
(* pattern without Star matches exactly, otherwise first segment is a     *)
(* prefix, last segment a suffix, interior segments in order in between.  *)
Matches(pattern, literal) ==
    LET segs  == Segments(pattern)
        first == Head(segs)
        last  == segs[Len(segs)]
    IN  CASE pattern = <<>>     -> FALSE
          [] pattern = <<Star>> -> TRUE
          [] Len(segs) = 1      -> pattern = literal
          [] OTHER ->
               /\ Len(first) + Len(last) <= Len(literal)
               /\ IsPrefix(first, literal)
               /\ IsSuffix(last, literal)
               /\ InOrder(SubSeq(segs, 2, Len(segs) - 1),
                          SubSeq(literal, Len(first) + 1,
                                 Len(literal) - Len(last)))

(* Reference: Star stands for any, possibly empty, run of symbols.        *)
RECURSIVE MatchesRef(_, _)
MatchesRef(p, s) ==
    CASE p = <<>>        -> s = <<>>
      [] Head(p) = Star  -> \/ MatchesRef(Tail(p), s)
                            \/ s # <<>> /\ MatchesRef(p, Tail(s))
      [] OTHER           -> /\ s # <<>>
                            /\ Head(s) = Head(p)
                            /\ MatchesRef(Tail(p), Tail(s))
=============================================================================
