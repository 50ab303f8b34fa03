------------------------------- MODULE Lists -------------------------------
(***************************************************************************)
(* Two ways to make a list of another one, as a list comprehension does.   *)
(* SelectSeq would do for the second, but the provers do not know what it  *)
(* is.                                                                     *)
(***************************************************************************)
EXTENDS Integers, SequencesExt

IsList(s) == s \in Seq(Range(s))

Each(values, Make(_)) == [i \in DOMAIN values |-> Make(values[i])]

\* The items of s at the positions in I
Picked(s, I) == FlattenSeq([i \in DOMAIN s |-> IF i \in I THEN <<s[i]>> ELSE << >>])

=============================================================================
