------------------------------- MODULE Selection -------------------------------
(***************************************************************************)
(* Array.prototype.filter: what is left of a sequence when only the        *)
(* members of a set are kept.                                              *)
(***************************************************************************)
EXTENDS Naturals, Sequences

\* What is left of the first n elements, for every n.
Kept(seq, set) ==
  LET kept[n \in 0..Len(seq)] ==
        IF n = 0 THEN <<>>
        ELSE IF seq[n] \in set THEN Append(kept[n - 1], seq[n]) ELSE kept[n - 1]
  IN kept

Only(seq, set) == Kept(seq, set)[Len(seq)]
================================================================================
