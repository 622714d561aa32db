----------------------------- MODULE Subsequences -----------------------------
(***************************************************************************)
(* Subsequences: what a comprehension of Python with an `if' makes of a    *)
(* list.  SelectSeq says the same, but the proof system knows nothing of   *)
(* it; what is proved of these definitions is in InductionLemmas.          *)
(***************************************************************************)
EXTENDS Naturals, Sequences

\* What has been picked of the elements of s at the positions I when one has
\* come as far as the i-th.
Picks(s, I) ==
  LET pick[i \in 0..Len(s)] ==
        IF i = 0 THEN <<>>
        ELSE IF i \in I THEN Append(pick[i - 1], s[i]) ELSE pick[i - 1]
  IN  pick

\* The elements of s at the positions I, in their order.
Chosen(s, I) == Picks(s, I)[Len(s)]
=============================================================================
