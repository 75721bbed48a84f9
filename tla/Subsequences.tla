---------------------------- MODULE Subsequences ----------------------------
(***************************************************************************)
(* What Vec::retain and Iterator::filter leave of a sequence.              *)
(***************************************************************************)
EXTENDS Naturals, Sequences

\* The elements of seq that are in set, in their order.
Only(seq, set) ==
  LET upTo[n \in 0..Len(seq)] ==
        IF n = 0 THEN <<>>
        ELSE IF seq[n] \in set THEN Append(upTo[n - 1], seq[n])
        ELSE upTo[n - 1]
  IN  upTo[Len(seq)]

=============================================================================
