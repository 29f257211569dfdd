------------------------------- MODULE Lists --------------------------------
(* slice and filter as the frontend's stores, hooks and search use them.    *)
EXTENDS Naturals, Sequences

(* slice: the first n. *)
FirstOf(seq, n) == SubSeq(seq, 1, IF Len(seq) < n THEN Len(seq) ELSE n)

(* filter: what of a sequence is not in S. *)
Without(seq, S) ==
  LET kept[n \in 0..Len(seq)] ==
        IF n = 0 THEN <<>>
        ELSE IF seq[n] \in S THEN kept[n - 1] ELSE Append(kept[n - 1], seq[n])
  IN kept[Len(seq)]
=============================================================================
