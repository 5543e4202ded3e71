----------------------------- MODULE Selection -----------------------------
(***************************************************************************)
(* The loops of the SDK that keep some elements of a slice: SelectSeq with *)
(* a set of places where that takes a test, since a proof can quantify     *)
(* over a set.                                                             *)
(***************************************************************************)
EXTENDS Integers, Sequences

\* What the loop has kept after each of its turns.
Kept(seq, places) ==
  LET kept[n \in 0 .. Len(seq)] ==
        IF n = 0 THEN <<>>
        ELSE IF n \in places THEN Append(kept[n - 1], seq[n]) ELSE kept[n - 1]
  IN kept

\* The elements of seq at these places, in their order.
Select(seq, places) == Kept(seq, places)[Len(seq)]
=============================================================================
