---------------------------- MODULE Subsequences ----------------------------
(* The newest of a set of records, as a store lists them, and what a list    *)
(* keeps of its rows, in their order.                                        *)
EXTENDS Naturals, Sequences, FiniteSets

\* At most n of a set of numbers, the highest first.
Newest(S, n) == [i \in 1..(IF n < Cardinality(S) THEN n ELSE Cardinality(S)) |->
  CHOOSE r \in S : Cardinality({s \in S : s > r}) = i - 1]

\* A sequence without some values: the positions that stay, from the last one back.
Without(s, gone) ==
  LET stay == {k \in 1..Len(s) : s[k] \notin gone}
      back == Newest(stay, Cardinality(stay))
  IN  [i \in 1..Len(back) |-> s[back[Len(back) + 1 - i]]]

\* A sequence with one more value, at a place of it or at its end.
InsertedAt(s, i, x) ==
  [j \in 1..Len(s) + 1 |-> IF j < i THEN s[j] ELSE IF j = i THEN x ELSE s[j - 1]]

=============================================================================
