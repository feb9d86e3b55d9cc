---------------------------- MODULE Subsequences ----------------------------
(***************************************************************************)
(* Sequences made of the elements of a set, or of some elements of a       *)
(* sequence, in an order of theirs: what the code's sort calls and         *)
(* filtering loops return.                                                 *)
(***************************************************************************)
EXTENDS Naturals, Sequences, FiniteSets

\* The elements of S that are not after x.
UpTo(S, rank, x) == {y \in S : rank[y] <= rank[x]}

\* The elements of the finite set S in the order of their ranks: element k is
\* the one with k elements up to it.
Ordered(S, rank) ==
  [k \in 1 .. Cardinality(S) |->
     CHOOSE x \in S : Cardinality(UpTo(S, rank, x)) = k]

\* Growing(s, I)[n] is what the loop over s has kept of the first n elements
\* when it keeps those at the positions in I.
Growing(s, I) ==
  LET kept[n \in 0 .. Len(s)] ==
        IF n = 0 THEN <<>>
        ELSE IF n \in I THEN Append(kept[n - 1], s[n]) ELSE kept[n - 1]
  IN  kept

\* The elements of sequence s at the positions in I, in the order they have.
Picked(s, I) == Growing(s, I)[Len(s)]

=============================================================================
