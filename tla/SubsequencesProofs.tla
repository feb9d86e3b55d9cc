-------------------------- MODULE SubsequencesProofs --------------------------
(***************************************************************************)
(* What Ordered and Picked return, for every set and every sequence: an    *)
(* enumeration of the elements in their order, and the only one.           *)
(***************************************************************************)
EXTENDS Subsequences, FiniteSetTheorems, SequenceTheorems, TLAPS

\* Rank tells the elements of the finite set S apart.
Ranks(S, rank) ==
  /\ IsFiniteSet(S)
  /\ \A x \in S : rank[x] \in Nat
  /\ \A x, y \in S : rank[x] = rank[y] => x = y

\* e lists the n elements of S by rising rank.
Lists(e, n, S, rank) ==
  /\ n \in Nat
  /\ e \in [1 .. n -> S]
  /\ \A x \in S : \E i \in 1 .. n : e[i] = x
  /\ \A i, j \in 1 .. n : i < j => rank[e[i]] < rank[e[j]]

----------------------------------------------------------------------------

\* More elements are up to the later one of two.
LEMMA UpToGrows ==
  ASSUME NEW S, NEW rank, Ranks(S, rank), NEW x \in S, NEW y \in S, rank[x] < rank[y]
  PROVE  Cardinality(UpTo(S, rank, x)) < Cardinality(UpTo(S, rank, y))
<1> DEFINE X == UpTo(S, rank, x)
<1> DEFINE Y == UpTo(S, rank, y)
<1>1. X \subseteq Y /\ y \in Y /\ y \notin X
  BY DEF UpTo, Ranks
<1>2. IsFiniteSet(Y)
  BY FS_Subset DEF UpTo, Ranks
<1>3. X # Y
  BY <1>1
<1>4. IsFiniteSet(X) /\ Cardinality(X) <= Cardinality(Y) /\ Cardinality(X) # Cardinality(Y)
  BY <1>1, <1>2, <1>3, FS_Subset
<1>5. Cardinality(X) \in Nat /\ Cardinality(Y) \in Nat
  BY <1>2, <1>4, FS_CardinalityType
<1> QED BY <1>4, <1>5

\* The number of elements up to one of S is between 1 and the size of S.
LEMMA UpToCounts ==
  ASSUME NEW S, NEW rank, Ranks(S, rank), NEW x \in S
  PROVE  /\ Cardinality(S) \in Nat
         /\ Cardinality(UpTo(S, rank, x)) \in 1 .. Cardinality(S)
<1> DEFINE X == UpTo(S, rank, x)
<1>1. X \subseteq S /\ x \in X
  BY DEF UpTo, Ranks
<1>2. IsFiniteSet(X) /\ Cardinality(X) <= Cardinality(S)
  BY <1>1, FS_Subset DEF Ranks
<1>3. Cardinality(X) \in Nat /\ Cardinality(S) \in Nat
  BY <1>2, FS_CardinalityType DEF Ranks
<1>4. Cardinality(X) # 0
  BY <1>1, <1>2, FS_EmptySet
<1> QED BY <1>2, <1>3, <1>4

\* Ordered lists its set.
THEOREM OrderedLists ==
  ASSUME NEW S, NEW rank, Ranks(S, rank)
  PROVE  Lists(Ordered(S, rank), Cardinality(S), S, rank)
<1> DEFINE n == Cardinality(S)
<1> DEFINE count == [x \in S |-> Cardinality(UpTo(S, rank, x))]
<1> DEFINE o == Ordered(S, rank)
<1>1. IsFiniteSet(S) /\ n \in Nat
  BY FS_CardinalityType DEF Ranks
<1>2. count \in [S -> 1 .. n]
  BY UpToCounts
<1>3. IsFiniteSet(1 .. n) /\ Cardinality(1 .. n) = n
  <2>1. n \in Int /\ 1 \in Int
    BY <1>1
  <2>2. IsFiniteSet(1 .. n) /\ Cardinality(1 .. n) = IF 1 > n THEN 0 ELSE n - 1 + 1
    BY <2>1, FS_Interval
  <2> QED BY <1>1, <2>2
<1>4. \A x, y \in S : rank[x] < rank[y] => count[x] < count[y]
  BY UpToGrows
<1>5. \A x, y \in S : count[x] = count[y] => x = y
  <2> SUFFICES ASSUME NEW x \in S, NEW y \in S, count[x] = count[y]
               PROVE  x = y
    OBVIOUS
  <2>1. count[x] \in Nat /\ count[y] \in Nat
    BY <1>2
  <2>2. ~(rank[x] < rank[y]) /\ ~(rank[y] < rank[x])
    <3> HIDE DEF count
    <3> QED BY <1>4, <2>1
  <2>3. rank[x] \in Nat /\ rank[y] \in Nat
    BY DEF Ranks
  <2> QED BY <2>2, <2>3 DEF Ranks
<1>6. \A k \in 1 .. n : \E x \in S : count[x] = k
  <2> HIDE DEF count
  <2>1. count \in Injection(S, 1 .. n)
    BY <1>2, <1>5 DEF Injection, IsInjective
  <2>2. count \in Surjection(S, 1 .. n)
    BY <1>1, <1>3, <2>1, FS_Injection
  <2> QED BY <2>2 DEF Surjection
<1>7. o = [k \in 1 .. n |-> CHOOSE x \in S : Cardinality(UpTo(S, rank, x)) = k]
  BY DEF Ordered
<1>8. \A k \in 1 .. n : o[k] \in S /\ count[o[k]] = k
  BY <1>6, <1>7
<1>9. \A x \in S : \E i \in 1 .. n : o[i] = x
  <2> SUFFICES ASSUME NEW x \in S
               PROVE  o[count[x]] = x
    BY <1>2
  <2> HIDE DEF count, o
  <2> QED BY <1>2, <1>5, <1>8
<1>10. \A i, j \in 1 .. n : i < j => rank[o[i]] < rank[o[j]]
  <2> SUFFICES ASSUME NEW i \in 1 .. n, NEW j \in 1 .. n, i < j
               PROVE  rank[o[i]] < rank[o[j]]
    OBVIOUS
  <2>1. o[i] \in S /\ o[j] \in S /\ count[o[i]] = i /\ count[o[j]] = j
    BY <1>8
  <2>2. rank[o[i]] \in Nat /\ rank[o[j]] \in Nat
    BY <2>1 DEF Ranks
  <2> HIDE DEF o, count
  <2>3. i \in Nat /\ j \in Nat
    BY <1>1
  <2>4. ~(rank[o[j]] < rank[o[i]])
    BY <1>4, <2>1, <2>3
  <2>5. rank[o[i]] # rank[o[j]]
    BY <2>1, <2>3 DEF Ranks
  <2> QED BY <2>2, <2>4, <2>5
<1>11. o \in [1 .. n -> S]
  BY <1>7, <1>8
<1> QED BY <1>1, <1>9, <1>10, <1>11 DEF Lists

\* Nothing else does.
THEOREM ListsUnique ==
  ASSUME NEW S, NEW rank, Ranks(S, rank), NEW e, NEW n, Lists(e, n, S, rank)
  PROVE  n = Cardinality(S) /\ e = Ordered(S, rank)
<1> DEFINE o == Ordered(S, rank)
<1>1. \A i, j \in 1 .. n : e[i] = e[j] => i = j
  <2> SUFFICES ASSUME NEW i \in 1 .. n, NEW j \in 1 .. n, e[i] = e[j], i # j
               PROVE  FALSE
    OBVIOUS
  <2>1. i < j \/ j < i
    BY DEF Lists
  <2>2. e[i] \in S /\ rank[e[i]] \in Nat /\ e[j] \in S /\ rank[e[j]] \in Nat
    BY DEF Lists, Ranks
  <2> QED BY <2>1, <2>2 DEF Lists
<1>2. e \in Bijection(1 .. n, S)
  BY <1>1 DEF Bijection, Injection, Surjection, IsInjective, Lists
<1>3. n = Cardinality(S)
  BY <1>2, FS_CountingElements DEF ExistsBijection, Lists
<1>4. ASSUME NEW i \in 1 .. n
      PROVE  Cardinality(UpTo(S, rank, e[i])) = i
  <2> DEFINE X == UpTo(S, rank, e[i])
  <2> DEFINE f == [j \in 1 .. i |-> e[j]]
  <2>1. i \in Nat /\ 1 .. i \subseteq 1 .. n
    BY DEF Lists
  <2>2. \A j \in 1 .. i : e[j] \in X
    <3> SUFFICES ASSUME NEW j \in 1 .. i
                 PROVE  e[j] \in S /\ rank[e[j]] <= rank[e[i]]
      BY DEF UpTo
    <3>1. e[j] \in S /\ rank[e[j]] \in Nat /\ rank[e[i]] \in Nat
      BY <2>1 DEF Lists, Ranks
    <3>2. j = i \/ j < i
      BY <2>1
    <3>3. rank[e[j]] = rank[e[i]] \/ rank[e[j]] < rank[e[i]]
      BY <2>1, <3>2 DEF Lists
    <3> QED BY <3>1, <3>3
  <2>3. \A x \in X : \E j \in 1 .. i : e[j] = x
    <3> SUFFICES ASSUME NEW x \in X
                 PROVE  \E j \in 1 .. i : e[j] = x
      OBVIOUS
    <3>1. x \in S /\ rank[x] <= rank[e[i]]
      BY DEF UpTo
    <3>2. PICK j \in 1 .. n : e[j] = x
      BY <3>1 DEF Lists
    <3>3. rank[e[j]] \in Nat /\ rank[e[i]] \in Nat
      BY DEF Lists, Ranks
    <3>4. ~(i < j)
      BY <3>1, <3>2, <3>3 DEF Lists
    <3>5. j \in 1 .. i
      BY <2>1, <3>4 DEF Lists
    <3> QED BY <3>2, <3>5
  <2>4. f \in Bijection(1 .. i, X)
    <3> HIDE DEF X
    <3>1. f \in [1 .. i -> X]
      BY <2>2
    <3>2. \A a, b \in 1 .. i : f[a] = f[b] => a = b
      BY <1>1, <2>1
    <3>3. \A x \in X : \E j \in 1 .. i : f[j] = x
      BY <2>3
    <3> HIDE DEF f
    <3> QED BY <3>1, <3>2, <3>3 DEF Bijection, Injection, Surjection, IsInjective
  <2> QED BY <2>1, <2>4, FS_CountingElements DEF ExistsBijection
<1>5. Lists(o, Cardinality(S), S, rank)
  BY OrderedLists
<1>6. ASSUME NEW i \in 1 .. n
      PROVE  e[i] = o[i]
  <2>1. e[i] \in S
    BY DEF Lists
  <2>2. \E x \in S : Cardinality(UpTo(S, rank, x)) = i
    BY <1>4, <2>1
  <2>3. o[i] \in S /\ Cardinality(UpTo(S, rank, o[i])) = i
    BY <1>3, <2>2 DEF Ordered
  <2>4. ~(rank[o[i]] < rank[e[i]]) /\ ~(rank[e[i]] < rank[o[i]])
    <3>1. Cardinality(UpTo(S, rank, e[i])) = Cardinality(UpTo(S, rank, o[i])) /\ i \in Nat
      BY <1>4, <2>3
    <3> QED BY <1>4, <2>1, <2>3, <3>1, UpToGrows
  <2>5. rank[o[i]] \in Nat /\ rank[e[i]] \in Nat
    BY <2>1, <2>3 DEF Ranks
  <2> QED BY <2>1, <2>3, <2>4, <2>5 DEF Ranks
<1>7. e \in [1 .. n -> S] /\ o \in [1 .. n -> S]
  BY <1>3, <1>5 DEF Lists
<1>8. e = o
  <2>1. e = [i \in 1 .. n |-> e[i]] /\ o = [i \in 1 .. n |-> o[i]]
    BY <1>7
  <2> QED BY <1>6, <2>1
<1> QED BY <1>3, <1>8

----------------------------------------------------------------------------
(* The same for positions.                                                 *)

\* The positions in I by rising number.
Places(I) == Ordered(I, [i \in I |-> i])

\* p lists the n positions in I by rising number.
Enumerates(p, n, I) ==
  /\ n \in Nat
  /\ p \in [1 .. n -> I]
  /\ \A i \in I : \E k \in 1 .. n : p[k] = i
  /\ \A j, k \in 1 .. n : j < k => p[j] < p[k]

\* Places enumerates every finite set of positions, and is the only one.
THEOREM PlacesEnumerate ==
  ASSUME NEW I \in SUBSET Nat, IsFiniteSet(I)
  PROVE  /\ Enumerates(Places(I), Cardinality(I), I)
         /\ \A p, n : Enumerates(p, n, I) => n = Cardinality(I) /\ p = Places(I)
<1> DEFINE rank == [i \in I |-> i]
<1>1. Ranks(I, rank)
  BY DEF Ranks
<1>2. ASSUME NEW p, NEW n
      PROVE  Lists(p, n, I, rank) <=> Enumerates(p, n, I)
  <2>1. p \in [1 .. n -> I] =>
          ((\A j, k \in 1 .. n : j < k => rank[p[j]] < rank[p[k]])
             <=> (\A j, k \in 1 .. n : j < k => p[j] < p[k]))
    OBVIOUS
  <2> QED BY <2>1 DEF Lists, Enumerates
<1>3. Lists(Places(I), Cardinality(I), I, rank)
  BY <1>1, OrderedLists DEF Places
<1>4. ASSUME NEW p, NEW n, Enumerates(p, n, I)
      PROVE  n = Cardinality(I) /\ p = Places(I)
  BY <1>1, <1>2, <1>4, ListsUnique DEF Places
<1> QED BY <1>2, <1>3, <1>4

\* The positions of a sequence are numbers, and finitely many.
LEMMA PositionsFinite ==
  ASSUME NEW T, NEW s \in Seq(T), NEW I \in SUBSET DOMAIN s
  PROVE  I \in SUBSET Nat /\ IsFiniteSet(I)
<1>1. DOMAIN s = 1 .. Len(s) /\ Len(s) \in Nat
  BY LenProperties
<1>2. IsFiniteSet(1 .. Len(s))
  BY <1>1, FS_Interval
<1> QED BY <1>1, <1>2, FS_Subset

\* One more position, behind all others.
LEMMA PlacesAppend ==
  ASSUME NEW J \in SUBSET Nat, IsFiniteSet(J), NEW n \in Nat, \A j \in J : j < n
  PROVE  LET m == Cardinality(J)
         IN  /\ Cardinality(J \cup {n}) = m + 1
             /\ \A k \in 1 .. m : Places(J \cup {n})[k] = Places(J)[k]
             /\ Places(J \cup {n})[m + 1] = n
<1> DEFINE m == Cardinality(J)
<1> DEFINE p == Places(J)
<1> DEFINE e == [k \in 1 .. m + 1 |-> IF k = m + 1 THEN n ELSE p[k]]
<1>1. Enumerates(p, m, J)
  BY PlacesEnumerate
<1>2. Enumerates(e, m + 1, J \cup {n})
  <2> HIDE DEF m, p
  <2>1. m \in Nat /\ m + 1 \in Nat
    BY <1>1 DEF Enumerates
  <2>2. \A k \in 1 .. m + 1 : k = m + 1 \/ k \in 1 .. m
    BY <2>1
  <2>3. \A k \in 1 .. m : k # m + 1 /\ p[k] \in J
    BY <1>1, <2>1 DEF Enumerates
  <2>4. e \in [1 .. m + 1 -> J \cup {n}]
    BY <2>2, <2>3
  <2>5. \A i \in J \cup {n} : \E k \in 1 .. m + 1 : e[k] = i
    <3> SUFFICES ASSUME NEW i \in J \cup {n}
                 PROVE  \E k \in 1 .. m + 1 : e[k] = i
      OBVIOUS
    <3>1. CASE i = n
      <4>1. m + 1 \in 1 .. m + 1
        BY <2>1
      <4> QED BY <3>1, <4>1
    <3>2. CASE i \in J
      <4>1. PICK k \in 1 .. m : p[k] = i
        BY <1>1, <3>2 DEF Enumerates
      <4>2. k \in 1 .. m + 1
        BY <2>1
      <4> QED BY <2>3, <4>1, <4>2
    <3> QED BY <3>1, <3>2
  <2>6. \A j, k \in 1 .. m + 1 : j < k => e[j] < e[k]
    <3> SUFFICES ASSUME NEW j \in 1 .. m + 1, NEW k \in 1 .. m + 1, j < k
                 PROVE  e[j] < e[k]
      OBVIOUS
    <3>1. j \in 1 .. m /\ e[j] = p[j] /\ p[j] \in J
      BY <2>1, <2>2, <2>3
    <3>2. CASE k = m + 1
      BY <3>1, <3>2
    <3>3. CASE k \in 1 .. m
      BY <1>1, <2>3, <3>1, <3>3 DEF Enumerates
    <3> QED BY <2>2, <3>2, <3>3
  <2> QED BY <2>1, <2>4, <2>5, <2>6 DEF Enumerates
<1>3. J \cup {n} \in SUBSET Nat /\ IsFiniteSet(J \cup {n})
  BY FS_AddElement
<1>4. m + 1 = Cardinality(J \cup {n}) /\ e = Places(J \cup {n})
  <2> HIDE DEF m, e
  <2> QED BY <1>2, <1>3, PlacesEnumerate
<1>5. \A k \in 1 .. m : k \in 1 .. m + 1 /\ k # m + 1
  BY <1>1 DEF Enumerates
<1>6. m + 1 \in 1 .. m + 1
  BY <1>1 DEF Enumerates
<1> QED BY <1>4, <1>5, <1>6

\* There is a least one among numbers.
LEMMA Least ==
  ASSUME NEW S \in SUBSET Nat, S # {}
  PROVE  \E n \in S : \A m \in S : n <= m
<1> DEFINE less == {pair \in Nat \X Nat : pair[1] < pair[2]}
<1>1. IsWellFoundedOn(less, Nat)
  BY NatLessThanWellFounded DEF OpToRel
<1>2. PICK n \in S : \A m \in S : <<m, n>> \notin less
  <2> HIDE DEF less
  <2> QED BY <1>1, WFMin
<1>3. ASSUME NEW m \in S
      PROVE  n <= m
  <2>1. n \in Nat /\ m \in Nat
    OBVIOUS
  <2>2. ~(m < n)
    BY <1>2, <2>1
  <2> QED BY <2>1, <2>2
<1> QED BY <1>3

\* What Picked is to return.
At(s, I) == [k \in 1 .. Cardinality(I) |-> s[Places(I)[k]]]

Before(I, n) == I \cap (1 .. n)

\* At has the recursion of Growing.
LEMMA AtGrows ==
  ASSUME NEW T, NEW s \in Seq(T), NEW I \in SUBSET DOMAIN s, NEW n \in 1 .. Len(s)
  PROVE  At(s, Before(I, n)) =
           IF n \in I THEN Append(At(s, Before(I, n - 1)), s[n]) ELSE At(s, Before(I, n - 1))
<1> DEFINE J == Before(I, n - 1)
<1> DEFINE m == Cardinality(J)
<1> DEFINE p == Places(J)
<1>1. n \in Nat /\ n - 1 \in Nat /\ Len(s) \in Nat
  BY LenProperties
<1>2. CASE n \notin I
  <2>1. Before(I, n) = J
    BY <1>1, <1>2 DEF Before
  <2> QED BY <1>2, <2>1
<1>3. CASE n \in I
  <2>1. Before(I, n) = J \cup {n}
    BY <1>1, <1>3 DEF Before
  <2>2. J \in SUBSET Nat /\ IsFiniteSet(J) /\ J \in SUBSET DOMAIN s
    BY PositionsFinite DEF Before
  <2>3. \A j \in J : j < n
    BY <1>1 DEF Before
  <2>4. /\ Cardinality(J \cup {n}) = m + 1
        /\ \A k \in 1 .. m : Places(J \cup {n})[k] = p[k]
        /\ Places(J \cup {n})[m + 1] = n
    BY <1>1, <2>2, <2>3, PlacesAppend
  <2>5. Enumerates(p, m, J)
    BY <2>2, PlacesEnumerate
  <2> HIDE DEF J, m, p
  <2>6. m \in Nat /\ \A k \in 1 .. m : p[k] \in DOMAIN s
    BY <2>2, <2>5 DEF Enumerates
  <2>7. \A i \in DOMAIN s : s[i] \in T
    BY ElementOfSeq, LenProperties
  <2>8. At(s, J) = [k \in 1 .. m |-> s[p[k]]]
    BY DEF At, m, p
  <2>9. At(s, J) \in Seq(T) /\ Len(At(s, J)) = m
    <3>1. At(s, J) \in [1 .. m -> T]
      BY <2>6, <2>7, <2>8
    <3> QED BY <2>6, <2>8, <3>1, IsASeq, LenProperties
  <2>10. s[n] \in T
    BY <1>3, <2>7
  <2>11. Append(At(s, J), s[n])
          = [k \in 1 .. m + 1 |-> IF k = m + 1 THEN s[n] ELSE At(s, J)[k]]
    BY <2>6, <2>9, <2>10
  <2>12. At(s, J \cup {n}) = [k \in 1 .. m + 1 |-> s[Places(J \cup {n})[k]]]
    BY <2>4 DEF At
  <2>13. \A k \in 1 .. m + 1 : s[Places(J \cup {n})[k]] = IF k = m + 1 THEN s[n] ELSE At(s, J)[k]
    <3> SUFFICES ASSUME NEW k \in 1 .. m + 1, k # m + 1
                 PROVE  s[Places(J \cup {n})[k]] = At(s, J)[k]
      BY <2>4
    <3>1. k \in 1 .. m
      BY <2>6
    <3> QED BY <2>4, <2>8, <3>1
  <2>14. At(s, J \cup {n}) = Append(At(s, J), s[n])
    BY <2>11, <2>12, <2>13
  <2> QED BY <1>3, <2>1, <2>14 DEF J
<1> QED BY <1>2, <1>3

\* The loop's recursion has a solution, so Growing is one: At is it.
LEMMA GrowingIs ==
  ASSUME NEW T, NEW s \in Seq(T), NEW I \in SUBSET DOMAIN s
  PROVE  \A n \in 0 .. Len(s) : Growing(s, I)[n] = At(s, Before(I, n))
<1> DEFINE next(f, n) ==
      IF n = 0 THEN <<>> ELSE IF n \in I THEN Append(f[n - 1], s[n]) ELSE f[n - 1]
<1> DEFINE at == [n \in 0 .. Len(s) |-> At(s, Before(I, n))]
<1> DEFINE g == Growing(s, I)
<1>1. Len(s) \in Nat
  BY LenProperties
<1>2. At(s, Before(I, 0)) = <<>>
  <2>1. Before(I, 0) = {}
    BY DEF Before
  <2>2. Cardinality({}) = 0
    BY FS_EmptySet
  <2>3. At(s, {}) \in [1 .. 0 -> T]
    BY <2>2 DEF At
  <2>4. At(s, {}) \in Seq(T) /\ Len(At(s, {})) = 0
    BY <2>3, IsASeq, LenProperties
  <2> QED BY <2>1, <2>4, EmptySeq
<1>3. \A n \in 0 .. Len(s) : at[n] = next(at, n)
  <2> SUFFICES ASSUME NEW n \in 0 .. Len(s)
               PROVE  at[n] = next(at, n)
    OBVIOUS
  <2>1. CASE n = 0
    BY <1>2, <2>1
  <2>2. CASE n # 0
    <3>1. n \in 1 .. Len(s) /\ n - 1 \in 0 .. Len(s)
      BY <1>1, <2>2
    <3> QED BY <2>2, <3>1, AtGrows
  <2> QED BY <2>1, <2>2
<1>4. at = [n \in 0 .. Len(s) |-> next(at, n)]
  BY <1>3
<1>5. g = CHOOSE f : f = [n \in 0 .. Len(s) |-> next(f, n)]
  BY DEF Growing
<1>6. g = [n \in 0 .. Len(s) |-> next(g, n)]
  <2> HIDE DEF at, next, g
  <2> QED BY <1>4, <1>5
<1> SUFFICES ASSUME \E n \in 0 .. Len(s) : g[n] # at[n]
             PROVE  FALSE
  OBVIOUS
<1> DEFINE bad == {n \in 0 .. Len(s) : g[n] # at[n]}
<1>7. PICK n \in bad : \A m \in bad : n <= m
  <2>1. bad \in SUBSET Nat /\ bad # {}
    BY <1>1
  <2> HIDE DEF bad
  <2> QED BY <2>1, Least
<1>8. n \in 0 .. Len(s) /\ g[n] # at[n]
  BY <1>7
<1>9. g[n] = next(g, n) /\ at[n] = next(at, n)
  <2> HIDE DEF g, at, next
  <2> QED BY <1>3, <1>6, <1>8
<1>10. CASE n = 0
  BY <1>8, <1>9, <1>10
<1>11. CASE n # 0
  <2>1. n - 1 \in 0 .. Len(s) /\ ~(n <= n - 1)
    BY <1>1, <1>8, <1>11
  <2>2. n - 1 \notin bad
    BY <1>7, <2>1
  <2>3. g[n - 1] = at[n - 1]
    BY <2>1, <2>2
  <2> HIDE DEF g, at
  <2> QED BY <1>8, <1>9, <2>3
<1> QED BY <1>10, <1>11

\* Picked is the last of Growing.
LEMMA PickedAt ==
  ASSUME NEW T, NEW s \in Seq(T), NEW I \in SUBSET DOMAIN s
  PROVE  Picked(s, I) = At(s, I)
<1>1. DOMAIN s = 1 .. Len(s) /\ Len(s) \in Nat
  BY LenProperties
<1>2. Before(I, Len(s)) = I
  BY <1>1 DEF Before
<1>3. Len(s) \in 0 .. Len(s)
  BY <1>1
<1> QED BY <1>2, <1>3, GrowingIs DEF Picked

\* Picked returns the elements at the positions asked for, in their order.
THEOREM PickedIs ==
  ASSUME NEW T, NEW s \in Seq(T), NEW I \in SUBSET DOMAIN s
  PROVE  /\ Picked(s, I) \in Seq(T)
         /\ Len(Picked(s, I)) = Cardinality(I)
         /\ DOMAIN Picked(s, I) = 1 .. Cardinality(I)
         /\ Enumerates(Places(I), Cardinality(I), I)
         /\ \A k \in 1 .. Cardinality(I) : Picked(s, I)[k] = s[Places(I)[k]]
<1>1. Enumerates(Places(I), Cardinality(I), I)
  BY PositionsFinite, PlacesEnumerate
<1>2. DOMAIN Places(I) = 1 .. Cardinality(I) /\ Cardinality(I) \in Nat
  BY <1>1 DEF Enumerates
<1>3. Picked(s, I) = [k \in 1 .. Cardinality(I) |-> s[Places(I)[k]]]
  BY <1>2, PickedAt DEF At
<1>4. \A k \in 1 .. Cardinality(I) : s[Places(I)[k]] \in T
  <2>1. \A i \in DOMAIN s : s[i] \in T
    BY ElementOfSeq, LenProperties
  <2> QED BY <1>1, <2>1 DEF Enumerates
<1>5. Picked(s, I) \in [1 .. Cardinality(I) -> T]
  BY <1>3, <1>4
<1>6. Picked(s, I) \in Seq(T)
  BY <1>2, <1>5, IsASeq
<1>7. Len(Picked(s, I)) = Cardinality(I)
  BY <1>2, <1>3, <1>6, LenProperties
<1> QED BY <1>1, <1>3, <1>6, <1>7

\* The elements of the result are those at the positions asked for.
COROLLARY PickedElements ==
  ASSUME NEW T, NEW s \in Seq(T), NEW I \in SUBSET DOMAIN s
  PROVE  /\ Picked(s, I) \in Seq(T)
         /\ \A k \in DOMAIN Picked(s, I) : \E i \in I : Picked(s, I)[k] = s[i]
         /\ \A i \in I : \E k \in DOMAIN Picked(s, I) : Picked(s, I)[k] = s[i]
<1> DEFINE n == Cardinality(I)
<1> DEFINE p == Places(I)
<1> DEFINE r == Picked(s, I)
<1>1. /\ r \in Seq(T) /\ DOMAIN r = 1 .. n
      /\ Enumerates(p, n, I)
      /\ \A k \in 1 .. n : r[k] = s[p[k]]
  BY PickedIs
<1> HIDE DEF n, p, r
<1>2. \A k \in 1 .. n : p[k] \in I
  BY <1>1 DEF Enumerates
<1>3. \A i \in I : \E k \in 1 .. n : p[k] = i
  BY <1>1 DEF Enumerates
<1>4. /\ \A k \in DOMAIN r : \E i \in I : r[k] = s[i]
      /\ \A i \in I : \E k \in DOMAIN r : r[k] = s[i]
  BY <1>1, <1>2, <1>3
<1> QED BY <1>1, <1>4 DEF r

\* A last element that is picked is the last of the result, and no other
\* element of the result is.
LEMMA PickedLast ==
  ASSUME NEW T, NEW s \in Seq(T), NEW I \in SUBSET DOMAIN s, Len(s) \in I
  PROVE  LET r == Picked(s, I)
         IN  /\ Len(r) \in DOMAIN r
             /\ r[Len(r)] = s[Len(s)]
             /\ \A k \in 1 .. Len(r) - 1 : \E i \in 1 .. Len(s) - 1 : r[k] = s[i]
<1> DEFINE n == Cardinality(I)
<1> DEFINE p == Places(I)
<1>1. Enumerates(p, n, I) /\ Len(Picked(s, I)) = n /\ DOMAIN Picked(s, I) = 1 .. n
  BY PickedIs
<1>2. \A k \in 1 .. n : Picked(s, I)[k] = s[p[k]]
  BY PickedIs
<1>3. DOMAIN s = 1 .. Len(s) /\ Len(s) \in Nat
  BY LenProperties
<1> HIDE DEF n, p
<1>4. PICK m \in 1 .. n : p[m] = Len(s)
  BY <1>1 DEF Enumerates
<1>5. \A k \in 1 .. n : p[k] \in 1 .. Len(s)
  BY <1>1, <1>3 DEF Enumerates
<1>6. m = n
  <2>1. n \in 1 .. n
    BY <1>1, <1>4 DEF Enumerates
  <2>2. ~(m < n)
    BY <1>1, <1>3, <1>4, <1>5, <2>1 DEF Enumerates
  <2>3. n \in Nat
    BY <1>1 DEF Enumerates
  <2> QED BY <1>4, <2>2, <2>3
<1>7. \A k \in 1 .. n - 1 : p[k] \in 1 .. Len(s) - 1
  <2> SUFFICES ASSUME NEW k \in 1 .. n - 1
               PROVE  p[k] \in 1 .. Len(s) - 1
    OBVIOUS
  <2>1. k \in 1 .. n /\ k < n
    BY <1>1 DEF Enumerates
  <2>2. p[k] < p[n]
    BY <1>1, <1>4, <1>6, <2>1 DEF Enumerates
  <2> QED BY <1>3, <1>4, <1>5, <1>6, <2>1, <2>2
<1>8. \A k \in 1 .. n - 1 : k \in 1 .. n
  BY <1>1 DEF Enumerates
<1> QED BY <1>1, <1>2, <1>4, <1>6, <1>7, <1>8

\* Picking among what was picked: the positions J of s are at positions K of
\* Picked(s, I), in the same order.
THEOREM PlacesWithin ==
  ASSUME NEW I \in SUBSET Nat, IsFiniteSet(I), NEW J \in SUBSET I
  PROVE  LET K == {k \in 1 .. Cardinality(I) : Places(I)[k] \in J}
         IN  /\ Cardinality(K) = Cardinality(J)
             /\ \A i \in 1 .. Cardinality(J) : Places(J)[i] = Places(I)[Places(K)[i]]
<1> DEFINE n == Cardinality(I)
<1> DEFINE p == Places(I)
<1> DEFINE K == {k \in 1 .. n : p[k] \in J}
<1> DEFINE m == Cardinality(K)
<1> DEFINE q == Places(K)
<1> DEFINE pq == [i \in 1 .. m |-> p[q[i]]]
<1>1. Enumerates(p, n, I)
  BY PlacesEnumerate
<1>2. IsFiniteSet(K) /\ K \in SUBSET Nat
  <2>1. IsFiniteSet(1 .. n)
    BY <1>1, FS_Interval DEF Enumerates
  <2>2. K \in SUBSET (1 .. n)
    OBVIOUS
  <2>3. IsFiniteSet(K)
    <3> HIDE DEF K, n
    <3> QED BY <2>1, <2>2, FS_Subset
  <2> QED BY <2>2, <2>3
<1>3. Enumerates(q, m, K)
  <2> HIDE DEF K
  <2> QED BY <1>2, PlacesEnumerate
<1>4. Enumerates(pq, m, J)
  <2> HIDE DEF m, q, p, n
  <2>1. m \in Nat
    BY <1>3 DEF Enumerates
  <2>2. \A i \in 1 .. m : q[i] \in 1 .. n /\ p[q[i]] \in J
    BY <1>3 DEF Enumerates
  <2>3. pq \in [1 .. m -> J]
    BY <2>2
  <2>4. \A j \in J : \E i \in 1 .. m : pq[i] = j
    <3> SUFFICES ASSUME NEW j \in J
                 PROVE  \E i \in 1 .. m : pq[i] = j
      OBVIOUS
    <3>1. PICK k \in 1 .. n : p[k] = j
      BY <1>1 DEF Enumerates
    <3>2. PICK i \in 1 .. m : q[i] = k
      BY <1>3, <3>1 DEF Enumerates
    <3> QED BY <3>1, <3>2
  <2>5. \A i, j \in 1 .. m : i < j => pq[i] < pq[j]
    BY <1>1, <1>3, <2>2 DEF Enumerates
  <2> QED BY <2>1, <2>3, <2>4, <2>5 DEF Enumerates
<1>5. J \in SUBSET Nat /\ IsFiniteSet(J)
  BY FS_Subset
<1>6. m = Cardinality(J) /\ pq = Places(J)
  <2> HIDE DEF m, pq
  <2> QED BY <1>4, <1>5, PlacesEnumerate
<1> QED BY <1>6

=============================================================================
