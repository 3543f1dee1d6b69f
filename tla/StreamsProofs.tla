---------------------------- MODULE StreamsProofs ----------------------------
(***************************************************************************)
(* What Streams promises, for every value of its constants: the safety of  *)
(* the components whose liveness MCStreams checks. Each of them has an     *)
(* inductive invariant, which its initial states satisfy and its steps     *)
(* keep; at the end they are put together. What a filter of a list keeps,  *)
(* and in which order, is at the beginning: pages of transactions and      *)
(* batches of operations go through one.                                   *)
(***************************************************************************)
EXTENDS Streams, Filtering, FiniteSetTheorems, SequenceTheorems, WellFoundedInduction, TLAPS

-----------------------------------------------------------------------------
\* Filtering a list: the places that pass are counted off in ascending order, each
\* once, because no two of them have the same rank.
LEMMA RankInRange ==
  ASSUME NEW P \in SUBSET Nat, IsFiniteSet(P), NEW i \in P
  PROVE  Rank(P, i) \in 1..Cardinality(P)
<1> DEFINE below == {j \in P : j <= i}
<1>1. IsFiniteSet(below) /\ Cardinality(below) <= Cardinality(P)
  BY FS_Subset
<1>2. Cardinality(below) \in Nat /\ Cardinality(P) \in Nat
  BY <1>1, FS_CardinalityType
<1>3. i \in below
  <2>1. i \in Nat /\ i <= i
    OBVIOUS
  <2>2. QED
    BY <2>1
<1>4. Cardinality(below) # 0
  <2> HIDE DEF below
  <2>1. QED
    BY <1>1, <1>3, FS_EmptySet
<1>5. QED
  BY <1>1, <1>2, <1>4 DEF Rank

LEMMA RankAscends ==
  ASSUME NEW P \in SUBSET Nat, IsFiniteSet(P), NEW i \in P, NEW j \in P, i < j
  PROVE  Rank(P, i) < Rank(P, j)
<1> DEFINE low == {u \in P : u <= i}
           high == {u \in P : u <= j}
<1>0. i \in Nat /\ j \in Nat /\ \A u \in P : u \in Nat
  OBVIOUS
<1>a. j <= j /\ ~(j <= i) /\ \A u \in P : u <= i => u <= j
  BY <1>0
<1>1. low \subseteq high /\ j \in high /\ j \notin low /\ high \subseteq P
  BY <1>a
<1>2. IsFiniteSet(high)
  BY <1>1, FS_Subset
<1> HIDE DEF low, high
<1>3. IsFiniteSet(low) /\ Cardinality(low) <= Cardinality(high) /\ Cardinality(low) # Cardinality(high)
  BY <1>1, <1>2, FS_Subset
<1>4. Cardinality(low) \in Nat /\ Cardinality(high) \in Nat
  BY <1>2, <1>3, FS_CardinalityType
<1>5. Cardinality(low) < Cardinality(high)
  BY <1>3, <1>4
<1>6. QED
  BY <1>5 DEF Rank, low, high

LEMMA RankIsUnique ==
  ASSUME NEW P \in SUBSET Nat, IsFiniteSet(P), NEW i \in P, NEW j \in P, Rank(P, i) = Rank(P, j)
  PROVE  i = j
<1>1. Rank(P, i) \in Nat /\ Rank(P, j) \in Nat
  BY RankInRange, FS_CardinalityType
<1>2. ~(i < j) /\ ~(j < i)
  BY <1>1, RankAscends
<1>3. QED
  BY <1>2

LEMMA RankIsTaken ==
  ASSUME NEW P \in SUBSET Nat, IsFiniteSet(P), NEW k \in 1..Cardinality(P)
  PROVE  \E i \in P : Rank(P, i) = k
<1> DEFINE n == Cardinality(P)
           rank == [i \in P |-> Rank(P, i)]
<1>1. n \in Nat
  BY FS_CardinalityType
<1>2. rank \in [P -> 1..n]
  BY RankInRange
<1>3. \A i, j \in P : rank[i] = rank[j] => i = j
  BY RankIsUnique
<1>4. rank \in Injection(P, 1..n)
  <2> HIDE DEF rank, n
  <2>1. QED
    BY <1>2, <1>3 DEF Injection, IsInjective
<1>5. IsFiniteSet(1..n) /\ Cardinality(1..n) = n
  BY <1>1, FS_Interval
<1>6. rank \in Surjection(P, 1..n)
  <2> HIDE DEF rank
  <2>1. QED
    BY <1>4, <1>5, FS_Injection
<1>7. \E i \in P : rank[i] = k
  <2> HIDE DEF rank
  <2>1. QED
    BY <1>6 DEF Surjection
<1>8. QED
  BY <1>7

\* The k-th place is the one with rank k.
LEMMA PlacesInOrder ==
  ASSUME NEW P \in SUBSET Nat, IsFiniteSet(P)
  PROVE  /\ Cardinality(P) \in Nat
         /\ DOMAIN InOrder(P) = 1..Cardinality(P)
         /\ \A k \in 1..Cardinality(P) : InOrder(P)[k] \in P /\ Rank(P, InOrder(P)[k]) = k
         /\ \A i \in P : Rank(P, i) \in 1..Cardinality(P) /\ InOrder(P)[Rank(P, i)] = i
<1>1. Cardinality(P) \in Nat
  BY FS_CardinalityType
<1>2. DOMAIN InOrder(P) = 1..Cardinality(P)
  BY DEF InOrder
<1>3. ASSUME NEW k \in 1..Cardinality(P)
      PROVE  InOrder(P)[k] \in P /\ Rank(P, InOrder(P)[k]) = k
  <2>1. InOrder(P)[k] = CHOOSE i \in P : Rank(P, i) = k
    BY DEF InOrder
  <2>2. QED
    BY <2>1, RankIsTaken
<1>4. ASSUME NEW i \in P
      PROVE  Rank(P, i) \in 1..Cardinality(P) /\ InOrder(P)[Rank(P, i)] = i
  <2>1. Rank(P, i) \in 1..Cardinality(P)
    BY RankInRange
  <2> DEFINE k == Rank(P, i)
             j == InOrder(P)[k]
  <2>2. j \in P /\ Rank(P, j) = k
    BY <2>1, <1>3
  <2> HIDE DEF j
  <2>3. j = i
    BY <2>2, RankIsUnique
  <2>4. QED
    BY <2>1, <2>3 DEF j
<1>5. QED
  BY <1>1, <1>2, <1>3, <1>4

Places(list, kept) == {i \in DOMAIN list : list[i] \in kept}

LEMMA UpTo == ASSUME NEW n \in Nat PROVE IsFiniteSet(1..n) /\ Cardinality(1..n) = n
BY FS_Interval

LEMMA PlacesAreFinite ==
  ASSUME NEW S, NEW list \in Seq(S), NEW kept
  PROVE  /\ Places(list, kept) \in SUBSET Nat /\ IsFiniteSet(Places(list, kept))
         /\ Places(list, kept) \subseteq 1..Len(list)
         /\ Cardinality(Places(list, kept)) \in 0..Len(list)
<1>1. Places(list, kept) \subseteq 1..Len(list) /\ Len(list) \in Nat
  BY DEF Places
<1>2. IsFiniteSet(1..Len(list)) /\ Cardinality(1..Len(list)) = Len(list)
  BY <1>1, UpTo
<1>3. IsFiniteSet(Places(list, kept)) /\ Cardinality(Places(list, kept)) <= Len(list)
  BY <1>1, <1>2, FS_Subset
<1>4. QED
  BY <1>1, <1>3, FS_CardinalityType

\* What is filtered keeps its elements and no other, and none of its places twice.
LEMMA FilteredElements ==
  ASSUME NEW S, NEW list \in Seq(S), NEW kept
  PROVE  /\ Filtered(list, kept) \in Seq(S \cap kept)
         /\ Len(Filtered(list, kept)) = Cardinality(Places(list, kept))
         /\ Len(Filtered(list, kept)) <= Len(list)
<1> DEFINE P == Places(list, kept)
           n == Cardinality(P)
           f == [k \in 1..n |-> list[InOrder(P)[k]]]
<1>1. P \in SUBSET Nat /\ IsFiniteSet(P) /\ n \in 0..Len(list) /\ Len(list) \in Nat
  BY PlacesAreFinite
<1>2. \A i \in P : list[i] \in S \cap kept
  BY DEF Places
<1> HIDE DEF P
<1>3. n \in Nat /\ n <= Len(list)
  BY <1>1
<1>4. \A k \in 1..n : InOrder(P)[k] \in P
  BY <1>1, PlacesInOrder
<1> HIDE DEF n
<1>5. f \in Seq(S \cap kept) /\ Len(f) = n
  BY <1>2, <1>3, <1>4
<1>6. f = Filtered(list, kept)
  BY DEF Filtered, InOrder, Places, P, n
<1> HIDE DEF f
<1>7. QED
  BY <1>3, <1>5, <1>6 DEF P, n

LEMMA FilteredAt ==
  ASSUME NEW S, NEW list \in Seq(S), NEW kept, NEW k \in 1..Cardinality(Places(list, kept))
  PROVE  /\ k \in DOMAIN Filtered(list, kept)
         /\ InOrder(Places(list, kept))[k] \in Places(list, kept)
         /\ Filtered(list, kept)[k] = list[InOrder(Places(list, kept))[k]]
<1> DEFINE P == Places(list, kept)
<1>1. P \in SUBSET Nat /\ IsFiniteSet(P)
  BY PlacesAreFinite
<1> HIDE DEF P
<1>2. DOMAIN InOrder(P) = 1..Cardinality(P) /\ InOrder(P)[k] \in P
  BY <1>1, PlacesInOrder DEF P
<1>3. Filtered(list, kept) = [l \in DOMAIN InOrder(P) |-> list[InOrder(P)[l]]]
  BY DEF Filtered, P, Places
<1>4. k \in DOMAIN Filtered(list, kept) /\ Filtered(list, kept)[k] = list[InOrder(P)[k]]
  BY <1>2, <1>3 DEF P
<1>5. QED
  BY <1>2, <1>4 DEF P

LEMMA FilteredIsComplete ==
  ASSUME NEW S, NEW list \in Seq(S), NEW kept, NEW i \in Places(list, kept)
  PROVE  /\ Rank(Places(list, kept), i) \in DOMAIN Filtered(list, kept)
         /\ Filtered(list, kept)[Rank(Places(list, kept), i)] = list[i]
<1> DEFINE P == Places(list, kept)
           f == Filtered(list, kept)
<1>1. P \in SUBSET Nat /\ IsFiniteSet(P) /\ i \in P
  BY PlacesAreFinite
<1> HIDE DEF P, f
<1>2. \A k \in 1..Cardinality(P) : k \in DOMAIN f /\ f[k] = list[InOrder(P)[k]]
  BY FilteredAt DEF P, f
<1>3. Rank(P, i) \in 1..Cardinality(P) /\ InOrder(P)[Rank(P, i)] = i
  BY <1>1, PlacesInOrder
<1>4. Rank(P, i) \in DOMAIN f /\ f[Rank(P, i)] = list[i]
  BY <1>2, <1>3
<1>5. QED
  BY <1>4 DEF P, f

\* The places of a list that is appended are counted on.
LEMMA Shifted ==
  ASSUME NEW U \in SUBSET Nat, IsFiniteSet(U), NEW n \in Nat
  PROVE  LET T == {n + u : u \in U} IN IsFiniteSet(T) /\ Cardinality(T) = Cardinality(U)
<1> DEFINE T == {n + u : u \in U}
           f == [u \in U |-> n + u]
<1>1. f \in [U -> T] /\ \A u, v \in U : f[u] = f[v] => u = v
  OBVIOUS
<1>2. \A t \in T : \E u \in U : f[u] = t
  OBVIOUS
<1>3. f \in Bijection(U, T)
  <2> HIDE DEF f, T
  <2>1. QED
    BY <1>1, <1>2 DEF Bijection, Injection, Surjection, IsInjective
<1>4. ExistsBijection(U, T)
  BY <1>3 DEF ExistsBijection
<1>5. QED
  <2> HIDE DEF T, f
  <2>1. IsFiniteSet(T) /\ Cardinality(T) = Cardinality(U)
    BY <1>4, FS_Bijection
  <2>2. QED
    BY <2>1 DEF T

LEMMA DisjointUnion ==
  ASSUME NEW A, IsFiniteSet(A), NEW B, IsFiniteSet(B), A \cap B = {}
  PROVE  IsFiniteSet(A \cup B) /\ Cardinality(A \cup B) = Cardinality(A) + Cardinality(B)
<1>1. Cardinality(A) \in Nat /\ Cardinality(B) \in Nat /\ Cardinality(A \cap B) = 0
  BY FS_CardinalityType, FS_EmptySet
<1>2. /\ IsFiniteSet(A \cup B)
      /\ Cardinality(A \cup B) = Cardinality(A) + Cardinality(B) - Cardinality(A \cap B)
  BY FS_Union
<1>3. QED
  BY <1>1, <1>2

LEMMA FilteredConcat ==
  ASSUME NEW S, NEW s \in Seq(S), NEW t \in Seq(S), NEW kept
  PROVE  Filtered(s \o t, kept) = Filtered(s, kept) \o Filtered(t, kept)
<1> DEFINE n == Len(s)
           P == Places(s, kept)
           Q == Places(t, kept)
           R == Places(s \o t, kept)
           Beyond(U) == {n + u : u \in U}
<1>1. n \in Nat /\ Len(t) \in Nat /\ s \o t \in Seq(S) /\ Len(s \o t) = n + Len(t)
  BY ConcatProperties
<1>2. /\ P \in SUBSET Nat /\ IsFiniteSet(P) /\ P \subseteq 1..n
      /\ Q \in SUBSET Nat /\ IsFiniteSet(Q) /\ Q \subseteq 1..Len(t)
      /\ R \in SUBSET Nat /\ IsFiniteSet(R) /\ R \subseteq 1..(n + Len(t))
  BY <1>1, PlacesAreFinite
<1>3. \A i \in 1..(n + Len(t)) : (s \o t)[i] = IF i <= n THEN s[i] ELSE t[i - n]
  BY ConcatProperties
<1>4. \A i : i \in R <=> i \in P \/ i \in Beyond(Q)
  <2>1. ASSUME NEW i, i \in P PROVE i \in R
    BY <2>1, <1>1, <1>2, <1>3 DEF Places
  <2>2. ASSUME NEW u \in Q PROVE n + u \in R
    <3>1. u \in 1..Len(t) /\ t[u] \in kept
      BY <1>2 DEF Places
    <3>2. n + u \in 1..(n + Len(t)) /\ ~(n + u <= n) /\ (n + u) - n = u
      BY <1>1, <3>1
    <3>3. (s \o t)[n + u] = t[u]
      BY <1>3, <3>2
    <3>4. QED
      BY <1>1, <3>1, <3>2, <3>3 DEF Places
  <2>3. ASSUME NEW i, i \in R PROVE i \in P \/ i \in Beyond(Q)
    <3>1. i \in 1..(n + Len(t)) /\ (s \o t)[i] \in kept
      BY <2>3, <1>2 DEF Places
    <3>2. CASE i <= n
      BY <3>1, <3>2, <1>1, <1>3 DEF Places
    <3>3. CASE ~(i <= n)
      <4>1. i - n \in 1..Len(t) /\ i = n + (i - n) /\ t[i - n] \in kept
        BY <3>1, <3>3, <1>1, <1>3
      <4>2. i - n \in Q
        BY <4>1 DEF Places
      <4>3. QED
        BY <4>1, <4>2
    <3>4. QED
      BY <3>2, <3>3
  <2>4. QED
    BY <2>1, <2>2, <2>3
<1>5. R = P \cup Beyond(Q)
  BY <1>4
<1>6. \A U \in SUBSET Q : /\ IsFiniteSet(Beyond(U)) /\ Cardinality(Beyond(U)) = Cardinality(U)
                          /\ P \cap Beyond(U) = {}
  <2> SUFFICES ASSUME NEW U \in SUBSET Q
               PROVE  /\ IsFiniteSet(Beyond(U)) /\ Cardinality(Beyond(U)) = Cardinality(U)
                      /\ P \cap Beyond(U) = {}
    OBVIOUS
  <2>1. U \in SUBSET Nat /\ IsFiniteSet(U)
    BY <1>2, FS_Subset
  <2>2. \A u \in U : u \in Nat /\ u >= 1
    BY <1>2
  <2> HIDE DEF n, P, Q, R
  <2>3. \A i \in P : i \in Nat /\ i <= n
    BY <1>1, <1>2
  <2>4. P \cap Beyond(U) = {}
    BY <2>2, <2>3, <1>1
  <2>5. QED
    BY <2>1, <2>4, <1>1, Shifted
<1> HIDE DEF n, P, Q, R
<1>7. Cardinality(R) = Cardinality(P) + Cardinality(Q)
  <2> HIDE DEF Beyond
  <2>1. /\ IsFiniteSet(Beyond(Q)) /\ Cardinality(Beyond(Q)) = Cardinality(Q)
        /\ P \cap Beyond(Q) = {}
    BY <1>6
  <2>2. Cardinality(P \cup Beyond(Q)) = Cardinality(P) + Cardinality(Beyond(Q))
    BY <2>1, <1>2, DisjointUnion
  <2>3. QED
    BY <2>1, <2>2, <1>5
<1>8. Cardinality(P) \in Nat /\ Cardinality(Q) \in Nat
  BY <1>2, FS_CardinalityType
<1>9. ASSUME NEW k \in 1..Cardinality(P) PROVE InOrder(R)[k] = InOrder(P)[k]
  <2> DEFINE i == InOrder(P)[k]
  <2>1. i \in P /\ Rank(P, i) = k
    BY <1>2, PlacesInOrder
  <2> HIDE DEF i
  <2>2. \A u \in Q : ~(n + u <= i)
    BY <1>1, <1>2, <2>1
  <2>3. {j \in R : j <= i} = {j \in P : j <= i}
    BY <1>5, <2>2
  <2>4. Rank(R, i) = k /\ i \in R
    BY <2>1, <2>3, <1>5 DEF Rank
  <2>5. QED
    BY <1>2, <2>4, PlacesInOrder DEF i
<1>10. ASSUME NEW k \in 1..Cardinality(Q) PROVE InOrder(R)[Cardinality(P) + k] = n + InOrder(Q)[k]
  <2> DEFINE j == InOrder(Q)[k]
             U == {u \in Q : u <= j}
  <2>1. j \in Q /\ Cardinality(U) = k
    BY <1>2, PlacesInOrder DEF Rank
  <2> HIDE DEF j
  <2>a. j \in Nat /\ n \in Nat /\ (\A u \in Q : u \in Nat) /\ \A i \in P : i \in Nat /\ i <= n
    BY <1>1, <1>2, <2>1
  <2>2. \A u \in Q : u <= j <=> n + u <= n + j
    BY <2>a
  <2>3. \A i \in P : i <= n + j
    BY <2>a
  <2>4. {i \in R : i <= n + j} = P \cup Beyond(U)
    BY <1>5, <2>2, <2>3
  <2>5. U \in SUBSET Q
    OBVIOUS
  <2> HIDE DEF U, Beyond
  <2>6. Cardinality(P \cup Beyond(U)) = Cardinality(P) + k
    BY <1>2, <1>6, <2>1, <2>5, DisjointUnion
  <2>7. n + j \in R
    BY <2>1, <1>5 DEF Beyond
  <2>8. Rank(R, n + j) = Cardinality(P) + k
    BY <2>4, <2>6 DEF Rank
  <2>9. InOrder(R)[Rank(R, n + j)] = n + j
    BY <1>2, <2>7, PlacesInOrder
  <2>10. QED
    BY <2>8, <2>9 DEF j
<1> DEFINE f == Filtered(s, kept)
           g == Filtered(t, kept)
           h == Filtered(s \o t, kept)
<1> HIDE DEF f, g, h, Beyond
<1>11. /\ f \in Seq(S) /\ Len(f) = Cardinality(P)
       /\ \A k \in 1..Cardinality(P) : InOrder(P)[k] \in P /\ f[k] = s[InOrder(P)[k]]
  <2>1. f \in Seq(S \cap kept) /\ Len(f) = Cardinality(P)
    BY FilteredElements DEF P, f
  <2>2. f \in Seq(S)
    BY <2>1
  <2>3. \A k \in 1..Cardinality(P) : InOrder(P)[k] \in P /\ f[k] = s[InOrder(P)[k]]
    BY FilteredAt DEF P, f
  <2>4. QED
    BY <2>1, <2>2, <2>3
<1>12. /\ g \in Seq(S) /\ Len(g) = Cardinality(Q)
       /\ \A k \in 1..Cardinality(Q) : InOrder(Q)[k] \in Q /\ g[k] = t[InOrder(Q)[k]]
  <2>1. g \in Seq(S \cap kept) /\ Len(g) = Cardinality(Q)
    BY FilteredElements DEF Q, g
  <2>2. g \in Seq(S)
    BY <2>1
  <2>3. \A k \in 1..Cardinality(Q) : InOrder(Q)[k] \in Q /\ g[k] = t[InOrder(Q)[k]]
    BY FilteredAt DEF Q, g
  <2>4. QED
    BY <2>1, <2>2, <2>3
<1>13. /\ h \in Seq(S) /\ Len(h) = Cardinality(R)
       /\ \A k \in 1..Cardinality(R) : InOrder(R)[k] \in R /\ h[k] = (s \o t)[InOrder(R)[k]]
  <2> DEFINE c == s \o t
  <2>0. c \in Seq(S)
    BY <1>1
  <2> HIDE DEF c
  <2>1. h \in Seq(S \cap kept) /\ Len(h) = Cardinality(R)
    <3>1. Filtered(c, kept) \in Seq(S \cap kept) /\ Len(Filtered(c, kept)) = Cardinality(Places(c, kept))
      BY <2>0, FilteredElements
    <3>2. QED
      BY <3>1 DEF R, h, c
  <2>2. h \in Seq(S)
    BY <2>1
  <2>3. \A k \in 1..Cardinality(R) : InOrder(R)[k] \in R /\ h[k] = c[InOrder(R)[k]]
    <3>1. \A k \in 1..Cardinality(Places(c, kept)) :
             /\ InOrder(Places(c, kept))[k] \in Places(c, kept)
             /\ Filtered(c, kept)[k] = c[InOrder(Places(c, kept))[k]]
      BY <2>0, FilteredAt
    <3>2. QED
      BY <3>1 DEF R, h, c
  <2>4. QED
    BY <2>1, <2>2, <2>3 DEF c
<1>14. /\ f \o g \in Seq(S) /\ Len(f \o g) = Cardinality(P) + Cardinality(Q)
       /\ \A k \in 1..(Cardinality(P) + Cardinality(Q)) :
            (f \o g)[k] = IF k <= Cardinality(P) THEN f[k] ELSE g[k - Cardinality(P)]
  <2>1. /\ f \o g \in Seq(S) /\ Len(f \o g) = Len(f) + Len(g)
        /\ \A k \in 1..(Len(f) + Len(g)) : (f \o g)[k] = IF k <= Len(f) THEN f[k] ELSE g[k - Len(f)]
    BY <1>11, <1>12, ConcatProperties
  <2>2. QED
    BY <2>1, <1>11, <1>12
<1>15. ASSUME NEW k \in 1..(Cardinality(P) + Cardinality(Q)) PROVE h[k] = (f \o g)[k]
  <2>1. CASE k <= Cardinality(P)
    <3>1. k \in 1..Cardinality(P) /\ k \in 1..Cardinality(R)
      BY <2>1, <1>7, <1>8
    <3>2. InOrder(P)[k] \in 1..n /\ InOrder(R)[k] = InOrder(P)[k]
      BY <3>1, <1>2, <1>9, <1>11
    <3>3. (s \o t)[InOrder(P)[k]] = s[InOrder(P)[k]]
      BY <3>2, <1>1, <1>3
    <3>4. QED
      BY <2>1, <3>1, <3>2, <3>3, <1>11, <1>13, <1>14
  <2>2. CASE ~(k <= Cardinality(P))
    <3> DEFINE l == k - Cardinality(P)
    <3>1. l \in 1..Cardinality(Q) /\ k \in 1..Cardinality(R) /\ k = Cardinality(P) + l
      BY <2>2, <1>7, <1>8
    <3> HIDE DEF l
    <3>2. InOrder(Q)[l] \in 1..Len(t) /\ InOrder(R)[k] = n + InOrder(Q)[l]
      BY <3>1, <1>2, <1>10, <1>12
    <3>3. (s \o t)[n + InOrder(Q)[l]] = t[InOrder(Q)[l]]
      BY <3>2, <1>1, <1>3
    <3>4. QED
      BY <2>2, <3>1, <3>2, <3>3, <1>12, <1>13, <1>14 DEF l
  <2>3. QED
    BY <2>1, <2>2
<1>16. h = f \o g
  BY <1>7, <1>13, <1>14, <1>15, SeqEqual
<1>17. QED
  BY <1>16 DEF f, g, h

-----------------------------------------------------------------------------
\* The archive of events (EventArchival): a flush that looks up has something to look
\* up, one that stores has looked up everything, and an idle one holds nothing.
FlushesFit ==
  \A f \in Flushes :
    /\ flushes[f].stage = "checking" => flushes[f].left # <<>>
    /\ flushes[f].stage # "checking" => flushes[f].left = <<>>
    /\ flushes[f].stage = "idle" => flushes[f].kept = {}

ArchiveInv ==
  /\ Archive!TypeOK
  /\ FlushesFit
  /\ Archive!NothingLost
  /\ Archive!BatchHasTimer

Holds(flush) == Archive!InBatch(flush.left) \cup flush.kept

FlushType == [left : Archive!Batches, kept : SUBSET Events, stage : {"idle", "checking", "storing"}]

LEMMA BatchesAreSequences ==
  /\ Archive!Batches \subseteq Seq(Events)
  /\ \A s \in Archive!Batches : Len(s) \in 0..(BatchSize - 1 + MaxAtOnce)
  /\ \A s \in Seq(Events) : Len(s) <= BatchSize - 1 + MaxAtOnce => s \in Archive!Batches
<1>1. BatchSize - 1 + MaxAtOnce \in Nat
  BY ArchiveAssumption
<1> DEFINE most == BatchSize - 1 + MaxAtOnce
<1>2. Archive!Batches = UNION {[1..n -> Events] : n \in 0..most}
  BY DEF Archive!Batches, Archive!SequencesOf
<1>3. most \in Nat
  BY <1>1
<1> HIDE DEF most
<1>4. ASSUME NEW s \in Archive!Batches PROVE s \in Seq(Events) /\ Len(s) \in 0..most
  <2>1. PICK n \in 0..most : s \in [1..n -> Events]
    BY <1>2
  <2>2. s \in Seq(Events) /\ Len(s) = n
    BY <2>1, <1>3
  <2>3. QED
    BY <2>1, <2>2
<1>5. ASSUME NEW s \in Seq(Events), Len(s) <= most PROVE s \in Archive!Batches
  <2>1. Len(s) \in 0..most /\ s \in [1..Len(s) -> Events]
    BY <1>3, <1>5
  <2>2. QED
    BY <1>2, <2>1
<1>6. QED
  BY <1>4, <1>5 DEF most

LEMMA NoFlushFits == Archive!NoFlush \in FlushType /\ Holds(Archive!NoFlush) = {}
<1>1. <<>> \in Archive!Batches
  <2>1. <<>> \in Seq(Events) /\ Len(<<>>) = 0 /\ 0 <= BatchSize - 1 + MaxAtOnce
    BY ArchiveAssumption
  <2>2. QED
    BY <2>1, BatchesAreSequences
<1>2. Archive!InBatch(<<>>) = {}
  BY DEF Archive!InBatch
<1>3. QED
  BY <1>1, <1>2 DEF Archive!NoFlush, FlushType, Holds

LEMMA ArchiveInit == Archive!Init => ArchiveInv
<1> SUFFICES ASSUME Archive!Init PROVE ArchiveInv
  OBVIOUS
<1>1. pendingBatch = <<>> /\ pendingBatch \in Seq(Events) /\ Len(pendingBatch) < BatchSize
  BY ArchiveAssumption, EmptySeq DEF Archive!Init
<1>2. flushes \in [Flushes -> FlushType] /\ \A f \in Flushes : flushes[f] = Archive!NoFlush
  BY NoFlushFits DEF Archive!Init
<1>3. delivered \in [Events -> 0..MaxDeliveries] /\ \A e \in Events : ~(delivered[e] > 0)
  BY ArchiveAssumption DEF Archive!Init
<1>4. Archive!TypeOK
  BY <1>1, <1>2, <1>3 DEF Archive!Init, Archive!TypeOK, FlushType
<1>5. FlushesFit
  BY <1>2 DEF FlushesFit, Archive!NoFlush
<1>6. QED
  BY <1>1, <1>3, <1>4, <1>5 DEF ArchiveInv, Archive!NothingLost, Archive!BatchHasTimer

\* What a batch of both holds, and what is left of one after its first event.
LEMMA BothBatches ==
  ASSUME NEW s \in Seq(Events), NEW t \in Seq(Events)
  PROVE  Archive!InBatch(s \o t) = Archive!InBatch(s) \cup Archive!InBatch(t)
<1> DEFINE m == Len(s)
           n == Len(t)
           u == s \o t
<1>1. m \in Nat /\ n \in Nat /\ DOMAIN s = 1..m /\ DOMAIN t = 1..n
  OBVIOUS
<1>2. /\ u \in Seq(Events) /\ Len(u) = m + n /\ DOMAIN u = 1..(m + n)
      /\ \A i \in 1..(m + n) : u[i] = IF i <= m THEN s[i] ELSE t[i - m]
  BY ConcatProperties, LenProperties
<1> HIDE DEF m, n, u
<1>3. ASSUME NEW i \in 1..m PROVE s[i] \in Archive!InBatch(u)
  <2>1. i \in 1..(m + n) /\ u[i] = s[i]
    BY <1>1, <1>2
  <2>2. QED
    BY <2>1, <1>2 DEF Archive!InBatch
<1>4. ASSUME NEW i \in 1..n PROVE t[i] \in Archive!InBatch(u)
  <2>1. m + i \in 1..(m + n) /\ ~(m + i <= m) /\ (m + i) - m = i
    BY <1>1
  <2>2. u[m + i] = t[i]
    BY <2>1, <1>2
  <2>3. QED
    BY <2>1, <2>2, <1>2 DEF Archive!InBatch
<1>5. ASSUME NEW i \in 1..(m + n) PROVE u[i] \in Archive!InBatch(s) \cup Archive!InBatch(t)
  <2>1. CASE i <= m
    <3>1. i \in DOMAIN s /\ u[i] = s[i]
      BY <2>1, <1>1, <1>2
    <3>2. QED
      BY <3>1 DEF Archive!InBatch
  <2>2. CASE ~(i <= m)
    <3>1. i - m \in 1..n
      BY <2>2, <1>1
    <3>2. QED
      BY <2>2, <3>1, <1>1, <1>2 DEF Archive!InBatch
  <2>3. QED
    BY <2>1, <2>2
<1>6. Archive!InBatch(u) = Archive!InBatch(s) \cup Archive!InBatch(t)
  BY <1>1, <1>2, <1>3, <1>4, <1>5 DEF Archive!InBatch
<1>7. QED
  BY <1>6 DEF u

LEMMA FirstOfBatch ==
  ASSUME NEW s \in Seq(Events), s # <<>>
  PROVE  /\ Head(s) \in Events /\ Tail(s) \in Seq(Events) /\ Len(Tail(s)) = Len(s) - 1
         /\ Archive!InBatch(s) \subseteq {Head(s)} \cup Archive!InBatch(Tail(s))
<1>1. /\ Head(s) \in Events /\ Tail(s) \in Seq(Events) /\ Len(Tail(s)) = Len(s) - 1
      /\ \A i \in 1..Len(Tail(s)) : Tail(s)[i] = s[i + 1]
  BY HeadTailProperties
<1>2. Head(s) = s[1]
  OBVIOUS
<1>3. ASSUME NEW i \in DOMAIN s, i # 1 PROVE s[i] \in Archive!InBatch(Tail(s))
  <2> DEFINE t == Tail(s)
  <2>1. i - 1 \in 1..Len(t) /\ (i - 1) + 1 = i
    BY <1>1, <1>3
  <2>2. i - 1 \in DOMAIN t /\ t[i - 1] = s[i]
    BY <1>1, <2>1
  <2> HIDE DEF t
  <2>3. s[i] \in Archive!InBatch(t)
    BY <2>2 DEF Archive!InBatch
  <2>4. QED
    BY <2>3 DEF t
<1>4. Archive!InBatch(s) \subseteq {Head(s)} \cup Archive!InBatch(Tail(s))
  <2> SUFFICES ASSUME NEW i \in DOMAIN s PROVE s[i] \in {Head(s)} \cup Archive!InBatch(Tail(s))
    BY DEF Archive!InBatch
  <2>1. QED
    BY <1>2, <1>3
<1>5. QED
  BY <1>1, <1>4

LEMMA ArchiveCardinality == \A S : Archive!Cardinality(S) = Cardinality(S)
BY DEF Archive!Cardinality, Cardinality

LEMMA Occurrences ==
  ASSUME NEW s \in Seq(Events), NEW e
  PROVE  /\ Archive!Occurs(e, s) \in Nat
         /\ Archive!Occurs(e, s) > 0 => e \in Archive!InBatch(s)
<1> DEFINE at == {i \in DOMAIN s : s[i] = e}
<1>1. Archive!Occurs(e, s) = Cardinality(at)
  BY ArchiveCardinality DEF Archive!Occurs
<1>2. IsFiniteSet(at)
  <2>1. at \subseteq 1..Len(s) /\ Len(s) \in Nat
    OBVIOUS
  <2> HIDE DEF at
  <2>2. QED
    BY <2>1, UpTo, FS_Subset
<1>3. at # {} => e \in Archive!InBatch(s)
  BY DEF Archive!InBatch
<1> HIDE DEF at
<1>4. Cardinality(at) \in Nat /\ (Cardinality(at) > 0 => at # {})
  BY <1>2, FS_CardinalityType, FS_EmptySet
<1>5. QED
  BY <1>1, <1>3, <1>4

\* Whatever one flush is replaced by, what it held must be held or be accounted for.
LEMMA FlushReplaced ==
  ASSUME ArchiveInv, NEW f \in Flushes, NEW new \in FlushType,
         flushes' = [flushes EXCEPT ![f] = new],
         UNCHANGED <<pendingBatch, batchTimer, delivered>>,
         stored' \subseteq Events, reported' \subseteq Events, abandoned' \subseteq Events,
         stored \subseteq stored', reported \subseteq reported', abandoned \subseteq abandoned',
         Holds(flushes[f]) \subseteq Holds(new) \cup stored' \cup reported' \cup abandoned',
         new.stage = "checking" => new.left # <<>>,
         new.stage # "checking" => new.left = <<>>,
         new.stage = "idle" => new.kept = {}
  PROVE  ArchiveInv'
<1>1. flushes \in [Flushes -> FlushType]
  BY DEF ArchiveInv, Archive!TypeOK, FlushType
<1>2. /\ flushes' \in [Flushes -> FlushType] /\ flushes'[f] = new
      /\ \A g \in Flushes : g # f => flushes'[g] = flushes[g]
  BY <1>1
<1>3. Archive!TypeOK'
  BY <1>2 DEF ArchiveInv, Archive!TypeOK, FlushType
<1>4. FlushesFit'
  BY <1>2 DEF ArchiveInv, FlushesFit
<1>5. ASSUME NEW e \in Events, delivered'[e] > 0
      PROVE  Archive!UnderWay(e)' \/ e \in stored' \cup reported' \cup abandoned'
  <2>1. Archive!UnderWay(e) \/ e \in stored \cup reported \cup abandoned
    BY <1>5 DEF ArchiveInv, Archive!NothingLost
  <2>2. CASE e \in stored \cup reported \cup abandoned
    BY <2>2
  <2>3. CASE e \in Archive!InBatch(pendingBatch)
    BY <2>3 DEF Archive!UnderWay, Archive!InBatch
  <2>4. ASSUME NEW g \in Flushes, e \in Holds(flushes[g])
        PROVE  Archive!UnderWay(e)' \/ e \in stored' \cup reported' \cup abandoned'
    <3>1. e \in Holds(flushes'[g]) \/ e \in stored' \cup reported' \cup abandoned'
      BY <2>4, <1>2
    <3>2. QED
      BY <3>1 DEF Archive!UnderWay, Holds, Archive!InBatch
  <2>5. QED
    BY <2>1, <2>2, <2>3, <2>4 DEF Archive!UnderWay, Holds
<1>6. Archive!NothingLost'
  BY <1>5 DEF Archive!NothingLost
<1>7. QED
  BY <1>3, <1>4, <1>6 DEF ArchiveInv, Archive!BatchHasTimer

\* A batch that holds everything that waited goes into an idle flush.
LEMMA BatchFlushed ==
  ASSUME ArchiveInv, NEW f \in Flushes, NEW batch \in Archive!Batches, batch # <<>>,
         Archive!FlushBatch(f, batch),
         Archive!InBatch(pendingBatch) \subseteq Archive!InBatch(batch),
         \A e \in Events : delivered'[e] > 0 => delivered[e] > 0 \/ e \in Archive!InBatch(batch),
         delivered' \in [Events -> 0..MaxDeliveries],
         UNCHANGED <<stored, reported, abandoned>>
  PROVE  ArchiveInv'
<1> DEFINE new == [left |-> batch, kept |-> {}, stage |-> "checking"]
<1>1. /\ flushes[f].stage = "idle" /\ flushes' = [flushes EXCEPT ![f] = new]
      /\ pendingBatch' = <<>> /\ batchTimer' = FALSE
  BY DEF Archive!FlushBatch
<1>2. flushes \in [Flushes -> FlushType]
  BY DEF ArchiveInv, Archive!TypeOK, FlushType
<1>3. new \in FlushType /\ new.left = batch /\ new.kept = {} /\ new.stage = "checking"
  BY DEF FlushType
<1> HIDE DEF new
<1>4. /\ flushes' \in [Flushes -> FlushType] /\ flushes'[f] = new
      /\ \A g \in Flushes : g # f => flushes'[g] = flushes[g]
  BY <1>1, <1>2, <1>3
<1>5. pendingBatch' \in Seq(Events) /\ Len(pendingBatch') < BatchSize
  BY <1>1, ArchiveAssumption, EmptySeq
<1>6. Archive!TypeOK'
  BY <1>1, <1>4, <1>5 DEF ArchiveInv, Archive!TypeOK, FlushType
<1>7. FlushesFit'
  BY <1>3, <1>4 DEF ArchiveInv, FlushesFit
<1>8. Holds(flushes[f]) = {}
  <2>1. flushes[f].left = <<>> /\ flushes[f].kept = {}
    BY <1>1 DEF ArchiveInv, FlushesFit
  <2>2. QED
    BY <2>1 DEF Holds, Archive!InBatch
<1>9. ASSUME NEW e \in Events, delivered'[e] > 0
      PROVE  Archive!UnderWay(e)' \/ e \in stored' \cup reported' \cup abandoned'
  <2>1. CASE e \in Archive!InBatch(batch)
    <3>1. e \in Archive!InBatch(flushes'[f].left)
      BY <2>1, <1>3, <1>4
    <3>2. QED
      BY <3>1 DEF Archive!UnderWay, Archive!InBatch
  <2>2. CASE e \notin Archive!InBatch(batch)
    <3>1. /\ e \notin Archive!InBatch(pendingBatch)
          /\ Archive!UnderWay(e) \/ e \in stored \cup reported \cup abandoned
      BY <1>9, <2>2 DEF ArchiveInv, Archive!NothingLost
    <3>2. CASE e \in stored \cup reported \cup abandoned
      BY <3>2
    <3>3. ASSUME NEW g \in Flushes, e \in Holds(flushes[g]) PROVE Archive!UnderWay(e)'
      <4>1. g # f /\ e \in Holds(flushes'[g])
        BY <3>3, <1>4, <1>8
      <4>2. QED
        BY <4>1 DEF Archive!UnderWay, Holds, Archive!InBatch
    <3>4. QED
      BY <3>1, <3>2, <3>3 DEF Archive!UnderWay, Holds
  <2>3. QED
    BY <2>1, <2>2
<1>10. Archive!NothingLost'
  BY <1>9 DEF Archive!NothingLost
<1>11. QED
  BY <1>1, <1>6, <1>7, <1>10 DEF ArchiveInv, Archive!BatchHasTimer

LEMMA ArchiveDelivery ==
  ASSUME ArchiveInv, NEW n \in 1..MaxAtOnce, NEW events \in Archive!SequencesOf(n),
         Archive!HandleEvents(events)
  PROVE  ArchiveInv'
<1> DEFINE batch == pendingBatch \o events
<1>1. events \in Seq(Events) /\ Len(events) = n /\ n \in Nat /\ n <= MaxAtOnce
  BY ArchiveAssumption DEF Archive!SequencesOf
<1>2. /\ pendingBatch \in Seq(Events) /\ Len(pendingBatch) \in Nat /\ Len(pendingBatch) < BatchSize
      /\ delivered \in [Events -> 0..MaxDeliveries]
  BY DEF ArchiveInv, Archive!TypeOK
<1>3. /\ batch \in Seq(Events) /\ Len(batch) = Len(pendingBatch) + n
      /\ Archive!InBatch(batch) = Archive!InBatch(pendingBatch) \cup Archive!InBatch(events)
  BY <1>1, <1>2, BothBatches, ConcatProperties
<1>4. /\ \A e \in Events : delivered[e] + Archive!Occurs(e, events) <= MaxDeliveries
      /\ delivered' = [e \in Events |-> delivered[e] + Archive!Occurs(e, events)]
      /\ UNCHANGED <<stored, reported, abandoned>>
      /\ \/ /\ Archive!Full(batch)
            /\ \E f \in Flushes : Archive!FlushBatch(f, batch)
         \/ /\ ~Archive!Full(batch) /\ pendingBatch' = batch
            /\ Archive!ScheduleBatchFlush /\ UNCHANGED flushes
  BY DEF Archive!HandleEvents
<1> HIDE DEF batch
<1>5. \A e \in Events : /\ Archive!Occurs(e, events) \in Nat
                        /\ Archive!Occurs(e, events) > 0 => e \in Archive!InBatch(batch)
  BY <1>1, <1>3, Occurrences
<1>6. delivered' \in [Events -> 0..MaxDeliveries]
  BY <1>2, <1>4, <1>5, ArchiveAssumption
<1>7. \A e \in Events : delivered'[e] > 0 => delivered[e] > 0 \/ e \in Archive!InBatch(batch)
  <2> SUFFICES ASSUME NEW e \in Events, delivered'[e] > 0, ~(delivered[e] > 0)
               PROVE  Archive!Occurs(e, events) > 0
    BY <1>5
  <2>1. delivered'[e] = delivered[e] + Archive!Occurs(e, events)
    BY <1>4
  <2>2. delivered[e] \in Nat
    BY <1>2, ArchiveAssumption
  <2>3. QED
    BY <2>1, <2>2, <1>5
<1>8. ASSUME NEW f \in Flushes, Archive!Full(batch), Archive!FlushBatch(f, batch) PROVE ArchiveInv'
  <2>1. batch # <<>>
    <3>1. Len(batch) >= BatchSize /\ BatchSize > 0
      BY <1>8, ArchiveAssumption DEF Archive!Full
    <3>2. Len(batch) # 0
      BY <3>1, <1>1, <1>2, <1>3, ArchiveAssumption
    <3>3. QED
      BY <3>2, EmptySeq
  <2>2. batch \in Archive!Batches
    <3>1. Len(batch) <= BatchSize - 1 + MaxAtOnce
      BY <1>1, <1>2, <1>3, ArchiveAssumption
    <3>2. QED
      BY <3>1, <1>3, BatchesAreSequences
  <2>3. QED
    BY <1>3, <1>4, <1>6, <1>7, <1>8, <2>1, <2>2, BatchFlushed
<1>9. CASE /\ ~Archive!Full(batch) /\ pendingBatch' = batch
           /\ Archive!ScheduleBatchFlush /\ UNCHANGED flushes
  <2>1. batchTimer' = TRUE
    BY <1>9 DEF Archive!ScheduleBatchFlush
  <2>2. Len(batch) < BatchSize
    BY <1>9, <1>1, <1>2, <1>3, ArchiveAssumption DEF Archive!Full
  <2>3. Archive!TypeOK'
    BY <1>3, <1>4, <1>6, <1>9, <2>1, <2>2 DEF ArchiveInv, Archive!TypeOK
  <2>4. FlushesFit'
    BY <1>9 DEF ArchiveInv, FlushesFit
  <2>5. Archive!NothingLost'
    <3> SUFFICES ASSUME NEW e \in Events, delivered'[e] > 0
                 PROVE  Archive!UnderWay(e)' \/ e \in stored' \cup reported' \cup abandoned'
      BY DEF Archive!NothingLost
    <3>1. CASE e \in Archive!InBatch(batch)
      BY <3>1, <1>9 DEF Archive!UnderWay, Archive!InBatch
    <3>2. CASE e \notin Archive!InBatch(batch)
      <4>1. Archive!UnderWay(e) \/ e \in stored \cup reported \cup abandoned
        BY <3>2, <1>7 DEF ArchiveInv, Archive!NothingLost
      <4>2. e \notin Archive!InBatch(pendingBatch)
        BY <3>2, <1>3
      <4>3. QED
        BY <4>1, <4>2, <1>4, <1>9 DEF Archive!UnderWay, Archive!InBatch
    <3>3. QED
      BY <3>1, <3>2
  <2>6. QED
    BY <2>1, <2>3, <2>4, <2>5 DEF ArchiveInv, Archive!BatchHasTimer
<1>10. QED
  BY <1>4, <1>8, <1>9

LEMMA ArchiveLookUp ==
  ASSUME ArchiveInv, NEW f \in Flushes, Archive!LookUp(f)
  PROVE  ArchiveInv'
<1> DEFINE flush == flushes[f]
           first == Head(flush.left)
           rest == Tail(flush.left)
           kept == IF Archive!Duplicate(flush) THEN flush.kept ELSE flush.kept \cup {first}
           new == Archive!AfterLookUp(flush)
<1>1. flush \in FlushType /\ flush.stage = "checking" /\ flush.left # <<>>
  BY DEF ArchiveInv, Archive!TypeOK, FlushType, FlushesFit, Archive!LookUp
<1>2. flush.left \in Archive!Batches /\ flush.kept \subseteq Events
  BY <1>1 DEF FlushType
<1>3. flushes' = [flushes EXCEPT ![f] = new]
  BY DEF Archive!LookUp, ArchiveInv, Archive!TypeOK
<1>4. UNCHANGED <<pendingBatch, batchTimer, delivered, stored, reported, abandoned>>
  BY DEF Archive!LookUp
<1>5. new = Archive!Remaining(rest, kept)
  BY DEF Archive!AfterLookUp
<1>6. first \in flush.kept \cup stored \/ first \in kept
  BY DEF Archive!Duplicate
<1>7. flush.kept \subseteq kept /\ kept \subseteq flush.kept \cup {first}
  OBVIOUS
<1>8. flush.left \in Seq(Events) /\ Len(flush.left) \in 0..(BatchSize - 1 + MaxAtOnce)
  BY <1>2, BatchesAreSequences
<1>9. /\ first \in Events /\ rest \in Seq(Events) /\ Len(rest) = Len(flush.left) - 1
      /\ Archive!InBatch(flush.left) \subseteq {first} \cup Archive!InBatch(rest)
  BY <1>1, <1>8, FirstOfBatch
<1>10. rest \in Archive!Batches
  <2>1. Len(rest) <= BatchSize - 1 + MaxAtOnce
    BY <1>8, <1>9, ArchiveAssumption
  <2>2. QED
    BY <1>9, <2>1, BatchesAreSequences
<1>11. stored \subseteq Events /\ reported \subseteq Events /\ abandoned \subseteq Events
  BY DEF ArchiveInv, Archive!TypeOK
<1>12. Holds(flush) \subseteq {first} \cup Archive!InBatch(rest) \cup kept
  BY <1>7, <1>9 DEF Holds
<1> HIDE DEF first, rest, kept, new, flush
<1>13. kept \subseteq Events
  BY <1>2, <1>7, <1>9
<1>14. /\ new \in FlushType
       /\ new.stage = "checking" => new.left # <<>>
       /\ new.stage # "checking" => new.left = <<>>
       /\ new.stage = "idle" => new.kept = {}
       /\ Holds(new) = Archive!InBatch(rest) \cup kept
  <2>1. CASE rest # <<>>
    <3>1. new = [left |-> rest, kept |-> kept, stage |-> "checking"]
      BY <1>5, <2>1 DEF Archive!Remaining
    <3>2. QED
      BY <2>1, <3>1, <1>10, <1>13 DEF FlushType, Holds
  <2>2. CASE rest = <<>> /\ kept # {}
    <3>1. new = [left |-> rest, kept |-> kept, stage |-> "storing"]
      BY <1>5, <2>2 DEF Archive!Remaining
    <3>2. QED
      BY <2>2, <3>1, <1>10, <1>13 DEF FlushType, Holds
  <2>3. CASE rest = <<>> /\ kept = {}
    <3>1. new = Archive!NoFlush
      BY <1>5, <2>3 DEF Archive!Remaining
    <3>2. Archive!InBatch(rest) = {}
      BY <2>3 DEF Archive!InBatch
    <3>3. QED
      BY <2>3, <3>1, <3>2, NoFlushFits DEF Archive!NoFlush
  <2>4. QED
    BY <2>1, <2>2, <2>3
<1>15. first \in kept \cup stored
  BY <1>6, <1>7
<1>16. Holds(flush) \subseteq Holds(new) \cup stored' \cup reported' \cup abandoned'
  BY <1>4, <1>12, <1>14, <1>15
<1>17. Holds(flushes[f]) \subseteq Holds(new) \cup stored' \cup reported' \cup abandoned'
  BY <1>16 DEF flush
<1>18. QED
  BY <1>3, <1>4, <1>11, <1>14, <1>17, FlushReplaced

\* Only the timer changes.
LEMMA ArchiveUntouched ==
  ASSUME ArchiveInv, batchTimer' \in BOOLEAN, pendingBatch # <<>> => batchTimer',
         UNCHANGED <<pendingBatch, flushes, stored, reported, abandoned, delivered>>
  PROVE  ArchiveInv'
<1>1. Archive!TypeOK'
  BY DEF ArchiveInv, Archive!TypeOK
<1>2. FlushesFit'
  BY DEF ArchiveInv, FlushesFit
<1>3. Archive!NothingLost'
  BY DEF ArchiveInv, Archive!NothingLost, Archive!UnderWay, Archive!InBatch
<1>4. Archive!BatchHasTimer'
  BY DEF Archive!BatchHasTimer
<1>5. QED
  BY <1>1, <1>2, <1>3, <1>4 DEF ArchiveInv

LEMMA ArchiveStepInv == ArchiveInv /\ [Archive!Next]_archiveVars => ArchiveInv'
<1> SUFFICES ASSUME ArchiveInv, [Archive!Next]_archiveVars PROVE ArchiveInv'
  OBVIOUS
<1>0. /\ flushes \in [Flushes -> FlushType] /\ pendingBatch \in Seq(Events)
      /\ Len(pendingBatch) \in Nat /\ Len(pendingBatch) < BatchSize
      /\ stored \subseteq Events /\ reported \subseteq Events /\ abandoned \subseteq Events
  BY DEF ArchiveInv, Archive!TypeOK, FlushType
<1>1. ASSUME NEW n \in 1..MaxAtOnce, NEW events \in Archive!SequencesOf(n), Archive!HandleEvents(events)
      PROVE  ArchiveInv'
  BY <1>1, ArchiveDelivery
<1>2. CASE Archive!HandleInvalid
  <2>1. batchTimer' = TRUE /\ UNCHANGED <<pendingBatch, flushes, stored, reported, abandoned, delivered>>
    BY <1>2 DEF Archive!HandleInvalid, Archive!ScheduleBatchFlush
  <2>2. QED
    BY <2>1, ArchiveUntouched
<1>3. CASE Archive!Flush
  <2>1. PICK f \in Flushes : Archive!FlushBatch(f, pendingBatch)
    BY <1>3 DEF Archive!Flush
  <2>2. pendingBatch # <<>> /\ UNCHANGED <<stored, reported, abandoned, delivered>>
    BY <1>3 DEF Archive!Flush
  <2>3. pendingBatch \in Archive!Batches
    <3>1. Len(pendingBatch) <= BatchSize - 1 + MaxAtOnce
      BY <1>0, ArchiveAssumption
    <3>2. QED
      BY <3>1, <1>0, BatchesAreSequences
  <2>4. delivered' \in [Events -> 0..MaxDeliveries]
    BY <2>2 DEF ArchiveInv, Archive!TypeOK
  <2>5. QED
    BY <2>1, <2>2, <2>3, <2>4, BatchFlushed
<1>4. CASE Archive!TimerFindsNothing
  <2>1. /\ pendingBatch = <<>> /\ batchTimer' = FALSE
        /\ UNCHANGED <<pendingBatch, flushes, stored, reported, abandoned, delivered>>
    BY <1>4 DEF Archive!TimerFindsNothing
  <2>2. QED
    BY <2>1, ArchiveUntouched
<1>5. ASSUME NEW f \in Flushes, Archive!LookUp(f) PROVE ArchiveInv'
  BY <1>5, ArchiveLookUp
<1> DEFINE none == Archive!NoFlush
<1>6. /\ none \in FlushType /\ Holds(none) = {} /\ none.stage = "idle" /\ none.left = <<>>
      /\ none.kept = {}
  BY NoFlushFits DEF Archive!NoFlush
<1>7. ASSUME NEW f \in Flushes, Archive!LookUpFails(f) PROVE ArchiveInv'
  <2>1. /\ abandoned' = abandoned \cup Archive!InBatch(flushes[f].left) \cup flushes[f].kept
        /\ flushes' = [flushes EXCEPT ![f] = none]
        /\ UNCHANGED <<pendingBatch, batchTimer, stored, reported, delivered>>
    BY <1>7 DEF Archive!LookUpFails
  <2> HIDE DEF none
  <2>2. flushes[f] \in FlushType
    BY <1>0
  <2>3. flushes[f].left \in Seq(Events) /\ flushes[f].kept \subseteq Events
    BY <2>2, BatchesAreSequences DEF FlushType
  <2>4. Archive!InBatch(flushes[f].left) \subseteq Events
    BY <2>3 DEF Archive!InBatch
  <2>5. Holds(flushes[f]) \subseteq abandoned' /\ abandoned' \subseteq Events
    BY <2>1, <2>3, <2>4, <1>0 DEF Holds
  <2>6. QED
    BY <2>1, <2>5, <1>0, <1>6, FlushReplaced
<1>8. ASSUME NEW f \in Flushes, flushes[f].stage = "storing"
      PROVE  Holds(flushes[f]) = flushes[f].kept /\ flushes[f].kept \subseteq Events
  <2>1. flushes[f].left = <<>> /\ flushes[f] \in FlushType
    BY <1>0, <1>8 DEF ArchiveInv, FlushesFit
  <2>2. QED
    BY <2>1 DEF Holds, Archive!InBatch, FlushType
<1>9. ASSUME NEW f \in Flushes, Archive!Store(f) PROVE ArchiveInv'
  <2>1. /\ flushes[f].stage = "storing" /\ stored' = stored \cup flushes[f].kept
        /\ flushes' = [flushes EXCEPT ![f] = none]
        /\ UNCHANGED <<pendingBatch, batchTimer, reported, abandoned, delivered>>
    BY <1>9 DEF Archive!Store
  <2> HIDE DEF none
  <2>2. Holds(flushes[f]) \subseteq stored' /\ stored' \subseteq Events
    BY <2>1, <1>0, <1>8
  <2>3. QED
    BY <2>1, <2>2, <1>0, <1>6, FlushReplaced
<1>10. ASSUME NEW f \in Flushes, Archive!StoreFails(f) PROVE ArchiveInv'
  <2>1. /\ flushes[f].stage = "storing" /\ reported' = reported \cup flushes[f].kept
        /\ flushes' = [flushes EXCEPT ![f] = none]
        /\ UNCHANGED <<pendingBatch, batchTimer, stored, abandoned, delivered>>
    BY <1>10 DEF Archive!StoreFails
  <2> HIDE DEF none
  <2>2. Holds(flushes[f]) \subseteq reported' /\ reported' \subseteq Events
    BY <2>1, <1>0, <1>8
  <2>3. QED
    BY <2>1, <2>2, <1>0, <1>6, FlushReplaced
<1>11. CASE UNCHANGED archiveVars
  <2>1. UNCHANGED <<pendingBatch, batchTimer, flushes, stored, reported, abandoned, delivered>>
    BY <1>11 DEF archiveVars
  <2>2. batchTimer' \in BOOLEAN /\ (pendingBatch # <<>> => batchTimer')
    BY <2>1 DEF ArchiveInv, Archive!TypeOK, Archive!BatchHasTimer
  <2>3. QED
    BY <2>1, <2>2, ArchiveUntouched
<1>12. QED
  BY <1>1, <1>2, <1>3, <1>4, <1>5, <1>7, <1>9, <1>10, <1>11 DEF Archive!Next

-----------------------------------------------------------------------------
\* The failover (EndpointFailover): its endpoints, counts and clocks stay in range.
FailoverInv == Failover!TypeOK

LEMMA FailoverInit == Failover!Init => FailoverInv
BY FailoverAssumption DEF Failover!Init, FailoverInv, Failover!TypeOK, Failover!Endpoints,
   Failover!NoRequest, Failover!NoEndpoint

LEMMA MarksStayInRange ==
  ASSUME FailoverInv, NEW e \in Failover!Endpoints, Failover!MarkSuccess(e) \/ Failover!MarkFailure(e)
  PROVE  /\ endpointFailures' \in [Failover!Endpoints -> 0..FailureThreshold]
         /\ sinceFailure' \in [Failover!Endpoints -> 0..RecoveryInterval]
<1>1. CASE Failover!MarkSuccess(e)
  BY <1>1, FailoverAssumption DEF Failover!MarkSuccess, FailoverInv, Failover!TypeOK
<1>2. CASE Failover!MarkFailure(e)
  <2>1. endpointFailures[e] \in 0..FailureThreshold /\ FailureThreshold \in Nat
    BY FailoverAssumption DEF FailoverInv, Failover!TypeOK
  <2>2. (IF Failover!Healthy(e) THEN endpointFailures[e] + 1 ELSE endpointFailures[e]) \in 0..FailureThreshold
    BY <2>1 DEF Failover!Healthy
  <2>3. QED
    BY <1>2, <2>2, FailoverAssumption DEF Failover!MarkFailure, FailoverInv, Failover!TypeOK
<1>3. QED
  BY <1>1, <1>2

LEMMA SendStaysInRange ==
  ASSUME FailoverInv, NEW r \in Requests, NEW n \in 0..EndpointCount, Failover!Send(r, n)
  PROVE  /\ endpointCursor' \in Failover!Endpoints
         /\ requests' \in [Requests -> [endpoint : Failover!Endpoints \cup {Failover!NoEndpoint},
                                        attempt : 0..EndpointCount]]
<1>1. PICK e \in Failover!Endpoints :
        /\ Failover!Chosen(e)
        /\ requests' = [requests EXCEPT ![r] = [endpoint |-> e, attempt |-> n]]
  BY DEF Failover!Send
<1>2. (e + 1) % EndpointCount \in Failover!Endpoints
  BY FailoverAssumption DEF Failover!Endpoints
<1>3. endpointCursor' \in Failover!Endpoints
  BY <1>1, <1>2 DEF Failover!Chosen, FailoverInv, Failover!TypeOK
<1>4. QED
  BY <1>1, <1>3 DEF FailoverInv, Failover!TypeOK

LEMMA FailoverStepInv == FailoverInv /\ [Failover!Next]_failoverVars => FailoverInv'
<1> SUFFICES ASSUME FailoverInv, [Failover!Next]_failoverVars PROVE FailoverInv'
  OBVIOUS
<1> USE DEF FailoverInv
<1>1. ASSUME NEW r \in Requests, Failover!Request(r) PROVE FailoverInv'
  <2>1. 1 \in 0..EndpointCount
    BY FailoverAssumption
  <2>2. QED
    BY <1>1, <2>1, SendStaysInRange DEF Failover!Request, Failover!TypeOK, Failover!Endpoints
<1>2. ASSUME NEW r \in Requests, Failover!Succeeds(r) \/ Failover!Fails(r) PROVE FailoverInv'
  <2>1. requests[r].endpoint \in Failover!Endpoints
    BY <1>2 DEF Failover!Succeeds, Failover!Fails, Failover!Endpoint, Failover!TypeOK
  <2>2. /\ Failover!MarkSuccess(requests[r].endpoint) \/ Failover!MarkFailure(requests[r].endpoint)
        /\ Failover!End(r) /\ UNCHANGED <<endpointCursor, checking>>
    BY <1>2 DEF Failover!Succeeds, Failover!Fails, Failover!Endpoint
  <2>3. Failover!NoRequest \in [endpoint : Failover!Endpoints \cup {Failover!NoEndpoint},
                                attempt : 0..EndpointCount]
    BY FailoverAssumption DEF Failover!NoRequest
  <2>4. QED
    BY <2>1, <2>2, <2>3, MarksStayInRange DEF Failover!End, Failover!TypeOK, Failover!Endpoints
<1>3. ASSUME NEW r \in Requests, Failover!FailsOver(r) PROVE FailoverInv'
  <2>1. requests[r] \in [endpoint : Failover!Endpoints \cup {Failover!NoEndpoint}, attempt : 0..EndpointCount]
    BY DEF Failover!TypeOK
  <2>2. /\ requests[r].endpoint \in Failover!Endpoints
        /\ requests[r].attempt + 1 \in 0..EndpointCount
    BY <1>3, <2>1, FailoverAssumption DEF Failover!FailsOver, Failover!Endpoint, Failover!Attempt
  <2>3. /\ Failover!MarkFailure(requests[r].endpoint)
        /\ Failover!Send(r, requests[r].attempt + 1)
        /\ UNCHANGED checking
    BY <1>3 DEF Failover!FailsOver, Failover!Endpoint, Failover!Attempt
  <2>4. QED
    BY <2>2, <2>3, MarksStayInRange, SendStaysInRange DEF Failover!TypeOK, Failover!Endpoints
<1>4. CASE Failover!StartCheck
  BY <1>4, FailoverAssumption DEF Failover!StartCheck, Failover!TypeOK, Failover!Endpoints, Failover!NoEndpoint
<1>5. CASE Failover!ProbeAnswers
  <2>1. checking \in Failover!Endpoints /\ checking' \in Failover!Endpoints \cup {Failover!NoEndpoint}
    BY <1>5, FailoverAssumption DEF Failover!ProbeAnswers, Failover!TypeOK, Failover!Endpoints,
       Failover!NoEndpoint
  <2>2. QED
    BY <1>5, <2>1, MarksStayInRange DEF Failover!ProbeAnswers, Failover!TypeOK, Failover!Endpoints
<1>6. CASE Failover!Tick
  <2>1. \A e \in Failover!Endpoints :
          (IF sinceFailure[e] < RecoveryInterval THEN sinceFailure[e] + 1 ELSE RecoveryInterval)
             \in 0..RecoveryInterval
    BY FailoverAssumption DEF Failover!TypeOK
  <2>2. QED
    BY <1>6, <2>1 DEF Failover!Tick, Failover!TypeOK, Failover!Endpoints
<1>7. CASE UNCHANGED failoverVars
  BY <1>7 DEF failoverVars, Failover!TypeOK, Failover!Endpoints
<1>8. QED
  BY <1>1, <1>2, <1>3, <1>4, <1>5, <1>6, <1>7 DEF Failover!Next

-----------------------------------------------------------------------------
\* The stream of transactions (TransactionStream): the cursor is at a transaction
\* that is there, an ascending page that moves it is not taken for the last one, and
\* the failures that are hidden are counted.
StreamInv ==
  /\ Stream!TypeOK
  /\ Stream!NothingSkipped
  /\ Stream!SilenceIsBounded
  /\ cursor \in 0..closed
  /\ order = "asc" => lastEmitted.nextCursor = MaxTransactions + 1 \/ lastEmitted.nextCursor <= cursor
  /\ ~retryState.inCooldown => retryState.failures < MaxFailures
  /\ silent <= retryState.failures
  /\ stage = "polling" => pollsLeft # 0

LEMMA StreamFilters ==
  ASSUME NEW list, NEW kept
  PROVE  Stream!Filtered(list, kept) = Filtered(list, kept)
BY DEF Stream!Filtered, Filtered, Stream!InOrder, InOrder, Stream!Rank, Rank, Stream!Cardinality,
   Cardinality

UpToCursor(n) == [i \in 1..n |-> i]

LEMMA FirstTransactions ==
  ASSUME NEW n \in Nat
  PROVE  UpToCursor(n) \in Seq(Nat) /\ Len(UpToCursor(n)) = n
BY DEF UpToCursor

LEMMA NothingToFilter == \A kept : Filtered(<<>>, kept) = <<>>
<1> TAKE kept
<1>1. <<>> \in Seq({}) /\ Len(<<>>) = 0
  OBVIOUS
<1>2. Filtered(<<>>, kept) \in Seq({} \cap kept) /\ Len(Filtered(<<>>, kept)) <= 0
  BY <1>1, FilteredElements
<1> DEFINE f == Filtered(<<>>, kept)
<1> HIDE DEF f
<1>3. f \in Seq({} \cap kept) /\ Len(f) = 0
  BY <1>2, LenProperties DEF f
<1>4. f = <<>>
  BY <1>3, EmptySeq
<1>5. QED
  BY <1>4 DEF f

LEMMA StreamInit == Stream!Init => StreamInv
<1> SUFFICES ASSUME Stream!Init PROVE StreamInv
  OBVIOUS
<1>1. <<>> \in Stream!Pages
  <2>1. <<>> \in [1..0 -> Stream!Transactions] /\ 0 \in 0..Limit
    BY StreamAssumption
  <2>2. QED
    BY <2>1 DEF Stream!Pages
<1>2. Stream!Nothing \in [transactions : Stream!Pages, nextCursor : 0..(MaxTransactions + 1)]
  BY <1>1, StreamAssumption DEF Stream!Nothing
<1>3. Stream!NoFailure \in Stream!RetryStates /\ Stream!NoFailure.failures = 0
  BY RetryAssumption DEF Stream!NoFailure, Stream!RetryStates
<1>4. Stream!NothingSkipped
  <2>1. UpToCursor(0) = <<>>
    BY DEF UpToCursor
  <2>2. QED
    BY <2>1, NothingToFilter, StreamFilters DEF Stream!Init, Stream!NothingSkipped, Stream!Start, UpToCursor
<1>5. closed \in 0..MaxTransactions /\ 0 \in 0..closed
  BY StreamAssumption DEF Stream!Init
<1>6. Stream!TypeOK
  <2>1. pollsLeft \in 0..Stream!Unlimited /\ emitted \in Seq(Kept) /\ silent \in Nat
    BY DEF Stream!Init, Stream!Unlimited
  <2>2. QED
    BY <1>2, <1>3, <1>5, <2>1 DEF Stream!Init, Stream!TypeOK, Stream!Delays
<1>7. QED
  BY <1>3, <1>4, <1>5, <1>6, RetryAssumption, StreamAssumption
     DEF Stream!Init, StreamInv, Stream!SilenceIsBounded, Stream!Start, Stream!Nothing

\* A page holds at most limit transactions, those after the cursor in an ascending
\* stream.
LEMMA RecordsOfAPage ==
  ASSUME Stream!TypeOK, cursor \in 0..closed
  PROVE  /\ Stream!Records \in Seq(1..closed) /\ Stream!Records \in Seq(Stream!Transactions)
         /\ Len(Stream!Records) \in 0..Limit
         /\ order = "asc" => /\ Len(Stream!Records) <= closed - cursor
                             /\ \A i \in 1..Len(Stream!Records) : Stream!Records[i] = cursor + i
<1>1. /\ closed \in 0..MaxTransactions /\ cursor \in 0..closed /\ Limit \in Nat
      /\ MaxTransactions \in Nat
  BY StreamAssumption DEF Stream!TypeOK
<1>a. 1..closed \subseteq Stream!Transactions
  BY <1>1 DEF Stream!Transactions
<1>2. CASE order = "asc"
  <2> DEFINE m == Stream!Smaller(Limit, closed - cursor)
             R == [i \in 1..m |-> cursor + i]
  <2>1. m \in 0..Limit /\ m <= closed - cursor
    BY <1>1 DEF Stream!Smaller
  <2> HIDE DEF m
  <2>2. \A i \in 1..m : cursor + i \in 1..closed
    BY <1>1, <2>1
  <2>3. R \in Seq(1..closed) /\ Len(R) = m /\ \A i \in 1..m : R[i] = cursor + i
    BY <2>1, <2>2
  <2>4. Stream!Records = R
    BY <1>2 DEF Stream!Records, m
  <2> HIDE DEF R
  <2>5. QED
    BY <1>a, <2>1, <2>3, <2>4, SeqMonotonic
<1>3. CASE order # "asc"
  <2> DEFINE newest == IF cursor = Stream!Start THEN closed ELSE cursor - 1
             m == Stream!Smaller(Limit, newest)
             R == [i \in 1..m |-> newest + 1 - i]
  <2>1. newest \in 0..closed
    BY <1>1 DEF Stream!Start
  <2>4. Stream!Records = R
    BY <1>3 DEF Stream!Records
  <2> HIDE DEF newest
  <2>2. m \in 0..Limit /\ m <= newest
    BY <1>1, <2>1 DEF Stream!Smaller
  <2> HIDE DEF m
  <2>3. \A i \in 1..m : newest + 1 - i \in 1..closed
    BY <1>1, <2>1, <2>2
  <2>5. R \in Seq(1..closed) /\ Len(R) = m
    BY <2>2, <2>3
  <2> HIDE DEF R
  <2>6. QED
    BY <1>a, <1>3, <2>2, <2>4, <2>5, SeqMonotonic
<1>4. QED
  BY <1>2, <1>3

LEMMA PageIsWellFormed ==
  ASSUME Stream!TypeOK, cursor \in 0..closed
  PROVE  /\ Filtered(Stream!Records, Kept) \in Seq(Kept)
         /\ Filtered(Stream!Records, Kept) \in Stream!Pages
         /\ Stream!NextCursor(Stream!Records) \in 0..closed
<1> DEFINE f == Filtered(Stream!Records, Kept)
<1>1. f \in Seq(Stream!Transactions \cap Kept) /\ Len(f) <= Len(Stream!Records)
  BY RecordsOfAPage, FilteredElements
<1>2. Len(Stream!Records) \in 0..Limit /\ Limit \in Nat /\ MaxTransactions \in Nat
  BY RecordsOfAPage, StreamAssumption
<1> HIDE DEF f
<1>3. f \in Seq(Kept) /\ f \in Seq(Stream!Transactions)
  BY <1>1
<1>4. Len(f) \in 0..Limit /\ f \in [1..Len(f) -> Stream!Transactions]
  BY <1>1, <1>2, <1>3
<1>5. f \in Stream!Pages
  BY <1>4 DEF Stream!Pages
<1>6. Stream!NextCursor(Stream!Records) \in 0..closed
  <2> DEFINE R == Stream!Records
  <2>1. R \in Seq(1..closed) /\ Len(R) \in Nat /\ closed \in Nat
    BY RecordsOfAPage, <1>2 DEF Stream!TypeOK
  <2>2. Stream!NextCursor(R) = IF R = <<>> THEN 0 ELSE R[Len(R)]
    BY DEF Stream!NextCursor, Stream!Start
  <2> HIDE DEF R
  <2>3. R # <<>> => R[Len(R)] \in 1..closed
    BY <2>1
  <2>4. QED
    BY <2>1, <2>2, <2>3 DEF R
<1>7. QED
  BY <1>3, <1>5, <1>6 DEF f

\* What an ascending page adds is what there is between the old and the new cursor.
LEMMA PageGoesOn ==
  ASSUME StreamInv, order = "asc", Stream!Records # <<>>
  PROVE  LET next == Stream!NextCursor(Stream!Records)
         IN  /\ next \in (cursor + 1)..closed
             /\ Filtered(UpToCursor(next), Kept)
                  = Filtered(UpToCursor(cursor), Kept) \o Filtered(Stream!Records, Kept)
<1> DEFINE R == Stream!Records
           m == Len(R)
<1>1. /\ closed \in Nat /\ cursor \in Nat /\ cursor <= closed
  BY StreamAssumption DEF StreamInv, Stream!TypeOK
<1>2. /\ R \in Seq(Stream!Transactions) /\ R # <<>> /\ m \in Nat /\ m <= closed - cursor
      /\ \A i \in 1..m : R[i] = cursor + i
  <2>1. m \in 0..Limit /\ Limit \in Nat
    BY RecordsOfAPage, StreamAssumption DEF StreamInv
  <2>2. QED
    BY <2>1, RecordsOfAPage DEF StreamInv
<1>3. Stream!NextCursor(R) = R[m]
  BY <1>2 DEF Stream!NextCursor
<1> HIDE DEF R
<1>4. m \in 1..m
  BY <1>2, EmptySeq
<1>5. R[m] = cursor + m /\ cursor + m \in (cursor + 1)..closed
  BY <1>1, <1>2, <1>4
<1>6. R \in Seq(Nat)
  BY <1>2, StreamAssumption DEF Stream!Transactions
<1> DEFINE u == UpToCursor(cursor)
           v == UpToCursor(cursor + m)
<1>7. u \in Seq(Nat) /\ Len(u) = cursor /\ \A i \in 1..cursor : u[i] = i
  BY <1>1, FirstTransactions DEF UpToCursor
<1>8. v \in Seq(Nat) /\ Len(v) = cursor + m /\ \A i \in 1..(cursor + m) : v[i] = i
  <2>1. cursor + m \in Nat
    BY <1>1, <1>2
  <2>2. QED
    BY <2>1, FirstTransactions DEF UpToCursor
<1> HIDE DEF u, v, m
<1>9. /\ u \o R \in Seq(Nat) /\ Len(u \o R) = cursor + m
      /\ \A i \in 1..(cursor + m) : (u \o R)[i] = IF i <= cursor THEN u[i] ELSE R[i - cursor]
  <2>1. /\ u \o R \in Seq(Nat) /\ Len(u \o R) = Len(u) + Len(R)
        /\ \A i \in 1..(Len(u) + Len(R)) : (u \o R)[i] = IF i <= Len(u) THEN u[i] ELSE R[i - Len(u)]
    BY <1>6, <1>7, ConcatProperties
  <2>2. QED
    BY <2>1, <1>7 DEF m
<1>10. \A i \in 1..(cursor + m) : (u \o R)[i] = v[i]
  <2> SUFFICES ASSUME NEW i \in 1..(cursor + m) PROVE (u \o R)[i] = v[i]
    OBVIOUS
  <2>1. CASE i <= cursor
    BY <2>1, <1>1, <1>2, <1>7, <1>8, <1>9
  <2>2. CASE ~(i <= cursor)
    <3>1. i - cursor \in 1..m /\ cursor + (i - cursor) = i
      BY <2>2, <1>1, <1>2
    <3>2. R[i - cursor] = i
      BY <3>1, <1>2
    <3>3. QED
      BY <2>2, <3>2, <1>8, <1>9
  <2>3. QED
    BY <2>1, <2>2
<1>11. u \o R = v
  BY <1>8, <1>9, <1>10, SeqEqual
<1>12. Filtered(u \o R, Kept) = Filtered(u, Kept) \o Filtered(R, Kept)
  BY <1>6, <1>7, FilteredConcat
<1>13. QED
  BY <1>3, <1>5, <1>11, <1>12 DEF R, u, v

LEMMA StreamPollEnds ==
  ASSUME StreamInv, Stream!PollEnds
  PROVE  pollsLeft' \in 0..Stream!Unlimited
<1>1. pollsLeft \in 0..3 /\ pollsLeft # 0
  BY DEF StreamInv, Stream!TypeOK, Stream!Unlimited, Stream!PollEnds
<1>2. pollsLeft' = IF pollsLeft = 3 THEN 3 ELSE pollsLeft - 1
  BY DEF Stream!PollEnds, Stream!Unlimited
<1>3. QED
  BY <1>1, <1>2 DEF Stream!Unlimited

LEMMA StreamPage ==
  ASSUME StreamInv, Stream!PageArrives
  PROVE  StreamInv'
<1> DEFINE next == Stream!NextCursor(Stream!Records)
           kept == Filtered(Stream!Records, Kept)
           page == [transactions |-> kept, nextCursor |-> next]
<1>1. /\ Stream!PollEnds
      /\ cursor' = IF next = 0 THEN cursor ELSE next
      /\ lastEmitted' = page
      /\ emitted' = IF page = lastEmitted THEN emitted ELSE emitted \o kept
      /\ retryState' = Stream!NoFailure /\ nextDelay' = "interval" /\ silent' = 0
  BY StreamFilters DEF Stream!PageArrives, Stream!Start
<1>2. kept \in Seq(Kept) /\ kept \in Stream!Pages /\ next \in 0..closed
  BY PageIsWellFormed DEF StreamInv
<1>3. /\ MaxTransactions \in Nat /\ closed \in 0..MaxTransactions /\ cursor \in 0..closed
      /\ lastEmitted \in [transactions : Stream!Pages, nextCursor : 0..(MaxTransactions + 1)]
      /\ emitted \in Seq(Kept)
  BY StreamAssumption DEF StreamInv, Stream!TypeOK
<1>4. closed' = closed /\ order' = order /\ autoRetry' = autoRetry
  BY <1>1 DEF Stream!PollEnds, Stream!config
<1>5. order = "asc" /\ next # 0 =>
        /\ next \in (cursor + 1)..closed
        /\ Filtered(UpToCursor(next), Kept) = Filtered(UpToCursor(cursor), Kept) \o kept
  <2> SUFFICES ASSUME order = "asc", next # 0
               PROVE  /\ next \in (cursor + 1)..closed
                      /\ Filtered(UpToCursor(next), Kept) = Filtered(UpToCursor(cursor), Kept) \o kept
    OBVIOUS
  <2>1. Stream!Records # <<>>
    BY DEF Stream!NextCursor, Stream!Start
  <2>2. QED
    BY <2>1, PageGoesOn
<1>6. next = 0 => kept = <<>>
  <2> SUFFICES ASSUME next = 0 PROVE kept = <<>>
    OBVIOUS
  <2> DEFINE R == Stream!Records
  <2>1. R \in Seq(1..closed) /\ closed \in Nat
    BY RecordsOfAPage DEF StreamInv, Stream!TypeOK
  <2>2. R = <<>> \/ R[Len(R)] = 0
    BY DEF Stream!NextCursor, Stream!Start
  <2> HIDE DEF R
  <2>3. R = <<>>
    BY <2>1, <2>2
  <2>4. QED
    BY <2>3, NothingToFilter DEF R
<1> HIDE DEF next, kept
<1>7. cursor' \in 0..closed'
  BY <1>1, <1>2, <1>3, <1>4
<1>8. emitted' \in Seq(Kept)
  BY <1>1, <1>2, <1>3
<1>9. Stream!NothingSkipped'
  <2> SUFFICES ASSUME order = "asc" PROVE emitted' = Filtered(UpToCursor(cursor'), Kept)
    BY <1>4, StreamFilters DEF Stream!NothingSkipped, UpToCursor
  <2>1. emitted = Filtered(UpToCursor(cursor), Kept)
    BY StreamFilters DEF StreamInv, Stream!NothingSkipped, UpToCursor
  <2>2. CASE next = 0
    BY <1>1, <1>3, <1>6, <2>1, <2>2
  <2>3. CASE next # 0
    <3>1. next \in (cursor + 1)..closed
      BY <1>5, <2>3
    <3>2. lastEmitted.nextCursor = MaxTransactions + 1 \/ lastEmitted.nextCursor <= cursor
      BY DEF StreamInv
    <3>3. lastEmitted.nextCursor # next
      BY <3>1, <3>2, <1>3
    <3>4. page # lastEmitted
      BY <3>3
    <3>5. QED
      BY <1>1, <1>5, <2>1, <2>3, <3>4
  <2>4. QED
    BY <2>2, <2>3
<1>10. page \in [transactions : Stream!Pages, nextCursor : 0..(MaxTransactions + 1)]
  <2>1. next \in 0..(MaxTransactions + 1)
    BY <1>2, <1>3
  <2>2. QED
    BY <1>2, <2>1
<1>11. /\ Stream!NoFailure \in Stream!RetryStates /\ Stream!NoFailure.failures = 0
       /\ 0 < MaxFailures
  BY RetryAssumption DEF Stream!NoFailure, Stream!RetryStates
<1>12. cursor' \in Stream!Transactions \cup {Stream!Start}
  BY <1>7, <1>3, <1>4 DEF Stream!Transactions, Stream!Start
<1>13. pollsLeft' \in 0..Stream!Unlimited
  BY <1>1, StreamPollEnds
<1>14. Stream!TypeOK'
  BY <1>1, <1>8, <1>10, <1>11, <1>12, <1>13
     DEF StreamInv, Stream!TypeOK, Stream!PollEnds, Stream!config, Stream!Delays
<1>15. order' = "asc" => lastEmitted'.nextCursor = MaxTransactions + 1 \/ lastEmitted'.nextCursor <= cursor'
  <2> SUFFICES ASSUME order = "asc" PROVE lastEmitted'.nextCursor <= cursor'
    BY <1>4
  <2>1. lastEmitted'.nextCursor = next
    BY <1>1
  <2>2. next <= cursor'
    BY <1>1, <1>2, <1>3
  <2>3. QED
    BY <2>1, <2>2
<1>16. QED
  BY <1>1, <1>7, <1>9, <1>11, <1>14, <1>15 DEF StreamInv, Stream!SilenceIsBounded, Stream!PollEnds

LEMMA StreamFailure ==
  ASSUME StreamInv, NEW transient \in BOOLEAN, Stream!PollFails(transient)
  PROVE  StreamInv'
<1>1. /\ retryState \in [failures : 0..MaxFailures, inCooldown : BOOLEAN]
      /\ ~retryState.inCooldown => retryState.failures < MaxFailures
      /\ silent \in Nat /\ silent <= retryState.failures /\ silent < MaxFailures
      /\ MaxFailures \in Nat \ {0} /\ autoRetry \in BOOLEAN
  BY RetryAssumption DEF StreamInv, Stream!TypeOK, Stream!RetryStates, Stream!SilenceIsBounded
<1>2. /\ retryState' = Stream!Counted(autoRetry, retryState)
      /\ silent' = IF Stream!ErrorIsHidden(autoRetry, retryState, transient) THEN silent + 1 ELSE 0
      /\ nextDelay' = Stream!DelayAfterFailure(autoRetry, retryState, transient)
      /\ Stream!PollEnds /\ UNCHANGED <<cursor, lastEmitted, emitted>>
  BY DEF Stream!PollFails
<1>3. nextDelay' \in Stream!Delays
  BY <1>2 DEF Stream!DelayAfterFailure, Stream!Delays
<1>4. /\ retryState' \in [failures : 0..MaxFailures, inCooldown : BOOLEAN]
      /\ ~retryState'.inCooldown => retryState'.failures < MaxFailures
      /\ retryState.failures <= retryState'.failures
      /\ Stream!ErrorIsHidden(autoRetry, retryState, transient) =>
           /\ retryState'.failures = retryState.failures + 1
           /\ retryState.failures + 1 < MaxFailures
  <2>1. CASE ~autoRetry \/ retryState.inCooldown
    BY <1>1, <1>2, <2>1 DEF Stream!Counted, Stream!ErrorIsHidden, Stream!ShouldRetry
  <2>2. CASE ~(~autoRetry \/ retryState.inCooldown)
    <3>1. retryState' = [failures |-> retryState.failures + 1,
                         inCooldown |-> retryState.failures + 1 >= MaxFailures]
      BY <1>2, <2>2 DEF Stream!Counted, Stream!LimitReached
    <3>2. retryState.failures + 1 \in 0..MaxFailures /\ retryState.failures \in Nat
      BY <1>1, <2>2
    <3>3. Stream!ErrorIsHidden(autoRetry, retryState, transient) => ~(retryState.failures + 1 >= MaxFailures)
      BY DEF Stream!ErrorIsHidden, Stream!ShouldRetry, Stream!LimitReached
    <3> DEFINE n == retryState.failures + 1
               reached == n >= MaxFailures
    <3>4. reached \in BOOLEAN /\ (~reached => n < MaxFailures) /\ retryState.failures <= n
      BY <3>2, <1>1
    <3>5. retryState' = [failures |-> n, inCooldown |-> reached] /\ n \in 0..MaxFailures
      BY <3>1, <3>2
    <3> HIDE DEF n, reached
    <3>6. /\ retryState' \in [failures : 0..MaxFailures, inCooldown : BOOLEAN]
          /\ retryState'.failures = n /\ retryState'.inCooldown = reached
      BY <3>4, <3>5
    <3>7. QED
      BY <3>3, <3>4, <3>6 DEF n, reached
  <2>3. QED
    BY <2>1, <2>2
<1>5. silent' \in Nat /\ silent' <= retryState'.failures /\ silent' < MaxFailures
  BY <1>1, <1>2, <1>4
<1>6. pollsLeft' \in 0..Stream!Unlimited
  BY <1>2, StreamPollEnds
<1>7. UNCHANGED <<order, autoRetry, closed, aborted, cursor, lastEmitted, emitted>> /\ stage' = "sleeping"
  BY <1>2 DEF Stream!PollEnds, Stream!config
<1>8. Stream!TypeOK'
  BY <1>3, <1>4, <1>5, <1>6, <1>7 DEF StreamInv, Stream!TypeOK, Stream!RetryStates
<1>9. Stream!NothingSkipped'
  BY <1>7, StreamFilters DEF StreamInv, Stream!NothingSkipped
<1>10. QED
  BY <1>4, <1>5, <1>7, <1>8, <1>9 DEF StreamInv, Stream!SilenceIsBounded

LEMMA StreamStepInv == StreamInv /\ [Stream!Next]_streamVars => StreamInv'
<1> SUFFICES ASSUME StreamInv, [Stream!Next]_streamVars PROVE StreamInv'
  OBVIOUS
<1>1. CASE Stream!Wake
  <2>1. /\ UNCHANGED <<order, autoRetry, pollsLeft, closed, aborted, cursor, lastEmitted, retryState,
                       nextDelay, emitted, silent>>
        /\ stage' = IF aborted \/ pollsLeft = 0 THEN "ended" ELSE "polling"
    BY <1>1 DEF Stream!Wake, Stream!config
  <2>2. Stream!NothingSkipped'
    BY <2>1, StreamFilters DEF StreamInv, Stream!NothingSkipped
  <2>3. QED
    BY <2>1, <2>2 DEF StreamInv, Stream!TypeOK, Stream!SilenceIsBounded
<1>2. CASE Stream!PageArrives
  BY <1>2, StreamPage
<1>3. ASSUME NEW transient \in BOOLEAN, Stream!PollFails(transient) PROVE StreamInv'
  BY <1>3, StreamFailure
<1>4. CASE Stream!Abort \/ Stream!LedgerCloses \/ UNCHANGED streamVars
  <2>1. /\ UNCHANGED <<order, autoRetry, pollsLeft, stage, cursor, lastEmitted, retryState,
                       nextDelay, emitted, silent>>
        /\ aborted' \in BOOLEAN
    BY <1>4 DEF Stream!Abort, Stream!LedgerCloses, streamVars, Stream!config, StreamInv, Stream!TypeOK
  <2>2. closed' \in 0..MaxTransactions /\ cursor' \in 0..closed'
    BY <1>4, <2>1, StreamAssumption
       DEF Stream!Abort, Stream!LedgerCloses, streamVars, StreamInv, Stream!TypeOK
  <2>3. Stream!NothingSkipped'
    BY <2>1, StreamFilters DEF StreamInv, Stream!NothingSkipped
  <2>4. QED
    BY <2>1, <2>2, <2>3 DEF StreamInv, Stream!TypeOK, Stream!SilenceIsBounded
<1>5. QED
  BY <1>1, <1>2, <1>3, <1>4 DEF Stream!Next

-----------------------------------------------------------------------------
\* The stream of an account (AccountStream): the last alert fits the balance that was
\* last seen unless a callback threw.
AccountInv ==
  /\ Account!TypeOK
  /\ Account!AlertsFit
  /\ ~accountRetry.inCooldown => accountRetry.failures < MaxFailures
  /\ accountStage = "polling" => accountPolls # 0

LEMMA AccountInit == Account!Init => AccountInv
<1> SUFFICES ASSUME Account!Init PROVE AccountInv
  OBVIOUS
<1>1. Account!NoFailure \in Account!RetryStates /\ Account!NoFailure.failures < MaxFailures
  BY RetryAssumption DEF Account!NoFailure, Account!RetryStates
<1>2. /\ BaseInterval \in MinInterval..MaxInterval /\ 0 \in 0..(AdaptiveThreshold - 1)
      /\ 0 \in 0..MaxChanges
  BY AccountAssumption
<1>3. accountPolls \in 0..Account!Unlimited
  BY DEF Account!Init, Account!Unlimited
<1>4. Account!TypeOK
  BY <1>1, <1>2, <1>3 DEF Account!Init, Account!TypeOK, Account!Delays
<1>5. ~(Account!NotYet >= 0)
  BY DEF Account!NotYet
<1>6. Account!AlertsFit
  BY <1>5 DEF Account!Init, Account!AlertsFit
<1>7. QED
  BY <1>1, <1>4, <1>6 DEF Account!Init, AccountInv

LEMMA AccountPollEnds ==
  ASSUME AccountInv, Account!PollEnds
  PROVE  /\ accountPolls' \in 0..Account!Unlimited /\ accountStage' = "sleeping"
         /\ UNCHANGED <<adaptive, account, changes, accountAborted>>
<1>1. accountPolls \in 0..3 /\ accountPolls # 0
  BY DEF AccountInv, Account!TypeOK, Account!Unlimited, Account!PollEnds
<1>2. accountPolls' = IF accountPolls = 3 THEN 3 ELSE accountPolls - 1
  BY DEF Account!PollEnds, Account!Unlimited
<1>3. QED
  BY <1>1, <1>2 DEF Account!Unlimited, Account!PollEnds

LEMMA IntervalAdapts ==
  ASSUME AccountInv, NEW changed \in BOOLEAN,
         Account!AdjustInterval(changed) \/ UNCHANGED <<currentInterval, unchangedPolls>>
  PROVE  currentInterval' \in MinInterval..MaxInterval /\ unchangedPolls' \in 0..(AdaptiveThreshold - 1)
<1>1. /\ currentInterval \in MinInterval..MaxInterval /\ unchangedPolls \in 0..(AdaptiveThreshold - 1)
      /\ MinInterval \in Nat /\ MaxInterval \in Nat /\ AdaptiveThreshold \in Nat \ {0}
  BY AccountAssumption DEF AccountInv, Account!TypeOK
<1>2. CASE UNCHANGED <<currentInterval, unchangedPolls>>
  BY <1>1, <1>2
<1>3. CASE Account!AdjustInterval(changed)
  BY <1>1, <1>3 DEF Account!AdjustInterval
<1>4. QED
  BY <1>2, <1>3

LEMMA AccountFailureCounts ==
  ASSUME AccountInv, NEW transient \in BOOLEAN, Account!Failed(transient)
  PROVE  /\ accountRetry' \in Account!RetryStates /\ accountDelay' \in Account!Delays
         /\ ~accountRetry'.inCooldown => accountRetry'.failures < MaxFailures
<1>1. /\ accountRetry \in [failures : 0..MaxFailures, inCooldown : BOOLEAN]
      /\ ~accountRetry.inCooldown => accountRetry.failures < MaxFailures
      /\ MaxFailures \in Nat \ {0}
  BY RetryAssumption DEF AccountInv, Account!TypeOK, Account!RetryStates
<1>2. /\ accountRetry' = Account!Counted(TRUE, accountRetry)
      /\ accountDelay' = Account!DelayAfterFailure(TRUE, accountRetry, transient)
  BY DEF Account!Failed
<1>3. accountDelay' \in Account!Delays
  BY <1>2 DEF Account!DelayAfterFailure, Account!Delays
<1>4. CASE accountRetry.inCooldown
  BY <1>1, <1>2, <1>3, <1>4 DEF Account!Counted, Account!RetryStates
<1>5. CASE ~accountRetry.inCooldown
  <2> DEFINE n == accountRetry.failures + 1
             reached == n >= MaxFailures
  <2>1. accountRetry' = [failures |-> n, inCooldown |-> reached]
    BY <1>2, <1>5 DEF Account!Counted, Account!LimitReached
  <2>2. n \in 0..MaxFailures /\ reached \in BOOLEAN /\ (~reached => n < MaxFailures)
    BY <1>1, <1>5
  <2> HIDE DEF n, reached
  <2>3. QED
    BY <1>3, <2>1, <2>2 DEF Account!RetryStates
<1>6. QED
  BY <1>4, <1>5

\* Who is told of a balance on one side of the threshold, and what the last alert is.
LEMMA AlertFollows ==
  ASSUME AccountInv, Account!Alert(Account!Fired(account))
  PROVE  /\ lastAlert' \in Account!Alerts \cup {"none"}
         /\ ~threw /\ account >= 0 =>
              /\ account < Threshold => lastAlert' = "below"
              /\ account > Threshold => lastAlert' = "above"
<1> DEFINE fired == Account!Fired(account)
<1>1. /\ account \in {-1} \cup 0..MaxBalance /\ accountEmitted \in {-1, -2} \cup 0..MaxBalance
      /\ MaxBalance \in Nat /\ Threshold \in Int /\ lastAlert \in {"below", "above", "none"}
  BY AccountAssumption DEF AccountInv, Account!TypeOK, Account!Balances, Account!Absent, Account!NotYet,
     Account!Alerts
<1>2. fired \subseteq {"below", "above"}
  BY DEF Account!Fired, Account!Alerts
<1>3. /\ "below" \in fired <=> Account!Crosses("below", accountEmitted, account)
      /\ "above" \in fired <=> Account!Crosses("above", accountEmitted, account)
  BY DEF Account!Fired, Account!Alerts
<1>4. lastAlert' = IF fired = {} THEN lastAlert ELSE CHOOSE rule \in fired : TRUE
  BY DEF Account!Alert
<1> HIDE DEF fired
<1>5. fired # {} => lastAlert' \in fired
  BY <1>4
<1>6. Account!Crosses("below", accountEmitted, account) <=>
        /\ account # -1 /\ account < Threshold
        /\ accountEmitted \in {-2, -1} \/ ~(accountEmitted < Threshold)
  BY DEF Account!Crosses, Account!Absent, Account!NotYet
<1>7. Account!Crosses("above", accountEmitted, account) <=>
        /\ account # -1 /\ account > Threshold
        /\ accountEmitted \in {-2, -1} \/ ~(accountEmitted > Threshold)
  BY DEF Account!Crosses, Account!Absent, Account!NotYet
<1>8. lastAlert' \in Account!Alerts \cup {"none"}
  BY <1>1, <1>2, <1>4, <1>5 DEF Account!Alerts
<1>9. ASSUME ~threw, account >= 0, account < Threshold PROVE lastAlert' = "below"
  <2>1. "above" \notin fired
    BY <1>1, <1>3, <1>7, <1>9
  <2>2. CASE "below" \in fired
    BY <1>2, <1>5, <2>1, <2>2
  <2>3. CASE "below" \notin fired
    <3>1. accountEmitted >= 0 /\ accountEmitted < Threshold
      BY <1>1, <1>3, <1>6, <1>9, <2>3
    <3>2. fired = {}
      BY <1>2, <2>1, <2>3
    <3>3. QED
      BY <1>4, <1>9, <3>1, <3>2 DEF AccountInv, Account!AlertsFit
  <2>4. QED
    BY <2>2, <2>3
<1>10. ASSUME ~threw, account >= 0, account > Threshold PROVE lastAlert' = "above"
  <2>1. "below" \notin fired
    BY <1>1, <1>3, <1>6, <1>10
  <2>2. CASE "above" \in fired
    BY <1>2, <1>5, <2>1, <2>2
  <2>3. CASE "above" \notin fired
    <3>1. accountEmitted >= 0 /\ accountEmitted > Threshold
      BY <1>1, <1>3, <1>7, <1>10, <2>3
    <3>2. fired = {}
      BY <1>2, <2>1, <2>3
    <3>3. QED
      BY <1>4, <1>10, <3>1, <3>2 DEF AccountInv, Account!AlertsFit
  <2>4. QED
    BY <2>2, <2>3
<1>11. QED
  BY <1>8, <1>9, <1>10

LEMMA AccountStepInv == AccountInv /\ [Account!Next]_accountVars => AccountInv'
<1> SUFFICES ASSUME AccountInv, [Account!Next]_accountVars PROVE AccountInv'
  OBVIOUS
<1>0. Account!TypeOK /\ Account!AlertsFit
  BY DEF AccountInv
<1>1. CASE Account!Wake
  BY <1>0, <1>1 DEF Account!Wake, AccountInv, Account!TypeOK, Account!AlertsFit
<1>2. CASE Account!PollSucceeds
  <2>1. /\ accountPolls' \in 0..Account!Unlimited /\ accountStage' = "sleeping"
        /\ UNCHANGED <<adaptive, account, changes, accountAborted, threw>>
        /\ accountEmitted' = account /\ accountRetry' = Account!NoFailure /\ accountDelay' = "interval"
    BY <1>2, AccountPollEnds DEF Account!PollSucceeds
  <2>2. currentInterval' \in MinInterval..MaxInterval /\ unchangedPolls' \in 0..(AdaptiveThreshold - 1)
    <3>1. (account # accountEmitted) \in BOOLEAN
      OBVIOUS
    <3>2. Account!AdjustInterval(account # accountEmitted) \/ UNCHANGED <<currentInterval, unchangedPolls>>
      BY <1>2 DEF Account!PollSucceeds
    <3>3. QED
      BY <3>1, <3>2, IntervalAdapts
  <2>3. /\ lastAlert' \in Account!Alerts \cup {"none"}
        /\ ~threw /\ account >= 0 =>
              /\ account < Threshold => lastAlert' = "below"
              /\ account > Threshold => lastAlert' = "above"
    BY <1>2, AlertFollows DEF Account!PollSucceeds
  <2>4. Account!NoFailure \in Account!RetryStates /\ Account!NoFailure.failures < MaxFailures
    BY RetryAssumption DEF Account!NoFailure, Account!RetryStates
  <2>5. Account!TypeOK'
    BY <1>0, <2>1, <2>2, <2>3, <2>4 DEF Account!TypeOK, Account!Delays
  <2>6. Account!AlertsFit'
    BY <2>1, <2>3 DEF Account!AlertsFit
  <2>7. QED
    BY <2>1, <2>4, <2>5, <2>6 DEF AccountInv
<1>3. ASSUME NEW transient \in BOOLEAN, Account!PollFails(transient) PROVE AccountInv'
  <2>1. /\ accountPolls' \in 0..Account!Unlimited /\ accountStage' = "sleeping"
        /\ UNCHANGED <<adaptive, account, changes, accountAborted, accountEmitted, lastAlert, threw>>
    BY <1>3, AccountPollEnds DEF Account!PollFails
  <2>2. currentInterval' \in MinInterval..MaxInterval /\ unchangedPolls' \in 0..(AdaptiveThreshold - 1)
    BY <1>3, IntervalAdapts DEF Account!PollFails
  <2>3. /\ accountRetry' \in Account!RetryStates /\ accountDelay' \in Account!Delays
        /\ ~accountRetry'.inCooldown => accountRetry'.failures < MaxFailures
    BY <1>3, AccountFailureCounts DEF Account!PollFails
  <2>4. QED
    BY <1>0, <2>1, <2>2, <2>3 DEF AccountInv, Account!TypeOK, Account!AlertsFit
<1>4. ASSUME NEW transient \in BOOLEAN, NEW atAlert \in BOOLEAN, Account!CallbackThrows(atAlert, transient)
      PROVE  AccountInv'
  <2>1. /\ accountPolls' \in 0..Account!Unlimited /\ accountStage' = "sleeping"
        /\ UNCHANGED <<adaptive, account, changes, accountAborted, accountEmitted, currentInterval,
                       unchangedPolls>>
        /\ threw' = TRUE
    BY <1>4, AccountPollEnds DEF Account!CallbackThrows
  <2>2. /\ accountRetry' \in Account!RetryStates /\ accountDelay' \in Account!Delays
        /\ ~accountRetry'.inCooldown => accountRetry'.failures < MaxFailures
    BY <1>4, AccountFailureCounts DEF Account!CallbackThrows
  <2>3. lastAlert' \in Account!Alerts \cup {"none"}
    <3>1. Account!Alert(Account!Fired(account)) \/ UNCHANGED lastAlert
      BY <1>4 DEF Account!CallbackThrows
    <3>2. QED
      BY <1>0, <3>1, AlertFollows DEF Account!TypeOK
  <2>4. QED
    BY <1>0, <2>1, <2>2, <2>3 DEF AccountInv, Account!TypeOK, Account!AlertsFit
<1>5. CASE Account!Abort
  BY <1>0, <1>5 DEF Account!Abort, AccountInv, Account!TypeOK, Account!AlertsFit
<1>6. ASSUME NEW balance \in Account!Balances, Account!AccountChanges(balance) PROVE AccountInv'
  <2>1. changes' \in 0..MaxChanges /\ account' \in Account!Balances
    BY <1>0, <1>6, AccountAssumption DEF Account!AccountChanges, Account!TypeOK
  <2>2. QED
    BY <1>0, <1>6, <2>1 DEF Account!AccountChanges, AccountInv, Account!TypeOK, Account!AlertsFit
<1>7. CASE UNCHANGED accountVars
  BY <1>0, <1>7 DEF accountVars, AccountInv, Account!TypeOK, Account!AlertsFit
<1>8. QED
  BY <1>1, <1>2, <1>3, <1>4, <1>5, <1>6, <1>7 DEF Account!Next, Account!Answer

-----------------------------------------------------------------------------
\* A call of a trigger, with the channels that have stayed registered since and the
\* registry: every attempt is within the budget, what is reported is what happened,
\* and the channels that stayed are still to be looked up or were.
CallFits(call, stayed, registry) ==
  /\ DOMAIN call = {"stage", "payment", "budget", "attempts", "outcome", "channels"}
  /\ call.stage \in {"idle", "webhooks", "payments", "channels", "done"}
  /\ DOMAIN call.budget = DOMAIN call.outcome /\ DOMAIN call.attempts = DOMAIN call.outcome
  /\ \A u \in DOMAIN call.outcome :
       /\ call.budget[u] \in Nat /\ call.attempts[u] \in 0..(call.budget[u] + 1)
       /\ call.outcome[u] \in {"trying", "ok", "error"}
       /\ call.outcome[u] = "trying" => call.attempts[u] <= call.budget[u]
       /\ call.outcome[u] = "ok" => call.attempts[u] \in 1..(call.budget[u] + 1)
       /\ call.outcome[u] = "error" => call.attempts[u] = call.budget[u] + 1
  /\ \A c \in DOMAIN call.channels : call.channels[c] \in {"trying", "ok", "error"}
  /\ call.stage = "webhooks" => call.payment = FALSE
  /\ call.stage \in {"idle", "webhooks", "payments"} => stayed \subseteq registry
  /\ call.stage \in {"channels", "done"} /\ call.payment # FALSE => stayed \subseteq DOMAIN call.channels

\* Notifications.
NotifyInv ==
  /\ Notify!TypeOK
  /\ Notify!ReportsAreTrue
  /\ DOMAIN calls = Triggers
  /\ \A t \in Triggers : CallFits(calls[t], constant[t], channelRegistry)

\* What a call reports follows from what fits.
LEMMA FittingCallReports ==
  ASSUME NEW call, NEW stayed, NEW registry, CallFits(call, stayed, registry)
  PROVE  /\ \A u \in DOMAIN call.outcome :
              /\ call.outcome[u] = "ok" => call.attempts[u] \in 1..(call.budget[u] + 1)
              /\ call.outcome[u] = "error" => call.attempts[u] = call.budget[u] + 1
         /\ call.stage = "done" /\ call.payment => stayed \subseteq DOMAIN call.channels
         /\ call.stage \in {"idle", "webhooks", "payments", "channels", "done"}
         /\ Notify!Range(call.outcome) \subseteq Notify!Outcomes
         /\ Notify!Range(call.channels) \subseteq Notify!Outcomes
         /\ \A u \in DOMAIN call.attempts : call.attempts[u] \in 0..(call.budget[u] + 1)
<1>1. call.payment => call.payment # FALSE
  OBVIOUS
<1>2. call.stage = "done" /\ call.payment # FALSE => stayed \subseteq DOMAIN call.channels
  BY DEF CallFits
<1>3. call.stage = "done" /\ call.payment => stayed \subseteq DOMAIN call.channels
  BY <1>1, <1>2, Zenon
<1>4. /\ call.stage \in {"idle", "webhooks", "payments", "channels", "done"}
      /\ Notify!Range(call.outcome) \subseteq Notify!Outcomes
      /\ Notify!Range(call.channels) \subseteq Notify!Outcomes
      /\ \A u \in DOMAIN call.attempts : call.attempts[u] \in 0..(call.budget[u] + 1)
  BY DEF CallFits, Notify!Range, Notify!Outcomes
<1>5. \A u \in DOMAIN call.outcome :
        /\ call.outcome[u] = "ok" => call.attempts[u] \in 1..(call.budget[u] + 1)
        /\ call.outcome[u] = "error" => call.attempts[u] = call.budget[u] + 1
  BY DEF CallFits
<1>6. QED
  BY <1>3, <1>4, <1>5, Zenon

LEMMA NotifyInit == Notify!Init => NotifyInv
<1> SUFFICES ASSUME Notify!Init PROVE NotifyInv
  OBVIOUS
<1>1. ASSUME NEW t \in Triggers PROVE CallFits(calls[t], constant[t], channelRegistry)
  BY DEF Notify!Init, Notify!NotYet, CallFits
<1>2. /\ webhookRegistry \subseteq Notify!Pairs
      /\ DOMAIN paymentWebhookRegistry \subseteq Notify!Pairs /\ Notify!Range(paymentWebhookRegistry) \subseteq Retries
      /\ channelRegistry \subseteq Channels /\ constant \in [Triggers -> SUBSET Channels]
  BY DEF Notify!Init, Notify!Range
<1>3. Notify!TypeOK /\ Notify!ReportsAreTrue
  BY <1>1, <1>2, FittingCallReports DEF Notify!TypeOK, Notify!ReportsAreTrue
<1>4. DOMAIN calls = Triggers
  BY DEF Notify!Init
<1>5. QED
  BY <1>1, <1>3, <1>4 DEF NotifyInv

\* A registration or its end: the calls stay, and no channel that stayed is lost.
LEMMA RegistryStepInv ==
  ASSUME NotifyInv,
         UNCHANGED calls,
         webhookRegistry' \subseteq Notify!Pairs,
         DOMAIN paymentWebhookRegistry' \subseteq Notify!Pairs,
         Notify!Range(paymentWebhookRegistry)' \subseteq Retries,
         channelRegistry' \subseteq Channels,
         \/ constant' = constant /\ channelRegistry \subseteq channelRegistry'
         \/ constant' = [t \in Triggers |-> {}]
  PROVE  NotifyInv'
<1>1. ASSUME NEW t \in Triggers PROVE CallFits(calls'[t], constant'[t], channelRegistry')
  BY DEF NotifyInv, CallFits
<1>2. constant' \in [Triggers -> SUBSET Channels]
  BY DEF NotifyInv, Notify!TypeOK
<1>3. Notify!TypeOK'
  BY <1>2 DEF NotifyInv, Notify!TypeOK, Notify!Range
<1>4. Notify!ReportsAreTrue'
  BY <1>1, FittingCallReports DEF Notify!ReportsAreTrue
<1>5. QED
  BY <1>1, <1>3, <1>4 DEF NotifyInv

\* A step of one call: the registries stay, and the call still fits.
LEMMA CallStepInv ==
  ASSUME NotifyInv, NEW t \in Triggers, NEW call,
         UNCHANGED <<webhookRegistry, paymentWebhookRegistry, channelRegistry>>,
         calls' = [calls EXCEPT ![t] = call],
         constant' \in [Triggers -> SUBSET Channels],
         \A s \in Triggers \ {t} : constant'[s] = constant[s],
         CallFits(call, constant'[t], channelRegistry)
  PROVE  NotifyInv'
<1>1. ASSUME NEW s \in Triggers PROVE CallFits(calls'[s], constant'[s], channelRegistry')
  <2>1. CASE s = t
    <3>1. calls'[s] = call /\ channelRegistry' = channelRegistry
      BY <2>1 DEF NotifyInv
    <3>2. QED
      BY <2>1, <3>1
  <2>2. CASE s # t
    <3>1. calls'[s] = calls[s] /\ constant'[s] = constant[s] /\ channelRegistry' = channelRegistry
      BY <2>2 DEF NotifyInv
    <3>2. QED
      BY <3>1 DEF NotifyInv
  <2>3. QED
    BY <2>1, <2>2
<1>2. DOMAIN calls' = Triggers
  BY DEF NotifyInv
<1>3. Notify!ReportsAreTrue'
  BY <1>1, FittingCallReports DEF Notify!ReportsAreTrue
<1>4. Notify!TypeOK'
  <2>1. \A s \in Triggers :
          /\ calls'[s].stage \in {"idle", "webhooks", "payments", "channels", "done"}
          /\ Notify!Range(calls'[s].outcome) \subseteq Notify!Outcomes
          /\ Notify!Range(calls'[s].channels) \subseteq Notify!Outcomes
          /\ \A u \in DOMAIN calls'[s].attempts : calls'[s].attempts[u] \in 0..(calls'[s].budget[u] + 1)
    BY <1>1, FittingCallReports
  <2>2. /\ webhookRegistry' \subseteq Notify!Pairs
        /\ DOMAIN paymentWebhookRegistry' \subseteq Notify!Pairs
        /\ Notify!Range(paymentWebhookRegistry)' \subseteq Retries
        /\ channelRegistry' \subseteq Channels
    BY DEF NotifyInv, Notify!TypeOK, Notify!Range
  <2>3. QED
    BY <2>1, <2>2 DEF Notify!TypeOK
<1>5. QED
  BY <1>1, <1>2, <1>3, <1>4 DEF NotifyInv

LEMMA NotifyStepInv == NotifyInv /\ [Notify!Next]_notifyVars => NotifyInv'
<1> SUFFICES ASSUME NotifyInv, [Notify!Next]_notifyVars PROVE NotifyInv'
  OBVIOUS
<1>0. Notify!TypeOK /\ DOMAIN calls = Triggers
  BY DEF NotifyInv
<1>1. ASSUME NEW events \in SUBSET HookEvents \ {{}}, NEW u \in Urls, Notify!RegisterWebhook(events, u)
      PROVE  NotifyInv'
  <2>1. webhookRegistry' \subseteq Notify!Pairs
    BY <1>0, <1>1 DEF Notify!RegisterWebhook, Notify!TypeOK, Notify!Pairs
  <2>2. UNCHANGED <<paymentWebhookRegistry, channelRegistry, calls, constant>>
    BY <1>1 DEF Notify!RegisterWebhook
  <2>3. QED
    BY <1>0, <2>1, <2>2, RegistryStepInv DEF Notify!TypeOK, Notify!Range
<1>2. ASSUME NEW events \in SUBSET HookEvents \ {{}}, NEW u \in Urls, NEW retries \in Retries,
             NEW channels \in SUBSET Channels, Notify!RegisterPaymentWebhook(events, u, retries, channels)
      PROVE  NotifyInv'
  <2> DEFINE new == events \X {u}
  <2>1. new \subseteq Notify!Pairs
    BY DEF Notify!Pairs
  <2>2. paymentWebhookRegistry' = [p \in new \cup DOMAIN paymentWebhookRegistry |->
          IF p \in new THEN retries ELSE paymentWebhookRegistry[p]]
    BY <1>2 DEF Notify!RegisterPaymentWebhook
  <2> HIDE DEF new
  <2>3. DOMAIN paymentWebhookRegistry' \subseteq Notify!Pairs
    BY <1>0, <2>1, <2>2 DEF Notify!TypeOK
  <2>4. ASSUME NEW p \in DOMAIN paymentWebhookRegistry PROVE paymentWebhookRegistry[p] \in Retries
    BY <1>0 DEF Notify!TypeOK, Notify!Range
  <2>5. Notify!Range(paymentWebhookRegistry)' \subseteq Retries
    BY <2>2, <2>4 DEF Notify!Range
  <2>6. /\ channelRegistry' = channelRegistry \cup channels
        /\ UNCHANGED <<webhookRegistry, calls, constant>>
    BY <1>2 DEF Notify!RegisterPaymentWebhook
  <2>7. QED
    BY <1>0, <2>3, <2>5, <2>6, RegistryStepInv DEF Notify!TypeOK
<1>3. ASSUME NEW e \in HookEvents, NEW u \in Urls, Notify!UnregisterWebhook(e, u) PROVE NotifyInv'
  <2>1. /\ webhookRegistry' \subseteq webhookRegistry
        /\ UNCHANGED <<paymentWebhookRegistry, channelRegistry, calls, constant>>
    BY <1>3 DEF Notify!UnregisterWebhook
  <2>2. QED
    BY <1>0, <2>1, RegistryStepInv DEF Notify!TypeOK, Notify!Range
<1>4. ASSUME NEW e \in HookEvents, NEW u \in Urls, Notify!UnregisterPaymentWebhook(e, u) PROVE NotifyInv'
  <2>1. /\ paymentWebhookRegistry' =
             [p \in DOMAIN paymentWebhookRegistry \ {<<e, u>>} |-> paymentWebhookRegistry[p]]
        /\ UNCHANGED <<webhookRegistry, channelRegistry, calls, constant>>
    BY <1>4 DEF Notify!UnregisterPaymentWebhook, Notify!Restrict
  <2>2. /\ DOMAIN paymentWebhookRegistry' \subseteq Notify!Pairs
        /\ Notify!Range(paymentWebhookRegistry)' \subseteq Retries
    BY <1>0, <2>1 DEF Notify!TypeOK, Notify!Range
  <2>3. QED
    BY <1>0, <2>1, <2>2, RegistryStepInv DEF Notify!TypeOK
<1>5. ASSUME NEW channels \in SUBSET Channels, Notify!RegisterRefused(channels) PROVE NotifyInv'
  <2>1. /\ channelRegistry' = channelRegistry \cup channels
        /\ UNCHANGED <<webhookRegistry, paymentWebhookRegistry, calls, constant>>
    BY <1>5 DEF Notify!RegisterRefused
  <2>2. QED
    BY <1>0, <2>1, RegistryStepInv DEF Notify!TypeOK, Notify!Range
<1>6. CASE Notify!ClearWebhooks
  <2>1. webhookRegistry' = {} /\ UNCHANGED <<paymentWebhookRegistry, channelRegistry, calls, constant>>
    BY <1>6 DEF Notify!ClearWebhooks
  <2>2. QED
    BY <1>0, <2>1, RegistryStepInv DEF Notify!TypeOK, Notify!Range
<1>7. CASE Notify!ClearPaymentWebhooks
  <2>1. /\ paymentWebhookRegistry' = <<>> /\ channelRegistry' = {}
        /\ constant' = [t \in Triggers |-> {}]
        /\ UNCHANGED <<webhookRegistry, calls>>
    BY <1>7 DEF Notify!ClearPaymentWebhooks
  <2>2. DOMAIN paymentWebhookRegistry' = {} /\ Notify!Range(paymentWebhookRegistry)' = {}
    BY <2>1 DEF Notify!Range
  <2>3. QED
    BY <1>0, <2>1, <2>2, RegistryStepInv DEF Notify!TypeOK
<1>8. ASSUME NEW t \in Triggers, NEW kind \in {"webhooks", "payments"}, NEW urls, NEW budget,
             budget \in [urls -> Nat], Notify!Trigger(t, kind, urls, budget)
      PROVE  NotifyInv'
  <2> DEFINE call == [stage |-> kind, payment |-> kind = "payments", budget |-> budget,
                      attempts |-> [u \in urls |-> 0], outcome |-> [u \in urls |-> "trying"],
                      channels |-> <<>>]
  <2>1. /\ calls' = [calls EXCEPT ![t] = call]
        /\ constant' = [constant EXCEPT ![t] = channelRegistry]
        /\ UNCHANGED <<webhookRegistry, paymentWebhookRegistry, channelRegistry>>
    BY <1>8 DEF Notify!Trigger
  <2>2. /\ DOMAIN call = {"stage", "payment", "budget", "attempts", "outcome", "channels"}
        /\ call.stage = kind /\ call.budget = budget
        /\ call.attempts = [u \in urls |-> 0] /\ call.outcome = [u \in urls |-> "trying"]
        /\ call.channels = <<>>
    OBVIOUS
  <2>3. kind = "webhooks" => call.payment = FALSE
    OBVIOUS
  <2> HIDE DEF call
  <2>4. constant' \in [Triggers -> SUBSET Channels] /\ constant'[t] = channelRegistry
    BY <1>0, <2>1 DEF Notify!TypeOK
  <2>5. \A s \in Triggers \ {t} : constant'[s] = constant[s]
    BY <1>0, <2>1 DEF Notify!TypeOK
  <2>6. ASSUME NEW u \in DOMAIN call.outcome
        PROVE  /\ call.budget[u] \in Nat /\ call.attempts[u] = 0
               /\ call.outcome[u] = "trying"
    BY <1>8, <2>2
  <2>7. /\ DOMAIN call.budget = DOMAIN call.outcome /\ DOMAIN call.attempts = DOMAIN call.outcome
        /\ DOMAIN call.channels = {}
    BY <1>8, <2>2
  <2>8. CallFits(call, constant'[t], channelRegistry)
    <3>1. /\ DOMAIN call = {"stage", "payment", "budget", "attempts", "outcome", "channels"}
          /\ call.stage \in {"webhooks", "payments"}
          /\ call.stage = "webhooks" => call.payment = FALSE
      BY <2>2, <2>3
    <3>2. \A u \in DOMAIN call.outcome :
            /\ call.budget[u] \in Nat /\ call.attempts[u] \in 0..(call.budget[u] + 1)
            /\ call.outcome[u] = "trying" /\ call.attempts[u] <= call.budget[u]
      BY <2>6
    <3>3. QED
      BY <2>4, <2>7, <3>1, <3>2 DEF CallFits
  <2>9. QED
    BY <2>1, <2>4, <2>5, <2>8, CallStepInv
<1>9. ASSUME NEW t \in Triggers, NEW e \in HookEvents, Notify!TriggerWebhooks(t, e) PROVE NotifyInv'
  <2> DEFINE urls == Notify!Listed(e, webhookRegistry)
  <2>1. Notify!Trigger(t, "webhooks", urls, [u \in urls |-> DefaultRetries])
    BY <1>9 DEF Notify!TriggerWebhooks
  <2>2. [u \in urls |-> DefaultRetries] \in [urls -> Nat]
    BY NotifyAssumption
  <2> HIDE DEF urls
  <2>3. QED
    BY <1>8, <2>1, <2>2
<1>10. ASSUME NEW t \in Triggers, NEW e \in HookEvents, Notify!TriggerPaymentNotifications(t, e)
       PROVE  NotifyInv'
  <2> DEFINE urls == Notify!Listed(e, DOMAIN paymentWebhookRegistry)
  <2>1. Notify!Trigger(t, "payments", urls, [u \in urls |-> paymentWebhookRegistry[<<e, u>>]])
    BY <1>10 DEF Notify!TriggerPaymentNotifications
  <2>2. ASSUME NEW u \in urls PROVE paymentWebhookRegistry[<<e, u>>] \in Nat
    <3>1. <<e, u>> \in DOMAIN paymentWebhookRegistry
      BY DEF Notify!Listed
    <3>2. QED
      BY <1>0, <3>1, NotifyAssumption DEF Notify!TypeOK, Notify!Range
  <2>3. [u \in urls |-> paymentWebhookRegistry[<<e, u>>]] \in [urls -> Nat]
    BY <2>2
  <2> HIDE DEF urls
  <2>4. QED
    BY <1>8, <2>1, <2>3
<1>11. ASSUME NEW t \in Triggers, NEW u \in Urls, NEW answered \in BOOLEAN, Notify!Attempt(t, u, answered)
       PROVE  NotifyInv'
  <2> DEFINE verdict == IF answered THEN "ok" ELSE IF Notify!Spent(calls[t], u) THEN "error" ELSE "trying"
             call    == [calls[t] EXCEPT !.attempts[u] = @ + 1, !.outcome[u] = verdict]
  <2>1. /\ calls' = [calls EXCEPT ![t] = call]
        /\ UNCHANGED <<webhookRegistry, paymentWebhookRegistry, channelRegistry, constant>>
    BY <1>0, <1>11 DEF Notify!Attempt
  <2>2. /\ CallFits(calls[t], constant[t], channelRegistry)
        /\ u \in DOMAIN calls[t].outcome /\ calls[t].outcome[u] = "trying"
        /\ calls[t].stage \in {"webhooks", "payments"}
    BY <1>11 DEF NotifyInv, Notify!Attempt
  <2>3. /\ calls[t].budget[u] \in Nat /\ calls[t].attempts[u] \in 0..calls[t].budget[u]
        /\ u \in DOMAIN calls[t].attempts
    BY <2>2 DEF CallFits
  <2>4. /\ verdict \in {"trying", "ok", "error"}
        /\ verdict = "error" => calls[t].attempts[u] = calls[t].budget[u]
        /\ verdict = "trying" => calls[t].attempts[u] # calls[t].budget[u]
    BY DEF Notify!Spent
  <2> HIDE DEF verdict
  <2>5. /\ DOMAIN call = DOMAIN calls[t]
        /\ call.stage = calls[t].stage /\ call.payment = calls[t].payment
        /\ call.budget = calls[t].budget /\ call.channels = calls[t].channels
        /\ call.attempts = [calls[t].attempts EXCEPT ![u] = @ + 1]
        /\ call.outcome = [calls[t].outcome EXCEPT ![u] = verdict]
    BY <2>2 DEF CallFits
  <2> HIDE DEF call
  <2>6. ASSUME NEW v \in DOMAIN call.outcome
        PROVE  /\ call.budget[v] \in Nat /\ call.attempts[v] \in 0..(call.budget[v] + 1)
               /\ call.outcome[v] \in {"trying", "ok", "error"}
               /\ call.outcome[v] = "trying" => call.attempts[v] <= call.budget[v]
               /\ call.outcome[v] = "ok" => call.attempts[v] \in 1..(call.budget[v] + 1)
               /\ call.outcome[v] = "error" => call.attempts[v] = call.budget[v] + 1
    <3>1. v \in DOMAIN calls[t].outcome
      BY <2>5
    <3>2. CASE v = u
      <4>1. call.attempts[v] = calls[t].attempts[u] + 1 /\ call.outcome[v] = verdict
            /\ call.budget[v] = calls[t].budget[u]
        BY <2>2, <2>3, <2>5, <3>2
      <4>2. QED
        BY <2>3, <2>4, <4>1
    <3>3. CASE v # u
      <4>1. v \in DOMAIN calls[t].attempts
        BY <2>2, <3>1 DEF CallFits
      <4>2. call.attempts[v] = calls[t].attempts[v] /\ call.outcome[v] = calls[t].outcome[v]
            /\ call.budget[v] = calls[t].budget[v]
        BY <2>5, <3>1, <3>3, <4>1
      <4>3. QED
        BY <2>2, <3>1, <4>2 DEF CallFits
    <3>4. QED
      BY <3>2, <3>3
  <2>7. /\ DOMAIN call.budget = DOMAIN call.outcome /\ DOMAIN call.attempts = DOMAIN call.outcome
        /\ DOMAIN call = {"stage", "payment", "budget", "attempts", "outcome", "channels"}
    BY <2>2, <2>5 DEF CallFits
  <2>8. CallFits(call, constant[t], channelRegistry)
    BY <2>2, <2>5, <2>6, <2>7 DEF CallFits
  <2>9. constant' \in [Triggers -> SUBSET Channels] /\ constant' = constant
    BY <1>0, <2>1 DEF Notify!TypeOK
  <2>10. QED
    BY <2>1, <2>8, <2>9, CallStepInv
<1>12. ASSUME NEW t \in Triggers, Notify!EndpointsDone(t) PROVE NotifyInv'
  <2> DEFINE next    == IF calls[t].stage = "webhooks" THEN "done" ELSE "channels"
             waiting == IF calls[t].stage = "webhooks" THEN <<>> ELSE [c \in channelRegistry |-> "trying"]
             call    == [calls[t] EXCEPT !.stage = next, !.channels = waiting]
  <2>1. /\ calls' = [calls EXCEPT ![t] = call]
        /\ UNCHANGED <<webhookRegistry, paymentWebhookRegistry, channelRegistry, constant>>
        /\ calls[t].stage \in {"webhooks", "payments"}
    BY <1>0, <1>12 DEF Notify!EndpointsDone
  <2>2. CallFits(calls[t], constant[t], channelRegistry)
    BY DEF NotifyInv
  <2>3. /\ DOMAIN call = DOMAIN calls[t]
        /\ call.stage = next /\ call.payment = calls[t].payment
        /\ call.budget = calls[t].budget /\ call.channels = waiting
        /\ call.attempts = calls[t].attempts /\ call.outcome = calls[t].outcome
    BY <2>2 DEF CallFits
  <2> HIDE DEF call
  <2>4. /\ \A c \in DOMAIN waiting : waiting[c] \in {"trying", "ok", "error"}
        /\ next \in {"channels", "done"}
    BY <2>1
  <2>5. CASE calls[t].stage = "webhooks"
    <3>1. call.payment = FALSE
      BY <2>2, <2>3, <2>5 DEF CallFits
    <3>2. QED
      <4>1. CallFits(call, constant[t], channelRegistry)
        BY <2>2, <2>3, <2>4, <3>1 DEF CallFits
      <4>2. constant' \in [Triggers -> SUBSET Channels] /\ constant' = constant
        BY <1>0, <2>1 DEF Notify!TypeOK
      <4>3. QED
        BY <2>1, <4>1, <4>2, CallStepInv
  <2>6. CASE calls[t].stage = "payments"
    <3>1. constant[t] \subseteq channelRegistry /\ DOMAIN waiting = channelRegistry
      BY <2>2, <2>6 DEF CallFits
    <3>2. CallFits(call, constant[t], channelRegistry)
      BY <2>2, <2>3, <2>4, <3>1 DEF CallFits
    <3>3. constant' \in [Triggers -> SUBSET Channels] /\ constant' = constant
      BY <1>0, <2>1 DEF Notify!TypeOK
    <3>4. QED
      BY <2>1, <3>2, <3>3, CallStepInv
  <2>7. QED
    BY <2>1, <2>5, <2>6
<1>13. ASSUME NEW t \in Triggers, NEW c \in Channels, NEW verdict \in {"ok", "error"},
              Notify!DeliverToChannel(t, c, verdict)
       PROVE  NotifyInv'
  <2> DEFINE call == [calls[t] EXCEPT !.channels[c] = verdict]
  <2>1. /\ calls' = [calls EXCEPT ![t] = call]
        /\ UNCHANGED <<webhookRegistry, paymentWebhookRegistry, channelRegistry, constant>>
        /\ calls[t].stage = "channels" /\ c \in DOMAIN calls[t].channels
    BY <1>0, <1>13 DEF Notify!DeliverToChannel
  <2>2. CallFits(calls[t], constant[t], channelRegistry)
    BY DEF NotifyInv
  <2>3. /\ DOMAIN call = DOMAIN calls[t]
        /\ call.stage = calls[t].stage /\ call.payment = calls[t].payment
        /\ call.budget = calls[t].budget /\ call.channels = [calls[t].channels EXCEPT ![c] = verdict]
        /\ call.attempts = calls[t].attempts /\ call.outcome = calls[t].outcome
    BY <2>2 DEF CallFits
  <2> HIDE DEF call
  <2>4. /\ DOMAIN call.channels = DOMAIN calls[t].channels
        /\ \A d \in DOMAIN call.channels : call.channels[d] \in {"trying", "ok", "error"}
    BY <2>2, <2>3 DEF CallFits
  <2>5. CallFits(call, constant[t], channelRegistry)
    BY <2>2, <2>3, <2>4 DEF CallFits
  <2>6. constant' \in [Triggers -> SUBSET Channels] /\ constant' = constant
    BY <1>0, <2>1 DEF Notify!TypeOK
  <2>7. QED
    BY <2>1, <2>5, <2>6, CallStepInv
<1>14. ASSUME NEW t \in Triggers, Notify!ChannelsDone(t) PROVE NotifyInv'
  <2> DEFINE call == [calls[t] EXCEPT !.stage = "done"]
  <2>1. /\ calls' = [calls EXCEPT ![t] = call]
        /\ UNCHANGED <<webhookRegistry, paymentWebhookRegistry, channelRegistry, constant>>
        /\ calls[t].stage = "channels"
    BY <1>0, <1>14 DEF Notify!ChannelsDone
  <2>2. CallFits(calls[t], constant[t], channelRegistry)
    BY DEF NotifyInv
  <2>3. /\ DOMAIN call = DOMAIN calls[t]
        /\ call.stage = "done" /\ call.payment = calls[t].payment
        /\ call.budget = calls[t].budget /\ call.channels = calls[t].channels
        /\ call.attempts = calls[t].attempts /\ call.outcome = calls[t].outcome
    BY <2>2 DEF CallFits
  <2> HIDE DEF call
  <2>4. CallFits(call, constant[t], channelRegistry)
    BY <2>1, <2>2, <2>3 DEF CallFits
  <2>5. constant' \in [Triggers -> SUBSET Channels] /\ constant' = constant
    BY <1>0, <2>1 DEF Notify!TypeOK
  <2>6. QED
    BY <2>1, <2>4, <2>5, CallStepInv
<1>15. CASE UNCHANGED notifyVars
  BY <1>0, <1>15, RegistryStepInv DEF notifyVars, Notify!TypeOK, Notify!Range
<1>16. QED
  BY <1>1, <1>2, <1>3, <1>4, <1>5, <1>6, <1>7, <1>9, <1>10, <1>11, <1>12, <1>13, <1>14, <1>15
  DEF Notify!Next, Notify!Proceed

-----------------------------------------------------------------------------
\* The operations of the queue that are done with, the attempts made so far, and the
\* places of the report that tell of a success.
Gone  == {i \in Batch!Indices : worker[i] = "gone"}
Tries == {t \in Batch!Indices \X (1..(MaxRetries + 1)) : t[2] <= attempts[t[1]]}

Successes(id) == {k \in Batch!Outcomes(id) : results[k][2] = "success"}

\* What is queued: nothing that was completed before, all the rest, each once if ids
\* are distinct.
QueueFits ==
  /\ \A k \in 1..Len(queue) : queue[k] \notin previouslyCompleted
  /\ \A k \in 1..Len(operations) :
       operations[k] \in previouslyCompleted \/ \E j \in 1..Len(queue) : queue[j] = operations[k]
  /\ Batch!Distinct => \A j, k \in 1..Len(queue) : queue[j] = queue[k] => j = k

\* Workers take the queue in order; as long as some of it waits, one of distinct
\* operations is under way.
WorkersFit ==
  /\ \A i \in Batch!Indices : worker[i] = "waiting" <=> i >= nextIndex \/ i > Len(queue)
  /\ \A i \in Batch!Indices \ Gone : attempts[i] <= MaxRetries
  /\ nextIndex + counter.running <= Len(queue) + 1 + Concurrency
  /\ Cardinality(Batch!Active) = counter.running /\ counter.running <= Concurrency
  /\ Batch!Distinct /\ nextIndex <= Len(queue) => Batch!Active # {}

CountersFit ==
  /\ counter.completed = Len(results)
  /\ counter.completed = counter.succeeded + counter.failed + counter.skipped
  /\ Len(results) + Len(queue) = Len(operations) + Cardinality(Gone)
  /\ counter.planned = Len(queue)
  /\ counter.retried <= counter.completed * MaxRetries

\* The report tells of what was skipped up front and of what is done with.
ReportFits ==
  /\ completedIds \subseteq previouslyCompleted \cup {queue[j] : j \in Gone}
  /\ \A k \in 1..Len(results) : results[k][1] \in previouslyCompleted \cup {queue[j] : j \in Gone}
  /\ \A k \in 1..Len(operations) :
       operations[k] \in previouslyCompleted => \E m \in 1..Len(results) : results[m][1] = operations[k]
  /\ \A j \in Gone : \E m \in 1..Len(results) : results[m][1] = queue[j]
  /\ Batch!Distinct => \A k, m \in 1..Len(results) : results[k][1] = results[m][1] => k = m

LandedFits ==
  /\ \A id \in OperationIds : landed[id] <= Cardinality(Tries)
  /\ \A id \in OperationIds \cap previouslyCompleted : landed[id] = 0
  /\ \A id \in OperationIds : Cardinality(Successes(id)) <= landed[id]

\* The batch.
BatchInv ==
  /\ Batch!TypeOK
  /\ QueueFits
  /\ WorkersFit
  /\ CountersFit
  /\ ReportFits
  /\ LandedFits

LEMMA BatchFilters ==
  ASSUME NEW list, NEW kept
  PROVE  Batch!Filtered(list, kept) = Filtered(list, kept)
BY DEF Batch!Filtered, Filtered, Batch!InOrder, InOrder, Batch!Rank, Rank, Batch!Cardinality, Cardinality

LEMMA BatchCounts == ASSUME NEW S PROVE Batch!Cardinality(S) = Cardinality(S)
BY DEF Batch!Cardinality, Cardinality

LEMMA LongestPlan ==
  /\ Batch!MaxLength \in Nat /\ Batch!Indices = 1..Batch!MaxLength
  /\ \A p \in Plans : p \in Seq(OperationIds) /\ Len(p) \in 0..Batch!MaxLength
<1>1. PICK p \in Plans : \A q \in Plans : Len(q) <= Len(p)
  BY BatchAssumption
<1>2. \E n \in {Len(q) : q \in Plans} : \A q \in Plans : Len(q) <= n
  BY <1>1
<1>3. Batch!MaxLength \in {Len(q) : q \in Plans} /\ \A q \in Plans : Len(q) <= Batch!MaxLength
  BY <1>2 DEF Batch!MaxLength
<1>4. \A q \in Plans : q \in Seq(OperationIds) /\ Len(q) \in Nat
  BY BatchAssumption, LenProperties
<1>5. QED
  BY <1>3, <1>4 DEF Batch!Indices

\* Products keep an order.
LEMMA ProductsFollow ==
  ASSUME NEW a \in Nat, NEW b \in Nat, NEW c \in Nat, a <= b
  PROVE  a * c \in Nat /\ b * c \in Nat /\ a * c <= b * c /\ (a + 1) * c = a * c + c
OBVIOUS

\* A filter and its complement share the list out.
LEMMA FilteredInHalves ==
  ASSUME NEW S, NEW list \in Seq(S), NEW kept
  PROVE  Len(Filtered(list, kept)) + Len(Filtered(list, S \ kept)) = Len(list)
<1> DEFINE P == Places(list, kept)
           Q == Places(list, S \ kept)
<1>1. P \cap Q = {} /\ P \cup Q = 1..Len(list)
  BY DEF Places
<1>2. IsFiniteSet(P) /\ IsFiniteSet(Q)
  BY PlacesAreFinite
<1>3. Len(Filtered(list, kept)) = Cardinality(P) /\ Len(Filtered(list, S \ kept)) = Cardinality(Q)
  BY FilteredElements
<1>4. Len(list) \in Nat
  BY LenProperties
<1> HIDE DEF P, Q
<1>5. Cardinality(1..Len(list)) = Cardinality(P) + Cardinality(Q)
  BY <1>1, <1>2, DisjointUnion
<1>6. QED
  BY <1>3, <1>4, <1>5, UpTo

\* A filter repeats nothing that the list does not repeat.
LEMMA FilteredIsInjective ==
  ASSUME NEW S, NEW list \in Seq(S), NEW kept,
         \A i, j \in 1..Len(list) : list[i] = list[j] => i = j,
         NEW j \in 1..Len(Filtered(list, kept)), NEW k \in 1..Len(Filtered(list, kept)),
         Filtered(list, kept)[j] = Filtered(list, kept)[k]
  PROVE  j = k
<1> DEFINE P == Places(list, kept)
<1>1. P \in SUBSET Nat /\ IsFiniteSet(P) /\ P \subseteq 1..Len(list)
  BY PlacesAreFinite
<1>2. Len(Filtered(list, kept)) = Cardinality(P)
  BY FilteredElements
<1>3. j \in 1..Cardinality(P) /\ k \in 1..Cardinality(P)
  BY <1>2
<1>4. /\ InOrder(P)[j] \in P /\ InOrder(P)[k] \in P
      /\ Filtered(list, kept)[j] = list[InOrder(P)[j]]
      /\ Filtered(list, kept)[k] = list[InOrder(P)[k]]
  BY <1>3, FilteredAt
<1> HIDE DEF P
<1>5. Rank(P, InOrder(P)[j]) = j /\ Rank(P, InOrder(P)[k]) = k
  BY <1>1, <1>3, PlacesInOrder
<1>6. InOrder(P)[j] = InOrder(P)[k]
  BY <1>1, <1>4
<1>7. QED
  BY <1>5, <1>6

\* An element that passes is kept.
LEMMA FilteredKeeps ==
  ASSUME NEW S, NEW list \in Seq(S), NEW kept, NEW i \in 1..Len(list), list[i] \in kept
  PROVE  \E k \in 1..Len(Filtered(list, kept)) : Filtered(list, kept)[k] = list[i]
<1>1. i \in Places(list, kept)
  BY DEF Places
<1>2. Filtered(list, kept) \in Seq(S \cap kept)
  BY FilteredElements
<1> DEFINE f == Filtered(list, kept)
           k == Rank(Places(list, kept), i)
<1>3. k \in DOMAIN f /\ f[k] = list[i]
  BY <1>1, FilteredIsComplete
<1>4. f \in Seq(S \cap kept)
  BY <1>2
<1> HIDE DEF f, k
<1>5. k \in 1..Len(f)
  BY <1>3, <1>4, LenProperties
<1>6. QED
  BY <1>3, <1>5 DEF f

\* Indices under way and indices that are done with are among the first ones, and
\* none is both.
LEMMA ActiveAndGone ==
  ASSUME NEW N \in Nat, NEW w, NEW n \in 0..N, \A i \in 1..N : i > n => w[i] = "waiting"
  PROVE  LET A == {i \in 1..N : w[i] \in {"running", "delaying"}}
             G == {i \in 1..N : w[i] = "gone"}
         IN  /\ IsFiniteSet(A) /\ IsFiniteSet(G)
             /\ Cardinality(A) \in Nat /\ Cardinality(G) \in Nat
             /\ Cardinality(A) + Cardinality(G) <= n
             /\ (A = {} /\ (\A i \in 1..n : w[i] \in {"gone", "running", "delaying"})) => Cardinality(G) = n
<1> DEFINE A == {i \in 1..N : w[i] \in {"running", "delaying"}}
           G == {i \in 1..N : w[i] = "gone"}
<1>1. A \cap G = {} /\ A \subseteq 1..n /\ G \subseteq 1..n
  OBVIOUS
<1>2. (A = {} /\ (\A i \in 1..n : w[i] \in {"gone", "running", "delaying"})) => G = 1..n
  OBVIOUS
<1>3. IsFiniteSet(1..n) /\ Cardinality(1..n) = n
  BY UpTo
<1> HIDE DEF A, G
<1>4. IsFiniteSet(A) /\ IsFiniteSet(G)
  BY <1>1, <1>3, FS_Subset
<1>5. Cardinality(A) \in Nat /\ Cardinality(G) \in Nat
  BY <1>4, FS_CardinalityType
<1>6. Cardinality(A \cup G) = Cardinality(A) + Cardinality(G)
  BY <1>1, <1>4, DisjointUnion
<1>7. A \cup G \in SUBSET (1..n)
  BY <1>1
<1>8. Cardinality(A \cup G) <= n
  BY <1>3, <1>7, FS_Subset
<1>9. QED
  BY <1>2, <1>3, <1>4, <1>5, <1>6, <1>8 DEF A, G

\* What is queued and what is skipped up front.
LEMMA SharedOut ==
  ASSUME NEW list \in Seq(OperationIds), NEW before \in SUBSET OperationIds
  PROVE  LET todo == Filtered(list, OperationIds \ before)
             done == Filtered(list, before)
         IN  /\ todo \in Seq(OperationIds) /\ done \in Seq(OperationIds)
             /\ \A k \in 1..Len(todo) : todo[k] \notin before
             /\ \A k \in 1..Len(done) : done[k] \in before
             /\ Len(todo) \in Nat /\ Len(done) \in Nat /\ Len(done) + Len(todo) = Len(list)
             /\ \A k \in 1..Len(list) :
                  \/ list[k] \in before /\ \E j \in 1..Len(done) : done[j] = list[k]
                  \/ list[k] \notin before /\ \E j \in 1..Len(todo) : todo[j] = list[k]
             /\ (\A i, j \in 1..Len(list) : list[i] = list[j] => i = j) =>
                  /\ \A i, j \in 1..Len(todo) : todo[i] = todo[j] => i = j
                  /\ \A i, j \in 1..Len(done) : done[i] = done[j] => i = j
<1> DEFINE todo == Filtered(list, OperationIds \ before)
           done == Filtered(list, before)
<1>1. /\ todo \in Seq(OperationIds \cap (OperationIds \ before))
      /\ done \in Seq(OperationIds \cap before)
  BY FilteredElements
<1>2. Len(done) + Len(todo) = Len(list)
  BY FilteredInHalves
<1>3. ASSUME NEW k \in 1..Len(list), list[k] \in before PROVE \E j \in 1..Len(done) : done[j] = list[k]
  BY <1>3, FilteredKeeps
<1>4. ASSUME NEW k \in 1..Len(list), list[k] \notin before
      PROVE  \E j \in 1..Len(todo) : todo[j] = list[k]
  <2>1. list[k] \in OperationIds \ before
    BY <1>4, ElementOfSeq
  <2>2. QED
    BY <2>1, FilteredKeeps
<1>5. ASSUME \A i, j \in 1..Len(list) : list[i] = list[j] => i = j
      PROVE  /\ \A i, j \in 1..Len(todo) : todo[i] = todo[j] => i = j
             /\ \A i, j \in 1..Len(done) : done[i] = done[j] => i = j
  <2>1. ASSUME NEW i \in 1..Len(todo), NEW j \in 1..Len(todo), todo[i] = todo[j] PROVE i = j
    BY <1>5, <2>1, FilteredIsInjective
  <2>2. ASSUME NEW i \in 1..Len(done), NEW j \in 1..Len(done), done[i] = done[j] PROVE i = j
    BY <1>5, <2>2, FilteredIsInjective
  <2>3. QED
    BY <2>1, <2>2
<1> HIDE DEF todo, done
<1>6. /\ todo \in Seq(OperationIds) /\ done \in Seq(OperationIds)
      /\ Len(todo) \in Nat /\ Len(done) \in Nat
      /\ \A k \in 1..Len(todo) : todo[k] \notin before
      /\ \A k \in 1..Len(done) : done[k] \in before
  BY <1>1, SeqMonotonic, LenProperties, ElementOfSeq
<1>7. QED
  BY <1>2, <1>3, <1>4, <1>5, <1>6 DEF todo, done

LEMMA BatchInit == Batch!Init => BatchInv
<1> SUFFICES ASSUME Batch!Init PROVE BatchInv
  OBVIOUS
<1> DEFINE done   == Filtered(operations, previouslyCompleted)
           seeded == Batch!Smaller(Concurrency, Len(queue))
           N      == Batch!MaxLength
<1>1. /\ N \in Nat /\ Batch!Indices = 1..N /\ operations \in Plans /\ operations \in Seq(OperationIds)
      /\ Len(operations) \in 0..N /\ previouslyCompleted \in SUBSET OperationIds
      /\ completedIds = previouslyCompleted
  BY LongestPlan DEF Batch!Init
<1>2. queue = Filtered(operations, OperationIds \ previouslyCompleted)
  BY BatchFilters DEF Batch!Init
<1>3. /\ results = [k \in DOMAIN done |-> <<done[k], "skipped">>]
      /\ nextIndex = seeded + 1
      /\ worker = [i \in Batch!Indices |-> IF i <= seeded THEN "running" ELSE "waiting"]
      /\ counter = [planned |-> Len(queue), running |-> seeded, succeeded |-> 0, failed |-> 0,
                    skipped |-> Len(done), completed |-> Len(done), retried |-> 0]
      /\ attempts = [i \in Batch!Indices |-> 0] /\ landed = [id \in OperationIds |-> 0]
  BY BatchFilters DEF Batch!Init
<1>4. /\ queue \in Seq(OperationIds) /\ done \in Seq(OperationIds)
      /\ \A k \in 1..Len(queue) : queue[k] \notin previouslyCompleted
      /\ \A k \in 1..Len(done) : done[k] \in previouslyCompleted
      /\ Len(queue) \in Nat /\ Len(done) \in Nat /\ Len(done) + Len(queue) = Len(operations)
      /\ \A k \in 1..Len(operations) :
           \/ operations[k] \in previouslyCompleted /\ \E j \in 1..Len(done) : done[j] = operations[k]
           \/ operations[k] \notin previouslyCompleted /\ \E j \in 1..Len(queue) : queue[j] = operations[k]
      /\ (\A i, j \in 1..Len(operations) : operations[i] = operations[j] => i = j) =>
           /\ \A i, j \in 1..Len(queue) : queue[i] = queue[j] => i = j
           /\ \A i, j \in 1..Len(done) : done[i] = done[j] => i = j
  <2> DEFINE todo == Filtered(operations, OperationIds \ previouslyCompleted)
  <2>1. /\ todo \in Seq(OperationIds) /\ done \in Seq(OperationIds)
        /\ \A k \in 1..Len(todo) : todo[k] \notin previouslyCompleted
        /\ \A k \in 1..Len(done) : done[k] \in previouslyCompleted
        /\ Len(todo) \in Nat /\ Len(done) \in Nat /\ Len(done) + Len(todo) = Len(operations)
        /\ \A k \in 1..Len(operations) :
             \/ operations[k] \in previouslyCompleted /\ \E j \in 1..Len(done) : done[j] = operations[k]
             \/ operations[k] \notin previouslyCompleted /\ \E j \in 1..Len(todo) : todo[j] = operations[k]
        /\ (\A i, j \in 1..Len(operations) : operations[i] = operations[j] => i = j) =>
             /\ \A i, j \in 1..Len(todo) : todo[i] = todo[j] => i = j
             /\ \A i, j \in 1..Len(done) : done[i] = done[j] => i = j
    BY <1>1, SharedOut
  <2>2. queue = todo
    BY <1>2
  <2> HIDE DEF todo, done
  <2>3. QED
    BY <2>1, <2>2
<1> HIDE DEF done
<1>5. /\ seeded \in 0..Len(queue) /\ seeded <= Concurrency
      /\ Len(queue) > 0 => seeded > 0
      /\ Concurrency \in Nat \ {0} /\ MaxRetries \in Nat
  BY <1>4, BatchAssumption DEF Batch!Smaller
<1> HIDE DEF seeded, N
<1>6. Batch!Distinct => \A i, j \in 1..Len(operations) : operations[i] = operations[j] => i = j
  BY <1>1, LenProperties DEF Batch!Distinct, Batch!IsInjective
<1>7. DOMAIN done = 1..Len(done)
  BY <1>4, LenProperties
<1>8. /\ results \in Seq(OperationIds \X Batch!Statuses) /\ Len(results) = Len(done)
      /\ \A k \in 1..Len(results) : results[k] = <<done[k], "skipped">>
  BY <1>3, <1>4, <1>7 DEF Batch!Statuses
<1>9. Batch!Active = 1..seeded /\ Gone = {}
  BY <1>1, <1>3, <1>4, <1>5 DEF Batch!Active, Gone
<1>10. Cardinality(Batch!Active) = seeded /\ Cardinality(Gone) = 0
  BY <1>5, <1>9, UpTo, FS_EmptySet
<1>11. QueueFits
  BY <1>4, <1>6 DEF QueueFits
<1>12. WorkersFit
  <2>1. \A i \in Batch!Indices : worker[i] = "waiting" <=> i >= nextIndex \/ i > Len(queue)
    BY <1>1, <1>3, <1>4, <1>5
  <2>2. \A i \in Batch!Indices \ Gone : attempts[i] <= MaxRetries
    BY <1>1, <1>3, <1>5
  <2>3. counter.running = seeded
    BY <1>3
  <2>4. nextIndex + counter.running <= Len(queue) + 1 + Concurrency
    BY <1>3, <1>4, <1>5, <2>3
  <2>5. nextIndex <= Len(queue) => Batch!Active # {}
    <3>1. nextIndex <= Len(queue) => Len(queue) > 0
      BY <1>3, <1>4, <1>5
    <3>2. nextIndex <= Len(queue) => 1 \in 1..seeded
      BY <1>5, <3>1
    <3>3. QED
      BY <1>9, <3>2
  <2>6. QED
    BY <1>5, <1>10, <2>1, <2>2, <2>3, <2>4, <2>5 DEF WorkersFit
<1>13. CountersFit
  <2>1. /\ counter.completed = Len(done) /\ counter.succeeded = 0 /\ counter.failed = 0
        /\ counter.skipped = Len(done) /\ counter.planned = Len(queue) /\ counter.retried = 0
    BY <1>3
  <2>2. Len(done) * MaxRetries \in Nat
    BY <1>4, <1>5, ProductsFollow
  <2>3. QED
    BY <1>4, <1>8, <1>10, <2>1, <2>2 DEF CountersFit
<1>14. ReportFits
  <2>1. completedIds \subseteq previouslyCompleted \cup {queue[j] : j \in Gone}
    BY <1>1
  <2>2. \A k \in 1..Len(results) : results[k][1] = done[k]
    BY <1>8
  <2>3. \A k \in 1..Len(results) : results[k][1] \in previouslyCompleted \cup {queue[j] : j \in Gone}
    BY <1>4, <1>8, <2>2
  <2>4. \A k \in 1..Len(operations) :
          operations[k] \in previouslyCompleted => \E m \in 1..Len(results) : results[m][1] = operations[k]
    BY <1>4, <1>8, <2>2
  <2>5. Batch!Distinct => \A k, m \in 1..Len(results) : results[k][1] = results[m][1] => k = m
    BY <1>4, <1>6, <1>8, <2>2
  <2>6. QED
    BY <1>9, <2>1, <2>3, <2>4, <2>5 DEF ReportFits
<1>15. Tries = {}
  BY <1>3, <1>5 DEF Tries
<1>16. LandedFits
  <2>1. ASSUME NEW id \in OperationIds PROVE Cardinality(Successes(id)) = 0
    <3>1. DOMAIN results = 1..Len(results)
      BY <1>8, LenProperties
    <3>2. Successes(id) = {}
      BY <1>8, <3>1 DEF Successes, Batch!Outcomes
    <3>3. QED
      BY <3>2, FS_EmptySet
  <2>2. \A id \in OperationIds : landed[id] = 0
    BY <1>3
  <2>3. QED
    BY <1>15, <2>1, <2>2, FS_EmptySet DEF LandedFits
<1>17. Batch!TypeOK
  <2>1. counter \in Batch!Counters
    <3>1. 0 \in 0..(N * MaxRetries)
      BY <1>1, <1>5, ProductsFollow
    <3>2. Len(queue) \in 0..N /\ seeded \in 0..N /\ Len(done) \in 0..N /\ 0 \in 0..N
      BY <1>1, <1>4, <1>5
    <3>3. QED
      BY <1>3, <3>1, <3>2 DEF Batch!Counters, N
  <2>2. landed \in [OperationIds -> 0..(N * (MaxRetries + 1))]
    <3>1. MaxRetries + 1 \in Nat
      BY <1>5
    <3>2. 0 \in 0..(N * (MaxRetries + 1))
      BY <1>1, <3>1, ProductsFollow
    <3>3. QED
      BY <1>3, <3>2
  <2>3. nextIndex \in 1..(N + Concurrency + 1)
    BY <1>1, <1>3, <1>4, <1>5
  <2>4. worker \in [Batch!Indices -> Batch!Activities] /\ attempts \in [Batch!Indices -> 0..(MaxRetries + 1)]
    BY <1>3, <1>5 DEF Batch!Activities
  <2>5. Len(queue) <= Len(operations)
    BY <1>1, <1>4
  <2>6. QED
    BY <1>1, <1>4, <1>8, <2>1, <2>2, <2>3, <2>4, <2>5 DEF Batch!TypeOK, N
<1>18. QED
  BY <1>11, <1>12, <1>13, <1>14, <1>16, <1>17 DEF BatchInv

\* What a worker under way finds.
LEMMA WorkerUnderWay ==
  ASSUME BatchInv, NEW i \in Batch!Indices, i \in Batch!Active
  PROVE  /\ i \in 1..Len(queue) /\ i < nextIndex
         /\ queue[i] \in OperationIds /\ queue[i] \notin previouslyCompleted
         /\ attempts[i] \in 0..MaxRetries
         /\ Len(queue) \in 0..Batch!MaxLength /\ nextIndex \in Nat
<1>1. worker[i] # "waiting"
  BY DEF Batch!Active
<1>2. /\ nextIndex \in 1..(Batch!MaxLength + Concurrency + 1)
      /\ queue \in Seq(OperationIds) /\ Len(queue) <= Len(operations) /\ operations \in Plans
      /\ attempts \in [Batch!Indices -> 0..(MaxRetries + 1)]
  BY DEF BatchInv, Batch!TypeOK
<1>3. /\ Batch!MaxLength \in Nat /\ Batch!Indices = 1..Batch!MaxLength
      /\ Len(operations) \in 0..Batch!MaxLength /\ Concurrency \in Nat /\ MaxRetries \in Nat
  BY <1>2, LongestPlan, BatchAssumption
<1>4. Len(queue) \in 0..Batch!MaxLength /\ nextIndex \in Nat
  BY <1>2, <1>3, LenProperties
<1>5. i < nextIndex /\ i \in 1..Len(queue)
  BY <1>1, <1>3, <1>4 DEF BatchInv, WorkersFit
<1>6. queue[i] \in OperationIds
  BY <1>2, <1>5, ElementOfSeq
<1>7. queue[i] \notin previouslyCompleted
  BY <1>5 DEF BatchInv, QueueFits
<1>8. attempts[i] \in 0..MaxRetries
  BY <1>2, <1>3 DEF BatchInv, WorkersFit, Batch!Active, Gone
<1>9. QED
  BY <1>4, <1>5, <1>6, <1>7, <1>8

\* An answer is one more attempt, and takes effect at most once.
LEMMA AnswerFits ==
  ASSUME BatchInv, NEW i \in Batch!Indices, NEW lands \in BOOLEAN, Batch!Answers(i, lands),
         UNCHANGED previouslyCompleted
  PROVE  /\ attempts' \in [Batch!Indices -> 0..(MaxRetries + 1)]
         /\ attempts'[i] = attempts[i] + 1
         /\ \A j \in Batch!Indices \ {i} : attempts'[j] = attempts[j]
         /\ landed' \in [OperationIds -> 0..(Batch!MaxLength * (MaxRetries + 1))]
         /\ \A id \in OperationIds : landed'[id] <= Cardinality(Tries')
         /\ \A id \in OperationIds \cap previouslyCompleted' : landed'[id] = 0
         /\ \A id \in OperationIds : landed[id] <= landed'[id]
         /\ lands = TRUE => landed'[queue[i]] = landed[queue[i]] + 1
<1> DEFINE N == Batch!MaxLength
           M == MaxRetries + 1
<1>1. i \in Batch!Active /\ worker[i] = "running"
  BY DEF Batch!Answers, Batch!Active
<1>2. /\ queue[i] \in OperationIds /\ queue[i] \notin previouslyCompleted
      /\ attempts[i] \in 0..MaxRetries
  BY <1>1, WorkerUnderWay
<1>3. /\ attempts \in [Batch!Indices -> 0..M] /\ landed \in [OperationIds -> 0..(N * M)]
      /\ N \in Nat /\ Batch!Indices = 1..N /\ MaxRetries \in Nat /\ M \in Nat
  BY LongestPlan, BatchAssumption DEF BatchInv, Batch!TypeOK
<1>4. /\ attempts' = [attempts EXCEPT ![i] = @ + 1]
      /\ landed' = IF lands THEN [landed EXCEPT ![queue[i]] = @ + 1] ELSE landed
  BY DEF Batch!Answers
<1>5. /\ attempts' \in [Batch!Indices -> 0..M] /\ attempts'[i] = attempts[i] + 1
      /\ \A j \in Batch!Indices \ {i} : attempts'[j] = attempts[j]
  BY <1>2, <1>3, <1>4
<1>6. Tries \in SUBSET ((1..N) \X (1..M)) /\ Tries' \in SUBSET ((1..N) \X (1..M))
  BY <1>3 DEF Tries
<1>7. /\ IsFiniteSet((1..N) \X (1..M)) /\ Cardinality((1..N) \X (1..M)) = N * M
  <2>1. IsFiniteSet(1..N) /\ IsFiniteSet(1..M) /\ Cardinality(1..N) = N /\ Cardinality(1..M) = M
    BY <1>3, UpTo
  <2> HIDE DEF N, M
  <2>2. QED
    BY <2>1, FS_Product
<1>8. /\ IsFiniteSet(Tries) /\ Cardinality(Tries) \in Nat
      /\ IsFiniteSet(Tries') /\ Cardinality(Tries') \in Nat /\ Cardinality(Tries') <= N * M
  <2> HIDE DEF N, M
  <2>1. IsFiniteSet(Tries) /\ IsFiniteSet(Tries')
    BY <1>6, <1>7, FS_Subset
  <2>2. Cardinality(Tries') <= N * M
    BY <1>6, <1>7, FS_Subset
  <2>3. QED
    BY <2>1, <2>2, FS_CardinalityType
<1>9. Tries' = Tries \cup {<<i, attempts[i] + 1>>} /\ <<i, attempts[i] + 1>> \notin Tries
  <2>1. ASSUME NEW t \in Batch!Indices \X (1..M)
        PROVE  t[2] <= attempts'[t[1]] <=> t[2] <= attempts[t[1]] \/ t = <<i, attempts[i] + 1>>
    <3>1. PICK j \in Batch!Indices, k \in 1..M : t = <<j, k>>
      OBVIOUS
    <3>2. CASE j = i
      BY <1>2, <1>3, <1>5, <3>1, <3>2
    <3>3. CASE j # i
      BY <1>3, <1>5, <3>1, <3>3
    <3>4. QED
      BY <3>2, <3>3
  <2>2. <<i, attempts[i] + 1>> \in Batch!Indices \X (1..M)
    BY <1>2, <1>3
  <2>3. ~(attempts[i] + 1 <= attempts[i])
    BY <1>2, <1>3
  <2>4. QED
    BY <2>1, <2>2, <2>3 DEF Tries
<1>10. Cardinality(Tries') = Cardinality(Tries) + 1
  BY <1>8, <1>9, FS_AddElement
<1>11. ASSUME NEW id \in OperationIds
       PROVE  /\ landed'[id] \in Nat /\ landed[id] \in Nat
              /\ landed[id] <= landed'[id] /\ landed'[id] <= landed[id] + 1
              /\ id # queue[i] => landed'[id] = landed[id]
              /\ lands = TRUE => landed'[queue[i]] = landed[queue[i]] + 1
  <2>1. landed[id] \in Nat /\ landed[queue[i]] \in Nat
    BY <1>2, <1>3
  <2>2. CASE lands
    BY <1>2, <1>3, <1>4, <2>1, <2>2
  <2>3. CASE ~lands
    BY <1>4, <2>1, <2>3
  <2>4. QED
    BY <2>2, <2>3
<1>12. ASSUME NEW id \in OperationIds PROVE landed'[id] <= Cardinality(Tries')
  <2>1. landed[id] <= Cardinality(Tries)
    BY DEF BatchInv, LandedFits
  <2>2. /\ landed'[id] \in Nat /\ landed[id] \in Nat /\ landed'[id] <= landed[id] + 1
        /\ Cardinality(Tries) \in Nat /\ Cardinality(Tries') = Cardinality(Tries) + 1
    BY <1>8, <1>10, <1>11
  <2>3. QED
    BY <2>1, <2>2
<1>13. landed' \in [OperationIds -> 0..(N * M)]
  <2>1. DOMAIN landed' = OperationIds /\ landed' = [id \in OperationIds |-> landed'[id]]
    BY <1>2, <1>3, <1>4
  <2> DEFINE most == N * M
  <2>2. most \in Nat /\ Cardinality(Tries') \in Nat /\ Cardinality(Tries') <= most
    BY <1>3, <1>8, ProductsFollow
  <2> HIDE DEF N, M, most
  <2>3. ASSUME NEW id \in OperationIds PROVE landed'[id] \in 0..most
    <3>1. landed'[id] \in Nat /\ landed'[id] <= Cardinality(Tries')
      BY <1>11, <1>12
    <3>2. QED
      BY <2>2, <3>1
  <2> USE DEF most
  <2>4. QED
    BY <2>1, <2>3
<1>14. \A id \in OperationIds \cap previouslyCompleted' : landed'[id] = 0
  BY <1>2, <1>11 DEF BatchInv, LandedFits
<1>15. QED
  BY <1>2, <1>5, <1>11, <1>12, <1>13, <1>14

\* A step that leaves queue, report and counters alone and no worker waiting.
LEMMA SameActive ==
  ASSUME BatchInv, NEW i \in Batch!Active, NEW activity \in {"running", "delaying"},
         worker' = [worker EXCEPT ![i] = activity]
  PROVE  /\ Batch!Active' = Batch!Active /\ Gone' = Gone
         /\ worker' \in [Batch!Indices -> Batch!Activities]
         /\ \A j \in Batch!Indices : worker'[j] = "waiting" <=> worker[j] = "waiting"
<1>1. worker \in [Batch!Indices -> Batch!Activities]
  BY DEF BatchInv, Batch!TypeOK
<1>2. i \in Batch!Indices /\ worker[i] \in {"running", "delaying"}
  BY DEF Batch!Active
<1>3. \A j \in Batch!Indices : worker'[j] = IF j = i THEN activity ELSE worker[j]
  BY <1>1
<1>4. QED
  BY <1>1, <1>2, <1>3 DEF Batch!Active, Gone, Batch!Activities

LEMMA ContinuesInv ==
  ASSUME BatchInv, NEW i \in Batch!Indices,
         \/ Batch!DelayEnds(i)
         \/ \E lands \in BOOLEAN : Batch!AttemptFails(i, lands)
  PROVE  BatchInv'
<1>1. /\ UNCHANGED <<previouslyCompleted, operations, queue, nextIndex, completedIds, counter, results>>
      /\ i \in Batch!Active
  BY DEF Batch!DelayEnds, Batch!AttemptFails, Batch!Answers, Batch!Active
<1>2. \E activity \in {"running", "delaying"} : worker' = [worker EXCEPT ![i] = activity]
  BY DEF Batch!DelayEnds, Batch!AttemptFails
<1>3. /\ Batch!Active' = Batch!Active /\ Gone' = Gone
      /\ worker' \in [Batch!Indices -> Batch!Activities]
      /\ \A j \in Batch!Indices : worker'[j] = "waiting" <=> worker[j] = "waiting"
  BY <1>1, <1>2, SameActive
<1>4. /\ attempts' \in [Batch!Indices -> 0..(MaxRetries + 1)]
      /\ \A j \in Batch!Indices \ Gone : attempts'[j] <= MaxRetries
      /\ landed' \in [OperationIds -> 0..(Batch!MaxLength * (MaxRetries + 1))]
      /\ \A id \in OperationIds : landed'[id] <= Cardinality(Tries')
      /\ \A id \in OperationIds \cap previouslyCompleted' : landed'[id] = 0
      /\ \A id \in OperationIds : landed[id] <= landed'[id]
  <2>1. CASE Batch!DelayEnds(i)
    <3>1. UNCHANGED <<attempts, landed, previouslyCompleted>>
      BY <2>1 DEF Batch!DelayEnds
    <3>2. Tries' = Tries
      BY <3>1 DEF Tries
    <3>3. landed \in [OperationIds -> 0..(Batch!MaxLength * (MaxRetries + 1))]
      BY DEF BatchInv, Batch!TypeOK
    <3>4. Batch!MaxLength * (MaxRetries + 1) \in Nat
      <4>1. MaxRetries + 1 \in Nat /\ Batch!MaxLength \in Nat
        BY LongestPlan, BatchAssumption
      <4>2. QED
        BY <4>1, ProductsFollow
    <3>5. \A id \in OperationIds : landed[id] <= landed'[id]
      BY <3>1, <3>3, <3>4
    <3>6. QED
      BY <3>1, <3>2, <3>5 DEF BatchInv, Batch!TypeOK, WorkersFit, LandedFits
  <2>2. CASE ~Batch!DelayEnds(i)
    <3>1. PICK lands \in BOOLEAN : Batch!AttemptFails(i, lands)
      BY <2>2
    <3>2. Batch!Answers(i, lands) /\ attempts[i] < MaxRetries
      BY <3>1 DEF Batch!AttemptFails
    <3>3. /\ attempts' \in [Batch!Indices -> 0..(MaxRetries + 1)]
          /\ attempts'[i] = attempts[i] + 1
          /\ \A j \in Batch!Indices \ {i} : attempts'[j] = attempts[j]
          /\ landed' \in [OperationIds -> 0..(Batch!MaxLength * (MaxRetries + 1))]
          /\ \A id \in OperationIds : landed'[id] <= Cardinality(Tries')
          /\ \A id \in OperationIds \cap previouslyCompleted' : landed'[id] = 0
          /\ \A id \in OperationIds : landed[id] <= landed'[id]
      BY <1>1, <3>2, AnswerFits
    <3>4. ASSUME NEW j \in Batch!Indices \ Gone PROVE attempts'[j] <= MaxRetries
      <4>1. attempts[i] \in 0..MaxRetries /\ MaxRetries \in Nat
        BY <1>1, WorkerUnderWay, BatchAssumption
      <4>2. j \in Batch!Indices
        OBVIOUS
      <4>3. CASE j = i
        BY <3>2, <3>3, <4>1, <4>3
      <4>4. CASE j # i
        BY <3>3, <4>2, <4>4 DEF BatchInv, WorkersFit
      <4>5. QED
        BY <4>3, <4>4
    <3>5. QED
      BY <3>3, <3>4
  <2>3. QED
    BY <2>1, <2>2
<1>5. Batch!TypeOK'
  BY <1>1, <1>3, <1>4 DEF BatchInv, Batch!TypeOK
<1>6. QueueFits' /\ CountersFit'
  BY <1>1, <1>3 DEF BatchInv, QueueFits, CountersFit, Batch!Distinct
<1>7. WorkersFit' /\ ReportFits'
  BY <1>1, <1>3, <1>4 DEF BatchInv, WorkersFit, ReportFits, Batch!Distinct
<1>8. LandedFits'
  <2>1. ASSUME NEW id \in OperationIds PROVE Cardinality(Successes(id))' <= landed'[id]
    <3>1. Successes(id)' = Successes(id)
      BY <1>1 DEF Successes, Batch!Outcomes
    <3>2. Cardinality(Successes(id)) <= landed[id]
      BY DEF BatchInv, LandedFits
    <3>3. Cardinality(Successes(id)) \in Nat
      <4>1. results \in Seq(OperationIds \X Batch!Statuses)
        BY DEF BatchInv, Batch!TypeOK
      <4>2. Successes(id) \in SUBSET (1..Len(results)) /\ Len(results) \in Nat
        BY <4>1, LenProperties DEF Successes, Batch!Outcomes
      <4>3. QED
        BY <4>2, UpTo, FS_Subset, FS_CardinalityType
    <3>4. landed[id] \in Int /\ landed'[id] \in Int
      BY <1>4 DEF BatchInv, Batch!TypeOK
    <3>5. QED
      BY <1>4, <3>1, <3>2, <3>3, <3>4
  <2>2. QED
    BY <1>4, <2>1 DEF LandedFits
<1>9. QED
  BY <1>5, <1>6, <1>7, <1>8 DEF BatchInv

\* What a worker that is done changes: its own place, that of the next one, and the
\* counters. Of the next one it starts it or skips it.
Starts(completed) == nextIndex <= Len(queue) /\ queue[nextIndex] \notin completed
Skips(completed)  == nextIndex <= Len(queue) /\ queue[nextIndex] \in completed

\* Who is under way and who is done with after a worker is.
LEMMA SettleMoves ==
  ASSUME BatchInv, NEW i \in Batch!Active, NEW status, Batch!Settle(i, status)
  PROVE  /\ worker' \in [Batch!Indices -> Batch!Activities]
         /\ nextIndex' = nextIndex + 1
         /\ nextIndex <= Len(queue) =>
              /\ nextIndex \in Batch!Indices /\ nextIndex # i
              /\ nextIndex \notin Batch!Active /\ nextIndex \notin Gone
         /\ \A j \in Batch!Indices : worker'[j] = "waiting" <=> j >= nextIndex' \/ j > Len(queue)
         /\ Batch!Active' = (Batch!Active \ {i}) \cup (IF Starts(completedIds') THEN {nextIndex} ELSE {})
         /\ Gone' = (Gone \cup {i}) \cup (IF Skips(completedIds') THEN {nextIndex} ELSE {})
<1>1. /\ i \in Batch!Indices /\ i \in 1..Len(queue) /\ i < nextIndex /\ nextIndex \in Nat
      /\ Len(queue) \in 0..Batch!MaxLength
  BY WorkerUnderWay DEF Batch!Active
<1>2. /\ worker \in [Batch!Indices -> Batch!Activities] /\ nextIndex >= 1
      /\ Batch!Indices = 1..Batch!MaxLength /\ Batch!MaxLength \in Nat
  BY <1>1, LongestPlan DEF BatchInv, Batch!TypeOK
<1>3. \A j \in Batch!Indices : worker[j] = "waiting" <=> j >= nextIndex \/ j > Len(queue)
  BY DEF BatchInv, WorkersFit
<1>4. ASSUME nextIndex <= Len(queue)
      PROVE  /\ nextIndex \in Batch!Indices /\ nextIndex # i
             /\ nextIndex \notin Batch!Active /\ nextIndex \notin Gone
  <2>1. nextIndex \in Batch!Indices /\ nextIndex # i
    BY <1>1, <1>2, <1>4
  <2>2. worker[nextIndex] = "waiting"
    BY <1>1, <1>3, <2>1
  <2>3. QED
    BY <2>1, <2>2 DEF Batch!Active, Gone
<1>5. /\ nextIndex' = nextIndex + 1
      /\ worker' = [j \in Batch!Indices |->
           IF j = i THEN "gone"
           ELSE IF nextIndex <= Len(queue) /\ j = nextIndex
                  THEN IF Skips(completedIds') THEN "gone" ELSE "running"
                  ELSE worker[j]]
  BY DEF Batch!Settle, Skips
<1>6. worker' \in [Batch!Indices -> Batch!Activities]
  BY <1>2, <1>5 DEF Batch!Activities
<1>7. ASSUME NEW j \in Batch!Indices
      PROVE  worker'[j] = "waiting" <=> j >= nextIndex' \/ j > Len(queue)
  <2>1. j \in Nat /\ nextIndex \in Nat /\ Len(queue) \in Nat /\ i \in Nat
    BY <1>1, <1>2
  <2>2. CASE j = i
    BY <1>1, <1>5, <2>1, <2>2
  <2>3. CASE j # i /\ nextIndex <= Len(queue) /\ j = nextIndex
    BY <1>5, <2>1, <2>3
  <2>4. CASE j # i /\ ~(nextIndex <= Len(queue) /\ j = nextIndex)
    <3>1. worker'[j] = worker[j]
      BY <1>5, <2>4
    <3>2. QED
      BY <1>3, <1>5, <2>1, <2>4, <3>1
  <2>5. QED
    BY <2>2, <2>3, <2>4
<1>8. Batch!Active' = (Batch!Active \ {i}) \cup (IF Starts(completedIds') THEN {nextIndex} ELSE {})
  <2>1. Batch!Active' = {j \in Batch!Indices : worker'[j] \in {"running", "delaying"}}
    BY DEF Batch!Active
  <2>2. ASSUME NEW j \in Batch!Indices
        PROVE  worker'[j] \in {"running", "delaying"} <=>
                 j \in (Batch!Active \ {i}) \cup (IF Starts(completedIds') THEN {nextIndex} ELSE {})
    BY <1>4, <1>5 DEF Starts, Skips, Batch!Active
  <2>3. (Batch!Active \ {i}) \cup (IF Starts(completedIds') THEN {nextIndex} ELSE {}) \subseteq Batch!Indices
    BY <1>4 DEF Starts, Batch!Active
  <2>4. QED
    BY <2>1, <2>2, <2>3
<1>9. Gone' = (Gone \cup {i}) \cup (IF Skips(completedIds') THEN {nextIndex} ELSE {})
  <2>1. Gone' = {j \in Batch!Indices : worker'[j] = "gone"}
    BY DEF Gone
  <2>2. ASSUME NEW j \in Batch!Indices
        PROVE  worker'[j] = "gone" <=>
                 j \in (Gone \cup {i}) \cup (IF Skips(completedIds') THEN {nextIndex} ELSE {})
    BY <1>4, <1>5 DEF Skips, Gone
  <2>3. (Gone \cup {i}) \cup (IF Skips(completedIds') THEN {nextIndex} ELSE {}) \subseteq Batch!Indices
    BY <1>1, <1>4 DEF Skips, Gone
  <2>4. QED
    BY <2>1, <2>2, <2>3
<1>10. QED
  BY <1>4, <1>5, <1>6, <1>7, <1>8, <1>9

\* How many they are.
LEMMA SettleCounts ==
  ASSUME BatchInv, NEW i \in Batch!Active, NEW status, Batch!Settle(i, status)
  PROVE  /\ Cardinality(Batch!Active) \in Nat /\ Cardinality(Gone) \in Nat
         /\ Cardinality(Batch!Active)' =
              IF Starts(completedIds') THEN Cardinality(Batch!Active) ELSE Cardinality(Batch!Active) - 1
         /\ Cardinality(Gone)' =
              IF Skips(completedIds') THEN Cardinality(Gone) + 2 ELSE Cardinality(Gone) + 1
         /\ Cardinality(Batch!Active)' \in Nat /\ Cardinality(Gone)' \in Nat
         /\ Cardinality(Batch!Active)' + Cardinality(Gone)' <= Len(queue)
<1> DEFINE A == Batch!Active
           G == Gone
           n == nextIndex
<1>1. /\ n <= Len(queue) => n # i /\ n \notin A /\ n \notin G
      /\ \A j \in Batch!Indices : worker'[j] = "waiting" <=> j >= nextIndex' \/ j > Len(queue)
      /\ Batch!Active' = (A \ {i}) \cup (IF Starts(completedIds') THEN {n} ELSE {})
      /\ Gone' = (G \cup {i}) \cup (IF Skips(completedIds') THEN {n} ELSE {})
  BY SettleMoves
<1>2. Len(queue) \in 0..Batch!MaxLength /\ Batch!Indices = 1..Batch!MaxLength /\ Batch!MaxLength \in Nat
  BY WorkerUnderWay, LongestPlan DEF Batch!Active
<1>3. /\ IsFiniteSet(A) /\ IsFiniteSet(G) /\ Cardinality(A) \in Nat /\ Cardinality(G) \in Nat
  <2>1. \A j \in 1..Batch!MaxLength : j > Len(queue) => worker[j] = "waiting"
    BY <1>2 DEF BatchInv, WorkersFit
  <2>2. QED
    BY <1>2, <2>1, ActiveAndGone DEF Batch!Active, Gone
<1>4. i \in A /\ i \notin G
  BY DEF Batch!Active, Gone
<1>5. Starts(completedIds') => n <= Len(queue) /\ ~Skips(completedIds')
  BY DEF Starts, Skips
<1>6. Skips(completedIds') => n <= Len(queue)
  BY DEF Skips
<1>7. /\ Cardinality(Batch!Active') \in Nat /\ Cardinality(Gone') \in Nat
      /\ Cardinality(Batch!Active') + Cardinality(Gone') <= Len(queue)
  <2>1. \A j \in 1..Batch!MaxLength : j > Len(queue) => worker'[j] = "waiting"
    BY <1>1, <1>2
  <2>2. /\ Batch!Active' = {j \in 1..Batch!MaxLength : worker'[j] \in {"running", "delaying"}}
        /\ Gone' = {j \in 1..Batch!MaxLength : worker'[j] = "gone"}
    BY <1>2 DEF Batch!Active, Gone
  <2>3. QED
    BY <1>2, <2>1, <2>2, ActiveAndGone
<1> HIDE DEF A, G, n
<1>8. Cardinality(Batch!Active') = IF Starts(completedIds') THEN Cardinality(A) ELSE Cardinality(A) - 1
  <2>1. IsFiniteSet(A \ {i}) /\ Cardinality(A \ {i}) = Cardinality(A) - 1
    BY <1>3, <1>4, FS_RemoveElement
  <2>2. CASE Starts(completedIds')
    <3>1. n \notin A \ {i} /\ Batch!Active' = (A \ {i}) \cup {n}
      BY <1>1, <1>5, <2>2
    <3>2. Cardinality(Batch!Active') = Cardinality(A \ {i}) + 1
      BY <2>1, <3>1, FS_AddElement
    <3>3. QED
      BY <1>3, <2>1, <2>2, <3>2
  <2>3. CASE ~Starts(completedIds')
    <3>1. Batch!Active' = A \ {i}
      BY <1>1, <2>3
    <3>2. QED
      BY <2>1, <2>3, <3>1
  <2>4. QED
    BY <2>2, <2>3
<1>9. Cardinality(Gone') = IF Skips(completedIds') THEN Cardinality(G) + 2 ELSE Cardinality(G) + 1
  <2>1. IsFiniteSet(G \cup {i}) /\ Cardinality(G \cup {i}) = Cardinality(G) + 1
    BY <1>3, <1>4, FS_AddElement
  <2>2. CASE Skips(completedIds')
    <3>1. n \notin G \cup {i} /\ Gone' = (G \cup {i}) \cup {n}
      BY <1>1, <1>6, <2>2
    <3>2. Cardinality(Gone') = Cardinality(G \cup {i}) + 1
      BY <2>1, <3>1, FS_AddElement
    <3>3. QED
      BY <1>3, <2>1, <2>2, <3>2
  <2>3. CASE ~Skips(completedIds')
    <3>1. Gone' = G \cup {i}
      BY <1>1, <2>3
    <3>2. QED
      BY <2>1, <2>3, <3>1
  <2>4. QED
    BY <2>2, <2>3
<1>10. QED
  BY <1>3, <1>7, <1>8, <1>9 DEF A, G

\* Distinct operations are not skipped once they are queued.
LEMMA DistinctIsNotSkipped ==
  ASSUME BatchInv, NEW i \in Batch!Active, NEW status, Batch!Settle(i, status), Batch!Distinct
  PROVE  ~Skips(completedIds')
<1> SUFFICES ASSUME Skips(completedIds') PROVE FALSE
  OBVIOUS
<1>1. /\ nextIndex <= Len(queue) /\ queue[nextIndex] \in completedIds'
      /\ nextIndex \in Batch!Indices /\ nextIndex # i /\ nextIndex \notin Gone
  BY SettleMoves DEF Skips
<1>2. completedIds' \subseteq completedIds \cup {queue[i]}
  BY DEF Batch!Settle
<1>3. /\ i \in 1..Len(queue) /\ Batch!Indices = 1..Batch!MaxLength /\ Len(queue) \in Nat
      /\ nextIndex \in 1..Len(queue)
  BY <1>1, WorkerUnderWay, LongestPlan DEF Batch!Active
<1>4. queue[nextIndex] \notin previouslyCompleted
  BY <1>3 DEF BatchInv, QueueFits
<1>5. PICK j \in Gone \cup {i} : queue[nextIndex] = queue[j]
  BY <1>1, <1>2, <1>4 DEF BatchInv, ReportFits
<1>6. j \in 1..Len(queue)
  <2>1. CASE j = i
    BY <1>3, <2>1
  <2>2. CASE j \in Gone
    BY <1>3, <2>2 DEF Gone, BatchInv, WorkersFit
  <2>3. QED
    BY <1>5, <2>1, <2>2
<1>7. nextIndex = j
  BY <1>3, <1>5, <1>6 DEF BatchInv, QueueFits
<1>8. QED
  BY <1>1, <1>5, <1>7

\* What the report gains.
LEMMA SettleReports ==
  ASSUME BatchInv, NEW i \in Batch!Active, NEW status \in {"success", "failed"}, Batch!Settle(i, status)
  PROVE  /\ results \in Seq(OperationIds \X Batch!Statuses) /\ Len(results) \in Nat
         /\ results' \in Seq(OperationIds \X Batch!Statuses)
         /\ Len(results') = IF Skips(completedIds') THEN Len(results) + 2 ELSE Len(results) + 1
         /\ \A k \in 1..Len(results) : results'[k] = results[k]
         /\ results'[Len(results) + 1] = <<queue[i], status>>
         /\ Skips(completedIds') => results'[Len(results) + 2] = <<queue[nextIndex], "skipped">>
<1> DEFINE S == OperationIds \X Batch!Statuses
           first == <<queue[i], status>>
           second == <<queue[nextIndex], "skipped">>
<1>1. results \in Seq(S) /\ Len(results) \in Nat
  BY LenProperties DEF BatchInv, Batch!TypeOK
<1>2. first \in S
  BY WorkerUnderWay DEF Batch!Active, Batch!Statuses
<1>3. Skips(completedIds') => second \in S
  <2>1. queue \in Seq(OperationIds) /\ nextIndex \in Nat \ {0}
    BY WorkerUnderWay DEF BatchInv, Batch!TypeOK, Batch!Active
  <2>2. QED
    BY <2>1, ElementOfSeq, LenProperties DEF Skips, Batch!Statuses
<1>4. results' = results \o (IF Skips(completedIds') THEN <<first, second>> ELSE <<first>>)
  BY DEF Batch!Settle, Skips
<1> HIDE DEF S, first, second
<1>5. CASE Skips(completedIds')
  <2>1. results' = results \o <<first, second>> /\ <<first, second>> \in Seq(S)
    BY <1>2, <1>3, <1>4, <1>5
  <2>2. /\ results' \in Seq(S) /\ Len(results') = Len(results) + 2
        /\ \A k \in 1..Len(results) : results'[k] = results[k]
        /\ results'[Len(results) + 1] = first /\ results'[Len(results) + 2] = second
    BY <1>1, <2>1
  <2>3. QED
    BY <1>1, <1>5, <2>2 DEF S, first, second
<1>6. CASE ~Skips(completedIds')
  <2>1. results' = results \o <<first>> /\ <<first>> \in Seq(S)
    BY <1>2, <1>4, <1>6
  <2>2. /\ results' \in Seq(S) /\ Len(results') = Len(results) + 1
        /\ \A k \in 1..Len(results) : results'[k] = results[k]
        /\ results'[Len(results) + 1] = first
    BY <1>1, <2>1
  <2>3. QED
    BY <1>1, <1>6, <2>2 DEF S, first
<1>7. QED
  BY <1>5, <1>6

\* What the counters show.
LEMMA SettleCounters ==
  ASSUME BatchInv, NEW i \in Batch!Active, NEW status \in {"success", "failed"}, Batch!Settle(i, status)
  PROVE  /\ counter \in Batch!Counters
         /\ counter' \in [planned : Int, running : Int, succeeded : Int, failed : Int, skipped : Int,
                          completed : Int, retried : Int]
         /\ counter'.planned = counter.planned
         /\ counter'.running = IF Starts(completedIds') THEN counter.running ELSE counter.running - 1
         /\ counter'.completed = IF Skips(completedIds') THEN counter.completed + 2 ELSE counter.completed + 1
         /\ counter'.skipped = IF Skips(completedIds') THEN counter.skipped + 1 ELSE counter.skipped
         /\ counter'.retried = counter.retried + attempts[i]
         /\ counter'.succeeded >= 0 /\ counter'.failed >= 0
         /\ counter'.succeeded + counter'.failed = counter.succeeded + counter.failed + 1
<1> DEFINE N == Batch!MaxLength
           C == [planned : Int, running : Int, succeeded : Int, failed : Int, skipped : Int,
                 completed : Int, retried : Int]
           counted == Batch!Counts(status, attempts[i])
<1>1. counter \in Batch!Counters
  BY DEF BatchInv, Batch!TypeOK
<1>2. N \in Nat /\ MaxRetries \in Nat /\ N * MaxRetries \in Nat /\ attempts[i] \in Int
  BY LongestPlan, BatchAssumption, WorkerUnderWay, ProductsFollow DEF Batch!Active
<1>3. counter \in C /\ counter.succeeded >= 0 /\ counter.failed >= 0
  BY <1>1, <1>2 DEF Batch!Counters
<1>4. /\ counted \in C
      /\ counted.planned = counter.planned /\ counted.running = counter.running - 1
      /\ counted.completed = counter.completed + 1 /\ counted.skipped = counter.skipped
      /\ counted.retried = counter.retried + attempts[i]
      /\ counted.succeeded >= 0 /\ counted.failed >= 0
      /\ counted.succeeded + counted.failed = counter.succeeded + counter.failed + 1
  <2> DEFINE good == IF status = "success" THEN counter.succeeded + 1 ELSE counter.succeeded
             bad  == IF status = "failed" THEN counter.failed + 1 ELSE counter.failed
  <2>1. counted = [counter EXCEPT !.running = counter.running - 1, !.completed = counter.completed + 1,
                     !.retried = counter.retried + attempts[i], !.succeeded = good, !.failed = bad]
    BY <1>3 DEF Batch!Counts
  <2>2. good \in Int /\ bad \in Int /\ good >= 0 /\ bad >= 0 /\ good + bad = counter.succeeded + counter.failed + 1
    <3>1. counter.succeeded \in Int /\ counter.failed \in Int
      BY <1>3
    <3>2. CASE status = "success"
      BY <1>3, <3>1, <3>2
    <3>3. CASE status = "failed"
      BY <1>3, <3>1, <3>3
    <3>4. QED
      BY <3>2, <3>3
  <2>3. /\ counter.running - 1 \in Int /\ counter.completed + 1 \in Int
        /\ counter.retried + attempts[i] \in Int
    BY <1>2, <1>3
  <2> HIDE DEF counted, good, bad
  <2>4. counted \in C
    BY <1>3, <2>1, <2>2, <2>3
  <2>5. /\ counted.planned = counter.planned /\ counted.running = counter.running - 1
        /\ counted.completed = counter.completed + 1 /\ counted.skipped = counter.skipped
        /\ counted.retried = counter.retried + attempts[i]
        /\ counted.succeeded = good /\ counted.failed = bad
    BY <1>3, <2>1
  <2> HIDE DEF C
  <2>6. QED
    BY <2>2, <2>4, <2>5
<1>5. counter' = IF Skips(completedIds') THEN [counted EXCEPT !.skipped = @ + 1, !.completed = @ + 1]
                 ELSE IF nextIndex <= Len(queue) THEN [counted EXCEPT !.running = @ + 1] ELSE counted
  BY DEF Batch!Settle, Skips
<1> HIDE DEF counted
<1>6. CASE Skips(completedIds')
  <2>1. ~Starts(completedIds')
    BY <1>6 DEF Skips, Starts
  <2>2. counter' = [counted EXCEPT !.skipped = counted.skipped + 1, !.completed = counted.completed + 1]
    BY <1>4, <1>5, <1>6
  <2>a. counted.skipped + 1 \in Int /\ counted.completed + 1 \in Int
    BY <1>4
  <2>b. counter' \in C
    BY <1>4, <2>2, <2>a
  <2>3. /\ counter'.planned = counted.planned /\ counter'.running = counted.running
        /\ counter'.completed = counted.completed + 1 /\ counter'.skipped = counted.skipped + 1
        /\ counter'.retried = counted.retried
        /\ counter'.succeeded = counted.succeeded /\ counter'.failed = counted.failed
    BY <1>4, <2>2
  <2>4. counter.completed \in Int
    BY <1>3
  <2>5. counter'.completed = counter.completed + 2
    BY <1>4, <2>3, <2>4
  <2> HIDE DEF C
  <2>6. QED
    BY <1>1, <1>4, <1>6, <2>1, <2>b, <2>3, <2>5 DEF C
<1>7. CASE Starts(completedIds')
  <2>1. ~Skips(completedIds') /\ nextIndex <= Len(queue)
    BY <1>7 DEF Skips, Starts
  <2>2. counter' = [counted EXCEPT !.running = counted.running + 1]
    BY <1>4, <1>5, <2>1
  <2>3. /\ counter' \in C
        /\ counter'.planned = counted.planned /\ counter'.running = counted.running + 1
        /\ counter'.completed = counted.completed /\ counter'.skipped = counted.skipped
        /\ counter'.retried = counted.retried
        /\ counter'.succeeded = counted.succeeded /\ counter'.failed = counted.failed
    BY <1>4, <2>2
  <2>4. counter.running \in Int
    BY <1>3
  <2>5. counter'.running = counter.running
    BY <1>4, <2>3, <2>4
  <2> HIDE DEF C
  <2>6. QED
    BY <1>1, <1>4, <1>7, <2>1, <2>3, <2>5 DEF C
<1>8. CASE ~Skips(completedIds') /\ ~Starts(completedIds')
  <2>1. ~(nextIndex <= Len(queue))
    BY <1>8 DEF Skips, Starts
  <2>2. counter' = counted
    BY <1>5, <1>8, <2>1
  <2> HIDE DEF C
  <2>3. QED
    BY <1>1, <1>4, <1>8, <2>2 DEF C
<1>9. QED
  BY <1>6, <1>7, <1>8

\* The counters keep adding up, within their bounds.
LEMMA SettleAddsUp ==
  ASSUME BatchInv, NEW i \in Batch!Active, NEW status \in {"success", "failed"}, Batch!Settle(i, status),
         UNCHANGED <<previouslyCompleted, operations, queue>>
  PROVE  CountersFit' /\ counter' \in Batch!Counters
<1> DEFINE N == Batch!MaxLength
<1>1. /\ counter \in Batch!Counters
      /\ counter' \in [planned : Int, running : Int, succeeded : Int, failed : Int, skipped : Int,
                       completed : Int, retried : Int]
      /\ counter'.planned = counter.planned
      /\ counter'.running = IF Starts(completedIds') THEN counter.running ELSE counter.running - 1
      /\ counter'.completed = IF Skips(completedIds') THEN counter.completed + 2 ELSE counter.completed + 1
      /\ counter'.skipped = IF Skips(completedIds') THEN counter.skipped + 1 ELSE counter.skipped
      /\ counter'.retried = counter.retried + attempts[i]
      /\ counter'.succeeded >= 0 /\ counter'.failed >= 0
      /\ counter'.succeeded + counter'.failed = counter.succeeded + counter.failed + 1
  BY SettleCounters
<1>2. /\ Cardinality(Batch!Active) \in Nat /\ Cardinality(Gone) \in Nat
      /\ Cardinality(Batch!Active)' =
           IF Starts(completedIds') THEN Cardinality(Batch!Active) ELSE Cardinality(Batch!Active) - 1
      /\ Cardinality(Gone)' =
           IF Skips(completedIds') THEN Cardinality(Gone) + 2 ELSE Cardinality(Gone) + 1
      /\ Cardinality(Batch!Active)' \in Nat /\ Cardinality(Gone)' \in Nat
      /\ Cardinality(Batch!Active)' + Cardinality(Gone)' <= Len(queue)
  BY SettleCounts
<1>3. /\ Len(results) \in Nat
      /\ Len(results') = IF Skips(completedIds') THEN Len(results) + 2 ELSE Len(results) + 1
  BY SettleReports
<1>4. /\ N \in Nat /\ MaxRetries \in Nat /\ attempts[i] \in 0..MaxRetries
      /\ Len(queue) \in 0..N /\ Len(operations) \in 0..N
  BY LongestPlan, BatchAssumption, WorkerUnderWay DEF Batch!Active, BatchInv, Batch!TypeOK
<1>5. /\ counter.planned \in Nat /\ counter.running \in Nat /\ counter.succeeded \in Nat
      /\ counter.failed \in Nat /\ counter.skipped \in Nat /\ counter.completed \in Nat
      /\ counter.retried \in Nat
  BY <1>1, <1>4, ProductsFollow DEF Batch!Counters
<1>6. CountersFit /\ Cardinality(Batch!Active) = counter.running
  BY DEF BatchInv, WorkersFit
<1> DEFINE A == Cardinality(Batch!Active)
           G == Cardinality(Gone)
           more == IF Skips(completedIds') THEN 2 ELSE 1
<1>a. /\ counter.completed = Len(results)
      /\ counter.completed = counter.succeeded + counter.failed + counter.skipped
      /\ Len(results) + Len(queue) = Len(operations) + G
      /\ counter.planned = Len(queue)
  BY <1>6 DEF CountersFit
<1>b. /\ counter'.completed = counter.completed + more /\ counter'.skipped = counter.skipped + more - 1
      /\ Len(results') = Len(results) + more /\ G' = G + more /\ more \in 1..2
  <2>1. CASE Skips(completedIds')
    BY <1>1, <1>2, <1>3, <1>5, <2>1
  <2>2. CASE ~Skips(completedIds')
    BY <1>1, <1>2, <1>3, <1>5, <2>2
  <2>3. QED
    BY <2>1, <2>2
<1>c. /\ G \in Nat /\ G' \in Nat /\ A' \in Nat /\ A' + G' <= Len(queue)
  BY <1>2
<1>d. counter'.running = A'
  BY <1>1, <1>2, <1>6
<1>e. counter'.succeeded \in Int /\ counter'.failed \in Int /\ counter'.skipped \in Int
  BY <1>1
<1>f. /\ counter'.succeeded + counter'.failed = counter.succeeded + counter.failed + 1
      /\ counter'.planned = counter.planned
      /\ counter'.retried = counter.retried + attempts[i]
      /\ counter'.succeeded >= 0 /\ counter'.failed >= 0
  BY <1>1
<1> HIDE DEF N, A, G, more
<1>7. /\ counter'.completed = Len(results')
      /\ counter'.completed = counter'.succeeded + counter'.failed + counter'.skipped
      /\ Len(results') + Len(queue) = Len(operations) + G'
      /\ counter'.planned = Len(queue)
  <2>1. counter'.completed = Len(results') /\ counter'.planned = Len(queue)
    BY <1>a, <1>b, <1>f
  <2>2. counter'.completed = counter'.succeeded + counter'.failed + counter'.skipped
    <3>1. /\ counter.succeeded \in Int /\ counter.failed \in Int /\ counter.skipped \in Int
          /\ counter.completed \in Int /\ more \in Int
      BY <1>5, <1>b
    <3>2. counter'.completed \in Int
      BY <1>b, <3>1
    <3> DEFINE good == counter.succeeded
               bad  == counter.failed
               rest == counter.skipped
               all  == counter.completed
               good1 == counter'.succeeded
               bad1  == counter'.failed
               rest1 == counter'.skipped
               all1  == counter'.completed
    <3>3. /\ good \in Int /\ bad \in Int /\ rest \in Int /\ all \in Int /\ more \in Int
          /\ good1 \in Int /\ bad1 \in Int /\ rest1 \in Int /\ all1 \in Int
      BY <1>e, <3>1, <3>2
    <3>4. /\ all = good + bad + rest /\ good1 + bad1 = good + bad + 1
          /\ rest1 = rest + more - 1 /\ all1 = all + more
      BY <1>a, <1>b, <1>f
    <3> HIDE DEF good, bad, rest, all, good1, bad1, rest1, all1
    <3>5. all1 = good1 + bad1 + rest1
      BY <3>3, <3>4
    <3>6. QED
      BY <3>5 DEF good1, bad1, rest1, all1
  <2>3. Len(results') + Len(queue) = Len(operations) + G'
    <3>1. Len(results) \in Int /\ Len(queue) \in Int /\ Len(operations) \in Int /\ G \in Int /\ more \in Int
      BY <1>3, <1>4, <1>b, <1>c
    <3>2. Len(results) + Len(queue) = Len(operations) + G
      BY <1>a
    <3>3. Len(results') = Len(results) + more /\ G' = G + more
      BY <1>b
    <3>4. QED
      BY <3>1, <3>2, <3>3
  <2>4. QED
    BY <2>1, <2>2, <2>3
<1>8. /\ counter'.retried \in Nat /\ counter'.completed \in Nat
      /\ counter'.retried <= counter'.completed * MaxRetries
  <2> DEFINE c == counter.completed
             d == counter'.completed
  <2>1. c \in Nat /\ d \in Nat /\ c + 1 \in Nat /\ c + 1 <= d /\ c <= d
    BY <1>5, <1>b
  <2>a. MaxRetries \in Nat /\ attempts[i] \in Nat /\ attempts[i] <= MaxRetries
    BY <1>4
  <2>b. counter.retried <= c * MaxRetries
    BY <1>6 DEF CountersFit
  <2> HIDE DEF c, d
  <2>2. c * MaxRetries \in Nat /\ (c + 1) * MaxRetries = c * MaxRetries + MaxRetries
    BY <2>1, <2>a, ProductsFollow
  <2>3. (c + 1) * MaxRetries <= d * MaxRetries /\ d * MaxRetries \in Nat
    BY <2>1, <2>a, ProductsFollow
  <2> DEFINE low == c * MaxRetries
             mid == (c + 1) * MaxRetries
             high == d * MaxRetries
  <2>5. low \in Nat /\ mid = low + MaxRetries /\ mid <= high /\ high \in Nat /\ counter.retried <= low
    BY <2>2, <2>3, <2>b
  <2> HIDE DEF low, mid, high
  <2>6. counter'.retried \in Nat /\ counter'.retried <= high
    BY <1>5, <1>f, <2>5, <2>a
  <2>7. QED
    BY <2>1, <2>6 DEF high, d
<1>9. CountersFit'
  BY <1>7, <1>8 DEF CountersFit, G
<1>10. /\ counter'.completed \in 0..N
       /\ counter'.running \in 0..N
  <2>1. Len(results') \in Nat /\ Len(results') <= Len(operations)
    BY <1>3, <1>4, <1>7, <1>b, <1>c
  <2>2. A' <= Len(queue)
    BY <1>4, <1>c
  <2>3. QED
    BY <1>4, <1>7, <1>c, <1>d, <2>1, <2>2
<1>11. counter'.retried \in 0..(N * MaxRetries)
  <2>1. /\ counter'.completed * MaxRetries \in Nat
        /\ N * MaxRetries \in Nat /\ counter'.completed * MaxRetries <= N * MaxRetries
    BY <1>4, <1>8, <1>10, ProductsFollow
  <2> DEFINE low == counter'.completed * MaxRetries
             high == N * MaxRetries
  <2>2. low \in Nat /\ high \in Nat /\ low <= high /\ counter'.retried <= low /\ counter'.retried \in Nat
    BY <1>8, <2>1
  <2> HIDE DEF low, high
  <2>3. counter'.retried \in 0..high
    BY <2>2
  <2>4. QED
    BY <2>3 DEF high
<1>12. /\ counter'.succeeded \in 0..N /\ counter'.failed \in 0..N /\ counter'.skipped \in 0..N
       /\ counter'.planned \in 0..N
  <2>1. counter'.skipped \in Nat /\ counter'.succeeded \in Nat /\ counter'.failed \in Nat
    <3>1. counter.skipped \in Nat /\ more \in 1..2 /\ counter'.skipped = counter.skipped + more - 1
      BY <1>5, <1>b
    <3>2. QED
      BY <1>e, <1>f, <3>1
  <2> DEFINE good == counter'.succeeded
             bad  == counter'.failed
             rest == counter'.skipped
             all  == counter'.completed
  <2>2. /\ good \in Nat /\ bad \in Nat /\ rest \in Nat /\ all \in 0..N /\ N \in Nat
        /\ all = good + bad + rest
    BY <1>4, <1>7, <1>10, <2>1
  <2> HIDE DEF good, bad, rest, all
  <2>3. good \in 0..N /\ bad \in 0..N /\ rest \in 0..N
    BY <2>2
  <2>4. counter'.planned \in 0..N
    BY <1>4, <1>7
  <2>5. QED
    BY <2>3, <2>4 DEF good, bad, rest
<1>13. counter' \in Batch!Counters
  <2>1. counter' = [planned |-> counter'.planned, running |-> counter'.running,
                    succeeded |-> counter'.succeeded, failed |-> counter'.failed,
                    skipped |-> counter'.skipped, completed |-> counter'.completed,
                    retried |-> counter'.retried]
    BY <1>1
  <2>2. QED
    BY <1>10, <1>11, <1>12, <2>1 DEF Batch!Counters, N
<1>14. QED
  BY <1>9, <1>13

\* The report stays true.
LEMMA SettleIsReported ==
  ASSUME BatchInv, NEW i \in Batch!Active, NEW status \in {"success", "failed"}, Batch!Settle(i, status),
         UNCHANGED <<previouslyCompleted, operations, queue>>
  PROVE  ReportFits'
<1> DEFINE n == Len(results)
           Told == previouslyCompleted \cup {queue[j] : j \in Gone}
           Tell == previouslyCompleted \cup {queue[j] : j \in Gone'}
<1>1. /\ n \in Nat
      /\ Len(results') = IF Skips(completedIds') THEN n + 2 ELSE n + 1
      /\ \A k \in 1..n : results'[k] = results[k]
      /\ results'[n + 1] = <<queue[i], status>>
      /\ Skips(completedIds') => results'[n + 2] = <<queue[nextIndex], "skipped">>
  BY SettleReports
<1>2. /\ Gone' = (Gone \cup {i}) \cup (IF Skips(completedIds') THEN {nextIndex} ELSE {})
  BY SettleMoves
<1>3. /\ completedIds \subseteq Told
      /\ \A k \in 1..n : results[k][1] \in Told
      /\ \A k \in 1..Len(operations) :
           operations[k] \in previouslyCompleted => \E m \in 1..n : results[m][1] = operations[k]
      /\ \A j \in Gone : \E m \in 1..n : results[m][1] = queue[j]
      /\ Batch!Distinct => \A k, m \in 1..n : results[k][1] = results[m][1] => k = m
  BY DEF BatchInv, ReportFits
<1>4. completedIds' \subseteq completedIds \cup {queue[i]}
  BY DEF Batch!Settle
<1>5. Told \subseteq Tell /\ queue[i] \in Tell /\ (Skips(completedIds') => queue[nextIndex] \in Tell)
  BY <1>2
<1>6. i \in 1..Len(queue) /\ queue[i] \notin previouslyCompleted
  BY WorkerUnderWay DEF Batch!Active
<1>7. Batch!Distinct => queue[i] \notin Told /\ ~Skips(completedIds')
  <2> SUFFICES ASSUME Batch!Distinct PROVE queue[i] \notin Told /\ ~Skips(completedIds')
    OBVIOUS
  <2>1. ASSUME NEW j \in Gone PROVE queue[i] # queue[j]
    <3>1. j \in 1..Len(queue)
      <4>1. Len(queue) \in Nat /\ Batch!Indices = 1..Batch!MaxLength /\ Batch!MaxLength \in Nat
        BY WorkerUnderWay, LongestPlan DEF Batch!Active
      <4>2. QED
        BY <4>1 DEF Gone, BatchInv, WorkersFit
    <3>2. i # j
      BY DEF Gone, Batch!Active
    <3>3. QED
      BY <1>6, <3>1, <3>2 DEF BatchInv, QueueFits
  <2>2. ~Skips(completedIds')
    BY DistinctIsNotSkipped
  <2>3. QED
    BY <1>6, <2>1, <2>2
<1>8. completedIds' \subseteq Tell
  BY <1>3, <1>4, <1>5
<1> DEFINE m1 == Len(results')
<1>9. /\ m1 \in Nat /\ n + 1 \in 1..m1 /\ \A k \in 1..n : k \in 1..m1
      /\ Skips(completedIds') => n + 2 \in 1..m1
      /\ \A k \in 1..m1 : k \in 1..n \/ k = n + 1 \/ (Skips(completedIds') /\ k = n + 2)
      /\ ~Skips(completedIds') => \A k \in 1..m1 : k \in 1..n \/ k = n + 1
  <2>1. n \in Nat /\ m1 = IF Skips(completedIds') THEN n + 2 ELSE n + 1
    BY <1>1
  <2> HIDE DEF n, m1
  <2>2. CASE Skips(completedIds')
    <3>1. m1 = n + 2
      BY <2>1, <2>2
    <3>2. /\ m1 \in Nat /\ n + 1 \in 1..m1 /\ n + 2 \in 1..m1 /\ \A k \in 1..n : k \in 1..m1
          /\ \A k \in 1..m1 : k \in 1..n \/ k = n + 1 \/ k = n + 2
      BY <2>1, <3>1
    <3>3. QED
      BY <2>2, <3>2
  <2>3. CASE ~Skips(completedIds')
    <3>1. m1 = n + 1
      BY <2>1, <2>3
    <3>2. /\ m1 \in Nat /\ n + 1 \in 1..m1 /\ \A k \in 1..n : k \in 1..m1
          /\ \A k \in 1..m1 : k \in 1..n \/ k = n + 1
      BY <2>1, <3>1
    <3>3. QED
      BY <2>3, <3>2
  <2>4. QED
    BY <2>2, <2>3
<1> HIDE DEF n, m1, Told, Tell
<1>10. ASSUME NEW k \in 1..m1 PROVE results'[k][1] \in Tell
  <2>1. CASE k \in 1..n
    <3>1. results'[k] = results[k] /\ results[k][1] \in Told
      BY <1>1, <1>3, <2>1
    <3>2. QED
      BY <1>5, <3>1
  <2>2. CASE k = n + 1
    BY <1>1, <1>5, <2>2
  <2>3. CASE Skips(completedIds') /\ k = n + 2
    BY <1>1, <1>5, <2>3
  <2>4. QED
    BY <1>9, <2>1, <2>2, <2>3
<1>11. ASSUME NEW k \in 1..Len(operations), operations[k] \in previouslyCompleted
       PROVE  \E m \in 1..m1 : results'[m][1] = operations[k]
  BY <1>1, <1>3, <1>9, <1>11
<1>12. ASSUME NEW j \in Gone' PROVE \E m \in 1..m1 : results'[m][1] = queue[j]
  <2>1. CASE j \in Gone
    BY <1>1, <1>3, <1>9, <2>1
  <2>2. CASE j = i
    BY <1>1, <1>9, <2>2
  <2>3. CASE Skips(completedIds') /\ j = nextIndex
    BY <1>1, <1>9, <2>3
  <2>4. QED
    BY <1>2, <2>1, <2>2, <2>3
<1>13. ASSUME Batch!Distinct, NEW k \in 1..m1, NEW m \in 1..m1, results'[k][1] = results'[m][1]
       PROVE  k = m
  <2>1. /\ k \in 1..n \/ k = n + 1
        /\ m \in 1..n \/ m = n + 1
    BY <1>7, <1>9, <1>13
  <2>2. \A l \in 1..n : results'[l][1] # results'[n + 1][1]
    BY <1>1, <1>3, <1>7, <1>13
  <2>3. CASE k \in 1..n /\ m \in 1..n
    BY <1>1, <1>3, <1>13, <2>3
  <2>4. CASE k = n + 1 \/ m = n + 1
    BY <1>13, <2>1, <2>2, <2>4
  <2>5. QED
    BY <2>1, <2>3, <2>4
<1>14. QED
  <2>1. Batch!Distinct' <=> Batch!Distinct
    BY DEF Batch!Distinct
  <2>2. \A k \in 1..Len(results') : results'[k][1] \in previouslyCompleted' \cup {queue'[j] : j \in Gone'}
    BY <1>10 DEF m1, Tell
  <2>3. completedIds' \subseteq previouslyCompleted' \cup {queue'[j] : j \in Gone'}
    BY <1>8 DEF Tell
  <2>4. \A k \in 1..Len(operations') :
          operations'[k] \in previouslyCompleted' => \E m \in 1..Len(results') : results'[m][1] = operations'[k]
    BY <1>11 DEF m1
  <2>5. \A j \in Gone' : \E m \in 1..Len(results') : results'[m][1] = queue'[j]
    BY <1>12 DEF m1
  <2>6. Batch!Distinct' => \A k, m \in 1..Len(results') : results'[k][1] = results'[m][1] => k = m
    BY <1>13, <2>1 DEF m1
  <2>7. QED
    BY <2>2, <2>3, <2>4, <2>5, <2>6 DEF ReportFits

\* The places of the report that tell of a success are finitely many.
LEMMA SuccessesAreFinite ==
  ASSUME BatchInv, NEW id
  PROVE  IsFiniteSet(Successes(id)) /\ Cardinality(Successes(id)) \in Nat
<1>1. results \in Seq(OperationIds \X Batch!Statuses)
  BY DEF BatchInv, Batch!TypeOK
<1>2. Successes(id) \in SUBSET (1..Len(results)) /\ Len(results) \in Nat
  BY <1>1, LenProperties DEF Successes, Batch!Outcomes
<1>3. QED
  BY <1>2, UpTo, FS_Subset, FS_CardinalityType

LEMMA SettleSucceeds ==
  ASSUME BatchInv, NEW i \in Batch!Active, NEW status \in {"success", "failed"}, Batch!Settle(i, status),
         NEW id \in OperationIds
  PROVE  /\ status = "success" /\ queue[i] = id => Cardinality(Successes(id))' <= Cardinality(Successes(id)) + 1
         /\ ~(status = "success" /\ queue[i] = id) => Successes(id)' = Successes(id)
<1> DEFINE n == Len(results)
<1>1. /\ results \in Seq(OperationIds \X Batch!Statuses) /\ n \in Nat
      /\ results' \in Seq(OperationIds \X Batch!Statuses)
      /\ Len(results') = IF Skips(completedIds') THEN n + 2 ELSE n + 1
      /\ \A k \in 1..n : results'[k] = results[k]
      /\ results'[n + 1] = <<queue[i], status>>
      /\ Skips(completedIds') => results'[n + 2] = <<queue[nextIndex], "skipped">>
  BY SettleReports
<1>2. DOMAIN results = 1..n /\ DOMAIN results' = 1..Len(results')
  BY <1>1, LenProperties
<1>3. /\ \A k \in 1..Len(results') : k \in 1..n \/ k = n + 1 \/ (Skips(completedIds') /\ k = n + 2)
      /\ n + 1 \in 1..Len(results') /\ n + 1 \notin 1..n
      /\ \A k \in 1..n : k \in 1..Len(results')
  <2> DEFINE m1 == Len(results')
  <2>1. n \in Nat /\ m1 = IF Skips(completedIds') THEN n + 2 ELSE n + 1
    BY <1>1
  <2> HIDE DEF n, m1
  <2>2. CASE Skips(completedIds')
    <3>1. m1 = n + 2
      BY <2>1, <2>2
    <3>2. /\ n + 1 \in 1..m1 /\ n + 1 \notin 1..n /\ \A k \in 1..n : k \in 1..m1
          /\ \A k \in 1..m1 : k \in 1..n \/ k = n + 1 \/ k = n + 2
      BY <2>1, <3>1
    <3>3. QED
      BY <2>2, <3>2 DEF m1
  <2>3. CASE ~Skips(completedIds')
    <3>1. m1 = n + 1
      BY <2>1, <2>3
    <3>2. /\ n + 1 \in 1..m1 /\ n + 1 \notin 1..n /\ \A k \in 1..n : k \in 1..m1
          /\ \A k \in 1..m1 : k \in 1..n \/ k = n + 1
      BY <2>1, <3>1
    <3>3. QED
      BY <2>3, <3>2 DEF m1
  <2>4. QED
    BY <2>2, <2>3
<1> HIDE DEF n
<1>4. Successes(id)' = {k \in 1..Len(results') : results'[k][1] = id /\ results'[k][2] = "success"}
  BY <1>2 DEF Successes, Batch!Outcomes
<1>5. Successes(id) = {k \in 1..n : results[k][1] = id /\ results[k][2] = "success"}
  BY <1>2 DEF Successes, Batch!Outcomes
<1>6. ASSUME NEW k
      PROVE  k \in Successes(id)' <=>
               k \in Successes(id) \/ (k = n + 1 /\ status = "success" /\ queue[i] = id)
  <2>1. CASE k \in 1..n
    BY <1>1, <1>3, <1>4, <1>5, <2>1
  <2>2. CASE k = n + 1
    <3>1. results'[k][1] = queue[i] /\ results'[k][2] = status
      BY <1>1, <2>2
    <3>2. QED
      BY <1>3, <1>4, <1>5, <2>2, <3>1
  <2>3. CASE Skips(completedIds') /\ k = n + 2
    <3>1. results'[k][2] = "skipped" /\ k # n + 1 /\ k \notin 1..n
      BY <1>1, <2>3
    <3>2. QED
      BY <1>4, <1>5, <3>1
  <2>4. CASE k \notin 1..Len(results')
    BY <1>3, <1>4, <1>5, <2>4
  <2>5. QED
    BY <1>3, <2>1, <2>2, <2>3, <2>4
<1>7. CASE status = "success" /\ queue[i] = id
  <2>1. Successes(id)' = Successes(id) \cup {n + 1}
    BY <1>6, <1>7
  <2>2. IsFiniteSet(Successes(id)) /\ Cardinality(Successes(id)) \in Nat
    BY SuccessesAreFinite
  <2>3. n + 1 \notin Successes(id)
    BY <1>3, <1>5
  <2>4. Cardinality(Successes(id)') = Cardinality(Successes(id)) + 1
    BY <2>1, <2>2, <2>3, FS_AddElement
  <2>5. QED
    BY <1>7, <2>2, <2>4
<1>8. CASE ~(status = "success" /\ queue[i] = id)
  <2>1. \A k : k \in Successes(id)' <=> k \in Successes(id)
    BY <1>6, <1>8, Zenon
  <2>2. Successes(id)' = Successes(id)
    BY <2>1, Zenon
  <2>3. QED
    BY <1>8, <2>2
<1>9. QED
  BY <1>7, <1>8

LEMMA SettlesInv ==
  ASSUME BatchInv, NEW i \in Batch!Indices, NEW lands \in BOOLEAN, NEW status \in {"success", "failed"},
         status = "success" => lands = TRUE,
         Batch!Answers(i, lands), Batch!Settle(i, status),
         UNCHANGED <<previouslyCompleted, operations, queue>>
  PROVE  BatchInv'
<1>1. i \in Batch!Active
  BY DEF Batch!Answers, Batch!Active
<1>2. /\ attempts' \in [Batch!Indices -> 0..(MaxRetries + 1)]
      /\ \A j \in Batch!Indices \ {i} : attempts'[j] = attempts[j]
      /\ landed' \in [OperationIds -> 0..(Batch!MaxLength * (MaxRetries + 1))]
      /\ \A id \in OperationIds : landed'[id] <= Cardinality(Tries')
      /\ \A id \in OperationIds \cap previouslyCompleted' : landed'[id] = 0
      /\ \A id \in OperationIds : landed[id] <= landed'[id]
      /\ lands = TRUE => landed'[queue[i]] = landed[queue[i]] + 1
  BY AnswerFits
<1>3. /\ worker' \in [Batch!Indices -> Batch!Activities]
      /\ nextIndex' = nextIndex + 1
      /\ nextIndex <= Len(queue) => nextIndex \in Batch!Indices
      /\ \A j \in Batch!Indices : worker'[j] = "waiting" <=> j >= nextIndex' \/ j > Len(queue)
      /\ Batch!Active' = (Batch!Active \ {i}) \cup (IF Starts(completedIds') THEN {nextIndex} ELSE {})
      /\ Gone' = (Gone \cup {i}) \cup (IF Skips(completedIds') THEN {nextIndex} ELSE {})
  BY <1>1, SettleMoves
<1>4. CountersFit' /\ counter' \in Batch!Counters
  BY <1>1, SettleAddsUp
<1>5. ReportFits'
  BY <1>1, SettleIsReported
<1>6. QueueFits'
  BY DEF BatchInv, QueueFits, Batch!Distinct
<1>7. /\ queue[i] \in OperationIds /\ i \in 1..Len(queue)
      /\ Len(queue) \in 0..Batch!MaxLength /\ nextIndex \in Nat /\ nextIndex >= 1
      /\ Concurrency \in Nat /\ Batch!MaxLength \in Nat
  <2>1. /\ queue[i] \in OperationIds /\ i \in 1..Len(queue)
        /\ Len(queue) \in 0..Batch!MaxLength /\ nextIndex \in Nat
    BY <1>1, WorkerUnderWay
  <2>2. nextIndex \in 1..(Batch!MaxLength + Concurrency + 1)
    BY DEF BatchInv, Batch!TypeOK
  <2>3. Concurrency \in Nat /\ Batch!MaxLength \in Nat
    BY BatchAssumption, LongestPlan
  <2>4. QED
    BY <2>1, <2>2, <2>3
<1>8. LandedFits'
  <2>1. ASSUME NEW id \in OperationIds PROVE Cardinality(Successes(id))' <= landed'[id]
    <3>1. Cardinality(Successes(id)) \in Nat /\ Cardinality(Successes(id)) <= landed[id]
      BY SuccessesAreFinite DEF BatchInv, LandedFits
    <3>2. Cardinality(Successes(id)') \in Nat
      <4>1. results' \in Seq(OperationIds \X Batch!Statuses)
        BY <1>1, SettleReports
      <4>2. Successes(id)' \in SUBSET (1..Len(results')) /\ Len(results') \in Nat
        BY <4>1, LenProperties DEF Successes, Batch!Outcomes
      <4>3. QED
        BY <4>2, UpTo, FS_Subset, FS_CardinalityType
    <3>3. /\ landed[id] <= landed'[id] /\ landed[id] \in Int /\ landed'[id] \in Int
      BY <1>2 DEF BatchInv, Batch!TypeOK
    <3>4. CASE status = "success" /\ queue[i] = id
      <4>1. Cardinality(Successes(id))' <= Cardinality(Successes(id)) + 1
        BY <1>1, <3>4, SettleSucceeds
      <4>2. landed'[id] = landed[id] + 1
        BY <1>2, <3>4
      <4>3. QED
        BY <3>1, <3>2, <3>3, <4>1, <4>2
    <3>5. CASE ~(status = "success" /\ queue[i] = id)
      <4>1. Successes(id)' = Successes(id)
        BY <1>1, <3>5, SettleSucceeds
      <4>2. QED
        BY <3>1, <3>3, <4>1
    <3>6. QED
      BY <3>4, <3>5
  <2>2. QED
    BY <1>2, <2>1 DEF LandedFits
<1>9. WorkersFit'
  <2>1. \A j \in Batch!Indices : worker'[j] = "waiting" <=> j >= nextIndex' \/ j > Len(queue')
    BY <1>3
  <2>2. \A j \in Batch!Indices \ Gone' : attempts'[j] <= MaxRetries
    BY <1>2, <1>3 DEF BatchInv, WorkersFit
  <2> DEFINE r == counter.running
             r1 == counter'.running
  <2>3. r1 = IF Starts(completedIds') THEN r ELSE r - 1
    BY <1>1, SettleCounters
  <2>4. /\ Cardinality(Batch!Active) = r /\ r <= Concurrency /\ r \in Nat
        /\ nextIndex + r <= Len(queue) + 1 + Concurrency
    BY <1>1, SettleCounts DEF BatchInv, WorkersFit
  <2>5. Cardinality(Batch!Active)' = IF Starts(completedIds') THEN r ELSE r - 1
    BY <1>1, <2>4, SettleCounts
  <2> HIDE DEF r, r1
  <2>6. Cardinality(Batch!Active)' = r1
    BY <2>3, <2>5
  <2>7. r1 <= Concurrency /\ r1 \in Int
    BY <1>7, <2>3, <2>4
  <2>8. nextIndex' + r1 <= Len(queue) + 1 + Concurrency
    <3>1. CASE Starts(completedIds')
      <4>1. nextIndex <= Len(queue)
        BY <3>1 DEF Starts
      <4>2. QED
        BY <1>3, <1>7, <2>3, <2>4, <3>1, <4>1
    <3>2. CASE ~Starts(completedIds')
      BY <1>3, <1>7, <2>3, <2>4, <3>2
    <3>3. QED
      BY <3>1, <3>2
  <2>9. Batch!Distinct' /\ nextIndex' <= Len(queue) => Batch!Active' # {}
    <3> SUFFICES ASSUME Batch!Distinct', nextIndex' <= Len(queue) PROVE Batch!Active' # {}
      OBVIOUS
    <3>1. ~Skips(completedIds')
      BY <1>1, DistinctIsNotSkipped DEF Batch!Distinct
    <3>2. nextIndex <= Len(queue)
      BY <1>3, <1>7
    <3>3. Starts(completedIds')
      BY <3>1, <3>2 DEF Starts, Skips
    <3>4. QED
      BY <1>3, <3>3
  <2>10. QED
    BY <2>1, <2>2, <2>6, <2>7, <2>8, <2>9 DEF WorkersFit, r1
<1>10. nextIndex' \in 1..(Batch!MaxLength + Concurrency + 1)
  <2>1. counter'.running \in Nat
    BY <1>4, <1>7 DEF Batch!Counters
  <2>2. nextIndex' + counter'.running <= Len(queue) + 1 + Concurrency
    BY <1>9 DEF WorkersFit
  <2>3. QED
    BY <1>3, <1>7, <2>1, <2>2
<1>11. completedIds' \subseteq OperationIds
  BY <1>7 DEF Batch!Settle, BatchInv, Batch!TypeOK
<1>12. results' \in Seq(OperationIds \X Batch!Statuses)
  BY <1>1, SettleReports
<1>13. Batch!TypeOK'
  BY <1>2, <1>3, <1>4, <1>10, <1>11, <1>12 DEF BatchInv, Batch!TypeOK
<1>14. QED
  BY <1>4, <1>5, <1>6, <1>8, <1>9, <1>13 DEF BatchInv

LEMMA BatchStepInv == BatchInv /\ [Batch!Next]_batchVars => BatchInv'
<1> SUFFICES ASSUME BatchInv, [Batch!Next]_batchVars PROVE BatchInv'
  OBVIOUS
<1>1. ASSUME NEW i \in Batch!Indices, Batch!DelayEnds(i) PROVE BatchInv'
  BY <1>1, ContinuesInv
<1>2. ASSUME NEW i \in Batch!Indices, NEW lands \in BOOLEAN, Batch!AttemptFails(i, lands) PROVE BatchInv'
  BY <1>2, ContinuesInv
<1>3. ASSUME NEW i \in Batch!Indices, Batch!Succeeds(i) PROVE BatchInv'
  <2>1. /\ Batch!Answers(i, TRUE) /\ Batch!Settle(i, "success")
        /\ UNCHANGED <<previouslyCompleted, operations, queue>>
    BY <1>3 DEF Batch!Succeeds
  <2>2. QED
    BY <2>1, SettlesInv
<1>4. ASSUME NEW i \in Batch!Indices, NEW lands \in BOOLEAN, Batch!Fails(i, lands) PROVE BatchInv'
  <2>1. /\ Batch!Answers(i, lands) /\ Batch!Settle(i, "failed")
        /\ UNCHANGED <<previouslyCompleted, operations, queue>>
    BY <1>4 DEF Batch!Fails
  <2>2. QED
    BY <2>1, SettlesInv
<1>5. CASE UNCHANGED batchVars
  <2>1. UNCHANGED <<previouslyCompleted, operations, queue, nextIndex, attempts, worker, completedIds,
                    counter, results, landed>>
    BY <1>5 DEF batchVars
  <2>2. Batch!TypeOK' /\ QueueFits' /\ WorkersFit'
    BY <2>1 DEF BatchInv, Batch!TypeOK, QueueFits, WorkersFit, Batch!Active, Gone, Batch!Distinct
  <2>a. Gone' = Gone /\ (Batch!Distinct' <=> Batch!Distinct)
    BY <2>1 DEF Gone, Batch!Distinct
  <2>b. CountersFit'
    BY <2>1, <2>a DEF BatchInv, CountersFit
  <2>c. ReportFits'
    BY <2>1, <2>a DEF BatchInv, ReportFits
  <2>3. CountersFit' /\ ReportFits'
    BY <2>b, <2>c
  <2>4. LandedFits'
    BY <2>1 DEF BatchInv, LandedFits, Tries, Successes, Batch!Outcomes
  <2>5. QED
    BY <2>2, <2>3, <2>4 DEF BatchInv
<1>6. QED
  BY <1>1, <1>2, <1>3, <1>4, <1>5 DEF Batch!Next, Batch!Runs

\* What the caller is told follows.
LEMMA BatchAddsUp == BatchInv => Batch!CountersAddUp
<1> SUFFICES ASSUME BatchInv PROVE Batch!CountersAddUp
  OBVIOUS
<1>1. /\ Batch!Cardinality(Batch!Active) = counter.running /\ counter.running <= Concurrency
      /\ counter.completed = Len(results)
      /\ counter.completed = counter.succeeded + counter.failed + counter.skipped
  BY BatchCounts DEF BatchInv, WorkersFit, CountersFit
<1>2. ASSUME NEW id \in OperationIds
      PROVE  Batch!Cardinality({k \in Batch!Outcomes(id) : results[k][2] = "success"}) <= landed[id]
  BY BatchCounts DEF BatchInv, LandedFits, Successes
<1>3. QED
  BY <1>1, <1>2 DEF Batch!CountersAddUp

LEMMA BatchIsReported == BatchInv => Batch!ReportIsComplete
<1> SUFFICES ASSUME BatchInv, Batch!Distinct
    PROVE  /\ \A id \in OperationIds : Batch!Cardinality(Batch!Outcomes(id)) <= 1
           /\ \A id \in previouslyCompleted : landed[id] = 0
           /\ Batch!Completed => \A id \in Batch!Range(operations) : Batch!Outcomes(id) # {}
  BY DEF Batch!ReportIsComplete
<1>1. /\ results \in Seq(OperationIds \X Batch!Statuses) /\ DOMAIN results = 1..Len(results)
      /\ previouslyCompleted \subseteq OperationIds
      /\ operations \in Seq(OperationIds) /\ DOMAIN operations = 1..Len(operations)
  BY LongestPlan, LenProperties DEF BatchInv, Batch!TypeOK
<1>2. ASSUME NEW id \in OperationIds PROVE Batch!Cardinality(Batch!Outcomes(id)) <= 1
  <2>1. \A k, m \in Batch!Outcomes(id) : k = m
    BY <1>1 DEF Batch!Outcomes, BatchInv, ReportFits
  <2>2. CASE Batch!Outcomes(id) = {}
    BY <2>2, BatchCounts, FS_EmptySet
  <2>3. CASE Batch!Outcomes(id) # {}
    <3>1. PICK k \in Batch!Outcomes(id) : TRUE
      BY <2>3
    <3>2. Batch!Outcomes(id) = {k}
      BY <2>1, <3>1
    <3>3. Cardinality({k}) = 1
      BY FS_Singleton
    <3>4. Batch!Cardinality(Batch!Outcomes(id)) = 1
      BY <3>2, <3>3, BatchCounts
    <3>5. QED
      BY <3>4
  <2>4. QED
    BY <2>2, <2>3
<1>3. \A id \in previouslyCompleted : landed[id] = 0
  BY <1>1 DEF BatchInv, LandedFits
<1>4. ASSUME Batch!Completed, NEW id \in Batch!Range(operations) PROVE Batch!Outcomes(id) # {}
  <2>1. PICK k \in 1..Len(operations) : operations[k] = id
    BY <1>1 DEF Batch!Range
  <2>2. Batch!Active = {}
    BY <1>4 DEF Batch!Completed
  <2>3. /\ Len(queue) \in 0..Batch!MaxLength /\ nextIndex \in Nat /\ Batch!MaxLength \in Nat
        /\ Batch!Indices = 1..Batch!MaxLength
    <3>1. /\ queue \in Seq(OperationIds) /\ Len(queue) <= Len(operations) /\ operations \in Plans
          /\ nextIndex \in 1..(Batch!MaxLength + Concurrency + 1)
      BY DEF BatchInv, Batch!TypeOK
    <3>2. QED
      BY <3>1, LongestPlan, LenProperties, BatchAssumption
  <2>4. nextIndex > Len(queue)
    BY <2>2, <2>3 DEF BatchInv, WorkersFit
  <2>5. ASSUME NEW j \in 1..Len(queue) PROVE j \in Gone
    <3>1. j \in Batch!Indices /\ worker[j] # "waiting"
      BY <2>3, <2>4 DEF BatchInv, WorkersFit
    <3>2. worker[j] \in Batch!Activities
      BY <3>1 DEF BatchInv, Batch!TypeOK
    <3>3. QED
      BY <2>2, <3>1, <3>2 DEF Batch!Active, Gone, Batch!Activities
  <2>6. \E m \in 1..Len(results) : results[m][1] = id
    <3>1. CASE id \in previouslyCompleted
      BY <2>1, <3>1 DEF BatchInv, ReportFits
    <3>2. CASE id \notin previouslyCompleted
      <4>1. PICK j \in 1..Len(queue) : queue[j] = id
        BY <2>1, <3>2 DEF BatchInv, QueueFits
      <4>2. QED
        BY <2>5, <4>1 DEF BatchInv, ReportFits
    <3>3. QED
      BY <3>1, <3>2
  <2>7. QED
    BY <1>1, <2>6 DEF Batch!Outcomes
<1>5. QED
  BY <1>2, <1>3, <1>4

-----------------------------------------------------------------------------
\* The components share no state: a step is a step of each or leaves it as it is.
LEMMA StepOfEach ==
  ASSUME [Next]_vars
  PROVE  /\ part' = part
         /\ [Archive!Next]_archiveVars
         /\ [Failover!Next]_failoverVars
         /\ [Stream!Next]_streamVars
         /\ [Account!Next]_accountVars
         /\ [Notify!Next]_notifyVars
         /\ [Batch!Next]_batchVars
<1>1. CASE ArchiveStep
  BY <1>1 DEF ArchiveStep
<1>2. CASE FailoverStep
  BY <1>2 DEF FailoverStep
<1>3. CASE StreamStep
  BY <1>3 DEF StreamStep
<1>4. CASE AccountStep
  BY <1>4 DEF AccountStep
<1>5. CASE NotifyStep
  BY <1>5 DEF NotifyStep
<1>6. CASE BatchStep
  BY <1>6 DEF BatchStep
<1>7. CASE ScheduleStep
  BY <1>7 DEF ScheduleStep
<1>8. CASE UNCHANGED vars
  BY <1>8 DEF vars
<1>9. QED
  BY <1>1, <1>2, <1>3, <1>4, <1>5, <1>6, <1>7, <1>8 DEF Next

\* What holds of each component, whichever of them runs.
EveryInv ==
  /\ part \in Parts
  /\ ArchiveInv /\ FailoverInv /\ StreamInv
  /\ AccountInv /\ NotifyInv /\ BatchInv

LEMMA EveryInit == Init => EveryInv
BY ArchiveInit, FailoverInit, StreamInit, AccountInit, NotifyInit, BatchInit DEF Init, EveryInv

LEMMA EveryStep == EveryInv /\ [Next]_vars => EveryInv'
<1> SUFFICES ASSUME EveryInv, [Next]_vars PROVE EveryInv'
  OBVIOUS
<1>1. /\ part' = part
      /\ [Archive!Next]_archiveVars
      /\ [Failover!Next]_failoverVars
      /\ [Stream!Next]_streamVars
      /\ [Account!Next]_accountVars
      /\ [Notify!Next]_notifyVars
      /\ [Batch!Next]_batchVars
  BY StepOfEach
<1>2. ArchiveInv' /\ FailoverInv' /\ StreamInv'
  BY <1>1, ArchiveStepInv, FailoverStepInv, StreamStepInv DEF EveryInv
<1>3. AccountInv' /\ NotifyInv' /\ BatchInv'
  BY <1>1, AccountStepInv, NotifyStepInv, BatchStepInv DEF EveryInv
<1>4. QED
  BY <1>1, <1>2, <1>3 DEF EveryInv

LEMMA EveryInvariant == Spec => []EveryInv
BY EveryInit, EveryStep, PTL DEF Spec

\* The archive, the endpoints, the streams, the calls of triggers and the batch stay
\* well-formed in whatever order answers, timeouts, errors, exceptions and
\* cancellations come: counters within their bounds, failures below the number that
\* starts a cooldown, no delivery or attempt too many.
THEOREM TypesHold == Spec => []TypeOK
<1>1. EveryInv => TypeOK
  BY DEF EveryInv, TypeOK, ArchiveInv, FailoverInv, StreamInv, AccountInv, NotifyInv, BatchInv
<1>2. QED
  BY <1>1, EveryInvariant, PTL

\* Nothing drops out on its way: an event that was taken is waiting, under way,
\* stored or reported (eventArchivalManager.ts), an ascending stream shows every
\* transaction up to its cursor and no more failures stay hidden than the retries
\* allow (streamTransactions.ts), the last alert fits the balance
\* (balanceAlerts.ts), a trigger reports what it tried (webhooks.ts,
\* paymentNotifications.ts), and the report of a batch counts every outcome, each
\* operation once (batchOperations.ts).
THEOREM NothingIsLost == Spec => []NothingFallsBetween
<1>1. EveryInv => NothingFallsBetween
  BY BatchAddsUp, BatchIsReported
     DEF EveryInv, NothingFallsBetween, ArchiveInv, StreamInv, AccountInv, NotifyInv
<1>2. QED
  BY <1>1, EveryInvariant, PTL
=============================================================================
