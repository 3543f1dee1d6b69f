-------------------------- MODULE ComponentsProofs --------------------------
(***************************************************************************)
(* What Components promises, for every value of its constants.  Of each    *)
(* component there is an inductive invariant, which its initial states     *)
(* satisfy and its steps keep: the state kept between calls, and the calls *)
(* under way, are stronger than what is promised of them.  At the end they *)
(* are put together.  The sums that multi-signature execution and spending *)
(* limits count with are at the beginning.                                 *)
(***************************************************************************)
EXTENDS Components, FiniteSetTheorems, SequenceTheorems, WellFoundedInduction, TLAPS

-----------------------------------------------------------------------------
\* Sums over finite sets. MapThenSumSet takes the elements in an order of its own: it
\* is the value at S of the function that is defined, on the subsets of S, by taking
\* one element away. That this function exists, and that the order does not matter,
\* is shown by the smallest of the sets for which it would fail.
Pick(s) == CHOOSE x \in s : TRUE

Recurses(g, w, S) ==
  g = [s \in SUBSET S |-> IF s = {} THEN 0 ELSE w[Pick(s)] + g[s \ {Pick(s)}]]

SumOver(w, S) == (CHOOSE g : Recurses(g, w, S))[S]

LEMMA SmallestSet ==
  ASSUME NEW S, IsFiniteSet(S), NEW C \in SUBSET (SUBSET S), C # {}
  PROVE  \E s \in C : \A u \in C : u \subseteq s => u = s
<1>1. IsWellFoundedOn(StrictSubsetOrdering(S), SUBSET S)
  BY FS_StrictSubsetOrderingWellFounded, FS_FiniteSubsetsOfFinite
<1>2. \E s \in C : \A u \in C : <<u, s>> \notin StrictSubsetOrdering(S)
  BY <1>1, WFMin
<1>3. QED
  BY <1>2 DEF StrictSubsetOrdering

LEMMA RecursionAt ==
  ASSUME NEW g, NEW w, NEW S, Recurses(g, w, S), NEW s \in SUBSET S
  PROVE  /\ s = {} => g[s] = 0
         /\ s # {} => Pick(s) \in s /\ g[s] = w[Pick(s)] + g[s \ {Pick(s)}]
<1> DEFINE F(t) == IF t = {} THEN 0 ELSE w[Pick(t)] + g[t \ {Pick(t)}]
<1>0. g = [t \in SUBSET S |-> F(t)]
  BY DEF Recurses
<1> HIDE DEF F
<1>f. g[s] = F(s)
  BY <1>0
<1>1. g[s] = IF s = {} THEN 0 ELSE w[Pick(s)] + g[s \ {Pick(s)}]
  BY <1>f DEF F
<1>2. s # {} => Pick(s) \in s
  BY DEF Pick
<1>3. QED
  BY <1>1, <1>2

\* What the function gives for a set depends on the summands of that set only.
LEMMA RecursionAgrees ==
  ASSUME NEW g, NEW w, NEW S, Recurses(g, w, S), NEW h, NEW v, NEW R, Recurses(h, v, R),
         NEW T, IsFiniteSet(T), T \subseteq S, T \subseteq R, \A x \in T : w[x] = v[x]
  PROVE  g[T] = h[T]
<1> DEFINE C == {t \in SUBSET T : g[t] # h[t]}
<1> SUFFICES ASSUME T \in C PROVE FALSE
  OBVIOUS
<1>0. C \in SUBSET (SUBSET T) /\ C # {}
  OBVIOUS
<1>1. PICK t \in C : \A u \in C : u \subseteq t => u = t
  <2> HIDE DEF C
  <2>1. QED
    BY <1>0, SmallestSet
<1>2. t \subseteq T /\ t \in SUBSET S /\ t \in SUBSET R /\ g[t] # h[t]
  BY <1>1
<1>3. CASE t = {}
  BY <1>2, <1>3, RecursionAt
<1>4. CASE t # {}
  <2>1. /\ Pick(t) \in t /\ g[t] = w[Pick(t)] + g[t \ {Pick(t)}]
        /\ h[t] = v[Pick(t)] + h[t \ {Pick(t)}]
    BY <1>2, <1>4, RecursionAt
  <2>2. t \ {Pick(t)} \notin C /\ t \ {Pick(t)} \in SUBSET T
    BY <2>1, <1>1, <1>2
  <2>3. g[t \ {Pick(t)}] = h[t \ {Pick(t)}] /\ w[Pick(t)] = v[Pick(t)]
    BY <2>1, <2>2, <1>2
  <2>4. QED
    BY <2>1, <2>3, <1>2
<1>5. QED
  BY <1>3, <1>4

LEMMA RecursionExists ==
  ASSUME NEW w, NEW S, IsFiniteSet(S)
  PROVE  \E g : Recurses(g, w, S)
<1> DEFINE C == {s \in SUBSET S : ~ \E g : Recurses(g, w, s)}
<1> SUFFICES ASSUME S \in C PROVE FALSE
  OBVIOUS
<1>0. C \in SUBSET (SUBSET S) /\ C # {}
  OBVIOUS
<1>1. PICK s \in C : \A u \in C : u \subseteq s => u = s
  <2> HIDE DEF C
  <2>1. QED
    BY <1>0, SmallestSet
<1>2. s \in SUBSET S /\ ~ \E g : Recurses(g, w, s)
  BY <1>1
<1> DEFINE G(t) == CHOOSE g : Recurses(g, w, t)
           top == IF s = {} THEN 0 ELSE w[Pick(s)] + G(s \ {Pick(s)})[s \ {Pick(s)}]
           new == [t \in SUBSET s |-> IF t = s THEN top ELSE G(t)[t]]
<1>3. \A t \in SUBSET s : t # s => Recurses(G(t), w, t)
  <2> SUFFICES ASSUME NEW t \in SUBSET s, t # s PROVE \E g : Recurses(g, w, t)
    OBVIOUS
  <2>1. QED
    BY <1>1, <1>2
<1>4. s # {} => Pick(s) \in s
  BY DEF Pick
<1>5. ASSUME NEW t \in SUBSET s
      PROVE  new[t] = IF t = {} THEN 0 ELSE w[Pick(t)] + new[t \ {Pick(t)}]
  <2>1. t # {} => Pick(t) \in t /\ t \ {Pick(t)} # s /\ t \ {Pick(t)} \in SUBSET s
    BY DEF Pick
  <2>2. t # {} => new[t \ {Pick(t)}] = G(t \ {Pick(t)})[t \ {Pick(t)}]
    BY <2>1
  <2>3. CASE t = s
    BY <2>2, <2>3
  <2>4. CASE t # s
    <3>1. Recurses(G(t), w, t) /\ new[t] = G(t)[t]
      BY <1>3, <2>4
    <3> DEFINE u == t \ {Pick(t)}
               h == G(t)
               k == G(u)
    <3>2. t # {} => Recurses(k, w, u)
      BY <1>3, <2>1
    <3> HIDE DEF G, new
    <3>3. t # {} => h[u] = k[u]
      <4> SUFFICES ASSUME t # {} PROVE h[u] = k[u]
        OBVIOUS
      <4>1. Recurses(h, w, t) /\ Recurses(k, w, u) /\ u \subseteq t /\ u \subseteq u
        BY <3>1, <3>2
      <4>2. IsFiniteSet(u)
        BY <1>2, FS_Subset
      <4> HIDE DEF u, h, k
      <4>3. QED
        BY <4>1, <4>2, RecursionAgrees
    <3>4. /\ t = {} => h[t] = 0
          /\ t # {} => h[t] = w[Pick(t)] + h[u]
      <4>1. Recurses(h, w, t) /\ t \in SUBSET t
        BY <3>1
      <4> HIDE DEF h
      <4>2. QED
        BY <4>1, RecursionAt
    <3>5. QED
      BY <3>1, <3>3, <3>4, <2>2
  <2>5. QED
    BY <2>3, <2>4
<1>6. Recurses(new, w, s)
  <2>1. new = [t \in SUBSET s |-> new[t]]
    OBVIOUS
  <2> HIDE DEF new
  <2>2. new = [t \in SUBSET s |-> IF t = {} THEN 0 ELSE w[Pick(t)] + new[t \ {Pick(t)}]]
    BY <2>1, <1>5
  <2>3. QED
    BY <2>2 DEF Recurses
<1>7. QED
  BY <1>2, <1>6

LEMMA SumSteps ==
  ASSUME NEW w, NEW S, IsFiniteSet(S)
  PROVE  /\ S = {} => SumOver(w, S) = 0
         /\ S # {} => Pick(S) \in S /\ SumOver(w, S) = w[Pick(S)] + SumOver(w, S \ {Pick(S)})
<1> DEFINE g == CHOOSE f : Recurses(f, w, S)
           R == S \ {Pick(S)}
           h == CHOOSE f : Recurses(f, w, R)
<1>1. IsFiniteSet(R) /\ R \subseteq S
  BY FS_Subset
<1>2. Recurses(g, w, S)
  BY RecursionExists
<1>3. Recurses(h, w, R)
  <2>1. \E f : Recurses(f, w, R)
    BY <1>1, RecursionExists
  <2>2. QED
    BY <2>1
<1>4. SumOver(w, S) = g[S] /\ SumOver(w, R) = h[R]
  BY DEF SumOver
<1> HIDE DEF g, h
<1>5. g[R] = h[R]
  <2> HIDE DEF R
  <2>1. QED
    BY <1>1, <1>2, <1>3, RecursionAgrees
<1>6. QED
  BY <1>2, <1>4, <1>5, RecursionAt

LEMMA SumIsNat ==
  ASSUME NEW w, NEW S, IsFiniteSet(S), \A x \in S : w[x] \in Nat
  PROVE  SumOver(w, S) \in Nat
<1> DEFINE C == {s \in SUBSET S : SumOver(w, s) \notin Nat}
<1> SUFFICES ASSUME S \in C PROVE FALSE
  OBVIOUS
<1>0. C \in SUBSET (SUBSET S) /\ C # {}
  OBVIOUS
<1>1. PICK s \in C : \A u \in C : u \subseteq s => u = s
  <2> HIDE DEF C
  <2>1. QED
    BY <1>0, SmallestSet
<1>2. s \subseteq S /\ IsFiniteSet(s) /\ SumOver(w, s) \notin Nat
  BY <1>1, FS_Subset
<1>e. s # {}
  BY <1>2, SumSteps
<1>3. Pick(s) \in s /\ SumOver(w, s) = w[Pick(s)] + SumOver(w, s \ {Pick(s)})
  BY <1>2, <1>e, SumSteps
<1>4. SumOver(w, s \ {Pick(s)}) \in Nat
  BY <1>1, <1>2, <1>3
<1>5. QED
  BY <1>2, <1>3, <1>4

\* Any element may be the one that is taken away.
LEMMA SumWithout ==
  ASSUME NEW w, NEW S, IsFiniteSet(S), \A x \in S : w[x] \in Nat, NEW e \in S
  PROVE  SumOver(w, S) = w[e] + SumOver(w, S \ {e})
<1> DEFINE C == {s \in SUBSET S : \E x \in s : SumOver(w, s) # w[x] + SumOver(w, s \ {x})}
<1> SUFFICES ASSUME S \in C PROVE FALSE
  OBVIOUS
<1>0. C \in SUBSET (SUBSET S) /\ C # {}
  OBVIOUS
<1>1. PICK s \in C : \A u \in C : u \subseteq s => u = s
  <2> HIDE DEF C
  <2>1. QED
    BY <1>0, SmallestSet
<1>2. PICK x \in s : SumOver(w, s) # w[x] + SumOver(w, s \ {x})
  BY <1>1
<1> DEFINE p == Pick(s)
<1>3. s \subseteq S /\ IsFiniteSet(s) /\ s # {} /\ p \in s
      /\ SumOver(w, s) = w[p] + SumOver(w, s \ {p})
  BY <1>1, <1>2, FS_Subset, SumSteps
<1> HIDE DEF p
<1>4. p # x
  BY <1>2, <1>3
<1>5. s \ {p} \notin C /\ s \ {x} \notin C
  BY <1>1, <1>2, <1>3
<1>6. SumOver(w, s \ {p}) = w[x] + SumOver(w, (s \ {p}) \ {x})
  BY <1>2, <1>3, <1>4, <1>5
<1>7. SumOver(w, s \ {x}) = w[p] + SumOver(w, (s \ {x}) \ {p})
  BY <1>2, <1>3, <1>4, <1>5
<1>8. (s \ {p}) \ {x} = (s \ {x}) \ {p}
  OBVIOUS
<1> DEFINE rest == SumOver(w, (s \ {p}) \ {x})
<1>9. rest \in Nat /\ w[x] \in Nat /\ w[p] \in Nat
  <2>1. IsFiniteSet((s \ {p}) \ {x})
    BY <1>3, FS_Subset
  <2>2. QED
    BY <2>1, <1>2, <1>3, SumIsNat
<1>10. /\ SumOver(w, s) = w[p] + (w[x] + rest)
       /\ w[x] + SumOver(w, s \ {x}) = w[x] + (w[p] + rest)
  BY <1>3, <1>6, <1>7, <1>8
<1> HIDE DEF rest
<1>11. w[p] + (w[x] + rest) = w[x] + (w[p] + rest)
  BY <1>9
<1>12. QED
  BY <1>2, <1>10, <1>11

LEMMA SumWith ==
  ASSUME NEW w, NEW S, IsFiniteSet(S), NEW e, e \notin S, \A x \in S \cup {e} : w[x] \in Nat
  PROVE  SumOver(w, S \cup {e}) = w[e] + SumOver(w, S)
<1>1. IsFiniteSet(S \cup {e}) /\ (S \cup {e}) \ {e} = S
  BY FS_AddElement
<1>2. QED
  BY <1>1, SumWithout

LEMMA SameSummands ==
  ASSUME NEW w, NEW v, NEW S, IsFiniteSet(S), \A x \in S : w[x] = v[x]
  PROVE  SumOver(w, S) = SumOver(v, S)
<1> DEFINE g == CHOOSE f : Recurses(f, w, S)
           h == CHOOSE f : Recurses(f, v, S)
<1>1. Recurses(g, w, S) /\ Recurses(h, v, S)
  BY RecursionExists
<1>2. SumOver(w, S) = g[S] /\ SumOver(v, S) = h[S]
  BY DEF SumOver
<1> HIDE DEF g, h
<1>3. QED
  BY <1>1, <1>2, RecursionAgrees

LEMMA SumGrows ==
  ASSUME NEW w, NEW S, IsFiniteSet(S), \A x \in S : w[x] \in Nat, NEW T \in SUBSET S
  PROVE  SumOver(w, T) <= SumOver(w, S)
<1> DEFINE C == {s \in SUBSET S : T \subseteq s /\ ~(SumOver(w, T) <= SumOver(w, s))}
<1> SUFFICES ASSUME S \in C PROVE FALSE
  OBVIOUS
<1>0. C \in SUBSET (SUBSET S) /\ C # {}
  OBVIOUS
<1>1. PICK s \in C : \A u \in C : u \subseteq s => u = s
  <2> HIDE DEF C
  <2>1. QED
    BY <1>0, SmallestSet
<1>2. s \subseteq S /\ T \subseteq s /\ ~(SumOver(w, T) <= SumOver(w, s))
      /\ IsFiniteSet(s) /\ IsFiniteSet(T)
  BY <1>1, FS_Subset
<1>3. SumOver(w, s) \in Nat /\ SumOver(w, T) \in Nat
  BY <1>2, SumIsNat
<1>4. PICK x \in s : x \notin T
  BY <1>2, <1>3
<1>5. SumOver(w, s) = w[x] + SumOver(w, s \ {x}) /\ w[x] \in Nat
  BY <1>2, SumWithout
<1>6. s \ {x} \notin C /\ T \subseteq s \ {x} /\ s \ {x} \in SUBSET S
  BY <1>1, <1>2, <1>4
<1>7. SumOver(w, T) <= SumOver(w, s \ {x})
  BY <1>6
<1>8. SumOver(w, s \ {x}) \in Nat
  <2>1. IsFiniteSet(s \ {x})
    BY <1>2, FS_Subset
  <2>2. QED
    BY <2>1, <1>2, SumIsNat
<1>9. QED
  BY <1>2, <1>3, <1>5, <1>7, <1>8

\* A sum over a list that repeats nothing is the sum over what the list names.
LEMMA SumByName ==
  ASSUME NEW D, IsFiniteSet(D), NEW f, NEW w, \A i \in D : w[f[i]] \in Nat,
         \A i, j \in D : f[i] = f[j] => i = j
  PROVE  SumOver([i \in D |-> w[f[i]]], D) = SumOver(w, {f[i] : i \in D})
<1> DEFINE v == [i \in D |-> w[f[i]]]
           Names(d) == {f[i] : i \in d}
           C == {d \in SUBSET D : SumOver(v, d) # SumOver(w, Names(d))}
<1> SUFFICES ASSUME D \in C PROVE FALSE
  OBVIOUS
<1>0. C \in SUBSET (SUBSET D) /\ C # {}
  OBVIOUS
<1>1. PICK d \in C : \A u \in C : u \subseteq d => u = d
  <2> HIDE DEF C
  <2>1. QED
    BY <1>0, SmallestSet
<1>2. d \subseteq D /\ IsFiniteSet(d) /\ SumOver(v, d) # SumOver(w, Names(d))
  BY <1>1, FS_Subset
<1>3. IsFiniteSet(Names(d))
  <2> DEFINE g == [i \in d |-> f[i]]
  <2>1. g \in Surjection(d, Names(d))
    BY DEF Surjection
  <2> HIDE DEF g, Names
  <2>2. QED
    BY <2>1, <1>2, FS_Surjection
<1>4. CASE d = {}
  <2>1. Names(d) = {}
    BY <1>4
  <2>2. SumOver(v, d) = 0 /\ SumOver(w, Names(d)) = 0
    BY <2>1, <1>4, SumSteps, FS_EmptySet
  <2>3. QED
    BY <2>2, <1>2
<1>5. CASE d # {}
  <2>1. PICK i \in d : TRUE
    BY <1>5
  <2>2. d \ {i} \notin C /\ d \ {i} \in SUBSET D
    BY <1>1, <1>2, <2>1
  <2>3. SumOver(v, d \ {i}) = SumOver(w, Names(d \ {i}))
    BY <2>2
  <2>4. v[i] = w[f[i]] /\ \A j \in d : v[j] \in Nat
    BY <1>2, <2>1
  <2> HIDE DEF v
  <2>5. SumOver(v, d) = v[i] + SumOver(v, d \ {i})
    BY <1>2, <2>1, <2>4, SumWithout
  <2>6. Names(d) \ {f[i]} = Names(d \ {i}) /\ f[i] \in Names(d)
    BY <1>2, <2>1
  <2>7. \A x \in Names(d) : w[x] \in Nat
    BY <1>2
  <2>8. IsFiniteSet(Names(d))
    BY <1>2, <1>3
  <2> HIDE DEF Names
  <2>9. SumOver(w, Names(d)) = w[f[i]] + SumOver(w, Names(d) \ {f[i]})
    BY <2>6, <2>7, <2>8, SumWithout
  <2>10. QED
    BY <1>2, <2>3, <2>4, <2>5, <2>6, <2>9
<1>6. QED
  BY <1>4, <1>5

-----------------------------------------------------------------------------
\* A stack that loses its top, or grows.
LEMMA Prefix ==
  ASSUME NEW F, NEW s, NEW n \in Nat, \A i \in 1..n : s[i] \in F
  PROVE  /\ SubSeq(s, 1, n) \in Seq(F)
         /\ Len(SubSeq(s, 1, n)) = n
         /\ \A i \in 1..n : SubSeq(s, 1, n)[i] = s[i]
<1> DEFINE t == SubSeq(s, 1, n)
<1>1. /\ t \in Seq(F) /\ Len(t) = IF 1 <= n THEN n - 1 + 1 ELSE 0
      /\ \A i \in 1..(n - 1 + 1) : t[i] = s[1 + i - 1]
  BY SubSeqProperties
<1> HIDE DEF t
<1>2. n - 1 + 1 = n /\ (~(1 <= n) => n = 0)
  OBVIOUS
<1>3. \A i \in 1..n : 1 + i - 1 = i
  OBVIOUS
<1>4. \A i \in 1..n : t[i] = s[i]
  BY <1>1, <1>2, <1>3
<1>5. QED
  BY <1>1, <1>2, <1>4 DEF t

LEMMA Popped ==
  ASSUME NEW F, NEW s \in Seq(F), s # <<>>
  PROVE  /\ Len(s) \in Nat \ {0} /\ s[Len(s)] \in F
         /\ SubSeq(s, 1, Len(s) - 1) \in Seq(F)
         /\ Len(SubSeq(s, 1, Len(s) - 1)) = Len(s) - 1
         /\ \A i \in 1..(Len(s) - 1) : SubSeq(s, 1, Len(s) - 1)[i] = s[i]
<1>1. Len(s) \in Nat \ {0} /\ s[Len(s)] \in F
  OBVIOUS
<1> DEFINE n == Len(s) - 1
<1>2. n \in Nat /\ \A i \in 1..n : s[i] \in F
  BY <1>1
<1> HIDE DEF n
<1>3. /\ SubSeq(s, 1, n) \in Seq(F) /\ Len(SubSeq(s, 1, n)) = n
      /\ \A i \in 1..n : SubSeq(s, 1, n)[i] = s[i]
  BY <1>2, Prefix
<1>4. QED
  BY <1>1, <1>3 DEF n

LEMMA Pushed ==
  ASSUME NEW F, NEW s \in Seq(F), NEW f \in F
  PROVE  /\ Append(s, f) \in Seq(F) /\ Len(Append(s, f)) = Len(s) + 1 /\ Len(s) \in Nat
         /\ Append(s, f)[Len(s) + 1] = f
         /\ \A i \in 1..Len(s) : Append(s, f)[i] = s[i]
OBVIOUS

-----------------------------------------------------------------------------
RequestNames == Nat \X Payloads

\* An id that was given out, and is stored or was assembled, is not ahead.
IdsAreBehind == \A id \in DOMAIN requests \cup assembled : id[1] <= sequence

\* What was assembled and is still stored says so.
AssembledIsExecuted ==
  \A id \in assembled \cap DOMAIN requests : requests[id].status = "executed"

\* The signatures of a request are those of different declared signers.
Distinct(r) ==
  /\ \A i \in DOMAIN r.signatures : r.signatures[i] \in r.signers
  /\ \A i, j \in DOMAIN r.signatures : r.signatures[i] = r.signatures[j] => i = j

\* Its weight was found to be enough when it was found to be ready, and execution
\* finds it again.
Backed(r) == r.status \in {"ready", "executed"} => MultiSig!CollectedWeight(r) >= r.threshold

Genuine(r) == Distinct(r) /\ Backed(r)

RequestsAreGenuine == \A id \in DOMAIN requests : Genuine(requests[id])

MultiSigInv == MultiSig!TypeOK /\ IdsAreBehind /\ AssembledIsExecuted /\ RequestsAreGenuine

LEMMA MultiSigInit == MultiSig!Init => MultiSigInv
<1> SUFFICES ASSUME MultiSig!Init PROVE MultiSigInv
  OBVIOUS
<1>1. DOMAIN requests = {} /\ sequence = 0 /\ assembled = {}
  BY DEF MultiSig!Init
<1>2. QED
  BY <1>1, MultiSigAssumption DEF MultiSigInv, MultiSig!TypeOK, IdsAreBehind, AssembledIsExecuted, RequestsAreGenuine

\* The weight of a list of signatures is a sum.
LEMMA CollectedIsSum ==
  ASSUME NEW r, r.signatures \in Seq(Signers)
  PROVE  MultiSig!CollectedWeight(r)
           = SumOver([i \in DOMAIN r.signatures |-> Weight[r.signatures[i]]], DOMAIN r.signatures)
<1> DEFINE D == DOMAIN r.signatures
           w == [i \in D |-> Weight[r.signatures[i]]]
           E(g, s) == IF s = {} THEN 0 ELSE Weight[r.signatures[Pick(s)]] + g[s \ {Pick(s)}]
           F(g, s) == IF s = {} THEN 0 ELSE w[Pick(s)] + g[s \ {Pick(s)}]
           h == CHOOSE g : g = [s \in SUBSET D |-> E(g, s)]
           k == CHOOSE g : Recurses(g, w, D)
<1>1. IsFiniteSet(D)
  <2>1. D = 1..Len(r.signatures) /\ Len(r.signatures) \in Nat
    OBVIOUS
  <2>2. QED
    BY <2>1, FS_Interval
<1>2. MultiSig!CollectedWeight(r) = h[D]
  BY DEF MultiSig!CollectedWeight, MultiSig!MapThenSumSet, MultiSig!MapThenFoldSet, Pick
<1>3. \A s \in SUBSET D : s # {} => Pick(s) \in D
  BY DEF Pick
<1>4. \A g : \A s \in SUBSET D : E(g, s) = F(g, s)
  BY <1>3
<1> HIDE DEF w
<1>5. \A g : (g = [s \in SUBSET D |-> E(g, s)]) <=> Recurses(g, w, D)
  <2> HIDE DEF E, F
  <2>1. ASSUME NEW g PROVE (g = [s \in SUBSET D |-> E(g, s)]) <=> (g = [s \in SUBSET D |-> F(g, s)])
    <3>1. [s \in SUBSET D |-> E(g, s)] = [s \in SUBSET D |-> F(g, s)]
      BY <1>4
    <3>2. QED
      BY <3>1
  <2>2. QED
    BY <2>1 DEF Recurses, F
<1>6. Recurses(k, w, D) /\ Recurses(h, w, D)
  <2>1. \E g : Recurses(g, w, D)
    BY <1>1, RecursionExists
  <2>2. \E g : g = [s \in SUBSET D |-> E(g, s)]
    BY <2>1, <1>5
  <2>3. h = [s \in SUBSET D |-> E(h, s)]
    <3> HIDE DEF E
    <3>1. QED
      BY <2>2
  <2>4. QED
    BY <2>1, <2>3, <1>5
<1>7. SumOver(w, D) = k[D]
  BY DEF SumOver
<1> HIDE DEF h, k, D
<1>8. h[D] = k[D]
  BY <1>1, <1>6, RecursionAgrees
<1>9. QED
  BY <1>2, <1>7, <1>8 DEF w, D

LEMMA WeightIsSum == \A S : MultiSig!WeightOf(S) = SumOver(Weight, S)
BY DEF MultiSig!WeightOf, MultiSig!MapThenSumSet, MultiSig!MapThenFoldSet, SumOver, Recurses, Pick

LEMMA SameSignatures ==
  ASSUME NEW r \in MultiSig!Request, NEW q \in MultiSig!Request, r.signatures = q.signatures
  PROVE  MultiSig!CollectedWeight(r) = MultiSig!CollectedWeight(q)
<1>1. r.signatures \in Seq(Signers) /\ q.signatures \in Seq(Signers)
  BY DEF MultiSig!Request
<1>2. QED
  BY <1>1, CollectedIsSum

\* The weights of different signers add up to that of the set of them.
LEMMA WeightsOfDifferent ==
  ASSUME NEW r \in MultiSig!Request, Distinct(r)
  PROVE  MultiSig!CollectedWeight(r) = MultiSig!WeightOf(MultiSig!SignedBy(r))
<1> DEFINE D == DOMAIN r.signatures
           f == r.signatures
<1>1. f \in Seq(Signers)
  BY DEF MultiSig!Request
<1>2. IsFiniteSet(D) /\ \A i \in D : f[i] \in Signers
  <2>1. D = 1..Len(f) /\ Len(f) \in Nat
    BY <1>1
  <2>2. IsFiniteSet(1..Len(f))
    BY <2>1, FS_Interval
  <2>3. QED
    BY <1>1, <2>1, <2>2
<1>3. \A i \in D : Weight[f[i]] \in Nat
  BY <1>2, MultiSigAssumption
<1>4. \A i, j \in D : f[i] = f[j] => i = j
  BY DEF Distinct
<1>5. MultiSig!SignedBy(r) = {f[i] : i \in D}
  BY DEF MultiSig!SignedBy
<1>6. MultiSig!CollectedWeight(r) = SumOver([i \in D |-> Weight[f[i]]], D)
  BY <1>1, CollectedIsSum
<1> HIDE DEF f, D
<1>7. SumOver([i \in D |-> Weight[f[i]]], D) = SumOver(Weight, {f[i] : i \in D})
  BY <1>2, <1>3, <1>4, SumByName
<1>8. QED
  BY <1>5, <1>6, <1>7, WeightIsSum

\* recompute() touches the status alone, and leaves an executed request as it is.
LEMMA RecomputeKeeps ==
  ASSUME NEW r \in MultiSig!Request, NEW now
  PROVE  /\ MultiSig!Recompute(r, now) \in MultiSig!Request
         /\ MultiSig!Recompute(r, now).signers = r.signers
         /\ MultiSig!Recompute(r, now).signatures = r.signatures
         /\ r.status = "executed" => MultiSig!Recompute(r, now) = r
         /\ Distinct(r) /\ (r.status = "executed" => Backed(r)) => Genuine(MultiSig!Recompute(r, now))
<1> DEFINE st == IF r.status = "executed" THEN "executed"
                 ELSE IF MultiSig!IsExpired(r, now) THEN "expired"
                 ELSE IF MultiSig!CollectedWeight(r) >= r.threshold THEN "ready" ELSE "collecting"
<1>1. MultiSig!Recompute(r, now) = [r EXCEPT !.status = st]
  BY DEF MultiSig!Recompute
<1>2. st \in {"collecting", "ready", "expired", "executed"}
  OBVIOUS
<1>3. r.status = "executed" => st = r.status
  OBVIOUS
<1>4. st \in {"ready", "executed"} =>
        \/ MultiSig!CollectedWeight(r) >= r.threshold
        \/ r.status = "executed"
  OBVIOUS
<1> HIDE DEF st
<1> DEFINE new == MultiSig!Recompute(r, now)
<1>5. /\ new \in MultiSig!Request /\ new.signers = r.signers /\ new.signatures = r.signatures
      /\ new.threshold = r.threshold /\ new.status = st
      /\ r.status = "executed" => new = r
  BY <1>1, <1>2, <1>3 DEF MultiSig!Request
<1>6. MultiSig!CollectedWeight(new) = MultiSig!CollectedWeight(r)
  BY <1>5, SameSignatures
<1> HIDE DEF new
<1>7. Distinct(r) /\ (r.status = "executed" => Backed(r)) => Genuine(new)
  BY <1>4, <1>5, <1>6 DEF Distinct, Backed, Genuine
<1>8. QED BY <1>5, <1>7 DEF new

\* Storing a well-formed request under an id that was given out: an assembled
\* id keeps an executed request.
LEMMA PutKeeps ==
  ASSUME MultiSigInv, NEW id \in RequestNames, NEW r \in MultiSig!Request, Genuine(r), MultiSig!Put(id, r),
         NEW n \in 0..MaxSequence, sequence' = n, sequence <= n, id[1] <= n,
         NEW A, assembled' = A, A \subseteq assembled \cup {id},
         id \in A => r.status = "executed"
  PROVE  MultiSigInv'
<1>1. /\ DOMAIN requests' = DOMAIN requests \cup {id}
      /\ \A i \in DOMAIN requests' : requests'[i] = IF i = id THEN r ELSE requests[i]
  BY DEF MultiSig!Put
<1>2. MultiSig!TypeOK'
  BY <1>1 DEF MultiSigInv, MultiSig!TypeOK, RequestNames
<1>3. IdsAreBehind'
  <2> SUFFICES ASSUME NEW i \in (DOMAIN requests \cup assembled)'
               PROVE  i[1] <= n
    BY DEF IdsAreBehind
  <2>1. CASE i = id
    BY <2>1
  <2>2. CASE i # id
    <3>1. i \in DOMAIN requests \cup assembled
      BY <2>2, <1>1
    <3>2. i[1] <= sequence /\ i \in RequestNames
      BY <3>1 DEF MultiSigInv, IdsAreBehind, MultiSig!TypeOK, RequestNames
    <3>3. i[1] \in Nat /\ sequence \in Nat /\ n \in Nat
      BY <3>2, MultiSigAssumption DEF RequestNames, MultiSigInv, MultiSig!TypeOK
    <3>4. QED BY <3>2, <3>3
  <2>3. QED BY <2>1, <2>2
<1>4. AssembledIsExecuted'
  BY <1>1 DEF MultiSigInv, AssembledIsExecuted
<1>5. RequestsAreGenuine'
  <2> SUFFICES ASSUME NEW i \in DOMAIN requests' PROVE Genuine(requests'[i])
    BY DEF RequestsAreGenuine
  <2>1. CASE i = id
    BY <2>1, <1>1
  <2>2. CASE i # id
    <3>1. requests'[i] = requests[i] /\ i \in DOMAIN requests
      BY <2>2, <1>1
    <3>2. QED BY <3>1 DEF MultiSigInv, RequestsAreGenuine
  <2>3. QED BY <2>1, <2>2
<1>6. QED BY <1>2, <1>3, <1>4, <1>5 DEF MultiSigInv

\* What a stored request is.
LEMMA Stored ==
  ASSUME MultiSigInv, NEW id \in DOMAIN requests
  PROVE  /\ id \in RequestNames /\ requests[id] \in MultiSig!Request /\ Genuine(requests[id])
         /\ sequence \in 0..MaxSequence /\ sequence \in Nat /\ id[1] <= sequence
         /\ id \in assembled => requests[id].status = "executed"
BY MultiSigAssumption DEF MultiSigInv, MultiSig!TypeOK, IdsAreBehind, AssembledIsExecuted,
   RequestsAreGenuine, RequestNames

LEMMA RefreshKeeps ==
  ASSUME MultiSigInv, NEW id \in DOMAIN requests, NEW now, MultiSig!Refresh(id, now),
         UNCHANGED <<sequence, assembled>>
  PROVE  MultiSigInv'
<1> DEFINE r == MultiSig!Recompute(requests[id], now)
<1>1. /\ id \in RequestNames /\ requests[id] \in MultiSig!Request /\ Genuine(requests[id])
      /\ sequence \in 0..MaxSequence /\ sequence \in Nat /\ id[1] <= sequence
      /\ id \in assembled => requests[id].status = "executed"
  BY Stored
<1>2. r \in MultiSig!Request /\ (requests[id].status = "executed" => r = requests[id])
  BY <1>1, RecomputeKeeps
<1>3. Genuine(r)
  BY <1>1, RecomputeKeeps DEF Genuine
<1>4. MultiSig!Put(id, r)
  BY DEF MultiSig!Refresh
<1>5. id \in assembled => r.status = "executed"
  BY <1>1, <1>2
<1> HIDE DEF r
<1>6. sequence' = sequence /\ assembled' = assembled /\ sequence <= sequence
  BY <1>1
<1>7. QED BY <1>1, <1>2, <1>3, <1>4, <1>5, <1>6, PutKeeps

LEMMA CreateKeeps ==
  ASSUME MultiSigInv, NEW p \in Payloads, NEW S \in SUBSET Signers,
         NEW t \in Thresholds, NEW e \in Expiries, NEW now,
         MultiSig!CreateSigningRequest(p, S, t, e, now)
  PROVE  MultiSigInv'
<1> DEFINE r == [signers |-> S, threshold |-> t, expiresAt |-> e,
                 signatures |-> <<>>, status |-> "collecting"]
           id == MultiSig!NextId(p)
<1>1. sequence \in Nat /\ sequence + 1 \in 0..MaxSequence
  BY MultiSigAssumption DEF MultiSigInv, MultiSig!TypeOK, MultiSig!CreateSigningRequest
<1>2. id \in RequestNames /\ id[1] = sequence + 1
  BY <1>1 DEF RequestNames, MultiSig!NextId
<1>3. <<>> \in Seq(Signers) /\ DOMAIN <<>> = {}
  OBVIOUS
<1>4. r \in MultiSig!Request
  BY <1>3 DEF MultiSig!Request
<1>5. Genuine(r)
  BY <1>3 DEF Distinct, Backed, Genuine
<1>6. MultiSig!Put(id, r) /\ sequence' = sequence + 1 /\ assembled' = assembled
  BY DEF MultiSig!CreateSigningRequest
<1>7. id \notin assembled
  BY <1>1, <1>2 DEF MultiSigInv, IdsAreBehind
<1> HIDE DEF r, id
<1>8. sequence <= sequence + 1 /\ id[1] <= sequence + 1
  BY <1>1, <1>2
<1>9. QED BY <1>1, <1>2, <1>4, <1>5, <1>6, <1>7, <1>8, PutKeeps

LEMMA SignKeeps ==
  ASSUME MultiSigInv, NEW id \in DOMAIN requests, NEW s \in Signers,
         NEW isValid \in BOOLEAN, NEW now, MultiSig!AddSignature(id, s, isValid, now)
  PROVE  MultiSigInv'
<1> DEFINE r  == MultiSig!Recompute(requests[id], now)
           rs == [r EXCEPT !.signatures = Append(@, s)]
           r2 == MultiSig!Recompute(rs, now)
<1>1. /\ id \in RequestNames /\ requests[id] \in MultiSig!Request /\ Genuine(requests[id])
      /\ sequence \in 0..MaxSequence /\ sequence \in Nat /\ id[1] <= sequence
      /\ id \in assembled => requests[id].status = "executed"
  BY Stored
<1>2. sequence' = sequence /\ assembled' = assembled
  BY DEF MultiSig!AddSignature
<1>3. CASE MultiSig!Accepts(r, s) /\ isValid
  <2>1. MultiSig!Put(id, r2)
    BY <1>3 DEF MultiSig!AddSignature
  <2>2. r \in MultiSig!Request /\ (requests[id].status = "executed" => r = requests[id]) /\ Genuine(r)
    BY <1>1, RecomputeKeeps DEF Genuine
  <2>3. id \notin assembled
    BY <1>1, <1>3, <2>2 DEF MultiSig!Accepts
  <2>4. s \in r.signers /\ r.status # "executed" /\ \A i \in DOMAIN r.signatures : r.signatures[i] # s
    BY <1>3 DEF MultiSig!Accepts, MultiSig!SignedBy
  <2> HIDE DEF r
  <2>5. /\ rs \in MultiSig!Request /\ rs.signers = r.signers /\ rs.status # "executed"
        /\ rs.signatures = Append(r.signatures, s) /\ r.signatures \in Seq(Signers)
    BY <2>2, <2>4 DEF MultiSig!Request
  <2>6. Distinct(rs)
    <3> DEFINE q == r.signatures
    <3>1. q \in Seq(Signers) /\ rs.signatures = Append(q, s)
      BY <2>5
    <3>2. /\ DOMAIN Append(q, s) = 1..(Len(q) + 1) /\ DOMAIN q = 1..Len(q) /\ Len(q) \in Nat
          /\ \A i \in 1..Len(q) : Append(q, s)[i] = q[i]
          /\ Append(q, s)[Len(q) + 1] = s
      BY <3>1
    <3>3. /\ \A i \in DOMAIN q : q[i] \in r.signers /\ q[i] # s
          /\ \A i, j \in DOMAIN q : q[i] = q[j] => i = j
      BY <2>2, <2>4 DEF Genuine, Distinct
    <3> HIDE DEF q, rs
    <3>4. \A i \in 1..(Len(q) + 1) : i \in 1..Len(q) \/ i = Len(q) + 1
      BY <3>2
    <3>5. \A i \in DOMAIN rs.signatures : rs.signatures[i] \in rs.signers
      BY <3>1, <3>2, <3>3, <3>4, <2>4, <2>5
    <3>6. \A i, j \in DOMAIN rs.signatures : rs.signatures[i] = rs.signatures[j] => i = j
      BY <3>1, <3>2, <3>3, <3>4
    <3>7. QED BY <3>5, <3>6 DEF Distinct
  <2> HIDE DEF rs
  <2>7. r2 \in MultiSig!Request /\ Genuine(r2)
    BY <2>5, <2>6, RecomputeKeeps
  <2> HIDE DEF r2
  <2>8. sequence <= sequence
    BY <1>1
  <2>9. QED BY <1>1, <1>2, <2>1, <2>3, <2>7, <2>8, PutKeeps
<1>4. CASE ~(MultiSig!Accepts(r, s) /\ isValid)
  <2>1. MultiSig!Refresh(id, now)
    BY <1>4 DEF MultiSig!AddSignature
  <2>2. QED BY <1>2, <2>1, RefreshKeeps
<1>5. QED BY <1>3, <1>4

LEMMA ExecuteKeeps ==
  ASSUME MultiSigInv, NEW id \in DOMAIN requests, NEW assembles \in BOOLEAN, NEW now,
         MultiSig!Execute(id, assembles, now)
  PROVE  MultiSigInv'
<1> DEFINE r  == MultiSig!Recompute(requests[id], now)
           r2 == [r EXCEPT !.status = "executed"]
           ok == r.status \in {"collecting", "ready"} /\ MultiSig!CollectedWeight(r) >= r.threshold /\ assembles
<1>1. /\ id \in RequestNames /\ requests[id] \in MultiSig!Request /\ Genuine(requests[id])
      /\ sequence \in 0..MaxSequence /\ sequence \in Nat /\ id[1] <= sequence
  BY Stored
<1>2. sequence' = sequence
  BY DEF MultiSig!Execute
<1>3. CASE ok
  <2>1. MultiSig!Put(id, r2) /\ assembled' = assembled \cup {id}
    BY <1>3 DEF MultiSig!Execute
  <2>2. r \in MultiSig!Request /\ Genuine(r)
    BY <1>1, RecomputeKeeps DEF Genuine
  <2> HIDE DEF r
  <2>3. /\ r2 \in MultiSig!Request /\ r2.status = "executed"
        /\ r2.signers = r.signers /\ r2.signatures = r.signatures /\ r2.threshold = r.threshold
    BY <2>2 DEF MultiSig!Request
  <2>4. Genuine(r2)
    <3> HIDE DEF r2
    <3>1. MultiSig!CollectedWeight(r2) = MultiSig!CollectedWeight(r)
      BY <2>2, <2>3, SameSignatures
    <3>2. MultiSig!CollectedWeight(r) >= r.threshold
      BY <1>3
    <3>3. QED
      BY <2>2, <2>3, <3>1, <3>2 DEF Distinct, Backed, Genuine
  <2> HIDE DEF r2
  <2>5. sequence <= sequence
    BY <1>1
  <2>6. QED BY <1>1, <1>2, <2>1, <2>3, <2>4, <2>5, PutKeeps
<1>4. CASE ~ok
  <2>1. MultiSig!Refresh(id, now) /\ assembled' = assembled
    BY <1>4 DEF MultiSig!Execute
  <2>2. QED BY <1>2, <2>1, RefreshKeeps
<1>5. QED BY <1>3, <1>4

LEMMA CancelKeeps ==
  ASSUME MultiSigInv, NEW id \in DOMAIN requests, MultiSig!CancelRequest(id) PROVE MultiSigInv'
<1>1. /\ DOMAIN requests' = DOMAIN requests \ {id}
      /\ \A i \in DOMAIN requests' : requests'[i] = requests[i]
      /\ sequence' = sequence /\ assembled' = assembled
  BY DEF MultiSig!CancelRequest
<1>2. MultiSig!TypeOK' /\ IdsAreBehind' /\ AssembledIsExecuted'
  BY <1>1 DEF MultiSigInv, MultiSig!TypeOK, IdsAreBehind, AssembledIsExecuted
<1>3. RequestsAreGenuine'
  <2> SUFFICES ASSUME NEW i \in DOMAIN requests' PROVE Genuine(requests'[i])
    BY DEF RequestsAreGenuine
  <2>1. QED BY <1>1 DEF MultiSigInv, RequestsAreGenuine
<1>4. QED BY <1>2, <1>3 DEF MultiSigInv

LEMMA ClearKeeps == ASSUME MultiSig!Clear PROVE MultiSigInv'
<1>1. DOMAIN requests' = {} /\ sequence' = 0 /\ assembled' = {}
  BY DEF MultiSig!Clear
<1>2. QED
  BY <1>1, MultiSigAssumption DEF MultiSigInv, MultiSig!TypeOK, IdsAreBehind, AssembledIsExecuted, RequestsAreGenuine

LEMMA MultiSigStepInv == MultiSigInv /\ [MultiSig!Next]_multiSigVars => MultiSigInv'
<1> SUFFICES ASSUME MultiSigInv, [MultiSig!Next]_multiSigVars PROVE MultiSigInv'
  OBVIOUS
<1>1. ASSUME NEW p \in Payloads, NEW S \in SUBSET Signers, NEW t \in Thresholds,
             NEW e \in Expiries, NEW now \in Times, MultiSig!CreateSigningRequest(p, S, t, e, now)
      PROVE  MultiSigInv'
  BY <1>1, CreateKeeps
<1>2. ASSUME NEW id \in DOMAIN requests, NEW now \in Times, MultiSig!GetRequestState(id, now)
      PROVE  MultiSigInv'
  BY <1>2, RefreshKeeps DEF MultiSig!GetRequestState
<1>3. ASSUME NEW id \in DOMAIN requests, NEW now \in Times, NEW s \in Signers,
             NEW isValid \in BOOLEAN, MultiSig!AddSignature(id, s, isValid, now)
      PROVE  MultiSigInv'
  BY <1>3, SignKeeps
<1>4. ASSUME NEW id \in DOMAIN requests, NEW now \in Times, NEW assembles \in BOOLEAN,
             MultiSig!Execute(id, assembles, now)
      PROVE  MultiSigInv'
  BY <1>4, ExecuteKeeps
<1>5. ASSUME NEW id \in DOMAIN requests, MultiSig!CancelRequest(id) PROVE MultiSigInv'
  BY <1>5, CancelKeeps
<1>6. ASSUME MultiSig!Clear PROVE MultiSigInv'
  BY <1>6, ClearKeeps
<1>7. CASE UNCHANGED multiSigVars
  <2>1. requests' = requests /\ sequence' = sequence /\ assembled' = assembled
    BY <1>7 DEF multiSigVars
  <2>2. MultiSig!TypeOK' /\ IdsAreBehind' /\ AssembledIsExecuted'
    BY <2>1 DEF MultiSigInv, MultiSig!TypeOK, IdsAreBehind, AssembledIsExecuted
  <2>3. RequestsAreGenuine'
    BY <2>1 DEF MultiSigInv, RequestsAreGenuine
  <2>4. QED BY <2>2, <2>3 DEF MultiSigInv
<1>8. QED BY <1>1, <1>2, <1>3, <1>4, <1>5, <1>6, <1>7 DEF MultiSig!Next

\* Each step leaves what was assembled alone, or drops it, and gives its id to nobody.
LEMMA StepAssembledOnce ==
  ASSUME MultiSigInv, [MultiSig!Next]_multiSigVars, NEW id \in assembled \cap DOMAIN requests',
         requests'[id].status = "executed"
  PROVE  id \in DOMAIN requests /\ requests'[id] = requests[id]
<1> DEFINE Kept == id \in DOMAIN requests /\ requests'[id] = requests[id]
<1>1. ASSUME NEW p \in Payloads, NEW S \in SUBSET Signers, NEW t \in Thresholds,
             NEW e \in Expiries, NEW now \in Times, MultiSig!CreateSigningRequest(p, S, t, e, now)
      PROVE  Kept
  <2>1. sequence \in Nat /\ id[1] <= sequence /\ MultiSig!NextId(p)[1] = sequence + 1
    BY DEF MultiSigInv, MultiSig!TypeOK, IdsAreBehind, MultiSig!NextId
  <2>2. id # MultiSig!NextId(p)
    BY <2>1
  <2>3. PICK r : MultiSig!Put(MultiSig!NextId(p), r)
    BY <1>1 DEF MultiSig!CreateSigningRequest
  <2>4. QED BY <2>2, <2>3 DEF MultiSig!Put
<1>2. ASSUME NEW i \in DOMAIN requests, NEW r, MultiSig!Put(i, r),
             requests[i].status = "executed" => r = requests[i]
      PROVE  Kept
  <2>1. id \in DOMAIN requests /\ requests'[id] = IF id = i THEN r ELSE requests[id]
    BY <1>2 DEF MultiSig!Put
  <2>2. requests[id].status = "executed"
    BY <2>1 DEF MultiSigInv, AssembledIsExecuted
  <2>3. QED BY <1>2, <2>1, <2>2
<1>3. ASSUME NEW i \in DOMAIN requests, NEW now
      PROVE  requests[i].status = "executed" => MultiSig!Recompute(requests[i], now) = requests[i]
  BY RecomputeKeeps DEF MultiSigInv, MultiSig!TypeOK
<1>4. ASSUME NEW i \in DOMAIN requests, NEW now, MultiSig!Refresh(i, now) PROVE Kept
  <2>1. MultiSig!Put(i, MultiSig!Recompute(requests[i], now))
    BY <1>4 DEF MultiSig!Refresh
  <2>2. QED BY <1>2, <1>3, <2>1
<1>5. ASSUME NEW i \in DOMAIN requests, NEW now \in Times, MultiSig!GetRequestState(i, now) PROVE Kept
  BY <1>4, <1>5 DEF MultiSig!GetRequestState
<1>6. ASSUME NEW i \in DOMAIN requests, NEW now \in Times, NEW s \in Signers,
             NEW isValid \in BOOLEAN, MultiSig!AddSignature(i, s, isValid, now)
      PROVE  Kept
  <2> DEFINE r == MultiSig!Recompute(requests[i], now)
  <2>1. CASE MultiSig!Accepts(r, s) /\ isValid
    <3>1. requests[i].status # "executed"
      BY <2>1, <1>3 DEF MultiSig!Accepts
    <3>2. PICK r2 : MultiSig!Put(i, r2)
      BY <1>6, <2>1 DEF MultiSig!AddSignature
    <3>3. QED BY <1>2, <3>1, <3>2
  <2>2. CASE ~(MultiSig!Accepts(r, s) /\ isValid)
    BY <1>4, <1>6, <2>2 DEF MultiSig!AddSignature
  <2>3. QED BY <2>1, <2>2
<1>7. ASSUME NEW i \in DOMAIN requests, NEW now \in Times, NEW assembles \in BOOLEAN,
             MultiSig!Execute(i, assembles, now)
      PROVE  Kept
  <2> DEFINE r  == MultiSig!Recompute(requests[i], now)
             ok == r.status \in {"collecting", "ready"} /\ MultiSig!CollectedWeight(r) >= r.threshold /\ assembles
  <2>1. CASE ok
    <3>1. requests[i].status # "executed"
      BY <2>1, <1>3
    <3>2. PICK r2 : MultiSig!Put(i, r2)
      BY <1>7, <2>1 DEF MultiSig!Execute
    <3>3. QED BY <1>2, <3>1, <3>2
  <2>2. CASE ~ok
    BY <1>4, <1>7, <2>2 DEF MultiSig!Execute
  <2>3. QED BY <2>1, <2>2
<1>8. ASSUME NEW i \in DOMAIN requests, MultiSig!CancelRequest(i) PROVE Kept
  BY <1>8 DEF MultiSig!CancelRequest
<1>9. ASSUME MultiSig!Clear PROVE Kept
  <2>1. DOMAIN requests' = {}
    BY <1>9 DEF MultiSig!Clear
  <2>2. QED BY <2>1
<1>10. CASE UNCHANGED multiSigVars
  BY <1>10 DEF multiSigVars
<1>11. QED BY <1>1, <1>5, <1>6, <1>7, <1>8, <1>9, <1>10 DEF MultiSig!Next

LEMMA MultiSigHolds == MultiSigInv => MultiSig!TypeOK /\ MultiSig!SignaturesSuffice
<1> SUFFICES ASSUME MultiSigInv PROVE MultiSig!SignaturesSuffice
  BY DEF MultiSigInv
<1> SUFFICES ASSUME NEW id \in DOMAIN requests, requests[id].status \in {"ready", "executed"}
             PROVE  /\ MultiSig!SignedBy(requests[id]) \subseteq requests[id].signers
                    /\ MultiSig!WeightOf(MultiSig!SignedBy(requests[id])) >= requests[id].threshold
  BY DEF MultiSig!SignaturesSuffice
<1>1. requests[id] \in MultiSig!Request /\ Genuine(requests[id])
  BY Stored
<1>2. MultiSig!SignedBy(requests[id]) \subseteq requests[id].signers
  BY <1>1 DEF MultiSig!SignedBy, Genuine, Distinct
<1>3. MultiSig!CollectedWeight(requests[id]) = MultiSig!WeightOf(MultiSig!SignedBy(requests[id]))
  BY <1>1, WeightsOfDifferent DEF Genuine
<1>4. QED
  BY <1>1, <1>2, <1>3 DEF Genuine, Backed

-----------------------------------------------------------------------------
\* Who approved a request did it once, and what is authorised has been approved as
\* often as its evaluation asked for.
Approved(r) ==
  /\ \A i, j \in DOMAIN r.approvals : r.approvals[i] = r.approvals[j] => i = j
  /\ r.status \in {"authorized", "completed"} => Len(r.approvals) >= r.required

RecordsAreApproved == \A id \in DOMAIN records : Approved(records[id])

SpendingInv == Spending!TypeOK /\ IsFiniteSet(DOMAIN records) /\ RecordsAreApproved

LEMMA SpendingCardinality == \A S : Spending!Cardinality(S) = Cardinality(S)
BY DEF Spending!Cardinality, Cardinality

LEMMA SpendingInit == Spending!Init => SpendingInv
<1> SUFFICES ASSUME Spending!Init PROVE SpendingInv
  OBVIOUS
<1>1. DOMAIN records = {} /\ policy = {} /\ IsFiniteSet({}) /\ Cardinality({}) = 0
  BY FS_EmptySet DEF Spending!Init
<1>2. limits \in [{"per_transaction", "daily", "monthly"} -> Ceilings]
  BY SpendingAssumption DEF Spending!Init
<1>3. QED
  BY <1>1, <1>2, SpendingCardinality DEF SpendingInv, Spending!TypeOK, RecordsAreApproved

\* A well-formed record is stored.
LEMMA SpendingPut ==
  ASSUME SpendingInv, NEW id \in RequestIds, NEW r \in Spending!Record, Approved(r), Spending!Put(id, r)
  PROVE  SpendingInv'
<1>1. /\ DOMAIN records' = DOMAIN records \cup {id} /\ limits' = limits /\ policy' = policy
      /\ \A i \in DOMAIN records' : records'[i] = IF i = id THEN r ELSE records[i]
  BY DEF Spending!Put
<1>2. IsFiniteSet((DOMAIN records)')
  BY <1>1, FS_AddElement DEF SpendingInv
<1>3. Spending!TypeOK'
  BY <1>1, SpendingCardinality DEF SpendingInv, Spending!TypeOK
<1>4. RecordsAreApproved'
  <2> SUFFICES ASSUME NEW i \in DOMAIN records' PROVE Approved(records'[i])
    BY DEF RecordsAreApproved
  <2>1. i = id \/ i \in DOMAIN records
    BY <1>1
  <2>2. QED
    BY <1>1, <2>1 DEF SpendingInv, RecordsAreApproved
<1>5. QED
  BY <1>2, <1>3, <1>4 DEF SpendingInv

LEMMA RecordTypes ==
  ASSUME SpendingInv, NEW id \in DOMAIN records
  PROVE  id \in RequestIds /\ records[id] \in Spending!Record /\ Approved(records[id])
BY DEF SpendingInv, Spending!TypeOK, RecordsAreApproved

LEMMA RequiredIsNat ==
  ASSUME SpendingInv, NEW amount PROVE Spending!RequiredApprovers(amount) \in Nat
<1>1. policy # {} => (CHOOSE t \in policy : TRUE) \in policy
  OBVIOUS
<1>2. policy \subseteq Policies
  BY DEF SpendingInv, Spending!TypeOK
<1>3. QED
  BY <1>1, <1>2, SpendingAssumption DEF Spending!RequiredApprovers

LEMMA EvaluateKeeps ==
  ASSUME SpendingInv, NEW id \in RequestIds, NEW amount \in Amounts, NEW day \in Days,
         NEW listed \in BOOLEAN, Spending!Evaluate(id, amount, day, listed)
  PROVE  SpendingInv'
<1> DEFINE fits == listed /\ Spending!WithinCeilings(amount, day)
           n == IF fits THEN Spending!RequiredApprovers(amount) ELSE 0
           st == IF ~listed \/ ~Spending!WithinCeilings(amount, day) THEN "rejected"
                 ELSE IF n > 0 THEN "pending_approval" ELSE "authorized"
           r == [amount |-> amount, day |-> day, approvals |-> <<>>, required |-> n, status |-> st]
<1>1. Spending!Put(id, r)
  BY DEF Spending!Evaluate
<1>2. n \in Nat
  BY RequiredIsNat
<1>3. st \in Spending!Statuses /\ (st = "authorized" => ~(n > 0)) /\ st # "completed"
  BY DEF Spending!Statuses
<1> HIDE DEF n, st
<1>4. <<>> \in Seq(Approvers) /\ DOMAIN <<>> = {} /\ Len(<<>>) = 0
  OBVIOUS
<1>5. r \in Spending!Record
  BY <1>2, <1>3, <1>4 DEF Spending!Record
<1>6. Approved(r)
  BY <1>2, <1>3, <1>4 DEF Approved
<1> HIDE DEF r
<1>7. QED
  BY <1>1, <1>5, <1>6, SpendingPut

LEMMA ApproveKeeps ==
  ASSUME SpendingInv, NEW id \in DOMAIN records, NEW who \in Approvers, Spending!ApproveRequest(id, who)
  PROVE  SpendingInv'
<1> DEFINE old == records[id]
           q == old.approvals
           st == IF Len(q) + 1 >= old.required THEN "authorized" ELSE "pending_approval"
           r == [old EXCEPT !.approvals = Append(@, who), !.status = st]
<1>1. Spending!Put(id, r) /\ \A i \in DOMAIN q : q[i] # who
  BY DEF Spending!ApproveRequest, Spending!Permitted, Spending!ApprovedBy
<1>2. id \in RequestIds /\ old \in Spending!Record /\ Approved(old)
  BY RecordTypes
<1>3. st \in Spending!Statuses /\ (st = "authorized" => Len(q) + 1 >= old.required) /\ st # "completed"
  BY DEF Spending!Statuses
<1> HIDE DEF st
<1>4. q \in Seq(Approvers) /\ \A i, j \in DOMAIN q : q[i] = q[j] => i = j
  BY <1>2 DEF Spending!Record, Approved
<1>a. Append(q, who) \in Seq(Approvers)
  BY <1>4
<1> HIDE DEF old
<1>5. /\ r \in Spending!Record /\ r.approvals = Append(q, who)
      /\ r.status = st /\ r.required = old.required
  BY <1>2, <1>3, <1>a DEF Spending!Record
<1> HIDE DEF q, r
<1>6. Approved(r)
  <2>1. /\ DOMAIN Append(q, who) = 1..(Len(q) + 1) /\ DOMAIN q = 1..Len(q) /\ Len(q) \in Nat
        /\ \A i \in 1..Len(q) : Append(q, who)[i] = q[i]
        /\ Append(q, who)[Len(q) + 1] = who /\ Len(Append(q, who)) = Len(q) + 1
    BY <1>4
  <2>2. \A i \in 1..(Len(q) + 1) : i \in 1..Len(q) \/ i = Len(q) + 1
    BY <2>1
  <2>3. \A i, j \in DOMAIN r.approvals : r.approvals[i] = r.approvals[j] => i = j
    BY <1>1, <1>4, <1>5, <2>1, <2>2
  <2>4. QED
    BY <1>3, <1>5, <2>1, <2>3 DEF Approved
<1>7. QED
  BY <1>1, <1>2, <1>5, <1>6, SpendingPut

\* A change of the status alone, to one that asks for nothing new.
LEMMA StatusKeeps ==
  ASSUME SpendingInv, NEW id \in DOMAIN records, NEW st \in {"rejected", "failed", "completed"},
         st = "completed" => records[id].status = "authorized",
         Spending!Put(id, [records[id] EXCEPT !.status = st])
  PROVE  SpendingInv'
<1> DEFINE old == records[id]
           r == [old EXCEPT !.status = st]
<1>1. Spending!Put(id, r)
  OBVIOUS
<1>2. id \in RequestIds /\ old \in Spending!Record /\ Approved(old)
  BY RecordTypes
<1>3. st = "completed" => old.status = "authorized"
  OBVIOUS
<1> HIDE DEF old
<1>4. /\ r \in Spending!Record /\ r.status = st
      /\ r.approvals = old.approvals /\ r.required = old.required
  BY <1>2 DEF Spending!Record, Spending!Statuses
<1> HIDE DEF r
<1>5. Approved(r)
  BY <1>2, <1>3, <1>4 DEF Approved
<1>6. QED
  BY <1>1, <1>2, <1>4, <1>5, SpendingPut

LEMMA SpendingStepInv == SpendingInv /\ [Spending!Next]_spendingVars => SpendingInv'
<1> SUFFICES ASSUME SpendingInv, [Spending!Next]_spendingVars PROVE SpendingInv'
  OBVIOUS
<1>1. ASSUME NEW id \in RequestIds, NEW amount \in Amounts, NEW day \in Days, NEW listed \in BOOLEAN,
             Spending!Evaluate(id, amount, day, listed)
      PROVE  SpendingInv'
  BY <1>1, EvaluateKeeps
<1>2. ASSUME NEW id \in DOMAIN records, NEW who \in Approvers, Spending!ApproveRequest(id, who)
      PROVE  SpendingInv'
  BY <1>2, ApproveKeeps
<1>3. ASSUME NEW id \in DOMAIN records, Spending!RejectRequest(id) PROVE SpendingInv'
  BY <1>3, StatusKeeps DEF Spending!RejectRequest
<1>4. ASSUME NEW id \in DOMAIN records, Spending!MarkFailed(id) PROVE SpendingInv'
  BY <1>4, StatusKeeps DEF Spending!MarkFailed
<1>5. ASSUME NEW id \in DOMAIN records, Spending!MarkCompleted(id) PROVE SpendingInv'
  BY <1>5, StatusKeeps DEF Spending!MarkCompleted
<1>6. ASSUME NEW p \in {"per_transaction", "daily", "monthly"}, NEW most \in Ceilings, Spending!SetLimit(p, most)
      PROVE  SpendingInv'
  <2>1. records' = records /\ policy' = policy /\ limits' = [limits EXCEPT ![p] = most]
    BY <1>6 DEF Spending!SetLimit
  <2>2. Spending!TypeOK'
    BY <2>1, SpendingCardinality DEF SpendingInv, Spending!TypeOK
  <2>3. QED
    BY <2>1, <2>2 DEF SpendingInv, RecordsAreApproved
<1>7. ASSUME NEW t \in Policies, Spending!SetApprovalThreshold(t) PROVE SpendingInv'
  <2>1. records' = records /\ policy' = {t} /\ limits' = limits
    BY <1>7 DEF Spending!SetApprovalThreshold
  <2>2. Cardinality({t}) = 1
    BY FS_Singleton
  <2>3. Spending!TypeOK'
    BY <2>1, <2>2, SpendingCardinality DEF SpendingInv, Spending!TypeOK
  <2>4. QED
    BY <2>1, <2>3 DEF SpendingInv, RecordsAreApproved
<1>8. ASSUME Spending!Reset PROVE SpendingInv'
  <2>1. DOMAIN records' = {} /\ policy' = policy /\ limits' = limits
    BY <1>8 DEF Spending!Reset
  <2>2. Spending!TypeOK'
    BY <2>1, SpendingCardinality DEF SpendingInv, Spending!TypeOK
  <2>3. QED
    BY <2>1, <2>2, FS_EmptySet DEF SpendingInv, RecordsAreApproved
<1>9. CASE UNCHANGED spendingVars
  <2>1. records' = records /\ policy' = policy /\ limits' = limits
    BY <1>9 DEF spendingVars
  <2>2. Spending!TypeOK'
    BY <2>1, SpendingCardinality DEF SpendingInv, Spending!TypeOK
  <2>3. QED
    BY <2>1, <2>2 DEF SpendingInv, RecordsAreApproved
<1>10. QED
  BY <1>1, <1>2, <1>3, <1>4, <1>5, <1>6, <1>7, <1>8, <1>9 DEF Spending!Next

LEMMA SpendingHolds == SpendingInv => Spending!TypeOK /\ Spending!ApprovedByEnough
<1> SUFFICES ASSUME SpendingInv, NEW id \in DOMAIN records,
                    records[id].status \in {"authorized", "completed"}
             PROVE  Cardinality(Spending!ApprovedBy(records[id])) >= records[id].required
  BY SpendingCardinality DEF SpendingInv, Spending!ApprovedByEnough
<1> DEFINE q == records[id].approvals
           S == {q[i] : i \in DOMAIN q}
<1>1. records[id] \in Spending!Record /\ Approved(records[id])
  BY RecordTypes
<1>2. q \in Seq(Approvers) /\ (\A i, j \in DOMAIN q : q[i] = q[j] => i = j) /\ Len(q) >= records[id].required
  BY <1>1 DEF Spending!Record, Approved
<1>3. Spending!ApprovedBy(records[id]) = S
  BY DEF Spending!ApprovedBy
<1> HIDE DEF q
<1>4. /\ Len(q) \in Nat /\ DOMAIN q = 1..Len(q)
      /\ IsFiniteSet(1..Len(q)) /\ Cardinality(1..Len(q)) = Len(q)
  <2>1. Len(q) \in Nat /\ DOMAIN q = 1..Len(q)
    BY <1>2
  <2>2. IsFiniteSet(1..Len(q)) /\ Cardinality(1..Len(q)) = IF 1 > Len(q) THEN 0 ELSE Len(q) - 1 + 1
    BY <2>1, FS_Interval
  <2>3. QED
    BY <2>1, <2>2
<1>5. q \in Bijection(1..Len(q), S)
  <2>1. q \in [1..Len(q) -> S]
    BY <1>2, <1>4
  <2>2. QED
    BY <2>1, <1>2, <1>4 DEF Bijection, Injection, Surjection, IsInjective
<1> HIDE DEF S
<1>6. Cardinality(S) = Len(q)
  BY <1>4, <1>5, FS_Bijection DEF ExistsBijection
<1>7. QED
  BY <1>2, <1>3, <1>6

\* The sum of the amounts of requests.
AmountOf(recs, S) ==
  (CHOOSE g : g = [s \in SUBSET S |-> IF s = {} THEN 0 ELSE recs[Pick(s)].amount + g[s \ {Pick(s)}]])[S]

LEMMA AmountIsSum ==
  ASSUME NEW recs, NEW S, IsFiniteSet(S)
  PROVE  AmountOf(recs, S) = SumOver([id \in S |-> recs[id].amount], S)
<1> DEFINE w == [id \in S |-> recs[id].amount]
           E(g, s) == IF s = {} THEN 0 ELSE recs[Pick(s)].amount + g[s \ {Pick(s)}]
           F(g, s) == IF s = {} THEN 0 ELSE w[Pick(s)] + g[s \ {Pick(s)}]
           h == CHOOSE g : g = [s \in SUBSET S |-> E(g, s)]
           k == CHOOSE g : Recurses(g, w, S)
<1>2. AmountOf(recs, S) = h[S]
  BY DEF AmountOf
<1>3. \A s \in SUBSET S : s # {} => Pick(s) \in S
  BY DEF Pick
<1>4. \A g : \A s \in SUBSET S : E(g, s) = F(g, s)
  BY <1>3
<1> HIDE DEF w
<1>5. \A g : (g = [s \in SUBSET S |-> E(g, s)]) <=> Recurses(g, w, S)
  <2> HIDE DEF E, F
  <2>1. ASSUME NEW g PROVE (g = [s \in SUBSET S |-> E(g, s)]) <=> (g = [s \in SUBSET S |-> F(g, s)])
    <3>1. [s \in SUBSET S |-> E(g, s)] = [s \in SUBSET S |-> F(g, s)]
      BY <1>4
    <3>2. QED
      BY <3>1
  <2>2. QED
    BY <2>1 DEF Recurses, F
<1>6. Recurses(k, w, S) /\ Recurses(h, w, S)
  <2>1. \E g : Recurses(g, w, S)
    BY RecursionExists
  <2>2. \E g : g = [s \in SUBSET S |-> E(g, s)]
    BY <2>1, <1>5
  <2>3. h = [s \in SUBSET S |-> E(h, s)]
    <3> HIDE DEF E
    <3>1. QED
      BY <2>2
  <2>4. QED
    BY <2>1, <2>3, <1>5
<1>7. SumOver(w, S) = k[S]
  BY DEF SumOver
<1> HIDE DEF h, k
<1>8. h[S] = k[S]
  BY <1>6, RecursionAgrees
<1>9. QED
  BY <1>2, <1>7, <1>8 DEF w

\* More of the requests that amount to as much as before, or to less.
LEMMA AmountGrows ==
  ASSUME NEW recs, NEW new, NEW S, IsFiniteSet(S), NEW T \in SUBSET S,
         \A id \in S : recs[id].amount \in Nat, \A id \in T : new[id].amount = recs[id].amount
  PROVE  AmountOf(new, T) \in Nat /\ AmountOf(recs, S) \in Nat /\ AmountOf(new, T) <= AmountOf(recs, S)
<1> DEFINE w == [id \in S |-> recs[id].amount]
           v == [id \in T |-> new[id].amount]
<1>1. IsFiniteSet(T)
  BY FS_Subset
<1>2. AmountOf(recs, S) = SumOver(w, S) /\ AmountOf(new, T) = SumOver(v, T)
  BY <1>1, AmountIsSum
<1>3. (\A x \in S : w[x] \in Nat) /\ (\A x \in T : v[x] = w[x])
  OBVIOUS
<1> HIDE DEF w, v
<1>4. SumOver(v, T) = SumOver(w, T)
  BY <1>1, <1>3, SameSummands
<1>5. SumOver(w, T) <= SumOver(w, S) /\ SumOver(w, S) \in Nat
  BY <1>3, SumGrows, SumIsNat
<1>6. SumOver(w, T) \in Nat
  BY <1>1, <1>3, SumIsNat
<1>7. QED
  BY <1>2, <1>4, <1>5, <1>6

\* One request more.
LEMMA AmountWith ==
  ASSUME NEW recs, NEW new, NEW S, IsFiniteSet(S), NEW id, id \notin S,
         \A x \in S : recs[x].amount \in Nat /\ new[x].amount = recs[x].amount, new[id].amount \in Nat
  PROVE  AmountOf(new, S \cup {id}) = AmountOf(recs, S) + new[id].amount
<1> DEFINE T == S \cup {id}
           w == [x \in S |-> recs[x].amount]
           v == [x \in T |-> new[x].amount]
<1>1. IsFiniteSet(T)
  BY FS_AddElement
<1>2. AmountOf(recs, S) = SumOver(w, S) /\ AmountOf(new, T) = SumOver(v, T)
  BY <1>1, AmountIsSum
<1>3. (\A x \in S : w[x] = v[x] /\ w[x] \in Nat) /\ v[id] = new[id].amount /\ \A x \in T : v[x] \in Nat
  OBVIOUS
<1> HIDE DEF w, v
<1>4. SumOver(v, S) = SumOver(w, S) /\ SumOver(w, S) \in Nat
  BY <1>3, SameSummands, SumIsNat
<1>5. SumOver(v, S \cup {id}) = v[id] + SumOver(v, S)
  BY <1>3, SumWith
<1>6. QED
  BY <1>2, <1>3, <1>4, <1>5

InPeriod(recs, p, day) ==
  {id \in DOMAIN recs : /\ Spending!ConsumesCapacity(recs[id].status)
                        /\ Spending!PeriodStart(p, recs[id].day) = Spending!PeriodStart(p, day)}

LEMMA SpentIsAmount ==
  ASSUME NEW p, NEW day
  PROVE  /\ Spending!SpentIn(p, day) = AmountOf(records, InPeriod(records, p, day))
         /\ Spending!SpentIn(p, day)' = AmountOf(records', InPeriod(records', p, day))
<1>1. \A S : Spending!Total(S) = AmountOf(records, S)
  BY DEF Spending!Total, Spending!MapThenSumSet, Spending!MapThenFoldSet, AmountOf, Pick
<1>2. Spending!SpentIn(p, day) = AmountOf(records, InPeriod(records, p, day))
  <2>1. {id \in Spending!Reserved : Spending!PeriodStart(p, records[id].day) = Spending!PeriodStart(p, day)}
          = InPeriod(records, p, day)
    BY DEF Spending!Reserved, InPeriod
  <2>2. QED
    BY <1>1, <2>1 DEF Spending!SpentIn
<1>3. Spending!SpentIn(p, day)' = AmountOf(records', InPeriod(records', p, day))
  <2> DEFINE S == {id \in Spending!Reserved' : Spending!PeriodStart(p, records'[id].day) = Spending!PeriodStart(p, day)}
  <2>1. Spending!SpentIn(p, day)' = AmountOf(records', S)
    BY DEF Spending!SpentIn, Spending!PeriodStart, Spending!Total, Spending!MapThenSumSet,
           Spending!MapThenFoldSet, AmountOf, Pick
  <2>2. S = InPeriod(records', p, day)
    BY DEF Spending!Reserved, InPeriod
  <2>3. QED
    BY <2>1, <2>2
<1>4. QED
  BY <1>2, <1>3

LEMMA UsageIsAmount ==
  ASSUME NEW p, NEW day
  PROVE  Spending!Usage(p, day)
           = AmountOf(records, {id \in Spending!Reserved : records[id].day >= Spending!PeriodStart(p, day)})
BY DEF Spending!Usage, Spending!Total, Spending!MapThenSumSet, Spending!MapThenFoldSet, AmountOf, Pick

LEMMA AmountTypes ==
  ASSUME SpendingInv
  PROVE  /\ IsFiniteSet(DOMAIN records) /\ \A id \in DOMAIN records : records[id].amount \in Nat
         /\ \A id \in DOMAIN records : records[id].day \in Days
BY SpendingAssumption DEF SpendingInv, Spending!TypeOK, Spending!Record

\* A change of a status that releases an amount, or leaves it reserved.
LEMMA PutSpendsNoMore ==
  ASSUME SpendingInv, NEW p, NEW day, NEW id \in DOMAIN records, NEW r, Spending!Put(id, r),
         r.amount = records[id].amount, r.day = records[id].day,
         Spending!ConsumesCapacity(r.status) => Spending!ConsumesCapacity(records[id].status)
  PROVE  /\ Spending!SpentIn(p, day)' \in Nat /\ Spending!SpentIn(p, day) \in Nat
         /\ Spending!SpentIn(p, day)' <= Spending!SpentIn(p, day)
<1> DEFINE S == InPeriod(records, p, day)
           T == InPeriod(records', p, day)
<1>1. /\ DOMAIN records' = DOMAIN records
      /\ \A i \in DOMAIN records : records'[i] = IF i = id THEN r ELSE records[i]
  BY DEF Spending!Put
<1>2. \A i \in DOMAIN records :
        /\ records'[i].amount = records[i].amount /\ records'[i].day = records[i].day
        /\ Spending!ConsumesCapacity(records'[i].status) => Spending!ConsumesCapacity(records[i].status)
  BY <1>1
<1>3. T \subseteq S /\ S \subseteq DOMAIN records
  BY <1>1, <1>2 DEF InPeriod
<1>4. IsFiniteSet(S)
  BY <1>3, AmountTypes, FS_Subset
<1>5. (\A i \in S : records[i].amount \in Nat) /\ \A i \in T : records'[i].amount = records[i].amount
  BY <1>2, <1>3, AmountTypes
<1> HIDE DEF S, T
<1>6. /\ AmountOf(records', T) \in Nat /\ AmountOf(records, S) \in Nat
      /\ AmountOf(records', T) <= AmountOf(records, S)
  BY <1>3, <1>4, <1>5, AmountGrows
<1>7. QED
  BY <1>6, SpentIsAmount DEF S, T

\* What is evaluated fits: the calendar counts no more than the usage that was
\* compared with the limit.
LEMMA EvaluateWithinLimits ==
  ASSUME SpendingInv, NEW p \in {"daily", "monthly"}, NEW day \in Days,
         NEW id \in RequestIds, NEW amount \in Amounts, NEW on \in Days, NEW listed \in BOOLEAN,
         Spending!Evaluate(id, amount, on, listed),
         Spending!SpentIn(p, day)' > Spending!SpentIn(p, day)
  PROVE  ~Spending!Exceeds(Spending!SpentIn(p, day)', limits'[p])
<1> DEFINE S == InPeriod(records, p, day)
           T == InPeriod(records', p, day)
           U == {i \in Spending!Reserved : records[i].day >= Spending!PeriodStart(p, on)}
           fits == listed /\ Spending!WithinCeilings(amount, on)
           n == IF fits THEN Spending!RequiredApprovers(amount) ELSE 0
           st == IF ~listed \/ ~Spending!WithinCeilings(amount, on) THEN "rejected"
                 ELSE IF n > 0 THEN "pending_approval" ELSE "authorized"
           r == [amount |-> amount, day |-> on, approvals |-> <<>>, required |-> n, status |-> st]
<1>1. id \notin DOMAIN records /\ Spending!Put(id, r)
  BY DEF Spending!Evaluate
<1>2. ~fits => st = "rejected"
  OBVIOUS
<1> HIDE DEF n, st
<1>3. r.amount = amount /\ r.day = on /\ r.status = st
  OBVIOUS
<1> HIDE DEF r
<1>4. /\ DOMAIN records' = DOMAIN records \cup {id} /\ limits' = limits
      /\ \A i \in DOMAIN records : records'[i] = records[i]
      /\ records'[id] = r
  BY <1>1 DEF Spending!Put
<1>5. S \subseteq DOMAIN records /\ IsFiniteSet(S)
  <2>1. S \subseteq DOMAIN records
    BY DEF InPeriod
  <2>2. QED
    BY <2>1, AmountTypes, FS_Subset
<1>6. T = S \/ (fits /\ T = S \cup {id} /\ Spending!PeriodStart(p, on) = Spending!PeriodStart(p, day))
  <2>1. Spending!ConsumesCapacity(st) => fits
    BY <1>2 DEF Spending!ConsumesCapacity
  <2>2. id \in T <=> Spending!ConsumesCapacity(st) /\ Spending!PeriodStart(p, on) = Spending!PeriodStart(p, day)
    BY <1>3, <1>4 DEF InPeriod
  <2>3. \A i : i # id => (i \in T <=> i \in S)
    BY <1>4 DEF InPeriod
  <2>4. id \notin S
    BY <1>1 DEF InPeriod
  <2> HIDE DEF S, T, fits
  <2>5. CASE id \in T
    <3>1. T = S \cup {id}
      BY <2>3, <2>4, <2>5
    <3>2. QED
      BY <2>1, <2>2, <2>5, <3>1
  <2>6. CASE id \notin T
    <3>1. T = S
      BY <2>3, <2>4, <2>6
    <3>2. QED
      BY <3>1
  <2>7. QED
    BY <2>5, <2>6
<1>7. \A i \in S : records[i].amount \in Nat /\ records'[i].amount = records[i].amount
  BY <1>4, <1>5, AmountTypes
<1>8. Spending!SpentIn(p, day) = AmountOf(records, S) /\ Spending!SpentIn(p, day)' = AmountOf(records', T)
  BY SpentIsAmount
<1>9. CASE T = S
  <2> HIDE DEF S, T
  <2>1. /\ AmountOf(records', S) \in Nat /\ AmountOf(records, S) \in Nat
        /\ AmountOf(records', S) <= AmountOf(records, S)
    BY <1>5, <1>7, AmountGrows
  <2>2. QED
    BY <1>8, <1>9, <2>1
<1>10. CASE fits /\ T = S \cup {id} /\ Spending!PeriodStart(p, on) = Spending!PeriodStart(p, day)
  <2>1. ~Spending!Exceeds(Spending!Usage(p, on) + amount, limits[p])
    BY <1>10 DEF Spending!WithinCeilings
  <2>2. Spending!Usage(p, on) = AmountOf(records, U)
    BY UsageIsAmount
  <2>3. S \subseteq U
    <3> SUFFICES ASSUME NEW i \in S PROVE i \in U
      OBVIOUS
    <3>1. /\ i \in Spending!Reserved /\ i \in DOMAIN records
          /\ Spending!PeriodStart(p, records[i].day) = Spending!PeriodStart(p, on)
      BY <1>10 DEF InPeriod, Spending!Reserved
    <3>2. records[i].day \in Days
      BY <3>1, AmountTypes
    <3>3. Spending!PeriodStart(p, records[i].day) <= records[i].day
      <4>1. records[i].day \in Nat /\ MonthStart[records[i].day] <= records[i].day
        BY <3>2, SpendingAssumption
      <4>2. CASE p = "daily"
        BY <4>1, <4>2 DEF Spending!PeriodStart
      <4>3. CASE p # "daily"
        BY <4>1, <4>3 DEF Spending!PeriodStart
      <4>4. QED
        BY <4>2, <4>3
    <3>4. QED
      BY <3>1, <3>3
  <2>4. U \subseteq DOMAIN records /\ IsFiniteSet(U)
    <3>1. U \subseteq DOMAIN records
      BY DEF Spending!Reserved
    <3>2. QED
      BY <3>1, AmountTypes, FS_Subset
  <2>5. \A i \in U : records[i].amount \in Nat
    BY <2>4, AmountTypes
  <2>6. records'[id].amount = amount /\ amount \in Nat
    BY <1>3, <1>4, SpendingAssumption
  <2>7. id \notin S
    BY <1>1, <1>5
  <2>8. limits[p] \in Ceilings
    BY DEF SpendingInv, Spending!TypeOK
  <2> HIDE DEF S, T, U, fits
  <2>9. AmountOf(records', T) = AmountOf(records, S) + amount
    BY <1>5, <1>7, <1>10, <2>6, <2>7, AmountWith
  <2>10. /\ AmountOf(records, S) \in Nat /\ AmountOf(records, U) \in Nat
         /\ AmountOf(records, S) <= AmountOf(records, U)
    BY <2>3, <2>4, <2>5, AmountGrows
  <2>11. limits[p] # NoLimit => limits[p] \in Nat /\ ~(AmountOf(records, U) + amount > limits[p])
    BY <2>1, <2>2, <2>8, SpendingAssumption DEF Spending!Exceeds
  <2>12. limits[p] # NoLimit => ~(AmountOf(records', T) > limits[p])
    BY <2>6, <2>9, <2>10, <2>11
  <2>13. QED
    BY <1>4, <1>8, <2>12 DEF Spending!Exceeds
<1>11. QED
  BY <1>6, <1>9, <1>10

LEMMA StepWithinLimits ==
  ASSUME SpendingInv, [Spending!Next]_spendingVars, NEW p \in {"daily", "monthly"}, NEW day \in Days,
         Spending!SpentIn(p, day)' > Spending!SpentIn(p, day)
  PROVE  ~Spending!Exceeds(Spending!SpentIn(p, day)', limits'[p])
<1> DEFINE Fits == ~Spending!Exceeds(Spending!SpentIn(p, day)', limits'[p])
<1>0. ASSUME records' = records PROVE FALSE
  <2>1. Spending!SpentIn(p, day)' = Spending!SpentIn(p, day)
    BY <1>0, SpentIsAmount
  <2>2. InPeriod(records, p, day) \subseteq DOMAIN records
    BY DEF InPeriod
  <2>3. IsFiniteSet(InPeriod(records, p, day)) /\ \A id \in InPeriod(records, p, day) : records[id].amount \in Nat
    BY <2>2, AmountTypes, FS_Subset
  <2>4. AmountOf(records, InPeriod(records, p, day)) \in Nat
    BY <2>3, AmountGrows
  <2>5. QED
    BY <2>1, <2>4, SpentIsAmount
<1>r. ASSUME NEW id \in DOMAIN records, NEW r, Spending!Put(id, r),
             r.amount = records[id].amount, r.day = records[id].day,
             Spending!ConsumesCapacity(r.status) => Spending!ConsumesCapacity(records[id].status)
      PROVE  FALSE
  <2>1. /\ Spending!SpentIn(p, day)' \in Nat /\ Spending!SpentIn(p, day) \in Nat
        /\ Spending!SpentIn(p, day)' <= Spending!SpentIn(p, day)
    BY <1>r, PutSpendsNoMore
  <2>2. QED
    BY <2>1
<1>s. ASSUME NEW id \in DOMAIN records, NEW st, Spending!Put(id, [records[id] EXCEPT !.status = st]),
             Spending!ConsumesCapacity(st) => Spending!ConsumesCapacity(records[id].status)
      PROVE  FALSE
  <2> DEFINE old == records[id]
             r == [old EXCEPT !.status = st]
  <2>1. old \in Spending!Record
    BY RecordTypes
  <2>2. Spending!Put(id, r)
    BY <1>s
  <2> HIDE DEF old
  <2>3. r.amount = old.amount /\ r.day = old.day /\ r.status = st
    BY <2>1 DEF Spending!Record
  <2> HIDE DEF r
  <2>4. QED
    BY <1>r, <1>s, <2>2, <2>3 DEF old
<1>1. ASSUME NEW id \in RequestIds, NEW amount \in Amounts, NEW on \in Days, NEW listed \in BOOLEAN,
             Spending!Evaluate(id, amount, on, listed)
      PROVE  Fits
  BY <1>1, EvaluateWithinLimits
<1>2. ASSUME NEW id \in DOMAIN records, NEW who \in Approvers, Spending!ApproveRequest(id, who) PROVE Fits
  <2> DEFINE old == records[id]
             st == IF Len(old.approvals) + 1 >= old.required THEN "authorized" ELSE "pending_approval"
             r == [old EXCEPT !.approvals = Append(old.approvals, who), !.status = st]
  <2>1. old \in Spending!Record
    BY RecordTypes
  <2>2. Spending!Put(id, r) /\ old.status = "pending_approval"
    BY <1>2 DEF Spending!ApproveRequest
  <2> HIDE DEF old, st
  <2>3. r.amount = old.amount /\ r.day = old.day /\ r.status = st
    BY <2>1 DEF Spending!Record
  <2> HIDE DEF r
  <2>4. QED
    BY <1>r, <2>2, <2>3 DEF old, Spending!ConsumesCapacity
<1>3. ASSUME NEW id \in DOMAIN records, Spending!RejectRequest(id) PROVE Fits
  BY <1>s, <1>3 DEF Spending!RejectRequest, Spending!ConsumesCapacity
<1>4. ASSUME NEW id \in DOMAIN records, Spending!MarkFailed(id) PROVE Fits
  BY <1>s, <1>4 DEF Spending!MarkFailed, Spending!ConsumesCapacity
<1>5. ASSUME NEW id \in DOMAIN records, Spending!MarkCompleted(id) PROVE Fits
  BY <1>s, <1>5 DEF Spending!MarkCompleted, Spending!ConsumesCapacity
<1>6. ASSUME NEW q, NEW most, Spending!SetLimit(q, most) PROVE Fits
  BY <1>0, <1>6 DEF Spending!SetLimit
<1>7. ASSUME NEW t \in Policies, Spending!SetApprovalThreshold(t) PROVE Fits
  BY <1>0, <1>7 DEF Spending!SetApprovalThreshold
<1>8. ASSUME Spending!Reset PROVE Fits
  <2>1. DOMAIN records' = {}
    BY <1>8 DEF Spending!Reset
  <2>2. InPeriod(records', p, day) = {}
    BY <2>1 DEF InPeriod
  <2>3. AmountOf(records', {}) = 0
    <3> DEFINE none == {}
               w == [i \in none |-> records'[i].amount]
    <3>1. IsFiniteSet(none)
      BY FS_EmptySet
    <3>2. AmountOf(records', none) = SumOver(w, none)
      BY <3>1, AmountIsSum
    <3>3. SumOver(w, none) = 0
      <4> HIDE DEF w
      <4>1. QED
        BY <3>1, SumSteps
    <3>4. QED
      BY <3>2, <3>3
  <2>4. InPeriod(records, p, day) \subseteq DOMAIN records
    BY DEF InPeriod
  <2>5. IsFiniteSet(InPeriod(records, p, day)) /\ \A id \in InPeriod(records, p, day) : records[id].amount \in Nat
    BY <2>4, AmountTypes, FS_Subset
  <2>6. AmountOf(records, InPeriod(records, p, day)) \in Nat
    BY <2>5, AmountGrows
  <2>7. QED
    BY <2>2, <2>3, <2>6, SpentIsAmount
<1>9. CASE UNCHANGED spendingVars
  BY <1>0, <1>9 DEF spendingVars
<1>10. QED
  BY <1>1, <1>2, <1>3, <1>4, <1>5, <1>6, <1>7, <1>8, <1>9 DEF Spending!Next

-----------------------------------------------------------------------------
\* A verdict (Consensus). Approvals only grow and a rejection is never taken back,
\* so that what was ready stays ready until it is rejected.
VerdictInv == Verdict!TypeOK /\ Verdict!FinalHasQuorum

\* The module's cardinalities are those of the theorems about finite sets.
LEMMA VerdictCardinality == \A S : Verdict!Cardinality(S) = Cardinality(S)
BY DEF Verdict!Cardinality, Cardinality

LEMMA VerdictInit == Verdict!Init => VerdictInv
BY DEF Verdict!Init, VerdictInv, Verdict!TypeOK, Verdict!FinalHasQuorum

\* One more approval does not make them fewer.
LEMMA MoreApprovals ==
  ASSUME NEW S \in SUBSET Participants, NEW p \in Participants
  PROVE  /\ Cardinality(S) \in Nat
         /\ Cardinality(S \cup {p}) \in Nat
         /\ Cardinality(S) <= Cardinality(S \cup {p})
<1>1. IsFiniteSet(S) /\ IsFiniteSet(S \cup {p})
  BY VerdictAssumption, FS_Subset
<1>2. QED
  BY <1>1, FS_CardinalityType, FS_Subset

LEMMA VerdictStepInv == VerdictInv /\ [Verdict!Next]_verdictVars => VerdictInv'
<1> SUFFICES ASSUME VerdictInv, [Verdict!Next]_verdictVars PROVE VerdictInv'
  OBVIOUS
<1>t. Verdict!TypeOK /\ Verdict!FinalHasQuorum
  BY DEF VerdictInv
<1>1. ASSUME NEW S \in SUBSET Participants, NEW threshold \in 1..Verdict!Cardinality(Participants),
             Verdict!CreateConsensus(S, threshold)
      PROVE  VerdictInv'
  <2>1. Cardinality({}) = 0 /\ threshold \in Nat \ {0}
    BY <1>1, FS_EmptySet
  <2>2. Verdict!TypeOK'
    BY <1>1, <2>1 DEF Verdict!CreateConsensus, Verdict!TypeOK, Verdict!States
  <2>3. Verdict!FinalHasQuorum'
    BY <1>1, <2>1, VerdictCardinality DEF Verdict!CreateConsensus, Verdict!FinalHasQuorum, Verdict!IsReady
  <2>4. QED
    BY <2>2, <2>3 DEF VerdictInv
<1>2. ASSUME NEW p \in Participants, Verdict!Approve(p) PROVE VerdictInv'
  <2>1. /\ Cardinality(consensus.approved) \in Nat /\ consensus.threshold \in Nat
        /\ Cardinality(consensus.approved \cup {p}) \in Nat
        /\ Cardinality(consensus.approved) <= Cardinality(consensus.approved \cup {p})
    BY <1>2, <1>t, MoreApprovals DEF Verdict!Approve, Verdict!TypeOK
  <2>2. Verdict!TypeOK'
    BY <1>2, <1>t DEF Verdict!Approve, Verdict!Reviewed, Verdict!TypeOK, Verdict!States
  <2>3. /\ consensus'.approved = consensus.approved \cup {p}
        /\ consensus'.state = IF consensus.state = "PROPOSAL" THEN "REVIEW" ELSE consensus.state
        /\ consensus'.threshold = consensus.threshold /\ consensus'.rejected = consensus.rejected
    BY <1>2, <1>t DEF Verdict!Approve, Verdict!Reviewed, Verdict!TypeOK, Verdict!States
  <2>4. consensus # NoConsensus
    BY <1>2 DEF Verdict!Approve
  <2>5. Verdict!FinalHasQuorum'
    <3>1. consensus'.state = "REJECTED" <=> consensus'.rejected # {}
      BY <1>t, <2>3, <2>4 DEF Verdict!FinalHasQuorum
    <3>2. ASSUME Cardinality(consensus'.approved) >= consensus'.threshold,
                 consensus'.state # "REJECTED"
          PROVE  consensus'.rejected = {}
      BY <3>1, <3>2
    <3>3. ASSUME consensus'.state = "FINALIZED"
          PROVE  /\ Cardinality(consensus'.approved) >= consensus'.threshold
                 /\ consensus'.rejected = {}
      BY <1>t, <2>1, <2>3, <2>4, <3>3, VerdictCardinality DEF Verdict!FinalHasQuorum
    <3>4. QED
      BY <3>1, <3>2, <3>3, VerdictCardinality DEF Verdict!FinalHasQuorum, Verdict!IsReady
  <2>6. QED
    BY <2>2, <2>5 DEF VerdictInv
<1>3. ASSUME NEW p \in Participants, Verdict!Reject(p) PROVE VerdictInv'
  BY <1>3 DEF Verdict!Reject, VerdictInv, Verdict!TypeOK, Verdict!FinalHasQuorum, Verdict!IsReady, Verdict!States
<1>4. CASE Verdict!Finalize
  BY <1>4 DEF Verdict!Finalize, VerdictInv, Verdict!TypeOK, Verdict!FinalHasQuorum, Verdict!IsReady, Verdict!States
<1>5. CASE Verdict!RemoveConsensus
  BY <1>5 DEF Verdict!RemoveConsensus, VerdictInv, Verdict!TypeOK, Verdict!FinalHasQuorum
<1>6. CASE UNCHANGED verdictVars
  BY <1>6 DEF verdictVars, VerdictInv, Verdict!TypeOK, Verdict!FinalHasQuorum, Verdict!IsReady
<1>7. QED
  BY <1>1, <1>2, <1>3, <1>4, <1>5, <1>6 DEF Verdict!Next

-----------------------------------------------------------------------------
\* The recovery of an account (RecoveryWorkflow): a copy that is completed was
\* executed at a moment and under a configuration that it remembers, and is never
\* written again.
RecoveryInv == Recovery!TypeOK /\ Recovery!CompletedHasQuorum

LEMMA RecoveryInit == Recovery!Init => RecoveryInv
<1> SUFFICES ASSUME Recovery!Init PROVE RecoveryInv
  OBVIOUS
<1>1. Recovery!TypeOK
  BY RecoveryAssumption DEF Recovery!Init, Recovery!TypeOK
<1>2. Recovery!CompletedHasQuorum
  BY DEF Recovery!Init, Recovery!CompletedHasQuorum
<1>3. QED
  BY <1>1, <1>2 DEF RecoveryInv

\* Of a copy, that it is a request, and that enough stood behind it if it is done.
Grounded(r) ==
  r # NoCopy /\ r.status = "completed" =>
    /\ Recovery!Cardinality({c \in r.approvals : r.config[c] \cap {"initiate", "approve"} # {}}) >= Threshold
    /\ r.completedAt \in r.createdAt + Delay .. r.createdAt + Delay + Window

\* Putting one good copy in place of another keeps the invariant.
LEMMA PutCopy ==
  ASSUME RecoveryInv, NEW o \in Copies, NEW r \in Recovery!Request, Grounded(r),
         copies' = [copies EXCEPT ![o] = r], UNCHANGED <<permissions, clock>>
  PROVE  RecoveryInv'
<1>1. Recovery!TypeOK'
  BY DEF RecoveryInv, Recovery!TypeOK, Recovery!Request
<1>2. ASSUME NEW x \in Copies PROVE Grounded(copies'[x])
  <2>1. CASE x = o
    BY <2>1 DEF RecoveryInv, Recovery!TypeOK
  <2>2. CASE x # o
    BY <2>2 DEF RecoveryInv, Recovery!TypeOK, Recovery!CompletedHasQuorum, Grounded
  <2>3. QED
    BY <2>1, <2>2
<1>3. Recovery!CompletedHasQuorum'
  BY <1>2 DEF Recovery!CompletedHasQuorum, Grounded
<1>4. QED
  BY <1>1, <1>3 DEF RecoveryInv

LEMMA RecoveryStepInv == RecoveryInv /\ [Recovery!Next]_recoveryVars => RecoveryInv'
<1> SUFFICES ASSUME RecoveryInv, [Recovery!Next]_recoveryVars PROVE RecoveryInv'
  OBVIOUS
<1>t. Recovery!TypeOK /\ Recovery!CompletedHasQuorum
  BY DEF RecoveryInv
<1>r. \A o \in Copies : copies[o] # NoCopy => copies[o] \in Recovery!Request
  BY <1>t DEF Recovery!TypeOK
<1>1. ASSUME NEW config \in Configs, Recovery!RegisterRecoveryContacts(config) PROVE RecoveryInv'
  <2>1. Recovery!TypeOK'
    BY <1>1, <1>t, RecoveryAssumption DEF Recovery!RegisterRecoveryContacts, Recovery!TypeOK
  <2>2. Recovery!CompletedHasQuorum'
    BY <1>1, <1>t DEF Recovery!RegisterRecoveryContacts, Recovery!CompletedHasQuorum
  <2>3. QED
    BY <2>1, <2>2 DEF RecoveryInv
<1>2. ASSUME NEW c \in Contacts, NEW o \in Copies, Recovery!InitiateRecovery(c, o) PROVE RecoveryInv'
  <2> DEFINE r == [createdAt |-> clock, approvals |-> {c}, status |-> "pending", completedAt |-> 0,
                   config |-> permissions]
  <2>1. r \in Recovery!Request
    BY <1>t, RecoveryAssumption DEF Recovery!TypeOK, Recovery!Request
  <2>2. Grounded(r)
    BY DEF Grounded
  <2>3. QED
    BY <1>2, <2>1, <2>2, PutCopy DEF Recovery!InitiateRecovery
<1>3. ASSUME NEW c \in Contacts, NEW o \in Copies, NEW new \in Copies,
             Recovery!ApproveRecovery(c, o, new)
      PROVE  RecoveryInv'
  <2> DEFINE r == [copies[o] EXCEPT !.approvals = @ \cup {c}]
  <2>1. r \in Recovery!Request /\ r.status = "pending"
    BY <1>3, <1>r DEF Recovery!ApproveRecovery, Recovery!Pending, Recovery!Request
  <2>2. Grounded(r)
    BY <2>1 DEF Grounded
  <2>3. QED
    BY <1>3, <2>1, <2>2, PutCopy DEF Recovery!ApproveRecovery
<1>4. ASSUME NEW c \in Contacts, NEW o \in Copies, NEW new \in Copies,
             Recovery!CancelRecovery(c, o, new)
      PROVE  RecoveryInv'
  <2> DEFINE r == [copies[o] EXCEPT !.status = "cancelled"]
  <2>1. r \in Recovery!Request /\ r.status = "cancelled"
    BY <1>4, <1>r DEF Recovery!CancelRecovery, Recovery!Pending, Recovery!Request
  <2>2. Grounded(r)
    BY <2>1 DEF Grounded
  <2>3. QED
    BY <1>4, <2>1, <2>2, PutCopy DEF Recovery!CancelRecovery
<1>5. ASSUME NEW o \in Copies, Recovery!ExecuteRecovery(o) PROVE RecoveryInv'
  <2> DEFINE q == copies[o]
             r == [q EXCEPT !.status = "completed", !.completedAt = clock, !.config = permissions]
  <2>1. q \in Recovery!Request
    BY <1>5, <1>r DEF Recovery!ExecuteRecovery, Recovery!Pending
  <2>2. /\ r \in Recovery!Request
        /\ r.approvals = q.approvals /\ r.createdAt = q.createdAt
        /\ r.completedAt = clock /\ r.config = permissions
    BY <2>1, <1>t DEF Recovery!Request, Recovery!TypeOK
  <2>3. {x \in r.approvals : r.config[x] \cap {"initiate", "approve"} # {}} = Recovery!Counted(q)
    BY <2>1, <2>2 DEF Recovery!Counted, Recovery!Has, Recovery!Request
  <2>4. clock \in q.createdAt + Delay .. q.createdAt + Delay + Window
    BY <1>5, <1>t, <2>1, RecoveryAssumption
       DEF Recovery!ExecuteRecovery, Recovery!TypeOK, Recovery!Request
  <2>5. Grounded(r)
    BY <1>5, <2>2, <2>3, <2>4 DEF Grounded, Recovery!ExecuteRecovery
  <2>6. copies' = [copies EXCEPT ![o] = r] /\ UNCHANGED <<permissions, clock>>
    BY <1>5, <1>t, <2>1 DEF Recovery!ExecuteRecovery, Recovery!TypeOK, Recovery!Request
  <2>7. QED
    BY <2>2, <2>5, <2>6, PutCopy
<1>6. CASE Recovery!Tick
  <2>1. Recovery!TypeOK'
    BY <1>6, <1>t, RecoveryAssumption DEF Recovery!Tick, Recovery!TypeOK
  <2>2. Recovery!CompletedHasQuorum'
    BY <1>6, <1>t DEF Recovery!Tick, Recovery!CompletedHasQuorum
  <2>3. QED
    BY <2>1, <2>2 DEF RecoveryInv
<1>7. CASE UNCHANGED recoveryVars
  BY <1>7, <1>t
     DEF recoveryVars, RecoveryInv, Recovery!TypeOK, Recovery!CompletedHasQuorum, Recovery!Request
<1>8. QED
  BY <1>1, <1>2, <1>3, <1>4, <1>5, <1>6, <1>7 DEF Recovery!Next

-----------------------------------------------------------------------------
\* The lock of a wallet (Authentication). Whatever is stored was read, or made when
\* a secret was verified; a copy that is read and kept ages as the session does, so
\* that writing it back prolongs nothing.
SoundStatus(s) == s \in Access!Session \cup {NoSession} /\ Access!RecentlyProved(s)

\* A call that goes on from its status has one.
KnowsStatus(k) ==
  k.pc = "status" \/ (k.kind = "unlock" /\ k.pc = "verify") => k.status \in Access!Session

SoundCall(k) == k \in Access!Call /\ Access!RecentlyProved(k.status) /\ KnowsStatus(k)

AccessInv ==
  /\ credential \in Secrets \cup {NoSecret}
  /\ SoundStatus(session)
  /\ call \in [Calls -> Access!Call]
  /\ \A c \in Calls : SoundCall(call[c])
  /\ sinceSuccess \in 0..SessionTimeout

LEMMA IdleIsSound == SoundCall(Access!Idle)
BY DEF SoundCall, KnowsStatus, Access!Idle, Access!Call, Access!Kinds, Access!RecentlyProved

LEMMA FreshIsSound ==
  ASSUME NEW s \in {"UNINITIALIZED", "LOCKED", "UNLOCKED", "EXPIRED"}
  PROVE  Access!Fresh(s) \in Access!Session /\ Access!Fresh(s).state = s
BY AccessAssumption DEF Access!Fresh, Access!Session

LEMMA AccessInit == Access!Init => AccessInv
<1> SUFFICES ASSUME Access!Init PROVE AccessInv
  OBVIOUS
<1>1. \A c \in Calls : SoundCall(call[c])
  BY IdleIsSound DEF Access!Init
<1>2. SoundStatus(session)
  BY DEF Access!Init, SoundStatus, Access!RecentlyProved
<1>3. call \in [Calls -> Access!Call]
  BY IdleIsSound DEF Access!Init, SoundCall
<1>4. QED
  BY <1>1, <1>2, <1>3, AccessAssumption DEF AccessInv, Access!Init

\* A sound call and a sound session in place of others.
LEMMA PutCall ==
  ASSUME AccessInv, NEW c \in Calls, NEW k, SoundCall(k), call' = [call EXCEPT ![c] = k],
         credential' \in Secrets \cup {NoSecret}, sinceSuccess' = sinceSuccess,
         SoundStatus(session')
  PROVE  AccessInv'
<1>1. call' \in [Calls -> Access!Call]
  BY DEF AccessInv, SoundCall
<1>2. ASSUME NEW d \in Calls PROVE SoundCall(call'[d])
  BY DEF AccessInv
<1>3. \A s : Access!RecentlyProved(s)' <=> Access!RecentlyProved(s)
  BY DEF Access!RecentlyProved
<1>4. \A d \in Calls : SoundCall(call[d])'
  BY <1>2 DEF SoundCall, KnowsStatus, Access!RecentlyProved
<1>5. SoundStatus(session)'
  BY DEF SoundStatus, Access!RecentlyProved
<1>6. QED
  BY <1>1, <1>4, <1>5 DEF AccessInv

\* RecentlyProved when so much time has passed since the proof.
Recent(s, since) == s # NoSession /\ s.state = "UNLOCKED" => s.left + since <= SessionTimeout

\* Time passes alike for the session, for its copies and for the proof.
LEMMA OlderIsSound ==
  ASSUME sinceSuccess \in 0..SessionTimeout, Access!Tick, NEW s, SoundStatus(s)
  PROVE  /\ Access!Older(s) \in Access!Session \cup {NoSession}
         /\ s \in Access!Session => Access!Older(s) \in Access!Session
         /\ Recent(Access!Older(s), sinceSuccess')
<1>1. CASE s = NoSession
  BY <1>1 DEF Access!Older, Recent
<1>2. CASE s \in Access!Session /\ s # NoSession
  <2> DEFINE left == Access!Down(s.left)
             pause == Access!Down(s.blocked)
             t == [s EXCEPT !.left = left, !.blocked = pause]
  <2>0. s.left \in 0..SessionTimeout /\ s.blocked \in 0..RateLimitDuration
    BY <1>2 DEF Access!Session
  <2>1. Access!Older(s) = t
    BY <1>2 DEF Access!Older
  <2>2. left \in 0..SessionTimeout /\ pause \in 0..RateLimitDuration
    BY <2>0, AccessAssumption DEF Access!Down
  <2>3. left = IF s.left > 0 THEN s.left - 1 ELSE 0
    BY DEF Access!Down
  <2> HIDE DEF left, pause
  <2>4. t \in Access!Session /\ t.state = s.state /\ t.left = left
    BY <1>2, <2>2 DEF Access!Session
  <2>5. ASSUME s.state = "UNLOCKED" PROVE left + sinceSuccess' <= SessionTimeout
    <3>1. s.left + sinceSuccess <= SessionTimeout
      BY <1>2, <2>5 DEF SoundStatus, Access!RecentlyProved
    <3>2. sinceSuccess' = IF sinceSuccess < SessionTimeout THEN sinceSuccess + 1 ELSE SessionTimeout
      BY DEF Access!Tick
    <3>3. QED
      BY <3>1, <3>2, <2>0, <2>3, AccessAssumption
  <2>6. QED
    BY <2>1, <2>4, <2>5 DEF Recent
<1>3. QED
  BY <1>1, <1>2 DEF SoundStatus

LEMMA AccessStepInv == AccessInv /\ [Access!Next]_accessVars => AccessInv'
<1> SUFFICES ASSUME AccessInv, [Access!Next]_accessVars PROVE AccessInv'
  OBVIOUS
<1>t. /\ credential \in Secrets \cup {NoSecret} /\ SoundStatus(session)
      /\ call \in [Calls -> Access!Call] /\ sinceSuccess \in 0..SessionTimeout
      /\ \A c \in Calls : SoundCall(call[c])
  BY DEF AccessInv
<1>i. SoundCall(Access!Idle)
  BY IdleIsSound
<1>s. \A c \in Calls : SoundStatus(call[c].status)
  BY <1>t DEF SoundCall, SoundStatus, Access!Call
<1>f. \A s \in {"UNINITIALIZED", "LOCKED", "EXPIRED"} : SoundStatus(Access!Fresh(s))
  BY FreshIsSound DEF SoundStatus, Access!RecentlyProved
<1>1. ASSUME NEW c \in Calls, NEW kind \in {"unlock", "lock", "require"},
             NEW secret \in Secrets \cup {NoSecret}, Access!ReadSession(c, kind, secret)
      PROVE  AccessInv'
  <2> DEFINE k == [Access!Idle EXCEPT !.kind = kind, !.pc = "session",
                                      !.status = session, !.secret = secret]
  <2>1. SoundCall(k)
    BY <1>t DEF SoundCall, KnowsStatus, SoundStatus, Access!Idle, Access!Call, Access!Kinds,
                Access!RecentlyProved
  <2>2. QED
    BY <1>1, <1>t, <2>1, PutCall DEF Access!ReadSession
<1>2. ASSUME NEW c \in Calls, NEW secret \in Secrets, Access!SetupCredential(c, secret)
      PROVE  AccessInv'
  <2> DEFINE k == [Access!Idle EXCEPT !.kind = "setup", !.pc = "stored"]
  <2>1. SoundCall(k)
    BY DEF SoundCall, KnowsStatus, Access!Idle, Access!Call, Access!Kinds, Access!RecentlyProved
  <2>2. QED
    BY <1>2, <1>t, <2>1, PutCall DEF Access!SetupCredential
<1>3. ASSUME NEW c \in Calls, NEW secret \in Secrets, Access!BeginChange(c, secret)
      PROVE  AccessInv'
  <2> DEFINE k == [Access!Idle EXCEPT !.kind = "change", !.pc = "verify", !.secret = secret,
                                      !.read = credential]
  <2>1. SoundCall(k)
    BY <1>t DEF SoundCall, KnowsStatus, Access!Idle, Access!Call, Access!Kinds,
                Access!RecentlyProved
  <2>2. QED
    BY <1>3, <1>t, <2>1, PutCall DEF Access!BeginChange
<1>4. ASSUME NEW c \in Calls, NEW secret \in Secrets, Access!ChangeCredential(c, secret)
      PROVE  AccessInv'
  <2>1. credential' \in Secrets \cup {NoSecret}
    BY <1>4, <1>t DEF Access!ChangeCredential
  <2>2. QED
    BY <1>4, <1>t, <1>i, <2>1, PutCall DEF Access!ChangeCredential, Access!Ends
<1>5. ASSUME NEW c \in Calls, Access!GetStatus(c) PROVE AccessInv'
  <2> DEFINE found  == call[c].status
             status == IF found = NoSession
                       THEN Access!Fresh(IF credential = NoSecret THEN "UNINITIALIZED" ELSE "LOCKED")
                       ELSE Access!Checked(found)
             k == [call[c] EXCEPT !.status = status, !.pc = "status"]
  <2>1. SoundStatus(status) /\ status \in Access!Session
    <3>1. CASE found = NoSession
      BY <3>1, <1>f, FreshIsSound
    <3>2. CASE found # NoSession
      <4>1. found \in Access!Session /\ Access!RecentlyProved(found)
        BY <3>2, <1>s DEF SoundStatus
      <4>2. Access!Checked(found) \in Access!Session /\ Access!RecentlyProved(Access!Checked(found))
        BY <4>1, <3>2 DEF Access!Checked, Access!Session, Access!RecentlyProved
      <4>3. QED
        BY <3>2, <4>2 DEF SoundStatus
    <3>3. QED
      BY <3>1, <3>2
  <2>2. SoundCall(k)
    BY <2>1, <1>t DEF SoundCall, SoundStatus, KnowsStatus, Access!Call
  <2>3. call' = [call EXCEPT ![c] = k]
    BY <1>5, <1>t DEF Access!GetStatus, Access!Call
  <2>4. /\ SoundStatus(session')
        /\ UNCHANGED <<credential, sinceSuccess>>
    BY <1>5, <1>t, <2>1 DEF Access!GetStatus
  <2> HIDE DEF k, status
  <2>5. QED
    BY <2>2, <2>3, <2>4, <1>t, PutCall
<1>6. ASSUME NEW c \in Calls, Access!Refuse(c) \/ Access!Require(c) PROVE AccessInv'
  BY <1>6, <1>t, <1>i, PutCall DEF Access!Refuse, Access!Require, Access!Ends
<1>7. ASSUME NEW c \in Calls, Access!ReadCredential(c) PROVE AccessInv'
  <2> DEFINE k == [call[c] EXCEPT !.read = credential, !.pc = "verify"]
  <2>1. call[c].status \in Access!Session /\ call[c] \in Access!Call
    BY <1>7, <1>t DEF Access!ReadCredential, Access!At, SoundCall, KnowsStatus
  <2>2. SoundCall(k)
    BY <2>1, <1>t DEF SoundCall, KnowsStatus, Access!Call
  <2>3. call' = [call EXCEPT ![c] = k] /\ UNCHANGED <<credential, session, sinceSuccess>>
    BY <1>7, <1>t DEF Access!ReadCredential, Access!Call
  <2>4. QED
    BY <2>2, <2>3, <1>t, PutCall
<1>8. ASSUME NEW c \in Calls, Access!FailUnlock(c) PROVE AccessInv'
  <2> DEFINE failed == Access!Increment(call[c].status.failed)
             pause == IF failed = MaxFailedAttempts THEN RateLimitDuration ELSE 0
             s == [call[c].status EXCEPT !.failed = failed, !.blocked = pause]
  <2>1. call[c].status \in Access!Session
    BY <1>8, <1>t DEF Access!FailUnlock, Access!At, SoundCall, KnowsStatus
  <2>2. failed \in 0..MaxFailedAttempts /\ pause \in 0..RateLimitDuration
    BY <2>1, AccessAssumption DEF Access!Increment, Access!Session
  <2>h. session' = s /\ Access!Ends(c) /\ UNCHANGED <<credential, sinceSuccess>>
    BY <1>8 DEF Access!FailUnlock
  <2> HIDE DEF failed, pause
  <2>3. s \in Access!Session /\ s.state = call[c].status.state /\ s.left = call[c].status.left
    BY <2>1, <2>2 DEF Access!Session
  <2>4. SoundStatus(s)
    <3>1. call[c].status # NoSession
      BY <2>1, AccessAssumption
    <3>2. Access!RecentlyProved(call[c].status)
      BY <1>s DEF SoundStatus
    <3>3. Access!RecentlyProved(s)
      BY <3>1, <3>2, <2>3 DEF Access!RecentlyProved
    <3>4. QED
      BY <3>3, <2>3 DEF SoundStatus
  <2>5. QED
    BY <2>h, <1>t, <1>i, <2>4, PutCall DEF Access!Ends
<1>9. ASSUME NEW c \in Calls, Access!Unlock(c) PROVE AccessInv'
  <2> DEFINE s == [Access!Fresh("UNLOCKED") EXCEPT !.left = SessionTimeout]
             k == [call[c] EXCEPT !.pc = "stored"]
  <2>1. s \in Access!Session /\ s.left = SessionTimeout
    BY AccessAssumption DEF Access!Fresh, Access!Session
  <2>2. sinceSuccess' = 0 /\ session' = s /\ credential' = credential
        /\ call' = [call EXCEPT ![c] = k]
    BY <1>9, <1>t DEF Access!Unlock, Access!Call
  <2>3. ASSUME NEW r, SoundStatus(r) PROVE SoundStatus(r)'
    BY <2>2, <2>3, <1>t, AccessAssumption DEF SoundStatus, Access!RecentlyProved, Access!Session
  <2>4. SoundStatus(session)'
    BY <2>1, <2>2, AccessAssumption DEF SoundStatus, Access!RecentlyProved
  <2>5. call' \in [Calls -> Access!Call]
    BY <2>2, <1>t DEF Access!Call
  <2>6. ASSUME NEW d \in Calls PROVE SoundCall(call[d])'
    <3>1. call'[d].status = call[d].status /\ call'[d].kind = call[d].kind
          /\ (call'[d].pc = call[d].pc \/ call'[d].pc = "stored")
      BY <2>2, <1>t DEF Access!Call
    <3>2. Access!RecentlyProved(call[d].status)'
      BY <3>1, <2>3, <1>s DEF SoundStatus
    <3>3. KnowsStatus(call[d])'
      BY <3>1, <1>t DEF SoundCall, KnowsStatus
    <3>4. QED
      BY <3>2, <3>3, <2>5 DEF SoundCall
  <2>7. QED
    BY <2>2, <2>4, <2>5, <2>6, <1>t, AccessAssumption DEF AccessInv
<1>10. ASSUME NEW c \in Calls, Access!TouchCredential(c) PROVE AccessInv'
  <2>1. credential' \in Secrets \cup {NoSecret}
    BY <1>10, <1>t DEF Access!TouchCredential, Access!Call
  <2>2. QED
    BY <1>10, <1>t, <1>i, <2>1, PutCall DEF Access!TouchCredential, Access!Ends
<1>11. ASSUME NEW c \in Calls, Access!Lock(c) PROVE AccessInv'
  <2> DEFINE s == [call[c].status EXCEPT !.state = "LOCKED", !.left = 0]
  <2>1. call[c].status \in Access!Session
    BY <1>11, <1>t DEF Access!Lock, Access!At, SoundCall, KnowsStatus
  <2>2. SoundStatus(s)
    <3>0. 0 \in 0..SessionTimeout
      BY AccessAssumption
    <3>1. s \in Access!Session /\ s.state # "UNLOCKED"
      BY <2>1, <3>0 DEF Access!Session
    <3>2. QED
      BY <3>1 DEF SoundStatus, Access!RecentlyProved
  <2>3. QED
    BY <1>11, <1>t, <1>i, <2>2, PutCall DEF Access!Lock, Access!Ends
<1>12. ASSUME NEW c \in Calls, Access!SetupSession(c) \/ Access!ClearSession(c) PROVE AccessInv'
  <2>1. SoundStatus(session')
    BY <1>12, <1>f DEF Access!SetupSession, Access!ClearSession, SoundStatus, Access!RecentlyProved
  <2>2. QED
    BY <1>12, <1>t, <1>i, <2>1, PutCall DEF Access!SetupSession, Access!ClearSession, Access!Ends
<1>13. ASSUME NEW c \in Calls, Access!RemoveCredential(c) PROVE AccessInv'
  <2> DEFINE k == [Access!Idle EXCEPT !.kind = "reset", !.pc = "stored"]
  <2>1. SoundCall(k)
    BY DEF SoundCall, KnowsStatus, Access!Idle, Access!Call, Access!Kinds, Access!RecentlyProved
  <2>2. QED
    BY <1>13, <1>t, <2>1, PutCall DEF Access!RemoveCredential
<1>14. CASE Access!Tick
  <2>1. \A c \in Calls : call'[c] = [call[c] EXCEPT !.status = Access!Older(@)]
    BY <1>14 DEF Access!Tick
  <2>2. ASSUME NEW c \in Calls PROVE SoundCall(call[c])'
    <3> DEFINE k == [call[c] EXCEPT !.status = Access!Older(call[c].status)]
    <3>0. call'[c] = k
      BY <2>1
    <3>1. /\ Access!Older(call[c].status) \in Access!Session \cup {NoSession}
          /\ call[c].status \in Access!Session => Access!Older(call[c].status) \in Access!Session
          /\ Recent(Access!Older(call[c].status), sinceSuccess')
      BY <1>14, <1>t, <1>s, OlderIsSound
    <3>2. /\ k \in Access!Call /\ k.status = Access!Older(call[c].status)
          /\ k.pc = call[c].pc /\ k.kind = call[c].kind
      BY <1>t, <3>1 DEF Access!Call
    <3> HIDE DEF k
    <3>3. Access!RecentlyProved(call[c].status)'
      BY <3>0, <3>1, <3>2 DEF Recent, Access!RecentlyProved
    <3>4. KnowsStatus(call[c])'
      BY <3>0, <3>1, <3>2, <1>t DEF SoundCall, KnowsStatus
    <3>5. QED
      BY <3>0, <3>2, <3>3, <3>4 DEF SoundCall
  <2>3. call' \in [Calls -> Access!Call]
    <3>1. \A c \in Calls : call'[c] \in Access!Call
      BY <2>2 DEF SoundCall
    <3>2. QED
      BY <1>14, <3>1 DEF Access!Tick
  <2>4. SoundStatus(session)'
    <3>1. session' = Access!Older(session)
      BY <1>14 DEF Access!Tick
    <3>2. /\ Access!Older(session) \in Access!Session \cup {NoSession}
          /\ Recent(Access!Older(session), sinceSuccess')
      BY <1>14, <1>t, OlderIsSound
    <3>3. QED
      BY <3>1, <3>2 DEF SoundStatus, Recent, Access!RecentlyProved
  <2>5. sinceSuccess' \in 0..SessionTimeout /\ credential' = credential
    BY <1>14, <1>t, AccessAssumption DEF Access!Tick
  <2>6. QED
    BY <2>2, <2>3, <2>4, <2>5, <1>t DEF AccessInv
<1>15. CASE UNCHANGED accessVars
  BY <1>15 DEF accessVars, AccessInv, SoundStatus, SoundCall, KnowsStatus, Access!RecentlyProved
<1>16. QED
  BY <1>1, <1>2, <1>3, <1>4, <1>5, <1>6, <1>7, <1>8, <1>9, <1>10, <1>11, <1>12, <1>13, <1>14, <1>15
     DEF Access!Next

LEMMA AccessHolds == AccessInv => Access!TypeOK /\ Access!AccessIsRecent
BY DEF AccessInv, Access!TypeOK, Access!AccessIsRecent, SoundStatus, SoundCall

-----------------------------------------------------------------------------
\* The throttling of an origin (ConnectionThrottling): an attempt is as old as the
\* time since the last one, or older, and a block ends before the origin has been
\* quiet for a window and a block, since only a recent attempt can start one.
Aged == \A i \in DOMAIN history : history[i] >= TimeWindow \/ history[i] >= quiet

EndsInTime == blocked /\ blockLeft > 0 => blockLeft + quiet <= Throttle!Patience

ThrottleInv == Throttle!TypeOK /\ Aged /\ EndsInTime

\* The type but for the history.
Counters ==
  /\ authFailures \in 0..MaxAuthFailures
  /\ blocked \in BOOLEAN
  /\ blockLeft \in 0..BlockDuration
  /\ rule \in {"none", "allow", "block"}
  /\ ruleLeft \in 0..Throttle!Forever
  /\ quiet \in 0..Throttle!Patience

LEMMA ThrottleType ==
  Throttle!TypeOK <=> Counters /\ history \in Seq(0..TimeWindow) /\ Len(history) <= MaxHistory
BY DEF Throttle!TypeOK, Counters

LEMMA ThrottleCardinality == \A S : Throttle!Cardinality(S) = Cardinality(S)
BY DEF Throttle!Cardinality, Cardinality

LEMMA NoRecent ==
  ASSUME \A i \in DOMAIN history : history[i] >= TimeWindow,
         \A i \in DOMAIN history : history[i] \in Nat
  PROVE  Throttle!Recent = 0
<1>1. ASSUME NEW i \in DOMAIN history PROVE ~(history[i] < TimeWindow)
  <2>1. history[i] >= TimeWindow /\ history[i] \in Nat /\ TimeWindow \in Nat
    BY ThrottleAssumption
  <2>2. QED
    BY <2>1
<1>2. {i \in DOMAIN history : history[i] < TimeWindow} = {}
  BY <1>1
<1>3. QED
  BY <1>2, ThrottleCardinality, FS_EmptySet DEF Throttle!Recent

LEMMA ThrottleInit == Throttle!Init => ThrottleInv
<1> SUFFICES ASSUME Throttle!Init PROVE ThrottleInv
  OBVIOUS
<1>0. 0 \in 0..MaxAuthFailures /\ 0 \in 0..BlockDuration
      /\ Throttle!Forever \in 0..Throttle!Forever /\ Throttle!Patience \in 0..Throttle!Patience
  BY ThrottleAssumption DEF Throttle!Patience, Throttle!Forever
<1>c. Counters
  BY <1>0 DEF Throttle!Init, Counters
<1>l. history \in Seq(0..TimeWindow) /\ Len(history) <= MaxHistory
  BY ThrottleAssumption DEF Throttle!Init
<1>1. Throttle!TypeOK
  BY <1>c, <1>l, ThrottleType
<1>2. Aged /\ EndsInTime
  BY DEF Throttle!Init, Aged, EndsInTime
<1>3. QED
  BY <1>1, <1>2 DEF ThrottleInv

LEMMA BlocksEarly ==
  ASSUME ThrottleInv, Throttle!Recent >= MaxAttempts
  PROVE  quiet < TimeWindow
<1> SUFFICES ASSUME quiet >= TimeWindow PROVE FALSE
  BY ThrottleAssumption DEF ThrottleInv, Throttle!TypeOK, Throttle!Patience
<1>1. \A i \in DOMAIN history : history[i] \in Nat
  BY ThrottleAssumption DEF ThrottleInv, Throttle!TypeOK
<1>2. \A i \in DOMAIN history : history[i] >= TimeWindow
  BY <1>1, ThrottleAssumption DEF ThrottleInv, Throttle!TypeOK, Throttle!Patience, Aged
<1>3. QED
  BY <1>1, <1>2, NoRecent, ThrottleAssumption

LEMMA ThrottleStepInv == ThrottleInv /\ [Throttle!Next]_throttleVars => ThrottleInv'
<1> SUFFICES ASSUME ThrottleInv, [Throttle!Next]_throttleVars PROVE ThrottleInv'
  OBVIOUS
<1>t. Throttle!TypeOK /\ Aged /\ EndsInTime
  BY DEF ThrottleInv
<1>n. /\ quiet \in Nat /\ blockLeft \in Nat /\ authFailures \in Nat
      /\ history \in Seq(0..TimeWindow) /\ Len(history) <= MaxHistory
  BY <1>t, ThrottleAssumption DEF Throttle!TypeOK, Throttle!Patience
<1>c. Counters
  BY <1>t, ThrottleType
<1>l. Len(history) \in Nat /\ DOMAIN history = 1..Len(history)
      /\ \A i \in DOMAIN history : history[i] \in 0..TimeWindow
  <2>1. Len(history) \in Nat /\ DOMAIN history = 1..Len(history)
    BY <1>n
  <2>2. QED
    BY <1>n, <2>1, ElementOfSeq
<1>p. 0 \in 0..Throttle!Patience /\ Throttle!Forever \in 0..Throttle!Forever
      /\ RuleDuration \in 0..Throttle!Forever /\ 0 \in 0..MaxAuthFailures
      /\ 0 \in 0..BlockDuration /\ BlockDuration \in 0..BlockDuration /\ 0 \in 0..TimeWindow
  BY ThrottleAssumption DEF Throttle!Patience, Throttle!Forever
<1>1. CASE Throttle!CheckThrottle
  <2>h. UNCHANGED <<history, quiet>>
    BY <1>1 DEF Throttle!CheckThrottle
  <2>r. (rule' = "none" /\ ruleLeft' = Throttle!Forever) \/ UNCHANGED <<rule, ruleLeft>>
    BY <1>1 DEF Throttle!CheckThrottle, Throttle!ruleVars
  <2>s. \/ UNCHANGED <<authFailures, blocked, blockLeft>>
        \/ /\ authFailures' = authFailures \/ authFailures' = 0
           /\ \/ Throttle!Recent >= MaxAttempts /\ blocked' = TRUE /\ blockLeft' = BlockDuration
              \/ blocked' = FALSE /\ blockLeft' = 0
    BY <1>1 DEF Throttle!CheckThrottle, Throttle!CheckWindow, Throttle!StillBlocked,
                Throttle!Block, Throttle!stateVars
  <2>c. Counters'
    BY <2>h, <2>r, <2>s, <1>c, <1>p DEF Counters, Throttle!Forever, Throttle!Patience
  <2>1. Throttle!TypeOK'
    BY <2>h, <2>c, <1>n, ThrottleType DEF Throttle!TypeOK, Counters
  <2>2. Aged'
    BY <1>1, <1>t DEF Throttle!CheckThrottle, Aged
  <2>b. Throttle!Recent >= MaxAttempts => quiet < TimeWindow
    BY BlocksEarly
  <2>3. EndsInTime'
    <3>1. CASE UNCHANGED <<authFailures, blocked, blockLeft>>
      BY <2>h, <3>1, <1>t DEF EndsInTime
    <3>2. CASE blocked' = FALSE
      BY <3>2 DEF EndsInTime
    <3>3. CASE Throttle!Recent >= MaxAttempts /\ blockLeft' = BlockDuration
      <4>1. BlockDuration + quiet <= TimeWindow + BlockDuration
        BY <3>3, <2>b, <1>n, ThrottleAssumption
      <4>2. QED
        BY <3>3, <4>1, <2>h DEF EndsInTime, Throttle!Patience
    <3>4. QED
      BY <2>s, <3>1, <3>2, <3>3
  <2>4. QED
    BY <2>1, <2>2, <2>3 DEF ThrottleInv
<1>2. ASSUME NEW outcome \in {"success", "failure", "auth_failure"}, Throttle!RecordAttempt(outcome)
      PROVE  ThrottleInv'
  <2>h. /\ history' = Append(history, 0) /\ quiet' = 0 /\ Len(history) < MaxHistory
        /\ UNCHANGED <<rule, ruleLeft>>
        /\ authFailures' \in 0..MaxAuthFailures
        /\ Throttle!Block \/ UNCHANGED <<blocked, blockLeft>>
    BY <1>2, <1>t, <1>n, ThrottleAssumption
       DEF Throttle!RecordAttempt, Throttle!ruleVars, Throttle!TypeOK
  <2>1. /\ history' \in Seq(0..TimeWindow) /\ Len(history') <= MaxHistory
        /\ \A i \in DOMAIN history' : i \in DOMAIN history \/ history'[i] = 0
        /\ \A i \in DOMAIN history : history'[i] = history[i]
    BY <2>h, <1>n, <1>p, ThrottleAssumption
  <2>c. Counters'
    BY <2>h, <1>c, <1>p DEF Counters, Throttle!Block, Throttle!Forever, Throttle!Patience
  <2>2. Throttle!TypeOK'
    BY <2>1, <2>c DEF Throttle!TypeOK, Counters
  <2>3. Aged'
    <3>1. ASSUME NEW i \in DOMAIN history' PROVE history'[i] >= 0
      <4>1. history'[i] \in 0..TimeWindow
        <5>1. history' \in Seq(0..TimeWindow) /\ i \in 1..Len(history')
          BY <2>1
        <5>2. QED
          BY <5>1, ElementOfSeq
      <4>2. QED
        BY <4>1, ThrottleAssumption
    <3>2. QED
      BY <2>h, <3>1 DEF Aged
  <2>4. EndsInTime'
    <3>1. CASE Throttle!Block
      BY <2>h, <3>1, ThrottleAssumption DEF EndsInTime, Throttle!Block, Throttle!Patience
    <3>2. CASE UNCHANGED <<blocked, blockLeft>>
      BY <2>h, <3>2, <1>c, <1>n, ThrottleAssumption DEF EndsInTime, Counters, Throttle!Patience
    <3>3. QED
      BY <2>h, <3>1, <3>2
  <2>5. QED
    BY <2>2, <2>3, <2>4 DEF ThrottleInv
<1>3. ASSUME NEW type \in {"none", "allow", "block"}, NEW left \in {RuleDuration, Throttle!Forever},
             Throttle!SetRule(type, left)
      PROVE  ThrottleInv'
  BY <1>3, <1>t, ThrottleAssumption
     DEF Throttle!SetRule, Throttle!stateVars, ThrottleInv, Throttle!TypeOK, Throttle!Patience,
         Throttle!Forever, Aged, EndsInTime
<1>4. CASE Throttle!ResetOriginState
  <2>h. /\ history' = IF history = <<>> THEN <<>> ELSE Tail(history)
        /\ authFailures' = 0 /\ blocked' = FALSE /\ blockLeft' = 0
        /\ UNCHANGED <<rule, ruleLeft, quiet>>
    BY <1>4 DEF Throttle!ResetOriginState, Throttle!ruleVars
  <2>1. /\ history' \in Seq(0..TimeWindow) /\ Len(history') <= Len(history)
        /\ \A i \in DOMAIN history' : \E j \in DOMAIN history : history'[i] = history[j]
    <3>1. CASE history = <<>>
      BY <3>1, <2>h, <1>n
    <3>2. CASE history # <<>>
      <4>1. history' = Tail(history) /\ Len(history) # 0
        BY <3>2, <2>h, <1>n
      <4>2. /\ history' \in Seq(0..TimeWindow) /\ Len(history') = Len(history) - 1
            /\ \A i \in DOMAIN history' : history'[i] = history[i + 1] /\ i + 1 \in DOMAIN history
        BY <4>1, <1>n
      <4>3. QED
        BY <4>2, <1>n
    <3>3. QED
      BY <3>1, <3>2
  <2>c. Counters'
    BY <2>h, <1>c, <1>p DEF Counters, Throttle!Forever, Throttle!Patience
  <2>l. Len(history') <= MaxHistory
    BY <2>1, <1>n, <1>l, ThrottleAssumption
  <2>2. Throttle!TypeOK'
    BY <2>1, <2>c, <2>l DEF Throttle!TypeOK, Counters
  <2>3. Aged'
    BY <2>h, <2>1, <1>t DEF Aged
  <2>4. EndsInTime'
    BY <2>h DEF EndsInTime
  <2>5. QED
    BY <2>2, <2>3, <2>4 DEF ThrottleInv
<1>5. CASE Throttle!ClearThrottlingState
  <2>c. Counters'
    BY <1>5, <1>c, <1>p
       DEF Throttle!ClearThrottlingState, Counters, Throttle!Forever, Throttle!Patience
  <2>l. history' \in Seq(0..TimeWindow) /\ Len(history') <= MaxHistory
    BY <1>5, ThrottleAssumption DEF Throttle!ClearThrottlingState
  <2>1. Throttle!TypeOK'
    BY <2>c, <2>l DEF Throttle!TypeOK, Counters
  <2>2. Aged' /\ EndsInTime'
    BY <1>5 DEF Throttle!ClearThrottlingState, Aged, EndsInTime
  <2>3. QED
    BY <2>1, <2>2 DEF ThrottleInv
<1>6. CASE Throttle!Tick
  <2> DEFINE older == [i \in DOMAIN history |->
                         IF history[i] < TimeWindow THEN history[i] + 1 ELSE TimeWindow]
  <2>h. /\ history' = older
        /\ blockLeft' = IF blockLeft > 0 THEN blockLeft - 1 ELSE 0
        /\ ruleLeft' = IF ruleLeft = Throttle!Forever THEN Throttle!Forever
                       ELSE IF ruleLeft > 0 THEN ruleLeft - 1 ELSE 0
        /\ quiet' = IF quiet < Throttle!Patience THEN quiet + 1 ELSE Throttle!Patience
        /\ UNCHANGED <<authFailures, blocked, rule>>
    BY <1>6 DEF Throttle!Tick, Throttle!Down
  <2>1. older \in Seq(0..TimeWindow) /\ Len(older) = Len(history)
    BY <1>n, ThrottleAssumption
  <2>2. Throttle!TypeOK'
    BY <2>h, <2>1, <1>t, ThrottleAssumption
       DEF Throttle!TypeOK, Throttle!Patience, Throttle!Forever
  <2>3. Aged'
    <3>1. ASSUME NEW i \in DOMAIN history'
          PROVE  history'[i] >= TimeWindow \/ history'[i] >= quiet'
      <4>1. i \in DOMAIN history /\ history'[i] = IF history[i] < TimeWindow THEN history[i] + 1
                                                ELSE TimeWindow
        BY <2>h
      <4>2. history[i] \in Nat /\ (history[i] >= TimeWindow \/ history[i] >= quiet)
        BY <4>1, <1>t, <1>l, ThrottleAssumption DEF Aged
      <4>3. quiet' <= quiet + 1 /\ quiet' \in Nat
        BY <2>h, <1>n, ThrottleAssumption DEF Throttle!Patience
      <4>4. QED
        BY <4>1, <4>2, <4>3, <1>n, ThrottleAssumption
    <3>2. QED
      BY <3>1 DEF Aged
  <2>4. EndsInTime'
    <3> HIDE DEF older
    <3>1. QED
      BY <2>h, <1>t, <1>n, ThrottleAssumption DEF EndsInTime, Throttle!Patience
  <2>5. QED
    BY <2>2, <2>3, <2>4 DEF ThrottleInv
<1>7. CASE UNCHANGED throttleVars
  BY <1>7, <1>t DEF throttleVars, ThrottleInv, Throttle!TypeOK, Aged, EndsInTime
<1>8. QED
  BY <1>1, <1>2, <1>3, <1>4, <1>5, <1>6, <1>7 DEF Throttle!Next

LEMMA ThrottleHolds == ThrottleInv => Throttle!TypeOK /\ Throttle!WaitingHelps
<1> SUFFICES ASSUME ThrottleInv PROVE Throttle!WaitingHelps
  BY DEF ThrottleInv
<1>n. /\ quiet \in Nat /\ blockLeft \in Nat /\ blocked \in BOOLEAN
      /\ \A i \in DOMAIN history : history[i] \in Nat
  BY ThrottleAssumption DEF ThrottleInv, Throttle!TypeOK, Throttle!Patience
<1> SUFFICES ASSUME quiet = Throttle!Patience PROVE Throttle!RuleApplies("block") \/ Throttle!Allowed
  BY DEF Throttle!WaitingHelps
<1>1. ~blocked \/ blockLeft = 0
  BY <1>n, ThrottleAssumption DEF ThrottleInv, EndsInTime, Throttle!Patience
<1>2. \A i \in DOMAIN history : history[i] >= TimeWindow
  BY <1>n, ThrottleAssumption DEF ThrottleInv, Aged, Throttle!Patience
<1>3. Throttle!Recent < MaxAttempts
  BY <1>n, <1>2, NoRecent, ThrottleAssumption
<1>4. QED
  BY <1>1, <1>3 DEF Throttle!Allowed

-----------------------------------------------------------------------------
\* Every answer on its way was true of the ledger once, which only grows.
AnswersArePast == \A c \in Calls : Context!Answer(c) \in Context!Sequences => Context!Answer(c) <= ledger

ContextInv == Context!TypeOK /\ Context!NoSequenceTwice /\ Context!NoGap /\ AnswersArePast

LEMMA ContextInit == Context!Init => ContextInv
<1> SUFFICES ASSUME Context!Init PROVE ContextInv
  OBVIOUS
<1>1. ledger \in {0, 1} /\ nextSequence = ledger /\ first = ledger /\ handed = {}
  BY DEF Context!Init
<1>2. MaxContextSequence \in Nat \ {0} /\ Unreachable \notin Nat /\ Context!Sequences \subseteq Nat
  BY ContextAssumption DEF Context!Sequences
<1>3. Context!NoCall \in Context!Requests
  BY DEF Context!NoCall, Context!Requests
<1>4. Context!TypeOK
  <2>1. 0 \in Context!Sequences /\ 1 \in Context!Sequences
    BY <1>2, ContextAssumption DEF Context!Sequences
  <2>2. calls \in [Calls -> Context!Requests] /\ expired \in BOOLEAN
    BY <1>3 DEF Context!Init
  <2>3. QED BY <1>1, <2>1, <2>2 DEF Context!TypeOK
<1>5. Context!NoSequenceTwice /\ Context!NoGap
  BY <1>1, <1>2 DEF Context!NoSequenceTwice, Context!NoGap, Context!Sequences
<1>6. AnswersArePast
  BY <1>2 DEF Context!Init, AnswersArePast, Context!Answer, Context!NoCall
<1>7. QED BY <1>4, <1>5, <1>6 DEF ContextInv

\* A step that only tells one k what to do next.
LEMMA SetKeeps ==
  ASSUME ContextInv, NEW c \in Calls, NEW k, Context!Set(c, k),
         k \in Context!Requests,
         k.answer \in Context!Sequences => k.answer <= ledger,
         ledger' = ledger
  PROVE  /\ calls' \in [Calls -> Context!Requests]
         /\ AnswersArePast'
<1>1. calls' = [calls EXCEPT ![c] = k] /\ calls \in [Calls -> Context!Requests]
  BY DEF Context!Set, ContextInv, Context!TypeOK
<1>2. \A d \in Calls : calls'[d] = IF d = c THEN k ELSE calls[d]
  BY <1>1
<1>3. AnswersArePast'
  BY <1>2 DEF AnswersArePast, Context!Answer, ContextInv
<1>4. QED BY <1>1, <1>3

LEMMA ContextCalls ==
  /\ Context!NoCall \in Context!Requests /\ Context!Fresh \in Context!Requests
  /\ \A m \in Context!Methods : Context!Asked(m) \in Context!Requests
  /\ \A k \in Context!Requests, seq \in Context!Sequences \cup {Unreachable} :
       Context!Answered(k, seq) \in Context!Requests
BY DEF Context!NoCall, Context!Fresh, Context!Asked, Context!Answered, Context!Methods, Context!Requests

LEMMA CallAnswers ==
  /\ Context!NoCall.answer \notin Context!Sequences /\ Context!Fresh.answer \notin Context!Sequences
  /\ \A m : Context!Asked(m).answer \notin Context!Sequences
  /\ \A k, seq : Context!Answered(k, seq).answer = seq
BY ContextAssumption DEF Context!NoCall, Context!Fresh, Context!Asked, Context!Answered, Context!Sequences

\* Steps that leave the sequence, what was handed out and the ledger alone.
LEMMA ContextStill ==
  ASSUME ContextInv, NEW c \in Calls, NEW k, Context!Set(c, k),
         k \in Context!Requests,
         k.answer \in Context!Sequences => k.answer <= ledger,
         UNCHANGED <<nextSequence, expired, ledger, handed, first>>
  PROVE  ContextInv'
<1>1. /\ calls' \in [Calls -> Context!Requests]
      /\ AnswersArePast'
  BY SetKeeps
<1>2. Context!TypeOK'
  BY <1>1 DEF ContextInv, Context!TypeOK
<1>3. Context!NoSequenceTwice' /\ Context!NoGap'
  BY DEF ContextInv, Context!NoSequenceTwice, Context!NoGap
<1>4. QED BY <1>1, <1>2, <1>3 DEF ContextInv

LEMMA ContextStepInv == ContextInv /\ [Context!Next]_contextVars => ContextInv'
<1> SUFFICES ASSUME ContextInv, [Context!Next]_contextVars PROVE ContextInv'
  OBVIOUS
<1>1. /\ nextSequence \in Nat /\ nextSequence <= MaxContextSequence /\ ledger \in Nat /\ ledger <= MaxContextSequence
      /\ first \in Nat /\ first <= MaxContextSequence /\ handed \subseteq Context!Sequences
      /\ MaxContextSequence \in Nat /\ Context!Sequences = 0..MaxContextSequence
      /\ calls \in [Calls -> Context!Requests]
      /\ expired \in BOOLEAN
  BY ContextAssumption DEF ContextInv, Context!TypeOK, Context!Sequences
<1>2. /\ Context!NoCall \in Context!Requests /\ Context!Fresh \in Context!Requests
      /\ \A m \in Context!Methods : Context!Asked(m) \in Context!Requests
      /\ \A k \in Context!Requests, seq \in Context!Sequences \cup {Unreachable} :
           Context!Answered(k, seq) \in Context!Requests
  BY ContextCalls
<1>3. /\ Context!NoCall.answer \notin Context!Sequences /\ Context!Fresh.answer \notin Context!Sequences
      /\ \A m : Context!Asked(m).answer \notin Context!Sequences
      /\ \A k, seq : Context!Answered(k, seq).answer = seq
  BY CallAnswers
<1>4. CASE Context!Expire
  BY <1>1, <1>4 DEF Context!Expire, ContextInv, Context!TypeOK, Context!NoSequenceTwice, Context!NoGap, AnswersArePast, Context!Answer
<1>5. CASE Context!Apply
  <2>1. ledger' \in Nat /\ ledger' <= MaxContextSequence /\ ledger' = ledger + 1
    BY <1>1, <1>5 DEF Context!Apply
  <2>2. Context!TypeOK'
    BY <1>1, <1>5, <2>1 DEF Context!Apply, ContextInv, Context!TypeOK
  <2>3. Context!NoSequenceTwice'
    BY <1>5 DEF Context!Apply, ContextInv, Context!NoSequenceTwice
  <2>4. Context!NoGap'
    BY <1>1, <1>5, <2>1 DEF Context!Apply, ContextInv, Context!NoGap
  <2>5. AnswersArePast'
    BY <1>1, <1>5, <2>1 DEF Context!Apply, ContextInv, AnswersArePast, Context!Answer
  <2>6. QED BY <2>2, <2>3, <2>4, <2>5 DEF ContextInv
<1>6. ASSUME NEW c \in Calls, Context!StartBuild(c) PROVE ContextInv'
  <2>1. "build" \in Context!Methods
    BY DEF Context!Methods
  <2>2. PICK k \in {Context!Asked("build"), Context!Fresh} :
          Context!Set(c, k) /\ UNCHANGED <<nextSequence, expired, ledger, handed, first>>
    BY <1>6 DEF Context!StartBuild
  <2>3. QED BY <1>2, <1>3, <2>1, <2>2, ContextStill
<1>7. ASSUME NEW c \in Calls, NEW method \in {"reset", "validate"}, Context!StartFetch(c, method) PROVE ContextInv'
  <2>1. method \in Context!Methods
    BY DEF Context!Methods
  <2>2. QED BY <1>2, <1>3, <1>7, <2>1, ContextStill DEF Context!StartFetch
<1>8. ASSUME NEW c \in Calls, NEW seq \in {ledger, Unreachable}, Context!Serve(c, seq) PROVE ContextInv'
  <2>1. calls[c] \in Context!Requests /\ seq \in Context!Sequences \cup {Unreachable}
    BY <1>1
  <2>2. seq \in Context!Sequences => seq <= ledger
    BY <1>1, ContextAssumption
  <2>3. QED BY <1>2, <1>3, <1>8, <2>1, <2>2, ContextStill DEF Context!Serve
<1>9. ASSUME NEW c \in Calls, Context!FetchFails(c) \/ Context!Validate(c) \/ Context!BuildFails(c) PROVE ContextInv'
  BY <1>2, <1>3, <1>9, ContextStill DEF Context!FetchFails, Context!Validate, Context!BuildFails
<1>10. ASSUME NEW c \in Calls, Context!Refresh(c) PROVE ContextInv'
  <2>1. /\ nextSequence' = IF Context!Answer(c) > nextSequence THEN Context!Answer(c) ELSE nextSequence
        /\ expired' = FALSE /\ UNCHANGED <<ledger, handed, first>>
        /\ Context!Answer(c) \in Context!Sequences
    BY <1>10 DEF Context!Refresh, Context!Adopt, Context!Larger
  <2>2. PICK k \in {Context!Fresh, Context!NoCall} : Context!Set(c, k)
    BY <1>10 DEF Context!Refresh
  <2>3. Context!Answer(c) \in Nat /\ Context!Answer(c) <= ledger
    BY <1>1, <2>1 DEF ContextInv, AnswersArePast
  <2>4. /\ calls' \in [Calls -> Context!Requests] /\ AnswersArePast'
    BY <1>2, <1>3, <2>1, <2>2, SetKeeps
  <2>5. nextSequence' \in Context!Sequences /\ nextSequence' >= nextSequence
    BY <1>1, <2>1, <2>3
  <2>6. Context!TypeOK'
    BY <1>1, <2>1, <2>4, <2>5 DEF Context!TypeOK, ContextInv
  <2>7. Context!NoSequenceTwice'
    BY <1>1, <2>1, <2>5 DEF ContextInv, Context!NoSequenceTwice
  <2>8. Context!NoGap'
    <3>1. ASSUME NEW s \in Context!Sequences, first <= s, s < nextSequence'
          PROVE  s \in handed \/ s < ledger
      BY <1>1, <2>1, <2>3, <3>1 DEF ContextInv, Context!NoGap
    <3>2. QED BY <2>1, <3>1 DEF Context!NoGap
  <2>9. QED BY <2>4, <2>6, <2>7, <2>8 DEF ContextInv
<1>11. ASSUME NEW c \in Calls, Context!Allocate(c) PROVE ContextInv'
  <2>1. /\ nextSequence < MaxContextSequence /\ handed' = handed \cup {nextSequence}
        /\ nextSequence' = nextSequence + 1 /\ Context!Set(c, Context!NoCall)
        /\ UNCHANGED <<expired, ledger, first>>
    BY <1>11 DEF Context!Allocate
  <2>2. /\ calls' \in [Calls -> Context!Requests] /\ AnswersArePast'
    BY <1>2, <1>3, <2>1, SetKeeps
  <2>3. Context!TypeOK'
    BY <1>1, <2>1, <2>2 DEF Context!TypeOK, ContextInv
  <2>4. Context!NoSequenceTwice'
    BY <1>1, <2>1 DEF ContextInv, Context!NoSequenceTwice
  <2>5. Context!NoGap'
    <3>1. ASSUME NEW s \in Context!Sequences, first <= s, s < nextSequence + 1
          PROVE  s \in handed \/ s = nextSequence \/ s < ledger
      BY <1>1, <3>1 DEF ContextInv, Context!NoGap
    <3>2. QED BY <2>1, <3>1 DEF Context!NoGap
  <2>6. QED BY <2>2, <2>3, <2>4, <2>5 DEF ContextInv
<1>12. CASE UNCHANGED contextVars
  BY <1>12 DEF contextVars, ContextInv, Context!TypeOK, Context!NoSequenceTwice, Context!NoGap, AnswersArePast, Context!Answer
<1>13. QED BY <1>4, <1>5, <1>6, <1>7, <1>8, <1>9, <1>10, <1>11, <1>12 DEF Context!Next

-----------------------------------------------------------------------------
\* A price subscription (PriceSubscription): whoever fails arms a timer or gives up.
PriceInv == Prices!TypeOK /\ Prices!NeverSilent

\* A socket, and the type but for the sockets.
Socket == [provider : Prices!Providers,
           state    : {"free", "connecting", "aborted", "failed", "open", "closing"},
           notifies : BOOLEAN]

Plan ==
  /\ providerCount \in ProviderCounts
  /\ unsubscribed \in BOOLEAN
  /\ retryCount \in 0..MaxRetries \cup {1}
  /\ providerIndex \in Prices!Providers /\ activeProvider \in Prices!Providers
  /\ timers \in 0..MaxTimers
  /\ quit \in {"no", "clean", "exhausted"}

LEMMA PriceProviders == Prices!TypeOK => providerCount \in Nat \ {0} /\ 0 \in Prices!Providers
BY PriceAssumption DEF Prices!TypeOK, Prices!Providers

LEMMA PriceInit == Prices!Init => PriceInv
<1> SUFFICES ASSUME Prices!Init PROVE PriceInv
  OBVIOUS
<1>1. providerCount \in Nat \ {0} /\ 0 \in Prices!Providers
  BY PriceAssumption DEF Prices!Init, Prices!Providers
<1> DEFINE s == CHOOSE t \in Sockets : TRUE
<1>2. s \in Sockets
  BY PriceAssumption
<1>3. /\ sockets = [t \in Sockets |->
              IF t = s THEN [provider |-> 0, state |-> "connecting", notifies |-> TRUE]
              ELSE Prices!NoConnection]
      /\ ws = [p \in Prices!Providers |-> IF p = 0 THEN s ELSE NoSocket]
  BY DEF Prices!Init
<1> HIDE DEF s
<1>4. Prices!NoConnection \in Socket
  BY <1>1 DEF Prices!NoConnection, Socket
<1>5. sockets \in [Sockets -> Socket]
  BY <1>1, <1>3, <1>4 DEF Socket
<1>6. Prices!TypeOK
  <2>0. 0 \in 0..MaxRetries /\ 0 \in 0..MaxTimers
    BY PriceAssumption
  <2>1. Plan
    BY <1>1, <2>0 DEF Prices!Init, Plan
  <2>2. ws \in [Prices!Providers -> Sockets \cup {NoSocket}]
    BY <1>2, <1>3
  <2>3. QED
    BY <1>5, <2>1, <2>2 DEF Prices!TypeOK, Plan, Socket
<1>7. Prices!NeverSilent
  BY <1>2, <1>3 DEF Prices!NeverSilent, Prices!Alive
<1>8. QED
  BY <1>6, <1>7 DEF PriceInv

LEMMA ClosedIsSocket ==
  ASSUME NEW k \in Socket, NEW notifies \in BOOLEAN
  PROVE  Prices!Closed(k, notifies) \in Socket
<1>1. k.state \in {"free", "connecting", "aborted", "failed", "open", "closing"}
  BY DEF Socket
<1>2. QED
  BY <1>1 DEF Prices!Closed, Socket

\* Every failure arms a timer or gives up, unless the caller left.
LEMMA ReconnectOrQuit ==
  ASSUME Prices!TypeOK, Prices!ScheduleReconnect
  PROVE  /\ retryCount' \in 0..MaxRetries \cup {1} /\ providerIndex' \in Prices!Providers
         /\ timers' \in 0..MaxTimers /\ quit' \in {"no", "clean", "exhausted"}
         /\ unsubscribed \/ timers' > 0 \/ quit' = "exhausted"
<1>1. providerCount \in Nat \ {0} /\ providerIndex \in Nat
  BY PriceProviders DEF Prices!TypeOK, Prices!Providers
<1>2. Prices!NextProvider \in Prices!Providers
  BY <1>1 DEF Prices!NextProvider, Prices!Providers
<1>3. timers \in Nat /\ retryCount \in Nat
  BY PriceAssumption DEF Prices!TypeOK
<1>4. providerCount = 1 \/ providerCount > 1
  BY <1>1
<1>5. Prices!Arm => timers' \in 0..MaxTimers /\ timers' > 0
  BY <1>3, PriceAssumption DEF Prices!Arm, Prices!TypeOK
<1>6. QED
  BY <1>2, <1>3, <1>4, <1>5, PriceAssumption
     DEF Prices!ScheduleReconnect, Prices!RetriesLeft, Prices!TypeOK

LEMMA PriceStepInv == PriceInv /\ [Prices!Next]_priceVars => PriceInv'
<1> SUFFICES ASSUME PriceInv, [Prices!Next]_priceVars PROVE PriceInv'
  OBVIOUS
<1>t. Prices!TypeOK /\ Prices!NeverSilent
  BY DEF PriceInv
<1>k. sockets \in [Sockets -> Socket] /\ ws \in [Prices!Providers -> Sockets \cup {NoSocket}]
  BY <1>t DEF Prices!TypeOK, Socket
<1>p. providerCount \in Nat \ {0} /\ 0 \in Prices!Providers
  BY <1>t, PriceProviders
<1>g. ASSUME NEW s \in Sockets, Prices!Gone(s), providerCount' = providerCount
      PROVE  /\ sockets' \in [Sockets -> Socket]' /\ ws' \in [Prices!Providers -> Sockets \cup {NoSocket}]'
             /\ \A t \in Sockets : t # s => sockets'[t] = sockets[t]
  <2>1. Prices!NoConnection \in Socket
    BY <1>p DEF Prices!NoConnection, Socket
  <2>2. Prices!Providers' = Prices!Providers /\ Socket' = Socket
    BY <1>g DEF Prices!Providers, Socket
  <2>3. QED
    BY <1>g, <1>k, <2>1, <2>2 DEF Prices!Gone
<1>1. CASE Prices!TimerFires
  <2>1. Prices!Connect(providerIndex) /\ timers' = timers - 1 /\ timers > 0 /\ quit' = "no"
        /\ UNCHANGED <<providerCount, unsubscribed, retryCount, providerIndex>>
    BY <1>1 DEF Prices!TimerFires
  <2>2. PICK s \in Sockets :
          /\ sockets' = [t \in Sockets |->
               IF t = s THEN [provider |-> providerIndex, state |-> "connecting", notifies |-> TRUE]
               ELSE IF t = ws[providerIndex] THEN Prices!Closed(sockets[t], TRUE)
               ELSE sockets[t]]
          /\ ws' = [ws EXCEPT ![providerIndex] = s]
          /\ activeProvider' = providerIndex
    BY <2>1 DEF Prices!Connect
  <2>3. providerIndex \in Prices!Providers
    BY <1>t DEF Prices!TypeOK
  <2>4. [provider |-> providerIndex, state |-> "connecting", notifies |-> TRUE] \in Socket
    BY <2>3 DEF Socket
  <2>5. \A t \in Sockets : sockets'[t] \in Socket
    BY <2>2, <2>4, <1>k, ClosedIsSocket
  <2>6. sockets' \in [Sockets -> Socket]
    BY <2>2, <2>5
  <2>7. Prices!Providers' = Prices!Providers /\ Socket' = Socket
    BY <2>1 DEF Prices!Providers, Socket
  <2>8. Prices!TypeOK'
    <3>1. timers - 1 \in 0..MaxTimers
      BY <2>1, <1>t, PriceAssumption DEF Prices!TypeOK
    <3>2. Plan'
      BY <2>1, <2>2, <2>3, <2>7, <3>1, <1>t DEF Prices!TypeOK, Plan
    <3>3. ws' \in [Prices!Providers -> Sockets \cup {NoSocket}]
      BY <2>2, <1>k
    <3>4. QED
      BY <2>6, <2>7, <3>2, <3>3 DEF Prices!TypeOK, Plan, Socket
  <2>9. Prices!NeverSilent'
    BY <2>2 DEF Prices!NeverSilent, Prices!Alive
  <2>10. QED
    BY <2>8, <2>9 DEF PriceInv
<1>2. CASE Prices!Unsubscribe
  <2>1. Prices!Providers' = Prices!Providers /\ Socket' = Socket
    BY <1>2 DEF Prices!Unsubscribe, Prices!Providers, Socket
  <2>2. \A t \in Sockets : sockets'[t] \in Socket
    BY <1>2, <1>k, ClosedIsSocket DEF Prices!Unsubscribe
  <2>3. sockets' \in [Sockets -> Socket]
    BY <1>2, <2>2 DEF Prices!Unsubscribe
  <2>4. ws' \in [Prices!Providers -> Sockets \cup {NoSocket}]
    BY <1>2, <1>k DEF Prices!Unsubscribe
  <2>5. Prices!TypeOK'
    <3>1. 0 \in 0..MaxTimers
      BY PriceAssumption
    <3>2. Plan'
      BY <1>2, <2>1, <3>1, <1>t DEF Prices!Unsubscribe, Prices!TypeOK, Plan
    <3>3. QED
      BY <2>1, <2>3, <2>4, <3>2 DEF Prices!TypeOK, Plan, Socket
  <2>6. Prices!NeverSilent'
    BY <1>2 DEF Prices!Unsubscribe, Prices!NeverSilent
  <2>7. QED
    BY <2>5, <2>6 DEF PriceInv
<1>3. ASSUME NEW s \in Sockets, Prices!Opens(s) PROVE PriceInv'
  <2>h. UNCHANGED <<providerCount, unsubscribed, providerIndex, timers, activeProvider, quit>>
    BY <1>3 DEF Prices!Opens
  <2>p. Prices!Providers' = Prices!Providers /\ Socket' = Socket
    BY <2>h DEF Prices!Providers, Socket
  <2>1. CASE unsubscribed
    <3> DEFINE p == sockets[s].provider
    <3>0. /\ sockets' = [t \in Sockets |->
                   IF t = ws[p] THEN Prices!Closed([sockets[t] EXCEPT !.state = "open"], FALSE)
                   ELSE sockets[t]]
          /\ ws' = [ws EXCEPT ![p] = NoSocket]
          /\ retryCount' = retryCount
      BY <1>3, <2>1 DEF Prices!Opens
    <3>1. \A t \in Sockets : [sockets[t] EXCEPT !.state = "open"] \in Socket
      BY <1>k DEF Socket
    <3>2. \A t \in Sockets : sockets'[t] \in Socket
      BY <3>0, <3>1, <1>k, ClosedIsSocket
    <3>3. sockets' \in [Sockets -> Socket] /\ ws' \in [Prices!Providers -> Sockets \cup {NoSocket}]
      BY <3>0, <3>2, <1>k
    <3>4. Prices!TypeOK'
      BY <2>h, <2>p, <3>0, <3>3, <1>t DEF Prices!TypeOK, Socket
    <3>5. Prices!NeverSilent'
      BY <2>h, <2>1 DEF Prices!NeverSilent
    <3>6. QED
      BY <3>4, <3>5 DEF PriceInv
  <2>2. CASE ~unsubscribed
    <3>0. sockets' = [sockets EXCEPT ![s].state = "open"] /\ retryCount' = 0 /\ ws' = ws
      BY <1>3, <2>2 DEF Prices!Opens
    <3>1. sockets' \in [Sockets -> Socket]
      BY <3>0, <1>k DEF Socket
    <3>2. Prices!TypeOK'
      BY <2>h, <2>p, <3>0, <3>1, <1>t, PriceAssumption DEF Prices!TypeOK, Socket
    <3>3. \A t \in Sockets : Prices!Alive(t) => Prices!Alive(t)'
      BY <3>0, <1>k DEF Prices!Alive, Socket
    <3>4. Prices!NeverSilent'
      BY <2>h, <3>3, <1>t DEF Prices!NeverSilent
    <3>5. QED
      BY <3>2, <3>4 DEF PriceInv
  <2>3. QED
    BY <2>1, <2>2
<1>4. ASSUME NEW s \in Sockets, Prices!Errors(s) PROVE PriceInv'
  <2>h. /\ sockets' = [sockets EXCEPT ![s].state = "failed"] /\ Prices!ScheduleReconnect
        /\ UNCHANGED <<providerCount, unsubscribed, activeProvider, ws>>
    BY <1>4 DEF Prices!Errors
  <2>p. Prices!Providers' = Prices!Providers /\ Socket' = Socket
    BY <2>h DEF Prices!Providers, Socket
  <2>1. sockets' \in [Sockets -> Socket]
    BY <2>h, <1>k DEF Socket
  <2>2. Prices!TypeOK'
    BY <2>h, <2>p, <2>1, <1>t, ReconnectOrQuit DEF Prices!TypeOK, Socket
  <2>3. Prices!NeverSilent'
    BY <2>h, <1>t, ReconnectOrQuit DEF Prices!NeverSilent
  <2>4. QED
    BY <2>2, <2>3 DEF PriceInv
<1>5. ASSUME NEW s \in Sockets, Prices!ClosesUncleanly(s) PROVE PriceInv'
  <2>h. /\ Prices!ReconnectAfterClose(sockets[s]) /\ Prices!Gone(s)
        /\ UNCHANGED <<providerCount, unsubscribed, activeProvider>>
    BY <1>5 DEF Prices!ClosesUncleanly
  <2>p. Prices!Providers' = Prices!Providers /\ Socket' = Socket
    BY <2>h DEF Prices!Providers, Socket
  <2>g. /\ sockets' \in [Sockets -> Socket]' /\ ws' \in [Prices!Providers -> Sockets \cup {NoSocket}]'
        /\ \A t \in Sockets : t # s => sockets'[t] = sockets[t]
    BY <2>h, <1>g
  <2>1. CASE sockets[s].notifies
    <3>1. Prices!ScheduleReconnect
      BY <2>h, <2>1 DEF Prices!ReconnectAfterClose
    <3>2. Prices!TypeOK'
      BY <2>h, <2>p, <2>g, <3>1, <1>t, ReconnectOrQuit DEF Prices!TypeOK, Socket
    <3>3. Prices!NeverSilent'
      BY <2>h, <3>1, <1>t, ReconnectOrQuit DEF Prices!NeverSilent
    <3>4. QED
      BY <3>2, <3>3 DEF PriceInv
  <2>2. CASE ~sockets[s].notifies
    <3>1. UNCHANGED <<retryCount, providerIndex, timers, quit>>
      BY <2>h, <2>2 DEF Prices!ReconnectAfterClose
    <3>2. Prices!TypeOK'
      BY <2>h, <2>p, <2>g, <3>1, <1>t DEF Prices!TypeOK, Socket
    <3>3. \A t \in Sockets : Prices!Alive(t) => Prices!Alive(t)'
      BY <2>g, <2>2 DEF Prices!Alive
    <3>4. Prices!NeverSilent'
      BY <2>h, <3>1, <3>3, <1>t DEF Prices!NeverSilent
    <3>5. QED
      BY <3>2, <3>4 DEF PriceInv
  <2>3. QED
    BY <2>1, <2>2
<1>6. ASSUME NEW s \in Sockets, Prices!ClosesCleanly(s) PROVE PriceInv'
  <2>h. /\ quit' = "clean" /\ Prices!Gone(s)
        /\ UNCHANGED <<providerCount, unsubscribed, retryCount, providerIndex, timers, activeProvider>>
    BY <1>6 DEF Prices!ClosesCleanly
  <2>p. Prices!Providers' = Prices!Providers /\ Socket' = Socket
    BY <2>h DEF Prices!Providers, Socket
  <2>g. sockets' \in [Sockets -> Socket]' /\ ws' \in [Prices!Providers -> Sockets \cup {NoSocket}]'
    BY <2>h, <1>g
  <2>1. Prices!TypeOK'
    BY <2>h, <2>p, <2>g, <1>t DEF Prices!TypeOK, Socket
  <2>2. Prices!NeverSilent'
    BY <2>h DEF Prices!NeverSilent
  <2>3. QED
    BY <2>1, <2>2 DEF PriceInv
<1>7. CASE UNCHANGED priceVars
  <2>1. Prices!TypeOK'
    BY <1>7, <1>t DEF priceVars, Prices!TypeOK, Prices!Providers
  <2>2. Prices!NeverSilent'
    BY <1>7, <1>t DEF priceVars, Prices!NeverSilent, Prices!Alive
  <2>3. QED
    BY <2>1, <2>2 DEF PriceInv
<1>8. QED
  BY <1>1, <1>2, <1>3, <1>4, <1>5, <1>6, <1>7 DEF Prices!Next

-----------------------------------------------------------------------------
\* The scheduler (Scheduler): a run takes up a schedule's object once, so that no
\* more than one object per run and that of the store are in use, and what a run
\* still holds may fail once more.
Holders(o) == {r \in Runs : o \in run[r].todo}

CreatedIsStored ==
  \A id \in Ids : IF Schedules!Created(id) THEN store[id] \in {id} \X ObjectNames /\ heap[store[id]] # None
                                           ELSE store[id] = None

HeldIsListedOnce ==
  \A r \in Runs : \A o, p \in run[r].todo :
    heap[o] # None /\ Schedules!Created(o[1]) /\ (o[1] = p[1] => o = p)

FailuresCounted ==
  \A o \in Schedules!Objects : heap[o] # None =>
    /\ heap[o].failureCount + Cardinality(Holders(o)) <= MaxRetries + Cardinality(Runs)
    /\ heap[o].status = "pending" => heap[o].failureCount <= MaxRetries

SchedulesInv == Schedules!TypeOK /\ CreatedIsStored /\ HeldIsListedOnce /\ FailuresCounted

LEMMA ScheduleCardinality == \A S : Schedules!Cardinality(S) = Cardinality(S)
BY DEF Schedules!Cardinality, Cardinality

LEMMA ScheduleTypes ==
  ASSUME SchedulesInv
  PROVE  /\ scheduleTime \in 0..MaxNow /\ scheduleOrder \in Seq(Ids)
         /\ store \in [Ids -> Schedules!Objects \cup {None}]
         /\ heap \in [Schedules!Objects -> Schedules!Schedule \cup {None}]
         /\ run \in [Runs -> [at: 0..MaxNow, todo: SUBSET Schedules!Objects]]
         /\ \A r \in Runs : run[r].at \in 0..MaxNow /\ run[r].todo \subseteq Schedules!Objects
         /\ Schedules!Objects = Ids \X ObjectNames
<1>1. /\ scheduleTime \in 0..MaxNow /\ scheduleOrder \in Seq(Ids)
      /\ store \in [Ids -> Schedules!Objects \cup {None}]
      /\ heap \in [Schedules!Objects -> Schedules!Schedule \cup {None}]
      /\ run \in [Runs -> [at: 0..MaxNow, todo: SUBSET Schedules!Objects]]
  BY DEF SchedulesInv, Schedules!TypeOK
<1>2. Schedules!Objects = Ids \X ObjectNames
  BY DEF Schedules!Objects
<1>3. QED
  BY <1>1, <1>2

LEMMA FailureTypes ==
  \A s \in Schedules!Schedule :
    /\ s.failureCount \in Nat /\ s.failureCount <= MaxRetries + Cardinality(Runs)
    /\ s.executeAt \in Nat /\ s.status \in Schedules!Statuses
<1>1. Cardinality(Runs) \in Nat
  BY ScheduleAssumption, FS_CardinalityType
<1>2. QED
  BY <1>1, ScheduleAssumption, ScheduleCardinality DEF Schedules!Schedule

LEMMA HoldersAreFew ==
  ASSUME NEW H \in SUBSET Runs
  PROVE  IsFiniteSet(H) /\ Cardinality(H) \in Nat /\ Cardinality(H) <= Cardinality(Runs)
BY ScheduleAssumption, FS_Subset, FS_CardinalityType

LEMMA SchedulesInit == Schedules!Init => SchedulesInv
<1> SUFFICES ASSUME Schedules!Init PROVE SchedulesInv
  OBVIOUS
<1>1. /\ scheduleTime = 0 /\ scheduleOrder = <<>> /\ store = [id \in Ids |-> None]
      /\ heap = [o \in Schedules!Objects |-> None] /\ run = [r \in Runs |-> [at |-> 0, todo |-> {}]]
  BY DEF Schedules!Init
<1>2. Schedules!TypeOK
  BY <1>1, ScheduleAssumption DEF Schedules!TypeOK
<1>3. CreatedIsStored
  <2>1. DOMAIN scheduleOrder = {}
    BY <1>1
  <2>2. \A id : ~Schedules!Created(id)
    BY <2>1 DEF Schedules!Created
  <2>3. QED
    BY <1>1, <2>2 DEF CreatedIsStored
<1>4. HeldIsListedOnce /\ FailuresCounted
  BY <1>1 DEF HeldIsListedOnce, FailuresCounted
<1>5. QED
  BY <1>2, <1>3, <1>4 DEF SchedulesInv

\* There is an object to spare: one that neither the store nor a run refers to.
LEMMA FreshIsFree ==
  ASSUME SchedulesInv, NEW id \in Ids
  PROVE  /\ Schedules!Fresh(id) \in {id} \X ObjectNames
         /\ Schedules!Fresh(id) \notin Schedules!Referenced(store, run)
<1> DEFINE Mine == {id} \X ObjectNames
           Held == {r \in Runs : \E o \in run[r].todo : o[1] = id}
           taken == [r \in Held |-> CHOOSE o \in run[r].todo : o[1] = id]
           Taken == {taken[r] : r \in Held}
<1>1. IsFiniteSet(Held) /\ Cardinality(Held) \in Nat /\ Cardinality(Held) <= Cardinality(Runs)
  BY HoldersAreFew
<1>2. IsFiniteSet(Taken) /\ Cardinality(Taken) <= Cardinality(Held)
  <2>1. taken \in Surjection(Held, Taken)
    BY DEF Surjection
  <2> HIDE DEF Held, taken, Taken
  <2>2. QED
    BY <2>1, <1>1, FS_Surjection
<1>3. IsFiniteSet(Mine) /\ Cardinality(Mine) = Cardinality(ObjectNames)
  <2> DEFINE pair == [x \in ObjectNames |-> <<id, x>>]
  <2>1. pair \in Bijection(ObjectNames, Mine)
    BY DEF Bijection, Injection, Surjection, IsInjective
  <2> HIDE DEF pair, Mine
  <2>2. QED
    BY <2>1, ScheduleAssumption, FS_Bijection DEF ExistsBijection
<1>4. \A o \in Mine : o \in Schedules!Referenced(store, run) => o \in Taken \cup {store[id]}
  <2> SUFFICES ASSUME NEW o \in Mine, o \in Schedules!Referenced(store, run), o # store[id]
               PROVE  o \in Taken
    OBVIOUS
  <2>1. o[1] = id
    OBVIOUS
  <2>2. \A i \in Ids : o = store[i] => i = id
    <3> SUFFICES ASSUME NEW i \in Ids, o = store[i] PROVE i = id
      OBVIOUS
    <3>1. CASE Schedules!Created(i)
      BY <2>1, <3>1 DEF SchedulesInv, CreatedIsStored
    <3>2. CASE ~Schedules!Created(i)
      <4>1. o = None /\ store[id] \in ({id} \X ObjectNames) \cup {None}
        BY <3>2 DEF SchedulesInv, CreatedIsStored
      <4>2. o \in Schedules!Objects
        BY ScheduleTypes
      <4>3. QED
        BY <4>1, <4>2, ScheduleAssumption
    <3>3. QED
      BY <3>1, <3>2
  <2>3. PICK r \in Runs : o \in run[r].todo
    BY <2>2 DEF Schedules!Referenced
  <2>4. r \in Held /\ taken[r] \in run[r].todo /\ taken[r][1] = id
    BY <2>1, <2>3
  <2>5. taken[r] = o
    BY <2>1, <2>3, <2>4 DEF SchedulesInv, HeldIsListedOnce
  <2>6. QED
    BY <2>4, <2>5
<1> HIDE DEF Mine, Held, taken, Taken
<1>5. /\ IsFiniteSet(Taken \cup {store[id]})
      /\ Cardinality(Taken \cup {store[id]}) <= Cardinality(Taken) + 1
      /\ Cardinality(Taken) \in Nat /\ Cardinality(Taken \cup {store[id]}) \in Nat
  <2>1. Cardinality(Taken) \in Nat
    BY <1>2, FS_CardinalityType
  <2>2. /\ IsFiniteSet(Taken \cup {store[id]})
        /\ Cardinality(Taken \cup {store[id]})
             = IF store[id] \in Taken THEN Cardinality(Taken) ELSE Cardinality(Taken) + 1
    BY <1>2, FS_AddElement
  <2>3. QED
    BY <2>1, <2>2
<1>6. ~(Mine \subseteq Taken \cup {store[id]})
  <2> SUFFICES ASSUME Mine \subseteq Taken \cup {store[id]} PROVE FALSE
    OBVIOUS
  <2>1. Cardinality(Mine) <= Cardinality(Taken \cup {store[id]})
    BY <1>5, FS_Subset
  <2>2. Cardinality(ObjectNames) \in Nat /\ Cardinality(Runs) \in Nat
    BY ScheduleAssumption, FS_CardinalityType
  <2>3. Cardinality(ObjectNames) >= Cardinality(Runs) + 2
    BY ScheduleAssumption
  <2>4. QED
    BY <2>1, <2>2, <2>3, <1>1, <1>2, <1>3, <1>5
<1>7. \E o \in Mine : o \notin Schedules!Referenced(store, run)
  BY <1>4, <1>6
<1>8. QED
  BY <1>7 DEF Schedules!Fresh, Mine

\* A step in which runs hold no more than before, and schedule id may have got a new
\* object, which is the changed contents of the object o that was in use.
LEMMA SaveKeeps ==
  ASSUME SchedulesInv, NEW id \in Ids, Schedules!Created(id), NEW o \in {id} \X ObjectNames, heap[o] # None,
         NEW s \in Schedules!Schedule, s.status = "pending" => s.failureCount <= MaxRetries,
         NEW rn \in [Runs -> [at: 0..MaxNow, todo: SUBSET Schedules!Objects]], run' = rn,
         \A r \in Runs : rn[r].todo \subseteq run[r].todo,
         s.failureCount + Cardinality({r \in Runs : o \in rn[r].todo}) <= MaxRetries + Cardinality(Runs),
         NEW st, st = [store EXCEPT ![id] = Schedules!Fresh(id)], store' = st,
         heap' = Schedules!Collected(Schedules!Saved(o, s), st, rn),
         UNCHANGED <<scheduleTime, scheduleOrder>>
  PROVE  SchedulesInv'
<1> DEFINE f == Schedules!Fresh(id)
<1>t. /\ scheduleTime \in 0..MaxNow /\ scheduleOrder \in Seq(Ids)
      /\ store \in [Ids -> Schedules!Objects \cup {None}]
      /\ heap \in [Schedules!Objects -> Schedules!Schedule \cup {None}]
      /\ Schedules!Objects = Ids \X ObjectNames
  BY ScheduleTypes
<1>0. f \in {id} \X ObjectNames /\ f \notin Schedules!Referenced(store, run)
  BY FreshIsFree
<1> HIDE DEF f
<1>1. st = [store EXCEPT ![id] = f] /\ st \in [Ids -> Schedules!Objects \cup {None}]
  BY <1>0, <1>t DEF f
<1>2. o \in Schedules!Objects /\ f \in Schedules!Objects /\ o[1] = id /\ f[1] = id
  BY <1>0, <1>t
<1>3. \A p \in Schedules!Objects :
        heap'[p] = IF p \in Schedules!Referenced(st, rn)
                   THEN IF p \in {o, f} THEN s ELSE heap[p] ELSE None
  <2>1. Schedules!Saved(o, s) = [heap EXCEPT ![o] = s, ![f] = s]
    BY <1>2 DEF Schedules!Saved, Schedules!IdOf, f
  <2>2. QED
    BY <2>1, <1>2, <1>t DEF Schedules!Collected
<1>4. heap' \in [Schedules!Objects -> Schedules!Schedule \cup {None}]
  <2>1. heap' = [p \in Schedules!Objects |-> heap'[p]]
    BY DEF Schedules!Collected
  <2>2. QED
    BY <2>1, <1>3, <1>t
<1>5. Schedules!TypeOK'
  BY <1>1, <1>4, <1>t DEF Schedules!TypeOK
<1>6. \A i : Schedules!Created(i)' <=> Schedules!Created(i)
  BY DEF Schedules!Created
<1>7. CreatedIsStored'
  <2> SUFFICES ASSUME NEW i \in Ids
               PROVE  IF Schedules!Created(i) THEN st[i] \in {i} \X ObjectNames /\ heap'[st[i]] # None
                                              ELSE st[i] = None
    BY <1>6 DEF CreatedIsStored
  <2>1. IF Schedules!Created(i) THEN store[i] \in {i} \X ObjectNames /\ heap[store[i]] # None
                                ELSE store[i] = None
    BY DEF SchedulesInv, CreatedIsStored
  <2>2. st[i] \in Schedules!Referenced(st, rn)
    BY DEF Schedules!Referenced
  <2>3. CASE i = id
    <3>1. st[i] = f /\ Schedules!Created(i) /\ f \in {i} \X ObjectNames
      BY <1>0, <1>1, <1>t, <2>3
    <3>2. heap'[f] = s
      BY <1>2, <1>3, <2>2, <3>1
    <3>3. s # None
      BY ScheduleAssumption
    <3>4. QED
      BY <3>1, <3>2, <3>3
  <2>4. CASE i # id
    <3>1. st[i] = store[i]
      BY <1>1, <1>t, <2>4
    <3>2. CASE Schedules!Created(i)
      <4>1. store[i] \in {i} \X ObjectNames /\ heap[store[i]] # None
        BY <2>1, <3>2
      <4>2. store[i] \in Schedules!Objects /\ store[i] \in Schedules!Referenced(st, rn) /\ store[i][1] = i
        BY <1>t, <2>2, <3>1, <4>1
      <4>3. heap'[store[i]] = heap[store[i]]
        BY <1>2, <1>3, <2>4, <4>2
      <4>4. QED
        BY <3>1, <3>2, <4>1, <4>3
    <3>3. CASE ~Schedules!Created(i)
      BY <2>1, <3>1, <3>3
    <3>4. QED
      BY <3>2, <3>3
  <2>5. QED
    BY <2>3, <2>4
<1>8. HeldIsListedOnce'
  <2> SUFFICES ASSUME NEW r \in Runs, NEW p \in rn[r].todo, NEW q \in rn[r].todo
               PROVE  heap'[p] # None /\ Schedules!Created(p[1]) /\ (p[1] = q[1] => p = q)
    BY <1>6 DEF HeldIsListedOnce
  <2>1. p \in run[r].todo /\ q \in run[r].todo
    OBVIOUS
  <2>2. heap[p] # None /\ Schedules!Created(p[1]) /\ (p[1] = q[1] => p = q)
    BY <2>1 DEF SchedulesInv, HeldIsListedOnce
  <2>3. p \in Schedules!Referenced(st, rn) /\ p \in Schedules!Objects
    BY <2>1, ScheduleTypes DEF Schedules!Referenced
  <2>4. QED
    BY <1>3, <2>2, <2>3, ScheduleAssumption
<1>9. FailuresCounted'
  <2> SUFFICES ASSUME NEW p \in Schedules!Objects, heap'[p] # None
               PROVE  /\ heap'[p].failureCount + Cardinality({r \in Runs : p \in rn[r].todo})
                           <= MaxRetries + Cardinality(Runs)
                      /\ heap'[p].status = "pending" => heap'[p].failureCount <= MaxRetries
    BY DEF FailuresCounted, Holders
  <2> DEFINE H == {r \in Runs : p \in rn[r].todo}
             G == Holders(p)
  <2>0. H \subseteq G /\ G \subseteq Runs
    BY DEF Holders
  <2>1. Cardinality(H) \in Nat /\ Cardinality(G) \in Nat /\ Cardinality(H) <= Cardinality(G)
        /\ Cardinality(Runs) \in Nat
    BY <2>0, HoldersAreFew, FS_Subset, ScheduleAssumption, FS_CardinalityType
  <2>2. CASE p = o
    BY <1>3, <2>2
  <2>3. CASE p # o /\ p = f
    <3>1. H = {}
      BY <1>0, <2>0, <2>3 DEF Schedules!Referenced, Holders
    <3>2. Cardinality(H) = 0
      BY <3>1, FS_EmptySet
    <3>3. heap'[p] = s
      BY <1>3, <2>3
    <3>4. s.failureCount \in Nat /\ s.failureCount <= MaxRetries + Cardinality(Runs)
      BY FailureTypes
    <3>5. QED
      BY <3>2, <3>3, <3>4
  <2>4. CASE p # o /\ p # f
    <3>1. heap'[p] = heap[p] /\ heap[p] # None /\ heap[p] \in Schedules!Schedule
      BY <1>3, <1>t, <2>4
    <3>2. /\ heap[p].failureCount + Cardinality(G) <= MaxRetries + Cardinality(Runs)
          /\ heap[p].status = "pending" => heap[p].failureCount <= MaxRetries
      BY <3>1 DEF SchedulesInv, FailuresCounted
    <3>3. heap[p].failureCount \in Nat
      BY <3>1, FailureTypes
    <3> HIDE DEF H, G
    <3>4. heap[p].failureCount + Cardinality(H) <= MaxRetries + Cardinality(Runs)
      BY <3>2, <3>3, <2>1, ScheduleAssumption
    <3>5. QED
      BY <3>1, <3>2, <3>4 DEF H
  <2>5. QED
    BY <2>2, <2>3, <2>4
<1>10. QED
  BY <1>5, <1>7, <1>8, <1>9 DEF SchedulesInv

LEMMA ScheduleKeeps ==
  ASSUME SchedulesInv, NEW id \in Ids, NEW at \in 0..MaxNow, Schedules!ScheduleTransaction(id, at)
  PROVE  SchedulesInv'
<1> DEFINE f == Schedules!Fresh(id)
           s == [executeAt |-> at, status |-> "pending", failureCount |-> 0]
<1>t. /\ scheduleTime \in 0..MaxNow /\ scheduleOrder \in Seq(Ids)
      /\ store \in [Ids -> Schedules!Objects \cup {None}]
      /\ heap \in [Schedules!Objects -> Schedules!Schedule \cup {None}]
      /\ run \in [Runs -> [at: 0..MaxNow, todo: SUBSET Schedules!Objects]]
      /\ Schedules!Objects = Ids \X ObjectNames
  BY ScheduleTypes
<1>0. f \in {id} \X ObjectNames /\ f \notin Schedules!Referenced(store, run)
  BY FreshIsFree
<1>1. /\ ~Schedules!Created(id) /\ scheduleOrder' = Append(scheduleOrder, id)
      /\ store' = [store EXCEPT ![id] = f] /\ heap' = [heap EXCEPT ![f] = s]
      /\ scheduleTime' = scheduleTime /\ run' = run
  BY DEF Schedules!ScheduleTransaction
<1>2. s \in Schedules!Schedule /\ s.failureCount = 0 /\ s # None
  <2>1. Cardinality(Runs) \in Nat
    BY ScheduleAssumption, FS_CardinalityType
  <2>2. s \in Schedules!Schedule
    BY <2>1, ScheduleAssumption, ScheduleCardinality DEF Schedules!Schedule, Schedules!Statuses
  <2>3. QED
    BY <2>2, ScheduleAssumption
<1> HIDE DEF f, s
<1>3. f \in Schedules!Objects /\ f[1] = id
  BY <1>0, <1>t
<1>4. \A p \in Schedules!Objects : heap'[p] = IF p = f THEN s ELSE heap[p]
  BY <1>1, <1>3, <1>t
<1>5. \A i : Schedules!Created(i)' <=> Schedules!Created(i) \/ i = id
  <2> DEFINE q == scheduleOrder
  <2>1. /\ DOMAIN Append(q, id) = 1..(Len(q) + 1) /\ DOMAIN q = 1..Len(q) /\ Len(q) \in Nat
        /\ \A k \in 1..Len(q) : Append(q, id)[k] = q[k]
        /\ Append(q, id)[Len(q) + 1] = id
    BY <1>t
  <2>2. \A k \in 1..(Len(q) + 1) : k \in 1..Len(q) \/ k = Len(q) + 1
    BY <2>1
  <2>3. 1..Len(q) \subseteq 1..(Len(q) + 1) /\ Len(q) + 1 \in 1..(Len(q) + 1)
    BY <2>1
  <2>4. \A i : Schedules!Created(i) <=> \E k \in DOMAIN q : q[k] = i
    BY DEF Schedules!Created
  <2>5. \A i : Schedules!Created(i)' <=> \E k \in DOMAIN Append(q, id) : Append(q, id)[k] = i
    BY <1>1 DEF Schedules!Created
  <2> HIDE DEF q
  <2>6. QED
    BY <2>1, <2>2, <2>3, <2>4, <2>5
<1>6. Schedules!TypeOK'
  <2>1. scheduleOrder' \in Seq(Ids)
    BY <1>1, <1>t
  <2>2. store' \in [Ids -> Schedules!Objects \cup {None}]
    BY <1>1, <1>3, <1>t
  <2>3. heap' \in [Schedules!Objects -> Schedules!Schedule \cup {None}]
    BY <1>1, <1>2, <1>t
  <2>4. QED
    BY <2>1, <2>2, <2>3, <1>1, <1>t DEF Schedules!TypeOK
<1>7. CreatedIsStored'
  <2> SUFFICES ASSUME NEW i \in Ids
               PROVE  IF Schedules!Created(i) \/ i = id
                      THEN store'[i] \in {i} \X ObjectNames /\ heap'[store'[i]] # None
                      ELSE store'[i] = None
    BY <1>5 DEF CreatedIsStored
  <2>1. IF Schedules!Created(i) THEN store[i] \in {i} \X ObjectNames /\ heap[store[i]] # None
                                ELSE store[i] = None
    BY DEF SchedulesInv, CreatedIsStored
  <2>2. CASE i = id
    BY <1>0, <1>1, <1>2, <1>3, <1>4, <1>t, <2>2
  <2>3. CASE i # id
    <3>1. store'[i] = store[i]
      BY <1>1, <1>t, <2>3
    <3>2. CASE Schedules!Created(i)
      <4>1. store[i] \in {i} \X ObjectNames /\ heap[store[i]] # None
        BY <2>1, <3>2
      <4>2. store[i] \in Schedules!Objects /\ store[i][1] = i
        BY <1>t, <4>1
      <4>3. heap'[store[i]] = heap[store[i]]
        BY <1>3, <1>4, <2>3, <4>2
      <4>4. QED
        BY <3>1, <3>2, <4>1, <4>3
    <3>3. CASE ~Schedules!Created(i)
      BY <2>1, <2>3, <3>1, <3>3
    <3>4. QED
      BY <3>2, <3>3
  <2>4. QED
    BY <2>2, <2>3
<1>8. HeldIsListedOnce'
  <2> SUFFICES ASSUME NEW r \in Runs, NEW p \in run[r].todo, NEW q \in run[r].todo
               PROVE  heap'[p] # None /\ Schedules!Created(p[1]) /\ (p[1] = q[1] => p = q)
    BY <1>1, <1>5 DEF HeldIsListedOnce
  <2>1. heap[p] # None /\ Schedules!Created(p[1]) /\ (p[1] = q[1] => p = q)
    BY DEF SchedulesInv, HeldIsListedOnce
  <2>2. p \in Schedules!Objects
    BY ScheduleTypes
  <2>3. QED
    BY <1>2, <1>4, <2>1, <2>2
<1>9. FailuresCounted'
  <2> SUFFICES ASSUME NEW p \in Schedules!Objects, heap'[p] # None
               PROVE  /\ heap'[p].failureCount + Cardinality(Holders(p)) <= MaxRetries + Cardinality(Runs)
                      /\ heap'[p].status = "pending" => heap'[p].failureCount <= MaxRetries
    BY <1>1 DEF FailuresCounted, Holders
  <2>1. CASE p = f
    <3>1. Holders(p) \in SUBSET Runs
      BY DEF Holders
    <3>2. Cardinality(Holders(p)) \in Nat /\ Cardinality(Holders(p)) <= Cardinality(Runs)
          /\ Cardinality(Runs) \in Nat
      BY <3>1, HoldersAreFew, ScheduleAssumption, FS_CardinalityType
    <3>3. QED
      BY <1>2, <1>4, <2>1, <3>2, ScheduleAssumption
  <2>2. CASE p # f
    BY <1>4, <2>2 DEF SchedulesInv, FailuresCounted
  <2>3. QED
    BY <2>1, <2>2
<1>10. QED
  BY <1>6, <1>7, <1>8, <1>9 DEF SchedulesInv

LEMMA CancelKeepsSchedules ==
  ASSUME SchedulesInv, NEW id \in Ids, Schedules!Cancel(id)
  PROVE  SchedulesInv'
<1> DEFINE o == store[id]
           s == [heap[o] EXCEPT !.status = "cancelled"]
<1>1. /\ Schedules!Created(id) /\ store' = [store EXCEPT ![id] = Schedules!Fresh(id)]
      /\ heap' = Schedules!Collected(Schedules!Saved(o, s), store', run)
      /\ scheduleTime' = scheduleTime /\ scheduleOrder' = scheduleOrder /\ run' = run
  BY DEF Schedules!Cancel, Schedules!Stored
<1>2. o \in {id} \X ObjectNames /\ heap[o] # None
  BY <1>1 DEF SchedulesInv, CreatedIsStored
<1>3. o \in Schedules!Objects /\ heap[o] \in Schedules!Schedule
  BY <1>2, ScheduleTypes
<1> DEFINE h == heap[o]
<1>4. h.failureCount + Cardinality(Holders(o)) <= MaxRetries + Cardinality(Runs)
  BY <1>2, <1>3 DEF SchedulesInv, FailuresCounted
<1>5. s \in Schedules!Schedule /\ s.status # "pending" /\ s.failureCount = h.failureCount
  <2> HIDE DEF h, o
  <2>1. QED
    BY <1>3 DEF h, Schedules!Schedule, Schedules!Statuses
<1>6. run \in [Runs -> [at: 0..MaxNow, todo: SUBSET Schedules!Objects]]
  BY ScheduleTypes
<1>7. Holders(o) = {r \in Runs : o \in run[r].todo}
  BY DEF Holders
<1> HIDE DEF o, s, h
<1>8. s.failureCount + Cardinality({r \in Runs : o \in run[r].todo}) <= MaxRetries + Cardinality(Runs)
  BY <1>4, <1>5, <1>7
<1>9. QED
  BY <1>1, <1>2, <1>5, <1>6, <1>8, SaveKeeps

\* Of what a run still has to do, one comes first in the store's order.
LEMMA ExecutingIsHeld ==
  ASSUME SchedulesInv, NEW r \in Runs, run[r].todo # {}
  PROVE  Schedules!Executing(r) \in run[r].todo
<1> DEFINE q == scheduleOrder
           D == 1..Len(q)
           P == {i \in D : \E o \in run[r].todo : q[i] = o[1]}
           C == {1..i : i \in P}
<1>1. Len(q) \in Nat /\ DOMAIN q = D /\ IsFiniteSet(D)
  <2>1. Len(q) \in Nat /\ DOMAIN q = 1..Len(q)
    BY ScheduleTypes
  <2>2. IsFiniteSet(1..Len(q))
    BY <2>1, FS_Interval
  <2>3. QED
    BY <2>1, <2>2
<1>2. \A o \in run[r].todo : \E i \in D : q[i] = o[1]
  BY <1>1 DEF SchedulesInv, HeldIsListedOnce, Schedules!Created
<1>3. P # {} /\ P \subseteq D
  BY <1>2
<1>4. C \in SUBSET (SUBSET D) /\ C # {}
  <2>1. \A i \in D : 1..i \subseteq D
    BY <1>1
  <2>2. QED
    BY <2>1, <1>3
<1>5. PICK i \in P : \A j \in P : i <= j
  <2>1. PICK c \in C : \A d \in C : d \subseteq c => d = c
    <3> HIDE DEF C, D
    <3>1. QED
      BY <1>1, <1>4, SmallestSet
  <2>2. PICK i \in P : c = 1..i
    BY <2>1
  <2>3. ASSUME NEW j \in P PROVE i <= j
    <3>1. i \in 1..Len(q) /\ j \in 1..Len(q) /\ 1..j \in C
      BY <2>2
    <3>2. 1..j \subseteq 1..i => 1..j = 1..i
      BY <2>1, <2>2, <3>1
    <3> HIDE DEF C, P
    <3>3. CASE j < i
      <4>1. 1..j \subseteq 1..i /\ i \in 1..i /\ i \notin 1..j
        BY <3>1, <3>3, <1>1
      <4>2. QED
        BY <3>2, <4>1
    <3>4. QED
      BY <3>1, <3>3, <1>1
  <2>4. QED
    BY <2>3
<1>6. PICK o \in run[r].todo : q[i] = o[1]
  BY <1>5
<1>7. \A p \in run[r].todo : Schedules!NotAfter(o, p)
  <2> SUFFICES ASSUME NEW p \in run[r].todo PROVE Schedules!NotAfter(o, p)
    OBVIOUS
  <2>1. PICK j \in D : q[j] = p[1]
    BY <1>2
  <2>2. j \in P
    BY <2>1
  <2>3. QED
    BY <1>1, <1>3, <1>5, <1>6, <2>1, <2>2 DEF Schedules!NotAfter, Schedules!IdOf
<1>8. QED
  BY <1>6, <1>7 DEF Schedules!Executing

LEMMA SettleKeeps ==
  ASSUME SchedulesInv, NEW r \in Runs, run[r].todo # {},
         NEW s \in Schedules!Schedule, s.status = "pending" => s.failureCount <= MaxRetries,
         s.failureCount <= heap[Schedules!Executing(r)].failureCount + 1, Schedules!Settle(r, s)
  PROVE  SchedulesInv'
<1> DEFINE o == Schedules!Executing(r)
           id == o[1]
           rest == Schedules!FromNextDue(run[r].todo \ {o}, run[r].at, Schedules!Saved(o, s))
           rn == [run EXCEPT ![r].todo = rest]
           H == {q \in Runs : o \in rn[q].todo}
           G == Holders(o)
<1>1. /\ store' = [store EXCEPT ![id] = Schedules!Fresh(id)] /\ run' = rn
      /\ heap' = Schedules!Collected(Schedules!Saved(o, s), store', rn)
      /\ scheduleTime' = scheduleTime /\ scheduleOrder' = scheduleOrder
  BY DEF Schedules!Settle, Schedules!IdOf
<1>2. o \in run[r].todo
  BY ExecutingIsHeld
<1>3. rest \subseteq run[r].todo \ {o}
  BY DEF Schedules!FromNextDue
<1> HIDE DEF rest, o
<1>4. /\ run \in [Runs -> [at: 0..MaxNow, todo: SUBSET Schedules!Objects]]
      /\ run[r].todo \subseteq Schedules!Objects /\ Schedules!Objects = Ids \X ObjectNames
      /\ heap \in [Schedules!Objects -> Schedules!Schedule \cup {None}]
  BY ScheduleTypes
<1>5. rn \in [Runs -> [at: 0..MaxNow, todo: SUBSET Schedules!Objects]]
  BY <1>3, <1>4
<1>6. /\ rn[r].todo = rest
      /\ \A q \in Runs : q # r => rn[q].todo = run[q].todo
  BY <1>3, <1>4
<1> HIDE DEF rn
<1>7. \A q \in Runs : rn[q].todo \subseteq run[q].todo
  BY <1>3, <1>6
<1>8. o \in Schedules!Objects /\ id \in Ids /\ o \in {id} \X ObjectNames
  BY <1>2, <1>4
<1>9. heap[o] # None /\ Schedules!Created(id)
  BY <1>2 DEF SchedulesInv, HeldIsListedOnce
<1>10. heap[o].failureCount + Cardinality(G) <= MaxRetries + Cardinality(Runs) /\ heap[o].failureCount \in Nat
  BY <1>4, <1>8, <1>9, FailureTypes DEF SchedulesInv, FailuresCounted
<1>11. H \subseteq G \ {r} /\ r \in G /\ G \subseteq Runs
  BY <1>2, <1>3, <1>6, <1>7 DEF Holders
<1> HIDE DEF H, G
<1>12. /\ Cardinality(G) \in Nat /\ Cardinality(H) \in Nat
       /\ Cardinality(H) <= Cardinality(G) - 1 /\ Cardinality(Runs) \in Nat
  <2>1. IsFiniteSet(G) /\ Cardinality(G) \in Nat
    BY <1>11, HoldersAreFew
  <2>2. IsFiniteSet(G \ {r}) /\ Cardinality(G \ {r}) = Cardinality(G) - 1
    BY <1>11, <2>1, FS_RemoveElement
  <2>3. IsFiniteSet(H) /\ Cardinality(H) <= Cardinality(G \ {r})
    BY <1>11, <2>2, FS_Subset
  <2>4. Cardinality(H) \in Nat /\ Cardinality(Runs) \in Nat
    BY <2>3, FS_CardinalityType, ScheduleAssumption
  <2>5. QED
    BY <2>1, <2>2, <2>3, <2>4
<1>13. s.failureCount \in Nat /\ s.failureCount <= heap[o].failureCount + 1
  BY FailureTypes DEF o
<1>14. s.failureCount + Cardinality(H) <= MaxRetries + Cardinality(Runs)
  BY <1>10, <1>12, <1>13, ScheduleAssumption
<1>15. s.failureCount + Cardinality({q \in Runs : o \in rn[q].todo}) <= MaxRetries + Cardinality(Runs)
  BY <1>14 DEF H
<1> HIDE DEF id
<1>16. QED
  BY <1>1, <1>5, <1>7, <1>8, <1>9, <1>15, SaveKeeps

LEMMA ExecutingIsStored ==
  ASSUME SchedulesInv, NEW r \in Runs, run[r].todo # {}
  PROVE  /\ heap[Schedules!Executing(r)] \in Schedules!Schedule
         /\ LET s == heap[Schedules!Executing(r)]
            IN  /\ s.failureCount < MaxRetries + Cardinality(Runs)
                /\ s.status = "pending" => s.failureCount <= MaxRetries
<1> DEFINE o == Schedules!Executing(r)
           s == heap[o]
<1>1. o \in run[r].todo
  BY ExecutingIsHeld
<1> HIDE DEF o
<1>2. s # None /\ o \in Schedules!Objects
  BY <1>1, ScheduleTypes DEF SchedulesInv, HeldIsListedOnce
<1>3. s \in Schedules!Schedule
  BY <1>2, ScheduleTypes
<1>4. /\ s.failureCount + Cardinality(Holders(o)) <= MaxRetries + Cardinality(Runs)
      /\ s.status = "pending" => s.failureCount <= MaxRetries
  BY <1>2 DEF SchedulesInv, FailuresCounted
<1>5. Cardinality(Holders(o)) \in Nat \ {0}
  <2>1. r \in Holders(o) /\ Holders(o) \in SUBSET Runs
    BY <1>1 DEF Holders
  <2>2. IsFiniteSet(Holders(o)) /\ Cardinality(Holders(o)) \in Nat
    BY <2>1, HoldersAreFew
  <2>3. QED
    BY <2>1, <2>2, FS_EmptySet
<1>6. s.failureCount \in Nat /\ Cardinality(Runs) \in Nat
  BY <1>3, FailureTypes, ScheduleAssumption, FS_CardinalityType
<1> HIDE DEF s
<1>7. s.failureCount < MaxRetries + Cardinality(Runs)
  BY <1>4, <1>5, <1>6, ScheduleAssumption
<1>8. QED
  BY <1>3, <1>4, <1>7 DEF o, s

LEMMA SucceedKeeps ==
  ASSUME SchedulesInv, NEW r \in Runs, Schedules!Succeed(r)
  PROVE  SchedulesInv'
<1> DEFINE o == Schedules!Executing(r)
           s == heap[o]
           new == Schedules!Succeeded(o[1], s, run[r].at)
<1>1. run[r].todo # {} /\ Schedules!Settle(r, new)
  BY DEF Schedules!Succeed, Schedules!IdOf
<1>2. s \in Schedules!Schedule /\ (s.status = "pending" => s.failureCount <= MaxRetries)
  BY <1>1, ExecutingIsStored
<1>3. run[r].at \in 0..MaxNow /\ Cardinality(Runs) \in Nat
  BY ScheduleTypes, ScheduleAssumption, FS_CardinalityType
<1>4. s.failureCount \in Nat
  BY <1>2, FailureTypes
<1> HIDE DEF o, s
<1>a. run[r].at + Period \in 0..(MaxNow + Period) /\ 0 \in 0..(MaxRetries + Cardinality(Runs))
  BY <1>3, ScheduleAssumption
<1>5. /\ new \in Schedules!Schedule /\ new.failureCount <= s.failureCount + 1
      /\ new.status = "pending" => new.failureCount <= MaxRetries
  <2>1. CASE o[1] \in Recurring
    <3>1. new = [s EXCEPT !.executeAt = run[r].at + Period, !.failureCount = 0]
      BY <2>1 DEF Schedules!Succeeded
    <3> HIDE DEF new
    <3>2. new \in Schedules!Schedule /\ new.failureCount = 0
      BY <1>2, <1>a, <3>1, ScheduleCardinality DEF Schedules!Schedule
    <3>3. QED
      BY <1>4, <3>2, ScheduleAssumption
  <2>2. CASE o[1] \notin Recurring
    <3>1. new = [s EXCEPT !.status = "executed"]
      BY <2>2 DEF Schedules!Succeeded
    <3> HIDE DEF new
    <3>2. new \in Schedules!Schedule /\ new.failureCount = s.failureCount /\ new.status = "executed"
      BY <1>2, <3>1, ScheduleCardinality DEF Schedules!Schedule, Schedules!Statuses
    <3>3. QED
      BY <1>4, <3>2
  <2>3. QED
    BY <2>1, <2>2
<1> HIDE DEF new
<1>6. QED
  BY <1>1, <1>5, SettleKeeps DEF o, s

LEMMA FailKeeps ==
  ASSUME SchedulesInv, NEW r \in Runs, Schedules!Fail(r)
  PROVE  SchedulesInv'
<1> DEFINE o == Schedules!Executing(r)
           s == heap[o]
           new == Schedules!Failed(s)
<1>1. run[r].todo # {} /\ Schedules!Settle(r, new)
  BY DEF Schedules!Fail
<1>2. /\ s \in Schedules!Schedule /\ (s.status = "pending" => s.failureCount <= MaxRetries)
      /\ s.failureCount < MaxRetries + Cardinality(Runs)
  BY <1>1, ExecutingIsStored
<1>3. Cardinality(Runs) \in Nat
  BY ScheduleAssumption, FS_CardinalityType
<1>4. s.failureCount \in Nat
  BY <1>2, FailureTypes
<1> HIDE DEF o, s
<1> DEFINE st == IF s.failureCount + 1 >= MaxRetries THEN "failed" ELSE s.status
<1>5. new = [s EXCEPT !.failureCount = s.failureCount + 1, !.status = st]
  BY <1>2 DEF Schedules!Failed, Schedules!Schedule
<1>6. st \in Schedules!Statuses /\ (st = "pending" => s.failureCount + 1 <= MaxRetries)
  BY <1>2, <1>4, ScheduleAssumption DEF Schedules!Schedule, Schedules!Statuses
<1> HIDE DEF st, new
<1>7. s.failureCount + 1 \in 0..(MaxRetries + Cardinality(Runs))
  BY <1>2, <1>3, <1>4, ScheduleAssumption
<1>8. /\ new \in Schedules!Schedule /\ new.failureCount = s.failureCount + 1
      /\ new.status = st
  BY <1>2, <1>5, <1>6, <1>7, ScheduleCardinality DEF Schedules!Schedule
<1>9. new.failureCount <= s.failureCount + 1
  BY <1>4, <1>8
<1>10. QED
  BY <1>1, <1>6, <1>8, <1>9, SettleKeeps DEF o, s, new

LEMMA BeginKeeps ==
  ASSUME SchedulesInv, NEW r \in Runs, Schedules!Begin(r)
  PROVE  SchedulesInv'
<1> DEFINE todo == Schedules!FromNextDue(Schedules!ListPending, scheduleTime, heap)
           rn == [run EXCEPT ![r] = [at |-> scheduleTime, todo |-> todo]]
<1>1. /\ run[r].todo = {} /\ run' = rn /\ store' = store /\ heap' = heap
      /\ scheduleTime' = scheduleTime /\ scheduleOrder' = scheduleOrder
  BY DEF Schedules!Begin
<1>2. \A o \in todo : \E id \in Ids : o = store[id] /\ Schedules!Created(id) /\ heap[o].status = "pending"
  BY DEF Schedules!FromNextDue, Schedules!ListPending, Schedules!Stored
<1> HIDE DEF todo
<1>3. \A o \in todo : /\ o \in Schedules!Objects /\ heap[o] # None /\ Schedules!Created(o[1])
                      /\ o = store[o[1]] /\ heap[o].status = "pending"
  <2> SUFFICES ASSUME NEW o \in todo
               PROVE  /\ o \in Schedules!Objects /\ heap[o] # None /\ Schedules!Created(o[1])
                      /\ o = store[o[1]] /\ heap[o].status = "pending"
    OBVIOUS
  <2>1. PICK id \in Ids : o = store[id] /\ Schedules!Created(id) /\ heap[o].status = "pending"
    BY <1>2
  <2>2. o \in {id} \X ObjectNames /\ heap[o] # None
    BY <2>1 DEF SchedulesInv, CreatedIsStored
  <2>3. o[1] = id /\ o \in Schedules!Objects
    BY <2>2, ScheduleTypes
  <2>4. QED
    BY <2>1, <2>2, <2>3
<1>4. /\ run \in [Runs -> [at: 0..MaxNow, todo: SUBSET Schedules!Objects]] /\ scheduleTime \in 0..MaxNow
      /\ heap \in [Schedules!Objects -> Schedules!Schedule \cup {None}]
  BY ScheduleTypes
<1>5. rn \in [Runs -> [at: 0..MaxNow, todo: SUBSET Schedules!Objects]]
  BY <1>3, <1>4
<1>6. rn[r].todo = todo /\ \A q \in Runs : q # r => rn[q].todo = run[q].todo
  BY <1>4
<1> HIDE DEF rn
<1>7. Schedules!TypeOK'
  BY <1>1, <1>5 DEF SchedulesInv, Schedules!TypeOK
<1>8. \A i : Schedules!Created(i)' <=> Schedules!Created(i)
  BY <1>1 DEF Schedules!Created
<1>9. CreatedIsStored'
  BY <1>1, <1>8 DEF SchedulesInv, CreatedIsStored
<1>10. HeldIsListedOnce'
  <2> SUFFICES ASSUME NEW q \in Runs, NEW o \in rn[q].todo, NEW p \in rn[q].todo
               PROVE  heap[o] # None /\ Schedules!Created(o[1]) /\ (o[1] = p[1] => o = p)
    BY <1>1, <1>8 DEF HeldIsListedOnce
  <2>1. CASE q = r
    <3>1. o \in todo /\ p \in todo
      BY <1>6, <2>1
    <3>2. o = store[o[1]] /\ p = store[p[1]] /\ heap[o] # None /\ Schedules!Created(o[1])
      BY <1>3, <3>1
    <3>3. QED
      BY <3>2
  <2>2. CASE q # r
    BY <1>6, <2>2 DEF SchedulesInv, HeldIsListedOnce
  <2>3. QED
    BY <2>1, <2>2
<1>11. FailuresCounted'
  <2> SUFFICES ASSUME NEW o \in Schedules!Objects, heap[o] # None
               PROVE  /\ heap[o].failureCount + Cardinality({q \in Runs : o \in rn[q].todo})
                           <= MaxRetries + Cardinality(Runs)
                      /\ heap[o].status = "pending" => heap[o].failureCount <= MaxRetries
    BY <1>1 DEF FailuresCounted, Holders
  <2> DEFINE H == {q \in Runs : o \in rn[q].todo}
  <2>1. /\ heap[o].failureCount + Cardinality(Holders(o)) <= MaxRetries + Cardinality(Runs)
        /\ heap[o].status = "pending" => heap[o].failureCount <= MaxRetries
    BY DEF SchedulesInv, FailuresCounted
  <2>2. heap[o].failureCount \in Nat /\ Cardinality(Runs) \in Nat
    BY <1>4, FailureTypes, ScheduleAssumption, FS_CardinalityType
  <2>3. CASE o \in todo
    <3>1. heap[o].failureCount <= MaxRetries
      BY <1>3, <2>1, <2>3
    <3>2. Cardinality(H) \in Nat /\ Cardinality(H) <= Cardinality(Runs)
      BY HoldersAreFew
    <3> HIDE DEF H
    <3>3. heap[o].failureCount + Cardinality(H) <= MaxRetries + Cardinality(Runs)
      BY <2>2, <3>1, <3>2, ScheduleAssumption
    <3>4. QED
      BY <2>1, <3>3 DEF H
  <2>4. CASE o \notin todo
    <3>1. H = Holders(o)
      BY <1>1, <1>6, <2>4 DEF Holders
    <3>2. QED
      BY <2>1, <3>1
  <2>5. QED
    BY <2>3, <2>4
<1>12. QED
  BY <1>7, <1>9, <1>10, <1>11 DEF SchedulesInv

LEMMA TickKeeps ==
  ASSUME SchedulesInv, UNCHANGED <<scheduleOrder, store, heap, run>>, scheduleTime' \in 0..MaxNow
  PROVE  SchedulesInv'
<1>1. Schedules!TypeOK'
  BY DEF SchedulesInv, Schedules!TypeOK
<1>2. \A i : Schedules!Created(i)' <=> Schedules!Created(i)
  BY DEF Schedules!Created
<1>3. CreatedIsStored' /\ HeldIsListedOnce'
  BY <1>2 DEF SchedulesInv, CreatedIsStored, HeldIsListedOnce
<1>4. FailuresCounted'
  BY DEF SchedulesInv, FailuresCounted, Holders
<1>5. QED
  BY <1>1, <1>3, <1>4 DEF SchedulesInv

LEMMA SchedulesStepInv == SchedulesInv /\ [Schedules!Next]_scheduleVars => SchedulesInv'
<1> SUFFICES ASSUME SchedulesInv, [Schedules!Next]_scheduleVars PROVE SchedulesInv'
  OBVIOUS
<1>1. ASSUME NEW id \in Ids, NEW at \in 0..MaxNow, Schedules!ScheduleTransaction(id, at)
      PROVE  SchedulesInv'
  BY <1>1, ScheduleKeeps
<1>2. ASSUME NEW id \in Ids, Schedules!Cancel(id) PROVE SchedulesInv'
  BY <1>2, CancelKeepsSchedules
<1>3. ASSUME NEW r \in Runs, Schedules!Begin(r) PROVE SchedulesInv'
  BY <1>3, BeginKeeps
<1>4. ASSUME NEW r \in Runs, Schedules!Succeed(r) PROVE SchedulesInv'
  BY <1>4, SucceedKeeps
<1>5. ASSUME NEW r \in Runs, Schedules!Fail(r) PROVE SchedulesInv'
  BY <1>5, FailKeeps
<1>6. ASSUME Schedules!Tick PROVE SchedulesInv'
  <2>1. scheduleTime' \in 0..MaxNow
    BY <1>6, ScheduleTypes, ScheduleAssumption DEF Schedules!Tick
  <2>2. QED
    BY <1>6, <2>1, TickKeeps DEF Schedules!Tick
<1>7. CASE UNCHANGED scheduleVars
  <2>1. scheduleTime' \in 0..MaxNow
    BY <1>7, ScheduleTypes DEF scheduleVars
  <2>2. QED
    BY <1>7, <2>1, TickKeeps DEF scheduleVars
<1>8. QED
  BY <1>1, <1>2, <1>3, <1>4, <1>5, <1>6, <1>7 DEF Schedules!Next

\* The store's object of one schedule outlives the steps of others.
LEMMA StoredStays ==
  ASSUME SchedulesInv, NEW id \in Ids, Schedules!Created(id),
         NEW i \in Ids, i # id, NEW o \in {i} \X ObjectNames, NEW s,
         NEW st, st = [store EXCEPT ![i] = Schedules!Fresh(i)], store' = st,
         NEW rn, heap' = Schedules!Collected(Schedules!Saved(o, s), st, rn)
  PROVE  heap'[store'[id]] = heap[store[id]]
<1>1. store \in [Ids -> Schedules!Objects \cup {None}] /\ heap \in [Schedules!Objects -> Schedules!Schedule \cup {None}]
      /\ Schedules!Objects = Ids \X ObjectNames
  BY ScheduleTypes
<1>2. st[id] = store[id]
  BY <1>1
<1>3. store[id] \in {id} \X ObjectNames
  BY DEF SchedulesInv, CreatedIsStored
<1> DEFINE f == Schedules!Fresh(i)
<1>4. f \in {i} \X ObjectNames
  BY FreshIsFree
<1>5. Schedules!Saved(o, s) = [heap EXCEPT ![o] = s, ![f] = s]
  BY DEF Schedules!Saved, Schedules!IdOf
<1> HIDE DEF f
<1>6. store[id] \in Schedules!Objects /\ store[id] # o /\ store[id] # f
  BY <1>1, <1>3, <1>4
<1>7. Schedules!Saved(o, s)[store[id]] = heap[store[id]]
  BY <1>1, <1>5, <1>6
<1>8. store[id] \in Schedules!Referenced(st, rn)
  BY <1>2 DEF Schedules!Referenced
<1>9. heap'[store[id]] = Schedules!Saved(o, s)[store[id]]
  BY <1>6, <1>8 DEF Schedules!Collected
<1>10. QED
  BY <1>2, <1>7, <1>9

\* What is done and held by no run is left alone by every step.
LEMMA StepDoneIsDone ==
  ASSUME SchedulesInv, [Schedules!Next]_scheduleVars, NEW id \in Ids,
         Schedules!Created(id), Schedules!Stored(id).status # "pending", ~Schedules!Held(id)
  PROVE  Schedules!Stored(id)' = Schedules!Stored(id) /\ ~Schedules!Held(id)'
<1> DEFINE Left == heap'[store'[id]] = heap[store[id]] /\ ~\E r \in Runs : \E o \in run'[r].todo : o[1] = id
<1>0. ~\E r \in Runs : \E o \in run[r].todo : o[1] = id
  BY DEF Schedules!Held, Schedules!IdOf
<1>p. heap[store[id]].status # "pending"
  BY DEF Schedules!Stored
<1>1. ASSUME NEW i \in Ids, NEW at \in 0..MaxNow, Schedules!ScheduleTransaction(i, at) PROVE Left
  <2> DEFINE f == Schedules!Fresh(i)
  <2>1. PICK s : /\ ~Schedules!Created(i) /\ run' = run
                 /\ store' = [store EXCEPT ![i] = f] /\ heap' = [heap EXCEPT ![f] = s]
    BY <1>1 DEF Schedules!ScheduleTransaction
  <2>2. f \in {i} \X ObjectNames
    BY FreshIsFree
  <2> HIDE DEF f
  <2>3. i # id
    BY <2>1
  <2>4. store[id] \in {id} \X ObjectNames
    BY DEF SchedulesInv, CreatedIsStored
  <2>5. store'[id] = store[id] /\ store[id] # f /\ store[id] \in Schedules!Objects
    BY <2>1, <2>2, <2>3, <2>4, ScheduleTypes
  <2>6. heap'[store[id]] = heap[store[id]]
    BY <2>1, <2>5, ScheduleTypes
  <2>7. QED
    BY <1>0, <2>1, <2>5, <2>6
<1>2. ASSUME NEW i \in Ids, Schedules!Cancel(i) PROVE Left
  <2> DEFINE s == [Schedules!Stored(i) EXCEPT !.status = "cancelled"]
  <2>1. /\ Schedules!Created(i) /\ heap[store[i]].status = "pending" /\ run' = run
        /\ store' = [store EXCEPT ![i] = Schedules!Fresh(i)]
        /\ heap' = Schedules!Collected(Schedules!Saved(store[i], s), store', run)
    BY <1>2 DEF Schedules!Cancel, Schedules!Stored
  <2> HIDE DEF s
  <2>2. i # id /\ store[i] \in {i} \X ObjectNames
    BY <1>p, <2>1 DEF SchedulesInv, CreatedIsStored
  <2>3. heap'[store'[id]] = heap[store[id]]
    BY <2>1, <2>2, StoredStays
  <2>4. QED
    BY <1>0, <2>1, <2>3
<1>3. ASSUME NEW r \in Runs, Schedules!Begin(r) PROVE Left
  <2> DEFINE todo == Schedules!FromNextDue(Schedules!ListPending, scheduleTime, heap)
  <2>1. run' = [run EXCEPT ![r] = [at |-> scheduleTime, todo |-> todo]] /\ store' = store /\ heap' = heap
    BY <1>3 DEF Schedules!Begin
  <2>2. \A o \in todo : \E i \in Ids : o = store[i] /\ Schedules!Created(i) /\ heap[o].status = "pending"
    BY DEF Schedules!FromNextDue, Schedules!ListPending, Schedules!Stored
  <2> HIDE DEF todo
  <2>3. \A o \in todo : o[1] # id
    <3> SUFFICES ASSUME NEW o \in todo, o[1] = id PROVE FALSE
      OBVIOUS
    <3>1. PICK i \in Ids : o = store[i] /\ Schedules!Created(i) /\ heap[o].status = "pending"
      BY <2>2
    <3>2. o \in {i} \X ObjectNames
      BY <3>1 DEF SchedulesInv, CreatedIsStored
    <3>3. i = id
      BY <3>2
    <3>4. QED
      BY <1>p, <3>1, <3>3
  <2>4. run'[r].todo = todo /\ \A q \in Runs : q # r => run'[q].todo = run[q].todo
    BY <2>1, ScheduleTypes
  <2>5. QED
    BY <1>0, <2>1, <2>3, <2>4
<1>4. ASSUME NEW r \in Runs, run[r].todo # {}, NEW s, Schedules!Settle(r, s) PROVE Left
  <2> DEFINE o == Schedules!Executing(r)
             i == o[1]
             rest == Schedules!FromNextDue(run[r].todo \ {o}, run[r].at, Schedules!Saved(o, s))
  <2>1. /\ store' = [store EXCEPT ![i] = Schedules!Fresh(i)] /\ run' = [run EXCEPT ![r].todo = rest]
        /\ heap' = Schedules!Collected(Schedules!Saved(o, s), store', run')
    BY <1>4 DEF Schedules!Settle, Schedules!IdOf
  <2>2. o \in run[r].todo
    BY <1>4, ExecutingIsHeld
  <2>3. rest \subseteq run[r].todo
    BY DEF Schedules!FromNextDue
  <2> HIDE DEF rest, o
  <2>4. o \in Ids \X ObjectNames
    BY <2>2, ScheduleTypes
  <2>5. i # id /\ i \in Ids /\ o \in {i} \X ObjectNames
    BY <1>0, <2>2, <2>4
  <2> HIDE DEF i
  <2>6. heap'[store'[id]] = heap[store[id]]
    BY <2>1, <2>5, StoredStays
  <2>7. run'[r].todo = rest /\ \A q \in Runs : q # r => run'[q].todo = run[q].todo
    BY <2>1, ScheduleTypes
  <2>8. QED
    BY <1>0, <2>3, <2>6, <2>7
<1>5. ASSUME NEW r \in Runs, Schedules!Succeed(r) PROVE Left
  BY <1>4, <1>5 DEF Schedules!Succeed
<1>6. ASSUME NEW r \in Runs, Schedules!Fail(r) PROVE Left
  BY <1>4, <1>6 DEF Schedules!Fail
<1>7. ASSUME Schedules!Tick PROVE Left
  BY <1>0, <1>7 DEF Schedules!Tick
<1>8. ASSUME UNCHANGED scheduleVars PROVE Left
  BY <1>0, <1>8 DEF scheduleVars
<1>9. Left
  BY <1>1, <1>2, <1>3, <1>5, <1>6, <1>7, <1>8 DEF Schedules!Next
<1>10. QED
  BY <1>9 DEF Schedules!Stored, Schedules!Held, Schedules!IdOf

-----------------------------------------------------------------------------
\* The mixing pool (MixingPool): what is handed out is in the pool and no longer
\* pending; a participant counts its transactions, and its value those of them
\* whose amount is a number.
PoolEntry == [state : Mixing!States, expiresAt : 0..(MaxPoolTime + Ttl)]

PoolMember == [pendingCount : Nat, totalValue : Nat, hasFailed : BOOLEAN]

Has(pool, p) == {t \in Transactions : pool[t] # NotPooled /\ Owner[t] = p}

BooksAgree(pool, members, bad) ==
  \A p \in Members :
    IF members[p] = NotPooled THEN Has(pool, p) = {}
    ELSE /\ members[p].pendingCount = Cardinality(Has(pool, p))
         /\ members[p].totalValue = Cardinality(Has(pool, p) \ bad)

MixingInv ==
  /\ transactions \in [Transactions -> PoolEntry \cup {NotPooled}]
  /\ participants \in [Members -> PoolMember \cup {NotPooled}]
  /\ poolTime \in 0..MaxPoolTime /\ refused \subseteq Transactions /\ out \subseteq Transactions
  /\ \A t \in out : transactions[t] # NotPooled /\ transactions[t].state # "pending"
  /\ BooksAgree(transactions, participants, refused)

LEMMA MixingCardinality == \A S : Mixing!Cardinality(S) = Cardinality(S)
BY DEF Mixing!Cardinality, Cardinality

LEMMA HasIsFinite ==
  ASSUME NEW pool, NEW p, NEW S
  PROVE  /\ IsFiniteSet(Has(pool, p)) /\ IsFiniteSet(Has(pool, p) \ S)
         /\ Cardinality(Has(pool, p)) \in 0..Cardinality(Transactions)
         /\ Cardinality(Has(pool, p) \ S) \in 0..Cardinality(Transactions)
<1>1. Has(pool, p) \in SUBSET Transactions /\ Has(pool, p) \ S \in SUBSET Transactions
  BY DEF Has
<1>2. /\ IsFiniteSet(Has(pool, p)) /\ IsFiniteSet(Has(pool, p) \ S)
      /\ Cardinality(Has(pool, p)) <= Cardinality(Transactions)
      /\ Cardinality(Has(pool, p) \ S) <= Cardinality(Transactions)
  BY <1>1, FS_Subset, MixingAssumption
<1>3. QED
  BY <1>2, FS_CardinalityType, MixingAssumption

LEMMA CountWithout ==
  ASSUME NEW S, IsFiniteSet(S), NEW G \in SUBSET S
  PROVE  Cardinality(S \ G) = Cardinality(S) - Cardinality(G)
<1>1. S \cap G = G
  OBVIOUS
<1>2. QED
  BY <1>1, FS_Difference

LEMMA MixingInit == Mixing!Init => MixingInv
<1> SUFFICES ASSUME Mixing!Init PROVE MixingInv
  OBVIOUS
<1>1. \A p \in Members : Has(transactions, p) = {} /\ participants[p] = NotPooled
  BY DEF Mixing!Init, Has
<1>2. 0 \in 0..MaxPoolTime
  BY MixingAssumption
<1>3. BooksAgree(transactions, participants, refused)
  BY <1>1 DEF BooksAgree
<1>4. QED
  BY <1>2, <1>3 DEF Mixing!Init, MixingInv

LEMMA MixingStepInv == MixingInv /\ [Mixing!Next]_mixingVars => MixingInv'
<1> SUFFICES ASSUME MixingInv, [Mixing!Next]_mixingVars PROVE MixingInv'
  OBVIOUS
<1>t. /\ transactions \in [Transactions -> PoolEntry \cup {NotPooled}]
      /\ participants \in [Members -> PoolMember \cup {NotPooled}]
      /\ poolTime \in 0..MaxPoolTime /\ refused \subseteq Transactions /\ out \subseteq Transactions
      /\ \A t \in out : transactions[t] # NotPooled /\ transactions[t].state # "pending"
  BY DEF MixingInv
<1>b. BooksAgree(transactions, participants, refused)
  BY DEF MixingInv
<1>n. NotPooled \notin PoolEntry /\ NotPooled \notin PoolMember
  BY MixingAssumption DEF PoolEntry, PoolMember
<1>o. Owner \in [Transactions -> Members]
  BY MixingAssumption
\* The pool keeps its transactions and its participants their counts.
<1>k. ASSUME transactions' \in [Transactions -> PoolEntry \cup {NotPooled}],
             participants' \in [Members -> PoolMember \cup {NotPooled}],
             poolTime' \in 0..MaxPoolTime, refused' = refused, out' \subseteq Transactions,
             \A t \in Transactions : transactions'[t] = NotPooled <=> transactions[t] = NotPooled,
             \A p \in Members :
               /\ participants'[p] = NotPooled <=> participants[p] = NotPooled
               /\ participants[p] # NotPooled =>
                    /\ participants'[p].pendingCount = participants[p].pendingCount
                    /\ participants'[p].totalValue = participants[p].totalValue,
             \A t \in out' : transactions'[t] # NotPooled /\ transactions'[t].state # "pending"
      PROVE  MixingInv'
  <2>1. \A p \in Members : Has(transactions', p) = Has(transactions, p)
    BY <1>k DEF Has
  <2>2. BooksAgree(transactions', participants', refused')
    BY <1>k, <1>b, <2>1 DEF BooksAgree
  <2>3. QED
    BY <1>k, <2>2 DEF MixingInv, BooksAgree, Has
<1>1. ASSUME NEW t \in Transactions, NEW numeric \in BOOLEAN, Mixing!AddTransaction(t, numeric)
      PROVE  MixingInv'
  <2> DEFINE p     == Owner[t]
             joined == Mixing!Joined(p)
             entry == [state |-> "pending", expiresAt |-> poolTime + Ttl]
             value == IF numeric THEN joined.totalValue + 1 ELSE joined.totalValue
             member == [pendingCount |-> joined.pendingCount + 1, hasFailed |-> joined.hasFailed,
                        totalValue |-> value]
  <2>1. /\ transactions[t] = NotPooled /\ transactions' = [transactions EXCEPT ![t] = entry]
        /\ participants' = [participants EXCEPT ![p] = member]
        /\ refused' = IF numeric THEN refused \ {t} ELSE refused \cup {t}
        /\ poolTime' = poolTime /\ out' = out
    BY <1>1 DEF Mixing!AddTransaction, Mixing!Pooled
  <2>2. p \in Members /\ entry \in PoolEntry
    BY <1>t, <1>o, MixingAssumption DEF PoolEntry, Mixing!States
  <2>3. /\ joined \in PoolMember
        /\ joined.pendingCount = Cardinality(Has(transactions, p))
        /\ joined.totalValue = Cardinality(Has(transactions, p) \ refused)
    <3>1. CASE participants[p] = NotPooled
      <4>1. Has(transactions, p) = {} /\ Has(transactions, p) \ refused = {}
        BY <2>2, <3>1, <1>b DEF BooksAgree
      <4>2. joined = [pendingCount |-> 0, totalValue |-> 0, hasFailed |-> FALSE]
        BY <3>1 DEF Mixing!Joined
      <4>3. QED
        BY <4>1, <4>2, FS_EmptySet DEF PoolMember
    <3>2. CASE participants[p] # NotPooled
      <4>1. joined = participants[p]
        BY <3>2 DEF Mixing!Joined
      <4>2. QED
        BY <4>1, <3>2, <2>2, <1>t, <1>b DEF BooksAgree
    <3>3. QED
      BY <3>1, <3>2
  <2> HIDE DEF joined
  <2>4. joined.pendingCount \in Nat /\ joined.totalValue \in Nat /\ joined.hasFailed \in BOOLEAN
    BY <2>3 DEF PoolMember
  <2>5. value \in Nat /\ joined.pendingCount + 1 \in Nat
    BY <2>4
  <2>6. /\ member \in PoolMember /\ member.pendingCount = joined.pendingCount + 1
        /\ member.totalValue = value
    BY <2>4, <2>5 DEF PoolMember
  <2> HIDE DEF entry, value, member
  <2>7. /\ transactions' \in [Transactions -> PoolEntry \cup {NotPooled}]
        /\ participants' \in [Members -> PoolMember \cup {NotPooled}]
        /\ participants'[p] = member /\ member # NotPooled
        /\ \A q \in Members : q # p => participants'[q] = participants[q]
        /\ transactions'[t] = entry /\ entry # NotPooled
        /\ \A u \in Transactions : u # t => transactions'[u] = transactions[u]
    BY <2>1, <2>2, <2>6, <1>t, <1>n
  <2>8. Has(transactions', p) = Has(transactions, p) \cup {t} /\ t \notin Has(transactions, p)
    BY <2>1, <2>7 DEF Has
  <2>9. \A q \in Members : q # p =>
          /\ Has(transactions', q) = Has(transactions, q)
          /\ Has(transactions', q) \ refused' = Has(transactions, q) \ refused
    <3>1. \A q \in Members : q # p =>
            Has(transactions', q) = Has(transactions, q) /\ t \notin Has(transactions, q)
      BY <2>7 DEF Has
    <3>2. QED
      BY <3>1, <2>1
  <2>10. Cardinality(Has(transactions', p)) = Cardinality(Has(transactions, p)) + 1
    BY <2>8, HasIsFinite, FS_AddElement
  <2>11. Cardinality(Has(transactions', p) \ refused') = value
    <3>1. CASE numeric
      <4>1. /\ Has(transactions', p) \ refused' = (Has(transactions, p) \ refused) \cup {t}
            /\ t \notin Has(transactions, p) \ refused
        BY <2>1, <2>8, <3>1
      <4>2. Cardinality(Has(transactions', p) \ refused')
              = Cardinality(Has(transactions, p) \ refused) + 1
        BY <4>1, HasIsFinite, FS_AddElement
      <4>3. QED
        BY <4>2, <3>1, <2>3 DEF value
    <3>2. CASE ~numeric
      <4>1. Has(transactions', p) \ refused' = Has(transactions, p) \ refused
        BY <2>1, <2>8, <3>2
      <4>2. QED
        BY <4>1, <3>2, <2>3 DEF value
    <3>3. QED
      BY <3>1, <3>2
  <2>12. BooksAgree(transactions', participants', refused')
    BY <2>3, <2>6, <2>7, <2>9, <2>10, <2>11, <1>b DEF BooksAgree
  <2>13. \A u \in out' : transactions'[u] # NotPooled /\ transactions'[u].state # "pending"
    BY <2>1, <2>7, <1>t
  <2>14. poolTime' \in 0..MaxPoolTime /\ refused' \subseteq Transactions /\ out' \subseteq Transactions
    BY <2>1, <1>t
  <2>15. QED
    BY <2>7, <2>12, <2>13, <2>14 DEF MixingInv, BooksAgree, Has
<1>2. ASSUME NEW batch \in SUBSET Transactions, Mixing!GetNextBatch(batch) PROVE MixingInv'
  <2> DEFINE put(t) == [transactions[t] EXCEPT !.state = "shuffled"]
  <2>1. /\ transactions' = [t \in Transactions |-> IF t \in batch THEN put(t) ELSE transactions[t]]
        /\ out' = out \cup batch /\ UNCHANGED <<participants, poolTime, refused>>
        /\ \A t \in batch : transactions[t] # NotPooled
    BY <1>2 DEF Mixing!GetNextBatch, Mixing!Eligible, Mixing!In, Mixing!Pooled
  <2>2. \A t \in batch : put(t) \in PoolEntry /\ put(t).state = "shuffled"
    BY <2>1, <1>t DEF PoolEntry, Mixing!States
  <2> HIDE DEF put
  <2>3. /\ transactions' \in [Transactions -> PoolEntry \cup {NotPooled}]
        /\ \A t \in Transactions : transactions'[t] = NotPooled <=> transactions[t] = NotPooled
        /\ \A t \in out' : transactions'[t] # NotPooled /\ transactions'[t].state # "pending"
    BY <2>1, <2>2, <1>t, <1>n
  <2>4. QED
    BY <2>1, <2>3, <1>t, <1>k
<1>3. ASSUME NEW done \in SUBSET Mixing!Pooled, Mixing!MarkBatchSubmitted(done) PROVE MixingInv'
  <2> DEFINE put(t) == [transactions[t] EXCEPT !.state = "submitted"]
  <2>1. /\ transactions' = [t \in Transactions |-> IF t \in done THEN put(t) ELSE transactions[t]]
        /\ UNCHANGED <<participants, poolTime, refused, out>>
        /\ \A t \in done : t \in Transactions /\ transactions[t] # NotPooled
    BY <1>3 DEF Mixing!MarkBatchSubmitted, Mixing!Submitted, Mixing!Pooled
  <2>2. \A t \in done : put(t) \in PoolEntry /\ put(t).state = "submitted"
    BY <2>1, <1>t DEF PoolEntry, Mixing!States
  <2> HIDE DEF put
  <2>3. /\ transactions' \in [Transactions -> PoolEntry \cup {NotPooled}]
        /\ \A t \in Transactions : transactions'[t] = NotPooled <=> transactions[t] = NotPooled
        /\ \A t \in out' : transactions'[t] # NotPooled /\ transactions'[t].state # "pending"
    BY <2>1, <2>2, <1>t, <1>n
  <2>4. QED
    BY <2>1, <2>3, <1>t, <1>k
<1>4. ASSUME NEW ids \in SUBSET Transactions, Mixing!MarkBatchFailed(ids) PROVE MixingInv'
  <2> DEFINE put(t) == [transactions[t] EXCEPT !.state = "pending"]
             warned(p) == [participants[p] EXCEPT !.hasFailed = TRUE]
  <2>1. /\ transactions' = [t \in Transactions |->
             IF t \in ids \cap Mixing!Pooled THEN put(t) ELSE transactions[t]]
        /\ participants' = [p \in Members |->
             IF ids \cap Mixing!OwnedBy(p) # {} /\ participants[p] # NotPooled
             THEN warned(p) ELSE participants[p]]
        /\ out' = out \ ids /\ UNCHANGED <<poolTime, refused>>
    BY <1>4 DEF Mixing!MarkBatchFailed
  <2>2. \A t \in Mixing!Pooled : put(t) \in PoolEntry /\ t \in Transactions
    BY <1>t DEF PoolEntry, Mixing!States, Mixing!Pooled
  <2>3. \A p \in Members : participants[p] # NotPooled =>
          /\ warned(p) \in PoolMember
          /\ warned(p).pendingCount = participants[p].pendingCount
          /\ warned(p).totalValue = participants[p].totalValue
    BY <1>t DEF PoolMember
  <2> HIDE DEF put, warned
  <2>4. /\ transactions' \in [Transactions -> PoolEntry \cup {NotPooled}]
        /\ \A t \in Transactions : transactions'[t] = NotPooled <=> transactions[t] = NotPooled
        /\ \A t \in out' : transactions'[t] # NotPooled /\ transactions'[t].state # "pending"
    BY <2>1, <2>2, <1>t, <1>n DEF Mixing!Pooled
  <2>5. /\ participants' \in [Members -> PoolMember \cup {NotPooled}]
        /\ \A p \in Members :
             /\ participants'[p] = NotPooled <=> participants[p] = NotPooled
             /\ participants[p] # NotPooled =>
                  /\ participants'[p].pendingCount = participants[p].pendingCount
                  /\ participants'[p].totalValue = participants[p].totalValue
    BY <2>1, <2>3, <1>t, <1>n
  <2>6. QED
    BY <2>1, <2>4, <2>5, <1>t, <1>k
<1>5. ASSUME NEW p \in Members, Mixing!RemoveParticipant(p) PROVE MixingInv'
  <2>1. /\ transactions' = [t \in Transactions |-> IF Owner[t] = p THEN NotPooled ELSE transactions[t]]
        /\ participants' = [participants EXCEPT ![p] = NotPooled]
        /\ out' = {t \in out : Owner[t] # p} /\ refused' = {t \in refused : Owner[t] # p}
        /\ poolTime' = poolTime
    BY <1>5 DEF Mixing!RemoveParticipant
  <2>2. /\ transactions' \in [Transactions -> PoolEntry \cup {NotPooled}]
        /\ participants' \in [Members -> PoolMember \cup {NotPooled}]
        /\ participants'[p] = NotPooled
        /\ \A q \in Members : q # p => participants'[q] = participants[q]
        /\ poolTime' \in 0..MaxPoolTime /\ refused' \subseteq Transactions /\ out' \subseteq Transactions
    BY <2>1, <1>t
  <2>3. Has(transactions', p) = {}
    BY <2>1 DEF Has
  <2>4. \A q \in Members : q # p =>
          /\ Has(transactions', q) = Has(transactions, q)
          /\ Has(transactions', q) \ refused' = Has(transactions, q) \ refused
    BY <2>1 DEF Has
  <2>5. BooksAgree(transactions', participants', refused')
    BY <2>2, <2>3, <2>4, <1>b DEF BooksAgree
  <2>6. \A t \in out' : transactions'[t] # NotPooled /\ transactions'[t].state # "pending"
    BY <2>1, <1>t
  <2>7. QED
    BY <2>2, <2>5, <2>6 DEF MixingInv, BooksAgree, Has
<1>6. ASSUME NEW gone \in SUBSET Mixing!Expired, Mixing!CleanupExpiredTransactions(gone)
      PROVE  MixingInv'
  <2>1. /\ transactions' = [t \in Transactions |-> IF t \in gone THEN NotPooled ELSE transactions[t]]
        /\ participants' = [p \in Members |->
             IF gone \cap refused = {} /\ Mixing!Leaves(Mixing!Cleared(gone, p))
             THEN NotPooled ELSE Mixing!Cleared(gone, p)]
        /\ refused' = refused \ gone /\ poolTime' = poolTime /\ out' = out
    BY <1>6 DEF Mixing!CleanupExpiredTransactions
  <2>2. \A t \in gone : /\ t \in Transactions /\ transactions[t] # NotPooled
                        /\ transactions[t].state = "pending"
    BY DEF Mixing!Expired, Mixing!In, Mixing!Pooled
  <2>3. transactions' \in [Transactions -> PoolEntry \cup {NotPooled}]
    BY <2>1, <1>t
  <2>4. \A t \in out' : transactions'[t] # NotPooled /\ transactions'[t].state # "pending"
    BY <2>1, <2>2, <1>t
  <2>5. ASSUME NEW p \in Members
        PROVE  /\ participants'[p] \in PoolMember \cup {NotPooled}
               /\ IF participants'[p] = NotPooled THEN Has(transactions', p) = {}
                  ELSE /\ participants'[p].pendingCount = Cardinality(Has(transactions', p))
                       /\ participants'[p].totalValue = Cardinality(Has(transactions', p) \ refused')
    <3> DEFINE owned == {t \in gone : Owner[t] = p}
               left == [participants[p] EXCEPT
                          !.pendingCount = @ - Mixing!Cardinality(owned),
                          !.totalValue = @ - Mixing!Cardinality(owned \ refused)]
    <3>1. Has(transactions', p) = Has(transactions, p) \ owned /\ owned \subseteq Has(transactions, p)
      BY <2>1, <2>2 DEF Has
    <3>2. Has(transactions', p) \ refused' = (Has(transactions, p) \ refused) \ (owned \ refused)
      <4>1. \A t : t \in Has(transactions, p) => (t \in gone <=> t \in owned)
        BY DEF Has
      <4> HIDE DEF owned
      <4>2. QED
        BY <2>1, <3>1, <4>1
    <3>3. /\ Cardinality(Has(transactions', p)) = Cardinality(Has(transactions, p)) - Cardinality(owned)
          /\ Cardinality(Has(transactions', p) \ refused')
               = Cardinality(Has(transactions, p) \ refused) - Cardinality(owned \ refused)
      <4>1. /\ owned \in SUBSET Has(transactions, p)
            /\ owned \ refused \in SUBSET (Has(transactions, p) \ refused)
            /\ IsFiniteSet(Has(transactions, p)) /\ IsFiniteSet(Has(transactions, p) \ refused)
        BY <3>1, HasIsFinite
      <4> HIDE DEF owned
      <4>2. QED
        BY <3>1, <3>2, <4>1, CountWithout
    <3>4. Cardinality(Has(transactions', p)) \in Nat /\ Cardinality(Has(transactions', p) \ refused') \in Nat
      BY HasIsFinite, FS_CardinalityType
    <3>5. Mixing!Cleared(gone, p) = IF participants[p] = NotPooled THEN NotPooled ELSE left
      BY DEF Mixing!Cleared
    <3>6. CASE participants[p] = NotPooled
      <4>1. participants'[p] = NotPooled
        BY <2>1, <3>5, <3>6
      <4>2. Has(transactions', p) = {}
        BY <3>1, <3>6, <1>b DEF BooksAgree
      <4>3. QED
        BY <4>1, <4>2
    <3>7. CASE participants[p] # NotPooled
      <4>1. /\ participants[p] \in PoolMember
            /\ participants[p].pendingCount = Cardinality(Has(transactions, p))
            /\ participants[p].totalValue = Cardinality(Has(transactions, p) \ refused)
        BY <3>7, <1>t, <1>b DEF BooksAgree
      <4>2. /\ left = [participants[p] EXCEPT !.pendingCount = Cardinality(Has(transactions', p)),
                          !.totalValue = Cardinality(Has(transactions', p) \ refused')]
        BY <4>1, <3>3, MixingCardinality
      <4>3. /\ left \in PoolMember /\ left.pendingCount = Cardinality(Has(transactions', p))
            /\ left.totalValue = Cardinality(Has(transactions', p) \ refused')
        BY <4>1, <4>2, <3>4 DEF PoolMember
      <4>4. participants'[p] = left \/ (participants'[p] = NotPooled /\ left.pendingCount = 0)
        BY <2>1, <3>5, <3>7 DEF Mixing!Leaves
      <4>5. left.pendingCount = 0 => Has(transactions', p) = {}
        BY <4>3, HasIsFinite, FS_EmptySet
      <4> HIDE DEF left
      <4>6. QED
        BY <4>3, <4>4, <4>5, <1>n
    <3>8. QED
      BY <3>6, <3>7
  <2>6. participants' \in [Members -> PoolMember \cup {NotPooled}]
    <3>1. DOMAIN participants' = Members /\ participants' = [p \in Members |-> participants'[p]]
      BY <2>1
    <3>2. QED
      BY <3>1, <2>5
  <2>7. BooksAgree(transactions', participants', refused')
    BY <2>5 DEF BooksAgree
  <2>8. poolTime' \in 0..MaxPoolTime /\ refused' \subseteq Transactions /\ out' \subseteq Transactions
    BY <2>1, <1>t
  <2>9. QED
    BY <2>3, <2>4, <2>6, <2>7, <2>8 DEF MixingInv, BooksAgree, Has
<1>7. CASE Mixing!Tick
  <2>1. poolTime' \in 0..MaxPoolTime /\ UNCHANGED <<transactions, participants, refused, out>>
    BY <1>7, <1>t, MixingAssumption DEF Mixing!Tick
  <2>2. QED
    BY <2>1, <1>t, <1>k
<1>8. CASE UNCHANGED mixingVars
  BY <1>8, <1>t, <1>k DEF mixingVars
<1>9. QED
  BY <1>1, <1>2, <1>3, <1>4, <1>5, <1>6, <1>7, <1>8 DEF Mixing!Next

LEMMA MixingHolds ==
  MixingInv => Mixing!TypeOK /\ Mixing!HandedOutOnce /\ Mixing!ParticipantsCount
<1> SUFFICES ASSUME MixingInv PROVE Mixing!TypeOK /\ Mixing!HandedOutOnce /\ Mixing!ParticipantsCount
  OBVIOUS
<1>1. \A p \in Members : Mixing!OwnedBy(p) = Has(transactions, p)
  BY DEF Mixing!OwnedBy, Mixing!Pooled, Has
<1>2. Mixing!ParticipantsCount
  BY <1>1, MixingCardinality DEF Mixing!ParticipantsCount, MixingInv, BooksAgree
<1>3. Mixing!HandedOutOnce
  BY DEF Mixing!HandedOutOnce, Mixing!Eligible, Mixing!In, Mixing!Pooled, MixingInv
<1>4. \A p \in Members : participants[p] # NotPooled =>
        participants[p] \in [pendingCount : 0..Mixing!Cardinality(Transactions),
                             totalValue : 0..Mixing!Cardinality(Transactions), hasFailed : BOOLEAN]
  <2> SUFFICES ASSUME NEW p \in Members, participants[p] # NotPooled
               PROVE  participants[p] \in [pendingCount : 0..Cardinality(Transactions),
                        totalValue : 0..Cardinality(Transactions), hasFailed : BOOLEAN]
    BY MixingCardinality
  <2>1. /\ participants[p].pendingCount \in 0..Cardinality(Transactions)
        /\ participants[p].totalValue \in 0..Cardinality(Transactions)
    <3>1. /\ participants[p].pendingCount = Cardinality(Has(transactions, p))
          /\ participants[p].totalValue = Cardinality(Has(transactions, p) \ refused)
      BY DEF MixingInv, BooksAgree
    <3>2. QED
      BY <3>1, HasIsFinite
  <2>2. participants[p] \in PoolMember
    BY DEF MixingInv
  <2>3. QED
    BY <2>1, <2>2 DEF PoolMember
<1>5. \A t \in Mixing!Pooled : transactions[t] \in PoolEntry
  BY DEF Mixing!Pooled, MixingInv
<1>6. Mixing!TypeOK
  BY <1>4, <1>5 DEF Mixing!TypeOK, MixingInv, PoolEntry
<1>7. QED
  BY <1>2, <1>3, <1>6

-----------------------------------------------------------------------------
\* The plan (DependencyGraph): while no cycle is found, what the search has left
\* behind it is black or is the next node of its path, and no black node depends on
\* others in a circle.
SearchPath ==
  /\ \A i, j \in 1..Len(stack) : stack[i].id = stack[j].id => i = j
  /\ \A n \in Planning!Nodes : colour[n] = "grey" <=> \E i \in 1..Len(stack) : stack[i].id = n
  /\ \A i \in 1..Len(stack) :
       /\ stack[i].left \subseteq dependsOn[stack[i].id]
       /\ i < Len(stack) => stack[i + 1].id \in dependsOn[stack[i].id]
       /\ cycles = {} =>
            \A d \in (dependsOn[stack[i].id] \cap Planning!Nodes) \ stack[i].left :
              colour[d] = "black" \/ (i < Len(stack) /\ stack[i + 1].id = d)

\* A set of nodes each of which depends on one of them.
GraphCircle(S) == S \in SUBSET Planning!Nodes /\ \A n \in S : dependsOn[n] \cap S # {}

CyclesFound ==
  /\ \A edges \in cycles : Planning!IsCycle(edges)
  /\ cycles = {} =>
       \A S : GraphCircle(S) => \A n \in Planning!Nodes : colour[n] = "black" => n \notin S

KnownOnly == \A n \in Planning!Nodes : Planning!Unknown \notin dependsOn[n]

Judged ==
  /\ phase # "shortfall"
  /\ phase \in {"levels", "planned"} => ~Planning!Cyclic /\ KnownOnly
  /\ phase = "refused" => Planning!Cyclic \/ ~KnownOnly

\* The nodes that are in a group.
Emitted == {n \in Planning!Nodes : \E i \in 1..Len(parallelGroups) : n \in parallelGroups[i]}

\* What a group's members depend on is in earlier groups, the last one before it
\* among them; the next group is all that is ready.
Levelled ==
  /\ remaining = [n \in Planning!Nodes |-> Cardinality(dependsOn[n] \ Emitted)]
  /\ ordered = Cardinality(Emitted)
  /\ ready = {n \in Planning!Nodes \ Emitted : dependsOn[n] \subseteq Emitted}
  /\ \A n \in ready : Len(parallelGroups) > 0 => dependsOn[n] \cap parallelGroups[Len(parallelGroups)] # {}
  /\ \A i, j \in 1..Len(parallelGroups) : \A n \in parallelGroups[i] : n \in parallelGroups[j] => i = j
  /\ \A i \in 1..Len(parallelGroups) : \A n \in parallelGroups[i] :
       /\ \A d \in dependsOn[n] : \E j \in 1..(i - 1) : d \in parallelGroups[j]
       /\ i > 1 => dependsOn[n] \cap parallelGroups[i - 1] # {}

Grouped ==
  /\ phase = "search" =>
       /\ remaining = [n \in Planning!Nodes |-> Cardinality(dependsOn[n])]
       /\ ordered = 0 /\ parallelGroups = <<>>
  /\ phase \in {"levels", "planned"} => Levelled
  /\ phase = "planned" => Emitted = Planning!Nodes

PlanInv ==
  /\ Planning!TypeOK
  /\ SearchPath
  /\ CyclesFound
  /\ Judged
  /\ Grouped

LEMMA PlanCardinality == \A S : Planning!Cardinality(S) = Cardinality(S)
BY DEF Planning!Cardinality, Cardinality

LEMMA PlanConstants ==
  /\ NodeCount \in Nat /\ Planning!Unknown \in Nat
  /\ Planning!Unknown \notin Planning!Nodes
  /\ \A d \in 1..Planning!Unknown : d = Planning!Unknown \/ d \in Planning!Nodes
  /\ IsFiniteSet(Planning!Nodes) /\ Cardinality(Planning!Nodes) = NodeCount
  /\ IsFiniteSet(1..Planning!Unknown) /\ Cardinality(1..Planning!Unknown) = Planning!Unknown
<1>1. NodeCount \in Nat /\ Planning!Unknown \in Nat
  BY PlanAssumption DEF Planning!Unknown
<1>2. /\ IsFiniteSet(1..NodeCount) /\ Cardinality(1..NodeCount) = IF 1 > NodeCount THEN 0 ELSE NodeCount - 1 + 1
      /\ IsFiniteSet(1..Planning!Unknown)
      /\ Cardinality(1..Planning!Unknown) = IF 1 > Planning!Unknown THEN 0 ELSE Planning!Unknown - 1 + 1
  BY <1>1, FS_Interval
<1>3. QED
  BY <1>1, <1>2 DEF Planning!Nodes, Planning!Unknown

LEMMA PlanTypes ==
  ASSUME Planning!TypeOK
  PROVE  /\ dependsOn \in [Planning!Nodes -> SUBSET (1..Planning!Unknown)]
         /\ stack \in Seq(Planning!Frames) /\ Len(stack) \in Nat /\ DOMAIN stack = 1..Len(stack)
         /\ \A i \in 1..Len(stack) :
              stack[i] \in Planning!Frames /\ stack[i].id \in Planning!Nodes
              /\ stack[i].left \subseteq 1..Planning!Unknown
         /\ colour \in [Planning!Nodes -> {"white", "grey", "black"}]
         /\ parallelGroups \in Seq(SUBSET Planning!Nodes) /\ Len(parallelGroups) \in Nat
         /\ DOMAIN parallelGroups = 1..Len(parallelGroups)
         /\ \A i \in 1..Len(parallelGroups) : parallelGroups[i] \subseteq Planning!Nodes
         /\ \A n \in Planning!Nodes :
              IsFiniteSet(dependsOn[n]) /\ Cardinality(dependsOn[n]) \in 0..Planning!Unknown
<1>1. dependsOn \in [Planning!Nodes -> SUBSET (1..Planning!Unknown)]
  BY PlanAssumption DEF Planning!TypeOK, Planning!Nodes, Planning!Unknown
<1>2. stack \in Seq(Planning!Frames) /\ colour \in [Planning!Nodes -> {"white", "grey", "black"}]
      /\ parallelGroups \in Seq(SUBSET Planning!Nodes)
  BY DEF Planning!TypeOK
<1>3. \A i \in 1..Len(stack) : stack[i] \in Planning!Frames
  BY <1>2
<1>4. \A n \in Planning!Nodes :
        IsFiniteSet(dependsOn[n]) /\ Cardinality(dependsOn[n]) \in 0..Planning!Unknown
  <2>1. SUFFICES ASSUME NEW n \in Planning!Nodes
                 PROVE  IsFiniteSet(dependsOn[n]) /\ Cardinality(dependsOn[n]) \in 0..Planning!Unknown
    OBVIOUS
  <2>2. dependsOn[n] \in SUBSET (1..Planning!Unknown)
    BY <1>1
  <2>3. /\ IsFiniteSet(dependsOn[n])
        /\ Cardinality(dependsOn[n]) <= Cardinality(1..Planning!Unknown)
        /\ Cardinality(dependsOn[n]) \in Nat
    BY <2>2, PlanConstants, FS_Subset, FS_CardinalityType
  <2>4. QED
    BY <2>3, PlanConstants
<1>5. QED
  BY <1>1, <1>2, <1>3, <1>4 DEF Planning!Frames

LEMMA PlanInit == Planning!Init => PlanInv
<1> SUFFICES ASSUME Planning!Init PROVE PlanInv
  OBVIOUS
<1>0. stack = <<>> /\ parallelGroups = <<>> /\ Len(stack) = 0
  BY DEF Planning!Init
<1>1. Planning!TypeOK
  <2>1. dependsOn \in [Planning!Nodes -> SUBSET (1..Planning!Unknown)]
    BY PlanAssumption DEF Planning!Init, Planning!Nodes, Planning!Unknown
  <2>2. \A n \in Planning!Nodes : Cardinality(dependsOn[n]) \in 0..Planning!Unknown
    <3>1. SUFFICES ASSUME NEW n \in Planning!Nodes
                   PROVE  Cardinality(dependsOn[n]) \in 0..Planning!Unknown
      OBVIOUS
    <3>2. dependsOn[n] \in SUBSET (1..Planning!Unknown)
      BY <2>1
    <3>3. /\ Cardinality(dependsOn[n]) <= Cardinality(1..Planning!Unknown)
          /\ Cardinality(dependsOn[n]) \in Nat
      BY <3>2, PlanConstants, FS_Subset, FS_CardinalityType
    <3>4. QED
      BY <3>3, PlanConstants
  <2>3. remaining \in [Planning!Nodes -> 0..Planning!Unknown]
    BY <2>2, PlanCardinality DEF Planning!Init
  <2>4. ordered \in 0..NodeCount
    BY PlanConstants DEF Planning!Init
  <2>5. QED
    BY <2>3, <2>4 DEF Planning!Init, Planning!TypeOK
<1>2. SearchPath
  BY <1>0 DEF Planning!Init, SearchPath
<1>3. CyclesFound
  BY DEF Planning!Init, CyclesFound
<1>4. Judged /\ Grouped
  <2>1. phase = "search" /\ ordered = 0 /\ parallelGroups = <<>>
        /\ remaining = [n \in Planning!Nodes |-> Cardinality(dependsOn[n])]
    BY PlanCardinality DEF Planning!Init
  <2>2. QED
    BY <2>1 DEF Judged, Grouped
<1>5. QED
  BY <1>1, <1>2, <1>3, <1>4 DEF PlanInv

\* A path that closes is a cycle.
LEMMA CycleCloses ==
  ASSUME PlanInv, stack # <<>>, NEW n \in Planning!Nodes, n \in Planning!Top.left, Planning!OnPath(n)
  PROVE  /\ Planning!IsCycle(Planning!CycleAt(n))
         /\ Planning!CycleAt(n) \in SUBSET (Planning!Nodes \X Planning!Nodes)
<1> DEFINE m == Len(stack)
           next(i) == IF i = m THEN n ELSE stack[i + 1].id
           edge(i) == <<stack[i].id, next(i)>>
           C == Planning!CycleAt(n)
           F == Planning!From(n)
<1>1. /\ m \in Nat \ {0} /\ DOMAIN stack = 1..m
      /\ \A i \in 1..m : stack[i].id \in Planning!Nodes
  <2>1. Len(stack) # 0
    BY PlanTypes, EmptySeq DEF PlanInv
  <2>2. QED
    BY <2>1, PlanTypes DEF PlanInv
<1>m. \A i \in 1..m : i # m => i < m /\ i + 1 \in 1..m
  <2>1. \A k \in Nat : \A i \in 1..k : i # k => i < k /\ i + 1 \in 1..k
    OBVIOUS
  <2> HIDE DEF m
  <2>2. QED
    BY <1>1, <2>1
<1>2. C = {edge(i) : i \in F}
  BY DEF Planning!CycleAt
<1>3. /\ F # {} /\ F \subseteq 1..m
      /\ \A i \in F : i # m => i + 1 \in F
  <2>1. F = {i \in 1..m : \E j \in 1..i : stack[j].id = n}
    BY <1>1 DEF Planning!From
  <2>2. F # {}
    BY DEF Planning!OnPath
  <2>3. ASSUME NEW i \in F, i # m PROVE i + 1 \in F
    <3>1. i + 1 \in 1..m /\ \A j \in 1..i : j \in 1..(i + 1)
      BY <2>1, <2>3, <1>1
    <3>2. QED
      BY <2>1, <3>1
  <2>4. QED
    BY <2>1, <2>2, <2>3
<1>4. PICK p \in F : stack[p].id = n
  <2>1. PICK i \in F : TRUE
    BY <1>3
  <2>2. PICK j \in 1..i : stack[j].id = n
    BY <2>1, <1>1 DEF Planning!From
  <2>3. j \in 1..m /\ j \in 1..j
    BY <1>1, <1>3, <2>1, <2>2
  <2>4. j \in F
    BY <1>1, <2>2, <2>3 DEF Planning!From
  <2>5. QED
    BY <2>2, <2>4
<1>5. ASSUME NEW i \in F
      PROVE  /\ stack[i].id \in Planning!Nodes /\ next(i) \in Planning!Nodes
             /\ next(i) \in dependsOn[stack[i].id]
             /\ \E j \in F : stack[j].id = next(i)
  <2>0. i \in 1..m
    BY <1>3
  <2>1. CASE i = m
    <3>1. n \in dependsOn[stack[m].id]
      BY <1>1 DEF PlanInv, SearchPath, Planning!Top
    <3>2. QED
      BY <2>0, <2>1, <3>1, <1>1, <1>4
  <2>2. CASE i # m
    <3>1. i < m /\ i + 1 \in F /\ i + 1 \in 1..m
      <4>1. i < m /\ i + 1 \in 1..m
        BY <2>0, <2>2, <1>m
      <4>2. QED
        BY <2>2, <4>1, <1>3
    <3>2. stack[i + 1].id \in dependsOn[stack[i].id]
      BY <2>0, <3>1 DEF PlanInv, SearchPath
    <3>3. QED
      BY <2>0, <2>2, <3>1, <3>2, <1>1
  <2>3. QED
    BY <2>1, <2>2
<1> HIDE DEF C, F, next
<1>6. C \in SUBSET (Planning!Nodes \X Planning!Nodes)
  BY <1>2, <1>5
<1>7. \A e \in C : e[2] \in dependsOn[e[1]] /\ \E f \in C : f[1] = e[2]
  <2>1. SUFFICES ASSUME NEW i \in F
                 PROVE  edge(i)[2] \in dependsOn[edge(i)[1]] /\ \E f \in C : f[1] = edge(i)[2]
    BY <1>2
  <2>2. PICK j \in F : stack[j].id = next(i)
    BY <1>5
  <2>3. edge(j) \in C /\ edge(j)[1] = edge(i)[2]
    BY <1>2, <2>2
  <2>4. QED
    BY <2>3, <1>5
<1>8. C # {}
  BY <1>2, <1>3
<1>9. QED
  BY <1>6, <1>7, <1>8 DEF Planning!IsCycle, C

\* A cycle's nodes depend on each other in a circle.
LEMMA CycleIsCircle ==
  ASSUME NEW edges \in SUBSET (Planning!Nodes \X Planning!Nodes), Planning!IsCycle(edges)
  PROVE  Planning!Cyclic
<1> DEFINE S == {e[1] : e \in edges}
<1>1. S \in SUBSET Planning!Nodes /\ S # {}
  BY DEF Planning!IsCycle
<1>2. ASSUME NEW e \in edges PROVE dependsOn[e[1]] \cap S # {}
  <2>1. PICK f \in edges : e[2] \in dependsOn[e[1]] /\ f[1] = e[2]
    BY DEF Planning!IsCycle
  <2>2. QED
    BY <2>1
<1>3. \A n \in S : dependsOn[n] \cap S # {}
  BY <1>2
<1> HIDE DEF S
<1>4. QED
  BY <1>1, <1>3 DEF Planning!Cyclic

\* The search goes on: of the state that it does not touch all remains true.
LEMMA SearchGoesOn ==
  ASSUME PlanInv, phase = "search", SearchPath', CyclesFound',
         colour' \in [Planning!Nodes -> {"white", "grey", "black"}],
         stack' \in Seq(Planning!Frames), cycles' \subseteq SUBSET (Planning!Nodes \X Planning!Nodes),
         UNCHANGED <<dependsOn, phase, remaining, ready, ordered, parallelGroups>>
  PROVE  PlanInv'
<1>1. Planning!TypeOK'
  BY DEF PlanInv, Planning!TypeOK
<1>2. Judged'
  BY DEF Judged
<1>3. Grouped'
  BY DEF PlanInv, Grouped
<1>4. QED
  BY <1>1, <1>2, <1>3 DEF PlanInv

LEMMA StartRootInv == PlanInv /\ Planning!StartRoot => PlanInv'
<1> SUFFICES ASSUME PlanInv, Planning!StartRoot PROVE PlanInv'
  OBVIOUS
<1>1. PICK n \in Planning!Nodes :
        /\ phase = "search" /\ stack = <<>> /\ Planning!First(n, Planning!White)
        /\ colour' = [colour EXCEPT ![n] = "grey"]
        /\ stack' = <<Planning!Frame(n)>>
        /\ UNCHANGED <<dependsOn, phase, cycles, remaining, ready, ordered, parallelGroups>>
  BY DEF Planning!StartRoot, Planning!levelVars
<1>2. /\ dependsOn \in [Planning!Nodes -> SUBSET (1..Planning!Unknown)]
      /\ colour \in [Planning!Nodes -> {"white", "grey", "black"}]
      /\ cycles \subseteq SUBSET (Planning!Nodes \X Planning!Nodes)
  BY PlanTypes DEF PlanInv, Planning!TypeOK
<1>3. /\ Planning!Frame(n) \in Planning!Frames
      /\ Planning!Frame(n).id = n /\ Planning!Frame(n).left = dependsOn[n]
  BY <1>2 DEF Planning!Frame, Planning!Frames
<1>4. /\ stack' \in Seq(Planning!Frames) /\ Len(stack') = 1 /\ stack'[1] = Planning!Frame(n)
      /\ \A i \in 1..Len(stack') : i = 1
  BY <1>1, <1>3
<1>5. \A d \in Planning!Nodes : colour[d] # "grey"
  <2>1. Len(stack) = 0
    BY <1>1
  <2>2. QED
    BY <2>1 DEF PlanInv, SearchPath
<1>6. SearchPath'
  <2>1. \A d \in Planning!Nodes : colour'[d] = "grey" <=> d = n
    BY <1>1, <1>2, <1>5
  <2>2. \A d \in Planning!Nodes : colour'[d] = "grey" <=> \E i \in 1..Len(stack') : stack'[i].id = d
    BY <2>1, <1>3, <1>4
  <2>3. QED
    BY <1>1, <1>3, <1>4, <2>2 DEF SearchPath
<1>7. CyclesFound'
  <2>1. \A d \in Planning!Nodes : colour'[d] = "black" => colour[d] = "black"
    BY <1>1, <1>2
  <2>2. QED
    BY <1>1, <2>1 DEF PlanInv, CyclesFound, GraphCircle, Planning!IsCycle
<1>8. colour' \in [Planning!Nodes -> {"white", "grey", "black"}]
  BY <1>1, <1>2
<1>9. QED
  BY <1>1, <1>2, <1>4, <1>6, <1>7, <1>8, SearchGoesOn

LEMMA LeaveInv == PlanInv /\ Planning!Leave => PlanInv'
<1> SUFFICES ASSUME PlanInv, Planning!Leave PROVE PlanInv'
  OBVIOUS
<1> DEFINE m == Len(stack)
           top == stack[m].id
<1>1. /\ phase = "search" /\ stack # <<>> /\ stack[m].left = {}
      /\ colour' = [colour EXCEPT ![top] = "black"]
      /\ stack' = SubSeq(stack, 1, m - 1)
      /\ UNCHANGED <<dependsOn, phase, cycles, remaining, ready, ordered, parallelGroups>>
  BY DEF Planning!Leave, Planning!Top, Planning!BelowTop, Planning!levelVars
<1>2. /\ dependsOn \in [Planning!Nodes -> SUBSET (1..Planning!Unknown)]
      /\ colour \in [Planning!Nodes -> {"white", "grey", "black"}]
      /\ cycles \subseteq SUBSET (Planning!Nodes \X Planning!Nodes)
      /\ stack \in Seq(Planning!Frames)
      /\ \A i \in 1..m : stack[i].id \in Planning!Nodes
  BY PlanTypes DEF PlanInv, Planning!TypeOK
<1>3. /\ m \in Nat \ {0} /\ stack' \in Seq(Planning!Frames) /\ Len(stack') = m - 1
      /\ \A i \in 1..(m - 1) : stack'[i] = stack[i]
  <2>1. /\ m \in Nat \ {0} /\ SubSeq(stack, 1, m - 1) \in Seq(Planning!Frames)
        /\ Len(SubSeq(stack, 1, m - 1)) = m - 1
        /\ \A i \in 1..(m - 1) : SubSeq(stack, 1, m - 1)[i] = stack[i]
    BY <1>1, <1>2, Popped
  <2>2. QED
    BY <1>1, <2>1
<1>4. /\ top \in Planning!Nodes /\ m \in 1..m
      /\ \A i \in 1..m : i = m \/ i \in 1..(m - 1)
      /\ \A i \in 1..(m - 1) : i \in 1..m /\ i # m
  BY <1>2, <1>3
<1>5. cycles = {} => \A d \in dependsOn[top] \cap Planning!Nodes : colour[d] = "black"
  <2>1. ~(m < m)
    BY <1>3
  <2>2. QED
    BY <1>1, <1>4, <2>1 DEF PlanInv, SearchPath
<1>6. \A i \in 1..(m - 1) : stack[i].id # top
  BY <1>4 DEF PlanInv, SearchPath
<1>7. SearchPath'
  <2>1. \A i, j \in 1..(m - 1) : stack'[i].id = stack'[j].id => i = j
    BY <1>3, <1>4 DEF PlanInv, SearchPath
  <2>2. ASSUME NEW n \in Planning!Nodes
        PROVE  colour'[n] = "grey" <=> \E i \in 1..(m - 1) : stack'[i].id = n
    <3>1. colour[n] = "grey" <=> \E i \in 1..m : stack[i].id = n
      BY DEF PlanInv, SearchPath
    <3>2. CASE n = top
      BY <3>2, <1>1, <1>2, <1>3, <1>6
    <3>3. CASE n # top
      BY <3>1, <3>3, <1>1, <1>2, <1>3, <1>4
    <3>4. QED
      BY <3>2, <3>3
  <2>3. ASSUME NEW i \in 1..(m - 1)
        PROVE  /\ stack'[i].left \subseteq dependsOn'[stack'[i].id]
               /\ i < m - 1 => stack'[i + 1].id \in dependsOn'[stack'[i].id]
               /\ cycles' = {} =>
                    \A d \in (dependsOn'[stack'[i].id] \cap Planning!Nodes) \ stack'[i].left :
                      colour'[d] = "black" \/ (i < m - 1 /\ stack'[i + 1].id = d)
    <3>1. /\ stack[i].left \subseteq dependsOn[stack[i].id]
          /\ i < m => stack[i + 1].id \in dependsOn[stack[i].id]
          /\ cycles = {} =>
               \A d \in (dependsOn[stack[i].id] \cap Planning!Nodes) \ stack[i].left :
                 colour[d] = "black" \/ (i < m /\ stack[i + 1].id = d)
      BY <1>4 DEF PlanInv, SearchPath
    <3>2. stack'[i] = stack[i] /\ (i < m - 1 => i < m /\ stack'[i + 1] = stack[i + 1])
      BY <1>3
    <3>3. i < m - 1 \/ i + 1 = m
      BY <1>3
    <3>4. \A d \in Planning!Nodes : colour[d] = "black" \/ d = top => colour'[d] = "black"
      BY <1>1, <1>2
    <3>5. UNCHANGED <<dependsOn, cycles>>
      BY <1>1
    <3>6. QED
      BY <3>1, <3>2, <3>3, <3>4, <3>5
  <2>4. QED
    BY <1>3, <2>1, <2>2, <2>3 DEF SearchPath
<1>8. CyclesFound'
  <2>1. ASSUME cycles = {}, NEW S, GraphCircle(S), NEW n \in Planning!Nodes, colour'[n] = "black"
        PROVE  n \notin S
    <3>1. \A d \in Planning!Nodes : colour[d] = "black" => d \notin S
      BY <2>1 DEF PlanInv, CyclesFound
    <3>2. top \notin S
      BY <2>1, <3>1, <1>5 DEF GraphCircle
    <3>3. n = top \/ colour[n] = "black"
      BY <2>1, <1>1, <1>2
    <3>4. QED
      BY <3>1, <3>2, <3>3
  <2>2. \A S : GraphCircle(S)' <=> GraphCircle(S)
    BY <1>1 DEF GraphCircle
  <2>3. QED
    BY <1>1, <2>1, <2>2 DEF PlanInv, CyclesFound, Planning!IsCycle
<1>9. colour' \in [Planning!Nodes -> {"white", "grey", "black"}]
  BY <1>1, <1>2
<1>10. QED
  BY <1>1, <1>2, <1>3, <1>7, <1>8, <1>9, SearchGoesOn

LEMMA FollowEdgeInv == PlanInv /\ Planning!FollowEdge => PlanInv'
<1> SUFFICES ASSUME PlanInv, Planning!FollowEdge PROVE PlanInv'
  OBVIOUS
<1> DEFINE m == Len(stack)
<1>1. PICK n \in 1..Planning!Unknown :
        /\ phase = "search" /\ stack # <<>> /\ n \in Planning!Top.left
        /\ IF n # Planning!Unknown /\ ~Planning!OnPath(n) /\ n \in Planning!White
           THEN /\ stack' = Append(Append(Planning!BelowTop, [Planning!Top EXCEPT !.left = @ \ {n}]),
                                   Planning!Frame(n))
                /\ colour' = [colour EXCEPT ![n] = "grey"]
           ELSE /\ stack' = Append(Planning!BelowTop, [Planning!Top EXCEPT !.left = @ \ {n}])
                /\ UNCHANGED colour
        /\ cycles' = IF n # Planning!Unknown /\ Planning!OnPath(n)
                     THEN cycles \cup {Planning!CycleAt(n)} ELSE cycles
        /\ UNCHANGED <<dependsOn, phase, remaining, ready, ordered, parallelGroups>>
  BY DEF Planning!FollowEdge, Planning!levelVars, Planning!First
<1>2. /\ dependsOn \in [Planning!Nodes -> SUBSET (1..Planning!Unknown)]
      /\ colour \in [Planning!Nodes -> {"white", "grey", "black"}]
      /\ cycles \subseteq SUBSET (Planning!Nodes \X Planning!Nodes)
      /\ stack \in Seq(Planning!Frames) /\ m \in Nat /\ DOMAIN stack = 1..m
      /\ \A i \in 1..m : stack[i].id \in Planning!Nodes
  BY PlanTypes DEF PlanInv, Planning!TypeOK
<1> DEFINE top == [Planning!Top EXCEPT !.left = @ \ {n}]
           adv == Append(Planning!BelowTop, top)
<1>3. /\ m \in Nat \ {0} /\ Planning!Top = stack[m] /\ stack[m] \in Planning!Frames
      /\ stack[m].left \subseteq dependsOn[stack[m].id]
  <2>1. m \in Nat \ {0} /\ stack[m] \in Planning!Frames
    BY <1>1, <1>2, Popped
  <2>2. m \in 1..m
    BY <2>1
  <2>3. QED
    BY <2>1, <2>2 DEF Planning!Top, PlanInv, SearchPath
<1>4. /\ top \in Planning!Frames /\ top.id = stack[m].id /\ top.left = stack[m].left \ {n}
  BY <1>3 DEF Planning!Frames
<1> HIDE DEF top
<1>5. /\ adv \in Seq(Planning!Frames) /\ Len(adv) = m /\ adv[m] = top
      /\ \A i \in 1..(m - 1) : adv[i] = stack[i]
  <2> DEFINE u == SubSeq(stack, 1, Len(stack) - 1)
  <2>1. /\ u \in Seq(Planning!Frames) /\ Len(u) = Len(stack) - 1
        /\ \A i \in 1..(Len(stack) - 1) : u[i] = stack[i]
    BY <1>1, <1>2, Popped
  <2>2. adv = Append(u, top)
    BY DEF Planning!BelowTop
  <2> HIDE DEF u, adv
  <2>3. /\ Append(u, top) \in Seq(Planning!Frames) /\ Len(Append(u, top)) = Len(u) + 1
        /\ Append(u, top)[Len(u) + 1] = top
        /\ \A i \in 1..Len(u) : Append(u, top)[i] = u[i]
    BY <1>4, <2>1, Pushed
  <2>4. QED
    BY <1>3, <2>1, <2>2, <2>3
<1>6. /\ \A i \in 1..m : adv[i].id = stack[i].id
      /\ \A i \in 1..m : adv[i].left \subseteq stack[i].left
      /\ \A i \in 1..m : stack[i].left \subseteq adv[i].left \cup {n}
      /\ \A i \in 1..m : i # m => adv[i].left = stack[i].left
      /\ adv[m].left = stack[m].left \ {n}
  <2>1. \A i \in 1..m : i = m \/ i \in 1..(m - 1)
    BY <1>3
  <2>2. QED
    BY <2>1, <1>4, <1>5
<1>7. n \in dependsOn[stack[m].id]
  BY <1>1, <1>3
<1>8. Planning!OnPath(n) <=> \E i \in 1..m : stack[i].id = n
  <2>1. \A i \in 1..m : i \in 1..i /\ \A j \in 1..i : j \in 1..m
    BY <1>3
  <2>2. QED
    BY <1>2, <2>1 DEF Planning!OnPath, Planning!From
<1>9. CyclesFound'
  <2>1. /\ \A edges \in cycles : Planning!IsCycle(edges)
        /\ cycles = {} => \A S : GraphCircle(S) => \A d \in Planning!Nodes : colour[d] = "black" => d \notin S
    BY DEF PlanInv, CyclesFound
  <2>2. \A edges \in cycles' : Planning!IsCycle(edges)
    <3>1. CASE n # Planning!Unknown /\ Planning!OnPath(n)
      <4>1. n \in Planning!Nodes
        BY <3>1, <1>1, PlanConstants
      <4>2. Planning!IsCycle(Planning!CycleAt(n))
        BY <1>1, <3>1, <4>1, CycleCloses
      <4>3. QED
        BY <1>1, <2>1, <3>1, <4>2
    <3>2. CASE ~(n # Planning!Unknown /\ Planning!OnPath(n))
      BY <1>1, <2>1, <3>2
    <3>3. QED
      BY <3>1, <3>2
  <2>3. \A edges : Planning!IsCycle(edges)' <=> Planning!IsCycle(edges)
    BY <1>1 DEF Planning!IsCycle
  <2>4. \A S : GraphCircle(S)' <=> GraphCircle(S)
    BY <1>1 DEF GraphCircle
  <2>5. \A d \in Planning!Nodes : colour'[d] = "black" => colour[d] = "black"
    BY <1>1, <1>2
  <2>6. cycles' = {} => cycles = {}
    BY <1>1
  <2>7. QED
    BY <2>1, <2>2, <2>3, <2>4, <2>5, <2>6 DEF CyclesFound
<1>c. cycles' \subseteq SUBSET (Planning!Nodes \X Planning!Nodes)
  <2>1. CASE n # Planning!Unknown /\ Planning!OnPath(n)
    <3>1. n \in Planning!Nodes
      BY <2>1, <1>1, PlanConstants
    <3>2. Planning!CycleAt(n) \in SUBSET (Planning!Nodes \X Planning!Nodes)
      BY <1>1, <2>1, <3>1, CycleCloses
    <3>3. QED
      BY <1>1, <1>2, <2>1, <3>2
  <2>2. CASE ~(n # Planning!Unknown /\ Planning!OnPath(n))
    BY <1>1, <1>2, <2>2
  <2>3. QED
    BY <2>1, <2>2
<1>d. cycles' = {} => cycles = {} /\ (n = Planning!Unknown \/ ~Planning!OnPath(n))
  BY <1>1
<1>s. /\ \A i, j \in 1..m : stack[i].id = stack[j].id => i = j
      /\ \A d \in Planning!Nodes : colour[d] = "grey" <=> \E i \in 1..m : stack[i].id = d
      /\ \A i \in 1..m :
           /\ stack[i].left \subseteq dependsOn[stack[i].id]
           /\ i < m => stack[i + 1].id \in dependsOn[stack[i].id]
           /\ cycles = {} =>
                \A d \in (dependsOn[stack[i].id] \cap Planning!Nodes) \ stack[i].left :
                  colour[d] = "black" \/ (i < m /\ stack[i + 1].id = d)
  BY DEF PlanInv, SearchPath
<1> HIDE DEF adv
<1>10. CASE n # Planning!Unknown /\ ~Planning!OnPath(n) /\ n \in Planning!White
  <2>1. /\ stack' = Append(adv, Planning!Frame(n)) /\ colour' = [colour EXCEPT ![n] = "grey"]
        /\ n \in Planning!Nodes
    BY <1>1, <1>10 DEF adv, top, Planning!White
  <2>2. /\ Planning!Frame(n) \in Planning!Frames
        /\ Planning!Frame(n).id = n /\ Planning!Frame(n).left = dependsOn[n]
    BY <1>2, <2>1 DEF Planning!Frame, Planning!Frames
  <2>3. /\ stack' \in Seq(Planning!Frames) /\ Len(stack') = m + 1
        /\ stack'[m + 1] = Planning!Frame(n) /\ \A i \in 1..m : stack'[i] = adv[i]
    BY <1>5, <2>1, <2>2, Pushed
  <2>4. colour' \in [Planning!Nodes -> {"white", "grey", "black"}]
    BY <1>2, <2>1
  <2>5. \A i \in 1..(m + 1) : (i \in 1..m /\ i < m + 1) \/ (i = m + 1 /\ ~(i < m + 1))
    BY <1>3
  <2>6. m + 1 \in 1..(m + 1) /\ \A i \in 1..m : i \in 1..(m + 1)
    BY <1>3
  <2>7. /\ \A i \in 1..m : stack'[i].id = stack[i].id
        /\ stack'[m + 1].id = n /\ stack'[m + 1].left = dependsOn[n]
        /\ \A i \in 1..m : stack[i].id # n
    BY <1>6, <1>8, <1>10, <2>2, <2>3
  <2>8. \A i, j \in 1..(m + 1) : stack'[i].id = stack'[j].id => i = j
    BY <1>s, <2>5, <2>7
  <2>9. \A d \in Planning!Nodes : colour'[d] = "grey" <=> \E i \in 1..(m + 1) : stack'[i].id = d
    <3>1. \A d \in Planning!Nodes : colour'[d] = "grey" <=> d = n \/ colour[d] = "grey"
      BY <1>2, <2>1
    <3>2. QED
      BY <1>s, <2>5, <2>6, <2>7, <3>1
  <2>10. ASSUME NEW i \in 1..m
         PROVE  /\ stack'[i].left \subseteq dependsOn'[stack'[i].id]
                /\ stack'[i + 1].id \in dependsOn'[stack'[i].id]
                /\ cycles' = {} =>
                     \A d \in (dependsOn'[stack'[i].id] \cap Planning!Nodes) \ stack'[i].left :
                       colour'[d] = "black" \/ stack'[i + 1].id = d
    <3>1. UNCHANGED dependsOn
      BY <1>1
    <3>2. \A d \in Planning!Nodes : colour[d] = "black" => colour'[d] = "black"
      BY <1>2, <1>10, <2>1 DEF Planning!White
    <3>3. CASE i = m
      <4>1. stack'[i].left = stack[m].left \ {n} /\ stack'[i].id = stack[m].id /\ stack'[i + 1].id = n
        BY <1>6, <2>3, <2>7, <3>3
      <4>2. ~(m < m)
        BY <1>3
      <4>3. QED
        BY <1>d, <1>s, <1>7, <3>1, <3>2, <3>3, <4>1, <4>2
    <3>4. CASE i # m
      <4>1. i < m /\ i + 1 \in 1..m
        BY <1>3, <3>4
      <4>2. stack'[i].left = stack[i].left /\ stack'[i].id = stack[i].id /\ stack'[i + 1].id = stack[i + 1].id
        BY <1>6, <2>3, <2>7, <3>4, <4>1
      <4>3. QED
        BY <1>d, <1>s, <3>1, <3>2, <4>1, <4>2
    <3>5. QED
      BY <3>3, <3>4
  <2>11. SearchPath'
    <3>1. UNCHANGED dependsOn
      BY <1>1
    <3>2. QED
      BY <2>3, <2>5, <2>7, <2>8, <2>9, <2>10, <3>1 DEF SearchPath
  <2>12. QED
    BY <1>1, <1>9, <1>c, <2>3, <2>4, <2>11, SearchGoesOn
<1>11. CASE ~(n # Planning!Unknown /\ ~Planning!OnPath(n) /\ n \in Planning!White)
  <2>1. stack' = adv /\ UNCHANGED colour
    BY <1>1, <1>11 DEF adv, top
  <2>2. /\ stack' \in Seq(Planning!Frames) /\ Len(stack') = m
        /\ \A i \in 1..m : stack'[i].id = stack[i].id
    BY <1>5, <1>6, <2>1
  <2>3. cycles' = {} /\ n \in Planning!Nodes => colour[n] = "black"
    <3>1. SUFFICES ASSUME cycles' = {}, n \in Planning!Nodes PROVE colour[n] = "black"
      OBVIOUS
    <3>2. ~Planning!OnPath(n) /\ n \notin Planning!White
      BY <1>d, <1>11, <3>1, PlanConstants
    <3>3. colour[n] # "grey" /\ colour[n] # "white"
      BY <1>s, <1>8, <3>1, <3>2 DEF Planning!White
    <3>4. QED
      BY <1>2, <3>1, <3>3
  <2>4. ASSUME NEW i \in 1..m
        PROVE  /\ stack'[i].left \subseteq dependsOn'[stack'[i].id]
               /\ i < m => stack'[i + 1].id \in dependsOn'[stack'[i].id]
               /\ cycles' = {} =>
                    \A d \in (dependsOn'[stack'[i].id] \cap Planning!Nodes) \ stack'[i].left :
                      colour'[d] = "black" \/ (i < m /\ stack'[i + 1].id = d)
    <3>1. UNCHANGED <<dependsOn, colour>>
      BY <1>1, <2>1
    <3>2. /\ stack'[i].id = stack[i].id /\ stack'[i].left \subseteq stack[i].left
          /\ stack[i].left \subseteq stack'[i].left \cup {n}
          /\ i < m => stack'[i + 1].id = stack[i + 1].id
      BY <1>3, <1>6, <2>1
    <3>3. QED
      BY <1>d, <1>s, <2>3, <3>1, <3>2
  <2>5. SearchPath'
    <3>1. \A i, j \in 1..m : stack'[i].id = stack'[j].id => i = j
      BY <1>s, <2>2
    <3>2. \A d \in Planning!Nodes : colour'[d] = "grey" <=> \E i \in 1..m : stack'[i].id = d
      BY <1>s, <2>1, <2>2
    <3>3. QED
      BY <2>2, <2>4, <3>1, <3>2 DEF SearchPath
  <2>6. QED
    BY <1>1, <1>2, <1>9, <1>c, <2>1, <2>2, <2>5, SearchGoesOn
<1>12. QED
  BY <1>10, <1>11

LEMMA SearchEndsInv == PlanInv /\ Planning!SearchEnds => PlanInv'
<1> SUFFICES ASSUME PlanInv, Planning!SearchEnds PROVE PlanInv'
  OBVIOUS
<1>1. /\ phase = "search" /\ stack = <<>> /\ Planning!White = {}
      /\ phase' = IF Planning!Errors THEN "refused" ELSE "levels"
      /\ ready' = IF Planning!Errors THEN {} ELSE {n \in Planning!Nodes : remaining[n] = 0}
      /\ UNCHANGED <<dependsOn, colour, stack, cycles, remaining, ordered, parallelGroups>>
  BY DEF Planning!SearchEnds
<1>2. /\ dependsOn \in [Planning!Nodes -> SUBSET (1..Planning!Unknown)]
      /\ colour \in [Planning!Nodes -> {"white", "grey", "black"}]
      /\ cycles \subseteq SUBSET (Planning!Nodes \X Planning!Nodes)
  BY PlanTypes DEF PlanInv, Planning!TypeOK
<1>3. Planning!TypeOK'
  BY <1>1 DEF PlanInv, Planning!TypeOK
<1>4. SearchPath' /\ CyclesFound'
  BY <1>1 DEF PlanInv, SearchPath, CyclesFound, GraphCircle, Planning!IsCycle
<1>5. Planning!Errors => Planning!Cyclic \/ ~KnownOnly
  <2>1. ASSUME NEW n \in Planning!Nodes, n \in dependsOn[n] PROVE Planning!Cyclic
    <3>1. {n} \in SUBSET Planning!Nodes /\ {n} # {} /\ \A x \in {n} : dependsOn[x] \cap {n} # {}
      BY <2>1
    <3>2. QED
      BY <3>1 DEF Planning!Cyclic
  <2>2. ASSUME NEW n \in Planning!Nodes, Planning!Unknown \in dependsOn[n] PROVE ~KnownOnly
    BY <2>2 DEF KnownOnly
  <2>3. ASSUME cycles # {} PROVE Planning!Cyclic
    <3>1. PICK edges \in cycles : Planning!IsCycle(edges)
      BY <2>3 DEF PlanInv, CyclesFound
    <3>2. edges \in SUBSET (Planning!Nodes \X Planning!Nodes)
      BY <1>2
    <3>3. QED
      BY <3>1, <3>2, CycleIsCircle
  <2>4. QED
    BY <2>1, <2>2, <2>3 DEF Planning!Errors
<1>6. ~Planning!Errors => ~Planning!Cyclic /\ KnownOnly
  <2>1. SUFFICES ASSUME cycles = {}, Planning!Cyclic PROVE FALSE
    BY DEF Planning!Errors, KnownOnly
  <2>2. PICK S \in SUBSET Planning!Nodes : S # {} /\ \A n \in S : dependsOn[n] \cap S # {}
    BY <2>1 DEF Planning!Cyclic
  <2>3. PICK n \in S : n \in Planning!Nodes
    BY <2>2
  <2>4. Len(stack) = 0
    BY <1>1
  <2>5. colour[n] # "grey" /\ colour[n] # "white"
    BY <1>1, <2>3, <2>4 DEF PlanInv, SearchPath, Planning!White
  <2>6. colour[n] = "black"
    BY <1>2, <2>3, <2>5
  <2>7. GraphCircle(S)
    BY <2>2 DEF GraphCircle
  <2>8. QED
    BY <2>1, <2>3, <2>6, <2>7 DEF PlanInv, CyclesFound
<1>7. Judged'
  <2>1. (Planning!Cyclic' <=> Planning!Cyclic) /\ (KnownOnly' <=> KnownOnly)
    BY <1>1 DEF Planning!Cyclic, KnownOnly
  <2>2. QED
    BY <1>1, <1>5, <1>6, <2>1 DEF Judged
<1>8. Grouped'
  <2>1. CASE Planning!Errors
    BY <1>1, <2>1 DEF Grouped
  <2>2. CASE ~Planning!Errors
    <3>1. /\ phase' = "levels" /\ ready' = {n \in Planning!Nodes : remaining[n] = 0}
          /\ parallelGroups' = <<>> /\ Len(parallelGroups') = 0 /\ ordered' = 0
          /\ remaining' = [n \in Planning!Nodes |-> Cardinality(dependsOn[n])]
          /\ dependsOn' = dependsOn /\ remaining' = remaining
      BY <1>1, <2>2 DEF PlanInv, Grouped
    <3>2. Emitted' = {}
      BY <3>1 DEF Emitted
    <3>3. remaining' = [n \in Planning!Nodes |-> Cardinality(dependsOn'[n] \ Emitted')]
      <4>1. \A n \in Planning!Nodes : dependsOn'[n] \ Emitted' = dependsOn[n]
        BY <3>1, <3>2
      <4>2. QED
        BY <3>1, <4>1
    <3>4. \A n \in Planning!Nodes : remaining[n] = 0 <=> dependsOn[n] \subseteq {}
      <4>1. SUFFICES ASSUME NEW n \in Planning!Nodes
                     PROVE  Cardinality(dependsOn[n]) = 0 <=> dependsOn[n] = {}
        BY <3>1
      <4>2. QED
        BY PlanTypes, FS_EmptySet DEF PlanInv
    <3>5. ready' = {n \in Planning!Nodes \ Emitted' : dependsOn'[n] \subseteq Emitted'}
      BY <3>1, <3>2, <3>4
    <3>6. ordered' = Cardinality(Emitted')
      BY <3>1, <3>2, FS_EmptySet
    <3>7. 1..Len(parallelGroups') = {} /\ ~(Len(parallelGroups') > 0)
      BY <3>1
    <3>8. Levelled'
      BY <3>3, <3>5, <3>6, <3>7 DEF Levelled
    <3>9. QED
      BY <3>1, <3>8 DEF Grouped
  <2>3. QED
    BY <2>1, <2>2
<1>9. QED
  BY <1>3, <1>4, <1>7, <1>8 DEF PlanInv

\* What does not depend on the levels stays as it is while they are made.
LEMMA LevelsGoOn ==
  ASSUME PlanInv, UNCHANGED <<dependsOn, colour, stack, cycles>>
  PROVE  /\ SearchPath' /\ CyclesFound' /\ (Planning!Cyclic' <=> Planning!Cyclic)
         /\ (KnownOnly' <=> KnownOnly)
  BY DEF PlanInv, SearchPath, CyclesFound, GraphCircle, Planning!IsCycle, Planning!Cyclic, KnownOnly

LEMMA LevelInv == PlanInv /\ Planning!Level => PlanInv'
<1> SUFFICES ASSUME PlanInv, Planning!Level PROVE PlanInv'
  OBVIOUS
<1> DEFINE m == Len(parallelGroups)
           left(n) == remaining[n] - Cardinality(dependsOn[n] \cap ready)
<1>1. /\ phase = "levels" /\ ready # {}
      /\ parallelGroups' = Append(parallelGroups, ready)
      /\ ordered' = ordered + Cardinality(ready)
      /\ remaining' = [n \in Planning!Nodes |-> left(n)]
      /\ ready' = {n \in Planning!Nodes : left(n) = 0 /\ remaining[n] > 0}
      /\ UNCHANGED <<dependsOn, phase, colour, stack, cycles>>
  BY PlanCardinality DEF Planning!Level
<1>2. Levelled
  BY <1>1 DEF PlanInv, Grouped
<1>3. /\ parallelGroups \in Seq(SUBSET Planning!Nodes) /\ m \in Nat
      /\ \A i \in 1..m : parallelGroups[i] \subseteq Planning!Nodes
      /\ ready \in SUBSET Planning!Nodes
      /\ dependsOn \in [Planning!Nodes -> SUBSET (1..Planning!Unknown)]
  BY PlanTypes DEF PlanInv, Planning!TypeOK
<1>4. /\ parallelGroups' \in Seq(SUBSET Planning!Nodes) /\ Len(parallelGroups') = m + 1
      /\ parallelGroups'[m + 1] = ready
      /\ \A i \in 1..m : parallelGroups'[i] = parallelGroups[i]
  BY <1>1, <1>3, Pushed
<1>5. /\ \A i \in 1..(m + 1) : i \in 1..m \/ i = m + 1
      /\ \A i \in 1..m : i \in 1..(m + 1) /\ i # m + 1
      /\ m + 1 \in 1..(m + 1)
      /\ m + 1 - 1 = m /\ (m + 1 > 1 => m > 0)
      /\ \A i \in 1..m : \A j \in 1..(i - 1) : j \in 1..m
      /\ \A i \in 1..m : i > 1 => i - 1 \in 1..m
  BY <1>3
<1>6. Emitted' = Emitted \cup ready
  BY <1>3, <1>4, <1>5 DEF Emitted
<1>7. /\ ready = {n \in Planning!Nodes \ Emitted : dependsOn[n] \subseteq Emitted}
      /\ remaining = [n \in Planning!Nodes |-> Cardinality(dependsOn[n] \ Emitted)]
      /\ ordered = Cardinality(Emitted)
  BY <1>2 DEF Levelled
<1>8. /\ IsFiniteSet(Emitted) /\ IsFiniteSet(ready) /\ IsFiniteSet(Emitted')
      /\ Cardinality(Emitted) \in Nat /\ Cardinality(ready) \in Nat
      /\ Cardinality(Emitted') = Cardinality(Emitted) + Cardinality(ready)
      /\ Cardinality(Emitted') \in 0..NodeCount
  <2>1. Emitted \in SUBSET Planning!Nodes /\ Emitted \cup ready \in SUBSET Planning!Nodes
    BY <1>3 DEF Emitted
  <2>2. IsFiniteSet(Emitted) /\ IsFiniteSet(ready)
    BY <1>3, <2>1, PlanConstants, FS_Subset
  <2>3. Emitted \cap ready = {}
    BY <1>7
  <2>4. /\ IsFiniteSet(Emitted \cup ready)
        /\ Cardinality(Emitted \cup ready) =
             Cardinality(Emitted) + Cardinality(ready) - Cardinality(Emitted \cap ready)
    BY <2>2, FS_Union
  <2>5. /\ Cardinality(Emitted) \in Nat /\ Cardinality(ready) \in Nat
        /\ Cardinality(Emitted \cup ready) \in Nat /\ Cardinality(Emitted \cap ready) = 0
    BY <2>2, <2>3, <2>4, FS_CardinalityType, FS_EmptySet
  <2>6. Cardinality(Emitted \cup ready) <= NodeCount
    BY <2>1, PlanConstants, FS_Subset
  <2>7. QED
    BY <1>6, <2>2, <2>4, <2>5, <2>6, PlanConstants
<1>9. ASSUME NEW n \in Planning!Nodes
      PROVE  /\ left(n) = Cardinality(dependsOn[n] \ (Emitted \cup ready))
             /\ left(n) \in 0..Planning!Unknown
             /\ left(n) = 0 <=> dependsOn[n] \subseteq Emitted \cup ready
             /\ remaining[n] > 0 <=> ~(dependsOn[n] \subseteq Emitted)
  <2> DEFINE W == dependsOn[n] \ Emitted
             V == dependsOn[n] \ (Emitted \cup ready)
  <2>1. /\ IsFiniteSet(dependsOn[n]) /\ Cardinality(dependsOn[n]) \in 0..Planning!Unknown
        /\ remaining[n] = Cardinality(W)
    BY <1>7, PlanTypes DEF PlanInv
  <2>2. W \in SUBSET dependsOn[n] /\ V \in SUBSET W /\ W \ ready = V /\ W \cap ready = dependsOn[n] \cap ready
    BY <1>7
  <2> HIDE DEF W, V
  <2>3. /\ IsFiniteSet(W) /\ Cardinality(W) \in Nat /\ Cardinality(W) <= Cardinality(dependsOn[n])
    BY <2>1, <2>2, FS_Subset, FS_CardinalityType
  <2>4. /\ IsFiniteSet(W \ ready) /\ Cardinality(W \ ready) = Cardinality(W) - Cardinality(W \cap ready)
        /\ IsFiniteSet(W \cap ready) /\ Cardinality(W \cap ready) \in Nat
        /\ Cardinality(W \ ready) \in Nat
    BY <2>3, FS_Difference, FS_Intersection, FS_CardinalityType
  <2>5. left(n) = Cardinality(V) /\ Cardinality(V) \in 0..Planning!Unknown
    <3>1. left(n) = Cardinality(W) - Cardinality(W \cap ready)
      BY <2>1, <2>2
    <3>2. Cardinality(V) = Cardinality(W) - Cardinality(W \cap ready)
      BY <2>2, <2>4
    <3>3. Cardinality(V) \in Nat /\ Cardinality(V) <= Cardinality(W)
      BY <2>2, <2>3, FS_Subset, FS_CardinalityType
    <3>4. QED
      BY <2>1, <2>3, <3>1, <3>2, <3>3, PlanConstants
  <2>6. (Cardinality(V) = 0 <=> V = {}) /\ (Cardinality(W) = 0 <=> W = {})
    BY <2>2, <2>3, <2>4, FS_EmptySet
  <2>7. remaining[n] > 0 <=> W # {}
    BY <2>1, <2>3, <2>6
  <2>8. left(n) = 0 <=> V = {}
    BY <2>5, <2>6
  <2> HIDE DEF left
  <2>9. QED
    BY <2>5, <2>7, <2>8 DEF W, V
<1> HIDE DEF left
<1>10. ASSUME NEW n \in Emitted PROVE dependsOn[n] \subseteq Emitted
  <2>1. PICK i \in 1..m : n \in parallelGroups[i]
    BY DEF Emitted
  <2>2. \A d \in dependsOn[n] : \E j \in 1..(i - 1) : d \in parallelGroups[j]
    BY <1>2, <2>1 DEF Levelled
  <2>3. \A d \in dependsOn[n] : \E j \in 1..m : d \in parallelGroups[j]
    BY <1>5, <2>2
  <2>4. QED
    BY <1>3, <2>3 DEF Emitted
<1>11. ready' = {n \in Planning!Nodes \ Emitted' : dependsOn'[n] \subseteq Emitted'}
  <2>1. \A n \in Planning!Nodes :
          left(n) = 0 /\ remaining[n] > 0 <=>
            n \notin Emitted \cup ready /\ dependsOn[n] \subseteq Emitted \cup ready
    BY <1>7, <1>9, <1>10
  <2>2. QED
    BY <1>1, <1>6, <2>1
<1>12. remaining' = [n \in Planning!Nodes |-> Cardinality(dependsOn'[n] \ Emitted')]
  BY <1>1, <1>6, <1>9
<1>13. \A n \in ready' : dependsOn'[n] \cap ready # {}
  BY <1>1, <1>9
<1>14. ASSUME NEW i \in 1..(m + 1), NEW j \in 1..(m + 1), NEW n \in parallelGroups'[i], n \in parallelGroups'[j]
       PROVE  i = j
  <2>1. \A k \in 1..m : \A x \in parallelGroups'[k] : x \notin ready
    BY <1>3, <1>4, <1>7 DEF Emitted
  <2>2. \A k, l \in 1..m : \A x \in parallelGroups[k] : x \in parallelGroups[l] => k = l
    BY <1>2 DEF Levelled
  <2>3. QED
    BY <1>4, <1>5, <1>14, <2>1, <2>2
<1>15. ASSUME NEW i \in 1..(m + 1), NEW n \in parallelGroups'[i]
       PROVE  /\ \A d \in dependsOn'[n] : \E j \in 1..(i - 1) : d \in parallelGroups'[j]
              /\ i > 1 => dependsOn'[n] \cap parallelGroups'[i - 1] # {}
  <2>0. dependsOn' = dependsOn
    BY <1>1
  <2>1. CASE i \in 1..m
    <3>1. /\ \A d \in dependsOn[n] : \E j \in 1..(i - 1) : d \in parallelGroups[j]
          /\ i > 1 => dependsOn[n] \cap parallelGroups[i - 1] # {}
      BY <1>2, <1>4, <2>1 DEF Levelled
    <3>2. QED
      BY <1>4, <1>5, <2>0, <2>1, <3>1
  <2>2. CASE i = m + 1
    <3>1. n \in ready
      BY <1>4, <2>2
    <3>2. dependsOn[n] \subseteq Emitted
      BY <1>7, <3>1
    <3>3. \A d \in dependsOn[n] : \E j \in 1..m : d \in parallelGroups'[j]
      BY <1>4, <3>2 DEF Emitted
    <3>4. m > 0 => dependsOn[n] \cap parallelGroups[m] # {} /\ m \in 1..m
      BY <1>2, <1>3, <3>1 DEF Levelled
    <3>5. i - 1 = m /\ (i > 1 => m > 0)
      BY <1>5, <2>2
    <3>6. QED
      BY <1>4, <2>0, <3>3, <3>4, <3>5
  <2>3. QED
    BY <1>5, <2>1, <2>2
<1>16. Levelled'
  <2>1. ordered' = Cardinality(Emitted')
    BY <1>1, <1>7, <1>8
  <2>2. \A n \in ready' : Len(parallelGroups') > 0 => dependsOn'[n] \cap parallelGroups'[Len(parallelGroups')] # {}
    BY <1>4, <1>13
  <2>3. \A i, j \in 1..Len(parallelGroups') : \A n \in parallelGroups'[i] : n \in parallelGroups'[j] => i = j
    BY <1>4, <1>14
  <2>4. \A i \in 1..Len(parallelGroups') : \A n \in parallelGroups'[i] :
          /\ \A d \in dependsOn'[n] : \E j \in 1..(i - 1) : d \in parallelGroups'[j]
          /\ i > 1 => dependsOn'[n] \cap parallelGroups'[i - 1] # {}
    BY <1>4, <1>15
  <2>5. QED
    BY <1>11, <1>12, <2>1, <2>2, <2>3, <2>4 DEF Levelled
<1>17. Planning!TypeOK'
  <2>1. remaining' \in [Planning!Nodes -> 0..Planning!Unknown]
    BY <1>1, <1>9
  <2>2. ordered' \in 0..NodeCount
    BY <1>1, <1>7, <1>8
  <2>3. ready' \subseteq Planning!Nodes
    BY <1>1
  <2>4. QED
    BY <1>1, <1>4, <2>1, <2>2, <2>3 DEF PlanInv, Planning!TypeOK
<1>18. Judged' /\ Grouped'
  BY <1>1, <1>16, LevelsGoOn DEF PlanInv, Judged, Grouped
<1>19. QED
  BY <1>1, <1>17, <1>18, LevelsGoOn DEF PlanInv

\* Nodes that no level has taken would depend on each other in a circle.
LEMMA LevelsEndInv == PlanInv /\ Planning!LevelsEnd => PlanInv'
<1> SUFFICES ASSUME PlanInv, Planning!LevelsEnd PROVE PlanInv'
  OBVIOUS
<1>1. /\ phase = "levels" /\ ready = {}
      /\ phase' = IF ordered = NodeCount THEN "planned" ELSE "shortfall"
      /\ UNCHANGED <<dependsOn, colour, stack, cycles, remaining, ready, ordered, parallelGroups>>
  BY DEF Planning!LevelsEnd, Planning!levelVars
<1>2. Levelled /\ ~Planning!Cyclic /\ KnownOnly
  BY <1>1 DEF PlanInv, Grouped, Judged
<1>3. Emitted = Planning!Nodes
  <2> DEFINE S == Planning!Nodes \ Emitted
  <2>1. Emitted \subseteq Planning!Nodes /\ S \in SUBSET Planning!Nodes
    BY DEF Emitted
  <2>2. ASSUME NEW n \in S PROVE dependsOn[n] \cap S # {}
    <3>1. n \in Planning!Nodes /\ ~(dependsOn[n] \subseteq Emitted)
      BY <1>1, <1>2 DEF Levelled
    <3>2. PICK d \in dependsOn[n] : d \notin Emitted
      BY <3>1
    <3>3. d \in 1..Planning!Unknown /\ d # Planning!Unknown
      BY <1>2, <3>1, <3>2, PlanTypes DEF PlanInv, KnownOnly
    <3>4. QED
      BY <3>2, <3>3, PlanConstants
  <2>3. S = {}
    BY <1>2, <2>1, <2>2 DEF Planning!Cyclic
  <2>4. QED
    BY <2>1, <2>3
<1>4. ordered = NodeCount /\ phase' = "planned"
  BY <1>1, <1>2, <1>3, PlanConstants DEF Levelled
<1>5. Planning!TypeOK'
  BY <1>1, <1>4 DEF PlanInv, Planning!TypeOK
<1>6. Levelled' /\ Emitted' = Planning!Nodes
  BY <1>1, <1>2, <1>3 DEF Levelled, Emitted
<1>7. Judged' /\ Grouped'
  BY <1>1, <1>2, <1>4, <1>6, LevelsGoOn DEF Judged, Grouped
<1>8. QED
  BY <1>1, <1>5, <1>7, LevelsGoOn DEF PlanInv

LEMMA PlanStepInv == PlanInv /\ [Planning!Next]_planVars => PlanInv'
<1> SUFFICES ASSUME PlanInv, [Planning!Next]_planVars PROVE PlanInv'
  OBVIOUS
<1>1. CASE UNCHANGED planVars
  <2>1. UNCHANGED <<dependsOn, phase, colour, stack, cycles, remaining, ready, ordered, parallelGroups>>
    BY <1>1 DEF planVars
  <2>2. Levelled' <=> Levelled
    BY <2>1 DEF Levelled, Emitted
  <2>3. Emitted' = Emitted
    BY <2>1 DEF Emitted
  <2>4. Planning!TypeOK' /\ Judged' /\ Grouped'
    BY <2>1, <2>2, <2>3, LevelsGoOn DEF PlanInv, Planning!TypeOK, Judged, Grouped
  <2>5. QED
    BY <2>1, <2>4, LevelsGoOn DEF PlanInv
<1>2. QED
  BY <1>1, StartRootInv, LeaveInv, FollowEdgeInv, SearchEndsInv, LevelInv, LevelsEndInv
     DEF Planning!Next

\* Judged right, and grouped behind what they depend on: the plan is sound.
LEMMA PlanHolds == PlanInv => Planning!PlanIsSound
<1> SUFFICES ASSUME PlanInv PROVE Planning!PlanIsSound
  OBVIOUS
<1>1. /\ phase \in {"search", "levels", "planned", "refused", "shortfall"}
      /\ DOMAIN parallelGroups = 1..Len(parallelGroups)
  BY PlanTypes DEF PlanInv, Planning!TypeOK
<1>2. phase \in {"levels", "planned"} <=>
        phase # "search" /\ ~Planning!Cyclic /\ \A n \in Planning!Nodes : Planning!Unknown \notin dependsOn[n]
  BY <1>1 DEF PlanInv, Judged, KnownOnly
<1>3. ASSUME phase = "planned", NEW n \in Planning!Nodes
      PROVE  \E i \in DOMAIN parallelGroups :
               /\ \A j \in DOMAIN parallelGroups : n \in parallelGroups[j] <=> j = i
               /\ \A d \in dependsOn[n] : \E j \in 1..(i - 1) : d \in parallelGroups[j]
               /\ i > 1 => dependsOn[n] \cap parallelGroups[i - 1] # {}
  <2>1. Levelled /\ n \in Emitted
    BY <1>3 DEF PlanInv, Grouped
  <2>2. PICK i \in 1..Len(parallelGroups) : n \in parallelGroups[i]
    BY <2>1 DEF Emitted
  <2>3. /\ \A j \in 1..Len(parallelGroups) : n \in parallelGroups[j] <=> j = i
        /\ \A d \in dependsOn[n] : \E j \in 1..(i - 1) : d \in parallelGroups[j]
        /\ i > 1 => dependsOn[n] \cap parallelGroups[i - 1] # {}
    BY <2>1, <2>2 DEF Levelled
  <2>4. QED
    BY <1>1, <2>2, <2>3
<1>4. QED
  BY <1>2, <1>3 DEF PlanInv, CyclesFound, Judged, Planning!PlanIsSound

-----------------------------------------------------------------------------
\* The order of execution (ExecutionOrder): the calls of visit are a path of
\* dependencies that are not visited, and what a call has left behind it is visited or
\* is being visited by the next call.
Done == {s \in Order!Steps : Order!Visited(s)}

PathFits ==
  /\ \A i, j \in 1..Len(visiting) : visiting[i].id = visiting[j].id => i = j
  /\ \A i \in 1..Len(visiting) :
       /\ visiting[i].id \notin Done
       /\ visiting[i].left \subseteq dependencies[visiting[i].id]
       /\ i < Len(visiting) => visiting[i + 1].id \in dependencies[visiting[i].id]
       /\ \A d \in dependencies[visiting[i].id] \ visiting[i].left :
            d \in Done \/ (i < Len(visiting) /\ visiting[i + 1].id = d)

\* A set of steps each of which depends on one of them.
Circle(S) == S \in SUBSET Order!Steps /\ \A s \in S : dependencies[s] \cap S # {}

\* Nothing is visited twice or before what it depends on, and so nothing on a circle.
VisitedInOrder ==
  /\ \A j, k \in 1..Len(executionOrder) : executionOrder[j] = executionOrder[k] => j = k
  /\ \A k \in 1..Len(executionOrder) : \A d \in dependencies[executionOrder[k]] :
       \E j \in 1..(k - 1) : executionOrder[j] = d
  /\ \A S : Circle(S) => \A k \in 1..Len(executionOrder) : executionOrder[k] \notin S

OrderInv ==
  /\ Order!TypeOK
  /\ PathFits
  /\ VisitedInOrder
  /\ orderOutcome = "circular" => Order!Circular
  /\ orderOutcome = "ordered" => Done = Order!Steps

VisitCalls == [id : Order!Steps, left : SUBSET Order!Steps]

LEMMA OrderTypes ==
  ASSUME Order!TypeOK
  PROVE  /\ dependencies \in [Order!Steps -> SUBSET Order!Steps]
         /\ visiting \in Seq(VisitCalls) /\ executionOrder \in Seq(Order!Steps)
         /\ Len(visiting) \in Nat /\ Len(executionOrder) \in Nat
         /\ DOMAIN visiting = 1..Len(visiting) /\ DOMAIN executionOrder = 1..Len(executionOrder)
         /\ \A i \in 1..Len(visiting) : visiting[i].id \in Order!Steps /\ visiting[i].left \subseteq Order!Steps
         /\ \A k \in 1..Len(executionOrder) : executionOrder[k] \in Order!Steps
<1>1. dependencies \in [Order!Steps -> SUBSET Order!Steps]
  BY BundleAssumption DEF Order!TypeOK, Order!Steps
<1>2. visiting \in Seq(VisitCalls) /\ executionOrder \in Seq(Order!Steps)
  BY DEF Order!TypeOK, VisitCalls
<1>3. \A i \in 1..Len(visiting) : visiting[i] \in VisitCalls
  BY <1>2
<1>4. QED
  BY <1>1, <1>2, <1>3 DEF VisitCalls

LEMMA OrderInit == Order!Init => OrderInv
<1> SUFFICES ASSUME Order!Init PROVE OrderInv
  OBVIOUS
<1>1. Len(visiting) = 0 /\ Len(executionOrder) = 0
  BY DEF Order!Init
<1>2. Order!TypeOK
  BY DEF Order!Init, Order!TypeOK
<1>3. QED
  BY <1>1, <1>2 DEF Order!Init, OrderInv, PathFits, VisitedInOrder

\* A path that closes is a circle.
LEMMA PathCloses ==
  ASSUME OrderInv, NEW d \in Order!Steps, visiting # <<>>, d \in Order!Top.left, Order!InStack(d)
  PROVE  Order!Circular
<1> DEFINE n == Len(visiting)
<1>1. /\ n \in Nat \ {0} /\ DOMAIN visiting = 1..n
      /\ \A i \in 1..n : visiting[i].id \in Order!Steps
  <2>1. Len(visiting) # 0
    BY OrderTypes, EmptySeq DEF OrderInv
  <2>2. QED
    BY <2>1, OrderTypes DEF OrderInv
<1>2. PICK p \in 1..n : visiting[p].id = d
  BY <1>1 DEF Order!InStack
<1> DEFINE S == {visiting[i].id : i \in p..n}
<1>3. \A i \in p..n : i \in 1..n
  BY <1>1
<1>4. S \in SUBSET Order!Steps /\ d \in S
  BY <1>1, <1>2, <1>3
<1>5. ASSUME NEW i \in p..n
      PROVE  dependencies[visiting[i].id] \cap S # {}
  <2>1. CASE i = n
    <3>1. d \in dependencies[visiting[n].id]
      BY <1>1 DEF OrderInv, PathFits, Order!Top
    <3>2. QED
      BY <2>1, <3>1, <1>4
  <2>2. CASE i # n
    <3>1. i < n /\ i + 1 \in p..n
      BY <2>2, <1>1
    <3>2. visiting[i + 1].id \in dependencies[visiting[i].id] /\ visiting[i + 1].id \in S
      BY <3>1, <1>3 DEF OrderInv, PathFits
    <3>3. QED
      BY <3>2
  <2>3. QED
    BY <2>1, <2>2
<1>6. \A s \in S : dependencies[s] \cap S # {}
  BY <1>5
<1> HIDE DEF S
<1>7. QED
  BY <1>4, <1>6 DEF Order!Circular

LEMMA OrderStepInv == OrderInv /\ [Order!Next]_orderVars => OrderInv'
<1> SUFFICES ASSUME OrderInv, [Order!Next]_orderVars PROVE OrderInv'
  OBVIOUS
<1> DEFINE n == Len(visiting)
           m == Len(executionOrder)
<1>t. /\ dependencies \in [Order!Steps -> SUBSET Order!Steps]
      /\ visiting \in Seq(VisitCalls) /\ executionOrder \in Seq(Order!Steps)
      /\ n \in Nat /\ m \in Nat
      /\ DOMAIN visiting = 1..n /\ DOMAIN executionOrder = 1..m
  BY OrderTypes DEF OrderInv
<1>c. ASSUME NEW s \in Order!Steps
      PROVE  /\ Order!Call(s) \in VisitCalls /\ Order!Call(s).id = s
             /\ Order!Call(s).left = dependencies[s]
  BY <1>t DEF Order!Call, VisitCalls
<1>n. visiting # <<>> => n # 0
  BY <1>t, EmptySeq
<1>u. ASSUME UNCHANGED <<dependencies, executionOrder>>
      PROVE  /\ VisitedInOrder' /\ (Order!Circular <=> Order!Circular')
             /\ Done' = Done
  BY <1>u DEF OrderInv, VisitedInOrder, Circle, Order!Circular, Done, Order!Visited
<1>1. ASSUME NEW s \in Order!Steps, orderOutcome = "visiting", visiting = <<>>, s \notin Done,
             visiting' = <<Order!Call(s)>>, UNCHANGED <<dependencies, executionOrder, orderOutcome>>
      PROVE  OrderInv'
  <2>1. visiting' \in Seq(VisitCalls) /\ Len(visiting') = 1 /\ visiting'[1] = Order!Call(s)
    BY <1>1, <1>c
  <2>2. Order!TypeOK'
    BY <1>1, <2>1 DEF OrderInv, Order!TypeOK, VisitCalls
  <2>3. PathFits'
    <3>1. \A i \in 1..Len(visiting') : i = 1
      BY <2>1
    <3>2. /\ visiting'[1].id \notin Done'
          /\ visiting'[1].left \subseteq dependencies'[visiting'[1].id]
          /\ \A d \in dependencies'[visiting'[1].id] : d \in visiting'[1].left
      BY <1>1, <1>u, <1>c, <2>1
    <3>3. QED
      BY <2>1, <3>1, <3>2 DEF PathFits
  <2>4. QED
    BY <1>1, <1>u, <2>2, <2>3 DEF OrderInv
<1>2. CASE Order!VisitDependency
  <2>0. PICK d \in Order!Steps :
          /\ orderOutcome = "visiting" /\ visiting # <<>> /\ d \in Order!Top.left
          /\ IF d \in Done
             THEN /\ visiting' = Append(Order!BelowTop, [Order!Top EXCEPT !.left = @ \ {d}])
                  /\ UNCHANGED orderOutcome
             ELSE IF Order!InStack(d) THEN orderOutcome' = "circular" /\ UNCHANGED visiting
             ELSE /\ visiting' = Append(Append(Order!BelowTop, [Order!Top EXCEPT !.left = @ \ {d}]),
                                        Order!Call(d))
                  /\ UNCHANGED orderOutcome
          /\ UNCHANGED <<dependencies, executionOrder>>
    BY <1>2 DEF Order!VisitDependency, Done
  <2> DEFINE top == [Order!Top EXCEPT !.left = @ \ {d}]
             adv == Append(Order!BelowTop, top)
  <2>1. /\ n \in Nat \ {0} /\ Order!Top = visiting[n] /\ visiting[n] \in VisitCalls
    BY <1>t, <1>n, <2>0 DEF Order!Top
  <2>2. /\ top \in VisitCalls /\ top.id = visiting[n].id /\ top.left = visiting[n].left \ {d}
    BY <2>1 DEF VisitCalls
  <2> HIDE DEF top
  <2>3. /\ adv \in Seq(VisitCalls) /\ Len(adv) = n /\ adv[n] = top
        /\ \A i \in 1..(n - 1) : adv[i] = visiting[i]
    <3> DEFINE u == SubSeq(visiting, 1, Len(visiting) - 1)
    <3>1. /\ u \in Seq(VisitCalls) /\ Len(u) = Len(visiting) - 1
          /\ \A i \in 1..(Len(visiting) - 1) : u[i] = visiting[i]
      BY <1>t, <2>0, Popped
    <3>2. adv = Append(u, top)
      BY DEF Order!BelowTop
    <3> HIDE DEF u, adv
    <3>3. /\ Append(u, top) \in Seq(VisitCalls) /\ Len(Append(u, top)) = Len(u) + 1
          /\ Append(u, top)[Len(u) + 1] = top
          /\ \A i \in 1..Len(u) : Append(u, top)[i] = u[i]
      BY <2>2, <3>1, Pushed
    <3>4. QED
      BY <2>1, <3>1, <3>2, <3>3
  <2>4. /\ \A i \in 1..n : adv[i].id = visiting[i].id
        /\ \A i \in 1..n : adv[i].left \subseteq visiting[i].left
        /\ \A i \in 1..n : visiting[i].left \subseteq adv[i].left \cup {d}
        /\ \A i \in 1..(n - 1) : adv[i].left = visiting[i].left
    BY <2>1, <2>2, <2>3
  <2>d. d \in dependencies[visiting[n].id]
    BY <2>0, <2>1 DEF OrderInv, PathFits
  <2> HIDE DEF adv
  <2>5. CASE d \in Done
    <3>1. visiting' = adv /\ UNCHANGED orderOutcome
      BY <2>0, <2>5 DEF adv, top
    <3>2. Order!TypeOK'
      BY <2>0, <2>3, <3>1 DEF OrderInv, Order!TypeOK, VisitCalls
    <3>3. PathFits'
      <4>1. Len(visiting') = n
        BY <2>3, <3>1
      <4>2. \A i, j \in 1..n : visiting'[i].id = visiting'[j].id => i = j
        BY <2>4, <3>1 DEF OrderInv, PathFits
      <4>3. ASSUME NEW i \in 1..n
            PROVE  /\ visiting'[i].id \notin Done'
                   /\ visiting'[i].left \subseteq dependencies'[visiting'[i].id]
                   /\ i < n => visiting'[i + 1].id \in dependencies'[visiting'[i].id]
                   /\ \A e \in dependencies'[visiting'[i].id] \ visiting'[i].left :
                        e \in Done' \/ (i < n /\ visiting'[i + 1].id = e)
        <5>1. /\ visiting[i].id \notin Done
              /\ visiting[i].left \subseteq dependencies[visiting[i].id]
              /\ i < n => visiting[i + 1].id \in dependencies[visiting[i].id]
              /\ \A e \in dependencies[visiting[i].id] \ visiting[i].left :
                   e \in Done \/ (i < n /\ visiting[i + 1].id = e)
          BY DEF OrderInv, PathFits
        <5>2. /\ visiting'[i].id = visiting[i].id /\ visiting'[i].left \subseteq visiting[i].left
              /\ visiting[i].left \subseteq visiting'[i].left \cup {d}
              /\ i < n => visiting'[i + 1].id = visiting[i + 1].id
          BY <2>1, <2>4, <3>1
        <5>3. UNCHANGED dependencies /\ Done' = Done
          BY <2>0, <1>u
        <5>4. QED
          BY <5>1, <5>2, <5>3, <2>5
      <4>4. QED
        BY <4>1, <4>2, <4>3 DEF PathFits
    <3>4. QED
      BY <2>0, <3>1, <3>2, <3>3, <1>u DEF OrderInv
  <2>6. CASE d \notin Done /\ Order!InStack(d)
    <3>1. orderOutcome' = "circular" /\ UNCHANGED <<visiting, dependencies, executionOrder>>
      BY <2>0, <2>6
    <3>2. Order!Circular
      BY <2>0, <2>6, PathCloses
    <3>3. PathFits'
      BY <3>1, <1>u DEF OrderInv, PathFits
    <3>4. Order!TypeOK'
      BY <3>1 DEF OrderInv, Order!TypeOK
    <3>5. QED
      BY <3>1, <3>2, <3>3, <3>4, <1>u DEF OrderInv
  <2>7. CASE d \notin Done /\ ~Order!InStack(d)
    <3>1. visiting' = Append(adv, Order!Call(d)) /\ UNCHANGED orderOutcome
      BY <2>0, <2>7 DEF adv, top
    <3>2. /\ visiting' \in Seq(VisitCalls) /\ Len(visiting') = n + 1
          /\ visiting'[n + 1] = Order!Call(d) /\ \A i \in 1..n : visiting'[i] = adv[i]
      BY <1>c, <2>3, <3>1, Pushed
    <3>3. Order!TypeOK'
      BY <2>0, <3>1, <3>2 DEF OrderInv, Order!TypeOK, VisitCalls
    <3>4. /\ visiting'[n + 1].id = d /\ visiting'[n + 1].left = dependencies[d]
          /\ \A i \in 1..n : visiting'[i].id = visiting[i].id
          /\ \A i \in 1..n : visiting[i].id # d
      BY <1>c, <1>t, <2>4, <2>7, <3>2 DEF Order!InStack
    <3>5. \A i, j \in 1..(n + 1) : visiting'[i].id = visiting'[j].id => i = j
      <4>1. \A i \in 1..(n + 1) : i \in 1..n \/ i = n + 1
        BY <2>1
      <4>2. QED
        BY <4>1, <3>4 DEF OrderInv, PathFits
    <3>6. ASSUME NEW i \in 1..n
          PROVE  /\ visiting'[i].id \notin Done'
                 /\ visiting'[i].left \subseteq dependencies'[visiting'[i].id]
                 /\ visiting'[i + 1].id \in dependencies'[visiting'[i].id]
                 /\ \A e \in dependencies'[visiting'[i].id] \ visiting'[i].left :
                      e \in Done' \/ visiting'[i + 1].id = e
      <4>1. /\ visiting[i].id \notin Done
            /\ visiting[i].left \subseteq dependencies[visiting[i].id]
            /\ i < n => visiting[i + 1].id \in dependencies[visiting[i].id]
            /\ \A e \in dependencies[visiting[i].id] \ visiting[i].left :
                 e \in Done \/ (i < n /\ visiting[i + 1].id = e)
        BY DEF OrderInv, PathFits
      <4>2. UNCHANGED dependencies /\ Done' = Done
        BY <2>0, <1>u
      <4>3. CASE i = n
        <5>1. /\ visiting'[i].id = visiting[i].id /\ visiting'[i + 1].id = d
              /\ visiting'[i].left = visiting[i].left \ {d}
          BY <4>3, <2>1, <2>2, <2>3, <3>2, <3>4
        <5>2. QED
          BY <4>1, <4>2, <4>3, <5>1, <2>d
      <4>4. CASE i # n
        <5>1. i \in 1..(n - 1) /\ i + 1 \in 1..n
          BY <4>4, <2>1
        <5>2. /\ visiting'[i].id = visiting[i].id /\ visiting'[i + 1].id = visiting[i + 1].id
              /\ visiting'[i].left = visiting[i].left
          BY <5>1, <2>4, <3>2, <3>4
        <5>3. QED
          BY <4>1, <4>2, <5>1, <5>2
      <4>5. QED
        BY <4>3, <4>4
    <3>7. /\ visiting'[n + 1].id \notin Done'
          /\ visiting'[n + 1].left \subseteq dependencies'[visiting'[n + 1].id]
          /\ dependencies'[visiting'[n + 1].id] \ visiting'[n + 1].left = {}
      BY <2>0, <2>7, <3>4, <1>u
    <3>8. PathFits'
      <4>1. \A i \in 1..(n + 1) : (i \in 1..n /\ i < n + 1) \/ (i = n + 1 /\ ~(i < n + 1))
        BY <2>1
      <4>2. QED
        BY <4>1, <3>2, <3>5, <3>6, <3>7 DEF PathFits
    <3>9. QED
      BY <2>0, <3>1, <3>3, <3>8, <1>u DEF OrderInv
  <2>8. QED
    BY <2>5, <2>6, <2>7
<1>3. CASE Order!Return
  <2>1. /\ orderOutcome = "visiting" /\ visiting # <<>> /\ Order!Top.left = {}
        /\ visiting' = SubSeq(visiting, 1, n - 1) /\ Order!Top = visiting[n]
        /\ executionOrder' = Append(executionOrder, visiting[n].id)
        /\ UNCHANGED <<dependencies, orderOutcome>>
    BY <1>3 DEF Order!Return, Order!BelowTop, Order!Top
  <2>2. /\ n \in Nat \ {0} /\ visiting[n] \in VisitCalls /\ visiting[n].id \in Order!Steps
        /\ visiting' \in Seq(VisitCalls) /\ Len(visiting') = n - 1
        /\ \A i \in 1..(n - 1) : visiting'[i] = visiting[i]
    <3>1. /\ n \in Nat \ {0} /\ visiting[n] \in VisitCalls
          /\ SubSeq(visiting, 1, n - 1) \in Seq(VisitCalls)
          /\ Len(SubSeq(visiting, 1, n - 1)) = n - 1
          /\ \A i \in 1..(n - 1) : SubSeq(visiting, 1, n - 1)[i] = visiting[i]
      BY <1>t, <2>1, Popped
    <3>2. visiting[n].id \in Order!Steps
      BY <3>1 DEF VisitCalls
    <3>3. QED
      BY <2>1, <3>1, <3>2
  <2> DEFINE top == visiting[n].id
  <2>3. /\ executionOrder' \in Seq(Order!Steps) /\ Len(executionOrder') = m + 1
        /\ executionOrder'[m + 1] = top
        /\ \A k \in 1..m : executionOrder'[k] = executionOrder[k]
    BY <1>t, <2>1, <2>2, Pushed
  <2>4. Order!TypeOK'
    BY <2>1, <2>2, <2>3 DEF OrderInv, Order!TypeOK, VisitCalls
  <2>5. \A k \in 1..(m + 1) : k \in 1..m \/ k = m + 1
    BY <1>t
  <2>6. Done' = Done \cup {top}
    <3>1. Done' = {s \in Order!Steps : \E k \in 1..(m + 1) : executionOrder'[k] = s}
      BY <2>3 DEF Done, Order!Visited
    <3>2. Done = {s \in Order!Steps : \E k \in 1..m : executionOrder[k] = s}
      BY <1>t DEF Done, Order!Visited
    <3>3. m + 1 \in 1..(m + 1) /\ \A k \in 1..m : k \in 1..(m + 1)
      BY <1>t
    <3>4. QED
      BY <3>1, <3>2, <3>3, <2>2, <2>3, <2>5
  <2>7. /\ top \notin Done /\ \A d \in dependencies[top] : d \in Done
    <3>1. n \in 1..n /\ ~(n < n)
      BY <2>2
    <3>2. QED
      BY <2>1, <3>1 DEF OrderInv, PathFits
  <2>8. PathFits'
    <3>1. \A i, j \in 1..(n - 1) : visiting'[i].id = visiting'[j].id => i = j
      BY <2>2 DEF OrderInv, PathFits
    <3>2. ASSUME NEW i \in 1..(n - 1)
          PROVE  /\ visiting'[i].id \notin Done'
                 /\ visiting'[i].left \subseteq dependencies'[visiting'[i].id]
                 /\ i < n - 1 => visiting'[i + 1].id \in dependencies'[visiting'[i].id]
                 /\ \A e \in dependencies'[visiting'[i].id] \ visiting'[i].left :
                      e \in Done' \/ (i < n - 1 /\ visiting'[i + 1].id = e)
      <4>1. i \in 1..n /\ n \in 1..n /\ i # n
        BY <2>2
      <4>2. /\ visiting[i].id \notin Done /\ visiting[i].id # top
            /\ visiting[i].left \subseteq dependencies[visiting[i].id]
            /\ i < n => visiting[i + 1].id \in dependencies[visiting[i].id]
            /\ \A e \in dependencies[visiting[i].id] \ visiting[i].left :
                 e \in Done \/ (i < n /\ visiting[i + 1].id = e)
        BY <4>1 DEF OrderInv, PathFits
      <4>3. visiting'[i] = visiting[i] /\ (i < n - 1 => visiting'[i + 1] = visiting[i + 1] /\ i < n)
        BY <2>2
      <4>4. ~(i < n - 1) => i + 1 = n
        BY <2>2
      <4>5. UNCHANGED dependencies
        BY <2>1
      <4>6. QED
        BY <2>6, <4>2, <4>3, <4>4, <4>5
    <3>3. QED
      BY <2>2, <3>1, <3>2 DEF PathFits
  <2>9. VisitedInOrder'
    <3>1. \A k \in 1..m : executionOrder[k] # top
      BY <1>t, <2>2, <2>7 DEF Done, Order!Visited
    <3>2. \A j, k \in 1..(m + 1) : executionOrder'[j] = executionOrder'[k] => j = k
      BY <2>3, <2>5, <3>1 DEF OrderInv, VisitedInOrder
    <3>3. ASSUME NEW k \in 1..(m + 1), NEW d \in dependencies[executionOrder'[k]]
          PROVE  \E j \in 1..(k - 1) : executionOrder'[j] = d
      <4>1. CASE k \in 1..m
        <5>1. PICK j \in 1..(k - 1) : executionOrder[j] = d
          BY <4>1, <2>3, <3>3 DEF OrderInv, VisitedInOrder
        <5>2. j \in 1..m
          BY <4>1, <1>t
        <5>3. QED
          BY <5>1, <5>2, <2>3
      <4>2. CASE k = m + 1
        <5>1. d \in Done
          BY <4>2, <2>1, <2>3, <2>7, <3>3
        <5>2. PICK j \in 1..m : executionOrder[j] = d
          BY <5>1, <1>t DEF Done, Order!Visited
        <5>3. j \in 1..(k - 1)
          BY <4>2, <1>t
        <5>4. QED
          BY <5>2, <5>3, <2>3
      <4>3. QED
        BY <4>1, <4>2, <2>5
    <3>4. ASSUME NEW S, Circle(S)
          PROVE  \A k \in 1..(m + 1) : executionOrder'[k] \notin S
      <4>1. \A k \in 1..m : executionOrder[k] \notin S
        BY <3>4 DEF OrderInv, VisitedInOrder
      <4>2. \A d \in dependencies[top] : d \notin S
        BY <4>1, <2>7, <1>t DEF Done, Order!Visited
      <4>3. top \notin S
        BY <3>4, <4>2 DEF Circle
      <4>4. QED
        BY <4>1, <4>3, <2>3, <2>5
    <3>5. \A S : Circle(S)' <=> Circle(S)
      BY <2>1 DEF Circle
    <3>6. UNCHANGED dependencies
      BY <2>1
    <3>7. QED
      BY <2>3, <3>2, <3>3, <3>4, <3>5, <3>6 DEF VisitedInOrder
  <2>10. QED
    BY <2>1, <2>4, <2>8, <2>9 DEF OrderInv
<1>4. CASE Order!OrderEnds
  <2>1. /\ orderOutcome' = "ordered" /\ Done = Order!Steps
        /\ UNCHANGED <<dependencies, visiting, executionOrder>>
    BY <1>4 DEF Order!OrderEnds, Done
  <2>2. PathFits' /\ Order!TypeOK'
    BY <2>1, <1>u DEF OrderInv, PathFits, Order!TypeOK
  <2>3. QED
    BY <2>1, <2>2, <1>u DEF OrderInv, Order!Steps
<1>5. CASE UNCHANGED orderVars
  <2>1. UNCHANGED <<dependencies, visiting, executionOrder, orderOutcome>>
    BY <1>5 DEF orderVars
  <2>2. PathFits' /\ Order!TypeOK'
    BY <2>1, <1>u DEF OrderInv, PathFits, Order!TypeOK
  <2>3. QED
    BY <2>1, <2>2, <1>u DEF OrderInv, Order!Steps
<1>6. CASE Order!VisitStep
  BY <1>1, <1>6 DEF Order!VisitStep, Done
<1>7. QED
  BY <1>2, <1>3, <1>4, <1>5, <1>6 DEF Order!Next

\* Visited in order, every step, is a topological order; and there is no circle.
LEMMA OrderHolds == OrderInv => Order!OrderIsTopological
<1> SUFFICES ASSUME OrderInv PROVE Order!OrderIsTopological
  OBVIOUS
<1>1. DOMAIN executionOrder = 1..Len(executionOrder)
  BY OrderTypes DEF OrderInv
<1>2. ASSUME orderOutcome = "ordered", Order!Circular PROVE FALSE
  <2>1. PICK S \in SUBSET Order!Steps : S # {} /\ \A s \in S : dependencies[s] \cap S # {}
    BY <1>2 DEF Order!Circular
  <2>2. Circle(S)
    BY <2>1 DEF Circle
  <2>3. PICK s \in S : s \in Order!Steps
    BY <2>1
  <2>4. PICK k \in 1..Len(executionOrder) : executionOrder[k] = s
    BY <1>1, <1>2, <2>3 DEF OrderInv, Done, Order!Visited
  <2>5. QED
    BY <2>2, <2>4 DEF OrderInv, VisitedInOrder
<1>3. ASSUME orderOutcome = "ordered", NEW s \in Order!Steps
      PROVE  \E i \in DOMAIN executionOrder :
               /\ \A j \in DOMAIN executionOrder : executionOrder[j] = s <=> j = i
               /\ \A d \in dependencies[s] : \E j \in 1..(i - 1) : executionOrder[j] = d
  <2>1. PICK i \in 1..Len(executionOrder) : executionOrder[i] = s
    BY <1>1, <1>3 DEF OrderInv, Done, Order!Visited
  <2>2. \A j \in 1..Len(executionOrder) : executionOrder[j] = s <=> j = i
    BY <2>1 DEF OrderInv, VisitedInOrder
  <2>3. \A d \in dependencies[s] : \E j \in 1..(i - 1) : executionOrder[j] = d
    BY <2>1 DEF OrderInv, VisitedInOrder
  <2>4. QED
    BY <1>1, <2>2, <2>3
<1>4. QED
  BY <1>2, <1>3 DEF OrderInv, Order!OrderIsTopological

-----------------------------------------------------------------------------
\* A bundle (Bundles): what has run or is to be recovered has its dependencies
\* behind it, and a recovery that has the bundle for itself finds its steps as it
\* put them down.
RanBehind ==
  /\ \A s \in Bundle!Steps : stepStatus[s] = "completed" => s \in hasCompleted
  /\ \A s \in Bundle!Steps :
       stepStatus[s] \in {"running", "completed", "failed", "recovery"} =>
         dependencies[s] \subseteq hasCompleted
  /\ \A r \in Recoverers : \A s \in failedSteps[r] : dependencies[s] \subseteq hasCompleted

RecoveredAlone ==
  ~overlapped =>
    /\ \A s \in hasCompleted : stepStatus[s] = "completed"
    /\ \A r, q \in Recoverers : failedSteps[r] # {} /\ failedSteps[q] # {} => r = q
    /\ \A r \in Recoverers : \A s \in failedSteps[r] :
         stepStatus[s] = IF Bundle!First(s, failedSteps[r]) THEN "recovery" ELSE "failed"

BundleInv ==
  /\ Bundle!TypeOK
  /\ RanBehind
  /\ RecoveredAlone
  /\ Bundle!CompletedForGood

LEMMA BundleTypes ==
  ASSUME Bundle!TypeOK
  PROVE  /\ dependencies \in [Bundle!Steps -> SUBSET Bundle!Steps]
         /\ stepStatus \in [Bundle!Steps -> Bundle!Statuses]
         /\ Bundle!Range(stepStatus) = {stepStatus[s] : s \in Bundle!Steps}
         /\ \A r \in Recoverers : failedSteps[r] \subseteq Bundle!Steps
  BY BundleAssumption DEF Bundle!TypeOK, Bundle!Steps, Bundle!Range

LEMMA BundleInit == Bundle!Init => BundleInv
<1> SUFFICES ASSUME Bundle!Init PROVE BundleInv
  OBVIOUS
<1>1. Bundle!TypeOK
  BY DEF Bundle!Init, Bundle!TypeOK, Bundle!Statuses
<1>2. RanBehind /\ RecoveredAlone /\ Bundle!CompletedForGood
  BY DEF Bundle!Init, RanBehind, RecoveredAlone, Bundle!CompletedForGood
<1>3. QED
  BY <1>1, <1>2 DEF BundleInv

\* Only a bundle whose steps are completed or skipped is called completed.
LEMMA CompletedMeansDone ==
  ASSUME NEW statuses, Bundle!RecalculateBundleStatus(statuses) = "completed"
  PROVE  Bundle!Range(statuses) \subseteq {"completed", "skipped"}
  BY DEF Bundle!RecalculateBundleStatus

LEMMA BundleStatusTyped ==
  ASSUME NEW statuses
  PROVE  Bundle!RecalculateBundleStatus(statuses) \in
           {"pending", "running", "completed", "partial_failure", "failed", "recovery"}
  BY DEF Bundle!RecalculateBundleStatus

\* While no step is pending, running, failed or in recovery, nothing changes any more.
LEMMA NothingLeft ==
  ASSUME BundleInv, bundleStatus = "completed", ~overlapped
  PROVE  /\ \A s \in Bundle!Steps : stepStatus[s] \in {"completed", "skipped"}
         /\ \A r \in Recoverers : failedSteps[r] = {}
<1>1. \A s \in Bundle!Steps : stepStatus[s] \in {"completed", "skipped"}
  BY BundleTypes DEF BundleInv, Bundle!CompletedForGood
<1>2. \A r \in Recoverers : failedSteps[r] = {}
  BY <1>1, BundleTypes DEF BundleInv, RecoveredAlone
<1>3. QED
  BY <1>1, <1>2

LEMMA BundleStepInv == BundleInv /\ [Bundle!Next]_bundleVars => BundleInv'
<1> SUFFICES ASSUME BundleInv, [Bundle!Next]_bundleVars PROVE BundleInv'
  OBVIOUS
<1>t. /\ dependencies \in [Bundle!Steps -> SUBSET Bundle!Steps]
      /\ stepStatus \in [Bundle!Steps -> Bundle!Statuses]
      /\ recoverable \subseteq Bundle!Steps
      /\ failedSteps \in [Recoverers -> SUBSET recoverable]
      /\ hasCompleted \subseteq Bundle!Steps /\ overlapped \in BOOLEAN
  BY BundleTypes DEF BundleInv, Bundle!TypeOK
<1>e. ASSUME NEW s \in Bundle!Steps, Bundle!Executable(s)
      PROVE  stepStatus[s] = "pending" /\ dependencies[s] \subseteq hasCompleted
  BY <1>e, <1>t DEF BundleInv, RanBehind, Bundle!Executable, Bundle!AreDependenciesMet
\* Steps are started or skipped: pending steps only, and a started one is executable.
<1>p. ASSUME stepStatus' \in [Bundle!Steps -> Bundle!Statuses],
             \A s \in Bundle!Steps :
               stepStatus'[s] # stepStatus[s] =>
                 /\ Bundle!Executable(s) /\ stepStatus'[s] \in {"running", "skipped"},
             UNCHANGED <<dependencies, recoverable, bundleStatus, failedSteps, hasCompleted, overlapped>>
      PROVE  BundleInv'
  <2>1. Bundle!TypeOK'
    BY <1>p DEF BundleInv, Bundle!TypeOK
  <2>2. RanBehind'
    BY <1>p, <1>e, <1>t DEF BundleInv, RanBehind
  <2>3. RecoveredAlone'
    <3> SUFFICES ASSUME ~overlapped PROVE RecoveredAlone'
      BY <1>p DEF RecoveredAlone
    <3>1. /\ \A s \in hasCompleted : stepStatus[s] = "completed"
          /\ \A r, q \in Recoverers : failedSteps[r] # {} /\ failedSteps[q] # {} => r = q
          /\ \A r \in Recoverers : \A s \in failedSteps[r] :
               stepStatus[s] = IF Bundle!First(s, failedSteps[r]) THEN "recovery" ELSE "failed"
      BY DEF BundleInv, RecoveredAlone
    <3>2. \A s \in hasCompleted : stepStatus'[s] = stepStatus[s]
      BY <1>p, <1>e, <1>t, <3>1
    <3>3. \A r \in Recoverers : \A s \in failedSteps[r] : stepStatus'[s] = stepStatus[s]
      BY <1>p, <1>e, <1>t, <3>1
    <3>4. QED
      BY <1>p, <3>1, <3>2, <3>3 DEF RecoveredAlone, Bundle!First
  <2>4. Bundle!CompletedForGood'
    <3> SUFFICES ASSUME bundleStatus = "completed", ~overlapped
                 PROVE  Bundle!Range(stepStatus') \subseteq {"completed", "skipped"}
      BY <1>p DEF Bundle!CompletedForGood, Bundle!Range
    <3>1. \A s \in Bundle!Steps : stepStatus[s] \in {"completed", "skipped"}
      BY NothingLeft
    <3>2. \A s \in Bundle!Steps : stepStatus'[s] = stepStatus[s]
      BY <1>p, <1>e, <3>1
    <3>3. QED
      BY <1>p, <3>1, <3>2 DEF Bundle!Range
  <2>5. QED
    BY <2>1, <2>2, <2>3, <2>4 DEF BundleInv
<1>1. ASSUME NEW denied, Bundle!NothingToRun(denied) PROVE BundleInv'
  <2>1. /\ stepStatus' \in [Bundle!Steps -> Bundle!Statuses]
        /\ \A s \in Bundle!Steps :
             stepStatus'[s] # stepStatus[s] =>
               Bundle!Executable(s) /\ stepStatus'[s] \in {"running", "skipped"}
    BY <1>1, <1>t DEF Bundle!NothingToRun, Bundle!Skipped, Bundle!Statuses
  <2>2. QED
    BY <1>1, <1>p, <2>1 DEF Bundle!NothingToRun
<1>2. ASSUME NEW denied, NEW x \in Bundle!Steps, Bundle!RunNext(x, denied) PROVE BundleInv'
  <2>1. /\ stepStatus' \in [Bundle!Steps -> Bundle!Statuses]
        /\ \A s \in Bundle!Steps :
             stepStatus'[s] # stepStatus[s] =>
               Bundle!Executable(s) /\ stepStatus'[s] \in {"running", "skipped"}
    BY <1>2, <1>t DEF Bundle!RunNext, Bundle!Skipped, Bundle!Statuses
  <2>2. QED
    BY <1>2, <1>p, <2>1 DEF Bundle!RunNext
<1>3. ASSUME NEW x \in Bundle!Steps, NEW outcome \in {"completed", "failed"},
             Bundle!UpdateStepStatus(x, outcome)
      PROVE  BundleInv'
  <2>1. /\ stepStatus[x] = "running" /\ stepStatus' = [stepStatus EXCEPT ![x] = outcome]
        /\ hasCompleted' = IF outcome = "completed" THEN hasCompleted \cup {x} ELSE hasCompleted
        /\ UNCHANGED <<dependencies, recoverable, bundleStatus, failedSteps, overlapped>>
    BY <1>3 DEF Bundle!UpdateStepStatus
  <2>2. Bundle!TypeOK'
    BY <1>t, <2>1 DEF BundleInv, Bundle!TypeOK, Bundle!Statuses
  <2>3. RanBehind'
    BY <1>t, <2>1 DEF BundleInv, RanBehind
  <2>4. RecoveredAlone'
    BY <1>t, <2>1 DEF BundleInv, RecoveredAlone, Bundle!First
  <2>5. Bundle!CompletedForGood'
    BY <2>1, NothingLeft DEF Bundle!CompletedForGood
  <2>6. QED
    BY <2>2, <2>3, <2>4, <2>5 DEF BundleInv
<1>4. ASSUME NEW r \in Recoverers, Bundle!RecoverNothing(r) PROVE BundleInv'
  <2>1. /\ bundleStatus' = Bundle!RecalculateBundleStatus(stepStatus)
        /\ UNCHANGED <<dependencies, stepStatus, recoverable, failedSteps, hasCompleted, overlapped>>
    BY <1>4 DEF Bundle!RecoverNothing
  <2>2. Bundle!TypeOK'
    BY <2>1, BundleStatusTyped DEF BundleInv, Bundle!TypeOK
  <2>3. RanBehind' /\ RecoveredAlone'
    BY <2>1 DEF BundleInv, RanBehind, RecoveredAlone
  <2>4. Bundle!CompletedForGood'
    BY <2>1, CompletedMeansDone DEF Bundle!CompletedForGood
  <2>5. QED
    BY <2>2, <2>3, <2>4 DEF BundleInv
<1>5. ASSUME NEW r \in Recoverers, Bundle!RecoverBundle(r) PROVE BundleInv'
  <2>1. PICK x \in Bundle!Failed :
          /\ failedSteps[r] = {} /\ Bundle!First(x, Bundle!Failed)
          /\ failedSteps' = [failedSteps EXCEPT ![r] = Bundle!Failed]
          /\ stepStatus' = [stepStatus EXCEPT ![x] = "recovery"]
          /\ overlapped' = (overlapped \/ \E other \in Recoverers : failedSteps[other] # {})
          /\ UNCHANGED <<dependencies, recoverable, bundleStatus, hasCompleted>>
    BY <1>5 DEF Bundle!RecoverBundle
  <2>2. /\ Bundle!Failed \subseteq recoverable /\ x \in Bundle!Steps
        /\ \A s \in Bundle!Failed : s \in Bundle!Steps /\ stepStatus[s] = "failed"
    BY <1>t DEF Bundle!Failed
  <2>3. Bundle!TypeOK'
    BY <1>t, <2>1, <2>2 DEF BundleInv, Bundle!TypeOK, Bundle!Statuses
  <2>4. RanBehind'
    <3>1. \A s \in Bundle!Failed : dependencies[s] \subseteq hasCompleted
      BY <2>2 DEF BundleInv, RanBehind
    <3>2. QED
      BY <1>t, <2>1, <2>2, <3>1 DEF BundleInv, RanBehind
  <2>5. RecoveredAlone'
    <3> SUFFICES ASSUME ~overlapped, \A other \in Recoverers : failedSteps[other] = {}
                 PROVE  RecoveredAlone'
      BY <2>1 DEF RecoveredAlone
    <3>1. \A s \in hasCompleted : stepStatus[s] = "completed"
      BY DEF BundleInv, RecoveredAlone
    <3>2. \A s \in hasCompleted : stepStatus'[s] = "completed"
      BY <1>t, <2>1, <2>2, <3>1
    <3>3. \A q \in Recoverers : failedSteps'[q] # {} => q = r
      BY <1>t, <2>1
    <3>4. \A s \in Bundle!Failed : s # x => ~Bundle!First(s, Bundle!Failed)
      BY <1>t, <2>1, <2>2 DEF Bundle!First, Bundle!Steps
    <3>5. \A s \in Bundle!Failed :
            stepStatus'[s] = IF Bundle!First(s, Bundle!Failed) THEN "recovery" ELSE "failed"
      BY <1>t, <2>1, <2>2, <3>4
    <3>6. failedSteps'[r] = Bundle!Failed
      BY <1>t, <2>1
    <3>7. \A q \in Recoverers : \A s \in failedSteps'[q] :
            stepStatus'[s] = IF Bundle!First(s, failedSteps'[q]) THEN "recovery" ELSE "failed"
      BY <3>3, <3>5, <3>6
    <3>8. hasCompleted' = hasCompleted
      BY <2>1
    <3>9. QED
      BY <3>2, <3>3, <3>7, <3>8 DEF RecoveredAlone, Bundle!First
  <2>6. Bundle!CompletedForGood'
    <3>1. bundleStatus = "completed" /\ ~overlapped => FALSE
      BY <2>2, NothingLeft
    <3>2. QED
      BY <2>1, <3>1 DEF Bundle!CompletedForGood
  <2>7. QED
    BY <2>3, <2>4, <2>5, <2>6 DEF BundleInv
<1>6. ASSUME NEW r \in Recoverers, NEW outcome \in {"pending", "failed"},
             Bundle!RecoveryAnswers(r, outcome)
      PROVE  BundleInv'
  <2> DEFINE rest(x) == failedSteps[r] \ {x}
             recovered(x) == [stepStatus EXCEPT ![x] = outcome]
  <2>1. PICK x \in failedSteps[r] :
          /\ Bundle!First(x, failedSteps[r])
          /\ failedSteps' = [failedSteps EXCEPT ![r] = rest(x)]
          /\ \/ /\ rest(x) = {}
                /\ stepStatus' = recovered(x)
                /\ bundleStatus' = Bundle!RecalculateBundleStatus(recovered(x))
             \/ \E next \in rest(x) :
                  /\ Bundle!First(next, rest(x))
                  /\ stepStatus' = [recovered(x) EXCEPT ![next] = "recovery"]
                  /\ UNCHANGED bundleStatus
          /\ UNCHANGED <<dependencies, recoverable, hasCompleted, overlapped>>
    BY <1>6 DEF Bundle!RecoveryAnswers
  <2>2. x \in Bundle!Steps /\ failedSteps[r] \subseteq recoverable /\ rest(x) \subseteq recoverable
    BY <1>t
  <2>3. recovered(x) \in [Bundle!Steps -> Bundle!Statuses]
    BY <1>t DEF Bundle!Statuses
  <2>4. failedSteps' \in [Recoverers -> SUBSET recoverable] /\ failedSteps'[r] = rest(x)
    BY <1>t, <2>1, <2>2
  <2>5. \A q \in Recoverers : failedSteps'[q] \subseteq failedSteps[q]
    BY <1>t, <2>1
  <2>6. \A s \in Bundle!Steps :
          stepStatus'[s] # stepStatus[s] => s = x \/ (s \in rest(x) /\ stepStatus'[s] = "recovery")
    BY <1>t, <2>1
  <2>7. stepStatus'[x] \in {"pending", "failed"}
    BY <1>t, <2>1, <2>2
  <2>8. Bundle!TypeOK'
    <3>1. stepStatus' \in [Bundle!Steps -> Bundle!Statuses]
      BY <2>1, <2>3 DEF Bundle!Statuses
    <3>2. bundleStatus' \in {"pending", "running", "completed", "partial_failure", "failed", "recovery"}
      BY <2>1, BundleStatusTyped DEF BundleInv, Bundle!TypeOK
    <3>3. QED
      BY <2>1, <2>4, <3>1, <3>2 DEF BundleInv, Bundle!TypeOK
  <2>9. RanBehind'
    <3>1. \A s \in failedSteps[r] : dependencies[s] \subseteq hasCompleted
      BY DEF BundleInv, RanBehind
    <3>2. \A s \in Bundle!Steps :
            stepStatus'[s] # stepStatus[s] =>
              /\ stepStatus'[s] # "completed" /\ dependencies[s] \subseteq hasCompleted
      BY <2>6, <2>7, <3>1
    <3>3. UNCHANGED <<dependencies, hasCompleted>>
      BY <2>1
    <3>4. QED
      BY <2>5, <3>2, <3>3 DEF BundleInv, RanBehind
  <2>10. RecoveredAlone'
    <3> SUFFICES ASSUME ~overlapped PROVE RecoveredAlone'
      BY <2>1 DEF RecoveredAlone
    <3>1. /\ \A s \in hasCompleted : stepStatus[s] = "completed"
          /\ \A q, p \in Recoverers : failedSteps[q] # {} /\ failedSteps[p] # {} => q = p
          /\ \A s \in failedSteps[r] : stepStatus[s] \in {"recovery", "failed"}
          /\ \A s \in failedSteps[r] : s # x => stepStatus[s] = "failed"
      <4>1. \A s \in failedSteps[r] : s # x => ~Bundle!First(s, failedSteps[r])
        BY <1>t, <2>1 DEF Bundle!First, Bundle!Steps
      <4>2. QED
        BY <4>1 DEF BundleInv, RecoveredAlone
    <3>2. \A s \in hasCompleted : stepStatus'[s] = "completed"
      BY <1>t, <2>6, <3>1
    <3>3. \A q \in Recoverers : failedSteps'[q] # {} => q = r
      BY <2>1, <2>5, <3>1
    <3>4. \A s \in rest(x) :
            stepStatus'[s] = IF Bundle!First(s, rest(x)) THEN "recovery" ELSE "failed"
      <4>1. SUFFICES ASSUME NEW s \in rest(x)
                     PROVE  stepStatus'[s] = IF Bundle!First(s, rest(x)) THEN "recovery" ELSE "failed"
        OBVIOUS
      <4>2. PICK next \in rest(x) :
              /\ Bundle!First(next, rest(x))
              /\ stepStatus' = [recovered(x) EXCEPT ![next] = "recovery"]
        BY <2>1, <4>1
      <4>3. s \in Bundle!Steps /\ next \in Bundle!Steps /\ stepStatus[s] = "failed"
        BY <1>t, <2>2, <3>1
      <4>4. Bundle!First(s, rest(x)) <=> s = next
        BY <4>2, <4>3 DEF Bundle!First, Bundle!Steps
      <4>5. QED
        BY <1>t, <4>2, <4>3, <4>4
    <3>5. \A q \in Recoverers : \A s \in failedSteps'[q] :
            stepStatus'[s] = IF Bundle!First(s, failedSteps'[q]) THEN "recovery" ELSE "failed"
      BY <2>4, <3>3, <3>4
    <3>6. hasCompleted' = hasCompleted
      BY <2>1
    <3>7. QED
      BY <3>2, <3>3, <3>5, <3>6 DEF RecoveredAlone, Bundle!First
  <2>11. Bundle!CompletedForGood'
    <3>1. bundleStatus = "completed" /\ ~overlapped => FALSE
      BY <2>1, NothingLeft
    <3>2. bundleStatus' = "completed" /\ ~overlapped => bundleStatus' = Bundle!RecalculateBundleStatus(stepStatus')
      BY <2>1, <3>1
    <3>3. QED
      BY <2>1, <3>2, CompletedMeansDone DEF Bundle!CompletedForGood, Bundle!Range
  <2>12. QED
    BY <2>8, <2>9, <2>10, <2>11 DEF BundleInv
<1>7. CASE UNCHANGED bundleVars
  BY <1>7 DEF bundleVars, BundleInv, Bundle!TypeOK, RanBehind, RecoveredAlone, Bundle!CompletedForGood,
      Bundle!First, Bundle!Range
<1>8. QED
  BY <1>1, <1>2, <1>3, <1>4, <1>5, <1>6, <1>7 DEF Bundle!Next

LEMMA RanHolds == BundleInv => Bundle!RunBehindDependencies
  BY DEF BundleInv, RanBehind, RecoveredAlone, Bundle!RunBehindDependencies

\* A dependency is before a step, and so is whatever is before that.
LEMMA BeforeIsClosed ==
  ASSUME Bundle!TypeOK, NEW s \in Bundle!Steps
  PROVE  /\ Bundle!AllBefore(s) \in SUBSET Bundle!Steps
         /\ dependencies[s] \subseteq Bundle!AllBefore(s)
         /\ Bundle!Closed(Bundle!AllBefore(s))
         /\ \A x \in Bundle!AllBefore(s) : Bundle!AllBefore(x) \subseteq Bundle!AllBefore(s)
<1> DEFINE A == Bundle!AllBefore(s)
<1>1. A \in SUBSET Bundle!Steps /\ dependencies[s] \subseteq A
  BY BundleTypes DEF Bundle!AllBefore
<1>2. Bundle!Closed(A)
  <2>1. SUFFICES ASSUME NEW x \in A, NEW d \in dependencies[x] PROVE d \in A
    BY DEF Bundle!Closed
  <2>2. x \in Bundle!Steps /\ d \in Bundle!Steps
    BY <1>1, BundleTypes
  <2>3. ASSUME NEW S \in SUBSET Bundle!Steps, dependencies[s] \subseteq S, Bundle!Closed(S)
        PROVE  d \in S
    <3>1. x \in S
      BY <2>3 DEF Bundle!AllBefore
    <3>2. QED
      BY <2>3, <3>1 DEF Bundle!Closed
  <2>4. QED
    BY <2>2, <2>3 DEF Bundle!AllBefore
<1>3. \A x \in A : dependencies[x] \subseteq A
  BY <1>2 DEF Bundle!Closed
<1>4. \A x \in A : Bundle!AllBefore(x) \subseteq A
  BY <1>1, <1>2, <1>3 DEF Bundle!AllBefore
<1>5. QED
  BY <1>1, <1>2, <1>4

\* A step that waits for nothing that failed, was skipped or is on a circle waits for
\* a pending one of which as much holds and which has less before it.
LEMMA WaitingHolds == BundleInv => Bundle!WaitingHasReason
<1> SUFFICES ASSUME BundleInv,
                    \A s \in Bundle!Steps :
                      ~Bundle!Executable(s) /\ stepStatus[s] \notin {"running", "recovery"},
                    NEW s \in Bundle!Steps, stepStatus[s] = "pending",
                    \A d \in Bundle!AllBefore(s) :
                      stepStatus[d] \notin {"failed", "skipped"} /\ d \notin Bundle!AllBefore(d)
             PROVE  FALSE
  BY DEF Bundle!WaitingHasReason
<1> DEFINE A == Bundle!AllBefore(s)
           P == {x \in A : stepStatus[x] = "pending"}
           C == {Bundle!AllBefore(x) : x \in P}
<1>t. /\ Bundle!TypeOK /\ stepStatus \in [Bundle!Steps -> Bundle!Statuses]
      /\ A \in SUBSET Bundle!Steps /\ dependencies[s] \subseteq A
      /\ \A x \in A : dependencies[x] \subseteq A
  BY BundleTypes, BeforeIsClosed DEF BundleInv, Bundle!Closed
<1>1. ASSUME NEW x \in Bundle!Steps, stepStatus[x] = "pending", dependencies[x] \subseteq A
      PROVE  \E y \in P : y \in dependencies[x]
  <2>1. PICK y \in dependencies[x] : stepStatus[y] # "completed"
    BY <1>1 DEF Bundle!Executable, Bundle!AreDependenciesMet
  <2>2. y \in A /\ stepStatus[y] \in Bundle!Statuses
    BY <1>t, <1>1
  <2>3. stepStatus[y] = "pending"
    BY <1>t, <2>1, <2>2 DEF Bundle!Statuses
  <2>4. QED
    BY <2>2, <2>3
<1>2. C # {} /\ C \subseteq SUBSET Bundle!Steps
  BY <1>t, <1>1, BeforeIsClosed
<1>3. \E Least \in C : \A U \in C : U \subseteq Least => U = Least
  <2>1. IsFiniteSet(Bundle!Steps)
    BY BundleAssumption, FS_Interval DEF Bundle!Steps
  <2> HIDE DEF C
  <2>2. QED
    BY <1>2, <2>1, SmallestSet
<1>4. PICK x \in P : \A y \in P :
        Bundle!AllBefore(y) \subseteq Bundle!AllBefore(x) => Bundle!AllBefore(y) = Bundle!AllBefore(x)
  BY <1>3
<1>5. PICK y \in P : y \in dependencies[x]
  BY <1>t, <1>1
<1>6. /\ y \in Bundle!AllBefore(x) /\ y \notin Bundle!AllBefore(y)
      /\ Bundle!AllBefore(y) \subseteq Bundle!AllBefore(x)
  BY <1>t, <1>5, BeforeIsClosed
<1>7. QED
  BY <1>4, <1>6

-----------------------------------------------------------------------------
\* The network (NetworkSwitcher): a check that no change of the network overtook
\* asks the current one, and what it heard from Horizon is about the current one.
AsksCurrent(c) ==
  c \notin moved.checks /\ checks[c].stage # "idle" =>
    /\ checks[c].asked = current
    /\ checks[c].stage = "rpc" => (checks[c].horizonOk <=> Networks!Answers(current, "horizon"))

NetworkInv ==
  /\ Networks!TypeOK
  /\ \A c \in Checks : AsksCurrent(c)
  /\ Networks!VerdictFits
  /\ Networks!CheckingEnds

\* The two halves of VerdictFits.
VerdictIsTrue ==
  (networkStatus \in Networks!Verdicts /\ ~moved.verdict /\ ~(moved.thrown /\ networkStatus = "down")) =>
    /\ networkStatus = "healthy" <=> Networks!AllAnswer
    /\ networkStatus = "down" <=> ~Networks!SomeAnswer

StaysOnKnown == current.resolved => Networks!Resolved(current.network)

LEMMA TwoHalves == Networks!VerdictFits <=> VerdictIsTrue /\ StaysOnKnown
BY DEF Networks!VerdictFits, VerdictIsTrue, StaysOnKnown

LEMMA NamedIsNetwork ==
  ASSUME NEW name \in Networks!Names, NEW known
  PROVE  /\ Networks!Named(name, known) \in Networks!Networks
         /\ Networks!Named(name, known).network = name
         /\ Networks!Named(name, known).resolved <=> name \in Presets \cup known
<1> DEFINE yes == name \in Presets \cup known
<1>1. yes \in BOOLEAN
  OBVIOUS
<1>2. Networks!Named(name, known) = [network |-> name, resolved |-> yes]
  BY DEF Networks!Named
<1>3. Networks!Named(name, known).resolved = yes
  BY <1>2
<1> HIDE DEF yes
<1>4. Networks!Named(name, known) \in Networks!Networks /\ Networks!Named(name, known).network = name
  BY <1>1, <1>2 DEF Networks!Networks
<1>5. QED
  BY <1>3, <1>4 DEF yes

LEMMA TestnetIsName == Testnet \in Networks!Names
BY NetworkAssumption DEF Networks!Names

\* Nothing answers for a network that is not resolved.
LEMMA UnresolvedIsDown ==
  ~current.resolved => ~Networks!SomeAnswer /\ ~Networks!AllAnswer
BY DEF Networks!SomeAnswer, Networks!AllAnswer, Networks!Answers

Check == [stage : {"idle", "horizon", "rpc"}, asked : Networks!Networks, horizonOk : BOOLEAN]

LEMMA IdleIsCheck == Networks!Idle \in Check /\ Networks!Idle.stage = "idle"
BY TestnetIsName, NamedIsNetwork DEF Networks!Idle, Check

LEMMA NetworkInit == Networks!Init => NetworkInv
<1> SUFFICES ASSUME Networks!Init PROVE NetworkInv
  OBVIOUS
<1>1. /\ current \in Networks!Networks /\ current.network = stored
      /\ current.resolved <=> stored \in Presets \cup customNetworks
  BY NamedIsNetwork DEF Networks!Init
<1>2. checks \in [Checks -> Check] /\ \A c \in Checks : checks[c].stage = "idle"
  BY IdleIsCheck DEF Networks!Init
<1>3. Networks!TypeOK
  BY <1>1, <1>2 DEF Networks!Init, Networks!TypeOK, Networks!Verdicts, Check
<1>4. \A c \in Checks : AsksCurrent(c)
  BY <1>2 DEF AsksCurrent
<1>5. VerdictIsTrue
  BY UnresolvedIsDown DEF Networks!Init, VerdictIsTrue, Networks!Verdicts
<1>6. StaysOnKnown
  BY <1>1, NamedIsNetwork DEF StaysOnKnown, Networks!Resolved, Networks!Init
<1>7. Networks!CheckingEnds
  BY DEF Networks!Init, Networks!CheckingEnds
<1>8. QED
  BY <1>3, <1>4, <1>5, <1>6, <1>7, TwoHalves DEF NetworkInv

\* Another network overtakes the checks under way, and is not judged yet.
LEMMA AdoptKeeps ==
  ASSUME NetworkInv, NEW name \in Networks!Names, Networks!Adopt(name), checks' = checks,
         customNetworks' \subseteq Customs, name \in Presets \cup customNetworks'
  PROVE  NetworkInv'
<1>t. Networks!TypeOK
  BY DEF NetworkInv
<1>h. /\ current' = [network |-> name, resolved |-> TRUE] /\ networkStatus' = "unknown"
      /\ stored' = name /\ moved' = [checks |-> Networks!InFlight, verdict |-> FALSE, thrown |-> FALSE]
  BY DEF Networks!Adopt
<1>1. Networks!InFlight \subseteq Checks
  BY DEF Networks!InFlight
<1>2. Networks!TypeOK'
  BY <1>t, <1>h, <1>1 DEF Networks!TypeOK, Networks!Networks, Networks!Verdicts
<1>3. \A c \in Checks : AsksCurrent(c)'
  BY <1>h DEF AsksCurrent, Networks!InFlight
<1>4. VerdictIsTrue'
  BY <1>h DEF VerdictIsTrue, Networks!Verdicts
<1>5. StaysOnKnown'
  BY <1>h, NamedIsNetwork DEF StaysOnKnown, Networks!Resolved, Networks!Named
<1>6. Networks!CheckingEnds'
  BY <1>h DEF Networks!CheckingEnds
<1>7. QED
  BY <1>2, <1>3, <1>4, <1>5, <1>6, TwoHalves DEF NetworkInv, Networks!VerdictFits, VerdictIsTrue,
     StaysOnKnown

LEMMA NetworkStepInv == NetworkInv /\ [Networks!Next]_networkVars => NetworkInv'
<1> SUFFICES ASSUME NetworkInv, [Networks!Next]_networkVars PROVE NetworkInv'
  OBVIOUS
<1>t. /\ Networks!TypeOK /\ \A c \in Checks : AsksCurrent(c)
      /\ VerdictIsTrue /\ StaysOnKnown /\ Networks!CheckingEnds
  BY TwoHalves DEF NetworkInv
<1>k. checks \in [Checks -> Check] /\ current \in Networks!Networks
  BY <1>t DEF Networks!TypeOK, Check
<1>q. Networks!TypeOK' /\ (\A c \in Checks : AsksCurrent(c)') /\ VerdictIsTrue' /\ StaysOnKnown'
        /\ Networks!CheckingEnds' => NetworkInv'
  BY DEF NetworkInv, Networks!VerdictFits, VerdictIsTrue, StaysOnKnown
<1>1. ASSUME NEW known \in SUBSET Customs, Networks!Restart(known) PROVE NetworkInv'
  <2>1. /\ customNetworks' = known /\ current' = Networks!Named(stored, known)
        /\ networkStatus' = IF current'.resolved THEN "unknown" ELSE "down"
        /\ stored' = stored /\ checks' = [c \in Checks |-> Networks!Idle]
        /\ moved' = [checks |-> {}, verdict |-> FALSE, thrown |-> FALSE]
    BY <1>1 DEF Networks!Restart, Networks!Constructed
  <2>2. stored \in Networks!Names
    BY <1>t DEF Networks!TypeOK
  <2>3. /\ current' \in Networks!Networks /\ current'.network = stored
        /\ current'.resolved <=> stored \in Presets \cup known
    BY <2>1, <2>2, NamedIsNetwork
  <2>4. checks' \in [Checks -> Check] /\ \A c \in Checks : checks'[c].stage = "idle"
    BY <2>1, IdleIsCheck
  <2>5. Networks!TypeOK'
    BY <2>1, <2>2, <2>3, <2>4 DEF Networks!TypeOK, Networks!Verdicts, Check
  <2>6. \A c \in Checks : AsksCurrent(c)'
    BY <2>4 DEF AsksCurrent
  <2>7. VerdictIsTrue'
    BY <2>1 DEF VerdictIsTrue, Networks!Verdicts, Networks!SomeAnswer, Networks!AllAnswer,
       Networks!Answers
  <2>8. StaysOnKnown'
    BY <2>1, <2>2, <2>3, NamedIsNetwork DEF StaysOnKnown, Networks!Resolved, Networks!Named
  <2>9. Networks!CheckingEnds'
    BY <2>1 DEF Networks!CheckingEnds
  <2>10. QED
    BY <2>5, <2>6, <2>7, <2>8, <2>9, <1>q
<1>2. ASSUME NEW name \in Networks!Names, Networks!SwitchTo(name) PROVE NetworkInv'
  <2>1. name \in Presets \cup customNetworks
    BY <1>2, NamedIsNetwork DEF Networks!SwitchTo, Networks!Resolved
  <2>2. QED
    BY <1>2, <2>1, <1>t, AdoptKeeps DEF Networks!SwitchTo, Networks!TypeOK
<1>3. ASSUME NEW name \in Customs, Networks!AddCustomNetwork(name) PROVE NetworkInv'
  <2>1. /\ customNetworks' = customNetworks \cup {name}
        /\ UNCHANGED <<current, networkStatus, stored, checks, moved>>
    BY <1>3 DEF Networks!AddCustomNetwork
  <2>2. Networks!TypeOK'
    BY <2>1, <1>t DEF Networks!TypeOK
  <2>3. \A c \in Checks : AsksCurrent(c)'
    BY <2>1, <1>t DEF AsksCurrent, Networks!Answers
  <2>4. VerdictIsTrue'
    BY <2>1, <1>t DEF VerdictIsTrue, Networks!SomeAnswer, Networks!AllAnswer, Networks!Answers
  <2>5. StaysOnKnown'
    BY <2>1, <1>t DEF StaysOnKnown, Networks!Resolved, Networks!Named
  <2>6. Networks!CheckingEnds'
    BY <2>1, <1>t DEF Networks!CheckingEnds, Networks!InFlight
  <2>7. QED
    BY <2>2, <2>3, <2>4, <2>5, <2>6, <1>q
<1>4. ASSUME NEW name \in Customs, Networks!RemoveCustomNetwork(name) PROVE NetworkInv'
  <2>1. customNetworks' = customNetworks \ {name} /\ checks' = checks
    BY <1>4 DEF Networks!RemoveCustomNetwork
  <2>2. CASE current.network = name
    <3>1. Networks!Adopt(Testnet)
      BY <1>4, <2>2 DEF Networks!RemoveCustomNetwork
    <3>2. QED
      BY <2>1, <3>1, <1>t, TestnetIsName, NetworkAssumption, AdoptKeeps DEF Networks!TypeOK
  <2>3. CASE current.network # name
    <3>1. UNCHANGED <<current, networkStatus, stored, checks, moved>>
      BY <1>4, <2>1, <2>3 DEF Networks!RemoveCustomNetwork
    <3>2. Networks!TypeOK'
      BY <2>1, <3>1, <1>t DEF Networks!TypeOK
    <3>3. \A c \in Checks : AsksCurrent(c)'
      BY <3>1, <1>t DEF AsksCurrent, Networks!Answers
    <3>4. VerdictIsTrue'
      BY <3>1, <1>t DEF VerdictIsTrue, Networks!SomeAnswer, Networks!AllAnswer, Networks!Answers
    <3>5. StaysOnKnown'
      BY <2>1, <2>3, <3>1, <1>t DEF StaysOnKnown, Networks!Resolved, Networks!Named
    <3>6. Networks!CheckingEnds'
      BY <3>1, <1>t DEF Networks!CheckingEnds, Networks!InFlight
    <3>7. QED
      BY <3>2, <3>3, <3>4, <3>5, <3>6, <1>q
  <2>4. QED
    BY <2>2, <2>3
<1>5. ASSUME NEW c \in Checks, Networks!CheckHealth(c) PROVE NetworkInv'
  <2> DEFINE k == [stage |-> "horizon", asked |-> current, horizonOk |-> FALSE]
  <2>1. /\ networkStatus' = "checking" /\ checks' = [checks EXCEPT ![c] = k]
        /\ moved' = [moved EXCEPT !.checks = @ \ {c}, !.thrown = FALSE]
        /\ UNCHANGED <<customNetworks, current, stored>>
    BY <1>5 DEF Networks!CheckHealth
  <2>2. k \in Check /\ k.stage = "horizon" /\ k.asked = current
    BY <1>k DEF Check
  <2> HIDE DEF k
  <2>3. checks' \in [Checks -> Check] /\ checks'[c] = k /\ \A d \in Checks \ {c} : checks'[d] = checks[d]
    BY <2>1, <2>2, <1>k
  <2>4. /\ moved' \in [checks : SUBSET Checks, verdict : BOOLEAN, thrown : BOOLEAN]
        /\ \A d \in Checks \ {c} : d \notin moved'.checks => d \notin moved.checks
    BY <2>1, <1>t DEF Networks!TypeOK
  <2>5. Networks!TypeOK'
    BY <2>1, <2>3, <2>4, <1>t DEF Networks!TypeOK, Check
  <2>6. \A d \in Checks : AsksCurrent(d)'
    BY <2>1, <2>2, <2>3, <2>4, <1>t DEF AsksCurrent, Networks!Answers
  <2>7. VerdictIsTrue'
    BY <2>1 DEF VerdictIsTrue, Networks!Verdicts
  <2>8. StaysOnKnown'
    BY <2>1, <1>t DEF StaysOnKnown, Networks!Resolved, Networks!Named
  <2>9. Networks!CheckingEnds'
    BY <2>2, <2>3 DEF Networks!CheckingEnds, Networks!InFlight
  <2>10. QED
    BY <2>5, <2>6, <2>7, <2>8, <2>9, <1>q
<1>6. ASSUME NEW c \in Checks, Networks!HorizonAnswers(c) PROVE NetworkInv'
  <2> DEFINE k == [stage |-> "rpc", asked |-> current,
                   horizonOk |-> Networks!Answers(checks[c].asked, "horizon")]
  <2>1. /\ checks' = [checks EXCEPT ![c] = k] /\ checks[c].stage = "horizon"
        /\ UNCHANGED <<customNetworks, current, networkStatus, stored, moved>>
    BY <1>6 DEF Networks!HorizonAnswers
  <2>a. checks[c].asked \in Networks!Networks
    BY <1>k DEF Check
  <2>b. Networks!Answers(checks[c].asked, "horizon") \in BOOLEAN
    BY <2>a DEF Networks!Answers, Networks!Networks
  <2>2. k \in Check /\ k.stage = "rpc" /\ k.asked = current
        /\ k.horizonOk = Networks!Answers(checks[c].asked, "horizon")
    BY <1>k, <2>b DEF Check
  <2> HIDE DEF k
  <2>3. checks' \in [Checks -> Check] /\ checks'[c] = k /\ \A d \in Checks \ {c} : checks'[d] = checks[d]
    BY <2>1, <2>2, <1>k
  <2>5. Networks!TypeOK'
    BY <2>1, <2>3, <1>t DEF Networks!TypeOK, Check
  <2>c. AsksCurrent(c)'
    <3>1. c \notin moved.checks => checks[c].asked = current
      BY <2>1, <1>t DEF AsksCurrent
    <3>2. QED
      BY <2>1, <2>2, <2>3, <3>1 DEF AsksCurrent, Networks!Answers
  <2>6. \A d \in Checks : AsksCurrent(d)'
    BY <2>c, <2>1, <2>3, <1>t DEF AsksCurrent, Networks!Answers
  <2>7. VerdictIsTrue'
    BY <2>1, <1>t DEF VerdictIsTrue, Networks!SomeAnswer, Networks!AllAnswer, Networks!Answers
  <2>8. StaysOnKnown'
    BY <2>1, <1>t DEF StaysOnKnown, Networks!Resolved, Networks!Named
  <2>9. Networks!CheckingEnds'
    BY <2>2, <2>3 DEF Networks!CheckingEnds, Networks!InFlight
  <2>10. QED
    BY <2>5, <2>6, <2>7, <2>8, <2>9, <1>q
<1>7. ASSUME NEW c \in Checks, NEW throws \in BOOLEAN, Networks!RpcAnswers(c, throws) PROVE NetworkInv'
  <2> DEFINE h == checks[c].horizonOk
             r == Networks!Answers(checks[c].asked, "rpc")
  <2>1. /\ checks[c].stage = "rpc" /\ networkStatus' = IF throws THEN "down" ELSE Networks!Verdict(h, r)
        /\ checks' = [checks EXCEPT ![c] = Networks!Idle]
        /\ moved' = [checks |-> moved.checks \ {c}, verdict |-> c \in moved.checks, thrown |-> throws]
        /\ UNCHANGED <<customNetworks, current, stored>>
    BY <1>7 DEF Networks!RpcAnswers
  <2>2. networkStatus' \in Networks!Verdicts
    BY <2>1 DEF Networks!Verdict, Networks!Verdicts
  <2>3. checks' \in [Checks -> Check] /\ checks'[c] = Networks!Idle
        /\ \A d \in Checks \ {c} : checks'[d] = checks[d]
    BY <2>1, <1>k, IdleIsCheck
  <2>4. /\ moved' \in [checks : SUBSET Checks, verdict : BOOLEAN, thrown : BOOLEAN]
        /\ \A d \in Checks \ {c} : d \notin moved'.checks => d \notin moved.checks
        /\ (moved'.verdict <=> c \in moved.checks) /\ moved'.thrown = throws
    <3> DEFINE yes == c \in moved.checks
               rest == moved.checks \ {c}
    <3>1. yes \in BOOLEAN /\ rest \in SUBSET Checks
      BY <1>t DEF Networks!TypeOK
    <3>2. moved' = [checks |-> rest, verdict |-> yes, thrown |-> throws]
      BY <2>1
    <3>3. moved'.verdict = yes /\ moved'.checks = rest /\ moved'.thrown = throws
      BY <3>2
    <3>4. moved' \in [checks : SUBSET Checks, verdict : BOOLEAN, thrown : BOOLEAN]
      <4> HIDE DEF yes, rest
      <4>1. QED
        BY <3>1, <3>2
    <3>5. QED
      BY <3>3, <3>4
  <2>5. Networks!TypeOK'
    BY <2>1, <2>2, <2>3, <2>4, <1>t DEF Networks!TypeOK, Check
  <2>6. \A d \in Checks : AsksCurrent(d)'
    BY <2>1, <2>3, <2>4, <1>t, IdleIsCheck DEF AsksCurrent, Networks!Answers
  <2>7. VerdictIsTrue'
    <3> SUFFICES ASSUME c \notin moved.checks, ~throws
                 PROVE  /\ networkStatus' = "healthy" <=> Networks!AllAnswer
                        /\ networkStatus' = "down" <=> ~Networks!SomeAnswer
      BY <2>1, <2>4 DEF VerdictIsTrue, Networks!AllAnswer, Networks!SomeAnswer, Networks!Answers
    <3>1. checks[c].asked = current /\ (h <=> Networks!Answers(current, "horizon"))
      BY <2>1, <1>t DEF AsksCurrent
    <3>2. r <=> Networks!Answers(current, "rpc")
      BY <3>1
    <3>3. /\ Networks!AllAnswer <=> h /\ r
          /\ Networks!SomeAnswer <=> h \/ r
      BY <3>1, <3>2 DEF Networks!AllAnswer, Networks!SomeAnswer
    <3> HIDE DEF h, r
    <3>4. QED
      BY <2>1, <3>3 DEF Networks!Verdict
  <2>8. StaysOnKnown'
    BY <2>1, <1>t DEF StaysOnKnown, Networks!Resolved, Networks!Named
  <2>9. Networks!CheckingEnds'
    BY <2>2 DEF Networks!CheckingEnds, Networks!Verdicts
  <2>10. QED
    BY <2>5, <2>6, <2>7, <2>8, <2>9, <1>q
<1>8. ASSUME Networks!CheckEndsAtOnce \/ \E throws \in BOOLEAN : Networks!CheckWithoutFetch(throws)
      PROVE  NetworkInv'
  <2>1. /\ UNCHANGED <<customNetworks, current, stored, checks>>
        /\ \E yes \in BOOLEAN : /\ moved' = [moved EXCEPT !.thrown = yes]
                                /\ networkStatus' \in (IF yes THEN {"checking", "down"} ELSE {"unknown"})
    BY <1>8 DEF Networks!CheckEndsAtOnce, Networks!CheckWithoutFetch
  <2>2. PICK yes \in BOOLEAN : /\ moved' = [moved EXCEPT !.thrown = yes]
                               /\ networkStatus' \in (IF yes THEN {"checking", "down"} ELSE {"unknown"})
    BY <2>1
  <2>3. /\ moved' \in [checks : SUBSET Checks, verdict : BOOLEAN, thrown : BOOLEAN]
        /\ moved'.checks = moved.checks /\ moved'.thrown = yes
    BY <2>2, <1>t DEF Networks!TypeOK
  <2>4. Networks!TypeOK'
    BY <2>1, <2>2, <2>3, <1>t DEF Networks!TypeOK, Networks!Verdicts
  <2>5. \A c \in Checks : AsksCurrent(c)'
    BY <2>1, <2>3, <1>t DEF AsksCurrent, Networks!Answers
  <2>6. VerdictIsTrue' /\ Networks!CheckingEnds'
    BY <2>2, <2>3 DEF VerdictIsTrue, Networks!CheckingEnds, Networks!Verdicts
  <2>7. StaysOnKnown'
    BY <2>1, <1>t DEF StaysOnKnown, Networks!Resolved, Networks!Named
  <2>8. QED
    BY <2>4, <2>5, <2>6, <2>7, <1>q
<1>9. CASE UNCHANGED networkVars
  <2>1. UNCHANGED <<customNetworks, current, networkStatus, stored, checks, moved>>
    BY <1>9 DEF networkVars
  <2>2. Networks!TypeOK' /\ Networks!CheckingEnds'
    BY <2>1, <1>t DEF Networks!TypeOK, Networks!CheckingEnds, Networks!InFlight
  <2>3. (\A c \in Checks : AsksCurrent(c)') /\ VerdictIsTrue'
    BY <2>1, <1>t DEF AsksCurrent, VerdictIsTrue, Networks!SomeAnswer, Networks!AllAnswer,
       Networks!Answers
  <2>4. StaysOnKnown'
    BY <2>1, <1>t DEF StaysOnKnown, Networks!Resolved, Networks!Named
  <2>5. QED
    BY <2>2, <2>3, <2>4, <1>q
<1>10. QED
  BY <1>1, <1>2, <1>3, <1>4, <1>5, <1>6, <1>7, <1>8, <1>9 DEF Networks!Next

-----------------------------------------------------------------------------
\* The session of a WalletConnect adapter (WalletConnectSession): what a disconnect()
\* is ending was not taken up again, or it is known to have been.
WalletInv ==
  /\ Wallet!TypeOK /\ Wallet!HeldIsLive
  /\ walletSession # NoSession => walletSession \in used
  /\ \A c \in Calls : walletCalls[c].stage = "ending" =>
       /\ walletCalls[c].topic \in used
       /\ walletSession = walletCalls[c].topic => walletSession \in {NoSession} \cup revived

WalletCall == [stage : {"idle", "init", "approval", "ending", "signing"},
               topic : Sessions \cup {NoSession}]

LEMMA WalletInit == Wallet!Init => WalletInv
<1> SUFFICES ASSUME Wallet!Init PROVE WalletInv
  OBVIOUS
<1>1. walletCalls \in [Calls -> WalletCall] /\ \A c \in Calls : walletCalls[c].stage = "idle"
  BY DEF Wallet!Init, Wallet!Idle, WalletCall
<1>2. live \subseteq Sessions
  BY DEF Wallet!Init
<1>3. Wallet!TypeOK
  BY <1>1, <1>2 DEF Wallet!Init, Wallet!TypeOK, WalletCall
<1>4. QED
  BY <1>1, <1>3 DEF Wallet!Init, WalletInv, Wallet!HeldIsLive

LEMMA WalletStepInv == WalletInv /\ [Wallet!Next]_walletVars => WalletInv'
<1> SUFFICES ASSUME WalletInv, [Wallet!Next]_walletVars PROVE WalletInv'
  OBVIOUS
<1>t. /\ Wallet!TypeOK /\ Wallet!HeldIsLive
      /\ walletSession # NoSession => walletSession \in used
      /\ \A c \in Calls : walletCalls[c].stage = "ending" =>
           /\ walletCalls[c].topic \in used
           /\ walletSession = walletCalls[c].topic => walletSession \in {NoSession} \cup revived
  BY DEF WalletInv
<1>k. walletCalls \in [Calls -> WalletCall]
  BY <1>t DEF Wallet!TypeOK, WalletCall
<1>i. Wallet!Idle \in WalletCall /\ Wallet!Idle.stage = "idle"
  BY DEF Wallet!Idle, WalletCall
<1>p. ASSUME NEW c \in Calls, NEW k \in WalletCall, walletCalls' = [walletCalls EXCEPT ![c] = k]
      PROVE  /\ walletCalls' \in [Calls -> WalletCall] /\ walletCalls'[c] = k
             /\ \A d \in Calls : d # c => walletCalls'[d] = walletCalls[d]
  BY <1>p, <1>k
<1>r. ASSUME NEW c \in Calls, Wallet!RestoreOrPair(c), client' \in BOOLEAN, UNCHANGED <<live, used>>
      PROVE  WalletInv'
  <2>1. ASSUME NEW s \in live, walletSession' = s, walletCalls' = [walletCalls EXCEPT ![c] = Wallet!Idle],
               revived' = IF s \in Wallet!Ending THEN revived \cup {s} ELSE revived
        PROVE  WalletInv'
    <3>1. /\ walletCalls' \in [Calls -> WalletCall] /\ walletCalls'[c] = Wallet!Idle
          /\ \A d \in Calls : d # c => walletCalls'[d] = walletCalls[d]
      BY <2>1, <1>i, <1>p
    <3>2. s \in used /\ s \in Sessions
      BY <1>t DEF Wallet!TypeOK
    <3>3. revived \subseteq revived' /\ revived' \subseteq used
      BY <2>1, <3>2, <1>t DEF Wallet!TypeOK
    <3>4. Wallet!TypeOK'
      BY <1>r, <2>1, <3>1, <3>2, <3>3, <1>t DEF Wallet!TypeOK, WalletCall
    <3>5. Wallet!HeldIsLive'
      BY <1>r, <2>1 DEF Wallet!HeldIsLive
    <3>6. ASSUME NEW d \in Calls, walletCalls'[d].stage = "ending"
          PROVE  /\ walletCalls'[d].topic \in used'
                 /\ walletSession' = walletCalls'[d].topic => walletSession' \in {NoSession} \cup revived'
      <4>1. d # c /\ walletCalls'[d] = walletCalls[d]
        BY <3>1, <3>6, <1>i
      <4>2. walletCalls[d].topic \in Wallet!Ending
        BY <3>6, <4>1 DEF Wallet!Ending
      <4>3. QED
        BY <1>r, <2>1, <3>6, <4>1, <4>2, <1>t
    <3>7. QED
      BY <1>r, <2>1, <3>2, <3>4, <3>5, <3>6 DEF WalletInv
  <2>2. ASSUME walletCalls' = [walletCalls EXCEPT ![c] = Wallet!At("approval", NoSession)],
               UNCHANGED <<walletSession, revived>>
        PROVE  WalletInv'
    <3> DEFINE k == Wallet!At("approval", NoSession)
    <3>0. k \in WalletCall /\ k.stage = "approval"
      BY DEF Wallet!At, WalletCall
    <3>1. /\ walletCalls' \in [Calls -> WalletCall] /\ walletCalls'[c] = k
          /\ \A d \in Calls : d # c => walletCalls'[d] = walletCalls[d]
      BY <2>2, <3>0, <1>p
    <3> HIDE DEF k
    <3>2. Wallet!TypeOK'
      BY <1>r, <2>2, <3>1, <1>t DEF Wallet!TypeOK, WalletCall
    <3>3. QED
      BY <1>r, <2>2, <3>0, <3>1, <3>2, <1>t DEF WalletInv, Wallet!HeldIsLive
  <2>3. QED
    BY <1>r, <2>1, <2>2 DEF Wallet!RestoreOrPair
\* A call that moves on and ends nothing, while the rest stays.
<1>m. ASSUME NEW c \in Calls, NEW k \in WalletCall, k.stage # "ending",
             walletCalls' = [walletCalls EXCEPT ![c] = k],
             UNCHANGED <<client, walletSession, live, used, revived>>
      PROVE  WalletInv'
  <2>1. /\ walletCalls' \in [Calls -> WalletCall] /\ walletCalls'[c] = k
        /\ \A d \in Calls : d # c => walletCalls'[d] = walletCalls[d]
    BY <1>m, <1>p
  <2>2. Wallet!TypeOK'
    BY <1>m, <2>1, <1>t DEF Wallet!TypeOK, WalletCall
  <2>3. QED
    BY <1>m, <2>1, <2>2, <1>t DEF WalletInv, Wallet!HeldIsLive
<1>1. ASSUME NEW c \in Calls, Wallet!Connect(c) PROVE WalletInv'
  <2>1. Wallet!At("init", NoSession) \in WalletCall /\ Wallet!At("init", NoSession).stage # "ending"
    BY DEF Wallet!At, WalletCall
  <2>2. CASE client
    <3>1. Wallet!RestoreOrPair(c) /\ client' \in BOOLEAN /\ UNCHANGED <<live, used>>
      BY <1>1, <2>2, <1>t DEF Wallet!Connect, Wallet!TypeOK
    <3>2. QED
      BY <3>1, <1>r
  <2>3. CASE ~client
    <3>1. /\ walletCalls' = [walletCalls EXCEPT ![c] = Wallet!At("init", NoSession)]
          /\ UNCHANGED <<client, walletSession, live, used, revived>>
      BY <1>1, <2>3 DEF Wallet!Connect
    <3>2. QED
      BY <3>1, <2>1, <1>m
  <2>4. QED
    BY <2>2, <2>3
<1>2. ASSUME NEW c \in Calls, Wallet!ClientReady(c) PROVE WalletInv'
  BY <1>2, <1>r DEF Wallet!ClientReady
<1>3. ASSUME NEW c \in Calls, NEW s \in Sessions, Wallet!Approve(c, s) PROVE WalletInv'
  <2>1. /\ walletSession' = s /\ live' = live \cup {s} /\ used' = used \cup {s} /\ s \notin used
        /\ walletCalls' = [walletCalls EXCEPT ![c] = Wallet!Idle]
        /\ UNCHANGED <<client, revived>>
    BY <1>3 DEF Wallet!Approve
  <2>2. /\ walletCalls' \in [Calls -> WalletCall] /\ walletCalls'[c] = Wallet!Idle
        /\ \A d \in Calls : d # c => walletCalls'[d] = walletCalls[d]
    BY <2>1, <1>i, <1>p
  <2>3. Wallet!TypeOK'
    BY <2>1, <2>2, <1>t DEF Wallet!TypeOK, WalletCall
  <2>4. ASSUME NEW d \in Calls, walletCalls'[d].stage = "ending"
        PROVE  walletCalls'[d].topic \in used' /\ walletSession' # walletCalls'[d].topic
    BY <2>1, <2>2, <2>4, <1>t, <1>i
  <2>5. QED
    BY <2>1, <2>3, <2>4 DEF WalletInv, Wallet!HeldIsLive
<1>4. ASSUME NEW c \in Calls, Wallet!ConnectFails(c) \/ Wallet!Signed(c) PROVE WalletInv'
  <2>1. /\ walletCalls' = [walletCalls EXCEPT ![c] = Wallet!Idle]
        /\ UNCHANGED <<client, walletSession, live, used, revived>>
    BY <1>4 DEF Wallet!ConnectFails, Wallet!Signed
  <2>2. QED
    BY <2>1, <1>i, <1>m
<1>5. ASSUME NEW c \in Calls, Wallet!Disconnect(c) PROVE WalletInv'
  <2> DEFINE k == Wallet!At("ending", walletSession)
  <2>1. /\ walletSession' = NoSession /\ UNCHANGED <<client, live, used, revived>>
        /\ \/ walletSession # NoSession /\ walletCalls' = [walletCalls EXCEPT ![c] = k]
           \/ walletCalls' = walletCalls
    BY <1>5 DEF Wallet!Disconnect
  <2>2. k \in WalletCall /\ k.topic = walletSession
    BY <1>t DEF Wallet!At, WalletCall, Wallet!TypeOK
  <2> HIDE DEF k
  <2>3. /\ walletCalls' \in [Calls -> WalletCall]
        /\ \A d \in Calls :
             \/ walletCalls'[d] = walletCalls[d]
             \/ walletSession # NoSession /\ walletCalls'[d] = k
    <3>1. CASE walletCalls' = walletCalls
      BY <3>1, <1>k
    <3>2. CASE walletSession # NoSession /\ walletCalls' = [walletCalls EXCEPT ![c] = k]
      <4>1. /\ walletCalls' \in [Calls -> WalletCall] /\ walletCalls'[c] = k
            /\ \A d \in Calls : d # c => walletCalls'[d] = walletCalls[d]
        BY <2>2, <3>2, <1>p
      <4>2. QED
        BY <3>2, <4>1
    <3>3. QED
      BY <2>1, <3>1, <3>2
  <2>4. Wallet!TypeOK'
    BY <2>1, <2>3, <1>t DEF Wallet!TypeOK, WalletCall
  <2>5. QED
    BY <2>1, <2>2, <2>3, <2>4, <1>t DEF WalletInv, Wallet!HeldIsLive
<1>6. ASSUME NEW c \in Calls, Wallet!DisconnectSettles(c) PROVE WalletInv'
  <2>1. /\ walletCalls[c].stage = "ending" /\ live' \in {live, live \ {walletCalls[c].topic}}
        /\ walletCalls' = [walletCalls EXCEPT ![c] = Wallet!Idle]
        /\ UNCHANGED <<client, walletSession, used, revived>>
    BY <1>6 DEF Wallet!DisconnectSettles
  <2>2. /\ walletCalls' \in [Calls -> WalletCall] /\ walletCalls'[c] = Wallet!Idle
        /\ \A d \in Calls : d # c => walletCalls'[d] = walletCalls[d]
    BY <2>1, <1>i, <1>p
  <2>3. Wallet!TypeOK'
    BY <2>1, <2>2, <1>t DEF Wallet!TypeOK, WalletCall
  <2>4. Wallet!HeldIsLive'
    BY <2>1, <1>t DEF Wallet!HeldIsLive
  <2>5. QED
    BY <2>1, <2>2, <2>3, <2>4, <1>t, <1>i DEF WalletInv
<1>7. ASSUME NEW c \in Calls, Wallet!SignTransaction(c) PROVE WalletInv'
  <2>1. /\ walletCalls' = [walletCalls EXCEPT ![c] = Wallet!At("signing", walletSession)]
        /\ UNCHANGED <<client, walletSession, live, used, revived>>
    BY <1>7 DEF Wallet!SignTransaction
  <2>2. Wallet!At("signing", walletSession) \in WalletCall
        /\ Wallet!At("signing", walletSession).stage # "ending"
    BY <1>t DEF Wallet!At, WalletCall, Wallet!TypeOK
  <2>3. QED
    BY <2>1, <2>2, <1>m
<1>8. ASSUME NEW s \in Sessions, Wallet!SessionDelete(s) PROVE WalletInv'
  <2>1. walletSession' = NoSession /\ live' = live \ {s} /\ UNCHANGED <<client, used, walletCalls, revived>>
    BY <1>8 DEF Wallet!SessionDelete, Wallet!OnDelete
  <2>2. Wallet!TypeOK'
    BY <2>1, <1>t DEF Wallet!TypeOK
  <2>3. QED
    BY <2>1, <2>2, <1>t DEF WalletInv, Wallet!HeldIsLive
<1>9. CASE UNCHANGED walletVars
  BY <1>9, <1>t DEF walletVars, WalletInv, Wallet!TypeOK, Wallet!HeldIsLive
<1>10. QED
  BY <1>1, <1>2, <1>3, <1>4, <1>5, <1>6, <1>7, <1>8, <1>9 DEF Wallet!Next

-----------------------------------------------------------------------------
\* The reads of a contract (ContractReads). Revisions count the events seen and the
\* modifications marked, so that they stay within twice the modifications.
Counted(entry) ==
  /\ entry \in Reads!Entry
  /\ entry.lastEvent <= indexed
  /\ entry.revision <= entry.lastEvent + marked

ReadCall == [stage : {"idle", "checking", "keyed", "waiting", "asked", "answered", "served"},
             entry : Reads!Entry, value : Reads!Versions, floor : Reads!Versions]

\* The ledger is ahead of whoever looks at it.
LedgerIsAhead ==
  /\ version \in 0..MaxVersion /\ indexed \in 0..version /\ marked \in 0..version
  /\ submitted \in 0..version /\ (submitted # 0 => marked < submitted)
  /\ Counted(tracker)
  /\ \A c \in Calls : readCalls[c].floor <= marked
  /\ \A c \in Calls : readCalls[c].stage = "checking" => Counted(readCalls[c].entry)

HasValue(c) == readCalls[c].stage \in {"answered", "served"}

Cached(r) == cache[r] # NotCached

\* As long as no check undid a revision: nothing is known under a revision that is
\* still to come, what is known under the present one shows all that is marked, and
\* what is known under a reader's revision shows what the reader has to see.
RevisionsAreTrue ==
  /\ \A c \in Calls : Reads!Key(c) <= tracker.revision
  /\ \A r \in Reads!Revisions : Cached(r) => r <= tracker.revision
  /\ \A d \in Calls : HasValue(d) /\ Reads!Key(d) = tracker.revision => readCalls[d].value >= marked
  /\ Cached(tracker.revision) => cache[tracker.revision] >= marked
  /\ \A c, d \in Calls : HasValue(d) /\ Reads!Key(c) = Reads!Key(d) =>
       readCalls[d].value >= readCalls[c].floor
  /\ \A c \in Calls : Cached(Reads!Key(c)) => cache[Reads!Key(c)] >= readCalls[c].floor

ReadsInv == Reads!TypeOK /\ LedgerIsAhead /\ (~mishap => RevisionsAreTrue)

\* A value that is known under a revision.
Known(r, v) ==
  \/ \E e \in Calls : HasValue(e) /\ Reads!Key(e) = r /\ readCalls[e].value = v
  \/ Cached(r) /\ cache[r] = v

LEMMA ReadsTypes ==
  ASSUME Reads!TypeOK
  PROVE  /\ version \in Nat /\ indexed \in Nat /\ submitted \in Nat /\ marked \in Nat
         /\ tracker \in Reads!Entry /\ mishap \in BOOLEAN
         /\ readCalls \in [Calls -> ReadCall]
         /\ cache \in [Reads!Revisions -> Reads!Versions \cup {NotCached}]
         /\ inflight \in [Reads!Revisions -> Calls \cup {NoRead}]
BY ReadsAssumption DEF Reads!TypeOK, Reads!Versions, ReadCall

LEMMA EntryTypes ==
  ASSUME NEW entry \in Reads!Entry
  PROVE  /\ entry.revision \in Reads!Revisions /\ entry.revision \in Nat
         /\ entry.lastEvent \in Reads!Versions /\ entry.lastEvent \in Nat
         /\ entry.fresh \in BOOLEAN
BY ReadsAssumption DEF Reads!Entry, Reads!Revisions, Reads!Versions

LEMMA CallTypes ==
  ASSUME NEW k \in ReadCall
  PROVE  k.entry \in Reads!Entry /\ k.value \in Nat /\ k.floor \in Nat
         /\ k.value \in Reads!Versions /\ k.floor \in Reads!Versions
BY ReadsAssumption DEF ReadCall, Reads!Versions

LEMMA KeyOfTypes ==
  ASSUME NEW entry \in Reads!Entry
  PROVE  Reads!KeyOf(entry) \in Reads!Entry /\ Reads!KeyOf(entry).revision = entry.revision
<1>1. 0 \in Reads!Versions
  BY ReadsAssumption DEF Reads!Versions
<1>2. QED
  BY <1>1 DEF Reads!KeyOf, Reads!NoEntry, Reads!Entry

LEMMA IdleReads ==
  /\ Reads!Idle \in ReadCall /\ Reads!Idle.stage = "idle" /\ Reads!Idle.floor = 0
  /\ Reads!Idle.entry.revision = 0 /\ Reads!NoEntry \in Reads!Entry
  /\ Reads!NoEntry.revision = 0 /\ Reads!NoEntry.lastEvent = 0
<1>1. 0 \in Reads!Versions /\ 0 \in Reads!Revisions
  BY ReadsAssumption DEF Reads!Versions, Reads!Revisions
<1>2. Reads!NoEntry \in Reads!Entry /\ Reads!NoEntry.revision = 0 /\ Reads!NoEntry.lastEvent = 0
  BY <1>1 DEF Reads!NoEntry, Reads!Entry
<1>3. QED
  BY <1>1, <1>2 DEF Reads!Idle, ReadCall

\* The revision of an entry that is counted is one there is room for.
LEMMA CountedIsRevision ==
  ASSUME LedgerIsAhead, NEW n \in Nat, NEW e \in Nat, e <= indexed, n <= e + marked
  PROVE  n \in Reads!Revisions
BY ReadsAssumption DEF LedgerIsAhead, Reads!Revisions

LEMMA ReadsInit == Reads!Init => ReadsInv
<1> SUFFICES ASSUME Reads!Init PROVE ReadsInv
  OBVIOUS
<1>1. /\ readCalls = [c \in Calls |-> Reads!Idle] /\ tracker = Reads!NoEntry
      /\ cache = [r \in Reads!Revisions |-> NotCached]
      /\ inflight = [r \in Reads!Revisions |-> NoRead]
      /\ submitted = 0 /\ marked = 0 /\ mishap = FALSE /\ version \in {0, 1} /\ indexed \in 0..version
  BY DEF Reads!Init
<1>2. version \in 0..MaxVersion
  BY <1>1, ReadsAssumption
<1>3. Reads!TypeOK
  <2>1. version \in Reads!Versions /\ indexed \in Reads!Versions /\ 0 \in Reads!Versions
    BY <1>1, <1>2, ReadsAssumption DEF Reads!Versions
  <2>2. /\ readCalls \in [Calls -> ReadCall]
        /\ cache \in [Reads!Revisions -> Reads!Versions \cup {NotCached}]
        /\ inflight \in [Reads!Revisions -> Calls \cup {NoRead}]
        /\ tracker \in Reads!Entry /\ mishap \in BOOLEAN
    BY <1>1, IdleReads
  <2>3. QED
    BY <1>1, <2>1, <2>2 DEF Reads!TypeOK, ReadCall
<1>4. LedgerIsAhead
  BY <1>1, <1>2, IdleReads DEF LedgerIsAhead, Counted
<1>5. RevisionsAreTrue
  <2>1. tracker.revision = 0 /\ 0 \in Reads!Revisions
    BY <1>1, IdleReads, ReadsAssumption DEF Reads!Revisions
  <2>2. \A r \in Reads!Revisions : ~Cached(r)
    BY <1>1 DEF Cached
  <2>3. \A c \in Calls : ~HasValue(c) /\ Reads!Key(c) = 0
    BY <1>1, IdleReads DEF HasValue, Reads!Key
  <2>4. QED
    BY <2>1, <2>2, <2>3 DEF RevisionsAreTrue
<1>6. QED
  BY <1>3, <1>4, <1>5 DEF ReadsInv

LEMMA KnownShows ==
  ASSUME ReadsInv, ~mishap, NEW r \in Reads!Revisions, NEW v, Known(r, v)
  PROVE  /\ r <= tracker.revision /\ v \in Nat
         /\ r = tracker.revision => v >= marked
         /\ \A c \in Calls : Reads!Key(c) = r => v >= readCalls[c].floor
<1>1. RevisionsAreTrue /\ readCalls \in [Calls -> ReadCall]
      /\ cache \in [Reads!Revisions -> Reads!Versions \cup {NotCached}]
  BY ReadsTypes DEF ReadsInv
<1>2. ASSUME NEW e \in Calls, HasValue(e), Reads!Key(e) = r, readCalls[e].value = v
      PROVE  /\ r <= tracker.revision /\ v \in Nat
             /\ r = tracker.revision => v >= marked
             /\ \A c \in Calls : Reads!Key(c) = r => v >= readCalls[c].floor
  BY <1>1, <1>2, CallTypes DEF RevisionsAreTrue
<1>3. ASSUME Cached(r), cache[r] = v
      PROVE  /\ r <= tracker.revision /\ v \in Nat
             /\ r = tracker.revision => v >= marked
             /\ \A c \in Calls : Reads!Key(c) = r => v >= readCalls[c].floor
  <2>1. v \in Nat
    BY <1>1, <1>3, ReadsAssumption DEF Cached, Reads!Versions
  <2>2. QED
    BY <1>1, <1>3, <2>1 DEF RevisionsAreTrue
<1>4. QED
  BY <1>2, <1>3 DEF Known

\* Whatever the readers and the cache do with what is known: a reader keeps its
\* revision and what it has to see, takes the present one, or is done; and a value is
\* either read now or known under that revision.
LEMMA MoveOn ==
  ASSUME ReadsInv, UNCHANGED <<version, indexed, submitted, marked, tracker, mishap>>,
         readCalls' \in [Calls -> ReadCall],
         cache' \in [Reads!Revisions -> Reads!Versions \cup {NotCached}],
         inflight' \in [Reads!Revisions -> Calls \cup {NoRead}],
         \A d \in Calls : readCalls'[d].stage = "checking" => Counted(readCalls'[d].entry),
         \A d \in Calls :
           \/ readCalls'[d].entry = readCalls[d].entry /\ readCalls'[d].floor = readCalls[d].floor
           \/ readCalls'[d].entry.revision = tracker.revision /\ readCalls'[d].floor = marked
           \/ readCalls'[d].entry.revision = 0 /\ readCalls'[d].floor = 0,
         \A d \in Calls : HasValue(d)' =>
           /\ readCalls'[d].entry = readCalls[d].entry
           /\ readCalls'[d].value >= version \/ Known(Reads!Key(d), readCalls'[d].value),
         \A r \in Reads!Revisions : Cached(r)' => Known(r, cache'[r])
  PROVE  ReadsInv'
<1>t. Reads!TypeOK /\ LedgerIsAhead
  BY DEF ReadsInv
<1>v. /\ version \in Nat /\ indexed \in Nat /\ submitted \in Nat /\ marked \in Nat
      /\ tracker \in Reads!Entry /\ readCalls \in [Calls -> ReadCall] /\ marked <= version
  BY <1>t, ReadsTypes DEF LedgerIsAhead
<1>k. \A d \in Calls : /\ readCalls[d].entry.revision \in Reads!Revisions
                       /\ readCalls'[d].entry.revision \in Reads!Revisions
                       /\ readCalls[d].entry.revision \in Nat /\ readCalls'[d].entry.revision \in Nat
                       /\ readCalls[d].floor \in Nat /\ readCalls'[d].floor \in Nat
                       /\ readCalls'[d].value \in Nat
  BY <1>v, CallTypes, EntryTypes
<1>m. tracker.revision \in Nat /\ tracker.revision \in Reads!Revisions
  BY <1>v, EntryTypes
<1>1. Reads!TypeOK'
  BY <1>t DEF Reads!TypeOK, ReadCall
<1>2. LedgerIsAhead'
  <2>1. \A d \in Calls : readCalls'[d].floor <= marked
    BY <1>t, <1>v, <1>k DEF LedgerIsAhead
  <2>2. \A d \in Calls : readCalls'[d].stage = "checking" => Counted(readCalls[d].entry)'
    BY DEF Counted
  <2>3. Counted(tracker)'
    BY <1>t DEF LedgerIsAhead, Counted
  <2>4. QED
    BY <1>t, <2>1, <2>2, <2>3 DEF LedgerIsAhead
<1>3. ASSUME ~mishap PROVE RevisionsAreTrue'
  <2>0. RevisionsAreTrue
    BY <1>3 DEF ReadsInv
  <2>f. ASSUME NEW c \in Calls PROVE readCalls[c].floor <= marked
    BY <1>t DEF LedgerIsAhead
  <2>1. \A d \in Calls : readCalls'[d].entry.revision <= tracker.revision
    BY <2>0, <1>k, <1>m DEF RevisionsAreTrue, Reads!Key
  <2>2. ASSUME NEW r \in Reads!Revisions, Cached(r)'
        PROVE  /\ r <= tracker.revision /\ cache'[r] \in Nat
               /\ r = tracker.revision => cache'[r] >= marked
               /\ \A c \in Calls : readCalls[c].entry.revision = r => cache'[r] >= readCalls[c].floor
    <3>1. Known(r, cache'[r])
      BY <2>2
    <3>2. QED
      BY <3>1, <1>3, KnownShows DEF Reads!Key
  <2>3. ASSUME NEW d \in Calls, HasValue(d)'
        PROVE  /\ readCalls'[d].entry = readCalls[d].entry
               /\ readCalls'[d].entry.revision = tracker.revision => readCalls'[d].value >= marked
               /\ \A c \in Calls : readCalls[c].entry.revision = readCalls'[d].entry.revision =>
                    readCalls'[d].value >= readCalls[c].floor
    <3>1. CASE readCalls'[d].value >= version
      <4>1. readCalls'[d].value >= marked
        BY <3>1, <1>v, <1>k
      <4>2. \A c \in Calls : readCalls'[d].value >= readCalls[c].floor
        BY <4>1, <2>f, <1>v, <1>k
      <4>3. QED
        BY <2>3, <4>1, <4>2
    <3>2. CASE Known(Reads!Key(d), readCalls'[d].value)
      <4>1. Reads!Key(d) = readCalls[d].entry.revision /\ Reads!Key(d) \in Reads!Revisions
        BY <1>k DEF Reads!Key
      <4>2. /\ Reads!Key(d) = tracker.revision => readCalls'[d].value >= marked
            /\ \A c \in Calls : Reads!Key(c) = Reads!Key(d) => readCalls'[d].value >= readCalls[c].floor
        BY <4>1, <3>2, <1>3, KnownShows
      <4>3. QED
        BY <2>3, <4>1, <4>2 DEF Reads!Key
    <3>3. QED
      BY <2>3, <3>1, <3>2
  <2>4. \A c, d \in Calls : HasValue(d)' /\ readCalls'[c].entry.revision = readCalls'[d].entry.revision =>
          readCalls'[d].value >= readCalls'[c].floor
    <3>1. ASSUME NEW c \in Calls, NEW d \in Calls, HasValue(d)',
                 readCalls'[c].entry.revision = readCalls'[d].entry.revision
          PROVE  readCalls'[d].value >= readCalls'[c].floor
      <4>1. CASE readCalls'[c].entry = readCalls[c].entry /\ readCalls'[c].floor = readCalls[c].floor
        BY <3>1, <4>1, <2>3
      <4>2. CASE readCalls'[c].entry.revision = tracker.revision /\ readCalls'[c].floor = marked
        BY <3>1, <4>2, <2>3
      <4>3. CASE readCalls'[c].floor = 0
        BY <4>3, <1>k
      <4>4. QED
        BY <4>1, <4>2, <4>3
    <3>2. QED
      BY <3>1
  <2>5. \A c \in Calls : cache'[readCalls'[c].entry.revision] # NotCached =>
          cache'[readCalls'[c].entry.revision] >= readCalls'[c].floor
    <3>1. ASSUME NEW c \in Calls, NEW r \in Reads!Revisions, r = readCalls'[c].entry.revision, Cached(r)'
          PROVE  cache'[r] >= readCalls'[c].floor
      <4>1. CASE readCalls'[c].entry = readCalls[c].entry /\ readCalls'[c].floor = readCalls[c].floor
        BY <3>1, <4>1, <2>2
      <4>2. CASE readCalls'[c].entry.revision = tracker.revision /\ readCalls'[c].floor = marked
        BY <3>1, <4>2, <2>2
      <4>3. CASE readCalls'[c].floor = 0
        BY <3>1, <4>3, <2>2
      <4>4. QED
        BY <4>1, <4>2, <4>3
    <3>2. QED
      BY <3>1, <1>k DEF Cached
  <2>6. Cached(tracker.revision)' => cache'[tracker.revision] >= marked
    BY <2>2, <1>m DEF Cached
  <2>7. \A r \in Reads!Revisions : Cached(r)' => r <= tracker.revision
    BY <2>2
  <2>8. \A d \in Calls : HasValue(d)' /\ readCalls'[d].entry.revision = tracker.revision =>
          readCalls'[d].value >= marked
    BY <2>3
  <2>9. QED
    BY <2>1, <2>4, <2>5, <2>6, <2>7, <2>8 DEF RevisionsAreTrue, Reads!Key, Cached, HasValue
<1>4. QED
  BY <1>1, <1>2, <1>3 DEF ReadsInv

\* A check writes an entry back that is no older than the one it read.
LEMMA WriteBackKeeps ==
  ASSUME ReadsInv, NEW c \in Calls, NEW entry \in Reads!Entry, readCalls[c].stage = "checking",
         Reads!WriteBack(c, entry), Counted(entry), entry.revision >= readCalls[c].entry.revision
  PROVE  ReadsInv'
<1>t. Reads!TypeOK /\ LedgerIsAhead
  BY DEF ReadsInv
<1>v. /\ marked \in Nat /\ tracker \in Reads!Entry /\ readCalls \in [Calls -> ReadCall]
      /\ mishap \in BOOLEAN
  BY <1>t, ReadsTypes
<1> DEFINE k == [readCalls[c] EXCEPT !.stage = "keyed", !.entry = Reads!KeyOf(entry)]
<1>h. /\ tracker' = entry /\ readCalls' = [readCalls EXCEPT ![c] = k]
      /\ mishap' = (mishap \/ tracker.revision # readCalls[c].entry.revision)
      /\ UNCHANGED <<version, indexed, submitted, marked, cache, inflight>>
  BY DEF Reads!WriteBack, Reads!ledgerVars
<1>k. /\ k \in ReadCall /\ k.stage = "keyed" /\ k.entry.revision = entry.revision
      /\ k.floor = readCalls[c].floor
  BY <1>v, KeyOfTypes DEF ReadCall
<1> HIDE DEF k
<1>p. /\ readCalls' \in [Calls -> ReadCall] /\ readCalls'[c] = k
      /\ \A d \in Calls : d # c => readCalls'[d] = readCalls[d]
  BY <1>h, <1>k, <1>v
<1>n. /\ entry.revision \in Nat /\ tracker.revision \in Nat /\ tracker.revision \in Reads!Revisions
      /\ entry.revision \in Reads!Revisions
      /\ \A d \in Calls : readCalls[d].entry.revision \in Nat /\ readCalls[d].floor \in Nat
                          /\ readCalls[d].value \in Nat
  BY <1>v, EntryTypes, CallTypes
<1>1. Reads!TypeOK'
  BY <1>t, <1>h, <1>p, <1>v DEF Reads!TypeOK, ReadCall
<1>2. LedgerIsAhead'
  <2>1. Counted(tracker)'
    BY <1>h DEF Counted
  <2>2. \A d \in Calls : readCalls'[d].floor <= marked
    BY <1>t, <1>p, <1>k DEF LedgerIsAhead
  <2>3. \A d \in Calls : readCalls'[d].stage = "checking" => Counted(readCalls[d].entry)'
    BY <1>t, <1>p, <1>k, <1>h DEF LedgerIsAhead, Counted
  <2>4. QED
    BY <1>t, <1>h, <2>1, <2>2, <2>3 DEF LedgerIsAhead
<1>3. ASSUME ~mishap' PROVE RevisionsAreTrue'
  <2>0. RevisionsAreTrue /\ tracker.revision = readCalls[c].entry.revision
    BY <1>3, <1>h, <1>v DEF ReadsInv
  <2>a. tracker.revision <= entry.revision /\ tracker'.revision = entry.revision
    BY <2>0, <1>n, <1>h
  <2>f. \A d \in Calls : readCalls[d].floor <= marked
    BY <1>t DEF LedgerIsAhead
  <2>1. \A d \in Calls : readCalls'[d].entry.revision <= entry.revision
    BY <2>0, <2>a, <1>p, <1>k, <1>n DEF RevisionsAreTrue, Reads!Key
  <2>2. \A r \in Reads!Revisions : Cached(r) => r <= entry.revision
    <3>1. ASSUME NEW r \in Reads!Revisions, Cached(r) PROVE r <= entry.revision
      <4>1. r <= tracker.revision /\ r \in Int
        BY <3>1, <2>0 DEF RevisionsAreTrue, Reads!Revisions
      <4>2. QED
        BY <4>1, <2>a, <1>n
    <3>2. QED
      BY <3>1
  <2>3. Cached(entry.revision) => cache[entry.revision] >= marked
    <3>1. ASSUME Cached(entry.revision) PROVE entry.revision = tracker.revision
      <4>1. entry.revision <= tracker.revision
        BY <3>1, <2>0, <1>n DEF RevisionsAreTrue
      <4>2. QED
        BY <4>1, <2>a, <1>n
    <3>2. QED
      BY <3>1, <2>0 DEF RevisionsAreTrue
  <2>4. ASSUME NEW d \in Calls, HasValue(d)', readCalls'[d].entry.revision = entry.revision
        PROVE  readCalls'[d].value >= marked
    <3>1. d # c /\ readCalls'[d] = readCalls[d] /\ HasValue(d)
      BY <2>4, <1>p, <1>k DEF HasValue
    <3>2. readCalls[d].entry.revision = tracker.revision
      <4>1. readCalls[d].entry.revision <= tracker.revision
        BY <2>0 DEF RevisionsAreTrue, Reads!Key
      <4>2. QED
        BY <4>1, <3>1, <2>4, <2>a, <1>n
    <3>3. QED
      BY <3>1, <3>2, <2>0 DEF RevisionsAreTrue, Reads!Key
  <2>5. ASSUME NEW b \in Calls, NEW d \in Calls, HasValue(d)',
               readCalls'[b].entry.revision = readCalls'[d].entry.revision
        PROVE  readCalls'[d].value >= readCalls'[b].floor
    <3>1. d # c /\ readCalls'[d] = readCalls[d] /\ HasValue(d)
      BY <2>5, <1>p, <1>k DEF HasValue
    <3>2. CASE b = c
      <4>1. readCalls'[d].value >= marked
        BY <2>4, <2>5, <3>2, <1>p, <1>k
      <4>2. readCalls'[b].floor <= marked
        BY <3>2, <1>p, <1>k, <2>f
      <4>3. QED
        BY <4>1, <4>2, <3>1, <3>2, <1>p, <1>k, <1>n, <1>v
    <3>3. CASE b # c
      BY <2>5, <3>1, <3>3, <1>p, <2>0 DEF RevisionsAreTrue, Reads!Key
    <3>4. QED
      BY <3>2, <3>3
  <2>6. ASSUME NEW b \in Calls, Cached(readCalls'[b].entry.revision)
        PROVE  cache[readCalls'[b].entry.revision] >= readCalls'[b].floor
    <3>1. CASE b = c
      <4>1. cache[entry.revision] >= marked /\ readCalls'[b].entry.revision = entry.revision
        BY <2>6, <3>1, <1>p, <1>k, <2>3
      <4>2. cache[entry.revision] \in Nat
        BY <2>6, <4>1, <1>t, <1>n, ReadsAssumption DEF Reads!TypeOK, Cached, Reads!Versions
      <4>3. readCalls'[b].floor <= marked /\ readCalls'[b].floor \in Nat
        BY <3>1, <1>p, <1>k, <2>f, <1>n
      <4>4. QED
        BY <4>1, <4>2, <4>3, <1>v
    <3>2. CASE b # c
      BY <2>6, <3>2, <1>p, <2>0 DEF RevisionsAreTrue, Reads!Key
    <3>3. QED
      BY <3>1, <3>2
  <2>7. \A r : Cached(r)' <=> Cached(r)
    BY <1>h DEF Cached
  <2>8. QED
    BY <1>h, <2>a, <2>1, <2>2, <2>3, <2>4, <2>5, <2>6, <2>7
       DEF RevisionsAreTrue, Reads!Key, Cached, HasValue
<1>4. QED
  BY <1>1, <1>2, <1>3 DEF ReadsInv

LEMMA ReadsStepInv == ReadsInv /\ [Reads!Next]_readsVars => ReadsInv'
<1> SUFFICES ASSUME ReadsInv, [Reads!Next]_readsVars PROVE ReadsInv'
  OBVIOUS
<1>t. Reads!TypeOK /\ LedgerIsAhead /\ (~mishap => RevisionsAreTrue)
  BY DEF ReadsInv
<1>v. /\ version \in Nat /\ indexed \in Nat /\ submitted \in Nat /\ marked \in Nat
      /\ tracker \in Reads!Entry /\ mishap \in BOOLEAN
      /\ readCalls \in [Calls -> ReadCall]
      /\ cache \in [Reads!Revisions -> Reads!Versions \cup {NotCached}]
      /\ inflight \in [Reads!Revisions -> Calls \cup {NoRead}]
  BY <1>t, ReadsTypes
<1>e. tracker.revision \in Nat /\ tracker.lastEvent \in Nat /\ tracker.revision \in Reads!Revisions
  BY <1>v, EntryTypes
<1>a. /\ version <= MaxVersion /\ indexed <= version /\ marked <= version /\ submitted <= version
      /\ submitted # 0 => marked < submitted
  BY <1>t, <1>v DEF LedgerIsAhead
<1>w. version \in Reads!Versions /\ 0 \in Reads!Versions /\ marked \in Reads!Versions
  BY <1>t, ReadsAssumption DEF Reads!TypeOK, Reads!Versions
<1>b. /\ \A d \in Calls : readCalls[d].stage = "checking" => Counted(readCalls[d].entry)
      /\ \A d \in Calls : readCalls[d].floor <= marked
      /\ Counted(tracker)
  BY <1>t DEF LedgerIsAhead
<1>i. /\ Reads!Idle \in ReadCall /\ Reads!Idle.stage = "idle" /\ Reads!Idle.floor = 0
      /\ Reads!Idle.entry.revision = 0
  BY IdleReads
\* One call changes and the cache stays.
<1>o. ASSUME NEW c \in Calls, NEW k \in ReadCall, readCalls' = [readCalls EXCEPT ![c] = k],
             k.stage = "checking" => Counted(k.entry),
             \/ k.entry = readCalls[c].entry /\ k.floor = readCalls[c].floor
             \/ k.entry.revision = tracker.revision /\ k.floor = marked
             \/ k.entry.revision = 0 /\ k.floor = 0,
             k.stage \in {"answered", "served"} =>
               /\ k.entry = readCalls[c].entry
               /\ k.value >= version \/ Known(Reads!Key(c), k.value),
             inflight' \in [Reads!Revisions -> Calls \cup {NoRead}],
             UNCHANGED <<version, indexed, submitted, marked, tracker, cache, mishap>>
      PROVE  ReadsInv'
  <2>1. /\ readCalls' \in [Calls -> ReadCall] /\ readCalls'[c] = k
        /\ \A d \in Calls : d # c => readCalls'[d] = readCalls[d]
    BY <1>o, <1>v
  <2>2. \A d \in Calls : readCalls'[d].stage = "checking" => Counted(readCalls'[d].entry)
    BY <1>o, <1>b, <2>1
  <2>3. \A d \in Calls :
           \/ readCalls'[d].entry = readCalls[d].entry /\ readCalls'[d].floor = readCalls[d].floor
           \/ readCalls'[d].entry.revision = tracker.revision /\ readCalls'[d].floor = marked
           \/ readCalls'[d].entry.revision = 0 /\ readCalls'[d].floor = 0
    BY <1>o, <2>1
  <2>4. ASSUME NEW d \in Calls, HasValue(d)'
        PROVE  /\ readCalls'[d].entry = readCalls[d].entry
               /\ readCalls'[d].value >= version \/ Known(Reads!Key(d), readCalls'[d].value)
    <3>1. CASE d = c
      BY <1>o, <2>1, <2>4, <3>1 DEF HasValue
    <3>2. CASE d # c
      BY <2>1, <2>4, <3>2 DEF HasValue, Known
    <3>3. QED
      BY <3>1, <3>2
  <2>5. \A r \in Reads!Revisions : Cached(r)' => Known(r, cache'[r])
    BY <1>o DEF Cached, Known
  <2>6. cache' \in [Reads!Revisions -> Reads!Versions \cup {NotCached}]
    BY <1>o, <1>v
  <2>7. QED
    BY <1>o, <2>1, <2>2, <2>3, <2>4, <2>5, <2>6, MoveOn
<1>1. ASSUME NEW c \in Calls, Reads!GetRevision(c) PROVE ReadsInv'
  <2> DEFINE k == IF tracker.fresh
                  THEN [stage |-> "keyed", entry |-> Reads!KeyOf(tracker), value |-> 0, floor |-> marked]
                  ELSE [stage |-> "checking", entry |-> tracker, value |-> 0, floor |-> marked]
  <2>1. readCalls' = [readCalls EXCEPT ![c] = k]
        /\ UNCHANGED <<version, indexed, submitted, marked, tracker, cache, inflight, mishap>>
    BY <1>1 DEF Reads!GetRevision, Reads!ledgerVars
  <2>2. Reads!KeyOf(tracker) \in Reads!Entry /\ Reads!KeyOf(tracker).revision = tracker.revision
    BY <1>v, KeyOfTypes
  <2>3. /\ k \in ReadCall /\ k.entry.revision = tracker.revision /\ k.floor = marked
        /\ k.stage = "keyed" \/ (k.stage = "checking" /\ k.entry = tracker)
    BY <1>v, <1>w, <2>2 DEF ReadCall
  <2> HIDE DEF k
  <2>4. QED
    BY <2>1, <2>3, <1>b, <1>v, <1>o
<1>2. ASSUME NEW c \in Calls, Reads!CheckAnswers(c) PROVE ReadsInv'
  <2> DEFINE old == readCalls[c].entry
             new == Reads!Advanced(old, indexed)
  <2>1. readCalls[c].stage = "checking" /\ Reads!WriteBack(c, new)
    BY <1>2 DEF Reads!CheckAnswers
  <2>2. Counted(old) /\ old \in Reads!Entry
    BY <2>1, <1>b, <1>v, CallTypes
  <2>3. /\ old.revision \in Nat /\ old.lastEvent \in Nat /\ old.lastEvent <= indexed
        /\ old.revision <= old.lastEvent + marked /\ old.revision \in Reads!Revisions
        /\ old.lastEvent \in Reads!Versions
    BY <2>2, EntryTypes DEF Counted
  <2>4. /\ new.revision = IF indexed # 0 /\ old.lastEvent # 0 /\ indexed # old.lastEvent
                          THEN old.revision + 1 ELSE old.revision
        /\ new.lastEvent = IF indexed # 0 THEN indexed ELSE old.lastEvent
        /\ new = [revision |-> new.revision, lastEvent |-> new.lastEvent, fresh |-> TRUE]
    BY DEF Reads!Advanced
  <2> HIDE DEF old, new
  <2>5. /\ new.revision \in Nat /\ new.lastEvent \in Nat /\ new.lastEvent <= indexed
        /\ new.revision <= new.lastEvent + marked /\ new.revision >= old.revision
    BY <2>3, <2>4, <1>v
  <2>6. new.revision \in Reads!Revisions
    BY <2>5, <1>t, CountedIsRevision
  <2>7. new.lastEvent \in Reads!Versions
    BY <2>5, <1>v, <1>a, ReadsAssumption DEF Reads!Versions
  <2>8. new \in Reads!Entry
    <3> DEFINE n == new.revision
               e == new.lastEvent
    <3>1. new = [revision |-> n, lastEvent |-> e, fresh |-> TRUE]
      BY <2>4
    <3>2. n \in Reads!Revisions /\ e \in Reads!Versions
      BY <2>6, <2>7
    <3> HIDE DEF n, e
    <3>3. QED
      BY <3>1, <3>2 DEF Reads!Entry
  <2>9. Counted(new)
    BY <2>5, <2>8 DEF Counted
  <2>10. QED
    BY <2>1, <2>5, <2>8, <2>9, WriteBackKeeps DEF old
<1>3. ASSUME NEW c \in Calls, Reads!CheckFails(c) PROVE ReadsInv'
  <2> DEFINE old == readCalls[c].entry
             new == [old EXCEPT !.fresh = TRUE]
  <2>1. readCalls[c].stage = "checking" /\ Reads!WriteBack(c, new)
    BY <1>3 DEF Reads!CheckFails
  <2>2. Counted(old) /\ old \in Reads!Entry /\ old.revision \in Nat
    BY <2>1, <1>b, <1>v, CallTypes, EntryTypes
  <2>3. new \in Reads!Entry /\ new.revision = old.revision /\ new.lastEvent = old.lastEvent
    BY <2>2 DEF Reads!Entry
  <2> HIDE DEF old, new
  <2>4. Counted(new) /\ new.revision >= old.revision
    BY <2>2, <2>3 DEF Counted
  <2>5. QED
    BY <2>1, <2>3, <2>4, WriteBackKeeps DEF old
<1>4. ASSUME NEW c \in Calls, Reads!LookUp(c) PROVE ReadsInv'
  <2>r. Reads!Key(c) \in Reads!Revisions
    BY <1>v, CallTypes, EntryTypes DEF Reads!Key
  <2>h. UNCHANGED <<version, indexed, submitted, marked, tracker, cache, mishap>>
    BY <1>4 DEF Reads!LookUp, Reads!ledgerVars
  <2>1. CASE Cached(Reads!Key(c))
    <3> DEFINE v == cache[Reads!Key(c)]
               k == [readCalls[c] EXCEPT !.stage = "served", !.value = v]
    <3>1. readCalls' = [readCalls EXCEPT ![c] = k] /\ inflight' = inflight
      BY <1>4, <2>1 DEF Reads!LookUp, Cached
    <3>2. v \in Reads!Versions
      BY <2>1, <2>r, <1>v DEF Cached
    <3>3. k \in ReadCall /\ k.entry = readCalls[c].entry /\ k.floor = readCalls[c].floor
          /\ k.value = v /\ k.stage = "served"
      BY <3>2, <1>v DEF ReadCall
    <3>4. Known(Reads!Key(c), v)
      BY <2>1 DEF Known
    <3> HIDE DEF k, v
    <3>5. QED
      BY <2>h, <3>1, <3>3, <3>4, <1>v, <1>o
  <2>2. CASE ~Cached(Reads!Key(c)) /\ inflight[Reads!Key(c)] # NoRead
    <3> DEFINE k == [readCalls[c] EXCEPT !.stage = "waiting"]
    <3>1. readCalls' = [readCalls EXCEPT ![c] = k] /\ inflight' = inflight
      BY <1>4, <2>2 DEF Reads!LookUp, Cached
    <3>2. k \in ReadCall /\ k.entry = readCalls[c].entry /\ k.floor = readCalls[c].floor
          /\ k.stage = "waiting"
      BY <1>v DEF ReadCall
    <3> HIDE DEF k
    <3>3. QED
      BY <2>h, <3>1, <3>2, <1>v, <1>o
  <2>3. CASE ~Cached(Reads!Key(c)) /\ inflight[Reads!Key(c)] = NoRead
    <3> DEFINE k == [readCalls[c] EXCEPT !.stage = "asked"]
    <3>1. readCalls' = [readCalls EXCEPT ![c] = k] /\ inflight' = [inflight EXCEPT ![Reads!Key(c)] = c]
      BY <1>4, <2>3 DEF Reads!LookUp, Cached
    <3>2. k \in ReadCall /\ k.entry = readCalls[c].entry /\ k.floor = readCalls[c].floor
          /\ k.stage = "asked"
      BY <1>v DEF ReadCall
    <3>3. inflight' \in [Reads!Revisions -> Calls \cup {NoRead}]
      BY <3>1, <1>v
    <3> HIDE DEF k
    <3>4. QED
      BY <2>h, <3>1, <3>2, <3>3, <1>o
  <2>4. QED
    BY <2>1, <2>2, <2>3
<1>5. ASSUME NEW c \in Calls, Reads!Simulate(c) PROVE ReadsInv'
  <2> DEFINE k == [readCalls[c] EXCEPT !.stage = "answered", !.value = version]
  <2>1. readCalls' = [readCalls EXCEPT ![c] = k]
        /\ UNCHANGED <<version, indexed, submitted, marked, tracker, cache, inflight, mishap>>
    BY <1>5 DEF Reads!Simulate, Reads!ledgerVars
  <2>2. k \in ReadCall /\ k.entry = readCalls[c].entry /\ k.floor = readCalls[c].floor
        /\ k.value = version /\ k.stage = "answered"
    BY <1>v, <1>w DEF ReadCall
  <2> HIDE DEF k
  <2>3. k.value >= version
    BY <2>2, <1>v
  <2>4. QED
    BY <2>1, <2>2, <2>3, <1>v, <1>o
<1>6. ASSUME NEW c \in Calls, Reads!ReadArrives(c) PROVE ReadsInv'
  <2> DEFINE v == readCalls[c].value
             served(d) == [readCalls[d] EXCEPT !.stage = "served", !.value = v]
  <2>h. /\ readCalls[c].stage = "answered"
        /\ cache' = [cache EXCEPT ![Reads!Key(c)] = v]
        /\ inflight' = [inflight EXCEPT ![Reads!Key(c)] = NoRead]
        /\ readCalls' = [d \in Calls |-> IF d \in Reads!Sharers(c) THEN served(d) ELSE readCalls[d]]
        /\ UNCHANGED <<version, indexed, submitted, marked, tracker, mishap>>
    BY <1>6 DEF Reads!ReadArrives, Reads!Settle, Reads!ledgerVars
  <2>r. Reads!Key(c) \in Reads!Revisions /\ v \in Reads!Versions
    BY <1>v, CallTypes, EntryTypes DEF Reads!Key
  <2>1. \A d \in Calls : /\ served(d) \in ReadCall /\ served(d).entry = readCalls[d].entry
                         /\ served(d).floor = readCalls[d].floor /\ served(d).value = v
                         /\ served(d).stage = "served"
    BY <2>r, <1>v DEF ReadCall
  <2>2. \A d \in Reads!Sharers(c) : d \in Calls /\ Reads!Key(d) = Reads!Key(c)
    BY DEF Reads!Sharers
  <2>3. Known(Reads!Key(c), v)
    BY <2>h DEF Known, HasValue
  <2> HIDE DEF served, v
  <2>4. readCalls' \in [Calls -> ReadCall]
    BY <2>h, <2>1, <1>v
  <2>5. \A d \in Calls : /\ readCalls'[d].entry = readCalls[d].entry
                         /\ readCalls'[d].floor = readCalls[d].floor
                         /\ readCalls'[d].stage = "checking" => readCalls[d].stage = "checking"
    BY <2>h, <2>1
  <2>6. ASSUME NEW d \in Calls, HasValue(d)' PROVE Known(Reads!Key(d), readCalls'[d].value)
    <3>1. CASE d \in Reads!Sharers(c)
      BY <2>h, <2>1, <2>2, <2>3, <3>1
    <3>2. CASE d \notin Reads!Sharers(c)
      BY <2>h, <2>6, <3>2 DEF HasValue, Known
    <3>3. QED
      BY <3>1, <3>2
  <2>7. ASSUME NEW r \in Reads!Revisions, Cached(r)' PROVE Known(r, cache'[r])
    <3>1. CASE r = Reads!Key(c)
      BY <2>h, <2>3, <3>1, <1>v
    <3>2. CASE r # Reads!Key(c)
      BY <2>h, <2>7, <3>2, <1>v DEF Cached, Known
    <3>3. QED
      BY <3>1, <3>2
  <2>8. /\ cache' \in [Reads!Revisions -> Reads!Versions \cup {NotCached}]
        /\ inflight' \in [Reads!Revisions -> Calls \cup {NoRead}]
    BY <2>h, <2>r, <1>v
  <2>9. \A d \in Calls : readCalls'[d].stage = "checking" => Counted(readCalls'[d].entry)
    BY <2>5, <1>b
  <2>10. QED
    BY <2>h, <2>4, <2>5, <2>6, <2>7, <2>8, <2>9, MoveOn
<1>7. ASSUME NEW c \in Calls, Reads!ReadFails(c) PROVE ReadsInv'
  <2>h. /\ inflight' = [inflight EXCEPT ![Reads!Key(c)] = NoRead]
        /\ readCalls' = [d \in Calls |-> IF d \in Reads!Sharers(c) THEN Reads!Idle ELSE readCalls[d]]
        /\ UNCHANGED <<version, indexed, submitted, marked, tracker, cache, mishap>>
    BY <1>7 DEF Reads!ReadFails, Reads!Settle, Reads!ledgerVars
  <2>1. readCalls' \in [Calls -> ReadCall] /\ \A d \in Calls : readCalls'[d] \in {Reads!Idle, readCalls[d]}
    BY <2>h, <1>i, <1>v
  <2>2. \A d \in Calls : readCalls'[d].stage = "checking" => Counted(readCalls'[d].entry)
    BY <2>1, <1>b, <1>i
  <2>3. \A d \in Calls :
           \/ readCalls'[d].entry = readCalls[d].entry /\ readCalls'[d].floor = readCalls[d].floor
           \/ readCalls'[d].entry.revision = 0 /\ readCalls'[d].floor = 0
    BY <2>1, <1>i
  <2>4. ASSUME NEW d \in Calls, HasValue(d)'
        PROVE  readCalls'[d].entry = readCalls[d].entry /\ Known(Reads!Key(d), readCalls'[d].value)
    <3>1. readCalls'[d] = readCalls[d]
      BY <2>1, <2>4, <1>i DEF HasValue
    <3>2. QED
      BY <2>4, <3>1 DEF HasValue, Known
  <2>5. \A r \in Reads!Revisions : Cached(r)' => Known(r, cache'[r])
    BY <2>h DEF Cached, Known
  <2>6. /\ cache' \in [Reads!Revisions -> Reads!Versions \cup {NotCached}]
        /\ inflight' \in [Reads!Revisions -> Calls \cup {NoRead}]
    BY <2>h, <1>v
  <2>7. QED
    BY <2>h, <2>1, <2>2, <2>3, <2>4, <2>5, <2>6, MoveOn
<1>8. ASSUME NEW c \in Calls, Reads!Return(c) PROVE ReadsInv'
  <2>1. readCalls' = [readCalls EXCEPT ![c] = Reads!Idle]
        /\ UNCHANGED <<version, indexed, submitted, marked, tracker, cache, inflight, mishap>>
    BY <1>8 DEF Reads!Return, Reads!ledgerVars
  <2>2. QED
    BY <2>1, <1>i, <1>v, <1>o
\* Only the ledger, the tracker or what is known of our modifications changes.
<1>s. ASSUME UNCHANGED <<readCalls, mishap>>, UNCHANGED cache PROVE
        /\ \A r : (Cached(r)' <=> Cached(r))
        /\ \A d : (HasValue(d)' <=> HasValue(d)) /\ Reads!Key(d)' = Reads!Key(d)
  BY <1>s DEF Cached, HasValue, Reads!Key
<1>9. CASE Reads!Modify
  <2>h. /\ version < MaxVersion /\ version' = version + 1
        /\ submitted' = submitted \/ (submitted = 0 /\ submitted' = version + 1)
        /\ UNCHANGED <<indexed, marked, tracker, cache, inflight, readCalls, mishap>>
    BY <1>9 DEF Reads!Modify
  <2>1. /\ version' \in 0..MaxVersion /\ indexed \in 0..version' /\ marked \in 0..version'
        /\ submitted' \in 0..version' /\ (submitted' # 0 => marked < submitted')
    BY <2>h, <1>v, <1>a, ReadsAssumption
  <2>2. version' \in Reads!Versions /\ submitted' \in Reads!Versions
    BY <2>1, ReadsAssumption DEF Reads!Versions
  <2>3. Reads!TypeOK'
    BY <2>h, <2>2, <1>t DEF Reads!TypeOK
  <2>4. LedgerIsAhead'
    BY <2>h, <2>1, <1>b DEF LedgerIsAhead, Counted
  <2>5. ~mishap' => RevisionsAreTrue'
    BY <2>h, <1>s, <1>t DEF RevisionsAreTrue
  <2>6. QED
    BY <2>3, <2>4, <2>5 DEF ReadsInv
<1>10. CASE Reads!Index
  <2>h. /\ indexed < version /\ indexed' = indexed + 1
        /\ UNCHANGED <<version, submitted, marked, tracker, cache, inflight, readCalls, mishap>>
    BY <1>10 DEF Reads!Index
  <2>1. indexed' \in 0..version /\ indexed' \in Reads!Versions
    BY <2>h, <1>v, <1>a, ReadsAssumption DEF Reads!Versions
  <2>c. ASSUME NEW entry \in Reads!Entry, entry.lastEvent <= indexed PROVE entry.lastEvent <= indexed'
    <3>1. entry.lastEvent \in Nat
      BY EntryTypes
    <3>2. QED
      BY <2>h, <2>c, <3>1, <1>v
  <2>2. Counted(tracker)' /\ \A d \in Calls : readCalls[d].stage = "checking" => Counted(readCalls[d].entry)'
    BY <2>h, <2>c, <1>b DEF Counted
  <2>3. Reads!TypeOK'
    BY <2>h, <2>1, <1>t DEF Reads!TypeOK
  <2>4. LedgerIsAhead'
    BY <2>h, <2>1, <2>2, <1>t DEF LedgerIsAhead
  <2>5. ~mishap' => RevisionsAreTrue'
    BY <2>h, <1>s, <1>t DEF RevisionsAreTrue
  <2>6. QED
    BY <2>3, <2>4, <2>5 DEF ReadsInv
<1>11. CASE Reads!MarkContractModified
  <2>h. /\ submitted # 0 /\ marked' = submitted /\ submitted' = 0
        /\ tracker' = [tracker EXCEPT !.revision = @ + 1, !.fresh = TRUE]
        /\ UNCHANGED <<version, indexed, cache, inflight, readCalls, mishap>>
    BY <1>11 DEF Reads!MarkContractModified, Reads!Marked
  <2> DEFINE r == tracker.revision + 1
             new == [tracker EXCEPT !.revision = r, !.fresh = TRUE]
  <2>1. r \in Nat /\ r <= tracker.lastEvent + marked' /\ marked' \in 0..version /\ marked < marked'
        /\ marked' \in Nat
    BY <2>h, <1>v, <1>a, <1>b, <1>e DEF Counted
  <2>2. r \in Reads!Revisions
    <3>1. tracker.lastEvent <= MaxVersion /\ marked' <= MaxVersion
      BY <2>1, <1>v, <1>a, <1>b, <1>e, ReadsAssumption DEF Counted
    <3>2. r <= 2 * MaxVersion
      BY <2>1, <3>1, <1>e, ReadsAssumption
    <3>3. QED
      BY <2>1, <3>2, ReadsAssumption DEF Reads!Revisions
  <2>3. tracker' = new
    BY <2>h
  <2>n. r > tracker.revision
    BY <1>e
  <2> HIDE DEF r
  <2>4. new \in Reads!Entry /\ new.revision = r /\ new.lastEvent = tracker.lastEvent
    BY <2>2, <1>v DEF Reads!Entry
  <2> HIDE DEF new
  <2>5. marked' \in Reads!Versions /\ submitted' \in Reads!Versions
    <3>1. submitted \in Reads!Versions
      BY <1>t DEF Reads!TypeOK
    <3>2. QED
      BY <3>1, <2>h, <1>w
  <2>6. Reads!TypeOK'
    BY <2>h, <2>3, <2>4, <2>5, <1>t DEF Reads!TypeOK
  <2>7. Counted(tracker)'
    BY <2>h, <2>1, <2>3, <2>4, <1>b DEF Counted
  <2>8. \A d \in Calls : readCalls[d].floor <= marked'
    <3>1. ASSUME NEW d \in Calls PROVE readCalls[d].floor <= marked'
      <4>1. readCalls[d].floor \in Nat /\ readCalls[d].floor <= marked
        BY <1>b, <1>v, CallTypes
      <4>2. QED
        BY <4>1, <2>1, <1>v
    <3>2. QED
      BY <3>1
  <2>9. ASSUME NEW d \in Calls, readCalls[d].stage = "checking" PROVE Counted(readCalls[d].entry)'
    <3>1. readCalls[d].entry.revision \in Nat /\ readCalls[d].entry.lastEvent \in Nat
          /\ Counted(readCalls[d].entry)
      BY <2>9, <1>b, <1>v, CallTypes, EntryTypes
    <3>2. readCalls[d].entry.revision <= readCalls[d].entry.lastEvent + marked'
      BY <3>1, <2>1, <1>v DEF Counted
    <3>3. QED
      BY <3>1, <3>2, <2>h DEF Counted
  <2>a. submitted' \in 0..version' /\ version' \in 0..MaxVersion /\ indexed' \in 0..version'
        /\ marked' \in 0..version' /\ submitted' = 0
    BY <2>h, <2>1, <1>v, <1>a, <1>t DEF LedgerIsAhead
  <2>10. LedgerIsAhead'
    BY <2>h, <2>a, <2>7, <2>8, <2>9 DEF LedgerIsAhead
  <2>11. ASSUME ~mishap' PROVE RevisionsAreTrue'
    <3>0. RevisionsAreTrue
      BY <2>11, <2>h, <1>t
    <3>1. ASSUME NEW n \in Nat, n <= tracker.revision PROVE n <= r /\ n # r
      BY <3>1, <2>n, <2>1, <1>e
    <3>2. \A d \in Calls : Reads!Key(d) \in Nat
      BY <1>v, CallTypes, EntryTypes DEF Reads!Key
    <3>3. \A d \in Calls : Reads!Key(d) <= r /\ Reads!Key(d) # r
      BY <3>0, <3>1, <3>2 DEF RevisionsAreTrue
    <3>4. \A n \in Reads!Revisions : Cached(n) => n <= r /\ n # r
      BY <3>0, <3>1 DEF RevisionsAreTrue, Reads!Revisions
    <3>5. tracker'.revision = r
      BY <2>3, <2>4
    <3>6. QED
      BY <2>h, <2>2, <1>s, <3>0, <3>3, <3>4, <3>5 DEF RevisionsAreTrue
  <2>12. QED
    BY <2>6, <2>10, <2>11 DEF ReadsInv
<1>12. CASE Reads!CheckInterval
  <2>h. /\ tracker' = [tracker EXCEPT !.fresh = FALSE]
        /\ UNCHANGED <<version, indexed, submitted, marked, cache, inflight, readCalls, mishap>>
    BY <1>12 DEF Reads!CheckInterval, Reads!ledgerVars
  <2>1. /\ tracker' \in Reads!Entry /\ tracker'.revision = tracker.revision
        /\ tracker'.lastEvent = tracker.lastEvent
    BY <2>h, <1>v DEF Reads!Entry
  <2>2. Reads!TypeOK'
    BY <2>h, <2>1, <1>t DEF Reads!TypeOK
  <2>3. LedgerIsAhead'
    BY <2>h, <2>1, <1>t DEF LedgerIsAhead, Counted
  <2>4. ~mishap' => RevisionsAreTrue'
    BY <2>h, <2>1, <1>s, <1>t DEF RevisionsAreTrue
  <2>5. QED
    BY <2>2, <2>3, <2>4 DEF ReadsInv
<1>13. ASSUME NEW r \in Reads!Revisions, Reads!Expire(r) PROVE ReadsInv'
  <2>h. /\ cache' = [cache EXCEPT ![r] = NotCached]
        /\ UNCHANGED <<version, indexed, submitted, marked, tracker, inflight, readCalls, mishap>>
    BY <1>13 DEF Reads!Expire, Reads!ledgerVars
  <2>1. cache' \in [Reads!Revisions -> Reads!Versions \cup {NotCached}]
    BY <2>h, <1>v
  <2>2. \A d \in Calls : HasValue(d)' => Known(Reads!Key(d), readCalls'[d].value)
    BY <2>h DEF HasValue, Known
  <2>3. \A n \in Reads!Revisions : Cached(n)' => Known(n, cache'[n])
    BY <2>h, <1>v DEF Cached, Known
  <2>4. QED
    BY <2>h, <2>1, <2>2, <2>3, <1>b, <1>v, MoveOn
<1>14. CASE Reads!Forget
  <2>h. /\ tracker' = Reads!NoEntry /\ mishap' = TRUE
        /\ UNCHANGED <<version, indexed, submitted, marked, cache, inflight, readCalls>>
    BY <1>14 DEF Reads!Forget, Reads!ledgerVars
  <2>1. Reads!TypeOK'
    BY <2>h, <1>t, IdleReads DEF Reads!TypeOK
  <2>2. 0 <= indexed /\ 0 <= 0 + marked
    BY <1>v
  <2>3. LedgerIsAhead'
    BY <2>h, <2>2, <1>t, IdleReads DEF LedgerIsAhead, Counted
  <2>4. QED
    BY <2>h, <2>1, <2>3 DEF ReadsInv
<1>15. CASE UNCHANGED readsVars
  <2>h. UNCHANGED <<version, indexed, submitted, marked, tracker, cache, inflight, readCalls, mishap>>
    BY <1>15 DEF readsVars
  <2>1. Reads!TypeOK' /\ LedgerIsAhead'
    BY <2>h, <1>t DEF Reads!TypeOK, LedgerIsAhead, Counted
  <2>2. ~mishap' => RevisionsAreTrue'
    BY <2>h, <1>s, <1>t DEF RevisionsAreTrue
  <2>3. QED
    BY <2>1, <2>2 DEF ReadsInv
<1>16. QED
  BY <1>1, <1>2, <1>3, <1>4, <1>5, <1>6, <1>7, <1>8, <1>9, <1>10, <1>11, <1>12, <1>13, <1>14, <1>15
     DEF Reads!Next

LEMMA ReadsHolds == ReadsInv => Reads!TypeOK /\ Reads!ReadYourWrites
BY DEF ReadsInv, RevisionsAreTrue, HasValue, Reads!ReadYourWrites

-----------------------------------------------------------------------------
\* A token bucket (RateLimiter): what was granted since a moment under the present
\* limit, and what could be granted now, is paid for by a full bucket and the refill
\* since that moment.
PaidFor(age) == granted[age] * Unit + Rate!Refilled <= (Unit + age) * limit

RateInv ==
  /\ Rate!TypeOK
  /\ Rate!WaitersHaveTimer
  /\ \A age \in 0..Unit : age < steady => PaidFor(age)

LEMMA TimesIsMonotone ==
  ASSUME NEW a \in Nat, NEW b \in Nat, NEW u \in Nat, a <= b
  PROVE  a * u <= b * u
<1>1. PICK d \in Nat : b = a + d
  <2>1. b - a \in Nat /\ b = a + (b - a)
    OBVIOUS
  <2>2. QED
    BY <2>1
<1>2. b * u = a * u + d * u
  BY <1>1
<1>3. a * u \in Nat /\ d * u \in Nat
  BY <1>1
<1>4. QED
  BY <1>2, <1>3

LEMMA TimesCancels ==
  ASSUME NEW a \in Nat, NEW b \in Nat, NEW u \in Nat \ {0}, a * u <= b * u
  PROVE  a <= b
<1> SUFFICES ASSUME b + 1 <= a PROVE FALSE
  OBVIOUS
<1>1. (b + 1) * u <= a * u
  BY TimesIsMonotone
<1>2. (b + 1) * u = b * u + u
  OBVIOUS
<1>3. a * u \in Nat /\ b * u \in Nat
  OBVIOUS
<1>4. QED
  BY <1>1, <1>2, <1>3

LEMMA StaysBelow ==
  ASSUME NEW g \in Nat, NEW m \in Nat, NEW a \in Int, NEW b \in Int, a <= b, g + b <= m
  PROVE  g + a <= m
OBVIOUS

LEMMA SumIsMonotone ==
  ASSUME NEW a \in Nat, NEW b \in Nat, NEW c \in Nat, a <= b
  PROVE  a + c \in Nat /\ b + c \in Nat /\ a + c <= b + c
OBVIOUS

LEMMA ProductIsNat ==
  ASSUME NEW a \in Nat, NEW b \in Nat
  PROVE  a * b \in Nat
OBVIOUS

LEMMA SmallerIsMonotone ==
  ASSUME NEW full \in Nat, NEW a \in Nat, NEW b \in Nat, a <= b
  PROVE  Rate!Smaller(full, a) \in Nat /\ Rate!Smaller(full, a) <= Rate!Smaller(full, b)
BY DEF Rate!Smaller

LEMMA Divided ==
  ASSUME NEW a \in Nat, NEW b \in Nat \ {0}
  PROVE  a \div b \in Nat /\ (a \div b) * b <= a
OBVIOUS

\* The bucket after a refill: it is never more than full.
LEMMA RefilledIsNat ==
  ASSUME limit \in Nat, tokens \in Nat, idle \in Nat, Unit \in Nat
  PROVE  /\ limit * Unit \in Nat /\ idle * limit \in Nat
         /\ Rate!Refilled \in 0..(limit * Unit)
         /\ Rate!Refilled <= tokens + idle * limit
         /\ Rate!Refilled = limit * Unit \/ Rate!Refilled = tokens + idle * limit
<1>1. limit * Unit \in Nat /\ idle * limit \in Nat
  OBVIOUS
<1> DEFINE full == limit * Unit
           more == idle * limit
<1>2. Rate!Refilled = IF full < tokens + more THEN full ELSE tokens + more
  BY DEF Rate!Refilled, Rate!Smaller
<1> HIDE DEF full, more
<1>3. full \in Nat /\ more \in Nat
  BY <1>1 DEF full, more
<1>4. /\ Rate!Refilled \in 0..full /\ Rate!Refilled <= tokens + more
      /\ Rate!Refilled = full \/ Rate!Refilled = tokens + more
  BY <1>2, <1>3
<1>5. QED
  BY <1>1, <1>4 DEF full, more

\* A timer is armed for a moment within the second.
LEMMA DelayIsShort ==
  ASSUME NEW left \in Nat, left < Unit, NEW l \in Nat \ {0}, Unit \in Nat
  PROVE  (Unit - left + l - 1) \div l \in 0..Unit
<1> DEFINE a == Unit - left + l - 1
           q == a \div l
<1>1. a \in Nat /\ a < Unit + l
  OBVIOUS
<1>2. q \in Nat /\ q * l <= a
  <2> HIDE DEF a
  <2>1. QED
    BY <1>1, Divided
<1> HIDE DEF a, q
<1>3. ASSUME Unit + 1 <= q PROVE FALSE
  <2>1. (Unit + 1) * l <= q * l
    BY <1>2, <1>3, TimesIsMonotone
  <2>2. (Unit + 1) * l = Unit * l + l
    OBVIOUS
  <2>3. 1 * Unit <= l * Unit
    BY TimesIsMonotone
  <2>4. l * Unit = Unit * l /\ 1 * Unit = Unit /\ Unit * l \in Nat /\ q * l \in Nat
    BY <1>2
  <2>5. QED
    BY <1>1, <1>2, <2>1, <2>2, <2>3, <2>4
<1>4. q \in 0..Unit
  BY <1>2, <1>3
<1>5. QED
  BY <1>4 DEF q, a

LEMMA RateInit == Rate!Init => RateInv
<1> SUFFICES ASSUME Rate!Init PROVE RateInv
  OBVIOUS
<1>1. limit \in Nat \ {0} /\ limit * Unit \in Nat /\ tokens = limit * Unit /\ idle = 0
  <2>1. limit \in Nat \ {0} /\ tokens = limit * Unit /\ idle = 0
    BY RateAssumption DEF Rate!Init
  <2>2. QED
    BY <2>1, RateAssumption
<1>2. Rate!TypeOK
  <2>1. tokens \in 0..(limit * Unit) /\ idle \in 0..MaxIdle /\ Unit + 1 \in 0..(Unit + 1)
    BY <1>1, RateAssumption
  <2>2. granted \in [0..Unit -> Nat]
    BY DEF Rate!Init
  <2>3. queue = <<>> /\ queue \in Seq(RateRequests) /\ DOMAIN queue = {}
    BY DEF Rate!Init
  <2>4. QED
    BY <2>1, <2>2, <2>3 DEF Rate!Init, Rate!TypeOK
<1>3. ASSUME NEW age \in 0..Unit PROVE PaidFor(age)
  <2>1. granted[age] = 0
    BY DEF Rate!Init
  <2>2. Rate!Refilled \in 0..(limit * Unit)
    BY <1>1, RateAssumption, RefilledIsNat
  <2>3. age \in Nat /\ Unit <= Unit + age /\ Unit \in Nat
    BY RateAssumption
  <2>4. Unit * limit <= (Unit + age) * limit
    BY <1>1, <2>3, TimesIsMonotone
  <2>5. Unit * limit = limit * Unit /\ (Unit + age) * limit \in Nat
    BY <1>1, <2>3
  <2>6. granted[age] * Unit = 0
    BY <2>1, <2>3
  <2>7. QED
    BY <1>1, <2>2, <2>4, <2>5, <2>6 DEF PaidFor
<1>4. QED
  BY <1>2, <1>3 DEF Rate!Init, Rate!WaitersHaveTimer, RateInv

LEMMA RateNumbers ==
  ASSUME RateInv
  PROVE  /\ Unit \in Nat \ {0} /\ limit \in Nat \ {0} /\ idle \in Nat /\ tokens \in Nat
         /\ queue \in Seq(RateRequests) /\ Len(queue) \in Nat /\ granted \in [0..Unit -> Nat]
         /\ limit * Unit \in Nat /\ Rate!Refilled \in Nat /\ Rate!Refilled <= limit * Unit
<1>1. /\ Unit \in Nat \ {0} /\ limit \in Nat \ {0} /\ idle \in Nat
      /\ queue \in Seq(RateRequests) /\ Len(queue) \in Nat /\ granted \in [0..Unit -> Nat]
  BY RateAssumption DEF RateInv, Rate!TypeOK
<1>2. limit * Unit \in Nat
  BY <1>1
<1>3. tokens \in Nat
  BY <1>2 DEF RateInv, Rate!TypeOK
<1>4. QED
  BY <1>1, <1>2, <1>3, RefilledIsNat

\* Whoever takes tokens out of the bucket pays for what is granted.
LEMMA GrantIsPaidFor ==
  ASSUME RateInv, NEW count \in Nat, count * Unit <= Rate!Refilled,
         NEW given \in Nat, given <= count, Rate!Grant(given), idle' = 0, tokens' = Rate!Refilled - count * Unit,
         UNCHANGED <<limit, steady>>
  PROVE  /\ tokens' \in 0..(limit' * Unit) /\ granted' \in [0..Unit -> Nat]
         /\ \A age \in 0..Unit : age < steady => PaidFor(age)'
<1>1. limit \in Nat /\ tokens \in Nat /\ idle \in Nat /\ Unit \in Nat
      /\ granted \in [0..Unit -> Nat] /\ limit * Unit \in Nat
  BY RateNumbers
<1>2. Rate!Refilled \in 0..(limit * Unit) /\ count * Unit \in Nat
  BY <1>1, RateNumbers
<1>3. tokens' \in 0..(limit' * Unit) /\ tokens' \in Nat
  BY <1>1, <1>2
<1>4. Rate!Refilled' <= tokens'
  <2>1. Rate!Refilled' = Rate!Smaller(limit' * Unit, tokens' + idle' * limit')
    BY DEF Rate!Refilled
  <2>2. idle' * limit' = 0
    BY <1>1
  <2>3. QED
    BY <1>3, <2>1, <2>2 DEF Rate!Smaller
<1>4b. Rate!Refilled' \in Int
  <2>1. Rate!Refilled' = Rate!Smaller(limit' * Unit, tokens' + idle' * limit')
    BY DEF Rate!Refilled
  <2>2. limit' * Unit \in Int /\ idle' * limit' = 0 /\ tokens' \in Int
    BY <1>1, <1>3
  <2>3. QED
    BY <2>1, <2>2 DEF Rate!Smaller
<1>5. \A age \in 0..Unit : granted'[age] = granted[age] + given /\ granted'[age] \in Nat
  BY <1>1 DEF Rate!Grant
<1>6. granted' \in [0..Unit -> Nat]
  BY <1>5 DEF Rate!Grant
<1>7. ASSUME NEW age \in 0..Unit, age < steady PROVE PaidFor(age)'
  <2>1. granted[age] * Unit + Rate!Refilled <= (Unit + age) * limit
    BY <1>7 DEF RateInv, PaidFor
  <2>2. granted[age] \in Nat /\ age \in Nat
    BY <1>1
  <2>3. (granted[age] + given) * Unit = granted[age] * Unit + given * Unit
        /\ granted[age] * Unit \in Nat /\ (Unit + age) * limit \in Nat
    BY <1>1, <2>2
  <2>4. granted'[age] * Unit + Rate!Refilled' <= (Unit + age) * limit
    <3> DEFINE g == granted[age] * Unit
               d == count * Unit
               m == (Unit + age) * limit
               e == given * Unit
    <3>1. g \in Nat /\ d \in Nat /\ m \in Nat /\ g + Rate!Refilled <= m
      BY <1>2, <2>1, <2>3
    <3>2. granted'[age] * Unit = g + e /\ e \in Nat /\ e <= d
      BY <1>1, <1>5, <2>3, TimesIsMonotone
    <3>3. Rate!Refilled' <= Rate!Refilled - d /\ Rate!Refilled \in Int
      BY <1>2, <1>4
    <3> HIDE DEF g, d, m, e
    <3>4. g + e + Rate!Refilled' <= m
      <4>1. g + e \in Nat /\ Rate!Refilled - d \in Int /\ (g + e) + (Rate!Refilled - d) <= m
        BY <3>1, <3>2, <3>3
      <4>2. QED
        BY <3>1, <3>3, <4>1, <1>4b, StaysBelow
    <3>5. QED
      BY <3>2, <3>4 DEF m
  <2>5. QED
    BY <2>4 DEF PaidFor
<1>8. QED
  BY <1>3, <1>6, <1>7

\* A bucket that can give no more than before leaves what was granted paid for.
LEMMA LessIsPaidFor ==
  ASSUME RateInv, UNCHANGED <<limit, granted>>, Rate!Refilled' <= Rate!Refilled,
         Rate!Refilled' \in Int, Rate!Refilled \in Int,
         NEW age \in 0..Unit, age < steady
  PROVE  PaidFor(age)'
<1>1. limit \in Nat /\ Unit \in Nat /\ granted[age] \in Nat /\ age \in Nat
  BY RateAssumption DEF RateInv, Rate!TypeOK
<1>2. granted[age] * Unit \in Nat /\ (Unit + age) * limit \in Nat
  BY <1>1
<1>3. granted[age] * Unit + Rate!Refilled <= (Unit + age) * limit
  BY DEF RateInv, PaidFor
<1>4. granted[age] * Unit + Rate!Refilled' <= (Unit + age) * limit
  <2> DEFINE g == granted[age] * Unit
             m == (Unit + age) * limit
  <2>1. g \in Nat /\ m \in Nat /\ g + Rate!Refilled <= m
    BY <1>2, <1>3
  <2> HIDE DEF g, m
  <2>2. g + Rate!Refilled' <= m
    BY <2>1, StaysBelow
  <2>3. QED
    BY <2>2 DEF g, m
<1>5. QED
  BY <1>4 DEF PaidFor

\* A refill alone grants nothing, and what it brings is counted already.
LEMMA RefillKeeps ==
  ASSUME RateInv, idle' = 0, tokens' = Rate!Refilled, UNCHANGED <<limit, granted, steady>>
  PROVE  /\ tokens' \in 0..(limit' * Unit)
         /\ \A age \in 0..Unit : age < steady => PaidFor(age)'
<1>1. Rate!Refilled' = Rate!Smaller(limit * Unit, tokens' + idle' * limit) /\ idle' * limit = 0
  BY RateNumbers DEF Rate!Refilled
<1>2. Rate!Refilled' = Rate!Refilled
  BY <1>1, RateNumbers DEF Rate!Smaller
<1>3. QED
  BY <1>2, RateNumbers, LessIsPaidFor

\* The first waiters leave, each with a token; not more of them than both there are.
LEMMA ServeKeeps ==
  ASSUME RateInv, NEW served \in Nat, served <= Rate!Servable, Rate!Serve(served),
         NEW given \in Nat, given <= served, Rate!Grant(given)
  PROVE  /\ tokens' \in 0..(limit' * Unit) /\ granted' \in [0..Unit -> Nat]
         /\ \A age \in 0..Unit : age < steady => PaidFor(age)'
         /\ queue' \in Seq(RateRequests) /\ Len(queue') = Len(queue) - served
         /\ \A i, j \in DOMAIN queue' : queue'[i] = queue'[j] => i = j
<1> DEFINE whole == Rate!Refilled \div Unit
<1>1. /\ idle' = 0 /\ tokens' = Rate!Refilled - served * Unit
      /\ queue' = SubSeq(queue, served + 1, Len(queue)) /\ UNCHANGED <<limit, steady>>
  BY DEF Rate!Serve
<1>u. Unit \in Nat \ {0} /\ queue \in Seq(RateRequests) /\ Rate!Refilled \in Nat
  BY RateNumbers
<1>2. whole \in Nat /\ whole * Unit <= Rate!Refilled
  BY <1>u, Divided
<1>3. Len(queue) \in Nat
  BY <1>u
<1>4. served <= whole /\ served <= Len(queue)
  <2>1. Rate!Servable = Rate!Smaller(Len(queue), whole)
    BY DEF Rate!Servable
  <2> HIDE DEF whole
  <2>2. QED
    BY <1>2, <1>3, <2>1 DEF Rate!Smaller
<1>5. served * Unit <= Rate!Refilled
  <2> HIDE DEF whole
  <2>1. served * Unit <= whole * Unit /\ served * Unit \in Nat /\ whole * Unit \in Nat
    BY <1>2, <1>4, <1>u, TimesIsMonotone
  <2>2. QED
    BY <2>1, <1>2, <1>u
<1>6. /\ tokens' \in 0..(limit' * Unit) /\ granted' \in [0..Unit -> Nat]
      /\ \A age \in 0..Unit : age < steady => PaidFor(age)'
  BY <1>1, <1>5, GrantIsPaidFor
<1>7. /\ queue' \in Seq(RateRequests) /\ Len(queue') = Len(queue) - served
      /\ \A i \in DOMAIN queue' : i + served \in DOMAIN queue /\ queue'[i] = queue[i + served] /\ i \in Int
  <2>1. served + 1 \in 1..(Len(queue) + 1)
    BY <1>3, <1>4
  <2>2. \A i \in served + 1 .. Len(queue) : queue[i] \in RateRequests
    BY <1>u, <1>3, <1>4, ElementOfSeq
  <2>3. served + 1 \in Int /\ Len(queue) \in Int
    BY <1>3, <1>4
  <2>4. /\ queue' \in Seq(RateRequests)
        /\ Len(queue') = IF served + 1 <= Len(queue) THEN Len(queue) - (served + 1) + 1 ELSE 0
        /\ \A i \in 1 .. Len(queue) - (served + 1) + 1 : queue'[i] = queue[served + 1 + i - 1]
    BY <1>1, <2>2, <2>3, SubSeqProperties
  <2>5. Len(queue') = Len(queue) - served /\ Len(queue) - (served + 1) + 1 = Len(queue) - served
    BY <1>3, <1>4, <2>4
  <2>6. DOMAIN queue' = 1..(Len(queue) - served) /\ DOMAIN queue = 1..Len(queue)
    BY <2>4, <2>5, <1>u
  <2>7. ASSUME NEW i \in DOMAIN queue'
        PROVE  i + served \in DOMAIN queue /\ queue'[i] = queue[i + served] /\ i \in Int
    <3>1. i \in 1..(Len(queue) - served) /\ i \in Int
      BY <2>6
    <3>a. i \in 1 .. Len(queue) - (served + 1) + 1
      BY <2>5, <3>1
    <3>b. served + 1 + i - 1 = i + served
      BY <3>1, <1>4
    <3>2. queue'[i] = queue[served + 1 + i - 1] /\ served + 1 + i - 1 = i + served
      BY <2>4, <3>a, <3>b
    <3>3. i + served \in DOMAIN queue
      BY <2>6, <3>1, <1>3, <1>4
    <3>4. QED
      BY <3>1, <3>2, <3>3
  <2>8. QED
    BY <2>4, <2>5, <2>7
<1>8. \A i, j \in DOMAIN queue' : queue'[i] = queue'[j] => i = j
  <2>1. \A i, j \in DOMAIN queue : queue[i] = queue[j] => i = j
    BY DEF RateInv, Rate!TypeOK
  <2>2. ASSUME NEW i \in DOMAIN queue', NEW j \in DOMAIN queue', queue'[i] = queue'[j] PROVE i = j
    <3>1. i + served = j + served
      BY <1>7, <2>1, <2>2
    <3>2. QED
      BY <3>1, <1>4, <1>7
  <2>3. QED
    BY <2>2
<1>9. QED
  BY <1>6, <1>7, <1>8

LEMMA ServableIsNat ==
  ASSUME RateInv
  PROVE  Rate!Servable \in Nat
BY RateNumbers, Divided DEF Rate!Servable, Rate!Smaller

LEMMA RateStepInv == RateInv /\ [Rate!Next]_rateVars => RateInv'
<1> SUFFICES ASSUME RateInv, [Rate!Next]_rateVars PROVE RateInv'
  OBVIOUS
<1>t. Rate!TypeOK /\ Rate!WaitersHaveTimer /\ \A age \in 0..Unit : age < steady => PaidFor(age)
  BY DEF RateInv
<1>u. Unit \in Nat \ {0} /\ MaxIdle \in Nat /\ limit \in Nat \ {0}
  BY <1>t, RateAssumption DEF Rate!TypeOK
<1>f. limit * Unit \in Nat
  BY <1>u
<1>n. /\ tokens \in Nat /\ tokens <= limit * Unit /\ idle \in 0..MaxIdle /\ idle \in Nat
      /\ steady \in 0..(Unit + 1) /\ queue \in Seq(RateRequests) /\ granted \in [0..Unit -> Nat]
      /\ timer \in {Rate!NoTimer} \cup 0..Unit
  BY <1>t, <1>u, <1>f DEF Rate!TypeOK
<1>r. /\ Rate!Refilled \in Nat /\ Rate!Refilled <= limit * Unit
      /\ idle * limit \in Nat /\ Rate!Refilled <= tokens + idle * limit
      /\ Rate!Refilled = limit * Unit \/ Rate!Refilled = tokens + idle * limit
  BY <1>u, <1>f, <1>n, RefilledIsNat
<1>z. 0 \in 0..MaxIdle
  BY <1>u
<1>1. ASSUME NEW r \in RateRequests, NEW throws \in BOOLEAN, Rate!Acquire(r, throws), Rate!Refilled >= Unit PROVE RateInv'
  <2>1. /\ Rate!Grant(IF throws THEN 0 ELSE 1) /\ idle' = 0 /\ tokens' = Rate!Refilled - Unit
        /\ UNCHANGED <<queue, timer, limit, steady, abandoned>>
    BY <1>1 DEF Rate!Acquire
  <2>2. 1 * Unit = Unit /\ (IF throws THEN 0 ELSE 1) \in {0, 1}
    BY <1>u
  <2>3. /\ tokens' \in 0..(limit' * Unit) /\ granted' \in [0..Unit -> Nat]
        /\ \A age \in 0..Unit : age < steady => PaidFor(age)'
    BY <1>1, <2>1, <2>2, GrantIsPaidFor
  <2>4. Rate!TypeOK'
    BY <1>t, <1>z, <2>1, <2>3 DEF Rate!TypeOK
  <2>5. Rate!WaitersHaveTimer'
    BY <1>t, <2>1 DEF Rate!WaitersHaveTimer
  <2>6. QED
    BY <2>1, <2>3, <2>4, <2>5 DEF RateInv
<1>2. ASSUME NEW r \in RateRequests, NEW throws \in BOOLEAN, Rate!Acquire(r, throws), ~(Rate!Refilled >= Unit) PROVE RateInv'
  <2>1. /\ r \notin Rate!InQueue /\ idle' = 0 /\ abandoned' = FALSE /\ tokens' = Rate!Refilled
        /\ queue' = Append(queue, r) /\ Rate!ScheduleDrain(Rate!Refilled)
        /\ UNCHANGED <<granted, limit, steady>>
    BY <1>2 DEF Rate!Acquire
  <2>2. (Unit - Rate!Refilled + limit - 1) \div limit \in 0..Unit
    BY <1>2, <1>u, <1>r, DelayIsShort
  <2>3. timer' \in 0..Unit
    BY <1>n, <1>u, <1>r, <1>2, <2>1, <2>2 DEF Rate!ScheduleDrain, Rate!NoTimer
  <2>4. queue' \in Seq(RateRequests) /\ \A i, j \in DOMAIN queue' : queue'[i] = queue'[j] => i = j
    <3>1. /\ queue' \in Seq(RateRequests) /\ Len(queue) \in Nat /\ DOMAIN queue = 1..Len(queue)
          /\ DOMAIN queue' = 1..(Len(queue) + 1) /\ queue'[Len(queue) + 1] = r
          /\ \A i \in DOMAIN queue : queue'[i] = queue[i]
      BY <1>n, <2>1
    <3>2. \A i \in DOMAIN queue : queue[i] # r
      BY <2>1 DEF Rate!InQueue
    <3>3. \A i, j \in DOMAIN queue : queue[i] = queue[j] => i = j
      BY <1>t DEF Rate!TypeOK
    <3>4. \A i \in DOMAIN queue' : i \in DOMAIN queue \/ i = Len(queue) + 1
      BY <3>1
    <3>5. QED
      BY <3>1, <3>2, <3>3, <3>4
  <2>6. /\ tokens' \in 0..(limit' * Unit)
        /\ \A age \in 0..Unit : age < steady => PaidFor(age)'
    BY <2>1, RefillKeeps
  <2>7. Rate!TypeOK'
    BY <1>t, <1>z, <2>1, <2>3, <2>4, <2>6 DEF Rate!TypeOK
  <2>8. Rate!WaitersHaveTimer'
    BY <2>3 DEF Rate!WaitersHaveTimer, Rate!NoTimer
  <2>9. QED
    BY <2>1, <2>6, <2>7, <2>8 DEF RateInv
<1>3. CASE Rate!Drain
  <2> DEFINE served == Rate!Servable
             left == Rate!Refilled - served * Unit
  <2>1. /\ Rate!Serve(served) /\ Rate!Grant(served) /\ idle' = 0 /\ tokens' = left
        /\ timer' = IF served = Len(queue) THEN Rate!NoTimer
                    ELSE IF left >= Unit THEN 0 ELSE (Unit - left + limit - 1) \div limit
        /\ UNCHANGED <<limit, steady, abandoned>>
    BY <1>3 DEF Rate!Drain, Rate!Serve
  <2>2. served \in Nat
    BY ServableIsNat
  <2> HIDE DEF served
  <2>3. /\ tokens' \in 0..(limit' * Unit) /\ granted' \in [0..Unit -> Nat]
        /\ \A age \in 0..Unit : age < steady => PaidFor(age)'
        /\ queue' \in Seq(RateRequests) /\ Len(queue') = Len(queue) - served
        /\ \A i, j \in DOMAIN queue' : queue'[i] = queue'[j] => i = j
    BY <2>1, <2>2, ServeKeeps DEF served
  <2>4. left \in Nat
    BY <2>1, <2>3, <1>f
  <2>5. timer' \in {Rate!NoTimer} \cup 0..Unit /\ (served # Len(queue) => timer' \in 0..Unit)
    <3>1. left < Unit => (Unit - left + limit - 1) \div limit \in 0..Unit
      <4> HIDE DEF left
      <4>1. QED
        BY <2>4, <1>u, DelayIsShort
    <3>2. 0 \in 0..Unit /\ (left >= Unit \/ left < Unit)
      BY <2>4, <1>u
    <3> HIDE DEF left
    <3>3. QED
      BY <2>1, <3>1, <3>2
  <2>6. Rate!TypeOK'
    BY <1>t, <1>z, <2>1, <2>3, <2>5 DEF Rate!TypeOK
  <2>7. Rate!WaitersHaveTimer'
    <3>1. ASSUME served = Len(queue) PROVE queue' = <<>>
      BY <3>1, <2>3, <1>n
    <3>2. QED
      BY <2>5, <3>1 DEF Rate!WaitersHaveTimer, Rate!NoTimer
  <2>8. QED
    BY <2>1, <2>3, <2>6, <2>7 DEF RateInv
<1>g. CASE Rate!GetMetrics
  <2>1. /\ idle' = 0 /\ tokens' = Rate!Refilled
        /\ UNCHANGED <<limit, queue, timer, granted, steady, abandoned>>
    BY <1>g DEF Rate!GetMetrics
  <2>2. /\ tokens' \in 0..(limit' * Unit)
        /\ \A age \in 0..Unit : age < steady => PaidFor(age)'
    BY <2>1, RefillKeeps
  <2>3. QED
    BY <1>t, <1>z, <2>1, <2>2 DEF RateInv, Rate!TypeOK, Rate!WaitersHaveTimer
<1>d. ASSUME NEW count \in 1..Len(queue), NEW resolved \in BOOLEAN, Rate!DrainThrows(count, resolved)
      PROVE  RateInv'
  <2> DEFINE given == IF resolved THEN count ELSE count - 1
  <2>1. /\ count <= Rate!Servable /\ Rate!Serve(count) /\ Rate!Grant(given)
        /\ timer' = Rate!NoTimer /\ abandoned' = TRUE /\ idle' = 0 /\ UNCHANGED <<limit, steady>>
    BY <1>d DEF Rate!DrainThrows, Rate!Serve
  <2>2. count \in Nat /\ given \in Nat /\ given <= count
    BY <1>n
  <2> HIDE DEF given
  <2>3. /\ tokens' \in 0..(limit' * Unit) /\ granted' \in [0..Unit -> Nat]
        /\ \A age \in 0..Unit : age < steady => PaidFor(age)'
        /\ queue' \in Seq(RateRequests)
        /\ \A i, j \in DOMAIN queue' : queue'[i] = queue'[j] => i = j
    BY <2>1, <2>2, ServeKeeps
  <2>4. QED
    BY <1>t, <1>z, <2>1, <2>3 DEF RateInv, Rate!TypeOK, Rate!WaitersHaveTimer
<1>4. ASSUME NEW new \in Limits, Rate!SetEndpointLimit(new) PROVE RateInv'
  <2>1. /\ limit' = new /\ tokens' = Rate!Smaller(tokens, new * Unit) /\ steady' = 0
        /\ UNCHANGED <<idle, queue, timer, granted, abandoned>>
    BY <1>4 DEF Rate!SetEndpointLimit
  <2>2. new * Unit \in Nat
    BY <1>u, RateAssumption
  <2>3. tokens' \in 0..(new * Unit)
    BY <2>1, <2>2, <1>n DEF Rate!Smaller
  <2>4. 0 \in 0..(Unit + 1)
    BY <1>u
  <2>5. Rate!TypeOK'
    BY <1>t, <2>1, <2>3, <2>4 DEF Rate!TypeOK
  <2>6. Rate!WaitersHaveTimer'
    BY <1>t, <2>1 DEF Rate!WaitersHaveTimer
  <2>7. \A age \in 0..Unit : ~(age < steady')
    BY <2>1
  <2>8. QED
    BY <2>5, <2>6, <2>7 DEF RateInv
<1>5. ASSUME NEW left \in 0..Rate!MaxLimit, Rate!HandleRemaining(left) PROVE RateInv'
  <2>1. /\ left * Unit < tokens /\ tokens' = left * Unit
        /\ UNCHANGED <<limit, idle, queue, timer, granted, steady, abandoned>>
    BY <1>5 DEF Rate!HandleRemaining
  <2>2. left \in Nat
    OBVIOUS
  <2>3. left * Unit \in Nat
    BY <2>2, <1>u
  <2>4. tokens' \in 0..(limit' * Unit) /\ tokens' \in Nat /\ tokens' <= tokens
    BY <2>1, <2>3, <1>n, <1>f
  <2>5. Rate!TypeOK'
    BY <1>t, <2>1, <2>4 DEF Rate!TypeOK
  <2>6. Rate!WaitersHaveTimer'
    BY <1>t, <2>1 DEF Rate!WaitersHaveTimer
  <2>7. Rate!Refilled' <= Rate!Refilled /\ Rate!Refilled' \in Int
    <3>1. Rate!Refilled' = Rate!Smaller(limit * Unit, tokens' + idle * limit)
      BY <2>1 DEF Rate!Refilled
    <3> DEFINE full == limit * Unit
               more == idle * limit
    <3>2. full \in Nat /\ more \in Nat
      BY <1>f, <1>r
    <3>3. Rate!Refilled' = Rate!Smaller(full, tokens' + more)
          /\ Rate!Refilled = Rate!Smaller(full, tokens + more)
      BY <3>1 DEF Rate!Refilled
    <3> HIDE DEF full, more
    <3>4. /\ tokens' + more \in Nat /\ tokens + more \in Nat
          /\ tokens' + more <= tokens + more
      BY <3>2, <2>4, <1>n, SumIsMonotone
    <3>5. QED
      BY <3>2, <3>3, <3>4, SmallerIsMonotone
  <2>8. \A age \in 0..Unit : age < steady => PaidFor(age)'
    BY <2>1, <2>7, <1>r, LessIsPaidFor
  <2>9. QED
    BY <2>1, <2>5, <2>6, <2>8 DEF RateInv
<1>6. CASE Rate!HandleReset
  <2>1. idle' = 0 /\ UNCHANGED <<limit, tokens, queue, timer, granted, steady, abandoned>>
    BY <1>6 DEF Rate!HandleReset
  <2>2. Rate!TypeOK'
    BY <1>t, <1>z, <2>1 DEF Rate!TypeOK
  <2>3. Rate!WaitersHaveTimer'
    BY <1>t, <2>1 DEF Rate!WaitersHaveTimer
  <2>4. Rate!Refilled' <= Rate!Refilled /\ Rate!Refilled' \in Int
    <3>1. Rate!Refilled' = Rate!Smaller(limit * Unit, tokens + idle' * limit)
      BY <2>1 DEF Rate!Refilled
    <3>2. idle' * limit = 0
      BY <2>1, <1>u
    <3> DEFINE full == limit * Unit
    <3>3. Rate!Refilled' = Rate!Smaller(full, tokens) /\ full \in Nat /\ tokens <= full
      BY <3>1, <3>2, <1>f, <1>n
    <3>4. Rate!Refilled = full \/ Rate!Refilled >= tokens
      BY <1>r, <1>n
    <3> HIDE DEF full
    <3>5. QED
      BY <3>3, <3>4, <1>n, <1>r DEF Rate!Smaller
  <2>5. \A age \in 0..Unit : age < steady => PaidFor(age)'
    BY <2>1, <2>4, <1>r, LessIsPaidFor
  <2>6. QED
    BY <2>1, <2>2, <2>3, <2>5 DEF RateInv
<1>7. CASE Rate!Tick
  <2>1. /\ timer # 0 /\ idle' = Rate!Smaller(idle + 1, MaxIdle)
        /\ timer' = IF timer = Rate!NoTimer THEN Rate!NoTimer ELSE timer - 1
        /\ granted' = [age \in 0..Unit |-> IF age = 0 THEN 0 ELSE granted[age - 1]]
        /\ steady' = Rate!Smaller(steady + 1, Unit + 1)
        /\ UNCHANGED <<limit, tokens, queue, abandoned>>
    BY <1>7 DEF Rate!Tick
  <2>2. idle' \in 0..MaxIdle /\ idle' <= idle + 1 /\ idle' \in Nat
    BY <2>1, <1>n, <1>u DEF Rate!Smaller
  <2>3. steady' \in 0..(Unit + 1) /\ steady' <= steady + 1
    BY <2>1, <1>n, <1>u DEF Rate!Smaller
  <2>4. timer' \in {Rate!NoTimer} \cup 0..Unit /\ (timer # Rate!NoTimer => timer' # Rate!NoTimer)
    BY <2>1, <1>n, <1>u DEF Rate!NoTimer
  <2>5. granted' \in [0..Unit -> Nat]
    <3>1. \A age \in 0..Unit : age # 0 => age - 1 \in 0..Unit
      BY <1>u
    <3>2. QED
      BY <2>1, <3>1, <1>n
  <2>6. Rate!TypeOK'
    BY <1>t, <2>1, <2>2, <2>3, <2>4, <2>5 DEF Rate!TypeOK
  <2>7. Rate!WaitersHaveTimer'
    BY <1>t, <2>1, <2>4 DEF Rate!WaitersHaveTimer
  <2>8. /\ Rate!Refilled' \in Nat /\ Rate!Refilled' <= limit * Unit
        /\ Rate!Refilled' <= Rate!Refilled + limit
    <3>1. Rate!Refilled' = Rate!Smaller(limit * Unit, tokens + idle' * limit)
      BY <2>1 DEF Rate!Refilled
    <3>2. idle' * limit <= (idle + 1) * limit
      BY <2>2, <1>n, <1>u, TimesIsMonotone
    <3>a. (idle + 1) * limit = idle * limit + limit
      BY <1>n, <1>u
    <3>b. idle' * limit \in Nat
      BY <2>2, <1>u, ProductIsNat
    <3>3. (idle + 1) * limit = idle * limit + limit /\ idle' * limit \in Nat
      BY <3>a, <3>b
    <3> DEFINE full == limit * Unit
               more == idle * limit
               after == idle' * limit
    <3>4. /\ full \in Nat /\ more \in Nat /\ after \in Nat /\ after <= more + limit
          /\ Rate!Refilled' = Rate!Smaller(full, tokens + after)
          /\ Rate!Refilled = Rate!Smaller(full, tokens + more)
      BY <3>1, <3>2, <3>3, <1>f, <1>r DEF Rate!Refilled
    <3> HIDE DEF full, more, after
    <3>5. Rate!Refilled' \in Nat /\ Rate!Refilled' <= full /\ Rate!Refilled' <= Rate!Refilled + limit
      BY <3>4, <1>n, <1>u DEF Rate!Smaller
    <3>6. QED
      BY <3>5 DEF full
  <2>9. ASSUME NEW age \in 0..Unit, age < steady' PROVE PaidFor(age)'
    <3>0. age \in Nat /\ (Unit + age) * limit \in Nat
      BY <1>u
    <3>1. CASE age = 0
      <4>1. granted'[age] = 0 /\ granted'[age] * Unit = 0
        BY <2>1, <3>1, <1>u
      <4>2. (Unit + age) * limit = limit * Unit
        BY <3>1, <1>u
      <4>3. QED
        BY <4>1, <4>2, <2>8, <2>1, <1>f DEF PaidFor
    <3>2. CASE age # 0
      <4> DEFINE b == age - 1
      <4>1. b \in 0..Unit /\ b \in Nat /\ b < steady /\ age = b + 1
        BY <3>0, <3>2, <2>3, <2>9, <1>n, <1>u
      <4>2. granted'[age] = granted[b]
        BY <2>1, <3>2
      <4> HIDE DEF b
      <4>3. granted[b] * Unit + Rate!Refilled <= (Unit + b) * limit
        BY <4>1, <1>t DEF PaidFor
      <4>4. (Unit + age) * limit = (Unit + b) * limit + limit /\ (Unit + b) * limit \in Nat
        BY <4>1, <1>u
      <4>5. granted[b] * Unit \in Nat
        BY <4>1, <1>n, <1>u
      <4>6. granted[b] * Unit + Rate!Refilled' <= (Unit + age) * limit
        <5> DEFINE g == granted[b] * Unit
                   m == (Unit + b) * limit
        <5>1. g \in Nat /\ m \in Nat /\ g + Rate!Refilled <= m /\ (Unit + age) * limit = m + limit
          BY <4>3, <4>4, <4>5
        <5> HIDE DEF g, m
        <5>2. g + Rate!Refilled' <= m + limit
          <6>1. m + limit \in Nat /\ Rate!Refilled + limit \in Int /\ Rate!Refilled' \in Int
                /\ g + (Rate!Refilled + limit) <= m + limit
            BY <5>1, <2>8, <1>r, <1>u
          <6>2. QED
            BY <5>1, <6>1, <2>8, StaysBelow
        <5>3. QED
          BY <5>1, <5>2 DEF g
      <4>7. QED
        BY <4>2, <4>6, <2>1 DEF PaidFor
    <3>3. QED
      BY <3>1, <3>2
  <2>10. QED
    BY <2>6, <2>7, <2>9 DEF RateInv
<1>8. CASE UNCHANGED rateVars
  <2>1. UNCHANGED <<limit, tokens, idle, queue, timer, granted, steady, abandoned>>
    BY <1>8 DEF rateVars
  <2>2. Rate!Refilled' = Rate!Refilled
    BY <2>1 DEF Rate!Refilled
  <2>3. QED
    BY <1>t, <2>1, <2>2 DEF RateInv, Rate!TypeOK, Rate!WaitersHaveTimer, PaidFor
<1>9. QED
  BY <1>1, <1>2, <1>3, <1>4, <1>5, <1>6, <1>7, <1>8, <1>g, <1>d DEF Rate!Next

LEMMA RateHolds == RateInv => Rate!TypeOK /\ Rate!WaitersHaveTimer /\ Rate!WithinRate
<1> SUFFICES ASSUME RateInv, steady = Unit + 1 PROVE granted[Unit] <= 2 * limit
  BY DEF RateInv, Rate!WithinRate
<1>1. Unit \in Nat \ {0} /\ limit \in Nat \ {0} /\ granted \in [0..Unit -> Nat]
      /\ Rate!Refilled \in Nat
  BY RateNumbers
<1>2. Unit \in 0..Unit /\ Unit < steady /\ granted[Unit] \in Nat
  BY <1>1
<1>3. granted[Unit] * Unit + Rate!Refilled <= (Unit + Unit) * limit
  BY <1>2 DEF RateInv, PaidFor
<1>4. (Unit + Unit) * limit = (2 * limit) * Unit /\ granted[Unit] * Unit \in Nat
      /\ (2 * limit) * Unit \in Nat /\ 2 * limit \in Nat
  BY <1>1, <1>2
<1>5. granted[Unit] * Unit <= (2 * limit) * Unit
  BY <1>1, <1>3, <1>4
<1>6. QED
  BY <1>1, <1>2, <1>4, <1>5, TimesCancels

-----------------------------------------------------------------------------
\* The sequence caches of the builders (SequenceCache): what a build holds rests on
\* an answer that is new or no older than a cache entry which is still fresh, and a
\* build under way alone holds the number that the cache has, or a later one that its
\* estimate counted.
RestsOnAnswer(k) ==
  /\ k.account.answered =>
       \/ k.account.basis = 0
       \/ /\ sequenceCache # NotCached /\ sequenceCache.age <= Ttl
          /\ k.account.basis <= sequenceCache.age
  /\ k.kind = "compose" /\ ~k.account.answered => composer.override # NoOverride

FollowsCache(k) ==
  k.auto /\ k.account.answered /\ sequenceCache # NotCached =>
    /\ k.account.sequence >= sequenceCache.account.sequence
    /\ k.stage = "resolved" => k.account.sequence = sequenceCache.account.sequence

OnlyComposeWaits == \A x \in Builds : build[x].stage = "estimating" => build[x].kind = "compose"

HoldsAccount(k) == k.stage \in {"resolved", "estimating"}

OneAtATime ==
  /\ \A x, y \in Builds : build[x].stage # "idle" /\ build[y].stage # "idle" => x = y
  /\ \A x \in Builds : build[x].stage = "loading" /\ build[x].auto => sequenceCache = NotCached

SequenceInv ==
  /\ Builders!TypeOK /\ Builders!CacheIsHonest /\ Builders!NumbersGoOn /\ OnlyComposeWaits
  /\ ~numbers.excused => \A x \in Builds : HoldsAccount(build[x]) => RestsOnAnswer(build[x])
  /\ ~numbers.raced => OneAtATime
  /\ ~numbers.raced /\ ~numbers.excused =>
       \A x \in Builds : HoldsAccount(build[x]) => FollowsCache(build[x])

BuildCall == [stage : {"idle", "loading", "resolved", "estimating"}, kind : kinds \cup {"none"},
              auto : BOOLEAN, account : Builders!Accounts, alone : BOOLEAN]

NumberRecord == [top : Nat, raced : BOOLEAN, excused : BOOLEAN, silent : BOOLEAN]

CacheEntry == [account : Builders!Accounts, age : Builders!Ages]

LEMMA AccountTypes ==
  ASSUME NEW acc \in Builders!Accounts
  PROVE  acc.sequence \in Nat /\ acc.basis \in Nat /\ acc.basis \in Builders!Ages
         /\ acc.answered \in BOOLEAN
BY SequenceAssumption DEF Builders!Accounts, Builders!Ages

LEMMA GivenAccount ==
  ASSUME NEW n \in Nat
  PROVE  /\ Builders!Given(n) \in Builders!Accounts /\ ~Builders!Given(n).answered
         /\ Builders!Given(n).basis = 0
BY SequenceAssumption DEF Builders!Given, Builders!Accounts, Builders!Ages

LEMMA CountedAccount ==
  ASSUME NEW acc \in Builders!Accounts
  PROVE  /\ Builders!Counted(acc) \in Builders!Accounts
         /\ Builders!Counted(acc).sequence = acc.sequence + 1
         /\ Builders!Counted(acc).basis = acc.basis
         /\ Builders!Counted(acc).answered = acc.answered
<1>1. acc.sequence + 1 \in Nat
  BY AccountTypes
<1>2. QED
  BY <1>1 DEF Builders!Counted, Builders!Accounts

LEMMA OlderAge ==
  ASSUME NEW n \in Builders!Ages
  PROVE  Builders!Older(n) \in Builders!Ages
BY SequenceAssumption DEF Builders!Older, Builders!Ages

LEMMA OlderKeepsOrder ==
  ASSUME NEW m \in Builders!Ages, NEW n \in Builders!Ages, m <= n
  PROVE  Builders!Older(m) <= Builders!Older(n)
BY SequenceAssumption DEF Builders!Older, Builders!Ages

LEMMA AgedAccount ==
  ASSUME NEW acc \in Builders!Accounts
  PROVE  /\ Builders!Aged(acc) \in Builders!Accounts
         /\ Builders!Aged(acc).sequence = acc.sequence
         /\ Builders!Aged(acc).answered = acc.answered
         /\ acc.answered => Builders!Aged(acc).basis = Builders!Older(acc.basis)
<1>1. Builders!Older(acc.basis) \in Builders!Ages
  BY AccountTypes, OlderAge
<1>2. QED
  BY <1>1 DEF Builders!Aged, Builders!Accounts

LEMMA IdleBuild == Builders!Idle \in BuildCall /\ Builders!Idle.stage = "idle"
<1>1. Builders!Given(0) \in Builders!Accounts
  BY GivenAccount
<1>2. QED
  BY <1>1 DEF Builders!Idle, BuildCall

LEMMA SequenceInit == Builders!Init => SequenceInv
<1> SUFFICES ASSUME Builders!Init PROVE SequenceInv
  OBVIOUS
<1>1. build \in [Builds -> BuildCall] /\ \A x \in Builds : build[x].stage = "idle"
  BY IdleBuild DEF Builders!Init
<1>2. 0 \in 0 .. MaxSequence
  BY SequenceAssumption
<1>3. numbers \in NumberRecord
  BY DEF Builders!Init, Builders!Unraced, NumberRecord
<1>4. Builders!TypeOK
  BY <1>1, <1>2, <1>3 DEF Builders!Init, Builders!TypeOK, BuildCall, Builders!Composers, Builders!Blank,
     NumberRecord
<1>5. Builders!CacheIsHonest /\ Builders!NumbersGoOn
  BY DEF Builders!Init, Builders!CacheIsHonest, Builders!NumbersGoOn
<1>6. QED
  BY <1>1, <1>4, <1>5 DEF SequenceInv, OneAtATime, OnlyComposeWaits, HoldsAccount

LEMMA SequenceStepInv == SequenceInv /\ [Builders!Next]_sequenceVars => SequenceInv'
<1> SUFFICES ASSUME SequenceInv, [Builders!Next]_sequenceVars PROVE SequenceInv'
  OBVIOUS
<1>t. Builders!TypeOK /\ Builders!CacheIsHonest /\ Builders!NumbersGoOn /\ OnlyComposeWaits
  BY DEF SequenceInv
<1>h. ~numbers.excused => \A x \in Builds : HoldsAccount(build[x]) => RestsOnAnswer(build[x])
  BY DEF SequenceInv
<1>o. ~numbers.raced => OneAtATime
  BY DEF SequenceInv
<1>f. ~numbers.raced /\ ~numbers.excused =>
        \A x \in Builds : HoldsAccount(build[x]) => FollowsCache(build[x])
  BY DEF SequenceInv
<1>b. build \in [Builds -> BuildCall]
  BY <1>t DEF Builders!TypeOK, BuildCall
<1>c. sequenceCache # NotCached =>
        /\ sequenceCache \in CacheEntry /\ sequenceCache.account \in Builders!Accounts
        /\ sequenceCache.age \in Builders!Ages /\ sequenceCache.age \in Nat
  BY <1>t, SequenceAssumption DEF Builders!TypeOK, CacheEntry, Builders!Ages
<1>n. /\ numbers.top \in Nat /\ numbers.raced \in BOOLEAN /\ numbers.excused \in BOOLEAN
      /\ numbers.silent \in BOOLEAN /\ numbers \in NumberRecord
  BY <1>t DEF Builders!TypeOK, NumberRecord
<1>a. \A x \in Builds : build[x] \in BuildCall /\ build[x].account \in Builders!Accounts
  BY <1>b DEF BuildCall
<1>p. ASSUME NEW x \in Builds, NEW k \in BuildCall, build' = [build EXCEPT ![x] = k]
      PROVE  /\ build' \in [Builds -> BuildCall] /\ build'[x] = k
             /\ \A y \in Builds : y # x => build'[y] = build[y]
  BY <1>p, <1>b
\* A build goes on, or ends, and notes nothing.
<1>m. ASSUME NEW x \in Builds, NEW k \in BuildCall, build' = [build EXCEPT ![x] = k],
             UNCHANGED <<kinds, ledgerSequence, sequenceCache, composer>>,
             \/ numbers' = numbers
             \/ /\ numbers' \in NumberRecord /\ Builders!NumbersGoOn'
                /\ numbers'.raced = numbers.raced /\ numbers'.excused = numbers.excused,
             build[x].stage # "idle", k.stage # "loading",
             k.stage = "estimating" => k.kind = "compose",
             HoldsAccount(k) => (~numbers.excused => RestsOnAnswer(k)),
             HoldsAccount(k) => (~numbers.raced /\ ~numbers.excused => FollowsCache(k))
      PROVE  SequenceInv'
  <2>1. /\ build' \in [Builds -> BuildCall] /\ build'[x] = k
        /\ \A y \in Builds : y # x => build'[y] = build[y]
    BY <1>m, <1>p
  <2>2. Builders!TypeOK'
    BY <1>m, <2>1, <1>t DEF Builders!TypeOK, BuildCall, NumberRecord
  <2>3. Builders!CacheIsHonest' /\ Builders!NumbersGoOn'
    BY <1>m, <1>t DEF Builders!CacheIsHonest, Builders!NumbersGoOn
  <2>4. ~numbers'.excused => \A y \in Builds : HoldsAccount(build'[y]) => RestsOnAnswer(build[y])'
    BY <1>m, <2>1, <1>h DEF RestsOnAnswer, HoldsAccount
  <2>5. ~numbers'.raced => OneAtATime'
    BY <1>m, <2>1, <1>o DEF OneAtATime
  <2>6. ~numbers'.raced /\ ~numbers'.excused =>
          \A y \in Builds : HoldsAccount(build'[y]) => FollowsCache(build[y])'
    BY <1>m, <2>1, <1>f DEF FollowsCache, HoldsAccount
  <2>7. OnlyComposeWaits'
    BY <1>m, <2>1, <1>t DEF OnlyComposeWaits
  <2>8. QED
    BY <2>2, <2>3, <2>4, <2>5, <2>6, <2>7 DEF SequenceInv, HoldsAccount
\* A build ends and its number, the next one, is noted.
<1>d. ASSUME NEW x \in Builds, Builders!Completed(x, TRUE), HoldsAccount(build[x]), build[x].auto,
             ~numbers.excused => build[x].account.answered,
             UNCHANGED <<kinds, ledgerSequence, composer>>
      PROVE  SequenceInv'
  <2> DEFINE number == Builders!Counted(build[x].account)
             entry  == Builders!Noted(number)
             top    == IF sequenceCache = NotCached \/ number.sequence > numbers.top
                       THEN number.sequence ELSE numbers.top
  <2>1. /\ build' = [build EXCEPT ![x] = Builders!Idle] /\ sequenceCache' = entry
        /\ numbers' = [numbers EXCEPT !.top = top, !.silent = FALSE,
                         !.raced = numbers.raced \/ ~build[x].alone \/ Builders!Others(x) # {}]
    BY <1>d DEF Builders!Completed
  <2>2. /\ build' \in [Builds -> BuildCall] /\ build'[x] = Builders!Idle
        /\ \A y \in Builds : y # x => build'[y] = build[y]
    BY <2>1, <1>p, IdleBuild
  <2>3. /\ number \in Builders!Accounts /\ number.sequence = build[x].account.sequence + 1
        /\ number.basis = build[x].account.basis /\ number.answered = build[x].account.answered
        /\ number.sequence \in Nat
    BY <1>a, CountedAccount, AccountTypes
  <2> DEFINE age == IF sequenceCache = NotCached THEN 0 ELSE sequenceCache.age
  <2>4. entry = [account |-> number, age |-> age] /\ age \in Builders!Ages
    BY <1>c, SequenceAssumption DEF Builders!Noted, Builders!Ages
  <2>5. top \in Nat
    BY <2>3, <1>n
  <2> HIDE DEF number
  <2>6. /\ numbers'.top = top /\ numbers'.excused = numbers.excused /\ ~numbers'.silent
        /\ numbers'.raced = (numbers.raced \/ ~build[x].alone \/ Builders!Others(x) # {})
        /\ numbers' \in NumberRecord
    <3> DEFINE raced == numbers.raced \/ ~build[x].alone \/ Builders!Others(x) # {}
    <3>1. raced \in BOOLEAN
      OBVIOUS
    <3>2. numbers' = [numbers EXCEPT !.top = top, !.silent = FALSE, !.raced = raced]
      BY <2>1
    <3> HIDE DEF raced, top
    <3>3. /\ numbers'.top = top /\ numbers'.excused = numbers.excused /\ numbers'.raced = raced
          /\ numbers' \in NumberRecord /\ ~numbers'.silent
      BY <3>1, <3>2, <2>5, <1>n DEF NumberRecord
    <3>4. QED
      BY <3>3 DEF raced
  <2>7. /\ sequenceCache' \in CacheEntry /\ sequenceCache' # NotCached
        /\ sequenceCache'.account = number /\ sequenceCache'.age = age
    <3> HIDE DEF age, entry
    <3>1. sequenceCache' = [account |-> number, age |-> age]
      BY <2>1, <2>4
    <3>2. sequenceCache' \in CacheEntry
      BY <3>1, <2>3, <2>4 DEF CacheEntry
    <3>3. QED
      BY <3>1, <3>2, SequenceAssumption DEF CacheEntry
  <2> HIDE DEF entry
  <2>8. Builders!TypeOK'
    <3> HIDE DEF age, top
    <3>1. QED
      BY <1>d, <2>2, <2>6, <2>7, <1>t DEF Builders!TypeOK, BuildCall, CacheEntry, NumberRecord
  <2>9. ~numbers.excused => RestsOnAnswer(build[x]) /\ build[x].account.answered
    BY <1>d, <1>h
  <2>10. Builders!CacheIsHonest'
    <3>1. ~numbers.excused => number.answered /\ number.basis <= age
      BY <2>9, <2>3, <1>c DEF RestsOnAnswer
    <3> HIDE DEF age, top
    <3>2. QED
      BY <3>1, <2>6, <2>7 DEF Builders!CacheIsHonest
  <2>11. ~numbers'.excused => \A y \in Builds : HoldsAccount(build'[y]) => RestsOnAnswer(build[y])'
    <3> SUFFICES ASSUME ~numbers'.excused, NEW y \in Builds, HoldsAccount(build'[y])
                 PROVE  RestsOnAnswer(build[y])'
      OBVIOUS
    <3>1. y # x /\ build'[y] = build[y] /\ RestsOnAnswer(build[y])
      BY <2>2, <2>6, <1>h, IdleBuild DEF HoldsAccount
    <3>2. QED
      BY <3>1, <2>7, <1>d DEF RestsOnAnswer
  <2>12. ~numbers'.raced => OneAtATime'
    <3> SUFFICES ASSUME ~numbers'.raced PROVE OneAtATime'
      OBVIOUS
    <3>1. \A y \in Builds : build'[y].stage = "idle"
      BY <2>2, <2>6, IdleBuild DEF Builders!Others, Builders!Active
    <3>2. QED
      BY <3>1 DEF OneAtATime
  <2>13. ~numbers'.raced /\ ~numbers'.excused =>
           \A y \in Builds : HoldsAccount(build'[y]) => FollowsCache(build[y])'
    <3>1. ~numbers'.raced => \A y \in Builds : build'[y].stage = "idle"
      BY <2>2, <2>6, IdleBuild DEF Builders!Others, Builders!Active
    <3>2. QED
      BY <3>1 DEF HoldsAccount
  <2>14. Builders!NumbersGoOn'
    <3>1. ~numbers'.raced /\ ~numbers'.excused => number.sequence = top
      <4> SUFFICES ASSUME ~numbers'.raced, ~numbers'.excused, sequenceCache # NotCached
                   PROVE  number.sequence >= numbers.top
        BY <2>3, <1>n
      <4>1. ~numbers.raced /\ ~numbers.excused
        BY <2>6
      <4>2. FollowsCache(build[x])
            /\ (numbers.top = sequenceCache.account.sequence + 1 \/ numbers.top = sequenceCache.account.sequence)
        BY <4>1, <1>d, <1>f, <1>t, <1>c, AccountTypes DEF Builders!NumbersGoOn
      <4>3. build[x].account.sequence >= sequenceCache.account.sequence
        BY <4>1, <4>2, <1>d DEF FollowsCache
      <4>4. build[x].account.sequence \in Nat /\ sequenceCache.account.sequence \in Nat
        BY <1>a, <1>c, AccountTypes
      <4>5. QED
        BY <4>2, <4>3, <4>4, <2>3, <1>n
    <3> HIDE DEF age, top
    <3>2. QED
      BY <3>1, <2>3, <2>6, <2>7 DEF Builders!NumbersGoOn
  <2>15. OnlyComposeWaits'
    BY <2>2, IdleBuild, <1>t DEF OnlyComposeWaits
  <2>16. QED
    BY <2>15, <2>8, <2>10, <2>11, <2>12, <2>13, <2>14 DEF SequenceInv, HoldsAccount
\* A build ends and its number is not noted.
<1>e. ASSUME NEW x \in Builds, Builders!Completed(x, FALSE), build[x].stage # "idle",
             UNCHANGED <<kinds, ledgerSequence, composer>>
      PROVE  SequenceInv'
  <2>1. /\ build' = [build EXCEPT ![x] = Builders!Idle] /\ ~HoldsAccount(Builders!Idle)
        /\ UNCHANGED <<sequenceCache, numbers>>
    BY <1>e, IdleBuild DEF Builders!Completed, HoldsAccount
  <2>2. QED
    BY <1>e, <2>1, <1>m, IdleBuild
\* A build begins.
<1>r. ASSUME NEW x \in Builds, NEW kind \in kinds, NEW auto \in BOOLEAN,
             NEW override \in {NoOverride, Offline}, Builders!Resolve(x, kind, auto, override),
             build[x].stage = "idle", kind = "compose" => override = composer.override,
             UNCHANGED <<kinds, ledgerSequence, composer>>
      PROVE  SequenceInv'
  <2> DEFINE alone == Builders!Others(x) = {}
             k(stage, account) == [stage |-> stage, kind |-> kind, auto |-> auto,
                                   account |-> account, alone |-> alone]
  <2>a. alone \in BOOLEAN
    OBVIOUS
  <2>b. /\ ~alone => numbers' = [numbers EXCEPT !.raced = TRUE]
        /\ alone /\ sequenceCache' = NotCached => numbers' = Builders!Unraced
        /\ alone /\ sequenceCache' # NotCached => numbers' = numbers
    BY <1>r DEF Builders!Resolve
  <2>d. alone => \A y \in Builds \ {x} : build[y].stage = "idle"
    BY DEF Builders!Others, Builders!Active
  <2>e. /\ [numbers EXCEPT !.raced = TRUE] \in NumberRecord
        /\ [numbers EXCEPT !.raced = TRUE].raced
        /\ [numbers EXCEPT !.raced = TRUE].excused = numbers.excused
        /\ Builders!Unraced \in NumberRecord
    BY <1>n DEF Builders!Unraced, NumberRecord
  <2> HIDE DEF alone
  <2>c. /\ numbers' \in NumberRecord
        /\ ~numbers'.raced => alone
        /\ ~numbers'.raced /\ sequenceCache' # NotCached => numbers' = numbers
        /\ ~numbers'.excused =>
             \/ ~numbers.excused
             \/ \A y \in Builds \ {x} : build[y].stage = "idle"
    BY <2>a, <2>b, <2>d, <2>e, <1>n
  \* It takes a number that is given, or that of a fresh entry: the cache stays.
  <2>1. ASSUME NEW acc \in Builders!Accounts, build' = [build EXCEPT ![x] = k("resolved", acc)],
               sequenceCache' = sequenceCache,
               \/ ~acc.answered /\ override # NoOverride
               \/ sequenceCache # NotCached /\ sequenceCache.age <= Ttl /\ acc = sequenceCache.account
        PROVE  SequenceInv'
    <3> DEFINE new == k("resolved", acc)
    <3>0. /\ new \in BuildCall /\ new.stage = "resolved" /\ new.kind = kind /\ new.account = acc
          /\ new.auto = auto
      BY <1>r, <2>a, <2>1 DEF BuildCall
    <3> HIDE DEF new
    <3>1. /\ build' \in [Builds -> BuildCall] /\ build'[x] = new
          /\ \A y \in Builds : y # x => build'[y] = build[y]
      BY <2>1, <3>0, <1>p DEF new
    <3>2. Builders!TypeOK'
      BY <1>r, <2>1, <2>c, <3>1, <1>t DEF Builders!TypeOK, BuildCall, NumberRecord
    <3>n. sequenceCache # NotCached /\ ~numbers'.excused => ~numbers.excused
      BY <2>1, <2>b, <1>n DEF NumberRecord
    <3>3. Builders!CacheIsHonest'
      BY <2>1, <3>n, <1>t DEF Builders!CacheIsHonest
    <3>4. Builders!NumbersGoOn'
      BY <2>1, <2>c, <1>t DEF Builders!NumbersGoOn
    <3>5. ~numbers'.excused => \A y \in Builds : HoldsAccount(build'[y]) => RestsOnAnswer(build[y])'
      <4> SUFFICES ASSUME ~numbers'.excused, NEW y \in Builds, HoldsAccount(build'[y])
                   PROVE  RestsOnAnswer(build[y])'
        OBVIOUS
      <4>1. CASE y # x
        <5>1. build'[y] = build[y] /\ RestsOnAnswer(build[y])
          BY <4>1, <3>1, <2>c, <1>h DEF HoldsAccount
        <5>2. QED
          BY <5>1, <2>1, <1>r DEF RestsOnAnswer
      <4>2. CASE y = x
        <5>1. acc.answered =>
                /\ sequenceCache # NotCached /\ sequenceCache.age <= Ttl
                /\ acc.basis <= sequenceCache.age
          BY <2>1, <3>n, <1>t DEF Builders!CacheIsHonest
        <5>2. ~acc.answered => override # NoOverride
          BY <2>1, <3>n, <1>t DEF Builders!CacheIsHonest
        <5>3. QED
          BY <5>1, <5>2, <4>2, <3>0, <3>1, <2>1, <1>r DEF RestsOnAnswer
      <4>3. QED
        BY <4>1, <4>2
    <3>6. ~numbers'.raced => OneAtATime'
      BY <3>0, <3>1, <2>c, <2>d DEF OneAtATime
    <3>7. ~numbers'.raced /\ ~numbers'.excused =>
            \A y \in Builds : HoldsAccount(build'[y]) => FollowsCache(build[y])'
      <4> SUFFICES ASSUME ~numbers'.raced, NEW y \in Builds, HoldsAccount(build'[y])
                   PROVE  FollowsCache(build[y])'
        OBVIOUS
      <4>1. y = x /\ build'[y] = new
        BY <3>1, <2>c, <2>d DEF HoldsAccount
      <4>2. new.account.answered /\ sequenceCache # NotCached =>
              /\ new.account.sequence >= sequenceCache.account.sequence
              /\ new.account.sequence = sequenceCache.account.sequence
        <5>1. sequenceCache # NotCached => sequenceCache.account.sequence \in Nat
          BY <1>c, AccountTypes
        <5>2. QED
          BY <3>0, <2>1, <5>1
      <4>3. QED
        BY <4>1, <4>2, <2>1 DEF FollowsCache
    <3>8. OnlyComposeWaits'
      BY <3>0, <3>1, <1>t DEF OnlyComposeWaits
    <3>9. QED
      BY <3>2, <3>3, <3>4, <3>5, <3>6, <3>7, <3>8 DEF SequenceInv, HoldsAccount
  \* It asks Horizon, and forgets an entry that is not fresh.
  <2>2. ASSUME build' = [build EXCEPT ![x] = k("loading", Builders!Given(0))],
               sequenceCache' = IF auto THEN NotCached ELSE sequenceCache,
               ~(auto /\ Builders!Fresh)
        PROVE  SequenceInv'
    <3> DEFINE new == k("loading", Builders!Given(0))
    <3>0. /\ new \in BuildCall /\ new.stage = "loading" /\ new.auto = auto
      BY <1>r, <2>a, GivenAccount DEF BuildCall
    <3> HIDE DEF new
    <3>1. /\ build' \in [Builds -> BuildCall] /\ build'[x] = new
          /\ \A y \in Builds : y # x => build'[y] = build[y]
      BY <2>2, <3>0, <1>p DEF new
    <3>2. Builders!TypeOK'
      BY <1>r, <2>2, <2>c, <3>1, <1>t DEF Builders!TypeOK, BuildCall, NumberRecord
    <3>n. sequenceCache' # NotCached /\ ~numbers'.excused => ~numbers.excused /\ sequenceCache' = sequenceCache
      BY <2>2, <2>b, <1>n DEF NumberRecord
    <3>3. Builders!CacheIsHonest'
      BY <3>n, <1>t DEF Builders!CacheIsHonest
    <3>4. Builders!NumbersGoOn'
      BY <2>2, <2>c, <1>t DEF Builders!NumbersGoOn
    <3>5. ~numbers'.excused => \A y \in Builds : HoldsAccount(build'[y]) => RestsOnAnswer(build[y])'
      <4> SUFFICES ASSUME ~numbers'.excused, NEW y \in Builds, HoldsAccount(build'[y])
                   PROVE  RestsOnAnswer(build[y])'
        OBVIOUS
      <4>1. y # x /\ build'[y] = build[y] /\ RestsOnAnswer(build[y])
        BY <3>0, <3>1, <2>c, <1>h DEF HoldsAccount
      <4>2. sequenceCache # NotCached /\ sequenceCache.age <= Ttl => ~auto
        BY <2>2 DEF Builders!Fresh
      <4>3. QED
        BY <4>1, <4>2, <2>2, <1>r DEF RestsOnAnswer
    <3>6. ~numbers'.raced => OneAtATime'
      BY <3>0, <3>1, <2>2, <2>c, <2>d DEF OneAtATime
    <3>7. ~numbers'.raced /\ ~numbers'.excused =>
            \A y \in Builds : HoldsAccount(build'[y]) => FollowsCache(build[y])'
      BY <3>0, <3>1, <2>c, <2>d DEF HoldsAccount
    <3>8. OnlyComposeWaits'
      BY <3>0, <3>1, <1>t DEF OnlyComposeWaits
    <3>9. QED
      BY <3>2, <3>3, <3>4, <3>5, <3>6, <3>7, <3>8 DEF SequenceInv, HoldsAccount
  <2>3. CASE override # NoOverride
    <3>1. override \in Nat
      BY <2>3, SequenceAssumption
    <3>2. /\ build' = [build EXCEPT ![x] = k("resolved", Builders!Given(override))]
          /\ sequenceCache' = sequenceCache
      BY <1>r, <2>3 DEF Builders!Resolve, alone
    <3> HIDE DEF k
    <3>3. QED
      BY <3>1, <3>2, <2>3, <2>1, GivenAccount
  <2>4. CASE override = NoOverride /\ auto /\ Builders!Fresh
    <3>1. /\ build' = [build EXCEPT ![x] = k("resolved", sequenceCache.account)]
          /\ sequenceCache' = sequenceCache
      BY <1>r, <2>4 DEF Builders!Resolve, alone
    <3>2. sequenceCache # NotCached /\ sequenceCache.age <= Ttl /\ sequenceCache.account \in Builders!Accounts
      BY <2>4, <1>c DEF Builders!Fresh
    <3> HIDE DEF k
    <3>3. QED
      BY <3>1, <3>2, <2>1
  <2>5. CASE override = NoOverride /\ ~(auto /\ Builders!Fresh)
    <3>1. /\ build' = [build EXCEPT ![x] = k("loading", Builders!Given(0))]
          /\ sequenceCache' = IF auto THEN NotCached ELSE sequenceCache
      BY <1>r, <2>5 DEF Builders!Resolve, alone
    <3> HIDE DEF k
    <3>2. QED
      BY <3>1, <2>5, <2>2
  <2>6. QED
    BY <2>3, <2>4, <2>5
\* What the callers do to the composer, the cache and the ledger, and time.
<1>x. ASSUME Builders!TypeOK', build' = build,
             numbers' = [numbers EXCEPT !.excused = numbers'.excused],
             ~numbers'.excused => ~numbers.excused,
             sequenceCache' \in {sequenceCache, NotCached},
             ~numbers'.excused => \A y \in Builds : HoldsAccount(build[y]) =>
               /\ sequenceCache' = sequenceCache
               /\ build[y].kind = "compose" => composer'.override = composer.override
      PROVE  SequenceInv'
  <2>1. Builders!CacheIsHonest'
    BY <1>x, <1>t DEF Builders!CacheIsHonest
  <2>2. numbers'.top = numbers.top /\ numbers'.raced = numbers.raced /\ numbers'.silent = numbers.silent
    BY <1>x, <1>n DEF NumberRecord
  <2>3. Builders!NumbersGoOn'
    BY <1>x, <2>2, <1>t DEF Builders!NumbersGoOn
  <2>4. ~numbers'.excused => \A y \in Builds : HoldsAccount(build'[y]) => RestsOnAnswer(build[y])'
    BY <1>x, <1>h DEF RestsOnAnswer
  <2>5. ~numbers'.raced => OneAtATime'
    BY <1>x, <2>2, <1>o DEF OneAtATime
  <2>6. ~numbers'.raced /\ ~numbers'.excused =>
          \A y \in Builds : HoldsAccount(build'[y]) => FollowsCache(build[y])'
    BY <1>x, <2>2, <1>f DEF FollowsCache
  <2>7. OnlyComposeWaits'
    BY <1>x, <1>t DEF OnlyComposeWaits
  <2>8. QED
    BY <1>x, <2>1, <2>3, <2>4, <2>5, <2>6, <2>7 DEF SequenceInv, HoldsAccount
<1>1. ASSUME NEW x \in Builds, NEW kind \in kinds, NEW auto \in BOOLEAN,
             NEW override \in {NoOverride, Offline}, Builders!Build(x, kind, auto, override)
      PROVE  SequenceInv'
  BY <1>1, <1>r DEF Builders!Build, Builders!Active
<1>2. ASSUME NEW x \in Builds, NEW auto \in BOOLEAN, Builders!Compose(x, auto) PROVE SequenceInv'
  <2>1. composer.override \in {NoOverride, Offline}
    BY <1>t DEF Builders!TypeOK, Builders!Composers
  <2>2. QED
    BY <1>2, <2>1, <1>r DEF Builders!Compose, Builders!Active
<1>3. ASSUME NEW x \in Builds, Builders!Loaded(x) PROVE SequenceInv'
  <2> DEFINE acc == [sequence |-> ledgerSequence, basis |-> 0, answered |-> TRUE]
             k == [build[x] EXCEPT !.stage = "resolved", !.account = acc]
  <2>1. /\ build[x].stage = "loading" /\ build' = [build EXCEPT ![x] = k]
        /\ UNCHANGED <<kinds, ledgerSequence, sequenceCache, composer, numbers>>
    BY <1>3 DEF Builders!Loaded
  <2>2. acc \in Builders!Accounts
    BY <1>t, SequenceAssumption DEF Builders!TypeOK, Builders!Accounts, Builders!Ages
  <2>3. /\ k \in BuildCall /\ k.stage = "resolved" /\ k.account = acc /\ k.auto = build[x].auto
    BY <2>2, <1>a DEF BuildCall
  <2> HIDE DEF k
  <2>4. RestsOnAnswer(k)
    BY <2>3 DEF RestsOnAnswer
  <2>5. ~numbers.raced => FollowsCache(k)
    BY <2>1, <2>3, <1>o DEF FollowsCache, OneAtATime
  <2>6. QED
    BY <2>1, <2>3, <2>4, <2>5, <1>m
<1>4. ASSUME NEW x \in Builds, Builders!LoadFails(x) PROVE SequenceInv'
  BY <1>4, <1>m, IdleBuild DEF Builders!LoadFails, HoldsAccount
<1>5. ASSUME NEW x \in Builds, Builders!Complete(x) PROVE SequenceInv'
  <2> DEFINE notes == build[x].auto /\ build[x].account.answered
  <2>1. /\ Builders!Completed(x, notes) /\ build[x].stage = "resolved"
        /\ UNCHANGED <<kinds, ledgerSequence, composer>>
    BY <1>5 DEF Builders!Complete
  <2>2. CASE notes
    BY <2>1, <2>2, <1>d DEF HoldsAccount
  <2>3. CASE ~notes
    BY <2>1, <2>3, <1>e
  <2>4. QED
    BY <2>2, <2>3
<1>s. ASSUME NEW x \in Builds, Builders!CompleteSilently(x) PROVE SequenceInv'
  <2> DEFINE number == Builders!Counted(build[x].account)
             noted  == build[x].auto /\ build[x].account.answered /\ sequenceCache # NotCached
             top    == IF number.sequence > numbers.top THEN number.sequence ELSE numbers.top
  <2>1. /\ build' = [build EXCEPT ![x] = Builders!Idle] /\ build[x].stage = "resolved"
        /\ numbers' = IF noted THEN [numbers EXCEPT !.top = top, !.silent = TRUE] ELSE numbers
        /\ UNCHANGED <<kinds, ledgerSequence, sequenceCache, composer>>
    BY <1>s DEF Builders!CompleteSilently
  <2>2. number.sequence = build[x].account.sequence + 1 /\ build[x].account.sequence \in Nat
    BY <1>a, CountedAccount, AccountTypes
  <2> HIDE DEF number
  <2>3. top \in Nat
    BY <2>2, <1>n
  <2>4. noted => /\ numbers' \in NumberRecord /\ numbers'.top = top /\ numbers'.silent
                 /\ numbers'.raced = numbers.raced /\ numbers'.excused = numbers.excused
    <3> HIDE DEF top, noted
    <3>1. QED
      BY <2>1, <2>3, <1>n DEF NumberRecord
  <2>5. noted => Builders!NumbersGoOn'
    <3> SUFFICES ASSUME noted, ~numbers.raced, ~numbers.excused
                 PROVE  numbers'.top = sequenceCache.account.sequence + 1
      BY <2>1, <2>4 DEF Builders!NumbersGoOn
    <3>1. build[x].account.sequence = sequenceCache.account.sequence
      BY <2>1, <1>f DEF FollowsCache, HoldsAccount
    <3>2. numbers.top <= sequenceCache.account.sequence + 1
      BY <2>2, <3>1, <1>t DEF Builders!NumbersGoOn
    <3>3. QED
      BY <2>2, <2>4, <3>1, <3>2, <1>n
  <2> HIDE DEF noted
  <2>6. QED
    BY <2>1, <2>4, <2>5, <1>m, IdleBuild DEF HoldsAccount
\* The fluent builder: an account that Horizon did not answer comes from an override.
<1>6. ASSUME NEW x \in Builds, Builders!CompleteCompose(x), HoldsAccount(build[x]),
             build[x].kind = "compose", UNCHANGED <<kinds, ledgerSequence, composer>>
      PROVE  SequenceInv'
  <2> DEFINE notes == build[x].auto /\ composer.override = NoOverride
  <2>1. Builders!Completed(x, notes)
    BY <1>6 DEF Builders!CompleteCompose
  <2>2. CASE notes
    <3>1. ~numbers.excused => build[x].account.answered
      BY <1>6, <2>2, <1>h DEF RestsOnAnswer
    <3>2. QED
      BY <1>6, <2>1, <2>2, <3>1, <1>d
  <2>3. CASE ~notes
    BY <1>6, <2>1, <2>3, <1>e DEF HoldsAccount
  <2>4. QED
    BY <2>2, <2>3
<1>7. ASSUME NEW x \in Builds, Builders!ComposeAtOnce(x) PROVE SequenceInv'
  BY <1>7, <1>6 DEF Builders!ComposeAtOnce, HoldsAccount
<1>8. ASSUME NEW x \in Builds, Builders!ComposePreliminary(x) PROVE SequenceInv'
  <2> DEFINE acc == Builders!Counted(build[x].account)
             k == [build[x] EXCEPT !.stage = "estimating", !.account = acc]
  <2>1. /\ build[x].stage = "resolved" /\ build' = [build EXCEPT ![x] = k]
        /\ UNCHANGED <<kinds, ledgerSequence, sequenceCache, composer, numbers>>
        /\ build[x].kind = "compose"
    BY <1>8 DEF Builders!ComposePreliminary
  <2>2. /\ acc \in Builders!Accounts /\ acc.sequence = build[x].account.sequence + 1
        /\ acc.basis = build[x].account.basis /\ acc.answered = build[x].account.answered
    BY <1>a, CountedAccount
  <2>3. /\ k \in BuildCall /\ k.stage = "estimating" /\ k.account = acc /\ k.auto = build[x].auto
        /\ k.kind = build[x].kind
    BY <2>2, <1>a DEF BuildCall
  <2> HIDE DEF k, acc
  <2>4. ~numbers.excused => RestsOnAnswer(k)
    BY <2>1, <2>2, <2>3, <1>h DEF RestsOnAnswer, HoldsAccount
  <2>5. ~numbers.raced /\ ~numbers.excused => FollowsCache(k)
    <3> SUFFICES ASSUME ~numbers.raced /\ ~numbers.excused, k.auto, k.account.answered,
                        sequenceCache # NotCached
                 PROVE  k.account.sequence >= sequenceCache.account.sequence
      BY <2>3 DEF FollowsCache
    <3>1. build[x].account.sequence >= sequenceCache.account.sequence
      BY <2>1, <2>2, <2>3, <1>f DEF FollowsCache, HoldsAccount
    <3>2. build[x].account.sequence \in Nat /\ sequenceCache.account.sequence \in Nat
      BY <1>a, <1>c, AccountTypes
    <3>3. QED
      BY <3>1, <3>2, <2>2, <2>3
  <2>6. QED
    BY <2>1, <2>3, <2>4, <2>5, <1>m
<1>9. ASSUME NEW x \in Builds, Builders!ComposeEstimated(x) PROVE SequenceInv'
  <2>1. build[x].kind = "compose"
    BY <1>9, <1>t DEF Builders!ComposeEstimated, OnlyComposeWaits
  <2>2. QED
    BY <1>9, <2>1, <1>6 DEF Builders!ComposeEstimated, HoldsAccount
<1>10. ASSUME NEW x \in Builds, Builders!BuildFails(x) PROVE SequenceInv'
  BY <1>10, <1>m, IdleBuild DEF Builders!BuildFails, Builders!Holding, HoldsAccount
<1>11. ASSUME NEW to \in Builders!Composers, Builders!Composed(to) PROVE SequenceInv'
  <2> DEFINE excused == numbers.excused \/
        (composer.override # to.override /\ \E x \in Builds : build[x].kind = "compose")
  <2>1. /\ composer' = to /\ numbers' = [numbers EXCEPT !.excused = excused]
        /\ UNCHANGED <<kinds, ledgerSequence, sequenceCache, build>>
    BY <1>11 DEF Builders!Composed
  <2>2. numbers' \in NumberRecord /\ numbers'.excused = excused
        /\ numbers' = [numbers EXCEPT !.excused = numbers'.excused]
    <3>1. excused \in BOOLEAN
      OBVIOUS
    <3> HIDE DEF excused
    <3>2. QED
      BY <2>1, <3>1, <1>n DEF NumberRecord
  <2>3. Builders!TypeOK'
    BY <1>11, <2>1, <2>2, <1>t DEF Builders!TypeOK, NumberRecord
  <2>4. QED
    BY <2>1, <2>2, <2>3, <1>x, <1>n
<1>12. CASE Builders!ChangeComposer
  <2>1. composer \in Builders!Composers
    BY <1>t DEF Builders!TypeOK
  <2>2. /\ [composer EXCEPT !.operations = TRUE] \in Builders!Composers
        /\ [composer EXCEPT !.feeMode = TRUE] \in Builders!Composers
        /\ [composer EXCEPT !.override = Offline] \in Builders!Composers
        /\ Builders!Blank \in Builders!Composers
    BY <2>1 DEF Builders!Composers, Builders!Blank
  <2>3. QED
    BY <1>12, <2>2, <1>11 DEF Builders!ChangeComposer
<1>13. CASE Builders!ClearCache
  <2> DEFINE excused == numbers.excused \/ Builders!Holding # {}
  <2>1. /\ sequenceCache' = NotCached /\ numbers' = [numbers EXCEPT !.excused = excused]
        /\ UNCHANGED <<kinds, ledgerSequence, composer, build>>
    BY <1>13 DEF Builders!ClearCache
  <2>2. numbers' \in NumberRecord /\ numbers'.excused = excused
        /\ numbers' = [numbers EXCEPT !.excused = numbers'.excused]
    <3>1. excused \in BOOLEAN
      OBVIOUS
    <3> HIDE DEF excused
    <3>2. QED
      BY <2>1, <3>1, <1>n DEF NumberRecord
  <2>3. Builders!TypeOK'
    BY <2>1, <2>2, <1>t DEF Builders!TypeOK, NumberRecord
  <2>4. QED
    BY <2>1, <2>2, <2>3, <1>x, <1>n DEF Builders!Holding, HoldsAccount
<1>14. CASE Builders!Apply
  <2>1. Builders!TypeOK'
    BY <1>14, <1>t, SequenceAssumption DEF Builders!Apply, Builders!TypeOK
  <2>2. numbers' = [numbers EXCEPT !.excused = numbers'.excused]
    BY <1>14, <1>n DEF Builders!Apply, NumberRecord
  <2>3. QED
    BY <1>14, <2>1, <2>2, <1>x DEF Builders!Apply
<1>15. CASE Builders!Tick
  <2> DEFINE excused == numbers.excused \/ Builders!Holding # {}
             older(x) == [build[x] EXCEPT !.account = Builders!Aged(@)]
  <2>1. /\ sequenceCache = NotCached => sequenceCache' = NotCached
        /\ sequenceCache # NotCached =>
             sequenceCache' = [account |-> Builders!Aged(sequenceCache.account),
                               age |-> Builders!Older(sequenceCache.age)]
        /\ build' = [x \in Builds |-> older(x)]
        /\ numbers' = [numbers EXCEPT !.excused = excused]
        /\ UNCHANGED <<kinds, ledgerSequence, composer>>
    BY <1>15 DEF Builders!Tick
  <2>2. numbers' \in NumberRecord /\ numbers'.excused = excused
        /\ numbers'.top = numbers.top /\ numbers'.raced = numbers.raced
        /\ numbers'.silent = numbers.silent
    <3>1. excused \in BOOLEAN
      OBVIOUS
    <3> HIDE DEF excused
    <3>2. QED
      BY <2>1, <3>1, <1>n DEF NumberRecord
  <2>3. /\ build' \in [Builds -> BuildCall]
        /\ \A x \in Builds : build'[x].stage = build[x].stage /\ build'[x].auto = build[x].auto
                             /\ build'[x].kind = build[x].kind
    <3>1. \A x \in Builds : /\ older(x) \in BuildCall /\ older(x).stage = build[x].stage
                            /\ older(x).auto = build[x].auto /\ older(x).kind = build[x].kind
      <4> TAKE x \in Builds
      <4>1. Builders!Aged(build[x].account) \in Builders!Accounts
        BY <1>a, AgedAccount
      <4>2. build[x] \in BuildCall
        BY <1>a
      <4>3. QED
        BY <4>1, <4>2 DEF BuildCall
    <3> HIDE DEF older
    <3>2. kinds' = kinds
      BY <2>1
    <3>3. QED
      BY <2>1, <3>1
  <2>4. sequenceCache # NotCached =>
          /\ sequenceCache' \in CacheEntry /\ sequenceCache' # NotCached
          /\ sequenceCache'.account = Builders!Aged(sequenceCache.account)
          /\ sequenceCache'.age = Builders!Older(sequenceCache.age)
    <3> SUFFICES ASSUME sequenceCache # NotCached
                 PROVE  /\ sequenceCache' \in CacheEntry /\ sequenceCache' # NotCached
                        /\ sequenceCache'.account = Builders!Aged(sequenceCache.account)
                        /\ sequenceCache'.age = Builders!Older(sequenceCache.age)
      OBVIOUS
    <3>1. Builders!Aged(sequenceCache.account) \in Builders!Accounts
          /\ Builders!Older(sequenceCache.age) \in Builders!Ages
      BY <1>c, AgedAccount, OlderAge
    <3>2. QED
      BY <2>1, <3>1, SequenceAssumption DEF CacheEntry
  <2> HIDE DEF older
  <2>5. Builders!TypeOK'
    BY <2>1, <2>2, <2>3, <2>4, <1>t DEF Builders!TypeOK, BuildCall, CacheEntry, NumberRecord
  <2>6. Builders!CacheIsHonest'
    <3> SUFFICES ASSUME sequenceCache' # NotCached, ~numbers'.excused
                 PROVE  sequenceCache'.account.answered
                        /\ sequenceCache'.account.basis <= sequenceCache'.age
      BY DEF Builders!CacheIsHonest
    <3>1. sequenceCache # NotCached /\ ~numbers.excused
      BY <2>1, <2>2
    <3>2. sequenceCache.account.answered /\ sequenceCache.account.basis <= sequenceCache.age
      BY <3>1, <1>t DEF Builders!CacheIsHonest
    <3>3. /\ Builders!Aged(sequenceCache.account).answered = sequenceCache.account.answered
          /\ Builders!Aged(sequenceCache.account).basis = Builders!Older(sequenceCache.account.basis)
      BY <3>1, <3>2, <1>c, AgedAccount
    <3>4. Builders!Older(sequenceCache.account.basis) <= Builders!Older(sequenceCache.age)
      BY <3>1, <3>2, <1>c, AccountTypes, OlderKeepsOrder
    <3>5. QED
      BY <3>1, <3>2, <3>3, <3>4, <2>4
  <2>7. Builders!NumbersGoOn'
    <3> SUFFICES ASSUME sequenceCache' # NotCached, ~numbers'.raced, ~numbers'.excused
                 PROVE  numbers'.top = sequenceCache'.account.sequence + (IF numbers'.silent THEN 1 ELSE 0)
      BY DEF Builders!NumbersGoOn
    <3>1. sequenceCache # NotCached /\ ~numbers.excused /\ ~numbers.raced
      BY <2>1, <2>2
    <3>2. sequenceCache'.account.sequence = sequenceCache.account.sequence
      BY <3>1, <2>4, <1>c, AgedAccount
    <3>3. QED
      BY <3>1, <3>2, <2>2, <1>t DEF Builders!NumbersGoOn
  <2>8. ~numbers'.excused => \A x \in Builds : ~HoldsAccount(build'[x])
    BY <2>2, <2>3 DEF Builders!Holding, HoldsAccount
  <2>9. ~numbers'.raced => OneAtATime'
    BY <2>1, <2>2, <2>3, <1>o DEF OneAtATime
  <2>10. OnlyComposeWaits'
    BY <2>3, <1>t DEF OnlyComposeWaits
  <2>11. QED
    BY <2>5, <2>6, <2>7, <2>8, <2>9, <2>10 DEF SequenceInv, HoldsAccount
<1>16. CASE UNCHANGED sequenceVars
  <2>1. Builders!TypeOK'
    BY <1>16, <1>t DEF sequenceVars, Builders!TypeOK
  <2>2. numbers' = [numbers EXCEPT !.excused = numbers'.excused]
    BY <1>16, <1>n DEF sequenceVars, NumberRecord
  <2>3. QED
    BY <1>16, <2>1, <2>2, <1>x DEF sequenceVars
<1>17. QED
  BY <1>1, <1>2, <1>3, <1>4, <1>5, <1>s, <1>7, <1>8, <1>9, <1>10, <1>12, <1>13, <1>14, <1>15, <1>16
     DEF Builders!Next

-----------------------------------------------------------------------------
\* The components share no state that changes: a step of the suite is a step of each
\* or leaves it as it is.
LEMMA StepOfEach ==
  ASSUME [Next]_vars
  PROVE  /\ part' = part
         /\ [MultiSig!Next]_multiSigVars
         /\ [Spending!Next]_spendingVars
         /\ [Verdict!Next]_verdictVars
         /\ [Recovery!Next]_recoveryVars
         /\ [Access!Next]_accessVars
         /\ [Throttle!Next]_throttleVars
         /\ [Context!Next]_contextVars
         /\ [Prices!Next]_priceVars
         /\ [Schedules!Next]_scheduleVars
         /\ [Mixing!Next]_mixingVars
         /\ [Planning!Next]_planVars
         /\ [Order!Next]_orderVars
         /\ [Bundle!Next]_bundleVars
         /\ [Networks!Next]_networkVars
         /\ [Wallet!Next]_walletVars
         /\ [Reads!Next]_readsVars
         /\ [Rate!Next]_rateVars
         /\ [Builders!Next]_sequenceVars
<1>1. CASE MultiSigStep
  BY <1>1 DEF MultiSigStep, deciding, ordering, remembering
<1>2. CASE SpendingStep
  BY <1>2 DEF SpendingStep, deciding, ordering, remembering
<1>3. CASE VerdictStep
  BY <1>3 DEF VerdictStep, deciding, ordering, remembering
<1>4. CASE RecoveryStep
  BY <1>4 DEF RecoveryStep, deciding, ordering, remembering
<1>5. CASE AccessStep
  BY <1>5 DEF AccessStep, deciding, ordering, remembering
<1>6. CASE ThrottleStep
  BY <1>6 DEF ThrottleStep, deciding, ordering, remembering
<1>7. CASE ContextStep
  BY <1>7 DEF ContextStep, deciding, ordering, remembering
<1>8. CASE PriceStep
  BY <1>8 DEF PriceStep, deciding, ordering, remembering
<1>9. CASE ScheduleStep
  BY <1>9 DEF ScheduleStep, deciding, ordering, remembering
<1>10. CASE MixingStep
  BY <1>10 DEF MixingStep, deciding, ordering, remembering
<1>11. CASE PlanStep
  BY <1>11 DEF PlanStep, deciding, ordering, remembering
<1>12. CASE OrderStep
  BY <1>12 DEF OrderStep, deciding, ordering, remembering
<1>13. CASE BundleStep
  BY <1>13 DEF BundleStep, deciding, ordering, remembering
<1>14. CASE NetworkStep
  BY <1>14 DEF NetworkStep, deciding, ordering, remembering
<1>15. CASE WalletStep
  BY <1>15 DEF WalletStep, deciding, ordering, remembering
<1>16. CASE ReadsStep
  BY <1>16 DEF ReadsStep, deciding, ordering, remembering
<1>17. CASE RateStep
  BY <1>17 DEF RateStep, deciding, ordering, remembering
<1>18. CASE SequenceStep
  BY <1>18 DEF SequenceStep, deciding, ordering, remembering
<1>19. CASE UNCHANGED vars
  BY <1>19 DEF vars, deciding, ordering, remembering
<1>20. QED
  BY <1>1, <1>2, <1>3, <1>4, <1>5, <1>6, <1>7, <1>8, <1>9, <1>10, <1>11, <1>12, <1>13, <1>14, <1>15, <1>16, <1>17, <1>18, <1>19 DEF Next

\* What holds of each component, whichever of them runs.
EveryInv ==
  /\ part \in Parts \cup {"none"}
  /\ MultiSigInv /\ SpendingInv /\ VerdictInv /\ RecoveryInv /\ AccessInv /\ ThrottleInv
  /\ ContextInv /\ PriceInv /\ SchedulesInv /\ MixingInv /\ PlanInv /\ OrderInv
  /\ BundleInv /\ NetworkInv /\ WalletInv /\ ReadsInv /\ RateInv /\ SequenceInv

LEMMA EveryInit == Init => EveryInv
BY MultiSigInit, SpendingInit, VerdictInit, RecoveryInit, AccessInit, ThrottleInit,
   ContextInit, PriceInit, SchedulesInit, MixingInit, PlanInit, OrderInit, BundleInit,
   NetworkInit, WalletInit, ReadsInit, RateInit, SequenceInit
   DEF Init, EveryInv

LEMMA EveryStep == EveryInv /\ [Next]_vars => EveryInv'
<1> SUFFICES ASSUME EveryInv, [Next]_vars PROVE EveryInv'
  OBVIOUS
<1>0. part \in Parts \cup {"none"} /\ part' = part
  BY StepOfEach DEF EveryInv
<1>1. MultiSigInv'
  BY StepOfEach, MultiSigStepInv DEF EveryInv
<1>2. SpendingInv'
  BY StepOfEach, SpendingStepInv DEF EveryInv
<1>3. VerdictInv'
  BY StepOfEach, VerdictStepInv DEF EveryInv
<1>4. RecoveryInv'
  BY StepOfEach, RecoveryStepInv DEF EveryInv
<1>5. AccessInv'
  BY StepOfEach, AccessStepInv DEF EveryInv
<1>6. ThrottleInv'
  BY StepOfEach, ThrottleStepInv DEF EveryInv
<1>7. ContextInv'
  BY StepOfEach, ContextStepInv DEF EveryInv
<1>8. PriceInv'
  BY StepOfEach, PriceStepInv DEF EveryInv
<1>9. SchedulesInv'
  BY StepOfEach, SchedulesStepInv DEF EveryInv
<1>10. MixingInv'
  BY StepOfEach, MixingStepInv DEF EveryInv
<1>11. PlanInv'
  BY StepOfEach, PlanStepInv DEF EveryInv
<1>12. OrderInv'
  BY StepOfEach, OrderStepInv DEF EveryInv
<1>13. BundleInv'
  BY StepOfEach, BundleStepInv DEF EveryInv
<1>14. NetworkInv'
  BY StepOfEach, NetworkStepInv DEF EveryInv
<1>15. WalletInv'
  BY StepOfEach, WalletStepInv DEF EveryInv
<1>16. ReadsInv'
  BY StepOfEach, ReadsStepInv DEF EveryInv
<1>17. RateInv'
  BY StepOfEach, RateStepInv DEF EveryInv
<1>18. SequenceInv'
  BY StepOfEach, SequenceStepInv DEF EveryInv
<1>19. QED
  BY <1>0, <1>1, <1>2, <1>3, <1>4, <1>5, <1>6, <1>7, <1>8, <1>9, <1>10, <1>11, <1>12,
     <1>13, <1>14, <1>15, <1>16, <1>17, <1>18 DEF EveryInv, Parts

LEMMA EveryInvariant == Spec => []EveryInv
<1>1. QED
  BY EveryInit, EveryStep, PTL DEF Spec

\* The state of every component, its calls and timers included, stays well-formed
\* in whatever order they run, answer and fail.
THEOREM TypesHold == Spec => []TypeOK
<1>1. EveryInv => TypeOK
  BY MultiSigHolds, SpendingHolds, AccessHolds, ThrottleHolds, MixingHolds, ReadsHolds, RateHolds
     DEF EveryInv, TypeOK, VerdictInv, RecoveryInv, ContextInv, PriceInv, SchedulesInv, NetworkInv,
         WalletInv, SequenceInv, PlanInv, OrderInv, BundleInv
<1>2. QED
  BY <1>1, EveryInvariant, PTL

\* No order of calls and no clock lets a signer's weight, an approver or a contact
\* count twice: behind every verdict stand as many different ones as it takes
\* (multiSigExecution.ts, spendingPolicy.ts, consensusCore.ts, recoveryWorkflow.ts).
THEOREM VerdictsHaveQuorums == Spec => []QuorumBehindEveryVerdict
<1>1. EveryInv => QuorumBehindEveryVerdict
  BY MultiSigHolds, SpendingHolds DEF EveryInv, QuorumBehindEveryVerdict, VerdictInv, RecoveryInv
<1>2. QED
  BY <1>1, EveryInvariant, PTL

\* What a component trusts is recent, however late an answer comes, a copy is
\* written back, a session is replaced or a cache is filled (authenticationManager.ts,
\* networkSwitcher.ts, walletconnect.ts, contractStateTracker.ts, buildTransaction.ts),
\* with the exceptions that the parts of NothingStaleIsTrusted name.
THEOREM TrustIsRecent == Spec => []NothingStaleIsTrusted
<1>1. EveryInv => NothingStaleIsTrusted
  BY AccessHolds, ReadsHolds DEF EveryInv, NothingStaleIsTrusted, NetworkInv, WalletInv, SequenceInv
<1>2. QED
  BY <1>1, EveryInvariant, PTL

\* No sequence number is used twice and none is left out by builds that overlap in
\* one context; one is repeated by builds that follow one another only after a
\* payment with its trustline or a swap (transactionContext.ts, buildTransaction.ts,
\* compose.ts).
THEOREM SequencesGoOn == Spec => []SequencesInOrder
<1>1. EveryInv => SequencesInOrder
  BY DEF EveryInv, SequencesInOrder, ContextInv, SequenceInv
<1>2. QED
  BY <1>1, EveryInvariant, PTL

\* Whatever depends on what: a plan is made exactly where there is no circle, and
\* keeps every transaction behind its dependencies; so does an order of execution; and
\* a bundle's steps run behind theirs through failures and recoveries, and wait only
\* for a reason (dependencyGraph.ts: planTransactionExecution; bundles.ts:
\* resolveExecutionOrder, findNextExecutableStep, recoverBundle).
THEOREM DependenciesAreKept == Spec => []DependenciesComeFirst
<1>1. EveryInv => DependenciesComeFirst
  BY PlanHolds, OrderHolds, RanHolds, WaitingHolds DEF EveryInv, DependenciesComeFirst, BundleInv
<1>2. QED
  BY <1>1, EveryInvariant, PTL

\* Whoever waits has something to wait for: the end of a block, a timer, a socket's
\* event, a check under way, unless an observer of the application threw where it was
\* to be arranged (throttlingCore.ts, priceSubscriptions.ts, networkSwitcher.ts,
\* utils.ts).
THEOREM WaitingHasAnEnd == Spec => []NobodyIsStuck
<1>1. EveryInv => NobodyIsStuck
  BY ThrottleHolds, RateHolds DEF EveryInv, NobodyIsStuck, PriceInv, NetworkInv
<1>2. QED
  BY <1>1, EveryInvariant, PTL

\* What a mixing pool says of its transactions and participants is what there is,
\* and no more is granted in a second than a full bucket and its refill
\* (transactionMixing.ts, utils.ts).
THEOREM CountsAreTrue == Spec => []BooksBalance
<1>1. EveryInv => BooksBalance
  BY MixingHolds, RateHolds DEF EveryInv, BooksBalance
<1>2. QED
  BY <1>1, EveryInvariant, PTL

\* An executed request is not executed again and its id is not given out again
\* before clear() (multiSigExecution.ts: execute, createSigningRequest).
THEOREM AuthorisationsAssembleOnce == Spec => AssembledOnce
<1>1. EveryInv /\ [Next]_vars =>
        [\A id \in assembled \cap DOMAIN requests' :
           requests'[id].status = "executed" =>
             id \in DOMAIN requests /\ requests'[id] = requests[id]]_MultiSig!vars
  BY StepOfEach, StepAssembledOnce DEF EveryInv
<1>2. QED
  BY <1>1, EveryInvariant, PTL DEF Spec, AssembledOnce, MultiSig!AssembledOnce

\* A period's spending does not grow beyond its limit, in whatever order requests
\* are evaluated, dated, approved and released (spendingPolicy.ts: evaluate).
THEOREM SpendingStaysWithinLimits == Spec => WithinLimits
<1>1. EveryInv /\ [Next]_vars =>
        [\A p \in {"daily", "monthly"}, day \in Days :
           Spending!SpentIn(p, day)' > Spending!SpentIn(p, day) =>
             ~Spending!Exceeds(Spending!SpentIn(p, day), limits[p])']_Spending!vars
  BY StepOfEach, StepWithinLimits DEF EveryInv, Spending!Exceeds
<1>2. QED
  BY <1>1, EveryInvariant, PTL DEF Spec, WithinLimits, Spending!WithinLimits

\* A schedule that was executed, cancelled or given up is not taken up again, and
\* stays as it is, once no run of processDueSchedules holds it (scheduler.ts).
THEOREM DoneSchedulesStayDone == Spec => DoneIsDone
<1>1. EveryInv /\ [Next]_vars =>
        [\A id \in Ids :
           Schedules!Created(id) /\ Schedules!Stored(id).status # "pending" /\ ~Schedules!Held(id)
             => Schedules!Stored(id)' = Schedules!Stored(id) /\ ~Schedules!Held(id)']_Schedules!vars
  BY StepOfEach, StepDoneIsDone DEF EveryInv
<1>2. QED
  BY <1>1, EveryInvariant, PTL DEF Spec, DoneIsDone, Schedules!DoneIsDone
=============================================================================
