----------------------- MODULE EventSubscriptionProofs -----------------------
(***************************************************************************)
(* Proofs about EventSubscription, for any number of ledgers, recovery     *)
(* window and size of the memory of seen events.                           *)
(*                                                                         *)
(* That nothing is skipped needs only that whatever is remembered as seen  *)
(* was delivered or is excused, a callback that threw included.  That      *)
(* nothing is delivered twice or out of order needs that the memory still  *)
(* holds every delivered event that a poll may ask for again.  Entries are *)
(* not in ledger order, the latest ledger's being recorded before those    *)
(* recovered, but an entry is at most one window older than any before it. *)
(* So what follows an event still asked for fits in two windows, and that  *)
(* is what the size of the memory must exceed: with one entry less TLC     *)
(* finds an event delivered twice.                                         *)
(***************************************************************************)
EXTENDS EventSubscription, FiniteSetTheorems, SequenceTheorems, TLAPS

\* The latest ledger that a poll has asked for or is about to.
Top == IF pc = "recovering" THEN latest ELSE height

\* A sequence without duplicates, and one whose entries get at most w smaller.
Distinct(s)     == \A i, j \in DOMAIN s : i < j => s[i] # s[j]
DropsBelow(s, w) == \A i, j \in DOMAIN s : i < j => s[i] < s[j] + w
Ascending(s)    == \A i, j \in DOMAIN s : i < j => s[i] < s[j]

Reached ==
  /\ \A e \in Events(seen) \cup Events(delivered) : e <= Top
  /\ lastProcessed <= Top
  /\ pc = "recovering" => lastProcessed # 0 /\ latest > lastProcessed + 1

\* What is remembered was delivered, or the callback threw before its turn.
SeenAccounted == Events(seen) \subseteq Events(delivered) \cup excused

\* What is older than a delivered event was delivered or is excused.
DeliveredAccounted ==
  \A d \in Events(delivered), e \in matching : e < d => e \in Events(delivered) \cup excused

Complete == TypeOK /\ Reached /\ SeenAccounted /\ DeliveredAccounted /\ NothingSkipped

\* A delivered event that may be asked for again is remembered.
Remembered ==
  \A e \in Events(delivered) :
    e >= lastProcessed /\ e > Top - RecoveryLedgers => e \in Events(seen)

Memory == Distinct(seen) /\ DropsBelow(seen, RecoveryLedgers) /\ Remembered

InOrderOnce == Complete /\ Memory /\ NeverTwice /\ InLedgerOrder

\* The memory is larger than two windows less one: 10000 against 11 by default.
WindowFits == 2 * RecoveryLedgers - 1 <= DedupMaxSize

-----------------------------------------------------------------------------
\* Facts about sequences.
LEMMA JoinedEvents ==
  ASSUME NEW s \in Seq(Ledgers), NEW t \in Seq(Ledgers)
  PROVE  /\ s \o t \in Seq(Ledgers)
         /\ Len(s \o t) = Len(s) + Len(t)
         /\ Events(s \o t) = Events(s) \cup Events(t)
<1>1. /\ s \o t \in Seq(Ledgers)
      /\ Len(s) \in Nat /\ Len(t) \in Nat
      /\ DOMAIN s = 1..Len(s) /\ DOMAIN t = 1..Len(t)
      /\ Len(s \o t) = Len(s) + Len(t)
      /\ DOMAIN (s \o t) = 1..(Len(s) + Len(t))
  OBVIOUS
<1>2. \A i \in 1..(Len(s) + Len(t)) :
        (s \o t)[i] = IF i <= Len(s) THEN s[i] ELSE t[i - Len(s)]
  OBVIOUS
<1>3. Events(s \o t) \subseteq Events(s) \cup Events(t)
  <2>1. \A i \in 1..(Len(s) + Len(t)) : i \in 1..Len(s) \/ (i > Len(s) /\ i - Len(s) \in 1..Len(t))
    BY <1>1
  <2>2. QED BY <1>1, <1>2, <2>1 DEF Events
<1>4. Events(s) \subseteq Events(s \o t)
  <2>1. \A i \in 1..Len(s) : i \in 1..(Len(s) + Len(t)) /\ i <= Len(s)
    BY <1>1
  <2>2. QED BY <1>1, <1>2, <2>1 DEF Events
<1>5. Events(t) \subseteq Events(s \o t)
  <2>1. \A i \in 1..Len(t) :
          /\ i + Len(s) \in 1..(Len(s) + Len(t))
          /\ ~(i + Len(s) <= Len(s))
          /\ (i + Len(s)) - Len(s) = i
    BY <1>1
  <2>2. \A i \in 1..Len(t) : (s \o t)[i + Len(s)] = t[i]
    BY <1>2, <2>1
  <2>3. QED BY <1>1, <2>1, <2>2 DEF Events
<1>6. QED BY <1>1, <1>3, <1>4, <1>5

\* Two entries of a concatenation lie in one part or in both.
LEMMA JoinedPairs ==
  ASSUME NEW s \in Seq(Ledgers), NEW t \in Seq(Ledgers),
         NEW i \in DOMAIN (s \o t), NEW j \in DOMAIN (s \o t), i < j
  PROVE  \/ /\ i \in DOMAIN s /\ j \in DOMAIN s
            /\ (s \o t)[i] = s[i] /\ (s \o t)[j] = s[j]
         \/ (s \o t)[i] \in Events(s) /\ (s \o t)[j] \in Events(t)
         \/ \E k, l \in DOMAIN t : k < l /\ (s \o t)[i] = t[k] /\ (s \o t)[j] = t[l]
<1>1. /\ Len(s) \in Nat /\ Len(t) \in Nat
      /\ DOMAIN s = 1..Len(s) /\ DOMAIN t = 1..Len(t)
      /\ DOMAIN (s \o t) = 1..(Len(s) + Len(t))
  OBVIOUS
<1>2. \A k \in 1..(Len(s) + Len(t)) :
        (s \o t)[k] = IF k <= Len(s) THEN s[k] ELSE t[k - Len(s)]
  OBVIOUS
<1>3. i \in Int /\ j \in Int /\ i \in 1..(Len(s) + Len(t)) /\ j \in 1..(Len(s) + Len(t))
  BY <1>1
<1>4. CASE j <= Len(s)
  <2>1. i \in 1..Len(s) /\ j \in 1..Len(s) /\ i <= Len(s)
    BY <1>1, <1>3, <1>4
  <2>2. QED BY <1>1, <1>2, <1>3, <1>4, <2>1
<1>5. CASE i <= Len(s) /\ ~(j <= Len(s))
  <2>1. i \in 1..Len(s) /\ j - Len(s) \in 1..Len(t)
    BY <1>1, <1>3, <1>5
  <2>2. (s \o t)[i] = s[i] /\ (s \o t)[j] = t[j - Len(s)]
    BY <1>2, <1>3, <1>5
  <2>3. QED BY <1>1, <2>1, <2>2 DEF Events
<1>6. CASE ~(i <= Len(s))
  <2>1. /\ i - Len(s) \in 1..Len(t) /\ j - Len(s) \in 1..Len(t)
        /\ i - Len(s) < j - Len(s) /\ ~(j <= Len(s))
    BY <1>1, <1>3, <1>6
  <2>2. (s \o t)[i] = t[i - Len(s)] /\ (s \o t)[j] = t[j - Len(s)]
    BY <1>2, <1>3, <1>6, <2>1
  <2>3. QED BY <1>1, <2>1, <2>2
<1>7. QED BY <1>1, <1>3, <1>4, <1>5, <1>6

LEMMA JoinedDistinct ==
  ASSUME NEW s \in Seq(Ledgers), NEW t \in Seq(Ledgers),
         Distinct(s), Distinct(t), Events(s) \cap Events(t) = {}
  PROVE  Distinct(s \o t)
<1> SUFFICES ASSUME NEW i \in DOMAIN (s \o t), NEW j \in DOMAIN (s \o t), i < j
             PROVE  (s \o t)[i] # (s \o t)[j]
  BY DEF Distinct
<1>1. QED BY JoinedPairs DEF Distinct

LEMMA JoinedDrops ==
  ASSUME NEW s \in Seq(Ledgers), NEW t \in Seq(Ledgers), NEW w \in Nat,
         DropsBelow(s, w), DropsBelow(t, w),
         \A x \in Events(s), y \in Events(t) : x < y + w
  PROVE  DropsBelow(s \o t, w)
<1> SUFFICES ASSUME NEW i \in DOMAIN (s \o t), NEW j \in DOMAIN (s \o t), i < j
             PROVE  (s \o t)[i] < (s \o t)[j] + w
  BY DEF DropsBelow
<1>1. QED BY JoinedPairs DEF DropsBelow

LEMMA JoinedAscending ==
  ASSUME NEW s \in Seq(Ledgers), NEW t \in Seq(Ledgers), Ascending(s), Ascending(t),
         \A x \in Events(s), y \in Events(t) : x < y
  PROVE  Ascending(s \o t)
<1> SUFFICES ASSUME NEW i \in DOMAIN (s \o t), NEW j \in DOMAIN (s \o t), i < j
             PROVE  (s \o t)[i] < (s \o t)[j]
  BY DEF Ascending
<1>1. QED BY JoinedPairs DEF Ascending

LEMMA AscendingFacts ==
  ASSUME NEW s \in Seq(Ledgers), Ascending(s), NEW w \in Nat
  PROVE  Distinct(s) /\ DropsBelow(s, w)
<1>1. \A i \in DOMAIN s : s[i] \in Ledgers /\ i \in Nat
  OBVIOUS
<1>2. Ledgers \subseteq Nat
  BY DEF Ledgers
<1>3. \A i, j \in DOMAIN s : i < j => s[i] < s[j] /\ s[i] \in Nat /\ s[j] \in Nat
  BY <1>1, <1>2 DEF Ascending
<1>4. \A x, y \in Nat : x < y => x # y /\ x < y + w
  OBVIOUS
<1>5. QED BY <1>3, <1>4 DEF Distinct, DropsBelow

\* The sequence of a set's events.
LEMMA Enumerated ==
  ASSUME NEW S \in SUBSET Ledgers, NEW s \in InOrder(S)
  PROVE  /\ s \in Seq(Ledgers) /\ Events(s) = S /\ Ascending(s)
         /\ IsFiniteSet(S) /\ Len(s) = Cardinality(S)
         /\ (s = <<>>) = (S = {})
<1>1. IsFiniteSet(S) /\ Cardinality(S) \in Nat
  <2>1. IsFiniteSet(Ledgers)
    BY FS_Interval, SubscriptionAssumption DEF Ledgers
  <2>2. QED BY <2>1, FS_Subset, FS_CardinalityType
<1>2. s \in [1..Cardinality(S) -> S] /\ Events(s) = S /\ Ascending(s)
  BY DEF InOrder, Ascending
<1>3. s \in Seq(Ledgers) /\ Len(s) = Cardinality(S)
  BY <1>1, <1>2
<1>4. (s = <<>>) = (S = {})
  <2>1. s = <<>> => S = {}
    BY <1>2 DEF Events
  <2>2. S = {} => Len(s) = 0
    BY <1>1, <1>3, FS_EmptySet
  <2>3. Len(s) = 0 => s = <<>>
    BY <1>3
  <2>4. QED BY <2>1, <2>2, <2>3
<1>5. QED BY <1>1, <1>2, <1>3, <1>4

-----------------------------------------------------------------------------
LEMMA EndOf ==
  ASSUME NEW s \in Seq(Ledgers), NEW m \in 0..Len(s)
  PROVE  /\ SubSeq(s, m + 1, Len(s)) \in Seq(Ledgers)
         /\ Len(SubSeq(s, m + 1, Len(s))) = Len(s) - m
         /\ \A i \in 1..(Len(s) - m) : SubSeq(s, m + 1, Len(s))[i] = s[i + m]
<1>1. Len(s) \in Nat /\ m + 1 \in Int /\ Len(s) \in Int /\ m \in Nat /\ m <= Len(s)
  OBVIOUS
<1>2. \A i \in 1..Len(s) : s[i] \in Ledgers
  OBVIOUS
<1>3. \A i \in (m + 1)..Len(s) : s[i] \in Ledgers
  BY <1>1, <1>2
<1> DEFINE end == SubSeq(s, m + 1, Len(s))
<1>4. /\ end \in Seq(Ledgers)
      /\ Len(end) = IF m + 1 <= Len(s) THEN Len(s) - (m + 1) + 1 ELSE 0
      /\ \A i \in 1..(Len(s) - (m + 1) + 1) : end[i] = s[(m + 1) + i - 1]
  BY <1>1, <1>3, SubSeqProperties
<1> HIDE DEF end
<1>5. Len(end) = Len(s) - m
  BY <1>1, <1>4
<1>6. \A i \in 1..(Len(s) - m) : /\ i \in 1..(Len(s) - (m + 1) + 1)
                                 /\ (m + 1) + i - 1 = i + m
  BY <1>1
<1>7. \A i \in 1..(Len(s) - m) : end[i] = s[i + m]
  BY <1>4, <1>6
<1>8. QED BY <1>4, <1>5, <1>7 DEF end

\* What eviction keeps is an end of the memory that fits.
LEMMA KeptIsEnd ==
  ASSUME TypeOK, NEW kept \in Evicted
  PROVE  \E m \in 0..Len(seen) :
           /\ kept \in Seq(Ledgers) /\ Len(kept) = Len(seen) - m
           /\ \A i \in 1..(Len(seen) - m) : kept[i] = seen[i + m]
           /\ Len(seen) - m <= DedupMaxSize
           /\ \A i \in 1..m : seen[i] < lastProcessed \/ i + DedupMaxSize <= Len(seen)
<1> DEFINE n == Len(seen)
<1>1. /\ seen \in Seq(Ledgers) /\ n \in Nat /\ DedupMaxSize \in Nat
  BY SubscriptionAssumption DEF TypeOK
<1>2. PICK k \in Expired(seen) : kept = Capped(SubSeq(seen, k + 1, Len(seen)))
  BY DEF Evicted
<1>3. k \in 0..n /\ \A i \in 1..k : seen[i] < lastProcessed
  BY <1>2 DEF Expired
<1> DEFINE rest == SubSeq(seen, k + 1, n)
<1>4. /\ rest \in Seq(Ledgers) /\ Len(rest) = n - k
      /\ \A i \in 1..(n - k) : rest[i] = seen[i + k]
  BY <1>1, <1>3, EndOf
<1>5. kept = Capped(rest)
  BY <1>2
<1> HIDE DEF rest, n
<1>6. CASE n - k <= DedupMaxSize
  <2>1. kept = rest
    <3>1. ~(Len(rest) > DedupMaxSize)
      BY <1>1, <1>3, <1>4, <1>6
    <3>2. QED BY <1>5, <3>1 DEF Capped
  <2>2. QED BY <1>1, <1>3, <1>4, <1>6, <2>1 DEF n
<1>7. CASE ~(n - k <= DedupMaxSize)
  <2> DEFINE m == n - DedupMaxSize
             l == (n - k) - DedupMaxSize
  <2>1. /\ m \in 0..n /\ n - m = DedupMaxSize /\ l \in 0..(n - k) /\ l + k = m
        /\ (n - k) - l = DedupMaxSize
    BY <1>1, <1>3, <1>7
  <2>2. kept = SubSeq(rest, l + 1, Len(rest))
    <3>1. Len(rest) > DedupMaxSize /\ Len(rest) - DedupMaxSize + 1 = l + 1
      BY <1>1, <1>3, <1>4, <1>7
    <3>2. QED BY <1>5, <3>1 DEF Capped
  <2>3. /\ kept \in Seq(Ledgers) /\ Len(kept) = DedupMaxSize
        /\ \A i \in 1..DedupMaxSize : kept[i] = rest[i + l]
    <3>1. rest \in Seq(Ledgers) /\ l \in 0..Len(rest) /\ Len(rest) - l = DedupMaxSize
      BY <1>4, <2>1
    <3>2. /\ kept \in Seq(Ledgers) /\ Len(kept) = Len(rest) - l
          /\ \A i \in 1..(Len(rest) - l) : kept[i] = rest[i + l]
      BY <2>2, <3>1, EndOf
    <3>3. QED BY <3>1, <3>2
  <2>4. \A i \in 1..DedupMaxSize : i + l \in 1..(n - k) /\ (i + l) + k = i + m
    BY <1>1, <1>3, <2>1
  <2>5. \A i \in 1..DedupMaxSize : kept[i] = seen[i + m]
    BY <1>4, <2>3, <2>4
  <2>6. \A i \in 1..m : i + DedupMaxSize <= n
    BY <1>1, <2>1
  <2>7. QED BY <2>1, <2>3, <2>5, <2>6, <1>1 DEF n
<1>8. QED BY <1>6, <1>7

LEMMA KeptFacts ==
  ASSUME TypeOK, NEW kept \in Evicted
  PROVE  /\ kept \in Seq(Ledgers) /\ Len(kept) <= DedupMaxSize
         /\ Events(kept) \subseteq Events(seen)
         /\ Distinct(seen) => Distinct(kept)
         /\ \A w \in Nat : DropsBelow(seen, w) => DropsBelow(kept, w)
<1>1. PICK m \in 0..Len(seen) :
        /\ kept \in Seq(Ledgers) /\ Len(kept) = Len(seen) - m
        /\ \A i \in 1..(Len(seen) - m) : kept[i] = seen[i + m]
        /\ Len(seen) - m <= DedupMaxSize
  BY KeptIsEnd
<1>2. Len(seen) \in Nat /\ DOMAIN seen = 1..Len(seen)
  <2>1. seen \in Seq(Ledgers)
    BY DEF TypeOK
  <2>2. QED BY <2>1
<1>3. DOMAIN kept = 1..(Len(seen) - m)
  BY <1>1
<1>4. \A i \in 1..(Len(seen) - m) : i + m \in 1..Len(seen) /\ i \in Int
  BY <1>1, <1>2
<1>5. \A i \in DOMAIN kept : kept[i] = seen[i + m] /\ i + m \in DOMAIN seen
  BY <1>1, <1>2, <1>3, <1>4
<1>6. \A i, j \in DOMAIN kept : i < j => i + m < j + m
  BY <1>1, <1>3, <1>4
<1>7. Events(kept) \subseteq Events(seen)
  BY <1>5 DEF Events
<1>8. Distinct(seen) => Distinct(kept)
  BY <1>5, <1>6 DEF Distinct
<1>9. \A w \in Nat : DropsBelow(seen, w) => DropsBelow(kept, w)
  BY <1>5, <1>6 DEF DropsBelow
<1>10. QED BY <1>1, <1>7, <1>8, <1>9

\* What the memory takes up beyond its size until the next eviction.
LEMMA NewLength ==
  ASSUME NEW sequence \in Ledgers, NEW C \in SUBSET {sequence},
         NEW R \in SUBSET Ledgers,
         \A l \in R : l < sequence /\ l > sequence - RecoveryLedgers
  PROVE  Cardinality(C) + Cardinality(R) <= RecoveryLedgers
<1>1. RecoveryLedgers \in Nat \ {0} /\ sequence \in Nat /\ Ledgers \subseteq Nat
  BY SubscriptionAssumption DEF Ledgers
<1>2. Cardinality(C) \in Nat /\ Cardinality(C) <= 1
  <2>1. IsFiniteSet({sequence}) /\ Cardinality({sequence}) = 1
    BY FS_Singleton
  <2>2. IsFiniteSet(C) /\ Cardinality(C) <= Cardinality({sequence})
    BY <2>1, FS_Subset
  <2>3. QED BY <2>1, <2>2, FS_CardinalityType
<1> DEFINE I == (sequence - RecoveryLedgers + 1)..(sequence - 1)
<1>3. IsFiniteSet(I) /\ Cardinality(I) = RecoveryLedgers - 1
  <2>1. sequence - RecoveryLedgers + 1 \in Int /\ sequence - 1 \in Int
    BY <1>1
  <2>2. /\ IsFiniteSet(I)
        /\ Cardinality(I) = IF sequence - RecoveryLedgers + 1 > sequence - 1 THEN 0
                            ELSE (sequence - 1) - (sequence - RecoveryLedgers + 1) + 1
    BY <2>1, FS_Interval
  <2>3. QED BY <1>1, <2>2
<1>4. R \subseteq I
  BY <1>1
<1>5. Cardinality(R) \in Nat /\ Cardinality(R) <= RecoveryLedgers - 1
  BY <1>3, <1>4, FS_Subset, FS_CardinalityType
<1>6. QED BY <1>1, <1>2, <1>5

-----------------------------------------------------------------------------
\* A poll that delivers accounts for every ledger since the last one.
Polled(sequence, asked, missed) ==
  /\ sequence \in Ledgers /\ sequence = Top
  /\ asked \subseteq Ledgers /\ missed \subseteq Ledgers
  /\ \A l \in asked : l > lastProcessed /\ l > sequence - RecoveryLedgers /\ l <= sequence
  /\ \A l \in Ledgers : l > lastProcessed /\ l < sequence => l \in asked \cup missed

\* What is kept, what of the latest ledger and of those before it is new, and
\* what of that the callback got.
Adds(kept, current, recovered, D, sequence, asked, missed) ==
  /\ kept \in Seq(Ledgers)
  /\ Events(current) = ({sequence} \cap matching) \ Events(kept)
  /\ Events(recovered) = (asked \cap matching) \ (Events(kept) \cup Events(current))
  /\ Ascending(current) /\ Ascending(recovered)
  /\ Len(current) = Cardinality(Events(current))
  /\ Len(recovered) = Cardinality(Events(recovered))
  /\ seen' = kept \o current \o recovered
  /\ delivered' = delivered \o D
  /\ D = recovered \/ D = recovered \o current
  /\ lastProcessed' \in {lastProcessed, sequence}
  /\ excused \cup missed \subseteq excused'
  /\ excused' \subseteq excused \cup missed \cup Events(current)
  /\ Events(current) \cup Events(recovered) \subseteq Events(D) \cup excused'

LEMMA DeliverFacts ==
  ASSUME TypeOK, NEW sequence, NEW asked, NEW missed,
         Polled(sequence, asked, missed), Deliver(sequence, asked, missed)
  PROVE  \E kept \in Evicted : \E current, recovered, D \in Seq(Ledgers) :
           Adds(kept, current, recovered, D, sequence, asked, missed)
<1> DEFINE Added(kept, current, recovered) ==
             /\ seen' = kept \o current \o recovered
             /\ \/ /\ delivered' = delivered \o Delivery(current, recovered)
                   /\ lastProcessed' = sequence
                   /\ excused' = excused \cup missed
                \/ /\ delivered' = delivered \o recovered
                   /\ excused' = excused \cup missed \cup Events(current)
                   /\ UNCHANGED lastProcessed
                \/ /\ delivered' = delivered \o Delivery(current, recovered)
                   /\ excused' = excused \cup missed
                   /\ UNCHANGED lastProcessed
<1>1. PICK kept \in Evicted :
        \E current \in InOrder(Unseen(kept, {sequence})) :
        \E recovered \in InOrder(Unseen(kept \o current, asked)) : Added(kept, current, recovered)
  BY DEF Deliver
<1>2. PICK current \in InOrder(Unseen(kept, {sequence})) :
        \E recovered \in InOrder(Unseen(kept \o current, asked)) : Added(kept, current, recovered)
  BY <1>1
<1>3. PICK recovered \in InOrder(Unseen(kept \o current, asked)) : Added(kept, current, recovered)
  BY <1>2
<1>4. kept \in Seq(Ledgers) /\ sequence \in Ledgers /\ asked \subseteq Ledgers
  BY KeptFacts DEF Polled
<1>current.
      /\ current \in Seq(Ledgers) /\ Ascending(current)
      /\ Events(current) = ({sequence} \cap matching) \ Events(kept)
      /\ Len(current) = Cardinality(Events(current))
  <2>1. Unseen(kept, {sequence}) \in SUBSET Ledgers
    BY <1>4 DEF Unseen
  <2>2. QED BY <2>1, Enumerated DEF Unseen
<1>known. Events(kept \o current) = Events(kept) \cup Events(current)
  BY <1>4, <1>current, JoinedEvents
<1>recovered.
      /\ recovered \in Seq(Ledgers) /\ Ascending(recovered)
      /\ Events(recovered) = (asked \cap matching) \ (Events(kept) \cup Events(current))
      /\ Len(recovered) = Cardinality(Events(recovered))
  <2>1. Unseen(kept \o current, asked) \in SUBSET Ledgers
    BY <1>4 DEF Unseen
  <2>2. QED BY <1>known, <2>1, Enumerated DEF Unseen
<1>both.
      /\ recovered \o current \in Seq(Ledgers)
      /\ Events(recovered \o current) = Events(recovered) \cup Events(current)
  BY <1>current, <1>recovered, JoinedEvents
<1>5. \/ /\ delivered' = delivered \o (recovered \o current)
         /\ lastProcessed' \in {lastProcessed, sequence}
         /\ excused' = excused \cup missed
      \/ /\ delivered' = delivered \o recovered
         /\ excused' = excused \cup missed \cup Events(current)
         /\ lastProcessed' = lastProcessed
  BY <1>3 DEF Delivery
<1>6. CASE /\ delivered' = delivered \o (recovered \o current)
           /\ lastProcessed' \in {lastProcessed, sequence}
           /\ excused' = excused \cup missed
  <2>1. Adds(kept, current, recovered, recovered \o current, sequence, asked, missed)
    BY <1>3, <1>4, <1>current, <1>recovered, <1>both, <1>6 DEF Adds
  <2>2. QED BY <1>current, <1>recovered, <1>both, <2>1
<1>7. CASE /\ delivered' = delivered \o recovered
           /\ excused' = excused \cup missed \cup Events(current)
           /\ lastProcessed' = lastProcessed
  <2>1. Adds(kept, current, recovered, recovered, sequence, asked, missed)
    BY <1>3, <1>4, <1>current, <1>recovered, <1>7 DEF Adds
  <2>2. QED BY <1>current, <1>recovered, <2>1
<1>8. QED BY <1>5, <1>6, <1>7

\* The ends of a poll leave no request pending and the callers' switches alone.
LEMMA DeliverEnds ==
  ASSUME TypeOK, NEW sequence, NEW asked, NEW missed, Deliver(sequence, asked, missed)
  PROVE  /\ matching' = matching /\ height' = height /\ active' = active
         /\ latest' = 0 /\ pc' \in {"waiting", "stopped"} /\ Top' = height
<1>1. /\ UNCHANGED <<matching, height, active>> /\ latest' = 0
      /\ pc' = IF active THEN "waiting" ELSE "stopped"
  BY DEF Deliver, ScheduleNextPoll
<1>2. QED BY <1>1 DEF Top

LEMMA TopType ==
  ASSUME TypeOK PROVE Top \in 0..height /\ height \in Nat /\ Top \in Nat /\ lastProcessed \in Nat
<1>1. height \in 1..MaxLedger /\ latest \in 0..height /\ lastProcessed \in 0..height
  BY DEF TypeOK, Ledgers
<1>2. QED BY <1>1 DEF Top

LEMMA DeliverComplete ==
  ASSUME Complete, NEW sequence, NEW asked, NEW missed,
         Polled(sequence, asked, missed), Deliver(sequence, asked, missed)
  PROVE  Complete'
<1>1. PICK kept \in Evicted : \E current, recovered, D \in Seq(Ledgers) :
           Adds(kept, current, recovered, D, sequence, asked, missed)
  <2>1. TypeOK
    BY DEF Complete
  <2>2. QED BY <2>1, DeliverFacts
<1>2. PICK current, recovered, D \in Seq(Ledgers) :
           Adds(kept, current, recovered, D, sequence, asked, missed)
  BY <1>1
<1>added.
      /\ seen' = kept \o current \o recovered
      /\ delivered' = delivered \o D
      /\ D = recovered \/ D = recovered \o current
      /\ lastProcessed' \in {lastProcessed, sequence}
      /\ excused \cup missed \subseteq excused'
      /\ excused' \subseteq excused \cup missed \cup Events(current)
      /\ Events(current) \cup Events(recovered) \subseteq Events(D) \cup excused'
  BY <1>2 DEF Adds
<1> DEFINE C == Events(current)
           R == Events(recovered)
<1>3. /\ kept \in Seq(Ledgers)
      /\ C = ({sequence} \cap matching) \ Events(kept)
      /\ R = (asked \cap matching) \ (Events(kept) \cup C)
      /\ \A e \in R : e < sequence
      /\ Len(current) = Cardinality(C)
      /\ Len(recovered) = Cardinality(R)
  <2>1. /\ kept \in Seq(Ledgers)
        /\ Events(current) = ({sequence} \cap matching) \ Events(kept)
        /\ Events(recovered) = (asked \cap matching) \ (Events(kept) \cup Events(current))
        /\ Len(current) = Cardinality(Events(current))
        /\ Len(recovered) = Cardinality(Events(recovered))
    BY <1>2 DEF Adds
  <2>2. \A e \in R : e \in Ledgers /\ e <= sequence /\ e # sequence
    BY <2>1 DEF Polled
  <2>3. \A e \in R : e < sequence
    BY <2>2 DEF Ledgers, Polled
  <2>4. QED BY <2>1, <2>3
<1>4. Len(kept) <= DedupMaxSize /\ Events(kept) \subseteq Events(seen)
  BY KeptFacts DEF Complete
<1>5. /\ Events(seen') = Events(kept) \cup C \cup R
      /\ seen' \in Seq(Ledgers) /\ Len(seen') = (Len(kept) + Len(current)) + Len(recovered)
  <2>1. /\ kept \o current \in Seq(Ledgers)
        /\ Len(kept \o current) = Len(kept) + Len(current)
        /\ Events(kept \o current) = Events(kept) \cup C
    BY <1>3, JoinedEvents
  <2> DEFINE first == kept \o current
  <2>2. /\ first \o recovered \in Seq(Ledgers)
        /\ Len(first \o recovered) = Len(first) + Len(recovered)
        /\ Events(first \o recovered) = Events(first) \cup R
    BY <2>1, JoinedEvents
  <2>3. seen' = first \o recovered
    BY <1>added
  <2>4. QED BY <2>1, <2>2, <2>3
<1>6. /\ Events(delivered') = Events(delivered) \cup Events(D)
      /\ delivered' \in Seq(Ledgers)
      /\ Events(D) \subseteq C \cup R
  <2>1. delivered \in Seq(Ledgers)
    BY DEF Complete, TypeOK
  <2>2. Events(recovered \o current) = R \cup C
    BY JoinedEvents
  <2>3. /\ delivered \o D \in Seq(Ledgers)
        /\ Events(delivered \o D) = Events(delivered) \cup Events(D)
    BY <2>1, JoinedEvents
  <2>4. Events(D) \subseteq C \cup R
    BY <1>added, <2>2
  <2>5. QED BY <1>added, <2>3, <2>4
<1>7. /\ matching' = matching /\ height' = height /\ active' = active
      /\ latest' = 0 /\ pc' \in {"waiting", "stopped"} /\ Top' = height
  BY DeliverEnds DEF Complete
<1>8. /\ sequence = Top /\ sequence \in Ledgers /\ sequence \in Nat /\ height \in Nat
      /\ sequence <= height /\ lastProcessed \in Nat /\ Ledgers \subseteq Nat
      /\ RecoveryLedgers \in Nat \ {0} /\ DedupMaxSize \in Nat
  <2>1. Top \in 0..height /\ height \in Nat /\ lastProcessed \in Nat
    BY TopType DEF Complete
  <2>2. QED BY <2>1, SubscriptionAssumption DEF Polled, Ledgers
<1> HIDE DEF C, R
\* Every event up to the ledger polled for.
<1>9. ASSUME NEW e \in matching, e <= sequence
      PROVE  e \in Events(delivered') \cup excused'
  <2>1. e \in Ledgers /\ e \in Nat
    BY <1>8 DEF Complete, TypeOK
  <2>2. CASE e <= lastProcessed
    BY <1>added, <1>6, <2>2 DEF Complete, NothingSkipped
  <2>3. CASE e > lastProcessed /\ e < sequence
    <3>1. e \in asked \cup missed
      BY <2>1, <2>3 DEF Polled
    <3>2. e \in missed \/ e \in Events(kept) \/ e \in C \/ e \in R
      BY <1>3, <3>1
    <3>3. QED BY <1>added, <1>4, <1>6, <3>2 DEF Complete, SeenAccounted, C, R
  <2>4. CASE e = sequence
    <3>1. e \in Events(kept) \/ e \in C
      BY <1>3, <2>4
    <3>2. QED BY <1>added, <1>4, <1>6, <3>1 DEF Complete, SeenAccounted, C, R
  <2>5. QED BY <1>8, <1>9, <2>1, <2>2, <2>3, <2>4
<1>10. TypeOK'
  <2>1. Len(seen') <= DedupMaxSize + RecoveryLedgers
    <3>1. C \in SUBSET {sequence} /\ R \in SUBSET Ledgers
      BY <1>3 DEF Polled
    <3>2. \A l \in R : l < sequence /\ l > sequence - RecoveryLedgers
      BY <1>3 DEF Polled
    <3>3. Cardinality(C) + Cardinality(R) <= RecoveryLedgers
      BY <1>8, <3>1, <3>2, NewLength
    <3>4. Len(kept) \in Nat /\ Len(current) \in Nat /\ Len(recovered) \in Nat
      BY <1>added, <1>3
    <3>5. QED BY <1>3, <1>4, <1>5, <1>8, <3>3, <3>4
  <2>2. lastProcessed' \in 0..height'
    BY <1>added, <1>7, <1>8 DEF Complete, TypeOK
  <2>3. excused' \subseteq Ledgers
    <3>1. C \subseteq Ledgers
      BY <1>3, <1>8
    <3>2. QED BY <1>added, <3>1 DEF Complete, TypeOK, Polled, C
  <2>4. QED BY <1>5, <1>6, <1>7, <1>8, <2>1, <2>2, <2>3 DEF Complete, TypeOK
<1>11. Reached'
  <2>1. \A e \in C \cup R : e <= sequence /\ e \in Nat
    BY <1>3, <1>8 DEF Polled
  <2>2. \A e \in Events(seen) \cup Events(delivered) : e <= sequence
    BY <1>8 DEF Complete, Reached
  <2>3. \A e \in Events(seen') \cup Events(delivered') : e <= sequence /\ e \in Nat
    <3>1. \A e \in Events(seen') \cup Events(delivered') : e \in Ledgers
      BY <1>5, <1>6 DEF Events
    <3>2. QED BY <1>4, <1>5, <1>6, <1>8, <2>1, <2>2, <3>1
  <2>4. \A e \in Events(seen') \cup Events(delivered') : e <= Top'
    BY <1>7, <1>8, <2>3
  <2>5. lastProcessed' <= Top'
    BY <1>added, <1>7, <1>8 DEF Complete, TypeOK
  <2>6. (Events(seen))' = Events(seen') /\ (Events(delivered))' = Events(delivered')
    BY DEF Events
  <2>7. QED BY <1>7, <2>4, <2>5, <2>6 DEF Reached
<1>12. SeenAccounted'
  <2>1. Events(seen') \subseteq Events(delivered') \cup excused'
    BY <1>added, <1>4, <1>5, <1>6 DEF Complete, SeenAccounted, C, R
  <2>2. QED BY <2>1 DEF SeenAccounted, Events
<1>13. DeliveredAccounted'
  <2>1. ASSUME NEW d \in Events(delivered'), NEW e \in matching, e < d
        PROVE  e \in Events(delivered') \cup excused'
    <3>1. CASE d \in Events(delivered)
      BY <1>added, <1>6, <2>1, <3>1 DEF Complete, DeliveredAccounted
    <3>2. CASE d \in C \cup R
      <4>1. d \in Nat /\ d <= sequence
        BY <1>3, <1>8, <3>2 DEF Polled
      <4>2. e \in Nat
        BY <1>8 DEF Complete, TypeOK
      <4>3. e <= sequence
        BY <1>8, <2>1, <4>1, <4>2
      <4>4. QED BY <1>9, <4>3
    <3>3. QED BY <1>6, <3>1, <3>2
  <2>2. QED BY <1>7, <2>1 DEF DeliveredAccounted, Events
<1>14. NothingSkipped'
  <2>1. ASSUME NEW e \in matching, e <= lastProcessed'
        PROVE  e \in Events(delivered') \cup excused'
    <3>1. e \in Nat /\ lastProcessed <= sequence
      BY <1>8 DEF Complete, TypeOK, Reached
    <3>2. e <= sequence
      BY <1>added, <1>8, <2>1, <3>1
    <3>3. QED BY <1>9, <3>2
  <2>2. QED BY <1>7, <2>1 DEF NothingSkipped, Events
<1>15. QED BY <1>10, <1>11, <1>12, <1>13, <1>14 DEF Complete

\* The polls that deliver account for every ledger.
LEMMA EveryLedgerPolled ==
  ASSUME Complete, LatestArrives \/ RecoveryEnds
  PROVE  \E sequence, asked, missed :
           Polled(sequence, asked, missed) /\ Deliver(sequence, asked, missed)
<1>1. /\ height \in Ledgers /\ latest \in 0..height /\ lastProcessed \in Nat
      /\ Ledgers \subseteq Nat /\ RecoveryLedgers \in Nat \ {0} /\ MaxLedger \in Nat
  BY SubscriptionAssumption DEF Complete, TypeOK, Ledgers
<1>2. CASE LatestArrives
  <2> DEFINE missed == IF lastProcessed = 0 THEN 1..(height - 1) ELSE {}
  <2>1. Deliver(height, {}, missed) /\ ~Gap(height) /\ pc = "latest"
    BY <1>2 DEF LatestArrives
  <2>2. missed \subseteq Ledgers
    <3>1. 1..(height - 1) \subseteq Ledgers
      BY <1>1 DEF Ledgers
    <3>2. QED BY <3>1
  <2>3. \A l \in Ledgers : l > lastProcessed /\ l < height => l \in missed
    BY <1>1, <2>1 DEF Gap
  <2>4. Polled(height, {}, missed)
    BY <1>1, <2>1, <2>2, <2>3 DEF Polled, Top
  <2>5. QED BY <2>1, <2>4
<1>3. CASE RecoveryEnds
  <2>1. PICK failed \in SUBSET RecoveryRange(latest) :
          Deliver(latest, RecoveryRange(latest) \ failed,
                  failed \cup {l \in Ledgers : l > lastProcessed /\ l <= latest - RecoveryLedgers})
    BY <1>3 DEF RecoveryEnds
  <2> DEFINE asked  == RecoveryRange(latest) \ failed
             missed == failed \cup {l \in Ledgers : l > lastProcessed /\ l <= latest - RecoveryLedgers}
  <2>2. pc = "recovering" /\ latest > lastProcessed + 1
    BY <1>3 DEF RecoveryEnds, Complete, Reached
  <2>3. latest = Top /\ latest \in Ledgers
    <3>1. latest # 0 /\ latest \in Nat /\ height \in Nat /\ latest <= height /\ height <= MaxLedger
      BY <1>1, <2>2 DEF Ledgers
    <3>2. latest \in Ledgers
      BY <1>1, <3>1 DEF Ledgers
    <3>3. QED BY <2>2, <3>2 DEF Top
  <2>4. asked \subseteq Ledgers /\ missed \subseteq Ledgers
    BY DEF RecoveryRange
  <2>5. \A l \in asked : l > lastProcessed /\ l > latest - RecoveryLedgers /\ l <= latest
    BY DEF RecoveryRange
  <2>6. \A l \in Ledgers : l > lastProcessed /\ l < latest => l \in asked \cup missed
    BY <1>1 DEF RecoveryRange
  <2>7. Polled(latest, asked, missed)
    BY <2>3, <2>4, <2>5, <2>6 DEF Polled
  <2>8. QED BY <2>1, <2>7
<1>4. QED BY <1>2, <1>3

\* A step that delivers nothing, whatever ledgers close meanwhile.
Quiet ==
  /\ UNCHANGED <<matching, lastProcessed, seen, delivered, excused>>
  /\ Top' >= Top /\ TypeOK'
  /\ pc' = "recovering" => lastProcessed # 0 /\ latest' > lastProcessed + 1

LEMMA QuietComplete ==
  ASSUME Complete, Quiet PROVE Complete'
<1>1. Top \in Nat /\ Top' \in Nat /\ lastProcessed \in Nat
  <2>1. Top \in Nat /\ lastProcessed \in Nat
    BY TopType DEF Complete
  <2>2. height' \in Nat /\ latest' \in 0..height'
    BY DEF Quiet, TypeOK, Ledgers
  <2>3. QED BY <2>1, <2>2 DEF Top
<1>2. \A e \in Events(seen) \cup Events(delivered) : e <= Top'
  <2>1. \A e \in Events(seen) \cup Events(delivered) : e \in Ledgers
    BY DEF Complete, TypeOK, Events
  <2>2. \A e \in Events(seen) \cup Events(delivered) : e \in Nat /\ e <= Top
    BY <2>1 DEF Complete, Reached, Ledgers
  <2>3. QED BY <1>1, <2>2 DEF Quiet
<1>3. lastProcessed <= Top'
  BY <1>1 DEF Quiet, Complete, Reached
<1>4. Reached'
  BY <1>2, <1>3 DEF Quiet, Reached, Events
<1>5. SeenAccounted' /\ DeliveredAccounted' /\ NothingSkipped'
  BY DEF Quiet, Complete, SeenAccounted, DeliveredAccounted, NothingSkipped, Events
<1>6. QED BY <1>4, <1>5 DEF Quiet, Complete

LEMMA QuietSteps ==
  ASSUME Complete,
         \/ CloseLedger \/ Poll \/ LatestFails \/ LatestRefused \/ GapDetected \/ Unsubscribe
         \/ UNCHANGED vars
  PROVE  Quiet
<1>1. /\ height \in 1..MaxLedger /\ latest \in 0..height /\ lastProcessed \in 0..height
      /\ MaxLedger \in Nat /\ TypeOK
      /\ pc = "recovering" => lastProcessed # 0 /\ latest > lastProcessed + 1
  BY SubscriptionAssumption DEF Complete, TypeOK, Ledgers, Reached
<1>2. CASE CloseLedger
  BY <1>1, <1>2 DEF CloseLedger, Quiet, Top, TypeOK, Ledgers
<1>3. CASE Poll
  BY <1>1, <1>3 DEF Poll, Quiet, Top, TypeOK, Ledgers
<1>4. CASE LatestFails
  BY <1>1, <1>4 DEF LatestFails, ScheduleNextPoll, Quiet, Top, TypeOK, Ledgers
<1>5. CASE LatestRefused
  BY <1>1, <1>5 DEF LatestRefused, Quiet, Top, TypeOK, Ledgers
<1>6. CASE GapDetected
  BY <1>1, <1>6 DEF GapDetected, Gap, Quiet, Top, TypeOK, Ledgers
<1>7. CASE Unsubscribe
  <2>1. /\ UNCHANGED <<matching, height, lastProcessed, latest, seen, delivered, excused>>
        /\ active' = FALSE /\ pc' = IF pc = "waiting" THEN "stopped" ELSE pc
    BY <1>7 DEF Unsubscribe
  <2>2. Top' = Top /\ Top \in Nat
    BY <1>1, <2>1, TopType DEF Top
  <2>3. TypeOK'
    BY <1>1, <2>1 DEF TypeOK
  <2>4. QED BY <1>1, <2>1, <2>2, <2>3 DEF Quiet
<1>8. CASE UNCHANGED vars
  BY <1>1, <1>8 DEF vars, Quiet, Top, TypeOK, Ledgers
<1>9. QED BY <1>2, <1>3, <1>4, <1>5, <1>6, <1>7, <1>8

LEMMA InitComplete == Init => Complete
<1> SUFFICES ASSUME Init PROVE Complete
  OBVIOUS
<1>1. MaxLedger \in Nat \ {0} /\ RecoveryLedgers \in Nat /\ DedupMaxSize \in Nat
  BY SubscriptionAssumption
<1>2. Events(seen) = {} /\ Events(delivered) = {}
  BY DEF Init, Events
<1>3. seen \in Seq(Ledgers) /\ delivered \in Seq(Ledgers) /\ Len(seen) = 0
  BY DEF Init
<1>4. height \in Ledgers /\ height = 1 /\ matching \subseteq Ledgers
  BY <1>1 DEF Init, Ledgers
<1>5. TypeOK
  BY <1>1, <1>3, <1>4 DEF Init, TypeOK
<1>6. Reached
  BY <1>2, <1>4 DEF Init, Reached, Top
<1>7. SeenAccounted /\ DeliveredAccounted
  BY <1>2 DEF SeenAccounted, DeliveredAccounted
<1>8. NothingSkipped
  <2>1. \A l \in matching : ~(l <= 0)
    BY <1>4 DEF Ledgers
  <2>2. QED BY <2>1 DEF Init, NothingSkipped
<1>9. QED BY <1>5, <1>6, <1>7, <1>8 DEF Complete

LEMMA StepComplete == Complete /\ [Next]_vars => Complete'
<1> SUFFICES ASSUME Complete, [Next]_vars PROVE Complete'
  OBVIOUS
<1>1. CASE LatestArrives \/ RecoveryEnds
  BY <1>1, EveryLedgerPolled, DeliverComplete
<1>2. CASE \/ CloseLedger \/ Poll \/ LatestFails \/ LatestRefused \/ GapDetected \/ Unsubscribe
           \/ UNCHANGED vars
  BY <1>2, QuietSteps, QuietComplete
<1>3. QED BY <1>1, <1>2 DEF Next, PollEnds

LEMMA AlwaysComplete == Spec => []Complete
<1>1. QED BY InitComplete, StepComplete, PTL DEF Spec

\* The subscription's state stays within its types; the memory of seen events
\* never exceeds its size by more than one poll adds.
THEOREM TypeCorrect == Spec => []TypeOK
<1>1. Complete => TypeOK
  BY DEF Complete
<1>2. QED BY <1>1, AlwaysComplete, PTL

\* No ledger is passed over without a reason: what is at or before the ledger the
\* subscription has got to was delivered, or it is excused.
THEOREM NothingIsSkipped == Spec => []NothingSkipped
<1>1. Complete => NothingSkipped
  BY DEF Complete
<1>2. QED BY <1>1, AlwaysComplete, PTL

-----------------------------------------------------------------------------
\* What is delivered and may be asked for again is not evicted: what follows it
\* in the memory fits in two windows.
LEMMA NotEvicted ==
  ASSUME Complete, Memory, WindowFits, NEW kept \in Evicted,
         NEW e \in Events(delivered), e >= lastProcessed, e > Top - RecoveryLedgers
  PROVE  e \in Events(kept)
<1> DEFINE n == Len(seen)
<1>1. /\ seen \in Seq(Ledgers) /\ n \in Nat /\ DOMAIN seen = 1..n
      /\ \A j \in 1..n : seen[j] \in Ledgers
  <2>1. seen \in Seq(Ledgers)
    BY DEF Complete, TypeOK
  <2>2. QED BY <2>1
<1>2. /\ Top \in Nat /\ lastProcessed \in Nat /\ RecoveryLedgers \in Nat \ {0} /\ DedupMaxSize \in Nat
      /\ Ledgers \subseteq Nat /\ 2 * RecoveryLedgers - 1 <= DedupMaxSize
  BY SubscriptionAssumption, TopType DEF Complete, Ledgers, WindowFits
<1>3. e \in Events(seen) /\ e \in Ledgers
  BY DEF Memory, Remembered, Complete, TypeOK, Events
<1>4. PICK i \in 1..n : seen[i] = e
  BY <1>1, <1>3 DEF Events
<1>5. PICK m \in 0..n :
        /\ kept \in Seq(Ledgers) /\ Len(kept) = n - m
        /\ \A j \in 1..(n - m) : kept[j] = seen[j + m]
        /\ \A j \in 1..m : seen[j] < lastProcessed \/ j + DedupMaxSize <= n
  BY KeptIsEnd DEF Complete
<1> HIDE DEF n
<1>6. CASE i > m
  <2>1. i - m \in 1..(n - m) /\ (i - m) + m = i
    BY <1>1, <1>6
  <2>2. DOMAIN kept = 1..(n - m)
    BY <1>5
  <2>3. kept[i - m] = e
    BY <1>4, <1>5, <2>1
  <2>4. QED BY <2>1, <2>2, <2>3 DEF Events
<1>7. CASE ~(i > m)
  <2>1. i + DedupMaxSize <= n
    <3>1. i \in 1..m
      BY <1>1, <1>7
    <3>2. ~(seen[i] < lastProcessed)
      BY <1>2, <1>3, <1>4
    <3>3. QED BY <1>5, <3>1, <3>2
  <2> DEFINE P == i..n
             I == (e - RecoveryLedgers + 1)..Top
             f == [j \in P |-> seen[j]]
  <2>2. \A j \in P : j \in 1..n /\ seen[j] \in Ledgers
    BY <1>1
  <2>3. \A j \in P : seen[j] \in I
    <3>1. ASSUME NEW j \in P PROVE seen[j] > e - RecoveryLedgers
      <4>1. j = i \/ i < j
        BY <1>1
      <4>2. i < j => e < seen[j] + RecoveryLedgers
        BY <1>1, <1>4, <2>2 DEF Memory, DropsBelow
      <4>3. seen[j] \in Nat /\ e \in Nat
        BY <1>2, <1>3, <2>2
      <4>4. QED BY <1>2, <1>4, <4>1, <4>2, <4>3
    <3>2. ASSUME NEW j \in P PROVE seen[j] <= Top
      BY <1>1, <2>2 DEF Complete, Reached, Events
    <3>3. ASSUME NEW j \in P PROVE seen[j] \in I
      <4>1. seen[j] \in Nat /\ e \in Nat
        BY <1>2, <1>3, <2>2
      <4>2. seen[j] > e - RecoveryLedgers /\ seen[j] <= Top
        BY <3>1, <3>2
      <4>3. QED BY <1>2, <4>1, <4>2
    <3>4. QED BY <3>3
  <2>4. \A j, k \in P : j # k => seen[j] # seen[k]
    <3>1. \A j, k \in P : j # k => j < k \/ k < j
      BY <1>1
    <3>2. QED BY <1>1, <2>2, <3>1 DEF Memory, Distinct
  <2>5. f \in Injection(P, I)
    BY <2>3, <2>4 DEF Injection, IsInjective
  <2>6. /\ IsFiniteSet(P) /\ Cardinality(P) = n - i + 1
    <3>1. IsFiniteSet(P) /\ Cardinality(P) = IF i > n THEN 0 ELSE n - i + 1
      BY <1>1, FS_Interval
    <3>2. QED BY <1>1, <3>1
  <2>7. /\ IsFiniteSet(I) /\ Cardinality(I) <= 2 * RecoveryLedgers - 1
    <3>1. e - RecoveryLedgers + 1 \in Int /\ Top \in Int /\ e \in Nat
      BY <1>2, <1>3
    <3>2. /\ IsFiniteSet(I)
          /\ Cardinality(I) = IF e - RecoveryLedgers + 1 > Top THEN 0
                              ELSE Top - (e - RecoveryLedgers + 1) + 1
      BY <3>1, FS_Interval
    <3>3. QED BY <1>2, <3>1, <3>2
  <2>8. Cardinality(P) <= Cardinality(I)
    BY <2>5, <2>7, FS_Injection
  <2>9. Cardinality(I) \in Nat
    BY <2>7, FS_CardinalityType
  <2> HIDE DEF P, I
  <2>10. n - i + 1 <= 2 * RecoveryLedgers - 1
    <3>1. n - i + 1 \in Int /\ 2 * RecoveryLedgers - 1 \in Int
      BY <1>1, <1>2
    <3>2. QED BY <2>6, <2>7, <2>8, <2>9, <3>1
  <2>11. n \in Nat /\ i \in Nat
    BY <1>1
  <2>12. QED BY <1>2, <2>1, <2>10, <2>11
<1>8. QED BY <1>1, <1>6, <1>7

LEMMA DeliverInOrder ==
  ASSUME InOrderOnce, WindowFits, NEW sequence, NEW asked, NEW missed,
         Polled(sequence, asked, missed), Deliver(sequence, asked, missed)
  PROVE  (Memory /\ NeverTwice /\ InLedgerOrder)'
<1>0. Complete /\ Memory /\ TypeOK
  BY DEF InOrderOnce, Complete
<1>1. PICK kept \in Evicted : \E current, recovered, D \in Seq(Ledgers) :
        Adds(kept, current, recovered, D, sequence, asked, missed)
  BY <1>0, DeliverFacts
<1>2. PICK current, recovered, D \in Seq(Ledgers) :
        Adds(kept, current, recovered, D, sequence, asked, missed)
  BY <1>1
<1> DEFINE C == Events(current)
           R == Events(recovered)
           w == RecoveryLedgers
<1>3. /\ kept \in Seq(Ledgers) /\ current \in Seq(Ledgers) /\ recovered \in Seq(Ledgers)
      /\ C = ({sequence} \cap matching) \ Events(kept)
      /\ R = (asked \cap matching) \ (Events(kept) \cup C)
      /\ Ascending(current) /\ Ascending(recovered)
      /\ seen' = kept \o current \o recovered
      /\ delivered' = delivered \o D
      /\ D = recovered \/ D = recovered \o current
      /\ lastProcessed' \in {lastProcessed, sequence}
      /\ excused \subseteq excused'
  BY <1>2 DEF Adds
<1>4. /\ sequence = Top /\ sequence \in Nat /\ height \in Nat /\ sequence <= height
      /\ lastProcessed \in Nat /\ lastProcessed <= sequence
      /\ w \in Nat \ {0} /\ Ledgers \subseteq Nat /\ Top' = height
      /\ delivered \in Seq(Ledgers)
  <2>1. Top \in 0..height /\ height \in Nat /\ lastProcessed \in Nat
    BY <1>0, TopType
  <2>2. QED BY <1>0, <2>1, SubscriptionAssumption, DeliverEnds
        DEF Polled, Ledgers, Complete, Reached, TypeOK
<1>5. Distinct(kept) /\ DropsBelow(kept, w) /\ Events(kept) \subseteq Events(seen)
  BY <1>0, <1>4, KeptFacts DEF Memory
<1> HIDE DEF w
\* What is new is not among what was delivered, and lies in the window.
<1>6. ASSUME NEW e \in C \cup R
      PROVE  /\ e \notin Events(delivered) /\ e \in matching /\ e \in Nat
             /\ e <= sequence /\ e > sequence - w
  <2>1. e \in Ledgers /\ e <= sequence /\ e > sequence - w /\ e >= lastProcessed
    <3>1. CASE e \in C
      <4>1. e = sequence /\ sequence \in Ledgers
        BY <1>3, <3>1 DEF Polled
      <4>2. QED BY <1>4, <4>1
    <3>2. CASE e \in R
      <4>1. e \in asked /\ e \in Ledgers
        BY <1>3, <3>2 DEF Polled
      <4>2. e > lastProcessed /\ e > sequence - w /\ e <= sequence
        BY <4>1 DEF Polled, w
      <4>3. QED BY <1>4, <4>1, <4>2
    <3>3. QED BY <3>1, <3>2
  <2>2. e \notin Events(kept) /\ e \in matching
    BY <1>3
  <2>3. QED BY <1>0, <1>4, <2>1, <2>2, NotEvicted DEF w
<1>7. \A x \in R, y \in C : x < y
  <2>1. \A x \in R, y \in C : x # y /\ y = sequence
    BY <1>3
  <2>2. QED BY <1>4, <1>6, <2>1
<1>8. \A x \in Events(seen) \cup Events(delivered) : x \in Nat /\ x <= sequence
  <2>1. \A x \in Events(seen) \cup Events(delivered) : x \in Ledgers
    BY <1>0 DEF TypeOK, Events
  <2>2. QED BY <1>0, <1>4, <2>1 DEF Complete, Reached
<1>9. /\ Distinct(current) /\ DropsBelow(current, w)
      /\ Distinct(recovered) /\ DropsBelow(recovered, w)
  BY <1>3, <1>4, AscendingFacts
<1> DEFINE first == kept \o current
<1>10. /\ first \in Seq(Ledgers) /\ Events(first) = Events(kept) \cup C
  BY <1>3, JoinedEvents
<1>11. Distinct(seen') /\ DropsBelow(seen', w) /\ Events(seen') = Events(kept) \cup C \cup R
  <2>1. Distinct(first)
    BY <1>3, <1>5, <1>9, JoinedDistinct
  <2>2. \A x \in Events(kept), y \in C : x < y + w
    BY <1>4, <1>5, <1>6, <1>8
  <2>3. DropsBelow(first, w)
    BY <1>3, <1>4, <1>5, <1>9, <2>2, JoinedDrops
  <2>4. Events(first) \cap R = {}
    BY <1>3, <1>10
  <2>5. \A x \in Events(first), y \in R : x < y + w
    <3>1. \A x \in Events(first) : x \in Nat /\ x <= sequence
      BY <1>5, <1>6, <1>8, <1>10
    <3>2. QED BY <1>4, <1>6, <3>1
  <2>6. Distinct(first \o recovered)
    BY <1>3, <1>9, <1>10, <2>1, <2>4, JoinedDistinct
  <2>7. DropsBelow(first \o recovered, w)
    BY <1>3, <1>4, <1>9, <1>10, <2>3, <2>5, JoinedDrops
  <2>8. Events(first \o recovered) = Events(first) \cup R
    BY <1>3, <1>10, JoinedEvents
  <2>9. seen' = first \o recovered
    BY <1>3
  <2>10. QED BY <1>10, <2>6, <2>7, <2>8, <2>9
<1>12. /\ D \in Seq(Ledgers) /\ Events(D) \subseteq C \cup R /\ Ascending(D)
  <2>1. CASE D = recovered
    BY <1>3, <2>1
  <2>2. CASE D = recovered \o current
    <3>1. Events(recovered \o current) = R \cup C
      BY <1>3, JoinedEvents
    <3>2. Ascending(recovered \o current)
      BY <1>3, <1>7, JoinedAscending
    <3>3. QED BY <2>2, <3>1, <3>2
  <2>3. QED BY <1>3, <2>1, <2>2
<1>13. Events(delivered') = Events(delivered) \cup Events(D)
  BY <1>3, <1>4, JoinedEvents
<1>14. Distinct(delivered')
  <2>1. Distinct(delivered)
    BY DEF InOrderOnce, NeverTwice, Distinct
  <2>2. Distinct(D)
    BY <1>12, <1>4, AscendingFacts
  <2>3. Events(delivered) \cap Events(D) = {}
    BY <1>6, <1>12
  <2>4. QED BY <1>3, <1>4, <2>1, <2>2, <2>3, JoinedDistinct
<1>15. NeverTwice'
  <2>1. \A i, j \in DOMAIN delivered' : i \in Nat /\ j \in Nat
    <3>1. delivered' \in Seq(Ledgers)
      BY <1>3, <1>4, JoinedEvents
    <3>2. QED BY <3>1
  <2>2. \A i, j \in Nat : i = j \/ i < j \/ j < i
    OBVIOUS
  <2>3. QED BY <1>14, <2>1, <2>2 DEF Distinct, NeverTwice
<1>16. InLedgerOrder'
  <2>1. ASSUME NEW i \in DOMAIN delivered', NEW j \in DOMAIN delivered', i < j,
               delivered'[i] > delivered'[j]
        PROVE  delivered'[j] \in excused'
    <3>1. \/ /\ i \in DOMAIN delivered /\ j \in DOMAIN delivered
             /\ delivered'[i] = delivered[i] /\ delivered'[j] = delivered[j]
          \/ delivered'[i] \in Events(delivered) /\ delivered'[j] \in Events(D)
          \/ \E k, l \in DOMAIN D : k < l /\ delivered'[i] = D[k] /\ delivered'[j] = D[l]
      BY <1>3, <1>4, <1>12, <2>1, JoinedPairs
    <3>2. CASE /\ i \in DOMAIN delivered /\ j \in DOMAIN delivered
               /\ delivered'[i] = delivered[i] /\ delivered'[j] = delivered[j]
      BY <1>3, <2>1, <3>2 DEF InOrderOnce, InLedgerOrder
    <3>3. CASE delivered'[i] \in Events(delivered) /\ delivered'[j] \in Events(D)
      <4>1. delivered'[j] \in matching /\ delivered'[j] \notin Events(delivered)
        BY <1>6, <1>12, <3>3
      <4>2. delivered'[i] \in Nat /\ delivered'[j] \in Nat
        BY <1>6, <1>8, <1>12, <3>3
      <4>3. delivered'[j] < delivered'[i]
        BY <2>1, <4>2
      <4>4. QED BY <1>0, <1>3, <3>3, <4>1, <4>3 DEF Complete, DeliveredAccounted
    <3>4. CASE \E k, l \in DOMAIN D : k < l /\ delivered'[i] = D[k] /\ delivered'[j] = D[l]
      <4>1. delivered'[i] < delivered'[j]
        BY <1>12, <3>4 DEF Ascending
      <4>2. delivered'[i] \in Nat /\ delivered'[j] \in Nat
        BY <1>6, <1>12, <3>4 DEF Events
      <4>3. QED BY <2>1, <4>1, <4>2
    <3>5. QED BY <3>1, <3>2, <3>3, <3>4
  <2>2. QED BY <2>1 DEF InLedgerOrder
<1>17. Remembered'
  <2>1. ASSUME NEW e \in Events(delivered'), e >= lastProcessed', e > Top' - w
        PROVE  e \in Events(seen')
    <3>1. CASE e \in Events(delivered)
      <4>1. e >= lastProcessed /\ e > sequence - w
        BY <1>3, <1>4, <1>8, <2>1, <3>1
      <4>2. QED BY <1>0, <1>4, <1>11, <3>1, <4>1, NotEvicted DEF w
    <3>2. CASE e \in Events(D)
      BY <1>11, <1>12, <3>2
    <3>3. QED BY <1>13, <2>1, <3>1, <3>2
  <2>2. QED BY <2>1 DEF Remembered, Events, w
<1>18. QED BY <1>11, <1>15, <1>16, <1>17 DEF Memory, Distinct, DropsBelow, w

LEMMA QuietInOrder ==
  ASSUME InOrderOnce, Quiet PROVE (Memory /\ NeverTwice /\ InLedgerOrder)'
<1>1. Remembered'
  <2>1. \A e \in Events(delivered) : e \in Nat
    <3>1. delivered \in Seq(Ledgers)
      BY DEF InOrderOnce, Complete, TypeOK
    <3>2. \A i \in DOMAIN delivered : delivered[i] \in Ledgers
      BY <3>1
    <3>3. QED BY <3>2 DEF Events, Ledgers
  <2>2. Top \in Nat /\ Top' \in Nat /\ RecoveryLedgers \in Nat /\ Top' >= Top
    <3>1. Top \in Nat
      BY TopType DEF InOrderOnce, Complete
    <3>2. height' \in Nat /\ latest' \in 0..height'
      BY DEF Quiet, TypeOK, Ledgers
    <3>3. QED BY <3>1, <3>2, SubscriptionAssumption DEF Top, Quiet
  <2>3. \A e \in Events(delivered) : e > Top' - RecoveryLedgers => e > Top - RecoveryLedgers
    BY <2>1, <2>2
  <2>4. QED BY <2>3 DEF Quiet, InOrderOnce, Memory, Remembered, Events
<1>2. (Distinct(seen) /\ DropsBelow(seen, RecoveryLedgers))'
  BY DEF Quiet, InOrderOnce, Memory, Distinct, DropsBelow
<1>3. NeverTwice' /\ InLedgerOrder'
  BY DEF Quiet, InOrderOnce, NeverTwice, InLedgerOrder
<1>4. QED BY <1>1, <1>2, <1>3 DEF Memory

LEMMA InitInOrder == Init => InOrderOnce
<1>1. Init => Events(seen) = {} /\ Events(delivered) = {} /\ DOMAIN seen = {} /\ DOMAIN delivered = {}
  BY DEF Init, Events
<1>2. QED BY <1>1, InitComplete
      DEF InOrderOnce, Memory, Distinct, DropsBelow, Remembered, NeverTwice, InLedgerOrder

LEMMA StepInOrder == ASSUME WindowFits PROVE InOrderOnce /\ [Next]_vars => InOrderOnce'
<1> SUFFICES ASSUME InOrderOnce, [Next]_vars PROVE InOrderOnce'
  OBVIOUS
<1>1. Complete /\ Complete'
  BY StepComplete DEF InOrderOnce
<1>2. CASE LatestArrives \/ RecoveryEnds
  BY <1>1, <1>2, EveryLedgerPolled, DeliverInOrder DEF InOrderOnce
<1>3. CASE \/ CloseLedger \/ Poll \/ LatestFails \/ LatestRefused \/ GapDetected \/ Unsubscribe
           \/ UNCHANGED vars
  BY <1>1, <1>3, QuietSteps, QuietInOrder DEF InOrderOnce
<1>4. QED BY <1>2, <1>3 DEF Next, PollEnds

LEMMA AlwaysInOrder == ASSUME WindowFits PROVE Spec => []InOrderOnce
<1>1. InOrderOnce /\ [Next]_vars => InOrderOnce'
  BY StepInOrder
<1>2. QED BY <1>1, InitInOrder, PTL DEF Spec

\* With a memory of two windows no event reaches the callback twice, whether its
\* ledger stays the latest, a gap is recovered or a poll is repeated.
THEOREM NothingTwice == ASSUME WindowFits PROVE Spec => []NeverTwice
<1>1. InOrderOnce => NeverTwice
  BY DEF InOrderOnce
<1>2. Spec => []InOrderOnce
  BY AlwaysInOrder
<1>3. QED BY <1>1, <1>2, PTL

\* And events come in ledger order, except those whose ledger was excused before.
THEOREM AlwaysInLedgerOrder == ASSUME WindowFits PROVE Spec => []InLedgerOrder
<1>1. InOrderOnce => InLedgerOrder
  BY DEF InOrderOnce
<1>2. Spec => []InOrderOnce
  BY AlwaysInOrder
<1>3. QED BY <1>1, <1>2, PTL

=============================================================================
