--------------------------- MODULE SequenceLemmas ---------------------------
(***************************************************************************)
(* Facts about numbers and sequences that the proofs of several components *)
(* rest on.                                                                *)
(***************************************************************************)
EXTENDS Totals, WellFoundedInduction, TLAPS

\* A set of natural numbers that is not empty has a least element.
LEMMA Least ==
  ASSUME NEW S \in SUBSET Nat, S # {}
  PROVE  \E x \in S : \A y \in S : x <= y
PROOF
<1> DEFINE Less == {p \in Nat \X Nat : p[1] < p[2]}
<1>1. IsWellFoundedOn(Less, Nat)
  BY NatLessThanWellFounded DEF OpToRel
<1> HIDE DEF Less
<1>2. \E x \in S : \A y \in S : ~(<<y, x>> \in Less)
  BY <1>1, WFMin
<1>3. \A x, y \in S : y < x => <<y, x>> \in Less
  BY DEF Less
<1>4. \A x, y \in S : ~(y < x) => x <= y
  OBVIOUS
<1> QED
  BY <1>2, <1>3, <1>4

\* And one that is bounded has a greatest.
LEMMA Greatest ==
  ASSUME NEW S \in SUBSET Nat, S # {}, NEW bound \in Nat, \A x \in S : x <= bound
  PROVE  \E x \in S : \A y \in S : y <= x
PROOF
<1> DEFINE D == {bound - x : x \in S}
<1>1. D # {}
  OBVIOUS
<1>2. \A x \in S : bound - x \in Nat
  OBVIOUS
<1>3. D \in SUBSET Nat
  BY <1>2
<1>4. PICK d \in D : \A e \in D : d <= e
  BY <1>1, <1>3, Least
<1>5. PICK x \in S : d = bound - x
  OBVIOUS
<1>6. \A y \in S : bound - y \in D
  OBVIOUS
<1>7. \A y \in S : y <= x
  BY <1>4, <1>5, <1>6
<1> QED
  BY <1>7

LEMMA MaxIs ==
  ASSUME NEW S \in SUBSET Nat, NEW n \in S, \A y \in S : y <= n
  PROVE  Max(S) = n
PROOF
<1>1. \A y \in S : n >= y /\ y \in Nat
  OBVIOUS
<1>2. Max(S) \in S /\ \A y \in S : Max(S) >= y
  BY <1>1 DEF Max
<1>3. PICK m : m = Max(S)
  OBVIOUS
<1>4. m \in Nat /\ n >= m /\ m >= n
  BY <1>1, <1>2, <1>3
<1>5. m = n
  BY <1>4
<1> QED
  BY <1>3, <1>5

\* The greatest element of a bounded set is one of its elements.
LEMMA MaxIsGreatest ==
  ASSUME NEW S \in SUBSET Nat, S # {}, NEW bound \in Nat, \A x \in S : x <= bound
  PROVE  Max(S) \in S /\ \A y \in S : y <= Max(S)
PROOF
<1>1. PICK n \in S : \A y \in S : y <= n
  BY Greatest
<1>2. Max(S) = n
  BY <1>1, MaxIs
<1> QED
  BY <1>1, <1>2

LEMMA MinIsLeast ==
  ASSUME NEW S \in SUBSET Nat, S # {}
  PROVE  Min(S) \in S /\ \A y \in S : Min(S) <= y
PROOF
<1>1. PICK x \in S : \A y \in S : x <= y
  BY Least
<1> QED
  BY <1>1 DEF Min

-----------------------------------------------------------------------------
(* A fold of +, from its definition by recursion over sets of indices.     *)

\* The recursive function behind the total of the first n counts.
Folding(counts, n, g) ==
  g = [S \in SUBSET (1..n) |->
         IF S = {} THEN 0 ELSE g[S \ {Max(S)}] + counts[Max(S)]]

LEMMA TotalIsFold ==
  ASSUME NEW counts, NEW n \in Nat, DOMAIN counts = 1..n
  PROVE  Total(counts) = (CHOOSE g : Folding(counts, n, g))[1..n]
PROOF
  BY DEF Total, FoldLeft, MapThenFoldSet, Folding

LEMMA FoldingExtends ==
  ASSUME NEW counts, NEW n \in Nat, NEW g, Folding(counts, n, g)
  PROVE  \E h : Folding(counts, n + 1, h)
PROOF
<1> DEFINE h == [S \in SUBSET (1..(n + 1)) |->
                   IF n + 1 \in S THEN g[S \ {n + 1}] + counts[n + 1] ELSE g[S]]
<1>1. ASSUME NEW S \in SUBSET (1..(n + 1))
      PROVE  h[S] = IF S = {} THEN 0 ELSE h[S \ {Max(S)}] + counts[Max(S)]
  <2>1. CASE n + 1 \in S
    <3>1. S \in SUBSET Nat /\ \A y \in S : y <= n + 1
      OBVIOUS
    <3>2. Max(S) = n + 1
      BY <2>1, <3>1, MaxIs
    <3>3. S \ {n + 1} \in SUBSET (1..(n + 1)) /\ n + 1 \notin S \ {n + 1} /\ S # {}
      BY <2>1
    <3>4. h[S] = g[S \ {n + 1}] + counts[n + 1] /\ h[S \ {n + 1}] = g[S \ {n + 1}]
      BY <2>1, <3>3
    <3> HIDE DEF h
    <3> QED
      BY <3>2, <3>3, <3>4
  <2>2. CASE n + 1 \notin S
    <3>1. S \in SUBSET (1..n)
      BY <2>2
    <3>2. h[S] = g[S]
      BY <2>2
    <3>3. S # {} => h[S \ {Max(S)}] = g[S \ {Max(S)}]
      BY <2>2
    <3>4. g[S] = IF S = {} THEN 0 ELSE g[S \ {Max(S)}] + counts[Max(S)]
      BY <3>1 DEF Folding
    <3> QED
      BY <3>2, <3>3, <3>4
  <2> QED
    BY <2>1, <2>2
<1>2. h = [S \in SUBSET (1..(n + 1)) |->
             IF S = {} THEN 0 ELSE h[S \ {Max(S)}] + counts[Max(S)]]
  <2>1. h = [S \in SUBSET (1..(n + 1)) |-> h[S]]
    OBVIOUS
  <2> HIDE DEF h
  <2> QED
    BY <1>1, <2>1
<1> QED
  BY <1>2 DEF Folding

LEMMA FoldingExists ==
  ASSUME NEW counts, NEW n \in Nat
  PROVE  \E g : Folding(counts, n, g)
PROOF
<1> DEFINE bad == {k \in Nat : ~\E g : Folding(counts, k, g)}
<1>1. bad = {}
  <2> SUFFICES ASSUME bad # {} PROVE FALSE
    OBVIOUS
  <2>1. PICK k \in bad : \A j \in bad : k <= j
    BY Least
  <2>2. k # 0
    <3>1. Folding(counts, 0, [S \in SUBSET (1..0) |-> 0])
      BY DEF Folding
    <3> QED
      BY <2>1, <3>1
  <2>3. k - 1 \in Nat /\ k - 1 \notin bad
    BY <2>1, <2>2
  <2>4. PICK g : Folding(counts, k - 1, g)
    BY <2>3
  <2>5. \E h : Folding(counts, (k - 1) + 1, h)
    BY <2>3, <2>4, FoldingExtends
  <2> QED
    BY <2>1, <2>5
<1> QED
  BY <1>1

\* What the fold has on the first k.
LEMMA FoldingStep ==
  ASSUME NEW counts, NEW n \in Nat, NEW g, Folding(counts, n, g)
  PROVE  /\ g[1..0] = 0
         /\ \A k \in 1..n : g[1..k] = g[1..(k - 1)] + counts[k]
PROOF
<1>1. g[1..0] = 0
  <2>1. 1..0 = {} /\ {} \in SUBSET (1..n)
    OBVIOUS
  <2> QED
    BY <2>1 DEF Folding
<1>2. ASSUME NEW k \in 1..n PROVE g[1..k] = g[1..(k - 1)] + counts[k]
  <2>1. 1..k \in SUBSET (1..n) /\ 1..k # {}
    OBVIOUS
  <2>2. 1..k \in SUBSET Nat /\ k \in 1..k /\ \A y \in 1..k : y <= k
    OBVIOUS
  <2>3. Max(1..k) = k
    BY <2>2, MaxIs
  <2>4. (1..k) \ {k} = 1..(k - 1)
    OBVIOUS
  <2> QED
    BY <2>1, <2>3, <2>4 DEF Folding
<1> QED
  BY <1>1, <1>2

LEMMA TotalEmpty == \A counts : DOMAIN counts = {} => Total(counts) = 0
PROOF
<1> SUFFICES ASSUME NEW counts, DOMAIN counts = {} PROVE Total(counts) = 0
  OBVIOUS
<1>1. DOMAIN counts = 1..0
  OBVIOUS
<1>2. Folding(counts, 0, CHOOSE g : Folding(counts, 0, g))
  BY FoldingExists
<1> QED
  BY <1>1, <1>2, TotalIsFold, FoldingStep

\* A sequence with one more.
LEMMA TotalStep ==
  ASSUME NEW n \in Nat, NEW s, DOMAIN s = 1..(n + 1), NEW t, DOMAIN t = 1..n,
         \A i \in 1..n : t[i] = s[i]
  PROVE  Total(s) = Total(t) + s[n + 1]
PROOF
<1> DEFINE g == CHOOSE x : Folding(s, n + 1, x)
           h == CHOOSE x : Folding(t, n, x)
<1>0. n + 1 \in Nat
  OBVIOUS
<1>1. Folding(s, n + 1, g) /\ Folding(t, n, h)
  <2>1. (\E x : Folding(s, n + 1, x)) /\ \E x : Folding(t, n, x)
    BY <1>0, FoldingExists
  <2> QED
    BY <2>1
<1>2. Total(s) = g[1..(n + 1)] /\ Total(t) = h[1..n]
  BY <1>0, TotalIsFold
<1> HIDE DEF g, h
<1>3. /\ g[1..0] = 0 /\ h[1..0] = 0
      /\ \A k \in 1..(n + 1) : g[1..k] = g[1..(k - 1)] + s[k]
      /\ \A k \in 1..n : h[1..k] = h[1..(k - 1)] + t[k]
  BY <1>0, <1>1, FoldingStep
<1> DEFINE bad == {k \in 0..n : g[1..k] # h[1..k]}
<1>4. bad = {}
  <2> SUFFICES ASSUME bad # {} PROVE FALSE
    OBVIOUS
  <2>0. bad \in SUBSET Nat
    OBVIOUS
  <2>1. PICK k \in bad : \A j \in bad : k <= j
    <3> HIDE DEF bad
    <3> QED
      BY <2>0, Least
  <2>2. k # 0
    BY <1>3
  <2>3. k - 1 \in 0..n /\ k - 1 \notin bad /\ k \in 1..n
    BY <2>1, <2>2
  <2>4. g[1..(k - 1)] = h[1..(k - 1)]
    BY <2>3
  <2> QED
    BY <1>3, <2>3, <2>4
<1> HIDE DEF bad
<1>5. n \in 0..n /\ n + 1 \in 1..(n + 1) /\ (n + 1) - 1 = n
  OBVIOUS
<1>6. g[1..n] = h[1..n]
  BY <1>4, <1>5 DEF bad
<1>7. g[1..(n + 1)] = g[1..((n + 1) - 1)] + s[n + 1]
  BY <1>3, <1>5
<1> QED
  BY <1>2, <1>5, <1>6, <1>7

-----------------------------------------------------------------------------
(* Totals of beginnings.                                                   *)

FirstTotal(s, k) == Total([i \in 1..k |-> s[i]])

LEMMA FirstTotalZero == \A s : FirstTotal(s, 0) = 0
PROOF
<1> SUFFICES ASSUME NEW s PROVE FirstTotal(s, 0) = 0
  OBVIOUS
<1>1. DOMAIN [i \in 1..0 |-> s[i]] = {}
  OBVIOUS
<1> QED
  BY <1>1, TotalEmpty DEF FirstTotal

LEMMA FirstTotalNext ==
  ASSUME NEW s, NEW k \in Nat
  PROVE  FirstTotal(s, k + 1) = FirstTotal(s, k) + s[k + 1]
PROOF
<1> DEFINE long == [i \in 1..(k + 1) |-> s[i]]
           short == [i \in 1..k |-> s[i]]
<1>1. DOMAIN long = 1..(k + 1) /\ DOMAIN short = 1..k /\ \A i \in 1..k : short[i] = long[i]
  OBVIOUS
<1>2. long[k + 1] = s[k + 1]
  OBVIOUS
<1> HIDE DEF long, short
<1>3. Total(long) = Total(short) + long[k + 1]
  BY <1>1, TotalStep
<1> QED
  BY <1>2, <1>3 DEF FirstTotal, long, short

LEMMA FirstTotalNat ==
  ASSUME NEW s, NEW n \in Nat, \A i \in 1..n : s[i] \in Nat
  PROVE  \A k \in 0..n : FirstTotal(s, k) \in Nat
PROOF
<1> DEFINE bad == {k \in 0..n : FirstTotal(s, k) \notin Nat}
<1> SUFFICES ASSUME bad # {} PROVE FALSE
  OBVIOUS
<1>1. bad \in SUBSET Nat
  OBVIOUS
<1>2. PICK k \in bad : \A j \in bad : k <= j
  <2> HIDE DEF bad
  <2> QED
    BY <1>1, Least
<1>3. k # 0
  BY FirstTotalZero
<1>4. k - 1 \in Nat /\ k - 1 \in 0..n /\ k - 1 \notin bad /\ k \in 1..n
  BY <1>2, <1>3
<1>5. FirstTotal(s, k - 1) \in Nat
  BY <1>4
<1>6. FirstTotal(s, (k - 1) + 1) = FirstTotal(s, k - 1) + s[(k - 1) + 1]
  BY <1>4, FirstTotalNext
<1>7. (k - 1) + 1 = k
  BY <1>4
<1> QED
  BY <1>4, <1>5, <1>6, <1>7

LEMMA FirstTotalInt ==
  ASSUME NEW s, NEW n \in Nat, \A i \in 1..n : s[i] \in Int
  PROVE  \A k \in 0..n : FirstTotal(s, k) \in Int
PROOF
<1> DEFINE bad == {k \in 0..n : FirstTotal(s, k) \notin Int}
<1> SUFFICES ASSUME bad # {} PROVE FALSE
  OBVIOUS
<1>1. bad \in SUBSET Nat
  OBVIOUS
<1>2. PICK k \in bad : \A j \in bad : k <= j
  <2> HIDE DEF bad
  <2> QED
    BY <1>1, Least
<1>3. k # 0
  BY FirstTotalZero
<1>4. k - 1 \in Nat /\ k - 1 \in 0..n /\ k - 1 \notin bad /\ k \in 1..n
  BY <1>2, <1>3
<1>5. FirstTotal(s, k - 1) \in Int
  BY <1>4
<1>6. FirstTotal(s, (k - 1) + 1) = FirstTotal(s, k - 1) + s[(k - 1) + 1]
  BY <1>4, FirstTotalNext
<1>7. (k - 1) + 1 = k
  BY <1>4
<1> QED
  BY <1>4, <1>5, <1>6, <1>7

\* Counts only add up.
LEMMA FirstTotalGrows ==
  ASSUME NEW s, NEW n \in Nat, \A i \in 1..n : s[i] \in Nat, NEW i \in 0..n, NEW j \in i..n
  PROVE  FirstTotal(s, i) <= FirstTotal(s, j)
PROOF
<1> DEFINE bad == {k \in i..n : ~(FirstTotal(s, i) <= FirstTotal(s, k))}
<1>0. \A k \in 0..n : FirstTotal(s, k) \in Nat
  BY FirstTotalNat
<1> SUFFICES ASSUME bad # {} PROVE FALSE
  OBVIOUS
<1>1. bad \in SUBSET Nat
  OBVIOUS
<1>2. PICK k \in bad : \A m \in bad : k <= m
  <2> HIDE DEF bad
  <2> QED
    BY <1>1, Least
<1>3. k # i
  BY <1>0
<1>4. k - 1 \in Nat /\ k - 1 \in i..n /\ k - 1 \notin bad /\ k \in 1..n
  BY <1>2, <1>3
<1>5. FirstTotal(s, i) <= FirstTotal(s, k - 1)
  BY <1>4
<1>6. FirstTotal(s, (k - 1) + 1) = FirstTotal(s, k - 1) + s[(k - 1) + 1]
  BY <1>4, FirstTotalNext
<1>7. (k - 1) + 1 = k
  BY <1>4
<1> QED
  BY <1>0, <1>2, <1>4, <1>5, <1>6, <1>7

\* The whole, and a beginning of it.
LEMMA TotalOfFirst ==
  ASSUME NEW S, NEW s \in Seq(S)
  PROVE  /\ Total(s) = FirstTotal(s, Len(s))
         /\ \A k \in 0..Len(s) : Total(SubSeq(s, 1, k)) = FirstTotal(s, k)
PROOF
<1>1. s = [i \in 1..Len(s) |-> s[i]]
  OBVIOUS
<1>2. ASSUME NEW k \in 0..Len(s)
      PROVE  SubSeq(s, 1, k) = [i \in 1..k |-> s[i]]
  OBVIOUS
<1> QED
  BY <1>1, <1>2 DEF FirstTotal

-----------------------------------------------------------------------------
(* Sequences of sequences, one behind the other.                           *)

\* The recursive function behind FlattenSeq.
Flattening(seqs, n, g) ==
  g = [i \in 1..n |-> IF i = 1 THEN seqs[i] ELSE g[i - 1] \o seqs[i]]

LEMMA FlattenIsLast ==
  ASSUME NEW seqs, Len(seqs) # 0
  PROVE  FlattenSeq(seqs) = (CHOOSE g : Flattening(seqs, Len(seqs), g))[Len(seqs)]
PROOF
  BY DEF FlattenSeq, Flattening

LEMMA FlatteningExists ==
  ASSUME NEW seqs, NEW n \in Nat
  PROVE  \E g : Flattening(seqs, n, g)
PROOF
<1> DEFINE bad == {k \in Nat : ~\E g : Flattening(seqs, k, g)}
<1> SUFFICES ASSUME bad # {} PROVE FALSE
  OBVIOUS
<1>1. PICK k \in bad : \A j \in bad : k <= j
  BY Least
<1>2. k # 0
  <2>1. Flattening(seqs, 0, [i \in 1..0 |-> 0])
    BY DEF Flattening
  <2> QED
    BY <1>1, <2>1
<1>3. k - 1 \in Nat /\ k - 1 \notin bad
  BY <1>1, <1>2
<1>4. PICK g : Flattening(seqs, k - 1, g)
  BY <1>3
<1> DEFINE h == [i \in 1..k |-> IF i = k THEN IF i = 1 THEN seqs[i] ELSE g[i - 1] \o seqs[i]
                                ELSE g[i]]
<1>5. ASSUME NEW i \in 1..k
      PROVE  h[i] = IF i = 1 THEN seqs[i] ELSE h[i - 1] \o seqs[i]
  <2>1. CASE i = k
    BY <1>1, <2>1
  <2>2. CASE i # k
    <3>1. i \in 1..(k - 1)
      BY <1>1, <2>2
    <3>2. h[i] = g[i] /\ (i # 1 => h[i - 1] = g[i - 1])
      BY <1>1, <3>1
    <3>3. g[i] = IF i = 1 THEN seqs[i] ELSE g[i - 1] \o seqs[i]
      BY <1>4, <3>1 DEF Flattening
    <3> HIDE DEF h
    <3> QED
      BY <3>2, <3>3
  <2> QED
    BY <2>1, <2>2
<1>6. h = [i \in 1..k |-> h[i]]
  OBVIOUS
<1> HIDE DEF h
<1>7. Flattening(seqs, k, h)
  BY <1>5, <1>6 DEF Flattening
<1> QED
  BY <1>1, <1>7

\* What the sequences have, and nothing else.
LEMMA FlattenTypes ==
  ASSUME NEW S, NEW seqs \in Seq(Seq(S))
  PROVE  FlattenSeq(seqs) \in Seq(S)
PROOF
<1>1. CASE Len(seqs) = 0
  BY <1>1 DEF FlattenSeq
<1>2. CASE Len(seqs) # 0
  <2> DEFINE g == CHOOSE x : Flattening(seqs, Len(seqs), x)
             bad == {k \in 1..Len(seqs) : g[k] \notin Seq(S)}
  <2>1. Len(seqs) \in Nat
    OBVIOUS
  <2>2. Flattening(seqs, Len(seqs), g)
    BY <2>1, FlatteningExists
  <2> HIDE DEF g
  <2>3. \A i \in 1..Len(seqs) : g[i] = IF i = 1 THEN seqs[i] ELSE g[i - 1] \o seqs[i]
    BY <2>2 DEF Flattening
  <2>4. \A i \in 1..Len(seqs) : seqs[i] \in Seq(S)
    OBVIOUS
  <2>5. bad = {}
    <3> SUFFICES ASSUME bad # {} PROVE FALSE
      OBVIOUS
    <3>1. bad \in SUBSET Nat
      OBVIOUS
    <3>2. PICK k \in bad : \A j \in bad : k <= j
      <4> HIDE DEF bad
      <4> QED
        BY <3>1, Least
    <3>3. k \in 1..Len(seqs) /\ g[k] \notin Seq(S)
      BY <3>2
    <3>4. k # 1
      BY <2>3, <2>4, <3>3
    <3>5. k - 1 \in 1..Len(seqs) /\ k - 1 \notin bad
      BY <2>1, <3>2, <3>3, <3>4
    <3>6. g[k - 1] \in Seq(S)
      BY <3>5
    <3>7. g[k] = g[k - 1] \o seqs[k]
      BY <2>3, <3>3, <3>4
    <3>8. \A a, b \in Seq(S) : a \o b \in Seq(S)
      OBVIOUS
    <3> QED
      BY <2>4, <3>3, <3>6, <3>7, <3>8
  <2>6. g[Len(seqs)] \in Seq(S)
    BY <1>2, <2>1, <2>5
  <2> QED
    BY <1>2, <2>6, FlattenIsLast DEF g
<1> QED
  BY <1>1, <1>2
=============================================================================
