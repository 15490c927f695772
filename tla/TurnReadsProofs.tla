--------------------------- MODULE TurnReadsProofs ---------------------------
(***************************************************************************)
(* Proofs about what a turn reads.  Lookups, Windows and Retrieval: the    *)
(* tools offered are tools that run; what a facts tool answers is exactly  *)
(* what was asked for, and a window exactly the period it names; what two  *)
(* arms found is ranked first, each arm in its order: for any facts,       *)
(* areas, calls, catalog, calendar range, k and length of the arms.        *)
(* MemoryBlock: the block fits the budget and keeps the rank order, for    *)
(* any memories, shares and budget.                                        *)
(***************************************************************************)
EXTENDS Lookups, MemoryBlock, SequenceLemmas, SequenceTheorems, FiniteSetTheorems

\* What is offered is right, and stays so whatever is seeded.
OfferInv ==
  /\ setting \in Settings
  /\ IsFiniteSet(tool_defs)
  /\ OffersWhatItDispatches

-----------------------------------------------------------------------------
LEMMA RunsWhatIsDefined ==
  ASSUME setting \in Settings, NEW name \in Definitions
  PROVE  ~Refused([name |-> name, malformed |-> FALSE])
  BY CatalogAssumption, SettingsAssumption DEF Definitions, Refused

LEMMA SelectionsRun ==
  ASSUME setting \in Settings, IsFiniteSet(tool_defs), NEW o \in Selections
  PROVE  /\ MemoryTools \cap o.tools = (IF setting.memory THEN MemoryTools ELSE {})
         /\ setting.mode = "semantic" => Cardinality(o.tools \ MemoryTools) <= ToolK
         /\ setting.mode # "semantic" => o.tools \ MemoryTools = Catalog \ MemoryTools
         /\ o.deferred \subseteq o.tools \ MemoryTools
         /\ setting.mode = "native" => o.deferred # o.tools
         /\ o.tools \subseteq Definitions
  <1>1. setting.mode \in {"full", "native", "semantic"} /\ setting.memory \in BOOLEAN
    BY SettingsAssumption
  <1>2. CASE setting.mode = "full"
    <2>1. o = Full
      BY <1>2 DEF Selections
    <2> QED
      BY <1>1, <1>2, <2>1, CatalogAssumption DEF Full, Definitions
  <1>3. CASE setting.mode = "native"
    <2>1. o = Native
      BY <1>3 DEF Selections
    <2>2. "search_docs" \in Definitions
      BY CatalogAssumption, SettingsAssumption DEF Definitions
    <2> QED
      BY <1>1, <1>3, <2>1, <2>2, CatalogAssumption DEF Native, Definitions, AlwaysInjected
  <1>4. CASE setting.mode = "semantic"
    <2>1. PICK rows \in SUBSET tool_defs : Cardinality(rows) <= ToolK /\ o = Semantic(rows)
      BY <1>4 DEF Selections
    <2>2. o.tools = (rows \cap Definitions) \cup AlwaysInjected /\ o.deferred = {}
      BY <2>1 DEF Semantic
    <2>3. Cardinality(o.tools \ MemoryTools) <= ToolK
      <3>1. o.tools \ MemoryTools \subseteq rows
        BY <2>2 DEF AlwaysInjected
      <3>2. IsFiniteSet(rows)
        BY FS_Subset
      <3>3. /\ IsFiniteSet(o.tools \ MemoryTools)
            /\ Cardinality(o.tools \ MemoryTools) <= Cardinality(rows)
        BY <3>1, <3>2, FS_Subset
      <3>4. Cardinality(rows) \in Nat /\ Cardinality(o.tools \ MemoryTools) \in Nat
        BY <3>2, <3>3, FS_CardinalityType
      <3> QED
        BY <2>1, <3>3, <3>4, SettingsAssumption
    <2>4. MemoryTools \cap o.tools = (IF setting.memory THEN MemoryTools ELSE {})
      BY <1>1, <2>2, CatalogAssumption DEF Definitions, AlwaysInjected
    <2> QED
      BY <1>4, <2>2, <2>3, <2>4 DEF AlwaysInjected, Definitions
  <1> QED
    BY <1>1, <1>2, <1>3, <1>4

LEMMA OfferStep ==
  ASSUME OfferInv, [LookupNext]_lookupVars
  PROVE  OfferInv'
  <1>1. setting' = setting
    BY DEF LookupNext, lookupVars, environment, Select, Dispatch, Refuse, CallMemory, CallWindowed,
       CallOther, Answered, Starts, Done, ReadRelease, ReadArea, ReadRows, ReadBounds,
       ReadEntity, ReadDense, ReadSparse, FuseArms, QueryFails, DeleteAreas, InsertAreas, Seed
  <1>2. IsFiniteSet(tool_defs')
    <2>1. tool_defs' = tool_defs \/ Seed
      BY DEF LookupNext, lookupVars, environment, Select, Dispatch, Refuse, CallMemory, CallWindowed,
         CallOther, Answered, Starts, Done, ReadRelease, ReadArea, ReadRows, ReadBounds,
         ReadEntity, ReadDense, ReadSparse, FuseArms, QueryFails, DeleteAreas, InsertAreas
    <2>3. Seed => tool_defs' = Catalog \cup (tool_defs \cap Synthetic)
      BY DEF Seed
    <2>2. IsFiniteSet(tool_defs \cap Synthetic)
      BY FS_Subset DEF OfferInv
    <2>4. IsFiniteSet(Catalog \cup (tool_defs \cap Synthetic))
      BY <2>2, FS_Union, CatalogAssumption
    <2>5. IsFiniteSet(tool_defs)
      BY DEF OfferInv
    <2> QED
      BY <2>1, <2>3, <2>4, <2>5
  <1>3. CASE Select
    <2>1. offered' \in Selections
      BY <1>3 DEF Select
    <2>2. \A name \in Definitions : ~Refused([name |-> name, malformed |-> FALSE])
      BY RunsWhatIsDefined DEF OfferInv
    <2> QED
      BY <1>1, <1>2, <2>1, <2>2, SelectionsRun DEF OfferInv, OffersWhatItDispatches, Refused
  <1>4. CASE ~Select
    <2>1. offered' = offered /\ (stage = "select" => stage' = "select")
      BY <1>4 DEF LookupNext, lookupVars, environment, Dispatch, Refuse, CallMemory, CallWindowed,
         CallOther, Answered, Starts, Done, ReadRelease, ReadArea, ReadRows, ReadBounds,
         ReadEntity, ReadDense, ReadSparse, FuseArms, QueryFails, DeleteAreas, InsertAreas, Seed
    <2> QED
      BY <1>1, <1>2, <2>1 DEF OfferInv, OffersWhatItDispatches, Refused
  <1> QED
    BY <1>3, <1>4

\* For any catalog, table of seeds and ToolK: a tool that is offered is one that
\* dispatch runs, stale seeds and a memory that is switched off included
\* (SemanticToolSelector.select, definitions).
THEOREM OfferedToolsRun == LookupSpec => []OffersWhatItDispatches
  <1>1. LookupInit => OfferInv
    BY SettingsAssumption DEF LookupInit, OfferInv, OffersWhatItDispatches
  <1>2. OfferInv /\ [LookupNext]_lookupVars => OfferInv'
    BY OfferStep
  <1>3. OfferInv => OffersWhatItDispatches
    BY DEF OfferInv
  <1> QED
    BY <1>1, <1>2, <1>3, PTL DEF LookupSpec

-----------------------------------------------------------------------------
(* A finite set that is strictly ordered can be listed in that order.      *)

\* A finite set under a strict total order has a listing in that order.
LEMMA SortedListing ==
  ASSUME NEW S, IsFiniteSet(S), NEW R,
         \A x \in S : <<x, x>> \notin R,
         \A x, y, z \in S : <<x, y>> \in R /\ <<y, z>> \in R => <<x, z>> \in R,
         \A x, y \in S : x = y \/ <<x, y>> \in R \/ <<y, x>> \in R
  PROVE  \E s \in SetToSeqs(S) : \A i, j \in DOMAIN s : i < j => <<s[i], s[j]>> \in R
PROOF
<1> DEFINE below(x) == {y \in S : <<y, x>> \in R}
           pos == [x \in S |-> Cardinality(below(x)) + 1]
<1>1. PICK n \in Nat : n = Cardinality(S)
  BY FS_CardinalityType
<1>2. \A x \in S : IsFiniteSet(below(x)) /\ Cardinality(below(x)) \in Nat
  BY FS_Subset, FS_CardinalityType
<1>3. ASSUME NEW x \in S, NEW y \in S, <<x, y>> \in R
      PROVE  Cardinality(below(x)) < Cardinality(below(y))
  <2>1. below(x) \subseteq below(y) /\ below(x) # below(y)
    BY <1>3
  <2> HIDE DEF below
  <2>2. /\ Cardinality(below(x)) <= Cardinality(below(y))
        /\ Cardinality(below(y)) = Cardinality(below(x)) => below(y) = below(x)
    BY <1>2, <2>1, FS_Subset
  <2> QED
    BY <1>2, <2>1, <2>2
<1>4. ASSUME NEW x \in S PROVE Cardinality(below(x)) < n
  <2>1. below(x) \subseteq S /\ below(x) # S
    OBVIOUS
  <2> HIDE DEF below
  <2>2. Cardinality(below(x)) <= n /\ (n = Cardinality(below(x)) => S = below(x))
    BY <1>1, <2>1, FS_Subset
  <2> QED
    BY <1>1, <1>2, <2>1, <2>2
<1> HIDE DEF below
<1>5. pos \in [S -> 1..n] /\ \A x, y \in S : <<x, y>> \in R => pos[x] < pos[y]
  <2> DEFINE count(x) == Cardinality(below(x))
  <2>1. /\ \A x \in S : count(x) \in Nat /\ count(x) < n
        /\ \A x, y \in S : <<x, y>> \in R => count(x) < count(y)
    BY <1>2, <1>3, <1>4
  <2>2. pos = [x \in S |-> count(x) + 1]
    OBVIOUS
  <2> HIDE DEF count, pos
  <2> QED
    BY <1>1, <2>1, <2>2
<1> HIDE DEF pos
<1>6. ASSUME NEW x \in S, NEW y \in S, pos[x] = pos[y] PROVE x = y
  <2>1. ~(pos[x] < pos[y]) /\ ~(pos[y] < pos[x])
    BY <1>5, <1>6
  <2> QED
    BY <1>5, <2>1
<1>7. pos \in Injection(S, 1..n)
  BY <1>5, <1>6, Zenon DEF Injection, IsInjective
<1>8. IsFiniteSet(1..n) /\ Cardinality(1..n) = n
  BY FS_Interval
<1>9. \A i \in 1..n : \E x \in S : pos[x] = i
  <2>1. pos \in Surjection(S, 1..n)
    BY <1>1, <1>7, <1>8, FS_Injection
  <2> QED
    BY <2>1 DEF Surjection
<1> DEFINE s == [i \in 1..n |-> CHOOSE x \in S : pos[x] = i]
<1>10. s \in [1..n -> S] /\ \A i \in 1..n : pos[s[i]] = i
  BY <1>9
<1> HIDE DEF s
<1>11. s \in SetToSeqs(S)
  BY <1>1, <1>10 DEF SetToSeqs
<1>12. ASSUME NEW i \in 1..n, NEW j \in 1..n, i < j PROVE <<s[i], s[j]>> \in R
  <2>1. s[i] \in S /\ s[j] \in S /\ pos[s[i]] = i /\ pos[s[j]] = j
    BY <1>10
  <2>2. s[i] # s[j] /\ <<s[j], s[i]>> \notin R
    BY <1>5, <1>12, <2>1
  <2> QED
    BY <2>1, <2>2
<1>13. DOMAIN s = 1..n
  BY <1>10
<1> QED
  BY <1>11, <1>12, <1>13

\* A list without repetition has as many members as it has places.
LEMMA ListCardinality ==
  ASSUME NEW S, NEW n \in Nat, NEW s \in [1..n -> S],
         \A i, j \in 1..n : i # j => s[i] # s[j]
  PROVE  IsFiniteSet(ToSet(s)) /\ Cardinality(ToSet(s)) = n
PROOF
<1>1. ToSet(s) = {s[i] : i \in 1..n}
  BY DEF ToSet
<1>2. PICK T : T = ToSet(s)
  OBVIOUS
<1>3. s \in [1..n -> T] /\ \A t \in T : \E i \in 1..n : s[i] = t
  BY <1>1, <1>2
<1>4. s \in Bijection(1..n, T)
  BY <1>3 DEF Bijection, Injection, Surjection, IsInjective
<1>5. ExistsBijection(1..n, T)
  BY <1>4 DEF ExistsBijection
<1>6. IsFiniteSet(1..n) /\ Cardinality(1..n) = n
  BY FS_Interval
<1> QED
  BY <1>2, <1>5, <1>6, FS_Bijection

-----------------------------------------------------------------------------
(* Fractions.                                                              *)

\* Fractions that are compared by cross-multiplication are ordered.
LEMMA FractionsCompose ==
  ASSUME NEW a \in Nat, NEW b \in Nat \ {0}, NEW c \in Nat, NEW d \in Nat \ {0},
         NEW e \in Nat, NEW f \in Nat \ {0}
  PROVE  /\ a * d > c * b /\ c * f >= e * d => a * f > e * b
         /\ a * d >= c * b /\ c * f > e * d => a * f > e * b
         /\ a * d >= c * b /\ c * f >= e * d => a * f >= e * b
PROOF
<1> DEFINE x == a * d
           y == c * b
           u == c * f
           v == e * d
           p == a * f
           q == e * b
<1>1. x * f = p * d /\ y * f = u * b /\ v * b = q * d
  BY Z3
<1>2. x \in Nat /\ y \in Nat /\ u \in Nat /\ v \in Nat /\ p \in Nat /\ q \in Nat
  OBVIOUS
<1> HIDE DEF x, y, u, v, p, q
<1>3. \A m, n \in Nat : \A k \in Nat \ {0} : (m > n <=> m * k > n * k) /\ (m >= n <=> m * k >= n * k)
  BY Z3
<1>4. /\ x > y <=> p * d > u * b
      /\ x >= y <=> p * d >= u * b
      /\ u > v <=> u * b > q * d
      /\ u >= v <=> u * b >= q * d
      /\ p > q <=> p * d > q * d
      /\ p >= q <=> p * d >= q * d
  BY <1>1, <1>2, <1>3
<1>5. p * d \in Nat /\ u * b \in Nat /\ q * d \in Nat
  BY <1>2
<1>6. \A k, l, m \in Nat : (k > l /\ l >= m => k > m) /\ (k >= l /\ l > m => k > m) /\ (k >= l /\ l >= m => k >= m)
  OBVIOUS
<1>7. /\ x > y /\ u >= v => p > q
      /\ x >= y /\ u > v => p > q
      /\ x >= y /\ u >= v => p >= q
  BY <1>4, <1>5, <1>6
<1> QED
  BY <1>7 DEF x, y, u, v, p, q

-----------------------------------------------------------------------------
(* What fuse ranks.                                                        *)

\* The score and the order of fuse, over two arms.
Score(p, q, id) == Fused(Rank(p, id), Rank(q, id))

Before(p, q, a, b) ==
  \/ Higher(Score(p, q, a), Score(p, q, b))
  \/ ~Higher(Score(p, q, b), Score(p, q, a)) /\ a < b

\* An arm lists chunks, each once.
LEMMA ArmsList ==
  ASSUME NEW p \in Arms
  PROVE  /\ p \in Seq(Chunks) /\ Len(p) <= ArmLimit /\ ToSet(p) \subseteq Chunks
         /\ \A i, j \in DOMAIN p : p[i] = p[j] => i = j
PROOF
<1>1. PICK S \in SUBSET Chunks : p \in SetToSeqs(S)
  BY DEF Arms, SetToAllKPermutations
<1>2. PICK n \in Nat : n = Cardinality(S)
  BY SearchAssumption, FS_Subset, FS_CardinalityType
<1>3. p \in [1..n -> S] /\ \A i, j \in 1..n : i # j => p[i] # p[j]
  BY <1>1, <1>2 DEF SetToSeqs
<1>4. p \in Seq(Chunks)
  BY <1>2, <1>3
<1>5. Len(p) <= ArmLimit
  BY DEF Arms
<1> QED
  BY <1>3, <1>4, <1>5 DEF ToSet

\* A place in an arm is the rank of what is there, and what has no place has
\* rank 0.
LEMMA RankIs ==
  ASSUME NEW p \in Arms
  PROVE  /\ \A i \in DOMAIN p : Rank(p, p[i]) = i /\ i \in 1..ArmLimit
         /\ \A id : id \notin ToSet(p) => Rank(p, id) = 0
         /\ \A id : id \in ToSet(p) => Rank(p, id) \in 1..ArmLimit
         /\ \A id : Rank(p, id) \in 0..ArmLimit
PROOF
<1>1. /\ p \in Seq(Chunks) /\ Len(p) <= ArmLimit /\ Len(p) \in Nat
      /\ \A i, j \in DOMAIN p : p[i] = p[j] => i = j
  BY ArmsList
<1>2. DOMAIN p \subseteq 1..ArmLimit
  BY <1>1, FusionAssumption
<1>3. \A i \in DOMAIN p : Rank(p, p[i]) = i
  BY <1>1 DEF Rank
<1>4. \A id : id \notin ToSet(p) => Rank(p, id) = 0
  BY DEF Rank, ToSet
<1>5. \A id : id \in ToSet(p) => Rank(p, id) \in 1..ArmLimit
  BY <1>2, <1>3 DEF ToSet
<1> QED
  BY <1>2, <1>3, <1>4, <1>5, FusionAssumption

\* A fused score is a fraction.
LEMMA FusedIsFraction ==
  ASSUME NEW i \in Nat, NEW j \in Nat
  PROVE  Fused(i, j).num \in Nat /\ Fused(i, j).den \in Nat \ {0}
PROOF
<1>1. \A m, n \in Nat \ {0} : m * n \in Nat \ {0}
  BY Z3
<1>2. RrfK \in Nat /\ (i # 0 => RrfK + i \in Nat \ {0}) /\ (j # 0 => RrfK + j \in Nat \ {0})
  BY FusionAssumption
<1>3. PICK s : s = Plus(Zero, i)
  OBVIOUS
<1>4. s.num \in Nat /\ s.den \in Nat \ {0}
  <2>1. CASE i = 0
    BY <1>3, <2>1 DEF Plus, Zero
  <2>2. CASE i # 0
    BY <1>2, <1>3, <2>2 DEF Plus, Zero
  <2> QED
    BY <2>1, <2>2
<1>5. CASE j = 0
  BY <1>3, <1>4, <1>5 DEF Fused, Plus
<1>6. CASE j # 0
  <2>1. PICK m \in Nat, n \in Nat \ {0}, k \in Nat \ {0} : m = s.num /\ n = s.den /\ k = RrfK + j
    BY <1>2, <1>4, <1>6
  <2>2. Fused(i, j) = [num |-> m * k + n, den |-> n * k]
    BY <1>3, <1>6, <2>1 DEF Fused, Plus
  <2>3. m * k + n \in Nat /\ n * k \in Nat \ {0}
    BY <1>1
  <2> QED
    BY <2>2, <2>3
<1> QED
  BY <1>5, <1>6

\* Before is a strict total order of what was found.
LEMMA BeforeIsOrder ==
  ASSUME NEW p \in Arms, NEW q \in Arms
  PROVE  /\ \A a \in Chunks : ~Before(p, q, a, a)
         /\ \A a, b, c \in Chunks : Before(p, q, a, b) /\ Before(p, q, b, c) => Before(p, q, a, c)
         /\ \A a, b \in Chunks : a = b \/ Before(p, q, a, b) \/ Before(p, q, b, a)
PROOF
<1> DEFINE num(id) == Score(p, q, id).num
           den(id) == Score(p, q, id).den
<1>1. ASSUME NEW id PROVE num(id) \in Nat /\ den(id) \in Nat \ {0}
  <2>1. Rank(p, id) \in Nat /\ Rank(q, id) \in Nat
    BY RankIs, FusionAssumption
  <2> QED
    BY <2>1, FusedIsFraction DEF Score
<1>2. \A a, b : Before(p, q, a, b) <=> \/ num(a) * den(b) > num(b) * den(a)
                                       \/ ~(num(b) * den(a) > num(a) * den(b)) /\ a < b
  BY DEF Before, Higher
<1>3. \A a \in Chunks : a \in Nat
  BY SearchAssumption
<1> HIDE DEF num, den
<1>4. \A a, b : num(a) * den(b) \in Nat
  BY <1>1
<1>5. \A a \in Chunks : ~Before(p, q, a, a)
  BY <1>2, <1>3, <1>4
<1>6. \A a, b \in Chunks : a = b \/ Before(p, q, a, b) \/ Before(p, q, b, a)
  BY <1>2, <1>3, <1>4
<1>7. ASSUME NEW a \in Chunks, NEW b \in Chunks, NEW c \in Chunks,
             Before(p, q, a, b), Before(p, q, b, c)
      PROVE  Before(p, q, a, c)
  <2>1. PICK x, y, z \in Nat, d, e, f \in Nat \ {0} :
          x = num(a) /\ y = num(b) /\ z = num(c) /\ d = den(a) /\ e = den(b) /\ f = den(c)
    BY <1>1
  <2>2. /\ x * e > y * d /\ y * f >= z * e => x * f > z * d
        /\ x * e >= y * d /\ y * f > z * e => x * f > z * d
        /\ x * e >= y * d /\ y * f >= z * e => x * f >= z * d
    BY FractionsCompose
  <2>3. PICK xe, yd, yf, ze, xf, zd \in Nat :
          /\ xe = x * e /\ yd = y * d /\ yf = y * f /\ ze = z * e /\ xf = x * f /\ zd = z * d
    OBVIOUS
  <2>4. xe > yd \/ (~(yd > xe) /\ a < b)
    BY <1>2, <1>7, <2>1, <2>3
  <2>5. yf > ze \/ (~(ze > yf) /\ b < c)
    BY <1>2, <1>7, <2>1, <2>3
  <2>6. xf > zd \/ (~(zd > xf) /\ a < c)
    BY <1>3, <2>2, <2>3, <2>4, <2>5
  <2> QED
    BY <1>2, <2>1, <2>3, <2>6
<1> QED
  BY <1>5, <1>6, <1>7

\* 1/a + 1/b > 1/c when a and b are less than twice c.
LEMMA TwoReciprocals ==
  ASSUME NEW a \in Nat \ {0}, NEW b \in Nat \ {0}, NEW c \in Nat \ {0}, a < 2 * c, b < 2 * c
  PROVE  (a + b) * c > a * b
  <1>1. a * b < 2 * c * b
    BY Z3
  <1>2. a * b < 2 * c * a
    BY Z3
  <1>3. 2 * (a * b) < 2 * ((a + b) * c)
    BY <1>1, <1>2, Z3
  <1> QED
    BY <1>3, Z3

\* A chunk that both arms found, at whatever ranks, scores higher than one that a
\* single arm found, at whatever rank: what FusionAssumption is for (RRF_K and
\* ARM_LIMIT of fuse).
THEOREM BothOutrankOne ==
  ASSUME NEW i \in 1..ArmLimit, NEW j \in 1..ArmLimit, NEW r \in 1..ArmLimit
  PROVE  Higher(Fused(i, j), Fused(r, 0)) /\ Higher(Fused(i, j), Fused(0, r))
  <1> DEFINE a == RrfK + i
             b == RrfK + j
             c == RrfK + r
  <1>1. /\ a \in Nat \ {0} /\ b \in Nat \ {0} /\ c \in Nat \ {0}
        /\ a < 2 * c /\ b < 2 * c
    BY FusionAssumption
  <1>2. (a + b) * c > a * b
    BY <1>1, TwoReciprocals
  <1> QED
    BY <1>1, <1>2 DEF Higher, Fused, Plus, Zero


\* What fuse lists before it is cut off: everything found, once, in order.
Listing(p, q, n, full) ==
  /\ full \in [1..n -> ToSet(p) \cup ToSet(q)]
  /\ n = Cardinality(ToSet(p) \cup ToSet(q))
  /\ \A i, j \in 1..n : i < j => Before(p, q, full[i], full[j])
  /\ \A i, j \in 1..n : i # j => full[i] # full[j]
  /\ \A id \in ToSet(p) \cup ToSet(q) : \E i \in 1..n : full[i] = id

\* As much of it as there is room for.
Beginning(full, k, n) == [i \in 1..(IF k < n THEN k ELSE n) |-> full[i]]

\* fuse lists everything found, in the order of Before, and cuts it off.
LEMMA FuseIsSorted ==
  ASSUME NEW p \in Arms, NEW q \in Arms, NEW k \in Nat
  PROVE  \E n \in Nat : \E full :
           /\ Listing(p, q, n, full)
           /\ Fuse(p, q, k) = Beginning(full, k, n)
PROOF
<1> DEFINE all == ToSet(p) \cup ToSet(q)
           R == {e \in all \X all : Before(p, q, e[1], e[2])}
           sorted(ids) == \A i, j \in DOMAIN ids : i < j => Before(p, q, ids[i], ids[j])
           ids == CHOOSE s \in SetToSeqs(all) : sorted(s)
<1>1. all \subseteq Chunks /\ IsFiniteSet(all)
  <2>1. all \subseteq Chunks
    BY ArmsList
  <2> HIDE DEF all
  <2> QED
    BY <2>1, SearchAssumption, FS_Subset
<1>2. PICK n \in Nat : n = Cardinality(all)
  BY <1>1, FS_CardinalityType
<1>3. \A a, b \in all : <<a, b>> \in R <=> Before(p, q, a, b)
  OBVIOUS
<1>4. \E s \in SetToSeqs(all) : \A i, j \in DOMAIN s : i < j => <<s[i], s[j]>> \in R
  <2>1. /\ \A x \in all : <<x, x>> \notin R
        /\ \A x, y, z \in all : <<x, y>> \in R /\ <<y, z>> \in R => <<x, z>> \in R
        /\ \A x, y \in all : x = y \/ <<x, y>> \in R \/ <<y, x>> \in R
    <3> HIDE DEF R, all
    <3>1. \A x \in all : x \in Chunks
      BY <1>1
    <3> QED
      BY <1>3, <3>1, BeforeIsOrder
  <2> HIDE DEF R, all
  <2> QED
    BY <1>1, <2>1, SortedListing
<1>5. ids \in SetToSeqs(all) /\ sorted(ids)
  <2>1. PICK s \in SetToSeqs(all) : \A i, j \in DOMAIN s : i < j => <<s[i], s[j]>> \in R
    BY <1>4
  <2>2. s \in [1..n -> all]
    BY <1>2 DEF SetToSeqs
  <2>3. sorted(s)
    <3> HIDE DEF R, all
    <3> QED
      BY <1>3, <2>1, <2>2
  <2> HIDE DEF sorted, all
  <2> QED
    BY <2>3
<1>6. ids \in [1..n -> all] /\ \A i, j \in 1..n : i # j => ids[i] # ids[j]
  <2> HIDE DEF ids
  <2> QED
    BY <1>2, <1>5 DEF SetToSeqs
<1>7. Fuse(p, q, k) = SubSeq(ids, 1, IF k < Len(ids) THEN k ELSE Len(ids))
  BY DEF Fuse, Before, Score
<1>8. \A id \in all : \E i \in 1..n : ids[i] = id
  <2> HIDE DEF ids, all
  <2>1. Cardinality(1..n) = n /\ IsFiniteSet(1..n)
    BY FS_Interval
  <2>2. ids \in Injection(1..n, all)
    BY <1>6, Zenon DEF Injection, IsInjective
  <2>3. ids \in Surjection(1..n, all)
    BY <1>1, <1>2, <2>1, <2>2, FS_Injection
  <2> QED
    BY <2>3 DEF Surjection
<1>9. sorted(ids)
  BY <1>5
<1> HIDE DEF ids
<1>10. \A i, j \in 1..n : i < j => Before(p, q, ids[i], ids[j])
  BY <1>6, <1>9
<1>11. Fuse(p, q, k) = [i \in 1..(IF k < n THEN k ELSE n) |-> ids[i]]
  <2> HIDE DEF all
  <2>1. Len(ids) = n
    BY <1>6
  <2>2. PICK m \in 0..n : m = IF k < n THEN k ELSE n
    OBVIOUS
  <2>3. Fuse(p, q, k) = SubSeq(ids, 1, m)
    BY <1>7, <2>1, <2>2
  <2>4. SubSeq(ids, 1, m) = [i \in 1..m |-> ids[i]]
    BY <1>6
  <2> QED
    BY <2>2, <2>3, <2>4
<1>12. Listing(p, q, n, ids)
  BY <1>2, <1>6, <1>8, <1>10 DEF Listing
<1> QED
  BY <1>11, <1>12 DEF Beginning

\* A chunk of both arms is before one of a single arm.
LEMMA BothBefore ==
  ASSUME NEW p \in Arms, NEW q \in Arms, NEW a \in ToSet(p) \cap ToSet(q),
         NEW b \in ToSet(p) \cup ToSet(q), b \notin ToSet(p) \cap ToSet(q)
  PROVE  Before(p, q, a, b)
PROOF
<1>1. Rank(p, a) \in 1..ArmLimit /\ Rank(q, a) \in 1..ArmLimit
  BY RankIs
<1>2. \/ Rank(p, b) \in 1..ArmLimit /\ Rank(q, b) = 0
      \/ Rank(p, b) = 0 /\ Rank(q, b) \in 1..ArmLimit
  BY RankIs
<1> QED
  BY <1>1, <1>2, BothOutrankOne DEF Before, Score

\* Of what one arm alone has, the arm's order is kept.
LEMMA ArmOrderKept ==
  ASSUME NEW p \in Arms, NEW q \in Arms, NEW arm \in {p, q},
         NEW r \in DOMAIN arm, NEW s \in DOMAIN arm, r < s,
         {arm[r], arm[s]} \cap (ToSet(p) \cap ToSet(q)) = {}
  PROVE  Before(p, q, arm[r], arm[s])
PROOF
<1>1. arm[r] \in ToSet(arm) /\ arm[s] \in ToSet(arm)
  BY DEF ToSet
<1>2. Rank(arm, arm[r]) = r /\ Rank(arm, arm[s]) = s /\ r \in 1..ArmLimit /\ s \in 1..ArmLimit
  BY RankIs
<1>3. PICK a, b \in Nat \ {0} : a = RrfK + r /\ b = RrfK + s /\ a < b
  <2>1. RrfK + r \in Nat \ {0} /\ RrfK + s \in Nat \ {0} /\ RrfK + r < RrfK + s
    BY <1>2, FusionAssumption
  <2> QED
    BY <2>1
<1>4. /\ \A i \in {0} : Higher(Fused(r, i), Fused(s, i))
      /\ \A i \in {0} : Higher(Fused(i, r), Fused(i, s))
  BY <1>2, <1>3 DEF Higher, Fused, Plus, Zero
<1>5. CASE arm = p
  <2>1. arm[r] \notin ToSet(q) /\ arm[s] \notin ToSet(q)
    BY <1>1, <1>5
  <2>2. Rank(q, arm[r]) = 0 /\ Rank(q, arm[s]) = 0
    BY <2>1, RankIs
  <2> QED
    BY <1>2, <1>4, <1>5, <2>2 DEF Before, Score
<1>6. CASE arm = q
  <2>1. arm[r] \notin ToSet(p) /\ arm[s] \notin ToSet(p)
    BY <1>1, <1>6
  <2>2. Rank(p, arm[r]) = 0 /\ Rank(p, arm[s]) = 0
    BY <2>1, RankIs
  <2> QED
    BY <1>2, <1>4, <1>6, <2>2 DEF Before, Score
<1> QED
  BY <1>5, <1>6

\* What search returns is what BothArmsFirst says of it.
\* What BothArmsFirst says of a list.
RightlyFused(p, q, ids) ==
  /\ Cardinality(ToSet(ids)) = Len(ids)
  /\ Len(ids) = Min({TopK, Cardinality(ToSet(p) \cup ToSet(q))})
  /\ \E n \in 0..Len(ids) :
       /\ ToSet(SubSeq(ids, 1, n)) \subseteq ToSet(p) \cap ToSet(q)
       /\ n < Len(ids) => ToSet(SubSeq(ids, 1, n)) = ToSet(p) \cap ToSet(q)
  /\ \A arm \in {p, q} : \A r, s \in DOMAIN arm : \A j \in DOMAIN ids :
       r < s /\ {arm[r], arm[s]} \cap (ToSet(p) \cap ToSet(q)) = {} /\ ids[j] = arm[s] =>
         \E i \in 1..(j - 1) : ids[i] = arm[r]

\* What fuse answers of two arms is what BothArmsFirst asks for.
LEMMA FuseIsRight ==
  ASSUME NEW p \in Arms, NEW q \in Arms, NEW ids, ids = Fuse(p, q, TopK)
  PROVE  RightlyFused(p, q, ids)
PROOF
<1>0. PICK both : both = ToSet(p) \cap ToSet(q)
  OBVIOUS
<1>1. PICK all : all = ToSet(p) \cup ToSet(q) /\ both \subseteq all
  BY <1>0
<1>2. all \subseteq Chunks
  BY <1>1, ArmsList
<1>3. TopK \in Nat
  BY SearchAssumption
<1>16. PICK n \in Nat : \E full :
        /\ Listing(p, q, n, full)
        /\ ids = Beginning(full, TopK, n)
  BY <1>3, FuseIsSorted
<1>19. PICK full : Listing(p, q, n, full) /\ ids = Beginning(full, TopK, n)
  BY <1>16
<1>4. /\ full \in [1..n -> all] /\ n = Cardinality(all)
      /\ \A i, j \in 1..n : i < j => Before(p, q, full[i], full[j])
      /\ \A i, j \in 1..n : i # j => full[i] # full[j]
      /\ \A id \in all : \E i \in 1..n : full[i] = id
      /\ ids = [i \in 1..(IF TopK < n THEN TopK ELSE n) |-> full[i]]
  BY <1>1, <1>19 DEF Listing, Beginning
<1>5. PICK m \in 0..n : m = (IF TopK < n THEN TopK ELSE n)
  BY <1>3
<1>6. /\ ids \in [1..m -> all] /\ ids \in Seq(all) /\ Len(ids) = m
      /\ \A i \in 1..m : ids[i] = full[i]
  BY <1>4, <1>5
<1>7. \A a, b \in all : ~(Before(p, q, a, b) /\ Before(p, q, b, a))
  BY <1>2, BeforeIsOrder
<1>8. Cardinality(ToSet(ids)) = Len(ids)
  <2>1. m \in Nat
    OBVIOUS
  <2>2. ids \in [1..m -> all]
    BY <1>6
  <2>3. \A i, j \in 1..m : i # j => ids[i] # ids[j]
    BY <1>4, <1>6
  <2>4. Cardinality(ToSet(ids)) = m
    BY <2>1, <2>2, <2>3, ListCardinality, Zenon
  <2> QED
    BY <1>6, <2>4
<1>9. Len(ids) = Min({TopK, Cardinality(all)})
  <2>1. {TopK, n} \in SUBSET Nat /\ {TopK, n} # {}
    BY <1>3
  <2>2. Min({TopK, n}) \in {TopK, n} /\ \A y \in {TopK, n} : Min({TopK, n}) <= y
    BY <2>1, MinIsLeast
  <2> QED
    BY <1>3, <1>4, <1>5, <1>6, <2>2
<1>10. ASSUME NEW i \in 1..n, NEW j \in 1..n, i < j, full[j] \in both PROVE full[i] \in both
  <2> SUFFICES ASSUME full[i] \notin both PROVE FALSE
    OBVIOUS
  <2>1. full[i] \in all /\ full[j] \in all
    BY <1>4
  <2>2. Before(p, q, full[j], full[i])
    BY <1>0, <1>1, <1>10, <2>1, BothBefore
  <2> QED
    BY <1>4, <1>7, <1>10, <2>1, <2>2
<1>11. \E l \in 0..m : /\ ToSet(SubSeq(ids, 1, l)) \subseteq both
                       /\ l < m => ToSet(SubSeq(ids, 1, l)) = both
  <2> DEFINE places == {i \in 1..m : full[i] \in both} \cup {0}
  <2>1. places \in SUBSET Nat /\ places # {} /\ m \in Nat /\ \A i \in places : i <= m
    OBVIOUS
  <2>2. PICK l \in places : \A i \in places : i <= l
    <3> HIDE DEF places
    <3> QED
      BY <2>1, Greatest
  <2>3. l \in 0..m
    OBVIOUS
  <2>4. ToSet(SubSeq(ids, 1, l)) = {full[i] : i \in 1..l}
    <3>1. SubSeq(ids, 1, l) = [i \in 1..l |-> full[i]]
      BY <1>6, <2>3
    <3> QED
      BY <3>1 DEF ToSet
  <2>5. ASSUME NEW i \in 1..l PROVE full[i] \in both
    <3>1. l \in 1..m /\ full[l] \in both /\ i \in 1..n /\ l \in 1..n
      BY <2>3
    <3> QED
      BY <1>10, <3>1
  <2>6. ASSUME l < m, NEW id \in both PROVE id \in {full[i] : i \in 1..l}
    <3>1. PICK i \in 1..n : full[i] = id
      BY <1>1, <1>4
    <3>2. CASE i <= m
      <4>1. i \in places
        BY <3>1, <3>2
      <4> QED
        BY <2>2, <2>3, <3>1, <4>1
    <3>3. CASE i > m
      <4>1. l + 1 \in 1..n /\ l + 1 \in 1..m /\ l + 1 < i
        BY <2>3, <2>6, <3>3
      <4>2. full[l + 1] \in both
        BY <1>10, <3>1, <4>1
      <4>3. l + 1 \in places
        BY <4>1, <4>2
      <4> QED
        BY <2>2, <2>3, <4>3
    <3> QED
      BY <3>2, <3>3
  <2> QED
    BY <2>3, <2>4, <2>5, <2>6
<1>12. ASSUME NEW arm \in {p, q}, NEW r \in DOMAIN arm, NEW s \in DOMAIN arm, NEW j \in DOMAIN ids,
              r < s, {arm[r], arm[s]} \cap both = {}, ids[j] = arm[s]
       PROVE  \E i \in 1..(j - 1) : ids[i] = arm[r]
  <2>0. arm \in Arms
    OBVIOUS
  <2>1. Before(p, q, arm[r], arm[s])
    BY <1>0, <1>12, ArmOrderKept
  <2>2. arm[r] \in all
    BY <1>1 DEF ToSet
  <2>3. PICK i \in 1..n : full[i] = arm[r]
    BY <1>4, <2>2
  <2>4. j \in 1..m /\ j \in 1..n /\ full[j] = arm[s]
    BY <1>6, <1>12
  <2>5. arm[s] \in all
    BY <1>6, <1>12
  <2>6. ~(j < i) /\ i # j
    BY <1>2, <1>4, <1>7, <2>1, <2>2, <2>3, <2>4, <2>5, BeforeIsOrder
  <2>7. i \in 1..(j - 1) /\ i \in 1..m
    BY <2>3, <2>4, <2>6
  <2> QED
    BY <1>6, <2>3, <2>7
<1>13. \A arm \in {p, q} : \A r, s \in DOMAIN arm : \A j \in DOMAIN ids :
          r < s /\ {arm[r], arm[s]} \cap both = {} /\ ids[j] = arm[s] =>
            \E i \in 1..(j - 1) : ids[i] = arm[r]
  <2> SUFFICES ASSUME NEW arm \in {p, q}, NEW r \in DOMAIN arm, NEW s \in DOMAIN arm,
                      NEW j \in DOMAIN ids,
                      r < s, {arm[r], arm[s]} \cap both = {}, ids[j] = arm[s]
               PROVE  \E i \in 1..(j - 1) : ids[i] = arm[r]
    OBVIOUS
  <2> QED
    BY <1>12
<1>14. Len(ids) = Min({TopK, Cardinality(ToSet(p) \cup ToSet(q))})
  BY <1>1, <1>9, Zenon
<1>15. Len(ids) = m
  BY <1>6
<1>17. \E l \in 0..Len(ids) :
          /\ ToSet(SubSeq(ids, 1, l)) \subseteq ToSet(p) \cap ToSet(q)
          /\ l < Len(ids) => ToSet(SubSeq(ids, 1, l)) = ToSet(p) \cap ToSet(q)
  BY <1>0, <1>11, <1>15
<1>18. \A arm \in {p, q} : \A r, s \in DOMAIN arm : \A j \in DOMAIN ids :
          r < s /\ {arm[r], arm[s]} \cap (ToSet(p) \cap ToSet(q)) = {} /\ ids[j] = arm[s] =>
            \E i \in 1..(j - 1) : ids[i] = arm[r]
  BY <1>0, <1>13
<1> QED
  BY <1>8, <1>14, <1>17, <1>18, Zenon DEF RightlyFused

-----------------------------------------------------------------------------
(* The calendar: months one behind the other.                              *)

LEMMA MonthLengthIs ==
  ASSUME NEW y \in Nat, NEW m \in 1..12
  PROVE  MonthLength(y, m) \in 28..31
PROOF
  BY DEF MonthLength

\* The numbers of days follow the calendar.
LEMMA NextDay ==
  ASSUME NEW y \in Nat \ {0}, NEW m \in 1..12, NEW d \in Int
  PROVE  /\ At(y, m, 1) \in Int /\ At(y, m, d) \in Int
         /\ At(y, m, d) = At(y, m, 1) + d - 1
PROOF
  BY DEF At

\* The first of a month is the day after the last of the month before.
LEMMA NextMonth ==
  ASSUME NEW y \in Nat \ {0}, NEW m \in 1..11
  PROVE  At(y, m + 1, 1) = At(y, m, 1) + MonthLength(y, m)
PROOF
  BY DEF At, MonthLength

\* A year begins the day after the last of the year before.
LEMMA NextYear ==
  ASSUME NEW y \in Nat \ {0}
  PROVE  At(y + 1, 1, 1) = At(y, 12, 1) + MonthLength(y, 12)
PROOF
<1>1. /\ y \div 4 = (y - 1) \div 4 + (IF y % 4 = 0 THEN 1 ELSE 0)
      /\ y \div 100 = (y - 1) \div 100 + (IF y % 100 = 0 THEN 1 ELSE 0)
      /\ y \div 400 = (y - 1) \div 400 + (IF y % 400 = 0 THEN 1 ELSE 0)
  OBVIOUS
<1>2. (y % 400 = 0 => y % 100 = 0) /\ (y % 100 = 0 => y % 4 = 0)
  OBVIOUS
<1>3. At(y + 1, 1, 1) = 365 * (y + 1) + y \div 4 - y \div 100 + y \div 400 + 1
  BY DEF At
<1>4. At(y, 12, 1) = 365 * y + (y - 1) \div 4 - (y - 1) \div 100 + (y - 1) \div 400 + 334
                       + (IF IsLeap(y) THEN 1 ELSE 0) + 1
  BY DEF At
<1>5. IsLeap(y) <=> y % 4 = 0 /\ (y % 100 # 0 \/ y % 400 = 0)
  BY DEF IsLeap
<1>6. MonthLength(y, 12) = 31
  BY DEF MonthLength
<1> QED
  BY <1>1, <1>2, <1>3, <1>4, <1>5, <1>6

\* Months are counted from the beginning of the years.
First(k) == At(k \div 12, (k % 12) + 1, 1)
LengthOf(k) == MonthLength(k \div 12, (k % 12) + 1)

\* The firsts of the months, counted from year 0, follow each other.
LEMMA MonthsFollow ==
  ASSUME NEW k \in Nat, k >= 12
  PROVE  /\ First(k) \in Int /\ LengthOf(k) \in 28..31
         /\ First(k + 1) = First(k) + LengthOf(k)
PROOF
<1>1. PICK y \in Nat \ {0}, m \in 1..12 : k = 12 * y + (m - 1) /\ k \div 12 = y /\ k % 12 = m - 1
  <2>1. k \div 12 \in Nat \ {0} /\ (k % 12) + 1 \in 1..12 /\ k = 12 * (k \div 12) + (k % 12)
    OBVIOUS
  <2> QED
    BY <2>1
<1>2. First(k) = At(y, m, 1) /\ LengthOf(k) = MonthLength(y, m)
  BY <1>1 DEF First, LengthOf
<1>3. First(k) \in Int /\ LengthOf(k) \in 28..31
  <2>1. 1 \in Int /\ y \in Nat
    OBVIOUS
  <2>2. At(y, m, 1) \in Int /\ MonthLength(y, m) \in 28..31
    BY <2>1, NextDay, MonthLengthIs
  <2> QED
    BY <1>2, <2>2
<1>4. CASE m = 12
  <2>1. (k + 1) \div 12 = y + 1 /\ (k + 1) % 12 = 0
    BY <1>1, <1>4
  <2>2. First(k + 1) = At(y + 1, 1, 1)
    BY <2>1 DEF First
  <2> QED
    BY <1>2, <1>3, <1>4, <2>2, NextYear
<1>5. CASE m # 12
  <2>1. (k + 1) \div 12 = y /\ (k + 1) % 12 = m
    BY <1>1, <1>5
  <2>2. First(k + 1) = At(y, m + 1, 1) /\ m \in 1..11
    BY <1>5, <2>1 DEF First
  <2> QED
    BY <1>2, <1>3, <2>2, NextMonth
<1> QED
  BY <1>3, <1>4, <1>5

\* A later month begins after every day of an earlier one.
LEMMA LaterMonth ==
  ASSUME NEW k \in Nat, k >= 12, NEW l \in Nat, k < l
  PROVE  First(k) + LengthOf(k) <= First(l)
PROOF
<1> DEFINE bad == {n \in Nat : k < n /\ ~(First(k) + LengthOf(k) <= First(n))}
<1>1. bad = {}
  <2> SUFFICES ASSUME bad # {} PROVE FALSE
    OBVIOUS
  <2>1. PICK n \in bad : \A o \in bad : n <= o
    <3>1. bad \in SUBSET Nat
      OBVIOUS
    <3> HIDE DEF bad
    <3> QED
      BY <3>1, Least
  <2>2. First(k + 1) = First(k) + LengthOf(k) /\ First(k) \in Int /\ LengthOf(k) \in Nat
    BY MonthsFollow
  <2>3. n # k + 1
    BY <2>2
  <2>4. n - 1 \in Nat /\ n - 1 >= 12 /\ k < n - 1 /\ n - 1 \notin bad
    BY <2>1, <2>3
  <2>5. First(k) + LengthOf(k) <= First(n - 1)
    BY <2>4
  <2>6. First(n - 1) \in Int /\ LengthOf(n - 1) \in 28..31 /\ First((n - 1) + 1) = First(n - 1) + LengthOf(n - 1)
    BY <2>4, MonthsFollow
  <2>7. (n - 1) + 1 = n
    OBVIOUS
  <2> QED
    BY <2>2, <2>5, <2>6, <2>7
<1> QED
  BY <1>1

\* Dates are in the order of their years, months and days.
LEMMA DatesInOrder ==
  ASSUME NEW y \in Nat \ {0}, NEW m \in 1..12, NEW d \in 1..MonthLength(y, m),
         NEW z \in Nat \ {0}, NEW o \in 1..12, NEW e \in 1..MonthLength(z, o)
  PROVE  /\ At(y, m, d) \in Int /\ At(z, o, e) \in Int
         /\ At(y, m, d) <= At(z, o, e) <=> \/ 12 * y + m < 12 * z + o
                                           \/ 12 * y + m = 12 * z + o /\ d <= e
PROOF
<1>1. PICK k, l \in Nat : k = 12 * y + (m - 1) /\ l = 12 * z + (o - 1) /\ k >= 12 /\ l >= 12
  <2>1. 12 * y + (m - 1) \in Nat /\ 12 * z + (o - 1) \in Nat /\ 12 * y + (m - 1) >= 12 /\ 12 * z + (o - 1) >= 12
    OBVIOUS
  <2> QED
    BY <2>1
<1>2. k \div 12 = y /\ k % 12 = m - 1 /\ l \div 12 = z /\ l % 12 = o - 1
  BY <1>1
<1>3. /\ First(k) = At(y, m, 1) /\ LengthOf(k) = MonthLength(y, m)
      /\ First(l) = At(z, o, 1) /\ LengthOf(l) = MonthLength(z, o)
  BY <1>2 DEF First, LengthOf
<1>4. MonthLength(y, m) \in Nat /\ MonthLength(z, o) \in Nat /\ d \in Nat /\ e \in Nat
  BY MonthLengthIs
<1>5. /\ First(k) \in Int /\ At(y, m, d) = First(k) + d - 1 /\ d >= 1 /\ d <= LengthOf(k)
      /\ First(l) \in Int /\ At(z, o, e) = First(l) + e - 1 /\ e >= 1 /\ e <= LengthOf(l)
      /\ LengthOf(k) \in Nat /\ LengthOf(l) \in Nat
  <2>1. /\ At(y, m, 1) \in Int /\ At(y, m, d) = At(y, m, 1) + d - 1
        /\ At(z, o, 1) \in Int /\ At(z, o, e) = At(z, o, 1) + e - 1
    <3>1. d \in Int /\ e \in Int
      BY <1>4
    <3> QED
      BY <3>1, NextDay
  <2> QED
    BY <1>3, <1>4, <2>1
<1>6. /\ k < l => First(k) + LengthOf(k) <= First(l)
      /\ l < k => First(l) + LengthOf(l) <= First(k)
  BY <1>1, LaterMonth
<1>7. (k < l <=> 12 * y + m < 12 * z + o) /\ (k = l <=> 12 * y + m = 12 * z + o)
  BY <1>1
<1>8. PICK fk, fl \in Int, nk, nl \in Nat :
        fk = First(k) /\ fl = First(l) /\ nk = LengthOf(k) /\ nl = LengthOf(l)
  BY <1>5
<1>9. fk + d - 1 <= fl + e - 1 <=> k < l \/ (k = l /\ d <= e)
  BY <1>4, <1>5, <1>6, <1>8
<1> QED
  BY <1>4, <1>5, <1>7, <1>8, <1>9

-----------------------------------------------------------------------------
(* A moment and its date.                                                  *)

Date(n, y, m, d) ==
  /\ y \in MinYear..MaxYear /\ m \in 1..12 /\ d \in 1..MonthLength(y, m)
  /\ n = At(y, m, d)

\* A day number gives back its year, month and day.
LEMMA DateOf ==
  ASSUME NEW n, NEW y, NEW m, NEW d, Date(n, y, m, d)
  PROVE  /\ Year(n) = y /\ Month(n) = m /\ Day(n) = d
         /\ y \in Nat \ {0} /\ m \in 1..12 /\ d \in 1..31 /\ n \in Int
PROOF
<1>1. MinYear \in Nat \ {0} /\ MaxYear \in Nat \ {0} /\ MinYear <= MaxYear
  BY YearsAssumption
<1>2. /\ y \in MinYear..MaxYear /\ y \in Nat \ {0} /\ m \in 1..12
      /\ d \in 1..MonthLength(y, m) /\ n = At(y, m, d)
  BY <1>1 DEF Date
<1>3. \A z \in Nat \ {0} : \A o \in 1..12 : MonthLength(z, o) \in 28..31 /\ 1 \in 1..MonthLength(z, o)
  BY MonthLengthIs
<1>4. d \in 1..31 /\ n \in Int
  <2>1. MonthLength(y, m) \in 28..31
    BY <1>2, <1>3
  <2>2. d \in 1..31 /\ d \in Int
    BY <1>2, <2>1
  <2>3. At(y, m, d) \in Int
    BY <1>2, <2>2, NextDay
  <2> QED
    BY <1>2, <2>2, <2>3
<1>5. \A z \in Nat \ {0} : \A o \in 1..12 : At(z, o, 1) <= n <=> 12 * z + o <= 12 * y + m
  <2> SUFFICES ASSUME NEW z \in Nat \ {0}, NEW o \in 1..12
               PROVE  At(z, o, 1) <= n <=> 12 * z + o <= 12 * y + m
    OBVIOUS
  <2>1. 1 \in 1..MonthLength(z, o)
    BY <1>3
  <2>2. At(z, o, 1) <= At(y, m, d) <=> \/ 12 * z + o < 12 * y + m
                                       \/ 12 * z + o = 12 * y + m /\ 1 <= d
    BY <1>2, <2>1, DatesInOrder
  <2> QED
    BY <1>2, <1>4, <2>2
<1>6. Year(n) = y
  <2> DEFINE S == {z \in MinYear..MaxYear : At(z, 1, 1) <= n}
  <2>1. \A z \in MinYear..MaxYear : z \in Nat \ {0} /\ (At(z, 1, 1) <= n <=> z <= y)
    BY <1>1, <1>2, <1>5
  <2>2. S \in SUBSET Nat /\ y \in S /\ \A z \in S : z <= y
    BY <1>2, <2>1
  <2> HIDE DEF S
  <2>3. Max(S) = y
    BY <2>2, MaxIs
  <2> QED
    BY <2>3 DEF Year, S
<1>7. Month(n) = m
  <2> DEFINE S == {o \in 1..12 : At(y, o, 1) <= n}
  <2>1. \A o \in 1..12 : At(y, o, 1) <= n <=> o <= m
    BY <1>2, <1>5
  <2>2. S \in SUBSET Nat /\ m \in S /\ \A o \in S : o <= m
    BY <1>2, <2>1
  <2> HIDE DEF S
  <2>3. Max(S) = m
    BY <2>2, MaxIs
  <2> QED
    BY <1>6, <2>3 DEF Month, S
<1>8. Day(n) = d
  <2>1. At(y, m, d) = At(y, m, 1) + d - 1 /\ At(y, m, 1) \in Int
    <3>1. d \in Int
      BY <1>4
    <3> QED
      BY <1>2, <3>1, NextDay
  <2> QED
    BY <1>2, <1>4, <1>6, <1>7, <2>1 DEF Day
<1> QED
  BY <1>2, <1>4, <1>6, <1>7, <1>8

-----------------------------------------------------------------------------
(* A window and the period it was asked for.                               *)

\* Date is IsDate and At.
LEMMA DateIsDate ==
  ASSUME NEW n, NEW y, NEW m, NEW d
  PROVE  Date(n, y, m, d) <=> IsDate(y, m, d) /\ n = At(y, m, d)
PROOF
  BY DEF Date, IsDate

\* Every moment is a date of the calendar.
LEMMA MomentHasDate ==
  ASSUME NEW n, IsMoment(n)
  PROVE  \E y, m, d : Date(n, y, m, d)
PROOF
  BY DEF IsMoment, Date

\* Two dates, compared.
LEMMA DatesCompared ==
  ASSUME NEW n, NEW y, NEW m, NEW d, Date(n, y, m, d),
         NEW k, NEW z, NEW o, NEW e, Date(k, z, o, e)
  PROVE  /\ n \in Int /\ k \in Int
         /\ y \in Nat /\ m \in 1..12 /\ d \in 1..31 /\ z \in Nat /\ o \in 1..12 /\ e \in 1..31
         /\ n <= k <=> 12 * y + m < 12 * z + o \/ (12 * y + m = 12 * z + o /\ d <= e)
PROOF
<1>1. /\ y \in Nat \ {0} /\ m \in 1..12 /\ d \in 1..MonthLength(y, m) /\ n = At(y, m, d)
      /\ z \in Nat \ {0} /\ o \in 1..12 /\ e \in 1..MonthLength(z, o) /\ k = At(z, o, e)
  BY YearsAssumption DEF Date
<1>2. d \in 1..31 /\ e \in 1..31 /\ n \in Int /\ k \in Int
  BY DateOf
<1>3. At(y, m, d) <= At(z, o, e) <=> \/ 12 * y + m < 12 * z + o
                                     \/ 12 * y + m = 12 * z + o /\ d <= e
  BY <1>1, DatesInOrder
<1> QED
  BY <1>1, <1>2, <1>3

\* NoLater is the order of the days.
LEMMA NoLaterIs ==
  ASSUME NEW n, NEW y, NEW m, NEW d, Date(n, y, m, d),
         NEW k, NEW z, NEW o, NEW e, Date(k, z, o, e),
         NEW a, a[1] = y, a[2] = m, a[3] = d, NEW b, b[1] = z, b[2] = o, b[3] = e
  PROVE  NoLater(a, b) <=> n <= k
PROOF
<1>1. /\ y \in Nat /\ m \in 1..12 /\ d \in 1..31 /\ z \in Nat /\ o \in 1..12 /\ e \in 1..31
      /\ n <= k <=> 12 * y + m < 12 * z + o \/ (12 * y + m = 12 * z + o /\ d <= e)
  BY DatesCompared
<1>2. NoLater(a, b) <=> 10000 * y + 100 * m + d <= 10000 * z + 100 * o + e
  BY DEF NoLater
<1>3. 10000 * y + 100 * m + d <= 10000 * z + 100 * o + e
        <=> 12 * y + m < 12 * z + o \/ (12 * y + m = 12 * z + o /\ d <= e)
  <2>1. y < z \/ y = z \/ y > z
    BY <1>1
  <2> QED
    BY <1>1, <2>1
<1> QED
  BY <1>1, <1>2, <1>3

\* The first of a month, and so many months on.
LEMMA MonthsIsPeriod ==
  ASSUME NEW year \in Nat, NEW month \in Nat, NEW count \in 1..12, NEW now \in Int,
         NEW w, w = Months(year, month, count, now), w.kind = "window",
         NEW n, NEW y, NEW m, NEW d, Date(n, y, m, d)
  PROVE  /\ month \in 1..12
         /\ w.since <= n /\ n < w.until <=>
              n < now /\ 12 * year + month <= 12 * y + m /\ 12 * y + m < 12 * year + month + count
PROOF
<1> DEFINE z0 == year + (month + count - 1) \div 12
           o0 == ((month + count - 1) % 12) + 1
<1>0. PICK z \in Nat, o \in 1..12 : z = z0 /\ o = o0 /\ 12 * z + o = 12 * year + month + count
  <2>1. z0 \in Nat /\ o0 \in 1..12 /\ 12 * z0 + o0 = 12 * year + month + count
    OBVIOUS
  <2> HIDE DEF z0, o0
  <2> QED
    BY <2>1
<1>1. /\ IsDate(year, month, 1) /\ IsDate(z, o, 1)
      /\ w = Capped(At(year, month, 1), At(z, o, 1), now)
  BY <1>0 DEF Months, Failure
<1>2. PICK since, until : since = At(year, month, 1) /\ until = At(z, o, 1)
  OBVIOUS
<1>3. Date(since, year, month, 1) /\ Date(until, z, o, 1)
  BY <1>1, <1>2, DateIsDate
<1>4. /\ since \in Int /\ until \in Int /\ n \in Int /\ month \in 1..12 /\ y \in Nat /\ m \in 1..12
      /\ d \in 1..31
      /\ since <= n <=> 12 * year + month < 12 * y + m \/ (12 * year + month = 12 * y + m /\ 1 <= d)
      /\ until <= n <=> 12 * z + o < 12 * y + m \/ (12 * z + o = 12 * y + m /\ 1 <= d)
  BY <1>3, DatesCompared
<1>5. w.since = since /\ w.until = IF until < now THEN until ELSE now
  BY <1>1, <1>2 DEF Capped, Window
<1>6. since <= n <=> 12 * year + month <= 12 * y + m
  BY <1>4
<1>7. n < until <=> 12 * y + m < 12 * year + month + count
  BY <1>0, <1>4
<1>8. n < w.until <=> n < until /\ n < now
  BY <1>4, <1>5
<1> QED
  BY <1>4, <1>5, <1>6, <1>7, <1>8

\* So many months back.
LEMMA MinusMonthsIsPeriod ==
  ASSUME NEW count \in Nat \ {0},
         NEW now, NEW ay, NEW am, NEW ad, Date(now, ay, am, ad),
         NEW w, w = MinusMonths(now, count), w.kind = "window",
         NEW n, NEW y, NEW m, NEW d, Date(n, y, m, d)
  PROVE  w.since <= n /\ n < w.until <=> n < now /\ WithinMonths(n, now, count)
PROOF
<1>1. /\ Year(now) = ay /\ Month(now) = am /\ Day(now) = ad
      /\ ay \in Nat /\ am \in 1..12 /\ ad \in 1..31 /\ now \in Int
  BY DateOf
<1>2. /\ Year(n) = y /\ Month(n) = m /\ Day(n) = d
      /\ y \in Nat /\ m \in 1..12 /\ d \in 1..31 /\ n \in Int
  BY DateOf
<1> DEFINE total == am - 1 - count
           z0 == ay + total \div 12
           o0 == (total % 12) + 1
<1>3. PICK z \in Int, o \in 1..12 : z = z0 /\ o = o0 /\ 12 * z + o = 12 * ay + am - count /\ z <= ay
  <2>1. z0 \in Int /\ o0 \in 1..12 /\ 12 * z0 + o0 = 12 * ay + am - count /\ z0 <= ay
    BY <1>1
  <2> HIDE DEF z0, o0
  <2> QED
    BY <2>1
<1>4. PICK e : e = Min({ad, MonthLength(z, o)})
  OBVIOUS
<1>5. ~(z < MinYear) /\ w = Window(At(z, o, e), now)
  BY <1>1, <1>3, <1>4 DEF MinusMonths, Failure
<1>6. z \in MinYear..MaxYear /\ z \in Nat
  BY <1>1, <1>3, <1>5, YearsAssumption DEF Date
<1>7. MonthLength(z, o) \in 28..31
  BY <1>6, MonthLengthIs
<1>8. e \in {ad, MonthLength(z, o)} /\ e <= ad /\ e <= MonthLength(z, o)
  <2>1. {ad, MonthLength(z, o)} \in SUBSET Nat
    BY <1>1, <1>7
  <2> QED
    BY <1>4, <2>1, MinIsLeast
<1>9. PICK since : since = At(z, o, e)
  OBVIOUS
<1>10. Date(since, z, o, e)
  BY <1>1, <1>6, <1>7, <1>8, <1>9 DEF Date
<1>11. /\ since \in Int
       /\ since <= n <=> 12 * z + o < 12 * y + m \/ (12 * z + o = 12 * y + m /\ e <= d)
  BY <1>10, DatesCompared
<1>12. w.since = since /\ w.until = now
  BY <1>5, <1>9 DEF Window
<1>13. WithinMonths(n, now, count) <=>
         \/ 12 * y + m > 12 * ay + am - count
         \/ 12 * y + m = 12 * ay + am - count /\ (d >= ad \/ d = MonthLength(y, m))
  BY <1>1, <1>2 DEF WithinMonths
<1>14. ASSUME 12 * z + o = 12 * y + m PROVE e <= d <=> d >= ad \/ d = MonthLength(y, m)
  <2>1. z = y /\ o = m
    BY <1>2, <1>3, <1>6, <1>14
  <2>2. d \in 1..MonthLength(z, o)
    BY <2>1 DEF Date
  <2> QED
    BY <1>1, <1>2, <1>7, <1>8, <2>1, <2>2
<1> QED
  BY <1>1, <1>2, <1>3, <1>11, <1>12, <1>13, <1>14

\* For any expression of the grammar, any calendar range and any session date, a
\* window that resolve answers holds exactly the moments of the period that the
\* expression names, up to the session's date (windows.resolve, _minus_months).
THEOREM ResolveIsPeriod ==
  ASSUME NEW e, IsExpression(e), NEW now, IsMoment(now), NEW w, w = Resolve(e, now),
         w.kind = "window", NEW n, IsMoment(n)
  PROVE  /\ w.since <= n /\ n < w.until <=> n < now /\ InPeriod(e, now, n)
         /\ e.form \in {"last", "since", "range", "year", "month", "quarter", "half"}
         /\ e.form = "last" => e.count > 0
         /\ e.form = "month" => e.month \in 1..12
PROOF
<1>1. PICK y, m, d : Date(n, y, m, d)
  BY MomentHasDate
<1>2. PICK ay, am, ad : Date(now, ay, am, ad)
  BY MomentHasDate
<1>3. /\ Year(n) = y /\ Month(n) = m /\ Day(n) = d
      /\ y \in Nat /\ m \in 1..12 /\ d \in 1..31 /\ n \in Int
  BY <1>1, DateOf
<1>4. now \in Int
  BY <1>2, DateOf
<1>5. e.form \in {"last", "since", "range", "year", "month", "quarter", "half"}
  <2>1. Resolve(e, now) # Failure
    BY DEF Failure
  <2> QED
    BY <2>1 DEF Resolve
<1>6. CASE e.form = "last"
  <2>1. w = Past(e, now) /\ e.count \in Nat /\ e.unit \in {"day", "week", "month", "year"}
    BY <1>6 DEF Resolve, IsExpression
  <2>2. w # Failure /\ w # Raised
    BY DEF Failure, Raised
  <2>3. e.count \in Nat \ {0}
    BY <2>1, <2>2 DEF Past
  <2>4. ASSUME NEW k \in Nat, w = MinusDays(now, k)
        PROVE  w.since <= n /\ n < w.until <=> n < now /\ now - n <= k
    <3>1. w = Window(now - k, now)
      BY <2>2, <2>4 DEF MinusDays
    <3> QED
      BY <1>3, <1>4, <3>1 DEF Window
  <2>5. CASE e.unit = "day"
    <3>1. w = MinusDays(now, e.count)
      BY <2>1, <2>2, <2>5 DEF Past
    <3>2. InPeriod(e, now, n) <=> now - n <= e.count
      BY <1>6, <2>5 DEF InPeriod
    <3> QED
      BY <1>5, <1>6, <2>3, <2>4, <3>1, <3>2
  <2>6. CASE e.unit = "week"
    <3>1. w = MinusDays(now, 7 * e.count)
      BY <2>1, <2>2, <2>6 DEF Past
    <3>2. InPeriod(e, now, n) <=> now - n <= 7 * e.count
      BY <1>6, <2>6 DEF InPeriod
    <3>3. 7 * e.count \in Nat
      BY <2>3
    <3> QED
      BY <1>5, <1>6, <2>3, <2>4, <3>1, <3>2, <3>3
  <2>7. CASE e.unit = "month"
    <3>1. w = MinusMonths(now, e.count)
      BY <2>1, <2>2, <2>7 DEF Past
    <3>2. InPeriod(e, now, n) <=> WithinMonths(n, now, e.count)
      BY <1>6, <2>7 DEF InPeriod
    <3> QED
      BY <1>1, <1>2, <1>5, <1>6, <2>3, <3>1, <3>2, MinusMonthsIsPeriod
  <2>8. CASE e.unit = "year"
    <3>1. w = MinusMonths(now, 12 * e.count)
      BY <2>1, <2>2, <2>8 DEF Past
    <3>2. InPeriod(e, now, n) <=> WithinMonths(n, now, 12 * e.count)
      BY <1>6, <2>8 DEF InPeriod
    <3>3. 12 * e.count \in Nat \ {0}
      BY <2>3
    <3> QED
      BY <1>1, <1>2, <1>5, <1>6, <2>3, <3>1, <3>2, <3>3, MinusMonthsIsPeriod
  <2> QED
    BY <2>1, <2>5, <2>6, <2>7, <2>8
<1>7. CASE e.form = "since"
  <2>1. PICK k : k = At(e.from[1], e.from[2], e.from[3])
    OBVIOUS
  <2>2. IsDate(e.from[1], e.from[2], e.from[3]) /\ w = Window(k, now)
    BY <1>7, <2>1 DEF Resolve, Failure
  <2>3. Date(k, e.from[1], e.from[2], e.from[3])
    BY <2>1, <2>2, DateIsDate
  <2>4. NoLater(e.from, <<y, m, d>>) <=> k <= n
    BY <1>1, <2>3, NoLaterIs
  <2>5. InPeriod(e, now, n) <=> NoLater(e.from, <<y, m, d>>)
    BY <1>3, <1>7 DEF InPeriod
  <2> QED
    BY <1>5, <1>7, <2>2, <2>4, <2>5 DEF Window
<1>8. CASE e.form = "range"
  <2>1. PICK k, l : k = At(e.from[1], e.from[2], e.from[3]) /\ l = At(e.to[1], e.to[2], e.to[3])
    OBVIOUS
  <2>2. w = Between(e, now)
    BY <1>8 DEF Resolve
  <2>3. /\ IsDate(e.from[1], e.from[2], e.from[3]) /\ IsDate(e.to[1], e.to[2], e.to[3])
        /\ w = Capped(k, l, now)
    BY <2>1, <2>2 DEF Between, Failure
  <2>4. Date(k, e.from[1], e.from[2], e.from[3]) /\ Date(l, e.to[1], e.to[2], e.to[3])
    BY <2>1, <2>3, DateIsDate
  <2>5. (NoLater(e.from, <<y, m, d>>) <=> k <= n) /\ (NoLater(e.to, <<y, m, d>>) <=> l <= n)
    BY <1>1, <2>4, NoLaterIs
  <2>6. InPeriod(e, now, n) <=> NoLater(e.from, <<y, m, d>>) /\ ~NoLater(e.to, <<y, m, d>>)
    BY <1>3, <1>8 DEF InPeriod
  <2>7. k \in Int /\ l \in Int
    BY <2>4, DateOf
  <2>8. w.since = k /\ w.until = IF l < now THEN l ELSE now
    BY <2>3 DEF Capped, Window
  <2> QED
    BY <1>3, <1>4, <1>5, <1>8, <2>5, <2>6, <2>7, <2>8
<1>9. CASE e.form = "year"
  <2>1. w = Months(e.year, 1, 12, now) /\ e.year \in Nat
    BY <1>9 DEF Resolve, IsExpression
  <2>2. w.since <= n /\ n < w.until <=>
          n < now /\ 12 * e.year + 1 <= 12 * y + m /\ 12 * y + m < 12 * e.year + 1 + 12
    BY <1>1, <1>4, <2>1, MonthsIsPeriod
  <2>3. InPeriod(e, now, n) <=> y = e.year
    BY <1>3, <1>9 DEF InPeriod
  <2> QED
    BY <1>3, <1>9, <2>1, <2>2, <2>3
<1>10. CASE e.form = "month"
  <2>1. w = Months(e.year, e.month, 1, now) /\ e.year \in Nat /\ e.month \in Nat
    BY <1>10 DEF Resolve, IsExpression
  <2>2. /\ e.month \in 1..12
        /\ w.since <= n /\ n < w.until <=>
             n < now /\ 12 * e.year + e.month <= 12 * y + m /\ 12 * y + m < 12 * e.year + e.month + 1
    <3>1. PICK year \in Nat, month \in Nat, count \in 1..12 :
            year = e.year /\ month = e.month /\ count = 1
      BY <2>1
    <3> QED
      BY <1>1, <1>4, <2>1, <3>1, MonthsIsPeriod
  <2>3. InPeriod(e, now, n) <=> y = e.year /\ m = e.month
    BY <1>3, <1>10 DEF InPeriod
  <2> QED
    BY <1>3, <1>10, <2>1, <2>2, <2>3
<1>11. CASE e.form = "quarter"
  <2>1. PICK q \in 1..4, year \in Nat, first \in Nat, count \in 1..12 :
          q = e.quarter /\ year = e.year /\ first = 3 * (q - 1) + 1 /\ count = 3
    <3>1. e.quarter \in 1..4 /\ e.year \in Nat /\ 3 * (e.quarter - 1) + 1 \in Nat /\ 3 \in 1..12
      BY <1>11 DEF IsExpression
    <3> QED
      BY <3>1
  <2>2. w = Months(year, first, count, now)
    BY <1>11, <2>1 DEF Resolve
  <2>3. w.since <= n /\ n < w.until <=>
          n < now /\ 12 * year + first <= 12 * y + m /\ 12 * y + m < 12 * year + first + count
    BY <1>1, <1>4, <2>2, MonthsIsPeriod
  <2>4. InPeriod(e, now, n) <=> y = year /\ (m + 2) \div 3 = q
    BY <1>3, <1>11, <2>1 DEF InPeriod
  <2>5. (m + 2) \div 3 = q <=> first <= m /\ m < first + count
    <3>1. \A x \in 1..12, k \in 1..4 :
            (x + 2) \div 3 = k <=> 3 * (k - 1) + 1 <= x /\ x < 3 * (k - 1) + 1 + 3
      OBVIOUS
    <3> QED
      BY <1>3, <2>1, <3>1
  <2>6. first + count <= 13 /\ first >= 1
    BY <2>1
  <2>7. /\ 12 * year + first <= 12 * y + m /\ 12 * y + m < 12 * year + first + count
          <=> y = year /\ first <= m /\ m < first + count
    BY <1>3, <2>6
  <2> QED
    BY <1>11, <2>3, <2>4, <2>5, <2>7
<1>12. CASE e.form = "half"
  <2>1. PICK h \in 1..2, year \in Nat, first \in Nat, count \in 1..12 :
          h = e.half /\ year = e.year /\ first = 6 * (h - 1) + 1 /\ count = 6
    <3>1. e.half \in 1..2 /\ e.year \in Nat /\ 6 * (e.half - 1) + 1 \in Nat /\ 6 \in 1..12
      BY <1>12 DEF IsExpression
    <3> QED
      BY <3>1
  <2>2. w = Months(year, first, count, now)
    BY <1>12, <2>1 DEF Resolve
  <2>3. w.since <= n /\ n < w.until <=>
          n < now /\ 12 * year + first <= 12 * y + m /\ 12 * y + m < 12 * year + first + count
    BY <1>1, <1>4, <2>2, MonthsIsPeriod
  <2>4. InPeriod(e, now, n) <=> y = year /\ (m + 5) \div 6 = h
    BY <1>3, <1>12, <2>1 DEF InPeriod
  <2>5. (m + 5) \div 6 = h <=> first <= m /\ m < first + count
    <3>1. \A x \in 1..12, k \in 1..2 :
            (x + 5) \div 6 = k <=> 6 * (k - 1) + 1 <= x /\ x < 6 * (k - 1) + 1 + 6
      OBVIOUS
    <3> QED
      BY <1>3, <2>1, <3>1
  <2>6. first + count <= 13 /\ first >= 1
    BY <2>1
  <2>7. /\ 12 * year + first <= 12 * y + m /\ 12 * y + m < 12 * year + first + count
          <=> y = year /\ first <= m /\ m < first + count
    BY <1>3, <2>6
  <2> QED
    BY <1>12, <2>3, <2>4, <2>5, <2>7
<1> QED
  BY <1>5, <1>6, <1>7, <1>8, <1>9, <1>10, <1>11, <1>12

-----------------------------------------------------------------------------
(* A call on its way to an answer.                                         *)

\* A window holds the moments of the period that was asked for.
HoldsPeriod(c, w, now) ==
  /\ HasPeriod(c.window)
  /\ \A p \in PullRequests : p.state = "merged" =>
       (w[1] <= p.merged /\ p.merged < w[2] <=>
          /\ p.merged < now
          /\ IF c.window.form = "release" THEN \E r \in Tagged({c.window.tag}) : r.at <= p.merged
             ELSE InPeriod(c.window, now, p.merged))

\* The prefixes are the area's, which exists.
HoldsArea(c, g) ==
  IF c.area = None THEN g = None ELSE c.area \in DOMAIN AreasFile /\ g = AreasFile[c.area]

\* A window lies between the two releases.
HoldsReleases(c, w) ==
  \E r, s \in Releases : {r.ref, s.ref} = {c.from, c.to} /\ r.at <= s.at /\ w = <<r.at, s.at>>

\* What a call under way has read so far.
WindowedOnItsWay(c, at, w, g, now) ==
  /\ at \in {"release", "area", "rows"}
  /\ at = "release" => c.window.form = "release"
  /\ at = "area" => c.area # None
  /\ at # "rows" => g = None
  /\ at # "release" => HoldsPeriod(c, w, now)
  /\ at = "rows" => HoldsArea(c, g)

DiffOnItsWay(c, at, w, g) ==
  at \in {"bounds", "rows"} /\ g = None /\ (at = "rows" => HoldsReleases(c, w))

OnItsWay(c, at, w, g, now) ==
  /\ c \in Calls /\ ~c.malformed
  /\ c.name \in Windowed => WindowedOnItsWay(c, at, w, g, now)
  /\ c.name = "release_diff" => DiffOnItsWay(c, at, w, g)
  /\ c.name = "stale_prs" => at = "rows"
  /\ c.name \in SearchTools => at = "search"

AnswerTypes ==
  /\ setting \in Settings /\ as_of \in Dates
  /\ areas = AreasFile \/ areas = <<>>
  /\ dense # None => dense \in Arms
  /\ sparse # None => sparse \in Arms

AnswerInv ==
  /\ AnswerTypes
  /\ stage \in {"select", "call"} => globs = None
  /\ stage \notin {"select", "call", "done"} => OnItsWay(call, stage, window, globs, as_of)
  /\ AnswersExact
  /\ BothArmsFirst

-----------------------------------------------------------------------------
(* What the queries answer.                                                *)

\* The paths that an area selects, all of them without one.
Selected(ps, f) == ps = None \/ \E path \in f.paths : Prefixed(ps, path)

\* The join with the paths lists each pull request that has one of them, once.
LEMMA MergedPrsIs ==
  ASSUME NEW since, NEW until, NEW ps
  PROVE  MergedPrs(since, until, ps) =
           Refs({p \in PullRequests : /\ p.state = "merged"
                                      /\ since <= p.merged /\ p.merged < until
                                      /\ Selected(ps, p)})
PROOF
<1> DEFINE rows == {row \in Joined(PullRequests, ps) :
                      row[1].state = "merged" /\ since <= row[1].merged /\ row[1].merged < until}
           found == {p \in PullRequests : /\ p.state = "merged"
                                          /\ since <= p.merged /\ p.merged < until
                                          /\ Selected(ps, p)}
<1>1. ASSUME NEW row \in rows PROVE row[1] \in found
  <2>1. /\ row[1] \in PullRequests
        /\ row[1].state = "merged" /\ since <= row[1].merged /\ row[1].merged < until
    BY DEF Joined
  <2>2. /\ IF row[1].paths = {} THEN row[2] = None ELSE row[2] \in row[1].paths
        /\ ps # None => row[2] # None /\ Prefixed(ps, row[2])
    BY DEF Joined
  <2>3. Selected(ps, row[1])
    BY <2>2 DEF Selected
  <2> QED
    BY <2>1, <2>3
<1>2. ASSUME NEW p \in found PROVE \E row \in rows : row[1] = p
  <2>1. p \in PullRequests /\ Selected(ps, p) /\ None \notin p.paths
    BY SchemaAssumption
  <2>2. \E path : /\ IF p.paths = {} THEN path = None ELSE path \in p.paths
                  /\ ps # None => path # None /\ Prefixed(ps, path)
    BY <2>1 DEF Selected
  <2>3. PICK path : /\ IF p.paths = {} THEN path = None ELSE path \in p.paths
                    /\ ps # None => path # None /\ Prefixed(ps, path)
    BY <2>2
  <2>4. path \in (UNION {f.paths : f \in PullRequests}) \cup {None}
    BY <2>1, <2>3
  <2>5. <<p, path>> \in Joined(PullRequests, ps)
    BY <2>1, <2>3, <2>4 DEF Joined
  <2>6. <<p, path>> \in rows
    BY <2>5
  <2> QED
    BY <2>6
<1>3. Distinct(rows) = found
  <2> HIDE DEF rows, found
  <2> QED
    BY <1>1, <1>2 DEF Distinct
<1>4. MergedPrs(since, until, ps) = Aggregate(rows)
  BY DEF MergedPrs
<1>5. Refs(found) = Aggregate(rows)
  <2> HIDE DEF rows, found
  <2> QED
    BY <1>3 DEF Aggregate, Refs
<1> QED
  BY <1>4, <1>5

\* Moments are numbers with a greatest one.
LEMMA MomentsAreDays ==
  ASSUME NEW n, IsMoment(n)
  PROVE  n \in Nat /\ n <= At(MaxYear, 12, 31) /\ At(MaxYear, 12, 31) \in Nat
PROOF
<1>1. PICK y, m, d : Date(n, y, m, d)
  BY MomentHasDate
<1>2. Date(At(MaxYear, 12, 31), MaxYear, 12, 31)
  BY YearsAssumption DEF Date, MonthLength
<1>3. n \in Int /\ At(MaxYear, 12, 31) \in Int /\ n <= At(MaxYear, 12, 31)
  <2>1. y <= MaxYear /\ y \in Nat /\ m \in 1..12 /\ d \in 1..31 /\ MaxYear \in Nat
    BY <1>1, YearsAssumption, DateOf DEF Date
  <2>2. PICK k : k = At(MaxYear, 12, 31)
    OBVIOUS
  <2>3. /\ n \in Int /\ k \in Int
        /\ n <= k <=> 12 * y + m < 12 * MaxYear + 12 \/ (12 * y + m = 12 * MaxYear + 12 /\ d <= 31)
    BY <1>1, <1>2, <2>2, DatesCompared
  <2> QED
    BY <2>1, <2>2, <2>3
<1>4. n > 0
  <2>1. y \in Nat \ {0} /\ m \in 1..12 /\ d \in 1..31 /\ n = At(y, m, d)
    BY <1>1, DateOf DEF Date
  <2>2. At(y, m, d) = At(y, m, 1) + d - 1 /\ At(y, m, 1) \in Int
    <3>1. d \in Int
      BY <2>1
    <3> QED
      BY <2>1, <3>1, NextDay
  <2>3. At(y, m, 1) > 0
    BY <2>1 DEF At
  <2> QED
    BY <2>1, <2>2, <2>3
<1> QED
  BY <1>3, <1>4

\* Not merely old: the last of its opening and its reviews is that long ago.
LEMMA StalePrsAre ==
  ASSUME NEW days \in Nat, IsMoment(as_of)
  PROVE  StalePrs(days) =
           Refs({p \in PullRequests :
                   /\ p.state = "open" /\ ~p.draft /\ as_of - p.created > days
                   /\ as_of - Max({p.created} \cup p.reviews) >= days})
PROOF
<1> DEFINE stale == {q \in PullRequests : /\ q.state = "open" /\ ~q.draft
                                          /\ q.created < as_of - days
                                          /\ \A r \in q.reviews : r <= as_of - days}
           quiet == {p \in PullRequests :
                       /\ p.state = "open" /\ ~p.draft /\ as_of - p.created > days
                       /\ as_of - Max({p.created} \cup p.reviews) >= days}
           rows == {<<p, None>> : p \in stale}
<1>1. as_of \in Nat
  BY MomentsAreDays
<1>2. ASSUME NEW p \in PullRequests
      PROVE  p \in stale <=> p \in quiet
  <2>1. p.created \in Nat /\ \A r \in p.reviews : r \in Nat /\ r <= At(MaxYear, 12, 31)
    BY SchemaAssumption, MomentsAreDays
  <2>2. PICK last \in Nat : last = At(MaxYear, 12, 31)
    BY SchemaAssumption, MomentsAreDays
  <2>3. p.created <= last
    BY <2>2, SchemaAssumption, MomentsAreDays
  <2>4. {p.created} \cup p.reviews \in SUBSET Nat /\ \A x \in {p.created} \cup p.reviews : x <= last
    BY <2>1, <2>2, <2>3
  <2>5. PICK latest : latest = Max({p.created} \cup p.reviews)
    OBVIOUS
  <2>6. latest \in {p.created} \cup p.reviews /\ \A x \in {p.created} \cup p.reviews : x <= latest
    <3>1. {p.created} \cup p.reviews # {}
      OBVIOUS
    <3>2. PICK S : S = {p.created} \cup p.reviews
      OBVIOUS
    <3>3. Max(S) \in S /\ \A x \in S : x <= Max(S)
      BY <2>4, <3>1, <3>2, MaxIsGreatest
    <3> QED
      BY <2>5, <3>2, <3>3
  <2>7. as_of - p.created > days <=> p.created < as_of - days
    BY <1>1, <2>1
  <2>8. ASSUME p.created < as_of - days
        PROVE  as_of - latest >= days <=> \A r \in p.reviews : r <= as_of - days
    BY <1>1, <2>1, <2>6, <2>8
  <2> QED
    BY <2>5, <2>7, <2>8
<1>3. stale = quiet
  BY <1>2
<1>4. Distinct(rows) = stale
  <2> HIDE DEF stale
  <2>1. \A row \in rows : row[1] \in stale
    OBVIOUS
  <2>2. \A p \in stale : <<p, None>> \in rows /\ <<p, None>>[1] = p
    OBVIOUS
  <2> HIDE DEF rows
  <2> QED
    BY <2>1, <2>2 DEF Distinct
<1>5. StalePrs(days) = Aggregate(rows)
  BY DEF StalePrs
<1>6. Refs(quiet) = Aggregate(rows)
  <2> HIDE DEF rows, stale, quiet
  <2> QED
    BY <1>3, <1>4 DEF Aggregate, Refs
<1> QED
  BY <1>5, <1>6

\* resolve answers a window, an error or an exception.
LEMMA ResolveKind ==
  ASSUME NEW e, IsExpression(e), NEW now, NEW w, w = Resolve(e, now)
  PROVE  w.kind \in {"window", "error", "raised"}
PROOF
<1>1. \A a, b : Window(a, b).kind = "window"
  BY DEF Window
<1>2. Failure.kind = "error" /\ Raised.kind = "raised"
  BY DEF Failure, Raised
<1>3. \A a, b, c : Capped(a, b, c).kind = "window"
  BY <1>1 DEF Capped
<1>4. \A a, b, c, d : Months(a, b, c, d).kind \in {"window", "error"}
  BY <1>2, <1>3 DEF Months
<1>5. \A a, b : MinusDays(a, b).kind \in {"window", "raised"} /\ MinusMonths(a, b).kind \in {"window", "error"}
  BY <1>1, <1>2 DEF MinusDays, MinusMonths
<1>6. Between(e, now).kind \in {"window", "error"}
  BY <1>2, <1>3 DEF Between
<1>7. e.form = "last" => Past(e, now).kind \in {"window", "error", "raised"}
  BY <1>2, <1>5 DEF Past, IsExpression
<1> QED
  BY <1>1, <1>2, <1>4, <1>6, <1>7 DEF Resolve

\* A window that is resolved at dispatch.
LEMMA ResolveHoldsPeriod ==
  ASSUME NEW c, IsExpression(c.window), c.window.form # "release", IsMoment(as_of),
         NEW w, w = Resolve(c.window, as_of), w.kind = "window"
  PROVE  HoldsPeriod(c, <<w.since, w.until>>, as_of)
PROOF
<1>1. ASSUME NEW n, IsMoment(n)
      PROVE  /\ w.since <= n /\ n < w.until <=> n < as_of /\ InPeriod(c.window, as_of, n)
             /\ c.window.form \in {"last", "since", "range", "year", "month", "quarter", "half"}
             /\ c.window.form = "last" => c.window.count > 0
             /\ c.window.form = "month" => c.window.month \in 1..12
  BY <1>1, ResolveIsPeriod
<1>2. HasPeriod(c.window)
  BY <1>1 DEF HasPeriod
<1>3. \A p \in PullRequests : p.state = "merged" => IsMoment(p.merged)
  BY SchemaAssumption
<1> QED
  BY <1>1, <1>2, <1>3 DEF HoldsPeriod

\* A window since a release; its tag is the primary key.
LEMMA ReleaseHoldsPeriod ==
  ASSUME NEW c, c.window.form = "release", NEW now, NEW r, r \in Tagged({c.window.tag})
  PROVE  HoldsPeriod(c, <<r.at, now>>, now)
PROOF
<1>1. \A s \in Tagged({c.window.tag}) : s = r
  BY SchemaAssumption DEF Tagged
<1>2. HasPeriod(c.window)
  BY DEF HasPeriod
<1>3. \A n : (\E s \in Tagged({c.window.tag}) : s.at <= n) <=> r.at <= n
  BY <1>1
<1> QED
  BY <1>2, <1>3 DEF HoldsPeriod

-----------------------------------------------------------------------------
(* The steps of a call.                                                    *)

LEMMA AnswerInvInit == LookupInit => AnswerInv
PROOF
  BY DEF LookupInit, AnswerInv, AnswerTypes, AnswersExact, BothArmsFirst, Answer

\* What is not answered cannot be wrong.
LEMMA NotAnswered ==
  ASSUME AnswerTypes', ~(stage' = "done" /\ outcome'.kind = "answer"),
         stage' \in {"select", "call"} => globs' = None,
         stage' \notin {"select", "call", "done"} =>
           OnItsWay(call', stage', window', globs', as_of')
  PROVE  AnswerInv'
PROOF
<1>1. ~Answer'
  BY DEF Answer
<1>2. AnswersExact' /\ BothArmsFirst'
  BY <1>1, Zenon DEF AnswersExact, BothArmsFirst
<1> QED
  BY <1>2 DEF AnswerInv

LEMMA DoneKeepsTypes ==
  ASSUME AnswerTypes, UNCHANGED <<environment, dense, sparse>>
  PROVE  AnswerTypes'
PROOF
  BY DEF AnswerTypes, environment

\* A call that is refused, or that fails.
LEMMA FailingStep ==
  ASSUME AnswerInv, stage' = "done", outcome'.kind # "answer", UNCHANGED <<environment, dense, sparse>>
  PROVE  AnswerInv'
PROOF
<1>1. AnswerTypes'
  BY DoneKeepsTypes DEF AnswerInv
<1> QED
  BY <1>1, NotAnswered

\* _call of merged_prs and commits_by_author, up to its first await.
LEMMA WindowedStep ==
  ASSUME AnswerInv, NEW c \in Calls, CallWindowed(c)
  PROVE  AnswerInv'
PROOF
<1>1. ~c.malformed /\ c.name \in Windowed
  BY DEF CallWindowed, Refused
<1>2. IsExpression(c.window) /\ IsMoment(as_of)
  BY <1>1, CallsAssumption DEF Windowed, AnswerInv, AnswerTypes
<1>3. PICK w : w = Resolve(c.window, as_of)
  OBVIOUS
<1>4. stage = "call" /\ globs = None
  BY DEF CallWindowed, Answered, Starts, AnswerInv
<1>5. AnswerTypes' /\ as_of' = as_of
  <2>1. UNCHANGED <<environment, dense, sparse>>
    BY DEF CallWindowed, Answered, Starts
  <2> QED
    BY <2>1, DoneKeepsTypes DEF AnswerInv, environment
<1>6. c.name # "release_diff" /\ c.name # "stale_prs" /\ c.name \notin SearchTools
  BY <1>1, CatalogAssumption DEF Windowed
<1>7. CASE c.window.form = "release"
  <2>1. stage' = "release" /\ call' = c /\ globs' = None
    BY <1>4, <1>7 DEF CallWindowed, Starts
  <2>2. WindowedOnItsWay(c, "release", window', None, as_of)
    BY <1>7 DEF WindowedOnItsWay
  <2>3. OnItsWay(call', stage', window', globs', as_of')
    BY <1>1, <1>5, <1>6, <2>1, <2>2 DEF OnItsWay
  <2> QED
    BY <1>5, <2>1, <2>3, NotAnswered
<1>8. CASE c.window.form # "release" /\ w.kind # "window"
  <2>1. Answered(c, w)
    BY <1>3, <1>8 DEF CallWindowed
  <2>2. w.kind # "answer"
    BY <1>2, <1>3, ResolveKind
  <2> QED
    BY <1>5, <2>1, <2>2, NotAnswered DEF Answered
<1>9. CASE c.window.form # "release" /\ w.kind = "window"
  <2>1. Starts(c, AfterWindow(c), <<w.since, w.until>>)
    BY <1>3, <1>9 DEF CallWindowed
  <2>2. /\ stage' = AfterWindow(c) /\ call' = c /\ globs' = None
        /\ window' = <<w.since, w.until>>
    BY <1>4, <2>1 DEF Starts
  <2>3. HoldsPeriod(c, <<w.since, w.until>>, as_of)
    BY <1>2, <1>3, <1>9, ResolveHoldsPeriod
  <2>4. WindowedOnItsWay(c, AfterWindow(c), <<w.since, w.until>>, None, as_of)
    BY <2>3 DEF WindowedOnItsWay, AfterWindow, HoldsArea
  <2>5. OnItsWay(call', stage', window', globs', as_of')
    BY <1>1, <1>5, <1>6, <2>2, <2>4 DEF OnItsWay
  <2> QED
    BY <1>5, <2>2, <2>5, NotAnswered DEF AfterWindow
<1> QED
  BY <1>7, <1>8, <1>9

\* _call of the other tools, up to its first await.
LEMMA OtherStep ==
  ASSUME AnswerInv, NEW c \in Calls, CallOther(c)
  PROVE  AnswerInv'
PROOF
<1>1. ~c.malformed /\ c.name \notin Windowed
  BY DEF CallOther, Refused
<1>2. /\ stage = "call" /\ globs = None /\ globs' = None /\ call' = c
      /\ stage' = FirstStage(c.name)
      /\ UNCHANGED <<environment, dense, sparse>>
  BY DEF CallOther, Starts, AnswerInv
<1>3. AnswerTypes'
  BY <1>2, DoneKeepsTypes DEF AnswerInv
<1>4. /\ c.name = "release_diff" => stage' = "bounds"
      /\ c.name = "stale_prs" => stage' = "rows"
      /\ c.name \in SearchTools => stage' = "search"
  BY <1>2, CatalogAssumption DEF FirstStage
<1>5. stage' \notin {"select", "call", "done"} => OnItsWay(call', stage', window', globs', as_of')
  BY <1>1, <1>2, <1>4, CatalogAssumption DEF OnItsWay, DiffOnItsWay
<1>6. CASE c.name \in {"release_diff", "stale_prs"} \cup SearchTools
  <2>1. stage' \in {"bounds", "rows", "search"}
    BY <1>4, <1>6
  <2> QED
    BY <1>2, <1>3, <1>5, <2>1, NotAnswered
<1>7. CASE c.name \notin {"release_diff", "stale_prs"} \cup SearchTools
  <2>1. AnswersExact'
    BY <1>1, <1>2, <1>7 DEF AnswersExact, Windowed
  <2>2. BothArmsFirst'
    BY <1>2, <1>7, Zenon DEF BothArmsFirst
  <2> QED
    BY <1>2, <1>3, <1>5, <2>1, <2>2 DEF AnswerInv
<1> QED
  BY <1>6, <1>7

LEMMA DispatchStep ==
  ASSUME AnswerInv, NEW c \in Calls, Dispatch(c)
  PROVE  AnswerInv'
PROOF
<1>1. CASE Refuse(c)
  <2>1. stage' = "done" /\ outcome' = Failure /\ UNCHANGED <<environment, dense, sparse>>
    BY <1>1 DEF Refuse, Answered
  <2> QED
    BY <2>1, FailingStep DEF Failure
<1>2. CASE CallMemory(c)
  <2>1. stage' = "done" /\ outcome' = [kind |-> "memory"] /\ UNCHANGED <<environment, dense, sparse>>
    BY <1>2 DEF CallMemory, Answered
  <2> QED
    BY <2>1, FailingStep
<1> QED
  BY <1>1, <1>2, WindowedStep, OtherStep DEF Dispatch

\* What is read of the areas is AreasFile or nothing.
LEMMA AreasRead ==
  ASSUME AnswerInv, NEW name \in DOMAIN areas
  PROVE  name \in DOMAIN AreasFile /\ areas[name] = AreasFile[name]
PROOF
  BY DEF AnswerInv, AnswerTypes

\* An answer, by the rows of a call to merged_prs.
LEMMA MergedPrsExact ==
  ASSUME NEW c, NEW w, NEW g, NEW now, HoldsPeriod(c, w, now), HoldsArea(c, g)
  PROVE  MergedPrs(w[1], w[2], g) =
           Refs({p \in PullRequests :
                   /\ p.state = "merged"
                   /\ /\ p.merged < now
                      /\ IF c.window.form = "release"
                         THEN \E r \in Tagged({c.window.tag}) : r.at <= p.merged
                         ELSE InPeriod(c.window, now, p.merged)
                   /\ Touches(p, c.area)})
PROOF
<1>1. ASSUME NEW p \in PullRequests PROVE Selected(g, p) <=> Touches(p, c.area)
  <2>1. CASE c.area = None
    BY <2>1 DEF HoldsArea, Selected, Touches
  <2>2. CASE c.area # None
    <3>1. g = AreasFile[c.area] /\ g # None
      BY <2>2, SchemaAssumption DEF HoldsArea
    <3> QED
      BY <2>2, <3>1 DEF Selected, Touches, Prefixed
  <2> QED
    BY <2>1, <2>2
<1>2. ASSUME NEW p \in PullRequests, p.state = "merged"
      PROVE  w[1] <= p.merged /\ p.merged < w[2] <=>
               /\ p.merged < now
               /\ IF c.window.form = "release"
                  THEN \E r \in Tagged({c.window.tag}) : r.at <= p.merged
                  ELSE InPeriod(c.window, now, p.merged)
  BY <1>2 DEF HoldsPeriod
<1> DEFINE read == {p \in PullRequests : /\ p.state = "merged"
                                         /\ w[1] <= p.merged /\ p.merged < w[2]
                                         /\ Selected(g, p)}
           asked == {p \in PullRequests :
                   /\ p.state = "merged"
                   /\ /\ p.merged < now
                      /\ IF c.window.form = "release"
                         THEN \E r \in Tagged({c.window.tag}) : r.at <= p.merged
                         ELSE InPeriod(c.window, now, p.merged)
                   /\ Touches(p, c.area)}
<1>3. read = asked
  BY <1>1, <1>2
<1>4. MergedPrs(w[1], w[2], g) = Refs(read)
  BY MergedPrsIs
<1> HIDE DEF read
<1>5. Refs(read) = Refs(asked)
  <2> HIDE DEF asked
  <2> QED
    BY <1>3
<1> QED
  BY <1>4, <1>5

\* The release of a window is looked up.
LEMMA ReleaseStep ==
  ASSUME AnswerInv, ReadRelease
  PROVE  AnswerInv'
PROOF
<1>1. stage = "release" /\ OnItsWay(call, stage, window, globs, as_of)
  BY DEF ReadRelease, AnswerInv
<1>2. PICK found : found = Tagged({call.window.tag})
  OBVIOUS
<1>3. CASE found = {}
  <2>1. Done(Failure)
    BY <1>2, <1>3 DEF ReadRelease
  <2> QED
    BY <2>1, FailingStep DEF Done, Failure
<1>4. CASE found # {}
  <2>1. PICK r : r = CHOOSE x \in found : TRUE
    OBVIOUS
  <2>2. r \in found
    BY <1>4, <2>1
  <2>3. /\ window' = <<r.at, as_of>> /\ stage' = AfterWindow(call)
        /\ UNCHANGED <<environment, call, globs, dense, sparse>>
    BY <1>2, <1>4, <2>1 DEF ReadRelease
  <2>4. AnswerTypes' /\ as_of' = as_of
    BY <2>3, DoneKeepsTypes DEF AnswerInv, environment
  <2>5. stage' \in {"area", "rows"}
    BY <2>3 DEF AfterWindow
  <2>6. OnItsWay(call, AfterWindow(call), <<r.at, as_of>>, globs, as_of)
    <3>1. call.name # "release_diff" /\ call.name # "stale_prs" /\ call.name \notin SearchTools
      BY <1>1 DEF OnItsWay, DiffOnItsWay
    <3>2. ASSUME call.name \in Windowed
          PROVE  WindowedOnItsWay(call, AfterWindow(call), <<r.at, as_of>>, globs, as_of)
      <4>1. call.window.form = "release" /\ globs = None
        BY <1>1, <3>2 DEF OnItsWay, WindowedOnItsWay
      <4>2. HoldsPeriod(call, <<r.at, as_of>>, as_of)
        BY <1>2, <2>2, <4>1, ReleaseHoldsPeriod
      <4> QED
        BY <4>1, <4>2 DEF WindowedOnItsWay, AfterWindow, HoldsArea
    <3> QED
      BY <1>1, <3>1, <3>2 DEF OnItsWay
  <2>7. OnItsWay(call', stage', window', globs', as_of')
    BY <2>3, <2>4, <2>6
  <2> QED
    BY <2>4, <2>5, <2>7, NotAnswered
<1> QED
  BY <1>3, <1>4

\* The prefixes of an area are read, or the call fails.
LEMMA AreaStep ==
  ASSUME AnswerInv, ReadArea
  PROVE  AnswerInv'
PROOF
<1>1. stage = "area" /\ OnItsWay(call, stage, window, globs, as_of)
  BY DEF ReadArea, AnswerInv
<1>2. CASE call.area \notin DOMAIN areas
  <2>1. Done(Failure)
    BY <1>2 DEF ReadArea
  <2> QED
    BY <2>1, FailingStep DEF Done, Failure
<1>3. CASE call.area \in DOMAIN areas
  <2>1. /\ globs' = areas[call.area] /\ stage' = "rows"
        /\ UNCHANGED <<environment, call, window, dense, sparse>>
    BY <1>3 DEF ReadArea
  <2>2. AnswerTypes' /\ as_of' = as_of
    BY <2>1, DoneKeepsTypes DEF AnswerInv, environment
  <2>3. call.area \in DOMAIN AreasFile /\ globs' = AreasFile[call.area]
    BY <1>3, <2>1, AreasRead
  <2>4. PICK g : g = AreasFile[call.area]
    OBVIOUS
  <2>5. OnItsWay(call, "rows", window, g, as_of)
    <3>1. call.name # "release_diff" /\ call.name # "stale_prs" /\ call.name \notin SearchTools
      BY <1>1 DEF OnItsWay, DiffOnItsWay
    <3>2. ASSUME call.name \in Windowed
          PROVE  WindowedOnItsWay(call, "rows", window, g, as_of)
      BY <1>1, <2>3, <2>4, <3>2 DEF OnItsWay, WindowedOnItsWay, HoldsArea
    <3> QED
      BY <1>1, <3>1, <3>2 DEF OnItsWay
  <2>6. OnItsWay(call', stage', window', globs', as_of')
    BY <2>1, <2>2, <2>3, <2>4, <2>5
  <2> QED
    BY <2>1, <2>2, <2>6, NotAnswered
<1> QED
  BY <1>2, <1>3

\* The two releases of release_diff are put in order.
LEMMA BoundsStep ==
  ASSUME AnswerInv, ReadBounds
  PROVE  AnswerInv'
PROOF
<1>1. stage = "bounds" /\ OnItsWay(call, stage, window, globs, as_of)
  BY DEF ReadBounds, AnswerInv
<1>2. CASE \E tag \in {call.from, call.to} : Tagged({tag}) = {}
  <2>1. Done(Failure)
    BY <1>2 DEF ReadBounds
  <2> QED
    BY <2>1, FailingStep DEF Done, Failure
<1>3. CASE ~(\E tag \in {call.from, call.to} : Tagged({tag}) = {})
  <2>1. PICK found : found = {r.at : r \in Tagged({call.from, call.to})}
    OBVIOUS
  <2>2. /\ window' = <<Min(found), Max(found)>> /\ stage' = "rows"
        /\ UNCHANGED <<environment, call, globs, dense, sparse>>
    BY <1>3, <2>1 DEF ReadBounds
  <2>3. AnswerTypes' /\ as_of' = as_of
    BY <2>2, DoneKeepsTypes DEF AnswerInv, environment
  <2>4. PICK r \in Releases, s \in Releases : r.ref = call.from /\ s.ref = call.to
    BY <1>3 DEF Tagged
  <2>5. found = {r.at, s.at}
    <3>1. Tagged({call.from, call.to}) = {r, s}
      BY <2>4, SchemaAssumption DEF Tagged
    <3> QED
      BY <2>1, <3>1
  <2>6. r.at \in Nat /\ s.at \in Nat
    BY SchemaAssumption, MomentsAreDays
  <2>7. PICK first, last : first = Min(found) /\ last = Max(found)
    OBVIOUS
  <2>8. /\ first \in found /\ \A x \in found : first <= x
        /\ last \in found /\ \A x \in found : x <= last
    <3>1. PICK bound \in Nat : r.at <= bound /\ s.at <= bound
      BY <2>6
    <3>2. found \in SUBSET Nat /\ found # {} /\ \A x \in found : x <= bound
      BY <2>5, <2>6, <3>1
    <3>3. Min(found) \in found /\ \A x \in found : Min(found) <= x
      BY <3>2, MinIsLeast
    <3>4. Max(found) \in found /\ \A x \in found : x <= Max(found)
      BY <3>2, MaxIsGreatest
    <3> QED
      BY <2>7, <3>3, <3>4
  <2>9. HoldsReleases(call, <<first, last>>)
    <3>1. CASE r.at <= s.at
      <4>1. first = r.at /\ last = s.at
        BY <2>5, <2>6, <2>8, <3>1
      <4> QED
        BY <2>4, <3>1, <4>1 DEF HoldsReleases
    <3>2. CASE s.at <= r.at
      <4>1. first = s.at /\ last = r.at
        BY <2>5, <2>6, <2>8, <3>2
      <4>2. {s.ref, r.ref} = {call.from, call.to}
        BY <2>4
      <4> QED
        BY <3>2, <4>1, <4>2 DEF HoldsReleases
    <3> QED
      BY <2>6, <3>1, <3>2
  <2>10. OnItsWay(call, "rows", <<first, last>>, globs, as_of)
    <3>1. call.name \notin Windowed /\ call.name # "stale_prs" /\ call.name \notin SearchTools
      BY <1>1 DEF OnItsWay, WindowedOnItsWay
    <3>2. call.name = "release_diff" => DiffOnItsWay(call, "rows", <<first, last>>, globs)
      BY <1>1, <2>9 DEF OnItsWay, DiffOnItsWay
    <3> QED
      BY <1>1, <3>1, <3>2 DEF OnItsWay
  <2>11. OnItsWay(call', stage', window', globs', as_of')
    BY <2>2, <2>3, <2>7, <2>10
  <2> QED
    BY <2>2, <2>3, <2>11, NotAnswered
<1> QED
  BY <1>2, <1>3

\* The three lookups of one entity.
LEMMA EntityStep ==
  ASSUME AnswerInv, ReadEntity
  PROVE  AnswerInv'
PROOF
<1>1. stage = "entity" /\ OnItsWay(call, stage, window, globs, as_of)
  BY DEF ReadEntity, AnswerInv
<1>2. stage' = "done" /\ UNCHANGED <<environment, call, dense, sparse>>
  BY DEF ReadEntity, Done
<1>3. /\ call.name \notin {"merged_prs", "commits_by_author", "release_diff", "stale_prs"}
      /\ call.name \notin SearchTools
  BY <1>1 DEF OnItsWay, WindowedOnItsWay, DiffOnItsWay, Windowed
<1>4. AnswersExact'
  BY <1>2, <1>3 DEF AnswersExact
<1>5. BothArmsFirst'
  BY <1>2, <1>3, Zenon DEF BothArmsFirst
<1>6. AnswerTypes'
  BY <1>2, DoneKeepsTypes DEF AnswerInv
<1> QED
  BY <1>2, <1>4, <1>5, <1>6 DEF AnswerInv

\* The query, from what was read before it.
LEMMA RowsStep ==
  ASSUME AnswerInv, ReadRows
  PROVE  AnswerInv'
PROOF
<1>1. stage = "rows" /\ OnItsWay(call, stage, window, globs, as_of)
  BY DEF ReadRows, AnswerInv
<1>2. stage' = "done" /\ UNCHANGED <<environment, call, dense, sparse>> /\ as_of' = as_of
  BY DEF ReadRows, Done, environment
<1>3. AnswerTypes'
  BY <1>2, DoneKeepsTypes DEF AnswerInv
<1>4. call.name \notin SearchTools
  BY <1>1 DEF OnItsWay
<1>5. BothArmsFirst'
  BY <1>2, <1>4, Zenon DEF BothArmsFirst
<1>6. call \in Calls /\ ~call.malformed /\ IsMoment(as_of)
  BY <1>1, CallsAssumption DEF OnItsWay, AnswerInv, AnswerTypes
<1>7. ASSUME call.name \in Windowed
      PROVE  /\ HoldsPeriod(call, window, as_of) /\ HoldsArea(call, globs)
             /\ HasPeriod(call.window) /\ call.area \in (DOMAIN AreasFile) \cup {None}
  BY <1>1, <1>7 DEF OnItsWay, WindowedOnItsWay, HoldsPeriod, HoldsArea
<1>8. AnswersExact'
  <2>1. CASE call.name = "merged_prs"
    <3>1. outcome' = MergedPrs(window[1], window[2], globs)
      BY <2>1 DEF ReadRows, Done
    <3>2. HoldsPeriod(call, window, as_of) /\ HoldsArea(call, globs)
      BY <1>7, <2>1 DEF Windowed
    <3>3. outcome' = Refs({p \in PullRequests :
                             /\ p.state = "merged"
                             /\ /\ p.merged < as_of
                                /\ IF call.window.form = "release"
                                   THEN \E r \in Tagged({call.window.tag}) : r.at <= p.merged
                                   ELSE InPeriod(call.window, as_of, p.merged)
                             /\ Touches(p, call.area)})
      BY <3>1, <3>2, MergedPrsExact
    <3>4. outcome' = Refs({p \in PullRequests :
                             /\ p.state = "merged"
                             /\ During(call.window, p.merged)
                             /\ Touches(p, call.area)})
      BY <3>3, Zenon DEF During
    <3>5. outcome' = Refs({p \in PullRequests :
                             /\ p.state = "merged"
                             /\ During(call.window, p.merged)'
                             /\ Touches(p, call.area)})
      BY <1>2, <3>4 DEF During
    <3> QED
      BY <1>2, <1>7, <2>1, <3>5 DEF AnswersExact, Windowed
  <2>2. CASE call.name = "commits_by_author"
    <3>1. outcome' = CommitsByAuthor(window[1], globs)
      BY <2>2 DEF ReadRows, Done
    <3>2. outcome'.count = Cardinality(outcome'.items)
      BY <3>1 DEF CommitsByAuthor, Aggregate
    <3> QED
      BY <1>2, <1>7, <2>2, <3>2 DEF AnswersExact, Windowed
  <2>3. CASE call.name = "release_diff"
    <3>1. outcome' = MergedPrs(window[1], window[2], globs)
      BY <2>3 DEF ReadRows, Done
    <3>2. HoldsReleases(call, window) /\ globs = None
      BY <1>1, <2>3 DEF OnItsWay, DiffOnItsWay
    <3>3. PICK r \in Releases, s \in Releases :
            {r.ref, s.ref} = {call.from, call.to} /\ r.at <= s.at /\ window = <<r.at, s.at>>
      BY <3>2 DEF HoldsReleases
    <3>4. outcome' = Refs({p \in PullRequests : /\ p.state = "merged"
                                                /\ r.at <= p.merged /\ p.merged < s.at
                                                /\ Selected(None, p)})
      <4>1. outcome' = MergedPrs(r.at, s.at, None)
        BY <3>1, <3>2, <3>3
      <4> QED
        BY <4>1, MergedPrsIs
    <3>5. outcome' = Refs({p \in PullRequests : /\ p.state = "merged"
                                                /\ r.at <= p.merged /\ p.merged < s.at})
      BY <3>4 DEF Selected
    <3> QED
      BY <1>2, <2>3, <3>3, <3>5 DEF AnswersExact
  <2>4. CASE call.name = "stale_prs"
    <3>1. outcome' = IF TooLong(call.days) THEN Raised ELSE StalePrs(call.days)
      BY <2>4 DEF ReadRows, Done
    <3>2. CASE TooLong(call.days)
      BY <3>1, <3>2 DEF AnswersExact, Answer, Raised
    <3>3. CASE ~TooLong(call.days)
      <4>1. call.days \in Nat
        BY <1>6, <2>4, CallsAssumption
      <4>2. outcome' =
              Refs({p \in PullRequests :
                      /\ p.state = "open" /\ ~p.draft /\ as_of - p.created > call.days
                      /\ as_of - Max({p.created} \cup p.reviews) >= call.days})
        BY <1>6, <3>1, <3>3, <4>1, StalePrsAre
      <4> QED
        BY <1>2, <2>4, <4>2 DEF AnswersExact
    <3> QED
      BY <3>2, <3>3
  <2>5. CASE call.name \notin {"merged_prs", "commits_by_author", "release_diff", "stale_prs"}
    BY <1>2, <2>5 DEF AnswersExact
  <2> QED
    BY <2>1, <2>2, <2>3, <2>4, <2>5
<1> QED
  BY <1>2, <1>3, <1>5, <1>8 DEF AnswerInv

\* One arm of a search has answered.
LEMMA ArmStep ==
  ASSUME AnswerInv, ReadDense \/ ReadSparse
  PROVE  AnswerInv'
PROOF
<1>1. stage = "search" /\ OnItsWay(call, stage, window, globs, as_of)
  BY DEF ReadDense, ReadSparse, AnswerInv
<1>2. UNCHANGED <<environment, stage, call, window, globs>> /\ as_of' = as_of
  BY DEF ReadDense, ReadSparse, environment
<1>3. AnswerTypes'
  BY DEF AnswerInv, AnswerTypes, ReadDense, ReadSparse, environment
<1> QED
  BY <1>1, <1>2, <1>3, NotAnswered

LEMMA BothArmsFirstIs ==
  /\ BothArmsFirst <=>
       (Answer /\ call.name \in SearchTools /\ setting.hybrid =>
          RightlyFused(dense, sparse, outcome.items))
  /\ BothArmsFirst' <=>
       (Answer' /\ call'.name \in SearchTools /\ setting'.hybrid =>
          RightlyFused(dense', sparse', outcome'.items))
PROOF
<1>1. /\ BothArmsFirst <=>
           (Answer /\ call.name \in SearchTools /\ setting.hybrid =>
              RightlyFused(dense, sparse, outcome.items))
  BY DEF BothArmsFirst, RightlyFused
<1>2. BothArmsFirst' <=>
       (Answer' /\ call'.name \in SearchTools /\ setting'.hybrid =>
          RightlyFused(dense', sparse', outcome'.items))
  BY DEF BothArmsFirst, RightlyFused
<1> QED
  BY <1>1, <1>2

\* The list of a search.
LEMMA FuseStep ==
  ASSUME AnswerInv, FuseArms
  PROVE  AnswerInv'
PROOF
<1>1. stage = "search" /\ OnItsWay(call, stage, window, globs, as_of)
  BY DEF FuseArms, AnswerInv
<1>2. stage' = "done" /\ UNCHANGED <<environment, call, dense, sparse, setting>>
  BY DEF FuseArms, Done, environment
<1>3. AnswerTypes'
  BY <1>2, DoneKeepsTypes DEF AnswerInv
<1>4. call.name \notin {"merged_prs", "commits_by_author", "release_diff", "stale_prs"}
  BY <1>1 DEF OnItsWay, WindowedOnItsWay, DiffOnItsWay, Windowed
<1>5. AnswersExact'
  BY <1>2, <1>4 DEF AnswersExact
<1>6. CASE ~setting.hybrid
  <2>1. BothArmsFirst'
    BY <1>2, <1>6, Zenon DEF BothArmsFirst
  <2> QED
    BY <1>2, <1>3, <1>5, <2>1 DEF AnswerInv
<1>7. CASE setting.hybrid
  <2>1. dense \in Arms /\ sparse \in Arms
    BY <1>7 DEF FuseArms, AnswerInv, AnswerTypes
  <2>2. PICK p \in Arms, q \in Arms : p = dense /\ q = sparse
    BY <2>1
  <2>3. PICK ids : ids = Fuse(p, q, TopK)
    OBVIOUS
  <2>4. outcome' = Ranked(ids)
    BY <1>7, <2>2, <2>3 DEF FuseArms, Done
  <2>5. RightlyFused(p, q, ids)
    BY <2>3, FuseIsRight
  <2>6. BothArmsFirst'
    <3>1. dense' = p /\ sparse' = q /\ outcome'.items = ids
      BY <1>2, <2>2, <2>4 DEF Ranked
    <3>2. RightlyFused(dense', sparse', outcome'.items)
      BY <2>5, <3>1
    <3> QED
      BY <3>2, BothArmsFirstIs
  <2> QED
    BY <1>2, <1>3, <1>5, <2>6 DEF AnswerInv
<1> QED
  BY <1>6, <1>7

\* The environment, and the choice of the tools.
LEMMA AreasStep ==
  ASSUME AnswerInv, DeleteAreas \/ InsertAreas
  PROVE  AnswerInv'
PROOF
<1>1. stage \in {"release", "area"} /\ OnItsWay(call, stage, window, globs, as_of)
  BY DEF DeleteAreas, InsertAreas, AnswerInv
<1>2. UNCHANGED <<setting, as_of, stage, call, window, globs, dense, sparse>>
  BY DEF DeleteAreas, InsertAreas
<1>3. AnswerTypes'
  BY DEF AnswerInv, AnswerTypes, DeleteAreas, InsertAreas
<1> QED
  BY <1>1, <1>2, <1>3, NotAnswered

\* Tools are chosen or seeded.
LEMMA ToolsStep ==
  ASSUME AnswerInv, Select \/ Seed
  PROVE  AnswerInv'
PROOF
<1>1. stage = "select" /\ stage' \in {"select", "call"} /\ globs = None /\ globs' = None
  BY DEF Select, Seed, AnswerInv
<1>2. AnswerTypes'
  BY DEF AnswerInv, AnswerTypes, Select, Seed, environment
<1> QED
  BY <1>1, <1>2, NotAnswered

LEMMA AnswerStutter ==
  ASSUME AnswerInv, UNCHANGED lookupVars
  PROVE  AnswerInv'
PROOF
<1>1. UNCHANGED <<setting, as_of, areas, stage, call, window, globs, dense, sparse, outcome>>
  BY DEF lookupVars
<1>2. AnswerTypes'
  BY <1>1 DEF AnswerInv, AnswerTypes
<1>3. AnswersExact'
  BY <1>1 DEF AnswerInv, AnswersExact, Answer, During
<1>4. BothArmsFirst'
  BY <1>1, BothArmsFirstIs DEF AnswerInv, Answer
<1> QED
  BY <1>1, <1>2, <1>3, <1>4 DEF AnswerInv

\* Every step keeps the invariant.
LEMMA AnswerInvStep ==
  ASSUME AnswerInv, [LookupNext]_lookupVars
  PROVE  AnswerInv'
PROOF
<1>1. CASE QueryFails
  BY <1>1, FailingStep DEF QueryFails, Done, Raised
<1> QED
  BY <1>1, AnswerStutter, ToolsStep, DispatchStep, ReleaseStep, AreaStep, RowsStep, BoundsStep,
     EntityStep, ArmStep, FuseStep, AreasStep
     DEF LookupNext

LEMMA AnswerInvHolds == LookupSpec => []AnswerInv
PROOF
  BY AnswerInvInit, AnswerInvStep, PTL DEF LookupSpec

\* Whatever is merged, labelled or reviewed, whatever areas.yaml says, while the
\* areas are replaced under the call: what a facts tool answers is exactly what
\* the question asked for (facts.store, windows.resolve, _window, areas.resolve).
THEOREM LookupsAnswerExactly == LookupSpec => []AnswersExact
PROOF
  BY AnswerInvHolds, PTL DEF AnswerInv

\* For any arms, any RRF_K and any k: what both arms found is listed before what
\* one found, each arm's own order is kept, nothing is listed twice, and the list
\* is as long as there is room and chunks for (hybrid.fuse, search).
THEOREM LookupsPutBothArmsFirst == LookupSpec => []BothArmsFirst
PROOF
  BY AnswerInvHolds, PTL DEF AnswerInv

-----------------------------------------------------------------------------
(* The memory block.                                                       *)

\* What a type's share of the budget holds of a list, as KeptInRankOrder has it.
BestOf(ranked, type, total) ==
  SubSeq(ranked, 1,
         Max({n \in 0..Len(ranked) :
                Costs(SubSeq(ranked, 1, n)) <= (total * Share[type]) \div 100}))

\* The same of the lists so far, and the lists.
Gathered(lists, total) ==
  CASE Len(lists) = 0 -> <<>>
    [] Len(lists) = 1 -> BestOf(lists[1], Types[1], total)
    [] Len(lists) = 2 -> BestOf(lists[1], Types[1], total) \o BestOf(lists[2], Types[2], total)
    [] Len(lists) = 3 -> BestOf(lists[1], Types[1], total) \o BestOf(lists[2], Types[2], total)
                           \o BestOf(lists[3], Types[3], total)

Found(lists) ==
  CASE Len(lists) = 0 -> <<>>
    [] Len(lists) = 1 -> lists[1]
    [] Len(lists) = 2 -> lists[1] \o lists[2]
    [] Len(lists) = 3 -> lists[1] \o lists[2] \o lists[3]

\* A block is a beginning of what was gathered, and every longer one was counted
\* as over the budget.
Exceeds(ms, total) == \E by \in Counters : Count(by, ms) > total

Trimmed(block, whole, total) ==
  /\ IsPrefix(block, whole)
  /\ \A n \in (Len(block) + 1)..Len(whole) : Exceeds(SubSeq(whole, 1, n), total)

BlockInv ==
  /\ budget \in Nat
  /\ live \subseteq Memories
  /\ phase \in {"profile", "search", "count", "loaded", "raised"}
  /\ candidates \in Seq(Seq(Memories))
  /\ selected \in Seq(Memories)
  /\ truncated = Len(Found(candidates)) - Len(selected)
  /\ phase = "profile" => candidates = <<>>
  /\ phase = "search" => Len(candidates) < 3
  /\ phase \in {"profile", "search"} => selected = Gathered(candidates, budget)
  /\ phase \in {"count", "loaded"} =>
       /\ Len(candidates) = 3
       /\ text = selected
       /\ Gathered(candidates, budget) \in Seq(Memories)
       /\ Trimmed(selected, Gathered(candidates, budget), budget)
  /\ phase = "loaded" => token_count = Count(counted, text) /\ token_count <= budget

LEMMA CostIsNat == \A m \in Memories : Cost(m) \in Nat
PROOF
<1> SUFFICES ASSUME NEW m \in Memories PROVE Cost(m) \in Nat
  OBVIOUS
<1>1. m.chars \in Nat
  BY BlockAssumption DEF BlockAssumption
<1>2. \A n \in Nat : (2 * n + 7 - 1) \div 7 \in Nat
  OBVIOUS
<1> QED
  BY <1>1, <1>2 DEF Cost, Estimate, CeilDiv

LEMMA ShareIsNat == budget \in Nat => \A i \in 1..3 : ShareOf(Types[i]) \in Nat
PROOF
<1> SUFFICES ASSUME budget \in Nat, NEW i \in 1..3 PROVE ShareOf(Types[i]) \in Nat
  OBVIOUS
<1>1. Share[Types[i]] \in Nat
  BY BlockAssumption DEF BlockAssumption
<1>2. \A share \in Nat : (budget * share) \in Nat
  OBVIOUS
<1>3. \A p \in Nat : p \div 100 \in Nat
  OBVIOUS
<1> QED
  BY <1>1, <1>2, <1>3 DEF ShareOf

\* What _pack keeps is the longest beginning that its share holds.
LEMMA PackedIsLongest ==
  ASSUME NEW ranked \in Seq(Memories), NEW limit \in Nat
  PROVE  /\ Packed(ranked, limit) =
              SubSeq(ranked, 1, Max({n \in 0..Len(ranked) : Costs(SubSeq(ranked, 1, n)) <= limit}))
         /\ Packed(ranked, limit) \in Seq(Memories)
PROOF
<1> DEFINE c == [i \in 1..Len(ranked) |-> Cost(ranked[i])]
           fit == {n \in 0..Len(ranked) : Costs(SubSeq(ranked, 1, n)) <= limit}
           over == {n \in DOMAIN ranked : Costs(SubSeq(ranked, 1, n)) > limit}
<1>1. Len(ranked) \in Nat /\ DOMAIN ranked = 1..Len(ranked)
  OBVIOUS
<1>2. \A n \in 0..Len(ranked) : Costs(SubSeq(ranked, 1, n)) = FirstTotal(c, n)
  <2> SUFFICES ASSUME NEW n \in 0..Len(ranked)
               PROVE  Costs(SubSeq(ranked, 1, n)) = FirstTotal(c, n)
    OBVIOUS
  <2>1. [i \in DOMAIN SubSeq(ranked, 1, n) |-> Cost(SubSeq(ranked, 1, n)[i])] = [i \in 1..n |-> c[i]]
    <3>1. DOMAIN SubSeq(ranked, 1, n) = 1..n /\ \A i \in 1..n : SubSeq(ranked, 1, n)[i] = ranked[i]
      OBVIOUS
    <3> QED
      BY <3>1
  <2> QED
    BY <2>1 DEF Costs, FirstTotal
<1>3. \A i \in 1..Len(ranked) : c[i] \in Nat
  BY CostIsNat
<1> HIDE DEF c
<1>4. \A n \in 0..Len(ranked) : FirstTotal(c, n) \in Nat
  BY <1>1, <1>3, FirstTotalNat
<1>5. \A i \in 0..Len(ranked) : \A j \in i..Len(ranked) : FirstTotal(c, i) <= FirstTotal(c, j)
  BY <1>1, <1>3, FirstTotalGrows
<1>6. 0 \in fit
  BY <1>1, <1>2, FirstTotalZero
<1>7. fit \in SUBSET Nat /\ over \in SUBSET Nat
  BY <1>1
<1>8. CASE over = {}
  <2>1. Len(ranked) \in fit
    BY <1>1, <1>2, <1>4, <1>6, <1>8
  <2>2. \A n \in fit : n <= Len(ranked)
    BY <1>1
  <2>3. Max(fit) = Len(ranked)
    <3> HIDE DEF fit
    <3> QED
      BY <1>7, <2>1, <2>2, MaxIs
  <2>4. Packed(ranked, limit) = ranked
    BY <1>8 DEF Packed
  <2>5. SubSeq(ranked, 1, Len(ranked)) = ranked
    BY SubSeqFull
  <2> QED
    BY <2>3, <2>4, <2>5
<1>9. CASE over # {}
  <2>1. Min(over) \in over /\ \A n \in over : Min(over) <= n
    <3> HIDE DEF over
    <3> QED
      BY <1>7, <1>9, MinIsLeast
  <2>2. PICK m : m = Min(over)
    OBVIOUS
  <2>3. m \in over /\ \A n \in over : m <= n
    BY <2>1, <2>2
  <2>4. m \in 1..Len(ranked) /\ FirstTotal(c, m) > limit
    BY <1>1, <1>2, <2>3
  <2>5. m - 1 \in fit
    <3>1. CASE m = 1
      BY <1>6, <3>1
    <3>2. CASE m # 1
      <4>1. m - 1 \in DOMAIN ranked /\ m - 1 \notin over
        BY <1>1, <2>3, <2>4, <3>2
      <4> QED
        BY <1>1, <1>2, <1>4, <4>1
    <3> QED
      BY <3>1, <3>2
  <2>6. \A n \in fit : n <= m - 1
    <3> SUFFICES ASSUME NEW n \in fit, ~(n <= m - 1) PROVE FALSE
      OBVIOUS
    <3>1. n \in 0..Len(ranked) /\ FirstTotal(c, n) <= limit
      BY <1>2
    <3>2. m \in 0..Len(ranked) /\ n \in m..Len(ranked)
      BY <1>1, <2>4, <3>1
    <3>3. FirstTotal(c, m) <= FirstTotal(c, n)
      BY <1>5, <3>2
    <3> QED
      BY <1>4, <2>4, <3>1, <3>2, <3>3
  <2>7. Max(fit) = m - 1
    <3> HIDE DEF fit
    <3> QED
      BY <1>7, <2>5, <2>6, MaxIs
  <2>8. Packed(ranked, limit) = SubSeq(ranked, 1, m - 1)
    BY <1>9, <2>2 DEF Packed
  <2>9. SubSeq(ranked, 1, m - 1) \in Seq(Memories)
    <3>1. \A i \in 1..(m - 1) : ranked[i] \in Memories
      BY <1>1, <2>4
    <3>2. m - 1 \in Int
      BY <2>4
    <3> QED
      BY <3>1, <3>2, SubSeqProperties
  <2> QED
    BY <2>7, <2>8, <2>9
<1> QED
  BY <1>8, <1>9

\* Nothing is counted of an empty block.
LEMMA NothingCounted == \A by : Count(by, <<>>) = 0
PROOF
<1>1. BlockTokens(<<>>) = 0 /\ BlockChars(<<>>) = 0
  BY DEF BlockTokens, BlockChars
<1>2. Estimate(0) = 0
  BY DEF Estimate, CeilDiv
<1> QED
  BY <1>1, <1>2 DEF Count

\* What a query may return are lists of memories.
LEMMA AnswersAreLists ==
  ASSUME live \subseteq Memories, NEW type, NEW found \in Answers(type)
  PROVE  found \in Seq(Memories)
PROOF
<1> DEFINE all == {m \in live : m.own /\ m.type = type}
<1>1. PICK top \in kSubset(Min({PerType[type], Cardinality(all)}), all) :
        found \in SetToSeqs({m \in top : type = "semantic" => ~m.faded})
  BY DEF Answers
<1> DEFINE kept == {m \in top : type = "semantic" => ~m.faded}
<1>2. kept \subseteq Memories /\ IsFiniteSet(Memories)
  BY BlockAssumption DEF kSubset, BlockAssumption
<1>3. Cardinality(kept) \in Nat
  BY <1>2, FS_Subset, FS_CardinalityType
<1>4. found \in [1..Cardinality(kept) -> kept]
  BY <1>1 DEF SetToSeqs
<1> HIDE DEF kept
<1>5. PICK n \in Nat : n = Cardinality(kept)
  BY <1>3
<1>6. found \in [1..n -> Memories]
  BY <1>2, <1>4, <1>5
<1> QED
  BY <1>5, <1>6

LEMMA BestIsPacked ==
  ASSUME NEW total \in Nat, NEW i \in 1..3, NEW found \in Seq(Memories)
  PROVE  /\ Packed(found, (total * Share[Types[i]]) \div 100) = BestOf(found, Types[i], total)
         /\ BestOf(found, Types[i], total) \in Seq(Memories)
PROOF
<1>1. PICK share \in Nat : share = Share[Types[i]]
  BY BlockAssumption DEF BlockAssumption
<1>2. total * share \in Nat
  BY <1>1
<1>3. \A p \in Nat : p \div 100 \in Nat
  OBVIOUS
<1>4. (total * share) \div 100 \in Nat
  BY <1>2, <1>3
<1>5. PICK limit \in Nat : limit = (total * Share[Types[i]]) \div 100
  BY <1>1, <1>4
<1>6. BestOf(found, Types[i], total) =
        SubSeq(found, 1, Max({n \in 0..Len(found) : Costs(SubSeq(found, 1, n)) <= limit}))
  BY <1>5 DEF BestOf
<1>7. /\ Packed(found, limit) =
            SubSeq(found, 1, Max({n \in 0..Len(found) : Costs(SubSeq(found, 1, n)) <= limit}))
      /\ Packed(found, limit) \in Seq(Memories)
  BY PackedIsLongest
<1> QED
  BY <1>5, <1>6, <1>7

\* One query more.
LEMMA QueryGathers ==
  ASSUME NEW lists \in Seq(Seq(Memories)), Len(lists) < 3, NEW total \in Nat,
         NEW found \in Seq(Memories)
  PROVE  /\ Gathered(Append(lists, found), total) =
              Gathered(lists, total) \o BestOf(found, Types[Len(lists) + 1], total)
         /\ Found(Append(lists, found)) = Found(lists) \o found
         /\ Found(lists) \in Seq(Memories)
PROOF
<1> DEFINE more == Append(lists, found)
           best(i) == BestOf(more[i], Types[i], total)
           list(i) == more[i]
<1>1. PICK n \in 0..2 : n = Len(lists)
  <2>1. Len(lists) \in Nat /\ Len(lists) < 3
    OBVIOUS
  <2>2. \A l \in Nat : l < 3 => l \in 0..2
    OBVIOUS
  <2>3. Len(lists) \in 0..2
    BY <2>1, <2>2, Zenon
  <2> QED
    BY <2>3
<1>2. /\ Len(more) = n + 1 /\ more[n + 1] = found
      /\ \A i \in 1..n : more[i] = lists[i] /\ lists[i] \in Seq(Memories)
  BY <1>1
<1>3. \A i \in 1..(n + 1) : list(i) \in Seq(Memories)
  BY <1>1, <1>2
<1> HIDE DEF more
<1>4. \A i \in 1..(n + 1) : best(i) \in Seq(Memories)
  BY <1>1, <1>3, BestIsPacked
<1>5. Gathered(lists, total) = CASE n = 0 -> <<>> [] n = 1 -> best(1) [] n = 2 -> best(1) \o best(2)
  BY <1>1, <1>2 DEF Gathered
<1>6. Gathered(more, total) = CASE n = 0 -> best(1) [] n = 1 -> best(1) \o best(2)
                                [] n = 2 -> best(1) \o best(2) \o best(3)
  BY <1>1, <1>2 DEF Gathered
<1>7. BestOf(found, Types[Len(lists) + 1], total) = best(n + 1)
  BY <1>1, <1>2
<1>8. Found(lists) = CASE n = 0 -> <<>> [] n = 1 -> list(1) [] n = 2 -> list(1) \o list(2)
  BY <1>1, <1>2 DEF Found
<1>9. Found(more) = CASE n = 0 -> list(1) [] n = 1 -> list(1) \o list(2)
                      [] n = 2 -> list(1) \o list(2) \o list(3)
  BY <1>1, <1>2 DEF Found
<1> HIDE DEF best, list
<1>10. Gathered(more, total) = Gathered(lists, total) \o best(n + 1)
  <2>1. CASE n = 0
    BY <1>4, <1>5, <1>6, <2>1
  <2>2. CASE n = 1
    BY <1>5, <1>6, <2>2
  <2>3. CASE n = 2
    BY <1>5, <1>6, <2>3
  <2> QED
    BY <1>1, <2>1, <2>2, <2>3
<1>11. list(n + 1) = found
  BY <1>2 DEF list
<1>12. Found(more) = Found(lists) \o found /\ Found(lists) \in Seq(Memories)
  <2>1. CASE n = 0
    BY <1>3, <1>8, <1>11, <1>9, <2>1
  <2>2. CASE n = 1
    <3>1. list(1) \in Seq(Memories) /\ list(2) = found
      BY <1>3, <1>11, <2>2
    <3>2. Found(lists) = list(1) /\ Found(more) = list(1) \o list(2)
      BY <1>8, <1>9, <2>2
    <3> QED
      BY <3>1, <3>2
  <2>3. CASE n = 2
    <3>1. list(1) \in Seq(Memories) /\ list(2) \in Seq(Memories) /\ list(3) = found
      BY <1>3, <1>11, <2>3
    <3>2. Found(lists) = list(1) \o list(2) /\ Found(more) = list(1) \o list(2) \o list(3)
      BY <1>8, <1>9, <2>3
    <3>3. \A a, b \in Seq(Memories) : a \o b \in Seq(Memories)
      OBVIOUS
    <3> QED
      BY <3>1, <3>2, <3>3
  <2> QED
    BY <1>1, <2>1, <2>2, <2>3
<1> QED
  BY <1>7, <1>10, <1>12 DEF more

\* One memory less.
LEMMA OneLess ==
  ASSUME NEW whole \in Seq(Memories), NEW block \in Seq(Memories),
         IsPrefix(block, whole), block # <<>>
  PROVE  /\ Front(block) \in Seq(Memories) /\ Len(Front(block)) = Len(block) - 1
         /\ IsPrefix(Front(block), whole)
         /\ SubSeq(whole, 1, Len(Front(block)) + 1) = block
PROOF
<1>1. PICK n \in Nat : n = Len(block) /\ n >= 1 /\ n <= Len(whole)
  BY DEF IsPrefix
<1>2. \A i \in 1..n : block[i] = whole[i] /\ whole[i] \in Memories
  <2>1. SubSeq(block, 1, n) = SubSeq(whole, 1, n)
    BY <1>1 DEF IsPrefix
  <2>2. \A i \in 1..n : SubSeq(block, 1, n)[i] = block[i] /\ SubSeq(whole, 1, n)[i] = whole[i]
    BY <1>1
  <2> QED
    BY <1>1, <2>1, <2>2
<1>3. Front(block) = SubSeq(block, 1, n - 1)
  BY <1>1 DEF Front
<1>4. PICK less : less = Front(block)
  OBVIOUS
<1>5. less = [i \in 1..(n - 1) |-> whole[i]]
  BY <1>1, <1>2, <1>3, <1>4
<1>6. less \in Seq(Memories) /\ Len(less) = n - 1
  BY <1>1, <1>2, <1>5
<1>7. IsPrefix(less, whole)
  BY <1>1, <1>5, <1>6 DEF IsPrefix
<1>8. SubSeq(whole, 1, n) = block
  BY <1>1, <1>2
<1> QED
  BY <1>1, <1>4, <1>6, <1>7, <1>8

-----------------------------------------------------------------------------
LEMMA BlockInvInit == BlockInit => BlockInv
PROOF
<1> SUFFICES ASSUME BlockInit PROVE BlockInv
  OBVIOUS
<1>1. budget \in Nat
  BY BlockAssumption DEF BlockInit, BlockAssumption
<1>2. Found(candidates) = <<>> /\ Gathered(candidates, budget) = <<>>
  BY DEF BlockInit, Found, Gathered
<1> QED
  BY <1>1, <1>2 DEF BlockInit, BlockInv

LEMMA SearchKeepsBlock == BlockInv /\ SearchNext => BlockInv'
PROOF
<1> SUFFICES ASSUME BlockInv, SearchNext PROVE BlockInv'
  OBVIOUS
<1>1. /\ phase = "search" /\ Len(candidates) < 3 /\ selected = Gathered(candidates, budget)
      /\ budget \in Nat /\ live \subseteq Memories
      /\ candidates \in Seq(Seq(Memories)) /\ selected \in Seq(Memories)
      /\ truncated = Len(Found(candidates)) - Len(selected)
  BY DEF BlockInv, SearchNext
<1>2. PICK n \in 1..3 : n = Len(candidates) + 1
  <2>1. Len(candidates) \in Nat
    BY <1>1
  <2>2. Len(candidates) + 1 \in 1..3
    BY <1>1, <2>1
  <2> QED
    BY <2>2
<1>3. PICK found \in Answers(Types[n]) :
        /\ candidates' = Append(candidates, found)
        /\ selected' = selected \o Packed(found, ShareOf(Types[n]))
        /\ truncated' = truncated + Len(found) - Len(Packed(found, ShareOf(Types[n])))
  BY <1>2 DEF SearchNext
<1>4. found \in Seq(Memories)
  BY <1>1, AnswersAreLists
<1>5. PICK kept \in Seq(Memories) : kept = BestOf(found, Types[n], budget)
  BY <1>1, <1>4, BestIsPacked
<1>6. Packed(found, ShareOf(Types[n])) = kept
  BY <1>1, <1>4, <1>5, BestIsPacked DEF ShareOf
<1>7. /\ Gathered(candidates', budget) = Gathered(candidates, budget) \o kept
      /\ Found(candidates') = Found(candidates) \o found
      /\ Found(candidates) \in Seq(Memories)
  BY <1>1, <1>2, <1>3, <1>4, <1>5, QueryGathers
<1>8. /\ candidates' \in Seq(Seq(Memories)) /\ Len(candidates') = n
      /\ selected' \in Seq(Memories) /\ selected' = Gathered(candidates', budget)
  BY <1>1, <1>2, <1>3, <1>4, <1>6, <1>7
<1>9. truncated' = Len(Found(candidates')) - Len(selected')
  <2>1. \A a, b, c, d \in Seq(Memories) :
          (Len(a) - Len(b)) + Len(c) - Len(d) = Len(a \o c) - Len(b \o d)
    OBVIOUS
  <2>2. truncated' = (Len(Found(candidates)) - Len(selected)) + Len(found) - Len(kept)
    BY <1>1, <1>3, <1>6
  <2>3. selected' = selected \o kept
    BY <1>3, <1>6
  <2> QED
    BY <1>1, <1>4, <1>7, <2>1, <2>2, <2>3
<1>10. budget' = budget /\ live' = live
  BY DEF SearchNext
<1>11. CASE n = 3
  <2>1. phase' = "count" /\ text' = selected'
    BY <1>8, <1>11 DEF SearchNext, Types
  <2>2. Trimmed(selected', Gathered(candidates', budget'), budget')
    <3>1. PICK w \in Seq(Memories) : w = selected' /\ w = Gathered(candidates', budget')
      BY <1>8, <1>10
    <3>2. IsPrefix(w, w) /\ (Len(w) + 1)..Len(w) = {}
      BY DEF IsPrefix
    <3> QED
      BY <3>1, <3>2 DEF Trimmed
  <2> QED
    BY <1>1, <1>8, <1>9, <1>10, <1>11, <2>1, <2>2 DEF BlockInv
<1>12. CASE n # 3
  <2>1. phase' = "search" /\ Len(candidates') < 3
    BY <1>1, <1>2, <1>8, <1>12 DEF SearchNext, Types
  <2> QED
    BY <1>1, <1>8, <1>9, <1>10, <2>1 DEF BlockInv
<1> QED
  BY <1>11, <1>12

LEMMA TrimKeepsBlock == BlockInv /\ Trim => BlockInv'
PROOF
<1> SUFFICES ASSUME BlockInv, Trim PROVE BlockInv'
  OBVIOUS
<1>1. PICK whole : whole = Gathered(candidates, budget)
  OBVIOUS
<1>2. /\ budget \in Nat /\ selected \in Seq(Memories) /\ selected # <<>> /\ text = selected
      /\ Trimmed(selected, whole, budget) /\ Len(candidates) = 3
      /\ truncated = Len(Found(candidates)) - Len(selected)
  BY <1>1 DEF BlockInv, Trim
<1>3. /\ phase = "count" /\ UNCHANGED <<budget, live, phase, candidates>>
      /\ selected' = Front(selected) /\ text' = selected' /\ truncated' = truncated + 1
  BY DEF Trim
<1>4. Exceeds(selected, budget)
  <2>1. PICK by \in Counters : CountBlock(by) /\ token_count' > budget
    BY DEF Trim
  <2>2. token_count' = Count(by, selected)
    BY <1>2, <2>1 DEF CountBlock
  <2> QED
    BY <2>1, <2>2 DEF Exceeds
<1>5. whole \in Seq(Memories)
  BY <1>1, <1>3 DEF BlockInv
<1>6. IsPrefix(selected, whole)
  BY <1>2 DEF Trimmed
<1>7. PICK less : less = Front(selected)
  OBVIOUS
<1>8. /\ less \in Seq(Memories) /\ Len(less) = Len(selected) - 1
      /\ IsPrefix(less, whole) /\ SubSeq(whole, 1, Len(less) + 1) = selected
  BY <1>2, <1>5, <1>6, <1>7, OneLess
<1>9. Trimmed(less, whole, budget)
  <2>1. ASSUME NEW n \in (Len(less) + 1)..Len(whole) PROVE Exceeds(SubSeq(whole, 1, n), budget)
    <3>1. PICK l \in Nat : l = Len(selected)
      BY <1>2
    <3>2. Len(less) + 1 = l
      BY <1>8, <3>1
    <3>3. CASE n = l
      BY <1>4, <1>8, <3>2, <3>3
    <3>4. CASE n # l
      <4>1. n \in (Len(selected) + 1)..Len(whole)
        BY <1>5, <3>1, <3>2, <3>4
      <4> QED
        BY <1>2, <4>1 DEF Trimmed
    <3> QED
      BY <3>3, <3>4
  <2> QED
    BY <1>8, <2>1 DEF Trimmed
<1>10. truncated' = Len(Found(candidates)) - Len(less)
  <2>1. Found(candidates) \in Seq(Memories)
    <3>1. \A i \in 1..3 : candidates[i] \in Seq(Memories)
      <4>1. candidates \in Seq(Seq(Memories)) /\ Len(candidates) = 3
        BY <1>2 DEF BlockInv
      <4> QED
        BY <4>1, ElementOfSeq
    <3>2. PICK a, b, c \in Seq(Memories) : a = candidates[1] /\ b = candidates[2] /\ c = candidates[3]
      BY <3>1
    <3>3. Found(candidates) = a \o b \o c
      BY <1>2, <3>2 DEF Found
    <3>4. a \o b \o c \in Seq(Memories)
      OBVIOUS
    <3> QED
      BY <3>3, <3>4
  <2>2. PICK l, k \in Nat : l = Len(Found(candidates)) /\ k = Len(selected)
    BY <1>2, <2>1
  <2>3. truncated' = (l - k) + 1 /\ Len(less) = k - 1
    BY <1>2, <1>3, <1>8, <2>2
  <2> QED
    BY <2>2, <2>3
<1>11. selected' = less /\ text' = less /\ Gathered(candidates', budget') = whole
  BY <1>1, <1>3, <1>7
<1>12. live \subseteq Memories /\ candidates \in Seq(Seq(Memories))
  BY DEF BlockInv
<1> QED
  BY <1>2, <1>3, <1>5, <1>8, <1>9, <1>10, <1>11, <1>12 DEF BlockInv

LEMMA ReturnKeepsBlock == BlockInv /\ Return => BlockInv'
PROOF
<1> SUFFICES ASSUME BlockInv, Return PROVE BlockInv'
  OBVIOUS
<1>1. /\ budget \in Nat /\ selected \in Seq(Memories) /\ text = selected /\ phase = "count"
  BY DEF BlockInv, Return
<1>2. PICK by \in Counters : CountBlock(by)
  BY DEF Return
<1>3. token_count' = Count(by, selected) /\ counted' = by
  BY <1>1, <1>2 DEF CountBlock
<1>4. token_count' <= budget
  <2>1. CASE selected = <<>>
    BY <1>1, <1>3, <2>1, NothingCounted
  <2>2. CASE selected # <<>>
    BY <2>2 DEF Return
  <2> QED
    BY <2>1, <2>2
<1>5. phase' = "loaded" /\ UNCHANGED <<budget, live, candidates, selected, truncated, text>>
  BY DEF Return
<1>6. token_count' = Count(counted', text')
  BY <1>1, <1>3, <1>5
<1> QED
  BY <1>1, <1>4, <1>5, <1>6 DEF BlockInv

LEMMA BlockInvStep == BlockInv /\ [BlockNext]_blockVars => BlockInv'
PROOF
<1> SUFFICES ASSUME BlockInv, [BlockNext]_blockVars PROVE BlockInv'
  OBVIOUS
<1>1. CASE ReadProfile
  <2>1. /\ phase = "profile" /\ phase' = "search" /\ Len(candidates) = 0
        /\ UNCHANGED <<budget, live, candidates, selected, truncated, text, token_count, counted>>
    BY <1>1 DEF ReadProfile, BlockInv
  <2> QED
    BY <2>1 DEF BlockInv
<1>2. CASE SearchNext
  BY <1>2, SearchKeepsBlock
<1>3. CASE Trim
  BY <1>3, TrimKeepsBlock
<1>4. CASE Return
  BY <1>4, ReturnKeepsBlock
<1>5. CASE Raise
  <2>1. /\ phase' = "raised"
        /\ UNCHANGED <<budget, live, candidates, selected, truncated, text, token_count, counted>>
    BY <1>5 DEF Raise
  <2> QED
    BY <2>1 DEF BlockInv
<1>6. ASSUME NEW m \in Memories, Change(m) PROVE BlockInv'
  <2>1. /\ live' \subseteq Memories
        /\ UNCHANGED <<budget, phase, candidates, selected, truncated, text, token_count, counted>>
    BY <1>6 DEF Change, BlockInv
  <2> QED
    BY <2>1 DEF BlockInv
<1>7. CASE UNCHANGED blockVars
  BY <1>7 DEF blockVars, BlockInv
<1> QED
  BY <1>1, <1>2, <1>3, <1>4, <1>5, <1>6, <1>7 DEF BlockNext

\* The invariant of load_context, whatever else commits between its queries.
THEOREM BlockInvariant == BlockSpec => []BlockInv
PROOF
<1> QED
  BY BlockInvInit, BlockInvStep, PTL DEF BlockSpec

\* The block that is returned is the one that was counted last and that count
\* is within the budget, for any memories, dense or not, shares and budget: a
\* block that the API counted fits, one that was estimated fits by the estimate
\* (load_context's trim loop).
THEOREM BlockFitsBudget == BlockSpec => []FitsBudget
PROOF
<1>1. BlockInv => FitsBudget
  BY DEF BlockInv, FitsBudget
<1> QED
  BY <1>1, BlockInvariant, PTL

\* What is returned of each type is what ranked first, as much as the type's
\* share holds by the estimate, less an end that went memory by memory while the
\* count was over the budget; what is missing is told (_pack, load_context).
THEOREM BlockInRankOrder == BlockSpec => []KeptInRankOrder
PROOF
<1>1. BlockInv => KeptInRankOrder
  <2> SUFFICES ASSUME BlockInv, phase = "loaded" PROVE KeptInRankOrder
    BY DEF KeptInRankOrder
  <2>1. /\ Len(candidates) = 3 /\ Trimmed(selected, Gathered(candidates, budget), budget)
        /\ truncated = Len(Found(candidates)) - Len(selected)
    BY DEF BlockInv
  <2>2. Found(candidates) = candidates[1] \o candidates[2] \o candidates[3]
    BY <2>1 DEF Found
  <2>3. Gathered(candidates, budget) =
          BestOf(candidates[1], Types[1], budget) \o BestOf(candidates[2], Types[2], budget)
            \o BestOf(candidates[3], Types[3], budget)
    BY <2>1 DEF Gathered
  <2> QED
    BY <2>1, <2>2, <2>3 DEF KeptInRankOrder, Trimmed, Exceeds, Over, BestOf, ShareOf
<1> QED
  BY <1>1, BlockInvariant, PTL
=============================================================================
