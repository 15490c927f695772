----------------------------- MODULE Retrieval -----------------------------
(***************************************************************************)
(* app/retrieval/hybrid.py: the ranks of two arms fused.  A score is an    *)
(* exact fraction, a rank is counted from 1, and 0 is the rank of what an  *)
(* arm did not return.                                                     *)
(***************************************************************************)
EXTENDS Integers, Sequences, SequencesExt

CONSTANTS
  RrfK,      \* RRF_K, 60
  ArmLimit   \* ARM_LIMIT, 50

ASSUME FusionAssumption == RrfK \in Nat /\ ArmLimit \in Nat /\ ArmLimit < RrfK + 2

Zero == [num |-> 0, den |-> 1]

\* Mutant: the reciprocal of the rank alone, without k.
PlusUndamped(score, rank) ==
  IF rank = 0 THEN score
  ELSE [num |-> score.num * rank + score.den, den |-> score.den * rank]

\* score + 1 / (k + rank)
Plus(score, rank) ==
  IF rank = 0 THEN score
  ELSE [num |-> score.num * (RrfK + rank) + score.den, den |-> score.den * (RrfK + rank)]

Fused(i, j) == Plus(Plus(Zero, i), j)

Higher(a, b) == a.num * b.den > b.num * a.den

Rank(arm, id) ==
  IF \E r \in DOMAIN arm : arm[r] = id THEN CHOOSE r \in DOMAIN arm : arm[r] = id ELSE 0

\* The best k of two arms, ties by id.
Fuse(dense, sparse, k) ==
  LET score(id) == Fused(Rank(dense, id), Rank(sparse, id))
      before(a, b) == \/ Higher(score(a), score(b))
                      \/ ~Higher(score(b), score(a)) /\ a < b
      ranked == CHOOSE ids \in SetToSeqs(ToSet(dense) \cup ToSet(sparse)) :
                  \A i, j \in DOMAIN ids : i < j => before(ids[i], ids[j])
  IN SubSeq(ranked, 1, IF k < Len(ranked) THEN k ELSE Len(ranked))
=============================================================================
