-------------------------- MODULE MCConsolidation --------------------------
(***************************************************************************)
(* Small instances of Consolidation for TLC.                               *)
(***************************************************************************)
EXTENDS Consolidation, TLC

\* Identities of a kind are interchangeable, and so are runs.
ConsolidationSymmetry ==
  Permutations(EpisodeIds) \cup Permutations(SemanticIds) \cup Permutations(Runs)
=============================================================================
