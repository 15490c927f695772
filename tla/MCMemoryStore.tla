---------------------------- MODULE MCMemoryStore ----------------------------
(***************************************************************************)
(* Small instances of MemoryStore for TLC.                                 *)
(***************************************************************************)
EXTENDS MemoryStore, TLC

\* Identities are interchangeable, and so are contents.
MemorySymmetry == Permutations(Ids) \cup Permutations(Contents)
=============================================================================
