------------------------------ MODULE MCIngest ------------------------------
(***************************************************************************)
(* Small instances of Ingest for TLC.                                      *)
(***************************************************************************)
EXTENDS Ingest, TLC

\* Pull requests are interchangeable.
IngestSymmetry == Permutations(PRs)
=============================================================================
