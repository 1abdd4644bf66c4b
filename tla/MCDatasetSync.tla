---------------------------- MODULE MCDatasetSync ----------------------------
(* A small instance of DatasetSync for TLC. *)
EXTENDS DatasetSync, TLC

CONSTANTS i1, v1, v2, n1, n2

\* Values and names are only compared.
DataSymmetry == Permutations({v1, v2}) \cup Permutations({n1, n2})
=============================================================================
