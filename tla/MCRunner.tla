------------------------------ MODULE MCRunner ------------------------------
(* A small instance of Runner for TLC. *)
EXTENDS Runner, TLC

CONSTANTS c1, c2

\* Cases are only compared.
CaseSymmetry == Permutations({c1, c2})
=============================================================================
