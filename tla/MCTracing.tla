----------------------------- MODULE MCTracing -----------------------------
(* A small instance of Tracing for TLC. *)
EXTENDS Tracing, TLC

CONSTANTS t1, t2, s1, s2, s3

\* Threads and spans are only compared.
TracingSymmetry == Permutations({t1, t2}) \cup Permutations({s1, s2, s3})
=============================================================================
