------------------------------ MODULE MCEvalRun ------------------------------
(* Small instances of EvalRun for TLC. *)
EXTENDS EvalRun, TLC

CONSTANTS c1, c2, s1, s2, r1, r2

OneScorer  == <<s1>>
TwoScorers == <<s1, s2>>
AllSync    == {0, 1, 2}
SyncScorer == {1}

\* Cases and idempotency keys are only compared.
Symmetries == Permutations(Cases) \cup Permutations(RunIds)
=============================================================================
