--------------------------- MODULE MCClaudeAgent ---------------------------
(* A small instance of ClaudeAgent for TLC. *)
EXTENDS ClaudeAgent, TLC

CONSTANTS ag1, ag2, m1, r1, r2

\* The ids of subagents and the streams are only compared.
AgentSymmetry == Permutations(Agents) \cup Permutations(Readers)
=============================================================================
