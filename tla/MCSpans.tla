------------------------------ MODULE MCSpans ------------------------------
(***************************************************************************)
(* Instance of Judge for TLC, and through it of SpanTree.                  *)
(***************************************************************************)
EXTENDS Judge

LowerCase == {FALSE}
=============================================================================
