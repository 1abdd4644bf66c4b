------------------------------- MODULE MCUpload -------------------------------
(* Small instances of Upload for TLC. *)
EXTENDS Upload, TLC

CONSTANTS c1, c2, r1, r2

TwoCases == <<c1, c2>>

Number(x)  == [kind |-> "number", n |-> x]
Float(x)   == [kind |-> "nonFinite", n |-> x]
Huge       == [kind |-> "huge", n |-> 0]
Flag       == [kind |-> "bool", n |-> 1]
Word       == [kind |-> "text", n |-> 0]
Score(m, v) == [name |-> m, value |-> v]
Row(s)      == [error |-> FALSE, scorerErrors |-> {}, scores |-> s, text |-> "given"]

Rows_ == {
    Row(<<Score("quality", Number(1))>>),
    Row(<<Score("quality", Number(0)), Score("latency", Number(2))>>),
    Row(<<Score("latency", Number(0)), Score("quality", Float(1))>>),
    [Row(<<Score("latency", Flag), Score("quality", Word)>>) EXCEPT !.scorerErrors = {"other"}],
    Row(<<Score("other", Number(1))>>),
    Row(<<Score("quality", Huge)>>),
    [Row(<<>>) EXCEPT !.error = TRUE]}

Declared(m, t, d, vt) == [name |-> m, threshold |-> t, direction |-> d, valueType |-> vt]

Quality == Declared("quality", {1}, {}, {"numeric"})
Latency == Declared("latency", {1}, {"lower_is_better"}, {})
Specs_ == {<<Quality>>, <<Quality, Latency>>,
           <<Declared("quality", {}, {}, {}), Declared("latency", {1}, {}, {"categorical"})>>}

\* The names of the metrics above.
Metrics == {"quality", "latency", "other"}

\* The idempotency keys are only compared.
KeySymmetry == Permutations(RunIds)
=============================================================================
