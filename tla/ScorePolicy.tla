----------------------------- MODULE ScorePolicy -----------------------------
(***************************************************************************)
(* What one score means: whether it passes, how it is sent, saved and        *)
(* counted.  The rules are written three times in the SDK: in the transport   *)
(* (eval/platform.py), in the result a caller inspects (eval/results.py) and  *)
(* in the runner's artifact (eval/runner.py, which rebinds the transport's    *)
(* methods); the policy they apply comes from eval/scorers.py.                *)
(*                                                                         *)
(* An optional value is a set of at most one element.                        *)
(***************************************************************************)
EXTENDS Integers, FiniteSets, Functions, Sequences

(* The value of a score.  "n" is the number; for a bool 0 or 1; for a          *)
(* non-finite float, and for a string that spells one, -1, 0 or 1 for          *)
(* -Infinity, NaN and Infinity; 0 for any other string and for an int beyond   *)
(* the range of a float.                                                       *)
Kinds == {"bool", "number", "huge", "nonFinite", "text", "token"}
Values == [kind: Kinds, n: Int]

NonFinite(v) == v.kind = "nonFinite"

\* float(v) raises OverflowError.
Overflows(v) == v.kind = "huge"

\* Mutant: what was written for a non-finite float is left a string.
ReadBackAsText(v) == v

\* serialize_value spells a non-finite float; every such spelling is read back as
\* the float, a string score that happens to be spelled so included.
Written(v)  == IF NonFinite(v) THEN [v EXCEPT !.kind = "token"] ELSE v
ReadBack(v) == IF v.kind = "token" THEN [v EXCEPT !.kind = "nonFinite"] ELSE v

\* IEEE comparisons of a numeric value with a finite threshold; NaN fails both.
AtLeast(v, t) == IF NonFinite(v) THEN v.n = 1 ELSE v.n >= t
AtMost(v, t)  == IF NonFinite(v) THEN v.n = -1 ELSE v.n <= t

-----------------------------------------------------------------------------
(* The declared policy: scorer_metadata, with absent fields omitted.          *)

DefaultDirection(valueType) ==
    IF valueType = {} THEN {}
    ELSE IF valueType = {"categorical"} THEN {"none"} ELSE {"higher_is_better"}

\* The descriptor of a scorer from what its author declared.
Describe(declared) ==
    [name      |-> declared.name,
     direction |-> IF declared.direction # {} THEN declared.direction
                   ELSE DefaultDirection(declared.valueType),
     threshold |-> declared.threshold]

FirstNamed(specs, name) ==
    {specs[i] : i \in {j \in DOMAIN specs : /\ specs[j].name = name
                                            /\ \A k \in 1 .. j - 1 : specs[k].name # name}}
LastNamed(specs, name) ==
    {specs[i] : i \in {j \in DOMAIN specs : /\ specs[j].name = name
                                            /\ \A k \in j + 1 .. Len(specs) : specs[k].name # name}}

\* _score_policy: a lone scorer owns the lone score of a row whatever its name, else
\* the first scorer declared under the score's name does.
Owner(specs, name, single) ==
    IF Len(specs) = 1 /\ single THEN {specs[1]} ELSE FirstNamed(specs, name)

\* _pass_tally looks the name up in a dict: the last scorer declared so wins.
LocalOwner(specs, name, single) ==
    IF Len(specs) = 1 /\ single THEN {specs[1]} ELSE LastNamed(specs, name)

Lower(spec)   == spec.direction = {"lower_is_better"}
Judging(spec) == spec.threshold # {} /\ spec.direction # {"none"}

\* A numeric value against its owner's threshold, in its owner's direction.
Measured(v, owner) ==
    IF ~\E s \in owner : Judging(s) THEN "none"
    ELSE IF \E s \in owner : \E t \in s.threshold :
                IF Lower(s) THEN AtMost(v, t) ELSE AtLeast(v, t)
         THEN "pass" ELSE "fail"

BoolVerdict(v) == IF v.n = 1 THEN "pass" ELSE "fail"

\* _score_passed of the transport and of the runner.
ScorePassed(score, specs, single) ==
    IF score.value.kind = "bool" THEN BoolVerdict(score.value)
    ELSE IF score.value.kind \in {"text", "token"} THEN "none"
    ELSE Measured(score.value, Owner(specs, score.name, single))

\* Mutant: the local verdict takes every row for a row of a single score.
ScoreVerdictAlone(score, specs, single) ==
    IF score.value.kind = "bool" THEN BoolVerdict(score.value)
    ELSE IF score.value.kind \in {"text", "token", "nonFinite"} THEN "none"
    ELSE Measured(score.value, LocalOwner(specs, score.name, TRUE))

\* _score_verdict of the local result, which also leaves a non-finite value out.
ScoreVerdict(score, specs, single) ==
    IF score.value.kind = "bool" THEN BoolVerdict(score.value)
    ELSE IF score.value.kind \in {"text", "token", "nonFinite"} THEN "none"
    ELSE Measured(score.value, LocalOwner(specs, score.name, single))

-----------------------------------------------------------------------------
(* A row: the result of one case.  Its scores are a sequence.                 *)

Single(row) == Len(row.scores) = 1

\* _scores_payload can be built: no value overflows.
Sendable(row) == \A i \in DOMAIN row.scores : ~Overflows(row.scores[i].value)

\* One score on the wire: an error for a non-finite value, else a value with its
\* verdict, in the field of its type.
Entry(score, specs, single) ==
    IF NonFinite(score.value)
    THEN [name |-> score.name, field |-> "error", n |-> 0, passed |-> "none"]
    ELSE [name   |-> score.name,
          field  |-> IF score.value.kind = "bool" THEN "bool_value"
                     ELSE IF score.value.kind = "number" THEN "numeric_value" ELSE "string_value",
          n      |-> score.value.n,
          passed |-> ScorePassed(score, specs, single)]

Entries(row, specs) == [i \in DOMAIN row.scores |-> Entry(row.scores[i], specs, Single(row))]

\* The verdicts the runner writes beside the scores of a case (_score_events).
RunnerVerdicts(row, specs) ==
    [i \in DOMAIN row.scores |-> ScorePassed(row.scores[i], specs, Single(row))]

SavedScore(score)  == [score EXCEPT !.value = Written(score.value)]
LoadedScore(score) == [score EXCEPT !.value = ReadBack(score.value)]

SavedRow(row)  == [row EXCEPT !.scores = [i \in DOMAIN row.scores |-> SavedScore(row.scores[i])]]
LoadedRow(row) == [row EXCEPT !.scores = [i \in DOMAIN row.scores |-> LoadedScore(row.scores[i])]]

-----------------------------------------------------------------------------
(* Counting over the rows of a run, a function from cases to rows.            *)

\* Where the scores of a metric are.
Places(rows, name) ==
    UNION {{<<c, i>> : i \in {j \in DOMAIN rows[c].scores : rows[c].scores[j].name = name}}
              : c \in DOMAIN rows}

\* _pass_tally: how many scores of a metric passed, and how many have a verdict.
PassTally(rows, specs, name) ==
    LET verdict(p) == ScoreVerdict(rows[p[1]].scores[p[2]], specs, Single(rows[p[1]]))
    IN [passed |-> Cardinality({p \in Places(rows, name) : verdict(p) = "pass"}),
        judged |-> Cardinality({p \in Places(rows, name) : verdict(p) # "none"})]

\* aggregate_scores: the mean of a metric, as its sum and its divisor, over the bools
\* and the finite numbers, and the count of everything produced.
Aggregate(rows, name) ==
    LET value(p) == rows[p[1]].scores[p[2]].value
        numeric == {p \in Places(rows, name) : value(p).kind \in {"bool", "number"}}
    IN [sum   |-> SumFunction([p \in numeric |-> value(p).n]),
        over  |-> Cardinality(numeric),
        count |-> Cardinality(Places(rows, name))]
=============================================================================
