----------------------------- MODULE ReportedRun -----------------------------
(***************************************************************************)
(* What an evaluation promises to the platform and to its caller, without   *)
(* coroutines, threads, retries or timeouts: a run is registered once, rows  *)
(* are stored or counted as missed, one terminal status is given, and a      *)
(* result is returned only for a run all of whose cases are accounted for,   *)
(* after which the platform sees nothing more of it.                         *)
(***************************************************************************)
CONSTANT Cases

VARIABLES
    stored,   \* the cases whose row the platform holds
    missed,   \* the cases counted as not reported
    status,   \* the status of the run on the platform
    outcome   \* what the evaluation gave its caller

vars == <<stored, missed, status, outcome>>

Init ==
    /\ stored = {}
    /\ missed = {}
    /\ status = "none"
    /\ outcome = "none"

\* May come late, after the caller gave up.
Register ==
    /\ outcome # "returned"
    /\ status = "none"
    /\ status' = "running"
    /\ UNCHANGED <<stored, missed, outcome>>

Store(c) ==
    /\ outcome # "returned"
    /\ status # "none"
    /\ stored' = stored \cup {c}
    /\ UNCHANGED <<missed, status, outcome>>

Miss(c) ==
    /\ outcome # "returned"
    /\ status # "none"
    /\ missed' = missed \cup {c}
    /\ UNCHANGED <<stored, status, outcome>>

\* A status other than "incomplete" says that every case is accounted for.
Complete(s) ==
    /\ status = "running"
    /\ s # "incomplete" => stored \cup missed = Cases
    /\ status' = s
    /\ UNCHANGED <<stored, missed, outcome>>

Return ==
    /\ outcome = "none"
    /\ status \in {"completed", "completed_with_errors"}
    /\ outcome' = "returned"
    /\ UNCHANGED <<stored, missed, status>>

Raise ==
    /\ outcome = "none"
    /\ outcome' = "raised"
    /\ UNCHANGED <<stored, missed, status>>

Next ==
    \/ Register \/ Return \/ Raise
    \/ \E c \in Cases : Store(c) \/ Miss(c)
    \/ \E s \in {"completed", "completed_with_errors", "incomplete"} : Complete(s)

Spec == Init /\ [][Next]_vars
=============================================================================
