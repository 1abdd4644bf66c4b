-------------------------- MODULE PlatformTransport --------------------------
(***************************************************************************)
(* The reporting transport of an evaluation run (eval/platform.py, class    *)
(* PlatformTransport) and the three platform endpoints it talks to.         *)
(*                                                                         *)
(* The transport is synchronous code run by worker threads: one thread per  *)
(* result POST and one for a lifecycle call (register the run, complete     *)
(* it).  A request can be applied and answered, applied with its answer     *)
(* lost, fail before it is applied, or be rejected; only lifecycle calls    *)
(* are retried.  The platform is external: what it does is read off the     *)
(* requests the SDK sends and off the comments that describe the contract.  *)
(***************************************************************************)
EXTENDS Integers, FiniteSets

CONSTANTS
    Cases,          \* the test cases of the run (test_case_id)
    Scorers,        \* the scorers of the run, by their unique metric name
    RunIds,         \* client run ids: the idempotency keys of registration
    RetryAttempts,  \* PlatformTransport.retry_attempts
    None            \* Python's None, and an absent dict key

ASSUME TransportAssumption ==
    /\ IsFiniteSet(Cases)
    /\ IsFiniteSet(Scorers)
    /\ RunIds # {}  \* a key is a fresh uuid4: there always is one
    /\ RetryAttempts \in Nat \ {0}

VARIABLES
    contrib,      \* _contrib: case -> its contribution to the totals, or None
    callPc,       \* where the thread of the lifecycle call stands
    tries,        \* attempts of the current request that have failed
    clientRunId,  \* the idempotency key create_run sends
    endStatus,    \* the status finish_run was given (None: derive it)
    sums,         \* the totals finish_run has computed so far
    grown,        \* a key entered _contrib while finish_run iterates over it
    post,         \* case -> where the thread POSTing its result stands
    runs,         \* platform: the client run ids that have a run
    runStatus,    \* platform: status of the run
    totals,       \* platform: totals received with /complete
    results       \* platform: case -> the stored result row, or None

transportVars == <<callPc, tries, clientRunId, endStatus, sums, grown>>
platformVars  == <<runs, runStatus, totals, results>>

-----------------------------------------------------------------------------
(* Values.  A scorer yields at most one score here, so the number of scores  *)
(* of a kind is the size of the set of scorers that produced one.            *)

ItemResult == [error: BOOLEAN,               \* the task failed or timed out
               scorerErrors: SUBSET Scorers, \* scorers that raised
               scores: SUBSET Scorers,       \* scorers that produced a score
               nonFinite: SUBSET Scorers]    \* ... whose value is NaN or inf

\* case_status, overridden by record_item_result for a non-finite score.
ItemStatus(item) ==
    IF item.error \/ item.scorerErrors # {} \/ item.nonFinite # {}
    THEN "errored" ELSE "not_scored"

\* The result row on the wire: one score entry per value, per non-finite value
\* (sent as an error) and per scorer error.
Payload(item) == [status     |-> ItemStatus(item),
                  taskError  |-> item.error,
                  values     |-> item.scores \ item.nonFinite,
                  errors     |-> item.nonFinite \cup item.scorerErrors]

\* Mutant: a case whose every score is non-finite counts as scored.
ContributionOfAnyScore(item) ==
    [taskError |-> item.error, scorerErrors |-> item.scorerErrors \cup item.nonFinite,
     scored |-> ~item.error /\ item.scores # {}]

\* What a persisted case adds to the completion totals.
Contribution(item) == [taskError    |-> item.error,
                       scorerErrors |-> item.scorerErrors \cup item.nonFinite,
                       scored       |-> /\ ~item.error
                                        /\ item.scores \ item.nonFinite # {}]

Contributions == [taskError: BOOLEAN, scorerErrors: SUBSET Scorers, scored: BOOLEAN]
Rows == [status: {"errored", "not_scored"}, taskError: BOOLEAN,
         values: SUBSET Scorers, errors: SUBSET Scorers]
Totals == [taskErrors: Nat, scorerErrors: Nat, scored: Nat]
NoTotals == [taskErrors |-> 0, scorerErrors |-> 0, scored |-> 0]

\* None is none of the values it stands beside.
ASSUME NoneAssumption ==
    /\ None \notin RunIds
    /\ None \notin Rows
    /\ None \notin Contributions
    /\ None # "incomplete"

TerminalStatus == {"completed", "completed_with_errors", "incomplete"}

\* The three passes of finish_run over _contrib.values().
CountTaskErrors == Cardinality({c \in Cases : contrib[c] # None /\ contrib[c].taskError})
CountScorerErrors ==
    Cardinality({p \in Cases \X Scorers :
                    contrib[p[1]] # None /\ p[2] \in contrib[p[1]].scorerErrors})
CountScored == Cardinality({c \in Cases : contrib[c] # None /\ contrib[c].scored})

EffectiveStatus ==
    IF endStatus # None THEN endStatus
    ELSE IF sums.taskErrors > 0 \/ sums.scorerErrors > 0
         THEN "completed_with_errors" ELSE "completed"

-----------------------------------------------------------------------------
TransportTypeOK ==
    /\ contrib \in [Cases -> Contributions \cup {None}]
    /\ callPc \in {"idle", "create", "created", "createFailed", "sumTask",
                   "sumScorer", "sumScored", "complete", "completed", "completeFailed"}
    /\ tries \in 0 .. RetryAttempts
    /\ clientRunId \in RunIds \cup {None}
    /\ callPc = "create" => clientRunId \in RunIds
    /\ endStatus \in {None, "incomplete"}
    /\ sums \in Totals
    /\ grown \in BOOLEAN
    /\ post \in [Cases -> {"none", "sending", "applied", "ok", "failed"}]
    /\ runs \in SUBSET RunIds
    /\ runStatus \in {"none", "running"} \cup TerminalStatus
    /\ totals \in Totals
    /\ results \in [Cases -> Rows \cup {None}]

TransportInit ==
    /\ contrib = [c \in Cases |-> None]
    /\ callPc = "idle"
    /\ tries = 0
    /\ clientRunId = None
    /\ endStatus = None
    /\ sums = NoTotals
    /\ grown = FALSE
    /\ post = [c \in Cases |-> "none"]
    /\ runs = {}
    /\ runStatus = "none"
    /\ totals = NoTotals
    /\ results = [c \in Cases |-> None]

-----------------------------------------------------------------------------
(* Lifecycle requests: _request_with_retry around one POST.                  *)

\* Mutant: the number of attempts is not bounded.
RetryUncounted(failedPc) == tries' = tries + 1 /\ UNCHANGED callPc

\* A transient failure: sleep and try again, or give up after the last attempt.
RetryOr(failedPc) ==
    IF tries + 1 < RetryAttempts
    THEN tries' = tries + 1 /\ UNCHANGED callPc
    ELSE tries' = 0 /\ callPc' = failedPc

\* create_run is entered with a key; the key is chosen once, before any attempt.
CreateRun(key) ==
    /\ callPc = "idle"
    /\ callPc' = "create"
    /\ tries' = 0
    /\ clientRunId' = key
    /\ UNCHANGED <<contrib, endStatus, sums, grown, post, platformVars>>

\* Mutant: every attempt carries a key of its own.
RegisterFreshKey ==
    /\ \E key \in RunIds : runs' = runs \cup {key}
    /\ runStatus' = IF runStatus = "none" THEN "running" ELSE runStatus
    /\ UNCHANGED <<totals, results>>

\* The platform's get-or-create of a run by its client run id.
RegisterRun ==
    /\ runs' = runs \cup {clientRunId}
    /\ runStatus' = IF runStatus = "none" THEN "running" ELSE runStatus
    /\ UNCHANGED <<totals, results>>

\* One attempt of the registration request.
CreateAttempt ==
    /\ callPc = "create"
    /\ \/ RegisterRun /\ callPc' = "created" /\ tries' = 0
       \/ RegisterRun /\ RetryOr("createFailed")            \* answer lost
       \/ UNCHANGED platformVars /\ RetryOr("createFailed") \* never applied
       \/ UNCHANGED platformVars /\ callPc' = "createFailed" /\ tries' = 0
    /\ UNCHANGED <<contrib, clientRunId, endStatus, sums, grown, post>>

\* Mutant: the terminal status is always derived from the error counts.
FinishRunDerived(status) ==
    /\ callPc = "idle"
    /\ callPc' = "sumTask"
    /\ tries' = 0
    /\ endStatus' = None
    /\ sums' = NoTotals
    /\ grown' = FALSE
    /\ UNCHANGED <<contrib, clientRunId, post, platformVars>>

\* finish_run is entered; its first pass over _contrib begins.
FinishRun(status) ==
    /\ callPc = "idle"
    /\ callPc' = "sumTask"
    /\ tries' = 0
    /\ endStatus' = status
    /\ sums' = NoTotals
    /\ grown' = FALSE
    /\ UNCHANGED <<contrib, clientRunId, post, platformVars>>

\* A pass over _contrib.values() ends.  If another thread inserted a key since
\* the pass began, the iterator may notice it and raise RuntimeError, which no
\* retry covers; otherwise the next pass begins.
SumPass(pc, next, summed) ==
    /\ callPc = pc
    /\ \/ /\ sums' = summed
          /\ callPc' = next
       \/ /\ grown
          /\ callPc' = "completeFailed"
          /\ UNCHANGED sums
    /\ grown' = FALSE
    /\ UNCHANGED <<contrib, tries, clientRunId, endStatus, post, platformVars>>

SumContributions ==
    \/ SumPass("sumTask", "sumScorer", [sums EXCEPT !.taskErrors = CountTaskErrors])
    \/ SumPass("sumScorer", "sumScored", [sums EXCEPT !.scorerErrors = CountScorerErrors])
    \/ SumPass("sumScored", "complete", [sums EXCEPT !.scored = CountScored])

\* The platform takes the completion: a replay carries the same body.
StoreCompletion ==
    /\ runStatus' = EffectiveStatus
    /\ totals' = sums
    /\ UNCHANGED <<runs, results>>

\* One attempt of the completion request.
CompleteAttempt ==
    /\ callPc = "complete"
    /\ \/ StoreCompletion /\ callPc' = "completed" /\ tries' = 0
       \/ StoreCompletion /\ RetryOr("completeFailed")
       \/ UNCHANGED platformVars /\ RetryOr("completeFailed")
       \/ UNCHANGED platformVars /\ callPc' = "completeFailed" /\ tries' = 0
    /\ UNCHANGED <<contrib, clientRunId, endStatus, sums, grown, post>>

-----------------------------------------------------------------------------
(* record_item_result of case c: one POST, never retried.                    *)

\* The thread holds the request: nothing has reached the platform.
SubmitPost(c) ==
    post' = [post EXCEPT ![c] = "sending"]

\* The request fails before it is applied: refused, rejected, or the body could
\* not be built.
PostNotApplied(c) ==
    /\ post[c] = "sending"
    /\ post' = [post EXCEPT ![c] = "failed"]
    /\ UNCHANGED <<contrib, transportVars, platformVars>>

\* The platform upserts the row.
PostApplied(c, item) ==
    /\ post[c] = "sending"
    /\ post' = [post EXCEPT ![c] = "applied"]
    /\ results' = [results EXCEPT ![c] = Payload(item)]
    /\ UNCHANGED <<contrib, transportVars, runs, runStatus, totals>>

\* The answer is lost (read timeout, reset): the POST raises although applied.
PostAnswerLost(c) ==
    /\ post[c] = "applied"
    /\ post' = [post EXCEPT ![c] = "failed"]
    /\ UNCHANGED <<contrib, transportVars, platformVars>>

\* The answer arrives and the contribution is recorded.
PostReturns(c, item) ==
    /\ post[c] = "applied"
    /\ post' = [post EXCEPT ![c] = "ok"]
    /\ contrib' = [contrib EXCEPT ![c] = Contribution(item)]
    /\ grown' = (grown \/ contrib[c] = None)
    /\ UNCHANGED <<callPc, tries, clientRunId, endStatus, sums, platformVars>>

=============================================================================
