------------------------------- MODULE EvalRun -------------------------------
(***************************************************************************)
(* One evaluation run (eval/engine.py: _run_async_inner, _run_case,         *)
(* _bounded, _await_or_run) reporting through a PlatformTransport.          *)
(*                                                                         *)
(* The actors are the main coroutine, one coroutine per case (on one event  *)
(* loop), the process-wide pool of threads that runs plain (sync) callables, *)
(* the worker threads of the transport, and the user, who may interrupt.    *)
(* A coroutine runs without interruption from one await to the next: that   *)
(* is the grain of the actions.                                             *)
(***************************************************************************)
EXTENDS PlatformTransport, Sequences

CONSTANTS
    ScorerSeq,       \* the scorers in the order the engine calls them
    SyncSteps,       \* the steps that are plain functions (0: the task)
    MaxConcurrency,  \* evaluate(max_concurrency=...)
    PoolSize,        \* threads of the process-wide pool, fixed by its first run
    Timed,           \* evaluate(timeout=...) was given
    OwnLoop,         \* evaluate() / run(): asyncio.run; else await run_async()
    MayAbort,        \* a hook may raise, a callable may raise a BaseException
    MaxInterrupts,   \* bound: cancellations of the main coroutine
    MaxOldOrphans    \* bound: pool threads still held by an earlier run

ASSUME EngineAssumption ==
    /\ ScorerSeq \in Seq(Scorers)
    /\ Len(ScorerSeq) > 0
    /\ MaxConcurrency \in Nat \ {0}
    /\ PoolSize \in Nat \ {0}
    /\ SyncSteps \in SUBSET Nat
    /\ Timed \in BOOLEAN
    /\ OwnLoop \in BOOLEAN
    /\ MayAbort \in BOOLEAN
    /\ MaxInterrupts \in Nat
    /\ MaxOldOrphans \in Nat

VARIABLES
    mainPc,      \* where the main coroutine stands
    bodyError,   \* body_error is set: the cases were not all gathered
    outcome,     \* what the evaluation ended with
    completion,  \* a completion failure is the error, or a note on the error
    interrupts,  \* cancellations so far
    casePc,      \* where the coroutine of each case stands
    step,        \* the callable the case is at: 0 the task, k its k-th scorer
    res,         \* the result of each case, as far as it is known
    dropped,     \* dropped_results: the cases whose POST raised
    queue,       \* calls submitted to the pool, not yet started (a set: the pool
                 \* takes them in any order, which includes its own, FIFO)
    live,        \* calls whose user code is executing
    oldOrphans   \* pool threads an earlier run's timed-out calls still hold

mainVars == <<mainPc, bodyError, outcome, completion, interrupts>>
caseVars == <<casePc, step, res, dropped>>
poolVars == <<queue, live, oldOrphans>>
vars == <<mainVars, caseVars, poolVars, contrib, transportVars, post, platformVars>>

LastStep == Len(ScorerSeq)
Steps == 0 .. LastStep
EmptyResult == [error |-> FALSE, scorerErrors |-> {}, scores |-> {}, nonFinite |-> {}]

InSlot(c)   == casePc[c] \in {"registering", "calling", "reporting"}
Ended(c)    == casePc[c] \in {"done", "raised", "cancelled"}
Awaits(c, k) == casePc[c] = "calling" /\ step[c] = k
InPool(calls) == {x \in calls : x[2] \in SyncSteps}
InFlight(c) == post[c] \in {"sending", "applied"}
CallInFlight == callPc \in {"create", "sumTask", "sumScorer", "sumScored", "complete"}

-----------------------------------------------------------------------------
TypeOK ==
    /\ TransportTypeOK
    /\ mainPc \in {"start", "creating", "running", "finishing", "teardown",
                   "closing", "ended"}
    /\ bodyError \in BOOLEAN
    /\ outcome \in {"none", "returned", "raised"}
    /\ completion \in {"none", "raised", "noted"}
    /\ interrupts \in 0 .. MaxInterrupts
    /\ casePc \in [Cases -> {"waiting", "registering", "calling", "reporting",
                             "done", "raised", "cancelled"}]
    /\ step \in [Cases -> Steps]
    /\ res \in [Cases -> ItemResult]
    /\ dropped \in SUBSET Cases
    /\ queue \in SUBSET (Cases \X Steps)
    /\ live \in SUBSET (Cases \X Steps)
    /\ oldOrphans \in 0 .. MaxOldOrphans

Init ==
    /\ TransportInit
    /\ mainPc = "start"
    /\ bodyError = FALSE
    /\ outcome = "none"
    /\ completion = "none"
    /\ interrupts = 0
    /\ casePc = [c \in Cases |-> "waiting"]
    /\ step = [c \in Cases |-> 0]
    /\ res = [c \in Cases |-> EmptyResult]
    /\ dropped = {}
    /\ queue = {}
    /\ live = {}
    /\ oldOrphans \in 0 .. MaxOldOrphans

-----------------------------------------------------------------------------
(* The pool and the calls of user code.                                      *)

\* _await_or_run: a plain callable goes to the pool, a coroutine runs at once.
Submit(c, k) ==
    IF k \in SyncSteps
    THEN queue' = queue \cup {<<c, k>>} /\ UNCHANGED live
    ELSE live' = live \cup {<<c, k>>} /\ UNCHANGED queue

\* A pool thread takes the next call.
PoolStart ==
    /\ Cardinality(InPool(live)) + oldOrphans < PoolSize
    /\ \E x \in queue :
          /\ live' = live \cup {x}
          /\ queue' = queue \ {x}
    /\ UNCHANGED <<mainVars, caseVars, oldOrphans, contrib, transportVars, post, platformVars>>

\* User code that nobody awaits any more returns, and frees what it held.
OrphanReturns(c, k) ==
    /\ <<c, k>> \in live
    /\ ~Awaits(c, k)
    /\ live' = live \ {<<c, k>>}
    /\ UNCHANGED <<mainVars, caseVars, queue, oldOrphans, contrib, transportVars,
                   post, platformVars>>

OldOrphanReturns ==
    /\ oldOrphans > 0
    /\ oldOrphans' = oldOrphans - 1
    /\ UNCHANGED <<mainVars, caseVars, queue, live, contrib, transportVars, post, platformVars>>

-----------------------------------------------------------------------------
(* The coroutine of one case: _run_case.                                     *)

LoopRuns == mainPc \in {"running", "finishing"} \/ (mainPc = "ended" /\ ~OwnLoop)

\* The semaphore lets the case in; its start hook runs; register_item, a no-op
\* on the platform whose failure is swallowed, is handed to a thread.
Acquire(c) ==
    /\ LoopRuns
    /\ casePc[c] = "waiting"
    /\ Cardinality({d \in Cases : InSlot(d)}) < MaxConcurrency
    /\ \/ casePc' = [casePc EXCEPT ![c] = "registering"]
       \/ MayAbort /\ casePc' = [casePc EXCEPT ![c] = "raised"]
    /\ UNCHANGED <<mainVars, step, res, dropped, poolVars, contrib, transportVars,
                   post, platformVars>>

StartTask(c) ==
    /\ LoopRuns
    /\ casePc[c] = "registering"
    /\ casePc' = [casePc EXCEPT ![c] = "calling"]
    /\ Submit(c, 0)
    /\ UNCHANGED <<mainVars, step, res, dropped, oldOrphans, contrib, transportVars,
                   post, platformVars>>

\* The case is over but for its report: the result is handed to a POST thread.
Report(c, item) ==
    /\ res' = [res EXCEPT ![c] = item]
    /\ casePc' = [casePc EXCEPT ![c] = "reporting"]
    /\ SubmitPost(c)

\* After step k: the next scorer is called, or the case is reported.
Continue(c, k, item) ==
    IF k < LastStep
    THEN /\ res' = [res EXCEPT ![c] = item]
         /\ step' = [step EXCEPT ![c] = k + 1]
         /\ IF k + 1 \in SyncSteps
            THEN queue' = queue \cup {<<c, k + 1>>} /\ live' = live \ {<<c, k>>}
            ELSE live' = (live \ {<<c, k>>}) \cup {<<c, k + 1>>} /\ UNCHANGED queue
         /\ UNCHANGED <<casePc, post>>
    ELSE /\ Report(c, item)
         /\ live' = live \ {<<c, k>>}
         /\ UNCHANGED <<step, queue>>

\* The task returns an output, or raises: then there is nothing to score.
TaskReturns(c) ==
    /\ LoopRuns
    /\ Awaits(c, 0)
    /\ <<c, 0>> \in live
    /\ \/ Continue(c, 0, res[c])
       \/ /\ Report(c, [res[c] EXCEPT !.error = TRUE])
          /\ live' = live \ {<<c, 0>>}
          /\ UNCHANGED <<step, queue>>
    /\ UNCHANGED <<mainVars, dropped, oldOrphans, contrib, transportVars, platformVars>>

\* What scorer s can do to the result: no score, a score, a non-finite score, or
\* an exception, which is its own error only.
ScorerOutcomes(item, s) ==
    {item,
     [item EXCEPT !.scores = @ \cup {s}],
     [item EXCEPT !.scores = @ \cup {s}, !.nonFinite = @ \cup {s}],
     [item EXCEPT !.scorerErrors = @ \cup {s}]}

ScorerReturns(c) ==
    /\ LoopRuns
    /\ \E k \in 1 .. LastStep :
          /\ Awaits(c, k)
          /\ <<c, k>> \in live
          /\ \E item \in ScorerOutcomes(res[c], ScorerSeq[k]) : Continue(c, k, item)
    /\ UNCHANGED <<mainVars, dropped, oldOrphans, contrib, transportVars, platformVars>>

\* User code raises a BaseException, such as CancelledError: no handler of the
\* case catches it.
CallAborts(c) ==
    /\ MayAbort
    /\ LoopRuns
    /\ casePc[c] = "calling"
    /\ <<c, step[c]>> \in live
    /\ live' = live \ {<<c, step[c]>>}
    /\ casePc' = [casePc EXCEPT ![c] = "raised"]
    /\ UNCHANGED <<mainVars, step, res, dropped, queue, oldOrphans, contrib,
                   transportVars, post, platformVars>>

\* Mutant: the scores collected before the deadline are kept.
TimedOutKeepsScores(item) == [item EXCEPT !.error = TRUE]

\* The result of a case whose deadline passed: an error, and no scores.
TimedOut(item) == [item EXCEPT !.error = TRUE, !.scores = {}, !.nonFinite = {}]

\* Mutant: the queued call of a timed-out case stays in the pool.
WithdrawNothing(c) == queue

\* Cancelling a call that is still queued withdraws it from the pool.
Withdraw(c) == {x \in queue : x[1] # c}

\* The shared deadline of the case passes (_bounded).  A queued call is withdrawn;
\* a running sync call keeps its thread; a coroutine settles, or swallows its
\* cancellation and is abandoned.
Timeout(c) ==
    /\ Timed
    /\ LoopRuns
    /\ casePc[c] = "calling"
    /\ queue' = Withdraw(c)
    /\ \/ UNCHANGED live
       \/ step[c] \notin SyncSteps /\ live' = live \ {<<c, step[c]>>}
    /\ Report(c, TimedOut(res[c]))
    /\ UNCHANGED <<mainVars, step, dropped, oldOrphans, contrib, transportVars, platformVars>>

\* Mutant: a failed report is swallowed.
CaseCompletesUncounted(c) ==
    /\ LoopRuns
    /\ casePc[c] = "reporting"
    /\ post[c] \in {"ok", "failed"}
    /\ casePc' = [casePc EXCEPT ![c] = "done"]
    /\ UNCHANGED <<mainVars, step, res, dropped, poolVars, contrib, transportVars, post,
                   platformVars>>

\* The report settled; a failed one is counted as dropped.  The completion hook
\* runs and the case returns its result, leaving the semaphore.
CaseCompletes(c) ==
    /\ LoopRuns
    /\ casePc[c] = "reporting"
    /\ post[c] \in {"ok", "failed"}
    /\ dropped' = IF post[c] = "failed" THEN dropped \cup {c} ELSE dropped
    /\ \/ casePc' = [casePc EXCEPT ![c] = "done"]
       \/ MayAbort /\ casePc' = [casePc EXCEPT ![c] = "raised"]
    /\ UNCHANGED <<mainVars, step, res, poolVars, contrib, transportVars, post, platformVars>>

-----------------------------------------------------------------------------
(* The main coroutine: _run_async_inner.                                     *)

\* Every case that is not over is cancelled; a POST no thread has begun is
\* withdrawn with it, the others go on.
CancelCases ==
    /\ casePc' = [c \in Cases |-> IF Ended(c) THEN casePc[c] ELSE "cancelled"]
    /\ \E w \in SUBSET {c \in Cases : post[c] = "sending" /\ ~Ended(c)} :
          post' = [c \in Cases |-> IF c \in w THEN "none" ELSE post[c]]

StartRun ==
    /\ mainPc = "start"
    /\ mainPc' = "creating"
    /\ \E key \in RunIds : CreateRun(key)
    /\ UNCHANGED <<bodyError, outcome, completion, interrupts, caseVars, poolVars>>

CreateReturns ==
    /\ mainPc = "creating"
    /\ callPc = "created"
    /\ callPc' = "idle"
    /\ mainPc' = "running"
    /\ UNCHANGED <<bodyError, outcome, completion, interrupts, caseVars, poolVars, contrib,
                   tries, clientRunId, endStatus, sums, grown, post, platformVars>>

AfterBody == IF OwnLoop THEN "teardown" ELSE "ended"

\* Registration failed, or it succeeded and on_run_start or the progress reporter
\* raised: the error propagates before any case runs.  In the second case the run stays
\* "running" on the platform.
CreateRaises ==
    /\ mainPc = "creating"
    /\ callPc = "createFailed" \/ (MayAbort /\ callPc = "created")
    /\ callPc' = "idle"
    /\ mainPc' = AfterBody
    /\ outcome' = "raised"
    /\ casePc' = [c \in Cases |-> "cancelled"]
    /\ UNCHANGED <<bodyError, completion, interrupts, step, res, dropped, poolVars, contrib,
                   tries, clientRunId, endStatus, sums, grown, post, platformVars>>

\* Mutant: the first case to return completes the run.
GatherReturnsFirst ==
    /\ mainPc = "running"
    /\ \E c \in Cases : casePc[c] = "done"
    /\ mainPc' = "finishing"
    /\ FinishRun(None)
    /\ UNCHANGED <<bodyError, outcome, completion, interrupts, caseVars, poolVars>>

\* The gather returns once every case returned.
GatherReturns ==
    /\ mainPc = "running"
    /\ \A c \in Cases : casePc[c] = "done"
    /\ mainPc' = "finishing"
    /\ FinishRun(None)
    /\ UNCHANGED <<bodyError, outcome, completion, interrupts, caseVars, poolVars>>

\* The gather raises as soon as one case raised; its siblings are not cancelled.
GatherRaises ==
    /\ mainPc = "running"
    /\ \E c \in Cases : casePc[c] = "raised"
    /\ mainPc' = "finishing"
    /\ bodyError' = TRUE
    /\ FinishRun("incomplete")
    /\ UNCHANGED <<outcome, completion, interrupts, caseVars, poolVars>>

\* Mutant: a return in the finally block swallows the body's error.
FinishSwallowsError ==
    /\ mainPc = "finishing"
    /\ callPc = "completed"
    /\ callPc' = "idle"
    /\ mainPc' = AfterBody
    /\ outcome' = "returned"
    /\ UNCHANGED <<bodyError, completion, interrupts, caseVars, poolVars, contrib, tries,
                   clientRunId, endStatus, sums, grown, post, platformVars>>

\* finish_run returned: the body's error, if any, propagates.
FinishReturns ==
    /\ mainPc = "finishing"
    /\ callPc = "completed"
    /\ callPc' = "idle"
    /\ mainPc' = AfterBody
    /\ outcome' = IF bodyError THEN "raised" ELSE "returned"
    /\ UNCHANGED <<bodyError, completion, interrupts, caseVars, poolVars, contrib, tries,
                   clientRunId, endStatus, sums, grown, post, platformVars>>

\* Mutant: a completion failure is not added to the error of the body.
CompletionFailedSilently ==
    /\ mainPc' = AfterBody
    /\ outcome' = "raised"
    /\ completion' = IF bodyError THEN "none" ELSE "raised"

\* A completion failure is the error of a run that had none, else a note on it.
CompletionFailed ==
    /\ mainPc' = AfterBody
    /\ outcome' = "raised"
    /\ completion' = IF bodyError THEN "noted" ELSE "raised"

FinishRaises ==
    /\ mainPc = "finishing"
    /\ callPc = "completeFailed"
    /\ callPc' = "idle"
    /\ CompletionFailed
    /\ UNCHANGED <<bodyError, interrupts, caseVars, poolVars, contrib, tries,
                   clientRunId, endStatus, sums, grown, post, platformVars>>

-----------------------------------------------------------------------------
(* Interrupts (SIGINT, or a cancellation of the main task) and loop teardown. *)

\* During registration: the cases never start, and the request thread goes on
\* unless it had not begun.
InterruptCreate ==
    /\ mainPc = "creating"
    /\ interrupts < MaxInterrupts
    /\ interrupts' = interrupts + 1
    /\ mainPc' = AfterBody
    /\ outcome' = "raised"
    /\ casePc' = [c \in Cases |-> "cancelled"]
    /\ \/ UNCHANGED callPc
       \/ callPc = "create" /\ tries = 0 /\ callPc' = "idle"
    /\ UNCHANGED <<bodyError, completion, step, res, dropped, poolVars, contrib, tries,
                   clientRunId, endStatus, sums, grown, post, platformVars>>

\* While the cases run: the gather cancels them all.  Under a timeout the inner
\* future of a call is not cancelled with its case; without one, it is.
Interrupt ==
    /\ mainPc = "running"
    /\ interrupts < MaxInterrupts
    /\ interrupts' = interrupts + 1
    /\ CancelCases
    /\ IF Timed
       THEN UNCHANGED <<queue, live>>
       ELSE queue' = {} /\ live' = InPool(live)
    /\ mainPc' = "finishing"
    /\ bodyError' = TRUE
    /\ callPc' = "sumTask" /\ tries' = 0
    /\ endStatus' = "incomplete" /\ sums' = NoTotals /\ grown' = FALSE
    /\ UNCHANGED <<outcome, completion, step, res, dropped, oldOrphans, contrib,
                   clientRunId, platformVars>>

\* While finish_run is awaited: its thread goes on unless it had not begun.
InterruptFinish ==
    /\ mainPc = "finishing"
    /\ interrupts < MaxInterrupts
    /\ interrupts' = interrupts + 1
    /\ CompletionFailed
    /\ \/ UNCHANGED callPc
       \/ callPc = "sumTask" /\ callPc' = "idle"
    /\ UNCHANGED <<bodyError, caseVars, poolVars, contrib, tries,
                   clientRunId, endStatus, sums, grown, post, platformVars>>

\* The coroutines that swallowed their cancellation at the deadline of their case:
\* _abandon took them out of the tasks of the loop.
Runaway == {x \in live \ InPool(live) : res[x[1]].error}

\* Mutant: an abandoned coroutine stays a task of the loop.
AwaitedWithRunaway == live \ InPool(live)

\* The coroutines of user code asyncio.run waits for before it closes the loop.
AwaitedAtClose == (live \ InPool(live)) \ Runaway

\* asyncio.run cancels whatever is still on the loop, cases and inner futures; they end
\* by that, except for the coroutines that are no tasks of the loop any more.
TeardownCancels ==
    /\ mainPc = "teardown"
    /\ mainPc' = "closing"
    /\ CancelCases
    /\ queue' = {}
    /\ live' = InPool(live) \cup Runaway
    /\ UNCHANGED <<bodyError, outcome, completion, interrupts, step, res, dropped,
                   oldOrphans, contrib, transportVars, platformVars>>

\* ... waits for the tasks and for the threads of the transport, and closes the loop,
\* on which no coroutine survives.
LoopCloses ==
    /\ mainPc = "closing"
    /\ ~CallInFlight
    /\ \A c \in Cases : ~InFlight(c)
    /\ AwaitedAtClose = {}
    /\ mainPc' = "ended"
    /\ live' = InPool(live)
    /\ UNCHANGED <<bodyError, outcome, completion, interrupts, caseVars, queue, oldOrphans,
                   contrib, transportVars, post, platformVars>>

-----------------------------------------------------------------------------
(* The worker threads of the transport.                                      *)

LifecycleCall ==
    /\ CreateAttempt \/ SumContributions \/ CompleteAttempt
    /\ UNCHANGED <<mainVars, caseVars, poolVars>>

PostStep(c) ==
    /\ \/ PostNotApplied(c)
       \/ PostApplied(c, res[c])
       \/ PostAnswerLost(c)
       \/ PostReturns(c, res[c])
    /\ UNCHANGED <<mainVars, caseVars, poolVars>>

\* The evaluation is over; what is left of it may be nothing.
Over ==
    /\ mainPc = "ended"
    /\ UNCHANGED vars

MainStep ==
    \/ StartRun \/ CreateReturns \/ CreateRaises
    \/ GatherReturns \/ GatherRaises \/ FinishReturns \/ FinishRaises
    \/ TeardownCancels \/ LoopCloses

CaseStep(c) ==
    \/ Acquire(c) \/ StartTask(c) \/ CaseCompletes(c)

UserCode(c) ==
    \/ TaskReturns(c) \/ ScorerReturns(c) \/ CallAborts(c)
    \/ \E k \in Steps : OrphanReturns(c, k)

Interruption == InterruptCreate \/ Interrupt \/ InterruptFinish

Next ==
    \/ MainStep
    \/ LifecycleCall
    \/ PoolStart
    \/ OldOrphanReturns
    \/ Interruption
    \/ Over
    \/ \E c \in Cases : CaseStep(c) \/ UserCode(c) \/ Timeout(c) \/ PostStep(c)

Spec == Init /\ [][Next]_vars

(* Scheduling.  The loop serves every ready coroutine, a free pool thread takes *)
(* a queued call, a request ends within its socket timeout and a deadline fires; *)
(* of the user's code and of the user nothing is assumed.                        *)
EngineFairness ==
    /\ WF_vars(MainStep)
    /\ WF_vars(LifecycleCall)
    /\ WF_vars(PoolStart)
    /\ \A c \in Cases : WF_vars(CaseStep(c)) /\ WF_vars(Timeout(c)) /\ WF_vars(PostStep(c))

FairSpec == Spec /\ EngineFairness

-----------------------------------------------------------------------------
(* Properties                                                                *)

\* What the platform holds, counted from its own rows.
StoredTotals ==
    [taskErrors   |-> Cardinality({c \in Cases : results[c] # None /\ results[c].taskError}),
     scorerErrors |-> Cardinality({p \in Cases \X Scorers :
                          results[p[1]] # None /\ p[2] \in results[p[1]].errors}),
     scored       |-> Cardinality({c \in Cases : /\ results[c] # None
                                                 /\ ~results[c].taskError
                                                 /\ results[c].values # {}})]

\* An evaluation that returned a result lost nothing silently: the row of every
\* case is on the platform, or the case is counted in failed_result_count.
NoSilentLoss ==
    outcome = "returned" => \A c \in Cases : results[c] # None \/ c \in dropped

\* A timed-out or failed case is "not scored" (engine.py:564): whatever reaches the
\* platform for it carries no score value, even when scorers had scored it before
\* the deadline.
ErroredRowHasNoScores ==
    \A c \in Cases : results[c] # None /\ results[c].taskError => results[c].values = {}

\* The totals sent with /complete are computed from other data than the rows; when
\* no report was dropped they agree with the rows, and "completed" means that no
\* stored row is errored.
CompletionIsExact ==
    outcome = "returned" /\ dropped = {} =>
        /\ totals = StoredTotals
        /\ runStatus = "completed" <=> \A c \in Cases : results[c].status # "errored"

\* The totals never claim more than the platform stored, whatever was retried, lost
\* or still in flight when they were computed ("no inflation", platform.py:576).
TotalsNotInflated ==
    runStatus \in TerminalStatus =>
        /\ totals.taskErrors <= StoredTotals.taskErrors
        /\ totals.scorerErrors <= StoredTotals.scorerErrors
        /\ totals.scored <= StoredTotals.scored

\* The platform shows "incomplete" exactly for the runs whose cases were not all
\* gathered, and any other terminal status only when every case ran to its end.
StatusIsHonest ==
    runStatus \in TerminalStatus =>
        IF bodyError THEN runStatus = "incomplete"
        ELSE runStatus # "incomplete" /\ \A c \in Cases : casePc[c] = "done"

\* Once its cases were started, a run left "running" on the platform is never left
\* so silently: the completion failure is the error, or a note on the error.
OpenRunIsTold ==
    mainPc = "ended" /\ runStatus = "running" /\ (bodyError \/ outcome = "returned")
        => completion # "none"

\* A retried registration cannot create a second run.
OneRun == Cardinality(runs) <= 1

\* A call queued in the pool is one its case still waits for, unless the run has
\* failed: a timed-out case leaves nothing behind that would start late.
NoStaleCall ==
    ~bodyError => \A x \in queue : Awaits(x[1], x[2])

\* A lost report never stalls or fails the run, and with a timeout neither does user
\* code that never returns: the evaluation ends.
EvaluationEnds == <>(mainPc = "ended")

\* The run implements the contract of module ReportedRun: registered once, one
\* terminal status, a result returned only when every case is accounted for, and
\* nothing reported after that.
Contract == INSTANCE ReportedRun WITH
    stored <- {c \in Cases : results[c] # None},
    missed <- dropped,
    status <- runStatus

KeepsContract == Contract!Spec

-----------------------------------------------------------------------------
(* The inductive invariant behind the theorems of EvalRunProofs.              *)

AllDone == \A c \in Cases : casePc[c] = "done"
Summing == callPc \in {"sumTask", "sumScorer", "sumScored"}
Finishing == Summing \/ callPc \in {"complete", "completed", "completeFailed"}

\* A case, the thread that reports it and the row on the platform agree.
ReportInv ==
    \A c \in Cases :
        /\ casePc[c] \in {"waiting", "registering", "calling"} => post[c] = "none"
        /\ casePc[c] = "reporting" => post[c] # "none"
        /\ casePc[c] = "done" => post[c] \in {"ok", "failed"}
        /\ casePc[c] = "done" /\ post[c] = "failed" => c \in dropped
        /\ post[c] \in {"applied", "ok"} => results[c] # None
        /\ post[c] \in {"none", "sending"} => results[c] = None

\* The result of a case: no error while it is still called, no scores beside an
\* error, and what the platform stored is what the case ended with.
ResultInv ==
    \A c \in Cases :
        /\ casePc[c] \in {"waiting", "registering", "calling"} => ~res[c].error
        /\ casePc[c] \in {"waiting", "registering"} \/ Awaits(c, 0) => res[c] = EmptyResult
        /\ casePc[c] \in {"waiting", "registering"} => step[c] = 0
        /\ res[c].error => res[c].scores = {} /\ res[c].nonFinite = {}
        /\ results[c] # None => results[c] = Payload(res[c])

\* Nothing of a case happens before the run is registered.
RegisteredInv ==
    /\ mainPc = "start" => callPc = "idle" /\ runs = {} /\ runStatus = "none"
    /\ mainPc \in {"start", "creating"} =>
          /\ \A c \in Cases : casePc[c] = "waiting"
          /\ callPc \in {"idle", "create", "created", "createFailed"}
          /\ runStatus \in {"none", "running"}
    /\ mainPc \in {"start", "creating", "running"} => ~bodyError
    /\ mainPc = "running" => callPc = "idle" /\ runStatus = "running"
    /\ mainPc = "finishing" => runStatus # "none" /\ Finishing
    /\ callPc = "create" => runStatus \in {"none", "running"}
    /\ callPc = "created" => runStatus = "running"
    /\ runStatus = "none" => /\ \A c \in Cases : post[c] = "none"
                             /\ \/ mainPc \in {"start", "creating"}
                                \/ \A c \in Cases : casePc[c] = "cancelled"
    /\ runs \in SUBSET {clientRunId}

\* The outcome, and what it says of the body.
OutcomeInv ==
    /\ mainPc \in {"start", "creating", "running", "finishing"} <=> outcome = "none"
    /\ mainPc = "finishing" /\ ~bodyError => AllDone
    /\ outcome = "returned" => /\ ~bodyError /\ AllDone
                               /\ runStatus \in {"completed", "completed_with_errors"}
    /\ mainPc \in {"teardown", "closing", "ended"} /\ bodyError =>
          completion # "none" \/ runStatus \in TerminalStatus

\* The status sent with /complete is the one this run ends with.
CompletionInv ==
    /\ Finishing => (endStatus = "incomplete" <=> bodyError)
    /\ Finishing /\ ~bodyError => AllDone
    /\ Summing => runStatus = "running"
    /\ callPc = "complete" => runStatus \in {"running", EffectiveStatus}
    /\ callPc = "completed" => runStatus = EffectiveStatus
    /\ runStatus \in TerminalStatus =>
          /\ mainPc \in {"finishing", "teardown", "closing", "ended"}
          /\ runStatus = "incomplete" <=> bodyError
          /\ ~bodyError => AllDone

IInv == TypeOK /\ ReportInv /\ ResultInv /\ RegisteredInv /\ OutcomeInv /\ CompletionInv

=============================================================================
