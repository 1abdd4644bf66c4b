-------------------------- MODULE EvalTotalsProofs --------------------------
(***************************************************************************)
(* Further proofs about EvalRun: the pool holds no call that its case no    *)
(* longer waits for; the totals sent with a completion never exceed what    *)
(* the platform stored, and are exact when no report was dropped; and a run *)
(* is never stuck and never goes back.                                      *)
(***************************************************************************)
EXTENDS EvalRunProofs

-----------------------------------------------------------------------------
(* The pool.                                                                  *)

\* A call is submitted once, and one that is still queued is awaited.
QueueInv ==
    \A c \in Cases, k \in Steps :
        /\ <<c, k>> \in queue => <<c, k>> \notin live
        /\ <<c, k>> \in queue \cup live => casePc[c] \notin {"waiting", "registering"} /\ k <= step[c]
        /\ ~bodyError /\ <<c, k>> \in queue => Awaits(c, k)

LEMMA QueueStep == ASSUME IInv, QueueInv, [Next]_vars PROVE QueueInv'
<1> USE StepType DEF QueueInv, mainVars, caseVars, poolVars, Awaits
<1>0. /\ casePc \in [Cases -> {"waiting", "registering", "calling", "reporting", "done", "raised", "cancelled"}]
      /\ step \in [Cases -> Steps] /\ LastStep \in Nat /\ Steps = 0 .. LastStep
      /\ queue \subseteq Cases \X Steps /\ live \subseteq Cases \X Steps /\ bodyError \in BOOLEAN
  BY DEF IInv, TypeOK, Steps
<1>a. ASSUME NEW c \in Cases, NEW k \in Steps, Awaits(c, k), <<c, k>> \in live,
             bodyError' = bodyError, NEW item, Continue(c, k, item)
      PROVE  QueueInv'
  <2>1. \A d \in Cases, j \in Steps : <<d, j>> \in queue \cup live /\ d = c => j <= k
    BY <1>a
  <2>2. ASSUME NEW j \in Steps, <<c, j>> \in queue PROVE bodyError
    BY <1>0, <1>a, <2>2
  <2>3. CASE k < LastStep
    <3>1. /\ step' = [step EXCEPT ![c] = k + 1] /\ casePc' = casePc
          /\ \/ queue' = queue \cup {<<c, k + 1>>} /\ live' = live \ {<<c, k>>}
             \/ live' = (live \ {<<c, k>>}) \cup {<<c, k + 1>>} /\ queue' = queue
      BY <1>a, <2>3 DEF Continue
    <3>2. step'[c] = k + 1 /\ \A d \in Cases \ {c} : step'[d] = step[d]
      BY <1>0, <3>1
    <3>3. casePc[c] = "calling" /\ step[c] = k
      BY <1>a
    <3>4. ASSUME NEW d \in Cases, NEW j \in Steps
          PROVE  /\ <<d, j>> \in queue' => <<d, j>> \notin live'
                 /\ <<d, j>> \in queue' \cup live' => casePc[d] \notin {"waiting", "registering"} /\ j <= step'[d]
                 /\ ~bodyError /\ <<d, j>> \in queue' => casePc[d] = "calling" /\ step'[d] = j
      <4>1. CASE d # c
        <5>1. /\ <<d, j>> \in queue' <=> <<d, j>> \in queue
              /\ <<d, j>> \in live' <=> <<d, j>> \in live
              /\ step'[d] = step[d]
          BY <3>1, <3>2, <4>1
        <5> QED BY <5>1
      <4>2. CASE d = c /\ j # k + 1
        <5>1. /\ <<c, j>> \in queue' <=> <<c, j>> \in queue
              /\ <<c, j>> \in live' => <<c, j>> \in live
          BY <3>1, <4>2
        <5>2. <<c, j>> \in queue \cup live => j <= k
          BY <2>1, <4>2
        <5>3. j <= k => j <= k + 1
          BY <1>0
        <5> QED BY <2>2, <3>2, <3>3, <4>2, <5>1, <5>2, <5>3
      <4>3. CASE d = c /\ j = k + 1
        <5>1. <<c, j>> \notin queue \cup live
          BY <1>0, <2>1, <4>3
        <5>2. <<c, j>> \in queue' => <<c, j>> \notin live'
          BY <3>1, <4>3, <5>1
        <5> QED BY <1>0, <3>2, <3>3, <4>3, <5>2
      <4> QED BY <4>1, <4>2, <4>3
    <3> QED BY <1>a, <3>1, <3>4
  <2>4. CASE ~(k < LastStep)
    <3>1. /\ casePc' = [casePc EXCEPT ![c] = "reporting"] /\ live' = live \ {<<c, k>>}
          /\ step' = step /\ queue' = queue
      BY <1>a, <2>4 DEF Continue, Report
    <3> QED BY <1>0, <1>a, <2>2, <3>1
  <2> QED BY <2>3, <2>4
<1>1. CASE StartRun
  BY <1>0, <1>1 DEF StartRun, CreateRun
<1>2. CASE CreateReturns
  BY <1>0, <1>2 DEF CreateReturns
<1>3. CASE CreateRaises
  BY <1>0, <1>3 DEF CreateRaises, IInv, RegisteredInv
<1>4. CASE GatherReturns
  BY <1>0, <1>4 DEF GatherReturns, FinishRun
<1>5. CASE GatherRaises
  BY <1>0, <1>5 DEF GatherRaises, FinishRun
<1>6. CASE FinishReturns
  BY <1>0, <1>6 DEF FinishReturns
<1>7. CASE FinishRaises
  BY <1>0, <1>7 DEF FinishRaises, CompletionFailed
<1>8. CASE TeardownCancels
  <2>1. live' \subseteq live
    BY <1>8 DEF TeardownCancels, InPool, Runaway
  <2> QED
    BY <1>0, <1>8, <2>1 DEF TeardownCancels, CancelCases, Ended
<1>9. CASE LoopCloses
  BY <1>0, <1>9 DEF LoopCloses, InPool
<1>10. CASE InterruptCreate
  BY <1>0, <1>10 DEF InterruptCreate, IInv, RegisteredInv
<1>11. CASE Interrupt
  BY <1>0, <1>11 DEF Interrupt, CancelCases, Ended, InPool
<1>12. CASE InterruptFinish
  BY <1>0, <1>12 DEF InterruptFinish, CompletionFailed
<1>13. CASE LifecycleCall
  BY <1>0, <1>13 DEF LifecycleCall, CreateAttempt, RegisterRun, SumContributions, SumPass,
       CompleteAttempt, StoreCompletion, RetryOr
<1>14. CASE PoolStart
  <2>1. PICK x \in queue : live' = live \cup {x} /\ queue' = queue \ {x}
    BY <1>14 DEF PoolStart
  <2>2. PICK d \in Cases, j \in Steps : x = <<d, j>>
    BY <1>0, <2>1
  <2>3. UNCHANGED <<casePc, step, bodyError>>
    BY <1>14 DEF PoolStart
  <2>4. ASSUME NEW c \in Cases, NEW k \in Steps
        PROVE  /\ <<c, k>> \in queue' => <<c, k>> \in queue /\ <<c, k>> \notin live'
               /\ <<c, k>> \in queue' \cup live' => <<c, k>> \in queue \cup live
    BY <2>1, <2>2
  <2> QED BY <2>3, <2>4
<1>15. CASE OldOrphanReturns
  BY <1>0, <1>15 DEF OldOrphanReturns
<1>16. CASE UNCHANGED vars
  BY <1>0, <1>16 DEF vars
<1>17. ASSUME NEW c \in Cases, Acquire(c) PROVE QueueInv'
  BY <1>0, <1>17 DEF Acquire
<1>18. ASSUME NEW c \in Cases, StartTask(c) PROVE QueueInv'
  <2>1. casePc[c] = "registering" /\ step[c] = 0
    BY <1>18 DEF StartTask, IInv, ResultInv
  <2>2. \A k \in Steps : <<c, k>> \notin queue \cup live
    BY <2>1
  <2>3. /\ casePc' = [casePc EXCEPT ![c] = "calling"] /\ UNCHANGED <<step, bodyError>>
        /\ \/ queue' = queue \cup {<<c, 0>>} /\ live' = live
           \/ live' = live \cup {<<c, 0>>} /\ queue' = queue
    BY <1>18 DEF StartTask, Submit
  <2>4. casePc'[c] = "calling" /\ \A d \in Cases \ {c} : casePc'[d] = casePc[d]
    BY <1>0, <2>3
  <2>5. ASSUME NEW d \in Cases, NEW j \in Steps
        PROVE  /\ <<d, j>> \in queue' => <<d, j>> \notin live'
               /\ <<d, j>> \in queue' \cup live' => casePc'[d] \notin {"waiting", "registering"} /\ j <= step[d]
               /\ ~bodyError /\ <<d, j>> \in queue' => casePc'[d] = "calling" /\ step[d] = j
    <3>1. CASE d # c
      <4>1. /\ <<d, j>> \in queue' <=> <<d, j>> \in queue
            /\ <<d, j>> \in live' <=> <<d, j>> \in live
        BY <2>3, <3>1
      <4> QED BY <2>4, <3>1, <4>1
    <3>2. CASE d = c
      <4>1. <<c, j>> \in queue' \cup live' => j = 0
        BY <2>2, <2>3, <3>2
      <4>2. <<c, j>> \in queue' => <<c, j>> \notin live'
        BY <2>2, <2>3, <3>2
      <4> QED BY <2>1, <2>4, <3>2, <4>1, <4>2
    <3> QED BY <3>1, <3>2
  <2> QED BY <2>3, <2>5
<1>19. ASSUME NEW c \in Cases, CaseCompletes(c) PROVE QueueInv'
  BY <1>0, <1>19 DEF CaseCompletes
<1>20. ASSUME NEW c \in Cases, TaskReturns(c) PROVE QueueInv'
  <2>1. bodyError' = bodyError /\ Awaits(c, 0) /\ <<c, 0>> \in live
    BY <1>20 DEF TaskReturns
  <2>2. CASE Continue(c, 0, res[c])
    BY <1>a, <2>1, <2>2
  <2>3. CASE /\ Report(c, [res[c] EXCEPT !.error = TRUE])
             /\ live' = live \ {<<c, 0>>} /\ UNCHANGED <<step, queue>>
    <3>1. \A j \in Steps : <<c, j>> \in queue => bodyError
      BY <1>0, <2>1
    <3>2. casePc' = [casePc EXCEPT ![c] = "reporting"]
      BY <2>3 DEF Report
    <3> QED BY <1>0, <2>1, <2>3, <3>1, <3>2
  <2> QED BY <1>20, <2>2, <2>3 DEF TaskReturns
<1>21. ASSUME NEW c \in Cases, ScorerReturns(c) PROVE QueueInv'
  <2>1. PICK k \in 1 .. LastStep :
           /\ Awaits(c, k) /\ <<c, k>> \in live
           /\ \E item \in ScorerOutcomes(res[c], ScorerSeq[k]) : Continue(c, k, item)
    BY <1>21 DEF ScorerReturns
  <2>2. bodyError' = bodyError /\ k \in Steps
    BY <1>0, <1>21 DEF ScorerReturns
  <2> QED BY <1>a, <2>1, <2>2
<1>22. ASSUME NEW c \in Cases, CallAborts(c) PROVE QueueInv'
  BY <1>0, <1>22 DEF CallAborts
<1>23. ASSUME NEW c \in Cases, \E k \in Steps : OrphanReturns(c, k) PROVE QueueInv'
  <2>1. PICK k \in Steps : OrphanReturns(c, k)
    BY <1>23
  <2>2. live' \subseteq live /\ UNCHANGED <<queue, casePc, step, bodyError>>
    BY <2>1 DEF OrphanReturns
  <2> QED BY <1>0, <2>2
<1>24. ASSUME NEW c \in Cases, Timeout(c) PROVE QueueInv'
  BY <1>0, <1>24 DEF Timeout, Report, SubmitPost, Withdraw
<1>25. ASSUME NEW c \in Cases, PostStep(c) PROVE QueueInv'
  BY <1>0, <1>25 DEF PostStep, PostNotApplied, PostApplied, PostAnswerLost, PostReturns
<1> QED
  BY <1>1, <1>2, <1>3, <1>4, <1>5, <1>6, <1>7, <1>8, <1>9, <1>10, <1>11, <1>12, <1>13, <1>14,
       <1>15, <1>16, <1>17, <1>18, <1>19, <1>20, <1>21, <1>22, <1>23, <1>24, <1>25
  DEF Next, Over, MainStep, Interruption, CaseStep, UserCode

\* A call queued in the pool is one its case still waits for.
THEOREM NoCallIsStale == Spec => []NoStaleCall
<1>1. Init => QueueInv
  BY DEF Init, QueueInv
<1>2. IInv /\ QueueInv /\ [Next]_vars => QueueInv'
  BY QueueStep
<1>3. IInv /\ QueueInv => NoStaleCall
  <2> SUFFICES ASSUME IInv, QueueInv, ~bodyError, NEW x \in queue PROVE Awaits(x[1], x[2])
    BY DEF NoStaleCall
  <2>1. PICK c \in Cases, k \in Steps : x = <<c, k>>
    BY DEF IInv, TypeOK
  <2>2. Awaits(c, k)
    BY <2>1 DEF QueueInv
  <2> QED BY <2>1, <2>2
<1> QED BY <1>1, <1>2, <1>3, Invariance, PTL DEF Spec

-----------------------------------------------------------------------------
(* The totals.                                                                *)

\* A recorded contribution is what the stored row of its case says.
Matches(c) ==
    /\ results[c] # None
    /\ contrib[c].taskError = results[c].taskError
    /\ contrib[c].scorerErrors = results[c].errors
    /\ contrib[c].scored <=> ~results[c].taskError /\ results[c].values # {}

MatchInv == \A c \in Cases : /\ contrib[c] # None => Matches(c)
                             /\ post[c] = "ok" => contrib[c] # None

\* A row is stored once, and a contribution is recorded when its row is stored.
LEMMA RowsGrow ==
    ASSUME IInv, [Next]_vars
    PROVE  /\ \/ results' = results
              \/ \E c \in Cases : /\ post[c] = "sending" /\ results[c] = None
                                  /\ results' = [results EXCEPT ![c] = Payload(res[c])]
           /\ \/ contrib' = contrib
              \/ \E c \in Cases : /\ post[c] = "applied" /\ results[c] = Payload(res[c])
                                  /\ results' = results
                                  /\ contrib' = [contrib EXCEPT ![c] = Contribution(res[c])]
<1> DEFINE Same == results' = results /\ contrib' = contrib
<1>1. ASSUME StartRun PROVE Same
  BY <1>1 DEF StartRun, CreateRun, platformVars
<1>2. ASSUME CreateReturns PROVE Same
  BY <1>2 DEF CreateReturns, platformVars
<1>3. ASSUME CreateRaises PROVE Same
  BY <1>3 DEF CreateRaises, platformVars
<1>4. ASSUME GatherReturns PROVE Same
  BY <1>4 DEF GatherReturns, FinishRun, platformVars
<1>5. ASSUME GatherRaises PROVE Same
  BY <1>5 DEF GatherRaises, FinishRun, platformVars
<1>6. ASSUME FinishReturns PROVE Same
  BY <1>6 DEF FinishReturns, platformVars
<1>7. ASSUME FinishRaises PROVE Same
  BY <1>7 DEF FinishRaises, CompletionFailed, platformVars
<1>8. ASSUME TeardownCancels PROVE Same
  BY <1>8 DEF TeardownCancels, CancelCases, Ended, platformVars
<1>9. ASSUME LoopCloses PROVE Same
  BY <1>9 DEF LoopCloses, InPool, platformVars
<1>10. ASSUME InterruptCreate PROVE Same
  BY <1>10 DEF InterruptCreate, platformVars
<1>11. ASSUME Interrupt PROVE Same
  BY <1>11 DEF Interrupt, CancelCases, Ended, InPool, platformVars
<1>12. ASSUME InterruptFinish PROVE Same
  BY <1>12 DEF InterruptFinish, CompletionFailed, platformVars
<1>13. ASSUME LifecycleCall PROVE Same
  BY <1>13 DEF LifecycleCall, CreateAttempt, RegisterRun, SumContributions, SumPass,
       CompleteAttempt, StoreCompletion, RetryOr, platformVars
<1>14. ASSUME PoolStart PROVE Same
  BY <1>14 DEF PoolStart, platformVars
<1>15. ASSUME OldOrphanReturns PROVE Same
  BY <1>15 DEF OldOrphanReturns, platformVars
<1>16. ASSUME UNCHANGED vars PROVE Same
  BY <1>16 DEF vars, platformVars
<1>17. ASSUME NEW c \in Cases, Acquire(c) PROVE Same
  BY <1>17 DEF Acquire, platformVars
<1>18. ASSUME NEW c \in Cases, StartTask(c) PROVE Same
  BY <1>18 DEF StartTask, Submit, platformVars
<1>19. ASSUME NEW c \in Cases, CaseCompletes(c) PROVE Same
  BY <1>19 DEF CaseCompletes, platformVars
<1>20. ASSUME NEW c \in Cases, TaskReturns(c) PROVE Same
  BY <1>20 DEF TaskReturns, Continue, Report, SubmitPost, platformVars
<1>21. ASSUME NEW c \in Cases, ScorerReturns(c) PROVE Same
  BY <1>21 DEF ScorerReturns, Continue, Report, SubmitPost, platformVars
<1>22. ASSUME NEW c \in Cases, CallAborts(c) PROVE Same
  BY <1>22 DEF CallAborts, platformVars
<1>23. ASSUME NEW c \in Cases, \E k \in Steps : OrphanReturns(c, k) PROVE Same
  BY <1>23 DEF OrphanReturns, platformVars
<1>24. ASSUME NEW c \in Cases, Timeout(c) PROVE Same
  BY <1>24 DEF Timeout, Report, SubmitPost, Withdraw, platformVars
<1>25. ASSUME NEW c \in Cases, PostStep(c)
       PROVE  \/ results' = results /\ contrib' = contrib
              \/ /\ post[c] = "sending" /\ results[c] = None /\ contrib' = contrib
                 /\ results' = [results EXCEPT ![c] = Payload(res[c])]
              \/ /\ post[c] = "applied" /\ results[c] = Payload(res[c]) /\ results' = results
                 /\ contrib' = [contrib EXCEPT ![c] = Contribution(res[c])]
  <2>1. CASE PostApplied(c, res[c])
    <3>1. results[c] = None
      BY <2>1 DEF PostApplied, IInv, ReportInv
    <3> QED BY <2>1, <3>1 DEF PostApplied
  <2>2. CASE PostReturns(c, res[c])
    <3>1. results[c] = Payload(res[c])
      BY <2>2 DEF PostReturns, IInv, ReportInv, ResultInv
    <3> QED BY <2>2, <3>1 DEF PostReturns, platformVars
  <2>3. CASE PostNotApplied(c) \/ PostAnswerLost(c)
    BY <2>3 DEF PostNotApplied, PostAnswerLost, platformVars
  <2> QED BY <1>25, <2>1, <2>2, <2>3 DEF PostStep
<1> QED
  BY <1>1, <1>2, <1>3, <1>4, <1>5, <1>6, <1>7, <1>8, <1>9, <1>10, <1>11, <1>12, <1>13, <1>14,
       <1>15, <1>16, <1>17, <1>18, <1>19, <1>20, <1>21, <1>22, <1>23, <1>24, <1>25
  DEF Next, Over, MainStep, Interruption, CaseStep, UserCode

LEMMA MatchPost ==
    ASSUME IInv, MatchInv, [Next]_vars
    PROVE  \A c \in Cases : post'[c] = "ok" => post[c] = "ok" \/ contrib'[c] # None
<1> DEFINE Kept == \A c \in Cases : post'[c] = "ok" => post[c] = "ok" \/ contrib'[c] # None
<1>0. post \in [Cases -> {"none", "sending", "applied", "ok", "failed"}]
  BY DEF IInv, TypeOK, TransportTypeOK
<1>1. ASSUME StartRun PROVE Kept
  BY <1>0, <1>1 DEF StartRun, CreateRun
<1>2. ASSUME CreateReturns PROVE Kept
  BY <1>0, <1>2 DEF CreateReturns
<1>3. ASSUME CreateRaises PROVE Kept
  BY <1>0, <1>3 DEF CreateRaises
<1>4. ASSUME GatherReturns PROVE Kept
  BY <1>0, <1>4 DEF GatherReturns, FinishRun
<1>5. ASSUME GatherRaises PROVE Kept
  BY <1>0, <1>5 DEF GatherRaises, FinishRun
<1>6. ASSUME FinishReturns PROVE Kept
  BY <1>0, <1>6 DEF FinishReturns
<1>7. ASSUME FinishRaises PROVE Kept
  BY <1>0, <1>7 DEF FinishRaises, CompletionFailed
<1>8. ASSUME TeardownCancels PROVE Kept
  BY <1>0, <1>8 DEF TeardownCancels, CancelCases, Ended
<1>9. ASSUME LoopCloses PROVE Kept
  BY <1>0, <1>9 DEF LoopCloses, InPool
<1>10. ASSUME InterruptCreate PROVE Kept
  BY <1>0, <1>10 DEF InterruptCreate
<1>11. ASSUME Interrupt PROVE Kept
  BY <1>0, <1>11 DEF Interrupt, CancelCases, Ended, InPool
<1>12. ASSUME InterruptFinish PROVE Kept
  BY <1>0, <1>12 DEF InterruptFinish, CompletionFailed
<1>13. ASSUME LifecycleCall PROVE Kept
  BY <1>0, <1>13 DEF LifecycleCall, CreateAttempt, RegisterRun, SumContributions, SumPass,
       CompleteAttempt, StoreCompletion, RetryOr
<1>14. ASSUME PoolStart PROVE Kept
  BY <1>0, <1>14 DEF PoolStart
<1>15. ASSUME OldOrphanReturns PROVE Kept
  BY <1>0, <1>15 DEF OldOrphanReturns
<1>16. ASSUME UNCHANGED vars PROVE Kept
  BY <1>0, <1>16 DEF vars
<1>17. ASSUME NEW c \in Cases, Acquire(c) PROVE Kept
  BY <1>0, <1>17 DEF Acquire
<1>18. ASSUME NEW c \in Cases, StartTask(c) PROVE Kept
  BY <1>0, <1>18 DEF StartTask, Submit
<1>19. ASSUME NEW c \in Cases, CaseCompletes(c) PROVE Kept
  BY <1>0, <1>19 DEF CaseCompletes
<1>20. ASSUME NEW c \in Cases, TaskReturns(c) PROVE Kept
  BY <1>0, <1>20 DEF TaskReturns, Continue, Report, SubmitPost
<1>21. ASSUME NEW c \in Cases, ScorerReturns(c) PROVE Kept
  BY <1>0, <1>21 DEF ScorerReturns, Continue, Report, SubmitPost
<1>22. ASSUME NEW c \in Cases, CallAborts(c) PROVE Kept
  BY <1>0, <1>22 DEF CallAborts
<1>23. ASSUME NEW c \in Cases, \E k \in Steps : OrphanReturns(c, k) PROVE Kept
  BY <1>0, <1>23 DEF OrphanReturns
<1>24. ASSUME NEW c \in Cases, Timeout(c) PROVE Kept
  BY <1>0, <1>24 DEF Timeout, Report, SubmitPost, Withdraw
<1>25. ASSUME NEW c \in Cases, PostStep(c) PROVE Kept
  <2>1. /\ post \in [Cases -> {"none", "sending", "applied", "ok", "failed"}]
        /\ contrib \in [Cases -> Contributions \cup {None}] /\ res \in [Cases -> ItemResult]
    BY DEF IInv, TypeOK, TransportTypeOK
  <2>2. CASE PostReturns(c, res[c])
    <3>1. contrib' = [contrib EXCEPT ![c] = Contribution(res[c])] /\ post' = [post EXCEPT ![c] = "ok"]
      BY <2>2 DEF PostReturns
    <3>2. Contribution(res[c]) # None
      BY <2>1, ContributionType, NoneAssumption
    <3> QED BY <2>1, <3>1, <3>2
  <2>3. CASE PostNotApplied(c) \/ PostAnswerLost(c) \/ PostApplied(c, res[c])
    BY <2>1, <2>3 DEF PostNotApplied, PostAnswerLost, PostApplied
  <2> QED BY <1>25, <2>2, <2>3 DEF PostStep
<1> QED
  BY <1>1, <1>2, <1>3, <1>4, <1>5, <1>6, <1>7, <1>8, <1>9, <1>10, <1>11, <1>12, <1>13, <1>14,
       <1>15, <1>16, <1>17, <1>18, <1>19, <1>20, <1>21, <1>22, <1>23, <1>24, <1>25
  DEF Next, Over, MainStep, Interruption, CaseStep, UserCode

LEMMA PayloadMatches ==
    ASSUME NEW item \in ItemResult
    PROVE  /\ Contribution(item).taskError = Payload(item).taskError
           /\ Contribution(item).scorerErrors = Payload(item).errors
           /\ Contribution(item).scored <=> ~Payload(item).taskError /\ Payload(item).values # {}
           /\ Payload(item) # None /\ Contribution(item) # None
<1>1. Contribution(item).scorerErrors = Payload(item).errors
  BY DEF Contribution, Payload
<1>2. Payload(item) # None /\ Contribution(item) # None
  BY PayloadType, ContributionType, NoneAssumption
<1> QED BY <1>1, <1>2 DEF Contribution, Payload, ItemResult

LEMMA MatchStep == ASSUME IInv, MatchInv, [Next]_vars PROVE MatchInv'
<1>1. /\ contrib \in [Cases -> Contributions \cup {None}] /\ results \in [Cases -> Rows \cup {None}]
      /\ res \in [Cases -> ItemResult]
  BY DEF IInv, TypeOK, TransportTypeOK
<1>2. ASSUME NEW c \in Cases PROVE contrib'[c] = contrib[c] \/ (Matches(c)' /\ contrib'[c] # None)
  <2>1. CASE contrib' = contrib
    BY <2>1
  <2>2. ASSUME NEW d \in Cases, results[d] = Payload(res[d]), results' = results,
               contrib' = [contrib EXCEPT ![d] = Contribution(res[d])]
        PROVE  contrib'[c] = contrib[c] \/ (Matches(c)' /\ contrib'[c] # None)
    <3>1. CASE c = d
      <4>1. contrib'[c] = Contribution(res[c]) /\ results'[c] = Payload(res[c])
        BY <1>1, <2>2, <3>1
      <4> QED BY <1>1, <4>1, PayloadMatches DEF Matches
    <3>2. CASE c # d
      BY <1>1, <2>2, <3>2
    <3> QED BY <3>1, <3>2
  <2> QED BY <2>1, <2>2, RowsGrow
<1>3. ASSUME NEW c \in Cases, results[c] # None PROVE results'[c] = results[c]
  BY <1>1, <1>3, RowsGrow
<1>4. ASSUME NEW c \in Cases, contrib'[c] # None PROVE Matches(c)'
  BY <1>2, <1>3, <1>4 DEF MatchInv, Matches
<1>5. ASSUME NEW c \in Cases, post'[c] = "ok" PROVE contrib'[c] # None
  <2>1. CASE post[c] = "ok"
    BY <1>2, <2>1 DEF MatchInv
  <2> QED BY <1>5, <2>1, MatchPost
<1> QED BY <1>4, <1>5 DEF MatchInv

\* The rows the totals of the platform count.
FailedRows == {c \in Cases : results[c] # None /\ results[c].taskError}
WrongScores == {p \in Cases \X Scorers : results[p[1]] # None /\ p[2] \in results[p[1]].errors}
ScoredRows == {c \in Cases : results[c] # None /\ ~results[c].taskError /\ results[c].values # {}}

LEMMA StoredCounts ==
    /\ StoredTotals = [taskErrors |-> Cardinality(FailedRows), scorerErrors |-> Cardinality(WrongScores),
                       scored |-> Cardinality(ScoredRows)]
    /\ IsFiniteSet(FailedRows) /\ IsFiniteSet(WrongScores) /\ IsFiniteSet(ScoredRows)
    /\ StoredTotals \in Totals
<1>1. IsFiniteSet(Cases) /\ IsFiniteSet(Cases \X Scorers)
  BY FS_Product, TransportAssumption
<1>2. /\ FailedRows \in SUBSET Cases /\ ScoredRows \in SUBSET Cases
      /\ WrongScores \in SUBSET (Cases \X Scorers)
  BY DEF FailedRows, WrongScores, ScoredRows
<1>3. IsFiniteSet(FailedRows) /\ IsFiniteSet(WrongScores) /\ IsFiniteSet(ScoredRows)
  BY <1>1, <1>2, FS_Subset
<1>4. /\ Cardinality(FailedRows) \in Nat /\ Cardinality(WrongScores) \in Nat
      /\ Cardinality(ScoredRows) \in Nat
  BY <1>3, FS_CardinalityType
<1>5. StoredTotals = [taskErrors |-> Cardinality(FailedRows), scorerErrors |-> Cardinality(WrongScores),
                      scored |-> Cardinality(ScoredRows)]
  BY DEF StoredTotals, FailedRows, WrongScores, ScoredRows
<1> QED BY <1>3, <1>4, <1>5 DEF Totals

Below(a, b) ==
    a.taskErrors <= b.taskErrors /\ a.scorerErrors <= b.scorerErrors /\ a.scored <= b.scored

\* What a pass of finish_run counts is stored; and once every case is counted, nothing
\* else is.
LEMMA CountsStored ==
    ASSUME IInv, MatchInv
    PROVE  /\ CountTaskErrors <= StoredTotals.taskErrors
           /\ CountScorerErrors <= StoredTotals.scorerErrors
           /\ CountScored <= StoredTotals.scored
           /\ (\A c \in Cases : contrib[c] # None) =>
                 /\ CountTaskErrors = StoredTotals.taskErrors
                 /\ CountScorerErrors = StoredTotals.scorerErrors
                 /\ CountScored = StoredTotals.scored
<1> DEFINE T == {c \in Cases : contrib[c] # None /\ contrib[c].taskError}
           E == {p \in Cases \X Scorers : contrib[p[1]] # None /\ p[2] \in contrib[p[1]].scorerErrors}
           S == {c \in Cases : contrib[c] # None /\ contrib[c].scored}
<1>1. ASSUME NEW c \in Cases, contrib[c] # None PROVE Matches(c)
  BY <1>1 DEF MatchInv
<1>2. T \subseteq FailedRows /\ S \subseteq ScoredRows
  BY <1>1 DEF Matches, FailedRows, ScoredRows
<1>3. E \subseteq WrongScores
  <2> SUFFICES ASSUME NEW q \in E PROVE q \in WrongScores
    OBVIOUS
  <2>1. PICK c \in Cases, s \in Scorers : q = <<c, s>>
    OBVIOUS
  <2>2. contrib[c] # None /\ s \in contrib[c].scorerErrors
    BY <2>1
  <2>3. results[c] # None /\ s \in results[c].errors
    BY <1>1, <2>2 DEF Matches
  <2> QED BY <2>1, <2>3 DEF WrongScores
<1>4. ASSUME \A c \in Cases : contrib[c] # None
      PROVE  T = FailedRows /\ E = WrongScores /\ S = ScoredRows
  <2>1. FailedRows \subseteq T /\ ScoredRows \subseteq S
    BY <1>1, <1>4 DEF Matches, FailedRows, ScoredRows
  <2>2. WrongScores \subseteq E
    <3> SUFFICES ASSUME NEW q \in WrongScores PROVE q \in E
      OBVIOUS
    <3>1. PICK c \in Cases, s \in Scorers : q = <<c, s>>
      BY DEF WrongScores
    <3>2. s \in results[c].errors
      BY <3>1 DEF WrongScores
    <3>3. contrib[c] # None /\ s \in contrib[c].scorerErrors
      BY <1>1, <1>4, <3>2 DEF Matches
    <3> QED BY <3>1, <3>3
  <2> QED BY <1>2, <1>3, <2>1, <2>2
<1>5. CountTaskErrors = Cardinality(T) /\ CountScorerErrors = Cardinality(E) /\ CountScored = Cardinality(S)
  BY DEF CountTaskErrors, CountScorerErrors, CountScored
<1> HIDE DEF T, E, S
<1>6. /\ Cardinality(T) <= Cardinality(FailedRows) /\ Cardinality(E) <= Cardinality(WrongScores)
      /\ Cardinality(S) <= Cardinality(ScoredRows)
  BY <1>2, <1>3, StoredCounts, FS_Subset
<1> QED BY <1>4, <1>5, <1>6, StoredCounts

\* The platform only gains rows.
LEMMA StoredGrows ==
    ASSUME IInv, IInv', [Next]_vars
    PROVE  Below(StoredTotals, StoredTotals') /\ StoredTotals' \in Totals
<1>1. \A c \in Cases : results[c] # None => results'[c] = results[c]
  BY RowsGrow DEF IInv, TypeOK, TransportTypeOK
<1>2. FailedRows \subseteq FailedRows' /\ ScoredRows \subseteq ScoredRows'
  BY <1>1 DEF FailedRows, ScoredRows
<1>3. WrongScores \subseteq WrongScores'
  <2> SUFFICES ASSUME NEW q \in WrongScores PROVE q \in WrongScores'
    OBVIOUS
  <2>1. PICK c \in Cases, s \in Scorers : q = <<c, s>>
    BY DEF WrongScores
  <2>2. results[c] # None /\ s \in results[c].errors
    BY <2>1 DEF WrongScores
  <2>3. results'[c] # None /\ s \in results'[c].errors
    BY <1>1, <2>2
  <2> QED BY <2>1, <2>3 DEF WrongScores
<1>4. IsFiniteSet(FailedRows') /\ IsFiniteSet(WrongScores') /\ IsFiniteSet(ScoredRows')
  <2>1. IsFiniteSet(Cases) /\ IsFiniteSet(Cases \X Scorers)
    BY FS_Product, TransportAssumption
  <2>2. /\ FailedRows' \in SUBSET Cases /\ ScoredRows' \in SUBSET Cases
        /\ WrongScores' \in SUBSET (Cases \X Scorers)
    BY DEF FailedRows, WrongScores, ScoredRows
  <2> QED BY <2>1, <2>2, FS_Subset
<1>5. /\ Cardinality(FailedRows) <= Cardinality(FailedRows')
      /\ Cardinality(WrongScores) <= Cardinality(WrongScores')
      /\ Cardinality(ScoredRows) <= Cardinality(ScoredRows')
  BY <1>2, <1>3, <1>4, FS_Subset
<1>6. /\ StoredTotals' = [taskErrors |-> Cardinality(FailedRows'), scorerErrors |-> Cardinality(WrongScores'),
                          scored |-> Cardinality(ScoredRows')]
      /\ StoredTotals' \in Totals
  <2>1. /\ Cardinality(FailedRows') \in Nat /\ Cardinality(WrongScores') \in Nat
        /\ Cardinality(ScoredRows') \in Nat
    BY <1>4, FS_CardinalityType
  <2>2. StoredTotals' = [taskErrors |-> Cardinality(FailedRows'), scorerErrors |-> Cardinality(WrongScores'),
                         scored |-> Cardinality(ScoredRows')]
    BY DEF StoredTotals, FailedRows, WrongScores, ScoredRows
  <2> QED BY <2>1, <2>2 DEF Totals
<1> QED BY <1>5, <1>6, StoredCounts DEF Below

Early == {"idle", "create", "created", "createFailed", "completeFailed", "sumTask"}

\* The totals move only in the thread of the completion, pass by pass.
QuietStep == /\ totals' = totals
             /\ runStatus' \in {runStatus, "running"}
             /\ \/ callPc' = callPc /\ sums' = sums
                \/ callPc' \in Early /\ sums' \in {sums, NoTotals}

PassStep(pc, next, summed) ==
    /\ callPc = pc /\ callPc' = next /\ sums' = summed
    /\ results' = results /\ totals' = totals /\ runStatus' = runStatus

StoreStep == /\ callPc = "complete" /\ callPc' \in {"complete", "completed", "completeFailed"}
             /\ sums' = sums /\ totals' = sums /\ runStatus' = EffectiveStatus
             /\ results' = results

TotalsFrame ==
    \/ QuietStep
    \/ PassStep("sumTask", "sumScorer", [sums EXCEPT !.taskErrors = CountTaskErrors])
    \/ PassStep("sumScorer", "sumScored", [sums EXCEPT !.scorerErrors = CountScorerErrors])
    \/ PassStep("sumScored", "complete", [sums EXCEPT !.scored = CountScored])
    \/ StoreStep

LEMMA TotalsStep == ASSUME IInv, [Next]_vars PROVE TotalsFrame
<1>1. ASSUME StartRun PROVE TotalsFrame
  BY <1>1 DEF StartRun, CreateRun, TotalsFrame, QuietStep, Early, transportVars, platformVars
<1>2. ASSUME CreateReturns PROVE TotalsFrame
  BY <1>2 DEF CreateReturns, TotalsFrame, QuietStep, Early, transportVars, platformVars
<1>3. ASSUME CreateRaises PROVE TotalsFrame
  BY <1>3 DEF CreateRaises, TotalsFrame, QuietStep, Early, transportVars, platformVars
<1>4. ASSUME GatherReturns PROVE TotalsFrame
  BY <1>4 DEF GatherReturns, FinishRun, TotalsFrame, QuietStep, Early, transportVars, platformVars
<1>5. ASSUME GatherRaises PROVE TotalsFrame
  BY <1>5 DEF GatherRaises, FinishRun, TotalsFrame, QuietStep, Early, transportVars, platformVars
<1>6. ASSUME FinishReturns PROVE TotalsFrame
  BY <1>6 DEF FinishReturns, TotalsFrame, QuietStep, Early, transportVars, platformVars
<1>7. ASSUME FinishRaises PROVE TotalsFrame
  BY <1>7 DEF FinishRaises, CompletionFailed, TotalsFrame, QuietStep, Early, transportVars, platformVars
<1>8. ASSUME TeardownCancels PROVE TotalsFrame
  BY <1>8 DEF TeardownCancels, CancelCases, Ended, TotalsFrame, QuietStep, Early, transportVars, platformVars
<1>9. ASSUME LoopCloses PROVE TotalsFrame
  BY <1>9 DEF LoopCloses, InPool, TotalsFrame, QuietStep, Early, transportVars, platformVars
<1>10. ASSUME InterruptCreate PROVE TotalsFrame
  BY <1>10 DEF InterruptCreate, TotalsFrame, QuietStep, Early, transportVars, platformVars
<1>11. ASSUME Interrupt PROVE TotalsFrame
  BY <1>11 DEF Interrupt, CancelCases, Ended, InPool, TotalsFrame, QuietStep, Early, transportVars, platformVars
<1>12. ASSUME InterruptFinish PROVE TotalsFrame
  BY <1>12 DEF InterruptFinish, CompletionFailed, TotalsFrame, QuietStep, Early, transportVars, platformVars
<1>13. ASSUME LifecycleCall PROVE TotalsFrame
  <2>1. CASE SumContributions
    BY <2>1 DEF SumContributions, SumPass, platformVars, TotalsFrame, PassStep, QuietStep, Early
  <2>2. CASE CreateAttempt
    BY <2>2 DEF CreateAttempt, RegisterRun, RetryOr, platformVars, TotalsFrame, QuietStep, Early
  <2>3. CASE CompleteAttempt
    BY <2>3 DEF CompleteAttempt, StoreCompletion, RetryOr, platformVars, TotalsFrame, StoreStep, QuietStep, Early
  <2> QED BY <1>13, <2>1, <2>2, <2>3 DEF LifecycleCall
<1>14. ASSUME PoolStart PROVE TotalsFrame
  BY <1>14 DEF PoolStart, TotalsFrame, QuietStep, Early, transportVars, platformVars
<1>15. ASSUME OldOrphanReturns PROVE TotalsFrame
  BY <1>15 DEF OldOrphanReturns, TotalsFrame, QuietStep, Early, transportVars, platformVars
<1>16. ASSUME UNCHANGED vars PROVE TotalsFrame
  BY <1>16 DEF vars, TotalsFrame, QuietStep, Early, transportVars, platformVars
<1>17. ASSUME NEW c \in Cases, Acquire(c) PROVE TotalsFrame
  BY <1>17 DEF Acquire, TotalsFrame, QuietStep, Early, transportVars, platformVars
<1>18. ASSUME NEW c \in Cases, StartTask(c) PROVE TotalsFrame
  BY <1>18 DEF StartTask, Submit, TotalsFrame, QuietStep, Early, transportVars, platformVars
<1>19. ASSUME NEW c \in Cases, CaseCompletes(c) PROVE TotalsFrame
  BY <1>19 DEF CaseCompletes, TotalsFrame, QuietStep, Early, transportVars, platformVars
<1>20. ASSUME NEW c \in Cases, TaskReturns(c) PROVE TotalsFrame
  BY <1>20 DEF TaskReturns, Continue, Report, SubmitPost, TotalsFrame, QuietStep, Early, transportVars, platformVars
<1>21. ASSUME NEW c \in Cases, ScorerReturns(c) PROVE TotalsFrame
  BY <1>21 DEF ScorerReturns, Continue, Report, SubmitPost, TotalsFrame, QuietStep, Early, transportVars, platformVars
<1>22. ASSUME NEW c \in Cases, CallAborts(c) PROVE TotalsFrame
  BY <1>22 DEF CallAborts, TotalsFrame, QuietStep, Early, transportVars, platformVars
<1>23. ASSUME NEW c \in Cases, \E k \in Steps : OrphanReturns(c, k) PROVE TotalsFrame
  BY <1>23 DEF OrphanReturns, TotalsFrame, QuietStep, Early, transportVars, platformVars
<1>24. ASSUME NEW c \in Cases, Timeout(c) PROVE TotalsFrame
  BY <1>24 DEF Timeout, Report, SubmitPost, Withdraw, TotalsFrame, QuietStep, Early, transportVars, platformVars
<1>25. ASSUME NEW c \in Cases, PostStep(c) PROVE TotalsFrame
  BY <1>25 DEF PostStep, PostNotApplied, PostApplied, PostAnswerLost, PostReturns, TotalsFrame, QuietStep, Early, transportVars, platformVars
<1> QED
  BY <1>1, <1>2, <1>3, <1>4, <1>5, <1>6, <1>7, <1>8, <1>9, <1>10, <1>11, <1>12, <1>13, <1>14,
       <1>15, <1>16, <1>17, <1>18, <1>19, <1>20, <1>21, <1>22, <1>23, <1>24, <1>25
  DEF Next, Over, MainStep, Interruption, CaseStep, UserCode

\* A run that failed stays failed, and a dropped report stays counted.
LEMMA FailuresStay == ASSUME IInv, [Next]_vars
                      PROVE  (bodyError => bodyError') /\ (dropped' = {} => dropped = {})
<1> DEFINE Grows == (bodyError => bodyError') /\ (dropped' = {} => dropped = {})
<1>1. ASSUME StartRun PROVE Grows
  BY <1>1 DEF StartRun, CreateRun, mainVars, caseVars
<1>2. ASSUME CreateReturns PROVE Grows
  BY <1>2 DEF CreateReturns, mainVars, caseVars
<1>3. ASSUME CreateRaises PROVE Grows
  BY <1>3 DEF CreateRaises, mainVars, caseVars
<1>4. ASSUME GatherReturns PROVE Grows
  BY <1>4 DEF GatherReturns, FinishRun, mainVars, caseVars
<1>5. ASSUME GatherRaises PROVE Grows
  BY <1>5 DEF GatherRaises, FinishRun, mainVars, caseVars
<1>6. ASSUME FinishReturns PROVE Grows
  BY <1>6 DEF FinishReturns, mainVars, caseVars
<1>7. ASSUME FinishRaises PROVE Grows
  BY <1>7 DEF FinishRaises, CompletionFailed, mainVars, caseVars
<1>8. ASSUME TeardownCancels PROVE Grows
  BY <1>8 DEF TeardownCancels, CancelCases, Ended, mainVars, caseVars
<1>9. ASSUME LoopCloses PROVE Grows
  BY <1>9 DEF LoopCloses, InPool, mainVars, caseVars
<1>10. ASSUME InterruptCreate PROVE Grows
  BY <1>10 DEF InterruptCreate, mainVars, caseVars
<1>11. ASSUME Interrupt PROVE Grows
  BY <1>11 DEF Interrupt, CancelCases, Ended, InPool, mainVars, caseVars
<1>12. ASSUME InterruptFinish PROVE Grows
  BY <1>12 DEF InterruptFinish, CompletionFailed, mainVars, caseVars
<1>13. ASSUME LifecycleCall PROVE Grows
  BY <1>13 DEF LifecycleCall, mainVars, caseVars
<1>14. ASSUME PoolStart PROVE Grows
  BY <1>14 DEF PoolStart, mainVars, caseVars
<1>15. ASSUME OldOrphanReturns PROVE Grows
  BY <1>15 DEF OldOrphanReturns, mainVars, caseVars
<1>16. ASSUME UNCHANGED vars PROVE Grows
  BY <1>16 DEF vars, mainVars, caseVars
<1>17. ASSUME NEW c \in Cases, Acquire(c) PROVE Grows
  BY <1>17 DEF Acquire, mainVars, caseVars
<1>18. ASSUME NEW c \in Cases, StartTask(c) PROVE Grows
  BY <1>18 DEF StartTask, Submit, mainVars, caseVars
<1>19. ASSUME NEW c \in Cases, CaseCompletes(c) PROVE Grows
  BY <1>19 DEF CaseCompletes, mainVars, caseVars
<1>20. ASSUME NEW c \in Cases, TaskReturns(c) PROVE Grows
  BY <1>20 DEF TaskReturns, Continue, Report, SubmitPost, mainVars, caseVars
<1>21. ASSUME NEW c \in Cases, ScorerReturns(c) PROVE Grows
  BY <1>21 DEF ScorerReturns, Continue, Report, SubmitPost, mainVars, caseVars
<1>22. ASSUME NEW c \in Cases, CallAborts(c) PROVE Grows
  BY <1>22 DEF CallAborts, mainVars, caseVars
<1>23. ASSUME NEW c \in Cases, \E k \in Steps : OrphanReturns(c, k) PROVE Grows
  BY <1>23 DEF OrphanReturns, mainVars, caseVars
<1>24. ASSUME NEW c \in Cases, Timeout(c) PROVE Grows
  BY <1>24 DEF Timeout, Report, SubmitPost, Withdraw, mainVars, caseVars
<1>25. ASSUME NEW c \in Cases, PostStep(c) PROVE Grows
  BY <1>25 DEF PostStep, mainVars, caseVars
<1> HIDE DEF Grows
<1>26. Grows
  BY <1>1, <1>2, <1>3, <1>4, <1>5, <1>6, <1>7, <1>8, <1>9, <1>10, <1>11, <1>12, <1>13, <1>14,
       <1>15, <1>16, <1>17, <1>18, <1>19, <1>20, <1>21, <1>22, <1>23, <1>24, <1>25
  DEF Next, Over, MainStep, Interruption, CaseStep, UserCode
<1> QED BY <1>26 DEF Grows

SumsInv == Below(sums, StoredTotals) /\ Below(totals, StoredTotals)

LEMMA SumsStep == ASSUME IInv, IInv', MatchInv, SumsInv, [Next]_vars PROVE SumsInv'
<1>1. /\ sums \in Totals /\ totals \in Totals /\ sums' \in Totals /\ totals' \in Totals
      /\ StoredTotals \in Totals
  BY StoredCounts DEF IInv, TypeOK, TransportTypeOK
<1>2. StoredTotals' \in Totals /\ Below(StoredTotals, StoredTotals')
  BY StoredGrows
<1>3. \A t \in Totals : Below(t, StoredTotals) => Below(t, StoredTotals')
  BY <1>1, <1>2 DEF Below, Totals
<1>4. Below(NoTotals, StoredTotals) /\ NoTotals \in Totals
  BY <1>1 DEF Below, Totals, NoTotals
<1>5. Below(sums', StoredTotals)
  <2>1. CASE sums' \in {sums, NoTotals}
    BY <1>4, <2>1 DEF SumsInv
  <2>2. CASE \/ sums' = [sums EXCEPT !.taskErrors = CountTaskErrors]
             \/ sums' = [sums EXCEPT !.scorerErrors = CountScorerErrors]
             \/ sums' = [sums EXCEPT !.scored = CountScored]
    BY <1>1, <2>2, CountsStored DEF SumsInv, Below, Totals
  <2> QED BY <2>1, <2>2, TotalsStep DEF TotalsFrame, QuietStep, PassStep, StoreStep
<1>6. Below(totals', StoredTotals)
  BY TotalsStep DEF SumsInv, TotalsFrame, QuietStep, PassStep, StoreStep
<1> QED BY <1>1, <1>3, <1>5, <1>6 DEF SumsInv

LEMMA MatchAlways == Spec => []MatchInv
<1>1. Init => MatchInv
  BY DEF Init, TransportInit, MatchInv
<1>2. IInv /\ MatchInv /\ [Next]_vars => MatchInv'
  BY MatchStep
<1> QED BY <1>1, <1>2, Invariance, PTL DEF Spec

\* The totals of a completed run never exceed what the platform stored.
THEOREM NoInflation == Spec => []TotalsNotInflated
<1>1. Init => SumsInv
  <2>1. ASSUME Init PROVE sums = NoTotals /\ totals = NoTotals
    BY <2>1 DEF Init, TransportInit
  <2> QED BY <2>1, StoredCounts DEF SumsInv, Below, NoTotals, Totals
<1>2. IInv /\ IInv' /\ MatchInv /\ SumsInv /\ [Next]_vars => SumsInv'
  BY SumsStep
<1>3. SumsInv => TotalsNotInflated
  BY DEF SumsInv, Below, TotalsNotInflated
<1> QED BY <1>1, <1>2, <1>3, Invariance, MatchAlways, PTL DEF Spec

-----------------------------------------------------------------------------
(* The totals of a run that dropped nothing are exact.                        *)

Clean == ~bodyError /\ dropped = {}
StatusOf(t) == IF t.taskErrors > 0 \/ t.scorerErrors > 0 THEN "completed_with_errors" ELSE "completed"

\* What each pass has summed is what the platform stored, and so is what was sent.
ExactInv ==
    Clean =>
        /\ callPc \in {"sumScorer", "sumScored", "complete", "completed"} =>
              sums.taskErrors = StoredTotals.taskErrors
        /\ callPc \in {"sumScored", "complete", "completed"} =>
              sums.scorerErrors = StoredTotals.scorerErrors
        /\ callPc \in {"complete", "completed"} => sums.scored = StoredTotals.scored
        /\ runStatus \in TerminalStatus => totals = StoredTotals /\ runStatus = StatusOf(totals)

\* Once every case of a clean run is done, every case is counted and no row changes.
LEMMA CleanIsCounted ==
    ASSUME IInv, MatchInv, Clean, AllDone
    PROVE  \A c \in Cases : post[c] = "ok" /\ contrib[c] # None /\ results[c] # None
<1> SUFFICES ASSUME NEW c \in Cases PROVE post[c] = "ok" /\ contrib[c] # None /\ results[c] # None
  OBVIOUS
<1>1. post[c] = "ok"
  BY DEF IInv, ReportInv, Clean, AllDone
<1> QED BY <1>1 DEF IInv, ReportInv, MatchInv

LEMMA ExactStep == ASSUME IInv, IInv', MatchInv, ExactInv, [Next]_vars PROVE ExactInv'
<1> SUFFICES ASSUME Clean' PROVE ExactInv'
  BY DEF ExactInv
<1>1. Clean
  BY FailuresStay DEF Clean
<1>2. /\ sums \in Totals /\ totals \in Totals /\ StoredTotals \in Totals
      /\ callPc \in {"idle", "create", "created", "createFailed", "sumTask",
                     "sumScorer", "sumScored", "complete", "completed", "completeFailed"}
  BY StoredCounts DEF IInv, TypeOK, TransportTypeOK
<1>3. CASE AllDone
  <2>1. \A c \in Cases : post[c] = "ok" /\ contrib[c] # None
    BY <1>1, <1>3, CleanIsCounted
  <2>2. results' = results
    BY <2>1, RowsGrow
  <2>3. StoredTotals' = StoredTotals
    BY <2>2 DEF StoredTotals
  <2>4. /\ CountTaskErrors = StoredTotals.taskErrors /\ CountScorerErrors = StoredTotals.scorerErrors
        /\ CountScored = StoredTotals.scored
    BY <2>1, CountsStored
  <2>5. CASE QuietStep
    BY <1>1, <2>3, <2>5 DEF ExactInv, QuietStep, Early, TerminalStatus
  <2>6. CASE PassStep("sumTask", "sumScorer", [sums EXCEPT !.taskErrors = CountTaskErrors])
    BY <1>1, <1>2, <2>3, <2>4, <2>6 DEF ExactInv, PassStep, Totals
  <2>7. CASE PassStep("sumScorer", "sumScored", [sums EXCEPT !.scorerErrors = CountScorerErrors])
    BY <1>1, <1>2, <2>3, <2>4, <2>7 DEF ExactInv, PassStep, Totals
  <2>8. CASE PassStep("sumScored", "complete", [sums EXCEPT !.scored = CountScored])
    BY <1>1, <1>2, <2>3, <2>4, <2>8 DEF ExactInv, PassStep, Totals
  <2>9. CASE StoreStep
    <3>1. sums = StoredTotals
      BY <1>1, <1>2, <2>9 DEF ExactInv, StoreStep, Totals
    <3>2. endStatus = None
      BY <1>1, <2>9 DEF StoreStep, IInv, TypeOK, TransportTypeOK, CompletionInv, Finishing, Clean
    <3>3. EffectiveStatus = StatusOf(sums)
      BY <3>2 DEF EffectiveStatus, StatusOf
    <3>4. callPc = "complete" /\ sums' = sums /\ totals' = sums /\ runStatus' = EffectiveStatus
      BY <2>9 DEF StoreStep
    <3> QED BY <2>3, <3>1, <3>3, <3>4 DEF ExactInv
  <2> QED BY <2>5, <2>6, <2>7, <2>8, <2>9, TotalsStep DEF TotalsFrame
<1>4. CASE ~AllDone
  <2>1. ~Finishing /\ runStatus \notin TerminalStatus
    BY <1>1, <1>4 DEF IInv, CompletionInv, Clean
  <2>2. QuietStep
    BY <2>1, TotalsStep DEF TotalsFrame, PassStep, StoreStep, Finishing, Summing
  <2>3. /\ callPc' \notin {"sumScorer", "sumScored", "complete", "completed"}
        /\ runStatus' \notin TerminalStatus
    BY <2>1, <2>2 DEF QuietStep, Early, Finishing, Summing, TerminalStatus
  <2> QED BY <2>3 DEF ExactInv
<1> QED BY <1>3, <1>4

\* A returned run that dropped no report sent exact totals, and is "completed"
\* exactly when no row is errored.
THEOREM ExactCompletion == Spec => []CompletionIsExact
<1>1. Init => ExactInv
  BY DEF Init, TransportInit, ExactInv, TerminalStatus
<1>2. IInv /\ IInv' /\ MatchInv /\ ExactInv /\ [Next]_vars => ExactInv'
  BY ExactStep
<1>3. IInv /\ MatchInv /\ ExactInv => CompletionIsExact
  <2> SUFFICES ASSUME IInv, MatchInv, ExactInv, outcome = "returned", dropped = {}
               PROVE  /\ totals = StoredTotals
                      /\ runStatus = "completed" <=> \A c \in Cases : results[c].status # "errored"
    BY DEF CompletionIsExact
  <2>1. Clean /\ AllDone /\ runStatus \in TerminalStatus
    BY DEF IInv, OutcomeInv, Clean, TerminalStatus
  <2>2. totals = StoredTotals /\ runStatus = StatusOf(StoredTotals)
    BY <2>1 DEF ExactInv
  <2>3. \A c \in Cases : results[c] # None /\ results[c] = Payload(res[c]) /\ res[c] \in ItemResult
    BY <2>1, CleanIsCounted DEF IInv, ResultInv, TypeOK
  <2>4. ASSUME NEW c \in Cases
        PROVE  results[c].status # "errored" <=> ~results[c].taskError /\ results[c].errors = {}
    <3>1. results[c] = Payload(res[c])
      BY <2>3
    <3>2. Payload(res[c]).status # "errored" <=> ~Payload(res[c]).taskError /\ Payload(res[c]).errors = {}
      BY DEF Payload, ItemStatus
    <3> QED BY <3>1, <3>2
  <2>5. ASSUME NEW c \in Cases PROVE results[c].errors \subseteq Scorers
    <3>1. results[c] = Payload(res[c]) /\ res[c] \in ItemResult
      BY <2>3
    <3> QED BY <3>1 DEF Payload, ItemResult
  <2>6. (FailedRows = {} /\ WrongScores = {}) <=> \A c \in Cases : results[c].status # "errored"
    <3>1. FailedRows = {} <=> \A c \in Cases : ~results[c].taskError
      BY <2>3 DEF FailedRows
    <3>2. WrongScores = {} <=> \A c \in Cases : results[c].errors = {}
      <4>1. ASSUME WrongScores = {}, NEW c \in Cases PROVE results[c].errors = {}
        <5> SUFFICES ASSUME NEW s \in results[c].errors PROVE FALSE
          OBVIOUS
        <5>1. <<c, s>> \in Cases \X Scorers
          BY <2>5
        <5>2. <<c, s>> \in WrongScores
          BY <2>3, <5>1 DEF WrongScores
        <5> QED BY <4>1, <5>2
      <4>2. ASSUME \A c \in Cases : results[c].errors = {} PROVE WrongScores = {}
        <5> SUFFICES ASSUME NEW p \in WrongScores PROVE FALSE
          OBVIOUS
        <5>1. p[1] \in Cases /\ p[2] \in results[p[1]].errors
          BY DEF WrongScores
        <5> QED BY <4>2, <5>1
      <4> QED BY <4>1, <4>2
    <3> QED BY <2>4, <3>1, <3>2
  <2>7. StatusOf(StoredTotals) = "completed" <=> FailedRows = {} /\ WrongScores = {}
    <3>1. /\ Cardinality(FailedRows) \in Nat /\ Cardinality(WrongScores) \in Nat
          /\ Cardinality(FailedRows) = 0 <=> FailedRows = {}
          /\ Cardinality(WrongScores) = 0 <=> WrongScores = {}
      BY StoredCounts, FS_EmptySet, FS_CardinalityType
    <3> QED BY <3>1, StoredCounts DEF StatusOf
  <2> QED BY <2>2, <2>6, <2>7
<1> QED BY <1>1, <1>2, <1>3, Invariance, MatchAlways, PTL DEF Spec

-----------------------------------------------------------------------------
(* Nobody waits for nobody, and nothing restarts: what EvaluationEnds needs     *)
(* besides the fairness of the loop, of the threads and of the deadlines.      *)

\* A case that awaits its task or a scorer is one whose call is queued or executes;
\* registration is under way or settled; no case is cancelled while the gather still
\* waits for it; and a loop that is closing has no case left, no call queued, and no
\* coroutine of user code it would wait for.
ProgressInv ==
    /\ \A c \in Cases : casePc[c] = "calling" => <<c, step[c]>> \in queue \cup live
    /\ mainPc = "creating" => callPc # "idle"
    /\ mainPc \in {"start", "creating", "running"} => \A c \in Cases : casePc[c] # "cancelled"
    /\ mainPc = "closing" =>
          /\ \A c \in Cases : Ended(c)
          /\ queue = {}
          /\ \A x \in live : x[2] \in SyncSteps \/ res[x[1]].error

\* What the main coroutine can go on with ...
MainReady ==
    \/ mainPc = "start" /\ callPc = "idle" /\ RunIds # {}
    \/ mainPc = "creating" /\ callPc \in {"created", "createFailed"}
    \/ mainPc = "running" /\ callPc = "idle" /\ AllDone
    \/ mainPc = "running" /\ callPc = "idle" /\ \E c \in Cases : casePc[c] = "raised"
    \/ mainPc = "finishing" /\ callPc \in {"completed", "completeFailed"}
    \/ mainPc = "teardown"
    \/ /\ mainPc = "closing" /\ ~CallInFlight
       /\ (\A c \in Cases : ~InFlight(c)) /\ AwaitedAtClose = {}

\* ... and the coroutine of a case, which awaits neither user code nor a thread.
CaseReady(c) ==
    /\ LoopRuns
    /\ \/ casePc[c] = "waiting" /\ Cardinality({d \in Cases : InSlot(d)}) < MaxConcurrency
       \/ casePc[c] = "registering"
       \/ casePc[c] = "reporting" /\ post[c] \in {"ok", "failed"}

\* The case awaits user code, whose call a pool thread will take or is executing: under
\* a timeout its deadline may fire.
CallAwaited(c) ==
    /\ LoopRuns
    /\ casePc[c] = "calling"
    /\ <<c, step[c]>> \in queue \cup live

\* The parties of a run never all wait for one another: until it ends, the main
\* coroutine, the coroutine of a case or a thread of the transport can go on, or some
\* case awaits user code that is queued or executing.
SomebodyGoesOn ==
    mainPc # "ended" =>
        \/ MainReady
        \/ CallInFlight
        \/ \E c \in Cases : CaseReady(c) \/ InFlight(c) \/ CallAwaited(c)

LEMMA ProgressStep == ASSUME IInv, ProgressInv, [Next]_vars PROVE ProgressInv'
<1> USE DEF ProgressInv, mainVars, caseVars, poolVars, transportVars, platformVars
<1>0. /\ casePc \in [Cases -> {"waiting", "registering", "calling", "reporting", "done", "raised", "cancelled"}]
      /\ step \in [Cases -> Steps] /\ Steps = 0 .. LastStep /\ LastStep \in Nat
      /\ mainPc \in {"start", "creating"} =>
            (\A c \in Cases : casePc[c] = "waiting") /\ callPc \in {"idle", "create", "created", "createFailed"}
      /\ mainPc = "running" => callPc = "idle"
  BY StepType DEF IInv, TypeOK, RegisteredInv, Steps
<1>1. CASE StartRun
  BY <1>0, <1>1 DEF StartRun, CreateRun
<1>2. CASE CreateReturns
  BY <1>0, <1>2 DEF CreateReturns
<1>3. CASE CreateRaises
  BY <1>0, <1>3 DEF CreateRaises, AfterBody
<1>4. CASE GatherReturns
  BY <1>0, <1>4 DEF GatherReturns, FinishRun
<1>5. CASE GatherRaises
  BY <1>0, <1>5 DEF GatherRaises, FinishRun
<1>6. CASE FinishReturns
  BY <1>0, <1>6 DEF FinishReturns, AfterBody
<1>7. CASE FinishRaises
  BY <1>0, <1>7 DEF FinishRaises, CompletionFailed, AfterBody
<1>8. CASE TeardownCancels
  BY <1>0, <1>8 DEF TeardownCancels, CancelCases, Ended, InPool, Runaway
<1>9. CASE LoopCloses
  BY <1>0, <1>9 DEF LoopCloses, InPool, Ended
<1>10. CASE InterruptCreate
  BY <1>0, <1>10 DEF InterruptCreate, AfterBody
<1>11. CASE Interrupt
  BY <1>0, <1>11 DEF Interrupt, CancelCases, Ended
<1>12. CASE InterruptFinish
  BY <1>0, <1>12 DEF InterruptFinish, CompletionFailed, AfterBody
<1>13. CASE LifecycleCall
  BY <1>0, <1>13 DEF LifecycleCall, CreateAttempt, RegisterRun, SumContributions, SumPass,
     CompleteAttempt, StoreCompletion, RetryOr, Ended
<1>14. CASE PoolStart
  BY <1>0, <1>14 DEF PoolStart, Ended
<1>15. CASE OldOrphanReturns
  BY <1>0, <1>15 DEF OldOrphanReturns, Ended
<1>16. CASE UNCHANGED vars
  BY <1>0, <1>16 DEF vars, Ended
<1>17. ASSUME NEW c \in Cases, Acquire(c) PROVE ProgressInv'
  BY <1>0, <1>17 DEF Acquire, LoopRuns, Ended
<1>18. ASSUME NEW c \in Cases, StartTask(c) PROVE ProgressInv'
  <2>1. step[c] = 0
    BY <1>18 DEF StartTask, IInv, ResultInv
  <2> QED
    BY <1>0, <1>18, <2>1 DEF StartTask, Submit, LoopRuns, Ended
<1>19. ASSUME NEW c \in Cases, CaseCompletes(c) PROVE ProgressInv'
  BY <1>0, <1>19 DEF CaseCompletes, LoopRuns, Ended
<1>20. ASSUME NEW c \in Cases, TaskReturns(c) PROVE ProgressInv'
  BY <1>0, <1>20 DEF TaskReturns, Continue, Report, Awaits, LoopRuns, Ended
<1>21. ASSUME NEW c \in Cases, ScorerReturns(c) PROVE ProgressInv'
  BY <1>0, <1>21 DEF ScorerReturns, Continue, Report, Awaits, LoopRuns, Ended
<1>22. ASSUME NEW c \in Cases, CallAborts(c) PROVE ProgressInv'
  BY <1>0, <1>22 DEF CallAborts, LoopRuns, Ended
<1>23. ASSUME NEW c \in Cases, \E k \in Steps : OrphanReturns(c, k) PROVE ProgressInv'
  BY <1>0, <1>23 DEF OrphanReturns, Awaits, Ended
<1>24. ASSUME NEW c \in Cases, Timeout(c) PROVE ProgressInv'
  BY <1>0, <1>24 DEF Timeout, Withdraw, Report, LoopRuns, Ended
<1>25. ASSUME NEW c \in Cases, PostStep(c) PROVE ProgressInv'
  BY <1>0, <1>25 DEF PostStep, PostNotApplied, PostApplied, PostAnswerLost, PostReturns, Ended
<1> QED
  BY <1>1, <1>2, <1>3, <1>4, <1>5, <1>6, <1>7, <1>8, <1>9, <1>10, <1>11, <1>12, <1>13, <1>14, <1>15, <1>16, <1>17, <1>18, <1>19, <1>20, <1>21, <1>22, <1>23, <1>24, <1>25
  DEF Next, Over, MainStep, Interruption, CaseStep, UserCode

\* The calls and the coroutines of a run always agree on who waits for whom.
LEMMA ProgressAlways == Spec => []ProgressInv
<1>1. Init => ProgressInv
  BY DEF Init, ProgressInv
<1>2. IInv /\ ProgressInv /\ [Next]_vars => ProgressInv'
  BY ProgressStep
<1> QED
  BY <1>1, <1>2, Invariance, PTL DEF Spec

\* Until it has ended, a run is never stuck: whatever was retried, lost, timed out or
\* interrupted, somebody can go on, or a case awaits user code (whose deadline, under a
\* timeout, may fire).
THEOREM NobodyIsStuck == Spec => []SomebodyGoesOn
<1>1. IInv /\ ProgressInv => SomebodyGoesOn
  <2> SUFFICES ASSUME IInv, ProgressInv, mainPc # "ended", ~CallInFlight, ~MainReady
               PROVE  \E c \in Cases : CaseReady(c) \/ InFlight(c) \/ CallAwaited(c)
    BY DEF SomebodyGoesOn
  <2>1. mainPc \in {"start", "creating", "running", "finishing", "teardown", "closing", "ended"}
    BY DEF IInv, TypeOK
  <2>2. mainPc \notin {"start", "creating", "finishing", "teardown"}
    BY <2>1, TransportAssumption
    DEF MainReady, CallInFlight, IInv, RegisteredInv, ProgressInv, Finishing, Summing
  <2>3. CASE mainPc = "closing"
    <3>1. AwaitedAtClose = {}
      BY <2>3 DEF ProgressInv, AwaitedAtClose, Runaway, InPool
    <3> QED
      BY <2>3, <3>1 DEF MainReady
  <2>4. CASE mainPc = "running"
    <3>1. callPc = "idle" /\ LoopRuns
      BY <2>4 DEF IInv, RegisteredInv, LoopRuns
    <3>2. PICK c \in Cases : casePc[c] # "done"
      BY <2>4, <3>1 DEF MainReady, AllDone
    <3>3. casePc[c] \in {"waiting", "registering", "calling", "reporting"}
      BY <2>4, <3>1, <3>2 DEF MainReady, IInv, TypeOK, ProgressInv
    <3>4. ASSUME NEW d \in Cases, InSlot(d)
          PROVE  CaseReady(d) \/ InFlight(d) \/ CallAwaited(d)
      <4>1. CASE casePc[d] = "reporting"
        <5>1. post[d] \in {"sending", "applied", "ok", "failed"}
          BY <4>1 DEF IInv, TypeOK, TransportTypeOK, ReportInv
        <5> QED
          BY <3>1, <4>1, <5>1 DEF CaseReady, InFlight
      <4>2. CASE casePc[d] \in {"registering", "calling"}
        BY <3>1, <4>2 DEF CaseReady, CallAwaited, ProgressInv
      <4> QED
        BY <3>4, <4>1, <4>2 DEF InSlot
    <3>5. CASE \E d \in Cases : InSlot(d)
      BY <3>4, <3>5
    <3>6. CASE \A d \in Cases : ~InSlot(d)
      <4>1. {d \in Cases : InSlot(d)} = {}
        BY <3>6
      <4>2. Cardinality({d \in Cases : InSlot(d)}) < MaxConcurrency
        BY <4>1, FS_EmptySet, EngineAssumption
      <4>3. casePc[c] = "waiting"
        BY <3>3, <3>6 DEF InSlot
      <4> QED
        BY <3>1, <4>2, <4>3 DEF CaseReady
    <3> QED
      BY <3>5, <3>6
  <2> QED
    BY <2>1, <2>2, <2>3, <2>4
<1> QED
  BY <1>1, Invariance, ProgressAlways, PTL

\* How far the main coroutine, the lifecycle call and a case still have to go.
MainRank ==
    CASE mainPc = "start"     -> 6
      [] mainPc = "creating"  -> 5
      [] mainPc = "running"   -> 4
      [] mainPc = "finishing" -> 3
      [] mainPc = "teardown"  -> 2
      [] mainPc = "closing"   -> 1
      [] mainPc = "ended"     -> 0

CallRank ==
    CASE callPc = "sumTask"   -> RetryAttempts + 4
      [] callPc = "sumScorer" -> RetryAttempts + 3
      [] callPc = "sumScored" -> RetryAttempts + 2
      [] callPc \in {"create", "complete"} -> RetryAttempts + 1 - tries
      [] OTHER -> 0

CaseRank(c) ==
    CASE casePc[c] = "waiting"     -> LastStep + 8
      [] casePc[c] = "registering" -> LastStep + 7
      [] casePc[c] = "calling"     -> LastStep + 6 - step[c]
      [] casePc[c] = "reporting"   -> 3
      [] OTHER -> 0

PostRank(c) ==
    CASE post[c] = "sending" -> 2
      [] post[c] = "applied" -> 1
      [] OTHER -> 0

\* No step leads back, whether the engine's, the user's or an interrupt's ...
NothingRestarts ==
    /\ MainRank' <= MainRank
    /\ MainRank' = MainRank => CallRank' <= CallRank
    /\ \A c \in Cases : (CaseRank(c) + PostRank(c))' <= CaseRank(c) + PostRank(c)

\* ... and each step of the engine, of its threads or of a deadline gets closer to
\* the end.
EngineStep ==
    \/ MainStep
    \/ LifecycleCall
    \/ \E c \in Cases : CaseStep(c) \/ Timeout(c) \/ PostStep(c)

ComesCloser ==
    \/ MainRank' < MainRank
    \/ MainRank' = MainRank /\ CallRank' < CallRank
    \/ \E c \in Cases : (CaseRank(c) + PostRank(c))' < CaseRank(c) + PostRank(c)

OnlyForward == NothingRestarts /\ (EngineStep => ComesCloser)

\* The ranks are numbers, so neither the engine nor its threads can step for ever.
LEMMA RankTypes ==
    ASSUME TypeOK
    PROVE  /\ MainRank \in 0 .. 6
           /\ CallRank \in Nat
           /\ \A c \in Cases : CaseRank(c) \in Nat /\ PostRank(c) \in 0 .. 2
<1>1. MainRank \in 0 .. 6
  BY DEF TypeOK, MainRank
<1>2. CallRank \in Nat
  BY TransportAssumption DEF TypeOK, TransportTypeOK, CallRank
<1>3. ASSUME NEW c \in Cases PROVE CaseRank(c) \in Nat /\ PostRank(c) \in 0 .. 2
  BY StepType DEF TypeOK, Steps, CaseRank, PostRank
<1> QED
  BY <1>1, <1>2, <1>3

\* What leaves the cases and their reports alone leaves their ranks alone.
LEMMA CasesStand ==
    ASSUME TypeOK, UNCHANGED <<casePc, step, post>>
    PROVE  \A c \in Cases : (CaseRank(c) + PostRank(c))' <= CaseRank(c) + PostRank(c)
BY RankTypes DEF CaseRank, PostRank

\* Cancelling the cases that are not over raises no rank.
LEMMA CancelledFall ==
    ASSUME TypeOK, UNCHANGED step,
           CancelCases \/ (casePc' = [c \in Cases |-> "cancelled"] /\ UNCHANGED post)
    PROVE  \A c \in Cases : (CaseRank(c) + PostRank(c))' <= CaseRank(c) + PostRank(c)
<1> SUFFICES ASSUME NEW c \in Cases
             PROVE  (CaseRank(c) + PostRank(c))' <= CaseRank(c) + PostRank(c)
  OBVIOUS
<1>1. CaseRank(c) \in Nat /\ PostRank(c) \in 0 .. 2
  BY RankTypes
<1>2. CaseRank(c)' = 0
  BY DEF CaseRank, CancelCases, Ended
<1>3. PostRank(c)' = PostRank(c) \/ PostRank(c)' = 0
  BY DEF PostRank, CancelCases
<1> QED
  BY <1>1, <1>2, <1>3

\* A step of one case, of its report or of its user code lowers its own rank, and
\* leaves the others alone.
LEMMA OneCaseFalls ==
    ASSUME TypeOK, NEW c \in Cases, UNCHANGED <<mainPc, callPc, tries>>,
           \A d \in Cases \ {c} : UNCHANGED <<casePc[d], step[d], post[d]>>,
           (CaseRank(c) + PostRank(c))' \in Nat,
           (CaseRank(c) + PostRank(c))' < CaseRank(c) + PostRank(c)
    PROVE  NothingRestarts /\ ComesCloser
<1>1. MainRank' = MainRank /\ CallRank' = CallRank
  BY DEF MainRank, CallRank
<1>2. \A d \in Cases \ {c} : (CaseRank(d) + PostRank(d))' = CaseRank(d) + PostRank(d)
  BY DEF CaseRank, PostRank
<1>3. \A d \in Cases : CaseRank(d) + PostRank(d) \in Nat
  BY RankTypes
<1>4. \A d \in Cases : (CaseRank(d) + PostRank(d))' <= CaseRank(d) + PostRank(d)
  <2> SUFFICES ASSUME NEW d \in Cases
               PROVE  (CaseRank(d) + PostRank(d))' <= CaseRank(d) + PostRank(d)
    OBVIOUS
  <2>1. CASE d = c
    BY <1>3, <2>1
  <2>2. CASE d # c
    BY <1>2, <1>3, <2>2
  <2> QED
    BY <2>1, <2>2
<1> QED
  BY <1>1, <1>4, RankTypes DEF NothingRestarts, ComesCloser

\* The coroutine of a case, its user code and its deadline.
LEMMA CaseForward ==
    ASSUME TypeOK, NEW c \in Cases,
           CaseStep(c) \/ TaskReturns(c) \/ ScorerReturns(c) \/ CallAborts(c) \/ Timeout(c)
    PROVE  NothingRestarts /\ ComesCloser
<1> USE StepType DEF mainVars, transportVars
<1>0. /\ casePc \in [Cases -> {"waiting", "registering", "calling", "reporting", "done",
                              "raised", "cancelled"}]
      /\ step \in [Cases -> 0 .. LastStep]
      /\ post \in [Cases -> {"none", "sending", "applied", "ok", "failed"}]
  BY DEF TypeOK, TransportTypeOK, Steps
<1>1. UNCHANGED <<mainPc, callPc, tries>>
  BY DEF CaseStep, Acquire, StartTask, CaseCompletes, TaskReturns, ScorerReturns, CallAborts,
         Timeout
<1>2. ASSUME NEW k \in Steps, Awaits(c, k), NEW item, Continue(c, k, item)
      PROVE  NothingRestarts /\ ComesCloser
  <2>1. CASE k < LastStep
    <3>1. casePc[c] = "calling" /\ step[c] = k /\ k \in Nat
      BY <1>2 DEF Awaits, Steps
    <3>2. UNCHANGED <<casePc, post>> /\ step' = [step EXCEPT ![c] = k + 1]
      BY <1>2, <2>1 DEF Continue
    <3>3. \A d \in Cases \ {c} : UNCHANGED <<casePc[d], step[d], post[d]>>
      BY <1>0, <3>2
    <3>4. CaseRank(c) = LastStep + 6 - k /\ CaseRank(c)' = LastStep + 6 - (k + 1)
      BY <1>0, <3>1, <3>2 DEF CaseRank
    <3>5. PostRank(c)' = PostRank(c) /\ PostRank(c) \in 0 .. 2
      BY <3>2, RankTypes DEF PostRank
    <3>6. /\ (CaseRank(c) + PostRank(c))' \in Nat
          /\ (CaseRank(c) + PostRank(c))' < CaseRank(c) + PostRank(c)
      BY <2>1, <3>1, <3>4, <3>5
    <3> QED
      BY <1>1, <3>3, <3>6, OneCaseFalls
  <2>2. CASE ~(k < LastStep)
    <3>1. casePc[c] = "calling" /\ Report(c, item) /\ UNCHANGED step
      BY <1>2, <2>2 DEF Continue, Awaits
    <3> QED
      BY <1>0, <1>1, <3>1, RankTypes, OneCaseFalls
      DEF Report, SubmitPost, CaseRank, PostRank
  <2> QED
    BY <2>1, <2>2
<1>3. ASSUME casePc[c] = "calling", NEW item, Report(c, item), UNCHANGED step
      PROVE  NothingRestarts /\ ComesCloser
  <2>1. \A d \in Cases \ {c} : UNCHANGED <<casePc[d], step[d], post[d]>>
    BY <1>0, <1>3 DEF Report, SubmitPost
  <2>2. (CaseRank(c) + PostRank(c))' = 5
    BY <1>0, <1>3 DEF Report, SubmitPost, CaseRank, PostRank
  <2>3. CaseRank(c) >= 6 /\ CaseRank(c) \in Nat /\ PostRank(c) \in 0 .. 2
    BY <1>0, <1>3, RankTypes DEF CaseRank
  <2> QED
    BY <1>1, <2>1, <2>2, <2>3, OneCaseFalls
<1>4. ASSUME UNCHANGED <<step, post>>, casePc' = [casePc EXCEPT ![c] = casePc'[c]],
             \/ casePc[c] = "waiting" /\ casePc'[c] \in {"registering", "raised"}
             \/ casePc[c] = "registering" /\ casePc'[c] = "calling"
             \/ casePc[c] = "calling" /\ casePc'[c] = "raised"
             \/ casePc[c] = "reporting" /\ casePc'[c] \in {"done", "raised"}
      PROVE  NothingRestarts /\ ComesCloser
  <2>1. \A d \in Cases \ {c} : UNCHANGED <<casePc[d], step[d], post[d]>>
    BY <1>0, <1>4
  <2>2. PostRank(c)' = PostRank(c) /\ PostRank(c) \in 0 .. 2
    BY <1>4, RankTypes DEF PostRank
  <2>3. CaseRank(c)' \in Nat /\ CaseRank(c) \in Nat /\ CaseRank(c)' < CaseRank(c)
    BY <1>0, <1>4 DEF CaseRank
  <2> QED
    BY <1>1, <2>1, <2>2, <2>3, OneCaseFalls
<1>5. CASE CaseStep(c) \/ CallAborts(c)
  <2>1. /\ UNCHANGED <<step, post>> /\ casePc' = [casePc EXCEPT ![c] = casePc'[c]]
        /\ \/ casePc[c] = "waiting" /\ casePc'[c] \in {"registering", "raised"}
           \/ casePc[c] = "registering" /\ casePc'[c] = "calling"
           \/ casePc[c] = "calling" /\ casePc'[c] = "raised"
           \/ casePc[c] = "reporting" /\ casePc'[c] \in {"done", "raised"}
    BY <1>0, <1>5 DEF CaseStep, Acquire, StartTask, CaseCompletes, CallAborts
  <2> QED
    BY <1>4, <2>1
<1>6. CASE TaskReturns(c)
  BY <1>2, <1>3, <1>6 DEF TaskReturns, Awaits
<1>7. CASE ScorerReturns(c)
  <2>1. PICK k \in 1 .. LastStep : Awaits(c, k) /\ \E item : Continue(c, k, item)
    BY <1>7 DEF ScorerReturns
  <2> QED
    BY <1>2, <2>1 DEF Steps
<1>8. CASE Timeout(c)
  BY <1>3, <1>8 DEF Timeout
<1> QED
  BY <1>5, <1>6, <1>7, <1>8

\* The thread of a report.
LEMMA PostForward ==
    ASSUME TypeOK, NEW c \in Cases, PostStep(c)
    PROVE  NothingRestarts /\ ComesCloser
<1>0. post \in [Cases -> {"none", "sending", "applied", "ok", "failed"}]
  BY DEF TypeOK, TransportTypeOK
<1>1. /\ UNCHANGED <<mainPc, callPc, tries, casePc, step>>
      /\ post' = [post EXCEPT ![c] = post'[c]]
      /\ \/ post[c] = "sending" /\ post'[c] \in {"failed", "applied"}
         \/ post[c] = "applied" /\ post'[c] \in {"failed", "ok"}
  BY <1>0 DEF PostStep, PostNotApplied, PostApplied, PostAnswerLost, PostReturns, mainVars,
         caseVars, transportVars
<1>2. \A d \in Cases \ {c} : UNCHANGED <<casePc[d], step[d], post[d]>>
  BY <1>0, <1>1
<1>3. CaseRank(c)' = CaseRank(c) /\ CaseRank(c) \in Nat
  BY <1>1, RankTypes DEF CaseRank
<1>4. PostRank(c)' \in Nat /\ PostRank(c) \in Nat /\ PostRank(c)' < PostRank(c)
  BY <1>1 DEF PostRank
<1> QED
  BY <1>1, <1>2, <1>3, <1>4, OneCaseFalls

\* The thread of a lifecycle call: its retries are bounded.
LEMMA CallForward ==
    ASSUME TypeOK, LifecycleCall
    PROVE  NothingRestarts /\ ComesCloser
<1>0. tries \in 0 .. RetryAttempts /\ RetryAttempts \in Nat \ {0}
  BY TransportAssumption DEF TypeOK, TransportTypeOK
<1>1. UNCHANGED <<mainPc, casePc, step, post>>
  BY DEF LifecycleCall, CreateAttempt, SumContributions, SumPass, CompleteAttempt, mainVars,
         caseVars
<1>2. CallRank' < CallRank
  <2>1. ASSUME callPc \in {"create", "complete"}, NEW failedPc \in {"createFailed", "completeFailed"},
               RetryOr(failedPc)
        PROVE  CallRank' < CallRank
    <3>1. CASE tries + 1 < RetryAttempts
      BY <1>0, <2>1, <3>1 DEF RetryOr, CallRank
    <3>2. CASE ~(tries + 1 < RetryAttempts)
      BY <1>0, <2>1, <3>2 DEF RetryOr, CallRank
    <3> QED
      BY <3>1, <3>2
  <2>2. CASE CreateAttempt
    <3>1. callPc = "create" /\ (RetryOr("createFailed") \/ callPc' \in {"created", "createFailed"})
      BY <2>2 DEF CreateAttempt
    <3> QED
      BY <1>0, <2>1, <3>1 DEF CallRank
  <2>3. CASE CompleteAttempt
    <3>1. /\ callPc = "complete"
          /\ RetryOr("completeFailed") \/ callPc' \in {"completed", "completeFailed"}
      BY <2>3 DEF CompleteAttempt
    <3> QED
      BY <1>0, <2>1, <3>1 DEF CallRank
  <2>4. CASE SumContributions
    BY <1>0, <2>4 DEF SumContributions, SumPass, CallRank
  <2> QED
    BY <2>2, <2>3, <2>4 DEF LifecycleCall
<1>3. MainRank' = MainRank
  BY <1>1 DEF MainRank
<1>4. CallRank' <= CallRank
  <2>1. CallRank' \in Nat
    <3>1. tries' \in 0 .. RetryAttempts
      BY LifecycleType DEF TypeOK, TransportTypeOK
    <3> QED
      BY <1>0, <3>1 DEF CallRank
  <2> QED
    BY <1>2, <2>1, RankTypes
<1> QED
  BY <1>1, <1>2, <1>3, <1>4, CasesStand, RankTypes DEF NothingRestarts, ComesCloser

\* The main coroutine, and an interrupt of it.
LEMMA MainForward ==
    ASSUME TypeOK, MainStep \/ Interruption
    PROVE  NothingRestarts /\ ComesCloser
<1> USE DEF mainVars, caseVars, transportVars
<1>1. MainRank' < MainRank /\ MainRank' \in 0 .. 6 /\ MainRank \in 0 .. 6
  <2>1. /\ mainPc = "start" => mainPc' = "creating"
        /\ mainPc = "creating" => mainPc' \in {"running", "teardown", "ended"}
        /\ mainPc = "running" => mainPc' = "finishing"
        /\ mainPc = "finishing" => mainPc' \in {"teardown", "ended"}
        /\ mainPc = "teardown" => mainPc' = "closing"
        /\ mainPc = "closing" => mainPc' = "ended"
        /\ mainPc # "ended"
    BY DEF MainStep, StartRun, CreateReturns, CreateRaises, GatherReturns, GatherRaises,
           FinishReturns, FinishRaises, CompletionFailed, TeardownCancels, LoopCloses,
           Interruption, InterruptCreate, Interrupt, InterruptFinish, AfterBody
  <2> QED
    BY <2>1 DEF MainRank, TypeOK
<1>2. \A c \in Cases : (CaseRank(c) + PostRank(c))' <= CaseRank(c) + PostRank(c)
  <2>1. CASE CreateRaises \/ InterruptCreate \/ TeardownCancels \/ Interrupt
    <3>1. /\ UNCHANGED step
          /\ CancelCases \/ (casePc' = [c \in Cases |-> "cancelled"] /\ UNCHANGED post)
      BY <2>1 DEF CreateRaises, InterruptCreate, TeardownCancels, Interrupt
    <3> QED
      BY <3>1, CancelledFall
  <2>2. CASE ~(CreateRaises \/ InterruptCreate \/ TeardownCancels \/ Interrupt)
    <3>1. UNCHANGED <<casePc, step, post>>
      BY <2>2 DEF MainStep, StartRun, CreateRun, CreateReturns, GatherReturns, GatherRaises,
         FinishRun, FinishReturns, FinishRaises, LoopCloses, Interruption, InterruptFinish
    <3> QED
      BY <3>1, CasesStand
  <2> QED
    BY <2>1, <2>2
<1> QED
  BY <1>1, <1>2 DEF NothingRestarts, ComesCloser

\* A run only goes forward: no step, interrupts and late user code included, leads
\* back to a call, a retry or a report that was made, and every step of the engine, of
\* its threads or of a deadline leaves fewer of them to make.  With NobodyIsStuck, a run
\* whose engine is scheduled ends, or waits for user code.
THEOREM RunsGoForward == Spec => [][OnlyForward]_vars
<1>1. IInv /\ [Next]_vars => OnlyForward
  <2> SUFFICES ASSUME TypeOK, [Next]_vars PROVE OnlyForward
    BY DEF IInv
  <2>1. EngineStep => NothingRestarts /\ ComesCloser
    BY MainForward, CallForward, CaseForward, PostForward DEF EngineStep
  <2>2. ASSUME UNCHANGED <<mainPc, callPc, tries, casePc, step, post>> PROVE NothingRestarts
    <3>1. MainRank' = MainRank /\ CallRank' = CallRank
      BY <2>2 DEF MainRank, CallRank
    <3> QED
      BY <2>2, <3>1, CasesStand, RankTypes DEF NothingRestarts
  <2>3. CASE PoolStart \/ OldOrphanReturns \/ UNCHANGED vars
             \/ \E c \in Cases, k \in Steps : OrphanReturns(c, k)
    <3>1. UNCHANGED <<mainPc, callPc, tries, casePc, step, post>>
      BY <2>3 DEF PoolStart, OldOrphanReturns, OrphanReturns, vars, mainVars, caseVars,
         transportVars
    <3> QED
      BY <2>1, <2>2, <3>1 DEF OnlyForward
  <2>4. CASE EngineStep \/ Interruption
             \/ \E c \in Cases : TaskReturns(c) \/ ScorerReturns(c) \/ CallAborts(c)
    BY <2>1, <2>4, MainForward, CaseForward DEF OnlyForward
  <2> QED
    BY <2>3, <2>4 DEF Next, Over, EngineStep, UserCode
<1> QED
  BY <1>1, Invariance, PTL DEF Spec
=============================================================================
