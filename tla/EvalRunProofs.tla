---------------------------- MODULE EvalRunProofs ----------------------------
(***************************************************************************)
(* Proofs about EvalRun, for any sets of cases and scorers and any values   *)
(* of the other constants.                                                  *)
(***************************************************************************)
EXTENDS EvalRun, FiniteSetTheorems, TLAPS

-----------------------------------------------------------------------------
(* What the operators of the transport return.                               *)

\* The row built from a result is a row of the platform.
LEMMA PayloadType ==
    ASSUME NEW item \in ItemResult
    PROVE  Payload(item) \in Rows
BY DEF Payload, ItemResult, Rows, ItemStatus

\* The contribution recorded for a result is one that finish_run can add up.
LEMMA ContributionType ==
    ASSUME NEW item \in ItemResult
    PROVE  Contribution(item) \in Contributions
BY DEF Contribution, ItemResult, Contributions

\* A pass of finish_run over the contributions yields a natural number.
LEMMA CountTypes ==
    /\ CountTaskErrors \in Nat
    /\ CountScorerErrors \in Nat
    /\ CountScored \in Nat
<1>0. IsFiniteSet(Cases) /\ IsFiniteSet(Scorers)
  BY TransportAssumption
<1>1. CountTaskErrors \in Nat
  <2>1. {c \in Cases : contrib[c] # None /\ contrib[c].taskError} \in SUBSET Cases
    OBVIOUS
  <2> QED
    BY <1>0, <2>1, FS_Subset, FS_CardinalityType DEF CountTaskErrors
<1>2. CountScorerErrors \in Nat
  <2>1. IsFiniteSet(Cases \X Scorers)
    BY <1>0, FS_Product
  <2>2. {p \in Cases \X Scorers :
            contrib[p[1]] # None /\ p[2] \in contrib[p[1]].scorerErrors}
        \in SUBSET (Cases \X Scorers)
    OBVIOUS
  <2> QED
    BY <2>1, <2>2, FS_Subset, FS_CardinalityType DEF CountScorerErrors
<1>3. CountScored \in Nat
  <2>1. {c \in Cases : contrib[c] # None /\ contrib[c].scored} \in SUBSET Cases
    OBVIOUS
  <2> QED
    BY <1>0, <2>1, FS_Subset, FS_CardinalityType DEF CountScored
<1> QED
  BY <1>1, <1>2, <1>3

\* The status finish_run sends is a terminal one.
LEMMA EffectiveStatusType ==
    ASSUME endStatus \in {None, "incomplete"}
    PROVE  EffectiveStatus \in TerminalStatus
BY DEF EffectiveStatus, TerminalStatus

\* What a scorer does to a result gives a result.
LEMMA OutcomeType ==
    ASSUME NEW item \in ItemResult, NEW s \in Scorers
    PROVE  \A x \in ScorerOutcomes(item, s) : x \in ItemResult
<1>1. /\ item.scores \cup {s} \in SUBSET Scorers
      /\ item.nonFinite \cup {s} \in SUBSET Scorers
      /\ item.scorerErrors \cup {s} \in SUBSET Scorers
  BY DEF ItemResult
<1>2. /\ [item EXCEPT !.scores = @ \cup {s}] \in ItemResult
      /\ [item EXCEPT !.scores = @ \cup {s}, !.nonFinite = @ \cup {s}] \in ItemResult
      /\ [item EXCEPT !.scorerErrors = @ \cup {s}] \in ItemResult
  BY <1>1 DEF ItemResult
<1> QED
  BY <1>2 DEF ScorerOutcomes

\* What the task, the deadline or a scorer makes of a result is a result.
LEMMA ResultType ==
    ASSUME NEW item \in ItemResult
    PROVE  /\ TimedOut(item) \in ItemResult
           /\ [item EXCEPT !.error = TRUE] \in ItemResult
BY DEF TimedOut, ItemResult

\* The steps of a case, and the scorer each of them calls.
LEMMA StepType ==
    /\ LastStep \in Nat \ {0}
    /\ \A k \in 1 .. LastStep : ScorerSeq[k] \in Scorers
    /\ \A k \in Steps : k < LastStep => k + 1 \in Steps
    /\ 0 \in Steps
BY EngineAssumption DEF LastStep, Steps

-----------------------------------------------------------------------------
(* Type correctness.                                                         *)

\* The initial states have the types.
LEMMA InitType == Init => TypeOK
<1> SUFFICES ASSUME Init PROVE TypeOK
  OBVIOUS
<1>1. TransportTypeOK
  <2> USE DEF Init, TransportInit
  <2>1. /\ contrib \in [Cases -> Contributions \cup {None}]
        /\ post \in [Cases -> {"none", "sending", "applied", "ok", "failed"}]
        /\ results \in [Cases -> Rows \cup {None}]
    OBVIOUS
  <2>2. sums \in Totals /\ totals \in Totals
    BY DEF NoTotals, Totals
  <2>3. tries \in 0 .. RetryAttempts
    BY TransportAssumption
  <2> QED
    BY <2>1, <2>2, <2>3 DEF TransportTypeOK
<1>2. EmptyResult \in ItemResult
  BY DEF EmptyResult, ItemResult
<1>3. res \in [Cases -> ItemResult]
  BY <1>2 DEF Init
<1>4. /\ casePc \in [Cases -> {"waiting", "registering", "calling", "reporting",
                              "done", "raised", "cancelled"}]
      /\ step \in [Cases -> Steps]
  BY StepType DEF Init
<1>5. interrupts \in 0 .. MaxInterrupts
  BY EngineAssumption DEF Init
<1> QED
  BY <1>1, <1>3, <1>4, <1>5 DEF Init, TypeOK

\* The thread of a lifecycle call keeps the types.
LEMMA LifecycleType ==
    ASSUME TypeOK, LifecycleCall
    PROVE  TypeOK'
<1> USE DEF LifecycleCall, mainVars, caseVars, poolVars
<1>1. TransportTypeOK'
  <2> USE DEF TypeOK, TransportTypeOK
  <2>1. CASE CreateAttempt
    BY <2>1, TransportAssumption
    DEF CreateAttempt, RegisterRun, RetryOr, platformVars
  <2>2. CASE SumContributions
    <3>1. ASSUME NEW pc, NEW next, NEW summed \in Totals, SumPass(pc, next, summed),
                 next \in {"sumScorer", "sumScored", "complete"}
          PROVE  TransportTypeOK'
      BY <3>1 DEF SumPass, platformVars
    <3>2. /\ [sums EXCEPT !.taskErrors = CountTaskErrors] \in Totals
          /\ [sums EXCEPT !.scorerErrors = CountScorerErrors] \in Totals
          /\ [sums EXCEPT !.scored = CountScored] \in Totals
      BY CountTypes DEF Totals
    <3> QED
      BY <2>2, <3>1, <3>2 DEF SumContributions
  <2>3. CASE CompleteAttempt
    BY <2>3, TransportAssumption, EffectiveStatusType
    DEF CompleteAttempt, StoreCompletion, RetryOr, platformVars
  <2> QED
    BY <2>1, <2>2, <2>3
<1> QED
  BY <1>1 DEF TypeOK

\* The thread of a report keeps the types.
LEMMA PostType ==
    ASSUME TypeOK, NEW c \in Cases, PostStep(c)
    PROVE  TypeOK'
<1>1. res[c] \in ItemResult
  BY DEF TypeOK
<1>2. TransportTypeOK'
  <2> USE DEF TypeOK, TransportTypeOK, transportVars, platformVars
  <2>1. CASE PostNotApplied(c)
    BY <2>1 DEF PostNotApplied
  <2>2. CASE PostApplied(c, res[c])
    <3>1. Payload(res[c]) \in Rows
      BY <1>1, PayloadType
    <3> QED
      BY <2>2, <3>1 DEF PostApplied
  <2>3. CASE PostAnswerLost(c)
    BY <2>3 DEF PostAnswerLost
  <2>4. CASE PostReturns(c, res[c])
    <3>1. Contribution(res[c]) \in Contributions
      BY <1>1, ContributionType
    <3> QED
      BY <2>4, <3>1 DEF PostReturns
  <2> QED
    BY <2>1, <2>2, <2>3, <2>4 DEF PostStep
<1> QED
  BY <1>2 DEF TypeOK, PostStep, mainVars, caseVars, poolVars

\* The coroutine of a case keeps the types.
LEMMA CaseType ==
    ASSUME TypeOK, NEW c \in Cases,
           CaseStep(c) \/ UserCode(c) \/ Timeout(c)
    PROVE  TypeOK'
<1> USE DEF TypeOK, mainVars, poolVars, transportVars, platformVars
<1>1. ASSUME NEW k \in Steps, NEW item \in ItemResult, Continue(c, k, item),
             UNCHANGED <<mainVars, dropped, oldOrphans, contrib, transportVars, platformVars>>
      PROVE  TypeOK'
  <2>1. CASE k < LastStep
    BY <1>1, <2>1, StepType DEF Continue, TransportTypeOK
  <2>2. CASE ~(k < LastStep)
    BY <1>1, <2>2 DEF Continue, Report, SubmitPost, TransportTypeOK
  <2> QED
    BY <2>1, <2>2
<1>2. CASE Acquire(c)
  BY <1>2 DEF Acquire, TransportTypeOK
<1>3. CASE StartTask(c)
  BY <1>3, StepType DEF StartTask, Submit, TransportTypeOK
<1>4. CASE CaseCompletes(c)
  BY <1>4 DEF CaseCompletes, TransportTypeOK
<1>5. CASE TaskReturns(c)
  <2>1. CASE Continue(c, 0, res[c])
    BY <1>1, <1>5, <2>1, StepType DEF TaskReturns
  <2>2. CASE ~Continue(c, 0, res[c])
    BY <1>5, <2>2, ResultType DEF TaskReturns, Report, SubmitPost, TransportTypeOK
  <2> QED
    BY <2>1, <2>2
<1>6. CASE ScorerReturns(c)
  <2>1. PICK k \in 1 .. LastStep :
           \E item \in ScorerOutcomes(res[c], ScorerSeq[k]) : Continue(c, k, item)
    BY <1>6 DEF ScorerReturns
  <2>2. PICK item \in ScorerOutcomes(res[c], ScorerSeq[k]) : Continue(c, k, item)
    BY <2>1
  <2>3. item \in ItemResult
    BY <2>2, StepType, OutcomeType
  <2>4. k \in Steps
    BY StepType DEF Steps
  <2> QED
    BY <1>1, <1>6, <2>2, <2>3, <2>4 DEF ScorerReturns
<1>7. CASE CallAborts(c)
  BY <1>7 DEF CallAborts, TransportTypeOK
<1>8. CASE \E k \in Steps : OrphanReturns(c, k)
  BY <1>8 DEF OrphanReturns, caseVars, TransportTypeOK
<1>9. CASE Timeout(c)
  <2>1. TimedOut(res[c]) \in ItemResult
    BY ResultType
  <2>2. /\ queue' \in SUBSET (Cases \X Steps)
        /\ live' \in SUBSET (Cases \X Steps)
    BY <1>9 DEF Timeout, Withdraw
  <2> QED
    BY <1>9, <2>1, <2>2 DEF Timeout, Report, SubmitPost, TransportTypeOK
<1> QED
  BY <1>2, <1>3, <1>4, <1>5, <1>6, <1>7, <1>8, <1>9 DEF CaseStep, UserCode

\* Entering finish_run keeps the types of the transport, whatever becomes of the
\* reports at the same moment.
LEMMA FinishType ==
    ASSUME TransportTypeOK,
           post' \in [Cases -> {"none", "sending", "applied", "ok", "failed"}],
           callPc' = "sumTask", tries' = 0, sums' = NoTotals, grown' = FALSE,
           endStatus' \in {None, "incomplete"},
           UNCHANGED <<contrib, clientRunId, platformVars>>
    PROVE  TransportTypeOK'
<1> USE DEF TransportTypeOK, platformVars
<1>1. contrib' \in [Cases -> Contributions \cup {None}]
  OBVIOUS
<1>2. callPc' = "sumTask" /\ tries' \in 0 .. RetryAttempts
  BY TransportAssumption
<1>3. clientRunId' \in RunIds \cup {None} /\ grown' \in BOOLEAN
  OBVIOUS
<1>4. sums' \in Totals /\ totals' \in Totals
  BY DEF NoTotals, Totals
<1>5. runs' \in SUBSET RunIds /\ runStatus' \in {"none", "running"} \cup TerminalStatus
  OBVIOUS
<1>6. results' \in [Cases -> Rows \cup {None}]
  OBVIOUS
<1> QED
  BY <1>1, <1>2, <1>3, <1>4, <1>5, <1>6

\* The main coroutine, and an interrupt of it, keep the types.
LEMMA MainType ==
    ASSUME TypeOK, MainStep \/ Interruption
    PROVE  TypeOK'
<1> USE TransportAssumption
    DEF TypeOK, TransportTypeOK, mainVars, caseVars, poolVars, transportVars, platformVars
<1>1. ASSUME CancelCases
      PROVE  /\ casePc' \in [Cases -> {"waiting", "registering", "calling", "reporting",
                                       "done", "raised", "cancelled"}]
             /\ post' \in [Cases -> {"none", "sending", "applied", "ok", "failed"}]
  BY <1>1 DEF CancelCases
<1>2. AfterBody \in {"teardown", "ended"}
  BY DEF AfterBody
<1>3. CASE StartRun
  BY <1>3 DEF StartRun, CreateRun
<1>4. CASE CreateReturns
  BY <1>4 DEF CreateReturns
<1>5. CASE CreateRaises
  BY <1>2, <1>5 DEF CreateRaises
<1>6. CASE GatherReturns
  <2>1. FinishRun(None)
    BY <1>6 DEF GatherReturns
  <2>2. TransportTypeOK'
    BY <2>1, FinishType DEF FinishRun
  <2> QED
    BY <1>6, <2>2 DEF GatherReturns
<1>7. CASE GatherRaises
  <2>1. FinishRun("incomplete")
    BY <1>7 DEF GatherRaises
  <2>2. TransportTypeOK'
    BY <2>1, FinishType DEF FinishRun
  <2> QED
    BY <1>7, <2>2 DEF GatherRaises
<1>8. CASE FinishReturns
  BY <1>2, <1>8 DEF FinishReturns
<1>9. CASE FinishRaises
  BY <1>2, <1>9 DEF FinishRaises, CompletionFailed
<1>10. CASE TeardownCancels
  <2>1. live' \subseteq live
    BY <1>10 DEF TeardownCancels, InPool, Runaway
  <2> QED
    BY <1>1, <1>10, <2>1 DEF TeardownCancels
<1>11. CASE LoopCloses
  BY <1>11 DEF LoopCloses, InPool
<1>12. CASE InterruptCreate
  BY <1>2, <1>12, EngineAssumption DEF InterruptCreate
<1>13. CASE Interrupt
  <2>1. TransportTypeOK'
    BY <1>1, <1>13, FinishType DEF Interrupt
  <2>2. /\ queue' \in SUBSET (Cases \X Steps)
        /\ live' \in SUBSET (Cases \X Steps)
    BY <1>13 DEF Interrupt, InPool
  <2> QED
    BY <1>1, <1>13, <2>1, <2>2, EngineAssumption DEF Interrupt
<1>14. CASE InterruptFinish
  BY <1>2, <1>14, EngineAssumption DEF InterruptFinish, CompletionFailed
<1> QED
  BY <1>3, <1>4, <1>5, <1>6, <1>7, <1>8, <1>9, <1>10, <1>11, <1>12, <1>13, <1>14
  DEF MainStep, Interruption

\* Every step, and every stutter, keeps the types.
LEMMA NextType == TypeOK /\ [Next]_vars => TypeOK'
<1> SUFFICES ASSUME TypeOK, [Next]_vars PROVE TypeOK'
  OBVIOUS
<1>1. CASE PoolStart
  BY <1>1 DEF PoolStart, TypeOK, TransportTypeOK, mainVars, caseVars, transportVars,
       platformVars
<1>2. CASE OldOrphanReturns
  BY <1>2, EngineAssumption
  DEF OldOrphanReturns, TypeOK, TransportTypeOK, mainVars, caseVars, transportVars, platformVars
<1>3. CASE UNCHANGED vars
  BY <1>3 DEF vars, TypeOK, TransportTypeOK, mainVars, caseVars, poolVars, transportVars,
              platformVars
<1> QED
  BY <1>1, <1>2, <1>3, LifecycleType, PostType, CaseType, MainType DEF Next, Over

\* Every variable of a run keeps its type, for any sets of cases and scorers.
THEOREM TypeCorrect == Spec => []TypeOK
<1>1. Init => TypeOK
  BY InitType
<1>2. TypeOK /\ [Next]_vars => TypeOK'
  BY NextType
<1> QED
  BY <1>1, <1>2, PTL DEF Spec

-----------------------------------------------------------------------------
(* The inductive invariant.                                                  *)

\* A step keeps a case, its report and its row in agreement.
LEMMA ReportStep == IInv /\ [Next]_vars => ReportInv'
<1> SUFFICES ASSUME IInv, [Next]_vars PROVE ReportInv'
  OBVIOUS
<1> USE DEF IInv, ReportInv, mainVars, caseVars, poolVars, transportVars, platformVars
<1>1. CASE StartRun
  BY <1>1 DEF StartRun, CreateRun, TypeOK, TransportTypeOK
<1>2. CASE CreateReturns
  BY <1>2 DEF CreateReturns, TypeOK, TransportTypeOK
<1>3. CASE CreateRaises
  BY <1>3 DEF CreateRaises, TypeOK, TransportTypeOK
<1>4. CASE GatherReturns
  BY <1>4 DEF GatherReturns, FinishRun, TypeOK, TransportTypeOK
<1>5. CASE GatherRaises
  BY <1>5 DEF GatherRaises, FinishRun, TypeOK, TransportTypeOK
<1>6. CASE FinishReturns
  BY <1>6 DEF FinishReturns, TypeOK, TransportTypeOK
<1>7. CASE FinishRaises
  BY <1>7 DEF FinishRaises, CompletionFailed, TypeOK, TransportTypeOK
<1>8. CASE TeardownCancels
  BY <1>8 DEF TeardownCancels, CancelCases, Ended, TypeOK, TransportTypeOK
<1>9. CASE LoopCloses
  BY <1>9 DEF LoopCloses, TypeOK, TransportTypeOK
<1>10. CASE InterruptCreate
  BY <1>10 DEF InterruptCreate, TypeOK, TransportTypeOK
<1>11. CASE Interrupt
  BY <1>11 DEF Interrupt, CancelCases, Ended, TypeOK, TransportTypeOK
<1>12. CASE InterruptFinish
  BY <1>12 DEF InterruptFinish, CompletionFailed, TypeOK, TransportTypeOK
<1>13. CASE LifecycleCall
  BY <1>13 DEF LifecycleCall, CreateAttempt, RegisterRun, SumContributions, SumPass,
       CompleteAttempt, StoreCompletion, RetryOr, TypeOK, TransportTypeOK
<1>14. CASE PoolStart
  BY <1>14 DEF PoolStart, TypeOK, TransportTypeOK
<1>15. CASE OldOrphanReturns
  BY <1>15 DEF OldOrphanReturns, TypeOK, TransportTypeOK
<1>16. CASE UNCHANGED vars
  BY <1>16 DEF vars, TypeOK, TransportTypeOK
<1>17. ASSUME NEW c \in Cases, Acquire(c) PROVE ReportInv'
  BY <1>17 DEF Acquire, TypeOK, TransportTypeOK
<1>18. ASSUME NEW c \in Cases, StartTask(c) PROVE ReportInv'
  BY <1>18 DEF StartTask, TypeOK, TransportTypeOK
<1>19. ASSUME NEW c \in Cases, CaseCompletes(c) PROVE ReportInv'
  BY <1>19 DEF CaseCompletes, TypeOK, TransportTypeOK
<1>20. ASSUME NEW c \in Cases, TaskReturns(c) PROVE ReportInv'
  BY <1>20 DEF TaskReturns, Continue, Report, SubmitPost, Awaits, TypeOK, TransportTypeOK
<1>21. ASSUME NEW c \in Cases, ScorerReturns(c) PROVE ReportInv'
  BY <1>21 DEF ScorerReturns, Continue, Report, SubmitPost, Awaits, TypeOK, TransportTypeOK
<1>22. ASSUME NEW c \in Cases, CallAborts(c) PROVE ReportInv'
  BY <1>22 DEF CallAborts, TypeOK, TransportTypeOK
<1>23. ASSUME NEW c \in Cases, \E k \in Steps : OrphanReturns(c, k) PROVE ReportInv'
  BY <1>23 DEF OrphanReturns, TypeOK, TransportTypeOK
<1>24. ASSUME NEW c \in Cases, Timeout(c) PROVE ReportInv'
  BY <1>24 DEF Timeout, Report, SubmitPost, TypeOK, TransportTypeOK
<1>25. ASSUME NEW c \in Cases, PostStep(c) PROVE ReportInv'
  <2>1. Payload(res[c]) # None
    BY PayloadType, NoneAssumption DEF TypeOK
  <2> QED
    BY <1>25, <2>1
    DEF PostStep, PostNotApplied, PostApplied, PostAnswerLost, PostReturns, TypeOK,
         TransportTypeOK
<1> QED
  BY <1>1, <1>2, <1>3, <1>4, <1>5, <1>6, <1>7, <1>8, <1>9, <1>10, <1>11, <1>12, <1>13, <1>14,
       <1>15, <1>16, <1>17, <1>18, <1>19, <1>20, <1>21, <1>22, <1>23, <1>24, <1>25
  DEF Next, Over, MainStep, Interruption, CaseStep, UserCode

\* A step touches nothing of a case before the run is registered.
LEMMA RegisteredStep == IInv /\ [Next]_vars => RegisteredInv'
<1> SUFFICES ASSUME IInv, [Next]_vars PROVE RegisteredInv'
  OBVIOUS
<1> USE DEF IInv, RegisteredInv, mainVars, caseVars, poolVars, transportVars, platformVars
<1>1. CASE StartRun
  BY <1>1 DEF StartRun, CreateRun, TypeOK, TransportTypeOK, AfterBody, Summing, Finishing,
       TerminalStatus, EffectiveStatus
<1>2. CASE CreateReturns
  BY <1>2 DEF CreateReturns, TypeOK, TransportTypeOK, AfterBody, Summing, Finishing,
       TerminalStatus, EffectiveStatus
<1>3. CASE CreateRaises
  BY <1>3 DEF CreateRaises, TypeOK, TransportTypeOK, AfterBody, Summing, Finishing,
       TerminalStatus, EffectiveStatus
<1>4. CASE GatherReturns
  BY <1>4 DEF GatherReturns, FinishRun, TypeOK, TransportTypeOK, AfterBody, Summing,
       Finishing, TerminalStatus, EffectiveStatus
<1>5. CASE GatherRaises
  BY <1>5 DEF GatherRaises, FinishRun, TypeOK, TransportTypeOK, AfterBody, Summing,
       Finishing, TerminalStatus, EffectiveStatus
<1>6. CASE FinishReturns
  BY <1>6 DEF FinishReturns, TypeOK, TransportTypeOK, AfterBody, Summing, Finishing,
       TerminalStatus, EffectiveStatus
<1>7. CASE FinishRaises
  BY <1>7 DEF FinishRaises, CompletionFailed, TypeOK, TransportTypeOK, AfterBody, Summing,
       Finishing, TerminalStatus, EffectiveStatus
<1>8. CASE TeardownCancels
  BY <1>8 DEF TeardownCancels, CancelCases, Ended, TypeOK, TransportTypeOK, AfterBody,
       Summing, Finishing, TerminalStatus, EffectiveStatus
<1>9. CASE LoopCloses
  BY <1>9 DEF LoopCloses, TypeOK, TransportTypeOK, AfterBody, Summing, Finishing,
       TerminalStatus, EffectiveStatus
<1>10. CASE InterruptCreate
  BY <1>10 DEF InterruptCreate, TypeOK, TransportTypeOK, AfterBody, Summing, Finishing,
       TerminalStatus, EffectiveStatus
<1>11. CASE Interrupt
  BY <1>11 DEF Interrupt, CancelCases, Ended, TypeOK, TransportTypeOK, AfterBody, Summing,
       Finishing, TerminalStatus, EffectiveStatus
<1>12. CASE InterruptFinish
  BY <1>12 DEF InterruptFinish, CompletionFailed, TypeOK, TransportTypeOK, AfterBody,
       Summing, Finishing, TerminalStatus, EffectiveStatus
<1>13. CASE LifecycleCall
  BY <1>13 DEF LifecycleCall, CreateAttempt, RegisterRun, SumContributions, SumPass,
       CompleteAttempt, StoreCompletion, RetryOr, TypeOK, TransportTypeOK, AfterBody,
       Summing, Finishing, TerminalStatus, EffectiveStatus
<1>14. CASE PoolStart
  BY <1>14 DEF PoolStart, TypeOK, TransportTypeOK, AfterBody, Summing, Finishing,
       TerminalStatus, EffectiveStatus
<1>15. CASE OldOrphanReturns
  BY <1>15 DEF OldOrphanReturns, TypeOK, TransportTypeOK, AfterBody, Summing, Finishing,
       TerminalStatus, EffectiveStatus
<1>16. CASE UNCHANGED vars
  BY <1>16 DEF vars, TypeOK, TransportTypeOK, AfterBody, Summing, Finishing, TerminalStatus,
       EffectiveStatus
<1>17. ASSUME NEW c \in Cases, Acquire(c) PROVE RegisteredInv'
  BY <1>17 DEF Acquire, LoopRuns, TypeOK, TransportTypeOK, AfterBody, Summing, Finishing,
       TerminalStatus, EffectiveStatus
<1>18. ASSUME NEW c \in Cases, StartTask(c) PROVE RegisteredInv'
  BY <1>18 DEF StartTask, TypeOK, TransportTypeOK, AfterBody, Summing, Finishing,
       TerminalStatus, EffectiveStatus
<1>19. ASSUME NEW c \in Cases, CaseCompletes(c) PROVE RegisteredInv'
  BY <1>19 DEF CaseCompletes, TypeOK, TransportTypeOK, AfterBody, Summing, Finishing,
       TerminalStatus, EffectiveStatus
<1>20. ASSUME NEW c \in Cases, TaskReturns(c) PROVE RegisteredInv'
  BY <1>20 DEF TaskReturns, Continue, Report, SubmitPost, Awaits, TypeOK, TransportTypeOK,
       AfterBody, Summing, Finishing, TerminalStatus, EffectiveStatus
<1>21. ASSUME NEW c \in Cases, ScorerReturns(c) PROVE RegisteredInv'
  BY <1>21 DEF ScorerReturns, Continue, Report, SubmitPost, Awaits, TypeOK, TransportTypeOK,
       AfterBody, Summing, Finishing, TerminalStatus, EffectiveStatus
<1>22. ASSUME NEW c \in Cases, CallAborts(c) PROVE RegisteredInv'
  BY <1>22 DEF CallAborts, TypeOK, TransportTypeOK, AfterBody, Summing, Finishing,
       TerminalStatus, EffectiveStatus
<1>23. ASSUME NEW c \in Cases, \E k \in Steps : OrphanReturns(c, k) PROVE RegisteredInv'
  BY <1>23 DEF OrphanReturns, TypeOK, TransportTypeOK, AfterBody, Summing, Finishing,
       TerminalStatus, EffectiveStatus
<1>24. ASSUME NEW c \in Cases, Timeout(c) PROVE RegisteredInv'
  BY <1>24 DEF Timeout, Report, SubmitPost, TypeOK, TransportTypeOK, AfterBody, Summing,
       Finishing, TerminalStatus, EffectiveStatus
<1>25. ASSUME NEW c \in Cases, PostStep(c) PROVE RegisteredInv'
  BY <1>25 DEF PostStep, PostNotApplied, PostApplied, PostAnswerLost, PostReturns, TypeOK,
       TransportTypeOK, AfterBody, Summing, Finishing, TerminalStatus, EffectiveStatus
<1> QED
  BY <1>1, <1>2, <1>3, <1>4, <1>5, <1>6, <1>7, <1>8, <1>9, <1>10, <1>11, <1>12, <1>13, <1>14,
       <1>15, <1>16, <1>17, <1>18, <1>19, <1>20, <1>21, <1>22, <1>23, <1>24, <1>25
  DEF Next, Over, MainStep, Interruption, CaseStep, UserCode

\* A step keeps what the outcome says of the cases.
LEMMA OutcomeStep == IInv /\ [Next]_vars => OutcomeInv'
<1> SUFFICES ASSUME IInv, [Next]_vars PROVE OutcomeInv'
  OBVIOUS
<1> USE DEF IInv, OutcomeInv, mainVars, caseVars, poolVars, transportVars, platformVars
<1>1. CASE StartRun
  BY <1>1 DEF StartRun, CreateRun, AllDone, AfterBody, RegisteredInv, CompletionInv,
       EffectiveStatus, Finishing, Summing, TerminalStatus
<1>2. CASE CreateReturns
  BY <1>2 DEF CreateReturns, AllDone, AfterBody, RegisteredInv, CompletionInv,
       EffectiveStatus, Finishing, Summing, TerminalStatus
<1>3. CASE CreateRaises
  BY <1>3 DEF CreateRaises, AllDone, AfterBody, RegisteredInv, CompletionInv,
       EffectiveStatus, Finishing, Summing, TerminalStatus
<1>4. CASE GatherReturns
  BY <1>4 DEF GatherReturns, FinishRun, AllDone, AfterBody, RegisteredInv, CompletionInv,
       EffectiveStatus, Finishing, Summing, TerminalStatus
<1>5. CASE GatherRaises
  BY <1>5 DEF GatherRaises, FinishRun, AllDone, AfterBody, RegisteredInv, CompletionInv,
       EffectiveStatus, Finishing, Summing, TerminalStatus
<1>6. CASE FinishReturns
  <2>1. ~bodyError => endStatus = None
    BY <1>6 DEF FinishReturns, CompletionInv, Finishing, TypeOK, TransportTypeOK
  <2>2. ~bodyError => runStatus \in {"completed", "completed_with_errors"}
    BY <1>6, <2>1 DEF FinishReturns, CompletionInv, EffectiveStatus
  <2>3. runStatus \in TerminalStatus
    BY <1>6, EffectiveStatusType DEF FinishReturns, CompletionInv, TypeOK, TransportTypeOK
  <2> QED
    BY <1>6, <2>2, <2>3 DEF FinishReturns, AllDone, AfterBody
<1>7. CASE FinishRaises
  BY <1>7 DEF FinishRaises, CompletionFailed, AllDone, AfterBody, RegisteredInv,
       CompletionInv, EffectiveStatus, Finishing, Summing, TerminalStatus
<1>8. CASE TeardownCancels
  BY <1>8 DEF TeardownCancels, CancelCases, Ended, AllDone, AfterBody, RegisteredInv,
       CompletionInv, EffectiveStatus, Finishing, Summing, TerminalStatus
<1>9. CASE LoopCloses
  BY <1>9 DEF LoopCloses, AllDone, AfterBody, RegisteredInv, CompletionInv, EffectiveStatus,
       Finishing, Summing, TerminalStatus
<1>10. CASE InterruptCreate
  BY <1>10 DEF InterruptCreate, AllDone, AfterBody, RegisteredInv, CompletionInv,
       EffectiveStatus, Finishing, Summing, TerminalStatus
<1>11. CASE Interrupt
  BY <1>11 DEF Interrupt, CancelCases, Ended, AllDone, AfterBody, RegisteredInv,
       CompletionInv, EffectiveStatus, Finishing, Summing, TerminalStatus
<1>12. CASE InterruptFinish
  BY <1>12 DEF InterruptFinish, CompletionFailed, AllDone, AfterBody, RegisteredInv,
       CompletionInv, EffectiveStatus, Finishing, Summing, TerminalStatus
<1>13. CASE LifecycleCall
  BY <1>13 DEF LifecycleCall, CreateAttempt, RegisterRun, SumContributions, SumPass,
       CompleteAttempt, StoreCompletion, RetryOr, AllDone, AfterBody, RegisteredInv,
       CompletionInv, EffectiveStatus, Finishing, Summing, TerminalStatus
<1>14. CASE PoolStart
  BY <1>14 DEF PoolStart, AllDone, AfterBody, RegisteredInv, CompletionInv, EffectiveStatus,
       Finishing, Summing, TerminalStatus
<1>15. CASE OldOrphanReturns
  BY <1>15 DEF OldOrphanReturns, AllDone, AfterBody, RegisteredInv, CompletionInv,
       EffectiveStatus, Finishing, Summing, TerminalStatus
<1>16. CASE UNCHANGED vars
  BY <1>16 DEF vars, AllDone, AfterBody, RegisteredInv, CompletionInv, EffectiveStatus,
       Finishing, Summing, TerminalStatus
<1>17. ASSUME NEW c \in Cases, Acquire(c) PROVE OutcomeInv'
  BY <1>17 DEF Acquire, AllDone, AfterBody, RegisteredInv, CompletionInv, EffectiveStatus,
       Finishing, Summing, TerminalStatus
<1>18. ASSUME NEW c \in Cases, StartTask(c) PROVE OutcomeInv'
  BY <1>18 DEF StartTask, AllDone, AfterBody, RegisteredInv, CompletionInv, EffectiveStatus,
       Finishing, Summing, TerminalStatus
<1>19. ASSUME NEW c \in Cases, CaseCompletes(c) PROVE OutcomeInv'
  BY <1>19 DEF CaseCompletes, AllDone, AfterBody, RegisteredInv, CompletionInv,
       EffectiveStatus, Finishing, Summing, TerminalStatus
<1>20. ASSUME NEW c \in Cases, TaskReturns(c) PROVE OutcomeInv'
  BY <1>20 DEF TaskReturns, Continue, Report, SubmitPost, Awaits, AllDone, AfterBody,
       RegisteredInv, CompletionInv, EffectiveStatus, Finishing, Summing, TerminalStatus
<1>21. ASSUME NEW c \in Cases, ScorerReturns(c) PROVE OutcomeInv'
  BY <1>21 DEF ScorerReturns, Continue, Report, SubmitPost, Awaits, AllDone, AfterBody,
       RegisteredInv, CompletionInv, EffectiveStatus, Finishing, Summing, TerminalStatus
<1>22. ASSUME NEW c \in Cases, CallAborts(c) PROVE OutcomeInv'
  BY <1>22 DEF CallAborts, AllDone, AfterBody, RegisteredInv, CompletionInv, EffectiveStatus,
       Finishing, Summing, TerminalStatus
<1>23. ASSUME NEW c \in Cases, \E k \in Steps : OrphanReturns(c, k) PROVE OutcomeInv'
  BY <1>23 DEF OrphanReturns, AllDone, AfterBody, RegisteredInv, CompletionInv,
       EffectiveStatus, Finishing, Summing, TerminalStatus
<1>24. ASSUME NEW c \in Cases, Timeout(c) PROVE OutcomeInv'
  BY <1>24 DEF Timeout, Report, SubmitPost, AllDone, AfterBody, RegisteredInv, CompletionInv,
       EffectiveStatus, Finishing, Summing, TerminalStatus
<1>25. ASSUME NEW c \in Cases, PostStep(c) PROVE OutcomeInv'
  BY <1>25 DEF PostStep, PostNotApplied, PostApplied, PostAnswerLost, PostReturns, AllDone,
       AfterBody, RegisteredInv, CompletionInv, EffectiveStatus, Finishing, Summing,
       TerminalStatus
<1> QED
  BY <1>1, <1>2, <1>3, <1>4, <1>5, <1>6, <1>7, <1>8, <1>9, <1>10, <1>11, <1>12, <1>13, <1>14,
       <1>15, <1>16, <1>17, <1>18, <1>19, <1>20, <1>21, <1>22, <1>23, <1>24, <1>25
  DEF Next, Over, MainStep, Interruption, CaseStep, UserCode

\* A step keeps the status that is sent, and was sent, with /complete.
LEMMA CompletionStep == IInv /\ [Next]_vars => CompletionInv'
<1> SUFFICES ASSUME IInv, [Next]_vars PROVE CompletionInv'
  OBVIOUS
<1> USE DEF IInv, CompletionInv, mainVars, caseVars, poolVars, transportVars, platformVars
<1>1. CASE StartRun
  BY <1>1 DEF StartRun, CreateRun, AllDone, RegisteredInv, OutcomeInv, EffectiveStatus,
       Finishing, Summing, TerminalStatus, AfterBody
<1>2. CASE CreateReturns
  BY <1>2 DEF CreateReturns, AllDone, RegisteredInv, OutcomeInv, EffectiveStatus, Finishing,
       Summing, TerminalStatus, AfterBody
<1>3. CASE CreateRaises
  BY <1>3 DEF CreateRaises, AllDone, RegisteredInv, OutcomeInv, EffectiveStatus, Finishing,
       Summing, TerminalStatus, AfterBody
<1>4. CASE GatherReturns
  BY <1>4, NoneAssumption DEF GatherReturns, FinishRun, AllDone, RegisteredInv, OutcomeInv,
       EffectiveStatus, Finishing, Summing, TerminalStatus, AfterBody
<1>5. CASE GatherRaises
  BY <1>5 DEF GatherRaises, FinishRun, AllDone, RegisteredInv, OutcomeInv, EffectiveStatus,
       Finishing, Summing, TerminalStatus, AfterBody
<1>6. CASE FinishReturns
  BY <1>6 DEF FinishReturns, AllDone, RegisteredInv, OutcomeInv, EffectiveStatus, Finishing,
       Summing, TerminalStatus, AfterBody
<1>7. CASE FinishRaises
  BY <1>7 DEF FinishRaises, CompletionFailed, AllDone, RegisteredInv, OutcomeInv,
       EffectiveStatus, Finishing, Summing, TerminalStatus, AfterBody
<1>8. CASE TeardownCancels
  BY <1>8 DEF TeardownCancels, CancelCases, Ended, AllDone, RegisteredInv, OutcomeInv,
       EffectiveStatus, Finishing, Summing, TerminalStatus, AfterBody
<1>9. CASE LoopCloses
  BY <1>9 DEF LoopCloses, AllDone, RegisteredInv, OutcomeInv, EffectiveStatus, Finishing,
       Summing, TerminalStatus, AfterBody
<1>10. CASE InterruptCreate
  BY <1>10 DEF InterruptCreate, AllDone, RegisteredInv, OutcomeInv, EffectiveStatus,
       Finishing, Summing, TerminalStatus, AfterBody
<1>11. CASE Interrupt
  BY <1>11 DEF Interrupt, CancelCases, Ended, AllDone, RegisteredInv, OutcomeInv,
       EffectiveStatus, Finishing, Summing, TerminalStatus, AfterBody
<1>12. CASE InterruptFinish
  BY <1>12 DEF InterruptFinish, CompletionFailed, AllDone, RegisteredInv, OutcomeInv,
       EffectiveStatus, Finishing, Summing, TerminalStatus, AfterBody
<1>13. CASE LifecycleCall
  <2> USE <1>13 DEF LifecycleCall
  <2>1. CASE CreateAttempt
    BY <2>1 DEF CreateAttempt, RegisterRun, RetryOr, AllDone, EffectiveStatus, Finishing,
         Summing, TerminalStatus
  <2>2. CASE SumContributions
    BY <2>2 DEF SumContributions, SumPass, AllDone, Finishing, Summing, TerminalStatus,
         EffectiveStatus
  <2>3. CASE CompleteAttempt
    <3>1. EffectiveStatus' = EffectiveStatus /\ AllDone' = AllDone
      BY <2>3 DEF CompleteAttempt, EffectiveStatus, AllDone
    <3>2. /\ EffectiveStatus \in TerminalStatus
          /\ EffectiveStatus = "incomplete" <=> bodyError
      BY <2>3, NoneAssumption
      DEF CompleteAttempt, EffectiveStatus, TerminalStatus, TypeOK, TransportTypeOK, Finishing
    <3>3. mainPc \in {"finishing", "teardown", "closing", "ended"}
      BY <2>3 DEF CompleteAttempt, RegisteredInv, TypeOK
    <3> QED
      BY <2>3, <3>1, <3>2, <3>3
      DEF CompleteAttempt, StoreCompletion, RetryOr, Finishing, Summing
  <2> QED
    BY <2>1, <2>2, <2>3
<1>14. CASE PoolStart
  BY <1>14 DEF PoolStart, AllDone, RegisteredInv, OutcomeInv, EffectiveStatus, Finishing,
       Summing, TerminalStatus, AfterBody
<1>15. CASE OldOrphanReturns
  BY <1>15 DEF OldOrphanReturns, AllDone, RegisteredInv, OutcomeInv, EffectiveStatus,
       Finishing, Summing, TerminalStatus, AfterBody
<1>16. CASE UNCHANGED vars
  BY <1>16 DEF vars, AllDone, RegisteredInv, OutcomeInv, EffectiveStatus, Finishing, Summing,
       TerminalStatus, AfterBody
<1>17. ASSUME NEW c \in Cases, Acquire(c) PROVE CompletionInv'
  BY <1>17 DEF Acquire, AllDone, RegisteredInv, OutcomeInv, EffectiveStatus, Finishing,
       Summing, TerminalStatus, AfterBody
<1>18. ASSUME NEW c \in Cases, StartTask(c) PROVE CompletionInv'
  BY <1>18 DEF StartTask, AllDone, RegisteredInv, OutcomeInv, EffectiveStatus, Finishing,
       Summing, TerminalStatus, AfterBody
<1>19. ASSUME NEW c \in Cases, CaseCompletes(c) PROVE CompletionInv'
  BY <1>19 DEF CaseCompletes, AllDone, RegisteredInv, OutcomeInv, EffectiveStatus, Finishing,
       Summing, TerminalStatus, AfterBody
<1>20. ASSUME NEW c \in Cases, TaskReturns(c) PROVE CompletionInv'
  BY <1>20 DEF TaskReturns, Continue, Report, SubmitPost, Awaits, AllDone, RegisteredInv,
       OutcomeInv, EffectiveStatus, Finishing, Summing, TerminalStatus, AfterBody
<1>21. ASSUME NEW c \in Cases, ScorerReturns(c) PROVE CompletionInv'
  BY <1>21 DEF ScorerReturns, Continue, Report, SubmitPost, Awaits, AllDone, RegisteredInv,
       OutcomeInv, EffectiveStatus, Finishing, Summing, TerminalStatus, AfterBody
<1>22. ASSUME NEW c \in Cases, CallAborts(c) PROVE CompletionInv'
  BY <1>22 DEF CallAborts, AllDone, RegisteredInv, OutcomeInv, EffectiveStatus, Finishing,
       Summing, TerminalStatus, AfterBody
<1>23. ASSUME NEW c \in Cases, \E k \in Steps : OrphanReturns(c, k) PROVE CompletionInv'
  BY <1>23 DEF OrphanReturns, AllDone, RegisteredInv, OutcomeInv, EffectiveStatus, Finishing,
       Summing, TerminalStatus, AfterBody
<1>24. ASSUME NEW c \in Cases, Timeout(c) PROVE CompletionInv'
  BY <1>24 DEF Timeout, Report, SubmitPost, AllDone, RegisteredInv, OutcomeInv,
       EffectiveStatus, Finishing, Summing, TerminalStatus, AfterBody
<1>25. ASSUME NEW c \in Cases, PostStep(c) PROVE CompletionInv'
  BY <1>25 DEF PostStep, PostNotApplied, PostApplied, PostAnswerLost, PostReturns, AllDone,
       RegisteredInv, OutcomeInv, EffectiveStatus, Finishing, Summing, TerminalStatus, AfterBody
<1> QED
  BY <1>1, <1>2, <1>3, <1>4, <1>5, <1>6, <1>7, <1>8, <1>9, <1>10, <1>11, <1>12, <1>13, <1>14,
       <1>15, <1>16, <1>17, <1>18, <1>19, <1>20, <1>21, <1>22, <1>23, <1>24, <1>25
  DEF Next, Over, MainStep, Interruption, CaseStep, UserCode

\* A step changes the result of a case only while the case is being called.
LEMMA ResultStep == IInv /\ [Next]_vars => ResultInv'
<1> SUFFICES ASSUME IInv, [Next]_vars PROVE ResultInv'
  OBVIOUS
<1> USE DEF IInv, ResultInv, mainVars, caseVars, poolVars, transportVars, platformVars
<1>0. ASSUME NEW c \in Cases, casePc[c] = "calling", NEW item \in ItemResult,
             item.error => item.scores = {} /\ item.nonFinite = {},
             res' = [res EXCEPT ![c] = item], results' = results,
             \/ /\ casePc' = [casePc EXCEPT ![c] = "reporting"]
                /\ step' = step
             \/ /\ casePc' = casePc
                /\ \E n \in Steps \ {0} : step' = [step EXCEPT ![c] = n]
                /\ ~item.error
      PROVE  ResultInv'
  <2>1. results[c] = None
    BY <1>0, NoneAssumption DEF ReportInv
  <2>2. ASSUME NEW d \in Cases, d # c
        PROVE  /\ casePc'[d] = casePc[d] /\ step'[d] = step[d]
               /\ res'[d] = res[d] /\ results'[d] = results[d]
    BY <1>0, <2>2 DEF TypeOK, TransportTypeOK
  <2>3. res'[c] = item /\ results'[c] = None
    BY <1>0, <2>1 DEF TypeOK
  <2>4. \/ casePc'[c] = "reporting"
        \/ casePc'[c] = "calling" /\ step'[c] # 0 /\ ~item.error
    BY <1>0 DEF TypeOK
  <2> QED
    BY <1>0, <2>2, <2>3, <2>4 DEF Awaits
<1>1. CASE StartRun
  BY <1>1 DEF StartRun, CreateRun, TypeOK, TransportTypeOK, ReportInv, Awaits
<1>2. CASE CreateReturns
  BY <1>2 DEF CreateReturns, TypeOK, TransportTypeOK, ReportInv, Awaits
<1>3. CASE CreateRaises
  BY <1>3 DEF CreateRaises, TypeOK, TransportTypeOK, ReportInv, Awaits
<1>4. CASE GatherReturns
  BY <1>4 DEF GatherReturns, FinishRun, TypeOK, TransportTypeOK, ReportInv, Awaits
<1>5. CASE GatherRaises
  BY <1>5 DEF GatherRaises, FinishRun, TypeOK, TransportTypeOK, ReportInv, Awaits
<1>6. CASE FinishReturns
  BY <1>6 DEF FinishReturns, TypeOK, TransportTypeOK, ReportInv, Awaits
<1>7. CASE FinishRaises
  BY <1>7 DEF FinishRaises, CompletionFailed, TypeOK, TransportTypeOK, ReportInv, Awaits
<1>8. CASE TeardownCancels
  BY <1>8 DEF TeardownCancels, CancelCases, Ended, TypeOK, TransportTypeOK, ReportInv, Awaits
<1>9. CASE LoopCloses
  BY <1>9 DEF LoopCloses, TypeOK, TransportTypeOK, ReportInv, Awaits
<1>10. CASE InterruptCreate
  BY <1>10 DEF InterruptCreate, TypeOK, TransportTypeOK, ReportInv, Awaits
<1>11. CASE Interrupt
  BY <1>11 DEF Interrupt, CancelCases, Ended, TypeOK, TransportTypeOK, ReportInv, Awaits
<1>12. CASE InterruptFinish
  BY <1>12 DEF InterruptFinish, CompletionFailed, TypeOK, TransportTypeOK, ReportInv, Awaits
<1>13. CASE LifecycleCall
  BY <1>13 DEF LifecycleCall, CreateAttempt, RegisterRun, SumContributions, SumPass,
       CompleteAttempt, StoreCompletion, RetryOr, TypeOK, TransportTypeOK, ReportInv, Awaits
<1>14. CASE PoolStart
  BY <1>14 DEF PoolStart, TypeOK, TransportTypeOK, ReportInv, Awaits
<1>15. CASE OldOrphanReturns
  BY <1>15 DEF OldOrphanReturns, TypeOK, TransportTypeOK, ReportInv, Awaits
<1>16. CASE UNCHANGED vars
  BY <1>16 DEF vars, TypeOK, TransportTypeOK, ReportInv, Awaits
<1>17. ASSUME NEW c \in Cases, Acquire(c) PROVE ResultInv'
  BY <1>17 DEF Acquire, TypeOK, TransportTypeOK, ReportInv, Awaits
<1>18. ASSUME NEW c \in Cases, StartTask(c) PROVE ResultInv'
  BY <1>18 DEF StartTask, TypeOK, TransportTypeOK, ReportInv, Awaits
<1>19. ASSUME NEW c \in Cases, CaseCompletes(c) PROVE ResultInv'
  BY <1>19 DEF CaseCompletes, TypeOK, TransportTypeOK, ReportInv, Awaits
<1>20. ASSUME NEW c \in Cases, TaskReturns(c) PROVE ResultInv'
  <2>1. /\ res[c] = EmptyResult /\ casePc[c] = "calling" /\ res[c] \in ItemResult
        /\ ~res[c].error
    BY <1>20 DEF TaskReturns, Awaits, TypeOK
  <2>2. CASE Continue(c, 0, res[c])
    BY <1>0, <1>20, <2>1, <2>2, StepType DEF TaskReturns, Continue, Report, Steps
  <2>3. CASE Report(c, [res[c] EXCEPT !.error = TRUE]) /\ UNCHANGED step
    <3>1. LET item == [res[c] EXCEPT !.error = TRUE]
          IN  item \in ItemResult /\ item.scores = {} /\ item.nonFinite = {}
      BY <2>1, ResultType DEF EmptyResult
    <3> QED
      BY <1>0, <1>20, <2>1, <2>3, <3>1 DEF TaskReturns, Report
  <2> QED
    BY <1>20, <2>2, <2>3 DEF TaskReturns
<1>21. ASSUME NEW c \in Cases, ScorerReturns(c) PROVE ResultInv'
  <2>1. PICK k \in 1 .. LastStep :
           /\ Awaits(c, k)
           /\ \E item \in ScorerOutcomes(res[c], ScorerSeq[k]) : Continue(c, k, item)
    BY <1>21 DEF ScorerReturns
  <2>2. PICK item \in ScorerOutcomes(res[c], ScorerSeq[k]) : Continue(c, k, item)
    BY <2>1
  <2>3. res[c] \in ItemResult /\ casePc[c] = "calling" /\ ~res[c].error
    BY <2>1 DEF Awaits, TypeOK
  <2>4. item \in ItemResult
    BY <2>2, <2>3, StepType, OutcomeType
  <2>5. ~item.error
    BY <2>2, <2>3 DEF ScorerOutcomes, ItemResult
  <2>6. k \in Nat /\ (k < LastStep => k + 1 \in Steps \ {0})
    BY StepType DEF Steps
  <2>7. results' = results
    BY <1>21 DEF ScorerReturns
  <2> QED
    BY <1>0, <2>2, <2>3, <2>4, <2>5, <2>6, <2>7 DEF Continue, Report
<1>22. ASSUME NEW c \in Cases, CallAborts(c) PROVE ResultInv'
  BY <1>22 DEF CallAborts, TypeOK, TransportTypeOK, ReportInv, Awaits
<1>23. ASSUME NEW c \in Cases, \E k \in Steps : OrphanReturns(c, k) PROVE ResultInv'
  BY <1>23 DEF OrphanReturns, TypeOK, TransportTypeOK, ReportInv, Awaits
<1>24. ASSUME NEW c \in Cases, Timeout(c) PROVE ResultInv'
  <2>1. res[c] \in ItemResult /\ casePc[c] = "calling"
    BY <1>24 DEF Timeout, TypeOK
  <2>2. LET item == TimedOut(res[c])
        IN  item \in ItemResult /\ item.scores = {} /\ item.nonFinite = {}
    BY <2>1, ResultType DEF TimedOut, ItemResult
  <2> QED
    BY <1>0, <1>24, <2>1, <2>2 DEF Timeout, Report
<1>25. ASSUME NEW c \in Cases, PostStep(c) PROVE ResultInv'
  BY <1>25 DEF PostStep, PostNotApplied, PostApplied, PostAnswerLost, PostReturns, TypeOK,
       TransportTypeOK, ReportInv, Awaits
<1> QED
  BY <1>1, <1>2, <1>3, <1>4, <1>5, <1>6, <1>7, <1>8, <1>9, <1>10, <1>11, <1>12, <1>13, <1>14,
       <1>15, <1>16, <1>17, <1>18, <1>19, <1>20, <1>21, <1>22, <1>23, <1>24, <1>25
  DEF Next, Over, MainStep, Interruption, CaseStep, UserCode

\* The inductive invariant holds initially ...
LEMMA InvInit == Init => IInv
<1> SUFFICES ASSUME Init PROVE IInv
  OBVIOUS
<1>1. TypeOK
  BY InitType
<1>2. ReportInv
  BY DEF Init, TransportInit, ReportInv
<1>3. ResultInv
  BY DEF Init, TransportInit, ResultInv, EmptyResult
<1>4. RegisteredInv /\ OutcomeInv /\ CompletionInv
  BY DEF Init, TransportInit, RegisteredInv, OutcomeInv, CompletionInv, Finishing, Summing,
         TerminalStatus
<1> QED
  BY <1>1, <1>2, <1>3, <1>4 DEF IInv

\* ... and every step keeps it ...
LEMMA InvNext == IInv /\ [Next]_vars => IInv'
BY NextType, ReportStep, ResultStep, RegisteredStep, OutcomeStep, CompletionStep DEF IInv

\* ... so it always holds.
THEOREM Invariance == Spec => []IInv
<1>1. Init => IInv
  BY InvInit
<1>2. IInv /\ [Next]_vars => IInv'
  BY InvNext
<1> QED
  BY <1>1, <1>2, PTL DEF Spec

-----------------------------------------------------------------------------
(* What follows from it.                                                     *)

\* A result is returned only when every case is on the platform or counted as
\* dropped, for any number of cases, scorers, threads and interrupts.
THEOREM NothingLostSilently == Spec => []NoSilentLoss
<1>1. IInv => NoSilentLoss
  BY DEF IInv, OutcomeInv, ReportInv, AllDone, NoSilentLoss
<1> QED
  BY <1>1, Invariance, PTL

\* A row that carries a task error carries no score value.
THEOREM ErroredNotScored == Spec => []ErroredRowHasNoScores
<1>1. IInv => ErroredRowHasNoScores
  <2> SUFFICES ASSUME IInv, NEW c \in Cases, results[c] # None, results[c].taskError
               PROVE  results[c].values = {}
    BY DEF ErroredRowHasNoScores
  <2>1. results[c] = Payload(res[c])
    BY DEF IInv, ResultInv
  <2>2. res[c].error
    BY <2>1 DEF Payload
  <2>3. res[c].scores = {}
    BY <2>2 DEF IInv, ResultInv
  <2> QED
    BY <2>1, <2>3 DEF Payload
<1> QED
  BY <1>1, Invariance, PTL

\* "incomplete" is the status of exactly the runs whose cases were not all gathered.
THEOREM HonestStatus == Spec => []StatusIsHonest
<1>1. IInv => StatusIsHonest
  BY DEF IInv, CompletionInv, AllDone, StatusIsHonest, TypeOK
<1> QED
  BY <1>1, Invariance, PTL

\* A run whose cases were started is not left open without the caller being told.
THEOREM OpenRunTold == Spec => []OpenRunIsTold
<1>1. IInv => OpenRunIsTold
  BY DEF IInv, OutcomeInv, OpenRunIsTold, TerminalStatus
<1> QED
  BY <1>1, Invariance, PTL

\* However often registration is retried, the platform has at most one run.
THEOREM OneRunOnly == Spec => []OneRun
<1>1. IInv => OneRun
  <2> SUFFICES ASSUME IInv PROVE OneRun
    OBVIOUS
  <2>1. IsFiniteSet({clientRunId}) /\ Cardinality({clientRunId}) = 1
    BY FS_Singleton
  <2>2. Cardinality(runs) <= Cardinality({clientRunId})
    BY <2>1, FS_Subset DEF IInv, RegisteredInv
  <2> QED
    BY <2>1, <2>2 DEF OneRun
<1> QED
  BY <1>1, Invariance, PTL

-----------------------------------------------------------------------------
(* The run implements its contract.                                          *)

\* A run that has not begun is one the contract may start with.
LEMMA ContractInit == Init => Contract!Init
BY DEF Init, TransportInit, Contract!Init

\* Everybody is accounted for once every case is done.
LEMMA AllAccounted ==
    ASSUME IInv, AllDone
    PROVE  {c \in Cases : results[c] # None} \cup dropped = Cases
BY DEF IInv, TypeOK, ReportInv, AllDone

\* A step of the lifecycle thread registers, completes, or changes nothing seen.
LEMMA LifecycleContract ==
    ASSUME IInv, LifecycleCall
    PROVE  [Contract!Next]_Contract!vars
<1> USE DEF LifecycleCall, mainVars, caseVars, poolVars, platformVars
<1>1. CASE CreateAttempt
  <2>1. outcome # "returned"
    BY <1>1 DEF CreateAttempt, IInv, RegisteredInv, OutcomeInv
  <2>2. CASE RegisterRun /\ runStatus = "none"
    <3>1. Contract!Register
      BY <1>1, <2>1, <2>2 DEF Contract!Register, RegisterRun, CreateAttempt
    <3> QED
      BY <3>1 DEF Contract!Next
  <2>3. CASE ~(RegisterRun /\ runStatus = "none")
    BY <1>1, <2>3 DEF CreateAttempt, RegisterRun, Contract!vars
  <2> QED
    BY <2>2, <2>3
<1>2. CASE SumContributions
  BY <1>2 DEF SumContributions, SumPass, Contract!vars
<1>3. CASE CompleteAttempt
  <2>1. CASE StoreCompletion /\ runStatus = "running"
    <3>1. EffectiveStatus \in TerminalStatus
      BY EffectiveStatusType DEF IInv, TypeOK, TransportTypeOK
    <3>2. EffectiveStatus # "incomplete" => AllDone
      BY <1>3, NoneAssumption DEF CompleteAttempt, IInv, CompletionInv, Finishing,
         EffectiveStatus, TypeOK, TransportTypeOK
    <3>3. Contract!Complete(EffectiveStatus)
      BY <1>3, <2>1, <3>2, AllAccounted
      DEF CompleteAttempt, StoreCompletion, Contract!Complete
    <3> QED
      BY <3>1, <3>3 DEF Contract!Next, TerminalStatus
  <2>2. CASE ~(StoreCompletion /\ runStatus = "running")
    <3>1. runStatus' = runStatus /\ results' = results
      BY <1>3, <2>2 DEF CompleteAttempt, StoreCompletion, IInv, CompletionInv
    <3> QED
      BY <1>3, <3>1 DEF Contract!vars
  <2> QED
    BY <2>1, <2>2
<1> QED
  BY <1>1, <1>2, <1>3

\* A row stored, or a case dropped, is a step of the contract.
LEMMA CaseContract ==
    ASSUME IInv, NEW c \in Cases,
           CaseStep(c) \/ UserCode(c) \/ Timeout(c) \/ PostStep(c)
    PROVE  [Contract!Next]_Contract!vars
<1> USE DEF mainVars, caseVars, poolVars, transportVars, platformVars
<1>1. CASE PostStep(c)
  <2>1. CASE PostApplied(c, res[c])
    <3>1. outcome # "returned" /\ runStatus # "none"
      BY <2>1 DEF PostApplied, IInv, OutcomeInv, AllDone, ReportInv, RegisteredInv
    <3>2. Payload(res[c]) # None
      BY PayloadType, NoneAssumption DEF IInv, TypeOK
    <3>3. {d \in Cases : results'[d] # None} = {d \in Cases : results[d] # None} \cup {c}
      BY <2>1, <3>2 DEF PostApplied, IInv, TypeOK, TransportTypeOK
    <3>4. Contract!Store(c)
      BY <1>1, <2>1, <3>1, <3>3 DEF PostApplied, PostStep, Contract!Store
    <3> QED
      BY <3>4 DEF Contract!Next
  <2>2. CASE ~PostApplied(c, res[c])
    BY <1>1, <2>2
    DEF PostStep, PostNotApplied, PostAnswerLost, PostReturns, Contract!vars
  <2> QED
    BY <2>1, <2>2
<1>2. CASE CaseCompletes(c)
  <2>1. CASE post[c] = "failed"
    <3>1. outcome # "returned" /\ runStatus # "none"
      BY <1>2, <2>1 DEF CaseCompletes, IInv, OutcomeInv, AllDone, RegisteredInv
    <3>2. Contract!Miss(c)
      BY <1>2, <2>1, <3>1 DEF CaseCompletes, Contract!Miss
    <3> QED
      BY <3>2 DEF Contract!Next
  <2>2. CASE post[c] # "failed"
    BY <1>2, <2>2 DEF CaseCompletes, Contract!vars
  <2> QED
    BY <2>1, <2>2
<1>3. CASE Acquire(c) \/ StartTask(c) \/ UserCode(c) \/ Timeout(c)
  BY <1>3 DEF Acquire, StartTask, UserCode, TaskReturns, ScorerReturns, CallAborts,
     OrphanReturns, Timeout, Contract!vars
<1> QED
  BY <1>1, <1>2, <1>3 DEF CaseStep

\* The main coroutine returns, raises, or does nothing the contract sees.
LEMMA MainContract ==
    ASSUME IInv, MainStep \/ Interruption
    PROVE  [Contract!Next]_Contract!vars
<1> USE DEF mainVars, caseVars, poolVars, transportVars, platformVars
<1>1. CASE FinishReturns
  <2>1. outcome = "none"
    BY <1>1 DEF FinishReturns, IInv, OutcomeInv
  <2>2. CASE bodyError
    <3>1. Contract!Raise
      BY <1>1, <2>1, <2>2 DEF FinishReturns, Contract!Raise
    <3> QED
      BY <3>1 DEF Contract!Next
  <2>3. CASE ~bodyError
    <3>1. runStatus \in {"completed", "completed_with_errors"}
      BY <1>1, <2>3, EffectiveStatusType
      DEF FinishReturns, IInv, CompletionInv, TerminalStatus, TypeOK, TransportTypeOK
    <3>2. Contract!Return
      BY <1>1, <2>1, <2>3, <3>1 DEF FinishReturns, Contract!Return
    <3> QED
      BY <3>2 DEF Contract!Next
  <2> QED
    BY <2>2, <2>3
<1>2. CASE CreateRaises \/ InterruptCreate \/ FinishRaises \/ InterruptFinish
  <2>1. outcome = "none"
    BY <1>2 DEF CreateRaises, InterruptCreate, FinishRaises, InterruptFinish, IInv, OutcomeInv
  <2>2. Contract!Raise
    BY <1>2, <2>1 DEF CreateRaises, InterruptCreate, FinishRaises, InterruptFinish,
       CompletionFailed, Contract!Raise
  <2> QED
    BY <2>2 DEF Contract!Next
<1>3. CASE StartRun \/ CreateReturns \/ GatherReturns \/ GatherRaises \/ TeardownCancels
           \/ LoopCloses \/ Interrupt
  BY <1>3 DEF StartRun, CreateRun, CreateReturns, GatherReturns, GatherRaises, FinishRun,
     TeardownCancels, LoopCloses, Interrupt, Contract!vars
<1> QED
  BY <1>1, <1>2, <1>3 DEF MainStep, Interruption

\* A run of the engine, with its threads, retries, timeouts and interrupts, is a run
\* of the contract: registered once, completed once, a result only when every case is
\* accounted for, and nothing reported after a returned result.
THEOREM ImplementsContract == Spec => KeepsContract
<1>1. IInv /\ [Next]_vars => [Contract!Next]_Contract!vars
  <2> SUFFICES ASSUME IInv, [Next]_vars PROVE [Contract!Next]_Contract!vars
    OBVIOUS
  <2>1. CASE PoolStart \/ OldOrphanReturns \/ UNCHANGED vars
    BY <2>1 DEF PoolStart, OldOrphanReturns, vars, mainVars, caseVars, platformVars,
       Contract!vars
  <2> QED
    BY <2>1, LifecycleContract, CaseContract, MainContract DEF Next, Over
<1> QED
  BY <1>1, ContractInit, Invariance, PTL DEF Spec, Contract!Spec, KeepsContract

=============================================================================
