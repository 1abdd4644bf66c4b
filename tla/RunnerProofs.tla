---------------------------- MODULE RunnerProofs ----------------------------
(***************************************************************************)
(* Proofs about Runner, for any number of evaluations, cases and signals:   *)
(* types, the files, the platform, the exit code and the end of the suite.  *)
(***************************************************************************)
EXTENDS Runner, SequenceTheorems, FiniteSetTheorems, TLAPS

----------------------------------------------------------------------------
(* The channel.                                                             *)

\* An event that is written becomes the last of the stream.
LEMMA EmitLast ==
    ASSUME events \in Seq(Events),
           NEW type, NEW k, NEW arg, Event(type, k, arg) \in Events, Emit(type, k, arg)
    PROVE  /\ events' \in Seq(Events)
           /\ Len(events') > 0
           /\ events'[Len(events')].type = type
           /\ events'[Len(events')].arg = arg
<1>1. events' = Append(events, Event(type, k, arg))
  BY DEF Emit
<1>2. /\ events' \in Seq(Events)
      /\ Len(events') = Len(events) + 1
      /\ events'[Len(events) + 1] = Event(type, k, arg)
  BY <1>1, AppendProperties
<1> QED
  BY <1>2, LenProperties DEF Event

\* The events before it stay where they are.
LEMMA EmitOld ==
    ASSUME events \in Seq(Events),
           NEW type, NEW k, NEW arg, Event(type, k, arg) \in Events, Emit(type, k, arg)
    PROVE  /\ \A i \in DOMAIN events : i \in DOMAIN events' /\ events'[i] = events[i]
           /\ \A i \in DOMAIN events' : i \in DOMAIN events \/ events'[i] = Event(type, k, arg)
<1>1. events' = Append(events, Event(type, k, arg))
  BY DEF Emit
<1>2. /\ events' \in Seq(Events)
      /\ Len(events') = Len(events) + 1
      /\ events'[Len(events) + 1] = Event(type, k, arg)
      /\ \A i \in 1 .. Len(events) : events'[i] = events[i]
  BY <1>1, AppendProperties
<1>3. DOMAIN events = 1 .. Len(events) /\ DOMAIN events' = 1 .. Len(events) + 1 /\ Len(events) \in Nat
  BY <1>2, LenProperties
<1> QED
  BY <1>2, <1>3

----------------------------------------------------------------------------
(* Type correctness.                                                        *)

\* The process begins with the types.
LEMMA InitInv == Init => RunnerInv
<1> SUFFICES ASSUME Init PROVE RunnerInv
  OBVIOUS
<1>1. events \in Seq(Events) /\ Len(events) = 1 /\ events[1] = Event("hello", 0, None)
  BY RunnerAssumption DEF Init, Events, Event
<1>2. TypeOK
  <2>1. artifact \in [1 .. Evaluations -> Artifacts]
    BY DEF Init, Artifacts
  <2>2. now \in 0 .. Evaluations /\ completed \in 0 .. now /\ signals \in 0 .. MaxSignals
        /\ stopped \in 0 .. Evaluations
    BY RunnerAssumption DEF Init
  <2>3. pc \in Pcs /\ cancelled \in BOOLEAN /\ collected \in SUBSET Cases
    BY DEF Init, Pcs
  <2> QED
    BY <1>1, <2>1, <2>2, <2>3 DEF Init, TypeOK
<1>3. ExitInv
  BY <1>1, RunnerAssumption DEF Init, ExitInv, Event
<1>4. FileInv /\ GreenIsCompleted /\ RunFileHasCases
  BY RunnerAssumption DEF Init, FileInv, GreenIsCompleted, RunFileHasCases, Running
<1>5. CountInv /\ EngineInv /\ InterruptInv /\ InterruptStopsSuite
  BY RunnerAssumption
  DEF Init, CountInv, EngineInv, InterruptInv, InterruptStopsSuite, Running, Writing
<1> QED
  BY <1>2, <1>3, <1>4, <1>5 DEF RunnerInv

\* The steps of the suite keep the types.
LEMMA SuiteType == RunnerInv /\ Suite => TypeOK'
<1> SUFFICES ASSUME RunnerInv, Suite PROVE TypeOK'
  OBVIOUS
<1>0. TypeOK /\ CountInv
  BY DEF RunnerInv
<1> USE <1>0, RunnerAssumption
    DEF TypeOK, suiteVars, engineVars, signalVars
<1>1. CASE Discover
  BY <1>1 DEF Discover, Pcs
<1>2. CASE StartEvaluation
  <2>1. Event("evaluation_started", now + 1, None) \in Events
    BY <1>2 DEF StartEvaluation, Event, Events
  <2>2. events' \in Seq(Events)
    BY <1>2, <2>1, EmitLast DEF StartEvaluation
  <2> QED
    BY <1>2, <2>2 DEF StartEvaluation, Pcs
<1>3. CASE SuiteCompletes
  <2>1. Event("suite_completed", completed, IF cancelled THEN "cancelled" ELSE "done") \in Events
    BY DEF Event, Events
  <2>2. events' \in Seq(Events)
    BY <1>3, <2>1, EmitLast DEF SuiteCompletes
  <2> QED
    BY <1>3, <2>2 DEF SuiteCompletes, Pcs
<1>4. CASE StopSuite
  <2>1. completed + 1 \in 0 .. now
    BY <1>4 DEF StopSuite, CountInv
  <2>2. Event("suite_completed", completed + 1, "cancelled") \in Events
    BY <2>1 DEF Event, Events
  <2>3. events' \in Seq(Events)
    BY <1>4, <2>2, EmitLast DEF StopSuite
  <2> QED
    BY <1>4, <2>1, <2>3 DEF StopSuite, Pcs
<1>5. CASE Fatal
  <2>1. Event("fatal", 0, fatal) \in Events
    BY DEF Event, Events
  <2>2. events' \in Seq(Events)
    BY <1>5, <2>1, EmitLast DEF Fatal
  <2> QED
    BY <1>5, <2>2 DEF Fatal, Pcs
<1>6. CASE Return
  BY <1>6 DEF Return, Pcs
<1>7. CASE Flush
  BY <1>7 DEF Flush, Pcs, outputVars
<1> QED
  BY <1>1, <1>2, <1>3, <1>4, <1>5, <1>6, <1>7 DEF Suite

\* The steps of the engine keep the types.
LEMMA EngineType == RunnerInv /\ Engine => TypeOK'
<1> SUFFICES ASSUME RunnerInv, Engine PROVE TypeOK'
  OBVIOUS
<1>0. TypeOK /\ EngineInv
  BY DEF RunnerInv
<1>1. pc \in Running => now \in 1 .. Evaluations
  BY <1>0 DEF TypeOK, EngineInv
<1> USE <1>0, RunnerAssumption
    DEF TypeOK, suiteVars, engineVars, signalVars, outputVars
<1>2. CASE Registers
  BY <1>1, <1>2 DEF Registers, Pcs, Running
<1>3. CASE BodyEnds
  BY <1>3 DEF BodyEnds, Pcs
<1>4. CASE FinishReturns
  BY <1>1, <1>4 DEF FinishReturns, Terminal, Pcs, Running
<1>5. CASE FinishRaises
  BY <1>1, <1>5 DEF FinishRaises, Completion, Terminal, Pcs, Running
<1>6. CASE RunEnds
  BY <1>6 DEF RunEnds, Pcs
<1>7. ASSUME NEW c \in Cases, CaseCompletes(c) PROVE TypeOK'
  <2>1. Event("case_completed", now, c) \in Events
    BY DEF Event, Events
  <2>2. events' \in Seq(Events)
    BY <1>7, <2>1, EmitLast DEF CaseCompletes
  <2> QED
    BY <1>7, <2>2 DEF CaseCompletes
<1>8. ASSUME NEW what \in {"interrupt", "exit"}, UserAborts(what) PROVE TypeOK'
  BY <1>8 DEF UserAborts, Pcs
<1> QED
  BY <1>2, <1>3, <1>4, <1>5, <1>6, <1>7, <1>8 DEF Engine

\* The two files and their announcement keep the types.
LEMMA ResultType == RunnerInv /\ (WriteFile(1) \/ WriteFile(2) \/ Announce) => TypeOK'
<1> SUFFICES ASSUME RunnerInv, WriteFile(1) \/ WriteFile(2) \/ Announce PROVE TypeOK'
  OBVIOUS
<1>0. TypeOK /\ EngineInv /\ CountInv
  BY DEF RunnerInv
<1>1. pc \in Running => now \in 1 .. Evaluations /\ completed < now
  BY <1>0 DEF TypeOK, EngineInv, CountInv
<1> USE <1>0, RunnerAssumption
    DEF TypeOK, suiteVars, engineVars, signalVars
<1>2. CASE WriteFile(1)
  <2>1. pc = "write_first" /\ pc' = "write_second"
    BY <1>2 DEF WriteFile
  <2>2. artifact' = [artifact EXCEPT ![now].cases = collected]
    BY <1>2 DEF WriteFile, Files
  <2>3. artifact' \in [1 .. Evaluations -> Artifacts]
    BY <1>1, <2>1, <2>2 DEF Artifacts, Running
  <2> QED
    BY <1>2, <2>1, <2>3 DEF WriteFile, Pcs
<1>3. CASE WriteFile(2)
  <2>1. pc = "write_second" /\ pc' = "announce"
    BY <1>3 DEF WriteFile
  <2>2. artifact' = [artifact EXCEPT ![now].run = Status, ![now].final = Final]
    BY <1>3 DEF WriteFile, Files
  <2>a. now \in 1 .. Evaluations /\ artifact[now] \in Artifacts
    BY <1>1, <2>1 DEF Running
  <2>b. [artifact[now] EXCEPT !.run = Status, !.final = Final] \in Artifacts
    BY <2>a DEF Artifacts, Status, Final, Interrupted
  <2>c. artifact' = [artifact EXCEPT ![now] = [@ EXCEPT !.run = Status, !.final = Final]]
    BY <2>a, <2>2 DEF Artifacts
  <2>3. artifact' \in [1 .. Evaluations -> Artifacts]
    BY <2>a, <2>b, <2>c
  <2> QED
    BY <1>3, <2>1, <2>3 DEF WriteFile, Pcs
<1>4. CASE Announce
  <2>1. Event("evaluation_completed", now, Status) \in Events
    BY DEF Event, Events, Status
  <2>2. events' \in Seq(Events)
    BY <1>4, <2>1, EmitLast DEF Announce
  <2> QED
    BY <1>1, <1>4, <2>2 DEF Announce, Pcs, Running
<1> QED
  BY <1>2, <1>3, <1>4

\* A signal keeps the types.
LEMMA SignalType == RunnerInv /\ Signals => TypeOK'
<1> SUFFICES ASSUME RunnerInv, Signals PROVE TypeOK'
  OBVIOUS
<1>0. TypeOK /\ EngineInv
  BY DEF RunnerInv
<1>1. pc \in Running => now \in 1 .. Evaluations
  BY <1>0 DEF TypeOK, EngineInv
<1>2. Signal => signals' \in 0 .. MaxSignals /\ stopped' \in 0 .. Evaluations
  BY <1>0, RunnerAssumption DEF TypeOK, Signal
<1> USE <1>0, <1>2, RunnerAssumption
    DEF TypeOK, suiteVars, engineVars, outputVars
<1>3. CASE SignalRegister
  BY <1>1, <1>3 DEF SignalRegister, Pcs, Running
<1>4. CASE SignalCases
  BY <1>4 DEF SignalCases, Pcs
<1>5. CASE SignalFinish
  BY <1>1, <1>5 DEF SignalFinish, Terminal, Pcs, Running
<1>6. CASE SignalClosing
  BY <1>6 DEF SignalClosing
<1>7. CASE SignalElsewhere
  BY <1>7 DEF SignalElsewhere, Pcs
<1>8. CASE SignalLate
  BY <1>8 DEF SignalLate, Pcs
<1> QED
  BY <1>3, <1>4, <1>5, <1>6, <1>7, <1>8 DEF Signals

\* Every step, and every stutter, keeps the types.
LEMMA TypeStep == RunnerInv /\ [Next]_vars => TypeOK'
<1>1. RunnerInv /\ UNCHANGED vars => TypeOK'
  BY DEF RunnerInv, TypeOK, vars, suiteVars, engineVars, outputVars, signalVars
<1> QED
  BY <1>1, SuiteType, EngineType, ResultType, SignalType DEF Next

----------------------------------------------------------------------------
(* The inductive invariant.                                                  *)

\* No step counts an evaluation before its announcement.
LEMMA CountStep == RunnerInv /\ [Next]_vars => CountInv'
<1> SUFFICES ASSUME RunnerInv, [Next]_vars PROVE CountInv'
  OBVIOUS
<1>0. TypeOK /\ CountInv
  BY DEF RunnerInv
<1> USE <1>0, RunnerAssumption
    DEF TypeOK, suiteVars, engineVars, outputVars, signalVars, CountInv, Running
<1>1. CASE Discover
  BY <1>1 DEF Discover
<1>2. CASE StartEvaluation
  BY <1>2 DEF StartEvaluation
<1>3. CASE SuiteCompletes
  BY <1>3 DEF SuiteCompletes
<1>4. CASE StopSuite
  BY <1>4 DEF StopSuite
<1>5. CASE Fatal
  BY <1>5 DEF Fatal
<1>6. CASE Return
  BY <1>6 DEF Return
<1>7. CASE Flush
  BY <1>7 DEF Flush
<1>8. CASE Registers
  BY <1>8 DEF Registers
<1>9. CASE BodyEnds
  BY <1>9 DEF BodyEnds
<1>10. CASE FinishReturns
  BY <1>10 DEF FinishReturns
<1>11. CASE FinishRaises
  BY <1>11 DEF FinishRaises
<1>12. CASE RunEnds
  BY <1>12 DEF RunEnds
<1>13. ASSUME NEW c \in Cases, CaseCompletes(c) PROVE CountInv'
  BY <1>13 DEF CaseCompletes
<1>14. ASSUME NEW what \in {"interrupt", "exit"}, UserAborts(what) PROVE CountInv'
  BY <1>14 DEF UserAborts
<1>15. CASE WriteFile(1)
  BY <1>15 DEF WriteFile
<1>16. CASE WriteFile(2)
  BY <1>16 DEF WriteFile
<1>17. CASE Announce
  BY <1>17 DEF Announce
<1>18. CASE SignalRegister
  BY <1>18 DEF SignalRegister, Signal
<1>19. CASE SignalCases
  BY <1>19 DEF SignalCases, Signal
<1>20. CASE SignalFinish
  BY <1>20 DEF SignalFinish, Signal
<1>21. CASE SignalClosing
  BY <1>21 DEF SignalClosing, Signal
<1>22. CASE SignalElsewhere
  BY <1>22 DEF SignalElsewhere, Signal
<1>23. CASE SignalLate
  BY <1>23 DEF SignalLate, Signal
<1>24. CASE UNCHANGED vars
  BY <1>24 DEF vars
<1> QED
  BY <1>1, <1>2, <1>3, <1>4, <1>5, <1>6, <1>7, <1>8, <1>9, <1>10, <1>11, <1>12,
       <1>13, <1>14, <1>15, <1>16, <1>17, <1>18, <1>19, <1>20, <1>21, <1>22, <1>23, <1>24
  DEF Next, Suite, Engine, Signals

\* A step keeps what the engine raises in agreement with the platform.
LEMMA EngineStep == RunnerInv /\ [Next]_vars => EngineInv'
<1> SUFFICES ASSUME RunnerInv, [Next]_vars PROVE EngineInv'
  OBVIOUS
<1>0. TypeOK /\ EngineInv
  BY DEF RunnerInv
<1> USE <1>0, RunnerAssumption
    DEF TypeOK, suiteVars, engineVars, outputVars, signalVars, EngineInv, Running, Writing,
        Terminal, Completion, Interrupted
<1>1. CASE Discover
  BY <1>1 DEF Discover
<1>2. CASE StartEvaluation
  BY <1>2 DEF StartEvaluation
<1>3. CASE SuiteCompletes
  BY <1>3 DEF SuiteCompletes
<1>4. CASE StopSuite
  BY <1>4 DEF StopSuite
<1>5. CASE Fatal
  BY <1>5 DEF Fatal
<1>6. CASE Return
  BY <1>6 DEF Return
<1>7. CASE Flush
  BY <1>7 DEF Flush
<1>8. CASE Registers
  BY <1>8 DEF Registers
<1>9. CASE BodyEnds
  BY <1>9 DEF BodyEnds
<1>10. CASE FinishReturns
  BY <1>10 DEF FinishReturns
<1>11. CASE FinishRaises
  BY <1>11 DEF FinishRaises
<1>12. CASE RunEnds
  BY <1>12 DEF RunEnds
<1>13. ASSUME NEW c \in Cases, CaseCompletes(c) PROVE EngineInv'
  BY <1>13 DEF CaseCompletes
<1>14. ASSUME NEW what \in {"interrupt", "exit"}, UserAborts(what) PROVE EngineInv'
  BY <1>14 DEF UserAborts
<1>15. CASE WriteFile(1)
  BY <1>15 DEF WriteFile
<1>16. CASE WriteFile(2)
  BY <1>16 DEF WriteFile
<1>17. CASE Announce
  BY <1>17 DEF Announce
<1>18. CASE SignalRegister
  BY <1>18 DEF SignalRegister, Signal
<1>19. CASE SignalCases
  BY <1>19 DEF SignalCases, Signal
<1>20. CASE SignalFinish
  BY <1>20 DEF SignalFinish, Signal
<1>21. CASE SignalClosing
  BY <1>21 DEF SignalClosing, Signal
<1>22. CASE SignalElsewhere
  BY <1>22 DEF SignalElsewhere, Signal
<1>23. CASE SignalLate
  BY <1>23 DEF SignalLate, Signal
<1>24. CASE UNCHANGED vars
  BY <1>24 DEF vars
<1> QED
  BY <1>1, <1>2, <1>3, <1>4, <1>5, <1>6, <1>7, <1>8, <1>9, <1>10, <1>11, <1>12,
       <1>13, <1>14, <1>15, <1>16, <1>17, <1>18, <1>19, <1>20, <1>21, <1>22, <1>23, <1>24
  DEF Next, Suite, Engine, Signals

\* After a signal, no step leads back to the suite.
LEMMA InterruptStep == RunnerInv /\ [Next]_vars => (InterruptInv /\ InterruptStopsSuite)'
<1> SUFFICES ASSUME RunnerInv, [Next]_vars PROVE (InterruptInv /\ InterruptStopsSuite)'
  OBVIOUS
<1>0. TypeOK /\ EngineInv /\ InterruptInv /\ InterruptStopsSuite
  BY DEF RunnerInv
<1> USE <1>0, RunnerAssumption
    DEF TypeOK, suiteVars, engineVars, outputVars, signalVars, InterruptInv, InterruptStopsSuite,
        EngineInv, Running, Writing, Completion, Interrupted
<1>1. CASE Discover
  BY <1>1 DEF Discover
<1>2. CASE StartEvaluation
  BY <1>2 DEF StartEvaluation
<1>3. CASE SuiteCompletes
  BY <1>3 DEF SuiteCompletes
<1>4. CASE StopSuite
  BY <1>4 DEF StopSuite
<1>5. CASE Fatal
  BY <1>5 DEF Fatal
<1>6. CASE Return
  BY <1>6 DEF Return
<1>7. CASE Flush
  BY <1>7 DEF Flush
<1>8. CASE Registers
  BY <1>8 DEF Registers
<1>9. CASE BodyEnds
  BY <1>9 DEF BodyEnds
<1>10. CASE FinishReturns
  BY <1>10 DEF FinishReturns
<1>11. CASE FinishRaises
  BY <1>11 DEF FinishRaises
<1>12. CASE RunEnds
  BY <1>12 DEF RunEnds
<1>13. ASSUME NEW c \in Cases, CaseCompletes(c) PROVE (InterruptInv /\ InterruptStopsSuite)'
  BY <1>13 DEF CaseCompletes
<1>14. ASSUME NEW what \in {"interrupt", "exit"}, UserAborts(what) PROVE (InterruptInv /\ InterruptStopsSuite)'
  BY <1>14 DEF UserAborts
<1>15. CASE WriteFile(1)
  BY <1>15 DEF WriteFile
<1>16. CASE WriteFile(2)
  BY <1>16 DEF WriteFile
<1>17. CASE Announce
  BY <1>17 DEF Announce
<1>18. CASE SignalRegister
  BY <1>18 DEF SignalRegister, Signal
<1>19. CASE SignalCases
  BY <1>19 DEF SignalCases, Signal
<1>20. CASE SignalFinish
  BY <1>20 DEF SignalFinish, Signal
<1>21. CASE SignalClosing
  BY <1>21 DEF SignalClosing, Signal
<1>22. CASE SignalElsewhere
  BY <1>22 DEF SignalElsewhere, Signal
<1>23. CASE SignalLate
  BY <1>23 DEF SignalLate, Signal
<1>24. CASE UNCHANGED vars
  BY <1>24 DEF vars
<1> QED
  BY <1>1, <1>2, <1>3, <1>4, <1>5, <1>6, <1>7, <1>8, <1>9, <1>10, <1>11, <1>12,
       <1>13, <1>14, <1>15, <1>16, <1>17, <1>18, <1>19, <1>20, <1>21, <1>22, <1>23, <1>24
  DEF Next, Suite, Engine, Signals

\* A step writes the files in order, and a green one only of a completed run.
LEMMA FileStep == RunnerInv /\ [Next]_vars => (FileInv /\ GreenIsCompleted /\ RunFileHasCases)'
<1> SUFFICES ASSUME RunnerInv, [Next]_vars PROVE (FileInv /\ GreenIsCompleted /\ RunFileHasCases)'
  OBVIOUS
<1>0. TypeOK /\ EngineInv /\ FileInv /\ GreenIsCompleted /\ RunFileHasCases
  BY DEF RunnerInv
<1> USE <1>0, RunnerAssumption
    DEF TypeOK, suiteVars, engineVars, outputVars, signalVars, FileInv, GreenIsCompleted,
        RunFileHasCases, EngineInv, Running, Writing, Interrupted
<1>1. CASE Discover
  BY <1>1 DEF Discover
<1>2. CASE StartEvaluation
  BY <1>2 DEF StartEvaluation
<1>3. CASE SuiteCompletes
  BY <1>3 DEF SuiteCompletes
<1>4. CASE StopSuite
  BY <1>4 DEF StopSuite
<1>5. CASE Fatal
  BY <1>5 DEF Fatal
<1>6. CASE Return
  BY <1>6 DEF Return
<1>7. CASE Flush
  BY <1>7 DEF Flush
<1>8. CASE Registers
  BY <1>8 DEF Registers
<1>9. CASE BodyEnds
  BY <1>9 DEF BodyEnds
<1>10. CASE FinishReturns
  BY <1>10 DEF FinishReturns
<1>11. CASE FinishRaises
  BY <1>11 DEF FinishRaises
<1>12. CASE RunEnds
  BY <1>12 DEF RunEnds
<1>13. ASSUME NEW c \in Cases, CaseCompletes(c) PROVE (FileInv /\ GreenIsCompleted /\ RunFileHasCases)'
  BY <1>13 DEF CaseCompletes
<1>14. ASSUME NEW what \in {"interrupt", "exit"}, UserAborts(what) PROVE (FileInv /\ GreenIsCompleted /\ RunFileHasCases)'
  BY <1>14 DEF UserAborts
<1>15. CASE WriteFile(1)
  <2>1. /\ pc = "write_first" /\ pc' = "write_second" /\ now \in 1 .. Evaluations
        /\ artifact' = [artifact EXCEPT ![now].cases = collected]
    BY <1>15 DEF WriteFile, Files
  <2>2. /\ artifact'[now].cases = collected
        /\ \A k \in 1 .. Evaluations : artifact'[k].run = artifact[k].run
        /\ \A k \in 1 .. Evaluations \ {now} : artifact'[k] = artifact[k]
    BY <2>1 DEF Artifacts
  <2> QED
    BY <1>15, <2>1, <2>2 DEF WriteFile
<1>16. CASE WriteFile(2)
  <2>1. /\ pc = "write_second" /\ pc' = "announce" /\ now \in 1 .. Evaluations
        /\ artifact' = [artifact EXCEPT ![now].run = Status, ![now].final = Final]
    BY <1>16 DEF WriteFile, Files
  <2>2. /\ artifact'[now].cases = collected
        /\ artifact'[now].run = Status /\ artifact'[now].final = Final
        /\ \A k \in 1 .. Evaluations \ {now} : artifact'[k] = artifact[k]
    BY <2>1 DEF Artifacts
  <2>3. Status = "completed" => raised = "nothing"
    BY <2>1 DEF Status
  <2> QED
    BY <1>16, <2>1, <2>2, <2>3 DEF WriteFile, Status, Final
<1>17. CASE Announce
  BY <1>17 DEF Announce
<1>18. CASE SignalRegister
  BY <1>18 DEF SignalRegister, Signal
<1>19. CASE SignalCases
  BY <1>19 DEF SignalCases, Signal
<1>20. CASE SignalFinish
  BY <1>20 DEF SignalFinish, Signal
<1>21. CASE SignalClosing
  BY <1>21 DEF SignalClosing, Signal
<1>22. CASE SignalElsewhere
  BY <1>22 DEF SignalElsewhere, Signal
<1>23. CASE SignalLate
  BY <1>23 DEF SignalLate, Signal
<1>24. CASE UNCHANGED vars
  BY <1>24 DEF vars, Status, Final
<1> QED
  BY <1>1, <1>2, <1>3, <1>4, <1>5, <1>6, <1>7, <1>8, <1>9, <1>10, <1>11, <1>12,
     <1>13, <1>14, <1>15, <1>16, <1>17, <1>18, <1>19, <1>20, <1>21, <1>22, <1>23, <1>24
  DEF Next, Suite, Engine, Signals

\* A step chooses the exit code that fits the last event of the stream.
LEMMA ExitStep == RunnerInv /\ [Next]_vars => ExitInv'
<1> SUFFICES ASSUME RunnerInv, [Next]_vars PROVE ExitInv'
  OBVIOUS
<1>0. TypeOK /\ CountInv /\ ExitInv
  BY DEF RunnerInv
<1> USE <1>0, RunnerAssumption
    DEF TypeOK, suiteVars, engineVars, outputVars, signalVars, ExitInv, CountInv, Running
<1>1. CASE Discover
  BY <1>1 DEF Discover
<1>2. CASE StartEvaluation
  <2>1. Event("evaluation_started", now + 1, None) \in Events
    BY <1>2 DEF StartEvaluation, Event, Events
  <2>2. Emit("evaluation_started", now + 1, None)
    BY <1>2 DEF StartEvaluation
  <2> HIDE DEF Emit
  <2>3. /\ Len(events') > 0 /\ events'[Len(events')].type = "evaluation_started"
        /\ events'[Len(events')].arg = None
    BY <2>1, <2>2, EmitLast
  <2> QED
    BY <1>2, <2>3 DEF StartEvaluation
<1>3. CASE SuiteCompletes
  <2>1. Event("suite_completed", completed, (IF cancelled THEN "cancelled" ELSE "done")) \in Events
    BY <1>3 DEF SuiteCompletes, Event, Events
  <2>2. Emit("suite_completed", completed, (IF cancelled THEN "cancelled" ELSE "done"))
    BY <1>3 DEF SuiteCompletes
  <2> HIDE DEF Emit
  <2>3. /\ Len(events') > 0 /\ events'[Len(events')].type = "suite_completed"
        /\ events'[Len(events')].arg = (IF cancelled THEN "cancelled" ELSE "done")
    BY <2>1, <2>2, EmitLast
  <2> QED
    BY <1>3, <2>3 DEF SuiteCompletes
<1>4. CASE StopSuite
  <2>1. Event("suite_completed", completed + 1, "cancelled") \in Events
    BY <1>4 DEF StopSuite, Event, Events
  <2>2. Emit("suite_completed", completed + 1, "cancelled")
    BY <1>4 DEF StopSuite
  <2> HIDE DEF Emit
  <2>3. /\ Len(events') > 0 /\ events'[Len(events')].type = "suite_completed"
        /\ events'[Len(events')].arg = "cancelled"
    BY <2>1, <2>2, EmitLast
  <2> QED
    BY <1>4, <2>3 DEF StopSuite
<1>5. CASE Fatal
  <2>1. Event("fatal", 0, fatal) \in Events
    BY <1>5 DEF Fatal, Event, Events
  <2>2. Emit("fatal", 0, fatal)
    BY <1>5 DEF Fatal
  <2> HIDE DEF Emit
  <2>3. /\ Len(events') > 0 /\ events'[Len(events')].type = "fatal"
        /\ events'[Len(events')].arg = fatal
    BY <2>1, <2>2, EmitLast
  <2> QED
    BY <1>5, <2>3 DEF Fatal
<1>6. CASE Return
  BY <1>6 DEF Return
<1>7. CASE Flush
  BY <1>7 DEF Flush
<1>8. CASE Registers
  BY <1>8 DEF Registers
<1>9. CASE BodyEnds
  BY <1>9 DEF BodyEnds
<1>10. CASE FinishReturns
  BY <1>10 DEF FinishReturns
<1>11. CASE FinishRaises
  BY <1>11 DEF FinishRaises
<1>12. CASE RunEnds
  BY <1>12 DEF RunEnds
<1>13. ASSUME NEW c \in Cases, CaseCompletes(c) PROVE ExitInv'
  <2>1. Event("case_completed", now, c) \in Events
    BY <1>13 DEF CaseCompletes, Event, Events
  <2>2. Emit("case_completed", now, c)
    BY <1>13 DEF CaseCompletes
  <2> HIDE DEF Emit
  <2>3. /\ Len(events') > 0 /\ events'[Len(events')].type = "case_completed"
        /\ events'[Len(events')].arg = c
    BY <2>1, <2>2, EmitLast
  <2> QED
    BY <1>13, <2>3 DEF CaseCompletes
<1>14. ASSUME NEW what \in {"interrupt", "exit"}, UserAborts(what) PROVE ExitInv'
  BY <1>14 DEF UserAborts
<1>15. CASE WriteFile(1)
  BY <1>15 DEF WriteFile
<1>16. CASE WriteFile(2)
  BY <1>16 DEF WriteFile
<1>17. CASE Announce
  <2>1. Event("evaluation_completed", now, Status) \in Events
    BY <1>17 DEF Announce, Event, Events, Status
  <2>2. Emit("evaluation_completed", now, Status)
    BY <1>17 DEF Announce
  <2> HIDE DEF Emit
  <2>3. /\ Len(events') > 0 /\ events'[Len(events')].type = "evaluation_completed"
        /\ events'[Len(events')].arg = Status
    BY <2>1, <2>2, EmitLast
  <2> QED
    BY <1>17, <2>3 DEF Announce
<1>18. CASE SignalRegister
  BY <1>18 DEF SignalRegister, Signal
<1>19. CASE SignalCases
  BY <1>19 DEF SignalCases, Signal
<1>20. CASE SignalFinish
  BY <1>20 DEF SignalFinish, Signal
<1>21. CASE SignalClosing
  BY <1>21 DEF SignalClosing, Signal
<1>22. CASE SignalElsewhere
  BY <1>22 DEF SignalElsewhere, Signal
<1>23. CASE SignalLate
  BY <1>23 DEF SignalLate, Signal
<1>24. CASE UNCHANGED vars
  BY <1>24 DEF vars
<1> QED
  BY <1>1, <1>2, <1>3, <1>4, <1>5, <1>6, <1>7, <1>8, <1>9, <1>10, <1>11, <1>12,
     <1>13, <1>14, <1>15, <1>16, <1>17, <1>18, <1>19, <1>20, <1>21, <1>22, <1>23, <1>24
  DEF Next, Suite, Engine, Signals

\* Every reachable state satisfies the inductive invariant.
LEMMA Invariance == Spec => []RunnerInv
<1>1. RunnerInv /\ [Next]_vars => RunnerInv'
  BY TypeStep, CountStep, EngineStep, InterruptStep, FileStep, ExitStep DEF RunnerInv
<1> QED
  BY <1>1, InitInv, PTL DEF Spec

----------------------------------------------------------------------------
(* What follows from it.                                                     *)

\* Every variable keeps its type, for any number of evaluations, cases and signals.
THEOREM RunnerTypes == Spec => []TypeOK
<1>1. RunnerInv => TypeOK
  BY DEF RunnerInv
<1> QED
  BY <1>1, Invariance, PTL

\* After SIGINT no further evaluation starts, wherever it arrives.
THEOREM InterruptStops == Spec => []InterruptStopsSuite
<1>1. RunnerInv => InterruptStopsSuite
  BY DEF RunnerInv
<1> QED
  BY <1>1, Invariance, PTL

\* No run file stands without its cases file.
THEOREM FilesPaired == Spec => []RunFileHasCases
<1>1. RunnerInv => RunFileHasCases
  BY DEF RunnerInv
<1> QED
  BY <1>1, Invariance, PTL

\* The local file says "completed" only of a run the platform has as completed.
THEOREM GreenMeansCompleted == Spec => []GreenIsCompleted
<1>1. RunnerInv => GreenIsCompleted
  BY DEF RunnerInv
<1> QED
  BY <1>1, Invariance, PTL

\* The exit code corroborates the last event of the stream.
THEOREM ExitIsHonest == Spec => []HonestExit
<1>1. RunnerInv => HonestExit
  BY DEF RunnerInv, ExitInv, HonestExit
<1> QED
  BY <1>1, Invariance, PTL

\* An event that is not of a case, nor a completion, leaves what is on disk as it is.
LEMMA QuietEvent ==
    ASSUME RunnerInv, DiskInv,
           NEW type, type \notin {"case_completed", "evaluation_completed"}, NEW k, NEW arg,
           Event(type, k, arg) \in Events, Emit(type, k, arg), artifact' = artifact,
           \/ now' = now + 1
           \/ now' = now /\ collected' = collected /\ (pc' \in Running => pc \in Running)
    PROVE  DiskInv'
<1>0. events \in Seq(Events) /\ now \in Nat
  BY RunnerAssumption DEF RunnerInv, TypeOK
<1>1. /\ \A i \in DOMAIN events : i \in DOMAIN events' /\ events'[i] = events[i]
      /\ \A i \in DOMAIN events' : i \in DOMAIN events \/ events'[i] = Event(type, k, arg)
  BY <1>0, EmitOld
<1>2. \A i \in DOMAIN events' : i \notin DOMAIN events =>
          events'[i].type \notin {"case_completed", "evaluation_completed"}
  BY <1>1 DEF Event
<1>3. \A n : OnDisk(n) => OnDisk(n)'
  BY <1>1, <1>2 DEF OnDisk
<1> SUFFICES ASSUME NEW i \in DOMAIN events', i \in DOMAIN events, events'[i] = events[i]
             PROVE  /\ events[i].type \in {"case_completed", "evaluation_completed"} =>
                          events[i].of \in 1 .. now'
                    /\ events[i].type = "case_completed" /\ events[i].of = now' /\ pc' \in Running =>
                          events[i].arg \in collected'
                    /\ events[i].type = "evaluation_completed" =>
                          OnDisk(events[i].of)' /\ (events[i].of = now' => pc' \notin Running)
  BY <1>1, <1>2, Zenon DEF DiskInv, Running
<1>4. /\ events[i].type \in {"case_completed", "evaluation_completed"} => events[i].of \in 1 .. now
      /\ events[i].type = "case_completed" /\ events[i].of = now /\ pc \in Running =>
            events[i].arg \in collected
      /\ events[i].type = "evaluation_completed" =>
            OnDisk(events[i].of) /\ (events[i].of = now => pc \notin Running)
  BY DEF DiskInv
<1>5. events[i].of \in 1 .. now => events[i].of \in 1 .. now' /\ (now' = now + 1 => events[i].of # now')
  BY <1>0
<1> QED
  BY <1>3, <1>4, <1>5

\* No step announces an evaluation that is not on disk.
LEMMA DiskStep == RunnerInv /\ DiskInv /\ [Next]_vars => DiskInv'
<1> SUFFICES ASSUME RunnerInv, DiskInv, [Next]_vars PROVE DiskInv'
  OBVIOUS
<1>0. TypeOK /\ EngineInv /\ CountInv /\ FileInv /\ DiskInv
  BY DEF RunnerInv
<1> USE <1>0, RunnerAssumption
    DEF TypeOK, suiteVars, engineVars, outputVars, signalVars, DiskInv, OnDisk, EngineInv,
        CountInv, Running, Writing, Interrupted
<1>1. CASE Discover
  BY <1>1 DEF Discover
<1>2. CASE StartEvaluation
  <2>1. Event("evaluation_started", now + 1, None) \in Events
    BY <1>2 DEF StartEvaluation, Event, Events
  <2> QED
    BY <1>2, <2>1, QuietEvent DEF StartEvaluation
<1>3. CASE SuiteCompletes
  <2>1. Event("suite_completed", completed, (IF cancelled THEN "cancelled" ELSE "done")) \in Events
    BY <1>3 DEF SuiteCompletes, Event, Events
  <2> QED
    BY <1>3, <2>1, QuietEvent DEF SuiteCompletes
<1>4. CASE StopSuite
  <2>1. Event("suite_completed", completed + 1, "cancelled") \in Events
    BY <1>4 DEF StopSuite, Event, Events
  <2> QED
    BY <1>4, <2>1, QuietEvent DEF StopSuite
<1>5. CASE Fatal
  <2>1. Event("fatal", 0, fatal) \in Events
    BY <1>5 DEF Fatal, Event, Events
  <2> QED
    BY <1>5, <2>1, QuietEvent DEF Fatal
<1>6. CASE Return
  BY <1>6 DEF Return
<1>7. CASE Flush
  BY <1>7 DEF Flush
<1>8. CASE Registers
  BY <1>8 DEF Registers
<1>9. CASE BodyEnds
  BY <1>9 DEF BodyEnds
<1>10. CASE FinishReturns
  BY <1>10 DEF FinishReturns
<1>11. CASE FinishRaises
  BY <1>11 DEF FinishRaises
<1>12. CASE RunEnds
  BY <1>12 DEF RunEnds
<1>13. ASSUME NEW c \in Cases, CaseCompletes(c) PROVE DiskInv'
  <2>1. Event("case_completed", now, c) \in Events
    BY <1>13 DEF CaseCompletes, Event, Events
  <2>2. Emit("case_completed", now, c)
    BY <1>13 DEF CaseCompletes
  <2>3. /\ \A i \in DOMAIN events : i \in DOMAIN events' /\ events'[i] = events[i]
        /\ \A i \in DOMAIN events' :
              i \in DOMAIN events \/ events'[i] = Event("case_completed", now, c)
    BY <2>1, <2>2, EmitOld
  <2>5. ASSUME NEW i \in DOMAIN events', i \notin DOMAIN events
        PROVE  events'[i].of = now /\ events'[i].type = "case_completed" /\ events'[i].arg = c
    BY <2>3, <2>5 DEF Event
  <2>6. /\ now' = now /\ pc = "cases" /\ pc' = pc /\ now \in 1 .. Evaluations
        /\ collected' = collected \cup {c} /\ artifact' = artifact
    BY <1>13 DEF CaseCompletes
  <2>7. \A k \in 1 .. Evaluations \ {now} : OnDisk(k) => OnDisk(k)'
    BY <2>3, <2>5, <2>6
  <2>8. ASSUME NEW i \in DOMAIN events, events[i].type = "evaluation_completed"
        PROVE  events[i].of \in 1 .. Evaluations \ {now} /\ OnDisk(events[i].of)
    BY <2>6, <2>8
  <2> HIDE DEF OnDisk
  <2> QED
    BY <2>3, <2>5, <2>6, <2>7, <2>8
<1>14. ASSUME NEW what \in {"interrupt", "exit"}, UserAborts(what) PROVE DiskInv'
  BY <1>14 DEF UserAborts
<1>15. CASE WriteFile(1)
  <2>1. pc \in Running /\ \A k \in 1 .. Evaluations \ {now} : artifact'[k] = artifact[k]
    BY <1>15 DEF WriteFile, Files
  <2>2. \A k \in 1 .. Evaluations \ {now} : OnDisk(k) => OnDisk(k)'
    BY <1>15, <2>1 DEF WriteFile
  <2> QED
    BY <1>15, <2>1, <2>2 DEF WriteFile
<1>16. CASE WriteFile(2)
  <2>1. pc \in Running /\ \A k \in 1 .. Evaluations \ {now} : artifact'[k] = artifact[k]
    BY <1>16 DEF WriteFile, Files
  <2>2. \A k \in 1 .. Evaluations \ {now} : OnDisk(k) => OnDisk(k)'
    BY <1>16, <2>1 DEF WriteFile
  <2> QED
    BY <1>16, <2>1, <2>2 DEF WriteFile
<1>17. CASE Announce
  <2>1. Event("evaluation_completed", now, Status) \in Events
    BY <1>17 DEF Announce, Event, Events, Status
  <2>2. Emit("evaluation_completed", now, Status)
    BY <1>17 DEF Announce
  <2>3. /\ \A i \in DOMAIN events : i \in DOMAIN events' /\ events'[i] = events[i]
        /\ \A i \in DOMAIN events' :
              i \in DOMAIN events \/ events'[i] = Event("evaluation_completed", now, Status)
    BY <2>1, <2>2, EmitOld
  <2>4. /\ now \in 1 .. Evaluations /\ now' = now /\ pc = "announce" /\ pc' \notin Running
        /\ artifact' = artifact
    BY <1>17 DEF Announce
  <2>5. artifact[now].cases = collected /\ artifact[now].run # None
    BY <2>4 DEF FileInv, Status
  <2>6. artifact[now].final => artifact[now].cases = Cases
    BY <2>4, <2>5 DEF FileInv, Final
  <2>7. OnDisk(now)
    BY <2>4, <2>5, <2>6
  <2>8. \A k : OnDisk(k) => OnDisk(k)'
    BY <2>3, <2>4 DEF Event
  <2>9. ASSUME NEW i \in DOMAIN events', i \notin DOMAIN events
        PROVE  events'[i].of = now /\ events'[i].type = "evaluation_completed"
    BY <2>3, <2>9 DEF Event
  <2> HIDE DEF OnDisk
  <2> QED
    BY <2>3, <2>4, <2>7, <2>8, <2>9
<1>18. CASE SignalRegister
  BY <1>18 DEF SignalRegister, Signal
<1>19. CASE SignalCases
  BY <1>19 DEF SignalCases, Signal
<1>20. CASE SignalFinish
  BY <1>20 DEF SignalFinish, Signal
<1>21. CASE SignalClosing
  BY <1>21 DEF SignalClosing, Signal
<1>22. CASE SignalElsewhere
  BY <1>22 DEF SignalElsewhere, Signal
<1>23. CASE SignalLate
  BY <1>23 DEF SignalLate, Signal
<1>24. CASE UNCHANGED vars
  BY <1>24 DEF vars
<1> QED
  BY <1>1, <1>2, <1>3, <1>4, <1>5, <1>6, <1>7, <1>8, <1>9, <1>10, <1>11, <1>12,
     <1>13, <1>14, <1>15, <1>16, <1>17, <1>18, <1>19, <1>20, <1>21, <1>22, <1>23, <1>24
  DEF Next, Suite, Engine, Signals

\* An evaluation announced as completed is on disk, with every case that was announced.
THEOREM AnnouncedOnDisk == Spec => []AnnouncedIsOnDisk
<1>1. Init => DiskInv
  BY RunnerAssumption DEF Init, DiskInv, Event
<1>2. DiskInv => AnnouncedIsOnDisk
  BY DEF DiskInv, OnDisk, AnnouncedIsOnDisk, Emitted
<1> QED
  BY <1>1, <1>2, DiskStep, Invariance, PTL DEF Spec
----------------------------------------------------------------------------
(* The stream.                                                               *)

\* The steps that write nothing: an evaluation that is being run is the one that was, and
\* nothing leads back from the end of the process.
Silent ==
    /\ events' = events /\ now' = now /\ completed' = completed
    /\ pc' \in Running => pc \in Running
    /\ pc' \in {"discover", "next"} => pc \in {"discover", "next"}
    /\ pc' = "suite_done" => pc = "suite_done"
    /\ pc' = "counted" => pc = "counted"
    /\ pc \in {"suite_done", "fatal", "flush", "exited"} =>
          pc' \in {"suite_done", "fatal", "flush", "exited"}

\* Every step writes nothing or is one of the six that write one event.
LEMMA WhoWrites ==
    ASSUME RunnerInv, [Next]_vars
    PROVE  \/ Silent \/ StartEvaluation \/ SuiteCompletes \/ StopSuite \/ Fatal \/ Announce
           \/ \E c \in Cases : CaseCompletes(c)
<1>0. TypeOK
  BY DEF RunnerInv
<1>1. ASSUME Discover PROVE Silent
  BY <1>0, <1>1 DEF Discover, Silent, Running, suiteVars, engineVars, outputVars, signalVars, TypeOK
<1>2. ASSUME Return PROVE Silent
  BY <1>0, <1>2 DEF Return, Silent, Running, suiteVars, engineVars, outputVars, signalVars, TypeOK
<1>3. ASSUME Flush PROVE Silent
  BY <1>0, <1>3 DEF Flush, Silent, Running, suiteVars, engineVars, outputVars, signalVars, TypeOK
<1>4. ASSUME Registers PROVE Silent
  BY <1>0, <1>4 DEF Registers, Silent, Running, suiteVars, engineVars, outputVars, signalVars, TypeOK
<1>5. ASSUME BodyEnds PROVE Silent
  BY <1>0, <1>5 DEF BodyEnds, Silent, Running, suiteVars, engineVars, outputVars, signalVars, TypeOK
<1>6. ASSUME FinishReturns PROVE Silent
  BY <1>0, <1>6 DEF FinishReturns, Silent, Running, suiteVars, engineVars, outputVars, signalVars, TypeOK
<1>7. ASSUME FinishRaises PROVE Silent
  BY <1>0, <1>7 DEF FinishRaises, Silent, Running, suiteVars, engineVars, outputVars, signalVars, TypeOK
<1>8. ASSUME RunEnds PROVE Silent
  BY <1>0, <1>8 DEF RunEnds, Silent, Running, suiteVars, engineVars, outputVars, signalVars, TypeOK
<1>9. ASSUME WriteFile(1) PROVE Silent
  BY <1>0, <1>9 DEF WriteFile, Files, Silent, Running, suiteVars, engineVars, outputVars, signalVars, TypeOK
<1>10. ASSUME WriteFile(2) PROVE Silent
  BY <1>0, <1>10 DEF WriteFile, Files, Silent, Running, suiteVars, engineVars, outputVars, signalVars, TypeOK
<1>11. ASSUME SignalRegister PROVE Silent
  BY <1>0, <1>11 DEF SignalRegister, Silent, Running, suiteVars, engineVars, outputVars, signalVars, TypeOK
<1>12. ASSUME SignalCases PROVE Silent
  BY <1>0, <1>12 DEF SignalCases, Silent, Running, suiteVars, engineVars, outputVars, signalVars, TypeOK
<1>13. ASSUME SignalFinish PROVE Silent
  BY <1>0, <1>13 DEF SignalFinish, Silent, Running, suiteVars, engineVars, outputVars, signalVars, TypeOK
<1>14. ASSUME SignalClosing PROVE Silent
  BY <1>0, <1>14 DEF SignalClosing, Silent, Running, suiteVars, engineVars, outputVars, signalVars, TypeOK
<1>15. ASSUME SignalElsewhere PROVE Silent
  BY <1>0, <1>15 DEF SignalElsewhere, Silent, Running, suiteVars, engineVars, outputVars, signalVars, TypeOK
<1>16. ASSUME SignalLate PROVE Silent
  BY <1>0, <1>16 DEF SignalLate, Silent, Running, suiteVars, engineVars, outputVars, signalVars, TypeOK
<1>17. ASSUME UNCHANGED vars PROVE Silent
  BY <1>0, <1>17 DEF vars, Silent, Running, suiteVars, engineVars, outputVars, signalVars, TypeOK
<1>18. ASSUME NEW what \in {"interrupt", "exit"}, UserAborts(what) PROVE Silent
  BY <1>18 DEF UserAborts, Silent, Running, suiteVars, outputVars
<1> HIDE DEF Silent
<1> QED
  BY <1>1, <1>2, <1>3, <1>4, <1>5, <1>6, <1>7, <1>8, <1>9,
     <1>10, <1>11, <1>12, <1>13, <1>14, <1>15, <1>16, <1>17, <1>18
  DEF Next, Suite, Engine, Signals

\* What one more event does to the stream.
LEMMA OneMore ==
    ASSUME events \in Seq(Events),
           NEW type, NEW k, NEW arg, Event(type, k, arg) \in Events, Emit(type, k, arg)
    PROVE  /\ Len(events) \in Nat /\ DOMAIN events = 1 .. Len(events)
           /\ DOMAIN events' = 1 .. Len(events) + 1
           /\ \A i \in DOMAIN events : events'[i] = events[i]
           /\ events'[Len(events) + 1] = Event(type, k, arg)
           /\ type # "evaluation_completed" => Announced' = Announced
           /\ type = "evaluation_completed" => Announced' = Announced \cup {Len(events) + 1}
           /\ IsFiniteSet(Announced)
<1>1. /\ Len(events) \in Nat /\ DOMAIN events = 1 .. Len(events)
      /\ events' = Append(events, Event(type, k, arg))
  BY LenProperties DEF Emit
<1>2. /\ events' \in Seq(Events) /\ Len(events') = Len(events) + 1
      /\ events'[Len(events) + 1] = Event(type, k, arg)
      /\ \A i \in 1 .. Len(events) : events'[i] = events[i]
  BY <1>1, AppendProperties
<1>3. DOMAIN events' = 1 .. Len(events) + 1
  BY <1>2, LenProperties
<1>4. \A i : i \in DOMAIN events' <=> i \in DOMAIN events \/ i = Len(events) + 1
  BY <1>1, <1>3
<1>5. events'[Len(events) + 1].type = type
  BY <1>2 DEF Event
<1>6. IsFiniteSet(Announced)
  <2>1. IsFiniteSet(1 .. Len(events)) /\ Announced \in SUBSET (1 .. Len(events))
    BY <1>1, FS_Interval DEF Announced
  <2> QED BY <2>1, FS_Subset
<1>7. type # "evaluation_completed" => Announced' = Announced
  BY <1>1, <1>2, <1>4, <1>5 DEF Announced
<1>8. type = "evaluation_completed" => Announced' = Announced \cup {Len(events) + 1}
  BY <1>1, <1>2, <1>4, <1>5 DEF Announced
<1> QED BY <1>1, <1>2, <1>3, <1>6, <1>7, <1>8

StreamOK == StreamInv /\ EventsFollowProtocol

\* An event that ends the suite or the process disturbs none of the others.
LEMMA ClosingEvent ==
    ASSUME RunnerInv, StreamOK, now' = now, completed' \in Nat,
           NEW type \in {"suite_completed", "fatal"}, NEW k, NEW arg,
           Event(type, k, arg) \in Events, Emit(type, k, arg),
           pc' \in {"suite_done", "flush"},
           pc' = "suite_done" => completed' = Cardinality(Announced),
           type = "suite_completed" => k = Cardinality(Announced) 
    PROVE  StreamOK'
<1> DEFINE n == Len(events) + 1
<1>0. events \in Seq(Events) /\ now \in Nat
  BY RunnerAssumption DEF RunnerInv, TypeOK
<1>1. /\ n \in Nat /\ DOMAIN events = 1 .. n - 1 /\ DOMAIN events' = 1 .. n
      /\ \A i \in DOMAIN events : events'[i] = events[i]
      /\ events'[n].type = type /\ events'[n].of = k /\ Announced' = Announced
  BY <1>0, OneMore DEF Event
<1> HIDE DEF n
<1>2. \A i \in DOMAIN events' : i \in DOMAIN events \/ i = n
  BY <1>1
<1>3. ASSUME NEW i \in DOMAIN events', OfEvaluation(i)'
      PROVE  i \in DOMAIN events /\ OfEvaluation(i) /\ events'[i] = events[i]
  <2>1. i # n
    BY <1>1, <1>3 DEF OfEvaluation
  <2> QED BY <1>1, <1>2, <1>3, <2>1 DEF OfEvaluation
<1>4. \A m : Emitted("evaluation_started", m) \subseteq Emitted("evaluation_started", m)'
  BY <1>1 DEF Emitted
<1>5. ASSUME NEW i \in DOMAIN events', NEW j \in DOMAIN events', OfEvaluation(i)', OfEvaluation(j)', i < j
      PROVE  InOrder(i, j)'
  <2>1. InOrder(i, j) /\ events'[i] = events[i] /\ events'[j] = events[j]
    BY <1>3, <1>5 DEF StreamOK, EventsFollowProtocol
  <2> QED BY <1>4, <2>1 DEF InOrder
<1>6. ASSUME NEW i \in DOMAIN events', events'[i].type = "suite_completed"
      PROVE  events'[i].of = Cardinality(Announced')
  <2>1. CASE i = n
    BY <1>1, <1>6, <2>1
  <2>2. CASE i \in DOMAIN events
    BY <1>1, <1>6, <2>2 DEF StreamOK, EventsFollowProtocol
  <2> QED BY <1>2, <2>1, <2>2
<1>7. StreamInv'
  <2>1. pc' \notin Running
    BY DEF Running
  <2>2. \A i \in DOMAIN events' : OfEvaluation(i)' => events'[i].of <= now'
    BY <1>3 DEF StreamOK, StreamInv
  <2>3. Cardinality(Announced') = Cardinality(Announced)
    BY <1>1
  <2> QED BY <2>1, <2>2, <2>3 DEF StreamInv
<1> QED BY <1>5, <1>6, <1>7 DEF StreamOK, EventsFollowProtocol

\* An event of the evaluation that is current after it: the start of the next one, or
\* another of the one being run.
LEMMA EvaluationEvent ==
    ASSUME RunnerInv, StreamOK,
           NEW type \in {"evaluation_started", "case_completed", "evaluation_completed"}, NEW arg,
           Event(type, now', arg) \in Events, Emit(type, now', arg),
           ~Has("suite_completed"),
           IF type = "evaluation_started" THEN now' = now + 1 ELSE now' = now /\ pc \in Running,
           pc' \in Running \cup {"next", "counted"},
           pc' \in Running <=> type # "evaluation_completed",
           Cardinality(Announced) = completed, completed \in Nat,
           pc' = "next" => completed' = completed + 1, pc' # "next" => completed' = completed
    PROVE  StreamOK'
<1>0. events \in Seq(Events) /\ now \in Nat /\ now' \in Nat
  BY RunnerAssumption DEF RunnerInv, TypeOK
<1>a. PICK n \in Nat : n = Len(events) + 1
  BY <1>0, LenProperties
<1>1. /\ n \in Nat /\ n # 0 /\ DOMAIN events = 1 .. n - 1 /\ DOMAIN events' = 1 .. n
      /\ \A i \in DOMAIN events : events'[i] = events[i]
      /\ events'[n].type = type /\ events'[n].of = now'
      /\ type # "evaluation_completed" => Announced' = Announced
      /\ type = "evaluation_completed" => Announced' = Announced \cup {n}
      /\ IsFiniteSet(Announced)
  BY <1>0, <1>a, OneMore DEF Event
<1>2. \A i \in DOMAIN events' : i \in DOMAIN events \/ i = n
  BY <1>1
<1>3. ASSUME NEW i \in DOMAIN events, OfEvaluation(i)'
      PROVE  /\ OfEvaluation(i) /\ events'[i] = events[i] /\ events[i].of <= now /\ i < n
             /\ events[i].type = "evaluation_completed" /\ events[i].of = now => pc \notin Running
             /\ events[i].of \in Nat
  <2>1. OfEvaluation(i) /\ events'[i] = events[i] /\ i < n
    BY <1>1, <1>3 DEF OfEvaluation
  <2>2. events[i] \in Events
    BY <1>0, ElementOfSeq, LenProperties
  <2> QED BY <2>1, <2>2 DEF StreamOK, StreamInv, Events
<1>4. \A m : Emitted("evaluation_started", m) \subseteq Emitted("evaluation_started", m)'
  BY <1>1 DEF Emitted
<1>5. type = "evaluation_started" => n \in Emitted("evaluation_started", now)'
  BY <1>1 DEF Emitted
<1>6. ASSUME NEW i \in DOMAIN events, OfEvaluation(i)' PROVE InOrder(i, n)'
  <2>1. CASE type = "evaluation_started"
    <3>1. events'[i].of < events'[n].of
      BY <1>0, <1>1, <1>3, <1>6, <2>1
    <3>2. i < n /\ n <= n
      BY <1>1, <1>3, <1>6
    <3> QED BY <1>1, <1>5, <2>1, <3>1, <3>2 DEF InOrder
  <2>2. CASE type # "evaluation_started" /\ events[i].of = now
    BY <1>1, <1>3, <1>6, <2>2 DEF InOrder
  <2>3. CASE type # "evaluation_started" /\ events[i].of # now
    <3>1. events[i].of < now /\ now' = now
      BY <1>0, <1>3, <1>6, <2>3
    <3>2. PICK s \in Emitted("evaluation_started", now) : TRUE
      BY <2>3 DEF StreamOK, StreamInv
    <3>3. s \in DOMAIN events /\ OfEvaluation(s) /\ events[s].of = now
      BY <3>2 DEF Emitted, OfEvaluation
    <3>4. i # s /\ ~(s < i)
      <4>1. ASSUME s < i PROVE FALSE
        <5>1. InOrder(s, i)
          BY <1>3, <1>6, <3>3, <4>1 DEF StreamOK, EventsFollowProtocol
        <5> QED BY <1>0, <1>3, <1>6, <3>1, <3>3, <5>1 DEF InOrder
      <4> QED BY <3>1, <3>3, <4>1, <1>0
    <3>5. i < s /\ s <= n
      BY <1>1, <3>3, <3>4
    <3>6. s \in Emitted("evaluation_started", now)'
      BY <1>4, <3>1, <3>2
    <3> QED BY <1>1, <1>3, <1>6, <3>1, <3>5, <3>6 DEF InOrder
  <2> QED BY <2>1, <2>2, <2>3
<1>7. ASSUME NEW i \in DOMAIN events', NEW j \in DOMAIN events', OfEvaluation(i)', OfEvaluation(j)', i < j
      PROVE  InOrder(i, j)'
  <2>1. i \in DOMAIN events
    BY <1>1, <1>7
  <2>2. CASE j = n
    BY <1>6, <1>7, <2>1, <2>2
  <2>3. CASE j \in DOMAIN events
    <3>1. InOrder(i, j) /\ events'[i] = events[i] /\ events'[j] = events[j]
      BY <1>3, <1>7, <2>1, <2>3 DEF StreamOK, EventsFollowProtocol
    <3> QED BY <1>4, <3>1 DEF InOrder
  <2> QED BY <1>2, <2>2, <2>3
<1>8. ~Has("suite_completed")'
  BY <1>1, <1>2 DEF Has
<1>9. Cardinality(Announced') = completed + (IF type = "evaluation_completed" THEN 1 ELSE 0)
  <2>1. n \notin Announced
    BY <1>1 DEF Announced
  <2>2. Cardinality(Announced \cup {n}) = completed + 1
    BY <1>1, <2>1, FS_AddElement
  <2>3. CASE type = "evaluation_completed"
    BY <1>1, <2>2, <2>3
  <2>4. CASE type # "evaluation_completed"
    <3>1. Announced' = Announced
      BY <1>1, <2>4
    <3>2. completed + 0 = completed
      OBVIOUS
    <3> QED BY <2>4, <3>1, <3>2
  <2> QED BY <2>3, <2>4
<1>10. StreamInv'
  <2>1. ASSUME NEW i \in DOMAIN events', OfEvaluation(i)'
        PROVE  /\ events'[i].of <= now'
               /\ events'[i].type = "evaluation_completed" /\ events'[i].of = now' => pc' \notin Running
    <3>1. CASE i = n
      BY <1>0, <1>1, <3>1
    <3>2. CASE i \in DOMAIN events
      BY <1>0, <1>3, <2>1, <3>2
    <3> QED BY <1>2, <3>1, <3>2
  <2>2. pc' \in Running => Emitted("evaluation_started", now)' # {}
    <3>1. CASE type = "evaluation_started"
      BY <1>5, <3>1
    <3>2. CASE type # "evaluation_started"
      BY <1>4, <3>2 DEF StreamOK, StreamInv
    <3> QED BY <3>1, <3>2
  <2>3. /\ pc' \notin {"discover", "suite_done"}
        /\ pc' \in {"next"} \cup Running => Cardinality(Announced') = completed'
        /\ pc' = "counted" => Cardinality(Announced') = completed' + 1
    <3>1. CASE type = "evaluation_completed"
      <4>1. pc' \notin Running /\ Cardinality(Announced') = completed + 1
        BY <1>9, <3>1
      <4> QED BY <4>1
    <3>2. CASE type # "evaluation_completed"
      <4>1. pc' \in Running /\ pc' \notin {"next", "counted", "discover", "suite_done"}
        BY <3>2 DEF Running
      <4>2. completed' = completed /\ Cardinality(Announced') = completed
        BY <1>9, <3>2, <4>1
      <4> QED BY <4>1, <4>2
    <3> QED BY <3>1, <3>2
  <2> QED BY <1>8, <2>1, <2>2, <2>3 DEF StreamInv
<1>11. \A i \in DOMAIN events' : events'[i].type # "suite_completed"
  BY <1>8 DEF Has
<1> QED BY <1>7, <1>10, <1>11 DEF StreamOK, EventsFollowProtocol

LEMMA StreamInit == Init => StreamOK
<1> SUFFICES ASSUME Init PROVE StreamOK
  OBVIOUS
<1>1. DOMAIN events = {1} /\ events[1].type = "hello"
  BY DEF Init, Event
<1>2. Announced = {}
  BY <1>1 DEF Announced
<1>3. Cardinality(Announced) = 0
  BY <1>2, FS_EmptySet
<1> QED
  BY <1>1, <1>3 DEF Init, StreamOK, StreamInv, EventsFollowProtocol, OfEvaluation, Has, Running

LEMMA StreamStep == RunnerInv /\ RunnerInv' /\ StreamOK /\ [Next]_vars => StreamOK'
<1> SUFFICES ASSUME RunnerInv, RunnerInv', StreamOK, [Next]_vars PROVE StreamOK'
  OBVIOUS
<1>0. /\ TypeOK /\ TypeOK' /\ StreamInv /\ EngineInv /\ CountInv
      /\ completed \in Nat /\ completed' \in Nat /\ now \in Nat
  BY RunnerAssumption DEF RunnerInv, TypeOK, StreamOK
<1>1. CASE Silent
  <2>1. /\ Announced' = Announced /\ \A m : Emitted("evaluation_started", m)' = Emitted("evaluation_started", m)
        /\ (Has("suite_completed")' <=> Has("suite_completed")) /\ events' = events /\ now' = now
        /\ \A i \in DOMAIN events : OfEvaluation(i)' <=> OfEvaluation(i)
    BY <1>1 DEF Silent, Announced, Emitted, Has, OfEvaluation
  <2>2. EventsFollowProtocol'
    BY <2>1 DEF StreamOK, EventsFollowProtocol, InOrder
  <2>3. /\ pc' \in {"discover", "next", "suite_done"} \cup Running => Cardinality(Announced') = completed'
        /\ pc' = "counted" => Cardinality(Announced') = completed' + 1
    BY <1>0, <1>1, <2>1 DEF Silent, StreamInv
  <2>4. Has("suite_completed")' => pc' \in {"suite_done", "fatal", "flush", "exited"}
    BY <1>0, <1>1, <2>1 DEF Silent, StreamInv
  <2>5. \A i \in DOMAIN events' : OfEvaluation(i)' =>
          /\ events'[i].of <= now'
          /\ events'[i].type = "evaluation_completed" /\ events'[i].of = now' => pc' \notin Running
    BY <1>0, <1>1, <2>1 DEF Silent, StreamInv
  <2>6. pc' \in Running => Emitted("evaluation_started", now)' # {}
    BY <1>0, <1>1, <2>1 DEF Silent, StreamInv
  <2> QED BY <2>2, <2>3, <2>4, <2>5, <2>6 DEF StreamOK, StreamInv
<1>2. CASE StartEvaluation
  <2>1. /\ pc = "next" /\ pc' = "register" /\ now' = now + 1 /\ completed' = completed
        /\ Emit("evaluation_started", now', None) /\ now < Evaluations
    BY <1>2 DEF StartEvaluation
  <2>2. Event("evaluation_started", now', None) \in Events
    BY <1>0, <2>1, RunnerAssumption DEF Event, Events, TypeOK
  <2>3. ~Has("suite_completed") /\ Cardinality(Announced) = completed
    BY <1>0, <2>1 DEF StreamInv
  <2>4. pc' \in Running
    BY <2>1 DEF Running
  <2> QED BY <1>0, <2>1, <2>2, <2>3, <2>4, EvaluationEvent
<1>3. ASSUME NEW c \in Cases, CaseCompletes(c) PROVE StreamOK'
  <2>1. /\ pc = "cases" /\ pc' = "cases" /\ now' = now /\ completed' = completed
        /\ Emit("case_completed", now', c)
    BY <1>3 DEF CaseCompletes, suiteVars
  <2>2. Event("case_completed", now', c) \in Events
    BY <1>0, <2>1 DEF Event, Events, TypeOK
  <2>3. pc \in Running /\ pc' \in Running
    BY <2>1 DEF Running
  <2>4. ~Has("suite_completed") /\ Cardinality(Announced) = completed
    BY <1>0, <2>1, <2>3 DEF StreamInv
  <2> QED BY <1>0, <2>1, <2>2, <2>3, <2>4, EvaluationEvent
<1>4. CASE Announce
  <2>1. /\ pc = "announce" /\ pc' \in {"next", "counted"} /\ now' = now
        /\ (pc' = "next" => completed' = completed + 1) /\ (pc' # "next" => completed' = completed)
        /\ Emit("evaluation_completed", now', Status)
    BY <1>0, <1>4 DEF Announce
  <2>2. Event("evaluation_completed", now', Status) \in Events
    BY <1>0, <2>1 DEF Event, Events, TypeOK, Status
  <2>3. pc \in Running /\ pc' \notin Running
    BY <2>1 DEF Running
  <2>4. ~Has("suite_completed") /\ Cardinality(Announced) = completed
    BY <1>0, <2>1, <2>3 DEF StreamInv
  <2> QED BY <1>0, <2>1, <2>2, <2>3, <2>4, EvaluationEvent
<1>5. CASE SuiteCompletes
  <2>1. /\ pc = "next" /\ pc' = "suite_done" /\ now' = now /\ completed' = completed
        /\ Emit("suite_completed", completed, IF cancelled THEN "cancelled" ELSE "done")
    BY <1>5 DEF SuiteCompletes, suiteVars
  <2>2. Event("suite_completed", completed, IF cancelled THEN "cancelled" ELSE "done") \in Events
    BY <1>0, RunnerAssumption DEF Event, Events, TypeOK
  <2>3. Cardinality(Announced) = completed
    BY <1>0, <2>1 DEF StreamInv
  <2> QED BY <1>0, <2>1, <2>2, <2>3, ClosingEvent
<1>6. CASE StopSuite
  <2>1. /\ pc = "counted" /\ pc' = "suite_done" /\ now' = now /\ completed' = completed + 1
        /\ Emit("suite_completed", completed + 1, "cancelled")
    BY <1>6 DEF StopSuite
  <2>2. Event("suite_completed", completed + 1, "cancelled") \in Events
    BY <1>0, <2>1, RunnerAssumption DEF Event, Events, TypeOK, CountInv
  <2>3. Cardinality(Announced) = completed + 1
    BY <1>0, <2>1 DEF StreamInv
  <2> QED BY <1>0, <2>1, <2>2, <2>3, ClosingEvent
<1>7. CASE Fatal
  <2>1. pc' = "flush" /\ now' = now /\ completed' = completed /\ Emit("fatal", 0, fatal)
    BY <1>7 DEF Fatal, suiteVars
  <2>2. Event("fatal", 0, fatal) \in Events
    BY <1>0, RunnerAssumption DEF Event, Events, TypeOK
  <2> QED BY <1>0, <2>1, <2>2, ClosingEvent
<1> QED BY <1>1, <1>2, <1>3, <1>4, <1>5, <1>6, <1>7, WhoWrites

\* The stream tells the truth about how far the suite came.
THEOREM StreamFollowsProtocol == Spec => []EventsFollowProtocol
<1>1. StreamOK => EventsFollowProtocol
  BY DEF StreamOK
<1> QED BY <1>1, StreamInit, StreamStep, Invariance, PTL DEF Spec
=============================================================================
