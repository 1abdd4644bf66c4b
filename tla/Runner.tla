------------------------------- MODULE Runner -------------------------------
(***************************************************************************)
(* The evaluation runner process (traceroot/eval/runner.py): it discovers  *)
(* evaluations, runs them one after the other, reports events on a         *)
(* channel, writes two files per evaluation and exits, while SIGINT may    *)
(* arrive between any two steps of its main thread.                        *)
(*                                                                         *)
(* evaluation.run() is the engine of EvalRun, of which this module keeps   *)
(* the phases a signal tells apart.  asyncio.run (external) turns the      *)
(* first SIGINT into a cancellation of the main task and raises            *)
(* KeyboardInterrupt at once for any other; outside it, and while it       *)
(* closes its loop, every SIGINT raises KeyboardInterrupt.                 *)
(***************************************************************************)
EXTENDS Naturals, Sequences, FiniteSets

CONSTANTS
    Evaluations, \* how many evaluations are discovered
    Cases,       \* the cases of each evaluation
    MaxSignals,  \* bound on SIGINTs
    None

ASSUME RunnerAssumption ==
    /\ Evaluations \in Nat /\ MaxSignals \in Nat
    /\ None \notin {"0", "130", "completed", "incomplete", "import_error", "harness_error", "cancelled"}
    /\ \A some \in SUBSET Cases : some # None

VARIABLES
    pc,        \* where the main thread is
    now,       \* the evaluation it is at
    completed, \* run_suite: evaluations that came to their end
    cancelled, \* run_suite: an evaluation was interrupted
    collected, \* _run_one: cases whose on_complete hook ran
    body,      \* engine: how the gather of the cases ended
    raised,    \* what evaluation.run() is about to raise
    platform,  \* the platform's status of each run
    artifact,  \* the two files of each evaluation
    events,    \* what was written to the channel
    fatal,     \* the kind of the fatal event that is due
    exit,      \* the exit code
    signals,   \* SIGINTs so far
    stopped    \* history: evaluations started before the first SIGINT

engineVars == <<collected, body, raised, platform>>
suiteVars  == <<now, completed, cancelled>>
outputVars == <<artifact, events, fatal, exit>>
signalVars == <<signals, stopped>>
vars == <<pc, suiteVars, engineVars, outputVars, signalVars>>

Pcs == {"discover", "next", "register", "cases", "finish", "closing", "write_first",
        "write_second", "announce", "counted", "suite_done", "fatal", "flush", "exited"}
Artifacts == [cases : (SUBSET Cases) \cup {None}, run : {None, "completed", "incomplete"},
              final : BOOLEAN]
Events == [type : {"hello", "evaluation_started", "case_completed", "evaluation_completed",
                   "suite_completed", "fatal"},
           of : 0 .. Evaluations,
           arg : Cases \cup {None, "completed", "incomplete", "done", "cancelled",
                             "import_error", "harness_error"}]

Event(type, k, arg) == [type |-> type, of |-> k, arg |-> arg]
Emit(type, k, arg) == events' = Append(events, Event(type, k, arg))

Init ==
    /\ pc = "discover" /\ now = 0 /\ completed = 0 /\ cancelled = FALSE
    /\ collected = {} /\ body = "ok" /\ raised = "nothing"
    /\ platform = [k \in 1 .. Evaluations |-> "none"]
    /\ artifact = [k \in 1 .. Evaluations |-> [cases |-> None, run |-> None, final |-> FALSE]]
    /\ events = <<Event("hello", 0, None)>>
    /\ fatal = None /\ exit = None /\ signals = 0 /\ stopped = Evaluations

----------------------------------------------------------------------------
(* The suite                                                                *)

(* the modules are imported, or one of them cannot be *)
Discover ==
    /\ pc = "discover"
    /\ \/ pc' = "next" /\ fatal' = fatal
       \/ pc' = "fatal" /\ fatal' = "import_error"
    /\ UNCHANGED <<suiteVars, engineVars, artifact, events, exit, signalVars>>

StartEvaluation ==
    /\ pc = "next" /\ now < Evaluations
    /\ pc' = "register" /\ now' = now + 1
    /\ collected' = {} /\ body' = "ok" /\ raised' = "nothing"
    /\ Emit("evaluation_started", now + 1, None)
    /\ UNCHANGED <<completed, cancelled, platform, artifact, fatal, exit, signalVars>>

SuiteCompletes ==
    /\ pc = "next" /\ now = Evaluations
    /\ pc' = "suite_done"
    /\ Emit("suite_completed", completed, IF cancelled THEN "cancelled" ELSE "done")
    /\ UNCHANGED <<suiteVars, engineVars, artifact, fatal, exit, signalVars>>

----------------------------------------------------------------------------
(* evaluation.run()                                                         *)

(* create_run returns, and on_run_start is told of it; or it fails *)
Registers ==
    /\ pc = "register"
    /\ \/ /\ platform' = [platform EXCEPT ![now] = "running"]
          /\ pc' = "cases" /\ raised' = raised
       \/ /\ platform' = platform
          /\ pc' = "closing" /\ raised' = "error"
    /\ UNCHANGED <<suiteVars, collected, body, outputVars, signalVars>>

(* a case ends: its on_complete hook collects it and reports it *)
CaseCompletes(c) ==
    /\ pc = "cases" /\ c \notin collected
    /\ collected' = collected \cup {c}
    /\ Emit("case_completed", now, c)
    /\ UNCHANGED <<pc, suiteVars, body, raised, platform, artifact, fatal, exit, signalVars>>

BodyEnds ==
    /\ pc = "cases" /\ collected = Cases
    /\ pc' = "finish"
    /\ UNCHANGED <<suiteVars, engineVars, outputVars, signalVars>>

(* user code raises SystemExit or KeyboardInterrupt: the loop is torn down, and
   the coroutine of the run completes it as incomplete *)
UserAborts(what) ==
    /\ pc = "cases"
    /\ pc' = "finish" /\ body' = what
    /\ UNCHANGED <<suiteVars, collected, raised, platform, outputVars, signalVars>>

Terminal == IF body = "ok" THEN "completed" ELSE "incomplete"

(* what the engine raises when finish_run fails *)
Completion == IF body = "ok" THEN "error" ELSE body

FinishReturns ==
    /\ pc = "finish"
    /\ platform' = [platform EXCEPT ![now] = Terminal]
    /\ raised' = IF body = "ok" THEN "nothing" ELSE body
    /\ pc' = "closing"
    /\ UNCHANGED <<suiteVars, collected, body, outputVars, signalVars>>

(* Mutant: the error of the completion is only logged. *)
FinishRaisesQuietly ==
    /\ pc = "finish"
    /\ raised' = IF body = "ok" THEN "nothing" ELSE body
    /\ pc' = "closing"
    /\ UNCHANGED <<suiteVars, collected, body, platform, outputVars, signalVars>>

(* the completion is refused, or only its answer is lost *)
FinishRaises ==
    /\ pc = "finish"
    /\ \E s \in {platform[now], Terminal} : platform' = [platform EXCEPT ![now] = s]
    /\ raised' = Completion
    /\ pc' = "closing"
    /\ UNCHANGED <<suiteVars, collected, body, outputVars, signalVars>>

(* asyncio.run has closed its loop; _run_one goes on with the result of the run, with
   a partial one after KeyboardInterrupt, or not at all *)
RunEnds ==
    /\ pc = "closing"
    /\ \/ raised \in {"nothing", "interrupt"} /\ pc' = "write_first" /\ UNCHANGED <<fatal, exit>>
       \/ raised = "error" /\ pc' = "fatal" /\ fatal' = "harness_error" /\ exit' = exit
       \/ raised = "exit" /\ pc' = "flush" /\ fatal' = fatal /\ exit' = "user"
    /\ UNCHANGED <<suiteVars, engineVars, artifact, events, signalVars>>

----------------------------------------------------------------------------
(* The result of an evaluation: cases file, run file (unless no_artifact, which *)
(* is left out), event                                                         *)

Interrupted == raised = "interrupt"
Status == IF Interrupted THEN "incomplete" ELSE "completed"

(* Mutant: a sampled or whole run is final whether or not it was interrupted. *)
FinalAlways == TRUE
Final == ~Interrupted

Files == <<"cases", "run">>

(* each file is written beside its place and moved there: it is whole or not there *)
WriteFile(i) ==
    /\ pc = <<"write_first", "write_second">>[i]
    /\ pc' = <<"write_second", "announce">>[i]
    /\ artifact' =
          IF Files[i] = "cases" THEN [artifact EXCEPT ![now].cases = collected]
          ELSE [artifact EXCEPT ![now].run = Status, ![now].final = Final]
    /\ UNCHANGED <<suiteVars, engineVars, events, fatal, exit, signalVars>>

(* Mutants: the interrupted evaluation is announced and the suite goes on; it is
   counted where it is announced and where the suite stops. *)
AnnounceOnly ==
    /\ pc = "announce"
    /\ Emit("evaluation_completed", now, Status)
    /\ completed' = completed + 1
    /\ cancelled' = Interrupted
    /\ pc' = "next"
    /\ UNCHANGED <<now, engineVars, artifact, fatal, exit, signalVars>>

(* evaluation_completed; _CancelledError leaves the loop of run_suite *)
Announce ==
    /\ pc = "announce"
    /\ Emit("evaluation_completed", now, Status)
    /\ pc' = IF Interrupted THEN "counted" ELSE "next"
    /\ completed' = completed + (IF Interrupted THEN 0 ELSE 1)
    /\ UNCHANGED <<now, cancelled, engineVars, artifact, fatal, exit, signalVars>>

(* Mutant: an evaluation that was interrupted does not count. *)
StopSuiteUncounted ==
    /\ pc = "counted" /\ pc' = "suite_done"
    /\ cancelled' = TRUE
    /\ Emit("suite_completed", completed, "cancelled")
    /\ UNCHANGED <<now, completed, engineVars, artifact, fatal, exit, signalVars>>

StopSuite ==
    /\ pc = "counted" /\ pc' = "suite_done"
    /\ completed' = completed + 1 /\ cancelled' = TRUE
    /\ Emit("suite_completed", completed + 1, "cancelled")
    /\ UNCHANGED <<now, engineVars, artifact, fatal, exit, signalVars>>

----------------------------------------------------------------------------
(* main                                                                     *)

Fatal ==
    /\ pc = "fatal" /\ pc' = "flush"
    /\ Emit("fatal", 0, fatal)
    /\ exit' = IF fatal = "cancelled" THEN "130" ELSE "0"
    /\ UNCHANGED <<suiteVars, engineVars, artifact, fatal, signalVars>>

(* Mutant: the exit code is that of a run that went well. *)
ReturnZero ==
    /\ pc = "suite_done" /\ pc' = "flush"
    /\ exit' = "0"
    /\ UNCHANGED <<suiteVars, engineVars, artifact, events, fatal, signalVars>>

Return ==
    /\ pc = "suite_done" /\ pc' = "flush"
    /\ exit' = IF cancelled THEN "130" ELSE "0"
    /\ UNCHANGED <<suiteVars, engineVars, artifact, events, fatal, signalVars>>

Flush ==
    /\ pc = "flush" /\ pc' = "exited"
    /\ UNCHANGED <<suiteVars, engineVars, outputVars, signalVars>>

----------------------------------------------------------------------------
(* SIGINT                                                                   *)

Signal ==
    /\ signals < MaxSignals /\ signals' = signals + 1
    /\ stopped' = IF signals = 0 THEN now ELSE stopped

(* asyncio.run cancels the main task: the request that is in flight is abandoned, and
   may be served or not *)
SignalRegister ==
    /\ pc = "register" /\ Signal
    /\ \E s \in {"none", "running"} : platform' = [platform EXCEPT ![now] = s]
    /\ raised' = "interrupt" /\ pc' = "closing"
    /\ UNCHANGED <<suiteVars, collected, body, outputVars>>

SignalCases ==
    /\ pc = "cases" /\ Signal
    /\ body' = "interrupt" /\ pc' = "finish"
    /\ UNCHANGED <<suiteVars, collected, raised, platform, outputVars>>

(* a run that got through its cases takes the cancellation of finish_run for a failed
   completion; one that did not ends with KeyboardInterrupt *)
SignalFinish ==
    /\ pc = "finish" /\ Signal
    /\ \E s \in {platform[now], Terminal} : platform' = [platform EXCEPT ![now] = s]
    /\ raised' = IF body = "ok" THEN "error" ELSE "interrupt"
    /\ pc' = "closing"
    /\ UNCHANGED <<suiteVars, collected, body, outputVars>>

SignalClosing ==
    /\ pc = "closing" /\ Signal
    /\ raised' = "interrupt"
    /\ UNCHANGED <<pc, suiteVars, collected, body, platform, outputVars>>

(* the safety net of main, which also takes a signal between the event that an evaluation
   has started and the try statement around its run *)
SignalElsewhere ==
    /\ \/ pc \in {"discover", "next", "register", "write_first", "write_second", "announce",
                  "counted", "suite_done"}
       \/ pc = "fatal" /\ fatal = "import_error"
    /\ Signal
    /\ pc' = "fatal" /\ fatal' = "cancelled"
    /\ UNCHANGED <<suiteVars, engineVars, artifact, events, exit>>

(* in a handler or the finally block of main: the interpreter ends with it *)
SignalLate ==
    /\ \/ pc = "flush"
       \/ pc = "fatal" /\ fatal # "import_error"
    /\ Signal
    /\ exit' = "killed"
    /\ pc' = IF pc = "fatal" THEN "flush" ELSE "exited"
    /\ UNCHANGED <<suiteVars, engineVars, artifact, events, fatal>>

----------------------------------------------------------------------------
Suite == Discover \/ StartEvaluation \/ SuiteCompletes \/ StopSuite \/ Fatal \/ Return \/ Flush

Engine ==
    \/ Registers \/ BodyEnds \/ FinishReturns \/ FinishRaises \/ RunEnds
    \/ \E c \in Cases : CaseCompletes(c)
    \/ \E what \in {"interrupt", "exit"} : UserAborts(what)

Signals ==
    SignalRegister \/ SignalCases \/ SignalFinish \/ SignalClosing \/ SignalElsewhere \/ SignalLate

Next == Suite \/ Engine \/ WriteFile(1) \/ WriteFile(2) \/ Announce \/ Signals

Spec == Init /\ [][Next]_vars

----------------------------------------------------------------------------
(* Properties                                                               *)

Emitted(type, k) == {i \in DOMAIN events : events[i].type = type /\ events[i].of = k}
Has(type) == \E i \in DOMAIN events : events[i].type = type

(* Types; the number of evaluations that came to an end is that of those announced,
   but for the one whose announcement stops the suite. *)
TypeOK ==
    /\ pc \in Pcs
    /\ now \in 0 .. Evaluations /\ completed \in 0 .. now /\ cancelled \in BOOLEAN
    /\ collected \in SUBSET Cases /\ body \in {"ok", "interrupt", "exit"}
    /\ raised \in {"nothing", "interrupt", "exit", "error"}
    /\ platform \in [1 .. Evaluations -> {"none", "running", "completed", "incomplete"}]
    /\ artifact \in [1 .. Evaluations -> Artifacts]
    /\ events \in Seq(Events)
    /\ fatal \in {None, "import_error", "harness_error", "cancelled"}
    /\ exit \in {None, "0", "130", "user", "killed"}
    /\ signals \in 0 .. MaxSignals /\ stopped \in 0 .. Evaluations

OfEvaluation(i) == events[i].type \in {"evaluation_started", "case_completed", "evaluation_completed"}
Announced == {i \in DOMAIN events : events[i].type = "evaluation_completed"}

(* Two events of the stream, one of them later: their evaluations do not overlap, and the
   later one is after the start of its own and not after the completion of the other's. *)
InOrder(i, j) ==
    \/ /\ events[i].of < events[j].of
       /\ \E s \in Emitted("evaluation_started", events[j].of) : i < s /\ s <= j
    \/ /\ events[i].of = events[j].of
       /\ events[j].type # "evaluation_started"
       /\ events[i].type # "evaluation_completed"

(* The stream tells the truth about how far the suite came: the events of an evaluation
   follow its start and end with its completion, evaluations do not overlap, and
   suite_completed counts the evaluations announced as completed. *)
EventsFollowProtocol ==
    /\ \A i, j \in DOMAIN events : OfEvaluation(i) /\ OfEvaluation(j) /\ i < j => InOrder(i, j)
    /\ \A i \in DOMAIN events : events[i].type = "suite_completed" => events[i].of = Cardinality(Announced)

(* An evaluation announced as completed is on disk: both files, with every case that was
   announced, and marked final only when no case of it is missing. *)
AnnouncedIsOnDisk ==
    \A k \in 1 .. Evaluations : Emitted("evaluation_completed", k) # {} =>
        /\ artifact[k].run # None /\ artifact[k].cases # None
        /\ {events[i].arg : i \in Emitted("case_completed", k)} \subseteq artifact[k].cases
        /\ artifact[k].final => artifact[k].cases = Cases

(* A run file never stands alone: it points at the cases file beside it, also when the
   process is interrupted between the two writes. *)
RunFileHasCases == \A k \in 1 .. Evaluations : artifact[k].run # None => artifact[k].cases # None

(* The local file says "completed" only of a run the platform has as completed. *)
GreenIsCompleted ==
    \A k \in 1 .. Evaluations : artifact[k].run = "completed" => platform[k] = "completed"

(* The exit code corroborates the stream (runner.py:773, main): 130 follows a
   cancellation in the stream, 0 an end of the suite or a failure of the harness. *)
HonestExit ==
    pc = "exited" =>
        LET last == events[Len(events)] IN
        /\ exit \in {"0", "130"} => last.type \in {"fatal", "suite_completed"}
        /\ exit = "130" => last.arg = "cancelled"
        /\ exit = "0" => last.arg # "cancelled"

(* After SIGINT no further evaluation starts. *)
InterruptStopsSuite == now <= stopped

(* "Cancellation (SIGINT): finalize a partial incomplete artifact and exit 130"
   (runner.py:781): an interrupted process never exits as if all went well. *)
InterruptedExitsNonzero == pc = "exited" /\ signals > 0 => exit # "0"

----------------------------------------------------------------------------
(* The inductive invariant behind the theorems of RunnerProofs.              *)

Running == {"register", "cases", "finish", "closing", "write_first", "write_second", "announce"}
Writing == {"write_first", "write_second", "announce"}

(* The evaluation the process is at has not been counted. *)
CountInv == pc \in Running \cup {"counted"} => completed < now

(* What the engine raises fits how far it came, and the platform. *)
EngineInv ==
    /\ pc \in Running => now > 0
    /\ pc \in {"register", "cases"} => body = "ok" /\ raised = "nothing"
    /\ pc = "finish" => raised = "nothing" /\ (body = "ok" => collected = Cases)
    /\ pc \in Writing => raised \in {"nothing", "interrupt"}
    /\ pc \in Writing \cup {"closing"} /\ raised = "nothing" =>
          collected = Cases /\ platform[now] = "completed"

(* The files of an evaluation appear in order, and only once its run is over. *)
FileInv ==
    /\ \A k \in 1 .. Evaluations :
          k > now \/ (k = now /\ pc \in Running \ {"announce"}) => artifact[k].run = None
    /\ pc \in {"write_second", "announce"} => artifact[now].cases = collected
    /\ pc = "announce" => artifact[now].run = Status /\ artifact[now].final = Final

(* An interrupted process is on its way out. *)
InterruptInv ==
    IF signals = 0 THEN stopped = Evaluations
    ELSE /\ pc \notin {"discover", "next", "register", "cases"}
         /\ pc = "finish" => body # "ok"
         /\ pc = "closing" => raised # "nothing"
         /\ pc \in Writing => raised = "interrupt"

(* The exit code and the last event are chosen together. *)
ExitInv ==
    LET last == events[Len(events)] IN
    /\ Len(events) > 0
    /\ pc \notin {"flush", "exited"} => exit = None
    /\ pc = "fatal" => fatal # None
    /\ pc = "suite_done" => /\ last.type = "suite_completed"
                            /\ last.arg = IF cancelled THEN "cancelled" ELSE "done"
    /\ exit \in {"0", "130"} => last.type \in {"fatal", "suite_completed"}
    /\ exit = "130" => last.arg = "cancelled"
    /\ exit = "0" => last.arg # "cancelled"

RunnerInv ==
    /\ TypeOK /\ CountInv /\ EngineInv /\ FileInv /\ InterruptInv /\ ExitInv
    /\ GreenIsCompleted /\ RunFileHasCases /\ InterruptStopsSuite

(* What a file and the stream say of the cases of evaluation k fits. *)
OnDisk(k) ==
    /\ artifact[k].run # None /\ artifact[k].cases # None
    /\ artifact[k].final => artifact[k].cases = Cases
    /\ \A j \in DOMAIN events :
          events[j].type = "case_completed" /\ events[j].of = k => events[j].arg \in artifact[k].cases

(* Cases are collected when they are reported, and an evaluation is announced once it is
   on disk and before the next one starts. *)
DiskInv ==
    \A i \in DOMAIN events :
        /\ events[i].type \in {"case_completed", "evaluation_completed"} => events[i].of \in 1 .. now
        /\ events[i].type = "case_completed" /\ events[i].of = now /\ pc \in Running =>
              events[i].arg \in collected
        /\ events[i].type = "evaluation_completed" =>
              OnDisk(events[i].of) /\ (events[i].of = now => pc \notin Running)

(* The stream so far: nothing of an evaluation that was not started, nothing of the current
   one after its completion, and what suite_completed will count. *)
StreamInv ==
    /\ \A i \in DOMAIN events : OfEvaluation(i) =>
          /\ events[i].of <= now
          /\ events[i].type = "evaluation_completed" /\ events[i].of = now => pc \notin Running
    /\ pc \in Running => Emitted("evaluation_started", now) # {}
    /\ pc \in {"discover", "next", "suite_done"} \cup Running => Cardinality(Announced) = completed
    /\ pc = "counted" => Cardinality(Announced) = completed + 1
    /\ Has("suite_completed") => pc \in {"suite_done", "fatal", "flush", "exited"}
=============================================================================
