# Verification of the traceroot Python SDK

TLA+ modules for the evaluation engine of the SDK and its reporting transport, for the results of a run
and their upload, for dataset publication, for the evaluation runner, for the tracing client and the tree
of spans it records, for the LLM judge and for the Claude agent instrumentation; TLC configurations that
check them on small instances; and proofs, checked by TLAPS, of their main properties for every value of
their constants.

Paths below are relative to the repository: `engine.py` and the like are under
`src/traceroot/eval/`, the rest under `src/traceroot/`.

## 1. The system

The SDK has two halves that meet in the spans: *tracing* (a client, its span processor, decorators and
instrumentors of agent frameworks) and *evaluation* (datasets, an engine that runs a task and scorers
over cases, a transport that reports the run to the platform, results that can be saved and uploaded
later, and a runner process that a harness starts).

| Component | State it keeps | Operations | Module |
|---|---|---|---|
| evaluation engine, `engine.py` | main and case coroutines, the semaphore, a process-wide thread pool, the results so far | `evaluate`, `run`, `run_async`, `_run_async_inner`, `_run_case`, `_await_or_run`, `_bounded` | EvalRun |
| reporting transport, `platform.py`, `transport.py` | `_contrib`, the idempotency key, retries | `create_run`, `record_item_result`, `finish_run` | PlatformTransport |
| run results and upload, `results.py` | the rows of a run, the artifact on disk, the upload state | `case_status`, `aggregate_scores`, `summary`, `save`, `load`, `upload` | Upload, ScorePolicy |
| datasets, `types.py`, `canonical.py`, `ids.py` | cases by id, archived ids, the versions it is based on and pinned to | `add`, `upsert`, `update`, `archive`, `remove`, `snapshot`, `save`, `load`, `push` | DatasetSync |
| dataset synchronisation, `dataset_sync.py` | the push in progress | `push_dataset`, pulls | DatasetSync |
| evaluation runner, `runner.py`, `evaluation.py` | suite progress, collected cases, the event stream, two files per evaluation | `discover`, `run_suite`, `_run_one`, `write_artifacts`, `main` | Runner |
| scorers and judge, `scorers.py`, `judge.py` | declared policies; a judge's completion in progress | `describe_scorers`, `llm_judge`, its `run`, `_call`, `_default_complete` | ScorePolicy, Judge |
| client lifecycle, `client.py`, `__init__.py` | `_client`, its provider and processor, `_init_lock`, the integrations installed | `initialize`, `get_client`, `shutdown` | Tracing, Judge |
| span processor, `transport/span_processor.py` | marked local spans, redact function, path maps | `on_start`, `on_end`, sampling, `shutdown` | Tracing, SpanTree |
| decorators and context, `decorators.py`, `context.py`, `update.py` | local-run depth, the current span, suspended generators | `@observe` on functions and generators, span updates | SpanTree, Tracing |
| Claude agent instrumentation, `instrumentation/claude_agent_sdk.py` | per-turn state: open LLM, tool and subagent spans | message engine, `query`, client `query`/`receive_response`/`disconnect` | ClaudeAgent |
| instrumentation registry, `instrumentation/` | installed instrumentors | `initialize_integrations` | Judge |
| progress, provenance, git context, configuration | none that others read | presentation, environment lookups | not modelled |

How they interact: the runner calls the engine and watches it through hooks; the engine publishes a
drifted dataset through the synchroniser, registers the run through the transport, calls the user's
task and scorers on its loop or in the pool, and posts one row per case from worker threads, which the
completion then summarises; a result that was saved is uploaded through the same transport by a later
process; the engine opens a span per case, task and scorer, and `local=True` runs tell the tracing half to
keep its spans inside the process; a judge is a scorer that calls a provider and asks the client which
integrations already trace it; instrumentors create spans from the streams of agent SDKs.

### What is hard, and what makes it correct

* **Engine and transport.** Python threads cannot be cancelled: a case whose deadline passes leaves its
  call behind in a pool other runs share. `asyncio.gather` raises at the first failure and leaves the
  siblings running. The row of a case and the totals of the run are computed from different data and sent by
  different threads; any answer may be lost; only lifecycle requests are retried; an interrupt may arrive at
  every await. *Correct* means: nothing is lost silently, a row never contradicts its status, the totals
  agree with the rows or claim less, the terminal status says whether the cases were gathered, an open run
  is announced, a retry creates no second run, no call of a dead case starts late, and with a timeout the
  evaluation ends whatever user code does.
* **Results and upload.** An upload is a registration, a POST per row and a completion, of a run that may
  be on the platform in part or whole; it stops at the first row that fails; the process may die anywhere
  and start again from the file, or upload once more through the transport it has. The rules for what a score
  means are written three times. *Correct*: an upload that returned left the run whole, a whole run stays
  as it is, a file that was good stays good, and the local summary counts what the platform shows.
* **Datasets.** The pin of a dataset, the base of a push and the record of the pinned content are three
  fields that different calls move, with edits in between; a push is up to five requests and another writer
  may publish between any two. *Correct*: no update of the other writer is undone, a reported upload is the
  local content under its name, unchanged content makes no version, a declined push changes nothing, a run
  pins a version that holds what it scored.
* **Runner.** SIGINT may arrive between any two steps; inside `asyncio.run` it is a cancellation, outside
  an exception. *Correct*: the event stream, the files, the platform and the exit code tell one story.
* **Tracing.** The client comes up lazily from any thread or through `initialize`, on a provider of its own
  or the host's, is shut down, and forgets. *Correct*: one export per span, redacted when asked, never for
  local code.
* **Spans and judges.** A span's path is looked up in a bounded map of open spans; tasks outlive the
  spans they were spawned in; generators are left, closed or dropped half-way; some are closed by the event
  loop only. A judge makes a span of its own iff no integration will. *Correct*: paths are the ancestry, every
  span ends, a completion has one LLM span and is priced once.
* **Claude agent.** Messages of an orchestrator and several subagents share one stream, with or without
  ids, task events come in any order, streams are abandoned. *Correct*: every span ends once and no later
  than its turn, hangs where it belongs and holds one turn; a response is traced in the turn that asked.

`PROJECT.json` lists each hazard at its line with the properties that watch it.

## 2. Plan

1. PlatformTransport, EvalRun composed over it, and ReportedRun, the contract it implements: done.
2. EvalRunProofs and EvalTotalsProofs (types, nine invariants, refinement of the contract, the safety half of
   `EvaluationEnds`): done.
3. DatasetSync, ClaudeAgent, Runner, Tracing, each with its divergences, and their proofs; WorkingCopy, what a dataset
   promises, and the refinement DatasetSync => WorkingCopy: done.
4. Upload over PlatformTransport with ScorePolicy, crashes and repeated uploads, and its proofs, the runner's artifact
   included: done.
5. SpanTree, and Judge composed over it, with their proofs and the refinement Judge => SpanTree: done.
6. Left: the list mode, filters and sampling of the runner; the attributes that `update_current_span` and the
   message engine write; the batch queue of the span processor with `flush`.

## 3. The modules

No module uses a RECURSIVE operator. The MC modules name model values, sequences and symmetry sets and
define nothing of the system. Operators headed "Mutant" are plausible wrong versions of the operator that
follows them; no specification uses them.

### PlatformTransport and EvalRun (with ReportedRun)

*PlatformTransport* is the reporting transport and the three endpoints it calls. It has the state of
`_contrib`, of the thread of the lifecycle call, of one posting thread per case, and the platform's
run, rows and totals. A lifecycle request (`CreateAttempt`, `CompleteAttempt`) is applied and answered, applied with
its answer lost, not applied, or refused; `RetryOr` is `_request_with_retry`. A result post has the
same outcomes without a retry; its contribution to the totals enters `_contrib` only when the answer
arrives (`PostReturns`). `SumContributions` are the three passes of `finish_run` over a dictionary that
other threads may grow: a pass may then raise. The platform is external; it is read off the requests: get-or-create of
a run by its client run id, upsert of a row, last completion wins, rows accepted after completion.

*EvalRun* is one run. The grain of an action is the code between two awaits.

| Actions | Code |
|---|---|
| `StartRun`, `CreateReturns`, `CreateRaises` | registration in `_run_async_inner`, with the hook and the reporter that run between it and the `try` |
| `Acquire`, `StartTask`, `TaskReturns`, `ScorerReturns`, `CaseCompletes` | `_run_case` with its semaphore, hooks, scorers in order, report |
| `Timeout` | `_bounded` and its shared deadline: a queued call is withdrawn, a running sync call keeps its thread, a coroutine settles or swallows its cancellation |
| `PoolStart`, `OrphanReturns`, `OldOrphanReturns` | the process-wide pool, with threads still held by earlier runs |
| `GatherReturns`, `GatherRaises` | `asyncio.gather` without `return_exceptions` |
| `FinishReturns`, `FinishRaises` | the `finally` that completes the run |
| `InterruptCreate`, `Interrupt`, `InterruptFinish` | a cancellation of the main task at each of its awaits |
| `TeardownCancels`, `LoopCloses` | what `asyncio.run` does afterwards: it waits for every coroutine on the loop (`AwaitedAtClose`) but those `_abandon` took off it (`Runaway`) |

Abstractions: a scorer yields at most one score; a score is finite or not; a result is a record of an
error flag and sets of scorers; the queue of the pool is a set, so the pool takes calls in any order,
its own included; a transport call whose thread had not begun may be withdrawn by a cancellation. Assumed of the
user's coroutines: one that asyncio.run cancels ends by it. At its deadline it may swallow the cancellation; then it is
abandoned, and nothing is assumed of it any more.

*ReportedRun* is the contract, without threads, retries, pools or deadlines: registered once, rows stored
or counted as missed, one terminal status, a status other than "incomplete" only when all are accounted for, a
result only after a terminal status, and nothing after a returned result. `KeepsContract` is the
refinement (`Contract == INSTANCE ReportedRun WITH ...`).

### Upload and ScorePolicy

*ScorePolicy* holds the operators: how a declared policy is described, which descriptor owns a score (`Owner` in
the transport and the runner, `LocalOwner` in the result), its verdict (`ScorePassed`, `ScoreVerdict`), its entry
on the wire, how a value is written and read back, and the counts of `summary()`, whose sum is a fold over the set
of scores (`Aggregate`). A value is a kind (bool, number, an integer beyond floats, non-finite, text, text that
spells a non-finite number) and a number.

*Upload* extends PlatformTransport: one result, computed by an evaluation that reported nothing or any
part of it, in the memory of a process and in an artifact on disk. `SaveBegins` and `SaveReplaces` are
the temporary sibling and its rename, `Load` reads the artifact, `Crash` ends the process at any point,
and `UploadBegins` to `UploadReturns`/`UploadRaises` are `upload()` request by request. A transport the
caller passes may be used again with the contributions it has. With `FromRunner` the artifact is the
runner's `run.json`. The scorers of a run are a sequence of `Declaration`s with distinct names (the engine refuses
duplicates, engine.py:693-708). `StoredTally` and `StoredAggregate` are what the platform's own entries say of a
metric, in the terms of `summary()`. One process at a time works on an artifact.

### DatasetSync (with WorkingCopy)

One dataset, `cases`, `archived`, the two version fields (`base`, `pin`), the process's memory of the
pinned content (`remembered`, `_PINNED_REVISION`), one push in progress (one action per request), the
server's versions, and another writer who may publish (`OtherPublishes`) and, as every push of the SDK does, name the
dataset anew (`OtherNames`) at any time. `Upsert` adds a case under an id of the caller's or changes the one that has it,
archived or not. `Evaluate` is `_auto_transport` with
`_auto_publish`: it publishes when there is no pin or the content drifted from what is remembered, and
registers a run; `Reload` is `save` and `load`, which keep the pin and forget the record. The id of a case
is its input and an occurrence (`_content_id`); a revision is equality of active contents. The platform
accepts a version iff its base is the current one and puts the sent cases into that base; a removed case
therefore stays on the server (engine.py:661-663). `outcome` and `run` are forgotten at the next use of the
dataset; `edited`, `explicit`, `touched` and `renamed` (the other writer named the dataset after this push did) are history,
read by the properties only.

*WorkingCopy* is what all this promises, without requests, answers, runs or names: a copy that stands on a version of a
history others extend too. `Edit` changes one case, `CheckOut` and `Recognise` make it stand on a version that is there,
`Commit` publishes, in one step and only from the latest version, that version with what was edited here since, and
`OtherCommits` is the other writer. The author of a commit may not be told of it. `KeepsCopy` is the refinement
(`Copy == INSTANCE WorkingCopy WITH copy <- Active, stands <- Stands`, where a dataset stands on its base or, without
one, on its pin): a push is several requests, each of which may be lost, and is a commit or nothing.

### ClaudeAgent

The message engine `_QueryState` (open LLM span per context, tool spans, subagent spans, and `Running`, the
subagents that have not ended, in the order of their spans), the one-shot `query()` generator and the wrappers
of one client, whose turn one call sends and another reads. Spans are a sequence of records with a parent index
and a count of `end()` calls. `Breaks` leaves a stream, `Closes` is the cleanup the event loop gives it at any later
step, in whatever turn the client has by then. `Parents` is what `otel_context.get_current()` may name where a turn
starts: nothing, or the query span of a stream that is open, abandoned or closed. `failed` and `cut` are history: the turns
whose query or stream raised, and those that the cleanup of another stream ended; the properties of a turn make their
exception for `cut` and for nothing else.

Assumed: calls on one client follow one another, and none is made while a stream of the client is read (`MayCall`; an
abandoned stream is no obstacle); a message comes from the orchestrator or a subagent heard of (`Heard`); tool ids do not
repeat in a turn (`Fresh`); one tool block per message; a client that is kept alive. Left out: attributes, usage,
patching, and a context left behind by streams that were exhausted in another order than they were opened in. Two leaks lie
outside: a second call with an active tool id replaces its entry, and a client dropped without `disconnect()` takes its
state with its weak key; in both cases spans are never ended.

### Runner

The main thread of the runner process at the grain SIGINT can tell apart: discovery, the phases of
`evaluation.run()` (registration, cases, completion, closing of the loop), the two file writes, the
announcement, the end of the suite, `main`'s handlers and its `finally`. `asyncio.run` (Python 3.11 and later)
is external: it turns the first SIGINT into a cancellation of its main task. Task and scorer errors, which
change only a file's wording of "completed", sampling, filters, the list mode and `no_artifact` (which writes nothing
before the announcement) are left out. A signal between the event that an evaluation has started and the `try` around its run
goes to `main`'s handlers (`SignalElsewhere`), one inside it to a partial evaluation (`SignalRegister`).

### Tracing

`initialize` under `_init_lock`, `get_client` without it, `TracerootClient` in the three steps other
threads can come between (create, find a provider and attach, assign), `shutdown`, OpenTelemetry's
provider that is set once, the processors each provider hands spans to, the sampler and the marks of local spans. Local
runs are a process-wide depth, which keeps `@observe` from bringing up a client; whether a span is local is a matter of
its context instead, so a thread that outlives its local run still starts local ones. `Startup` says that the client comes up before the first span and in one way at a time, as the
docstring of `initialize` asks; without it the lazy path races with `initialize`.

### SpanTree and Judge

*SpanTree* has tasks, each with the current span (OpenTelemetry's context variable) and the stack of observed
bodies it executes. `Call`, `FirstNext`, `Yields`, `Resumes`, `Returns`, `Throws`, `Unwinds`, `Abandons` and `Finalises` are the
wrappers of `@observe`; a generator's span is not made current; an asynchronous generator that is left
half-way is closed by the event loop's finaliser. `Starts` and `Ends` are `on_start` and `on_end` with the map of
paths, which drops its oldest entry beyond `PathMapMax`. `ForeignCall` is a span of an integration whose context has
only the identity of its parent.

*Judge* extends it: a judge decides from `_client._instrumented` and the model id whether its completion is
traced, makes its own span or not, asks the library, which makes a span if it is patched, records the tokens
and parses the answer. `Installs` and `Initialized` are `initialize_integrations` and the assignment
that publishes the client. What a judge does to spans are actions of SpanTree, so Judge implements it
(theorem `JudgesAreObserved`).

## 4. The runs

| Run | Question | Size |
|---|---|---|
| run_evaluation | Do rows, totals, status and result agree under deadlines, a full pool, aborting code and an interrupt? Is `IInv` invariant, and the contract kept? | 2 cases, 2 sync scorers, 1 pool thread, 2 keys, 2 attempts, 1 interrupt, a caller's loop |
| run_ends_timed | Does an evaluation with a timeout end although user code may not? | 2 cases, a coroutine task, 1 sync scorer, 1 thread, 1 old orphan, 1 interrupt, own loop, fair |
| run_upload | Does an upload that returns leave the run whole and a whole run alone? Do file and summary agree with it? | 2 cases of seven kinds of rows, 3 metrics, three declarations, 2 keys, 2 attempts |
| run_upload_artifact (violation) | Is the upload of a runner's artifact idempotent? | the same with `FromRunner` |
| run_dataset | Are updates of another writer kept, idle versions avoided, uploads and pins true? Is a dataset a WorkingCopy? | 1 input twice (2 ids), 1 value, 2 names, 3 versions, reloads, 518 thousand states |
| run_dataset_pin (violation) | Does every run pin a version that holds what it scored? | 2 ids, 2 values, 2 versions |
| run_runner | Do stream, files, platform and exit code agree under SIGINT at any step? | 3 evaluations, 2 cases, 2 signals |
| run_runner_exit (violation) | Does an interrupted process ever exit 0? | 2 evaluations |
| run_tracing | With the client up first: one export per span, redacted as asked, local spans never? | 2 threads, 3 spans, 2 clients, 3 calls, 2 local runs at a time |
| run_tracing_lazy (violation) | Does redaction apply when `@observe` races `initialize`? | 2 threads, 1 span |
| run_spans | Are paths the ancestry, does every span end, has a completion one LLM span and one price? | 2 tasks, 3 spans, a map of 1, judges on one task, one integration, fair finalisers |
| run_claude | Do spans end once, with their turn, in the right place, and are responses traced? | 2 agents, 1 message id, 2 readers, 2 turns, 3 messages, 2.27 million states |

Why the bounds are enough to be interesting. Two cases with one pool thread are what queueing, a gather that
leaves a sibling, and a post in flight during the completion need; two scorers put the deadline between
scorers; two attempts distinguish a retry from the last attempt; one old orphan fills the pool; on a caller's loop the
cases outlive the evaluation. In run_upload one row can be stored and the other lost, a row of one score meets a row of
two (which resolve owners differently), and every kind of value occurs; three declarations tell a lone
scorer, two scorers and a categorical one apart. Three versions let another writer publish before and
after a push, two ids distinguish an archived case from a removed one, two names a delivered name from an undelivered
one, of this writer or the other; edits of a value in place are covered by run_dataset_pin, which has two values. Two agents are what nesting and
misattribution need; two readers and two turns what the late cleanup of an abandoned stream needs to cut a live turn. A
task that is a coroutine with a scorer that is a function puts both kinds of runaway work, abandoned and orphaned, before one close of the loop. Two signals
reach the handlers of the first. Two clients are what a race creates. A path map of one entry overflows with two
open spans; the theorem covers any capacity.

Deadlock is checked in the EvalRun, DatasetSync and Upload runs (where an evaluation ends, `Over` is an explicit
stutter; a process can always die or be started again). It is off for Runner (the process exits), ClaudeAgent, Tracing and
Judge (bounded messages, spans and calls run out).

**Fairness.** run_ends_timed assumes `EngineFairness`: weak fairness of the main coroutine,
of each case's coroutine, of the thread of a lifecycle call and of each post (requests have socket timeouts), of a
free pool thread taking a queued call, and of the deadline firing. Nothing is assumed of the user's
callables, of threads held by earlier runs, or of the user: `TaskReturns`, `ScorerReturns`, `OrphanReturns`,
`OldOrphanReturns` and the interrupts have none. run_spans assumes weak fairness of `Finalises`, the event loop's
hook for generators that were dropped; nothing of user code.

## 5. What the runs found

Four runs violate what the repository says of itself:

1. **run_dataset_pin.** "a run must not pin a version that no longer describes what it scored"
   (platform.py:159). `Dataset.push` moves the pin without remembering its content, so push, edit, evaluate
   reports the pushed version.
2. **run_runner_exit.** "Cancellation (SIGINT): finalize a partial incomplete artifact and exit 130"
   (runner.py:781). SIGINT during a completion is raised as `EvalCompletionError`: fatal harness_error, no
   file, exit 0.
3. **run_tracing_lazy.** "redact must still apply" (`__init__.py`:102). `get_client` does not take the lock: a
   second, unredacted processor joins the first one's provider.
4. **run_upload_artifact.** "a run loaded back from this artifact is re-uploadable" (runner.py:493), and upload is
   "idempotent" (results.py:375). A run loaded from `run.json` has no payloads: its upload replaces the input, output and
   expected value of every row with nothing. Only that text is lost: scores, verdicts, errors, totals and status
   survive (theorems `ArtifactUploadsScores`, `ScoresUploadTwice`).

Met while modelling, reachable in the modules or just outside them, and without a run of their own:

* *Engine.* `create_run` is awaited before the `try` whose `finally` completes the run (engine.py:980 says
  a registered run is never left orphaned): an interrupt there, or an answer lost on the last attempt, leaves the run open and
  nobody is told; a hook `on_run_start` or a reporter that raises there does the same (`CreateRaises`). `OpenRunIsTold` covers runs whose cases were started. After `GatherRaises` the siblings go
  on: the completion need not be the last request of a run (engine.py:981), and the totals miss a row whose answer was lost, so
  they are a lower bound (`TotalsNotInflated`), exact only without losses (`CompletionIsExact`).
* *Results.* `upload` stops at the first row that fails and leaves its run open; an integer score too large for a
  float raises `OverflowError` in `_score_verdict` (results.py:193) and in the payload, so its row can never be sent. A string
  score spelled "NaN" comes back from disk as the float. `run.json` lacks the emitted metrics. `save` uses one
  fixed temporary name, so two processes saving the same artifact share it. The runner gives an infinite score a verdict (runner.py:285),
  the platform an error without one.
* *Datasets.* A pull sets `dataset_version_id` but not `base_version_id`: an explicit push of a pulled dataset conflicts
  even when nobody else wrote (types.py:393), and `evaluate(pulled.snapshot())` is refused (engine.py:623).
* *Runner.* SIGINT while `asyncio.run` closes its loop, after a successful completion, leaves "incomplete" on disk and
  "completed" on the platform (engine.py:986-990 wants them to agree). `SystemExit` in user code ends the process
  without a terminal event. Evaluations of one suite that share `out_run`/`out_cases` overwrite each other's files.
* *Tracing.* `shutdown()` leaves `_client` in place, so a later `initialize()` traces nothing, although its warning
  (`__init__.py`:112-114) advises that sequence. A host's provider hands an open local span to a processor that
  joins later, which exports it (`Startup = FALSE`). `_suppress_global_auto_init_depth` is process-wide.
* *Spans.* A generator called with arguments it does not take leaves an open span (`FirstNextFails`). The span of
  an asynchronous generator that is left ends when the event loop gets to it. The comment at span_processor.py:295-297
  says that the bounded map removes the race of a parent's end with a child's start; `on_end` pops the entry, and what
  saves the path is the fallback to the parent's attributes, which a context with only the parent's identity does not have.
* *Judge.* The integration is chosen from the lower-cased model id, the library from the id as it is spelled (judge.py:81
  says "the same way"): "Claude-..." goes to OpenAI, traced or not by Anthropic's integration (`Capitals`). Libraries are patched before the
  client lists them: a judge in between has two LLM spans and its tokens twice (`SetUpFirst = FALSE`). So has a custom
  `complete` that calls a traced library, except that it reports no tokens of its own.
* *Claude agent.* The cleanup of an abandoned `receive_response()` ends the turn the client has *then*
  (claude_agent_sdk.py:677), although "each query()/receive_response() turn gets its own root span" (line 572). An
  ordinary `break` followed by the next `client.query()` is enough, since asyncio closes the generator in a later
  iteration of its loop. If that turn has not been read yet, its response is untraced. If it is being read, the spans it opens from then
  on are never ended, its table of subagents is empty, so that a late event starts a second span of one, and an error
  of its stream is not shown. A second stream read in one turn, when the first was abandoned, meets the same. The four properties state
  the extent of it: `ResponseIsTraced` holds unless an earlier stream of the client was abandoned and closed (`Overtaken`);
  `TurnEndsWhole`, `OneSpanPerSubagent` and `FailureIsShown` hold of every turn that was not `cut`. Nothing but such a cleanup
  cuts a turn.
* *Progress.* In a terminal too narrow for its anchor `_fit` trims the anchor from the right, so the counts go first, although its
  comment says it keeps them; a stream that closed early silences the animated line, not the plain ones.

## 6. What is proved

Assumptions: the ASSUMEs of the modules (`TransportAssumption`, `NoneAssumption`, `EngineAssumption`,
`UploadAssumption`, `DatasetAssumption`, `RunnerAssumption`, `TracingAssumption`, `SpanTreeAssumption`,
`JudgeAssumption`, `CADistinct`), each evaluated by TLC in the runs of its module. They fix types, and that None is
none of the values it stands beside; cases, scorers, attempts, pools, versions, evaluations, signals, threads,
spans, turns and messages are arbitrary. There is an idempotency key (a fresh uuid4), and the declared scorers of
an uploaded run have distinct names, since the engine refuses others (engine.py:693). Where a theorem needs more,
its statement says so: `PlainText` (no string score spells a non-finite number) for what an upload leaves on the
platform, with `~FromRunner` where the text of the rows is meant too, `Startup` of Tracing, `WellSetUp`
(integrations first, ids in lower case) of Judge; each is a condition whose failure is
described in section 5.

No property alone is inductive, and every proof has the shape: an invariant that is, a lemma per conjunct or per
action that a step preserves it, and the properties from it.

**EvalRunProofs.** That a returned result accounts for every case needs that a
case is done only after its post settled, that the completion was begun only when all were done, and that
the status sent is the one decided then. `IInv` is the conjunction of

* `TypeOK`;
* `ReportInv`: a case, its posting thread and its row agree;
* `ResultInv`: no error while a case is called, no scores beside an error, a stored row is the payload of the final result;
* `RegisteredInv`: nothing of a case happens before the run is registered under its one key;
* `OutcomeInv`: what the outcome says of the body and of the cases;
* `CompletionInv`: the status being sent, and the one stored, say whether the cases were gathered.

From `[]IInv` follow `TypeCorrect`, `NothingLostSilently`, `ErroredNotScored`, `HonestStatus`, `OpenRunTold`
and `OneRunOnly`, and, with a lemma per group of actions, `ImplementsContract`: every step of EvalRun is a
step or a stutter of ReportedRun.

**EvalTotalsProofs** adds `QueueInv` (a queued call is awaited, unless the body failed: `NoCallIsStale`),
`MatchInv` (a recorded contribution is what the stored row says), `SumsInv` (the passes count subsets of the stored
rows, which only grow: `NoInflation`) and `ExactInv` (without losses each pass counts all of them:
`ExactCompletion`). Its last section proves what `EvaluationEnds` needs besides fairness. `ProgressInv` says that a
case which awaits its task or a scorer is one whose call is in the pool's queue or executing, that registration is
under way or settled, that no case is cancelled under a waiting gather or left on a closing loop, and that what executes while
the loop closes is in the pool or was abandoned, so that nothing awaits it; with it
`NobodyIsStuck`: until the run has ended, the main coroutine, a case or a thread of the transport can go on
(`MainReady`, `CaseReady`, `InFlight`, `CallInFlight`, the guards of those steps), or a case awaits user code,
whose deadline a timeout fires. `RunsGoForward` ranks the main coroutine, the lifecycle call with its retries, and
each case with its report: no step of anyone raises a rank (a call's rank may rise only as the main coroutine's
falls), and every step of the engine, its threads or a deadline lowers one. So such steps are finitely many, and
while a run with a timeout has not ended one can be taken; that a scheduled engine takes it is the fairness TLC
assumes in run_ends_timed.

**UploadProofs.** `ArtifactKept` rests on `Docs`: whatever is in memory or on disk, in either artifact, is the
evaluation's result or one that reads back as it does; `UploadTypes` adds the types of the rest. `UploadInv` adds
where the upload stands (`Control`), that an answered row is counted and a counted one stored as the evaluation
computed it (`Posted`, `Counted`), that the passes count the rows of the run (`Summed`), and that an upload which
has returned left the run whole but for the text a runner's artifact lacks (`Returned`, `Delivered`,
`WholeButText`). From it follow `UploadIsWhole` and `UploadTwice` for a saved result, and `ArtifactUploadsScores`
and `ScoresUploadTwice` for either artifact. `OneVerdict` says that local and sent verdicts of a finite score agree
when scorers have distinct names. `SummaryAgrees` rests on it and on `Sourced`: the entries of a stored row were
made of a row that reads back as the run's does. The places of a metric are then the same set on both sides, and
the two sums are folds of equal functions over it, so no induction over the scores is needed; it needs no
`PlainText`.

**DatasetProofs.** `DatasetInv` is `TypeOK` with `BaseInv` (what was not edited here is what the version the
dataset stands on holds), `PinInv` (what is remembered of the pin is true of it), `ReadInv` (what the requests of a
push have found out) and `DeclineInv` (nothing is sent before the confirmation). All seven properties of
run_dataset follow. The last, the refinement `PushesAreCommits`, adds `StandsInv` (a push under way is based on no
version or on the one the dataset stands on), and has one lemma per group of actions: edits, pulls and requests are
steps or stutters of WorkingCopy, and a publication that the server accepts is a `Commit` whether its answer
arrives or not.

**RunnerProofs.** `RunnerInv` is `TypeOK` with `CountInv` (the current evaluation is not counted yet), `EngineInv`
(what the engine raises fits how far it came and what the platform has), `FileInv` (files appear in order, for a run that
is over), `InterruptInv` (after a signal the process is on its way out: the fact without which
`InterruptStopsSuite` is not preserved) and `ExitInv` (exit code and last event are chosen together). From it follow
`RunnerTypes`, `InterruptStops`, `FilesPaired`, `GreenMeansCompleted` and `ExitIsHonest`; `AnnouncedOnDisk` adds
`DiskInv`, which relates every event of the stream to the files, and `StreamFollowsProtocol` adds `StreamOK`.

**TracingProofs.** With `Startup` one client is ever constructed, by one thread, before any span (`OneClient`,
`ClientFirst`); a processor has marked every open local span it saw the start of (`Marks`). From these follow
`SpansExportedOnce`, `SpansRedacted` and `LocalSpansStay`.

**SpansProofs.** `TreeInv` relates the spans, the map, which holds only open ones, and the bodies on the stacks:
each is executed by one task (`OneBody`), a parent is older than its child, and a path is cut only where the
history says so. `PathsAreRight` holds for any capacity of the map. `Held` says that a running span's body is on
the stack of a task, and that a task that is gone has an empty stack; so `OnlyTheLoopIsAwaited`: a span whose body
is over has ended or is with the event loop's finaliser. `EndedIsEnded`: a span's life has one direction. What
`EverySpanEnds` adds to the two is the fairness of the loop. `JudgesAreObserved` (Spec => TreeSpec) maps every step
of a judge to a step of the tree, so the tree's theorem holds with judges. `JudgeInv` adds what is known of a
completion at each of its steps (`Stage`, `OnTop`) and that integrations are settled before there is a judge; from
it follow `OneSpanPerCompletion` and `TokensOnOneSpan`.

**ClaudeAgentProofs.** `AgentInv` has, per turn, the tables of `_QueryState` pointing at spans of their kind
(`TablesInv`), the open spans of a live turn and no others unended (`EndsInv`), one span per subagent (`TasksInv`),
and tool calls under the LLM span that asked (`CallsInv`); per stream the turn it reads (`ReadersInv`); and the
client's turn (`ClientInv`), which is the one `query()` started, or none when that one was cut (`Overtaken`). A turn is live,
cut or over (`Phase`), and what is known of its spans depends on which. It gives `TurnsEndWhole`, `SubagentsHaveOneSpan`, `AnswersSplit`, `FailuresAreShown`
and `ResponsesAreTraced`. With `NestInv` (a query span has no parent, the orchestrator's LLM spans hang under a
query span), kept step by step beside it, it gives `SubagentsAreSideBySide`.

**Only model-checked.** `EvaluationEnds` and `EverySpanEnds`: liveness under fairness is beyond the prover, as is
ENABLED, which fairness is defined by. Their safety halves are theorems (`NobodyIsStuck` and `RunsGoForward`;
`OnlyTheLoopIsAwaited` and `EndedIsEnded`). The violation runs have nothing to prove.

## 7. What is not modelled

* Presentation: `progress.py`, the wording of `summary()`, logging, the reporter. They hold no state another part reads.
* Content that no property tells apart: prompts, span attributes, usage beyond "reported or not", canonical
  encoding and hashing, clamping, the text that redaction changes, the scorer manifest, provenance and git
  metadata, configuration.
* Argument checks, which raise before any state changes.
* The list mode, filters, sampling, `no_artifact` and the local-only environment of the runner.
* The emitted metrics of a result, and the completion of an incomplete run by the upload of its artifact.
* Third-party code: instrumentors, the providers' libraries, OpenTelemetry's batch queue and exporter (and the
  `flush` that waits for it). What the SDK relies on is modelled where it relies on it, and marked external.
* The local and fake doubles of the transport and the synchroniser, which exist for tests.

Hazards without a property, each with its reason in `PROJECT.json`: the base of a pulled dataset (platform.py:862),
a repeated tool id or a dropped client (claude_agent_sdk.py:320), SIGINT while the loop closes (runner.py:662),
`initialize` after `shutdown` (client.py:246), the verdict of an infinite score (runner.py:285) and a score too large for a
float (platform.py:633). In each the code does what one would want a property to exclude; they are described in section 5.

Hazards whose property covers them in part, with a note that says which part is left: the double export of the racing
`get_client` and a processor that joins a host's provider late (both need `Startup = FALSE`), a string score that spells a
non-finite number (run_upload leaves it out), the metrics and the status of an uploaded artifact, a child that has
only the identity of an ended parent (`cut` in SpanTree), the stale list of integrations (`SetUpFirst`), and the order of the two
files of an artifact, which is a theorem (`FilesPaired`) and not a run.
