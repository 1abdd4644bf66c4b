-------------------------------- MODULE Upload --------------------------------
(***************************************************************************)
(* The life of a run's result after the evaluation (eval/results.py, class   *)
(* EvalRunResult): saved, loaded by another process, uploaded (again) to the  *)
(* platform through a PlatformTransport, by a process that may die at any     *)
(* point and be run again.  One process at a time works with the artifact.    *)
(*                                                                         *)
(* upload() is sequential: registration, one POST per row, completion.  The   *)
(* requests are those of module PlatformTransport, with its lost answers and  *)
(* its bounded retries; the scores in a row are those of module ScorePolicy.  *)
(***************************************************************************)
EXTENDS PlatformTransport, ScorePolicy

CONSTANTS
    CaseSeq,     \* the cases in the order of item_results
    RowChoices,  \* rows an evaluation may produce
    SpecChoices, \* scorer declarations an evaluation may run with
    FromRunner   \* the artifact on disk is the runner's run.json, not a save()

\* A row of a result, and a result: its rows, and whether an upload() of it has returned.
RowType == [error: BOOLEAN, scorerErrors: SUBSET Scorers,
            scores: Seq([name: Scorers, value: Values]), text: {"given", "absent"}]
DocType == [rows: [Cases -> RowType], uploaded: BOOLEAN]
Doc(r, u) == [rows |-> r, uploaded |-> u]

\* What the author of a scorer declares, each part or nothing.
Declaration == [name: Scorers, threshold: SUBSET Int,
                direction: SUBSET {"higher_is_better", "lower_is_better", "none"},
                valueType: SUBSET {"numeric", "categorical", "boolean"}]

ASSUME UploadAssumption ==
    /\ CaseSeq \in Seq(Cases)
    /\ \A c \in Cases : \E i \in DOMAIN CaseSeq : CaseSeq[i] = c
    /\ RowChoices \subseteq RowType
    /\ SpecChoices \subseteq Seq(Declaration)
    /\ \A declared \in SpecChoices : IsInjective([i \in DOMAIN declared |-> declared[i].name])
    /\ None \notin DocType
    /\ FromRunner \in BOOLEAN

VARIABLES
    rows,     \* what the evaluation computed: case -> its row
    specs,    \* the descriptors it ran with (scorer_specs)
    runKey,   \* its local_run_id
    mem,      \* the result in the process, or None
    file,     \* the artifact on disk, or None
    tmp,      \* its temporary sibling: "none", or "partial" while it is written
    pc,       \* where the process stands
    at,       \* the position in CaseSeq the upload has reached
    detail    \* platform: case -> the scores and the text of the stored row, or None

madeVars == <<rows, specs, runKey>>
fileVars == <<file, tmp>>
vars == <<madeVars, mem, fileVars, pc, at, detail, contrib, transportVars, post, platformVars>>

-----------------------------------------------------------------------------
(* Rows on the wire.                                                          *)

\* A row as module PlatformTransport sees it.
Item(row) ==
    LET named(S) == {row.scores[i].name : i \in S}
    IN [error        |-> row.error,
        scorerErrors |-> row.scorerErrors,
        scores       |-> named(DOMAIN row.scores),
        nonFinite    |-> named({i \in DOMAIN row.scores : NonFinite(row.scores[i].value)})]

\* ... and the rest of what is sent of it.
Detail(row) == [text |-> row.text, entries |-> Entries(row, specs)]

\* The rows of the runner's run.json have no input, output or expected value.
Stripped(row) == [row EXCEPT !.text = "absent"]

\* EvalRunResult.save and load, and the runner's artifact read by _from_runner_artifact.
SavedDoc(doc)  == [doc EXCEPT !.rows = [c \in Cases |-> SavedRow(doc.rows[c])]]
LoadedDoc(doc) ==
    [doc EXCEPT !.rows = [c \in Cases |-> IF FromRunner THEN Stripped(LoadedRow(doc.rows[c]))
                                          ELSE LoadedRow(doc.rows[c])]]

-----------------------------------------------------------------------------
(* The totals of a run from its rows, in place of the transport's counters.   *)

Count(P(_)) == Cardinality({c \in Cases : P(Item(rows[c]))})
ExactTotals ==
    [taskErrors   |-> Count(LAMBDA i : i.error),
     scorerErrors |-> Cardinality({p \in Cases \X Scorers :
                          LET i == Item(rows[p[1]]) IN p[2] \in i.scorerErrors \cup i.nonFinite}),
     scored       |-> Count(LAMBDA i : ~i.error /\ i.scores \ i.nonFinite # {})]

StatusOf(t) ==
    IF t.taskErrors > 0 \/ t.scorerErrors > 0 THEN "completed_with_errors" ELSE "completed"

\* The run as it should be: every row as the evaluation computed it, and the totals.
PlatformWhole ==
    /\ \A c \in Cases : results[c] = Payload(Item(rows[c])) /\ detail[c] = Detail(rows[c])
    /\ totals = ExactTotals
    /\ runStatus = StatusOf(ExactTotals)
    /\ runs = {runKey}

-----------------------------------------------------------------------------
TypeOK ==
    /\ TransportTypeOK
    /\ rows \in [Cases -> RowType]
    /\ runKey \in RunIds
    /\ {mem, file} \subseteq DocType \cup {None}
    /\ tmp \in {"none", "partial"}
    /\ pc \in {"idle", "saving", "registering", "posting", "finishing"}
    /\ at \in 1 .. Len(CaseSeq) + 1
    /\ pc \in {"idle", "saving"} => callPc = "idle" /\ \A c \in Cases : post[c] = "none"

\* What the evaluation left on the platform: nothing (it did not report), or a run
\* with the rows that arrived.
EvaluationReported(stored) ==
    /\ runs = {runKey}
    /\ results = [c \in Cases |-> IF c \in stored THEN Payload(Item(rows[c])) ELSE None]
    /\ detail = [c \in Cases |-> IF c \in stored THEN Detail(rows[c]) ELSE None]
    /\ LET counted(P(_)) == Cardinality({c \in stored : P(Item(rows[c]))})
           of == [taskErrors   |-> counted(LAMBDA i : i.error),
                  scorerErrors |-> Cardinality({p \in stored \X Scorers :
                      LET i == Item(rows[p[1]]) IN p[2] \in i.scorerErrors \cup i.nonFinite}),
                  scored       |-> counted(LAMBDA i : ~i.error /\ i.scores \ i.nonFinite # {})]
       IN totals = of /\ runStatus = StatusOf(of)

Init ==
    /\ rows \in [Cases -> RowChoices]
    /\ \E declared \in SpecChoices :
          specs = [i \in DOMAIN declared |-> Describe(declared[i])]
    /\ runKey \in RunIds
    /\ mem = Doc(rows, FALSE)
    /\ file = IF FromRunner THEN SavedDoc(mem) ELSE None
    /\ tmp = "none"
    /\ pc = "idle"
    /\ at = 1
    /\ contrib = [c \in Cases |-> None]
    /\ callPc = "idle" /\ tries = 0 /\ clientRunId = None /\ endStatus = None
    /\ sums = NoTotals /\ grown = FALSE
    /\ post = [c \in Cases |-> "none"]
    /\ \/ /\ runs = {} /\ runStatus = "none" /\ totals = NoTotals
          /\ results = [c \in Cases |-> None]
          /\ detail = [c \in Cases |-> None]
       \/ \E stored \in SUBSET {c \in Cases : Sendable(rows[c])} : EvaluationReported(stored)

-----------------------------------------------------------------------------
(* The artifact.                                                              *)

\* Mutant: the artifact itself is opened for writing.
SaveInPlace ==
    /\ pc = "idle"
    /\ mem # None
    /\ ~FromRunner
    /\ pc' = "saving"
    /\ tmp' = "partial"
    /\ file' = None
    /\ UNCHANGED <<madeVars, mem, at, detail, contrib, transportVars, post, platformVars>>

\* save() writes the temporary sibling ...
SaveBegins ==
    /\ pc = "idle"
    /\ mem # None
    /\ ~FromRunner
    /\ pc' = "saving"
    /\ tmp' = "partial"
    /\ UNCHANGED <<madeVars, mem, file, at, detail, contrib, transportVars, post, platformVars>>

\* ... and renames it over the artifact.
SaveReplaces ==
    /\ pc = "saving"
    /\ pc' = "idle"
    /\ tmp' = "none"
    /\ file' = SavedDoc(mem)
    /\ UNCHANGED <<madeVars, mem, at, detail, contrib, transportVars, post, platformVars>>

\* load(), in this process or in the next one.
Load ==
    /\ pc = "idle"
    /\ file # None
    /\ mem' = LoadedDoc(file)
    /\ UNCHANGED <<madeVars, fileVars, pc, at, detail, contrib, transportVars, post, platformVars>>

\* The process dies, wherever it stands; what a request did to the platform stays.
Crash ==
    /\ mem' = None
    /\ pc' = "idle"
    /\ at' = 1
    /\ contrib' = [c \in Cases |-> None]
    /\ callPc' = "idle" /\ tries' = 0 /\ clientRunId' = None /\ endStatus' = None
    /\ sums' = NoTotals /\ grown' = FALSE
    /\ post' = [c \in Cases |-> "none"]
    /\ UNCHANGED <<madeVars, fileVars, detail, platformVars>>

-----------------------------------------------------------------------------
(* upload().                                                                  *)

\* A transport is built, unless the caller passes one it has used before, and the
\* run is registered under local_run_id.
UploadBegins ==
    /\ pc = "idle"
    /\ mem # None
    /\ CreateRun(runKey)
    /\ pc' = "registering"
    /\ at' = 1
    /\ UNCHANGED <<madeVars, mem, fileVars, detail>>

Registered ==
    /\ pc = "registering"
    /\ callPc = "created"
    /\ callPc' = "idle"
    /\ pc' = "posting"
    /\ UNCHANGED <<madeVars, mem, fileVars, at, detail, contrib, tries, clientRunId, endStatus,
                   sums, grown, post, platformVars>>

\* The next row is built and handed to the network.
PostBegins ==
    /\ pc = "posting"
    /\ at <= Len(CaseSeq)
    /\ post[CaseSeq[at]] = "none"
    /\ Sendable(mem.rows[CaseSeq[at]])
    /\ SubmitPost(CaseSeq[at])
    /\ UNCHANGED <<madeVars, mem, fileVars, pc, at, detail, contrib, transportVars, platformVars>>

\* Its request is applied and answered, lost on the way, or its answer is lost.
PostRequest ==
    /\ pc = "posting"
    /\ at <= Len(CaseSeq)
    /\ LET c == CaseSeq[at]
           item == Item(mem.rows[c])
       IN \/ PostNotApplied(c) /\ UNCHANGED detail
          \/ PostAnswerLost(c) /\ UNCHANGED detail
          \/ PostReturns(c, item) /\ UNCHANGED detail
          \/ PostApplied(c, item) /\ detail' = [detail EXCEPT ![c] = Detail(mem.rows[c])]
    /\ UNCHANGED <<madeVars, mem, fileVars, pc, at>>

NextRow ==
    /\ pc = "posting"
    /\ at <= Len(CaseSeq)
    /\ post[CaseSeq[at]] = "ok"
    /\ at' = at + 1
    /\ UNCHANGED <<madeVars, mem, fileVars, pc, detail, contrib, transportVars, post, platformVars>>

\* Every row is on the platform: the run is completed, its status derived.
UploadCompletes ==
    /\ pc = "posting"
    /\ at = Len(CaseSeq) + 1
    /\ FinishRun(None)
    /\ pc' = "finishing"
    /\ UNCHANGED <<madeVars, mem, fileVars, at, detail>>

\* The call is over.  The transport goes with it, unless the caller made it and
\* keeps it for the next call.
CallEnds ==
    /\ pc' = "idle"
    /\ at' = 1
    /\ callPc' = "idle"
    /\ post' = [c \in Cases |-> "none"]
    /\ contrib' \in {contrib, [c \in Cases |-> None]}
    /\ UNCHANGED <<madeVars, fileVars, detail, tries, clientRunId, endStatus, sums, grown,
                   platformVars>>

UploadReturns ==
    /\ pc = "finishing"
    /\ callPc = "completed"
    /\ mem' = [mem EXCEPT !.uploaded = TRUE]
    /\ CallEnds

\* Mutant: a row that cannot be sent is skipped.
UploadSkips ==
    /\ pc = "posting"
    /\ at <= Len(CaseSeq)
    /\ \/ post[CaseSeq[at]] = "failed"
       \/ post[CaseSeq[at]] = "none" /\ ~Sendable(mem.rows[CaseSeq[at]])
    /\ at' = at + 1
    /\ UNCHANGED <<madeVars, mem, fileVars, pc, detail, contrib, transportVars, post, platformVars>>

\* A row that cannot be built or was not delivered, a registration or a completion
\* that failed: the exception leaves the run as it stands.
UploadRaises ==
    /\ \/ callPc \in {"createFailed", "completeFailed"}
       \/ /\ pc = "posting"
          /\ at <= Len(CaseSeq)
          /\ \/ post[CaseSeq[at]] = "failed"
             \/ post[CaseSeq[at]] = "none" /\ ~Sendable(mem.rows[CaseSeq[at]])
    /\ UNCHANGED mem
    /\ CallEnds

\* The attempts of the registration and the completion.
LifecycleCall ==
    /\ CreateAttempt \/ SumContributions \/ CompleteAttempt
    /\ UNCHANGED <<madeVars, mem, fileVars, pc, at, detail>>

UploadStep ==
    \/ Registered \/ PostBegins \/ PostRequest \/ NextRow \/ UploadCompletes
    \/ UploadReturns \/ UploadRaises \/ LifecycleCall

Next ==
    \/ SaveBegins \/ SaveReplaces \/ Load \/ Crash
    \/ UploadBegins \/ UploadStep

Spec == Init /\ [][Next]_vars

-----------------------------------------------------------------------------
(* Properties                                                                 *)

\* An upload that returned left the run whole on the platform: every row as the
\* evaluation computed it, totals counted once per case, the derived status; rows
\* dropped by the evaluation are repaired, whatever was lost, retried, saved, loaded
\* or cut off by a crash before.
UploadedIsWhole == mem # None /\ mem.uploaded => PlatformWhole

\* "idempotent" (results.py:375): once a run is whole, nothing an upload does, of the
\* result or of its artifact, completed or cut off, changes what the platform holds.
UploadIsIdempotent == [][PlatformWhole => PlatformWhole']_vars

\* A crash while the artifact is saved again never leaves it unreadable: once saved it
\* can be loaded, with the scores the evaluation computed.
ArtifactSurvives ==
    [][file # None => file' # None /\ LoadedDoc(file').rows = LoadedDoc(file).rows]_vars

\* What the entries of the stored rows say of a metric.
StoredEntry(p) == detail[p[1]].entries[p[2]]
StoredPlaces(m) == Places([c \in Cases |-> [scores |-> detail[c].entries]], m)
StoredTally(m) ==
    [passed |-> Cardinality({p \in StoredPlaces(m) : StoredEntry(p).passed = "pass"}),
     judged |-> Cardinality({p \in StoredPlaces(m) : StoredEntry(p).passed # "none"})]
StoredAggregate(m) ==
    LET values == {p \in StoredPlaces(m) : StoredEntry(p).field \in {"bool_value", "numeric_value"}}
    IN [sum   |-> SumFunction([p \in values |-> StoredEntry(p).n]),
        over  |-> Cardinality(values),
        count |-> Cardinality(StoredPlaces(m))]

\* "the local pass-rate equals the platform's" (results.py:457), and the local mean does
\* not "disagree with the wire" (results.py:163): what summary() counts, in memory or
\* after a reload, is what the entries of the stored rows say.
SummaryIsThePlatforms ==
    mem # None /\ (\A c \in Cases : detail[c] # None) =>
        \A m \in Scorers : /\ PassTally(mem.rows, specs, m) = StoredTally(m)
                           /\ Aggregate(mem.rows, m) = StoredAggregate(m)

=============================================================================
