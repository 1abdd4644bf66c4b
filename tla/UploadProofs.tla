---------------------------- MODULE UploadProofs ----------------------------
(***************************************************************************)
(* Proofs about Upload and ScorePolicy.  For any number of cases, scorers   *)
(* and attempts, any order of losses, retries and crashes: an upload that   *)
(* has returned left the whole run on the platform, another one changes     *)
(* nothing, and a saved artifact stays loadable with the same scores.       *)
(***************************************************************************)
EXTENDS Upload, FiniteSetTheorems, TLAPS

-----------------------------------------------------------------------------
(* Scores.                                                                    *)

\* What is written of a value is read back as the value itself would be, and reading
\* changes nothing the second time.
LEMMA ValueRoundTrip ==
    ASSUME NEW v \in Values
    PROVE  /\ Written(v) \in Values /\ ReadBack(v) \in Values
           /\ ReadBack(Written(v)) = ReadBack(v) /\ ReadBack(ReadBack(v)) = ReadBack(v)
           /\ v.kind # "token" => ReadBack(v) = v
<1>1. ASSUME NEW k \in Kinds PROVE [v EXCEPT !.kind = k] \in Values /\ [v EXCEPT !.kind = k].kind = k
  BY DEF Values
<1>2. "token" \in Kinds /\ "nonFinite" \in Kinds
  BY DEF Kinds
<1>3. CASE v.kind = "nonFinite"
  <2>1. [[v EXCEPT !.kind = "token"] EXCEPT !.kind = "nonFinite"] = v
    BY <1>3 DEF Values
  <2> QED BY <1>1, <1>2, <1>3, <2>1 DEF Written, ReadBack, NonFinite
<1>4. CASE v.kind # "nonFinite"
  BY <1>1, <1>2, <1>4 DEF Written, ReadBack, NonFinite
<1> QED BY <1>3, <1>4

\* Under distinct names the first scorer of a name is the last one.
LEMMA OneOfAName ==
    ASSUME NEW D, NEW declared \in Seq(D), NEW name,
           \A i, j \in DOMAIN declared : declared[i].name = declared[j].name => i = j
    PROVE  FirstNamed(declared, name) = LastNamed(declared, name)
<1> DEFINE named == {j \in DOMAIN declared : declared[j].name = name}
<1>1. DOMAIN declared = 1 .. Len(declared) /\ Len(declared) \in Nat
  OBVIOUS
<1>2. {j \in DOMAIN declared : /\ declared[j].name = name
                               /\ \A k \in 1 .. j - 1 : declared[k].name # name} = named
  <2>1. ASSUME NEW j \in named, NEW k \in 1 .. j - 1 PROVE declared[k].name # name
    BY <1>1
  <2> QED BY <2>1
<1>3. {j \in DOMAIN declared : /\ declared[j].name = name
                               /\ \A k \in j + 1 .. Len(declared) : declared[k].name # name} = named
  <2>1. ASSUME NEW j \in named, NEW k \in j + 1 .. Len(declared) PROVE declared[k].name # name
    BY <1>1
  <2> QED BY <2>1
<1> QED BY <1>2, <1>3 DEF FirstNamed, LastNamed

\* The verdict the platform and the runner's artifact store for a score is the one the local
\* result counts, unless two scorers share a name or the value is not a finite number:
\* "the local pass-rate equals the platform's" (results.py:457).
THEOREM OneVerdict ==
    ASSUME NEW score \in [name: Scorers, value: Values], NEW D, NEW declared \in Seq(D),
           \A i, j \in DOMAIN declared : declared[i].name = declared[j].name => i = j,
           NEW single \in BOOLEAN,
           ~NonFinite(score.value)
    PROVE  ScorePassed(score, declared, single) = ScoreVerdict(score, declared, single)
<1>1. FirstNamed(declared, score.name) = LastNamed(declared, score.name)
  BY OneOfAName
<1>2. Owner(declared, score.name, single) = LocalOwner(declared, score.name, single)
  BY <1>1 DEF Owner, LocalOwner
<1> QED BY <1>2 DEF ScorePassed, ScoreVerdict, NonFinite

\* "the local artifact and the platform UI must never disagree" (runner.py): the verdict
\* the artifact records for a finite score is the one in its entry on the platform.
LEMMA RunnerAgrees ==
    ASSUME NEW row \in RowType, NEW declared, NEW i \in DOMAIN row.scores,
           ~NonFinite(row.scores[i].value)
    PROVE  RunnerVerdicts(row, declared)[i] = Entries(row, declared)[i].passed
  BY DEF RunnerVerdicts, Entries, Entry

-----------------------------------------------------------------------------
(* Rows and results, saved and loaded.                                        *)

ScoreType == [name: Scorers, value: Values]

LEMMA ScoreRoundTrip ==
    ASSUME NEW x \in ScoreType
    PROVE  /\ SavedScore(x) \in ScoreType /\ LoadedScore(x) \in ScoreType
           /\ LoadedScore(SavedScore(x)) = LoadedScore(x)
           /\ LoadedScore(LoadedScore(x)) = LoadedScore(x)
           /\ x.value.kind # "token" => LoadedScore(x) = x
<1> DEFINE v == x.value
           wv == Written(v)
           rv == ReadBack(v)
<1>1. v \in Values
  BY DEF ScoreType
<1>2. /\ wv \in Values /\ rv \in Values /\ ReadBack(wv) = rv /\ ReadBack(rv) = rv
      /\ v.kind # "token" => rv = v
  BY <1>1, ValueRoundTrip
<1> HIDE DEF wv, rv
<1>3. LET w == [x EXCEPT !.value = wv]
          r == [x EXCEPT !.value = rv]
      IN /\ w \in ScoreType /\ r \in ScoreType /\ w.value = wv /\ r.value = rv
         /\ [w EXCEPT !.value = rv] = r
         /\ [r EXCEPT !.value = rv] = r
         /\ v.kind # "token" => r = x
  BY <1>2 DEF ScoreType
<1> QED BY <1>2, <1>3 DEF wv, rv, SavedScore, LoadedScore

\* No string score spells a non-finite float.
PlainRow(row) == \A i \in DOMAIN row.scores : row.scores[i].value.kind # "token"

LEMMA RowRoundTrip ==
    ASSUME NEW row \in RowType
    PROVE  /\ SavedRow(row) \in RowType /\ LoadedRow(row) \in RowType
           /\ LoadedRow(SavedRow(row)) = LoadedRow(row)
           /\ LoadedRow(LoadedRow(row)) = LoadedRow(row)
           /\ PlainRow(row) => LoadedRow(row) = row
<1> DEFINE q == row.scores
           w == [i \in DOMAIN q |-> SavedScore(q[i])]
           r == [i \in DOMAIN q |-> LoadedScore(q[i])]
           back(z) == [i \in DOMAIN z |-> LoadedScore(z[i])]
<1>1. q \in Seq(ScoreType)
  BY DEF RowType, ScoreType
<1>2. \A i \in DOMAIN q : q[i] \in ScoreType
  BY <1>1
<1>3. /\ DOMAIN w = DOMAIN q /\ DOMAIN r = DOMAIN q
      /\ \A i \in DOMAIN q : /\ w[i] = SavedScore(q[i])
                             /\ r[i] = LoadedScore(q[i])
                             /\ w[i] \in ScoreType /\ r[i] \in ScoreType
                             /\ LoadedScore(w[i]) = r[i]
                             /\ LoadedScore(r[i]) = r[i]
                             /\ q[i].value.kind # "token" => r[i] = q[i]
  BY <1>2, ScoreRoundTrip
<1>4. w \in Seq(ScoreType) /\ r \in Seq(ScoreType)
  <2>1. DOMAIN q = 1 .. Len(q) /\ Len(q) \in Nat
    BY <1>1
  <2>2. w = [i \in 1 .. Len(q) |-> w[i]] /\ r = [i \in 1 .. Len(q) |-> r[i]]
    BY <2>1
  <2> HIDE DEF w, r, q
  <2> QED BY <1>3, <2>1, <2>2
<1>5. back(w) = r /\ back(r) = r /\ (PlainRow(row) => r = q)
  <2>1. back(w) = r
    BY <1>3
  <2>2. back(r) = r
    BY <1>3
  <2>3. ASSUME PlainRow(row) PROVE r = q
    <3>1. \A i \in DOMAIN q : r[i] = q[i]
      BY <1>3, <2>3 DEF PlainRow
    <3>2. q = [i \in DOMAIN q |-> q[i]] /\ r = [i \in DOMAIN q |-> r[i]]
      BY <1>1
    <3> HIDE DEF r, q
    <3> QED BY <3>1, <3>2
  <2> QED BY <2>1, <2>2, <2>3
<1>6. SavedRow(row) = [row EXCEPT !.scores = w] /\ LoadedRow(row) = [row EXCEPT !.scores = r]
  BY DEF SavedRow, LoadedRow
<1> HIDE DEF w, r
<1>7. /\ SavedRow(row) \in RowType /\ SavedRow(row).scores = w
      /\ LoadedRow(row) \in RowType /\ LoadedRow(row).scores = r
  BY <1>4, <1>6 DEF RowType, ScoreType
<1>8. /\ LoadedRow(SavedRow(row)) = [[row EXCEPT !.scores = w] EXCEPT !.scores = r]
      /\ LoadedRow(LoadedRow(row)) = [[row EXCEPT !.scores = r] EXCEPT !.scores = r]
  <2>1. LoadedRow(SavedRow(row)) = [SavedRow(row) EXCEPT !.scores = back(w)]
    BY <1>7 DEF LoadedRow
  <2>2. LoadedRow(LoadedRow(row)) = [LoadedRow(row) EXCEPT !.scores = back(r)]
    BY <1>7 DEF LoadedRow
  <2> QED BY <1>5, <1>6, <2>1, <2>2
<1>9. /\ [[row EXCEPT !.scores = w] EXCEPT !.scores = r] = [row EXCEPT !.scores = r]
      /\ [[row EXCEPT !.scores = r] EXCEPT !.scores = r] = [row EXCEPT !.scores = r]
      /\ [row EXCEPT !.scores = q] = row
  BY DEF RowType
<1> QED BY <1>5, <1>6, <1>7, <1>8, <1>9

\* A row that lost its text has the scores and the errors it had.
LEMMA StrippedRow ==
    ASSUME NEW row \in RowType
    PROVE  /\ Stripped(row) \in RowType /\ Stripped(row).text = "absent"
           /\ Stripped(row).scores = row.scores /\ Stripped(row).error = row.error
           /\ Stripped(row).scorerErrors = row.scorerErrors
           /\ LoadedRow(Stripped(row)) = Stripped(LoadedRow(row))
<1>1. /\ Stripped(row) \in RowType /\ Stripped(row).text = "absent"
      /\ Stripped(row).scores = row.scores /\ Stripped(row).error = row.error
      /\ Stripped(row).scorerErrors = row.scorerErrors
  BY DEF Stripped, RowType
<1> DEFINE r == [i \in DOMAIN row.scores |-> LoadedScore(row.scores[i])]
<1>2. LoadedRow(row) = [row EXCEPT !.scores = r] /\ LoadedRow(Stripped(row)) = [Stripped(row) EXCEPT !.scores = r]
  BY <1>1 DEF LoadedRow
<1> HIDE DEF r
<1>3. [[row EXCEPT !.text = "absent"] EXCEPT !.scores = r] = [[row EXCEPT !.scores = r] EXCEPT !.text = "absent"]
  BY DEF RowType
<1> QED BY <1>1, <1>2, <1>3 DEF Stripped

\* A row as load() returns it.
Read(row) == IF FromRunner THEN Stripped(LoadedRow(row)) ELSE LoadedRow(row)

LEMMA DocRoundTrip ==
    ASSUME NEW doc \in DocType
    PROVE  /\ SavedDoc(doc) \in DocType /\ LoadedDoc(doc) \in DocType
           /\ SavedDoc(doc).uploaded = doc.uploaded /\ LoadedDoc(doc).uploaded = doc.uploaded
           /\ SavedDoc(doc).rows = [c \in Cases |-> SavedRow(doc.rows[c])]
           /\ LoadedDoc(doc).rows = [c \in Cases |-> Read(doc.rows[c])]
<1> DEFINE w == [c \in Cases |-> SavedRow(doc.rows[c])]
           r == [c \in Cases |-> Read(doc.rows[c])]
<1>1. doc.rows \in [Cases -> RowType]
  BY DEF DocType
<1>2. \A c \in Cases : doc.rows[c] \in RowType
  BY <1>1
<1>3. w \in [Cases -> RowType] /\ r \in [Cases -> RowType]
  BY <1>2, RowRoundTrip, StrippedRow DEF Read
<1>4. SavedDoc(doc) = [doc EXCEPT !.rows = w] /\ LoadedDoc(doc) = [doc EXCEPT !.rows = r]
  BY DEF SavedDoc, LoadedDoc, Read
<1>5. w = [c \in Cases |-> SavedRow(doc.rows[c])] /\ r = [c \in Cases |-> Read(doc.rows[c])]
  OBVIOUS
<1> HIDE DEF w, r
<1>6. /\ SavedDoc(doc) \in DocType /\ LoadedDoc(doc) \in DocType
      /\ SavedDoc(doc).uploaded = doc.uploaded /\ LoadedDoc(doc).uploaded = doc.uploaded
      /\ SavedDoc(doc).rows = w /\ LoadedDoc(doc).rows = r
  BY <1>3, <1>4 DEF DocType
<1> QED BY <1>5, <1>6

-----------------------------------------------------------------------------
(* The artifact.                                                              *)

\* The result in memory and the artifact are the run's, up to what loading does to them.
Docs ==
    /\ rows \in [Cases -> RowChoices]
    /\ mem # None => mem \in DocType /\ \A c \in Cases : mem.rows[c] \in {rows[c], Read(rows[c])}
    /\ file # None => file \in DocType /\ \A c \in Cases : LoadedRow(file.rows[c]) = LoadedRow(rows[c])
    /\ pc # "idle" => mem # None
    /\ pc = "saving" => ~FromRunner

LEMMA RowsTyped ==
    ASSUME UploadAssumption, Docs
    PROVE  \A c \in Cases : rows[c] \in RowType /\ rows[c] \in RowChoices
  BY DEF UploadAssumption, Docs

\* Where the result in memory may come from, in any step.
LEMMA MemSteps ==
    ASSUME [Next]_vars
    PROVE  /\ rows' = rows
           /\ \/ mem' = mem /\ (pc' # "idle" => pc # "idle" \/ mem # None)
              \/ mem' = None /\ pc' = "idle"
              \/ UploadReturns /\ pc # "idle" /\ pc' = "idle" /\ mem' = [mem EXCEPT !.uploaded = TRUE]
              \/ pc' = pc /\ file # None /\ mem' = LoadedDoc(file)
           /\ file' = file \/ (pc = "saving" /\ file' = SavedDoc(mem))
           /\ pc' = "saving" => pc = "saving" \/ ~FromRunner
<1>1. CASE SaveBegins
  BY <1>1 DEF SaveBegins, madeVars
<1>2. CASE SaveReplaces
  BY <1>2 DEF SaveReplaces, madeVars
<1>3. CASE Load
  BY <1>3 DEF Load, madeVars, fileVars
<1>4. CASE Crash
  BY <1>4 DEF Crash, madeVars, fileVars
<1>5. CASE UploadBegins
  BY <1>5 DEF UploadBegins, madeVars, fileVars
<1>6. CASE Registered
  BY <1>6 DEF Registered, madeVars, fileVars
<1>7. CASE PostBegins
  BY <1>7 DEF PostBegins, madeVars, fileVars
<1>8. CASE PostRequest
  BY <1>8 DEF PostRequest, madeVars, fileVars
<1>9. CASE NextRow
  BY <1>9 DEF NextRow, madeVars, fileVars
<1>10. CASE UploadCompletes
  BY <1>10 DEF UploadCompletes, madeVars, fileVars
<1>11. CASE UploadReturns
  BY <1>11 DEF UploadReturns, CallEnds, madeVars, fileVars
<1>12. CASE UploadRaises
  BY <1>12 DEF UploadRaises, CallEnds, madeVars, fileVars
<1>13. CASE LifecycleCall
  BY <1>13 DEF LifecycleCall, madeVars, fileVars
<1>14. CASE UNCHANGED vars
  BY <1>14 DEF vars, madeVars, fileVars
<1> QED BY <1>1, <1>2, <1>3, <1>4, <1>5, <1>6, <1>7, <1>8, <1>9, <1>10, <1>11, <1>12, <1>13, <1>14
           DEF Next, UploadStep

LEMMA DocsKept ==
    ASSUME UploadAssumption, Docs, [Next]_vars
    PROVE  /\ Docs'
           /\ file # None => file' # None /\ LoadedDoc(file').rows = LoadedDoc(file).rows
<1>1. \A c \in Cases : rows[c] \in RowType
  BY RowsTyped
<1>2. rows' = rows
  BY MemSteps
<1>3. mem' # None => /\ mem' \in DocType
                     /\ \A c \in Cases : mem'.rows[c] \in {rows[c], Read(rows[c])}
  <2>1. CASE mem' = mem \/ mem' = None
    BY <2>1 DEF Docs
  <2>2. CASE pc # "idle" /\ mem' = [mem EXCEPT !.uploaded = TRUE]
    <3>1. mem \in DocType /\ \A c \in Cases : mem.rows[c] \in {rows[c], Read(rows[c])}
      BY <2>2 DEF Docs
    <3>2. mem' \in DocType /\ mem'.rows = mem.rows
      BY <2>2, <3>1 DEF DocType
    <3> QED BY <3>1, <3>2
  <2>3. CASE file # None /\ mem' = LoadedDoc(file)
    <3>1. file \in DocType /\ \A c \in Cases : LoadedRow(file.rows[c]) = LoadedRow(rows[c])
      BY <2>3 DEF Docs
    <3>2. mem' \in DocType /\ \A c \in Cases : mem'.rows[c] = Read(file.rows[c])
      <4>1. LoadedDoc(file) \in DocType /\ LoadedDoc(file).rows = [c \in Cases |-> Read(file.rows[c])]
        BY <3>1, DocRoundTrip
      <4> QED BY <2>3, <4>1
    <3> QED BY <3>1, <3>2 DEF Read
  <2> QED BY <2>1, <2>2, <2>3, MemSteps
<1>4. ASSUME pc = "saving", file' = SavedDoc(mem)
      PROVE  file' \in DocType /\ \A c \in Cases : LoadedRow(file'.rows[c]) = LoadedRow(rows[c])
  <2>1. mem \in DocType /\ \A c \in Cases : mem.rows[c] \in {rows[c], LoadedRow(rows[c])}
    BY <1>4 DEF Docs, Read
  <2>2. file' \in DocType /\ \A c \in Cases : file'.rows[c] = SavedRow(mem.rows[c])
    <3>1. SavedDoc(mem) \in DocType /\ SavedDoc(mem).rows = [c \in Cases |-> SavedRow(mem.rows[c])]
      BY <2>1, DocRoundTrip
    <3> QED BY <1>4, <3>1
  <2>3. ASSUME NEW c \in Cases PROVE LoadedRow(SavedRow(mem.rows[c])) = LoadedRow(rows[c])
    <3>1. /\ LoadedRow(rows[c]) \in RowType
          /\ LoadedRow(SavedRow(rows[c])) = LoadedRow(rows[c])
          /\ LoadedRow(LoadedRow(rows[c])) = LoadedRow(rows[c])
      BY <1>1, RowRoundTrip
    <3>2. LoadedRow(SavedRow(LoadedRow(rows[c]))) = LoadedRow(LoadedRow(rows[c]))
      BY <3>1, RowRoundTrip
    <3>3. CASE mem.rows[c] = rows[c]
      BY <3>1, <3>3
    <3>4. CASE mem.rows[c] = LoadedRow(rows[c])
      BY <3>1, <3>2, <3>4
    <3> QED BY <2>1, <3>3, <3>4
  <2> QED BY <2>2, <2>3
<1>5. file' # None => file' \in DocType /\ \A c \in Cases : LoadedRow(file'.rows[c]) = LoadedRow(rows[c])
  BY <1>4, MemSteps DEF Docs
<1>6. pc' # "idle" => mem' # None
  <2>1. CASE mem' = mem /\ (pc' # "idle" => pc # "idle" \/ mem # None)
    BY <2>1 DEF Docs
  <2>2. CASE pc' = pc /\ file # None /\ mem' = LoadedDoc(file)
    BY <2>2, DocRoundTrip DEF Docs, UploadAssumption
  <2> QED BY <2>1, <2>2, MemSteps
<1>7. Docs'
  BY <1>2, <1>3, <1>5, <1>6, MemSteps DEF Docs
<1>8. ASSUME file # None PROVE file' # None /\ LoadedDoc(file').rows = LoadedDoc(file).rows
  <2>1. file \in DocType /\ \A c \in Cases : LoadedRow(file.rows[c]) = LoadedRow(rows[c])
    BY <1>8 DEF Docs
  <2>2. file' # None
    BY <1>4, <1>8, MemSteps DEF UploadAssumption
  <2>3. file' \in DocType /\ \A c \in Cases : LoadedRow(file'.rows[c]) = LoadedRow(rows[c])
    BY <1>5, <2>2
  <2>4. /\ LoadedDoc(file).rows = [c \in Cases |-> Read(file.rows[c])]
        /\ LoadedDoc(file').rows = [c \in Cases |-> Read(file'.rows[c])]
    BY <2>1, <2>3, DocRoundTrip
  <2>5. \A c \in Cases : Read(file'.rows[c]) = Read(file.rows[c])
    BY <2>1, <2>3 DEF Read
  <2> QED BY <2>2, <2>4, <2>5
<1> QED BY <1>7, <1>8

LEMMA DocsInit == ASSUME UploadAssumption, Init PROVE Docs
<1>1. /\ rows \in [Cases -> RowChoices] /\ mem = Doc(rows, FALSE) /\ pc = "idle"
      /\ file # None => file = SavedDoc(mem)
  BY DEF Init
<1>2. rows \in [Cases -> RowType]
  BY <1>1 DEF UploadAssumption
<1>3. mem \in DocType /\ mem.rows = rows
  BY <1>1, <1>2 DEF Doc, DocType
<1>4. file # None => file \in DocType /\ \A c \in Cases : LoadedRow(file.rows[c]) = LoadedRow(rows[c])
  <2>1. SavedDoc(mem) \in DocType /\ SavedDoc(mem).rows = [c \in Cases |-> SavedRow(rows[c])]
    BY <1>3, DocRoundTrip
  <2>2. \A c \in Cases : LoadedRow(SavedRow(rows[c])) = LoadedRow(rows[c])
    BY <1>2, RowRoundTrip
  <2> QED BY <1>1, <2>1, <2>2
<1> QED BY <1>1, <1>3, <1>4 DEF Docs

\* However often a result is saved, loaded, uploaded and saved again, and wherever the
\* process dies, an artifact that was once saved can be loaded, with the rows of the run.
THEOREM ArtifactKept == Spec => ArtifactSurvives
<1>1. Init => Docs
  BY DocsInit, UploadAssumption
<1>2. Docs /\ [Next]_vars => Docs'
  BY DocsKept, UploadAssumption
<1>3. Docs /\ [Next]_vars =>
          [file # None => file' # None /\ LoadedDoc(file').rows = LoadedDoc(file).rows]_vars
  BY DocsKept, UploadAssumption
<1> QED BY <1>1, <1>2, <1>3, PTL DEF Spec, ArtifactSurvives

-----------------------------------------------------------------------------
(* The upload of a result no string score of which spells a non-finite float. *)

PlainText == \A row \in RowChoices : PlainRow(row)

\* What a case is on the platform, and what it adds to the totals.  A result read from the
\* runner's artifact has lost its text.
Sent(c) == Payload(Item(rows[c]))
Adds(c) == Contribution(Item(rows[c]))
Shows(d, c) == \E t \in {"given", "absent"} :
                  /\ d = [text |-> t, entries |-> Entries(rows[c], specs)]
                  /\ ~FromRunner => t = rows[c].text
Shown(c) == Shows(detail[c], c)
Stored(c) == results[c] = Sent(c) /\ Shown(c)

\* The run as it should be, but perhaps for the text of its rows.
WholeButText ==
    /\ \A c \in Cases :
          /\ results[c] = Payload(Item(rows[c]))
          /\ \E t \in {"given", "absent"} : detail[c] = [text |-> t, entries |-> Entries(rows[c], specs)]
    /\ totals = ExactTotals
    /\ runStatus = StatusOf(ExactTotals)
    /\ runs = {runKey}

\* Where the call stands, and what is known of the run by then.
Control ==
    /\ runs \subseteq {runKey} /\ at \in Nat \ {0}
    /\ pc \in {"idle", "saving", "registering", "posting", "finishing"}
    /\ pc \in {"idle", "saving"} => callPc = "idle"
    /\ pc = "registering" => /\ callPc \in {"create", "created", "createFailed"} /\ clientRunId = runKey /\ at = 1
                             /\ callPc = "created" => runs = {runKey}
    /\ pc \in {"posting", "finishing"} => runs = {runKey}
    /\ pc = "posting" => callPc = "idle"
    /\ pc = "finishing" =>
          /\ callPc \in {"sumTask", "sumScorer", "sumScored", "complete", "completed", "completeFailed"}
          /\ endStatus = None /\ ~grown /\ at = Len(CaseSeq) + 1

\* A row that has been answered is counted, and a row that is counted is stored.
Posted ==
    /\ contrib = [c \in Cases |-> contrib[c]] /\ post = [c \in Cases |-> post[c]]
    /\ results = [c \in Cases |-> results[c]] /\ detail = [c \in Cases |-> detail[c]]
    /\ \A c \in Cases :
          /\ contrib[c] # None => contrib[c] = Adds(c) /\ Stored(c)
          /\ post[c] \in {"applied", "ok"} => Stored(c)
          /\ post[c] = "ok" => contrib[c] = Adds(c)

Counted ==
    pc \in {"posting", "finishing"} => \A i \in 1 .. Len(CaseSeq) : i < at => contrib[CaseSeq[i]] = Adds(CaseSeq[i])

\* The passes over the contributions are passes over the rows of the run.
Summed ==
    pc = "finishing" =>
        /\ sums \in Totals
        /\ callPc \in {"sumScorer", "sumScored", "complete", "completed"} =>
               sums.taskErrors = ExactTotals.taskErrors
        /\ callPc \in {"sumScored", "complete", "completed"} => sums.scorerErrors = ExactTotals.scorerErrors
        /\ callPc \in {"complete", "completed"} => sums.scored = ExactTotals.scored
        /\ callPc = "completed" => totals = ExactTotals /\ runStatus = StatusOf(ExactTotals)

\* What is marked as uploaded is on the platform.
Delivered ==
    /\ \A c \in Cases : Stored(c)
    /\ totals = ExactTotals /\ runStatus = StatusOf(ExactTotals) /\ runs = {runKey}

Returned ==
    /\ mem # None => (mem.uploaded => Delivered)
    /\ file # None => (file.uploaded => Delivered)

UploadInv == Docs /\ Control /\ Posted /\ Counted /\ Summed /\ Returned

\* A row of the result in memory is sent as the evaluation computed it.
LEMMA MemIsRows ==
    ASSUME UploadAssumption, PlainText, Docs, mem # None
    PROVE  mem \in DocType /\ \A c \in Cases : Item(mem.rows[c]) = Item(rows[c]) /\ Shows(Detail(mem.rows[c]), c)
<1>1. ASSUME NEW c \in Cases
      PROVE  Item(mem.rows[c]) = Item(rows[c]) /\ Shows(Detail(mem.rows[c]), c)
  <2>1. rows[c] \in RowType /\ LoadedRow(rows[c]) = rows[c]
    <3>1. rows[c] \in RowType /\ rows[c] \in RowChoices
      BY RowsTyped
    <3> QED BY <3>1, RowRoundTrip DEF PlainText
  <2>2. rows[c].text \in {"given", "absent"}
    BY <2>1 DEF RowType
  <2>3. CASE mem.rows[c] = rows[c]
    BY <2>2, <2>3 DEF Shows, Detail
  <2>4. CASE FromRunner /\ mem.rows[c] = Stripped(rows[c])
    <3>1. /\ Stripped(rows[c]).scores = rows[c].scores /\ Stripped(rows[c]).error = rows[c].error
          /\ Stripped(rows[c]).scorerErrors = rows[c].scorerErrors /\ Stripped(rows[c]).text = "absent"
      BY <2>1, StrippedRow
    <3>2. Item(Stripped(rows[c])) = Item(rows[c])
      BY <3>1 DEF Item
    <3>3. Entries(Stripped(rows[c]), specs) = Entries(rows[c], specs)
      BY <3>1 DEF Entries, Single
    <3> QED BY <2>4, <3>1, <3>2, <3>3 DEF Shows, Detail
  <2> QED BY <2>1, <2>3, <2>4 DEF Docs, Read
<1> QED BY <1>1 DEF Docs

LEMMA SeqFacts ==
    ASSUME UploadAssumption
    PROVE  /\ Len(CaseSeq) \in Nat /\ \A i \in 1 .. Len(CaseSeq) : CaseSeq[i] \in Cases
           /\ \A c \in Cases : \E i \in 1 .. Len(CaseSeq) : CaseSeq[i] = c
  BY DEF UploadAssumption

LEMMA RowsKept == ASSUME [Next]_vars PROVE rows' = rows /\ specs' = specs /\ runKey' = runKey
<1>1. CASE SaveBegins
  BY <1>1 DEF SaveBegins, madeVars
<1>2. CASE SaveReplaces
  BY <1>2 DEF SaveReplaces, madeVars
<1>3. CASE Load
  BY <1>3 DEF Load, madeVars
<1>4. CASE Crash
  BY <1>4 DEF Crash, madeVars
<1>5. CASE UploadBegins
  BY <1>5 DEF UploadBegins, CreateRun, madeVars
<1>6. CASE Registered
  BY <1>6 DEF Registered, madeVars
<1>7. CASE PostBegins
  BY <1>7 DEF PostBegins, SubmitPost, madeVars
<1>8. CASE PostRequest
  BY <1>8 DEF PostRequest, PostNotApplied, PostAnswerLost, PostReturns, PostApplied, madeVars
<1>9. CASE NextRow
  BY <1>9 DEF NextRow, madeVars
<1>10. CASE UploadCompletes
  BY <1>10 DEF UploadCompletes, FinishRun, madeVars
<1>11. CASE UploadReturns
  BY <1>11 DEF UploadReturns, CallEnds, madeVars
<1>12. CASE UploadRaises
  BY <1>12 DEF UploadRaises, CallEnds, madeVars
<1>13. CASE LifecycleCall
  BY <1>13 DEF LifecycleCall, CreateAttempt, RegisterRun, RetryOr, SumContributions, SumPass,
              CompleteAttempt, StoreCompletion, madeVars
<1>14. CASE UNCHANGED vars
  BY <1>14 DEF vars, madeVars
<1> QED BY <1>1, <1>2, <1>3, <1>4, <1>5, <1>6, <1>7, <1>8, <1>9, <1>10, <1>11, <1>12, <1>13, <1>14
           DEF Next, UploadStep

LEMMA ControlKept == ASSUME UploadAssumption, Docs, Control, [Next]_vars PROVE Control'
<1>0. rows' = rows /\ specs' = specs /\ runKey' = runKey
  BY RowsKept
<1>1. CASE SaveBegins
  BY <1>0, <1>1 DEF SaveBegins, Control, madeVars, fileVars, transportVars, platformVars
<1>2. CASE SaveReplaces
  BY <1>0, <1>2 DEF SaveReplaces, Control, madeVars, fileVars, transportVars, platformVars
<1>3. CASE Load
  BY <1>0, <1>3 DEF Load, Control, madeVars, fileVars, transportVars, platformVars
<1>4. CASE Crash
  BY <1>0, <1>4 DEF Crash, Control, madeVars, fileVars, transportVars, platformVars
<1>5. CASE UploadBegins
  BY <1>0, <1>5 DEF UploadBegins, CreateRun, Control, madeVars, fileVars, transportVars, platformVars
<1>6. CASE Registered
  BY <1>0, <1>6 DEF Registered, Control, madeVars, fileVars, transportVars, platformVars
<1>7. CASE PostBegins
  BY <1>0, <1>7 DEF PostBegins, SubmitPost, Control, madeVars, fileVars, transportVars, platformVars
<1>8. CASE PostRequest
  BY <1>0, <1>8 DEF PostRequest, PostNotApplied, PostAnswerLost, PostReturns, PostApplied, Control, madeVars, fileVars, transportVars, platformVars
<1>9. CASE NextRow
  BY <1>0, <1>9 DEF NextRow, Control, madeVars, fileVars, transportVars, platformVars
<1>10. CASE UploadCompletes
  BY <1>0, <1>10 DEF UploadCompletes, FinishRun, Control, madeVars, fileVars, transportVars, platformVars
<1>11. CASE UploadReturns
  BY <1>0, <1>11 DEF UploadReturns, CallEnds, Control, madeVars, fileVars, transportVars, platformVars
<1>12. CASE UploadRaises
  BY <1>0, <1>12 DEF UploadRaises, CallEnds, Control, madeVars, fileVars, transportVars, platformVars
<1>13. CASE LifecycleCall
  <2>1. UNCHANGED <<madeVars, mem, fileVars, pc, at, detail>>
    BY <1>13 DEF LifecycleCall
  <2>2. pc' = pc /\ at' = at
    BY <2>1
  <2>3. CASE CreateAttempt
    <3>1. /\ pc = "registering" /\ callPc = "create" /\ clientRunId = runKey /\ clientRunId' = clientRunId
          /\ runs \subseteq {runKey}
      BY <2>3 DEF CreateAttempt, Control
    <3>2. /\ callPc' \in {"create", "created", "createFailed"}
          /\ runs' = runs \cup {clientRunId} \/ (runs' = runs /\ callPc' # "created")
      <4>1. CASE RegisterRun /\ callPc' = "created"
        BY <4>1 DEF RegisterRun
      <4>2. CASE RegisterRun /\ RetryOr("createFailed")
        BY <4>2, <3>1 DEF RegisterRun, RetryOr
      <4>3. CASE UNCHANGED platformVars /\ RetryOr("createFailed")
        <5>1. runs' = runs
          BY <4>3 DEF platformVars
        <5> QED BY <4>3, <5>1, <3>1 DEF RetryOr
      <4>4. CASE UNCHANGED platformVars /\ callPc' = "createFailed"
        BY <4>4 DEF platformVars
      <4> QED BY <2>3, <4>1, <4>2, <4>3, <4>4 DEF CreateAttempt
    <3>3. runs' \subseteq {runKey} /\ (callPc' = "created" => runs' = {runKey})
      BY <3>1, <3>2
    <3> QED BY <1>0, <2>2, <3>1, <3>2, <3>3 DEF Control
  <2>4. CASE SumContributions
    BY <1>0, <2>2, <2>4 DEF SumContributions, SumPass, Control, platformVars
  <2>5. CASE CompleteAttempt
    BY <1>0, <2>2, <2>5 DEF CompleteAttempt, StoreCompletion, RetryOr, Control, platformVars
  <2> QED BY <1>13, <2>3, <2>4, <2>5 DEF LifecycleCall
<1>14. CASE UNCHANGED vars
  BY <1>0, <1>14 DEF vars, Control, madeVars, fileVars, transportVars, platformVars
<1> QED BY <1>1, <1>2, <1>3, <1>4, <1>5, <1>6, <1>7, <1>8, <1>9, <1>10, <1>11, <1>12, <1>13, <1>14
           DEF Next, UploadStep

\* What a case is to be on the platform does not change.
LEMMA SentKept ==
    ASSUME [Next]_vars
    PROVE  /\ \A c \in Cases : /\ Sent(c)' = Sent(c) /\ Adds(c)' = Adds(c)
                               /\ detail'[c] = detail[c] => Shown(c)' = Shown(c)
                               /\ Shows(detail'[c], c) => Shown(c)'
           /\ ExactTotals' = ExactTotals
  BY RowsKept DEF Sent, Adds, Shows, Shown, ExactTotals, Count

LEMMA PostedKept ==
    ASSUME UploadAssumption, PlainText, Docs, Control, Posted, [Next]_vars
    PROVE  Posted'
<1>0. \A c \in Cases : /\ Sent(c)' = Sent(c) /\ Adds(c)' = Adds(c)
                       /\ detail'[c] = detail[c] => Shown(c)' = Shown(c)
                       /\ Shows(detail'[c], c) => Shown(c)'
  BY SentKept
<1>1. CASE SaveBegins
  BY <1>0, <1>1 DEF SaveBegins, Posted, Stored, platformVars
<1>2. CASE SaveReplaces
  BY <1>0, <1>2 DEF SaveReplaces, Posted, Stored, platformVars
<1>3. CASE Load
  BY <1>0, <1>3 DEF Load, Posted, Stored, platformVars
<1>4. CASE Crash
  BY <1>0, <1>4 DEF Crash, Posted, Stored, platformVars
<1>5. CASE UploadBegins
  BY <1>0, <1>5 DEF UploadBegins, CreateRun, Posted, Stored, platformVars
<1>6. CASE Registered
  BY <1>0, <1>6 DEF Registered, Posted, Stored, platformVars
<1>7. CASE PostBegins
  BY <1>0, <1>7 DEF PostBegins, SubmitPost, Posted, Stored, platformVars
<1>8. CASE PostRequest
  <2> DEFINE c == CaseSeq[at]
             item == Item(mem.rows[c])
  <2>1. at \in 1 .. Len(CaseSeq) /\ pc = "posting" /\ UNCHANGED <<madeVars, mem, fileVars, pc, at>>
    BY <1>8, SeqFacts DEF PostRequest, Control
  <2>2. c \in Cases
    BY <2>1, SeqFacts
  <2>3. item = Item(rows[c]) /\ Shows(Detail(mem.rows[c]), c)
    BY <2>1, <2>2, MemIsRows DEF Docs
  <2>4. Payload(item) = Sent(c) /\ Contribution(item) = Adds(c)
    BY <2>3 DEF Sent, Adds
  <2>5. \/ PostNotApplied(c) /\ UNCHANGED detail
        \/ PostAnswerLost(c) /\ UNCHANGED detail
        \/ PostReturns(c, item) /\ UNCHANGED detail
        \/ PostApplied(c, item) /\ detail' = [detail EXCEPT ![c] = Detail(mem.rows[c])]
    BY <1>8 DEF PostRequest
  <2> HIDE DEF c, item
  <2>6. CASE PostNotApplied(c) /\ UNCHANGED detail
    <3>1. /\ contrib' = contrib /\ results' = results /\ detail' = detail
          /\ post' = [post EXCEPT ![c] = "failed"]
      BY <2>6 DEF PostNotApplied, platformVars
    <3> QED BY <1>0, <2>2, <3>1 DEF Posted, Stored
  <2>7. CASE PostAnswerLost(c) /\ UNCHANGED detail
    <3>1. /\ contrib' = contrib /\ results' = results /\ detail' = detail
          /\ post' = [post EXCEPT ![c] = "failed"]
      BY <2>7 DEF PostAnswerLost, platformVars
    <3> QED BY <1>0, <2>2, <3>1 DEF Posted, Stored
  <2>8. CASE PostReturns(c, item) /\ UNCHANGED detail
    <3>1. /\ contrib' = [contrib EXCEPT ![c] = Adds(c)] /\ results' = results /\ detail' = detail
          /\ post' = [post EXCEPT ![c] = "ok"] /\ post[c] = "applied"
      BY <2>4, <2>8 DEF PostReturns, platformVars
    <3> QED BY <1>0, <2>2, <3>1 DEF Posted, Stored
  <2>9. CASE PostApplied(c, item) /\ detail' = [detail EXCEPT ![c] = Detail(mem.rows[c])]
    <3>1. /\ contrib' = contrib /\ results' = [results EXCEPT ![c] = Sent(c)]
          /\ detail' = [detail EXCEPT ![c] = Detail(mem.rows[c])] /\ post' = [post EXCEPT ![c] = "applied"]
      BY <2>4, <2>9 DEF PostApplied
    <3>2. /\ \A d \in Cases \ {c} : results'[d] = results[d] /\ detail'[d] = detail[d] /\ post'[d] = post[d]
          /\ results'[c] = Sent(c) /\ detail'[c] = Detail(mem.rows[c]) /\ post'[c] = "applied"
      BY <2>2, <3>1 DEF Posted
    <3>3. \A d \in Cases : Stored(d)' \/ (d # c /\ Stored(d)' = Stored(d))
      BY <1>0, <2>2, <2>3, <3>2 DEF Stored
    <3>4. \A d \in Cases : /\ contrib'[d] = contrib[d]
                           /\ post'[d] # post[d] => d = c /\ post'[d] = "applied"
      BY <3>1, <3>2
    <3>5. /\ results' = [d \in Cases |-> results'[d]] /\ detail' = [d \in Cases |-> detail'[d]]
          /\ post' = [d \in Cases |-> post'[d]] /\ contrib' = [d \in Cases |-> contrib'[d]]
      BY <3>1 DEF Posted
    <3>6. ASSUME NEW d \in Cases
          PROVE  /\ contrib'[d] # None => contrib'[d] = Adds(d)' /\ Stored(d)'
                 /\ post'[d] \in {"applied", "ok"} => Stored(d)'
                 /\ post'[d] = "ok" => contrib'[d] = Adds(d)'
      <4>1. Adds(d)' = Adds(d)
        BY <1>0
      <4> QED BY <3>3, <3>4, <4>1 DEF Posted
    <3> QED BY <3>5, <3>6 DEF Posted
  <2> QED BY <2>5, <2>6, <2>7, <2>8, <2>9
<1>9. CASE NextRow
  BY <1>0, <1>9 DEF NextRow, Posted, Stored, platformVars
<1>10. CASE UploadCompletes
  BY <1>0, <1>10 DEF UploadCompletes, FinishRun, Posted, Stored, platformVars
<1>11. CASE UploadReturns
  BY <1>0, <1>11 DEF UploadReturns, CallEnds, Posted, Stored, platformVars
<1>12. CASE UploadRaises
  BY <1>0, <1>12 DEF UploadRaises, CallEnds, Posted, Stored, platformVars
<1>13. CASE LifecycleCall
  BY <1>0, <1>13 DEF LifecycleCall, CreateAttempt, RegisterRun, RetryOr, SumContributions, SumPass,
              CompleteAttempt, StoreCompletion, Posted, Stored, platformVars
<1>14. CASE UNCHANGED vars
  BY <1>0, <1>14 DEF vars, Posted, Stored, platformVars
<1> QED BY <1>1, <1>2, <1>3, <1>4, <1>5, <1>6, <1>7, <1>8, <1>9, <1>10, <1>11, <1>12, <1>13, <1>14
           DEF Next, UploadStep

LEMMA CountedKept ==
    ASSUME UploadAssumption, PlainText, Docs, Control, Posted, Counted, [Next]_vars
    PROVE  Counted'
<1>0. \A i \in 1 .. Len(CaseSeq) : CaseSeq[i] \in Cases /\ Adds(CaseSeq[i])' = Adds(CaseSeq[i])
  BY SentKept, SeqFacts
<1>1. CASE SaveBegins
  BY <1>0, <1>1 DEF SaveBegins, Counted
<1>2. CASE SaveReplaces
  BY <1>0, <1>2 DEF SaveReplaces, Counted
<1>3. CASE Load
  BY <1>0, <1>3 DEF Load, Counted
<1>4. CASE Crash
  BY <1>0, <1>4 DEF Crash, Counted
<1>5. CASE UploadBegins
  BY <1>0, <1>5 DEF UploadBegins, CreateRun, Counted
<1>6. CASE Registered
  <2>1. pc' = "posting" /\ at' = at /\ pc = "registering"
    BY <1>6 DEF Registered
  <2> QED BY <1>0, <2>1 DEF Counted, Control
<1>7. CASE PostBegins
  BY <1>0, <1>7 DEF PostBegins, SubmitPost, Counted
<1>8. CASE PostRequest
  <2>1. pc' = pc /\ at' = at
    BY <1>8 DEF PostRequest
  <2>2. \A d \in Cases : contrib'[d] = contrib[d] \/ contrib'[d] = Adds(d)
    <3> DEFINE c == CaseSeq[at]
    <3>1. c \in Cases /\ pc = "posting"
      BY <1>8, SeqFacts DEF PostRequest, Control
    <3>2. Contribution(Item(mem.rows[c])) = Adds(c)
      BY <3>1, MemIsRows DEF Adds, Docs
    <3>3. contrib' = contrib \/ contrib' = [contrib EXCEPT ![c] = Adds(c)]
      BY <1>8, <3>2 DEF PostRequest, PostNotApplied, PostAnswerLost, PostReturns, PostApplied
    <3> HIDE DEF c
    <3> QED BY <3>1, <3>3 DEF Posted
  <2> QED BY <1>0, <2>1, <2>2 DEF Counted
<1>9. CASE NextRow
  <2>1. /\ contrib' = contrib /\ pc' = pc /\ pc = "posting" /\ at' = at + 1
        /\ at \in 1 .. Len(CaseSeq) /\ post[CaseSeq[at]] = "ok"
    BY <1>9, SeqFacts DEF NextRow, Control
  <2>2. CaseSeq[at] \in Cases
    BY <2>1, SeqFacts
  <2>3. contrib[CaseSeq[at]] = Adds(CaseSeq[at])
    BY <2>1, <2>2 DEF Posted
  <2>4. \A i \in 1 .. Len(CaseSeq) : i < at' => contrib'[CaseSeq[i]] = Adds(CaseSeq[i])
    <3> TAKE i \in 1 .. Len(CaseSeq)
    <3>1. CASE i < at
      BY <2>1, <3>1 DEF Counted
    <3>2. CASE i = at
      BY <2>1, <2>3, <3>2
    <3> QED BY <2>1, <3>1, <3>2, SeqFacts
  <2> QED BY <1>0, <2>4 DEF Counted
<1>10. CASE UploadCompletes
  BY <1>0, <1>10 DEF UploadCompletes, FinishRun, Counted
<1>11. CASE UploadReturns
  BY <1>0, <1>11 DEF UploadReturns, CallEnds, Counted
<1>12. CASE UploadRaises
  BY <1>0, <1>12 DEF UploadRaises, CallEnds, Counted
<1>13. CASE LifecycleCall
  BY <1>0, <1>13 DEF LifecycleCall, CreateAttempt, RegisterRun, RetryOr, SumContributions, SumPass,
              CompleteAttempt, StoreCompletion, Counted
<1>14. CASE UNCHANGED vars
  BY <1>0, <1>14 DEF vars, Counted
<1> QED BY <1>1, <1>2, <1>3, <1>4, <1>5, <1>6, <1>7, <1>8, <1>9, <1>10, <1>11, <1>12, <1>13, <1>14
           DEF Next, UploadStep

LEMMA AddsTyped ==
    ASSUME UploadAssumption, Docs, NEW c \in Cases
    PROVE  Adds(c) \in Contributions /\ Adds(c) # None
<1> DEFINE row == rows[c]
<1>1. row \in RowType
  BY RowsTyped
<1>2. \A i \in DOMAIN row.scores : row.scores[i].name \in Scorers
  <2>1. row.scores \in Seq(ScoreType)
    BY <1>1 DEF RowType, ScoreType
  <2>2. \A i \in DOMAIN row.scores : row.scores[i] \in ScoreType
    BY <2>1
  <2> QED BY <2>2 DEF ScoreType
<1>3. /\ Item(row).error \in BOOLEAN /\ Item(row).scorerErrors \subseteq Scorers
      /\ Item(row).scores \subseteq Scorers /\ Item(row).nonFinite \subseteq Scorers
  BY <1>1, <1>2 DEF Item, RowType
<1> HIDE DEF row
<1>4. Contribution(Item(row)) \in Contributions
  BY <1>3 DEF Contribution, Contributions
<1> QED BY <1>4, NoneAssumption DEF Adds, row

\* Once every case is counted, a pass over the contributions is a pass over the rows.
LEMMA ExactSums ==
    ASSUME UploadAssumption, Docs, \A c \in Cases : contrib[c] = Adds(c)
    PROVE  /\ CountTaskErrors = ExactTotals.taskErrors /\ CountTaskErrors \in Nat
           /\ CountScorerErrors = ExactTotals.scorerErrors /\ CountScorerErrors \in Nat
           /\ CountScored = ExactTotals.scored /\ CountScored \in Nat
<1>1. \A c \in Cases : contrib[c] # None
  BY AddsTyped
<1> DEFINE fails == [c \in Cases |-> Item(rows[c]).error]
           wrong == [c \in Cases |-> Item(rows[c]).scorerErrors \cup Item(rows[c]).nonFinite]
           scores == [c \in Cases |-> ~Item(rows[c]).error /\ Item(rows[c]).scores \ Item(rows[c]).nonFinite # {}]
           T == {c \in Cases : fails[c]}
           E == {p \in Cases \X Scorers : p[2] \in wrong[p[1]]}
           S == {c \in Cases : scores[c]}
<1>2. ExactTotals = [taskErrors |-> Cardinality(T), scorerErrors |-> Cardinality(E), scored |-> Cardinality(S)]
  BY DEF ExactTotals, Count
<1>3. \A c \in Cases :
        contrib[c] = [taskError |-> fails[c], scorerErrors |-> wrong[c], scored |-> scores[c]]
  BY DEF Adds, Contribution
<1> HIDE DEF fails, wrong, scores
<1>4. ASSUME NEW c \in Cases
      PROVE  /\ contrib[c].taskError = fails[c]
             /\ contrib[c].scorerErrors = wrong[c]
             /\ contrib[c].scored = scores[c]
  <2>1. contrib[c] = [taskError |-> fails[c], scorerErrors |-> wrong[c], scored |-> scores[c]]
    BY <1>3
  <2> QED BY <2>1
<1>5. {c \in Cases : contrib[c] # None /\ contrib[c].taskError} = T
  BY <1>1, <1>4
<1>6. {p \in Cases \X Scorers : contrib[p[1]] # None /\ p[2] \in contrib[p[1]].scorerErrors} = E
  BY <1>1, <1>4
<1>7. {c \in Cases : contrib[c] # None /\ contrib[c].scored} = S
  BY <1>1, <1>4
<1>8. T \in SUBSET Cases /\ S \in SUBSET Cases /\ E \in SUBSET (Cases \X Scorers)
  OBVIOUS
<1> HIDE DEF T, E, S
<1>9. Cardinality(T) \in Nat /\ Cardinality(S) \in Nat
  <2>1. IsFiniteSet(T) /\ IsFiniteSet(S)
    BY <1>8, FS_Subset, TransportAssumption DEF TransportAssumption
  <2> QED BY <2>1, FS_CardinalityType
<1>10. Cardinality(E) \in Nat
  <2>1. IsFiniteSet(Cases \X Scorers)
    BY FS_Product, TransportAssumption DEF TransportAssumption
  <2>2. IsFiniteSet(E)
    BY <1>8, <2>1, FS_Subset
  <2> QED BY <2>2, FS_CardinalityType
<1>11. CountTaskErrors = Cardinality(T)
  BY <1>5 DEF CountTaskErrors
<1>12. CountScorerErrors = Cardinality(E)
  BY <1>6 DEF CountScorerErrors
<1>13. CountScored = Cardinality(S)
  BY <1>7 DEF CountScored
<1> QED BY <1>2, <1>9, <1>10, <1>11, <1>12, <1>13

LEMMA AllCounted ==
    ASSUME UploadAssumption, Control, Counted, pc = "finishing" \/ (pc = "posting" /\ at = Len(CaseSeq) + 1)
    PROVE  \A c \in Cases : contrib[c] = Adds(c)
<1>1. at = Len(CaseSeq) + 1
  BY DEF Control
<1>2. Len(CaseSeq) \in Nat /\ \A i \in 1 .. Len(CaseSeq) : i < Len(CaseSeq) + 1
  BY SeqFacts
<1>3. \A i \in 1 .. Len(CaseSeq) : contrib[CaseSeq[i]] = Adds(CaseSeq[i])
  BY <1>1, <1>2 DEF Counted
<1> QED BY <1>3, SeqFacts

LEMMA SummedKept ==
    ASSUME UploadAssumption, PlainText, Docs, Control, Posted, Counted, Summed, [Next]_vars
    PROVE  Summed'
<1>0. ExactTotals' = ExactTotals
  BY SentKept
<1>1. CASE SaveBegins
  BY <1>0, <1>1 DEF SaveBegins, Summed, Control, NoTotals, Totals
<1>2. CASE SaveReplaces
  BY <1>0, <1>2 DEF SaveReplaces, Summed
<1>3. CASE Load
  BY <1>0, <1>3 DEF Load, Summed, Control, NoTotals, Totals
<1>4. CASE Crash
  BY <1>0, <1>4 DEF Crash, Summed, Control, NoTotals, Totals
<1>5. CASE UploadBegins
  BY <1>0, <1>5 DEF UploadBegins, CreateRun, Summed, Control, NoTotals, Totals
<1>6. CASE Registered
  BY <1>0, <1>6 DEF Registered, Summed, Control, NoTotals, Totals
<1>7. CASE PostBegins
  BY <1>0, <1>7 DEF PostBegins, SubmitPost, Summed, Control, NoTotals, Totals
<1>8. CASE PostRequest
  BY <1>0, <1>8 DEF PostRequest, PostNotApplied, PostAnswerLost, PostReturns, PostApplied, Summed, Control, NoTotals, Totals
<1>9. CASE NextRow
  BY <1>0, <1>9 DEF NextRow, Summed, Control, NoTotals, Totals
<1>10. CASE UploadCompletes
  BY <1>0, <1>10 DEF UploadCompletes, FinishRun, Summed, Control, NoTotals, Totals
<1>11. CASE UploadReturns
  BY <1>0, <1>11 DEF UploadReturns, CallEnds, Summed, Control, NoTotals, Totals
<1>12. CASE UploadRaises
  BY <1>0, <1>12 DEF UploadRaises, CallEnds, Summed, Control, NoTotals, Totals
<1>13. CASE LifecycleCall
  <2>1. pc' = pc /\ at' = at
    BY <1>13 DEF LifecycleCall
  <2>2. CASE pc # "finishing"
    BY <2>1, <2>2 DEF Summed
  <2>3. CASE pc = "finishing"
    <3>1. /\ sums \in Totals /\ endStatus = None
          /\ callPc \in {"sumTask", "sumScorer", "sumScored", "complete", "completed", "completeFailed"}
          /\ callPc \in {"sumScorer", "sumScored", "complete", "completed"} =>
                 sums.taskErrors = ExactTotals.taskErrors
          /\ callPc \in {"sumScored", "complete", "completed"} => sums.scorerErrors = ExactTotals.scorerErrors
          /\ callPc \in {"complete", "completed"} => sums.scored = ExactTotals.scored
      BY <2>3 DEF Summed, Control
    <3>2. /\ CountTaskErrors = ExactTotals.taskErrors /\ CountTaskErrors \in Nat
          /\ CountScorerErrors = ExactTotals.scorerErrors /\ CountScorerErrors \in Nat
          /\ CountScored = ExactTotals.scored /\ CountScored \in Nat
      BY <2>3, AllCounted, ExactSums
    <3>3. CASE CreateAttempt
      BY <3>1, <3>3 DEF CreateAttempt
    <3>4. CASE SumPass("sumTask", "sumScorer", [sums EXCEPT !.taskErrors = CountTaskErrors])
      <4>1. \/ sums' = [sums EXCEPT !.taskErrors = CountTaskErrors] /\ callPc' = "sumScorer"
            \/ sums' = sums /\ callPc' = "completeFailed"
        BY <3>4 DEF SumPass
      <4>2. sums' \in Totals /\ (callPc' = "sumScorer" => sums'.taskErrors = ExactTotals.taskErrors)
        BY <3>1, <3>2, <4>1 DEF Totals
      <4> QED BY <1>0, <4>1, <4>2 DEF Summed
    <3>5. CASE SumPass("sumScorer", "sumScored", [sums EXCEPT !.scorerErrors = CountScorerErrors])
      <4>1. \/ sums' = [sums EXCEPT !.scorerErrors = CountScorerErrors] /\ callPc' = "sumScored"
            \/ sums' = sums /\ callPc' = "completeFailed"
        BY <3>5 DEF SumPass
      <4>2. /\ sums' \in Totals /\ sums'.taskErrors = ExactTotals.taskErrors
            /\ callPc' = "sumScored" => sums'.scorerErrors = ExactTotals.scorerErrors
        BY <3>1, <3>2, <3>5, <4>1 DEF Totals, SumPass
      <4> QED BY <1>0, <4>1, <4>2 DEF Summed
    <3>6. CASE SumPass("sumScored", "complete", [sums EXCEPT !.scored = CountScored])
      <4>1. \/ sums' = [sums EXCEPT !.scored = CountScored] /\ callPc' = "complete"
            \/ sums' = sums /\ callPc' = "completeFailed"
        BY <3>6 DEF SumPass
      <4>2. /\ sums' \in Totals /\ sums'.taskErrors = ExactTotals.taskErrors
            /\ sums'.scorerErrors = ExactTotals.scorerErrors
            /\ callPc' = "complete" => sums'.scored = ExactTotals.scored
        BY <3>1, <3>2, <3>6, <4>1 DEF Totals, SumPass
      <4> QED BY <1>0, <4>1, <4>2 DEF Summed
    <3>7. CASE CompleteAttempt
      <4>1. sums = ExactTotals
        BY <3>1, <3>7 DEF CompleteAttempt, Totals, ExactTotals
      <4>2. EffectiveStatus = StatusOf(ExactTotals)
        BY <3>1, <4>1 DEF EffectiveStatus, StatusOf
      <4>3. /\ sums' = sums /\ callPc' \in {"complete", "completed", "completeFailed"}
            /\ callPc' = "completed" => totals' = sums /\ runStatus' = EffectiveStatus
        BY <3>7 DEF CompleteAttempt, StoreCompletion, RetryOr
      <4>4. StatusOf(ExactTotals)' = StatusOf(ExactTotals)
        BY <1>0 DEF StatusOf
      <4> QED BY <1>0, <3>1, <4>1, <4>2, <4>3, <4>4 DEF Summed
    <3> QED BY <1>13, <3>3, <3>4, <3>5, <3>6, <3>7 DEF LifecycleCall, SumContributions
  <2> QED BY <2>2, <2>3
<1>14. CASE UNCHANGED vars
  BY <1>0, <1>14 DEF vars, Summed, StatusOf, transportVars, platformVars
<1> QED BY <1>1, <1>2, <1>3, <1>4, <1>5, <1>6, <1>7, <1>8, <1>9, <1>10, <1>11, <1>12, <1>13, <1>14
           DEF Next, UploadStep

\* What a step may do to the platform: a row comes to hold what the evaluation computed,
\* the totals those of its rows, the status theirs.
LEMMA PlatformSteps ==
    ASSUME UploadAssumption, PlainText, Docs, Control, Posted, Summed, [Next]_vars
    PROVE  /\ \A c \in Cases : \/ results'[c] = results[c] /\ detail'[c] = detail[c]
                               \/ results'[c] = Sent(c) /\ Shows(detail'[c], c)
           /\ runs' \in {runs, runs \cup {runKey}}
           /\ totals' \in {totals, ExactTotals}
           /\ runStatus' \in {runStatus, StatusOf(ExactTotals)} \/ runStatus = "none"
<1>1. CASE SaveBegins
  BY <1>1 DEF SaveBegins, platformVars
<1>2. CASE SaveReplaces
  BY <1>2 DEF SaveReplaces, platformVars
<1>3. CASE Load
  BY <1>3 DEF Load, platformVars
<1>4. CASE Crash
  BY <1>4 DEF Crash, platformVars
<1>5. CASE UploadBegins
  BY <1>5 DEF UploadBegins, CreateRun, platformVars
<1>6. CASE Registered
  BY <1>6 DEF Registered, platformVars
<1>7. CASE PostBegins
  BY <1>7 DEF PostBegins, SubmitPost, platformVars
<1>8. CASE PostRequest
  <2> DEFINE c == CaseSeq[at]
  <2>1. c \in Cases /\ pc = "posting"
    BY <1>8, SeqFacts DEF PostRequest, Control
  <2>2. Payload(Item(mem.rows[c])) = Sent(c) /\ Shows(Detail(mem.rows[c]), c)
    BY <2>1, MemIsRows DEF Docs, Sent
  <2>3. /\ runs' = runs /\ runStatus' = runStatus /\ totals' = totals
        /\ \/ results' = results /\ detail' = detail
           \/ /\ results' = [results EXCEPT ![c] = Payload(Item(mem.rows[c]))]
              /\ detail' = [detail EXCEPT ![c] = Detail(mem.rows[c])]
    <3>1. \/ PostNotApplied(c) /\ UNCHANGED detail
          \/ PostAnswerLost(c) /\ UNCHANGED detail
          \/ PostReturns(c, Item(mem.rows[c])) /\ UNCHANGED detail
          \/ PostApplied(c, Item(mem.rows[c])) /\ detail' = [detail EXCEPT ![c] = Detail(mem.rows[c])]
      BY <1>8 DEF PostRequest
    <3> QED BY <3>1 DEF PostNotApplied, PostAnswerLost, PostReturns, PostApplied, platformVars
  <2> HIDE DEF c
  <2>4. \A d \in Cases : \/ results'[d] = results[d] /\ detail'[d] = detail[d]
                         \/ d = c /\ results'[d] = Sent(d) /\ detail'[d] = Detail(mem.rows[d])
    BY <2>1, <2>2, <2>3 DEF Posted
  <2> QED BY <2>2, <2>3, <2>4
<1>9. CASE NextRow
  BY <1>9 DEF NextRow, platformVars
<1>10. CASE UploadCompletes
  BY <1>10 DEF UploadCompletes, FinishRun, platformVars
<1>11. CASE UploadReturns
  BY <1>11 DEF UploadReturns, CallEnds, platformVars
<1>12. CASE UploadRaises
  BY <1>12 DEF UploadRaises, CallEnds, platformVars
<1>13. CASE LifecycleCall
  <2>1. detail' = detail
    BY <1>13 DEF LifecycleCall
  <2>2. CASE CreateAttempt
    <3>1. clientRunId = runKey /\ results' = results /\ totals' = totals
      BY <2>2 DEF CreateAttempt, RegisterRun, Control, platformVars
    <3>2. runs' = runs \/ runs' = runs \cup {clientRunId}
      BY <2>2 DEF CreateAttempt, RegisterRun, platformVars
    <3>3. runStatus' = runStatus \/ runStatus = "none"
      BY <2>2 DEF CreateAttempt, RegisterRun, platformVars
    <3> QED BY <2>1, <3>1, <3>2, <3>3
  <2>3. CASE SumContributions
    BY <2>1, <2>3 DEF SumContributions, SumPass, platformVars
  <2>4. CASE CompleteAttempt
    <3>1. pc = "finishing" /\ endStatus = None /\ callPc = "complete"
      BY <2>4 DEF CompleteAttempt, Control
    <3>2. sums = ExactTotals
      BY <3>1 DEF Summed, Totals, ExactTotals
    <3>3. EffectiveStatus = StatusOf(ExactTotals)
      BY <3>1, <3>2 DEF EffectiveStatus, StatusOf
    <3>4. /\ runs' = runs /\ results' = results
          /\ totals' = totals \/ totals' = sums
          /\ runStatus' = runStatus \/ runStatus' = EffectiveStatus
      BY <2>4 DEF CompleteAttempt, StoreCompletion, platformVars
    <3> QED BY <2>1, <3>2, <3>3, <3>4
  <2> QED BY <1>13, <2>2, <2>3, <2>4 DEF LifecycleCall
<1>14. CASE UNCHANGED vars
  BY <1>14 DEF vars, platformVars
<1> QED BY <1>1, <1>2, <1>3, <1>4, <1>5, <1>6, <1>7, <1>8, <1>9, <1>10, <1>11, <1>12, <1>13, <1>14
           DEF Next, UploadStep

\* No step takes anything from a run that is whole, or whole but for its text.
LEMMA WholeKept ==
    ASSUME UploadAssumption, PlainText, Docs, Control, Posted, Summed, [Next]_vars
    PROVE  (Delivered => Delivered') /\ (WholeButText => WholeButText')
<1>1. /\ rows' = rows /\ specs' = specs /\ runKey' = runKey
      /\ ExactTotals' = ExactTotals /\ StatusOf(ExactTotals)' = StatusOf(ExactTotals)
      /\ StatusOf(ExactTotals) # "none"
  BY RowsKept, SentKept DEF StatusOf
<1>2. ASSUME totals = ExactTotals, runStatus = StatusOf(ExactTotals), runs = {runKey}
      PROVE  totals' = ExactTotals' /\ runStatus' = StatusOf(ExactTotals)' /\ runs' = {runKey'}
  BY <1>1, <1>2, PlatformSteps
<1>3. ASSUME NEW c \in Cases, Stored(c) PROVE Stored(c)'
  <2>1. results'[c] = Sent(c) /\ Shows(detail'[c], c)
    BY <1>3, PlatformSteps DEF Stored, Shown
  <2> QED BY <2>1, SentKept DEF Stored
<1>4. ASSUME NEW c \in Cases, results[c] = Payload(Item(rows[c])),
             \E t \in {"given", "absent"} : detail[c] = [text |-> t, entries |-> Entries(rows[c], specs)]
      PROVE  /\ results'[c] = Payload(Item(rows[c]))
             /\ \E t \in {"given", "absent"} : detail'[c] = [text |-> t, entries |-> Entries(rows[c], specs)]
  <2>1. CASE results'[c] = results[c] /\ detail'[c] = detail[c]
    BY <1>4, <2>1
  <2>2. CASE results'[c] = Sent(c) /\ Shows(detail'[c], c)
    BY <2>2 DEF Sent, Shows
  <2> QED BY <2>1, <2>2, PlatformSteps
<1>5. ASSUME Delivered PROVE Delivered'
  BY <1>2, <1>3, <1>5 DEF Delivered
<1>6. ASSUME WholeButText PROVE WholeButText'
  <2>1. totals' = ExactTotals' /\ runStatus' = StatusOf(ExactTotals)' /\ runs' = {runKey'}
    BY <1>2, <1>6 DEF WholeButText
  <2>2. \A c \in Cases : 
          /\ results'[c] = Payload(Item(rows'[c]))
          /\ \E t \in {"given", "absent"} : detail'[c] = [text |-> t, entries |-> Entries(rows'[c], specs')]
    BY <1>1, <1>4, <1>6 DEF WholeButText
  <2>3. \A c \in Cases : Item(rows[c])' = Item(rows'[c])
    BY DEF Item
  <2> QED BY <2>1, <2>2, <2>3 DEF WholeButText
<1> QED BY <1>5, <1>6

\* What was delivered is whole, its text included unless the artifact is the runner's.
LEMMA DeliveredIsWhole ==
    ASSUME Delivered
    PROVE  WholeButText /\ (~FromRunner => PlatformWhole)
  BY DEF Delivered, Stored, Shown, Shows, Sent, Detail, WholeButText, PlatformWhole

LEMMA WholeIsDelivered ==
    ASSUME UploadAssumption, ~FromRunner, Docs, PlatformWhole
    PROVE  Delivered
<1>1. \A c \in Cases : rows[c].text \in {"given", "absent"}
  BY RowsTyped DEF RowType
<1> QED BY <1>1 DEF Delivered, Stored, Shown, Shows, Sent, Detail, PlatformWhole

LEMMA WholeWhenCompleted ==
    ASSUME UploadAssumption, Docs, Control, Posted, Counted, Summed, pc = "finishing", callPc = "completed"
    PROVE  Delivered
<1>1. \A c \in Cases : Stored(c)
  BY AllCounted, AddsTyped DEF Posted
<1>2. runs = {runKey} /\ totals = ExactTotals /\ runStatus = StatusOf(ExactTotals)
  BY DEF Control, Summed
<1> QED BY <1>1, <1>2 DEF Delivered

LEMMA ReturnedKept ==
    ASSUME UploadAssumption, PlainText, UploadInv, [Next]_vars
    PROVE  Returned'
<1>1. Delivered => Delivered'
  BY WholeKept DEF UploadInv
<1>2. ASSUME mem' # None, mem'.uploaded PROVE Delivered'
  <2>1. CASE mem' = mem
    BY <1>1, <1>2, <2>1 DEF UploadInv, Returned
  <2>2. CASE UploadReturns
    BY <1>1, <2>2, WholeWhenCompleted DEF UploadReturns, UploadInv
  <2>3. CASE file # None /\ mem' = LoadedDoc(file)
    <3>1. file.uploaded
      BY <1>2, <2>3, DocRoundTrip DEF UploadInv, Docs
    <3> QED BY <1>1, <2>3, <3>1 DEF UploadInv, Returned
  <2> QED BY <1>2, <2>1, <2>2, <2>3, MemSteps
<1>3. ASSUME file' # None, file'.uploaded PROVE Delivered'
  <2>1. CASE file' = file
    BY <1>1, <1>3, <2>1 DEF UploadInv, Returned
  <2>2. CASE pc = "saving" /\ file' = SavedDoc(mem)
    <3>1. mem # None /\ mem \in DocType
      BY <2>2 DEF UploadInv, Docs
    <3>2. mem.uploaded
      BY <1>3, <2>2, <3>1, DocRoundTrip
    <3> QED BY <1>1, <3>1, <3>2 DEF UploadInv, Returned
  <2> QED BY <2>1, <2>2, MemSteps
<1> QED BY <1>2, <1>3 DEF Returned

LEMMA UploadInvInit == ASSUME UploadAssumption, Init PROVE UploadInv
<1>1. Docs
  BY DocsInit
<1>2. /\ runs = {} \/ runs = {runKey}
      /\ pc = "idle" /\ at = 1 /\ callPc = "idle"
  BY DEF Init, EvaluationReported
<1>3. Control
  BY <1>2 DEF Control
<1>4. Posted
  <2>1. contrib = [c \in Cases |-> None] /\ post = [c \in Cases |-> "none"]
    BY DEF Init
  <2>2. /\ results = [c \in Cases |-> results[c]] /\ detail = [c \in Cases |-> detail[c]]
    BY DEF Init, EvaluationReported
  <2> QED BY <2>1, <2>2 DEF Posted
<1>5. Counted /\ Summed
  BY <1>2 DEF Counted, Summed
<1>6. Returned
  <2>1. mem = Doc(rows, FALSE) /\ (file # None => file = SavedDoc(mem))
    BY DEF Init
  <2>2. mem # None => mem \in DocType /\ ~mem.uploaded
    BY <1>1, <2>1 DEF Docs, Doc
  <2>3. mem \in DocType
    <3>1. rows \in [Cases -> RowType]
      BY DEF Init, UploadAssumption
    <3> QED BY <2>1, <3>1 DEF Doc, DocType
  <2> QED BY <2>1, <2>2, <2>3, DocRoundTrip DEF Returned, Doc
<1> QED BY <1>1, <1>3, <1>4, <1>5, <1>6 DEF UploadInv

LEMMA UploadInvKept ==
    ASSUME UploadAssumption, PlainText, UploadInv, [Next]_vars
    PROVE  UploadInv'
  BY DocsKept, ControlKept, PostedKept, CountedKept, SummedKept, ReturnedKept DEF UploadInv

LEMMA UploadInvHolds == ASSUME PlainText PROVE Spec => []UploadInv
<1>1. Init => UploadInv
  BY UploadInvInit, UploadAssumption
<1>2. UploadInv /\ [Next]_vars => UploadInv'
  BY UploadInvKept, UploadAssumption
<1> QED BY <1>1, <1>2, PTL DEF Spec

\* When upload() has returned the whole run is on the platform, for any cases, scorers
\* and number of attempts, whatever was lost, retried or cut off before.
THEOREM UploadIsWhole == ASSUME ~FromRunner, PlainText PROVE Spec => []UploadedIsWhole
<1>1. UploadInv => UploadedIsWhole
  BY DeliveredIsWhole DEF UploadInv, Returned, UploadedIsWhole
<1> QED BY <1>1, UploadInvHolds, PTL

\* A run that is whole stays whole: uploading it again, from memory or from its artifact,
\* completely or not, is idempotent.
THEOREM UploadTwice == ASSUME ~FromRunner, PlainText PROVE Spec => UploadIsIdempotent
<1>1. UploadInv /\ [Next]_vars => [PlatformWhole => PlatformWhole']_vars
  <2> SUFFICES ASSUME UploadInv, [Next]_vars, PlatformWhole PROVE PlatformWhole'
    OBVIOUS
  <2>1. Delivered'
    BY WholeIsDelivered, WholeKept, UploadAssumption DEF UploadInv
  <2> QED BY <2>1 DEF Delivered, Stored, Shown, Shows, Sent, Detail, PlatformWhole
<1> QED BY <1>1, UploadInvHolds, PTL DEF Spec, UploadIsIdempotent

\* "a run loaded back from this artifact is re-uploadable" (runner.py:493): an upload of the
\* runner's artifact that returned left every score, error and verdict, the totals and the
\* status on the platform as the evaluation computed them; only the text of the rows is lost.
UploadedButText == mem # None /\ mem.uploaded => WholeButText

THEOREM ArtifactUploadsScores == ASSUME PlainText PROVE Spec => []UploadedButText
<1>1. UploadInv => UploadedButText
  BY DeliveredIsWhole DEF UploadInv, Returned, UploadedButText
<1> QED BY <1>1, UploadInvHolds, PTL

\* ... and no later upload, completed or cut off, of the result or of either artifact, takes
\* anything but text from a run the platform has in whole.
UploadKeepsScores == [][WholeButText => WholeButText']_vars

THEOREM ScoresUploadTwice == ASSUME PlainText PROVE Spec => UploadKeepsScores
<1>1. UploadInv /\ [Next]_vars => [WholeButText => WholeButText']_vars
  BY WholeKept, UploadAssumption DEF UploadInv
<1> QED BY <1>1, UploadInvHolds, PTL DEF Spec, UploadKeepsScores

-----------------------------------------------------------------------------
(* What summary() counts and what the platform has stored, strings that spell a   *)
(* number included.                                                            *)

\* The entries of a stored row were made of a row that reads back as the run's does.
Sourced ==
    /\ detail = [c \in Cases |-> detail[c]]
    /\ \E declared \in SpecChoices : specs = [i \in DOMAIN declared |-> Describe(declared[i])]
    /\ \A c \in Cases : detail[c] # None =>
          \E r \in RowType : /\ LoadedRow(r).scores = LoadedRow(rows[c]).scores
                             /\ detail[c].entries = Entries(r, specs)

LEMMA SourceOfMem ==
    ASSUME UploadAssumption, Docs, mem # None, NEW c \in Cases
    PROVE  mem.rows[c] \in RowType /\ LoadedRow(mem.rows[c]).scores = LoadedRow(rows[c]).scores
<1>1. rows[c] \in RowType
  BY RowsTyped
<1>2. /\ LoadedRow(rows[c]) \in RowType
      /\ LoadedRow(LoadedRow(rows[c])) = LoadedRow(rows[c])
  BY <1>1, RowRoundTrip
<1>3. /\ Stripped(LoadedRow(rows[c])) \in RowType
      /\ LoadedRow(Stripped(LoadedRow(rows[c]))) = Stripped(LoadedRow(LoadedRow(rows[c])))
      /\ Stripped(LoadedRow(rows[c])).scores = LoadedRow(rows[c]).scores
  BY <1>2, StrippedRow
<1> QED BY <1>1, <1>2, <1>3 DEF Docs, Read

\* Only a post that is applied changes what is stored of a row.
LEMMA DetailSteps ==
    ASSUME UploadAssumption, Docs, Sourced, [Next]_vars
    PROVE  /\ detail' = [c \in Cases |-> detail'[c]]
           /\ \A c \in Cases : \/ detail'[c] = detail[c]
                               \/ mem # None /\ detail'[c] = Detail(mem.rows[c])
<1>1. CASE PostRequest
  <2>1. mem # None
    BY <1>1 DEF PostRequest, Docs
  <2>2. PICK c : detail' = detail \/ detail' = [detail EXCEPT ![c] = Detail(mem.rows[c])]
    BY <1>1 DEF PostRequest
  <2> QED BY <2>1, <2>2 DEF Sourced
<1>2. CASE ~PostRequest
  <2>1. detail' = detail
    BY <1>2 DEF Next, UploadStep, SaveBegins, SaveReplaces, Load, Crash, UploadBegins, Registered, PostBegins,
          NextRow, UploadCompletes, UploadReturns, UploadRaises, CallEnds, LifecycleCall, vars
  <2> QED BY <2>1 DEF Sourced
<1> QED BY <1>1, <1>2

LEMMA SourcedKept ==
    ASSUME UploadAssumption, Docs, Sourced, [Next]_vars
    PROVE  Sourced'
<1>1. rows' = rows /\ specs' = specs
  BY RowsKept
<1>2. ASSUME NEW c \in Cases, detail'[c] # None
      PROVE  \E r \in RowType : /\ LoadedRow(r).scores = LoadedRow(rows[c]).scores
                                /\ detail'[c].entries = Entries(r, specs)
  <2>1. CASE detail'[c] = detail[c]
    BY <1>2, <2>1 DEF Sourced
  <2>2. CASE mem # None /\ detail'[c] = Detail(mem.rows[c])
    <3>1. detail'[c].entries = Entries(mem.rows[c], specs)
      BY <2>2 DEF Detail
    <3> QED BY <2>2, <3>1, SourceOfMem
  <2> QED BY <2>1, <2>2, DetailSteps
<1> QED BY <1>1, <1>2, DetailSteps DEF Sourced

LEMMA SourcedInit == ASSUME UploadAssumption, Init PROVE Sourced
<1>1. \A c \in Cases : rows[c] \in RowType
  BY DocsInit, RowsTyped
<1>2. \A c \in Cases : detail[c] \in {None, Detail(rows[c])}
  BY DEF Init, EvaluationReported
<1>3. detail = [c \in Cases |-> detail[c]]
  BY DEF Init, EvaluationReported
<1>4. \E declared \in SpecChoices : specs = [i \in DOMAIN declared |-> Describe(declared[i])]
  BY DEF Init
<1>5. ASSUME NEW c \in Cases, detail[c] # None
      PROVE  \E r \in RowType : /\ LoadedRow(r).scores = LoadedRow(rows[c]).scores
                                /\ detail[c].entries = Entries(r, specs)
  <2>1. rows[c] \in RowType /\ detail[c].entries = Entries(rows[c], specs)
    BY <1>1, <1>2, <1>5 DEF Detail
  <2> QED BY <2>1
<1> QED BY <1>3, <1>4, <1>5 DEF Sourced

\* Scores that read back alike are counted alike: they have one name and one number, and
\* differ at most in being a non-finite value and a spelling of one.
LEMMA AlikeScores ==
    ASSUME NEW x \in ScoreType, NEW y \in ScoreType, LoadedScore(x) = LoadedScore(y)
    PROVE  /\ x.name = y.name /\ x.value.n = y.value.n
           /\ \/ x.value.kind = y.value.kind
              \/ {x.value.kind, y.value.kind} \subseteq {"token", "nonFinite"}
<1>1. x.value \in Values /\ y.value \in Values
  BY DEF ScoreType
<1>2. ASSUME NEW z \in ScoreType
      PROVE  LoadedScore(z).name = z.name /\ LoadedScore(z).value = ReadBack(z.value)
  BY DEF LoadedScore, ScoreType
<1>3. x.name = y.name /\ ReadBack(x.value) = ReadBack(y.value)
  BY <1>2
<1>4. ASSUME NEW v \in Values
      PROVE  /\ ReadBack(v).n = v.n
             /\ ReadBack(v).kind = IF v.kind = "token" THEN "nonFinite" ELSE v.kind
  BY DEF ReadBack, Values
<1> QED BY <1>1, <1>3, <1>4

\* One score: its entry on the wire against what the local result makes of one alike.
LEMMA EntryIsCounted ==
    ASSUME NEW x \in ScoreType, NEW y \in ScoreType, LoadedScore(x) = LoadedScore(y),
           NEW D, NEW declared \in Seq(D),
           \A i, j \in DOMAIN declared : declared[i].name = declared[j].name => i = j,
           NEW single \in BOOLEAN
    PROVE  LET e == Entry(x, declared, single)
           IN /\ e.name = y.name
              /\ e.passed = ScoreVerdict(y, declared, single)
              /\ e.field \in {"bool_value", "numeric_value"} <=> y.value.kind \in {"bool", "number"}
              /\ y.value.kind \in {"bool", "number"} => e.n = y.value.n
<1>1. /\ x.name = y.name /\ x.value.n = y.value.n
      /\ \/ x.value.kind = y.value.kind
         \/ {x.value.kind, y.value.kind} \subseteq {"token", "nonFinite"}
  BY AlikeScores
<1>2. CASE NonFinite(x.value)
  BY <1>1, <1>2 DEF Entry, NonFinite, ScoreVerdict
<1>3. CASE x.value.kind = "token"
  BY <1>1, <1>3 DEF Entry, NonFinite, ScoreVerdict, ScorePassed
<1>4. CASE x.value.kind \notin {"nonFinite", "token"}
  <2>1. x.value.kind = y.value.kind /\ x.value = y.value /\ x = y /\ ~NonFinite(x.value)
    BY <1>1, <1>4 DEF ScoreType, Values, NonFinite
  <2>2. ScorePassed(x, declared, single) = ScoreVerdict(x, declared, single)
    BY <2>1, OneVerdict DEF ScoreType
  <2>3. LET e == Entry(x, declared, single)
        IN /\ e.name = x.name /\ e.passed = ScorePassed(x, declared, single) /\ e.n = x.value.n
           /\ e.field \in {"bool_value", "numeric_value"} <=> x.value.kind \in {"bool", "number"}
    BY <2>1 DEF Entry
  <2> QED BY <2>1, <2>2, <2>3
<1> QED BY <1>2, <1>3, <1>4 DEF NonFinite

LEMMA SpecsDistinct ==
    ASSUME UploadAssumption, Sourced
    PROVE  \E D : /\ specs \in Seq(D)
                  /\ \A i, j \in DOMAIN specs : specs[i].name = specs[j].name => i = j
<1>1. PICK declared \in SpecChoices : specs = [i \in DOMAIN declared |-> Describe(declared[i])]
  BY DEF Sourced
<1>2. declared \in Seq(Declaration) /\ IsInjective([i \in DOMAIN declared |-> declared[i].name])
  BY DEF UploadAssumption
<1> DEFINE D == {Describe(declared[i]) : i \in DOMAIN declared}
<1>3. DOMAIN declared = 1 .. Len(declared) /\ Len(declared) \in Nat
  BY <1>2
<1>4. specs = [i \in 1 .. Len(declared) |-> Describe(declared[i])]
  BY <1>1, <1>3
<1>5. \A i \in 1 .. Len(declared) : Describe(declared[i]) \in D
  BY <1>3
<1>6. specs \in Seq(D)
  <2> HIDE DEF D
  <2> QED BY <1>3, <1>4, <1>5
<1>7. \A i \in DOMAIN declared : specs[i].name = declared[i].name
  BY <1>1 DEF Describe
<1>8. \A i, j \in DOMAIN declared : declared[i].name = declared[j].name => i = j
  BY <1>2 DEF IsInjective
<1>9. \A i, j \in DOMAIN specs : specs[i].name = specs[j].name => i = j
  BY <1>3, <1>4, <1>7, <1>8
<1> QED BY <1>6, <1>9

\* Scores of rows that read back alike are in the same places.
LEMMA AlikeRows ==
    ASSUME NEW r \in RowType, NEW q \in RowType, LoadedRow(r).scores = LoadedRow(q).scores
    PROVE  /\ DOMAIN r.scores = DOMAIN q.scores /\ Single(r) = Single(q)
           /\ \A i \in DOMAIN q.scores : /\ r.scores[i] \in ScoreType /\ q.scores[i] \in ScoreType
                                         /\ LoadedScore(r.scores[i]) = LoadedScore(q.scores[i])
<1>1. ASSUME NEW row \in RowType
      PROVE  /\ LoadedRow(row).scores = [i \in DOMAIN row.scores |-> LoadedScore(row.scores[i])]
             /\ \A j \in DOMAIN row.scores : LoadedRow(row).scores[j] = LoadedScore(row.scores[j])
             /\ row.scores \in Seq(ScoreType)
  BY DEF LoadedRow, RowType, ScoreType
<1>2. DOMAIN r.scores = DOMAIN q.scores
  <2>1. /\ DOMAIN LoadedRow(r).scores = DOMAIN r.scores
        /\ DOMAIN LoadedRow(q).scores = DOMAIN q.scores
    BY <1>1
  <2> QED BY <2>1
<1>3. Len(r.scores) = Len(q.scores)
  <2> DEFINE s == r.scores
             t == q.scores
  <2>1. s \in Seq(ScoreType) /\ t \in Seq(ScoreType)
    BY <1>1
  <2>2. DOMAIN s = DOMAIN t
    BY <1>2
  <2> HIDE DEF s, t
  <2>3. Len(s) = Len(t)
    BY <2>1, <2>2
  <2> QED BY <2>3 DEF s, t
<1>4. ASSUME NEW i \in DOMAIN q.scores
      PROVE  /\ r.scores[i] \in ScoreType /\ q.scores[i] \in ScoreType
             /\ LoadedScore(r.scores[i]) = LoadedScore(q.scores[i])
  <2>1. i \in DOMAIN r.scores
    BY <1>2
  <2>2. r.scores[i] \in ScoreType /\ q.scores[i] \in ScoreType
    <3> DEFINE s == r.scores
               t == q.scores
    <3>1. s \in Seq(ScoreType) /\ t \in Seq(ScoreType)
      BY <1>1
    <3>2. i \in DOMAIN s /\ i \in DOMAIN t
      BY <2>1
    <3> HIDE DEF s, t
    <3>3. s[i] \in ScoreType /\ t[i] \in ScoreType
      BY <3>1, <3>2
    <3> QED BY <3>3 DEF s, t
  <2>3. LoadedRow(r).scores[i] = LoadedScore(r.scores[i]) /\ LoadedRow(q).scores[i] = LoadedScore(q.scores[i])
    <3>1. \A j \in DOMAIN r.scores : LoadedRow(r).scores[j] = LoadedScore(r.scores[j])
      BY <1>1
    <3>2. \A j \in DOMAIN q.scores : LoadedRow(q).scores[j] = LoadedScore(q.scores[j])
      BY <1>1
    <3> QED BY <2>1, <3>1, <3>2
  <2> QED BY <2>2, <2>3
<1> QED BY <1>2, <1>3, <1>4 DEF Single

\* The entries stored of a case are those of the scores in memory, one by one.
LEMMA EntriesAreCounted ==
    ASSUME UploadAssumption, Docs, Sourced, mem # None, NEW c \in Cases, detail[c] # None
    PROVE  LET es == detail[c].entries
               ys == mem.rows[c].scores
           IN /\ DOMAIN es = DOMAIN ys
              /\ \A i \in DOMAIN ys :
                    /\ es[i].name = ys[i].name
                    /\ es[i].passed = ScoreVerdict(ys[i], specs, Single(mem.rows[c]))
                    /\ es[i].field \in {"bool_value", "numeric_value"} <=> ys[i].value.kind \in {"bool", "number"}
                    /\ ys[i].value.kind \in {"bool", "number"} => es[i].n = ys[i].value.n
<1>1. PICK r \in RowType : /\ LoadedRow(r).scores = LoadedRow(rows[c]).scores
                           /\ detail[c].entries = Entries(r, specs)
  BY DEF Sourced
<1> DEFINE q == mem.rows[c]
<1>2. q \in RowType /\ LoadedRow(r).scores = LoadedRow(q).scores
  BY <1>1, SourceOfMem
<1> HIDE DEF q
<1>3. /\ DOMAIN r.scores = DOMAIN q.scores /\ Single(r) = Single(q)
      /\ \A i \in DOMAIN q.scores : /\ r.scores[i] \in ScoreType /\ q.scores[i] \in ScoreType
                                    /\ LoadedScore(r.scores[i]) = LoadedScore(q.scores[i])
  BY <1>2, AlikeRows
<1>4. /\ DOMAIN detail[c].entries = DOMAIN q.scores
      /\ \A i \in DOMAIN q.scores : detail[c].entries[i] = Entry(r.scores[i], specs, Single(q))
  BY <1>1, <1>3 DEF Entries
<1>5. Single(q) \in BOOLEAN
  BY DEF Single
<1>6. ASSUME NEW i \in DOMAIN q.scores
      PROVE  LET e == Entry(r.scores[i], specs, Single(q))
                 y == q.scores[i]
             IN /\ e.name = y.name
                /\ e.passed = ScoreVerdict(y, specs, Single(q))
                /\ e.field \in {"bool_value", "numeric_value"} <=> y.value.kind \in {"bool", "number"}
                /\ y.value.kind \in {"bool", "number"} => e.n = y.value.n
  BY <1>3, <1>5, SpecsDistinct, EntryIsCounted
<1> QED BY <1>4, <1>6 DEF q

\* The scores of a metric are at the same places in memory and on the platform, and what is
\* counted of them there is what is counted here.
LEMMA CountsAgree ==
    ASSUME UploadAssumption, Docs, Sourced
    PROVE  SummaryIsThePlatforms
<1> SUFFICES ASSUME mem # None, \A c \in Cases : detail[c] # None, NEW m \in Scorers
             PROVE  /\ PassTally(mem.rows, specs, m) = StoredTally(m)
                    /\ Aggregate(mem.rows, m) = StoredAggregate(m)
  BY DEF SummaryIsThePlatforms
<1> DEFINE here   == Places(mem.rows, m)
           there  == StoredPlaces(m)
           score(p)   == mem.rows[p[1]].scores[p[2]]
           verdict(p) == ScoreVerdict(score(p), specs, Single(mem.rows[p[1]]))
           entry(p)   == StoredEntry(p)
           numeric == {p \in here : score(p).value.kind \in {"bool", "number"}}
           values  == {p \in there : entry(p).field \in {"bool_value", "numeric_value"}}
<1>1. ASSUME NEW c \in Cases
      PROVE  /\ DOMAIN detail[c].entries = DOMAIN mem.rows[c].scores
             /\ \A i \in DOMAIN mem.rows[c].scores :
                   /\ entry(<<c, i>>).name = score(<<c, i>>).name
                   /\ entry(<<c, i>>).passed = verdict(<<c, i>>)
                   /\ entry(<<c, i>>).field \in {"bool_value", "numeric_value"} <=>
                         score(<<c, i>>).value.kind \in {"bool", "number"}
                   /\ score(<<c, i>>).value.kind \in {"bool", "number"} =>
                         entry(<<c, i>>).n = score(<<c, i>>).value.n
  <2>1. \A i : StoredEntry(<<c, i>>) = detail[c].entries[i]
    BY DEF StoredEntry
  <2> QED BY <2>1, EntriesAreCounted
<1>2. DOMAIN mem.rows = Cases
  BY DEF Docs, DocType
<1>3. here = UNION {{<<c, i>> : i \in {j \in DOMAIN mem.rows[c].scores : mem.rows[c].scores[j].name = m}} : c \in Cases}
  BY <1>2 DEF Places
<1>4. there = UNION {{<<c, i>> : i \in {j \in DOMAIN detail[c].entries : detail[c].entries[j].name = m}} : c \in Cases}
  BY DEF Places, StoredPlaces
<1>5. \A p \in here : p[1] \in Cases /\ p[2] \in DOMAIN mem.rows[p[1]].scores /\ p = <<p[1], p[2]>>
  BY <1>3
<1>6. here = there
  <2>1. \A c \in Cases : {j \in DOMAIN detail[c].entries : detail[c].entries[j].name = m}
                            = {j \in DOMAIN mem.rows[c].scores : mem.rows[c].scores[j].name = m}
    BY EntriesAreCounted
  <2> HIDE DEF here, there
  <2> QED BY <1>3, <1>4, <2>1
<1>7. ASSUME NEW p \in here
      PROVE  /\ entry(p).passed = verdict(p)
             /\ entry(p).field \in {"bool_value", "numeric_value"} <=> score(p).value.kind \in {"bool", "number"}
             /\ score(p).value.kind \in {"bool", "number"} => entry(p).n = score(p).value.n
  BY <1>1, <1>5
<1> HIDE DEF here, there
<1>8. numeric = values /\ \A p \in numeric : score(p).value.n = entry(p).n
  BY <1>6, <1>7
<1>9. [p \in numeric |-> score(p).value.n] = [p \in values |-> entry(p).n]
  <2> HIDE DEF numeric, values, score, entry
  <2> QED BY <1>8
<1>10. PassTally(mem.rows, specs, m) = StoredTally(m)
  <2>1. PassTally(mem.rows, specs, m) =
          [passed |-> Cardinality({p \in here : verdict(p) = "pass"}),
           judged |-> Cardinality({p \in here : verdict(p) # "none"})]
    BY DEF PassTally, here
  <2>2. StoredTally(m) =
          [passed |-> Cardinality({p \in there : entry(p).passed = "pass"}),
           judged |-> Cardinality({p \in there : entry(p).passed # "none"})]
    BY DEF StoredTally, there
  <2>3. /\ {p \in here : verdict(p) = "pass"} = {p \in there : entry(p).passed = "pass"}
        /\ {p \in here : verdict(p) # "none"} = {p \in there : entry(p).passed # "none"}
    BY <1>6, <1>7
  <2> QED BY <2>1, <2>2, <2>3
<1>11. Aggregate(mem.rows, m) = StoredAggregate(m)
  <2>1. Aggregate(mem.rows, m) =
          [sum   |-> SumFunction([p \in numeric |-> score(p).value.n]),
           over  |-> Cardinality(numeric),
           count |-> Cardinality(here)]
    BY DEF Aggregate, here
  <2>2. StoredAggregate(m) =
          [sum   |-> SumFunction([p \in values |-> entry(p).n]),
           over  |-> Cardinality(values),
           count |-> Cardinality(there)]
    BY DEF StoredAggregate, there
  <2> HIDE DEF numeric, values, score, entry
  <2> QED BY <1>6, <1>8, <1>9, <2>1, <2>2
<1> QED BY <1>10, <1>11

\* "the local pass-rate equals the platform's" (results.py:457), and the local mean does not
\* "disagree with the wire" (results.py:163): for any scores, thresholds and directions, after
\* any saving, loading and uploading, summary() counts what the entries of the stored rows say.
THEOREM SummaryAgrees == Spec => []SummaryIsThePlatforms
<1>1. Init => Docs /\ Sourced
  BY DocsInit, SourcedInit, UploadAssumption
<1>2. Docs /\ Sourced /\ [Next]_vars => Docs' /\ Sourced'
  BY DocsKept, SourcedKept, UploadAssumption
<1>3. Docs /\ Sourced => SummaryIsThePlatforms
  BY CountsAgree, UploadAssumption
<1> QED BY <1>1, <1>2, <1>3, PTL DEF Spec

-----------------------------------------------------------------------------
(* Type correctness.                                                           *)

\* What is sent of a row, and what it counts for, has the types of the transport.
LEMMA ItemTypes ==
    ASSUME NEW row \in RowType
    PROVE  /\ Item(row) \in ItemResult
           /\ Payload(Item(row)) \in Rows
           /\ Contribution(Item(row)) \in Contributions
<1> DEFINE named(S) == {row.scores[i].name : i \in S}
           finite == {i \in DOMAIN row.scores : NonFinite(row.scores[i].value)}
<1>1. row.error \in BOOLEAN /\ row.scorerErrors \in SUBSET Scorers
  BY DEF RowType
<1>2. \A i \in DOMAIN row.scores : row.scores[i].name \in Scorers
  <2>1. row.scores \in Seq(ScoreType)
    BY DEF RowType, ScoreType
  <2>2. \A i \in DOMAIN row.scores : row.scores[i] \in ScoreType
    BY <2>1
  <2> QED
    BY <2>2 DEF ScoreType
<1>3. named(DOMAIN row.scores) \in SUBSET Scorers /\ named(finite) \in SUBSET Scorers
  BY <1>2
<1>4. Item(row) = [error |-> row.error, scorerErrors |-> row.scorerErrors,
                   scores |-> named(DOMAIN row.scores), nonFinite |-> named(finite)]
  BY DEF Item
<1> HIDE DEF named, finite
<1>5. Item(row) \in ItemResult
  BY <1>1, <1>3, <1>4 DEF ItemResult
<1> QED
  BY <1>5 DEF Payload, Contribution, ItemResult, Rows, ItemStatus, Contributions

\* The three passes of finish_run, and what an evaluation's run was completed with.
LEMMA SumTypes ==
    ASSUME NEW T, NEW E, NEW S, T \in SUBSET Cases, E \in SUBSET (Cases \X Scorers),
           S \in SUBSET Cases
    PROVE  [taskErrors |-> Cardinality(T), scorerErrors |-> Cardinality(E),
            scored |-> Cardinality(S)] \in Totals
<1>1. IsFiniteSet(Cases) /\ IsFiniteSet(Cases \X Scorers)
  BY TransportAssumption, FS_Product
<1>2. Cardinality(T) \in Nat /\ Cardinality(E) \in Nat /\ Cardinality(S) \in Nat
  BY <1>1, FS_Subset, FS_CardinalityType
<1> QED
  BY <1>2 DEF Totals

LEMMA PassTypes ==
    /\ CountTaskErrors \in Nat
    /\ CountScorerErrors \in Nat
    /\ CountScored \in Nat
<1> DEFINE T == {c \in Cases : contrib[c] # None /\ contrib[c].taskError}
           E == {p \in Cases \X Scorers :
                    contrib[p[1]] # None /\ p[2] \in contrib[p[1]].scorerErrors}
           S == {c \in Cases : contrib[c] # None /\ contrib[c].scored}
<1>1. T \in SUBSET Cases /\ E \in SUBSET (Cases \X Scorers) /\ S \in SUBSET Cases
  OBVIOUS
<1> HIDE DEF T, E, S
<1>2. Cardinality(T) \in Nat /\ Cardinality(E) \in Nat /\ Cardinality(S) \in Nat
  <2>1. IsFiniteSet(Cases) /\ IsFiniteSet(Cases \X Scorers)
    BY TransportAssumption, FS_Product
  <2> QED
    BY <1>1, <2>1, FS_Subset, FS_CardinalityType
<1> QED
  BY <1>2 DEF T, E, S, CountTaskErrors, CountScorerErrors, CountScored

LEMMA UploadTypesInit == ASSUME UploadAssumption, Init PROVE TypeOK
<1>0. rows \in [Cases -> RowType] /\ Docs
  BY DocsInit DEF Init, UploadAssumption
<1>1. /\ runs \in SUBSET RunIds /\ runStatus \in {"none", "running"} \cup TerminalStatus
      /\ totals \in Totals /\ results \in [Cases -> Rows \cup {None}]
  <2>1. CASE runs = {} /\ runStatus = "none" /\ totals = NoTotals
             /\ results = [c \in Cases |-> None]
    BY <2>1 DEF NoTotals, Totals
  <2>2. ASSUME NEW stored \in SUBSET Cases, EvaluationReported(stored)
        PROVE  /\ runs \in SUBSET RunIds /\ runStatus \in {"none", "running"} \cup TerminalStatus
               /\ totals \in Totals /\ results \in [Cases -> Rows \cup {None}]
    <3> DEFINE T == {c \in stored : Item(rows[c]).error}
               E == {p \in stored \X Scorers :
                        p[2] \in Item(rows[p[1]]).scorerErrors \cup Item(rows[p[1]]).nonFinite}
               S == {c \in stored : /\ ~Item(rows[c]).error
                                    /\ Item(rows[c]).scores \ Item(rows[c]).nonFinite # {}}
               of == [taskErrors |-> Cardinality(T), scorerErrors |-> Cardinality(E),
                      scored |-> Cardinality(S)]
    <3>1. totals = of /\ runStatus = StatusOf(of)
      BY <2>2 DEF EvaluationReported
    <3>2. T \in SUBSET Cases /\ E \in SUBSET (Cases \X Scorers) /\ S \in SUBSET Cases
      OBVIOUS
    <3> HIDE DEF T, E, S
    <3>3. of \in Totals
      BY <3>2, SumTypes
    <3>4. results \in [Cases -> Rows \cup {None}]
      BY <1>0, <2>2, ItemTypes DEF EvaluationReported
    <3>5. runs \in SUBSET RunIds
      BY <2>2 DEF EvaluationReported, Init
    <3> QED
      BY <3>1, <3>3, <3>4, <3>5 DEF StatusOf, TerminalStatus
  <2>3. (runs = {} /\ runStatus = "none" /\ totals = NoTotals
             /\ results = [c \in Cases |-> None])
        \/ \E stored \in SUBSET Cases : EvaluationReported(stored)
    BY DEF Init
  <2> QED
    BY <2>1, <2>2, <2>3
<1>2. TransportTypeOK
  <2>1. sums \in Totals /\ tries \in 0 .. RetryAttempts
    BY TransportAssumption DEF Init, NoTotals, Totals
  <2> QED
    BY <1>1, <2>1 DEF Init, TransportTypeOK
<1>3. at \in 1 .. Len(CaseSeq) + 1
  BY DEF Init, UploadAssumption
<1> QED
  BY <1>0, <1>2, <1>3 DEF TypeOK, Docs, Init

\* The transport keeps its types.
LEMMA TransportKept ==
    ASSUME UploadAssumption, Docs, TypeOK, [Next]_vars
    PROVE  TransportTypeOK'
<1> USE TransportAssumption
    DEF TypeOK, TransportTypeOK, transportVars, platformVars, madeVars, fileVars
<1>1. CASE SaveBegins \/ SaveReplaces \/ Load \/ UNCHANGED vars
  BY <1>1 DEF SaveBegins, SaveReplaces, Load, vars
<1>2. CASE Crash
  <2>1. NoTotals \in Totals /\ 0 \in 0 .. RetryAttempts
    BY DEF NoTotals, Totals
  <2>2. /\ contrib' \in [Cases -> Contributions \cup {None}]
        /\ post' \in [Cases -> {"none", "sending", "applied", "ok", "failed"}]
    BY <1>2 DEF Crash
  <2> QED
    BY <1>2, <2>1, <2>2 DEF Crash
<1>3. CASE UploadBegins
  BY <1>3 DEF UploadBegins, CreateRun
<1>4. CASE Registered \/ NextRow
  BY <1>4 DEF Registered, NextRow
<1>5. CASE PostBegins
  BY <1>5 DEF PostBegins, SubmitPost
<1>6. CASE PostRequest
  <2> DEFINE c == CaseSeq[at]
             item == Item(mem.rows[c])
  <2>1. c \in Cases /\ mem.rows[c] \in RowType
    <3>1. at \in DOMAIN CaseSeq
      BY <1>6 DEF PostRequest, UploadAssumption
    <3>2. mem \in DocType
      BY <1>6 DEF PostRequest, Docs
    <3> QED
      BY <3>1, <3>2 DEF UploadAssumption, DocType
  <2>2. Payload(item) \in Rows /\ Contribution(item) \in Contributions
    BY <2>1, ItemTypes
  <2>3. PostNotApplied(c) \/ PostAnswerLost(c) \/ PostReturns(c, item) \/ PostApplied(c, item)
    BY <1>6 DEF PostRequest
  <2> HIDE DEF c, item
  <2> QED
    BY <2>1, <2>2, <2>3 DEF PostNotApplied, PostAnswerLost, PostReturns, PostApplied
<1>7. CASE UploadCompletes
  <2>1. NoTotals \in Totals /\ 0 \in 0 .. RetryAttempts
    BY DEF NoTotals, Totals
  <2> QED
    BY <1>7, <2>1 DEF UploadCompletes, FinishRun
<1>8. CASE UploadReturns \/ UploadRaises
  <2>1. CallEnds
    BY <1>8 DEF UploadReturns, UploadRaises
  <2> QED
    BY <2>1 DEF CallEnds
<1>9. CASE LifecycleCall
  <2>1. CASE CreateAttempt
    BY <2>1 DEF CreateAttempt, RegisterRun, RetryOr
  <2>2. CASE SumContributions
    <3>1. /\ [sums EXCEPT !.taskErrors = CountTaskErrors] \in Totals
          /\ [sums EXCEPT !.scorerErrors = CountScorerErrors] \in Totals
          /\ [sums EXCEPT !.scored = CountScored] \in Totals
      BY PassTypes DEF Totals
    <3>2. ASSUME NEW before, NEW next \in {"sumScorer", "sumScored", "complete"},
                 NEW summed \in Totals, SumPass(before, next, summed)
          PROVE  TransportTypeOK'
      BY <3>2 DEF SumPass
    <3> QED
      BY <2>2, <3>1, <3>2 DEF SumContributions
  <2>3. CASE CompleteAttempt
    <3>1. EffectiveStatus \in TerminalStatus
      BY DEF EffectiveStatus, TerminalStatus
    <3> QED
      BY <2>3, <3>1 DEF CompleteAttempt, StoreCompletion, RetryOr
  <2> QED
    BY <1>9, <2>1, <2>2, <2>3 DEF LifecycleCall
<1> QED
  BY <1>1, <1>2, <1>3, <1>4, <1>5, <1>6, <1>7, <1>8, <1>9 DEF Next, UploadStep

\* Where the process stands, and whether a request is out.
LEMMA PlaceKept ==
    ASSUME UploadAssumption, TypeOK, [Next]_vars
    PROVE  /\ tmp' \in {"none", "partial"}
           /\ pc' \in {"idle", "saving", "registering", "posting", "finishing"}
           /\ at' \in 1 .. Len(CaseSeq) + 1
           /\ pc' \in {"idle", "saving"} => callPc' = "idle" /\ \A c \in Cases : post'[c] = "none"
<1>0. Len(CaseSeq) \in Nat
  BY DEF UploadAssumption
<1> USE <1>0 DEF TypeOK, transportVars, fileVars
<1>1. CASE SaveBegins \/ SaveReplaces \/ Load \/ Crash \/ UNCHANGED vars
  BY <1>1 DEF SaveBegins, SaveReplaces, Load, Crash, vars
<1>2. CASE UploadBegins \/ Registered
  BY <1>2 DEF UploadBegins, Registered
<1>3. CASE PostBegins \/ PostRequest \/ NextRow \/ UploadCompletes
  BY <1>3 DEF PostBegins, PostRequest, NextRow, UploadCompletes
<1>4. CASE UploadReturns \/ UploadRaises
  BY <1>4 DEF UploadReturns, UploadRaises, CallEnds
<1>5. CASE LifecycleCall
  <2>1. callPc # "idle" /\ UNCHANGED <<pc, at, tmp>>
    BY <1>5 DEF LifecycleCall, CreateAttempt, SumContributions, SumPass, CompleteAttempt
  <2> QED
    BY <2>1
<1> QED
  BY <1>1, <1>2, <1>3, <1>4, <1>5 DEF Next, UploadStep

\* Every variable of an upload keeps its type, for any cases, rows and declarations; while
\* the process is idle or saves its artifact, no request is out.
THEOREM UploadTypes == Spec => []TypeOK
<1>1. Init => Docs /\ TypeOK
  BY DocsInit, UploadTypesInit, UploadAssumption
<1>2. Docs /\ TypeOK /\ [Next]_vars => (Docs /\ TypeOK)'
  <2> SUFFICES ASSUME Docs, TypeOK, [Next]_vars PROVE Docs' /\ TypeOK'
    OBVIOUS
  <2>1. Docs' /\ TransportTypeOK'
    BY DocsKept, TransportKept, UploadAssumption
  <2>2. rows' = rows /\ runKey' = runKey
    BY RowsKept
  <2> QED
    BY <2>1, <2>2, PlaceKept, UploadAssumption DEF Docs, TypeOK
<1> QED BY <1>1, <1>2, PTL DEF Spec
=============================================================================
