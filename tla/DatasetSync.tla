----------------------------- MODULE DatasetSync -----------------------------
(***************************************************************************)
(* A dataset and its server versions: authoring (eval/types.py, Dataset),   *)
(* explicit publication (eval/dataset_sync.py, PlatformDatasetSync), pulls   *)
(* and the record of the pinned content (eval/platform.py), and evaluate(),  *)
(* which publishes a drifted dataset and pins the version its run reports    *)
(* (eval/engine.py, _auto_publish and _auto_transport).                      *)
(*                                                                         *)
(* One process holds the dataset; a push is five requests long, and another *)
(* writer may publish between any two of them.  Only the platform is         *)
(* external: it accepts a version iff its base is the current version, and   *)
(* the new version is that base with the sent cases put in.                  *)
(***************************************************************************)
EXTENDS Integers, Sequences

CONSTANTS
    Inputs,        \* the inputs a case may have, up to canonical equality
    MaxOccurrence, \* bound: cases of one input beyond the first
    Values,        \* what else a case holds: expected output, metadata
    Names,         \* display names: metadata, not content
    MaxVersions,   \* bound: versions on the server
    MayReload,     \* the dataset may be saved and loaded
    None           \* no case, no dataset row, nothing remembered, no run

ASSUME DatasetAssumption ==
    /\ MaxOccurrence \in Nat
    /\ MaxVersions \in Nat
    /\ MayReload \in BOOLEAN
    /\ None \notin Values \cup Names

VARIABLES
    cases,      \* _cases: id -> what the case holds, or None
    archived,   \* the ids of archived cases
    name,       \* name
    base,       \* base_version_id, 0 for None
    pin,        \* dataset_version_id, 0 for None
    remembered, \* _PINNED_REVISION of this dataset, or None
    pushPc,     \* the request push_dataset is at
    caller,     \* who pushes: Dataset.push or evaluate()
    sentBase,   \* the base_version_id of the push
    current,    \* the current version as the push read it
    fetched,    \* the content of that version could be read
    outcome,    \* how the last push ended, until the dataset is used again
    run,        \* the run evaluate() registered, until the dataset is used again
    versions,   \* server: content of each version
    remoteName, \* server: name of the dataset row, or None
    edited,     \* history: ids edited since this content met a version
    explicit,   \* history: the pin was moved by Dataset.push
    touched,    \* history: this push changed something on the server
    renamed     \* history: another writer named the dataset after this push did

localVars  == <<cases, archived, name>>
pinVars    == <<base, pin, remembered>>
pushVars   == <<pushPc, caller, sentBase, current, fetched>>
serverVars == <<versions, remoteName>>
vars == <<localVars, pinVars, pushVars, outcome, run, serverVars, edited, explicit, touched,
          renamed>>

\* The id of a case: a hash of the dataset's key, the input and an occurrence.
Ids == Inputs \X (0 .. MaxOccurrence)
Contents == [Ids -> Values \cup {None}]
Empty == [id \in Ids |-> None]

\* The active cases.  The revision hashes exactly this, whatever the order.
Active == [id \in Ids |-> IF id \in archived THEN None ELSE cases[id]]
Current == Len(versions)
Idle == pushPc = "idle"

TypeOK ==
    /\ cases \in Contents
    /\ archived \in SUBSET {id \in Ids : cases[id] # None}
    /\ name \in Names
    /\ base \in 0 .. Current /\ pin \in 0 .. Current
    /\ remembered \in Contents \cup {None}
    /\ pushPc \in {"idle", "look", "compare", "confirm", "noop", "upsert", "publish"}
    /\ caller \in {"push", "evaluate"}
    /\ sentBase \in 0 .. Current /\ current \in 0 .. Current
    /\ fetched \in BOOLEAN
    /\ outcome \in {"none", "uploaded", "aborted", "conflict", "error"}
    /\ run \in [version: 1 .. Current, of: {"dataset", "snapshot"}] \cup {None}
    /\ versions \in Seq(Contents) /\ Current <= MaxVersions
    /\ remoteName \in Names \cup {None}
    /\ edited \in SUBSET Ids
    /\ explicit \in BOOLEAN
    /\ touched \in BOOLEAN
    /\ renamed \in BOOLEAN

Init ==
    /\ cases = Empty
    /\ archived = {}
    /\ name \in Names
    /\ base = 0
    /\ pin = 0
    /\ remembered = None
    /\ pushPc = "idle"
    /\ caller = "push"
    /\ sentBase = 0
    /\ current = 0
    /\ fetched = FALSE
    /\ outcome = "none"
    /\ run = None
    /\ versions = <<>>
    /\ remoteName = None
    /\ edited = {}
    /\ explicit = FALSE
    /\ touched = FALSE
    /\ renamed = FALSE

-----------------------------------------------------------------------------
(* Authoring: no network, no version.                                        *)

\* The last push and the last run are behind it.
UsedAgain == outcome' = "none" /\ run' = None /\ touched' = FALSE /\ renamed' = FALSE

EditOnly(id) ==
    /\ edited' = edited \cup {id}
    /\ UsedAgain
    /\ UNCHANGED <<name, pinVars, pushVars, serverVars, explicit>>

\* _content_id: the first occurrence of the input that no case holds.
FirstFree(id) ==
    /\ cases[id] = None
    /\ \A n \in 0 .. (id[2] - 1) : cases[<<id[1], n>>] # None

\* add, or upsert of an anonymous case.
Add(id, v) ==
    /\ Idle
    /\ FirstFree(id)
    /\ cases' = [cases EXCEPT ![id] = v]
    /\ UNCHANGED archived
    /\ EditOnly(id)

\* upsert of a case that carries its id, which may be new here, and its archived flag;
\* add with an id of its own is the case of a new id.
Upsert(id, v) ==
    /\ Idle
    /\ cases' = [cases EXCEPT ![id] = v]
    /\ archived' \in {archived \ {id}, archived \cup {id}}
    /\ EditOnly(id)

\* update: an archived case stays archived.
Update(id, v) ==
    /\ Idle
    /\ cases[id] # None
    /\ cases' = [cases EXCEPT ![id] = v]
    /\ UNCHANGED archived
    /\ EditOnly(id)

Archive(id) ==
    /\ Idle
    /\ cases[id] # None
    /\ archived' = archived \cup {id}
    /\ UNCHANGED cases
    /\ EditOnly(id)

Remove(id) ==
    /\ Idle
    /\ cases[id] # None
    /\ cases' = [cases EXCEPT ![id] = None]
    /\ archived' = archived \ {id}
    /\ EditOnly(id)

Rename(n) ==
    /\ Idle
    /\ name' = n
    /\ UsedAgain
    /\ UNCHANGED <<cases, archived, pinVars, pushVars, serverVars, edited, explicit>>

\* save and load: the ids survive, what the process remembered does not.
Reload ==
    /\ MayReload
    /\ Idle
    /\ remembered' = None
    /\ UsedAgain
    /\ UNCHANGED <<localVars, base, pin, pushVars, serverVars, edited, explicit>>

\* pull_dataset, pull_dataset_version: a new dataset, pinned to version v, whose
\* base_version_id is not set.
Pull(v) ==
    /\ Idle
    /\ cases' = versions[v]
    /\ archived' = {}
    /\ name' = remoteName
    /\ base' = 0
    /\ pin' = v
    /\ remembered' = versions[v]
    /\ edited' = {}
    /\ explicit' = FALSE
    /\ UsedAgain
    /\ UNCHANGED <<pushVars, serverVars>>

-----------------------------------------------------------------------------
(* evaluate() on a dataset.                                                  *)

\* pinned_content_changed: what is not remembered is not known to have changed.
Drifted == remembered # None /\ remembered # Active

\* create_run, with the version the dataset is pinned to.
Register(v, what) == run' = [version |-> v, of |-> what]

BeginPush(who, b) ==
    /\ pushPc' = "look"
    /\ caller' = who
    /\ sentBase' = b
    /\ UsedAgain
    /\ UNCHANGED <<localVars, pinVars, current, fetched, serverVars, edited, explicit>>

\* Mutant: only a dataset that was never published is published.
EvaluateTrustingPin ==
    /\ Idle
    /\ Active # Empty
    /\ IF pin = 0
       THEN BeginPush("evaluate", IF base # 0 THEN base ELSE pin)
       ELSE /\ Register(pin, "dataset")
            /\ UNCHANGED <<localVars, pinVars, pushVars, outcome, serverVars, edited,
                           explicit, touched, renamed>>

\* Without a pin, or drifted from it, the dataset is published first.
Evaluate ==
    /\ Idle
    /\ Active # Empty
    /\ IF pin = 0 \/ Drifted
       THEN BeginPush("evaluate", IF base # 0 THEN base ELSE pin)
       ELSE /\ Register(pin, "dataset")
            /\ UNCHANGED <<localVars, pinVars, pushVars, outcome, serverVars, edited,
                           explicit, touched, renamed>>

\* evaluate(dataset.snapshot()): the version is the snapshot's base_version_id;
\* without one there is no synced dataset, and nothing runs.
EvaluateSnapshot ==
    /\ Idle
    /\ Active # Empty
    /\ base # 0
    /\ Register(base, "snapshot")
    /\ UNCHANGED <<localVars, pinVars, pushVars, outcome, serverVars, edited, explicit,
                   touched, renamed>>

-----------------------------------------------------------------------------
(* push_dataset, one action per request.                                     *)

Push == Idle /\ BeginPush("push", base)

\* The variables of the call are gone.
Return == caller' = "push" /\ sentBase' = 0 /\ current' = 0 /\ fetched' = FALSE

\* The push raises; evaluate() restates the error, and registers no run.
PushEnds(how) ==
    /\ pushPc' = "idle"
    /\ outcome' = how
    /\ Return
    /\ UNCHANGED <<localVars, pinVars, run, edited, explicit>>

\* Mutant: the base is the version just read, not the one the content stands on.
LookAdoptsBase ==
    /\ pushPc = "look"
    /\ current' = Current
    /\ sentBase' = Current
    /\ pushPc' = IF versions = <<>> THEN "upsert" ELSE "compare"
    /\ UNCHANGED <<localVars, pinVars, caller, fetched, outcome, run, serverVars, edited,
                   explicit, touched, renamed>>

\* _existing_dataset: only a 404, or a row without a version, means "new".
Look ==
    /\ pushPc = "look"
    /\ \/ /\ current' = Current
          /\ pushPc' = IF versions = <<>> THEN "upsert" ELSE "compare"
          /\ UNCHANGED <<localVars, pinVars, caller, sentBase, fetched, outcome, run,
                         serverVars, edited, explicit, touched, renamed>>
       \/ PushEnds("error") /\ UNCHANGED <<serverVars, touched, renamed>>

\* Mutants: archived cases take part in the revision; a version that cannot be
\* read is taken to be unchanged; the metadata is sent before the confirmation.
CompareAll ==
    /\ pushPc = "compare"
    /\ fetched' = TRUE
    /\ pushPc' = IF versions[current] = cases THEN "noop" ELSE "confirm"
    /\ UNCHANGED <<localVars, pinVars, caller, sentBase, current, outcome, run, serverVars,
                   edited, explicit, touched, renamed>>
CompareOptimist ==
    /\ pushPc = "compare"
    /\ \E f \in BOOLEAN :
          /\ fetched' = f
          /\ pushPc' = IF f => versions[current] = Active THEN "noop" ELSE "confirm"
    /\ UNCHANGED <<localVars, pinVars, caller, sentBase, current, outcome, run, serverVars,
                   edited, explicit, touched, renamed>>
CompareSendsMetadata ==
    /\ pushPc = "compare"
    /\ fetched' = TRUE
    /\ pushPc' = IF versions[current] = Active THEN "noop" ELSE "confirm"
    /\ remoteName' = name
    /\ touched' = TRUE
    /\ UNCHANGED <<localVars, pinVars, caller, sentBase, current, outcome, run, versions,
                   edited, explicit, renamed>>

\* _published_revision: a version that cannot be read is taken to be different.
Compare ==
    /\ pushPc = "compare"
    /\ \E f \in BOOLEAN :
          /\ fetched' = f
          /\ pushPc' = IF f /\ versions[current] = Active THEN "noop" ELSE "confirm"
    /\ UNCHANGED <<localVars, pinVars, caller, sentBase, current, outcome, run, serverVars,
                   edited, explicit, touched, renamed>>

\* A new version of an existing dataset is confirmed; evaluate() always agrees.
Confirm ==
    /\ pushPc = "confirm"
    /\ \/ /\ pushPc' = "upsert"
          /\ UNCHANGED <<localVars, pinVars, caller, sentBase, current, fetched, outcome, run,
                         serverVars, edited, explicit, touched, renamed>>
       \/ caller = "push" /\ PushEnds("aborted") /\ UNCHANGED <<serverVars, touched, renamed>>

\* Mutant: a push by evaluate() moves the pin and leaves the base behind.
UploadedPinOnly(v) ==
    /\ pushPc' = "idle"
    /\ outcome' = "uploaded"
    /\ pin' = v
    /\ edited' = {}
    /\ explicit' = (caller = "push")
    /\ IF caller = "evaluate"
       THEN remembered' = Active /\ Register(v, "dataset")
       ELSE UNCHANGED <<remembered, run>>
    /\ base' = IF caller = "push" THEN v ELSE base
    /\ Return
    /\ UNCHANGED localVars

\* The push returns: the dataset is pinned to v, which a push by evaluate() also
\* remembers before it registers its run.
Uploaded(v) ==
    /\ pushPc' = "idle"
    /\ outcome' = "uploaded"
    /\ pin' = v
    /\ base' = v
    /\ edited' = {}
    /\ explicit' = (caller = "push")
    /\ IF caller = "evaluate"
       THEN remembered' = Active /\ Register(v, "dataset")
       ELSE UNCHANGED <<remembered, run>>
    /\ Return
    /\ UNCHANGED localVars

StoreMetadata ==
    /\ remoteName' = name
    /\ touched' = TRUE
    /\ renamed' = FALSE
    /\ UNCHANGED versions

\* Mutant: unchanged content needs no request at all.
NoopSilent ==
    /\ pushPc = "noop"
    /\ Uploaded(current)
    /\ UNCHANGED <<serverVars, touched, renamed>>

\* Unchanged content: the metadata is sent, the version is the current one.
Noop ==
    /\ pushPc = "noop"
    /\ \/ StoreMetadata /\ Uploaded(current)
       \/ StoreMetadata /\ PushEnds("error")                         \* answer lost
       \/ UNCHANGED <<serverVars, touched, renamed>> /\ PushEnds("error")

\* The metadata goes first; a snapshot without active cases is refused after it.
UpsertDataset ==
    /\ pushPc = "upsert"
    /\ \/ /\ StoreMetadata
          /\ Active # Empty
          /\ pushPc' = "publish"
          /\ UNCHANGED <<localVars, pinVars, caller, sentBase, current, fetched, outcome, run,
                         edited, explicit>>
       \/ StoreMetadata /\ PushEnds("error")        \* empty, or the answer is lost
       \/ UNCHANGED <<serverVars, touched, renamed>> /\ PushEnds("error")

\* The platform's new version: the base, with the active cases put in.
StoreVersion ==
    /\ sentBase = Current
    /\ Current < MaxVersions
    /\ versions' = Append(versions,
          [id \in Ids |-> IF Active[id] # None THEN Active[id]
                          ELSE IF Current = 0 THEN None ELSE versions[Current][id]])
    /\ touched' = TRUE
    /\ UNCHANGED <<remoteName, renamed>>

Publish ==
    /\ pushPc = "publish"
    /\ \/ StoreVersion /\ Uploaded(Current + 1)
       \/ StoreVersion /\ PushEnds("error")                                 \* answer lost
       \/ sentBase # Current /\ PushEnds("conflict") /\ UNCHANGED <<serverVars, touched, renamed>>
       \/ PushEnds("error") /\ UNCHANGED <<serverVars, touched, renamed>>

-----------------------------------------------------------------------------
\* Another process, or the platform's own editor, names the dataset ...
OtherNames ==
    /\ remoteName' \in Names
    /\ renamed' = (renamed \/ (pushPc = "publish" /\ remoteName' # name))
    /\ UNCHANGED <<localVars, pinVars, pushVars, outcome, run, versions, edited, explicit,
                   touched>>

\* ... and publishes a version, which takes a dataset that is there.
OtherPublishes ==
    /\ remoteName # None
    /\ Current < MaxVersions
    /\ \E id \in Ids, v \in Values \cup {None} :
          LET before == IF Current = 0 THEN Empty ELSE versions[Current]
              after  == [before EXCEPT ![id] = v]
          IN  after # Empty /\ versions' = Append(versions, after)
    /\ UNCHANGED <<localVars, pinVars, pushVars, outcome, run, remoteName, edited, explicit,
                   touched, renamed>>

Author ==
    \/ \E id \in Ids :
          \/ \E v \in Values : Add(id, v) \/ Upsert(id, v) \/ Update(id, v)
          \/ Archive(id) \/ Remove(id)
    \/ \E n \in Names : Rename(n)
    \/ Reload
    \/ \E v \in 1 .. Current : Pull(v)

PushStep == Look \/ Compare \/ Confirm \/ Noop \/ UpsertDataset \/ Publish

Other == OtherNames \/ OtherPublishes

Next == Author \/ Evaluate \/ EvaluateSnapshot \/ Push \/ PushStep \/ Other

Spec == Init /\ [][Next]_vars

-----------------------------------------------------------------------------
(* Properties                                                                *)

Holds(content, some) == \A id \in Ids : some[id] # None => content[id] = some[id]

\* Optimistic concurrency (base_version_id): a version this process publishes changes,
\* of the version before it, only cases that were edited here since this dataset last
\* stood on a version; what another writer published is never undone.
NoLostUpdate ==
    [][Publish /\ versions' # versions /\ Current > 0 =>
          \A id \in Ids \ edited : versions'[Current + 1][id] = versions[Current][id]]_vars

\* A push that reports "uploaded" pins a version that holds every active case, whether
\* it published that version or found it there.
UploadedHoldsSnapshot ==
    [][~Idle /\ outcome' = "uploaded" => Holds(versions'[pin'], Active)]_vars

\* Re-pushing unchanged content publishes nothing (dataset_sync.py:246), also when the
\* push that published it lost its answer: a version equal to the one before it comes
\* only from a read that failed, or from a case that is on the server and not here,
\* which no push removes.
NoIdleVersion ==
    [][Publish /\ versions' # versions /\ Current > 0 =>
          \/ versions'[Current + 1] # versions[Current]
          \/ ~fetched
          \/ ~Holds(Active, versions[Current])]_vars

\* "A declined publish leaves the remote entirely untouched" (dataset_sync.py:262).
DeclineTouchesNothing == outcome = "aborted" => ~touched

\* A push that reports "uploaded" has delivered the display name, also when the content
\* was unchanged and no version was needed (dataset_sync.py:255): it is the name on the
\* platform, unless another writer gave one after this push had sent its own.
UploadedIsNamed ==
    [][~Idle /\ outcome' = "uploaded" => remoteName' = name \/ renamed']_vars

\* A run of a dataset whose pinned content is remembered, and not pushed explicitly since,
\* reports a version that holds every case it scored, however the dataset was edited.
RememberedRunPinsWhatItScored ==
    run # None /\ run.of = "dataset" /\ remembered # None /\ ~explicit =>
        Holds(versions[run.version], Active)

\* "a run must not pin a version that no longer describes what it scored"
\* (platform.py:159), for every run of a dataset that was not loaded from disk.
RunPinsWhatItScored ==
    run # None /\ run.of = "dataset" => Holds(versions[run.version], Active)

\* The dataset implements module WorkingCopy: however the requests of its pushes, lost
\* answers and other writers interleave (dataset_sync.py:297), each version it publishes
\* is one atomic commit, made only by content that stands on the latest version
\* (base_version_id), and merges into it exactly the cases edited here.
Stands == IF base # 0 THEN base ELSE pin
Copy == INSTANCE WorkingCopy WITH copy <- Active, stands <- Stands
KeepsCopy == Copy!Spec

-----------------------------------------------------------------------------
(* The inductive invariant behind the theorems of DatasetProofs.              *)

\* Version v holds every active case that was not edited since.
Fits(v) == \A id \in Ids \ edited : Active[id] # None => versions[v][id] = Active[id]

\* What was not edited here is what the version the dataset stands on holds.
BaseInv ==
    /\ base # 0 => Fits(base)
    /\ base = 0 /\ pin # 0 => Fits(pin)
    /\ ~Idle /\ sentBase # 0 => Fits(sentBase)

\* What is remembered of the pin is true of it, unless Dataset.push moved the pin.
PinInv == remembered # None /\ ~explicit => pin # 0 /\ Holds(versions[pin], remembered)

\* What the requests of a push have found out, for as long as it lasts.
ReadInv ==
    /\ ~Idle => outcome = "none" /\ run = None
    /\ Current > 0 => remoteName # None
    /\ pushPc \in {"idle", "look"} => ~fetched
    /\ pushPc \notin {"idle", "look"} => sentBase <= current
    /\ pushPc \in {"compare", "noop"} \/ fetched => current # 0
    /\ pushPc = "noop" => versions[current] = Active
    /\ pushPc \in {"confirm", "upsert", "publish"} /\ fetched => versions[current] # Active
    /\ pushPc = "publish" => remoteName # None /\ (remoteName = name \/ renamed)

\* Nothing is sent before the confirmation.
DeclineInv ==
    /\ pushPc \in {"look", "compare", "confirm", "noop"} => ~touched
    /\ DeclineTouchesNothing

DatasetInv ==
    /\ TypeOK /\ BaseInv /\ PinInv /\ ReadInv /\ DeclineInv
    /\ RememberedRunPinsWhatItScored

\* For KeepsCopy: every active case of a dataset that never met a version was put in
\* here, and a push is based on no version, or on the one the dataset stands on.
StandsInv ==
    /\ Stands = 0 => \A id \in Ids \ edited : Active[id] = None
    /\ ~Idle => sentBase \in {0, Stands}

=============================================================================
