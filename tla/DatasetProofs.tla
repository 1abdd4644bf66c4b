---------------------------- MODULE DatasetProofs ----------------------------
(***************************************************************************)
(* Proofs about DatasetSync, for any inputs, values, names and versions:    *)
(* what a push may publish, what it reports, and what a run pins, whatever  *)
(* another writer publishes between its requests.                           *)
(***************************************************************************)
EXTENDS DatasetSync, SequenceTheorems, TLAPS

-----------------------------------------------------------------------------
(* Contents and versions.                                                     *)

LEMMA ActiveType == TypeOK => Active \in Contents
  BY DEF TypeOK, Contents, Active

\* A version once published stays what it is.
LEMMA Versions ==
    ASSUME TypeOK
    PROVE  /\ Current \in Nat
           /\ \A v \in 1 .. Current : versions[v] \in Contents
<1>1. versions \in Seq(Contents)
  BY DEF TypeOK
<1> QED BY <1>1, LenProperties, ElementOfSeq DEF Current

LEMMA Publishing ==
    ASSUME TypeOK, NEW content \in Contents, versions' = Append(versions, content)
    PROVE  /\ versions' \in Seq(Contents)
           /\ Current' = Current + 1 /\ Current \in Nat
           /\ \A v \in 1 .. Current : versions'[v] = versions[v]
           /\ versions'[Current + 1] = content
<1>1. versions \in Seq(Contents)
  BY DEF TypeOK
<1> QED BY <1>1, AppendProperties, LenProperties DEF Current

-----------------------------------------------------------------------------
(* Authoring.                                                                 *)

\* Whatever an edit does to one case, the others still stand on their version.
LEMMA EditKeeps ==
    ASSUME DatasetInv, NEW id \in Ids, Idle, EditOnly(id), cases' \in Contents,
           archived' \in SUBSET {i \in Ids : cases'[i] # None},
           \A j \in Ids \ {id} : cases'[j] = cases[j] /\ (j \in archived' <=> j \in archived)
    PROVE  DatasetInv'
<1> USE DEF EditOnly, UsedAgain, pinVars, pushVars, serverVars, Idle
<1>1. \A j \in Ids \ {id} : Active'[j] = Active[j]
  BY DEF Active
<1>2. TypeOK'
  BY DEF DatasetInv, TypeOK, Current
<1>3. BaseInv'
  BY <1>1 DEF DatasetInv, BaseInv, Fits
<1>4. PinInv'
  BY DEF DatasetInv, PinInv, Holds
<1>5. ReadInv'
  BY DEF DatasetInv, ReadInv, Current
<1>6. DeclineInv'
  BY DEF DatasetInv, DeclineInv, DeclineTouchesNothing
<1>7. RememberedRunPinsWhatItScored'
  BY DEF RememberedRunPinsWhatItScored
<1> QED BY <1>2, <1>3, <1>4, <1>5, <1>6, <1>7 DEF DatasetInv

LEMMA EditStep ==
    ASSUME DatasetInv, NEW id \in Ids,
           \/ \E v \in Values : Add(id, v) \/ Upsert(id, v) \/ Update(id, v)
           \/ Archive(id) \/ Remove(id)
    PROVE  DatasetInv'
<1>1. cases \in Contents /\ archived \in SUBSET {i \in Ids : cases[i] # None}
  BY DEF DatasetInv, TypeOK
<1>2. \A v \in Values : v # None
  BY DatasetAssumption
<1>3. ASSUME NEW v \in Values, Add(id, v) PROVE DatasetInv'
  <2>1. cases' = [cases EXCEPT ![id] = v] /\ archived' = archived /\ Idle /\ EditOnly(id)
    BY <1>3 DEF Add
  <2>2. cases' \in Contents /\ cases'[id] = v /\ \A j \in Ids \ {id} : cases'[j] = cases[j]
    BY <1>1, <2>1 DEF Contents
  <2>3. archived' \in SUBSET {i \in Ids : cases'[i] # None}
    BY <1>1, <1>2, <2>1, <2>2
  <2> QED BY <2>1, <2>2, <2>3, EditKeeps
<1>4. ASSUME NEW v \in Values, Upsert(id, v) PROVE DatasetInv'
  <2>1. /\ cases' = [cases EXCEPT ![id] = v] /\ Idle /\ EditOnly(id)
        /\ archived' \in {archived \ {id}, archived \cup {id}}
    BY <1>4 DEF Upsert
  <2>2. cases' \in Contents /\ cases'[id] = v /\ \A j \in Ids \ {id} : cases'[j] = cases[j]
    BY <1>1, <2>1 DEF Contents
  <2>3. archived' \in SUBSET {i \in Ids : cases'[i] # None}
    BY <1>1, <1>2, <2>1, <2>2
  <2> QED BY <2>1, <2>2, <2>3, EditKeeps
<1>5. ASSUME NEW v \in Values, Update(id, v) PROVE DatasetInv'
  <2>1. cases' = [cases EXCEPT ![id] = v] /\ archived' = archived /\ Idle /\ EditOnly(id)
    BY <1>5 DEF Update
  <2>2. cases' \in Contents /\ cases'[id] = v /\ \A j \in Ids \ {id} : cases'[j] = cases[j]
    BY <1>1, <2>1 DEF Contents
  <2>3. archived' \in SUBSET {i \in Ids : cases'[i] # None}
    BY <1>1, <1>2, <2>1, <2>2
  <2> QED BY <2>1, <2>2, <2>3, EditKeeps
<1>6. CASE Archive(id)
  <2>1. cases' = cases /\ archived' = archived \cup {id} /\ Idle /\ EditOnly(id) /\ cases[id] # None
    BY <1>6 DEF Archive
  <2> QED BY <1>1, <2>1, EditKeeps
<1>7. CASE Remove(id)
  <2>1. cases' = [cases EXCEPT ![id] = None] /\ archived' = archived \ {id} /\ Idle /\ EditOnly(id)
    BY <1>7 DEF Remove
  <2>2. cases' \in Contents /\ \A j \in Ids \ {id} : cases'[j] = cases[j]
    BY <1>1, <2>1 DEF Contents
  <2>3. archived' \in SUBSET {i \in Ids : cases'[i] # None}
    BY <1>1, <2>1, <2>2
  <2> QED BY <2>1, <2>2, <2>3, EditKeeps
<1> QED BY <1>3, <1>4, <1>5, <1>6, <1>7

\* A new name, or a round trip through a file, changes no content.
LEMMA NameStep ==
    ASSUME DatasetInv, (\E n \in Names : Rename(n)) \/ Reload
    PROVE  DatasetInv'
<1> USE DEF Rename, Reload, UsedAgain, localVars, pinVars, pushVars, serverVars, Idle
<1>1. Active' = Active
  BY DEF Active
<1>2. TypeOK'
  BY DEF DatasetInv, TypeOK, Current
<1>3. BaseInv'
  BY <1>1 DEF DatasetInv, BaseInv, Fits
<1>4. PinInv'
  BY DEF DatasetInv, PinInv, Holds
<1>5. ReadInv'
  BY DEF DatasetInv, ReadInv, Current
<1>6. DeclineInv'
  BY DEF DatasetInv, DeclineInv, DeclineTouchesNothing
<1>7. RememberedRunPinsWhatItScored'
  BY DEF RememberedRunPinsWhatItScored
<1> QED BY <1>2, <1>3, <1>4, <1>5, <1>6, <1>7 DEF DatasetInv

\* A pull replaces the dataset by a version, and stands on it.
LEMMA PullStep == ASSUME DatasetInv, NEW v \in 1 .. Current, Pull(v) PROVE DatasetInv'
<1> USE DEF Pull, UsedAgain, pushVars, serverVars, Idle
<1>0. TypeOK /\ Current \in Nat /\ versions[v] \in Contents
  BY Versions DEF DatasetInv
<1>1. Active' = versions[v]
  BY <1>0 DEF Active, Contents
<1>2. TypeOK'
  <2>1. name' \in Names
    BY <1>0 DEF DatasetInv, ReadInv, TypeOK
  <2>2. Current' = Current /\ 0 \in 0 .. Current
    BY <1>0 DEF Current
  <2>3. cases' \in Contents /\ archived' \in SUBSET {id \in Ids : cases'[id] # None}
    BY <1>0
  <2>4. base' \in 0 .. Current /\ pin' \in 0 .. Current /\ remembered' \in Contents \cup {None}
    BY <1>0, <2>2
  <2>5. run' = None /\ outcome' = "none" /\ touched' \in BOOLEAN /\ renamed' \in BOOLEAN /\ explicit' \in BOOLEAN /\ edited' \in SUBSET Ids
    OBVIOUS
  <2>6. UNCHANGED <<pushPc, caller, sentBase, current, fetched, versions, remoteName>>
    OBVIOUS
  <2> HIDE DEF Pull
  <2> QED BY <1>0, <2>1, <2>2, <2>3, <2>4, <2>5, <2>6 DEF TypeOK
<1>3. BaseInv'
  <2>1. base' = 0 /\ pin' = v /\ pushPc' = "idle" /\ versions' = versions
    OBVIOUS
  <2> QED BY <1>1, <2>1 DEF BaseInv, Fits
<1>4. PinInv'
  BY <1>0 DEF PinInv, Holds
<1>5. ReadInv'
  BY DEF DatasetInv, ReadInv, Current
<1>6. DeclineInv'
  BY DEF DatasetInv, DeclineInv, DeclineTouchesNothing
<1>7. RememberedRunPinsWhatItScored'
  BY DEF RememberedRunPinsWhatItScored
<1> QED BY <1>2, <1>3, <1>4, <1>5, <1>6, <1>7 DEF DatasetInv

-----------------------------------------------------------------------------
(* evaluate(), and the requests of a push.                                    *)

\* A push begins on the version that what was not edited stands on.
LEMMA BeginStep ==
    ASSUME DatasetInv, Idle, NEW who \in {"push", "evaluate"}, NEW b \in {base, pin},
           b = base \/ base = 0, BeginPush(who, b)
    PROVE  DatasetInv'
<1> USE DEF BeginPush, UsedAgain, localVars, pinVars, serverVars, Idle
<1>1. Active' = Active
  BY DEF Active
<1>2. TypeOK'
  BY DEF DatasetInv, TypeOK, Current
<1>3. BaseInv'
  BY <1>1 DEF DatasetInv, BaseInv, Fits
<1>4. PinInv'
  BY DEF DatasetInv, PinInv, Holds
<1>5. ReadInv'
  BY DEF DatasetInv, ReadInv, Current
<1>6. DeclineInv'
  BY DEF DatasetInv, DeclineInv, DeclineTouchesNothing
<1>7. RememberedRunPinsWhatItScored'
  BY DEF RememberedRunPinsWhatItScored
<1> QED BY <1>2, <1>3, <1>4, <1>5, <1>6, <1>7 DEF DatasetInv

\* A run is registered without a push only when the pin still describes the dataset.
LEMMA EvaluateStep == ASSUME DatasetInv, Evaluate \/ EvaluateSnapshot PROVE DatasetInv'
<1>1. CASE Evaluate /\ (pin = 0 \/ Drifted)
  <2>1. Idle /\ BeginPush("evaluate", IF base # 0 THEN base ELSE pin)
    BY <1>1 DEF Evaluate
  <2>2. CASE base # 0
    BY <2>1, <2>2, BeginStep
  <2>3. CASE base = 0
    BY <2>1, <2>3, BeginStep
  <2> QED BY <2>2, <2>3
<1>2. CASE EvaluateSnapshot \/ (Evaluate /\ ~(pin = 0 \/ Drifted))
  <2> USE DEF localVars, pinVars, pushVars, serverVars
  <2>1. /\ UNCHANGED <<localVars, pinVars, pushVars, outcome, serverVars, edited, explicit, touched, renamed>>
        /\ Idle
        /\ \/ base # 0 /\ run' = [version |-> base, of |-> "snapshot"]
           \/ pin # 0 /\ ~Drifted /\ run' = [version |-> pin, of |-> "dataset"]
    BY <1>2 DEF Evaluate, EvaluateSnapshot, Register
  <2>2. Active' = Active
    BY <2>1 DEF Active
  <2>3. TypeOK'
    <3>1. run' \in [version: 1 .. Current, of: {"dataset", "snapshot"}]
      BY <2>1, Versions DEF DatasetInv, TypeOK
    <3> QED BY <2>1, <3>1 DEF DatasetInv, TypeOK, Current
  <2>4. BaseInv'
    BY <2>1, <2>2 DEF DatasetInv, BaseInv, Fits, Idle
  <2>5. PinInv'
    BY <2>1 DEF DatasetInv, PinInv, Holds
  <2>6. ReadInv'
    BY <2>1 DEF DatasetInv, ReadInv, Current, Idle
  <2>7. DeclineInv'
    BY <2>1 DEF DatasetInv, DeclineInv, DeclineTouchesNothing
  <2>8. RememberedRunPinsWhatItScored'
    <3>1. CASE run'.of = "snapshot"
      BY <3>1 DEF RememberedRunPinsWhatItScored
    <3>2. CASE run'.of # "snapshot" /\ remembered # None /\ ~explicit
      <4>1. run'.version = pin /\ remembered = Active
        BY <2>1, <3>2 DEF Drifted
      <4> QED BY <2>1, <2>2, <3>2, <4>1 DEF DatasetInv, PinInv, RememberedRunPinsWhatItScored, Holds
    <3>3. CASE ~(remembered # None /\ ~explicit)
      BY <2>1, <3>3 DEF RememberedRunPinsWhatItScored
    <3> QED BY <3>1, <3>2, <3>3
  <2> QED BY <2>3, <2>4, <2>5, <2>6, <2>7, <2>8 DEF DatasetInv
<1> QED BY <1>1, <1>2

\* A push that fails, conflicts or is declined leaves the dataset as it was; what it
\* sent before may stay.
LEMMA EndsKeeps ==
    ASSUME DatasetInv, ~Idle, NEW how \in {"aborted", "conflict", "error"}, PushEnds(how),
           TypeOK', Current \in Nat, Current' \in Nat, Current <= Current',
           \A v \in 1 .. Current : versions'[v] = versions[v],
           Current' > 0 => remoteName' # None,
           how = "aborted" => ~touched'
    PROVE  DatasetInv'
<1> USE DEF PushEnds, Return, localVars, pinVars, Idle
<1>1. Active' = Active
  BY DEF Active
<1>2. base \in 0 .. Current /\ pin \in 0 .. Current
  BY DEF DatasetInv, TypeOK
<1>3. BaseInv'
  BY <1>1, <1>2 DEF DatasetInv, BaseInv, Fits
<1>4. PinInv'
  BY <1>2 DEF DatasetInv, PinInv, Holds
<1>5. ReadInv'
  BY DEF DatasetInv, ReadInv
<1>6. DeclineInv'
  BY DEF DatasetInv, DeclineInv, DeclineTouchesNothing
<1>7. RememberedRunPinsWhatItScored'
  BY DEF DatasetInv, ReadInv, RememberedRunPinsWhatItScored
<1> QED BY <1>3, <1>4, <1>5, <1>6, <1>7 DEF DatasetInv

\* The push goes on to its next request.
Goes(pc) ==
    /\ pushPc' = pc
    /\ UNCHANGED <<localVars, pinVars, caller, sentBase, outcome, run, versions, edited, explicit>>

LEMMA GoesKeeps ==
    ASSUME DatasetInv, ~Idle, NEW pc \in {"compare", "confirm", "noop", "upsert", "publish"}, Goes(pc),
           current' \in 0 .. Current, fetched' \in BOOLEAN, touched' \in BOOLEAN,
           renamed' \in BOOLEAN,
           remoteName' \in Names \cup {None}, sentBase <= current',
           remoteName' = remoteName \/ remoteName' = name,
           pc \in {"compare", "noop"} \/ fetched' => current' # 0,
           pc = "noop" => versions[current'] = Active,
           pc \in {"confirm", "upsert", "publish"} /\ fetched' => versions[current'] # Active,
           pc = "publish" => remoteName' = name,
           pc \in {"compare", "confirm", "noop"} => ~touched'
    PROVE  DatasetInv'
<1> USE DEF Goes, localVars, pinVars, Idle
<1>1. Active' = Active
  BY DEF Active
<1>2. TypeOK'
  BY DEF DatasetInv, TypeOK, Current
<1>3. BaseInv'
  BY <1>1 DEF DatasetInv, BaseInv, Fits
<1>4. PinInv'
  BY DEF DatasetInv, PinInv, Holds
<1>5. ReadInv'
  <2>1. (Current > 0 => remoteName' # None) /\ name # None
    BY DatasetAssumption DEF DatasetInv, ReadInv, TypeOK
  <2> QED BY <1>1, <2>1 DEF DatasetInv, ReadInv, Current
<1>6. DeclineInv'
  BY DEF DatasetInv, ReadInv, DeclineInv, DeclineTouchesNothing
<1>7. RememberedRunPinsWhatItScored'
  BY DEF DatasetInv, ReadInv, RememberedRunPinsWhatItScored
<1> QED BY <1>2, <1>3, <1>4, <1>5, <1>6, <1>7 DEF DatasetInv

\* A push that returns version v, which holds every active case.
LEMMA UploadKeeps ==
    ASSUME DatasetInv, ~Idle, Active \in Contents, NEW v \in Nat, v # 0, Uploaded(v),
           versions' \in Seq(Contents), Current' <= MaxVersions, Current' \in Nat, v <= Current',
           remoteName' \in Names, touched' \in BOOLEAN, renamed' \in BOOLEAN,
           Holds(versions'[v], Active)
    PROVE  DatasetInv'
<1> USE DEF Uploaded, Return, Register, localVars, Idle
<1>1. Active' = Active /\ v \in 1 .. Current'
  BY DEF Active
<1>2. TypeOK'
  <2>1. run' \in [version: 1 .. Current', of: {"dataset", "snapshot"}] \cup {None}
    BY <1>1 DEF DatasetInv, ReadInv
  <2>2. remembered' \in Contents \cup {None}
    BY DEF DatasetInv, TypeOK
  <2>3. v \in 0 .. Current' /\ 0 \in 0 .. Current'
    BY <1>1
  <2> QED BY <1>1, <2>1, <2>2, <2>3 DEF DatasetInv, TypeOK
<1>3. BaseInv'
  BY <1>1 DEF BaseInv, Fits, Holds
<1>4. PinInv'
  BY <1>1 DEF DatasetInv, TypeOK, PinInv, Holds
<1>5. ReadInv'
  BY DatasetAssumption DEF ReadInv
<1>6. DeclineInv'
  BY DEF DeclineInv, DeclineTouchesNothing
<1>7. RememberedRunPinsWhatItScored'
  <2>1. CASE caller = "evaluate"
    BY <1>1, <2>1 DEF RememberedRunPinsWhatItScored, Holds
  <2>2. CASE caller # "evaluate"
    BY <2>2 DEF DatasetInv, ReadInv, RememberedRunPinsWhatItScored
  <2> QED BY <2>1, <2>2
<1> QED BY <1>2, <1>3, <1>4, <1>5, <1>6, <1>7 DEF DatasetInv

\* A push that ends without a new version keeps the types.
LEMMA EndsType ==
    ASSUME DatasetInv, NEW how \in {"aborted", "conflict", "error"}, PushEnds(how),
           versions' = versions, remoteName' \in Names \cup {None}, touched' \in BOOLEAN,
           renamed' \in BOOLEAN
    PROVE  TypeOK'
<1>1. Current' = Current /\ TypeOK
  BY DEF DatasetInv, Current
<1>2. 0 \in 0 .. Current
  BY <1>1, Versions
<1> QED BY <1>1, <1>2 DEF TypeOK, PushEnds, Return, localVars, pinVars

LEMMA ReadStep == ASSUME DatasetInv, Look \/ Compare \/ Confirm PROVE DatasetInv'
<1>0. /\ TypeOK /\ Current \in Nat /\ ReadInv /\ DeclineInv /\ remoteName \in Names \cup {None}
      /\ touched \in BOOLEAN /\ renamed \in BOOLEAN /\ sentBase \in 0 .. Current /\ current \in 0 .. Current
      /\ fetched \in BOOLEAN
  BY Versions DEF DatasetInv, TypeOK
<1>1. ~Idle
  BY DEF Look, Compare, Confirm, Idle
<1>2. ASSUME NEW how \in {"error", "aborted"}, PushEnds(how), UNCHANGED <<serverVars, touched, renamed>>,
             pushPc \in {"look", "confirm"}
      PROVE  DatasetInv'
  <2>1. TypeOK'
    BY <1>0, <1>2, EndsType DEF serverVars
  <2>2. /\ Current' = Current /\ versions' = versions /\ remoteName' = remoteName /\ ~touched'
        /\ renamed' = renamed
    BY <1>0, <1>2 DEF serverVars, Current, DeclineInv
  <2> QED BY <1>0, <1>1, <1>2, <2>1, <2>2, EndsKeeps DEF ReadInv
<1>3. CASE Look
  <2>1. CASE PushEnds("error") /\ UNCHANGED <<serverVars, touched, renamed>>
    BY <1>2, <1>3, <2>1 DEF Look
  <2>2. CASE /\ current' = Current
             /\ pushPc' = IF versions = <<>> THEN "upsert" ELSE "compare"
             /\ UNCHANGED <<localVars, pinVars, caller, sentBase, fetched, outcome, run,
                            serverVars, edited, explicit, touched, renamed>>
    <3>1. pushPc = "look" /\ ~fetched /\ ~touched
      BY <1>0, <1>3 DEF Look, ReadInv, DeclineInv
    <3>2. versions # <<>> => Current # 0
      BY <1>0, EmptySeq DEF TypeOK, Current
    <3>3. /\ Goes(pushPc') /\ pushPc' \in {"compare", "upsert"} /\ (pushPc' = "compare" => Current # 0)
          /\ fetched' = fetched /\ touched' = touched /\ remoteName' = remoteName
          /\ renamed' = renamed
      BY <2>2, <3>2 DEF Goes, serverVars
    <3>4. CASE pushPc' = "compare"
      BY <1>0, <1>1, <2>2, <3>1, <3>3, <3>4, GoesKeeps
    <3>5. CASE pushPc' = "upsert"
      BY <1>0, <1>1, <2>2, <3>1, <3>3, <3>5, GoesKeeps
    <3> QED BY <3>3, <3>4, <3>5
  <2> QED BY <1>3, <2>1, <2>2 DEF Look
<1>4. CASE Compare
  <2>1. PICK f \in BOOLEAN : fetched' = f /\ pushPc' = IF f /\ versions[current] = Active THEN "noop" ELSE "confirm"
    BY <1>4 DEF Compare
  <2>2. /\ pushPc = "compare" /\ ~touched /\ current # 0 /\ sentBase <= current
        /\ current' = current /\ touched' = touched /\ remoteName' = remoteName /\ Goes(pushPc')
        /\ renamed' = renamed
    BY <1>0, <1>4 DEF Compare, ReadInv, DeclineInv, Goes, serverVars
  <2>3. CASE f /\ versions[current] = Active
    <3>1. pushPc' = "noop"
      BY <2>1, <2>3
    <3> QED BY <1>0, <1>1, <2>1, <2>2, <2>3, <3>1, GoesKeeps
  <2>4. CASE ~(f /\ versions[current] = Active)
    <3>1. pushPc' = "confirm"
      BY <2>1, <2>4
    <3> QED BY <1>0, <1>1, <2>1, <2>2, <2>4, <3>1, GoesKeeps
  <2> QED BY <2>3, <2>4
<1>5. CASE Confirm
  <2>1. CASE PushEnds("aborted") /\ UNCHANGED <<serverVars, touched, renamed>>
    BY <1>2, <1>5, <2>1 DEF Confirm
  <2>2. CASE /\ pushPc' = "upsert"
             /\ UNCHANGED <<localVars, pinVars, caller, sentBase, current, fetched, outcome, run,
                            serverVars, edited, explicit, touched, renamed>>
    <3>1. /\ pushPc = "confirm" /\ sentBase <= current /\ (fetched => current # 0 /\ versions[current] # Active)
      BY <1>0, <1>5 DEF Confirm, ReadInv
    <3>2. /\ Goes("upsert") /\ current' = current /\ fetched' = fetched
          /\ touched' = touched /\ renamed' = renamed /\ remoteName' = remoteName
      BY <2>2 DEF Goes, serverVars
    <3> QED BY <1>0, <1>1, <3>1, <3>2, GoesKeeps
  <2> QED BY <1>5, <2>1, <2>2 DEF Confirm
<1> QED BY <1>3, <1>4, <1>5

LEMMA MetadataStep == ASSUME DatasetInv, Noop \/ UpsertDataset PROVE DatasetInv'
<1>0. /\ TypeOK /\ Current \in Nat /\ ReadInv /\ name \in Names /\ remoteName \in Names \cup {None}
      /\ touched \in BOOLEAN /\ renamed \in BOOLEAN /\ current \in 0 .. Current /\ sentBase \in 0 .. Current
      /\ fetched \in BOOLEAN /\ Active \in Contents
  BY Versions, ActiveType DEF DatasetInv, TypeOK
<1>1. ~Idle
  BY DEF Noop, UpsertDataset, Idle
<1>2. ASSUME PushEnds("error"), StoreMetadata \/ UNCHANGED <<serverVars, touched, renamed>> PROVE DatasetInv'
  <2>1. /\ versions' = versions /\ remoteName' \in {remoteName, name} /\ touched' \in BOOLEAN
        /\ renamed' \in BOOLEAN /\ Current' = Current
    BY <1>0, <1>2 DEF StoreMetadata, serverVars, Current
  <2>2. TypeOK'
    BY <1>0, <1>2, <2>1, EndsType
  <2>3. Current' > 0 => remoteName' # None
    BY <1>0, <2>1, DatasetAssumption DEF ReadInv
  <2> QED BY <1>0, <1>1, <1>2, <2>1, <2>2, <2>3, EndsKeeps
<1>3. ASSUME Noop, StoreMetadata, Uploaded(current) PROVE DatasetInv'
  <2>1. versions[current] = Active /\ current # 0
    BY <1>0, <1>3 DEF Noop, ReadInv
  <2>2. /\ versions' = versions /\ remoteName' = name /\ touched' \in BOOLEAN /\ Current' = Current
        /\ renamed' \in BOOLEAN
    BY <1>3 DEF StoreMetadata, Current
  <2>3. /\ Holds(versions'[current], Active) /\ versions' \in Seq(Contents) /\ Current' <= MaxVersions
        /\ current \in Nat /\ current <= Current' /\ Current' \in Nat
    BY <1>0, <2>1, <2>2 DEF Holds, TypeOK
  <2> QED BY <1>0, <1>1, <1>3, <2>1, <2>2, <2>3, UploadKeeps
<1>4. ASSUME UpsertDataset, StoreMetadata, pushPc' = "publish",
             UNCHANGED <<localVars, pinVars, caller, sentBase, current, fetched, outcome, run,
                         edited, explicit>>
      PROVE  DatasetInv'
  <2>1. /\ sentBase <= current /\ (fetched => current # 0 /\ versions[current] # Active)
    BY <1>0, <1>4 DEF UpsertDataset, ReadInv
  <2>2. /\ Goes("publish") /\ current' = current /\ fetched' = fetched /\ touched' \in BOOLEAN
        /\ remoteName' = name /\ renamed' \in BOOLEAN
    BY <1>4 DEF Goes, StoreMetadata
  <2> QED BY <1>0, <1>1, <2>1, <2>2, GoesKeeps
<1>5. CASE Noop
  BY <1>2, <1>3, <1>5 DEF Noop
<1>6. CASE UpsertDataset
  BY <1>2, <1>4, <1>6 DEF UpsertDataset
<1> QED BY <1>5, <1>6

\* The content of the version a push publishes.
Merged == [id \in Ids |-> IF Active[id] # None THEN Active[id]
                          ELSE IF Current = 0 THEN None ELSE versions[Current][id]]

LEMMA MergedType == TypeOK => Merged \in Contents
<1> SUFFICES ASSUME TypeOK PROVE Merged \in Contents
  OBVIOUS
<1>1. Active \in Contents /\ Current \in Nat /\ (Current # 0 => versions[Current] \in Contents)
  BY ActiveType, Versions
<1> QED BY <1>1 DEF Merged, Contents

LEMMA PublishStep == ASSUME DatasetInv, Publish PROVE DatasetInv'
<1>0. /\ TypeOK /\ Current \in Nat /\ ReadInv /\ name \in Names /\ remoteName \in Names \cup {None}
      /\ touched \in BOOLEAN /\ renamed \in BOOLEAN /\ Active \in Contents /\ Merged \in Contents
  BY Versions, ActiveType, MergedType DEF DatasetInv, TypeOK
<1>1. ~Idle /\ pushPc = "publish" /\ remoteName # None /\ remoteName \in Names
  BY <1>0, DatasetAssumption DEF Publish, Idle, ReadInv, DatasetInv
<1>2. ASSUME StoreVersion
      PROVE  /\ versions' \in Seq(Contents) /\ Current' = Current + 1 /\ Current < MaxVersions
             /\ \A v \in 1 .. Current : versions'[v] = versions[v]
             /\ versions'[Current + 1] = Merged /\ remoteName' = remoteName
             /\ touched' \in BOOLEAN /\ renamed' \in BOOLEAN
  <2>1. versions' = Append(versions, Merged)
    BY <1>2 DEF StoreVersion, Merged
  <2> QED BY <1>0, <1>1, <1>2, <2>1, Publishing DEF StoreVersion
<1>3. ASSUME StoreVersion, Uploaded(Current + 1) PROVE DatasetInv'
  <2>1. Holds(versions'[Current + 1], Active)
    BY <1>2, <1>3 DEF Holds, Merged
  <2>2. Current' <= MaxVersions /\ Current' \in Nat
    BY <1>0, <1>2, <1>3, DatasetAssumption
  <2> QED BY <1>0, <1>1, <1>2, <1>3, <2>1, <2>2, UploadKeeps
<1>4. ASSUME NEW how \in {"conflict", "error"}, PushEnds(how), UNCHANGED <<serverVars, touched, renamed>>
      PROVE  DatasetInv'
  <2>1. /\ versions' = versions /\ remoteName' = remoteName /\ touched' = touched /\ Current' = Current
        /\ renamed' = renamed
    BY <1>4 DEF serverVars, Current
  <2>2. TypeOK'
    BY <1>0, <1>4, <2>1, EndsType
  <2> QED BY <1>0, <1>1, <1>4, <2>1, <2>2, EndsKeeps DEF ReadInv
<1>5. ASSUME StoreVersion, PushEnds("error") PROVE DatasetInv'
  <2>1. Current' <= MaxVersions /\ Current' \in Nat /\ Current <= Current'
    BY <1>0, <1>2, <1>5, DatasetAssumption
  <2>2. 0 \in 0 .. Current' /\ \A v \in 0 .. Current : v \in 0 .. Current'
    BY <1>0, <1>2, <1>5
  <2>3. run = None
    BY <1>0, <1>1 DEF ReadInv
  <2>4. TypeOK'
    <3>1. run' \in [version: 1 .. Current', of: {"dataset", "snapshot"}] \cup {None}
      BY <1>5, <2>3 DEF PushEnds
    <3> QED
      BY <1>0, <1>2, <1>5, <2>1, <2>2, <3>1 DEF TypeOK, PushEnds, Return, localVars, pinVars
  <2>5. remoteName' # None
    BY <1>1, <1>2, <1>5
  <2> QED BY <1>0, <1>1, <1>2, <1>5, <2>1, <2>4, <2>5, EndsKeeps
<1> QED BY <1>3, <1>4, <1>5 DEF Publish

\* What another writer publishes changes no version that was there.
LEMMA OtherPublishStep == ASSUME DatasetInv, OtherPublishes PROVE DatasetInv'
<1>0. TypeOK /\ Current \in Nat /\ ReadInv /\ (Current # 0 => versions[Current] \in Contents)
  BY Versions DEF DatasetInv
<1> USE DEF localVars, pinVars, pushVars
<1>1. PICK id \in Ids, v \in Values \cup {None} :
        versions' = Append(versions, [(IF Current = 0 THEN Empty ELSE versions[Current]) EXCEPT ![id] = v])
  BY DEF OtherPublishes
<1>2. [(IF Current = 0 THEN Empty ELSE versions[Current]) EXCEPT ![id] = v] \in Contents
  BY <1>0 DEF Contents, Empty
<1>3. /\ versions' \in Seq(Contents) /\ Current' = Current + 1
      /\ \A w \in 1 .. Current : versions'[w] = versions[w]
  BY <1>0, <1>1, <1>2, Publishing
<1>4. /\ UNCHANGED <<localVars, pinVars, pushVars, outcome, run, edited, explicit, touched, renamed>>
      /\ Current < MaxVersions /\ remoteName' = remoteName /\ remoteName # None
  BY DEF OtherPublishes
<1>5. Active' = Active
  BY <1>4 DEF Active
<1>6. /\ \A w \in 0 .. Current : w \in 0 .. Current'
      /\ \A w \in 1 .. Current : w \in 1 .. Current'
      /\ Current' <= MaxVersions
  BY <1>0, <1>3, <1>4, DatasetAssumption
<1>7. TypeOK'
  <2>1. run' \in [version: 1 .. Current', of: {"dataset", "snapshot"}] \cup {None}
    BY <1>0, <1>4, <1>6 DEF TypeOK
  <2> QED BY <1>0, <1>3, <1>4, <1>6, <2>1 DEF TypeOK
<1>8. base \in 0 .. Current /\ pin \in 0 .. Current /\ sentBase \in 0 .. Current /\ current \in 0 .. Current
  BY <1>0 DEF TypeOK
<1>9. BaseInv'
  BY <1>0, <1>3, <1>4, <1>5, <1>8 DEF DatasetInv, BaseInv, Fits, Idle
<1>10. PinInv'
  BY <1>0, <1>3, <1>4, <1>8 DEF DatasetInv, PinInv, Holds
<1>11. ReadInv'
  BY <1>0, <1>3, <1>4, <1>5, <1>8 DEF ReadInv, Idle
<1>12. DeclineInv'
  BY <1>4 DEF DatasetInv, DeclineInv, DeclineTouchesNothing
<1>13. RememberedRunPinsWhatItScored'
  <2>1. run # None => versions'[run.version] = versions[run.version]
    BY <1>0, <1>3 DEF TypeOK
  <2> QED BY <1>4, <1>5, <2>1 DEF DatasetInv, RememberedRunPinsWhatItScored, Holds
<1> QED BY <1>7, <1>9, <1>10, <1>11, <1>12, <1>13 DEF DatasetInv

\* A name of another writer is not content.
LEMMA OtherNameStep == ASSUME DatasetInv, OtherNames PROVE DatasetInv'
<1> USE DEF OtherNames, localVars, pinVars, pushVars, Idle
<1>1. Active' = Active
  BY DEF Active
<1>2. TypeOK'
  BY DEF DatasetInv, TypeOK, Current
<1>3. BaseInv'
  BY <1>1 DEF DatasetInv, BaseInv, Fits
<1>4. PinInv'
  BY DEF DatasetInv, PinInv, Holds
<1>5. ReadInv'
  <2>1. remoteName' # None
    BY DatasetAssumption
  <2>2. pushPc = "publish" => remoteName' = name \/ renamed'
    OBVIOUS
  <2> QED BY <1>1, <2>1, <2>2 DEF DatasetInv, ReadInv, Current
<1>6. DeclineInv'
  BY DEF DatasetInv, DeclineInv, DeclineTouchesNothing
<1>7. RememberedRunPinsWhatItScored'
  BY <1>1 DEF DatasetInv, RememberedRunPinsWhatItScored, Holds
<1> QED BY <1>2, <1>3, <1>4, <1>5, <1>6, <1>7 DEF DatasetInv

-----------------------------------------------------------------------------
(* The theorems.                                                              *)

LEMMA InvInit == Init => DatasetInv
<1> SUFFICES ASSUME Init PROVE DatasetInv
  OBVIOUS
<1>1. versions \in Seq(Contents) /\ Current = 0
  BY DEF Init, Current
<1>2. TypeOK
  <2>1. 0 \in 0 .. Current /\ Current <= MaxVersions /\ cases \in Contents
    BY <1>1, DatasetAssumption DEF Init, Contents, Empty
  <2> QED BY <1>1, <2>1 DEF Init, TypeOK
<1> QED
  BY <1>1, <1>2 DEF Init, DatasetInv, BaseInv, PinInv, ReadInv, DeclineInv, DeclineTouchesNothing,
     RememberedRunPinsWhatItScored, Idle

LEMMA InvStep == DatasetInv /\ [Next]_vars => DatasetInv'
<1> SUFFICES ASSUME DatasetInv, [Next]_vars PROVE DatasetInv'
  OBVIOUS
<1>1. CASE Author
  BY <1>1, EditStep, NameStep, PullStep DEF Author
<1>2. CASE Push
  BY <1>2, BeginStep DEF Push
<1>3. CASE UNCHANGED vars
  BY <1>3 DEF vars, localVars, pinVars, pushVars, serverVars, DatasetInv, TypeOK, BaseInv, PinInv,
     ReadInv, DeclineInv, DeclineTouchesNothing, RememberedRunPinsWhatItScored, Idle, Current,
     Fits, Holds, Active
<1> QED
  BY <1>1, <1>2, <1>3, EvaluateStep, ReadStep, MetadataStep, PublishStep, OtherPublishStep, OtherNameStep DEF Next, PushStep, Other

LEMMA Invariance == Spec => []DatasetInv
  BY InvInit, InvStep, PTL DEF Spec

\* A declined publish left the server as it was.
THEOREM DeclinedIsUntouched == Spec => []DeclineTouchesNothing
<1>1. DatasetInv => DeclineTouchesNothing
  BY DEF DatasetInv, DeclineInv
<1> QED BY <1>1, Invariance, PTL

\* A run of a remembered dataset pins a version that holds every case it scored.
THEOREM RunsPinTheirCases == Spec => []RememberedRunPinsWhatItScored
<1>1. DatasetInv => RememberedRunPinsWhatItScored
  BY DEF DatasetInv
<1> QED BY <1>1, Invariance, PTL

\* A publication changes only what was edited here since the dataset stood on a version.
THEOREM NoUpdateIsLost == Spec => NoLostUpdate
<1>1. ASSUME DatasetInv, Publish, versions' # versions, Current > 0, NEW id \in Ids \ edited
      PROVE  versions'[Current + 1][id] = versions[Current][id]
  <2>0. TypeOK /\ Merged \in Contents /\ Current \in Nat
    BY <1>1, MergedType, Versions DEF DatasetInv
  <2>1. StoreVersion
    BY <1>1 DEF Publish, serverVars
  <2>2. versions'[Current + 1] = Merged
    <3>1. versions' = Append(versions, Merged)
      BY <2>1 DEF StoreVersion, Merged
    <3> QED BY <2>0, <3>1, Publishing
  <2>3. sentBase = Current /\ Fits(Current)
    BY <1>1, <2>0, <2>1 DEF StoreVersion, DatasetInv, BaseInv, Publish, Idle
  <2> QED BY <1>1, <2>0, <2>2, <2>3 DEF Merged, Fits
<1>2. DatasetInv /\ [Next]_vars =>
        [Publish /\ versions' # versions /\ Current > 0 =>
            \A id \in Ids \ edited : versions'[Current + 1][id] = versions[Current][id]]_vars
  BY <1>1
<1> QED BY <1>2, Invariance, PTL DEF Spec, NoLostUpdate

\* A push reports "uploaded" only from the two requests that can answer so.
LEMMA WhoUploads ==
    ASSUME DatasetInv, [Next]_vars, ~Idle, outcome' = "uploaded"
    PROVE  \/ Noop /\ StoreMetadata /\ Uploaded(current)
           \/ Publish /\ StoreVersion /\ Uploaded(Current + 1)
<1>1. outcome = "none"
  BY DEF DatasetInv, ReadInv
<1>2. ~Author /\ ~Evaluate /\ ~EvaluateSnapshot /\ ~Push
  BY DEF Author, Add, Upsert, Update, Archive, Remove, Rename, Reload, Pull, Evaluate, EvaluateSnapshot, Push
<1>3. ~Other /\ ~(UNCHANGED vars)
  BY <1>1 DEF Other, OtherNames, OtherPublishes, vars
<1>4. ~Look /\ ~Compare /\ ~Confirm /\ ~UpsertDataset
  BY <1>1 DEF Look, Compare, Confirm, UpsertDataset, PushEnds
<1>5. Noop \/ Publish
  BY <1>2, <1>3, <1>4 DEF Next, PushStep
<1> QED BY <1>5 DEF Noop, Publish, PushEnds

\* A push that reports "uploaded" pins a version that holds every active case.
THEOREM UploadsHoldTheSnapshot == Spec => UploadedHoldsSnapshot
<1>1. ASSUME DatasetInv, [Next]_vars, ~Idle, outcome' = "uploaded" PROVE Holds(versions'[pin'], Active)
  <2>0. TypeOK /\ Merged \in Contents
    BY <1>1, MergedType DEF DatasetInv
  <2>1. CASE Noop /\ StoreMetadata /\ Uploaded(current)
    <3>1. versions' = versions /\ pin' = current /\ versions[current] = Active
      BY <1>1, <2>1 DEF Noop, StoreMetadata, Uploaded, DatasetInv, ReadInv
    <3> QED BY <3>1 DEF Holds
  <2>2. CASE Publish /\ StoreVersion /\ Uploaded(Current + 1)
    <3>1. versions' = Append(versions, Merged) /\ pin' = Current + 1
      BY <2>2 DEF StoreVersion, Uploaded, Merged
    <3>2. versions'[pin'] = Merged
      BY <2>0, <3>1, Publishing
    <3> QED BY <3>2 DEF Holds, Merged
  <2> QED BY <1>1, <2>1, <2>2, WhoUploads
<1>2. DatasetInv /\ [Next]_vars =>
        [~Idle /\ outcome' = "uploaded" => Holds(versions'[pin'], Active)]_vars
  BY <1>1
<1> QED BY <1>2, Invariance, PTL DEF Spec, UploadedHoldsSnapshot

\* A push that reports "uploaded" has delivered the name, also without a new version: it
\* is the name on the platform unless another writer named the dataset after it.
THEOREM UploadsDeliverTheName == Spec => UploadedIsNamed
<1>1. ASSUME DatasetInv, [Next]_vars, ~Idle, outcome' = "uploaded"
      PROVE  remoteName' = name \/ renamed'
  BY <1>1, WhoUploads DEF StoreMetadata, StoreVersion, Publish, DatasetInv, ReadInv
<1>2. DatasetInv /\ [Next]_vars => [~Idle /\ outcome' = "uploaded" => remoteName' = name \/ renamed']_vars
  BY <1>1
<1> QED BY <1>2, Invariance, PTL DEF Spec, UploadedIsNamed

\* Re-pushing content that was read and found unchanged publishes no version.
THEOREM NoVersionIsIdle == Spec => NoIdleVersion
<1>1. ASSUME DatasetInv, Publish, versions' # versions, Current > 0, fetched,
             Holds(Active, versions[Current]), versions'[Current + 1] = versions[Current]
      PROVE  FALSE
  <2>0. /\ TypeOK /\ Merged \in Contents /\ Active \in Contents /\ Current \in Nat
        /\ versions[Current] \in Contents
    BY <1>1, MergedType, ActiveType, Versions DEF DatasetInv
  <2>1. StoreVersion
    BY <1>1 DEF Publish, serverVars
  <2>2. Merged = versions[Current]
    <3>1. versions' = Append(versions, Merged)
      BY <2>1 DEF StoreVersion, Merged
    <3> QED BY <1>1, <2>0, <3>1, Publishing
  <2>3. \A id \in Ids : Active[id] = versions[Current][id]
    BY <1>1, <2>0, <2>2 DEF Holds, Merged, Contents
  <2>4. Active = versions[Current]
    BY <2>0, <2>3 DEF Contents
  <2>5. current = Current /\ versions[current] # Active
    BY <1>1, <2>0, <2>1 DEF StoreVersion, Publish, DatasetInv, ReadInv, TypeOK
  <2> QED BY <2>4, <2>5
<1>2. DatasetInv /\ [Next]_vars =>
        [Publish /\ versions' # versions /\ Current > 0 =>
            \/ versions'[Current + 1] # versions[Current]
            \/ ~fetched
            \/ ~Holds(Active, versions[Current])]_vars
  BY <1>1
<1> QED BY <1>2, Invariance, PTL DEF Spec, NoIdleVersion

-----------------------------------------------------------------------------
(* The refinement: a step of the dataset is a step of a working copy, or none. *)

\* What neither edits, nor publishes, nor moves the dataset to another version.
Quiet ==
    /\ UNCHANGED <<cases, archived, base, pin, versions, edited>>
    /\ pushPc' # "idle" => sentBase' \in {0, Stands}

LEMMA QuietRefines == ASSUME StandsInv, Quiet PROVE UNCHANGED Copy!vars /\ StandsInv'
<1>1. Active' = Active /\ Stands' = Stands
  BY DEF Quiet, Active, Stands
<1> QED BY <1>1 DEF Quiet, StandsInv, Idle, Copy!vars

\* Authoring edits one case.
LEMMA EditRefines ==
    ASSUME DatasetInv, StandsInv, NEW id \in Ids,
           \/ \E v \in Values : Add(id, v) \/ Upsert(id, v) \/ Update(id, v)
           \/ Archive(id) \/ Remove(id)
    PROVE  Copy!Edit(id) /\ StandsInv'
<1>1. Active' \in Contents
  BY EditStep DEF DatasetInv, TypeOK, Contents, Active
<1>2. Idle /\ EditOnly(id)
  BY DEF Add, Upsert, Update, Archive, Remove
<1>3. \A j \in Ids \ {id} : Active'[j] = Active[j]
  BY DEF DatasetInv, TypeOK, Contents, Add, Upsert, Update, Archive, Remove, Active
<1>4. Stands' = Stands /\ versions' = versions /\ edited' = edited \cup {id} /\ Idle'
  BY <1>2 DEF EditOnly, Stands, pinVars, pushVars, serverVars, Idle
<1> QED BY <1>1, <1>3, <1>4 DEF Copy!Edit, StandsInv

LEMMA PullRefines ==
    ASSUME DatasetInv, NEW v \in 1 .. Current, Pull(v)
    PROVE  Copy!CheckOut(v) /\ StandsInv'
<1>1. Current \in Nat /\ versions[v] \in Contents
  BY Versions DEF DatasetInv
<1>2. Active' = versions[v]
  BY <1>1 DEF Pull, Active, Contents
<1>3. Stands' = v /\ v # 0 /\ Idle'
  BY <1>1 DEF Pull, Stands, pushVars, Idle
<1> QED BY <1>2, <1>3 DEF Pull, serverVars, Copy!CheckOut, Copy!StandOn, StandsInv

\* Before its last request a push moves nothing.
LEMMA EvaluateRefines ==
    ASSUME DatasetInv, StandsInv, Push \/ Evaluate \/ EvaluateSnapshot
    PROVE  UNCHANGED Copy!vars /\ StandsInv'
<1>1. ASSUME NEW who \in {"push", "evaluate"}, NEW b \in {0, Stands}, BeginPush(who, b) PROVE Quiet
  BY <1>1 DEF BeginPush, Quiet, localVars, pinVars, serverVars
<1>2. base \in {0, Stands} /\ (IF base # 0 THEN base ELSE pin) \in {0, Stands}
  BY DEF Stands
<1>3. CASE Push
  <2>1. BeginPush("push", base)
    BY <1>3 DEF Push
  <2> QED BY <1>1, <1>2, <2>1, QuietRefines
<1>4. CASE Evaluate /\ (pin = 0 \/ Drifted)
  <2>1. BeginPush("evaluate", IF base # 0 THEN base ELSE pin)
    BY <1>4 DEF Evaluate
  <2> QED BY <1>1, <1>2, <2>1, QuietRefines
<1>5. CASE EvaluateSnapshot \/ (Evaluate /\ ~(pin = 0 \/ Drifted))
  <2>1. Quiet
    BY <1>5 DEF Evaluate, EvaluateSnapshot, Quiet, Idle, localVars, pinVars, pushVars, serverVars
  <2> QED BY <2>1, QuietRefines
<1> QED BY <1>3, <1>4, <1>5

LEMMA RequestRefines ==
    ASSUME DatasetInv, StandsInv,
           \/ Look \/ Compare \/ Confirm \/ UpsertDataset
           \/ versions' = versions /\ \E how \in {"conflict", "error"} : PushEnds(how)
    PROVE  UNCHANGED Copy!vars /\ StandsInv'
<1>1. ASSUME NEW how \in {"aborted", "conflict", "error"}, PushEnds(how), versions' = versions PROVE Quiet
  BY <1>1 DEF PushEnds, Quiet, localVars, pinVars
<1>2. CASE Look
  BY <1>1, <1>2, QuietRefines DEF Look, Quiet, localVars, pinVars, serverVars, StandsInv, Idle
<1>3. CASE Compare
  BY <1>3, QuietRefines DEF Compare, Quiet, localVars, pinVars, serverVars, StandsInv, Idle
<1>4. CASE Confirm
  BY <1>1, <1>4, QuietRefines DEF Confirm, Quiet, localVars, pinVars, serverVars, StandsInv, Idle
<1>5. CASE UpsertDataset
  BY <1>1, <1>5, QuietRefines DEF UpsertDataset, StoreMetadata, Quiet, localVars, pinVars, serverVars, StandsInv, Idle
<1> QED BY <1>1, <1>2, <1>3, <1>4, <1>5, QuietRefines

\* Unchanged content is the current version, whoever published it.
LEMMA NoopRefines ==
    ASSUME DatasetInv, StandsInv, Noop
    PROVE  [Copy!Next]_(Copy!vars) /\ StandsInv'
<1>0. TypeOK /\ ReadInv /\ Current \in Nat
  BY Versions DEF DatasetInv
<1>1. CASE StoreMetadata /\ Uploaded(current)
  <2>1. current \in 1 .. Current /\ versions[current] = Active
    BY <1>0 DEF Noop, ReadInv, TypeOK
  <2>2. Active' = Active /\ Stands' = current /\ edited' = {} /\ Idle' /\ versions' = versions
    BY <1>1, <2>1 DEF StoreMetadata, Uploaded, localVars, Active, Stands, Idle
  <2>3. Copy!Recognise(current)
    BY <2>1, <2>2 DEF Copy!Recognise, Copy!StandOn
  <2> QED BY <2>1, <2>2, <2>3 DEF Copy!Next, StandsInv, Current
<1>2. CASE (StoreMetadata \/ UNCHANGED <<serverVars, touched, renamed>>) /\ PushEnds("error")
  <2>1. versions' = versions
    BY <1>2 DEF StoreMetadata, serverVars
  <2> QED BY <1>2, <2>1, RequestRefines
<1> QED BY <1>1, <1>2 DEF Noop

\* What a push sends is merged into the version it stands on, so that the whole of its
\* requests is one commit, whether or not the answer arrives.
LEMMA PublishRefines ==
    ASSUME DatasetInv, StandsInv, Publish
    PROVE  [Copy!Next]_(Copy!vars) /\ StandsInv'
<1>0. TypeOK /\ Current \in Nat /\ BaseInv /\ Merged \in Contents
  BY Versions, MergedType DEF DatasetInv
<1>1. ASSUME StoreVersion
      PROVE  Stands = Current /\ versions' = Append(versions, Copy!Merged)
  <2>1. sentBase = Current /\ versions' = Append(versions, Merged)
    BY <1>1 DEF StoreVersion, Merged
  <2>2. Stands = Current
    BY <1>0, <2>1 DEF Publish, Idle, StandsInv, Stands, TypeOK
  <2>3. CASE Current = 0
    <3>1. versions = <<>>
      BY <1>0, <2>3, EmptySeq DEF TypeOK, Current
    <3>2. \A id \in Ids : Merged[id] = Copy!Merged[id]
      BY <2>2, <2>3, <3>1 DEF StandsInv, Merged, Copy!Merged, Copy!Latest, Empty
    <3>3. Merged = Copy!Merged
      BY <3>2 DEF Merged, Copy!Merged
    <3> QED BY <2>1, <2>2, <3>3
  <2>4. CASE Current # 0
    <3>1. Copy!Latest = versions[Current]
      BY <1>0, <2>4, EmptySeq DEF TypeOK, Current, Copy!Latest
    <3>2. Fits(Current)
      BY <1>0, <2>1, <2>4 DEF Publish, BaseInv, Idle
    <3>3. \A id \in Ids : Merged[id] = Copy!Merged[id]
      BY <2>4, <3>1, <3>2 DEF Fits, Merged, Copy!Merged
    <3>4. Merged = Copy!Merged
      BY <3>3 DEF Merged, Copy!Merged
    <3> QED BY <2>1, <2>2, <3>4
  <2> QED BY <2>3, <2>4
<1>2. CASE StoreVersion /\ Uploaded(Current + 1)
  <2>1. /\ Active' = Active /\ Stands' = Current + 1 /\ edited' = {} /\ Idle'
        /\ Current + 1 # 0
    BY <1>0, <1>2 DEF Uploaded, localVars, Active, Stands, Idle
  <2>2. Copy!Commit
    BY <1>1, <1>2, <2>1 DEF Copy!Commit, Copy!StandOn, Current
  <2> QED BY <2>1, <2>2 DEF Copy!Next, StandsInv
<1>3. CASE StoreVersion /\ PushEnds("error")
  <2>1. Active' = Active /\ Stands' = Stands /\ edited' = edited /\ Idle'
    BY <1>3 DEF PushEnds, localVars, pinVars, Active, Stands, Idle
  <2>2. Copy!Commit
    BY <1>1, <1>3, <2>1 DEF Copy!Commit, Current
  <2> QED BY <2>1, <2>2 DEF Copy!Next, StandsInv
<1>4. CASE UNCHANGED <<serverVars, touched, renamed>> /\ (PushEnds("conflict") \/ PushEnds("error"))
  <2>1. versions' = versions
    BY <1>4 DEF serverVars
  <2> QED BY <1>4, <2>1, RequestRefines
<1> QED BY <1>2, <1>3, <1>4 DEF Publish

LEMMA OtherRefines ==
    ASSUME DatasetInv, StandsInv, OtherPublishes
    PROVE  Copy!OtherCommits /\ StandsInv'
<1>0. Current \in Nat /\ (Current # 0 => versions[Current] \in Contents)
  BY Versions DEF DatasetInv
<1>1. PICK id \in Ids, v \in Values \cup {None} :
        versions' = Append(versions, [(IF Current = 0 THEN Empty ELSE versions[Current]) EXCEPT ![id] = v])
  BY DEF OtherPublishes
<1>2. [(IF Current = 0 THEN Empty ELSE versions[Current]) EXCEPT ![id] = v] \in Contents
  BY <1>0 DEF Contents, Empty
<1>3. /\ Active' = Active /\ Stands' = Stands /\ edited' = edited
      /\ pushPc' = pushPc /\ sentBase' = sentBase
  BY DEF OtherPublishes, localVars, pinVars, pushVars, Active, Stands
<1> QED BY <1>1, <1>2, <1>3 DEF Copy!OtherCommits, StandsInv, Idle

LEMMA StepRefines ==
    ASSUME DatasetInv, StandsInv, [Next]_vars
    PROVE  [Copy!Next]_(Copy!vars) /\ StandsInv'
<1>1. CASE Author
  <2>1. CASE (\E n \in Names : Rename(n)) \/ Reload
    <3>1. Quiet
      BY <2>1 DEF Rename, Reload, Quiet, localVars, pinVars, pushVars, serverVars, Idle
    <3> QED BY <3>1, QuietRefines
  <2>2. CASE \E v \in 1 .. Current : Pull(v)
    BY <2>2, PullRefines DEF Copy!Next, Current
  <2>3. CASE \E id \in Ids : \/ \E v \in Values : Add(id, v) \/ Upsert(id, v) \/ Update(id, v)
                             \/ Archive(id) \/ Remove(id)
    BY <2>3, EditRefines DEF Copy!Next
  <2> QED BY <1>1, <2>1, <2>2, <2>3 DEF Author
<1>2. CASE Evaluate \/ EvaluateSnapshot \/ Push
  BY <1>2, EvaluateRefines
<1>3. CASE PushStep
  BY <1>3, RequestRefines, NoopRefines, PublishRefines DEF PushStep
<1>4. CASE Other
  <2>1. CASE OtherNames
    <3>1. Quiet
      BY <2>1 DEF OtherNames, Quiet, localVars, pinVars, pushVars, StandsInv, Idle
    <3> QED BY <3>1, QuietRefines
  <2> QED BY <1>4, <2>1, OtherRefines DEF Other, Copy!Next
<1>5. CASE UNCHANGED vars
  <2>1. Quiet
    BY <1>5 DEF vars, localVars, pinVars, pushVars, serverVars, Quiet, StandsInv, Idle
  <2> QED BY <2>1, QuietRefines
<1> QED BY <1>1, <1>2, <1>3, <1>4, <1>5 DEF Next

\* The dataset implements the abstract WorkingCopy: five requests, lost answers and
\* foreign versions between them amount to atomic commits of what was edited here.
THEOREM PushesAreCommits == Spec => KeepsCopy
<1>1. Init => Copy!Init /\ StandsInv
  BY DEF Init, Copy!Init, StandsInv, Stands, Active, Empty, Idle
<1>2. DatasetInv /\ StandsInv /\ [Next]_vars => [Copy!Next]_(Copy!vars) /\ StandsInv'
  BY StepRefines
<1> QED BY <1>1, <1>2, Invariance, PTL DEF Spec, KeepsCopy, Copy!Spec
=============================================================================
