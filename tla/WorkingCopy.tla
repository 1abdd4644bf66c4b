----------------------------- MODULE WorkingCopy -----------------------------
(***************************************************************************)
(* What a dataset promises to its author, without requests, answers, runs    *)
(* or names: a working copy of a version history that others extend too.     *)
(* Whatever is published is published in one step, by a copy that stands on  *)
(* the latest version, and changes of that version only what was edited      *)
(* here since the copy came to stand on it.                                  *)
(***************************************************************************)
EXTENDS Integers, Sequences

CONSTANTS Ids, Contents, Empty, None

VARIABLES
    copy,     \* the content of the working copy
    edited,   \* the ids edited since it met the version it stands on
    stands,   \* that version, 0 for none
    versions  \* the history

vars == <<copy, edited, stands, versions>>

Init ==
    /\ copy = Empty
    /\ edited = {}
    /\ stands = 0
    /\ versions = <<>>

\* One case is put in, changed or taken out.
Edit(id) ==
    /\ copy' \in Contents
    /\ \A j \in Ids \ {id} : copy'[j] = copy[j]
    /\ edited' = edited \cup {id}
    /\ UNCHANGED <<stands, versions>>

StandOn(v) == stands' = v /\ edited' = {}

CheckOut(v) ==
    /\ copy' = versions[v]
    /\ StandOn(v)
    /\ UNCHANGED versions

\* The copy is found to be a version that is there, its own or another's.
Recognise(v) ==
    /\ versions[v] = copy
    /\ StandOn(v)
    /\ UNCHANGED <<copy, versions>>

Latest == IF versions = <<>> THEN Empty ELSE versions[Len(versions)]

\* A case taken out of the copy stays in the history.
Merged == [id \in Ids |-> IF id \in edited /\ copy[id] # None THEN copy[id] ELSE Latest[id]]

\* The author may not be told: the copy then still stands where it stood.
Commit ==
    /\ stands = Len(versions)
    /\ versions' = Append(versions, Merged)
    /\ UNCHANGED copy
    /\ StandOn(Len(versions) + 1) \/ UNCHANGED <<stands, edited>>

OtherCommits ==
    /\ \E content \in Contents : versions' = Append(versions, content)
    /\ UNCHANGED <<copy, edited, stands>>

Next ==
    \/ Commit
    \/ OtherCommits
    \/ \E id \in Ids : Edit(id)
    \/ \E v \in 1 .. Len(versions) : CheckOut(v) \/ Recognise(v)

Spec == Init /\ [][Next]_vars
=============================================================================
