----------------------------- MODULE SpansProofs -----------------------------
(***************************************************************************)
(* Proofs about SpanTree and Judge: the paths stamped on spans are the      *)
(* ancestry for any number of spans and any capacity of the path map, and a *)
(* judge's completion has one LLM span and is priced once for any number of *)
(* tasks, as long as the integrations are installed before there are spans  *)
(* and model ids are spelled as the provider does.                          *)
(***************************************************************************)
EXTENDS Judge, FiniteSetTheorems, TLAPS

----------------------------------------------------------------------------
(* The tree                                                                 *)

OpenSpans == {s \in Born : IsOpen(s)}

(* the map holds open spans, and all of them until it has overflowed *)
MapHoldsOpen ==
    /\ pathMap \subseteq OpenSpans
    /\ ~crowded => OpenSpans \subseteq pathMap

FrameRecord == [of : SpanIds, back : SpanIds \cup {0}]
TaskRecord == [alive : BOOLEAN, current : SpanIds \cup {0}, frames : Seq(FrameRecord),
               mode : {"runs", "raises"}]

(* what a task refers to are spans that have started *)
Refers(r, n) == /\ r.current <= n
                /\ \A i \in DOMAIN r.frames : r.frames[i].of <= n /\ r.frames[i].back <= n

(* a body that is being executed has an open span that runs, and one task executes it *)
OneBody ==
    \A t, u \in Tasks : \A i \in DOMAIN task[t].frames : \A j \in DOMAIN task[u].frames :
        task[t].frames[i].of = task[u].frames[j].of => t = u /\ i = j
BodiesRun ==
    \A t \in Tasks : \A i \in DOMAIN task[t].frames : span[task[t].frames[i].of].state = "running"

SpanPart ==
    /\ span \in Seq(SpanRecord) /\ Len(span) <= MaxSpans
    /\ pathMap \subseteq Born /\ crowded \in BOOLEAN
    /\ MapHoldsOpen
    /\ \A s \in Born : span[s].parent < s
    /\ PathIsAncestry
TaskPart ==
    /\ task \in [Tasks -> TaskRecord]
    /\ \A t \in Tasks : Refers(task[t], Len(span))
    /\ OneBody /\ BodiesRun

TreeInv == SpanPart /\ TaskPart

(* The parent of a span started before it. *)
LEMMA ParentIsEarlier ==
    ASSUME TreeInv, SpanTreeAssumption, NEW s \in Born
    PROVE  /\ span[s] \in SpanRecord
           /\ span[s].parent \in Nat
           /\ span[s].parent # 0 => span[s].parent \in Born
<1>1. span \in Seq(SpanRecord) /\ Born = 1 .. Len(span) /\ Len(span) \in Nat
  BY DEF TreeInv, SpanPart, Born
<1>2. span[s] \in SpanRecord
  BY <1>1
<1>3. span[s].parent \in SpanIds \cup {0}
  BY <1>2 DEF SpanRecord
<1>4. span[s].parent \in Nat
  BY <1>3 DEF SpanIds, SpanTreeAssumption
<1>5. span[s].parent < s
  BY DEF TreeInv, SpanPart
<1> QED BY <1>1, <1>2, <1>4, <1>5

(* A span starts under p, with the map in one of its two cases. *)
LEMMA StartsKeeps ==
    ASSUME TreeInv, SpanTreeAssumption,
           NEW p \in Nat, p <= Len(span), NEW blind \in BOOLEAN,
           NEW by \in {"call", "gen", "asyncgen"},
           NEW state \in {"running", "stillborn"},
           Starts(p, blind, by, state)
    PROVE  /\ SpanPart' /\ Len(span') = Len(span) + 1
           /\ \A s \in Born : span'[s] = span[s]
           /\ span'[Len(span) + 1].state = state
<1> DEFINE new == [parent |-> p, path |-> PathUnder(p, blind), by |-> by, state |-> state,
                   cut |-> blind /\ p # 0 /\ (crowded \/ ~IsOpen(p))]
           n == Len(span) + 1
<1>1. span \in Seq(SpanRecord) /\ Len(span) < MaxSpans /\ MaxSpans \in Nat /\ Len(span) \in Nat
  <2>1. span \in Seq(SpanRecord)
    BY DEF TreeInv, SpanPart
  <2>2. Len(span) < MaxSpans
    BY DEF Starts
  <2>3. MaxSpans \in Nat
    BY DEF SpanTreeAssumption
  <2>4. Len(span) \in Nat
    BY <2>1
  <2> QED BY <2>1, <2>2, <2>3, <2>4
<1>2. Born = 1 .. Len(span)
  BY <1>1 DEF Born
<1>3. p \in SpanIds \cup {0} /\ (p # 0 => p \in Born)
  BY <1>1, <1>2 DEF SpanIds
<1>4. PathUnder(p, blind) \in Seq(SpanIds)
  <2>1. p # 0 => span[p].path \in Seq(SpanIds)
    <3>1. p # 0 => span[p] \in SpanRecord
      BY <1>1, <1>2, <1>3
    <3> QED BY <3>1 DEF SpanRecord
  <2>2. p # 0 => Append(span[p].path, p) \in Seq(SpanIds) /\ <<p>> \in Seq(SpanIds)
    BY <2>1, <1>3
  <2> QED BY <2>2 DEF PathUnder
<1>5. new.cut \in BOOLEAN
  BY DEF TreeInv, SpanPart
<1>6. new \in SpanRecord
  BY <1>3, <1>4, <1>5 DEF SpanRecord
<1>7. span' = Append(span, new)
  BY DEF Starts
<1>8. /\ span' \in Seq(SpanRecord) /\ Len(span') = n /\ n <= MaxSpans
      /\ \A s \in Born : span'[s] = span[s]
      /\ span'[n] = new /\ Born' = Born \cup {n} /\ n \notin Born
  BY <1>1, <1>2, <1>6, <1>7 DEF Born
<1>9. OpenSpans' = OpenSpans \cup {n}
  BY <1>8 DEF OpenSpans, IsOpen
<1>10. IsFiniteSet(OpenSpans) /\ IsFiniteSet(pathMap) /\ Cardinality(pathMap) <= Cardinality(OpenSpans)
  <2>1. IsFiniteSet(Born)
    BY <1>1, <1>2, FS_Interval
  <2>2. OpenSpans \subseteq Born /\ pathMap \subseteq OpenSpans
    BY DEF OpenSpans, TreeInv, SpanPart, MapHoldsOpen
  <2> QED BY <2>1, <2>2, FS_Subset
<1>11. MapHoldsOpen'
  <2>1. pathMap' \subseteq OpenSpans'
    BY <1>9 DEF Starts, TreeInv, SpanPart, MapHoldsOpen
  <2>2. ASSUME ~crowded' PROVE OpenSpans' \subseteq pathMap'
    <3>1. ~crowded /\ ~(Cardinality(OpenSpans) >= PathMapMax)
      BY <2>2 DEF Starts, OpenSpans
    <3>2. Cardinality(OpenSpans) \in Nat /\ Cardinality(pathMap) \in Nat /\ PathMapMax \in Nat
      BY <1>10, FS_CardinalityType DEF SpanTreeAssumption
    <3>3. ~(Cardinality(pathMap) >= PathMapMax)
      BY <3>1, <3>2, <1>10
    <3>4. pathMap' = pathMap \cup {n}
      BY <3>3 DEF Starts
    <3> QED BY <3>1, <3>4, <1>9 DEF TreeInv, SpanPart, MapHoldsOpen
  <2> QED BY <2>1, <2>2 DEF MapHoldsOpen
<1>12. pathMap' \subseteq Born' /\ crowded' \in BOOLEAN
  BY <1>8 DEF Starts, TreeInv, SpanPart
<1>13. \A s \in Born' : span'[s].parent < s
  BY <1>8, <1>1 DEF TreeInv, SpanPart
<1>14. PathIsAncestry'
  <2>1. ASSUME NEW s \in Born
        PROVE  LET q == span'[s].parent IN
                 IF q = 0 THEN span'[s].path = <<>>
                 ELSE ~span'[s].cut => span'[s].path = Append(span'[q].path, q)
    <3>2. span[s].parent # 0 => span[s].parent \in Born
      BY ParentIsEarlier
    <3>3. /\ span'[s] = span[s]
          /\ span[s].parent # 0 => span'[span[s].parent] = span[span[s].parent]
      BY <3>2, <1>8
    <3>4. LET q == span[s].parent IN
            IF q = 0 THEN span[s].path = <<>>
            ELSE ~span[s].cut => span[s].path = Append(span[q].path, q)
      BY DEF TreeInv, SpanPart, PathIsAncestry
    <3> QED BY <3>3, <3>4
  <2>2. IF p = 0 THEN new.path = <<>> ELSE ~new.cut => new.path = Append(span'[p].path, p)
    <3>1. ASSUME p # 0, ~new.cut PROVE ~(blind /\ p \notin pathMap)
      BY <3>1, <1>3 DEF TreeInv, SpanPart, MapHoldsOpen, OpenSpans
    <3> QED BY <3>1, <1>3, <1>8 DEF PathUnder
  <2> QED BY <2>1, <2>2, <1>8 DEF PathIsAncestry
<1> QED BY <1>8, <1>11, <1>12, <1>13, <1>14 DEF SpanPart

(* An open span changes its state, and leaves the map when it ends. *)
Changes(s, state) ==
    /\ span' = [span EXCEPT ![s].state = state] /\ crowded' = crowded
    /\ pathMap' = IF state = "ended" THEN pathMap \ {s} ELSE pathMap
LEMMA ChangeKeeps ==
    ASSUME TreeInv, SpanTreeAssumption, NEW s \in Born,
           NEW state \in {"running", "suspended", "finalising", "ended"},
           IsOpen(s), Changes(s, state)
    PROVE  /\ SpanPart' /\ Len(span') = Len(span)
           /\ \A x \in Born : span'[x].state = IF x = s THEN state ELSE span[x].state
<1>1. span \in Seq(SpanRecord) /\ Born = 1 .. Len(span) /\ Len(span) \in Nat
  BY DEF TreeInv, SpanPart, Born
<1>2. span[s] \in SpanRecord
  BY <1>1
<1>3. [span[s] EXCEPT !.state = state] \in SpanRecord
  BY <1>2 DEF SpanRecord
<1>4. span' = [span EXCEPT ![s] = [span[s] EXCEPT !.state = state]]
  BY DEF Changes
<1>5. span' \in Seq(SpanRecord) /\ Len(span') = Len(span) /\ Born' = Born
  BY <1>1, <1>3, <1>4 DEF Born
<1>6. \A x \in Born : /\ span'[x].parent = span[x].parent /\ span'[x].path = span[x].path
                      /\ span'[x].cut = span[x].cut
                      /\ span'[x].state = IF x = s THEN state ELSE span[x].state
  <2> TAKE x \in Born
  <2>1. span'[x] = IF x = s THEN [span[s] EXCEPT !.state = state] ELSE span[x]
    BY <1>1, <1>4
  <2>2. span[x] \in SpanRecord
    BY <1>1
  <2> QED BY <2>1, <2>2, <1>2 DEF SpanRecord
<1>7. MapHoldsOpen'
  BY <1>5, <1>6 DEF Changes, TreeInv, SpanPart, MapHoldsOpen, OpenSpans, IsOpen
<1>8. PathIsAncestry'
  <2> SUFFICES ASSUME NEW x \in Born
               PROVE  LET q == span'[x].parent IN
                        IF q = 0 THEN span'[x].path = <<>>
                        ELSE ~span'[x].cut => span'[x].path = Append(span'[q].path, q)
    BY <1>5 DEF PathIsAncestry
  <2>1. LET q == span[x].parent IN
          IF q = 0 THEN span[x].path = <<>>
          ELSE ~span[x].cut => span[x].path = Append(span[q].path, q)
    BY DEF TreeInv, SpanPart, PathIsAncestry
  <2>2. span[x].parent # 0 => span[x].parent \in Born
    BY ParentIsEarlier
  <2>3. span[x].parent # 0 => span'[span[x].parent].path = span[span[x].parent].path
    BY <2>2, <1>6
  <2> QED BY <2>1, <2>3, <1>6
<1>9. \A x \in Born' : span'[x].parent < x
  BY <1>5, <1>6 DEF TreeInv, SpanPart
<1>10. pathMap' \subseteq Born' /\ crowded' \in BOOLEAN /\ Len(span') <= MaxSpans
  BY <1>5 DEF Changes, TreeInv, SpanPart
<1> QED BY <1>5, <1>6, <1>7, <1>8, <1>9, <1>10 DEF SpanPart

(* The bodies that are executed have spans. *)
LEMMA BodiesBorn ==
    ASSUME TreeInv, SpanTreeAssumption, NEW t \in Tasks
    PROVE  /\ task[t].current \in Nat /\ task[t].current <= Len(span)
           /\ \A i \in DOMAIN task[t].frames :
                 /\ task[t].frames[i].of \in Born /\ task[t].frames[i].of \in Nat
                 /\ task[t].frames[i].back \in Nat
                 /\ task[t].frames[i].of <= Len(span) /\ task[t].frames[i].back <= Len(span)
<1>1. MaxSpans \in Nat /\ Len(span) \in Nat /\ Born = 1 .. Len(span)
  BY DEF SpanTreeAssumption, TreeInv, SpanPart, Born
<1>2. task[t] \in TaskRecord
  BY DEF TreeInv, TaskPart
<1>3. task[t].frames \in Seq(FrameRecord) /\ task[t].current \in SpanIds \cup {0}
  BY <1>2 DEF TaskRecord
<1>4. task[t].current \in Nat /\ task[t].current <= Len(span)
  BY <1>1, <1>3 DEF SpanIds, TreeInv, TaskPart, Refers
<1>5. ASSUME NEW i \in DOMAIN task[t].frames
      PROVE  /\ task[t].frames[i].of \in Born /\ task[t].frames[i].of \in Nat
             /\ task[t].frames[i].back \in Nat
             /\ task[t].frames[i].of <= Len(span) /\ task[t].frames[i].back <= Len(span)
  <2>1. task[t].frames[i] \in FrameRecord
    BY <1>3
  <2>2. task[t].frames[i].of \in SpanIds /\ task[t].frames[i].back \in SpanIds \cup {0}
    BY <2>1 DEF FrameRecord
  <2>3. task[t].frames[i].of <= Len(span) /\ task[t].frames[i].back <= Len(span)
    BY DEF TreeInv, TaskPart, Refers
  <2> QED BY <2>2, <2>3, <1>1 DEF SpanIds
<1> QED BY <1>4, <1>5

(* The body a task executes is that of an open span. *)
LEMMA TopRuns ==
    ASSUME TreeInv, SpanTreeAssumption, NEW t \in Tasks, Depth(t) > 0
    PROVE  Top(t) \in Born /\ span[Top(t)].state = "running" /\ IsOpen(Top(t))
<1>1. task[t] \in TaskRecord
  BY DEF TreeInv, TaskPart
<1>2. task[t].frames \in Seq(FrameRecord)
  BY <1>1 DEF TaskRecord
<1>3. Depth(t) \in DOMAIN task[t].frames
  BY <1>2 DEF Depth
<1>4. Top(t) \in Born /\ span[Top(t)].state = "running"
  BY <1>3, BodiesBorn DEF Top, TreeInv, TaskPart, BodiesRun
<1> QED BY <1>4 DEF IsOpen

(* A frame is pushed. *)
LEMMA FramesUpdate ==
    ASSUME NEW f \in Seq(FrameRecord), NEW e \in FrameRecord
    PROVE  /\ Len(f) \in Nat /\ DOMAIN f = 1 .. Len(f)
           /\ Append(f, e) \in Seq(FrameRecord)
           /\ DOMAIN Append(f, e) = DOMAIN f \cup {Len(f) + 1}
           /\ Len(f) + 1 \notin DOMAIN f
           /\ \A i \in DOMAIN f : Append(f, e)[i] = f[i]
           /\ Append(f, e)[Len(f) + 1] = e
  OBVIOUS

(* A task enters the body of a span that no task executes. *)
LEMMA EnterKeeps ==
    ASSUME TreeInv, SpanTreeAssumption, NEW t \in Tasks,
           Len(span') \in Nat, Len(span) <= Len(span'), Len(span') <= MaxSpans,
           NEW s \in 1 .. Len(span'), NEW current \in Nat, current <= Len(span'),
           span'[s].state = "running", ~Executed(s),
           \A x \in Born : x # s => span'[x].state = span[x].state,
           Enter(t, s, current)
    PROVE  TaskPart'
<1> DEFINE old == task[t]
           frame == [of |-> s, back |-> old.current]
           frames == Append(old.frames, frame)
           new == [old EXCEPT !.frames = frames, !.current = current]
<1>1. Len(span) \in Nat /\ Born = 1 .. Len(span) /\ MaxSpans \in Nat
  BY DEF TreeInv, SpanPart, Born, SpanTreeAssumption
<1>2. task \in [Tasks -> TaskRecord]
  BY DEF TreeInv, TaskPart
<1>3. old \in TaskRecord
  BY <1>2
<1>4. /\ old.frames \in Seq(FrameRecord) /\ old.current \in SpanIds \cup {0} /\ old.current <= Len(span)
      /\ old.alive \in BOOLEAN /\ old.mode \in {"runs", "raises"}
  BY <1>3 DEF TaskRecord, TreeInv, TaskPart, Refers
<1>5. s \in SpanIds /\ current \in SpanIds \cup {0} /\ frame \in FrameRecord
  BY <1>1, <1>4 DEF SpanIds, FrameRecord
<1>6. /\ frames \in Seq(FrameRecord)
      /\ DOMAIN frames = DOMAIN old.frames \cup {Len(old.frames) + 1}
      /\ Len(old.frames) + 1 \notin DOMAIN old.frames
      /\ \A i \in DOMAIN old.frames : frames[i] = old.frames[i]
      /\ frames[Len(old.frames) + 1] = frame
  BY <1>4, <1>5, FramesUpdate
<1>a. task[t] = old
  OBVIOUS
<1> HIDE DEF frames, old
<1>7. new \in TaskRecord /\ new.frames = frames /\ new.current = current
  BY <1>3, <1>5, <1>6 DEF TaskRecord
<1>8. /\ task' \in [Tasks -> TaskRecord]
      /\ \A u \in Tasks : task'[u] = IF u = t THEN new ELSE task[u]
  <2>1. task' = [task EXCEPT ![t] = new]
    BY DEF Enter, frames, old
  <2> QED BY <1>2, <1>7, <2>1
<1>9. frame.of = s /\ frame.back = old.current
  OBVIOUS
<1> HIDE DEF new, frame
<1> USE DEF old
<1>10. \A u \in Tasks : \A i \in DOMAIN task[u].frames :
          /\ task[u].frames[i].of \in Born /\ task[u].frames[i].back \in Nat
          /\ task[u].frames[i].back <= Len(span) /\ task[u].frames[i].of # s
  BY BodiesBorn DEF Executed
<1>11. \A u \in Tasks : Refers(task'[u], Len(span'))
  <2> TAKE u \in Tasks
  <2>1. Refers(new, Len(span'))
    <3>1. \A i \in DOMAIN old.frames : old.frames[i].of <= Len(span') /\ old.frames[i].back <= Len(span')
      BY <1>1, <1>10
    <3>2. frame.of <= Len(span') /\ frame.back <= Len(span')
      BY <1>1, <1>4, <1>9 DEF SpanIds
    <3> QED BY <3>1, <3>2, <1>6, <1>7 DEF Refers
  <2>2. ASSUME u # t PROVE Refers(task[u], Len(span'))
    <3>1. task[u] \in TaskRecord
      BY <1>2
    <3>2. task[u].current \in SpanIds \cup {0} /\ task[u].current <= Len(span)
      BY <3>1 DEF TaskRecord, TreeInv, TaskPart, Refers
    <3>3. task[u].current <= Len(span')
      BY <3>2, <1>1 DEF SpanIds
    <3>4. \A i \in DOMAIN task[u].frames : task[u].frames[i].of <= Len(span') /\ task[u].frames[i].back <= Len(span')
      BY <1>1, <1>10
    <3> QED BY <3>3, <3>4 DEF Refers
  <2> QED BY <2>1, <2>2, <1>8
<1>14. \A u \in Tasks : \A i \in DOMAIN task'[u].frames :
           \/ u = t /\ i = Len(old.frames) + 1 /\ task'[u].frames[i].of = s
           \/ i \in DOMAIN task[u].frames /\ task'[u].frames[i] = task[u].frames[i]
  BY <1>6, <1>7, <1>8, <1>9
<1>12. BodiesRun'
  <2>1. ASSUME NEW u \in Tasks, NEW i \in DOMAIN task[u].frames
        PROVE  span'[task[u].frames[i].of].state = "running"
    BY <1>10 DEF TreeInv, TaskPart, BodiesRun
  <2> QED BY <2>1, <1>14 DEF BodiesRun
<1>13. OneBody'
  <2>1. \A u, v \in Tasks : \A i \in DOMAIN task[u].frames : \A j \in DOMAIN task[v].frames :
           task[u].frames[i].of = task[v].frames[j].of => u = v /\ i = j
    BY DEF TreeInv, TaskPart, OneBody
  <2> QED BY <2>1, <1>14, <1>10 DEF OneBody
<1> QED BY <1>8, <1>11, <1>12, <1>13 DEF TaskPart

(* A task leaves the body it executes. *)
LEMMA LeaveKeeps ==
    ASSUME TreeInv, SpanTreeAssumption, NEW t \in Tasks, NEW mode \in {"runs", "raises"},
           Depth(t) > 0, Len(span') = Len(span),
           \A x \in Born : x # Top(t) => span'[x].state = span[x].state,
           Leave(t, mode)
    PROVE  TaskPart'
<1> DEFINE old == task[t]
           frames == SubSeq(old.frames, 1, Depth(t) - 1)
           back == old.frames[Depth(t)].back
           new == [old EXCEPT !.frames = frames, !.current = back, !.mode = mode]
<1>1. task \in [Tasks -> TaskRecord] /\ Len(span) \in Nat /\ Born = 1 .. Len(span)
  BY DEF TreeInv, TaskPart, SpanPart, Born
<1>2. old \in TaskRecord
  BY <1>1
<1>3. /\ old.frames \in Seq(FrameRecord) /\ Depth(t) = Len(old.frames) /\ Depth(t) \in Nat
      /\ Depth(t) \in DOMAIN old.frames
  <2>1. old.frames \in Seq(FrameRecord) /\ Depth(t) = Len(old.frames)
    BY <1>2 DEF TaskRecord, Depth
  <2> QED BY <2>1
<1>4. back \in SpanIds \cup {0}
  <2>1. old.frames[Depth(t)] \in FrameRecord
    BY <1>3
  <2> QED BY <2>1 DEF FrameRecord
<1>5. back <= Len(span)
  BY <1>3 DEF TreeInv, TaskPart, Refers
<1>6. /\ frames \in Seq(FrameRecord) /\ DOMAIN frames = 1 .. Depth(t) - 1
      /\ \A i \in DOMAIN frames : i \in DOMAIN old.frames /\ i # Depth(t) /\ frames[i] = old.frames[i]
  BY <1>3
<1>a. task[t] = old
  OBVIOUS
<1> HIDE DEF frames, back, old
<1>7. new \in TaskRecord /\ new.frames = frames /\ new.current = back
  BY <1>2, <1>4, <1>6 DEF TaskRecord
<1>8. task' = [task EXCEPT ![t] = new]
  BY DEF Leave, frames, back, old
<1> HIDE DEF new
<1> USE DEF old
<1>9. /\ task' \in [Tasks -> TaskRecord]
      /\ \A u \in Tasks : task'[u] = IF u = t THEN new ELSE task[u]
  BY <1>1, <1>7, <1>8
<1>10. \A u \in Tasks : \A i \in DOMAIN task'[u].frames :
          /\ i \in DOMAIN task[u].frames /\ task'[u].frames[i] = task[u].frames[i]
          /\ u = t => i # Depth(t)
  BY <1>6, <1>7, <1>9
<1>11. \A u \in Tasks : Refers(task'[u], Len(span'))
  <2> TAKE u \in Tasks
  <2>1. task'[u].current <= Len(span)
    BY <1>5, <1>7, <1>9 DEF TreeInv, TaskPart, Refers
  <2> QED BY <2>1, <1>10 DEF TreeInv, TaskPart, Refers
<1>12. OneBody'
  <2>1. \A u, v \in Tasks : \A i \in DOMAIN task[u].frames : \A j \in DOMAIN task[v].frames :
           task[u].frames[i].of = task[v].frames[j].of => u = v /\ i = j
    BY DEF TreeInv, TaskPart, OneBody
  <2> QED BY <2>1, <1>10 DEF OneBody
<1>13. BodiesRun'
  <2>1. ASSUME NEW u \in Tasks, NEW i \in DOMAIN task'[u].frames
        PROVE  span'[task'[u].frames[i].of].state = "running"
    <3> DEFINE s == task[u].frames[i].of
    <3>1. i \in DOMAIN task[u].frames /\ task'[u].frames[i].of = s /\ (u = t => i # Depth(t))
      BY <1>10
    <3>2. s # Top(t)
      BY <3>1, <1>3 DEF TreeInv, TaskPart, OneBody, Top
    <3>3. s \in Born
      BY <3>1, BodiesBorn
    <3>4. span[s].state = "running"
      BY <3>1 DEF TreeInv, TaskPart, BodiesRun
    <3> QED BY <3>1, <3>2, <3>3, <3>4
  <2> QED BY <2>1 DEF BodiesRun
<1> QED BY <1>9, <1>11, <1>12, <1>13 DEF TaskPart

(* A step changes neither the bodies that are executed nor their spans. *)
LEMMA SameBodiesKeep ==
    ASSUME TreeInv, SpanTreeAssumption, Len(span') \in Nat, Len(span) <= Len(span'),
           \A x \in Born : Executed(x) => span'[x].state = span[x].state,
           task' \in [Tasks -> TaskRecord],
           \A u \in Tasks : /\ task'[u].current <= Len(span')
                            /\ task'[u].frames = task[u].frames \/ task'[u].frames = <<>>
    PROVE  TaskPart'
<1>1. task \in [Tasks -> TaskRecord] /\ Len(span) \in Nat /\ Born = 1 .. Len(span)
  BY DEF TreeInv, TaskPart, SpanPart, Born
<1>2. \A u \in Tasks : \A i \in DOMAIN task'[u].frames :
         i \in DOMAIN task[u].frames /\ task'[u].frames[i] = task[u].frames[i]
  OBVIOUS
<1>3. \A u \in Tasks : \A i \in DOMAIN task[u].frames :
          /\ task[u].frames[i].of \in Born /\ task[u].frames[i].of \in Nat
          /\ task[u].frames[i].back \in Nat
          /\ task[u].frames[i].of <= Len(span) /\ task[u].frames[i].back <= Len(span)
  BY BodiesBorn
<1>4. \A u \in Tasks : Refers(task'[u], Len(span'))
  BY <1>1, <1>2, <1>3 DEF Refers
<1>5. OneBody'
  BY <1>2 DEF TreeInv, TaskPart, OneBody
<1>6. BodiesRun'
  BY <1>2, <1>3 DEF TreeInv, TaskPart, BodiesRun, Executed
<1> QED BY <1>4, <1>5, <1>6 DEF TaskPart

(* The body of a new span is entered: a call, or the first next() of a generator. *)
LEMMA BeginKeeps ==
    ASSUME TreeInv, SpanTreeAssumption, NEW t \in Tasks,
           NEW p \in Nat, p <= Len(span), NEW blind \in BOOLEAN,
           NEW by \in {"call", "gen", "asyncgen"}, Starts(p, blind, by, "running"),
           NEW c \in {Len(span) + 1, task[t].current}, Enter(t, Len(span) + 1, c)
    PROVE  TreeInv'
<1>1. Len(span) \in Nat
  BY DEF TreeInv, SpanPart
<1>2. /\ SpanPart' /\ Len(span') = Len(span) + 1 /\ \A s \in Born : span'[s] = span[s]
      /\ span'[Len(span) + 1].state = "running"
  BY StartsKeeps
<1>3. Len(span') <= MaxSpans
  BY <1>2 DEF SpanPart
<1>4. ~Executed(Len(span) + 1)
  BY <1>1, BodiesBorn DEF Executed
<1>5. c \in Nat /\ c <= Len(span')
  BY <1>1, <1>2, BodiesBorn
<1>6. TaskPart'
  <2> DEFINE n == Len(span) + 1
  <2>1. n \in 1 .. Len(span') /\ Len(span') \in Nat /\ Len(span) <= Len(span')
    BY <1>1, <1>2
  <2>2. \A x \in Born : x # n => span'[x].state = span[x].state
    BY <1>2
  <2> HIDE DEF n
  <2>3. span'[n].state = "running" /\ ~Executed(n) /\ Enter(t, n, c)
    BY <1>2, <1>4 DEF n
  <2> QED BY <1>3, <1>5, <2>1, <2>2, <2>3, EnterKeeps
<1> QED BY <1>2, <1>6 DEF TreeInv

(* The body a task executes is left: a return, a yield or an exception. *)
LEMMA EndKeeps ==
    ASSUME TreeInv, SpanTreeAssumption, NEW t \in Tasks, NEW mode \in {"runs", "raises"},
           Depth(t) > 0, Ends(Top(t)) \/ Becomes(Top(t), "suspended"), Leave(t, mode)
    PROVE  TreeInv'
<1>1. Top(t) \in Born /\ IsOpen(Top(t))
  BY TopRuns
<1>2. PICK state \in {"suspended", "ended"} : Changes(Top(t), state)
  BY DEF Ends, Becomes, Changes
<1>3. /\ SpanPart' /\ Len(span') = Len(span)
      /\ \A x \in Born : span'[x].state = IF x = Top(t) THEN state ELSE span[x].state
  BY <1>1, <1>2, ChangeKeeps
<1>4. TaskPart'
  BY <1>3, LeaveKeeps
<1> QED BY <1>3, <1>4 DEF TreeInv

(* No span changes but the mode of a task, or a task comes or goes. *)
LEMMA TaskKeeps ==
    ASSUME TreeInv, SpanTreeAssumption, span' = span, pathMap' = pathMap, crowded' = crowded,
           NEW t \in Tasks, NEW r \in TaskRecord,
           task' = [task EXCEPT ![t] = r], r.frames \in {task[t].frames, <<>>},
           r.current <= Len(span)
    PROVE  TreeInv'
<1>1. span' = span /\ pathMap' = pathMap /\ crowded' = crowded /\ Len(span) \in Nat
  BY DEF TreeInv, SpanPart
<1>2. SpanPart'
  BY <1>1 DEF TreeInv, SpanPart, Born, MapHoldsOpen, OpenSpans, IsOpen, PathIsAncestry
<1>3. task \in [Tasks -> TaskRecord]
  BY DEF TreeInv, TaskPart
<1>4. task' \in [Tasks -> TaskRecord]
  BY <1>3
<1>6. \A u \in Tasks : /\ task'[u].current <= Len(span')
                       /\ task'[u].frames = task[u].frames \/ task'[u].frames = <<>>
  <2>1. \A u \in Tasks : task'[u] = IF u = t THEN r ELSE task[u]
    BY <1>3
  <2> QED BY <1>1, <2>1, BodiesBorn
<1>5. TaskPart'
  <2>1. Len(span') \in Nat /\ Len(span) <= Len(span')
    BY <1>1
  <2>2. \A x \in Born : Executed(x) => span'[x].state = span[x].state
    BY <1>1
  <2> QED BY <1>4, <1>6, <2>1, <2>2, SameBodiesKeep
<1> QED BY <1>2, <1>5 DEF TreeInv

(* A generator that could not be created, is closed, or is finalised. *)
LEMMA AsideKeeps ==
    ASSUME TreeInv, SpanTreeAssumption, NEW s \in Born, NEW state \in {"finalising", "ended"},
           span[s].state \in {"suspended", "finalising"}, Changes(s, state), UNCHANGED task
    PROVE  TreeInv'
<1>1. IsOpen(s)
  BY DEF IsOpen
<1>2. /\ SpanPart' /\ Len(span') = Len(span)
      /\ \A x \in Born : span'[x].state = IF x = s THEN state ELSE span[x].state
  BY <1>1, ChangeKeeps
<1>3. ~Executed(s)
  BY DEF Executed, TreeInv, TaskPart, BodiesRun
<1>4. TaskPart'
  <2>1. Len(span') \in Nat /\ Len(span) <= Len(span')
    BY <1>2 DEF TreeInv, SpanPart
  <2>2. \A x \in Born : Executed(x) => span'[x].state = span[x].state
    BY <1>2, <1>3
  <2>3. task' \in [Tasks -> TaskRecord]
    BY DEF TreeInv, TaskPart
  <2>4. \A u \in Tasks : /\ task'[u].current <= Len(span')
                         /\ task'[u].frames = task[u].frames \/ task'[u].frames = <<>>
    BY <1>2, BodiesBorn
  <2> QED BY <2>1, <2>2, <2>3, <2>4, SameBodiesKeep
<1> QED BY <1>2, <1>4 DEF TreeInv

(* Nothing but the mode of a task changes. *)
LEMMA ModeKeeps ==
    ASSUME TreeInv, SpanTreeAssumption, span' = span, pathMap' = pathMap, crowded' = crowded,
           NEW t \in Tasks, NEW mode \in {"runs", "raises"},
           task' = [task EXCEPT ![t].mode = mode]
    PROVE  TreeInv'
<1> DEFINE old == task[t]
           new == [old EXCEPT !.mode = mode]
<1>1. old \in TaskRecord /\ old.current <= Len(span)
  BY DEF TreeInv, TaskPart, Refers
<1>2. task' = [task EXCEPT ![t] = new]
  OBVIOUS
<1> HIDE DEF old
<1>3. new \in TaskRecord /\ new.frames = old.frames /\ new.current = old.current
  BY <1>1 DEF TaskRecord
<1> HIDE DEF new
<1>4. new.frames = task[t].frames /\ new.current <= Len(span)
  BY <1>1, <1>3 DEF old
<1> QED BY <1>2, <1>3, <1>4, TaskKeeps

(* The spans and the bodies at the start, and after every step. *)
LEMMA AsleepType == Asleep \in TaskRecord /\ Asleep.frames = <<>> /\ Asleep.current = 0
  BY DEF Asleep, TaskRecord

LEMMA TreeInit == ASSUME SpanTreeAssumption, Init PROVE TreeInv
<1>1. span = <<>> /\ Born = {} /\ Len(span) = 0 /\ pathMap = {} /\ crowded = FALSE
  BY DEF Init, Born
<1>2. SpanPart
  <2>1. span \in Seq(SpanRecord) /\ Len(span) <= MaxSpans
    BY <1>1 DEF SpanTreeAssumption
  <2>2. MapHoldsOpen
    BY <1>1 DEF MapHoldsOpen, OpenSpans
  <2>3. PathIsAncestry
    BY <1>1 DEF PathIsAncestry
  <2> QED BY <1>1, <2>1, <2>2, <2>3 DEF SpanPart
<1>4. /\ task = [t \in Tasks |-> [Asleep EXCEPT !.alive = (t = Main)]]
      /\ \A t \in Tasks : task[t] = [Asleep EXCEPT !.alive = (t = Main)]
  BY DEF Init
<1>5. ASSUME NEW t \in Tasks
      PROVE  task[t] \in TaskRecord /\ task[t].frames = <<>> /\ task[t].current = 0
  <2>1. PICK alive \in BOOLEAN : task[t] = [Asleep EXCEPT !.alive = alive]
    BY <1>4
  <2> QED BY <2>1, AsleepType DEF TaskRecord
<1>6. task \in [Tasks -> TaskRecord]
  BY <1>4, <1>5
<1>7. TaskPart
  BY <1>1, <1>5, <1>6 DEF TaskPart, Refers, OneBody, BodiesRun
<1> QED BY <1>2, <1>7 DEF TreeInv

LEMMA StillbornKeeps ==
    ASSUME SpanTreeAssumption, TreeInv, NEW t \in Tasks, FirstNextFails(t)
    PROVE  TreeInv'
<1> DEFINE old == task[t]
           new == [old EXCEPT !.mode = "raises"]
<1>1. PICK by \in {"gen", "asyncgen"} : Starts(old.current, FALSE, by, "stillborn")
  BY DEF FirstNextFails
<1>2. old.current \in Nat /\ old.current <= Len(span) /\ Len(span) \in Nat
  BY BodiesBorn DEF TreeInv, SpanPart
<1>3. SpanPart' /\ Len(span') = Len(span) + 1 /\ \A s \in Born : span'[s] = span[s]
  BY <1>1, <1>2, StartsKeeps
<1>4. old \in TaskRecord /\ task' = [task EXCEPT ![t] = new] /\ task \in [Tasks -> TaskRecord]
  BY DEF FirstNextFails, TreeInv, TaskPart
<1> HIDE DEF old
<1>5. new \in TaskRecord /\ new.frames = old.frames /\ new.current = old.current
  BY <1>4 DEF TaskRecord
<1> HIDE DEF new
<1>6. task' \in [Tasks -> TaskRecord]
  BY <1>4, <1>5
<1>7. \A u \in Tasks : /\ task'[u].current <= Len(span')
                       /\ task'[u].frames = task[u].frames \/ task'[u].frames = <<>>
  <2> TAKE u \in Tasks
  <2>1. task[u].current <= Len(span')
    BY <1>2, <1>3, BodiesBorn
  <2>2. task'[u] = IF u = t THEN new ELSE task[u]
    BY <1>4
  <2>3. CASE u = t
    BY <1>5, <2>1, <2>2, <2>3 DEF old
  <2>4. CASE u # t
    BY <2>1, <2>2, <2>4
  <2> QED BY <2>3, <2>4
<1>8. Len(span') \in Nat /\ Len(span) <= Len(span')
  BY <1>2, <1>3
<1>9. \A x \in Born : Executed(x) => span'[x].state = span[x].state
  BY <1>3
<1>10. TaskPart'
  BY <1>6, <1>7, <1>8, <1>9, SameBodiesKeep
<1> QED BY <1>3, <1>10 DEF TreeInv

LEMMA ResumesKeeps ==
    ASSUME SpanTreeAssumption, TreeInv, NEW t \in Tasks, NEW s \in Born, Resumes(t, s)
    PROVE  TreeInv'
<1>1. IsOpen(s) /\ Changes(s, "running")
  BY DEF Resumes, Becomes, Changes, IsOpen
<1>2. /\ SpanPart' /\ Len(span') = Len(span)
      /\ \A x \in Born : span'[x].state = IF x = s THEN "running" ELSE span[x].state
  BY <1>1, ChangeKeeps
<1>3. ~Executed(s)
  BY DEF Resumes, Executed, TreeInv, TaskPart, BodiesRun
<1>4. TaskPart'
  <2>1. Len(span) \in Nat /\ Born = 1 .. Len(span) /\ Len(span) <= MaxSpans
    BY DEF TreeInv, SpanPart, Born
  <2>2. Len(span') \in Nat /\ Len(span) <= Len(span') /\ Len(span') <= MaxSpans
    BY <1>2, <2>1
  <2>3. s \in 1 .. Len(span')
    BY <1>2, <2>1
  <2>4. task[t].current \in Nat /\ task[t].current <= Len(span')
    BY <1>2, BodiesBorn
  <2>5. Enter(t, s, task[t].current)
    BY DEF Resumes
  <2>6. span'[s].state = "running" /\ \A x \in Born : x # s => span'[x].state = span[x].state
    BY <1>2
  <2> HIDE DEF Born
  <2> QED BY <1>3, <2>2, <2>3, <2>4, <2>5, <2>6, EnterKeeps
<1> QED BY <1>2, <1>4 DEF TreeInv

LEMMA TaskStepKeeps ==
    ASSUME SpanTreeAssumption, TreeInv, NEW t \in Tasks, TaskStep(t)
    PROVE  TreeInv'
<1>1. /\ task[t].current \in Nat /\ task[t].current <= Len(span) /\ Len(span) \in Nat
      /\ Born = 1 .. Len(span) /\ task[t] \in TaskRecord
  BY BodiesBorn DEF TreeInv, SpanPart, TaskPart, Born
<1>2. CASE Call(t)
  BY <1>1, <1>2, BeginKeeps DEF Call
<1>3. CASE ForeignCall(t)
  <2>1. PICK p \in Born : Starts(p, TRUE, "call", "running")
    BY <1>3 DEF ForeignCall
  <2>2. p \in Nat /\ p <= Len(span)
    BY <1>1
  <2> QED BY <1>1, <1>3, <2>1, <2>2, BeginKeeps DEF ForeignCall
<1>4. CASE FirstNext(t)
  <2>1. PICK by \in {"gen", "asyncgen"} : Starts(task[t].current, FALSE, by, "running")
    BY <1>4 DEF FirstNext
  <2> QED BY <1>1, <1>4, <2>1, BeginKeeps DEF FirstNext
<1>5. CASE FirstNextFails(t)
  BY <1>5, StillbornKeeps
<1>6. CASE Yields(t)
  BY <1>6, EndKeeps DEF Yields
<1>7. ASSUME NEW s \in Born, Resumes(t, s) PROVE TreeInv'
  BY <1>7, ResumesKeeps
<1>8. CASE Returns(t)
  BY <1>8, EndKeeps DEF Returns
<1>9. CASE Throws(t)
  BY <1>9, ModeKeeps DEF Throws, spanVars
<1>10. CASE Unwinds(t)
  BY <1>10, EndKeeps DEF Unwinds
<1>11. CASE Catches(t)
  BY <1>11, ModeKeeps DEF Catches, spanVars
<1>12. ASSUME NEW u \in Tasks, Spawns(t, u) PROVE TreeInv'
  <2> DEFINE r == [Asleep EXCEPT !.alive = TRUE, !.current = task[t].current]
  <2>1. task[t].current \in SpanIds \cup {0}
    BY <1>1 DEF TaskRecord
  <2>2. r \in TaskRecord /\ r.frames = <<>> /\ r.current = task[t].current
    BY <2>1, AsleepType DEF TaskRecord
  <2>3. task' = [task EXCEPT ![u] = r] /\ span' = span /\ pathMap' = pathMap /\ crowded' = crowded
    BY <1>12 DEF Spawns, spanVars
  <2> HIDE DEF r
  <2> QED BY <1>1, <2>2, <2>3, TaskKeeps
<1>13. CASE Finishes(t)
  <2>1. /\ Asleep \in TaskRecord /\ Asleep.frames \in {task[t].frames, <<>>}
        /\ Asleep.current <= Len(span)
    BY <1>1, AsleepType
  <2>2. task' = [task EXCEPT ![t] = Asleep] /\ span' = span /\ pathMap' = pathMap /\ crowded' = crowded
    BY <1>13 DEF Finishes, spanVars
  <2> QED BY <2>1, <2>2, TaskKeeps
<1> QED BY <1>2, <1>3, <1>4, <1>5, <1>6, <1>7, <1>8, <1>9, <1>10, <1>11, <1>12, <1>13,
           TaskStep(t) DEF TaskStep

LEMMA TreeNextKeeps ==
    ASSUME SpanTreeAssumption, TreeInv, [TreeNext]_treeVars
    PROVE  TreeInv'
<1>1. ASSUME NEW t \in Tasks, TaskStep(t) PROVE TreeInv'
  BY <1>1, TaskStepKeeps
<1>2. ASSUME NEW s \in Born, Abandons(s) PROVE TreeInv'
  <2>1. PICK state \in {"finalising", "ended"} : Changes(s, state)
    BY <1>2 DEF Abandons, Ends, Becomes, Changes
  <2> QED BY <1>2, <2>1, AsideKeeps DEF Abandons
<1>3. ASSUME NEW s \in Born, Finalises(s) PROVE TreeInv'
  <2>1. Changes(s, "ended")
    BY <1>3 DEF Finalises, Ends, Changes
  <2> QED BY <1>3, <2>1, AsideKeeps DEF Finalises
<1>4. CASE UNCHANGED treeVars
  BY <1>4 DEF treeVars, spanVars, TreeInv, SpanPart, TaskPart, Born, MapHoldsOpen, OpenSpans, IsOpen,
              PathIsAncestry, OneBody, BodiesRun
<1>5. CASE TreeNext
  BY <1>1, <1>2, <1>3, <1>5 DEF TreeNext
<1> QED BY <1>4, <1>5

(* The path stamped on every span is its ancestry, for any tasks, any number of spans and any
   capacity of the path map, and a body is executed by one task at a time. *)
THEOREM PathsAreRight == TreeSpec => [](TypeOK /\ PathIsAncestry /\ OneBody)
<1>1. TreeInv => TypeOK /\ PathIsAncestry /\ OneBody
  BY DEF TreeInv, SpanPart, TaskPart, TypeOK, TaskRecord, FrameRecord
<1>2. SpanTreeAssumption
  BY SpanTreeAssumption
<1>3. Init => TreeInv
  BY <1>2, TreeInit
<1>4. TreeInv /\ [TreeNext]_treeVars => TreeInv'
  BY <1>2, TreeNextKeeps
<1> QED BY <1>1, <1>3, <1>4, PTL DEF TreeSpec

----------------------------------------------------------------------------
(* Who ends an open span: the safety half of EverySpanEnds.                 *)

(* a span runs only while a task executes its body, and no task is gone that executes one *)
Held ==
    /\ \A s \in Born : span[s].state = "running" => Executed(s)
    /\ \A t \in Tasks : ~task[t].alive => task[t].frames = <<>>

LEMMA FramesType ==
    ASSUME TreeInv
    PROVE  /\ task \in [Tasks -> TaskRecord]
           /\ \A t \in Tasks : task[t].frames \in Seq(FrameRecord)
<1>1. task \in [Tasks -> TaskRecord]
  BY DEF TreeInv, TaskPart
<1>2. ASSUME NEW t \in Tasks PROVE task[t].frames \in Seq(FrameRecord)
  <2>1. task[t] \in TaskRecord
    BY <1>1
  <2> QED BY <2>1 DEF TaskRecord
<1> QED BY <1>1, <1>2

(* The body that is entered is executed, and so is every other. *)
LEMMA EnterHolds ==
    ASSUME TreeInv, Held, NEW t \in Tasks, NEW s, NEW current, task[t].alive, Enter(t, s, current),
           \A x \in Born' : x # s => x \in Born /\ (span'[x].state = "running" => span[x].state = "running")
    PROVE  Held'
<1> DEFINE old == task[t].frames
           new == Append(old, [of |-> s, back |-> task[t].current])
<1>1. task \in [Tasks -> TaskRecord] /\ old \in Seq(FrameRecord)
  BY FramesType
<1>2. /\ \A i \in DOMAIN old : i \in DOMAIN new /\ new[i] = old[i]
      /\ Len(old) + 1 \in DOMAIN new /\ new[Len(old) + 1].of = s
  BY <1>1
<1>3. \A u \in Tasks : /\ task'[u].frames = IF u = t THEN new ELSE task[u].frames
                       /\ task'[u].alive = task[u].alive
  <2>1. task[t] \in TaskRecord
    BY <1>1
  <2> QED BY <1>1, <2>1 DEF Enter, TaskRecord
<1> HIDE DEF new
<1>4. \A x : Executed(x) => Executed(x)'
  <2> SUFFICES ASSUME NEW x, NEW u \in Tasks, NEW i \in DOMAIN task[u].frames, task[u].frames[i].of = x
               PROVE  i \in DOMAIN task'[u].frames /\ task'[u].frames[i].of = x
    BY DEF Executed
  <2> QED BY <1>2, <1>3
<1>5. Executed(s)'
  BY <1>2, <1>3 DEF Executed
<1> QED BY <1>3, <1>4, <1>5 DEF Held

(* The body that is left is that of the one span that stops running. *)
LEMMA LeaveHolds ==
    ASSUME TreeInv, Held, NEW t \in Tasks, NEW mode, Depth(t) > 0, Leave(t, mode), Born' = Born,
           span'[Top(t)].state # "running",
           \A x \in Born : x # Top(t) => span'[x].state = span[x].state
    PROVE  Held'
<1> DEFINE old == task[t].frames
           new == SubSeq(old, 1, Depth(t) - 1)
<1>1. task \in [Tasks -> TaskRecord] /\ old \in Seq(FrameRecord) /\ Depth(t) = Len(old)
  BY FramesType DEF Depth
<1>2. \A i \in DOMAIN old : i # Depth(t) => i \in DOMAIN new /\ new[i] = old[i]
  BY <1>1
<1>3. \A u \in Tasks : /\ task'[u].frames = IF u = t THEN new ELSE task[u].frames
                       /\ task'[u].alive = task[u].alive
  <2>1. task[t] \in TaskRecord
    BY <1>1
  <2> QED BY <1>1, <2>1 DEF Leave, TaskRecord
<1>4. task[t].alive
  BY <1>1 DEF Held
<1> HIDE DEF new
<1>5. ASSUME NEW x \in Born, x # Top(t), Executed(x) PROVE Executed(x)'
  <2>1. PICK u \in Tasks : \E i \in DOMAIN task[u].frames : task[u].frames[i].of = x
    BY <1>5 DEF Executed
  <2>2. PICK i \in DOMAIN task[u].frames : task[u].frames[i].of = x
    BY <2>1
  <2>3. u = t => i # Depth(t)
    BY <1>5, <2>2 DEF Top
  <2>4. i \in DOMAIN task'[u].frames /\ task'[u].frames[i].of = x
    BY <1>2, <1>3, <2>2, <2>3
  <2> QED BY <2>4 DEF Executed
<1> QED BY <1>3, <1>4, <1>5 DEF Held

(* No body is entered or left. *)
LEMMA SameHolds ==
    ASSUME TreeInv, Held,
           \A x \in Born' : span'[x].state = "running" => x \in Born /\ span[x].state = "running",
           \A u \in Tasks : /\ task'[u].frames = task[u].frames
                            /\ task'[u].alive \/ task[u].frames = <<>>
    PROVE  Held'
<1>1. \A x : Executed(x)' <=> Executed(x)
  BY DEF Executed
<1> QED BY <1>1 DEF Held

(* What becomes of the spans there are. *)
Lives(s) ==
    /\ span[s].state = "ended" => span'[s].state = "ended"
    /\ span[s].state = "finalising" => span'[s].state \in {"finalising", "ended"}
    /\ span[s].state = "stillborn" => span'[s].state = "stillborn"

LEMMA BeginHolds ==
    ASSUME TreeInv, SpanTreeAssumption, Held, NEW t \in Tasks, task[t].alive,
           NEW p \in Nat, p <= Len(span), NEW blind \in BOOLEAN,
           NEW by \in {"call", "gen", "asyncgen"}, Starts(p, blind, by, "running"),
           NEW c, Enter(t, Len(span) + 1, c)
    PROVE  Held' /\ \A s \in Born : Lives(s)
<1>1. /\ Len(span') = Len(span) + 1 /\ \A s \in Born : span'[s] = span[s]
      /\ span \in Seq(SpanRecord) /\ span' \in Seq(SpanRecord)
  BY StartsKeeps DEF TreeInv, SpanPart
<1>2. \A x \in Born' : x # Len(span) + 1 => x \in Born
  BY <1>1 DEF Born
<1>3. Held'
  BY <1>1, <1>2, EnterHolds
<1> QED BY <1>1, <1>3 DEF Lives

LEMMA EndHolds ==
    ASSUME TreeInv, SpanTreeAssumption, Held, NEW t \in Tasks, NEW mode, Depth(t) > 0,
           Ends(Top(t)) \/ Becomes(Top(t), "suspended"), Leave(t, mode)
    PROVE  Held' /\ \A s \in Born : Lives(s)
<1>1. Top(t) \in Born /\ IsOpen(Top(t)) /\ span[Top(t)].state = "running"
  BY TopRuns
<1>2. PICK state \in {"suspended", "ended"} : Changes(Top(t), state)
  BY DEF Ends, Becomes, Changes
<1>3. \A x \in Born : span'[x].state = IF x = Top(t) THEN state ELSE span[x].state
  BY <1>1, <1>2, ChangeKeeps
<1>4. Born' = Born
  BY <1>2 DEF Changes, Born
<1>5. Held'
  BY <1>1, <1>3, <1>4, LeaveHolds
<1> QED BY <1>1, <1>3, <1>5 DEF Lives

LEMMA TaskStepHolds ==
    ASSUME SpanTreeAssumption, TreeInv, Held, NEW t \in Tasks, TaskStep(t)
    PROVE  Held' /\ \A s \in Born : Lives(s)
<1>1. /\ task[t].current \in Nat /\ task[t].current <= Len(span) /\ Len(span) \in Nat
      /\ Born = 1 .. Len(span) /\ task \in [Tasks -> TaskRecord]
  BY BodiesBorn DEF TreeInv, SpanPart, TaskPart, Born
<1>0. \A u \in Tasks : task[u] \in TaskRecord
  BY <1>1
<1>2. CASE Call(t)
  BY <1>1, <1>2, BeginHolds DEF Call, Runs
<1>3. CASE ForeignCall(t)
  <2>1. PICK p \in Born : Starts(p, TRUE, "call", "running")
    BY <1>3 DEF ForeignCall
  <2>2. p \in Nat /\ p <= Len(span)
    BY <1>1
  <2> QED BY <1>1, <1>3, <2>1, <2>2, BeginHolds DEF ForeignCall, Runs
<1>4. CASE FirstNext(t)
  <2>1. PICK by \in {"gen", "asyncgen"} : Starts(task[t].current, FALSE, by, "running")
    BY <1>4 DEF FirstNext
  <2> QED BY <1>1, <1>4, <2>1, BeginHolds DEF FirstNext, Runs
<1>5. CASE FirstNextFails(t)
  <2>1. PICK by \in {"gen", "asyncgen"} : Starts(task[t].current, FALSE, by, "stillborn")
    BY <1>5 DEF FirstNextFails
  <2>2. Len(span') = Len(span) + 1 /\ \A s \in Born : span'[s] = span[s]
    BY <1>1, <2>1, StartsKeeps
  <2>3. span' \in Seq(SpanRecord) /\ span \in Seq(SpanRecord) /\ span'[Len(span) + 1].state = "stillborn"
    <3>1. SpanPart' /\ span \in Seq(SpanRecord)
      BY <1>1, <2>1, StartsKeeps DEF TreeInv, SpanPart
    <3> QED BY <2>1, <3>1 DEF SpanPart, Starts
  <2>4. \A x \in Born' : span'[x].state = "running" => x \in Born /\ span[x].state = "running"
    BY <2>2, <2>3 DEF Born
  <2>5. \A u \in Tasks : task'[u].frames = task[u].frames /\ task'[u].alive = task[u].alive
    BY <1>0, <1>1, <1>5 DEF FirstNextFails, TaskRecord
  <2>6. Held'
    BY <2>4, <2>5, SameHolds DEF Held
  <2> QED BY <2>2, <2>6 DEF Lives
<1>6. CASE Yields(t)
  BY <1>6, EndHolds DEF Yields
<1>7. ASSUME NEW s \in Born, Resumes(t, s) PROVE Held' /\ \A x \in Born : Lives(x)
  <2>1. IsOpen(s) /\ Changes(s, "running") /\ span[s].state = "suspended" /\ task[t].alive
    BY <1>7 DEF Resumes, Becomes, Changes, IsOpen, Runs
  <2>2. \A x \in Born : span'[x].state = IF x = s THEN "running" ELSE span[x].state
    BY <2>1, ChangeKeeps
  <2>3. Born' = Born
    BY <2>1 DEF Changes, Born
  <2>4. Held'
    BY <1>7, <2>1, <2>2, <2>3, EnterHolds DEF Resumes
  <2> QED BY <2>1, <2>2, <2>4 DEF Lives
<1>8. CASE Returns(t)
  BY <1>8, EndHolds DEF Returns
<1>9. CASE Unwinds(t)
  BY <1>9, EndHolds DEF Unwinds
<1>10. ASSUME span' = span, NEW u \in Tasks, NEW r \in TaskRecord, task' = [task EXCEPT ![u] = r],
              r.frames = task[u].frames, r.alive \/ task[u].frames = <<>>
       PROVE  Held' /\ \A s \in Born : Lives(s)
  <2>1. \A v \in Tasks : task'[v] = IF v = u THEN r ELSE task[v]
    BY <1>1, <1>10
  <2>2. \A v \in Tasks : /\ task'[v].frames = task[v].frames
                         /\ task'[v].alive \/ task[v].frames = <<>>
    BY <1>10, <2>1 DEF Held
  <2>3. \A x \in Born' : span'[x].state = "running" => x \in Born /\ span[x].state = "running"
    BY <1>10 DEF Born
  <2> QED BY <1>10, <2>2, <2>3, SameHolds DEF Lives
<1>11. ASSUME NEW mode \in {"runs", "raises"}, task' = [task EXCEPT ![t].mode = mode], span' = span
       PROVE  Held' /\ \A s \in Born : Lives(s)
  <2> DEFINE r == [task[t] EXCEPT !.mode = mode]
  <2>1. r \in TaskRecord /\ r.frames = task[t].frames /\ r.alive = task[t].alive
    BY <1>0 DEF TaskRecord
  <2>2. task' = [task EXCEPT ![t] = r]
    BY <1>11
  <2> HIDE DEF r
  <2> QED BY <1>10, <1>11, <2>1, <2>2 DEF Held
<1>12. CASE Throws(t) \/ Catches(t)
  BY <1>11, <1>12 DEF Throws, Catches, spanVars
<1>13. ASSUME NEW u \in Tasks, Spawns(t, u) PROVE Held' /\ \A s \in Born : Lives(s)
  <2> DEFINE r == [Asleep EXCEPT !.alive = TRUE, !.current = task[t].current]
  <2>1. task[t].current \in SpanIds \cup {0}
    BY <1>0 DEF TaskRecord
  <2>2. r \in TaskRecord /\ r.frames = <<>> /\ r.alive
    BY <2>1, AsleepType DEF TaskRecord, Asleep
  <2>3. task' = [task EXCEPT ![u] = r] /\ span' = span /\ task[u].frames = <<>>
    BY <1>13 DEF Spawns, spanVars, Held
  <2> HIDE DEF r
  <2> QED BY <1>10, <2>2, <2>3
<1>14. CASE Finishes(t)
  <2>1. task[t].frames = <<>>
    BY <1>14, FramesType DEF Finishes, Depth
  <2>2. task' = [task EXCEPT ![t] = Asleep] /\ span' = span
    BY <1>14 DEF Finishes, spanVars
  <2> QED BY <1>10, <2>1, <2>2, AsleepType
<1> QED BY <1>2, <1>3, <1>4, <1>5, <1>6, <1>7, <1>8, <1>9, <1>12, <1>13, <1>14, TaskStep(t) DEF TaskStep

LEMMA TreeNextHolds ==
    ASSUME SpanTreeAssumption, TreeInv, Held, [TreeNext]_treeVars
    PROVE  Held' /\ \A s \in Born : Lives(s)
<1>1. ASSUME NEW s \in Born, NEW state \in {"finalising", "ended"}, Changes(s, state), UNCHANGED task,
             span[s].state \in {"suspended", "finalising"}, state = "finalising" => span[s].state = "suspended"
      PROVE  Held' /\ \A x \in Born : Lives(x)
  <2>1. IsOpen(s)
    BY <1>1 DEF IsOpen
  <2>2. \A x \in Born : span'[x].state = IF x = s THEN state ELSE span[x].state
    BY <1>1, <2>1, ChangeKeeps
  <2>3. Born' = Born
    BY <1>1 DEF Changes, Born
  <2>4. Held'
    BY <1>1, <2>2, <2>3, SameHolds DEF Held
  <2> QED BY <1>1, <2>2, <2>4 DEF Lives
<1>2. ASSUME NEW s \in Born, Abandons(s) PROVE Held' /\ \A x \in Born : Lives(x)
  <2>1. PICK state \in {"finalising", "ended"} : Changes(s, state)
    BY <1>2 DEF Abandons, Ends, Becomes, Changes
  <2> QED BY <1>1, <1>2, <2>1 DEF Abandons
<1>3. ASSUME NEW s \in Born, Finalises(s) PROVE Held' /\ \A x \in Born : Lives(x)
  <2>1. Changes(s, "ended")
    BY <1>3 DEF Finalises, Ends, Changes
  <2> QED BY <1>1, <1>3, <2>1 DEF Finalises
<1>4. CASE UNCHANGED treeVars
  BY <1>4 DEF treeVars, spanVars, Held, Lives, Born, Executed
<1>5. CASE TreeNext
  BY <1>2, <1>3, <1>5, TaskStepHolds DEF TreeNext
<1> QED BY <1>4, <1>5

LEMMA HeldInvariant == TreeSpec => [](TreeInv /\ Held)
<1>1. Init => TreeInv /\ Held
  <2>1. ASSUME Init PROVE Held
    <3>1. \A t \in Tasks : task[t].frames = <<>>
      BY <2>1 DEF Init, Asleep
    <3> QED BY <2>1, <3>1 DEF Init, Held, Born
  <2> QED BY <2>1, TreeInit, SpanTreeAssumption
<1>2. TreeInv /\ Held /\ [TreeNext]_treeVars => TreeInv' /\ Held'
  BY TreeNextKeeps, TreeNextHolds, SpanTreeAssumption
<1> QED BY <1>1, <1>2, PTL DEF TreeSpec

(* A span whose body no task executes, and which no one can resume, has ended or is with the
   event loop, which alone ends it: what EverySpanEnds needs beside the fairness of the loop. *)
THEOREM OnlyTheLoopIsAwaited ==
    TreeSpec => [](\A s \in SpanIds : Over(s) => span[s].state \in {"finalising", "ended"})
<1>1. TreeInv /\ Held => \A s \in SpanIds : Over(s) => span[s].state \in {"finalising", "ended"}
  <2> SUFFICES ASSUME TreeInv, Held, NEW s \in SpanIds, Over(s)
               PROVE  span[s].state \in {"finalising", "ended"}
    OBVIOUS
  <2>1. s \in Born /\ span[s].state # "running"
    BY DEF Over, Held
  <2>2. span[s].state \in {"running", "suspended", "finalising", "stillborn", "ended"}
    BY <2>1, ParentIsEarlier, SpanTreeAssumption DEF SpanRecord
  <2> QED BY <2>1, <2>2 DEF Over
<1> QED BY <1>1, HeldInvariant, PTL

(* The loop's work is not undone: a generator handed to it is not resumed, and an ended span
   stays ended. *)
THEOREM EndedIsEnded == TreeSpec => [][\A s \in Born : Lives(s)]_treeVars
<1>1. TreeInv /\ Held /\ [TreeNext]_treeVars => [\A s \in Born : Lives(s)]_treeVars
  BY TreeNextHolds, SpanTreeAssumption
<1> QED BY <1>1, HeldInvariant, PTL DEF TreeSpec

----------------------------------------------------------------------------
(* The judge                                                                *)

(* A process with judges in it is one of the processes whose spans are described above:
   whatever a judge does to its spans is what observed functions do. *)
LEMMA JudgeStepIsTreeStep == ASSUME NEW t \in Tasks, JudgeStep(t) PROVE [TreeNext]_treeVars
<1>1. CASE BuilderFails(t)
  BY <1>1 DEF BuilderFails, TreeNext, TaskStep
<1>2. CASE Decides(t)
  BY <1>2 DEF Decides
<1>3. CASE Invokes(t)
  BY <1>3 DEF Invokes, TreeNext, TaskStep
<1>4. CASE Asks(t)
  BY <1>4 DEF Asks, TreeNext, TaskStep
<1>5. CASE Answers(t)
  BY <1>5 DEF Answers, TreeNext, TaskStep
<1>6. CASE CompletionFails(t)
  BY <1>6 DEF CompletionFails, TreeNext, TaskStep
<1>7. CASE FailureLeaves(t)
  BY <1>7 DEF FailureLeaves, TreeNext, TaskStep
<1>8. CASE Records(t)
  BY <1>8 DEF Records, TreeNext, TaskStep
<1>9. CASE Parses(t)
  BY <1>9 DEF Parses, TreeNext, TaskStep
<1> QED BY <1>1, <1>2, <1>3, <1>4, <1>5, <1>6, <1>7, <1>8, <1>9 DEF JudgeStep

LEMMA NextIsTreeNext == [Next]_vars => [TreeNext]_treeVars
<1>1. ASSUME NEW i \in Providers, Installs(i) PROVE [TreeNext]_treeVars
  BY <1>1 DEF Installs
<1>2. CASE Initialized
  BY <1>2 DEF Initialized
<1>3. ASSUME NEW t \in Tasks, UserStep(t) PROVE [TreeNext]_treeVars
  BY <1>3 DEF UserStep, TreeNext
<1>4. ASSUME NEW t \in Judges, JudgeStep(t) PROVE [TreeNext]_treeVars
  BY <1>4, JudgeStepIsTreeStep, JudgeAssumption DEF JudgeAssumption
<1>5. ASSUME NEW s \in Born, Abandons(s) \/ Finalises(s) PROVE [TreeNext]_treeVars
  BY <1>5 DEF TreeNext
<1>6. CASE UNCHANGED vars
  BY <1>6 DEF vars
<1> QED BY <1>1, <1>2, <1>3, <1>4, <1>5, <1>6 DEF Next

(* Judges add no behaviour to the tree of spans: with judges in it, a process is still one of
   those SpanTree describes, and PathsAreRight holds of it. *)
THEOREM JudgesAreObserved == Spec => TreeSpec
<1>1. JudgeInit => Init
  BY DEF JudgeInit
<1> QED BY <1>1, NextIsTreeNext, PTL DEF Spec, TreeSpec

(* How the steps of a judge's task change it; no other task is touched. *)
Kept(t) == \A u \in Tasks : u # t => task'[u] = task[u]

LEMMA CallEffect ==
    ASSUME TreeInv, SpanTreeAssumption, NEW t \in Tasks, Call(t)
    PROVE  /\ Kept(t) /\ task'[t].alive = task[t].alive
           /\ Len(span) + 1 \in Nat
           /\ Depth(t) \in Nat /\ Depth(t)' = Depth(t) + 1 /\ Top(t)' = Len(span) + 1
           /\ Depth(t) > 0 => task'[t].frames[Depth(t)].of = Top(t)
<1> DEFINE old == task[t]
           frame == [of |-> Len(span) + 1, back |-> old.current]
           frames == Append(old.frames, frame)
<1>1. task \in [Tasks -> TaskRecord] /\ Len(span) \in Nat
  BY DEF TreeInv, TaskPart, SpanPart
<1>2. old \in TaskRecord
  BY <1>1
<1>3. old.frames \in Seq(FrameRecord) /\ old.current \in SpanIds \cup {0}
  BY <1>2 DEF TaskRecord
<1>4. frame \in FrameRecord
  <2>1. Len(span) < MaxSpans /\ MaxSpans \in Nat
    BY DEF Call, Starts, SpanTreeAssumption
  <2> QED BY <1>1, <1>3, <2>1 DEF FrameRecord, SpanIds
<1>5. /\ Len(old.frames) \in Nat /\ Len(frames) = Len(old.frames) + 1
      /\ frames[Len(old.frames) + 1] = frame /\ \A i \in 1 .. Len(old.frames) : frames[i] = old.frames[i]
  BY <1>3, <1>4
<1>6. task' = [task EXCEPT ![t] = [old EXCEPT !.frames = frames, !.current = Len(span) + 1]]
  BY DEF Call, Enter
<1> HIDE DEF frames
<1>7. /\ \A u \in Tasks : u # t => task'[u] = task[u]
      /\ task'[t] = [old EXCEPT !.frames = frames, !.current = Len(span) + 1]
  BY <1>1, <1>6
<1>8. task'[t].alive = old.alive /\ task'[t].frames = frames
  BY <1>2, <1>7 DEF TaskRecord
<1> QED BY <1>1, <1>5, <1>7, <1>8 DEF Kept, Depth, Top

LEMMA LeaveEffect ==
    ASSUME TreeInv, SpanTreeAssumption, NEW t \in Tasks, NEW mode \in {"runs", "raises"},
           Leave(t, mode), Depth(t) > 0
    PROVE  /\ Kept(t) /\ task'[t].alive = task[t].alive
           /\ Depth(t) \in Nat /\ Depth(t)' = Depth(t) - 1
           /\ Depth(t) > 1 => Top(t)' = task[t].frames[Depth(t) - 1].of
<1> DEFINE old == task[t]
           frames == SubSeq(old.frames, 1, Depth(t) - 1)
           back == old.frames[Depth(t)].back
<1>1. task \in [Tasks -> TaskRecord]
  BY DEF TreeInv, TaskPart
<1>2. old \in TaskRecord
  BY <1>1
<1>3. old.frames \in Seq(FrameRecord)
  BY <1>2 DEF TaskRecord
<1>4. Depth(t) = Len(old.frames) /\ Depth(t) \in Nat
  BY <1>3 DEF Depth
<1>5. Len(frames) = Depth(t) - 1 /\ \A i \in 1 .. Depth(t) - 1 : frames[i] = old.frames[i]
  BY <1>3, <1>4
<1>6. task' = [task EXCEPT ![t] = [old EXCEPT !.frames = frames, !.current = back, !.mode = mode]]
  BY DEF Leave
<1> HIDE DEF frames, back
<1>7. /\ \A u \in Tasks : u # t => task'[u] = task[u]
      /\ task'[t] = [old EXCEPT !.frames = frames, !.current = back, !.mode = mode]
  BY <1>1, <1>6
<1>8. task'[t].alive = old.alive /\ task'[t].frames = frames
  BY <1>2, <1>7 DEF TaskRecord
<1> QED BY <1>4, <1>5, <1>7, <1>8 DEF Kept, Depth, Top

LEMMA ModeEffect ==
    ASSUME TreeInv, NEW t \in Tasks, Throws(t)
    PROVE  Kept(t) /\ task'[t].alive = task[t].alive
<1>1. task \in [Tasks -> TaskRecord] /\ task' = [task EXCEPT ![t] = [task[t] EXCEPT !.mode = "raises"]]
  BY DEF TreeInv, TaskPart, Throws
<1>2. task[t] \in TaskRecord
  BY <1>1
<1>3. task'[t] = [task[t] EXCEPT !.mode = "raises"] /\ \A u \in Tasks : u # t => task'[u] = task[u]
  BY <1>1
<1> QED BY <1>2, <1>3 DEF Kept, TaskRecord

(* ... and no other step touches the task of a judge. *)
LEMMA OthersKeep ==
    ASSUME TreeInv, NEW t \in Tasks, NEW u \in Tasks, t # u, task[t].alive, TaskStep(u)
    PROVE  task'[t] = task[t]
<1>1. task \in [Tasks -> TaskRecord]
  BY DEF TreeInv, TaskPart
<1>2. ASSUME NEW v \in Tasks, Spawns(u, v) PROVE task'[t] = task[t]
  BY <1>1, <1>2 DEF Spawns
<1>3. CASE Call(u) \/ ForeignCall(u) \/ FirstNext(u) \/ FirstNextFails(u)
  BY <1>1, <1>3 DEF Call, ForeignCall, FirstNext, FirstNextFails, Enter
<1>4. ASSUME NEW s \in Born, Resumes(u, s) PROVE task'[t] = task[t]
  BY <1>1, <1>4 DEF Resumes, Enter
<1>5. CASE Yields(u) \/ Returns(u) \/ Unwinds(u)
  BY <1>1, <1>5 DEF Yields, Returns, Unwinds, Leave
<1>6. CASE Throws(u) \/ Catches(u) \/ Finishes(u)
  BY <1>1, <1>6 DEF Throws, Catches, Finishes
<1> QED BY <1>2, <1>3, <1>4, <1>5, <1>6 DEF TaskStep

JudgeRecord ==
    [pc : {"idle", "decided", "invokes", "asks", "library", "answered", "fails", "parses"},
     asks : Providers \cup {"none"}, custom : BOOLEAN, traced : BOOLEAN, base : Nat,
     spans : SUBSET Nat, priced : SUBSET Nat, reported : BOOLEAN]

One(S) == \E x \in Nat : S = {x}

(* what is known of a judge's record at each of its steps *)
Stage(j) ==
    /\ j.custom => ~j.traced /\ ~j.reported
    /\ j.pc # "idle" /\ ~j.custom => (j.traced <=> j.asks \in patched)
    /\ j.pc \in {"decided", "invokes", "asks", "library", "fails"} => j.priced = {} /\ ~j.reported
    /\ j.pc = "decided" => j.spans = {}
    /\ j.pc \in {"invokes", "asks"} => IF j.traced THEN j.spans = {} ELSE One(j.spans)
    /\ j.pc = "asks" => j.asks \notin patched
    /\ j.pc = "library" => j.asks \in patched
    /\ j.pc \in {"library", "answered", "fails", "parses"} =>
           j.spans # {} /\ (~j.custom => One(j.spans))
    /\ j.pc \in {"answered", "parses"} => j.priced = {} \/ \E x \in j.spans : j.priced = {x}
    /\ j.pc = "answered" /\ ~j.custom =>
           IF j.traced THEN j.reported => j.priced # {} ELSE j.priced = {}
    /\ j.pc = "parses" /\ j.reported => j.priced # {}

(* the spans of the completion that are open are those of the bodies being executed *)
OnTop(t) ==
    LET j == judge[t] IN
    /\ j.pc # "idle" => task[t].alive
    /\ j.pc \in {"invokes", "asks", "answered"} /\ ~j.traced => Depth(t) > 0 /\ Top(t) \in j.spans
    /\ j.pc = "library" => Depth(t) > 0 /\ Top(t) \in j.spans
    /\ j.pc = "library" /\ ~j.traced =>
           Depth(t) > 1 /\ task[t].frames[Depth(t) - 1].of \in j.spans

(* the integrations are settled before there is a judge *)
Settled == (\E t \in Tasks : ~IsAt(t, "idle")) => todo = {} /\ active = patched

JudgeInv ==
    /\ TreeInv
    /\ judge \in [Tasks -> JudgeRecord]
    /\ Settled
    /\ \A t \in Tasks : Stage(judge[t]) /\ OnTop(t)

(* the judges that have been installed properly and are asked with ids in lower case *)
WellSetUp == SetUpFirst /\ Capitals \subseteq {FALSE}

(* If one judge's task takes a step, the others are as they were. *)
LEMMA JudgeMoves ==
    ASSUME JudgeInv, WellSetUp, TreeInv', NEW t \in Tasks, Ready, UNCHANGED setUpVars,
           Kept(t), NEW j \in JudgeRecord, judge' = [judge EXCEPT ![t] = j],
           Stage(j), OnTop(t)'
    PROVE  JudgeInv'
<1>1. judge' \in [Tasks -> JudgeRecord] /\ judge'[t] = j /\ \A u \in Tasks : u # t => judge'[u] = judge[u]
  BY DEF JudgeInv
<1>2. todo' = {} /\ active' = patched' /\ patched' = patched
  BY DEF Ready, WellSetUp, setUpVars
<1>3. Settled'
  BY <1>2 DEF Settled
<1>4. \A u \in Tasks : Stage(judge[u])'
  BY <1>1, <1>2 DEF JudgeInv, Stage
<1>5. \A u \in Tasks : OnTop(u)'
  <2> TAKE u \in Tasks
  <2>1. CASE u # t
    BY <1>1, <2>1 DEF JudgeInv, OnTop, Kept, Depth, Top
  <2> QED BY <2>1
<1> QED BY <1>1, <1>3, <1>4, <1>5 DEF JudgeInv

LEMMA InvokesKeeps ==
    ASSUME JudgeInv, JudgeAssumption, SpanTreeAssumption, WellSetUp, NEW t \in Tasks, Ready, Invokes(t), TreeInv'
    PROVE  JudgeInv'
<1> DEFINE old == judge[t]
<1>1. /\ old \in JudgeRecord /\ Stage(old) /\ OnTop(t) /\ TreeInv
      /\ judge \in [Tasks -> JudgeRecord] /\ UNCHANGED setUpVars
  BY DEF JudgeInv, Invokes
<1>2. CASE old.traced
  <2> DEFINE new == [old EXCEPT !.pc = "invokes"]
  <2>1. judge' = [judge EXCEPT ![t] = new] /\ task' = task /\ old.pc = "decided"
    BY <1>2 DEF Invokes, Goes, IsAt, treeVars
  <2>2. Kept(t) /\ task'[t] = task[t]
    BY <2>1 DEF Kept
  <2> HIDE DEF old
  <2>3. /\ new \in JudgeRecord /\ new.pc = "invokes" /\ new.custom = old.custom /\ new.traced = old.traced
        /\ new.asks = old.asks /\ new.spans = old.spans /\ new.priced = old.priced
        /\ new.reported = old.reported
    BY <1>1 DEF JudgeRecord
  <2> HIDE DEF new
  <2>4. Stage(new)
    BY <1>1, <1>2, <2>1, <2>3 DEF Stage
  <2>5. OnTop(t)'
    <3>1. judge'[t] = new
      BY <1>1, <2>1
    <3> QED BY <1>1, <1>2, <2>1, <2>2, <2>3, <3>1 DEF OnTop, old
  <2> QED BY <1>1, <2>1, <2>2, <2>3, <2>4, <2>5, JudgeMoves
<1>3. CASE ~old.traced
  <2> DEFINE n == Len(span) + 1
             new == [old EXCEPT !.pc = "invokes", !.spans = {n}]
  <2>1. judge' = [judge EXCEPT ![t] = new] /\ Call(t) /\ old.pc = "decided"
    BY <1>3 DEF Invokes, IsAt
  <2>2. /\ Kept(t) /\ task'[t].alive = task[t].alive /\ n \in Nat
        /\ Depth(t) \in Nat /\ Depth(t)' = Depth(t) + 1 /\ Top(t)' = n
    BY <1>1, <2>1, CallEffect
  <2> HIDE DEF old, n
  <2>3. /\ new \in JudgeRecord /\ new.pc = "invokes" /\ new.custom = old.custom /\ new.traced = old.traced
        /\ new.asks = old.asks /\ new.spans = {n} /\ new.priced = old.priced
        /\ new.reported = old.reported
    BY <1>1, <2>2 DEF JudgeRecord
  <2> HIDE DEF new
  <2>4. Stage(new)
    BY <1>1, <1>3, <2>1, <2>2, <2>3 DEF Stage, One
  <2>5. OnTop(t)'
    <3>1. judge'[t] = new
      BY <1>1, <2>1
    <3> QED BY <1>1, <1>3, <2>1, <2>2, <2>3, <3>1 DEF OnTop, old
  <2> QED BY <1>1, <2>1, <2>2, <2>3, <2>4, <2>5, JudgeMoves
<1> QED BY <1>2, <1>3

LEMMA AsksKeeps ==
    ASSUME JudgeInv, JudgeAssumption, SpanTreeAssumption, WellSetUp, NEW t \in Tasks, Ready, Asks(t), TreeInv'
    PROVE  JudgeInv'
<1> DEFINE old == judge[t]
<1>1. /\ old \in JudgeRecord /\ Stage(old) /\ OnTop(t) /\ TreeInv
      /\ judge \in [Tasks -> JudgeRecord] /\ UNCHANGED setUpVars
  BY DEF JudgeInv, Asks
<1>2. CASE old.asks \notin patched
  <2> DEFINE new == [old EXCEPT !.pc = "asks"]
  <2>1. judge' = [judge EXCEPT ![t] = new] /\ task' = task /\ old.pc = "invokes"
    BY <1>2 DEF Asks, Goes, IsAt, treeVars
  <2>2. Kept(t) /\ task'[t] = task[t]
    BY <2>1 DEF Kept
  <2> HIDE DEF old
  <2>3. /\ new \in JudgeRecord /\ new.pc = "asks" /\ new.custom = old.custom /\ new.traced = old.traced
        /\ new.asks = old.asks /\ new.spans = old.spans /\ new.priced = old.priced
        /\ new.reported = old.reported
    BY <1>1 DEF JudgeRecord
  <2> HIDE DEF new
  <2>4. Stage(new)
    BY <1>1, <1>2, <2>1, <2>3 DEF Stage
  <2>5. OnTop(t)'
    <3>1. judge'[t] = new
      BY <1>1, <2>1
    <3>2. Depth(t)' = Depth(t) /\ Top(t)' = Top(t)
      BY <2>2 DEF Depth, Top
    <3> QED BY <1>1, <1>2, <2>1, <2>2, <2>3, <3>1, <3>2 DEF OnTop, old
  <2> QED BY <1>1, <2>1, <2>2, <2>3, <2>4, <2>5, JudgeMoves
<1>3. CASE old.asks \in patched
  <2> DEFINE n == Len(span) + 1
             spans == old.spans \cup {n}
             new == [old EXCEPT !.pc = "library", !.spans = spans]
  <2>1. judge' = [judge EXCEPT ![t] = new] /\ Call(t) /\ old.pc = "invokes"
    BY <1>3 DEF Asks, IsAt
  <2>2. /\ Kept(t) /\ task'[t].alive = task[t].alive /\ n \in Nat
        /\ Depth(t) \in Nat /\ Depth(t)' = Depth(t) + 1 /\ Top(t)' = n
        /\ Depth(t) > 0 => task'[t].frames[Depth(t)].of = Top(t)
    BY <1>1, <2>1, CallEffect
  <2>a. spans \in SUBSET Nat
    BY <1>1, <2>2 DEF JudgeRecord
  <2>b. old.spans = {} => spans = {n}
    OBVIOUS
  <2>c. n \in spans /\ old.spans \subseteq spans
    OBVIOUS
  <2> HIDE DEF old, n, spans
  <2>3. /\ new \in JudgeRecord /\ new.pc = "library" /\ new.custom = old.custom /\ new.traced = old.traced
        /\ new.asks = old.asks /\ new.spans = spans /\ new.priced = old.priced
        /\ new.reported = old.reported
    BY <1>1, <2>a DEF JudgeRecord
  <2> HIDE DEF new
  <2>4. Stage(new)
    BY <1>1, <1>3, <2>1, <2>2, <2>3, <2>b, <2>c DEF Stage, One
  <2>5. OnTop(t)'
    <3>1. judge'[t] = new
      BY <1>1, <2>1
    <3> QED BY <1>1, <1>3, <2>1, <2>2, <2>3, <2>c, <3>1 DEF OnTop, old
  <2> QED BY <1>1, <2>1, <2>2, <2>3, <2>4, <2>5, JudgeMoves
<1> QED BY <1>2, <1>3

LEMMA AnswersKeeps ==
    ASSUME JudgeInv, JudgeAssumption, SpanTreeAssumption, WellSetUp, NEW t \in Tasks, Ready, Answers(t), TreeInv'
    PROVE  JudgeInv'
<1> DEFINE old == judge[t]
<1>1. /\ old \in JudgeRecord /\ Stage(old) /\ OnTop(t) /\ TreeInv
      /\ judge \in [Tasks -> JudgeRecord] /\ UNCHANGED setUpVars
  BY DEF JudgeInv, Answers
<1>2. PICK reported \in BOOLEAN :
         \/ /\ IsAt(t, "asks") /\ UNCHANGED treeVars
            /\ judge' = [judge EXCEPT ![t].pc = "answered", ![t].reported = reported /\ ~old.custom]
         \/ /\ IsAt(t, "library") /\ Returns(t)
            /\ judge' = [judge EXCEPT ![t].pc = "answered", ![t].reported = reported /\ ~old.custom,
                                      ![t].priced = IF reported THEN @ \cup {Top(t)} ELSE @]
  BY DEF Answers
<1> DEFINE rep == reported /\ ~old.custom
<1>3. rep \in BOOLEAN /\ (rep => reported /\ ~old.custom) /\ (old.custom => ~rep) /\ (rep = (reported /\ ~old.custom))
  OBVIOUS
<1>4. CASE IsAt(t, "asks") /\ UNCHANGED treeVars
  <2> DEFINE new == [old EXCEPT !.pc = "answered", !.reported = rep]
  <2>1. judge' = [judge EXCEPT ![t] = new] /\ task' = task /\ old.pc = "asks"
    BY <1>2, <1>4 DEF IsAt, treeVars
  <2>2. Kept(t) /\ task'[t] = task[t]
    BY <2>1 DEF Kept
  <2> HIDE DEF old, rep
  <2>3. /\ new \in JudgeRecord /\ new.pc = "answered" /\ new.custom = old.custom /\ new.traced = old.traced
        /\ new.asks = old.asks /\ new.spans = old.spans /\ new.priced = old.priced
        /\ new.reported = rep
    BY <1>1, <1>3 DEF JudgeRecord
  <2> HIDE DEF new
  <2>4. Stage(new)
    BY <1>1, <1>3, <2>1, <2>3 DEF Stage, One
  <2>5. OnTop(t)'
    <3>1. judge'[t] = new
      BY <1>1, <2>1
    <3>2. Depth(t)' = Depth(t) /\ Top(t)' = Top(t)
      BY <2>2 DEF Depth, Top
    <3> QED BY <1>1, <2>1, <2>2, <2>3, <3>1, <3>2 DEF OnTop, old
  <2> QED BY <1>1, <2>1, <2>2, <2>3, <2>4, <2>5, JudgeMoves
<1>5. CASE IsAt(t, "library") /\ Returns(t)
  <2> DEFINE priced == IF reported THEN old.priced \cup {Top(t)} ELSE old.priced
             new == [old EXCEPT !.pc = "answered", !.reported = rep, !.priced = priced]
  <2>1. judge' = [judge EXCEPT ![t] = new] /\ old.pc = "library"
    BY <1>2, <1>5 DEF IsAt
  <2>2. old.priced = {} /\ Depth(t) > 0 /\ Top(t) \in old.spans
    BY <1>1, <2>1 DEF Stage, OnTop
  <2>3. /\ Kept(t) /\ task'[t].alive = task[t].alive
        /\ Depth(t) \in Nat /\ Depth(t)' = Depth(t) - 1
        /\ Depth(t) > 1 => Top(t)' = task[t].frames[Depth(t) - 1].of
    BY <1>1, <1>5, <2>2, LeaveEffect DEF Returns
  <2>4. /\ priced \in SUBSET Nat /\ (priced = {} \/ \E x \in old.spans : priced = {x})
        /\ rep => priced # {}
    BY <1>1, <1>3, <2>2 DEF JudgeRecord
  <2> HIDE DEF old, rep, priced
  <2>5. /\ new \in JudgeRecord /\ new.pc = "answered" /\ new.custom = old.custom /\ new.traced = old.traced
        /\ new.asks = old.asks /\ new.spans = old.spans /\ new.priced = priced
        /\ new.reported = rep
    BY <1>1, <1>3, <2>4 DEF JudgeRecord
  <2> HIDE DEF new
  <2>6. Stage(new)
    BY <1>1, <1>3, <2>1, <2>4, <2>5 DEF Stage
  <2>7. OnTop(t)'
    <3>1. judge'[t] = new
      BY <1>1, <2>1
    <3> QED BY <1>1, <2>1, <2>3, <2>5, <3>1 DEF OnTop, old
  <2> QED BY <1>1, <2>1, <2>3, <2>5, <2>6, <2>7, JudgeMoves
<1> QED BY <1>2, <1>4, <1>5

LEMMA FailsKeeps ==
    ASSUME JudgeInv, JudgeAssumption, SpanTreeAssumption, WellSetUp, NEW t \in Tasks, Ready, CompletionFails(t), TreeInv'
    PROVE  JudgeInv'
<1> DEFINE old == judge[t]
<1>1. /\ old \in JudgeRecord /\ Stage(old) /\ OnTop(t) /\ TreeInv
      /\ judge \in [Tasks -> JudgeRecord] /\ UNCHANGED setUpVars
  BY DEF JudgeInv, CompletionFails
<1> DEFINE new == [old EXCEPT !.pc = "fails"]
<1>2. judge' = [judge EXCEPT ![t] = new] /\ Throws(t) /\ old.pc \in {"asks", "library"}
  BY DEF CompletionFails, Goes, IsAt
<1>3. Kept(t) /\ task'[t].alive = task[t].alive
  BY <1>1, <1>2, ModeEffect
<1> HIDE DEF old
<1>4. /\ new \in JudgeRecord /\ new.pc = "fails" /\ new.custom = old.custom /\ new.traced = old.traced
      /\ new.asks = old.asks /\ new.spans = old.spans /\ new.priced = old.priced
      /\ new.reported = old.reported
  BY <1>1 DEF JudgeRecord
<1> HIDE DEF new
<1>5. Stage(new)
  BY <1>1, <1>2, <1>4 DEF Stage, One
<1>6. OnTop(t)'
  <2>1. judge'[t] = new
    BY <1>1, <1>2
  <2> QED BY <1>1, <1>2, <1>3, <1>4, <2>1 DEF OnTop, old
<1> QED BY <1>1, <1>2, <1>3, <1>4, <1>5, <1>6, JudgeMoves

(* A judge that is over, or that has not begun, says nothing. *)
LEMMA NoJudgeStage == NoJudge \in JudgeRecord /\ NoJudge.pc = "idle" /\ Stage(NoJudge)
  BY DEF NoJudge, JudgeRecord, Stage

LEMMA FailureLeavesKeeps ==
    ASSUME JudgeInv, JudgeAssumption, SpanTreeAssumption, WellSetUp, NEW t \in Tasks, Ready, FailureLeaves(t), TreeInv'
    PROVE  JudgeInv'
<1> DEFINE old == judge[t]
<1>1. /\ old \in JudgeRecord /\ Stage(old) /\ OnTop(t) /\ TreeInv
      /\ judge \in [Tasks -> JudgeRecord] /\ UNCHANGED setUpVars
  BY DEF JudgeInv, FailureLeaves
<1>2. CASE Unwinds(t) /\ UNCHANGED judge
  <2>1. Depth(t) > 0 /\ Leave(t, "raises") /\ old.pc = "fails"
    BY <1>2 DEF Unwinds, FailureLeaves, IsAt
  <2>2. Kept(t) /\ task'[t].alive = task[t].alive
    BY <1>1, <2>1, LeaveEffect
  <2>3. judge' = [judge EXCEPT ![t] = old] /\ judge'[t] = old
    BY <1>1, <1>2
  <2>4. OnTop(t)'
    BY <1>1, <2>1, <2>2, <2>3 DEF OnTop
  <2> QED BY <1>1, <2>2, <2>3, <2>4, JudgeMoves
<1>3. CASE judge' = [judge EXCEPT ![t] = NoJudge] /\ UNCHANGED treeVars
  <2>1. Kept(t)
    BY <1>3 DEF Kept, treeVars
  <2>2. judge'[t] = NoJudge
    BY <1>1, <1>3
  <2>3. OnTop(t)'
    BY <2>2, NoJudgeStage DEF OnTop
  <2> QED BY <1>1, <1>3, <2>1, <2>3, NoJudgeStage, JudgeMoves
<1> QED BY <1>2, <1>3 DEF FailureLeaves

LEMMA RecordsKeeps ==
    ASSUME JudgeInv, JudgeAssumption, SpanTreeAssumption, WellSetUp, NEW t \in Tasks, Ready, Records(t), TreeInv'
    PROVE  JudgeInv'
<1> DEFINE old == judge[t]
<1>1. /\ old \in JudgeRecord /\ Stage(old) /\ OnTop(t) /\ TreeInv
      /\ judge \in [Tasks -> JudgeRecord] /\ UNCHANGED setUpVars
  BY DEF JudgeInv, Records
<1>2. old.pc = "answered"
  BY DEF Records, IsAt
<1>3. CASE old.traced
  <2> DEFINE new == [old EXCEPT !.pc = "parses"]
  <2>1. judge' = [judge EXCEPT ![t] = new] /\ task' = task
    BY <1>3 DEF Records, Goes, treeVars
  <2>2. Kept(t) /\ task'[t] = task[t]
    BY <2>1 DEF Kept
  <2> HIDE DEF old
  <2>3. /\ new \in JudgeRecord /\ new.pc = "parses" /\ new.custom = old.custom /\ new.traced = old.traced
        /\ new.asks = old.asks /\ new.spans = old.spans /\ new.priced = old.priced
        /\ new.reported = old.reported
    BY <1>1 DEF JudgeRecord
  <2> HIDE DEF new
  <2>4. Stage(new)
    BY <1>1, <1>2, <1>3, <2>3 DEF Stage
  <2>5. OnTop(t)'
    <3>1. judge'[t] = new
      BY <1>1, <2>1
    <3> QED BY <1>1, <1>2, <2>2, <2>3, <3>1 DEF OnTop, old
  <2> QED BY <1>1, <2>1, <2>2, <2>3, <2>4, <2>5, JudgeMoves
<1>4. CASE ~old.traced
  <2> DEFINE priced == IF old.reported THEN old.priced \cup {Top(t)} ELSE old.priced
             new == [old EXCEPT !.pc = "parses", !.priced = priced]
  <2>1. judge' = [judge EXCEPT ![t] = new] /\ Returns(t)
    BY <1>4 DEF Records
  <2>2. Depth(t) > 0 /\ Top(t) \in old.spans
    BY <1>1, <1>2, <1>4 DEF OnTop
  <2>3. Kept(t) /\ task'[t].alive = task[t].alive
    BY <1>1, <2>1, <2>2, LeaveEffect DEF Returns
  <2>4. old.reported => old.priced = {}
    BY <1>1, <1>2, <1>4 DEF Stage
  <2>5. /\ priced \in SUBSET Nat /\ (priced = {} \/ \E x \in old.spans : priced = {x})
        /\ old.reported => priced # {}
    BY <1>1, <1>2, <2>2, <2>4 DEF JudgeRecord, Stage
  <2> HIDE DEF old, priced
  <2>6. /\ new \in JudgeRecord /\ new.pc = "parses" /\ new.custom = old.custom /\ new.traced = old.traced
        /\ new.asks = old.asks /\ new.spans = old.spans /\ new.priced = priced
        /\ new.reported = old.reported
    BY <1>1, <2>5 DEF JudgeRecord
  <2> HIDE DEF new
  <2>7. Stage(new)
    BY <1>1, <1>2, <2>5, <2>6 DEF Stage
  <2>8. OnTop(t)'
    <3>1. judge'[t] = new
      BY <1>1, <2>1
    <3> QED BY <1>1, <1>2, <2>3, <2>6, <3>1 DEF OnTop, old
  <2> QED BY <1>1, <2>1, <2>3, <2>6, <2>7, <2>8, JudgeMoves
<1> QED BY <1>3, <1>4

LEMMA ParsesKeeps ==
    ASSUME JudgeInv, JudgeAssumption, SpanTreeAssumption, WellSetUp, NEW t \in Tasks, Ready, Parses(t), TreeInv'
    PROVE  JudgeInv'
<1> DEFINE old == judge[t]
<1>1. /\ old \in JudgeRecord /\ Stage(old) /\ OnTop(t) /\ TreeInv
      /\ judge \in [Tasks -> JudgeRecord] /\ UNCHANGED setUpVars
  BY DEF JudgeInv, Parses
<1>2. Kept(t)
  <2>1. CASE UNCHANGED treeVars
    BY <2>1 DEF Kept, treeVars
  <2>2. CASE Throws(t)
    BY <1>1, <2>2, ModeEffect
  <2> QED BY <2>1, <2>2 DEF Parses
<1>3. judge' = [judge EXCEPT ![t] = NoJudge]
  BY DEF Parses
<1>4. judge'[t] = NoJudge
  BY <1>1, <1>3
<1>5. OnTop(t)'
  BY <1>4, NoJudgeStage DEF OnTop
<1> QED BY <1>1, <1>2, <1>3, <1>5, NoJudgeStage, JudgeMoves

LEMMA BuilderFailsKeeps ==
    ASSUME JudgeInv, JudgeAssumption, SpanTreeAssumption, WellSetUp, NEW t \in Tasks, Ready, BuilderFails(t), TreeInv'
    PROVE  JudgeInv'
<1> DEFINE old == judge[t]
<1>1. /\ old \in JudgeRecord /\ Stage(old) /\ OnTop(t) /\ TreeInv
      /\ judge \in [Tasks -> JudgeRecord] /\ UNCHANGED setUpVars /\ UNCHANGED judge
  BY DEF JudgeInv, BuilderFails, judgeVars, setUpVars
<1>2. Kept(t) /\ old.pc = "idle"
  BY <1>1, ModeEffect DEF BuilderFails, IsAt
<1>3. judge' = [judge EXCEPT ![t] = old] /\ judge'[t] = old
  BY <1>1
<1>4. OnTop(t)'
  BY <1>2, <1>3 DEF OnTop
<1> QED BY <1>1, <1>2, <1>3, <1>4, JudgeMoves

LEMMA DecidesKeeps ==
    ASSUME JudgeInv, JudgeAssumption, SpanTreeAssumption, WellSetUp, NEW t \in Tasks, Ready, Decides(t), TreeInv'
    PROVE  JudgeInv'
<1> DEFINE old == judge[t]
<1>1. /\ old \in JudgeRecord /\ Stage(old) /\ OnTop(t) /\ TreeInv
      /\ judge \in [Tasks -> JudgeRecord] /\ UNCHANGED setUpVars
  BY DEF JudgeInv, Decides
<1>2. Depth(t) \in Nat /\ task' = task /\ task[t].alive
  <2>1. task[t] \in TaskRecord
    BY <1>1 DEF TreeInv, TaskPart
  <2>2. task[t].frames \in Seq(FrameRecord)
    BY <2>1 DEF TaskRecord
  <2>3. Depth(t) \in Nat
    BY <2>2 DEF Depth
  <2>4. Runs(t) /\ UNCHANGED treeVars
    BY DEF Decides
  <2> QED BY <2>3, <2>4 DEF Runs, treeVars
<1>3. Kept(t)
  BY <1>2 DEF Kept
<1> DEFINE of(custom, lib, traced) ==
             [NoJudge EXCEPT !.pc = "decided", !.custom = custom, !.asks = lib,
                             !.traced = traced, !.base = Depth(t)]
<1>4. ASSUME NEW custom \in BOOLEAN, NEW lib \in Providers \cup {"none"}, NEW traced \in BOOLEAN,
             judge' = [judge EXCEPT ![t] = of(custom, lib, traced)],
             custom => ~traced, ~custom => (traced <=> lib \in patched)
      PROVE  JudgeInv'
  <2> DEFINE d == Depth(t)
             new == [NoJudge EXCEPT !.pc = "decided", !.custom = custom, !.asks = lib,
                                    !.traced = traced, !.base = d]
  <2>1. d \in Nat /\ judge' = [judge EXCEPT ![t] = new]
    BY <1>2, <1>4
  <2> HIDE DEF d
  <2>2. /\ new \in JudgeRecord /\ new.pc = "decided" /\ new.custom = custom /\ new.traced = traced
        /\ new.asks = lib /\ new.spans = {} /\ new.priced = {} /\ ~new.reported
    BY <1>4, <2>1 DEF NoJudge, JudgeRecord
  <2> HIDE DEF new
  <2>3. Stage(new)
    BY <1>4, <2>2 DEF Stage
  <2>4. judge'[t] = new
    BY <1>1, <2>1
  <2>5. OnTop(t)'
    BY <1>2, <2>2, <2>4 DEF OnTop
  <2> QED BY <1>1, <1>3, <2>1, <2>2, <2>3, <2>5, JudgeMoves
<1>5. CASE \E lib \in {OpenAI, "none"} : judge' = [judge EXCEPT ![t] = of(TRUE, lib, FALSE)]
  <2>1. PICK lib \in {OpenAI, "none"} : judge' = [judge EXCEPT ![t] = of(TRUE, lib, FALSE)]
    BY <1>5
  <2>2. lib \in Providers \cup {"none"}
    BY DEF Providers
  <2> QED BY <1>4, <2>1, <2>2
<1>6. CASE \E family \in Providers, capitals \in Capitals :
             judge' = [judge EXCEPT ![t] = of(FALSE, Dispatched(family, capitals),
                                              ProviderIntegrationTraces(family))]
  <2>1. PICK family \in Providers, capitals \in Capitals :
             judge' = [judge EXCEPT ![t] = of(FALSE, Dispatched(family, capitals),
                                              ProviderIntegrationTraces(family))]
    BY <1>6
  <2>2. Dispatched(family, capitals) = family
    BY DEF Dispatched, WellSetUp
  <2>3. ProviderIntegrationTraces(family) = (family \in patched)
    BY DEF ProviderIntegrationTraces, Ready, WellSetUp
  <2> DEFINE traced == family \in patched
  <2>4. traced \in BOOLEAN /\ (traced <=> family \in patched)
    OBVIOUS
  <2>5. judge' = [judge EXCEPT ![t] = of(FALSE, family, traced)]
    BY <2>1, <2>2, <2>3
  <2> HIDE DEF traced, of
  <2> QED BY <1>4, <2>4, <2>5
<1> QED BY <1>5, <1>6 DEF Decides

(* Whatever else happens leaves the judges alone. *)
LEMMA AsideOfJudges ==
    ASSUME JudgeInv, TreeInv', judge' = judge, \A t \in Tasks : judge[t].pc # "idle" => task'[t] = task[t],
           patched' = patched /\ todo' = todo /\ active' = active
    PROVE  JudgeInv'
<1>1. Settled' /\ \A t \in Tasks : Stage(judge[t])'
  BY DEF JudgeInv, Settled, IsAt, Stage
<1>2. \A t \in Tasks : OnTop(t)'
  BY DEF JudgeInv, OnTop, Depth, Top
<1> QED BY <1>1, <1>2 DEF JudgeInv

LEMMA JudgeNextKeeps ==
    ASSUME JudgeInv, JudgeAssumption, SpanTreeAssumption, WellSetUp, [Next]_vars, [TreeNext]_treeVars
    PROVE  JudgeInv'
<1>1. TreeInv /\ TreeInv'
  BY TreeNextKeeps DEF JudgeInv
<1>2. ASSUME NEW i \in Providers, Installs(i) PROVE JudgeInv'
  <2>1. todo # {} /\ judge' = judge /\ task' = task
    BY <1>2 DEF Installs, treeVars
  <2>2. \A t \in Tasks : IsAt(t, "idle")
    BY <2>1 DEF JudgeInv, Settled
  <2>3. Settled' /\ \A t \in Tasks : Stage(judge[t])'
    BY <2>1, <2>2 DEF Settled, IsAt, JudgeInv, Stage
  <2>4. \A t \in Tasks : OnTop(t)'
    BY <2>1, <2>2 DEF IsAt, OnTop
  <2> QED BY <1>1, <2>1, <2>3, <2>4 DEF JudgeInv
<1>3. CASE Initialized
  <2>1. active # patched /\ judge' = judge /\ task' = task
    BY <1>3 DEF Initialized, treeVars
  <2>2. \A t \in Tasks : IsAt(t, "idle")
    BY <2>1 DEF JudgeInv, Settled
  <2>3. Settled' /\ \A t \in Tasks : Stage(judge[t])'
    BY <2>1, <2>2 DEF Settled, IsAt, JudgeInv, Stage
  <2>4. \A t \in Tasks : OnTop(t)'
    BY <2>1, <2>2 DEF IsAt, OnTop
  <2> QED BY <1>1, <2>1, <2>3, <2>4 DEF JudgeInv
<1>4. ASSUME NEW t \in Tasks, UserStep(t) PROVE JudgeInv'
  <2>1. IsAt(t, "idle") /\ TaskStep(t) /\ judge' = judge /\ patched' = patched /\ todo' = todo /\ active' = active
    BY <1>4 DEF UserStep, judgeVars
  <2>2. ASSUME NEW u \in Tasks, judge[u].pc # "idle" PROVE task'[u] = task[u]
    <3>1. t # u /\ task[u].alive
      BY <2>1, <2>2 DEF IsAt, JudgeInv, OnTop
    <3> QED BY <1>1, <2>1, <3>1, OthersKeep
  <2> QED BY <1>1, <2>1, <2>2, AsideOfJudges
<1>5. ASSUME NEW t \in Judges, Ready, JudgeStep(t) PROVE JudgeInv'
  <2>1. t \in Tasks
    BY DEF JudgeAssumption
  <2> QED BY <1>1, <1>5, <2>1, BuilderFailsKeeps, DecidesKeeps, InvokesKeeps, AsksKeeps, AnswersKeeps,
             FailsKeeps, FailureLeavesKeeps, RecordsKeeps, ParsesKeeps DEF JudgeStep
<1>6. ASSUME NEW s \in Born, Abandons(s) \/ Finalises(s), UNCHANGED judgeVars PROVE JudgeInv'
  BY <1>1, <1>6, AsideOfJudges DEF Abandons, Finalises, judgeVars
<1>7. CASE UNCHANGED vars
  BY <1>1, <1>7, AsideOfJudges DEF vars, treeVars, judgeVars
<1>8. CASE Next
  BY <1>2, <1>3, <1>4, <1>5, <1>6, <1>8 DEF Next
<1> QED BY <1>7, <1>8

LEMMA JudgeInvariant == ASSUME WellSetUp PROVE Spec => []JudgeInv
<1>1. JudgeInit => JudgeInv
  <2> SUFFICES ASSUME JudgeInit PROVE JudgeInv
    OBVIOUS
  <2>1. TreeInv
    BY TreeInit, SpanTreeAssumption DEF JudgeInit
  <2>2. judge \in [Tasks -> JudgeRecord] /\ \A t \in Tasks : judge[t] = NoJudge
    BY NoJudgeStage DEF JudgeInit
  <2>3. Settled /\ \A t \in Tasks : Stage(judge[t]) /\ OnTop(t)
    BY <2>2, NoJudgeStage DEF Settled, IsAt, OnTop
  <2> QED BY <2>1, <2>2, <2>3 DEF JudgeInv
<1>2. JudgeInv /\ [Next]_vars => JudgeInv'
  <2>1. [Next]_vars => [TreeNext]_treeVars
    BY NextIsTreeNext
  <2> QED BY <2>1, JudgeNextKeeps, JudgeAssumption, SpanTreeAssumption
<1> QED BY <1>1, <1>2, PTL DEF Spec

(* With the integrations installed before there are spans, and model ids in lower case, the
   completion of every judge has one LLM span, for any number of tasks and judges ... *)
THEOREM OneSpanPerCompletion == ASSUME WellSetUp PROVE Spec => []OneLlmSpan
<1>1. JudgeInv => OneLlmSpan
  <2> SUFFICES ASSUME JudgeInv, NEW t \in Tasks, Judged(t)
               PROVE  /\ judge[t].spans # {}
                      /\ ~judge[t].custom => Cardinality(judge[t].spans) = 1
    BY DEF OneLlmSpan
  <2>1. Stage(judge[t]) /\ judge[t].pc \in {"parses", "fails"}
    BY DEF JudgeInv, Judged, IsAt
  <2>2. \A S : (\E x : S = {x}) => Cardinality(S) = 1
    BY FS_Singleton
  <2> QED BY <2>1, <2>2 DEF Stage, One
<1> QED BY <1>1, JudgeInvariant, PTL

(* ... and its tokens are on one of its spans. *)
THEOREM TokensOnOneSpan == ASSUME WellSetUp PROVE Spec => []PricedOnce
<1>1. JudgeInv => PricedOnce
  <2> SUFFICES ASSUME JudgeInv, NEW t \in Tasks, Judged(t)
               PROVE  /\ Cardinality(judge[t].priced) <= 1
                      /\ judge[t].priced \subseteq judge[t].spans
                      /\ judge[t].reported => judge[t].priced # {}
    BY DEF PricedOnce
  <2>1. Stage(judge[t]) /\ judge[t].pc \in {"parses", "fails"}
    BY DEF JudgeInv, Judged, IsAt
  <2>2. \A S : (\E x : S = {x}) => Cardinality(S) = 1
    BY FS_Singleton
  <2>3. Cardinality({}) = 0
    BY FS_EmptySet
  <2>4. judge[t].priced = {} \/ \E x \in judge[t].spans : judge[t].priced = {x}
    BY <2>1 DEF Stage
  <2>5. Cardinality(judge[t].priced) \in {0, 1}
    BY <2>2, <2>3, <2>4
  <2>6. judge[t].priced \subseteq judge[t].spans
    BY <2>4
  <2>7. judge[t].reported => judge[t].priced # {}
    BY <2>1 DEF Stage
  <2> QED BY <2>5, <2>6, <2>7
<1> QED BY <1>1, JudgeInvariant, PTL
=============================================================================
