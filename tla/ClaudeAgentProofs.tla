------------------------- MODULE ClaudeAgentProofs -------------------------
(***************************************************************************)
(* Theorems about ClaudeAgent, for any number of turns, messages, tool     *)
(* calls, subagents and streams, however late an abandoned stream is       *)
(* closed: AgentInv is inductive.                                          *)
(*                                                                         *)
(* A lemma of the first part says what one change of the spans does to the *)
(* turn it is made in (TurnInv); Frame says that other turns do not notice. *)
(* The second part has one lemma per action.                               *)
(***************************************************************************)
EXTENDS ClaudeAgent, TLAPS, SequenceTheorems, WellFoundedInduction

----------------------------------------------------------------------------
(* Sequences of spans                                                       *)

\* What Append adds, and what it leaves alone.
LEMMA AppendFacts ==
    ASSUME NEW S, NEW sp \in Seq(S), NEW s \in S
    PROVE  /\ Append(sp, s) \in Seq(S)
           /\ Len(Append(sp, s)) = Len(sp) + 1
           /\ DOMAIN sp = 1 .. Len(sp) /\ DOMAIN Append(sp, s) = 1 .. Len(sp) + 1
           /\ \A i \in DOMAIN sp : Append(sp, s)[i] = sp[i]
           /\ Append(sp, s)[Len(sp) + 1] = s
           /\ Len(sp) \in Nat
  OBVIOUS

\* What ending a span does to its fields.
LEMMA EndedSpan ==
    ASSUME NEW s \in SpanRecord
    PROVE  LET e == [s EXCEPT !.ends = @ + 1]
           IN  /\ e \in SpanRecord /\ e.kind = s.kind /\ e.turn = s.turn /\ e.key = s.key
               /\ e.parent = s.parent /\ e.ends = s.ends + 1 /\ e.status = s.status
               /\ e.answered = s.answered /\ e.late = s.late
  BY DEF SpanRecord

\* EndSpans counts one end of each span of I and changes nothing else.
LEMMA EndSpansFacts ==
    ASSUME NEW sp \in Seq(SpanRecord), NEW I
    PROVE  /\ EndSpans(sp, I) \in Seq(SpanRecord)
           /\ Len(EndSpans(sp, I)) = Len(sp) /\ DOMAIN EndSpans(sp, I) = DOMAIN sp
           /\ \A i \in DOMAIN sp :
                 /\ i \notin I => EndSpans(sp, I)[i] = sp[i]
                 /\ i \in I => EndSpans(sp, I)[i] = [sp[i] EXCEPT !.ends = @ + 1]
<1> DEFINE e == EndSpans(sp, I)
<1>1. DOMAIN e = DOMAIN sp /\ DOMAIN sp = 1 .. Len(sp) /\ Len(sp) \in Nat
  BY DEF EndSpans
<1>2. \A i \in DOMAIN sp : e[i] = IF i \in I THEN [sp[i] EXCEPT !.ends = @ + 1] ELSE sp[i]
  BY DEF EndSpans
<1>3. \A i \in DOMAIN sp : sp[i] \in SpanRecord
  BY ElementOfSeq
<1>4. \A i \in 1 .. Len(sp) : e[i] \in SpanRecord
  <2>. HIDE DEF e
  <2>. QED
    BY <1>1, <1>2, <1>3, EndedSpan
<1>5. e = [i \in 1 .. Len(sp) |-> e[i]]
  BY <1>1 DEF EndSpans
<1>6. e \in Seq(SpanRecord)
  <2>1. [i \in 1 .. Len(sp) |-> e[i]] \in Seq(SpanRecord)
    BY <1>1, <1>4, IsASeq
  <2>. QED
    BY <2>1, <1>5
<1>7. Len(e) = Len(sp)
  BY <1>1, <1>6, LenProperties
<1>. QED
  BY <1>1, <1>2, <1>6, <1>7

----------------------------------------------------------------------------
(* One change of the spans and the turn it is made in                       *)

\* The invariant of a turn whose stream may still speak, live or cut short.
OpenTurn(sp, q, t, how) == how \in {"live", "cut"} /\ TurnInv(sp, q, t, how)

\* The invariant of a turn that has just ended, for good or cut short.
ShutTurn(sp, q, t) == TurnInv(sp, q, t, "over") /\ TurnInv(sp, q, t, "cut")

\* Turn t keeps its spans and gets no other.
Untouched(sp, sp2, t) ==
    /\ \A i \in DOMAIN sp : /\ i \in DOMAIN sp2 /\ sp2[i].turn = sp[i].turn
                            /\ sp[i].turn = t => sp2[i] = sp[i]
    /\ \A i \in DOMAIN sp2 : i \notin DOMAIN sp => sp2[i].turn # t

\* A change elsewhere does not concern turn t.
LEMMA Frame ==
    ASSUME NEW sp \in Seq(SpanRecord), NEW sp2 \in Seq(SpanRecord),
           NEW q, NEW t \in Nat, NEW how,
           TurnInv(sp, q, t, how), Untouched(sp, sp2, t)
    PROVE  TurnInv(sp2, q, t, how)
<1>1. \A i \in DOMAIN sp2 : sp2[i].turn = t => i \in DOMAIN sp /\ sp[i].turn = t /\ sp2[i] = sp[i]
  BY DEF Untouched
<1>2. \A i, kind, key : Is(sp2, i, kind, t, key) <=> Is(sp, i, kind, t, key)
  BY <1>1 DEF Is, Untouched
<1>3. TablesInv(sp2, q, t)
  BY <1>2 DEF TablesInv, TurnInv
<1>4. EndsInv(sp2, q, t, how)
  BY <1>1 DEF EndsInv, TurnInv
<1>5. TasksInv(sp2, q, t, how)
  <2>. SUFFICES ASSUME NEW i \in DOMAIN sp2, sp2[i].turn = t, sp2[i].kind = "task"
                PROVE  /\ sp2[i].key \in TaskKeys
                       /\ how = "live" => q.tasks[sp2[i].key] = i
                       /\ how # "cut" => \A j \in DOMAIN sp2 : Is(sp2, j, "task", t, sp2[i].key) => i = j
    BY DEF TasksInv
  <2>1. i \in DOMAIN sp /\ sp[i].turn = t /\ sp2[i] = sp[i]
    BY <1>1
  <2>2. /\ sp[i].key \in TaskKeys
        /\ how = "live" => q.tasks[sp[i].key] = i
        /\ how # "cut" => \A j \in DOMAIN sp : Is(sp, j, "task", t, sp[i].key) => i = j
    BY <2>1 DEF TasksInv, TurnInv
  <2>3. how # "cut" => \A j \in DOMAIN sp2 : Is(sp2, j, "task", t, sp2[i].key) => i = j
    <3>. HAVE how # "cut"
    <3>. TAKE j \in DOMAIN sp2
    <3>1. Is(sp2, j, "task", t, sp2[i].key) => Is(sp, j, "task", t, sp[i].key)
      BY <1>2, <2>1
    <3>. QED
      BY <2>2, <3>1 DEF Is
  <2>. QED
    BY <2>1, <2>2, <2>3
<1>6. CallsInv(sp2, q, t)
  <2>1. \A i \in DOMAIN sp2 : sp2[i].turn = t => ~sp2[i].late
    BY <1>1 DEF CallsInv, TurnInv
  <2>2. \A i \in DOMAIN sp2 : sp2[i].turn = t /\ sp2[i].kind = "tool" =>
           \E k \in Contexts : Is(sp2, sp2[i].parent, "llm", t, k)
    BY <1>1, <1>2 DEF CallsInv, TurnInv
  <2>3. \A k \in Contexts : q.llm[k] # NoSpan /\ sp2[q.llm[k]].answered => k \in q.boundary
    BY <1>1, <1>3 DEF CallsInv, TurnInv, TablesInv, Is
  <2>. QED
    BY <2>1, <2>2, <2>3 DEF CallsInv
<1>. QED
  BY <1>3, <1>4, <1>5, <1>6 DEF TurnInv

\* Which spans of a turn its tables call open, by their kind.
OpenIn(q, i, kind, key) ==
    \/ kind = "llm" /\ key \in Contexts /\ q.llm[key] = i
    \/ kind = "tool" /\ key \in Tools /\ q.tools[key] = i
    \/ kind = "task" /\ key \in TaskKeys /\ key \notin q.over /\ q.tasks[key] = i

LEMMA OpenByKind ==
    ASSUME NEW sp \in Seq(SpanRecord), NEW q, NEW t, TablesInv(sp, q, t), NEW i \in DOMAIN sp
    PROVE  i \in OpenSpans(q) <=> OpenIn(q, i, sp[i].kind, sp[i].key)
<1>1. i # NoSpan
  BY LenProperties DEF NoSpan
<1>2. i \in OpenSpans(q) <=> \/ \E k \in Contexts : i = q.llm[k]
                             \/ \E u \in Tools : i = q.tools[u]
                             \/ \E k \in TaskKeys \ q.over : i = q.tasks[k]
  BY <1>1 DEF OpenSpans
<1>3. (\E k \in Contexts : i = q.llm[k]) <=> sp[i].kind = "llm" /\ sp[i].key \in Contexts /\ q.llm[sp[i].key] = i
  BY <1>1 DEF TablesInv, Is
<1>4. (\E u \in Tools : i = q.tools[u]) <=> sp[i].kind = "tool" /\ sp[i].key \in Tools /\ q.tools[sp[i].key] = i
  BY <1>1 DEF TablesInv, Is
<1>5. (\E k \in TaskKeys \ q.over : i = q.tasks[k])
         <=> sp[i].kind = "task" /\ sp[i].key \in TaskKeys /\ sp[i].key \notin q.over /\ q.tasks[sp[i].key] = i
  BY <1>1 DEF TablesInv, Is
<1>. QED
  BY <1>2, <1>3, <1>4, <1>5 DEF OpenIn

\* The spans of turns other than t stay as they are.
SameElsewhere(sp, sp2, t) ==
    \A i \in DOMAIN sp : sp2[i].turn = sp[i].turn /\ (sp[i].turn # t => sp2[i] = sp[i])

\* A new LLM turn of context k ends the one before; the table of the turn follows.
LEMMA OpenKeeps ==
    ASSUME NEW sp \in Seq(SpanRecord), NEW q \in StateRecord, NEW t \in Nat, NEW how,
           NEW k \in Contexts, NEW m \in MessageIds \cup {None}, NEW par \in Nat,
           OpenTurn(sp, q, t, how)
    PROVE  LET sp2 == Append(EndSpans(sp, {q.llm[k]} \ {NoSpan}), Span("llm", t, k, par))
               q2 == [q EXCEPT !.llm[k] = Len(sp) + 1, !.mid[k] = m, !.boundary = @ \ {k}]
           IN  /\ sp2 \in Seq(SpanRecord) /\ Len(sp2) = Len(sp) + 1 /\ q2 \in StateRecord
               /\ OpenTurn(sp2, q2, t, how)
               /\ SameElsewhere(sp, sp2, t)
<1> DEFINE I == {q.llm[k]} \ {NoSpan}
           e == EndSpans(sp, I)
           s == Span("llm", t, k, par)
           sp2 == Append(e, s)
           n == Len(sp) + 1
           q2 == [q EXCEPT !.llm[k] = n, !.mid[k] = m, !.boundary = @ \ {k}]
<1>1. s \in SpanRecord /\ s.kind = "llm" /\ s.turn = t /\ s.key = k /\ s.ends = 0
      /\ ~s.answered /\ ~s.late
  BY DEF Span, SpanRecord
<1>2. /\ e \in Seq(SpanRecord) /\ Len(e) = Len(sp) /\ DOMAIN e = DOMAIN sp
      /\ \A i \in DOMAIN sp :
            /\ i \notin I => e[i] = sp[i]
            /\ i \in I => e[i] = [sp[i] EXCEPT !.ends = @ + 1]
  BY EndSpansFacts
<1>3. /\ sp2 \in Seq(SpanRecord) /\ Len(sp2) = n /\ n \in Nat /\ n # 0
      /\ DOMAIN sp = 1 .. Len(sp) /\ DOMAIN sp2 = 1 .. n /\ n \notin DOMAIN sp
      /\ DOMAIN sp2 = DOMAIN sp \cup {n}
      /\ \A i \in DOMAIN sp : sp2[i] = e[i]
      /\ sp2[n] = s
  <2>. HIDE DEF e, s
  <2>1. Len(sp) \in Nat
    BY LenProperties
  <2>2. /\ Append(e, s) \in Seq(SpanRecord) /\ Len(Append(e, s)) = Len(e) + 1
        /\ DOMAIN e = 1 .. Len(e) /\ DOMAIN Append(e, s) = 1 .. Len(e) + 1
        /\ \A i \in DOMAIN e : Append(e, s)[i] = e[i] /\ Append(e, s)[Len(e) + 1] = s
    BY <1>1, <1>2, AppendFacts
  <2>. QED
    BY <1>2, <2>1, <2>2
<1>4. \A i \in DOMAIN sp : sp[i] \in SpanRecord
  BY ElementOfSeq
<1>5. \A i \in DOMAIN sp :
         /\ sp2[i].kind = sp[i].kind /\ sp2[i].turn = sp[i].turn /\ sp2[i].key = sp[i].key
         /\ sp2[i].parent = sp[i].parent
         /\ sp2[i].answered = sp[i].answered /\ sp2[i].late = sp[i].late
         /\ sp2[i].ends = IF i \in I THEN sp[i].ends + 1 ELSE sp[i].ends
         /\ i \notin I => sp2[i] = sp[i]
  <2>. TAKE i \in DOMAIN sp
  <2>. HIDE DEF sp2, e, I, s, n
  <2>1. sp[i] \in SpanRecord /\ sp2[i] = e[i]
    BY <1>3, <1>4
  <2>2. CASE i \in I
    <3>1. sp2[i] = [sp[i] EXCEPT !.ends = @ + 1]
      BY <1>2, <2>1, <2>2
    <3>. QED
      BY <2>1, <2>2, <3>1, EndedSpan
  <2>3. CASE i \notin I
    BY <1>2, <2>1, <2>3
  <2>. QED
    BY <2>2, <2>3
<1>6. /\ q2 \in StateRecord /\ q2.root = q.root /\ q2.tools = q.tools /\ q2.tasks = q.tasks
      /\ q2.over = q.over /\ q2.boundary = q.boundary \ {k} /\ q2.llm[k] = n
      /\ \A c \in Contexts \ {k} : q2.llm[c] = q.llm[c]
  <2>. HIDE DEF n
  <2>. QED
    BY <1>3 DEF StateRecord
<1>7. TablesInv(sp, q, t) /\ EndsInv(sp, q, t, how) /\ TasksInv(sp, q, t, how) /\ CallsInv(sp, q, t)
      /\ how \in {"live", "cut"}
  BY DEF TurnInv, OpenTurn
<1>8. \A i, kind, key : Is(sp, i, kind, t, key) => Is(sp2, i, kind, t, key)
  BY <1>3, <1>5 DEF Is
<1>9. \A i, key : Is(sp2, i, "task", t, key) => Is(sp, i, "task", t, key)
  BY <1>1, <1>3, <1>5 DEF Is
<1>10. \A i \in I : Is(sp, i, "llm", t, k) /\ i = q.llm[k] /\ i # NoSpan
  BY <1>7 DEF TablesInv
<1>. HIDE DEF sp2, e, s, n, q2, I
<1>11. TablesInv(sp2, q2, t)
  <2>1. Is(sp2, n, "llm", t, k)
    BY <1>1, <1>3 DEF Is
  <2>. QED
    BY <1>6, <1>7, <1>8, <2>1 DEF TablesInv
<1>12. EndsInv(sp2, q2, t, how)
  <2>. SUFFICES ASSUME NEW i \in DOMAIN sp2, sp2[i].turn = t
                PROVE  sp2[i].ends = IF StillOpen(q2, i, how) THEN 0 ELSE 1
    BY DEF EndsInv
  <2>1. i \in OpenSpans(q2) <=> OpenIn(q2, i, sp2[i].kind, sp2[i].key)
    BY <1>3, <1>11, OpenByKind
  <2>2. CASE i = n
    BY <1>1, <1>3, <1>6, <1>7, <2>1, <2>2 DEF OpenIn, StillOpen
  <2>3. CASE i # n
    <3>1. i \in DOMAIN sp /\ sp[i].turn = t /\ sp2[i].kind = sp[i].kind /\ sp2[i].key = sp[i].key
          /\ sp[i].ends \in Nat
      BY <1>3, <1>4, <1>5, <2>3 DEF SpanRecord
    <3>2. i \in OpenSpans(q) <=> OpenIn(q, i, sp[i].kind, sp[i].key)
      BY <1>7, <3>1, OpenByKind
    <3>3. sp[i].ends = IF StillOpen(q, i, how) THEN 0 ELSE 1
      BY <1>7, <3>1 DEF EndsInv
    <3>4. CASE i \in I
      <4>1. i \in OpenSpans(q) /\ i # q.root /\ sp[i].ends = 0
        BY <1>7, <1>10, <3>2, <3>3, <3>4 DEF TablesInv, Is, OpenIn, StillOpen
      <4>2. ~OpenIn(q2, i, sp[i].kind, sp[i].key)
        BY <1>6, <1>10, <2>3, <3>4 DEF OpenIn, Is
      <4>. QED
        BY <1>5, <1>6, <2>1, <3>1, <3>4, <4>1, <4>2 DEF StillOpen
    <3>5. CASE i \notin I
      <4>1. OpenIn(q2, i, sp[i].kind, sp[i].key) <=> OpenIn(q, i, sp[i].kind, sp[i].key)
        BY <1>6, <1>3, <2>3, <3>1, <3>5 DEF OpenIn, I, NoSpan
      <4>. QED
        BY <1>5, <1>6, <2>1, <3>1, <3>2, <3>3, <3>5, <4>1 DEF StillOpen
    <3>. QED
      BY <3>4, <3>5
  <2>. QED
    BY <2>2, <2>3
<1>13. TasksInv(sp2, q2, t, how)
  <2>. SUFFICES ASSUME NEW i \in DOMAIN sp2, sp2[i].turn = t, sp2[i].kind = "task"
                PROVE  /\ sp2[i].key \in TaskKeys
                       /\ how = "live" => q2.tasks[sp2[i].key] = i
                       /\ how # "cut" => \A j \in DOMAIN sp2 : Is(sp2, j, "task", t, sp2[i].key) => i = j
    BY DEF TasksInv
  <2>1. i \in DOMAIN sp /\ sp[i].turn = t /\ sp[i].kind = "task" /\ sp[i].key = sp2[i].key
    BY <1>1, <1>3, <1>5
  <2>2. /\ sp[i].key \in TaskKeys
        /\ how = "live" => q.tasks[sp[i].key] = i
        /\ how # "cut" => \A j \in DOMAIN sp : Is(sp, j, "task", t, sp[i].key) => i = j
    BY <1>7, <2>1 DEF TasksInv
  <2>. QED
    BY <1>6, <1>9, <2>1, <2>2 DEF Is
<1>14. CallsInv(sp2, q2, t)
  <2>1. \A i \in DOMAIN sp2 : sp2[i].turn = t => ~sp2[i].late
    BY <1>1, <1>3, <1>5, <1>7 DEF CallsInv
  <2>2. \A i \in DOMAIN sp2 : sp2[i].turn = t /\ sp2[i].kind = "tool" =>
           \E c \in Contexts : Is(sp2, sp2[i].parent, "llm", t, c)
    BY <1>1, <1>3, <1>5, <1>7, <1>8 DEF CallsInv
  <2>3. \A c \in Contexts : q2.llm[c] # NoSpan /\ sp2[q2.llm[c]].answered => c \in q2.boundary
    <3>. TAKE c \in Contexts
    <3>1. CASE c = k
      BY <1>1, <1>3, <1>6, <3>1
    <3>2. CASE c # k
      <4>1. q2.llm[c] = q.llm[c] /\ (c \in q2.boundary <=> c \in q.boundary)
        BY <1>6, <3>2
      <4>2. q.llm[c] # NoSpan => q.llm[c] \in DOMAIN sp
        BY <1>7 DEF TablesInv, Is
      <4>. QED
        BY <1>5, <1>7, <4>1, <4>2 DEF CallsInv
    <3>. QED
      BY <3>1, <3>2
  <2>. QED
    BY <2>1, <2>2, <2>3 DEF CallsInv
<1>15. \A i \in DOMAIN sp : sp2[i].turn = sp[i].turn /\ (sp[i].turn # t => sp2[i] = sp[i])
  BY <1>5, <1>10 DEF Is
<1>16. OpenTurn(sp2, q2, t, how)
  BY <1>7, <1>11, <1>12, <1>13, <1>14 DEF TurnInv, OpenTurn
<1>. QED
  BY <1>3, <1>6, <1>15, <1>16 DEF SameElsewhere, sp2, e, s, n, q2, I

\* The span of a tool call is added under the LLM span that asks for it.
LEMMA ToolKeeps ==
    ASSUME NEW sp \in Seq(SpanRecord), NEW q \in StateRecord, NEW t \in Nat, NEW how,
           NEW u \in Tools, NEW ag \in [Agents -> Nat], NEW l, NEW k \in Contexts,
           OpenTurn(sp, q, t, how), Is(sp, l, "llm", t, k),
           \A i \in DOMAIN sp : ~Is(sp, i, "tool", t, u)
    PROVE  LET sp2 == Append(sp, Span("tool", t, u, l))
               q2 == [q EXCEPT !.tools[u] = Len(sp) + 1, !.agents = ag]
           IN  /\ sp2 \in Seq(SpanRecord) /\ Len(sp2) = Len(sp) + 1 /\ q2 \in StateRecord
               /\ OpenTurn(sp2, q2, t, how)
               /\ \A i \in DOMAIN sp : sp2[i] = sp[i]
<1> DEFINE s == Span("tool", t, u, l)
           sp2 == Append(sp, s)
           n == Len(sp) + 1
           q2 == [q EXCEPT !.tools[u] = n, !.agents = ag]
<1>1. s \in SpanRecord /\ s.kind = "tool" /\ s.turn = t /\ s.key = u /\ s.ends = 0
      /\ s.parent = l /\ ~s.late
  <2>1. l \in Nat
    BY LenProperties DEF Is
  <2>. QED
    BY <2>1 DEF Span, SpanRecord
<1>2. /\ sp2 \in Seq(SpanRecord) /\ Len(sp2) = n /\ n \in Nat /\ n # 0
      /\ DOMAIN sp = 1 .. Len(sp) /\ DOMAIN sp2 = 1 .. n /\ n \notin DOMAIN sp
      /\ DOMAIN sp2 = DOMAIN sp \cup {n}
      /\ \A i \in DOMAIN sp : sp2[i] = sp[i]
      /\ sp2[n] = s
  <2>. HIDE DEF s
  <2>1. Len(sp) \in Nat
    BY LenProperties
  <2>2. /\ Append(sp, s) \in Seq(SpanRecord) /\ Len(Append(sp, s)) = Len(sp) + 1
        /\ DOMAIN sp = 1 .. Len(sp) /\ DOMAIN Append(sp, s) = 1 .. Len(sp) + 1
        /\ \A i \in DOMAIN sp : Append(sp, s)[i] = sp[i] /\ Append(sp, s)[Len(sp) + 1] = s
    BY <1>1, AppendFacts
  <2>3. Append(sp, s)[Len(sp) + 1] = s
    BY <1>1, AppendFacts
  <2>. QED
    BY <2>1, <2>2, <2>3
<1>3. /\ q2 \in StateRecord /\ q2.root = q.root /\ q2.llm = q.llm /\ q2.tasks = q.tasks
      /\ q2.over = q.over /\ q2.boundary = q.boundary /\ q2.tools[u] = n
      /\ \A v \in Tools \ {u} : q2.tools[v] = q.tools[v]
  <2>. HIDE DEF n
  <2>. QED
    BY <1>2 DEF StateRecord
<1>4. TablesInv(sp, q, t) /\ EndsInv(sp, q, t, how) /\ TasksInv(sp, q, t, how) /\ CallsInv(sp, q, t)
      /\ how \in {"live", "cut"}
  BY DEF TurnInv, OpenTurn
<1>. HIDE DEF sp2, s, n, q2
<1>5. \A i, kind, key : Is(sp, i, kind, t, key) => Is(sp2, i, kind, t, key)
  BY <1>2 DEF Is
<1>6. \A i, key : Is(sp2, i, "task", t, key) => Is(sp, i, "task", t, key)
  BY <1>1, <1>2 DEF Is
<1>7. q.tools[u] = NoSpan
  BY <1>4 DEF TablesInv, Is
<1>8. TablesInv(sp2, q2, t)
  <2>1. Is(sp2, n, "tool", t, u)
    BY <1>1, <1>2 DEF Is
  <2>. QED
    BY <1>3, <1>4, <1>5, <2>1 DEF TablesInv
<1>9. EndsInv(sp2, q2, t, how)
  <2>. SUFFICES ASSUME NEW i \in DOMAIN sp2, sp2[i].turn = t
                PROVE  sp2[i].ends = IF StillOpen(q2, i, how) THEN 0 ELSE 1
    BY DEF EndsInv
  <2>1. i \in OpenSpans(q2) <=> OpenIn(q2, i, sp2[i].kind, sp2[i].key)
    BY <1>2, <1>8, OpenByKind
  <2>2. CASE i = n
    BY <1>1, <1>2, <1>3, <1>4, <2>1, <2>2 DEF OpenIn, StillOpen
  <2>3. CASE i # n
    <3>1. i \in DOMAIN sp /\ sp[i].turn = t /\ sp2[i] = sp[i]
      BY <1>2, <2>3
    <3>2. i \in OpenSpans(q) <=> OpenIn(q, i, sp[i].kind, sp[i].key)
      BY <1>4, <3>1, OpenByKind
    <3>3. OpenIn(q2, i, sp[i].kind, sp[i].key) <=> OpenIn(q, i, sp[i].kind, sp[i].key)
      <4>1. i # 0
        BY <1>2, <3>1
      <4>. QED
        BY <1>3, <1>7, <2>3, <4>1 DEF OpenIn, NoSpan
    <3>. QED
      BY <1>3, <1>4, <2>1, <3>1, <3>2, <3>3 DEF EndsInv, StillOpen
  <2>. QED
    BY <2>2, <2>3
<1>10. TasksInv(sp2, q2, t, how)
  <2>. SUFFICES ASSUME NEW i \in DOMAIN sp2, sp2[i].turn = t, sp2[i].kind = "task"
                PROVE  /\ sp2[i].key \in TaskKeys
                       /\ how = "live" => q2.tasks[sp2[i].key] = i
                       /\ how # "cut" => \A j \in DOMAIN sp2 : Is(sp2, j, "task", t, sp2[i].key) => i = j
    BY DEF TasksInv
  <2>1. i \in DOMAIN sp /\ sp2[i] = sp[i]
    BY <1>1, <1>2
  <2>2. /\ sp[i].key \in TaskKeys
        /\ how = "live" => q.tasks[sp[i].key] = i
        /\ how # "cut" => \A j \in DOMAIN sp : Is(sp, j, "task", t, sp[i].key) => i = j
    BY <1>4, <2>1 DEF TasksInv
  <2>. QED
    BY <1>3, <1>6, <2>1, <2>2 DEF Is
<1>11. CallsInv(sp2, q2, t)
  <2>1. \A i \in DOMAIN sp2 : sp2[i].turn = t => ~sp2[i].late
    BY <1>1, <1>2, <1>4 DEF CallsInv
  <2>2. \A i \in DOMAIN sp2 : sp2[i].turn = t /\ sp2[i].kind = "tool" =>
           \E c \in Contexts : Is(sp2, sp2[i].parent, "llm", t, c)
    BY <1>1, <1>2, <1>4, <1>5 DEF CallsInv
  <2>3. \A c \in Contexts : q2.llm[c] # NoSpan /\ sp2[q2.llm[c]].answered => c \in q2.boundary
    BY <1>2, <1>3, <1>4 DEF CallsInv, TablesInv, Is
  <2>. QED
    BY <2>1, <2>2, <2>3 DEF CallsInv
<1>12. OpenTurn(sp2, q2, t, how)
  BY <1>4, <1>8, <1>9, <1>10, <1>11 DEF TurnInv, OpenTurn
<1>. QED
  BY <1>2, <1>3, <1>12 DEF sp2, s, n, q2

\* The first event of a subagent adds its span.
LEMMA TaskStarts ==
    ASSUME NEW sp \in Seq(SpanRecord), NEW q \in StateRecord, NEW t \in Nat, NEW how,
           NEW k \in TaskKeys, NEW par \in Nat,
           OpenTurn(sp, q, t, how), q.tasks[k] = NoSpan
    PROVE  LET sp2 == Append(sp, Span("task", t, k, par))
               q2 == [q EXCEPT !.tasks[k] = Len(sp) + 1]
           IN  /\ sp2 \in Seq(SpanRecord) /\ Len(sp2) = Len(sp) + 1 /\ q2 \in StateRecord
               /\ OpenTurn(sp2, q2, t, how)
               /\ \A i \in DOMAIN sp : sp2[i] = sp[i]
<1> DEFINE s == Span("task", t, k, par)
           sp2 == Append(sp, s)
           n == Len(sp) + 1
           q2 == [q EXCEPT !.tasks[k] = n]
<1>1. s \in SpanRecord /\ s.kind = "task" /\ s.turn = t /\ s.key = k /\ s.ends = 0
      /\ ~s.late
  BY DEF Span, SpanRecord
<1>2. /\ sp2 \in Seq(SpanRecord) /\ Len(sp2) = n /\ n \in Nat /\ n # 0
      /\ DOMAIN sp = 1 .. Len(sp) /\ DOMAIN sp2 = 1 .. n /\ n \notin DOMAIN sp
      /\ DOMAIN sp2 = DOMAIN sp \cup {n}
      /\ \A i \in DOMAIN sp : sp2[i] = sp[i]
      /\ sp2[n] = s
  <2>. HIDE DEF s
  <2>1. Len(sp) \in Nat
    BY LenProperties
  <2>2. /\ Append(sp, s) \in Seq(SpanRecord) /\ Len(Append(sp, s)) = Len(sp) + 1
        /\ DOMAIN sp = 1 .. Len(sp) /\ DOMAIN Append(sp, s) = 1 .. Len(sp) + 1
        /\ \A i \in DOMAIN sp : Append(sp, s)[i] = sp[i] /\ Append(sp, s)[Len(sp) + 1] = s
    BY <1>1, AppendFacts
  <2>3. Append(sp, s)[Len(sp) + 1] = s
    BY <1>1, AppendFacts
  <2>. QED
    BY <2>1, <2>2, <2>3
<1>3. /\ q2 \in StateRecord /\ q2.root = q.root /\ q2.llm = q.llm /\ q2.tools = q.tools
      /\ q2.over = q.over /\ q2.boundary = q.boundary /\ q2.tasks[k] = n
      /\ \A v \in TaskKeys \ {k} : q2.tasks[v] = q.tasks[v]
  <2>. HIDE DEF n
  <2>. QED
    BY <1>2 DEF StateRecord
<1>4. TablesInv(sp, q, t) /\ EndsInv(sp, q, t, how) /\ TasksInv(sp, q, t, how) /\ CallsInv(sp, q, t)
      /\ how \in {"live", "cut"}
  BY DEF TurnInv, OpenTurn
<1>. HIDE DEF sp2, s, n, q2
<1>5. \A i, kind, key : Is(sp, i, kind, t, key) => Is(sp2, i, kind, t, key)
  BY <1>2 DEF Is
<1>6. \A i, key : Is(sp2, i, "task", t, key) => Is(sp, i, "task", t, key) \/ (i = n /\ key = k)
  BY <1>1, <1>2 DEF Is
<1>7. k \notin q.over /\ (how = "live" => \A i : ~Is(sp, i, "task", t, k))
  BY <1>2, <1>4 DEF TablesInv, TasksInv, Is, NoSpan
<1>8. TablesInv(sp2, q2, t)
  <2>1. Is(sp2, n, "task", t, k)
    BY <1>1, <1>2 DEF Is
  <2>2. \A c \in TaskKeys : q2.tasks[c] # NoSpan => Is(sp2, q2.tasks[c], "task", t, c)
    BY <1>3, <1>4, <1>5, <2>1 DEF TablesInv
  <2>3. \A c \in q2.over : q2.tasks[c] # NoSpan
    <3>1. q.over \subseteq TaskKeys
      BY DEF StateRecord
    <3>2. \A c \in q.over : q.tasks[c] # NoSpan
      BY <1>4 DEF TablesInv
    <3>3. \A c \in q.over : q2.tasks[c] = q.tasks[c]
      BY <1>3, <1>7, <3>1
    <3>. QED
      BY <1>3, <3>2, <3>3
  <2>. QED
    BY <1>3, <1>4, <1>5, <2>2, <2>3 DEF TablesInv
<1>9. EndsInv(sp2, q2, t, how)
  <2>. SUFFICES ASSUME NEW i \in DOMAIN sp2, sp2[i].turn = t
                PROVE  sp2[i].ends = IF StillOpen(q2, i, how) THEN 0 ELSE 1
    BY DEF EndsInv
  <2>1. i \in OpenSpans(q2) <=> OpenIn(q2, i, sp2[i].kind, sp2[i].key)
    BY <1>2, <1>8, OpenByKind
  <2>2. CASE i = n
    BY <1>1, <1>2, <1>3, <1>4, <1>7, <2>1, <2>2 DEF OpenIn, StillOpen
  <2>3. CASE i # n
    <3>1. i \in DOMAIN sp /\ sp[i].turn = t /\ sp2[i] = sp[i]
      BY <1>2, <2>3
    <3>2. i \in OpenSpans(q) <=> OpenIn(q, i, sp[i].kind, sp[i].key)
      BY <1>4, <3>1, OpenByKind
    <3>3. OpenIn(q2, i, sp[i].kind, sp[i].key) <=> OpenIn(q, i, sp[i].kind, sp[i].key)
      <4>1. i # 0
        BY <1>2, <3>1
      <4>. QED
        BY <1>3, <1>7, <2>3, <4>1 DEF OpenIn, NoSpan
    <3>. QED
      BY <1>3, <1>4, <2>1, <3>1, <3>2, <3>3 DEF EndsInv, StillOpen
  <2>. QED
    BY <2>2, <2>3
<1>10. TasksInv(sp2, q2, t, how)
  <2>. SUFFICES ASSUME NEW i \in DOMAIN sp2, sp2[i].turn = t, sp2[i].kind = "task"
                PROVE  /\ sp2[i].key \in TaskKeys
                       /\ how = "live" => q2.tasks[sp2[i].key] = i
                       /\ how # "cut" => \A j \in DOMAIN sp2 : Is(sp2, j, "task", t, sp2[i].key) => i = j
    BY DEF TasksInv
  <2>1. CASE i = n
    BY <1>1, <1>2, <1>3, <1>4, <1>6, <1>7, <2>1
  <2>2. CASE i # n
    <3>1. i \in DOMAIN sp /\ sp2[i] = sp[i] /\ (how = "live" => sp[i].key # k)
      BY <1>2, <1>7, <2>2 DEF Is
    <3>2. /\ sp[i].key \in TaskKeys
          /\ how = "live" => q.tasks[sp[i].key] = i
          /\ how # "cut" => \A j \in DOMAIN sp : Is(sp, j, "task", t, sp[i].key) => i = j
      BY <1>4, <3>1 DEF TasksInv
    <3>. QED
      BY <1>3, <1>4, <1>6, <3>1, <3>2 DEF Is
  <2>. QED
    BY <2>1, <2>2
<1>11. CallsInv(sp2, q2, t)
  <2>1. \A i \in DOMAIN sp2 : sp2[i].turn = t => ~sp2[i].late
    BY <1>1, <1>2, <1>4 DEF CallsInv
  <2>2. \A i \in DOMAIN sp2 : sp2[i].turn = t /\ sp2[i].kind = "tool" =>
           \E c \in Contexts : Is(sp2, sp2[i].parent, "llm", t, c)
    BY <1>1, <1>2, <1>4, <1>5 DEF CallsInv
  <2>3. \A c \in Contexts : q2.llm[c] # NoSpan /\ sp2[q2.llm[c]].answered => c \in q2.boundary
    BY <1>2, <1>3, <1>4 DEF CallsInv, TablesInv, Is
  <2>. QED
    BY <2>1, <2>2, <2>3 DEF CallsInv
<1>12. OpenTurn(sp2, q2, t, how)
  BY <1>4, <1>8, <1>9, <1>10, <1>11 DEF TurnInv, OpenTurn
<1>. QED
  BY <1>2, <1>3, <1>12 DEF sp2, s, n, q2

\* The notification of a running subagent ends its span.
LEMMA TaskEnds ==
    ASSUME NEW sp \in Seq(SpanRecord), NEW q \in StateRecord, NEW t \in Nat, NEW how, NEW k \in TaskKeys,
           OpenTurn(sp, q, t, how), q.tasks[k] # NoSpan, k \notin q.over
    PROVE  LET sp2 == EndSpans(sp, {q.tasks[k]})
               q2 == [q EXCEPT !.over = @ \cup {k}]
           IN  /\ sp2 \in Seq(SpanRecord) /\ Len(sp2) = Len(sp) /\ q2 \in StateRecord
               /\ OpenTurn(sp2, q2, t, how)
               /\ SameElsewhere(sp, sp2, t)
<1> DEFINE x == q.tasks[k]
           sp2 == EndSpans(sp, {x})
           q2 == [q EXCEPT !.over = @ \cup {k}]
<1>1. TablesInv(sp, q, t) /\ EndsInv(sp, q, t, how) /\ TasksInv(sp, q, t, how) /\ CallsInv(sp, q, t)
      /\ how \in {"live", "cut"}
  BY DEF TurnInv, OpenTurn
<1>2. Is(sp, x, "task", t, k)
  BY <1>1 DEF TablesInv
<1>3. /\ sp2 \in Seq(SpanRecord) /\ Len(sp2) = Len(sp) /\ DOMAIN sp2 = DOMAIN sp
      /\ \A i \in DOMAIN sp :
            /\ i \notin {x} => sp2[i] = sp[i]
            /\ i \in {x} => sp2[i] = [sp[i] EXCEPT !.ends = @ + 1]
  BY EndSpansFacts
<1>4. \A i \in DOMAIN sp : sp[i] \in SpanRecord
  BY ElementOfSeq
<1>. HIDE DEF sp2, x
<1>5. \A i \in DOMAIN sp :
         /\ sp2[i].kind = sp[i].kind /\ sp2[i].turn = sp[i].turn /\ sp2[i].key = sp[i].key
         /\ sp2[i].parent = sp[i].parent
         /\ sp2[i].answered = sp[i].answered /\ sp2[i].late = sp[i].late
         /\ sp2[i].ends = IF i = x THEN sp[i].ends + 1 ELSE sp[i].ends
         /\ i # x => sp2[i] = sp[i]
  <2>. TAKE i \in DOMAIN sp
  <2>1. CASE i = x
    <3>1. sp2[i] = [sp[i] EXCEPT !.ends = @ + 1]
      BY <1>3, <2>1
    <3>. QED
      BY <1>4, <2>1, <3>1, EndedSpan
  <2>2. CASE i # x
    BY <1>3, <2>2
  <2>. QED
    BY <2>1, <2>2
<1>6. /\ q2 \in StateRecord /\ q2.root = q.root /\ q2.llm = q.llm /\ q2.tools = q.tools
      /\ q2.tasks = q.tasks /\ q2.boundary = q.boundary /\ q2.over = q.over \cup {k}
  BY DEF StateRecord
<1>. HIDE DEF q2
<1>7. \A i, kind, key : Is(sp2, i, kind, t, key) <=> Is(sp, i, kind, t, key)
  BY <1>3, <1>5 DEF Is
<1>8. TablesInv(sp2, q2, t)
  BY <1>1, <1>6, <1>7 DEF TablesInv
<1>9. EndsInv(sp2, q2, t, how)
  <2>. SUFFICES ASSUME NEW i \in DOMAIN sp2, sp2[i].turn = t
                PROVE  sp2[i].ends = IF StillOpen(q2, i, how) THEN 0 ELSE 1
    BY DEF EndsInv
  <2>1. /\ i \in OpenSpans(q2) <=> OpenIn(q2, i, sp2[i].kind, sp2[i].key)
        /\ i \in OpenSpans(q) <=> OpenIn(q, i, sp[i].kind, sp[i].key)
        /\ i \in DOMAIN sp /\ sp[i].turn = t /\ sp2[i].kind = sp[i].kind /\ sp2[i].key = sp[i].key
        /\ sp[i].ends \in Nat
    BY <1>1, <1>3, <1>4, <1>5, <1>8, OpenByKind DEF SpanRecord
  <2>2. sp[i].ends = IF StillOpen(q, i, how) THEN 0 ELSE 1
    BY <1>1, <2>1 DEF EndsInv
  <2>3. CASE i = x
    <3>1. OpenIn(q, i, sp[i].kind, sp[i].key) /\ ~OpenIn(q2, i, sp[i].kind, sp[i].key) /\ i # q.root
      BY <1>1, <1>2, <1>6, <2>3 DEF OpenIn, Is, TablesInv, x
    <3>. QED
      BY <1>1, <1>5, <1>6, <2>1, <2>2, <2>3, <3>1 DEF StillOpen
  <2>4. CASE i # x
    <3>1. OpenIn(q2, i, sp[i].kind, sp[i].key) <=> OpenIn(q, i, sp[i].kind, sp[i].key)
      BY <1>6, <2>4 DEF OpenIn, x
    <3>. QED
      BY <1>5, <1>6, <2>1, <2>2, <2>4, <3>1 DEF StillOpen
  <2>. QED
    BY <2>3, <2>4
<1>10. TasksInv(sp2, q2, t, how)
  BY <1>1, <1>3, <1>5, <1>6, <1>7 DEF TasksInv
<1>11. CallsInv(sp2, q2, t)
  <2>1. \A c \in Contexts : q2.llm[c] # NoSpan /\ sp2[q2.llm[c]].answered => c \in q2.boundary
    BY <1>1, <1>5, <1>6 DEF CallsInv, TablesInv, Is
  <2>2. \A i \in DOMAIN sp2 : sp2[i].turn = t /\ sp2[i].kind = "tool" =>
           \E c \in Contexts : Is(sp2, sp2[i].parent, "llm", t, c)
    BY <1>1, <1>3, <1>5, <1>7 DEF CallsInv
  <2>. QED
    BY <1>1, <1>3, <1>5, <2>1, <2>2 DEF CallsInv
<1>12. OpenTurn(sp2, q2, t, how)
  BY <1>1, <1>8, <1>9, <1>10, <1>11 DEF TurnInv, OpenTurn
<1>. QED
  BY <1>2, <1>3, <1>5, <1>6, <1>12 DEF SameElsewhere, sp2, x, q2, Is

\* Marking spans as answered changes nothing else of them.
LEMMA AnsweredSpan ==
    ASSUME NEW s \in SpanRecord, NEW b \in BOOLEAN
    PROVE  LET a == [s EXCEPT !.answered = @ \/ b]
           IN  /\ a \in SpanRecord /\ a.kind = s.kind /\ a.turn = s.turn /\ a.key = s.key
               /\ a.parent = s.parent /\ a.ends = s.ends /\ a.status = s.status /\ a.late = s.late
               /\ a.answered <=> s.answered \/ b
               /\ ~b => a = s
  BY DEF SpanRecord

\* A tool result in context k ends the span of its call, answers LLM spans of k, and cuts
\* the turn of k.
LEMMA ResultKeeps ==
    ASSUME NEW sp \in Seq(SpanRecord), NEW q \in StateRecord, NEW t \in Nat, NEW how, NEW u \in Tools,
           NEW k \in Contexts, NEW A, \A i \in A : Is(sp, i, "llm", t, k), OpenTurn(sp, q, t, how)
    PROVE  LET e == EndSpans(sp, {q.tools[u]} \ {NoSpan})
               sp2 == AnswerSpans(e, A)
               q2 == [q EXCEPT !.tools[u] = NoSpan, !.boundary = @ \cup {k}]
           IN  /\ sp2 \in Seq(SpanRecord) /\ DOMAIN sp2 = DOMAIN sp /\ q2 \in StateRecord
               /\ OpenTurn(sp2, q2, t, how)
               /\ SameElsewhere(sp, sp2, t)
<1> DEFINE x == q.tools[u]
           e == EndSpans(sp, {x} \ {NoSpan})
           sp2 == AnswerSpans(e, A)
           q2 == [q EXCEPT !.tools[u] = NoSpan, !.boundary = @ \cup {k}]
<1>1. TablesInv(sp, q, t) /\ EndsInv(sp, q, t, how) /\ TasksInv(sp, q, t, how) /\ CallsInv(sp, q, t)
      /\ how \in {"live", "cut"}
  BY DEF TurnInv, OpenTurn
<1>2. /\ e \in Seq(SpanRecord) /\ DOMAIN e = DOMAIN sp
      /\ \A i \in DOMAIN sp :
            /\ i \notin {x} \ {NoSpan} => e[i] = sp[i]
            /\ i \in {x} \ {NoSpan} => e[i] = [sp[i] EXCEPT !.ends = @ + 1]
  BY EndSpansFacts
<1>3. /\ \A i \in DOMAIN sp : sp[i] \in SpanRecord /\ e[i] \in SpanRecord /\ i # NoSpan
      /\ Len(sp) \in Nat /\ DOMAIN sp = 1 .. Len(sp)
  BY <1>2, ElementOfSeq, LenProperties DEF NoSpan
<1>4. DOMAIN sp2 = DOMAIN sp /\ \A i \in DOMAIN sp : sp2[i] = [e[i] EXCEPT !.answered = @ \/ i \in A]
  BY <1>2 DEF AnswerSpans
<1>5. \A i \in DOMAIN sp :
         /\ e[i].kind = sp[i].kind /\ e[i].turn = sp[i].turn /\ e[i].key = sp[i].key
         /\ e[i].parent = sp[i].parent /\ e[i].status = sp[i].status
         /\ e[i].answered = sp[i].answered /\ e[i].late = sp[i].late
         /\ e[i].ends = IF i = x THEN sp[i].ends + 1 ELSE sp[i].ends
         /\ i # x => e[i] = sp[i]
  <2>. HIDE DEF e, x, sp2
  <2>. TAKE i \in DOMAIN sp
  <2>1. CASE i = x
    <3>1. e[i] = [sp[i] EXCEPT !.ends = @ + 1]
      BY <1>2, <1>3, <2>1
    <3>. QED
      BY <1>3, <2>1, <3>1, EndedSpan
  <2>2. CASE i # x
    BY <1>2, <2>2
  <2>. QED
    BY <2>1, <2>2
<1>6. \A i \in DOMAIN sp :
         /\ sp2[i] \in SpanRecord
         /\ sp2[i].kind = sp[i].kind /\ sp2[i].turn = sp[i].turn /\ sp2[i].key = sp[i].key
         /\ sp2[i].parent = sp[i].parent /\ sp2[i].late = sp[i].late
         /\ sp2[i].answered => i \in A \/ sp[i].answered
         /\ sp2[i].ends = IF i = x THEN sp[i].ends + 1 ELSE sp[i].ends
         /\ i # x /\ i \notin A => sp2[i] = sp[i]
  <2>. HIDE DEF sp2, e, x
  <2>. TAKE i \in DOMAIN sp
  <2>1. PICK b \in BOOLEAN : b <=> i \in A
    OBVIOUS
  <2>2. e[i] \in SpanRecord /\ sp2[i] = [e[i] EXCEPT !.answered = @ \/ b]
    BY <1>3, <1>4, <2>1
  <2>3. /\ sp2[i] \in SpanRecord /\ sp2[i].kind = e[i].kind /\ sp2[i].turn = e[i].turn
        /\ sp2[i].key = e[i].key /\ sp2[i].parent = e[i].parent /\ sp2[i].ends = e[i].ends
        /\ sp2[i].late = e[i].late /\ (sp2[i].answered <=> e[i].answered \/ b)
        /\ ~b => sp2[i] = e[i]
    BY <2>2, AnsweredSpan
  <2>. QED
    BY <1>5, <2>1, <2>3
<1>7. sp2 \in Seq(SpanRecord)
  <2>1. [i \in 1 .. Len(sp) |-> sp2[i]] \in Seq(SpanRecord)
    <3>. HIDE DEF sp2
    <3>. QED
      BY <1>3, <1>6, IsASeq
  <2>2. sp2 = [i \in 1 .. Len(sp) |-> sp2[i]]
    <3>. HIDE DEF e
    <3>. QED
      BY <1>2, <1>3 DEF AnswerSpans
  <2>. HIDE DEF sp2
  <2>. QED
    BY <2>1, <2>2
<1>8. /\ q2 \in StateRecord /\ q2.root = q.root /\ q2.llm = q.llm /\ q2.tasks = q.tasks
      /\ q2.over = q.over /\ q2.boundary = q.boundary \cup {k} /\ q2.tools[u] = NoSpan
      /\ \A v \in Tools \ {u} : q2.tools[v] = q.tools[v]
  BY DEF StateRecord, NoSpan
<1>. HIDE DEF sp2, e, x, q2
<1>9. \A i, kind, key : Is(sp2, i, kind, t, key) <=> Is(sp, i, kind, t, key)
  BY <1>4, <1>6 DEF Is
<1>10. TablesInv(sp2, q2, t)
  BY <1>1, <1>8, <1>9 DEF TablesInv
<1>11. x # NoSpan => Is(sp, x, "tool", t, u)
  BY <1>1 DEF TablesInv, x
<1>12. EndsInv(sp2, q2, t, how)
  <2>. SUFFICES ASSUME NEW i \in DOMAIN sp2, sp2[i].turn = t
                PROVE  sp2[i].ends = IF StillOpen(q2, i, how) THEN 0 ELSE 1
    BY DEF EndsInv
  <2>1. /\ i \in OpenSpans(q2) <=> OpenIn(q2, i, sp2[i].kind, sp2[i].key)
        /\ i \in OpenSpans(q) <=> OpenIn(q, i, sp[i].kind, sp[i].key)
        /\ i \in DOMAIN sp /\ sp[i].turn = t /\ sp2[i].kind = sp[i].kind /\ sp2[i].key = sp[i].key
        /\ sp[i].ends \in Nat /\ i # NoSpan
    BY <1>1, <1>3, <1>4, <1>6, <1>7, <1>10, OpenByKind DEF SpanRecord
  <2>2. sp[i].ends = IF StillOpen(q, i, how) THEN 0 ELSE 1
    BY <1>1, <2>1 DEF EndsInv
  <2>3. CASE i = x
    <3>1. OpenIn(q, i, sp[i].kind, sp[i].key) /\ ~OpenIn(q2, i, sp[i].kind, sp[i].key) /\ i # q.root
      BY <1>1, <1>8, <1>11, <2>1, <2>3 DEF OpenIn, Is, TablesInv, x
    <3>. QED
      BY <1>1, <1>6, <1>8, <2>1, <2>2, <2>3, <3>1 DEF StillOpen
  <2>4. CASE i # x
    <3>1. OpenIn(q2, i, sp[i].kind, sp[i].key) <=> OpenIn(q, i, sp[i].kind, sp[i].key)
      BY <1>8, <2>1, <2>4 DEF OpenIn, x
    <3>. QED
      BY <1>6, <1>8, <2>1, <2>2, <2>4, <3>1 DEF StillOpen
  <2>. QED
    BY <2>3, <2>4
<1>13. TasksInv(sp2, q2, t, how)
  BY <1>1, <1>4, <1>6, <1>8, <1>9 DEF TasksInv
<1>14. CallsInv(sp2, q2, t)
  <2>1. \A c \in Contexts : q2.llm[c] # NoSpan /\ sp2[q2.llm[c]].answered => c \in q2.boundary
    <3>. SUFFICES ASSUME NEW c \in Contexts, q.llm[c] # NoSpan, sp2[q.llm[c]].answered
                  PROVE  c \in q.boundary \cup {k}
      BY <1>8
    <3>1. Is(sp, q.llm[c], "llm", t, c)
      BY <1>1 DEF TablesInv
    <3>2. q.llm[c] \in A \/ sp[q.llm[c]].answered
      BY <1>6, <3>1 DEF Is
    <3>. QED
      BY <1>1, <3>1, <3>2 DEF CallsInv, Is
  <2>2. \A i \in DOMAIN sp2 : sp2[i].turn = t /\ sp2[i].kind = "tool" =>
           \E c \in Contexts : Is(sp2, sp2[i].parent, "llm", t, c)
    BY <1>1, <1>4, <1>6, <1>9 DEF CallsInv
  <2>. QED
    BY <1>1, <1>4, <1>6, <2>1, <2>2 DEF CallsInv
<1>15. OpenTurn(sp2, q2, t, how)
  BY <1>1, <1>10, <1>12, <1>13, <1>14 DEF TurnInv, OpenTurn
<1>16. \A i \in DOMAIN sp : sp2[i].turn = sp[i].turn /\ (sp[i].turn # t => sp2[i] = sp[i])
  BY <1>3, <1>6, <1>11 DEF Is
<1>. QED
  BY <1>4, <1>7, <1>8, <1>15, <1>16 DEF SameElsewhere, sp2, e, x, q2

\* end_all() and the end of the query span: every span of the turn has ended once.
EndedState(q) ==
    [q EXCEPT !.llm = [k \in Contexts |-> NoSpan], !.tools = [u \in Tools |-> NoSpan],
              !.tasks = [k \in TaskKeys |-> NoSpan], !.over = {}]

RootStatus(sp, q) == sp[q.root].status

LEMMA EndsTurn ==
    ASSUME NEW sp \in Seq(SpanRecord), NEW q \in StateRecord, NEW t \in Nat,
           NEW st \in {"ok", "error"}, OpenTurn(sp, q, t, "live")
    PROVE  LET sp2 == [EndSpans(sp, OpenSpans(q) \cup {q.root}) EXCEPT ![q.root].status = st]
           IN  /\ sp2 \in Seq(SpanRecord) /\ Len(sp2) = Len(sp) /\ EndedState(q) \in StateRecord
               /\ ShutTurn(sp2, EndedState(q), t)
               /\ RootStatus(sp2, q) = st /\ q.root \in DOMAIN sp
               /\ EndedState(q).root = q.root
               /\ SameElsewhere(sp, sp2, t)
<1> DEFINE I == OpenSpans(q) \cup {q.root}
           e == EndSpans(sp, I)
           sp2 == [e EXCEPT ![q.root].status = st]
           q2 == EndedState(q)
<1>1. TablesInv(sp, q, t) /\ EndsInv(sp, q, t, "live") /\ TasksInv(sp, q, t, "live") /\ CallsInv(sp, q, t)
  BY DEF TurnInv, OpenTurn
<1>2. Is(sp, q.root, "query", t, Root)
  BY <1>1 DEF TablesInv
<1>3. /\ e \in Seq(SpanRecord) /\ Len(e) = Len(sp) /\ DOMAIN e = DOMAIN sp
      /\ \A i \in DOMAIN sp :
            /\ i \notin I => e[i] = sp[i]
            /\ i \in I => e[i] = [sp[i] EXCEPT !.ends = @ + 1]
  BY EndSpansFacts
<1>4. /\ \A i \in DOMAIN sp : sp[i] \in SpanRecord /\ e[i] \in SpanRecord
      /\ Len(sp) \in Nat /\ DOMAIN sp = 1 .. Len(sp)
  BY <1>3, ElementOfSeq, LenProperties
<1>5. q.root \in DOMAIN sp /\ DOMAIN sp2 = DOMAIN sp
  BY <1>2, <1>3 DEF Is
<1>6. \A i \in DOMAIN sp : sp2[i] = IF i = q.root THEN [e[i] EXCEPT !.status = st] ELSE e[i]
  <2>. HIDE DEF e
  <2>. QED
    BY <1>3, <1>5
<1>7. \A i \in DOMAIN sp :
         /\ e[i].kind = sp[i].kind /\ e[i].turn = sp[i].turn /\ e[i].key = sp[i].key
         /\ e[i].parent = sp[i].parent
         /\ e[i].answered = sp[i].answered /\ e[i].late = sp[i].late
         /\ e[i].ends = IF i \in I THEN sp[i].ends + 1 ELSE sp[i].ends
         /\ i \notin I => e[i] = sp[i]
  <2>. HIDE DEF e, I, sp2
  <2>. TAKE i \in DOMAIN sp
  <2>1. CASE i \in I
    <3>1. e[i] = [sp[i] EXCEPT !.ends = @ + 1]
      BY <1>3, <2>1
    <3>. QED
      BY <1>4, <2>1, <3>1, EndedSpan
  <2>2. CASE i \notin I
    BY <1>3, <2>2
  <2>. QED
    BY <2>1, <2>2
<1>8. \A s \in SpanRecord : LET a == [s EXCEPT !.status = st]
         IN  /\ a \in SpanRecord /\ a.kind = s.kind /\ a.turn = s.turn /\ a.key = s.key
             /\ a.parent = s.parent /\ a.ends = s.ends /\ a.late = s.late
             /\ a.answered = s.answered /\ a.status = st
  BY DEF SpanRecord
<1>9. \A i \in DOMAIN sp :
         /\ sp2[i] \in SpanRecord
         /\ sp2[i].kind = sp[i].kind /\ sp2[i].turn = sp[i].turn /\ sp2[i].key = sp[i].key
         /\ sp2[i].parent = sp[i].parent /\ sp2[i].late = sp[i].late
         /\ sp2[i].answered = sp[i].answered
         /\ sp2[i].ends = IF i \in I THEN sp[i].ends + 1 ELSE sp[i].ends
         /\ i = q.root => sp2[i].status = st
         /\ i \notin I => sp2[i] = sp[i]
  <2>. TAKE i \in DOMAIN sp
  <2>0. q.root \in I
    OBVIOUS
  <2>. HIDE DEF sp2, e, I
  <2>1. CASE i = q.root
    <3>1. sp2[i] = [e[i] EXCEPT !.status = st] /\ e[i] \in SpanRecord
      BY <1>4, <1>6, <2>1
    <3>. QED
      BY <1>7, <1>8, <2>0, <2>1, <3>1
  <2>2. CASE i # q.root
    <3>1. sp2[i] = e[i]
      BY <1>6, <2>2
    <3>. QED
      BY <1>4, <1>7, <2>2, <3>1
  <2>. QED
    BY <2>1, <2>2
<1>10. sp2 \in Seq(SpanRecord) /\ Len(sp2) = Len(sp)
  <2>1. [i \in 1 .. Len(sp) |-> sp2[i]] \in Seq(SpanRecord)
    <3>. HIDE DEF sp2
    <3>. QED
      BY <1>4, <1>9, IsASeq
  <2>2. sp2 = [i \in 1 .. Len(sp) |-> sp2[i]]
    BY <1>4, <1>5
  <2>. HIDE DEF sp2
  <2>. QED
    BY <1>4, <1>5, <2>1, <2>2, LenProperties
<1>11. /\ q2 \in StateRecord /\ q2.root = q.root /\ q2.over = {}
       /\ \A k \in Contexts : q2.llm[k] = NoSpan
       /\ \A u \in Tools : q2.tools[u] = NoSpan
       /\ \A k \in TaskKeys : q2.tasks[k] = NoSpan
  BY DEF StateRecord, EndedState, NoSpan
<1>. HIDE DEF sp2, e, q2
<1>12. \A i, kind, key : Is(sp2, i, kind, t, key) <=> Is(sp, i, kind, t, key)
  BY <1>5, <1>9 DEF Is
<1>13. TablesInv(sp2, q2, t)
  BY <1>1, <1>11, <1>12 DEF TablesInv
<1>14. EndsInv(sp2, q2, t, "over") /\ EndsInv(sp2, q2, t, "cut")
  <2>1. OpenSpans(q2) = {}
    BY <1>11 DEF OpenSpans
  <2>2. ASSUME NEW i \in DOMAIN sp, sp[i].turn = t
        PROVE  sp2[i].ends = 1
    <3>1. sp[i].ends = IF i \in I THEN 0 ELSE 1
      BY <1>1, <2>2 DEF EndsInv, StillOpen
    <3>. HIDE DEF I
    <3>. QED
      BY <1>9, <3>1
  <2>. QED
    BY <1>5, <1>9, <2>1, <2>2 DEF EndsInv, StillOpen
<1>15. TasksInv(sp2, q2, t, "over") /\ TasksInv(sp2, q2, t, "cut")
  BY <1>1, <1>5, <1>9, <1>12 DEF TasksInv
<1>16. CallsInv(sp2, q2, t)
  <2>1. \A i \in DOMAIN sp2 : sp2[i].turn = t /\ sp2[i].kind = "tool" =>
           \E c \in Contexts : Is(sp2, sp2[i].parent, "llm", t, c)
    BY <1>1, <1>5, <1>9, <1>12 DEF CallsInv
  <2>. QED
    BY <1>1, <1>5, <1>9, <1>11, <2>1 DEF CallsInv
<1>17. ShutTurn(sp2, q2, t)
  BY <1>13, <1>14, <1>15, <1>16 DEF TurnInv, ShutTurn
<1>18. \A i \in I \cap DOMAIN sp : sp[i].turn = t
  <2>1. \A i \in DOMAIN sp : i # NoSpan
    BY <1>4 DEF NoSpan
  <2>. QED
    BY <1>1, <1>2, <2>1 DEF I, OpenSpans, TablesInv, Is
<1>19. \A i \in DOMAIN sp : sp2[i].turn = sp[i].turn /\ (sp[i].turn # t => sp2[i] = sp[i])
  BY <1>9, <1>18
<1>. QED
  BY <1>5, <1>9, <1>10, <1>11, <1>17, <1>19 DEF SameElsewhere, RootStatus, sp2, e, I, q2

\* The query span of a new turn.
LEMMA StartsTurn ==
    ASSUME NEW sp \in Seq(SpanRecord), NEW t \in Nat, NEW par \in Nat, \A i \in DOMAIN sp : sp[i].turn # t
    PROVE  LET sp2 == Append(sp, Span("query", t, Root, par))
               q2 == NewState(Len(sp) + 1)
           IN  /\ sp2 \in Seq(SpanRecord) /\ Len(sp2) = Len(sp) + 1 /\ q2 \in StateRecord
               /\ OpenTurn(sp2, q2, t, "live")
               /\ \A i \in DOMAIN sp : sp2[i] = sp[i]
               /\ \A i \in DOMAIN sp2 : i \notin DOMAIN sp => sp2[i].turn = t
<1> DEFINE s == Span("query", t, Root, par)
           sp2 == Append(sp, s)
           n == Len(sp) + 1
           q2 == NewState(n)
<1>1. s \in SpanRecord /\ s.kind = "query" /\ s.turn = t /\ s.key = Root /\ s.ends = 0 /\ ~s.late
  BY DEF Span, SpanRecord, NoSpan, Contexts
<1>2. /\ sp2 \in Seq(SpanRecord) /\ Len(sp2) = n /\ n \in Nat
      /\ DOMAIN sp2 = DOMAIN sp \cup {n} /\ n \notin DOMAIN sp
      /\ \A i \in DOMAIN sp : sp2[i] = sp[i]
      /\ sp2[n] = s
  <2>. HIDE DEF s
  <2>1. Len(sp) \in Nat
    BY LenProperties
  <2>2. /\ Append(sp, s) \in Seq(SpanRecord) /\ Len(Append(sp, s)) = Len(sp) + 1
        /\ DOMAIN sp = 1 .. Len(sp) /\ DOMAIN Append(sp, s) = 1 .. Len(sp) + 1
        /\ \A i \in DOMAIN sp : Append(sp, s)[i] = sp[i]
    BY <1>1, AppendFacts
  <2>3. Append(sp, s)[Len(sp) + 1] = s
    BY <1>1, AppendFacts
  <2>. QED
    BY <2>1, <2>2, <2>3
<1>3. /\ q2 \in StateRecord /\ q2.root = n /\ q2.over = {}
      /\ \A k \in Contexts : q2.llm[k] = NoSpan
      /\ \A u \in Tools : q2.tools[u] = NoSpan
      /\ \A k \in TaskKeys : q2.tasks[k] = NoSpan
  <2>. HIDE DEF n
  <2>. QED
    BY <1>2 DEF StateRecord, NewState, NoSpan
<1>. HIDE DEF s, sp2, n, q2
<1>4. \A i \in DOMAIN sp2 : sp2[i].turn = t => i = n
  BY <1>2
<1>5. TablesInv(sp2, q2, t)
  BY <1>1, <1>2, <1>3 DEF TablesInv, Is
<1>6. EndsInv(sp2, q2, t, "live")
  BY <1>1, <1>2, <1>3, <1>4 DEF EndsInv, StillOpen
<1>7. TasksInv(sp2, q2, t, "live")
  BY <1>1, <1>2, <1>4 DEF TasksInv
<1>8. CallsInv(sp2, q2, t)
  BY <1>1, <1>2, <1>3, <1>4 DEF CallsInv
<1>9. OpenTurn(sp2, q2, t, "live")
  BY <1>5, <1>6, <1>7, <1>8 DEF TurnInv, OpenTurn
<1>. QED
  BY <1>1, <1>2, <1>3, <1>9 DEF s, sp2, n, q2

----------------------------------------------------------------------------
(* The messages                                                             *)

\* Facts about the variables that every action uses.
LEMMA TurnFacts ==
    ASSUME AgentInv
    PROVE  /\ Len(state) \in Nat /\ Turns = DOMAIN state /\ Turns \subseteq Nat /\ 0 \notin Turns
           /\ \A t \in Turns : state[t] \in StateRecord
           /\ \A t \in Turns : TurnInv(spans, state[t], t, Phase(t))
           /\ \A t \in Turns : state[t].root \in DOMAIN spans /\ Is(spans, state[t].root, "query", t, Root)
           /\ \A i \in DOMAIN spans : spans[i].turn \in Turns
<1>1. Len(state) \in Nat /\ Turns = DOMAIN state /\ Turns \subseteq Nat /\ 0 \notin Turns
  BY LenProperties DEF AgentInv, TypeOK, Turns
<1>2. \A t \in Turns : state[t] \in StateRecord
  BY <1>1, ElementOfSeq DEF AgentInv, TypeOK
<1>3. \A t \in Turns : TurnInv(spans, state[t], t, Phase(t))
  BY DEF AgentInv, TurnsInv
<1>4. \A t \in Turns : state[t].root \in DOMAIN spans /\ Is(spans, state[t].root, "query", t, Root)
  BY <1>3 DEF TurnInv, TablesInv, Is
<1>5. \A i \in DOMAIN spans : spans[i].turn \in Turns
  BY DEF AgentInv, TypeOK
<1>. QED
  BY <1>1, <1>2, <1>3, <1>4, <1>5

\* The phase of a turn depends on who will end it and on whether it was cut short.
LEMMA PhaseKeeps ==
    ASSUME NEW t, Live(t)' <=> Live(t), t \in cut' <=> t \in cut
    PROVE  Phase(t)' = Phase(t)
  BY DEF Phase

\* A stream that was closed stays closed.
LEMMA OvertakenKeeps ==
    ASSUME \A s \in Readers : reader[s].pc = "closed" => reader'[s] = reader[s],
           NEW t, Overtaken(t)
    PROVE  Overtaken(t)'
  BY DEF Overtaken

\* A message of a stream changes one turn; the others and the streams stay.
LEMMA OneTurn ==
    ASSUME AgentInv, NEW t \in Turns,
           UNCHANGED <<current, asked, sending, reader, failed, cut>>, messages' \in Nat,
           NEW q2 \in StateRecord, state' = [state EXCEPT ![t] = q2],
           spans' \in Seq(SpanRecord), OpenTurn(spans', q2, t, Phase(t)),
           \A i \in DOMAIN spans : /\ i \in DOMAIN spans' /\ spans'[i].turn = spans[i].turn
                                   /\ spans[i].turn # t => spans'[i] = spans[i],
           \A i \in DOMAIN spans' : i \notin DOMAIN spans => spans'[i].turn = t
    PROVE  AgentInv'
<1>1. /\ Len(state) \in Nat /\ Turns = DOMAIN state /\ Turns \subseteq Nat /\ 0 \notin Turns
      /\ \A x \in Turns : state[x] \in StateRecord
      /\ \A x \in Turns : TurnInv(spans, state[x], x, Phase(x))
      /\ \A x \in Turns : state[x].root \in DOMAIN spans /\ spans[state[x].root].turn = x
      /\ \A i \in DOMAIN spans : spans[i].turn \in Turns
  BY TurnFacts DEF Is
<1>2. state' \in Seq(StateRecord) /\ Len(state') = Len(state) /\ state'[t] = q2
      /\ \A x \in Turns \ {t} : state'[x] = state[x]
  BY <1>1, ExceptSeq DEF AgentInv, TypeOK
<1>3. Turns' = Turns
  BY <1>2 DEF Turns
<1>4. \A x : (Live(x)' <=> Live(x)) /\ Phase(x)' = Phase(x)
  <2>1. \A x : Live(x)' <=> Live(x)
    BY DEF Live, Active
  <2>. QED
    BY <2>1, PhaseKeeps
<1>5. TypeOK'
  <2>1. \A i \in DOMAIN spans' : spans'[i].turn \in Turns
    BY <1>1
  <2>. QED
    BY <1>2, <1>3, <2>1 DEF AgentInv, TypeOK, ReaderRecord
<1>6. TurnsInv'
  <2>. SUFFICES ASSUME NEW x \in Turns PROVE TurnInv(spans', state'[x], x, Phase(x))
    BY <1>3, <1>4 DEF TurnsInv
  <2>1. CASE x = t
    BY <1>2, <2>1 DEF OpenTurn
  <2>2. CASE x # t
    <3>1. Untouched(spans, spans', x)
      BY <2>2 DEF Untouched
    <3>2. spans \in Seq(SpanRecord) /\ x \in Nat
      BY <1>1 DEF AgentInv, TypeOK
    <3>3. PICK how : how = Phase(x)
      OBVIOUS
    <3>4. TurnInv(spans, state[x], x, how)
      BY <1>1, <3>3
    <3>5. TurnInv(spans', state[x], x, how)
      BY <3>1, <3>2, <3>4, Frame
    <3>. QED
      BY <1>2, <2>2, <3>3, <3>5
  <2>. QED
    BY <2>1, <2>2
<1>7. ReadersInv'
  BY <1>3, <1>4 DEF AgentInv, ReadersInv
<1>8. ClientInv' /\ ResponseIsTraced'
  BY OvertakenKeeps DEF AgentInv, ClientInv, ResponseIsTraced
<1>9. FailureIsShown'
  <2>. SUFFICES ASSUME NEW x \in failed \ cut
                PROVE  spans'[state'[x].root].status = "error"
    BY DEF FailureIsShown
  <2>1. x \in Turns /\ ~Live(x)
    BY DEF AgentInv, ReadersInv, TypeOK
  <2>2. x # t
    BY <2>1 DEF OpenTurn, Phase
  <2>. QED
    BY <1>1, <1>2, <2>1, <2>2 DEF AgentInv, FailureIsShown
<1>. QED
  BY <1>5, <1>6, <1>7, <1>8, <1>9 DEF AgentInv

\* The turn a message belongs to is live, or was cut short.
LEMMA ReadsOpen ==
    ASSUME AgentInv, NEW r \in Readers, Reads(r)
    PROVE  LET t == reader[r].turn
           IN  t \in Turns /\ state[t] \in StateRecord /\ OpenTurn(spans, state[t], t, Phase(t))
               /\ t \in Nat
<1> DEFINE t == reader[r].turn
<1>1. t \in Turns /\ Active(r)
  BY DEF Reads, Active, AgentInv, TypeOK, ReaderRecord
<1>2. Live(t) \/ t \in cut
  BY <1>1 DEF Reads, Live, AgentInv, ReadersInv, TypeOK, ReaderRecord
<1>3. state[t] \in StateRecord /\ TurnInv(spans, state[t], t, Phase(t)) /\ t \in Nat
  BY <1>1, TurnFacts
<1>4. OpenTurn(spans, state[t], t, Phase(t))
  BY <1>2, <1>3 DEF OpenTurn, Phase
<1>. QED
  BY <1>1, <1>3, <1>4

\* The span a turn nests under is a number, whichever subagents run.
LEMMA ParentOfIs ==
    ASSUME NEW sp \in Seq(SpanRecord), NEW q \in StateRecord, NEW t, TablesInv(sp, q, t), NEW k \in Contexts
    PROVE  ParentOf(q, k) \in Nat
<1>1. q.root \in Nat /\ \A x \in TaskKeys : q.tasks[x] \in Nat
  BY DEF StateRecord
<1>2. k # Root => k \in TaskKeys
  BY DEF Contexts, TaskKeys
<1>3. Len(sp) \in Nat /\ DOMAIN sp = 1 .. Len(sp)
  BY LenProperties
<1>4. Running(q) \subseteq 1 .. Len(sp)
  BY <1>3 DEF Running, TablesInv, Is
<1>5. ASSUME Running(q) # {} PROVE Max(Running(q)) \in Nat
  <2>. DEFINE R == Running(q)
              D == {Len(sp) - x : x \in R}
  <2>1. D \subseteq Nat /\ D # {}
    BY <1>3, <1>4, <1>5
  <2>2. PICK n \in D : \A m \in D : n <= m
    <3>. HIDE DEF D
    <3>1. PICK n \in D : \A m \in D : ~(<<m, n>> \in OpToRel(<, Nat))
      BY <2>1, NatLessThanWellFounded, WFMin
    <3>2. \A m \in D : ~(m < n)
      BY <2>1, <3>1 DEF OpToRel
    <3>. QED
      BY <2>1, <3>2
  <2>3. PICK x \in R : n = Len(sp) - x
    OBVIOUS
  <2>4. \A y \in R : x >= y
    <3>. TAKE y \in R
    <3>1. Len(sp) - x <= Len(sp) - y
      BY <2>2, <2>3
    <3>2. x \in Nat /\ y \in Nat
      BY <1>4
    <3>. QED
      BY <1>3, <3>1, <3>2
  <2>5. Max(R) \in R
    BY <2>3, <2>4 DEF Max
  <2>. QED
    BY <1>4, <2>5
<1>. QED
  BY <1>1, <1>2, <1>5 DEF ParentOf

LEMMA AssistantStep ==
    ASSUME AgentInv, NEW r \in Readers, NEW k \in Contexts,
           NEW m \in MessageIds \cup {None}, NEW u \in Tools \cup {None}, AssistantMessage(r, k, m, u)
    PROVE  AgentInv'
<1> DEFINE t == reader[r].turn
           q == state[t]
           new == NewTurn(q, k, m)
           opened == IF new THEN OpenLlm(t, q, k) ELSE spans
           l == IF new THEN Len(opened) ELSE q.llm[k]
           said == [opened EXCEPT ![l].late = @ \/ opened[l].answered]
           heard == [q EXCEPT !.llm[k] = l, !.mid[k] = IF new THEN m ELSE @, !.boundary = @ \ {k}]
           how == Phase(t)
<1>1. t \in Turns /\ q \in StateRecord /\ OpenTurn(spans, q, t, how) /\ t \in Nat
  BY ReadsOpen DEF AssistantMessage
<1>2. spans \in Seq(SpanRecord) /\ Len(spans) \in Nat /\ DOMAIN spans = 1 .. Len(spans)
      /\ state \in Seq(StateRecord) /\ messages \in Nat
  BY LenProperties DEF AgentInv, TypeOK
<1>3. TablesInv(spans, q, t) /\ CallsInv(spans, q, t)
  BY <1>1 DEF TurnInv, OpenTurn
<1>4. /\ opened \in Seq(SpanRecord) /\ heard \in StateRecord /\ OpenTurn(opened, heard, t, how)
      /\ \A i \in DOMAIN spans : /\ i \in DOMAIN opened /\ opened[i].turn = spans[i].turn
                                 /\ spans[i].turn # t => opened[i] = spans[i]
      /\ \A i \in DOMAIN opened : i \notin DOMAIN spans => opened[i].turn = t
      /\ Is(opened, l, "llm", t, k) /\ ~opened[l].answered /\ heard.tools = q.tools
      /\ \A i \in DOMAIN opened : opened[i].turn = t /\ opened[i].kind = "tool" =>
            i \in DOMAIN spans /\ spans[i].turn = t /\ spans[i].kind = "tool" /\ spans[i].key = opened[i].key
  <2>1. CASE new
    <3>. DEFINE par == ParentOf(q, k)
                e == EndSpans(spans, {q.llm[k]} \ {NoSpan})
                s == Span("llm", t, k, par)
    <3>1. par \in Nat
      BY <1>1, <1>2, <1>3, ParentOfIs
    <3>2. opened = Append(e, s)
      BY <2>1 DEF OpenLlm
    <3>3. e \in Seq(SpanRecord) /\ Len(e) = Len(spans)
          /\ DOMAIN e = DOMAIN spans
          /\ \A i \in DOMAIN spans :
                /\ i \notin {q.llm[k]} \ {NoSpan} => e[i] = spans[i]
                /\ i \in {q.llm[k]} \ {NoSpan} => e[i] = [spans[i] EXCEPT !.ends = @ + 1]
      BY <1>2, EndSpansFacts
    <3>4. s \in SpanRecord /\ s.kind = "llm" /\ s.turn = t /\ s.key = k /\ ~s.answered
      BY <1>1, <3>1 DEF Span, SpanRecord
    <3>5. /\ Append(e, s) \in Seq(SpanRecord) /\ Len(Append(e, s)) = Len(spans) + 1
          /\ DOMAIN Append(e, s) = 1 .. Len(spans) + 1
          /\ \A i \in DOMAIN spans : Append(e, s)[i] = e[i]
          /\ Append(e, s)[Len(spans) + 1] = s
      <4>. HIDE DEF e, s
      <4>. QED
        BY <3>3, <3>4, AppendFacts
    <3>6. l = Len(spans) + 1 /\ heard = [q EXCEPT !.llm[k] = Len(spans) + 1, !.mid[k] = m, !.boundary = @ \ {k}]
      BY <2>1, <3>2, <3>5
    <3>7. /\ heard \in StateRecord /\ OpenTurn(opened, heard, t, how)
          /\ \A i \in DOMAIN spans : opened[i].turn = spans[i].turn /\ (spans[i].turn # t => opened[i] = spans[i])
      <4>. DEFINE sp2 == Append(e, s)
                  q2 == [q EXCEPT !.llm[k] = Len(spans) + 1, !.mid[k] = m, !.boundary = @ \ {k}]
      <4>1. /\ q2 \in StateRecord /\ OpenTurn(sp2, q2, t, how)
            /\ \A i \in DOMAIN spans : sp2[i].turn = spans[i].turn /\ (spans[i].turn # t => sp2[i] = spans[i])
        <5>. HIDE DEF t, q, par, how
        <5>1. spans \in Seq(SpanRecord) /\ q \in StateRecord /\ t \in Nat /\ OpenTurn(spans, q, t, how)
          BY <1>1, <1>2
        <5>2. q2 \in StateRecord /\ OpenTurn(sp2, q2, t, how)
          BY <3>1, <5>1, OpenKeeps
        <5>3. SameElsewhere(spans, sp2, t)
          BY <3>1, <5>1, OpenKeeps
        <5>. QED
          BY <5>2, <5>3 DEF SameElsewhere
      <4>2. opened = sp2 /\ heard = q2
        BY <3>2, <3>6
      <4>. HIDE DEF opened, heard, sp2, q2
      <4>. QED
        BY <4>1, <4>2
    <3>8. heard.tools = q.tools
      BY <1>1, <3>6 DEF StateRecord
    <3>9. \A i \in DOMAIN spans : opened[i].kind = spans[i].kind /\ opened[i].key = spans[i].key
      <4>. HIDE DEF opened, q, s, e
      <4>. TAKE i \in DOMAIN spans
      <4>1. spans[i] \in SpanRecord
        BY <1>2, ElementOfSeq
      <4>2. CASE i \in {q.llm[k]} \ {NoSpan}
        <5>1. opened[i] = [spans[i] EXCEPT !.ends = @ + 1]
          BY <3>2, <3>3, <3>5, <4>2
        <5>. QED
          BY <4>1, <5>1, EndedSpan
      <4>3. CASE i \notin {q.llm[k]} \ {NoSpan}
        BY <3>2, <3>3, <3>5, <4>3
      <4>. QED
        BY <4>2, <4>3
    <3>10. DOMAIN opened = DOMAIN spans \cup {l} /\ opened[l] = s
      <4>. HIDE DEF opened, e, s, l
      <4>. QED
        BY <1>2, <3>2, <3>5, <3>6
    <3>. HIDE DEF opened, s, l, heard, new
    <3>. QED
      BY <3>2, <3>4, <3>5, <3>7, <3>8, <3>9, <3>10 DEF Is
  <2>2. CASE ~new
    <3>1. opened = spans /\ l = q.llm[k]
      BY <2>2
    <3>2. q.llm[k] # NoSpan /\ k \notin q.boundary
      BY <2>2 DEF NewTurn
    <3>3. Is(spans, q.llm[k], "llm", t, k) /\ ~spans[q.llm[k]].answered
      BY <1>3, <3>2 DEF TablesInv, CallsInv
    <3>4. heard = q
      BY <1>1, <2>2, <3>1, <3>2 DEF StateRecord
    <3>. HIDE DEF opened, l, heard, new, q
    <3>. QED
      BY <1>1, <1>2, <3>1, <3>3, <3>4
  <2>. HIDE DEF new
  <2>. QED
    BY <2>1, <2>2
<1>. HIDE DEF opened, heard, new
<1>5. said = opened
  <2>1. opened[l] \in SpanRecord /\ ~opened[l].late
    BY <1>4, ElementOfSeq DEF Is, TurnInv, OpenTurn, CallsInv
  <2>2. [opened[l] EXCEPT !.late = @ \/ opened[l].answered] = opened[l]
    BY <1>4, <2>1 DEF SpanRecord
  <2>. HIDE DEF l
  <2>. QED
    BY <1>4, <2>2 DEF Is
<1>6. messages' \in Nat /\ UNCHANGED <<current, asked, sending, reader, failed, cut>>
  <2>1. messages' = messages + 1 /\ UNCHANGED <<current, asked, sending, reader, failed, cut>>
    BY Zenon DEF AssistantMessage, history
  <2>. QED
    BY <1>2, <2>1
<1>. HIDE DEF said, l, q, t, how
<1>7. CASE u = None
  <2>1. spans' = said /\ state' = [state EXCEPT ![t] = heard]
    BY <1>7, CADistinct DEF AssistantMessage, said, heard, opened, new, l, q, t, Tools
  <2>2. /\ spans' \in Seq(SpanRecord) /\ OpenTurn(spans', heard, t, how) /\ heard \in StateRecord
        /\ \A i \in DOMAIN spans : /\ i \in DOMAIN spans' /\ spans'[i].turn = spans[i].turn
                                   /\ spans[i].turn # t => spans'[i] = spans[i]
        /\ \A i \in DOMAIN spans' : i \notin DOMAIN spans => spans'[i].turn = t
    BY <1>4, <1>5, <2>1
  <2>. QED
    BY <1>1, <1>6, <2>1, <2>2, OneTurn DEF how
<1>8. CASE u \in Tools
  <2>. DEFINE ag == [a \in Agents |-> IF a = u THEN Len(spans') ELSE heard.agents[a]]
              q2 == [heard EXCEPT !.tools[u] = Len(spans'), !.agents = ag]
  <2>1. Fresh(t, u) /\ spans' = Append(said, Span("tool", t, u, l)) /\ state' = [state EXCEPT ![t] = q2]
    <3>1. u # None
      BY <1>8, CADistinct
    <3>. QED
      BY <1>8, <3>1 DEF AssistantMessage, said, heard, opened, new, l, q, t
  <2>2. \A i \in DOMAIN opened : ~Is(opened, i, "tool", t, u)
    BY <1>4, <2>1 DEF Fresh, Is
  <2>3. l \in Nat /\ Len(opened) \in Nat
    BY <1>4, LenProperties DEF Is
  <2>4. Span("tool", t, u, l) \in SpanRecord
    BY <1>1, <1>8, <2>3 DEF Span, SpanRecord
  <2>5. Len(spans') = Len(opened) + 1 /\ DOMAIN spans' = DOMAIN opened \cup {Len(opened) + 1}
        /\ spans'[Len(opened) + 1] = Span("tool", t, u, l)
        /\ \A i \in DOMAIN opened : spans'[i] = opened[i]
    BY <1>4, <1>5, <2>1, <2>3, <2>4, AppendFacts
  <2>6. ag \in [Agents -> Nat]
    BY <1>4, <2>3, <2>5 DEF StateRecord
  <2>7. q2 = [heard EXCEPT !.tools[u] = Len(opened) + 1, !.agents = ag]
    BY <2>5
  <2>. HIDE DEF ag, q2
  <2>8. spans' \in Seq(SpanRecord) /\ q2 \in StateRecord /\ OpenTurn(spans', q2, t, how)
    BY <1>1, <1>4, <1>5, <1>8, <2>1, <2>2, <2>6, <2>7, ToolKeeps
  <2>9. Span("tool", t, u, l).turn = t
    BY DEF Span
  <2>10. /\ \A i \in DOMAIN spans : /\ i \in DOMAIN spans' /\ spans'[i].turn = spans[i].turn
                                    /\ spans[i].turn # t => spans'[i] = spans[i]
         /\ \A i \in DOMAIN spans' : i \notin DOMAIN spans => spans'[i].turn = t
    <3>1. \A i \in DOMAIN spans : i \in DOMAIN opened /\ opened[i].turn = spans[i].turn
                                   /\ (spans[i].turn # t => opened[i] = spans[i])
      BY <1>4
    <3>2. \A i \in DOMAIN opened : i \notin DOMAIN spans => opened[i].turn = t
      BY <1>4
    <3>. QED
      BY <2>5, <2>9, <3>1, <3>2
  <2>. QED
    BY <1>1, <1>6, <2>1, <2>8, <2>10, OneTurn DEF how
<1>. QED
  BY <1>7, <1>8

LEMMA UserStep ==
    ASSUME AgentInv, NEW r \in Readers, NEW k \in Contexts, NEW u \in Tools, UserMessage(r, k, u)
    PROVE  AgentInv'
<1> DEFINE t == reader[r].turn
           q == state[t]
           how == Phase(t)
           A == Askers(t, k, u)
           q2 == [q EXCEPT !.tools[u] = NoSpan, !.boundary = @ \cup {k}]
<1>1. t \in Turns /\ q \in StateRecord /\ OpenTurn(spans, q, t, how) /\ t \in Nat
  BY ReadsOpen DEF UserMessage
<1>2. spans \in Seq(SpanRecord) /\ state \in Seq(StateRecord) /\ messages \in Nat
  BY DEF AgentInv, TypeOK
<1>3. /\ spans' = AnswerSpans(EndSpans(spans, {q.tools[u]} \ {NoSpan}), A)
      /\ state' = [state EXCEPT ![t].tools[u] = NoSpan, ![t].boundary = @ \cup {k}]
  BY DEF UserMessage
<1>4. \A i \in A : Is(spans, i, "llm", t, k)
  <2>. HIDE DEF t, q
  <2>1. CallsInv(spans, q, t)
    BY <1>1 DEF OpenTurn, TurnInv
  <2>. QED
    BY <2>1 DEF A, Askers, CallsInv, Is
<1>5. state' = [state EXCEPT ![t] = q2]
  <2>1. t \in DOMAIN state
    BY <1>1, TurnFacts
  <2>. QED
    BY <1>2, <1>3, <2>1
<1>. HIDE DEF t, q, A, q2, how
<1>6. /\ spans' \in Seq(SpanRecord) /\ DOMAIN spans' = DOMAIN spans /\ q2 \in StateRecord
      /\ OpenTurn(spans', q2, t, how) /\ SameElsewhere(spans, spans', t)
  <2>1. LET e == EndSpans(spans, {q.tools[u]} \ {NoSpan})
            sp2 == AnswerSpans(e, A)
            z == [q EXCEPT !.tools[u] = NoSpan, !.boundary = @ \cup {k}]
        IN  /\ sp2 \in Seq(SpanRecord) /\ DOMAIN sp2 = DOMAIN spans /\ z \in StateRecord
            /\ OpenTurn(sp2, z, t, how) /\ SameElsewhere(spans, sp2, t)
    BY <1>1, <1>2, <1>4, ResultKeeps
  <2>. QED
    BY <1>3, <2>1 DEF q2
<1>7. messages' \in Nat /\ UNCHANGED <<current, asked, sending, reader, failed, cut>>
  <2>1. messages' = messages + 1 /\ UNCHANGED <<current, asked, sending, reader, failed, cut>>
    BY Zenon DEF UserMessage, history
  <2>. QED
    BY <1>2, <2>1
<1>. QED
  BY <1>1, <1>5, <1>6, <1>7, OneTurn DEF SameElsewhere, how

LEMMA TaskStep ==
    ASSUME AgentInv, NEW r \in Readers, NEW k \in TaskKeys, NEW done \in BOOLEAN,
           TaskMessage(r, k, done)
    PROVE  AgentInv'
<1> DEFINE t == reader[r].turn
           q == state[t]
           seen == IF FirstEvent(q, k) THEN Append(spans, Span("task", t, k, TaskParent(q, k))) ELSE spans
           s == IF FirstEvent(q, k) THEN Len(seen) ELSE q.tasks[k]
           q1 == [q EXCEPT !.tasks[k] = s]
           q2 == [q EXCEPT !.tasks[k] = s, !.over = IF done THEN @ \cup {k} ELSE @]
           how == Phase(t)
<1>1. t \in Turns /\ q \in StateRecord /\ OpenTurn(spans, q, t, how) /\ t \in Nat
  BY ReadsOpen DEF TaskMessage
<1>2. spans \in Seq(SpanRecord) /\ Len(spans) \in Nat /\ state \in Seq(StateRecord) /\ messages \in Nat
  BY LenProperties DEF AgentInv, TypeOK
<1>3. TablesInv(spans, q, t)
  BY <1>1 DEF OpenTurn, TurnInv
<1>4. /\ seen \in Seq(SpanRecord) /\ q1 \in StateRecord /\ OpenTurn(seen, q1, t, how)
      /\ \A i \in DOMAIN spans : i \in DOMAIN seen /\ seen[i].turn = spans[i].turn
                                 /\ (spans[i].turn # t => seen[i] = spans[i])
      /\ \A i \in DOMAIN seen : i \notin DOMAIN spans => seen[i].turn = t
      /\ q1.tasks[k] = s /\ s # NoSpan /\ q1.over = q.over
  <2>1. CASE FirstEvent(q, k)
    <3>. DEFINE par == TaskParent(q, k)
                x == Span("task", t, k, par)
    <3>1. par \in Nat
      BY <1>1 DEF TaskParent, StateRecord, Tools, TaskKeys
    <3>2. x \in SpanRecord /\ x.turn = t
      BY <1>1, <3>1 DEF Span, SpanRecord
    <3>3. seen = Append(spans, x)
      BY <2>1
    <3>4. /\ seen \in Seq(SpanRecord) /\ Len(seen) = Len(spans) + 1
          /\ DOMAIN spans = 1 .. Len(spans) /\ DOMAIN seen = 1 .. Len(spans) + 1
          /\ \A i \in DOMAIN spans : seen[i] = spans[i]
          /\ seen[Len(spans) + 1] = x
      <4>. HIDE DEF x, seen
      <4>. QED
        BY <1>2, <3>2, <3>3, AppendFacts
    <3>5. s = Len(spans) + 1
      BY <2>1, <3>4
    <3>6. q.tasks[k] = NoSpan
      BY <2>1 DEF FirstEvent
    <3>7. q1 \in StateRecord /\ OpenTurn(seen, q1, t, how)
      <4>1. q1 = [q EXCEPT !.tasks[k] = Len(spans) + 1]
        BY <3>5
      <4>2. LET z == [q EXCEPT !.tasks[k] = Len(spans) + 1]
            IN  z \in StateRecord /\ OpenTurn(Append(spans, Span("task", t, k, par)), z, t, how)
        <5>. HIDE DEF q, t, how, par
        <5>. QED
          BY <1>1, <1>2, <3>1, <3>6, TaskStarts
      <4>. HIDE DEF q1, seen
      <4>. QED
        BY <3>3, <4>1, <4>2
    <3>8. q1.tasks[k] = s /\ q1.over = q.over
      BY <1>1 DEF StateRecord
    <3>. HIDE DEF seen, s, q1, x, q, t, how, par
    <3>. QED
      BY <1>2, <3>2, <3>4, <3>5, <3>7, <3>8 DEF NoSpan
  <2>2. CASE ~FirstEvent(q, k)
    <3>1. seen = spans /\ s = q.tasks[k] /\ s # NoSpan
      BY <2>2 DEF FirstEvent
    <3>2. q1 = q
      BY <1>1, <3>1 DEF StateRecord
    <3>. HIDE DEF seen, s, q1, q, t, how
    <3>. QED
      BY <1>1, <1>2, <3>1, <3>2
  <2>. QED
    BY <2>1, <2>2
<1>5. messages' \in Nat /\ UNCHANGED <<current, asked, sending, reader, failed, cut>>
  <2>1. messages' = messages + 1 /\ UNCHANGED <<current, asked, sending, reader, failed, cut>>
    BY Zenon DEF TaskMessage, history
  <2>. QED
    BY <1>2, <2>1
<1>6. spans' = (IF LastEvent(q, k, done) THEN EndSpans(seen, {s}) ELSE seen) /\ state' = [state EXCEPT ![t] = q2]
  BY DEF TaskMessage
<1>7. CASE LastEvent(q, k, done)
  <2>1. done /\ k \notin q.over
    BY <1>7 DEF LastEvent
  <2>2. q2 = [q1 EXCEPT !.over = @ \cup {k}]
    BY <1>1, <2>1 DEF StateRecord
  <2>. HIDE DEF seen, s, q1, q2, q, t, how
  <2>3. spans' = EndSpans(seen, {q1.tasks[k]}) /\ q1.tasks[k] # NoSpan /\ k \notin q1.over
    BY <1>4, <1>6, <1>7, <2>1
  <2>4. /\ EndSpans(seen, {q1.tasks[k]}) \in Seq(SpanRecord)
        /\ Len(EndSpans(seen, {q1.tasks[k]})) = Len(seen)
        /\ [q1 EXCEPT !.over = @ \cup {k}] \in StateRecord
        /\ OpenTurn(EndSpans(seen, {q1.tasks[k]}), [q1 EXCEPT !.over = @ \cup {k}], t, how)
        /\ SameElsewhere(seen, EndSpans(seen, {q1.tasks[k]}), t)
    BY <1>1, <1>4, <2>3, TaskEnds
  <2>5. spans' \in Seq(SpanRecord) /\ Len(spans') = Len(seen) /\ q2 \in StateRecord /\ OpenTurn(spans', q2, t, how)
        /\ SameElsewhere(seen, spans', t)
    BY <2>2, <2>3, <2>4
  <2>6. DOMAIN spans' = DOMAIN seen
    BY <1>4, <2>5, LenProperties
  <2>7. /\ \A i \in DOMAIN spans : i \in DOMAIN spans' /\ spans'[i].turn = spans[i].turn
                                   /\ (spans[i].turn # t => spans'[i] = spans[i])
        /\ \A i \in DOMAIN spans' : i \notin DOMAIN spans => spans'[i].turn = t
    BY <1>4, <2>5, <2>6 DEF SameElsewhere
  <2>. QED
    BY <1>1, <1>5, <1>6, <2>5, <2>7, OneTurn DEF how
<1>8. CASE ~LastEvent(q, k, done)
  <2>1. q2 = q1
    <3>1. done => k \in q.over
      BY <1>8 DEF LastEvent
    <3>2. (IF done THEN q.over \cup {k} ELSE q.over) = q.over
      BY <3>1
    <3>3. q2 = [q1 EXCEPT !.over = IF done THEN q.over \cup {k} ELSE q.over]
      BY <1>1 DEF StateRecord
    <3>. HIDE DEF q2, q, s
    <3>. QED
      BY <1>4, <3>2, <3>3 DEF StateRecord
  <2>. HIDE DEF seen, s, q1, q2, q, t, how
  <2>2. spans' = seen
    BY <1>6, <1>8
  <2>3. /\ spans' \in Seq(SpanRecord) /\ q2 \in StateRecord /\ OpenTurn(spans', q2, t, how)
        /\ \A i \in DOMAIN spans : i \in DOMAIN spans' /\ spans'[i].turn = spans[i].turn
                                   /\ (spans[i].turn # t => spans'[i] = spans[i])
        /\ \A i \in DOMAIN spans' : i \notin DOMAIN spans => spans'[i].turn = t
    BY <1>4, <2>1, <2>2
  <2>. QED
    BY <1>1, <1>5, <1>6, <2>3, OneTurn DEF how
<1>. QED
  BY <1>7, <1>8

----------------------------------------------------------------------------
(* The beginning and the end of turns                                       *)

\* What the end of turn t (none when t is 0) makes of the spans and the turns.
LEMMA EndedIs ==
    ASSUME AgentInv, NEW t \in Turns \cup {0}, t # 0 => Live(t), NEW st \in {"ok", "error"}
    PROVE  /\ Ended(t, st) \in Seq(SpanRecord) /\ DOMAIN Ended(t, st) = DOMAIN spans
           /\ Cleared(t) \in Seq(StateRecord) /\ Len(Cleared(t)) = Len(state)
           /\ \A i \in DOMAIN spans : Ended(t, st)[i].turn = spans[i].turn
           /\ \A x \in Turns \ {t} :
                 /\ Cleared(t)[x] = state[x]
                 /\ TurnInv(Ended(t, st), state[x], x, Phase(x))
                 /\ Ended(t, st)[state[x].root] = spans[state[x].root]
           /\ t # 0 => /\ ShutTurn(Ended(t, st), Cleared(t)[t], t)
                       /\ Ended(t, st)[Cleared(t)[t].root].status = st
<1>1. /\ Len(state) \in Nat /\ Turns = DOMAIN state /\ Turns \subseteq Nat /\ 0 \notin Turns
      /\ \A x \in Turns : state[x] \in StateRecord
      /\ \A x \in Turns : TurnInv(spans, state[x], x, Phase(x))
      /\ \A x \in Turns : state[x].root \in DOMAIN spans /\ spans[state[x].root].turn = x
  BY TurnFacts DEF Is
<1>2. spans \in Seq(SpanRecord) /\ state \in Seq(StateRecord)
  BY DEF AgentInv, TypeOK
<1>3. CASE t = 0
  <2>1. Ended(t, st) = spans /\ Cleared(t) = state
    BY <1>3 DEF Ended, Cleared
  <2>. QED
    BY <1>1, <1>2, <1>3, <2>1
<1>4. CASE t # 0
  <2>. DEFINE q == state[t]
              sp2 == [EndSpans(spans, OpenSpans(q) \cup {q.root}) EXCEPT ![q.root].status = st]
  <2>1. Ended(t, st) = sp2 /\ Cleared(t) = [state EXCEPT ![t] = EndedState(q)]
    BY <1>4 DEF Ended, Cleared, EndedState
  <2>2. t \in Turns /\ q \in StateRecord /\ t \in Nat /\ Phase(t) = "live"
    BY <1>1, <1>4 DEF Phase
  <2>3. OpenTurn(spans, q, t, "live")
    BY <1>1, <2>2 DEF OpenTurn
  <2>4. /\ sp2 \in Seq(SpanRecord) /\ EndedState(q) \in StateRecord
        /\ ShutTurn(sp2, EndedState(q), t)
        /\ sp2[q.root].status = st /\ q.root \in DOMAIN spans
        /\ EndedState(q).root = q.root
        /\ SameElsewhere(spans, sp2, t)
    <3>. HIDE DEF q
    <3>1. sp2 \in Seq(SpanRecord) /\ SameElsewhere(spans, sp2, t)
      BY <1>2, <2>2, <2>3, EndsTurn
    <3>2. EndedState(q) \in StateRecord /\ EndedState(q).root = q.root /\ q.root \in DOMAIN spans
      BY <1>2, <2>2, <2>3, EndsTurn
    <3>3. ShutTurn(sp2, EndedState(q), t)
      BY <1>2, <2>2, <2>3, EndsTurn
    <3>4. sp2[q.root].status = st
      <4>1. RootStatus(sp2, q) = st
        BY <1>2, <2>2, <2>3, EndsTurn
      <4>. QED
        BY <4>1 DEF RootStatus
    <3>. QED
      BY <3>1, <3>2, <3>3, <3>4
  <2>5. DOMAIN sp2 = DOMAIN spans
    BY DEF EndSpans
  <2>6. /\ Cleared(t) \in Seq(StateRecord) /\ Len(Cleared(t)) = Len(state)
        /\ Cleared(t)[t] = EndedState(q)
        /\ \A x \in Turns \ {t} : Cleared(t)[x] = state[x]
    <3>1. \A e \in StateRecord : LET z == [state EXCEPT ![t] = e]
            IN  z \in Seq(StateRecord) /\ Len(z) = Len(state) /\ z[t] = e
                /\ \A x \in Turns \ {t} : z[x] = state[x]
      BY <1>1, <1>2, <2>2, ExceptSeq, LenProperties
    <3>. HIDE DEF q
    <3>. QED
      BY <2>1, <2>4, <3>1
  <2>7. \A x \in Turns \ {t} : TurnInv(sp2, state[x], x, Phase(x))
    <3>. HIDE DEF sp2, q
    <3>. TAKE x \in Turns \ {t}
    <3>1. PICK b : b = Phase(x)
      OBVIOUS
    <3>2. TurnInv(spans, state[x], x, b)
      BY <1>1, <3>1
    <3>3. Untouched(spans, sp2, x)
      BY <2>4, <2>5 DEF SameElsewhere, Untouched
    <3>4. TurnInv(sp2, state[x], x, b)
      BY <1>1, <1>2, <2>4, <3>2, <3>3, Frame
    <3>. QED
      BY <3>1, <3>4
  <2>8. \A x \in Turns \ {t} : sp2[state[x].root] = spans[state[x].root]
    <3>. HIDE DEF sp2, q
    <3>. QED
      BY <1>1, <2>4 DEF SameElsewhere
  <2>. HIDE DEF sp2, q
  <2>. QED
    BY <2>1, <2>4, <2>5, <2>6, <2>7, <2>8 DEF SameElsewhere
<1>. QED
  BY <1>3, <1>4

\* An action that ends turn t, if any, and nothing else about the turns.
LEMMA TurnEnds ==
    ASSUME AgentInv, NEW t \in Turns \cup {0}, t # 0 => Live(t), NEW st \in {"ok", "error"},
           spans' = Ended(t, st), state' = Cleared(t),
           t # 0 => ~Live(t)', \A x \in Turns \ {t} : Live(x)' <=> Live(x),
           cut \subseteq cut', cut' \subseteq cut \cup {t}
    PROVE  /\ spans' \in Seq(SpanRecord) /\ state' \in Seq(StateRecord) /\ Turns' = Turns
           /\ \A i \in DOMAIN spans' : spans'[i].turn \in Turns
           /\ TurnsInv'
           /\ \A x \in failed \ cut : spans'[state'[x].root].status = "error"
           /\ \A x \in failed \cup cut : x \in Turns /\ ~Live(x)'
           /\ t # 0 => spans'[state'[t].root].status = st
<1>1. /\ spans' \in Seq(SpanRecord) /\ DOMAIN spans' = DOMAIN spans
      /\ state' \in Seq(StateRecord) /\ Len(state') = Len(state)
      /\ \A i \in DOMAIN spans : spans'[i].turn = spans[i].turn
      /\ \A x \in Turns \ {t} :
            /\ state'[x] = state[x]
            /\ TurnInv(spans', state[x], x, Phase(x))
            /\ spans'[state[x].root] = spans[state[x].root]
      /\ t # 0 => /\ ShutTurn(spans', state'[t], t)
                  /\ spans'[state'[t].root].status = st
  BY EndedIs
<1>2. Turns' = Turns
  BY <1>1 DEF Turns
<1>3. TurnsInv'
  <2>. SUFFICES ASSUME NEW x \in Turns PROVE TurnInv(spans', state'[x], x, Phase(x)')
    BY <1>2 DEF TurnsInv
  <2>1. CASE x = t
    <3>1. ShutTurn(spans', state'[x], x) /\ ~Live(x)'
      BY <1>1, <2>1, TurnFacts
    <3>2. Phase(x)' \in {"over", "cut"}
      BY <3>1 DEF Phase
    <3>. QED
      BY <3>1, <3>2 DEF ShutTurn
  <2>2. CASE x # t
    <3>1. Phase(x)' = Phase(x)
      BY <2>2, PhaseKeeps
    <3>. QED
      BY <1>1, <2>2, <3>1
  <2>. QED
    BY <2>1, <2>2
<1>4. \A i \in DOMAIN spans' : spans'[i].turn \in Turns
  BY <1>1, TurnFacts
<1>5. \A x \in failed \cup cut : x \in Turns \ {t} /\ ~Live(x)'
  <2>. TAKE x \in failed \cup cut
  <2>1. x \in Turns /\ ~Live(x)
    BY DEF AgentInv, ReadersInv, TypeOK
  <2>2. x # t
    BY <2>1, TurnFacts
  <2>. QED
    BY <2>1, <2>2
<1>6. \A x \in failed \ cut : spans'[state'[x].root].status = "error"
  BY <1>1, <1>5 DEF AgentInv, FailureIsShown
<1>. QED
  BY <1>1, <1>2, <1>3, <1>4, <1>5, <1>6

\* The turns of sp and st are in the phases L, and a step keeps them there.
Standing(sp, st, L) == \A x \in 1 .. Len(st) : TurnInv(sp, st[x], x, L[x])
StillIn(L, m) == \A x \in 1 .. m : Phase(x)' = L[x]

\* A step that adds turn n to sp and st.
Begins(sp, st, n, par) ==
    /\ spans' = Append(sp, Span("query", n, Root, par))
    /\ state' = Append(st, NewState(Len(sp) + 1))

\* An action that adds a turn to the turns of sp and st, which are in the phases L.
LEMMA TurnBegins ==
    ASSUME NEW sp \in Seq(SpanRecord), NEW st \in Seq(StateRecord), NEW L, NEW par \in Nat,
           NEW n \in Nat, n = Len(st) + 1, Standing(sp, st, L),
           \A i \in DOMAIN sp : sp[i].turn \in 1 .. Len(st),
           Begins(sp, st, n, par), Live(n)', StillIn(L, Len(st))
    PROVE  /\ spans' \in Seq(SpanRecord) /\ state' \in Seq(StateRecord)
           /\ Turns' = (1 .. Len(st)) \cup {n}
           /\ \A i \in DOMAIN spans' : spans'[i].turn \in Turns'
           /\ TurnsInv'
           /\ \A x \in 1 .. Len(st) : /\ state'[x] = st[x]
                                      /\ spans'[state'[x].root] = sp[st[x].root]
<1>1. Len(st) \in Nat /\ DOMAIN st = 1 .. Len(st) /\ n \in Nat /\ n \notin 1 .. Len(st)
  BY LenProperties
<1>2. \A i \in DOMAIN sp : sp[i].turn # n
  BY <1>1
<1>3. /\ spans' \in Seq(SpanRecord) /\ Len(spans') = Len(sp) + 1 /\ NewState(Len(sp) + 1) \in StateRecord
      /\ OpenTurn(spans', NewState(Len(sp) + 1), n, "live")
      /\ \A i \in DOMAIN sp : spans'[i] = sp[i]
      /\ \A i \in DOMAIN spans' : i \notin DOMAIN sp => spans'[i].turn = n
  <2>1. LET sp2 == Append(sp, Span("query", n, Root, par))
            q2 == NewState(Len(sp) + 1)
        IN  /\ sp2 \in Seq(SpanRecord) /\ Len(sp2) = Len(sp) + 1 /\ q2 \in StateRecord
            /\ OpenTurn(sp2, q2, n, "live")
            /\ \A i \in DOMAIN sp : sp2[i] = sp[i]
            /\ \A i \in DOMAIN sp2 : i \notin DOMAIN sp => sp2[i].turn = n
    BY <1>2, StartsTurn
  <2>. QED
    BY <2>1 DEF Begins
<1>4. /\ state' \in Seq(StateRecord) /\ Len(state') = n /\ state'[n] = NewState(Len(sp) + 1)
      /\ \A x \in 1 .. Len(st) : state'[x] = st[x]
  BY <1>1, <1>3, AppendFacts DEF Begins
<1>5. Turns' = (1 .. Len(st)) \cup {n}
  BY <1>1, <1>4 DEF Turns
<1>6. DOMAIN sp \subseteq DOMAIN spans'
  BY <1>3, LenProperties
<1>7. \A i \in DOMAIN spans' : spans'[i].turn \in Turns'
  BY <1>3, <1>5
<1>8. TurnsInv'
  <2>. SUFFICES ASSUME NEW x \in (1 .. Len(st)) \cup {n} PROVE TurnInv(spans', state'[x], x, Phase(x)')
    BY <1>5 DEF TurnsInv
  <2>1. CASE x = n
    <3>1. Phase(x)' = "live"
      BY <2>1 DEF Phase
    <3>. QED
      BY <1>3, <1>4, <2>1, <3>1 DEF OpenTurn
  <2>2. CASE x # n
    <3>1. PICK b : b = L[x]
      OBVIOUS
    <3>2. TurnInv(sp, st[x], x, b) /\ x \in Nat
      BY <1>1, <2>2, <3>1 DEF Standing
    <3>3. PICK sp2 \in Seq(SpanRecord) : sp2 = spans'
      BY <1>3
    <3>4. Untouched(sp, sp2, x)
      BY <1>3, <1>6, <2>2, <3>3 DEF Untouched
    <3>5. TurnInv(sp2, st[x], x, b)
      BY <3>2, <3>4, Frame
    <3>. QED
      BY <1>4, <2>2, <3>1, <3>3, <3>5 DEF StillIn
  <2>. QED
    BY <2>1, <2>2
<1>9. \A x \in 1 .. Len(st) : spans'[state'[x].root] = sp[st[x].root]
  BY <1>3, <1>4 DEF TurnInv, TablesInv, Is, Standing
<1>. QED
  BY <1>3, <1>4, <1>5, <1>7, <1>8, <1>9

----------------------------------------------------------------------------
(* The actions on turns and streams                                         *)

\* What the invariant says of the streams, of the client and of the history.
LEMMA ReaderFacts ==
    ASSUME AgentInv
    PROVE  /\ \A r \in Readers :
                 /\ reader[r] \in ReaderRecord
                 /\ reader[r].pc = "idle" => reader[r].turn = 0 /\ reader[r].asked = 0 /\ ~reader[r].own
                 /\ reader[r].own =>
                       reader[r].turn \in Turns /\ reader[r].turn \notin cut /\ reader[r].turn # current
                 /\ reader[r].pc = "reading" /\ ~reader[r].own =>
                       /\ reader[r].turn = current \/ (current = 0 /\ reader[r].turn \in cut)
                       /\ sending = 0 /\ asked = 0
                 /\ reader[r].turn # 0 => reader[r].turn # sending /\ reader[r].turn # asked
                 /\ reader[r].asked # 0 => reader[r].turn = reader[r].asked \/ Overtaken(reader[r].asked)
                 /\ ~reader[r].own /\ current # 0 => reader[r].turn <= current
           /\ \A r, s \in Readers :
                 /\ reader[r].own /\ reader[s].own /\ reader[r].turn = reader[s].turn => r = s
                 /\ reader[r].pc = "reading" /\ reader[s].pc = "reading" /\ ~reader[r].own /\ ~reader[s].own
                       => r = s
           /\ \A t \in failed \cup cut : t \in Turns /\ ~Live(t)
           /\ \A t \in failed \ cut : spans[state[t].root].status = "error"
           /\ sending # 0 =>
                 asked = 0 /\ (current = sending \/ (current = 0 /\ sending \in cut /\ Overtaken(sending)))
           /\ asked # 0 => current = asked \/ (current = 0 /\ asked \in cut /\ Overtaken(asked))
           /\ current \in Turns \cup {0} /\ asked \in Turns \cup {0} /\ sending \in Turns \cup {0}
           /\ reader \in [Readers -> ReaderRecord] /\ messages \in Nat
           /\ failed \subseteq Turns /\ cut \subseteq Turns
  BY DEF AgentInv, ReadersInv, ClientInv, TypeOK, FailureIsShown, ResponseIsTraced

\* An action that leaves the spans alone: the phases of the turns stay when nobody starts
\* or stops answering for one.
LEMMA NoTurn ==
    ASSUME AgentInv, UNCHANGED <<spans, state, cut>>, \A x \in Turns : Live(x)' <=> Live(x)
    PROVE  /\ Turns' = Turns /\ TurnsInv'
           /\ spans' \in Seq(SpanRecord) /\ state' \in Seq(StateRecord)
           /\ \A i \in DOMAIN spans' : spans'[i].turn \in Turns
           /\ UNCHANGED failed => FailureIsShown' /\ \A x \in failed \cup cut : ~Live(x)'
<1>1. Turns' = Turns
  BY DEF Turns
<1>2. TurnsInv'
  <2>. SUFFICES ASSUME NEW x \in Turns PROVE TurnInv(spans, state[x], x, Phase(x)')
    BY <1>1 DEF TurnsInv
  <2>1. Phase(x)' = Phase(x)
    BY PhaseKeeps
  <2>. QED
    BY <2>1, TurnFacts
<1>3. UNCHANGED failed => FailureIsShown' /\ \A x \in failed \cup cut : ~Live(x)'
  BY ReaderFacts DEF FailureIsShown
<1>. QED
  BY <1>1, <1>2, <1>3 DEF AgentInv, TypeOK

LEMMA SendReturnsStep ==
    ASSUME AgentInv, SendReturns
    PROVE  AgentInv'
<1>1. /\ sending # 0 /\ sending' = 0 /\ asked' = sending
      /\ UNCHANGED <<spans, state, current, reader, messages, failed, cut>>
  BY DEF SendReturns, history
<1>2. \A x : Live(x)' <=> Live(x)
  BY <1>1 DEF Live, Active
<1>3. /\ Turns' = Turns /\ TurnsInv' /\ FailureIsShown' /\ \A x \in failed \cup cut : ~Live(x)'
      /\ spans' \in Seq(SpanRecord) /\ state' \in Seq(StateRecord)
      /\ \A i \in DOMAIN spans' : spans'[i].turn \in Turns
  BY <1>1, <1>2, NoTurn
<1>4. TypeOK'
  BY <1>1, <1>3, ReaderFacts DEF TypeOK, ReaderRecord
<1>5. ReadersInv'
  BY <1>1, <1>3, ReaderFacts DEF ReadersInv
<1>6. ClientInv' /\ ResponseIsTraced'
  BY <1>1, ReaderFacts, OvertakenKeeps DEF ClientInv, ResponseIsTraced
<1>. QED
  BY <1>3, <1>4, <1>5, <1>6 DEF AgentInv

\* The client's turn ends outside its stream: what is common to a query() that raises and
\* to disconnect().
LEMMA ClientTurnEnds ==
    ASSUME AgentInv, NEW st \in {"ok", "error"}, spans' = Ended(current, st), state' = Cleared(current),
           current' = 0, sending' = 0, asked' = 0, UNCHANGED <<reader, messages, cut>>,
           \A r \in Readers : ~reader[r].own => reader[r].pc # "reading",
           failed' = failed \/ (failed' = failed \cup {sending} /\ sending # 0 /\ st = "error")
    PROVE  AgentInv'
<1>1. PICK c \in Turns \cup {0} : c = current
  BY ReaderFacts
<1>2. c # 0 => Live(c)
  BY <1>1 DEF Live
<1>3. \A x \in Turns : Live(x)' <=> \E r \in Readers : reader[r].own /\ Active(r) /\ reader[r].turn = x
  BY TurnFacts DEF Live, Active
<1>4. \A x \in Turns \ {c} : Live(x)' <=> Live(x)
  BY <1>1, <1>3 DEF Live
<1>5. c # 0 => ~Live(c)'
  BY <1>1, <1>3, ReaderFacts
<1>6. /\ spans' \in Seq(SpanRecord) /\ state' \in Seq(StateRecord) /\ Turns' = Turns
      /\ \A i \in DOMAIN spans' : spans'[i].turn \in Turns
      /\ TurnsInv'
      /\ \A x \in failed \ cut : spans'[state'[x].root].status = "error"
      /\ \A x \in failed \cup cut : x \in Turns /\ ~Live(x)'
      /\ c # 0 => spans'[state'[c].root].status = st
  <2>1. spans' = Ended(c, st) /\ state' = Cleared(c) /\ cut \subseteq cut' /\ cut' \subseteq cut \cup {c}
    BY <1>1
  <2>. QED
    BY <1>2, <1>4, <1>5, <2>1, TurnEnds
<1>7. failed' # failed => sending \in Turns /\ (c = sending \/ sending \in cut)
  BY <1>1, ReaderFacts
<1>8. TypeOK'
  BY <1>6, <1>7, ReaderFacts DEF TypeOK, ReaderRecord
<1>9. \A x \in failed' \cup cut' : ~Live(x)'
  BY <1>5, <1>6, <1>7, TurnFacts
<1>10. ReadersInv'
  <2>1. \A r \in Readers :
           /\ reader[r].pc = "idle" => reader[r].turn = 0 /\ reader[r].asked = 0 /\ ~reader[r].own
           /\ reader[r].own => reader[r].turn \in Turns \ (cut \cup {0})
           /\ reader[r].pc = "reading" => reader[r].own
    BY ReaderFacts, TurnFacts
  <2>. QED
    BY <1>6, <1>9, <2>1, ReaderFacts DEF ReadersInv
<1>11. ClientInv' /\ ResponseIsTraced'
  BY ReaderFacts, OvertakenKeeps DEF ClientInv, ResponseIsTraced
<1>12. FailureIsShown'
  BY <1>1, <1>6, <1>7, TurnFacts DEF FailureIsShown
<1>. QED
  BY <1>6, <1>8, <1>10, <1>11, <1>12 DEF AgentInv

LEMMA SendRaisesStep ==
    ASSUME AgentInv, SendRaises
    PROVE  AgentInv'
  BY ClientTurnEnds, ReaderFacts DEF SendRaises

LEMMA DisconnectStep ==
    ASSUME AgentInv, Disconnect
    PROVE  AgentInv'
  BY ClientTurnEnds, ReaderFacts DEF Disconnect, MayCall, history

\* Leaving the loop only parks the generator.
LEMMA BreaksStep ==
    ASSUME AgentInv, NEW r \in Readers, Breaks(r)
    PROVE  AgentInv'
<1>1. /\ reader[r].pc = "reading" /\ reader' = [reader EXCEPT ![r].pc = "dropped"]
      /\ UNCHANGED <<spans, state, current, asked, sending, messages, failed, cut>>
  BY DEF Breaks, history
<1>2. /\ reader' \in [Readers -> ReaderRecord] /\ reader'[r].pc = "dropped"
      /\ \A x \in Readers : /\ reader'[x].own = reader[x].own /\ reader'[x].turn = reader[x].turn
                            /\ reader'[x].asked = reader[x].asked
                            /\ x # r => reader'[x].pc = reader[x].pc
  BY <1>1, ReaderFacts DEF ReaderRecord
<1>3. \A x : Live(x)' <=> Live(x)
  <2>1. \A y \in Readers : Active(y)' <=> Active(y)
    BY <1>1, <1>2 DEF Active
  <2>. QED
    BY <1>1, <1>2, <2>1 DEF Live
<1>4. /\ Turns' = Turns /\ TurnsInv' /\ FailureIsShown' /\ \A x \in failed \cup cut : ~Live(x)'
      /\ spans' \in Seq(SpanRecord) /\ state' \in Seq(StateRecord)
      /\ \A i \in DOMAIN spans' : spans'[i].turn \in Turns
  BY <1>1, <1>3, NoTurn
<1>5. TypeOK'
  BY <1>1, <1>2, <1>4, ReaderFacts DEF TypeOK, ReaderRecord
<1>6. ReadersInv'
  <2>1. \A x \in Readers : /\ reader'[x].pc = "reading" => reader[x].pc = "reading"
                           /\ reader'[x].pc = "idle" => reader[x].pc = "idle"
    BY <1>2
  <2>. QED
    BY <1>1, <1>2, <1>4, <2>1, ReaderFacts DEF ReadersInv
<1>7. \A x : Overtaken(x) => Overtaken(x)'
  BY <1>1, OvertakenKeeps
<1>8. ClientInv' /\ ResponseIsTraced'
  BY <1>1, <1>2, <1>7, ReaderFacts DEF ClientInv, ResponseIsTraced
<1>. QED
  BY <1>4, <1>5, <1>6, <1>8 DEF AgentInv

\* A generator that ends, raises or is closed ends its own turn, or the one the client has.
LEMMA FinalizesStep ==
    ASSUME AgentInv, NEW r \in Readers, Active(r), NEW pc \in {"done", "closed"},
           reader[r].pc = "dropped" => pc = "closed",
           NEW st \in {"ok", "error"}, Finalizes(r, pc, st),
           \/ failed' = failed
           \/ /\ reader[r].pc = "reading" /\ st = "error"
              /\ failed' = failed \cup ({reader[r].turn} \ {0})
    PROVE  AgentInv'
<1>0. PICK g \in Turns \cup {0}, own \in BOOLEAN : g = reader[r].turn /\ own = reader[r].own
  BY ReaderFacts DEF ReaderRecord
<1>1. PICK t \in Turns \cup {0} : t = IF own THEN g ELSE IF g = 0 THEN 0 ELSE current
  BY ReaderFacts
<1>2. /\ spans' = Ended(t, st) /\ state' = Cleared(t)
      /\ current' = IF own \/ g = 0 THEN current ELSE 0
      /\ reader' = [reader EXCEPT ![r].pc = pc]
      /\ cut' = cut \cup {c \in {t} \ {0} :
             c # g \/ \E s \in Readers \ {r} : reader[s].pc = "reading" /\ reader[s].turn = c}
      /\ UNCHANGED <<asked, sending, messages>>
  BY <1>0, <1>1 DEF Finalizes
<1>3. /\ reader' \in [Readers -> ReaderRecord] /\ reader'[r].pc = pc
      /\ \A x \in Readers : /\ reader'[x].own = reader[x].own /\ reader'[x].turn = reader[x].turn
                            /\ reader'[x].asked = reader[x].asked
                            /\ x # r => reader'[x].pc = reader[x].pc
  BY <1>2, ReaderFacts DEF ReaderRecord
<1>4. own => g # 0 /\ g \notin cut /\ g # current
  BY <1>0, ReaderFacts, TurnFacts
<1>5. t # 0 => Live(t)
  BY <1>0, <1>1 DEF Live
<1>6. \A x \in Readers : Active(x)' <=> Active(x) /\ x # r
  BY <1>3 DEF Active
<1>7. \A x \in Turns \ {t} : Live(x)' <=> Live(x)
  <2>. TAKE x \in Turns \ {t}
  <2>1. current' = x <=> current = x
    BY <1>1, <1>2, TurnFacts
  <2>2. \A y \in Readers : (reader[y].own /\ Active(y) /\ reader[y].turn = x)
                             <=> (reader'[y].own /\ Active(y)' /\ reader'[y].turn = x)
    BY <1>0, <1>1, <1>3, <1>6
  <2>. QED
    BY <2>1, <2>2 DEF Live
<1>8. t # 0 => ~Live(t)'
  <2>. SUFFICES ASSUME t # 0, Live(t)' PROVE FALSE
    OBVIOUS
  <2>1. current' # t
    BY <1>1, <1>2, <1>4
  <2>2. PICK y \in Readers : reader'[y].own /\ Active(y)' /\ reader'[y].turn = t
    BY <2>1 DEF Live
  <2>3. y # r /\ reader[y].own /\ reader[y].turn = t
    BY <1>3, <1>6, <2>2
  <2>. QED
    BY <1>0, <1>1, <2>3, ReaderFacts
<1>9. /\ cut \subseteq cut' /\ cut' \subseteq cut \cup {t}
      /\ own => cut' = cut
      /\ ~own /\ t # 0 /\ t # g => t \in cut'
      /\ \A x \in Readers \ {r} : ~own /\ t # 0 /\ reader[x].pc = "reading" /\ reader[x].turn = t => t \in cut'
  <2>1. own => \A s \in Readers \ {r} : reader[s].pc = "reading" => reader[s].turn # g
    BY <1>0, <1>4, ReaderFacts
  <2>. QED
    BY <1>1, <1>2, <2>1
<1>10. /\ spans' \in Seq(SpanRecord) /\ state' \in Seq(StateRecord) /\ Turns' = Turns
       /\ \A i \in DOMAIN spans' : spans'[i].turn \in Turns
       /\ TurnsInv'
       /\ \A x \in failed \ cut : spans'[state'[x].root].status = "error"
       /\ \A x \in failed \cup cut : x \in Turns /\ ~Live(x)'
       /\ t # 0 => spans'[state'[t].root].status = st
  BY <1>2, <1>5, <1>7, <1>8, <1>9, TurnEnds
<1>11. \A x \in failed' \ failed : x = g /\ st = "error" /\ x # 0 /\ (x = t \/ x \in cut)
  BY <1>0, <1>1, ReaderFacts
<1>11a. \A x : Overtaken(x) => Overtaken(x)'
  BY <1>2, OvertakenKeeps DEF Active
<1>12. TypeOK'
  <2>1. current' \in Turns \cup {0} /\ failed' \subseteq Turns /\ cut' \subseteq Turns
    BY <1>2, <1>9, <1>0, <1>11, ReaderFacts
  <2>. QED
    BY <1>2, <1>3, <1>10, <2>1, ReaderFacts DEF TypeOK, ReaderRecord
<1>13. \A x \in failed' \cup cut' : ~Live(x)'
  <2>. TAKE x \in failed' \cup cut'
  <2>1. x \in failed \cup cut \/ (x = t /\ x # 0)
    BY <1>2, <1>11
  <2>. QED
    BY <1>8, <1>10, <2>1
<1>14. ReadersInv'
  <2>1. \A x \in Readers :
           /\ reader'[x].pc = "idle" => reader'[x].turn = 0 /\ reader'[x].asked = 0 /\ ~reader'[x].own
           /\ reader'[x].turn # 0 => reader'[x].turn \notin {sending, asked}
           /\ ~reader'[x].own /\ current' # 0 => reader'[x].turn <= current'
    BY <1>2, <1>3, ReaderFacts
  <2>2. \A x \in Readers : reader'[x].own => reader'[x].turn \in Turns \ (cut' \cup {current'})
    <3>. SUFFICES ASSUME NEW x \in Readers, reader[x].own
                  PROVE  reader[x].turn \in Turns \ (cut' \cup {current'})
      BY <1>3
    <3>1. reader[x].turn \in Turns \ (cut \cup {current, 0})
      BY ReaderFacts, TurnFacts
    <3>2. current' \in {current, 0}
      BY <1>2
    <3>3. cut' = cut \/ cut' \subseteq cut \cup {current, 0}
      BY <1>1, <1>9
    <3>. QED
      BY <3>1, <3>2, <3>3
  <2>3. \A x \in Readers : reader'[x].pc = "reading" /\ ~reader'[x].own =>
           /\ reader'[x].turn = current' \/ (current' = 0 /\ reader'[x].turn \in cut')
           /\ sending = 0 /\ asked = 0
    <3>. SUFFICES ASSUME NEW x \in Readers \ {r}, reader[x].pc = "reading", ~reader[x].own
                  PROVE  /\ reader[x].turn = current' \/ (current' = 0 /\ reader[x].turn \in cut')
                         /\ sending = 0 /\ asked = 0
      BY <1>3
    <3>1. /\ reader[x].turn = current \/ (current = 0 /\ reader[x].turn \in cut)
          /\ sending = 0 /\ asked = 0
      BY ReaderFacts
    <3>2. CASE own \/ g = 0
      BY <1>2, <1>9, <3>1, <3>2
    <3>3. CASE ~own /\ g # 0
      BY <1>1, <1>2, <1>9, <3>1, <3>3
    <3>. QED
      BY <3>2, <3>3
  <2>4. \A x, y \in Readers :
           /\ reader'[x].own /\ reader'[y].own /\ reader'[x].turn = reader'[y].turn => x = y
           /\ reader'[x].pc = "reading" /\ reader'[y].pc = "reading" /\ ~reader'[x].own /\ ~reader'[y].own
                 => x = y
    BY <1>3, ReaderFacts
  <2>. QED
    BY <1>2, <1>10, <1>13, <2>1, <2>2, <2>3, <2>4 DEF ReadersInv
<1>15. ClientInv'
  <2>. SUFFICES ASSUME NEW x \in {sending, asked} \ {0}
                PROVE  current' = x \/ (current' = 0 /\ x \in cut' /\ Overtaken(x)')
    BY <1>2, ReaderFacts DEF ClientInv
  <2>1. /\ current = x \/ (current = 0 /\ x \in cut /\ Overtaken(x))
        /\ g # x /\ x \in Nat
    BY <1>0, ReaderFacts, TurnFacts
  <2>2. CASE own \/ g = 0 \/ current = 0
    BY <1>1, <1>2, <1>9, <1>11a, <2>1, <2>2
  <2>3. CASE ~own /\ g # 0 /\ current # 0
    <3>1. t = x /\ current' = 0 /\ x \in cut'
      BY <1>1, <1>2, <1>9, <2>1, <2>3
    <3>2. g \in 1 .. (x - 1)
      BY <1>0, <2>1, <2>3, ReaderFacts, TurnFacts
    <3>3. pc = "closed"
      BY <1>0, <2>3, ReaderFacts DEF Active, Finalizes
    <3>4. Overtaken(x)'
      BY <1>0, <1>3, <2>3, <3>2, <3>3 DEF Overtaken
    <3>. QED
      BY <3>1, <3>4
  <2>. QED
    BY <2>2, <2>3
<1>16. ResponseIsTraced'
  BY <1>3, <1>11a, ReaderFacts DEF ResponseIsTraced
<1>17. FailureIsShown'
  BY <1>9, <1>10, <1>11 DEF FailureIsShown
<1>. QED
  BY <1>10, <1>12, <1>14, <1>15, <1>16, <1>17 DEF AgentInv

\* The first read of a client's stream: it reads the turn the client has.
LEMMA ClientReadsStep ==
    ASSUME AgentInv, NEW r \in Readers, ClientReads(r)
    PROVE  AgentInv'
<1>1. /\ reader[r].pc = "idle" /\ sending = 0 /\ asked' = 0
      /\ reader' = [reader EXCEPT ![r] = [pc |-> "reading", turn |-> current, own |-> FALSE, asked |-> asked]]
      /\ UNCHANGED <<spans, state, current, sending, messages, failed, cut>>
      /\ \A x \in Readers : ~reader[x].own => reader[x].pc # "reading"
  BY DEF ClientReads, MayCall, history
<1>2. /\ reader' \in [Readers -> ReaderRecord]
      /\ reader'[r].pc = "reading" /\ reader'[r].turn = current /\ reader'[r].asked = asked /\ ~reader'[r].own
      /\ \A x \in Readers \ {r} : reader'[x] = reader[x]
  BY <1>1, ReaderFacts DEF ReaderRecord
<1>3. \A x : Live(x)' <=> Live(x)
  <2>1. \A y \in Readers : (reader[y].own /\ Active(y)) <=> (reader'[y].own /\ Active(y)')
    BY <1>1, <1>2, ReaderFacts DEF Active
  <2>2. \A y \in Readers : reader[y].own => reader'[y].turn = reader[y].turn
    BY <1>1, <1>2, ReaderFacts
  <2>. QED
    BY <1>1, <2>1, <2>2 DEF Live
<1>4. /\ Turns' = Turns /\ TurnsInv' /\ FailureIsShown' /\ \A x \in failed \cup cut : ~Live(x)'
      /\ spans' \in Seq(SpanRecord) /\ state' \in Seq(StateRecord)
      /\ \A i \in DOMAIN spans' : spans'[i].turn \in Turns
  BY <1>1, <1>3, NoTurn
<1>5. TypeOK'
  BY <1>1, <1>2, <1>4, ReaderFacts DEF TypeOK, ReaderRecord
<1>6. ReadersInv'
  <2>1. \A x \in Readers :
           /\ reader'[x].pc = "idle" => reader'[x].turn = 0 /\ reader'[x].asked = 0 /\ ~reader'[x].own
           /\ reader'[x].own => reader'[x].turn \in Turns \ (cut \cup {current})
           /\ reader'[x].pc = "reading" /\ ~reader'[x].own => reader'[x].turn = current /\ x = r
           /\ reader'[x].turn # 0 => reader'[x].turn \notin {0}
           /\ ~reader'[x].own /\ current # 0 => reader'[x].turn <= current
    BY <1>1, <1>2, ReaderFacts, TurnFacts
  <2>2. \A x, y \in Readers : reader'[x].own /\ reader'[y].own /\ reader'[x].turn = reader'[y].turn => x = y
    BY <1>2, ReaderFacts
  <2>. QED
    BY <1>1, <1>4, <2>1, <2>2 DEF ReadersInv
<1>7. ClientInv'
  BY <1>1, ReaderFacts DEF ClientInv
<1>8. ResponseIsTraced'
  <2>1. \A x : Overtaken(x) => Overtaken(x)'
    BY <1>1, <1>2, OvertakenKeeps
  <2>. QED
    BY <1>1, <1>2, <2>1, ReaderFacts DEF ResponseIsTraced
<1>. QED
  BY <1>4, <1>5, <1>6, <1>7, <1>8 DEF AgentInv

\* The context a turn starts in names a query span, if any span.
LEMMA ParentsAre ==
    ASSUME AgentInv, NEW p \in Parents
    PROVE  p \in Nat /\ (p # NoSpan => p \in DOMAIN spans /\ spans[p].kind = "query")
<1>1. p = NoSpan \/ \E x \in Turns : p = state[x].root
  BY ReaderFacts DEF Parents, ReaderRecord
<1>2. DOMAIN spans \subseteq Nat /\ \A x \in Turns : state[x].root \in DOMAIN spans /\ spans[state[x].root].kind = "query"
  BY TurnFacts, LenProperties DEF Is, AgentInv, TypeOK
<1>. QED
  BY <1>1, <1>2 DEF NoSpan

\* A one-shot query starts a turn of its own and leaves the client alone.
LEMMA OneShotReadsStep ==
    ASSUME AgentInv, NEW r \in Readers, OneShotReads(r)
    PROVE  AgentInv'
<1>0. PICK n \in Nat : n = Len(state) + 1
  BY TurnFacts
<1>1. /\ reader[r].pc = "idle" /\ UNCHANGED <<current, asked, sending, messages, failed, cut>>
      /\ reader' = [reader EXCEPT ![r] = [pc |-> "reading", turn |-> n, own |-> TRUE, asked |-> n]]
      /\ state' = Append(state, NewState(Len(spans) + 1))
  BY <1>0 DEF OneShotReads, history
<1>par. PICK par \in Parents : spans' = Append(spans, Span("query", n, Root, par))
  BY <1>0 DEF OneShotReads
<1>2. /\ Turns = 1 .. Len(state) /\ n \notin Turns /\ n \in Nat /\ n # 0
      /\ state \in Seq(StateRecord) /\ spans \in Seq(SpanRecord)
  BY <1>0, TurnFacts DEF Turns, AgentInv, TypeOK
<1>3. /\ reader'[r] = [pc |-> "reading", turn |-> n, own |-> TRUE, asked |-> n]
      /\ \A x \in Readers \ {r} : reader'[x] = reader[x]
  BY <1>1, ReaderFacts
<1>4. \A x \in Readers : Active(x)' <=> Active(x) \/ x = r
  BY <1>3 DEF Active
<1>5. \A x \in Turns : Live(x)' <=> Live(x)
  <2>. TAKE x \in Turns
  <2>1. \A y \in Readers : (reader[y].own /\ Active(y) /\ reader[y].turn = x)
                             <=> (reader'[y].own /\ Active(y)' /\ reader'[y].turn = x)
    BY <1>1, <1>2, <1>3, <1>4, ReaderFacts
  <2>. QED
    BY <1>1, <2>1 DEF Live
<1>6. Live(n)'
  BY <1>3, <1>4 DEF Live
<1>7. /\ spans' \in Seq(SpanRecord) /\ state' \in Seq(StateRecord)
      /\ Turns' = Turns \cup {n}
      /\ \A i \in DOMAIN spans' : spans'[i].turn \in Turns'
      /\ TurnsInv'
      /\ \A x \in Turns : spans'[state'[x].root] = spans[state[x].root]
  <2>0. PICK sp, st : sp = spans /\ st = state
    OBVIOUS
  <2>1. PICK L : L = [x \in Turns |-> Phase(x)]
    OBVIOUS
  <2>2. \A x \in 1 .. Len(st) : TurnInv(sp, st[x], x, L[x])
    BY <1>2, <2>0, <2>1, TurnFacts
  <2>3. \A x \in 1 .. Len(st) : Phase(x)' = L[x]
    <3>. TAKE x \in 1 .. Len(st)
    <3>1. x \in Turns
      BY <1>2, <2>0
    <3>2. Phase(x)' = Phase(x)
      BY <1>1, <1>5, <3>1, PhaseKeeps
    <3>. QED
      BY <2>1, <3>1, <3>2
  <2>4. \A i \in DOMAIN sp : sp[i].turn \in 1 .. Len(st)
    BY <1>2, <2>0, TurnFacts
  <2>5. /\ sp \in Seq(SpanRecord) /\ st \in Seq(StateRecord) /\ n = Len(st) + 1
        /\ spans' = Append(sp, Span("query", n, Root, par))
        /\ state' = Append(st, NewState(Len(sp) + 1))
        /\ par \in Nat
    BY <1>0, <1>1, <1>par, <1>2, <2>0, ParentsAre
  <2>6. Standing(sp, st, L) /\ StillIn(L, Len(st)) /\ Begins(sp, st, n, par)
    BY <2>2, <2>3, <2>5 DEF Standing, StillIn, Begins
  <2>7. /\ spans' \in Seq(SpanRecord) /\ state' \in Seq(StateRecord)
        /\ Turns' = (1 .. Len(st)) \cup {n}
        /\ \A i \in DOMAIN spans' : spans'[i].turn \in Turns'
        /\ TurnsInv'
        /\ \A x \in 1 .. Len(st) : /\ state'[x] = st[x]
                                   /\ spans'[state'[x].root] = sp[st[x].root]
    BY <1>6, <2>4, <2>5, <2>6, TurnBegins
  <2>. QED
    BY <1>2, <2>0, <2>7
<1>8. reader' \in [Readers -> [pc : {"idle", "reading", "dropped", "done", "closed"},
                               turn : Turns' \cup {0}, own : BOOLEAN, asked : Turns' \cup {0}]]
  BY <1>1, <1>7, ReaderFacts DEF ReaderRecord
<1>9. TypeOK'
  BY <1>1, <1>7, <1>8, ReaderFacts DEF TypeOK, ReaderRecord
<1>10. \A x \in failed \cup cut : ~Live(x)'
  BY <1>5, ReaderFacts
<1>11. ReadersInv'
  <2>1. \A x \in Readers : x # r => reader[x].turn # n
    BY <1>2, ReaderFacts DEF ReaderRecord
  <2>2. n \notin cut /\ n # current /\ n # sending /\ n # asked
    BY <1>2, ReaderFacts
  <2>3. \A x \in Readers :
           /\ reader'[x].pc = "idle" => reader'[x].turn = 0 /\ reader'[x].asked = 0 /\ ~reader'[x].own
           /\ reader'[x].own => reader'[x].turn \in Turns' \ (cut \cup {current})
           /\ reader'[x].pc = "reading" /\ ~reader'[x].own =>
                 /\ reader'[x].turn = current \/ (current = 0 /\ reader'[x].turn \in cut)
                 /\ sending = 0 /\ asked = 0
           /\ reader'[x].turn # 0 => reader'[x].turn \notin {sending, asked}
    <3>. TAKE x \in Readers
    <3>1. CASE x = r
      BY <1>2, <1>3, <1>7, <2>2, <3>1
    <3>2. CASE x # r
      BY <1>3, <1>7, <3>2, ReaderFacts
    <3>. QED
      BY <3>1, <3>2
  <2>4. \A x \in Readers : ~reader'[x].own /\ current # 0 => reader'[x].turn <= current
    BY <1>3, ReaderFacts
  <2>5. \A x, y \in Readers :
           /\ reader'[x].own /\ reader'[y].own /\ reader'[x].turn = reader'[y].turn => x = y
           /\ reader'[x].pc = "reading" /\ reader'[y].pc = "reading" /\ ~reader'[x].own /\ ~reader'[y].own
                 => x = y
    BY <1>3, <2>1, ReaderFacts
  <2>. QED
    BY <1>1, <1>10, <2>3, <2>4, <2>5 DEF ReadersInv
<1>over. \A x : Overtaken(x) => Overtaken(x)'
  BY <1>1, <1>3, OvertakenKeeps
<1>12. ClientInv'
  BY <1>1, <1>over, ReaderFacts DEF ClientInv
<1>13. ResponseIsTraced'
  BY <1>1, <1>3, <1>over, ReaderFacts DEF ResponseIsTraced
<1>14. FailureIsShown'
  BY <1>1, <1>7, ReaderFacts DEF FailureIsShown
<1>. QED
  BY <1>7, <1>9, <1>11, <1>12, <1>13, <1>14 DEF AgentInv

\* A query on the client ends the turn it had and starts the next.
LEMMA ClientQueryStep ==
    ASSUME AgentInv, ClientQuery
    PROVE  AgentInv'
<1>1. PICK c \in Turns \cup {0} : c = current
  BY ReaderFacts
<1>0. PICK n \in Nat : n = Len(state) + 1
  BY TurnFacts
<1>2. /\ Turns = 1 .. Len(state) /\ n \notin Turns /\ n \in Nat /\ n # 0
      /\ state \in Seq(StateRecord) /\ spans \in Seq(SpanRecord)
  BY <1>0, TurnFacts DEF Turns, AgentInv, TypeOK
<1>3. PICK sp, st : sp = Ended(c, "ok") /\ st = Cleared(c)
  OBVIOUS
<1>4. c # 0 => Live(c)
  BY <1>1 DEF Live
<1>5. /\ sp \in Seq(SpanRecord) /\ DOMAIN sp = DOMAIN spans
      /\ st \in Seq(StateRecord) /\ Len(st) = Len(state)
      /\ \A i \in DOMAIN spans : sp[i].turn = spans[i].turn
      /\ \A x \in Turns \ {c} :
            /\ st[x] = state[x]
            /\ TurnInv(sp, state[x], x, Phase(x))
            /\ sp[state[x].root] = spans[state[x].root]
      /\ c # 0 => ShutTurn(sp, st[c], c)
  BY <1>3, <1>4, EndedIs
<1>6. /\ sending = 0 /\ sending' = n /\ current' = n /\ asked' = 0
      /\ UNCHANGED <<reader, messages, failed, cut>>
      /\ state' = Append(st, NewState(Len(sp) + 1))
      /\ \A x \in Readers : ~reader[x].own => reader[x].pc # "reading"
  BY <1>0, <1>1, <1>3 DEF ClientQuery, MayCall, history
<1>par. PICK par \in Parents : spans' = Append(sp, Span("query", n, Root, par))
  BY <1>0, <1>1, <1>3 DEF ClientQuery
<1>7. \A x \in Readers : Active(x)' <=> Active(x)
  BY <1>6 DEF Active
<1>8. \A x \in Turns : Live(x)' <=> \E y \in Readers : reader[y].own /\ Active(y) /\ reader[y].turn = x
  BY <1>2, <1>6, <1>7 DEF Live
<1>9. \A x \in Turns \ {c} : Live(x)' <=> Live(x)
  BY <1>1, <1>8 DEF Live
<1>10. c # 0 => ~Live(c)' /\ c \notin cut
  <2>1. c # 0 => c \notin cut
    BY <1>4, ReaderFacts
  <2>2. c # 0 => ~Live(c)'
    BY <1>1, <1>8, ReaderFacts
  <2>. QED
    BY <2>1, <2>2
<1>11. Live(n)'
  BY <1>6 DEF Live
<1>12. /\ spans' \in Seq(SpanRecord) /\ state' \in Seq(StateRecord)
       /\ Turns' = Turns \cup {n}
       /\ \A i \in DOMAIN spans' : spans'[i].turn \in Turns'
       /\ TurnsInv'
       /\ \A x \in Turns : spans'[state'[x].root] = sp[st[x].root]
  <2>1. PICK L : L = [x \in Turns |-> IF x = c THEN "over" ELSE Phase(x)]
    OBVIOUS
  <2>2. \A x \in Turns : TurnInv(sp, st[x], x, L[x])
    <3>. TAKE x \in Turns
    <3>1. CASE x = c
      <4>1. L[x] = "over" /\ x # 0
        BY <2>1, <3>1, TurnFacts
      <4>2. TurnInv(sp, st[x], x, "over")
        BY <1>5, <3>1, <4>1 DEF ShutTurn
      <4>. QED
        BY <4>1, <4>2
    <3>2. CASE x # c
      <4>1. L[x] = Phase(x)
        BY <2>1, <3>2
      <4>. QED
        BY <1>5, <3>2, <4>1
    <3>. QED
      BY <3>1, <3>2
  <2>3. \A x \in Turns : Phase(x)' = L[x]
    <3>. TAKE x \in Turns
    <3>1. CASE x = c
      <4>1. Phase(x)' = "over"
        BY <1>6, <1>10, <3>1, TurnFacts DEF Phase
      <4>. QED
        BY <2>1, <3>1, <4>1
    <3>2. CASE x # c
      <4>1. Phase(x)' = Phase(x)
        BY <1>6, <1>9, <3>2, PhaseKeeps
      <4>. QED
        BY <2>1, <3>2, <4>1
    <3>. QED
      BY <3>1, <3>2
  <2>4. \A i \in DOMAIN sp : sp[i].turn \in 1 .. Len(st)
    BY <1>2, <1>5, TurnFacts
  <2>5. Turns = 1 .. Len(st) /\ n = Len(st) + 1 /\ par \in Nat
    BY <1>0, <1>2, <1>5, ParentsAre
  <2>6. Standing(sp, st, L) /\ StillIn(L, Len(st))
    BY <2>2, <2>3, <2>5 DEF Standing, StillIn
  <2>7. Begins(sp, st, n, par)
    BY <1>6, <1>par DEF Begins
  <2>8. /\ spans' \in Seq(SpanRecord) /\ state' \in Seq(StateRecord)
        /\ Turns' = (1 .. Len(st)) \cup {n}
        /\ \A i \in DOMAIN spans' : spans'[i].turn \in Turns'
        /\ TurnsInv'
        /\ \A x \in 1 .. Len(st) : /\ state'[x] = st[x]
                                   /\ spans'[state'[x].root] = sp[st[x].root]
    BY <1>5, <1>11, <2>4, <2>5, <2>6, <2>7, TurnBegins
  <2>. QED
    BY <2>5, <2>8
<1>13. TypeOK'
  <2>1. reader' \in [Readers -> [pc : {"idle", "reading", "dropped", "done", "closed"},
                                 turn : Turns' \cup {0}, own : BOOLEAN, asked : Turns' \cup {0}]]
    BY <1>6, <1>12, ReaderFacts DEF ReaderRecord
  <2>. QED
    BY <1>6, <1>12, <2>1, ReaderFacts DEF TypeOK, ReaderRecord
<1>14. \A x \in failed \cup cut : ~Live(x)'
  BY <1>9, <1>10, ReaderFacts, TurnFacts
<1>15. ReadersInv'
  <2>1. \A x \in Readers :
           /\ reader[x].pc = "idle" => reader[x].turn = 0 /\ reader[x].asked = 0 /\ ~reader[x].own
           /\ reader[x].own => reader[x].turn \in Turns' \ (cut \cup {n})
           /\ reader[x].pc = "reading" => reader[x].own
           /\ reader[x].turn # n /\ reader[x].turn <= n
    BY <1>0, <1>2, <1>6, <1>12, ReaderFacts DEF ReaderRecord
  <2>. QED
    BY <1>6, <1>14, <2>1, ReaderFacts DEF ReadersInv
<1>16. ClientInv' /\ ResponseIsTraced'
  BY <1>2, <1>6, ReaderFacts, OvertakenKeeps DEF ClientInv, ResponseIsTraced
<1>17. FailureIsShown'
  <2>. SUFFICES ASSUME NEW x \in failed \ cut
                PROVE  spans'[state'[x].root].status = "error"
    BY <1>6 DEF FailureIsShown
  <2>1. x \in Turns \ {c} /\ spans[state[x].root].status = "error"
    BY <1>4, ReaderFacts, TurnFacts
  <2>2. spans'[state'[x].root] = sp[st[x].root] /\ st[x] = state[x] /\ sp[state[x].root] = spans[state[x].root]
    BY <1>5, <1>12, <2>1
  <2>. QED
    BY <2>1, <2>2
<1>. QED
  BY <1>12, <1>13, <1>15, <1>16, <1>17 DEF AgentInv

----------------------------------------------------------------------------
(* The invariant                                                            *)

LEMMA InitStep == Init => AgentInv
<1>. SUFFICES ASSUME Init PROVE AgentInv
  OBVIOUS
<1>1. Turns = {} /\ DOMAIN spans = {} /\ Len(state) = 0
  BY DEF Init, Turns
<1>2. TypeOK
  BY <1>1 DEF Init, TypeOK, ReaderRecord
<1>3. TurnsInv /\ ClientInv
  BY <1>1 DEF Init, TurnsInv, ClientInv
<1>4. ReadersInv
  BY DEF Init, ReadersInv, Active
<1>5. FailureIsShown /\ ResponseIsTraced
  BY DEF Init, FailureIsShown, ResponseIsTraced
<1>. QED
  BY <1>2, <1>3, <1>4, <1>5 DEF AgentInv

LEMMA NextStep ==
    ASSUME AgentInv, Next
    PROVE  AgentInv'
<1>1. CASE ClientQuery
  BY <1>1, ClientQueryStep
<1>2. CASE SendReturns
  BY <1>2, SendReturnsStep
<1>3. CASE SendRaises
  BY <1>3, SendRaisesStep
<1>4. CASE Disconnect
  BY <1>4, DisconnectStep
<1>5. ASSUME NEW r \in Readers, NEW k \in Contexts, NEW m \in MessageIds \cup {None},
             NEW u \in Tools \cup {None}, AssistantMessage(r, k, m, u)
      PROVE  AgentInv'
  BY <1>5, AssistantStep
<1>6. ASSUME NEW r \in Readers, NEW k \in Contexts, NEW u \in Tools, UserMessage(r, k, u) PROVE AgentInv'
  BY <1>6, UserStep
<1>7. ASSUME NEW r \in Readers, NEW k \in TaskKeys, NEW done \in BOOLEAN, TaskMessage(r, k, done)
      PROVE  AgentInv'
  BY <1>7, TaskStep
<1>8. ASSUME NEW r \in Readers, ClientReads(r) PROVE AgentInv'
  BY <1>8, ClientReadsStep
<1>9. ASSUME NEW r \in Readers, OneShotReads(r) PROVE AgentInv'
  BY <1>9, OneShotReadsStep
<1>10. ASSUME NEW r \in Readers, Breaks(r) PROVE AgentInv'
  BY <1>10, BreaksStep
<1>11. ASSUME NEW r \in Readers, StreamEnds(r) PROVE AgentInv'
  BY <1>11, FinalizesStep DEF StreamEnds, Active
<1>12. ASSUME NEW r \in Readers, StreamRaises(r) PROVE AgentInv'
  BY <1>12, FinalizesStep DEF StreamRaises, Active
<1>13. ASSUME NEW r \in Readers, Closes(r) PROVE AgentInv'
  BY <1>13, FinalizesStep DEF Closes, Active
<1>. QED
  BY <1>1, <1>2, <1>3, <1>4, <1>5, <1>6, <1>7, <1>8, <1>9, <1>10, <1>11, <1>12, <1>13 DEF Next

LEMMA StutterStep ==
    ASSUME AgentInv, UNCHANGED vars
    PROVE  AgentInv'
<1>1. \A x : Live(x)' <=> Live(x)
  BY DEF vars, Live, Active
<1>2. Turns' = Turns /\ TurnsInv' /\ FailureIsShown'
  <2>1. UNCHANGED <<spans, state, cut, failed>>
    BY DEF vars
  <2>. QED
    BY <1>1, <2>1, NoTurn
<1>3. TypeOK'
  BY <1>2 DEF vars, AgentInv, TypeOK, ReaderRecord
<1>4. ReadersInv'
  BY <1>1, <1>2 DEF vars, AgentInv, ReadersInv
<1>5. ClientInv' /\ ResponseIsTraced'
  BY OvertakenKeeps DEF vars, AgentInv, ClientInv, ResponseIsTraced
<1>. QED
  BY <1>2, <1>3, <1>4, <1>5 DEF AgentInv

\* Streams, queries and messages keep the invariant, however late an abandoned stream is
\* closed.
THEOREM Invariance ==
    Spec => []AgentInv
<1>1. AgentInv /\ [Next]_vars => AgentInv'
  BY NextStep, StutterStep
<1>. QED
  BY InitStep, <1>1, PTL DEF Spec

----------------------------------------------------------------------------
(* The properties                                                           *)

\* No span of the agent is ended twice, and none stays open once its query span has
\* ended, whoever ends the turn, unless the turn was cut short.
THEOREM TurnsEndWhole ==
    Spec => []TurnEndsWhole
<1>1. ASSUME AgentInv PROVE TurnEndsWhole
  <2>. SUFFICES ASSUME NEW i \in DOMAIN spans
                PROVE  /\ spans[i].ends <= 1
                       /\ spans[state[spans[i].turn].root].ends > 0 =>
                             spans[i].ends = 1 \/ spans[i].turn \in cut
    BY DEF TurnEndsWhole
  <2>1. PICK t \in Turns : t = spans[i].turn
    BY <1>1, TurnFacts
  <2>2. EndsInv(spans, state[t], t, Phase(t))
    BY <1>1 DEF AgentInv, TurnsInv, TurnInv
  <2>3. spans[i].ends = IF StillOpen(state[t], i, Phase(t)) THEN 0 ELSE 1
    BY <2>1, <2>2 DEF EndsInv
  <2>4. state[t].root \in DOMAIN spans /\ spans[state[t].root].turn = t
    BY <1>1, TurnFacts DEF Is
  <2>5. Live(t) => spans[state[t].root].ends = 0
    BY <2>2, <2>4 DEF EndsInv, StillOpen, Phase
  <2>6. ~Live(t) /\ t \notin cut => Phase(t) = "over"
    BY DEF Phase
  <2>7. Phase(t) = "over" => spans[i].ends = 1
    BY <2>3 DEF StillOpen
  <2>. QED
    BY <2>1, <2>3, <2>5, <2>6, <2>7
<1>. QED
  BY <1>1, Invariance, PTL

\* A subagent has one span in its turn, whatever the order of its events, unless the turn
\* was cut short.
THEOREM SubagentsHaveOneSpan ==
    Spec => []OneSpanPerSubagent
<1>1. ASSUME AgentInv PROVE OneSpanPerSubagent
  <2>. SUFFICES ASSUME NEW i \in DOMAIN spans, NEW j \in DOMAIN spans,
                       spans[i].kind = "task", spans[j].kind = "task",
                       spans[i].turn = spans[j].turn, spans[i].key = spans[j].key,
                       spans[i].turn \notin cut
                PROVE  i = j
    BY DEF OneSpanPerSubagent
  <2>1. PICK t \in Turns : t = spans[i].turn
    BY <1>1, TurnFacts
  <2>2. TasksInv(spans, state[t], t, Phase(t)) /\ Phase(t) # "cut"
    BY <1>1, <2>1 DEF AgentInv, TurnsInv, TurnInv, Phase
  <2>. QED
    BY <2>1, <2>2 DEF TasksInv, Is
<1>. QED
  BY <1>1, Invariance, PTL

\* An answer always starts a new span of the model: none speaks before and after it.
THEOREM AnswersSplit ==
    Spec => []AnswersSplitTurns
<1>1. ASSUME AgentInv PROVE AnswersSplitTurns
  <2>. SUFFICES ASSUME NEW i \in DOMAIN spans PROVE ~spans[i].late
    BY DEF AnswersSplitTurns
  <2>1. PICK t \in Turns : t = spans[i].turn
    BY <1>1, TurnFacts
  <2>2. CallsInv(spans, state[t], t)
    BY <1>1 DEF AgentInv, TurnsInv, TurnInv
  <2>. QED
    BY <2>1, <2>2 DEF CallsInv
<1>. QED
  BY <1>1, Invariance, PTL

\* A query() or a stream that raised has marked its turn as an error, and no end of another
\* turn overwrites the mark; the cleanup of another turn's stream may have come before it.
THEOREM FailuresAreShown ==
    Spec => []FailureIsShown
  BY Invariance, PTL DEF AgentInv

\* The stream that reads the response to a query() reads the turn that query() started, or
\* the stream of an earlier turn was abandoned and closed; nothing else takes the turn away.
THEOREM ResponsesAreTraced ==
    Spec => []ResponseIsTraced
  BY Invariance, PTL DEF AgentInv

----------------------------------------------------------------------------
(* Where subagents nest                                                     *)

\* Spans that stay, with their place in the tree.
SameShape(sp, sp2) ==
    DOMAIN sp \subseteq DOMAIN sp2
    /\ \A i \in DOMAIN sp : /\ sp2[i].kind = sp[i].kind /\ sp2[i].key = sp[i].key
                            /\ sp2[i].parent = sp[i].parent /\ sp2[i].turn = sp[i].turn

\* A change of other fields moves no span.
LEMMA NestKeeps ==
    ASSUME NEW sp, NEW sp2, NestInv(sp), SameShape(sp, sp2), DOMAIN sp2 = DOMAIN sp
    PROVE  NestInv(sp2)
  BY DEF NestInv, SameShape

\* A new span nests as it should.
LEMMA NestAppends ==
    ASSUME NEW sp \in Seq(SpanRecord), NEW s \in SpanRecord, NestInv(sp),
           s.kind = "query" /\ s.parent # NoSpan => s.parent \in DOMAIN sp /\ sp[s.parent].kind = "query",
           s.kind = "llm" /\ s.key = Root => s.parent \in DOMAIN sp /\ sp[s.parent].kind = "query"
    PROVE  /\ Append(sp, s) \in Seq(SpanRecord) /\ NestInv(Append(sp, s)) /\ SameShape(sp, Append(sp, s))
           /\ DOMAIN Append(sp, s) = DOMAIN sp \cup {Len(sp) + 1} /\ Append(sp, s)[Len(sp) + 1] = s
<1> DEFINE a == Append(sp, s)
<1>1. /\ a \in Seq(SpanRecord) /\ DOMAIN a = DOMAIN sp \cup {Len(sp) + 1}
      /\ \A i \in DOMAIN sp : a[i] = sp[i]
      /\ a[Len(sp) + 1] = s
  BY AppendFacts
<1> HIDE DEF a
<1>2. NestInv(a)
  BY <1>1 DEF NestInv
<1>3. SameShape(sp, a)
  BY <1>1 DEF SameShape
<1> QED
  BY <1>1, <1>2, <1>3 DEF a

LEMMA NestEnds ==
    ASSUME NEW sp \in Seq(SpanRecord), NestInv(sp), NEW I
    PROVE  /\ EndSpans(sp, I) \in Seq(SpanRecord) /\ NestInv(EndSpans(sp, I))
           /\ SameShape(sp, EndSpans(sp, I)) /\ DOMAIN EndSpans(sp, I) = DOMAIN sp
<1> DEFINE e == EndSpans(sp, I)
<1>1. /\ e \in Seq(SpanRecord) /\ DOMAIN e = DOMAIN sp
      /\ \A i \in DOMAIN sp : /\ i \notin I => e[i] = sp[i]
                              /\ i \in I => e[i] = [sp[i] EXCEPT !.ends = @ + 1]
  BY EndSpansFacts
<1>2. \A i \in DOMAIN sp : sp[i] \in SpanRecord
  BY ElementOfSeq
<1> HIDE DEF e
<1>3. SameShape(sp, e)
  <2> SUFFICES ASSUME NEW i \in DOMAIN sp
               PROVE  /\ e[i].kind = sp[i].kind /\ e[i].key = sp[i].key
                      /\ e[i].parent = sp[i].parent /\ e[i].turn = sp[i].turn
    BY <1>1 DEF SameShape
  <2>1. CASE i \in I
    BY <1>1, <1>2, <2>1, EndedSpan
  <2>2. CASE i \notin I
    BY <1>1, <2>2
  <2> QED
    BY <2>1, <2>2
<1> QED
  BY <1>1, <1>3, NestKeeps DEF e

\* Ending a turn moves no span.
LEMMA NestEnded ==
    ASSUME AgentInv, NestInv(spans), NEW t \in Turns \cup {0}, NEW st \in {"ok", "error"}
    PROVE  /\ Ended(t, st) \in Seq(SpanRecord) /\ NestInv(Ended(t, st))
           /\ SameShape(spans, Ended(t, st))
<1>1. spans \in Seq(SpanRecord)
  BY DEF AgentInv, TypeOK
<1>2. CASE t = 0
  BY <1>1, <1>2 DEF Ended, SameShape
<1>3. CASE t # 0
  <2> DEFINE e == EndSpans(spans, OpenSpans(state[t]) \cup {state[t].root})
             n == state[t].root
             f == [e EXCEPT ![n].status = st]
  <2>1. /\ e \in Seq(SpanRecord) /\ NestInv(e) /\ SameShape(spans, e)
    BY <1>1, NestEnds
  <2> HIDE DEF e
  <2>2. \A i \in DOMAIN e : e[i] \in SpanRecord
    BY <2>1, ElementOfSeq
  <2>3. DOMAIN f = DOMAIN e /\ \A i \in DOMAIN e : f[i] = IF i = n THEN [e[i] EXCEPT !.status = st] ELSE e[i]
    OBVIOUS
  <2>4. \A r \in SpanRecord : LET g == [r EXCEPT !.status = st] IN
           g \in SpanRecord /\ g.kind = r.kind /\ g.key = r.key /\ g.parent = r.parent /\ g.turn = r.turn
    BY DEF SpanRecord
  <2>5. f \in Seq(SpanRecord)
    <3>1. n \in DOMAIN spans /\ DOMAIN e = DOMAIN spans
      BY <1>1, <1>3, TurnFacts, NestEnds DEF e
    <3>2. n \in 1 .. Len(e) /\ [e[n] EXCEPT !.status = st] \in SpanRecord
      BY <2>1, <2>2, <2>4, <3>1, LenProperties
    <3>3. f = [e EXCEPT ![n] = [e[n] EXCEPT !.status = st]]
      OBVIOUS
    <3> HIDE DEF f, n
    <3> QED
      BY <2>1, <3>2, <3>3, ExceptSeq
  <2> HIDE DEF f, n
  <2>6. SameShape(e, f)
    BY <2>2, <2>3, <2>4 DEF SameShape
  <2>7. NestInv(f)
    BY <2>1, <2>3, <2>6, NestKeeps
  <2>8. SameShape(spans, f)
    BY <2>1, <2>6 DEF SameShape
  <2>9. Ended(t, st) = f
    BY <1>3 DEF Ended, e, f, n
  <2> QED
    BY <2>5, <2>7, <2>8, <2>9
<1> QED
  BY <1>2, <1>3

\* Every message puts its span where it belongs.
LEMMA NestAssistant ==
    ASSUME AgentInv, NestInv(spans), NEW r \in Readers, NEW k \in Contexts,
           NEW m \in MessageIds \cup {None}, NEW u \in Tools \cup {None}, AssistantMessage(r, k, m, u)
    PROVE  NestInv(spans')
<1> DEFINE t == reader[r].turn
           q == state[t]
           new == NewTurn(q, k, m)
           opened == IF new THEN OpenLlm(t, q, k) ELSE spans
           l == IF new THEN Len(opened) ELSE q.llm[k]
           said == [opened EXCEPT ![l].late = @ \/ opened[l].answered]
           heard == [q EXCEPT !.llm[k] = l, !.mid[k] = IF new THEN m ELSE @, !.boundary = @ \ {k}]
<1>1. t \in Turns /\ t \in Nat /\ q \in StateRecord /\ TablesInv(spans, q, t)
  <2>1. Reads(r)
    BY Zenon DEF AssistantMessage
  <2>2. t \in Turns /\ t \in Nat /\ q \in StateRecord /\ OpenTurn(spans, q, t, Phase(t))
    BY <2>1, ReadsOpen
  <2> HIDE DEF t, q
  <2> QED
    BY <2>2 DEF OpenTurn, TurnInv
<1>2. spans \in Seq(SpanRecord) /\ Len(spans) \in Nat /\ DOMAIN spans = 1 .. Len(spans)
  BY LenProperties DEF AgentInv, TypeOK
<1>3. opened \in Seq(SpanRecord) /\ NestInv(opened) /\ l \in 1 .. Len(opened)
  <2>1. CASE new
    <3> DEFINE par == ParentOf(q, k)
               e == EndSpans(spans, {q.llm[k]} \ {NoSpan})
               s == Span("llm", t, k, par)
    <3>1. par \in Nat /\ (k = Root => par = q.root)
      <4> HIDE DEF q
      <4> QED
        BY <1>1, <1>2, ParentOfIs DEF ParentOf
    <3>2. s \in SpanRecord /\ s.kind = "llm" /\ s.key = k /\ s.parent = par
      BY <1>1, <3>1 DEF Span, SpanRecord
    <3>3. e \in Seq(SpanRecord) /\ NestInv(e) /\ SameShape(spans, e) /\ DOMAIN e = DOMAIN spans
      BY <1>2, NestEnds
    <3>4. k = Root => par \in DOMAIN e /\ e[par].kind = "query"
      <4> HIDE DEF e, par, q
      <4> QED
        BY <1>1, <3>1, <3>3 DEF TablesInv, Is, SameShape
    <3>5. opened = Append(e, s)
      BY <2>1 DEF OpenLlm
    <3> HIDE DEF opened, e, s, par, q
    <3>6. opened \in Seq(SpanRecord) /\ NestInv(opened) /\ Len(opened) = Len(e) + 1 /\ Len(e) \in Nat
      BY <3>2, <3>3, <3>4, <3>5, NestAppends, AppendFacts
    <3> QED
      BY <2>1, <3>6
  <2>2. CASE ~new
    <3>1. q.llm[k] # NoSpan
      BY <2>2 DEF NewTurn
    <3>2. opened = spans /\ l = q.llm[k]
      BY <2>2
    <3> HIDE DEF opened, l, q
    <3> QED
      BY <1>1, <1>2, <3>1, <3>2 DEF TablesInv, Is
  <2> QED
    BY <2>1, <2>2
<1> HIDE DEF opened, l, new
<1>4. said \in Seq(SpanRecord) /\ NestInv(said)
  <2>1. opened[l] \in SpanRecord /\ DOMAIN opened = 1 .. Len(opened) /\ \A i \in DOMAIN opened : opened[i] \in SpanRecord
    BY <1>3, ElementOfSeq, LenProperties
  <2>2. [opened[l] EXCEPT !.late = @ \/ opened[l].answered] \in SpanRecord
    BY <2>1 DEF SpanRecord
  <2>3. said = [opened EXCEPT ![l] = [opened[l] EXCEPT !.late = @ \/ opened[l].answered]]
    OBVIOUS
  <2>4. said \in Seq(SpanRecord)
    <3> HIDE DEF said
    <3> QED
      BY <1>3, <2>2, <2>3, ExceptSeq
  <2>5. DOMAIN said = DOMAIN opened /\ SameShape(opened, said)
    BY <2>1 DEF SameShape, SpanRecord
  <2> HIDE DEF said
  <2> QED
    BY <1>3, <2>4, <2>5, NestKeeps
<1> HIDE DEF said, heard, q, t
<1>5. CASE u = None
  <2>1. spans' = said
    BY <1>5, CADistinct DEF AssistantMessage, said, heard, opened, new, l, q, t, Tools
  <2> QED
    BY <1>4, <2>1
<1>6. CASE u \in Tools
  <2> DEFINE s == Span("tool", t, u, l)
  <2>1. spans' = Append(said, s)
    <3>1. u # None
      BY <1>6, CADistinct
    <3> QED
      BY <1>6, <3>1 DEF AssistantMessage, said, heard, opened, new, l, q, t
  <2>2. s \in SpanRecord /\ s.kind = "tool"
    <3>1. l \in Nat
      BY <1>3
    <3> QED
      BY <1>1, <1>6, <3>1 DEF Span, SpanRecord
  <2> HIDE DEF s
  <2> QED
    BY <1>4, <2>1, <2>2, NestAppends
<1> QED
  BY <1>5, <1>6

LEMMA NestAnswers ==
    ASSUME NEW sp \in Seq(SpanRecord), NestInv(sp), NEW I
    PROVE  NestInv(AnswerSpans(sp, I))
<1>1. \A j \in DOMAIN sp : sp[j] \in SpanRecord
  BY ElementOfSeq
<1>2. \A x \in SpanRecord : \A b \in BOOLEAN : LET y == [x EXCEPT !.answered = b] IN
         y.kind = x.kind /\ y.key = x.key /\ y.parent = x.parent /\ y.turn = x.turn
  BY DEF SpanRecord
<1>3. /\ DOMAIN AnswerSpans(sp, I) = DOMAIN sp
      /\ \A j \in DOMAIN sp : AnswerSpans(sp, I)[j] = [sp[j] EXCEPT !.answered = sp[j].answered \/ j \in I]
  BY DEF AnswerSpans
<1>4. \A j \in DOMAIN sp : (sp[j].answered \/ j \in I) \in BOOLEAN
  OBVIOUS
<1>5. SameShape(sp, AnswerSpans(sp, I))
  <2> SUFFICES ASSUME NEW j \in DOMAIN sp
               PROVE  LET z == AnswerSpans(sp, I)[j]
                      IN  z.kind = sp[j].kind /\ z.key = sp[j].key /\ z.parent = sp[j].parent /\ z.turn = sp[j].turn
    BY <1>3 DEF SameShape
  <2>1. PICK b \in BOOLEAN : b = (sp[j].answered \/ j \in I)
    OBVIOUS
  <2>2. AnswerSpans(sp, I)[j] = [sp[j] EXCEPT !.answered = b]
    BY <1>3, <2>1
  <2> QED
    BY <1>1, <1>2, <2>2
<1> QED
  BY <1>3, <1>5, NestKeeps

LEMMA NestUser ==
    ASSUME AgentInv, NestInv(spans), NEW r \in Readers, NEW k \in Contexts, NEW u \in Tools,
           UserMessage(r, k, u)
    PROVE  NestInv(spans')
<1> DEFINE t == reader[r].turn
           e == EndSpans(spans, {state[t].tools[u]} \ {NoSpan})
<1>1. spans' = AnswerSpans(e, Askers(t, k, u))
  BY DEF UserMessage
<1>2. e \in Seq(SpanRecord) /\ NestInv(e)
  BY NestEnds DEF AgentInv, TypeOK
<1> HIDE DEF e, t
<1> QED
  BY <1>1, <1>2, NestAnswers

LEMMA NestTask ==
    ASSUME AgentInv, NestInv(spans), NEW r \in Readers, NEW k \in TaskKeys, NEW done \in BOOLEAN,
           TaskMessage(r, k, done)
    PROVE  NestInv(spans')
<1> DEFINE t == reader[r].turn
           q == state[t]
           par == TaskParent(q, k)
           x == Span("task", t, k, par)
           seen == IF FirstEvent(q, k) THEN Append(spans, x) ELSE spans
           s == IF FirstEvent(q, k) THEN Len(seen) ELSE q.tasks[k]
<1>1. t \in Nat /\ q \in StateRecord
  BY ReadsOpen DEF TaskMessage
<1>2. spans \in Seq(SpanRecord)
  BY DEF AgentInv, TypeOK
<1>3. x \in SpanRecord /\ x.kind = "task"
  <2>1. par \in Nat
    BY <1>1 DEF TaskParent, StateRecord, Tools, TaskKeys
  <2> QED
    BY <1>1, <2>1 DEF Span, SpanRecord
<1>4. seen \in Seq(SpanRecord) /\ NestInv(seen)
  <2> HIDE DEF x, q
  <2> QED
    BY <1>2, <1>3, NestAppends
<1>5. spans' = IF LastEvent(q, k, done) THEN EndSpans(seen, {s}) ELSE seen
  BY DEF TaskMessage
<1> HIDE DEF seen, s, q
<1> QED
  BY <1>4, <1>5, NestEnds

\* A query span starts in the context of another turn, or of none.
LEMMA NestQuery ==
    ASSUME AgentInv, NEW par \in Parents, NEW sp \in Seq(SpanRecord), NestInv(sp),
           SameShape(spans, sp), NEW t \in Nat
    PROVE  NestInv(Append(sp, Span("query", t, Root, par)))
<1> DEFINE s == Span("query", t, Root, par)
<1>0. par \in Nat /\ (par # NoSpan => par \in DOMAIN sp /\ sp[par].kind = "query")
  BY ParentsAre DEF SameShape
<1>1. s \in SpanRecord /\ s.kind = "query" /\ s.parent = par
  BY <1>0 DEF Span, SpanRecord, NoSpan, Contexts
<1> HIDE DEF s
<1>2. NestInv(Append(sp, s))
  BY <1>0, <1>1, NestAppends
<1> QED
  BY <1>2 DEF s

\* The tree of the spans as it is now.
Nested == NestInv(spans)

LEMMA NestStep ==
    ASSUME AgentInv, NestInv(spans), Next
    PROVE  NestInv(spans')
<1>1. spans \in Seq(SpanRecord) /\ Len(state) + 1 \in Nat /\ current \in Turns \cup {0}
  BY LenProperties DEF AgentInv, TypeOK
<1>2. CASE ClientQuery
  <2> DEFINE e == Ended(current, "ok")
  <2>1. e \in Seq(SpanRecord) /\ NestInv(e) /\ SameShape(spans, e)
    BY <1>1, NestEnded
  <2>2. PICK par \in Parents : spans' = Append(e, Span("query", Len(state) + 1, Root, par))
    BY <1>2 DEF ClientQuery
  <2> HIDE DEF e
  <2> QED
    BY <1>1, <2>1, <2>2, NestQuery
<1>3. CASE SendReturns
  BY <1>3 DEF SendReturns
<1>4. CASE SendRaises
  BY <1>1, <1>4, NestEnded DEF SendRaises
<1>5. CASE Disconnect
  BY <1>1, <1>5, NestEnded DEF Disconnect
<1>6. ASSUME NEW r \in Readers, NEW k \in Contexts, NEW m \in MessageIds \cup {None},
             NEW u \in Tools \cup {None}, AssistantMessage(r, k, m, u)
      PROVE  NestInv(spans')
  BY <1>6, NestAssistant
<1>7. ASSUME NEW r \in Readers, NEW k \in Contexts, NEW u \in Tools, UserMessage(r, k, u)
      PROVE  NestInv(spans')
  BY <1>7, NestUser
<1>8. ASSUME NEW r \in Readers, NEW k \in TaskKeys, NEW done \in BOOLEAN, TaskMessage(r, k, done)
      PROVE  NestInv(spans')
  BY <1>8, NestTask
<1>9. ASSUME NEW r \in Readers, ClientReads(r) PROVE NestInv(spans')
  BY <1>9 DEF ClientReads
<1>10. ASSUME NEW r \in Readers, OneShotReads(r) PROVE NestInv(spans')
  <2>1. PICK par \in Parents : spans' = Append(spans, Span("query", Len(state) + 1, Root, par))
    BY <1>10 DEF OneShotReads
  <2>2. SameShape(spans, spans)
    BY DEF SameShape
  <2> QED
    BY <1>1, <2>1, <2>2, NestQuery
<1>11. ASSUME NEW r \in Readers, Breaks(r) PROVE NestInv(spans')
  BY <1>11 DEF Breaks
<1>12. ASSUME NEW r \in Readers, NEW pc, NEW st \in {"ok", "error"}, Finalizes(r, pc, st)
       PROVE  NestInv(spans')
  <2> DEFINE t == IF reader[r].own THEN reader[r].turn ELSE IF reader[r].turn = 0 THEN 0 ELSE current
  <2>1. t \in Turns \cup {0}
    BY <1>1 DEF AgentInv, TypeOK, ReaderRecord
  <2>2. spans' = Ended(t, st)
    BY <1>12 DEF Finalizes
  <2> HIDE DEF t
  <2> QED
    BY <2>1, <2>2, NestEnded
<1> QED
  BY <1>2, <1>3, <1>4, <1>5, <1>6, <1>7, <1>8, <1>9, <1>10, <1>11, <1>12
  DEF Next, StreamEnds, StreamRaises, Closes

\* Above the span of a subagent the orchestrator spawned there are the tool call, the LLM
\* span that made it and query spans, and no other subagent.
THEOREM SubagentsAreSideBySide ==
    Spec => []SubagentsAreSiblings
<1>1. Init => Nested
  BY DEF Init, NestInv, Nested
<1>2. AgentInv /\ Nested /\ [Next]_vars => Nested'
  BY NestStep DEF vars, Nested
<1>3. ASSUME AgentInv, Nested PROVE SubagentsAreSiblings
  <2> DEFINE D == {j \in DOMAIN spans : spans[j].kind # "task"}
  <2> SUFFICES ASSUME NEW i \in DOMAIN spans, NEW p \in DOMAIN spans,
                      spans[i].kind = "task", spans[i].parent = p, spans[p].kind = "tool", spans[spans[p].parent].key = Root
               PROVE  \E above \in SUBSET D :
                         p \in above /\ \A j \in above : spans[j].parent \in above \cup {NoSpan}
    BY DEF SubagentsAreSiblings
  <2>1. spans[p].turn \in Turns
    BY <1>3, TurnFacts
  <2>2. PICK k \in Contexts : Is(spans, spans[p].parent, "llm", spans[p].turn, k)
    BY <1>3, <2>1, TurnFacts DEF TurnInv, CallsInv
  <2> DEFINE l == spans[p].parent
             n == spans[l].parent
             Q == {j \in DOMAIN spans : spans[j].kind = "query"}
  <2>3. l \in DOMAIN spans /\ spans[l].kind = "llm" /\ spans[l].key = Root
    BY <2>2 DEF Is
  <2>4. n \in Q /\ \A j \in Q : spans[j].parent \in Q \cup {NoSpan}
    BY <1>3, <2>3 DEF NestInv, Nested
  <2> DEFINE above == {p, l} \cup Q
  <2>5. above \in SUBSET D
    BY <2>3
  <2>6. \A j \in above : spans[j].parent \in above \cup {NoSpan}
    BY <2>4
  <2> HIDE DEF above, D
  <2> QED
    BY <2>5, <2>6 DEF above
<1>4. Spec => [](AgentInv /\ Nested)
  <2>1. Spec => []AgentInv
    BY Invariance
  <2> QED
    BY <1>1, <1>2, <2>1, PTL DEF Spec
<1> QED
  BY <1>3, <1>4, PTL

=============================================================================
