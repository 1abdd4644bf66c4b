--------------------------- MODULE TracingProofs ---------------------------
(***************************************************************************)
(* Proofs about Tracing.  With the client brought up at application startup *)
(* (Startup), for any number of threads, spans, clients and calls: one      *)
(* client is ever constructed, a span is exported once, redacted as soon as  *)
(* an initialize(redact=...) has returned, and never from local code.        *)
(***************************************************************************)
EXTENDS Tracing, TLAPS

Provs == Clients \cup {Host}
ThreadType == [pc: {"idle", "constructs", "attaches", "assigns"}, me: {NoOne, 1},
               joins: Provs \cup {NoOne}, redacts: BOOLEAN, locked: BOOLEAN]
SpanType == [state: {"unborn", "open", "ended"}, in: Provs \cup {NoOne}, local: BOOLEAN]

Types ==
    /\ client \in {NoOne, 1} /\ created \in {0, 1} /\ redact \subseteq {1}
    /\ created = 1 => 1 \in Clients
    /\ attached \in [Provs -> SUBSET {1}]
    /\ provider \in Provs \cup {NoOne}
    /\ marked \in [Clients -> SUBSET Spans]
    /\ thread \in [Threads -> ThreadType]
    /\ span \in [Spans -> SpanType]

Busy(t) == thread[t].pc # "idle"

\* There is one client, and one thread brings it up.
OneClient ==
    /\ client # NoOne => created = 1 /\ \A t \in Threads : ~Busy(t)
    /\ created = 1 /\ client = NoOne => \E t \in Threads : Busy(t)
    /\ \A t \in Threads : Busy(t) => client = NoOne /\ thread[t].me = 1 /\ created = 1
    /\ \A t \in Threads : Busy(t) /\ thread[t].redacts => 1 \in redact
    /\ \A t, u \in Threads : Busy(t) /\ Busy(u) => t = u
    /\ \A t \in Threads : thread[t].locked => t \in lock

\* ... before any span.
ClientFirst ==
    client = NoOne => exported = {} /\ ~wanted /\ \A s \in Spans : span[s].state = "unborn"

Redacting == wanted => 1 \in redact

\* A processor that saw the start of a local span has marked it while it is open.
Marks ==
    \A s \in Spans : span[s].state = "open" =>
        /\ span[s].in \in Provs
        /\ span[s].local => \A p \in attached[span[s].in] \ shut : s \in marked[p]

Exports ==
    /\ \A e \in exported : /\ e.of \in Spans /\ span[e.of].state = "ended" /\ ~span[e.of].local
                           /\ e.wanted => e.redacted
    /\ ExportedOnce

TracingInv == Types /\ OneClient /\ ClientFirst /\ Redacting /\ Marks /\ Exports

LEMMA TracingInvInit == ASSUME Init PROVE TracingInv
<1>1. Types
  BY DEF Init, Types, Provs, ThreadType, SpanType, Idle, Unborn, NoOne
<1>2. OneClient
  BY DEF Init, OneClient, Busy, Idle, NoOne
<1>3. ClientFirst /\ Redacting /\ Marks /\ Exports
  BY DEF Init, ClientFirst, Redacting, Marks, Exports, ExportedOnce, Unborn
<1> QED BY <1>1, <1>2, <1>3 DEF TracingInv

\* A client is constructed when there is none, by the only thread that brings one up.
LEMMA ConstructKeeps ==
    ASSUME Startup, TracingInv, NEW t \in Threads, NEW r \in BOOLEAN, NEW l \in BOOLEAN,
           client = NoOne, lock = {}, Early, Construct(t, r, l),
           lock' = IF l THEN {t} ELSE lock,
           client' = client, shut' = shut, attached' = attached, provider' = provider,
           marked' = marked, span' = span, exported' = exported, wanted' = wanted
    PROVE  TracingInv'
<1> DEFINE new == [pc |-> "constructs", me |-> created + 1, joins |-> NoOne, redacts |-> r, locked |-> l]
<1>1. \A u \in Threads : ~Busy(u)
  BY DEF Early, TracingInv, OneClient, Busy
<1>2. created = 0
  BY <1>1 DEF TracingInv, OneClient, Types
<1>3. created' = 1 /\ thread' = [thread EXCEPT ![t] = new] /\ 1 \in Clients
  BY <1>2, TracingAssumption DEF Construct, TracingAssumption, Clients
<1>4. /\ new \in ThreadType /\ new.pc = "constructs" /\ new.me = 1
      /\ new.redacts = r /\ new.locked = l
  BY <1>2 DEF ThreadType, NoOne
<1>5. redact' = IF r THEN redact \cup {1} ELSE redact
  BY <1>2 DEF Construct
<1> HIDE DEF new
<1>6. Types'
  BY <1>3, <1>4, <1>5 DEF TracingInv, Types, Provs, ThreadType, SpanType, Clients, Host
<1>7. thread'[t] = new /\ \A u \in Threads \ {t} : thread'[u] = thread[u]
  BY <1>3 DEF TracingInv, Types
<1>8. OneClient'
  <2>1. \A u \in Threads : Busy(u)' => u = t
    BY <1>1, <1>7 DEF Busy
  <2>2. Busy(t)'
    BY <1>4, <1>7 DEF Busy
  <2>3. \A u \in Threads : thread'[u].locked => u \in lock'
    BY <1>4, <1>7 DEF TracingInv, OneClient
  <2> QED BY <1>3, <1>4, <1>5, <1>7, <2>1, <2>2, <2>3 DEF OneClient
<1>9. ClientFirst' /\ Redacting' /\ Exports' /\ Marks'
  BY <1>5 DEF TracingInv, ClientFirst, Redacting, Exports, ExportedOnce, Marks
<1> QED BY <1>6, <1>8, <1>9 DEF TracingInv

\* The steps of a construction, by the thread that does it.
LEMMA ConstructionKeeps ==
    ASSUME TracingInv, NEW t \in Threads, LooksForProvider(t) \/ Attaches(t) \/ Assigns(t)
    PROVE  TracingInv'
<1>0. /\ Busy(t) /\ client = NoOne /\ thread[t].me = 1 /\ created = 1 /\ 1 \in Clients
      /\ thread[t] \in ThreadType
  BY DEF LooksForProvider, Attaches, Assigns, TracingInv, OneClient, Types, Busy
<1>1. \A u \in Threads \ {t} : ~Busy(u)
  BY <1>0 DEF TracingInv, OneClient
<1>2. \A s \in Spans : span[s].state = "unborn"
  BY <1>0 DEF TracingInv, ClientFirst
<1>3. CASE LooksForProvider(t)
  <2> DEFINE old == thread[t]
             new == [old EXCEPT !.pc = "attaches", !.joins = provider]
  <2>1. thread' = [thread EXCEPT ![t] = new]
    BY <1>3 DEF LooksForProvider
  <2>2. /\ new \in ThreadType /\ new.pc = "attaches" /\ new.me = old.me
        /\ new.redacts = old.redacts /\ new.locked = old.locked
    BY <1>0 DEF TracingInv, Types, ThreadType
  <2>3. UNCHANGED <<clientVars, lock, spanVars, wanted>>
    BY <1>3 DEF LooksForProvider
  <2> HIDE DEF new
  <2>4. thread'[t] = new /\ \A u \in Threads \ {t} : thread'[u] = thread[u]
    BY <2>1 DEF TracingInv, Types
  <2>5. Types'
    BY <2>1, <2>2, <2>3 DEF TracingInv, Types, clientVars, spanVars
  <2>6. OneClient'
    BY <1>0, <1>1, <2>2, <2>3, <2>4 DEF TracingInv, OneClient, Busy, clientVars
  <2>7. ClientFirst' /\ Redacting' /\ Exports' /\ Marks'
    BY <2>3 DEF TracingInv, ClientFirst, Redacting, Exports, ExportedOnce, Marks, clientVars, spanVars
  <2> QED BY <2>5, <2>6, <2>7 DEF TracingInv
<1>4. CASE Attaches(t)
  <2> DEFINE old == thread[t]
             new == [old EXCEPT !.pc = "assigns"]
             v == IF old.joins = NoOne THEN 1 ELSE old.joins
  <2>1. /\ thread' = [thread EXCEPT ![t] = new]
        /\ attached' = [attached EXCEPT ![v] = @ \cup {1}]
        /\ provider' = IF provider = NoOne THEN v ELSE provider
        /\ UNCHANGED <<client, created, redact, shut, lock, spanVars, wanted>>
    BY <1>0, <1>4 DEF Attaches
  <2>2. /\ new \in ThreadType /\ new.pc = "assigns" /\ new.me = old.me
        /\ new.redacts = old.redacts /\ new.locked = old.locked
    BY <1>0 DEF ThreadType
  <2>3. v \in Provs
    BY <1>0 DEF ThreadType, Provs
  <2> HIDE DEF new, v
  <2>4. thread'[t] = new /\ \A u \in Threads \ {t} : thread'[u] = thread[u]
    BY <2>1 DEF TracingInv, Types
  <2>5. Types'
    BY <2>1, <2>2, <2>3 DEF TracingInv, Types, spanVars
  <2>6. OneClient'
    BY <1>0, <1>1, <2>1, <2>2, <2>4 DEF TracingInv, OneClient, Busy
  <2>7. ClientFirst' /\ Redacting' /\ Exports' /\ Marks'
    BY <1>2, <2>1 DEF TracingInv, ClientFirst, Redacting, Exports, ExportedOnce, Marks, spanVars
  <2> QED BY <2>5, <2>6, <2>7 DEF TracingInv
<1>5. CASE Assigns(t)
  <2>1. /\ client' = 1 /\ thread' = [thread EXCEPT ![t] = Idle] /\ lock' = lock \ {t}
        /\ wanted' = (wanted \/ thread[t].redacts)
        /\ UNCHANGED <<created, redact, shut, attached, provider, spanVars>>
    BY <1>0, <1>5 DEF Assigns
  <2>2. Idle \in ThreadType /\ Idle.pc = "idle" /\ ~Idle.locked
    BY DEF Idle, ThreadType, NoOne
  <2>3. thread'[t] = Idle /\ \A u \in Threads \ {t} : thread'[u] = thread[u]
    BY <2>1 DEF TracingInv, Types
  <2>4. Types'
    BY <2>1, <2>2 DEF TracingInv, Types, spanVars
  <2>5. OneClient'
    <3>1. \A u \in Threads : ~Busy(u)'
      BY <1>1, <2>2, <2>3 DEF Busy
    <3>2. \A u \in Threads : thread'[u].locked => u \in lock'
      BY <2>1, <2>2, <2>3 DEF TracingInv, OneClient
    <3> QED BY <1>0, <2>1, <3>1, <3>2 DEF OneClient, NoOne
  <2>6. Redacting'
    BY <1>0, <2>1 DEF TracingInv, Redacting, OneClient
  <2>7. ClientFirst' /\ Exports' /\ Marks'
    BY <2>1 DEF TracingInv, ClientFirst, Exports, ExportedOnce, Marks, spanVars, NoOne
  <2> QED BY <2>4, <2>5, <2>6, <2>7 DEF TracingInv
<1> QED BY <1>3, <1>4, <1>5

LEMMA InitializeKeeps ==
    ASSUME Startup, TracingInv, NEW t \in Threads, NEW r \in BOOLEAN, Initialize(t, r)
    PROVE  TracingInv'
<1>1. UNCHANGED <<client, shut, attached, provider, locals, spanVars>> /\ lock = {}
  BY DEF Initialize
<1>2. CASE client = NoOne
  <2>1. Construct(t, r, TRUE) /\ lock' = {t} /\ wanted' = wanted /\ Early
    BY <1>2 DEF Initialize
  <2> QED BY <1>1, <1>2, <2>1, ConstructKeeps DEF spanVars
<1>3. CASE client # NoOne
  <2>1. /\ redact' = IF r THEN redact \cup {client} ELSE redact
        /\ wanted' = (wanted \/ r)
        /\ UNCHANGED <<created, lock, thread>>
    BY <1>3 DEF Initialize
  <2>2. client = 1
    BY <1>3 DEF TracingInv, Types
  <2>3. redact \subseteq redact' /\ redact' \subseteq {1} /\ (r => 1 \in redact')
    BY <2>1, <2>2 DEF TracingInv, Types
  <2>4. Types'
    BY <1>1, <2>1, <2>3 DEF TracingInv, Types, spanVars
  <2>5. OneClient'
    BY <1>1, <2>1, <2>3 DEF TracingInv, OneClient, Busy
  <2>6. Redacting'
    BY <2>1, <2>3 DEF TracingInv, Redacting
  <2>7. ClientFirst' /\ Exports' /\ Marks'
    BY <1>1, <1>3 DEF TracingInv, ClientFirst, Exports, ExportedOnce, Marks, spanVars
  <2> QED BY <2>4, <2>5, <2>6, <2>7 DEF TracingInv
<1> QED BY <1>2, <1>3

LEMMA ObserveKeeps ==
    ASSUME Startup, TracingInv, NEW t \in Threads, Observe(t)
    PROVE  TracingInv'
<1>1. /\ client = NoOne /\ lock = {} /\ Early /\ Construct(t, FALSE, FALSE)
      /\ UNCHANGED <<client, shut, attached, provider, lock, locals, spanVars, wanted, redacts>>
  BY DEF Observe, GetClient
<1> QED BY <1>1, ConstructKeeps DEF spanVars

LEMMA StartSpanKeeps ==
    ASSUME Startup, TracingInv, NEW s \in Spans, NEW local \in BOOLEAN, StartSpan(s, local)
    PROVE  TracingInv'
<1> DEFINE new == [state |-> "open", in |-> provider, local |-> local]
<1>1. /\ span[s].state = "unborn" /\ client # NoOne /\ provider # NoOne
      /\ span' = [span EXCEPT ![s] = new]
      /\ marked' = [p \in Clients |->
             IF local /\ p \in attached[provider] \ shut THEN marked[p] \cup {s} ELSE marked[p]]
      /\ UNCHANGED <<clientVars, lock, thread, locals, exported, wanted, redacts>>
  BY DEF StartSpan, Sampled
<1>2. provider \in Provs /\ new \in SpanType /\ new.state = "open" /\ new.in = provider /\ new.local = local
  BY <1>1 DEF TracingInv, Types, SpanType
<1> HIDE DEF new
<1>3. span'[s] = new /\ \A x \in Spans \ {s} : span'[x] = span[x]
  BY <1>1 DEF TracingInv, Types
<1>4. /\ marked' \in [Clients -> SUBSET Spans]
      /\ \A p \in Clients : marked[p] \subseteq marked'[p]
      /\ local => \A p \in Clients : p \in attached[provider] \ shut => s \in marked'[p]
  BY <1>1 DEF TracingInv, Types
<1>5. Types'
  BY <1>1, <1>2, <1>4 DEF TracingInv, Types, clientVars
<1>6. OneClient' /\ Redacting' /\ ClientFirst'
  BY <1>1 DEF TracingInv, OneClient, Redacting, ClientFirst, Busy, clientVars
<1>7. Exports'
  <2>1. \A e \in exported : e.of \in Spans \ {s}
    BY <1>1 DEF TracingInv, Exports
  <2> QED BY <1>1, <1>3, <2>1 DEF TracingInv, Exports, ExportedOnce
<1>8. Marks'
  <2>1. /\ \A v \in Provs : attached[v] \subseteq Clients
        /\ attached' = attached /\ shut' = shut
    BY <1>1 DEF TracingInv, Types, OneClient, clientVars
  <2>2. ASSUME NEW x \in Spans, span'[x].state = "open"
        PROVE  /\ span'[x].in \in Provs
               /\ span'[x].local => \A p \in attached[span'[x].in] \ shut : x \in marked'[p]
    <3>1. CASE x = s
      BY <1>2, <1>3, <1>4, <2>1, <3>1
    <3>2. CASE x # s
      <4>1. span'[x] = span[x]
        BY <1>3, <3>2
      <4>2. /\ span[x].in \in Provs
            /\ span[x].local => \A p \in attached[span[x].in] \ shut : x \in marked[p]
        BY <2>2, <4>1 DEF TracingInv, Marks
      <4> QED BY <1>4, <2>1, <4>1, <4>2
    <3> QED BY <3>1, <3>2
  <2> QED BY <2>1, <2>2 DEF Marks
<1> QED BY <1>5, <1>6, <1>7, <1>8 DEF TracingInv

LEMMA EndSpanKeeps ==
    ASSUME TracingInv, NEW s \in Spans, EndSpan(s)
    PROVE  TracingInv'
<1> DEFINE old == span[s]
           new == [old EXCEPT !.state = "ended"]
           out == {[by |-> p, of |-> s, redacted |-> p \in redact, wanted |-> wanted] :
                      p \in {q \in Live(s) : s \notin marked[q]}}
<1>1. /\ old.state = "open" /\ span' = [span EXCEPT ![s] = new]
      /\ exported' = exported \cup out
      /\ marked' = [p \in Clients |-> IF p \in Live(s) THEN marked[p] \ {s} ELSE marked[p]]
      /\ UNCHANGED <<clientVars, lock, thread, locals, wanted, redacts>>
  BY DEF EndSpan
<1>2. old \in SpanType /\ new \in SpanType /\ new.state = "ended" /\ new.local = old.local
  BY DEF TracingInv, Types, SpanType
<1>3. client # NoOne
  BY <1>1 DEF TracingInv, ClientFirst
<1>4. Live(s) \subseteq {1} /\ (old.local => \A p \in Live(s) : s \in marked[p])
  BY <1>1 DEF TracingInv, Types, Marks, Live
<1>5. \A e \in out : /\ e = [by |-> 1, of |-> s, redacted |-> 1 \in redact, wanted |-> wanted]
                     /\ ~old.local
  BY <1>4
<1>6. \A e \in out : e.of = s /\ e.redacted = (1 \in redact) /\ e.wanted = wanted /\ ~old.local
  BY <1>5
<1>7. \A d, e \in out : d = e
  BY <1>5
<1> HIDE DEF old, new, out
<1>8. span'[s] = new /\ \A x \in Spans \ {s} : span'[x] = span[x]
  BY <1>1 DEF TracingInv, Types
<1>9. Types'
  BY <1>1, <1>2 DEF TracingInv, Types, clientVars
<1>10. OneClient' /\ Redacting' /\ ClientFirst'
  BY <1>1, <1>3 DEF TracingInv, OneClient, Redacting, ClientFirst, Busy, clientVars
<1>11. Exports'
  <2>1. \A e \in exported : e.of \in Spans \ {s}
    BY <1>1 DEF TracingInv, Exports, old
  <2>2. ASSUME NEW e \in exported'
        PROVE  /\ e.of \in Spans /\ span'[e.of].state = "ended" /\ ~span'[e.of].local
               /\ e.wanted => e.redacted
    <3>1. CASE e \in exported
      BY <1>8, <2>1, <3>1 DEF TracingInv, Exports
    <3>2. CASE e \in out
      BY <1>2, <1>6, <1>8, <3>2 DEF TracingInv, Redacting
    <3> QED BY <1>1, <3>1, <3>2
  <2>3. ASSUME NEW d \in exported', NEW e \in exported', d.of = e.of PROVE d = e
    <3>1. CASE d \in exported /\ e \in exported
      BY <2>3, <3>1 DEF TracingInv, Exports, ExportedOnce
    <3>2. CASE d \in out /\ e \in out
      BY <1>7, <3>2
    <3>3. CASE (d \in exported /\ e \in out) \/ (d \in out /\ e \in exported)
      BY <1>6, <2>1, <2>3, <3>3
    <3> QED BY <1>1, <3>1, <3>2, <3>3
  <2> QED BY <2>2, <2>3 DEF Exports, ExportedOnce
<1>12. Marks'
  <2>1. \A v \in Provs : attached[v] \subseteq Clients
    BY <1>3 DEF TracingInv, Types, OneClient
  <2>2. ASSUME NEW x \in Spans, span'[x].state = "open"
        PROVE  /\ span'[x].in \in Provs
               /\ span'[x].local => \A p \in attached[span'[x].in] \ shut : x \in marked'[p]
    <3>1. x # s /\ span'[x] = span[x]
      BY <1>2, <1>8, <2>2
    <3>2. /\ span[x].in \in Provs
          /\ span[x].local => \A p \in attached[span[x].in] \ shut : x \in marked[p]
      BY <2>2, <3>1 DEF TracingInv, Marks
    <3>3. \A p \in Clients : x \in marked[p] => x \in marked'[p]
      BY <1>1, <3>1
    <3> QED BY <2>1, <3>1, <3>2, <3>3
  <2> QED BY <1>1, <2>2 DEF Marks, clientVars
<1> QED BY <1>9, <1>10, <1>11, <1>12 DEF TracingInv

LEMMA TracingInvKept == ASSUME Startup, TracingInv, [Next]_vars PROVE TracingInv'
<1>1. ASSUME NEW t \in Threads, NEW r \in BOOLEAN, Initialize(t, r) PROVE TracingInv'
  BY <1>1, InitializeKeeps
<1>2. ASSUME NEW t \in Threads, Observe(t) \/ LooksForProvider(t) \/ Attaches(t) \/ Assigns(t)
      PROVE  TracingInv'
  BY <1>2, ObserveKeeps, ConstructionKeeps
<1>3. CASE Shutdown
  <2>1. shut \subseteq shut' /\ UNCHANGED <<client, created, redact, attached, provider, lock, thread, spanVars, wanted>>
    BY <1>3 DEF Shutdown
  <2>2. Types' /\ OneClient' /\ ClientFirst' /\ Redacting' /\ Exports'
    BY <2>1 DEF TracingInv, Types, OneClient, Busy, ClientFirst, Redacting, Exports, ExportedOnce, spanVars
  <2>3. Marks'
    BY <2>1 DEF TracingInv, Marks, spanVars
  <2> QED BY <2>2, <2>3 DEF TracingInv
<1>4. CASE LocalRunBegins \/ LocalRunEnds \/ UNCHANGED vars
  <2>1. UNCHANGED <<clientVars, lock, thread, spanVars, wanted>>
    BY <1>4 DEF LocalRunBegins, LocalRunEnds, vars
  <2>2. Types' /\ OneClient' /\ ClientFirst' /\ Redacting' /\ Exports' /\ Marks'
    BY <2>1 DEF TracingInv, Types, OneClient, Busy, ClientFirst, Redacting, Exports, ExportedOnce,
                Marks, spanVars, clientVars
  <2> QED BY <2>2 DEF TracingInv
<1>5. ASSUME NEW s \in Spans, NEW local \in BOOLEAN, EndSpan(s) \/ StartSpan(s, local)
      PROVE  TracingInv'
  BY <1>5, EndSpanKeeps, StartSpanKeeps
<1> QED BY <1>1, <1>2, <1>3, <1>4, <1>5 DEF Next

LEMMA TracingInvHolds == ASSUME Startup PROVE Spec => []TracingInv
<1>1. Init => TracingInv
  BY TracingInvInit
<1>2. TracingInv /\ [Next]_vars => TracingInv'
  BY TracingInvKept
<1> QED BY <1>1, <1>2, PTL DEF Spec

\* However many threads call initialize(), @observe and shutdown(), on a host's provider or
\* the client's own: a span is exported once, provided the client comes up before it.
THEOREM SpansExportedOnce == ASSUME Startup PROVE Spec => []ExportedOnce
<1>1. TracingInv => ExportedOnce
  BY DEF TracingInv, Exports
<1> QED BY <1>1, TracingInvHolds, PTL

\* ... redacted from the moment an initialize(redact=...) has returned, also when the
\* client was there before.
THEOREM SpansRedacted == ASSUME Startup PROVE Spec => []RedactApplies
<1>1. TracingInv => RedactApplies
  BY DEF TracingInv, Exports, RedactApplies
<1> QED BY <1>1, TracingInvHolds, PTL

\* ... and not at all if it was born inside a local run.
THEOREM LocalSpansStay == ASSUME Startup PROVE Spec => []LocalStaysLocal
<1>1. TracingInv => LocalStaysLocal
  BY DEF TracingInv, Exports, LocalStaysLocal
<1> QED BY <1>1, TracingInvHolds, PTL
=============================================================================
