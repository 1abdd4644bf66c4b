------------------------------ MODULE Tracing ------------------------------
(***************************************************************************)
(* The tracing client of a process: initialize(), the lazy bring-up by     *)
(* @observe, shutdown() (traceroot/__init__.py, client.py, decorators.py)  *)
(* and what its span processor does with the spans of reported and of      *)
(* local=True code (transport/span_processor.py).                          *)
(*                                                                         *)
(* The process may have a provider of its host's; otherwise a client       *)
(* installs its own, and OpenTelemetry (external) lets only the first one  *)
(* become global.  A client with tracing enabled has one processor, which  *)
(* has the number of the client.  Threads switch between the steps of the  *)
(* construction of a client.                                               *)
(***************************************************************************)
EXTENDS Naturals, FiniteSets

CONSTANTS
    Threads,    \* application threads that may bring up the client
    Spans,      \* the spans of the application
    MaxClients, \* bound on the clients created
    MaxRedacts, \* bound on the calls of initialize(redact=...)
    MaxLocals,  \* bound on the local=True runs at a time, nested or concurrent
    Startup     \* TRUE: the client comes up before any span, either lazily or by
                \* initialize(), "once at application startup before using any tracing"

ASSUME TracingAssumption ==
    MaxClients \in Nat /\ MaxRedacts \in Nat /\ MaxLocals \in Nat /\ Startup \in BOOLEAN

Clients == 1 .. MaxClients
Host == MaxClients + 1      \* the host's provider; a client's own has its number
NoOne == 0

VARIABLES
    client,    \* _client, or NoOne
    created,   \* the clients constructed so far
    redact,    \* the processors with a redact function
    shut,      \* the processors that were shut down
    marked,    \* _local_eval_span_ids of each processor
    attached,  \* the processors of each provider
    provider,  \* OpenTelemetry's global provider, or NoOne
    lock,      \* the thread in initialize() that holds _init_lock, or none
    thread,    \* where each thread is
    locals,    \* the local=True runs in progress (_suppress_global_auto_init_depth; its += is
               \* one step, there being no call in it at which CPython switches threads)
    span,      \* each span
    exported,  \* what each processor exported of it
    wanted,    \* history: an initialize(redact=...) has returned
    redacts    \* initialize(redact=...) calls so far

clientVars == <<client, created, redact, shut, attached, provider>>
spanVars == <<marked, span, exported>>
vars == <<clientVars, lock, thread, locals, spanVars, wanted, redacts>>

Idle == [pc |-> "idle", me |-> NoOne, joins |-> NoOne, redacts |-> FALSE, locked |-> FALSE]
Unborn == [state |-> "unborn", in |-> NoOne, local |-> FALSE]

Init ==
    /\ client = NoOne /\ created = 0 /\ redact = {} /\ shut = {}
    /\ marked = [p \in Clients |-> {}]
    /\ provider \in {NoOne, Host}
    /\ attached = [v \in Clients \cup {Host} |-> {}]
    /\ lock = {} /\ thread = [t \in Threads |-> Idle]
    /\ locals = 0
    /\ span = [s \in Spans |-> Unborn]
    /\ exported = {}
    /\ wanted = FALSE /\ redacts = 0

----------------------------------------------------------------------------
(* Bringing up a client                                                     *)

Started == \E s \in Spans : span[s].state # "unborn"

(* a client comes up before there are spans, and not in two ways at a time *)
Early ==
    /\ ~Started /\ locals = 0
    /\ \A u \in Threads : thread[u].pc = "idle" \/ thread[u].locked

(* the thread begins to construct a client *)
Construct(t, r, l) ==
    /\ created < MaxClients
    /\ created' = created + 1
    /\ thread' = [thread EXCEPT ![t] = [pc |-> "constructs", me |-> created + 1, joins |-> NoOne,
                                        redacts |-> r, locked |-> l]]
    /\ redact' = IF r THEN redact \cup {created + 1} ELSE redact

(* Mutants of initialize(): the lock is not taken; redact comes too late for a client
   that is there. *)
InitializeTwice(t, r) ==
    /\ thread[t].pc = "idle" /\ client = NoOne /\ ~Started
    /\ redacts < MaxRedacts /\ redacts' = redacts + 1
    /\ Construct(t, r, FALSE)
    /\ UNCHANGED <<client, shut, attached, provider, locals, spanVars, lock, wanted>>
InitializeOnce(t, r) ==
    /\ thread[t].pc = "idle" /\ lock = {}
    /\ Startup /\ client = NoOne => Early
    /\ redacts < MaxRedacts /\ redacts' = redacts + 1
    /\ \/ client # NoOne /\ wanted' = (wanted \/ r) /\ UNCHANGED <<created, redact, lock, thread>>
       \/ client = NoOne /\ Construct(t, r, TRUE) /\ lock' = {t} /\ UNCHANGED wanted
    /\ UNCHANGED <<client, shut, attached, provider, locals, spanVars>>

(* initialize(): with a client there, redact still applies to it, and the call is
   ignored otherwise; else the client is created, under the lock *)
Initialize(t, r) ==
    /\ thread[t].pc = "idle" /\ lock = {}
    /\ Startup /\ client = NoOne => Early
    /\ redacts < MaxRedacts /\ redacts' = redacts + 1
    /\ \/ /\ client # NoOne
          /\ redact' = IF r THEN redact \cup {client} ELSE redact
          /\ wanted' = (wanted \/ r)
          /\ UNCHANGED <<created, lock, thread>>
       \/ /\ client = NoOne
          /\ Construct(t, r, TRUE) /\ lock' = {t}
          /\ UNCHANGED wanted
    /\ UNCHANGED <<client, shut, attached, provider, locals, spanVars>>

(* get_client(): no lock *)
GetClient(t) == client = NoOne /\ Construct(t, FALSE, FALSE)

(* @observe: a local run anywhere in the process keeps get_client() from being called *)
Observe(t) ==
    /\ thread[t].pc = "idle" /\ locals = 0
    /\ Startup => Early /\ lock = {}
    /\ GetClient(t)
    /\ UNCHANGED <<client, shut, attached, provider, lock, locals, spanVars, wanted, redacts>>

(* _initialize: join the provider that is there, or make one *)
LooksForProvider(t) ==
    /\ thread[t].pc = "constructs"
    /\ thread' = [thread EXCEPT ![t].pc = "attaches", ![t].joins = provider]
    /\ UNCHANGED <<clientVars, lock, locals, spanVars, wanted, redacts>>

(* add_span_processor, and the own provider becomes global unless one is *)
Attaches(t) ==
    LET me == thread[t].me
        v == IF thread[t].joins = NoOne THEN me ELSE thread[t].joins
    IN  /\ thread[t].pc = "attaches"
        /\ attached' = [attached EXCEPT ![v] = @ \cup {me}]
        /\ provider' = IF provider = NoOne THEN v ELSE provider
        /\ thread' = [thread EXCEPT ![t].pc = "assigns"]
        /\ UNCHANGED <<client, created, redact, shut, lock, locals, spanVars, wanted, redacts>>

(* the new client becomes _client, and initialize() or get_client() returns *)
Assigns(t) ==
    /\ thread[t].pc = "assigns"
    /\ client' = thread[t].me
    /\ thread' = [thread EXCEPT ![t] = Idle]
    /\ lock' = lock \ {t}
    /\ wanted' = (wanted \/ thread[t].redacts)
    /\ UNCHANGED <<created, redact, shut, attached, provider, locals, spanVars, redacts>>

(* shutdown(): _client stays, without a processor *)
Shutdown ==
    /\ client # NoOne /\ client \notin shut
    /\ shut' = shut \cup {client}
    /\ UNCHANGED <<client, created, redact, attached, provider, lock, thread, locals, spanVars,
                   wanted, redacts>>

----------------------------------------------------------------------------
(* Spans                                                                    *)

LocalRunBegins == locals < MaxLocals /\ locals' = locals + 1
                  /\ UNCHANGED <<clientVars, lock, thread, spanVars, wanted, redacts>>
LocalRunEnds == locals > 0 /\ locals' = locals - 1
                /\ UNCHANGED <<clientVars, lock, thread, spanVars, wanted, redacts>>

(* LocalEvalSampler: a provider of a client makes no span of a local run *)
Sampled(local) == provider # NoOne /\ (local => provider = Host)

(* Mutant: a local span is not marked. *)
StartSpanUnmarked(s, local) ==
    /\ span[s].state = "unborn"
    /\ Startup => client # NoOne
    /\ Sampled(local)
    /\ span' = [span EXCEPT ![s] = [state |-> "open", in |-> provider, local |-> local]]
    /\ UNCHANGED <<clientVars, lock, thread, locals, marked, exported, wanted, redacts>>

(* on_start of every processor of the provider: a local span is marked.  Whether it is
   local comes with its context, not from the depth: a thread that outlives its local run
   still starts local spans *)
StartSpan(s, local) ==
    /\ span[s].state = "unborn"
    /\ Startup => client # NoOne
    /\ Sampled(local)
    /\ span' = [span EXCEPT ![s] = [state |-> "open", in |-> provider, local |-> local]]
    /\ marked' = [p \in Clients |->
          IF local /\ p \in attached[provider] \ shut THEN marked[p] \cup {s} ELSE marked[p]]
    /\ UNCHANGED <<clientVars, lock, thread, locals, exported, wanted, redacts>>

Live(s) == attached[span[s].in] \ shut

(* on_end of every processor of the provider: a local span is forgotten, any other
   exported, redacted if the processor has a function for it now *)
EndSpan(s) ==
    /\ span[s].state = "open"
    /\ span' = [span EXCEPT ![s].state = "ended"]
    /\ exported' = exported \cup
          {[by |-> p, of |-> s, redacted |-> p \in redact, wanted |-> wanted] :
              p \in {q \in Live(s) : s \notin marked[q]}}
    /\ marked' = [p \in Clients |-> IF p \in Live(s) THEN marked[p] \ {s} ELSE marked[p]]
    /\ UNCHANGED <<clientVars, lock, thread, locals, wanted, redacts>>

Next ==
    \/ \E t \in Threads :
          \/ \E r \in BOOLEAN : Initialize(t, r)
          \/ Observe(t) \/ LooksForProvider(t) \/ Attaches(t) \/ Assigns(t)
    \/ Shutdown \/ LocalRunBegins \/ LocalRunEnds
    \/ \E s \in Spans : EndSpan(s) \/ \E local \in BOOLEAN : StartSpan(s, local)

Spec == Init /\ [][Next]_vars

----------------------------------------------------------------------------
(* Properties                                                               *)

TypeOK ==
    /\ client \in Clients \cup {NoOne} /\ created \in 0 .. MaxClients
    /\ redact \subseteq Clients /\ shut \subseteq Clients
    /\ marked \in [Clients -> SUBSET Spans]
    /\ provider \in Clients \cup {NoOne, Host}
    /\ attached \in [Clients \cup {Host} -> SUBSET Clients]
    /\ lock \subseteq Threads /\ Cardinality(lock) <= 1
    /\ \A t \in Threads :
          /\ thread[t].pc \in {"idle", "constructs", "attaches", "assigns"}
          /\ thread[t].locked => t \in lock
    /\ locals \in 0 .. MaxLocals
    /\ \A s \in Spans : span[s].state \in {"unborn", "open", "ended"} /\ span[s].local \in BOOLEAN
    /\ \A e \in exported : e.by \in Clients /\ e.of \in Spans /\ e.redacted \in BOOLEAN
    /\ wanted \in BOOLEAN /\ redacts \in 0 .. MaxRedacts

(* With Startup (a client comes up before any span, and not lazily and by initialize() at a
   time): a span is exported once, however often and from however many threads initialize()
   is called (_init_lock, __init__.py:100). *)
ExportedOnce == \A d, e \in exported : d.of = e.of => d = e

(* "redact must still apply" (__init__.py:102): once an initialize(redact=...) has
   returned, no span that ends is exported as it is.  With Startup; it fails without, when
   @observe races initialize(). *)
RedactApplies == \A e \in exported : e.wanted => e.redacted

(* "a span born inside a local run never reaches TraceRoot" (span_processor.py:145),
   on the client's own provider and on a host's.  With Startup: a processor that joins a
   host's provider later, without the span's start, is not in it. *)
LocalStaysLocal == \A e \in exported : ~span[e.of].local
=============================================================================
