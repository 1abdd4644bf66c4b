------------------------------- MODULE Judge -------------------------------
(***************************************************************************)
(* The LLM judge (eval/judge.py) in a process that calls observed          *)
(* functions and generators (SpanTree), and the provider integrations that *)
(* initialize(integrations=...) installs (client.py,                       *)
(* instrumentation/registry.py).  Whether the judge makes an LLM span of   *)
(* its own is decided before the model is called, from the integrations    *)
(* the client says it has; whether the provider's library makes one, from  *)
(* those it was patched by.  The completions themselves and the libraries  *)
(* are external.                                                           *)
(***************************************************************************)
EXTENDS SpanTree

CONSTANTS
    Judges,     \* the tasks that run judges
    Requested,  \* the integrations initialize(integrations=...) may ask for
    Capitals,   \* subset of BOOLEAN: are model ids spelled with capitals?
    SetUpFirst  \* TRUE: initialize() has returned before there are spans

Anthropic == "anthropic"
OpenAI == "openai"
Providers == {Anthropic, OpenAI}

ASSUME JudgeAssumption ==
    Judges \subseteq Tasks /\ Requested \subseteq Providers /\ Capitals \subseteq BOOLEAN /\ SetUpFirst \in BOOLEAN

VARIABLES
    todo,     \* the integrations initialize_integrations() has yet to install
    patched,  \* the provider libraries that are instrumented
    active,   \* _client._instrumented, of the client other threads see
    judge     \* the judge each task runs

setUpVars == <<todo, patched, active>>
judgeVars == <<todo, patched, active, judge>>
vars == <<treeVars, judgeVars>>

(* spans: the LLM spans of the completion; priced: those with token counts *)
NoJudge == [pc |-> "idle", asks |-> "none", custom |-> FALSE, traced |-> FALSE, base |-> 0, spans |-> {}, priced |-> {}, reported |-> FALSE]

JudgeInit ==
    /\ Init
    /\ todo \in SUBSET Requested /\ patched = {} /\ active = {}
    /\ judge = [t \in Tasks |-> NoJudge]

----------------------------------------------------------------------------
(* initialize_integrations()                                                *)

(* one requested integration is installed, skipped because its package is not there, or
   fails *)
Installs(i) ==
    /\ i \in todo
    /\ todo' = todo \ {i}
    /\ patched' \in {patched, patched \cup {i}}
    /\ UNCHANGED <<active, judge, treeVars>>

(* initialize() returns and the client becomes the process's *)
Initialized ==
    /\ todo = {} /\ active # patched
    /\ active' = patched
    /\ UNCHANGED <<todo, patched, judge, treeVars>>

Ready == SetUpFirst => todo = {} /\ active = patched

----------------------------------------------------------------------------
(* A judge is run on a case                                                 *)

IsAt(t, pc) == judge[t].pc = pc
Goes(t, pc) == judge' = [judge EXCEPT ![t].pc = pc]

(* Mutant: an integration of any provider is taken for the model's. *)
AnyIntegrationTraces(family) == active # {}

(* _provider_integration_traces: by the lower-cased model id *)
ProviderIntegrationTraces(family) == family \in active

(* _default_complete: an id with capitals is none of anthropic's *)
Dispatched(family, capitals) == IF capitals THEN OpenAI ELSE family

(* the prompt is rendered - or the builder of a dynamic judge raises, is asynchronous or
   returns neither variables nor messages - and the judge decides whether the completion
   is traced by an integration; a custom complete, which may use any library or none, is
   not.  The engine runs a judge in the span of its scorer (engine.py:508). *)
BuilderFails(t) ==
    /\ IsAt(t, "idle") /\ Throws(t)
    /\ UNCHANGED judgeVars
Decides(t) ==
    /\ Runs(t) /\ IsAt(t, "idle") /\ Depth(t) > 0
    /\ LET of(custom, lib, traced) ==
              [NoJudge EXCEPT !.pc = "decided", !.custom = custom, !.asks = lib,
                              !.traced = traced, !.base = Depth(t)]
       IN  \/ \E family \in Providers, capitals \in Capitals :
                 judge' = [judge EXCEPT ![t] = of(FALSE, Dispatched(family, capitals),
                                                  ProviderIntegrationTraces(family))]
           \/ \E lib \in {OpenAI, "none"} : judge' = [judge EXCEPT ![t] = of(TRUE, lib, FALSE)]
    /\ UNCHANGED <<treeVars, setUpVars>>

(* _call, or _call_instrumented with an LLM span of its own *)
Invokes(t) ==
    /\ IsAt(t, "decided")
    /\ IF judge[t].traced THEN Goes(t, "invokes") /\ UNCHANGED treeVars
       ELSE /\ Call(t)
            /\ judge' = [judge EXCEPT ![t].pc = "invokes", ![t].spans = {Len(span) + 1}]
    /\ UNCHANGED setUpVars

(* the library is called, and makes a span of its own if it is patched *)
Asks(t) ==
    /\ IsAt(t, "invokes")
    /\ IF judge[t].asks \in patched
       THEN /\ Call(t)
            /\ judge' = [judge EXCEPT ![t].pc = "library",
                                      ![t].spans = @ \cup {Len(span) + 1}]
       ELSE Goes(t, "asks") /\ UNCHANGED treeVars
    /\ UNCHANGED setUpVars

(* the library answers; the span of an integration gets the tokens it reports, a custom
   complete returns none *)
Answers(t) ==
    /\ \E reported \in BOOLEAN :
       \/ /\ IsAt(t, "asks")
          /\ judge' = [judge EXCEPT ![t].pc = "answered",
                                    ![t].reported = reported /\ ~judge[t].custom]
          /\ UNCHANGED treeVars
       \/ /\ IsAt(t, "library")
          /\ judge' = [judge EXCEPT ![t].pc = "answered",
                                    ![t].reported = reported /\ ~judge[t].custom,
                                    ![t].priced = IF reported THEN @ \cup {Top(t)} ELSE @]
          /\ Returns(t)
    /\ UNCHANGED setUpVars

(* the completion fails, or an interrupt reaches it, and leaves the judge's spans *)
CompletionFails(t) ==
    /\ IsAt(t, "asks") \/ IsAt(t, "library")
    /\ Throws(t) /\ Goes(t, "fails")
    /\ UNCHANGED setUpVars
FailureLeaves(t) ==
    /\ IsAt(t, "fails")
    /\ IF Depth(t) > judge[t].base THEN Unwinds(t) /\ UNCHANGED judge
       ELSE judge' = [judge EXCEPT ![t] = NoJudge] /\ UNCHANGED treeVars
    /\ UNCHANGED setUpVars

(* Mutant: the tokens are recorded whether an integration has the call or not. *)
RecordsAlways(t) ==
    /\ IsAt(t, "answered")
    /\ judge' = [judge EXCEPT ![t].pc = "parses",
          ![t].priced = IF judge[t].reported /\ Depth(t) > 0 THEN @ \cup {Top(t)} ELSE @]
    /\ IF judge[t].traced THEN UNCHANGED treeVars ELSE Returns(t)
    /\ UNCHANGED setUpVars

(* _set_token_attributes on the judge's own span; a custom complete reports none *)
Records(t) ==
    /\ IsAt(t, "answered")
    /\ IF judge[t].traced THEN Goes(t, "parses") /\ UNCHANGED treeVars
       ELSE /\ judge' = [judge EXCEPT ![t].pc = "parses",
                   ![t].priced = IF judge[t].reported THEN @ \cup {Top(t)} ELSE @]
            /\ Returns(t)
    /\ UNCHANGED setUpVars

(* _parse_judge_output: the answer is a number, or has exactly one, or is a class name *)
JudgesText(exact, numbers, class) == class \/ exact \/ numbers = 1
Parses(t) ==
    /\ IsAt(t, "parses")
    /\ \E exact, class \in BOOLEAN, numbers \in 0 .. 2 :
          IF JudgesText(exact, numbers, class) THEN UNCHANGED treeVars ELSE Throws(t)
    /\ judge' = [judge EXCEPT ![t] = NoJudge]
    /\ UNCHANGED setUpVars

JudgeStep(t) ==
    \/ BuilderFails(t) \/ Decides(t) \/ Invokes(t) \/ Asks(t) \/ Answers(t)
    \/ CompletionFails(t) \/ FailureLeaves(t) \/ Records(t) \/ Parses(t)

(* everything else the task does is done outside of the judge *)
UserStep(t) == IsAt(t, "idle") /\ TaskStep(t) /\ UNCHANGED judgeVars

Next ==
    \/ \E i \in Providers : Installs(i)
    \/ Initialized
    \/ \E t \in Tasks : Ready /\ UserStep(t)
    \/ \E t \in Judges : Ready /\ JudgeStep(t)
    \/ \E s \in Born : (Abandons(s) \/ Finalises(s)) /\ UNCHANGED judgeVars

(* the event loop gets to its finalisers; nothing is assumed of the user's code *)
Fairness ==
    \A s \in 1 .. MaxSpans :
        WF_vars(s \in Born /\ Finalises(s) /\ UNCHANGED judgeVars)

Spec == JudgeInit /\ [][Next]_vars /\ Fairness

----------------------------------------------------------------------------
(* Properties                                                               *)

(* the completion has been answered and recorded, or has failed *)
Judged(t) == IsAt(t, "parses") \/ (IsAt(t, "fails") /\ Depth(t) = judge[t].base)

(* With the integrations installed before there are spans (SetUpFirst) and model ids in lower
   case, a completion a judge has asked for has one LLM span: "the integration emits one for the
   underlying request, and an LLM span nested inside an LLM span is redundant"
   (judge.py:78-80), and without an integration the judge's own span "is the ONLY record"
   (judge.py:323).  Only a custom complete that calls a traced library has two. *)
OneLlmSpan ==
    \A t \in Tasks : Judged(t) =>
        /\ judge[t].spans # {}
        /\ ~judge[t].custom => Cardinality(judge[t].spans) = 1

(* Under the same conditions the tokens the provider reports are on one span, or the call shows up costless
   or twice as dear (judge.py:324, 177-203). *)
PricedOnce ==
    \A t \in Tasks : Judged(t) =>
        /\ Cardinality(judge[t].priced) <= 1 /\ judge[t].priced \subseteq judge[t].spans
        /\ judge[t].reported => judge[t].priced # {}
=============================================================================
