---------------------------- MODULE ClaudeAgent ----------------------------
(***************************************************************************)
(* The instrumentation of the Claude agent SDK                             *)
(* (traceroot/instrumentation/claude_agent_sdk.py): the spans a stream of  *)
(* messages opens and closes (_QueryState), the one-shot query() wrapper   *)
(* and the wrappers of one persistent ClaudeSDKClient, whose turn is sent  *)
(* by one call and read by another.                                        *)
(*                                                                         *)
(* A span is a record; a parent is the index of a span.  Of the content of *)
(* a message the model keeps its context (parent_tool_use_id), its message *)
(* id and the tool it asks for or answers; attributes, names, usage and    *)
(* costs are left out.                                                     *)
(***************************************************************************)
EXTENDS Naturals, Sequences, FiniteSetsExt

CONSTANTS
    Agents,       \* ids of tool calls that spawn a subagent
    Plain,        \* ids of other tool calls
    Loose,        \* task ids of task events that name no tool call
    MessageIds,   \* ids an AssistantMessage may carry
    Readers,      \* the streams the user's code may open
    Root,         \* the context of the orchestrator: parent_tool_use_id is None
    None,         \* "no message id", "no tool"
    MaxTurns,     \* bound on the turns started
    MaxMessages   \* bound on the messages traced

Tools == Agents \cup Plain
TaskKeys == Agents \cup Loose
Contexts == {Root} \cup Agents

ASSUME CADistinct ==
    /\ Root \notin Tools \cup Loose /\ None \notin Tools \cup MessageIds
    /\ Agents \cap Plain = {} /\ Tools \cap Loose = {}
    /\ MaxTurns \in Nat /\ MaxMessages \in Nat

VARIABLES
    spans,     \* every span started, in order
    state,     \* the _QueryState of each turn, in the order they started
    current,   \* _CLIENT_STATES[client]: the client's turn, 0 for none
    asked,     \* the turn the agent is about to answer on the client, 0 for none
    sending,   \* the turn whose wrapped_query awaits the SDK's query(), 0 for none
    reader,    \* the generators of the user's streams
    messages,  \* messages traced so far
    failed,    \* history: the turns whose query() or stream raised
    cut        \* history: the turns cut short by the cleanup of an abandoned stream

vars == <<spans, state, current, asked, sending, reader, messages, failed, cut>>
history == <<failed, cut>>

Turns == 1 .. Len(state)
NoSpan == 0

Span(kind, t, key, parent) ==
    [kind |-> kind, turn |-> t, key |-> key, parent |-> parent, ends |-> 0,
     status |-> "unset", answered |-> FALSE, late |-> FALSE]

NewState(root) ==
    [root |-> root, llm |-> [k \in Contexts |-> NoSpan], mid |-> [k \in Contexts |-> None],
     boundary |-> {}, tools |-> [u \in Tools |-> NoSpan], agents |-> [u \in Agents |-> NoSpan],
     tasks |-> [k \in TaskKeys |-> NoSpan], over |-> {}]

(* span.end() of the spans in I *)
EndSpans(sp, I) ==
    [i \in DOMAIN sp |-> IF i \in I THEN [sp[i] EXCEPT !.ends = @ + 1] ELSE sp[i]]

Init ==
    /\ spans = << >> /\ state = << >> /\ messages = 0
    /\ current = 0 /\ asked = 0 /\ sending = 0 /\ failed = {} /\ cut = {}
    /\ reader = [r \in Readers |-> [pc |-> "idle", turn |-> 0, own |-> FALSE, asked |-> 0]]

----------------------------------------------------------------------------
(* The message engine                                                       *)

Reads(r) == reader[r].pc = "reading" /\ reader[r].turn # 0 /\ messages < MaxMessages

(* task_order: the spans of the subagents that have not ended.  Spans are numbered
   in the order they start, so the last of the list is the largest number. *)
Running(q) == {q.tasks[k] : k \in TaskKeys \ q.over} \ {NoSpan}

(* Mutant: every message nests under the subagent that is running. *)
ParentOfRunning(q, k) == IF Running(q) # {} THEN Max(Running(q)) ELSE q.root

(* _get_task_parent_ctx: the span a turn of context k nests under *)
ParentOf(q, k) ==
    IF k = Root THEN q.root
    ELSE IF q.tasks[k] # NoSpan THEN q.tasks[k]
    ELSE IF Running(q) # {} THEN Max(Running(q))
    ELSE q.root

(* Mutant: the message id alone tells turns apart. *)
NewTurnById(q, k, m) == q.llm[k] = NoSpan \/ (m # None /\ q.mid[k] # m)

(* the open LLM span of the context cannot be continued by this message *)
NewTurn(q, k, m) ==
    \/ q.llm[k] = NoSpan
    \/ k \in q.boundary
    \/ m # None /\ q.mid[k] # m

(* Mutant: the span of the turn before stays open. *)
OpenLlmBeside(t, q, k) == Append(spans, Span("llm", t, k, ParentOf(q, k)))

(* the previous span of the context ends where the new one starts *)
OpenLlm(t, q, k) ==
    Append(EndSpans(spans, {q.llm[k]} \ {NoSpan}), Span("llm", t, k, ParentOf(q, k)))

Is(sp, i, kind, t, key) ==
    i \in DOMAIN sp /\ sp[i].kind = kind /\ sp[i].turn = t /\ sp[i].key = key

(* the agent asks for a tool once per turn *)
Fresh(t, u) == \A i \in DOMAIN spans : ~Is(spans, i, "tool", t, u)

(* a message comes from the orchestrator or from a subagent that was heard of *)
Heard(q, k) == k \in Agents => q.tasks[k] # NoSpan \/ q.agents[k] # NoSpan

(* An AssistantMessage of context k with id m that asks for the tool u:
   _open_or_continue_llm_span, then _start_tool_spans_from_message. *)
AssistantMessage(r, k, m, u) ==
    LET t == reader[r].turn
        q == state[t]
        new == NewTurn(q, k, m)
        opened == IF new THEN OpenLlm(t, q, k) ELSE spans
        l == IF new THEN Len(opened) ELSE q.llm[k]
        said == [opened EXCEPT ![l].late = @ \/ opened[l].answered]
        heard == [q EXCEPT !.llm[k] = l, !.mid[k] = IF new THEN m ELSE @, !.boundary = @ \ {k}]
    IN  /\ Reads(r)
        /\ Heard(q, k)
        /\ messages' = messages + 1
        /\ \/ /\ u = None
              /\ spans' = said
              /\ state' = [state EXCEPT ![t] = heard]
           \/ /\ u \in Tools /\ Fresh(t, u)
              /\ spans' = Append(said, Span("tool", t, u, l))
              /\ state' = [state EXCEPT ![t] =
                    [heard EXCEPT !.tools[u] = Len(spans'),
                        !.agents = [a \in Agents |-> IF a = u THEN Len(spans') ELSE @[a]]]]
        /\ UNCHANGED <<current, asked, sending, reader, history>>

(* the spans in I asked for something that is answered now *)
AnswerSpans(sp, I) == [i \in DOMAIN sp |-> [sp[i] EXCEPT !.answered = @ \/ i \in I]]

(* The LLM spans of context k that asked turn t's call u: a result of u in this
   context answers them. *)
Askers(t, k, u) ==
    {p \in {spans[i].parent : i \in {j \in DOMAIN spans : Is(spans, j, "tool", t, u)}} :
        spans[p].key = k}

(* A UserMessage of context k with a result of tool u, known or not: a known one that
   is open ends, and the turn of this context is over in any case. *)
UserMessage(r, k, u) ==
    LET t == reader[r].turn
        q == state[t]
    IN  /\ Reads(r)
        /\ Heard(q, k)
        /\ spans' = AnswerSpans(EndSpans(spans, {q.tools[u]} \ {NoSpan}), Askers(t, k, u))
        /\ state' = [state EXCEPT ![t].tools[u] = NoSpan, ![t].boundary = @ \cup {k}]
        /\ messages' = messages + 1
        /\ UNCHANGED <<current, asked, sending, reader, history>>

(* the span a new subagent span hangs under: its tool call when known *)
TaskParent(q, k) ==
    IF k \notin Agents THEN q.root
    ELSE IF q.tools[k] # NoSpan THEN q.tools[k]
    ELSE IF q.agents[k] # NoSpan THEN q.agents[k]
    ELSE q.root

(* Mutant: an event after the end of a subagent starts another span. *)
FirstEventOrOver(q, k) == q.tasks[k] = NoSpan \/ k \in q.over

FirstEvent(q, k) == q.tasks[k] = NoSpan
LastEvent(q, k, done) == done /\ k \notin q.over

(* TaskStarted or TaskProgress, or, with done, TaskNotification of subagent k *)
TaskMessage(r, k, done) ==
    LET t == reader[r].turn
        q == state[t]
        seen == IF FirstEvent(q, k) THEN Append(spans, Span("task", t, k, TaskParent(q, k)))
                ELSE spans
        s == IF FirstEvent(q, k) THEN Len(seen) ELSE q.tasks[k]
    IN  /\ Reads(r)
        /\ spans' = IF LastEvent(q, k, done) THEN EndSpans(seen, {s}) ELSE seen
        /\ state' = [state EXCEPT ![t] =
              [q EXCEPT !.tasks[k] = s, !.over = IF done THEN @ \cup {k} ELSE @]]
        /\ messages' = messages + 1
        /\ UNCHANGED <<current, asked, sending, reader, history>>

----------------------------------------------------------------------------
(* Turns                                                                    *)

(* what end_all() ends *)
OpenSpans(q) ==
    ({q.llm[k] : k \in Contexts} \cup {q.tools[u] : u \in Tools}
        \cup {q.tasks[k] : k \in TaskKeys \ q.over}) \ {NoSpan}

(* end_all(), then the end of the query span, of turn t (none when t is 0) *)
Ended(t, status) ==
    IF t = 0 THEN spans
    ELSE [EndSpans(spans, OpenSpans(state[t]) \cup {state[t].root}) EXCEPT
             ![state[t].root].status = status]

Cleared(t) ==
    IF t = 0 THEN state
    ELSE [state EXCEPT ![t] = [@ EXCEPT !.llm = [k \in Contexts |-> NoSpan],
                                        !.tools = [u \in Tools |-> NoSpan],
                                        !.tasks = [k \in TaskKeys |-> NoSpan],
                                        !.over = {}]]

(* The user's calls on the client follow one another: none is made while a stream of
   the client is read.  An abandoned stream is no obstacle, closed or not. *)
MayCall == \A r \in Readers : ~reader[r].own => reader[r].pc # "reading"

(* What otel_context.get_current() may name where a turn starts: no span, or the turn
   of a stream that is open in this context, or that was abandoned there (its detach
   runs in the task that closes it, which leaves the context as it is). *)
Parents ==
    {NoSpan} \cup
    {state[reader[r].turn].root : r \in {x \in Readers :
        reader[x].turn # 0 /\ reader[x].pc \in {"reading", "dropped", "closed"}}}

(* Mutant: a turn that was never read is continued. *)
ClientQueryContinues ==
    /\ sending = 0 /\ MayCall /\ Len(state) < MaxTurns
    /\ LET t == Len(state) + 1
       IN  /\ \E parent \in Parents : spans' = Append(spans, Span("query", t, Root, parent))
           /\ state' = Append(state, NewState(Len(spans) + 1))
           /\ current' = IF current = 0 THEN t ELSE current
           /\ sending' = t
    /\ asked' = 0
    /\ UNCHANGED <<reader, messages, history>>

(* wrapped_query ends a turn that was never read, then starts its own *)
ClientQuery ==
    /\ sending = 0 /\ MayCall /\ Len(state) < MaxTurns
    /\ LET ended == Ended(current, "ok")
           t == Len(state) + 1
       IN  /\ \E parent \in Parents : spans' = Append(ended, Span("query", t, Root, parent))
           /\ state' = Append(Cleared(current), NewState(Len(ended) + 1))
           /\ current' = t /\ sending' = t
    /\ asked' = 0
    /\ UNCHANGED <<reader, messages, history>>

(* the SDK's query() returns, or is cancelled once the prompt is out *)
SendReturns ==
    /\ sending # 0 /\ sending' = 0
    /\ asked' = sending
    /\ UNCHANGED <<spans, state, current, reader, messages, history>>

(* Mutant: the turn ends as if nothing had happened. *)
SendRaisesQuietly ==
    /\ sending # 0 /\ sending' = 0
    /\ spans' = Ended(current, "ok") /\ state' = Cleared(current) /\ current' = 0
    /\ failed' = failed \cup {sending}
    /\ UNCHANGED <<asked, reader, messages, cut>>

(* it raises: the turn the client has now ends in error *)
SendRaises ==
    /\ sending # 0 /\ sending' = 0
    /\ spans' = Ended(current, "error") /\ state' = Cleared(current) /\ current' = 0
    /\ failed' = failed \cup {sending}
    /\ UNCHANGED <<asked, reader, messages, cut>>

(* the first step of a receive_response() generator; without a turn the stream
   is passed through untraced *)
ClientReads(r) ==
    /\ reader[r].pc = "idle" /\ sending = 0 /\ MayCall
    /\ reader' = [reader EXCEPT ![r] = [pc |-> "reading", turn |-> current, own |-> FALSE, asked |-> asked]]
    /\ asked' = 0
    /\ UNCHANGED <<spans, state, current, sending, messages, history>>

(* the first step of a one-shot query() generator, with a state of its own *)
OneShotReads(r) ==
    /\ reader[r].pc = "idle" /\ Len(state) < MaxTurns
    /\ LET t == Len(state) + 1
       IN  /\ \E parent \in Parents : spans' = Append(spans, Span("query", t, Root, parent))
           /\ state' = Append(state, NewState(Len(spans) + 1))
           /\ reader' = [reader EXCEPT ![r] = [pc |-> "reading", turn |-> t, own |-> TRUE, asked |-> t]]
    /\ UNCHANGED <<current, asked, sending, messages, history>>

(* the user leaves the loop: the generator is closed by the event loop later *)
Breaks(r) ==
    /\ reader[r].pc = "reading"
    /\ reader' = [reader EXCEPT ![r].pc = "dropped"]
    /\ UNCHANGED <<spans, state, current, asked, sending, messages, history>>

(* The finally block of a generator ends a turn: the one-shot generator its own, that
   of the client whatever turn the client has by now.  A turn is cut short when it is
   not this generator's, or another one still reads it. *)
Finalizes(r, pc, status) ==
    LET g == reader[r]
        t == IF g.own THEN g.turn ELSE IF g.turn = 0 THEN 0 ELSE current
    IN  /\ spans' = Ended(t, status) /\ state' = Cleared(t)
        /\ current' = IF g.own \/ g.turn = 0 THEN current ELSE 0
        /\ reader' = [reader EXCEPT ![r].pc = pc]
        /\ cut' = cut \cup {c \in {t} \ {0} :
              c # g.turn \/ \E s \in Readers \ {r} : reader[s].pc = "reading" /\ reader[s].turn = c}
        /\ UNCHANGED <<asked, sending, messages>>

(* the stream is over (after the ResultMessage), or the SDK cancels itself *)
StreamEnds(r) == reader[r].pc = "reading" /\ Finalizes(r, "done", "ok") /\ UNCHANGED failed

StreamRaises(r) ==
    /\ reader[r].pc = "reading" /\ Finalizes(r, "done", "error")
    /\ failed' = failed \cup ({reader[r].turn} \ {0})

(* aclose() of an abandoned generator, in a task of the event loop *)
Closes(r) == reader[r].pc = "dropped" /\ Finalizes(r, "closed", "ok") /\ UNCHANGED failed

(* disconnect(), also the end of `async with` *)
Disconnect ==
    /\ sending = 0 /\ MayCall
    /\ current # 0 \/ asked # 0
    /\ spans' = Ended(current, "ok") /\ state' = Cleared(current)
    /\ current' = 0 /\ asked' = 0
    /\ UNCHANGED <<sending, reader, messages, history>>

Next ==
    \/ ClientQuery \/ SendReturns \/ SendRaises \/ Disconnect
    \/ \E r \in Readers :
          \/ \E k \in Contexts, m \in MessageIds \cup {None}, u \in Tools \cup {None} :
                AssistantMessage(r, k, m, u)
          \/ \E k \in Contexts, u \in Tools : UserMessage(r, k, u)
          \/ \E k \in TaskKeys, done \in BOOLEAN : TaskMessage(r, k, done)
          \/ ClientReads(r) \/ OneShotReads(r) \/ Breaks(r)
          \/ StreamEnds(r) \/ StreamRaises(r) \/ Closes(r)

Spec == Init /\ [][Next]_vars

----------------------------------------------------------------------------
(* Properties                                                               *)

SpanRecord ==
    [kind : {"query", "llm", "tool", "task"}, turn : Nat, key : Contexts \cup Tools \cup TaskKeys,
     parent : Nat, ends : Nat, status : {"unset", "ok", "error"}, answered : BOOLEAN, late : BOOLEAN]

StateRecord ==
    [root : Nat, llm : [Contexts -> Nat], mid : [Contexts -> MessageIds \cup {None}],
     boundary : SUBSET Contexts, tools : [Tools -> Nat], agents : [Agents -> Nat],
     tasks : [TaskKeys -> Nat], over : SUBSET TaskKeys]

ReaderRecord ==
    [pc : {"idle", "reading", "dropped", "done", "closed"}, turn : Turns \cup {0},
     own : BOOLEAN, asked : Turns \cup {0}]

(* The types of the variables. *)
TypeOK ==
    /\ spans \in Seq(SpanRecord) /\ \A i \in DOMAIN spans : spans[i].turn \in Turns
    /\ state \in Seq(StateRecord)
    /\ current \in Turns \cup {0} /\ asked \in Turns \cup {0} /\ sending \in Turns \cup {0}
    /\ reader \in [Readers -> ReaderRecord]
    /\ messages \in Nat /\ failed \subseteq Turns /\ cut \subseteq Turns

(* A turn ends whole: once its query span has ended, so has every span of the turn, or
   it would never be exported (claude_agent_sdk.py:617); and no span is ended twice,
   whoever ends it: the next turn of its context, a tool result, a notification, the end
   of the stream, the next query() or disconnect().  The exception is a turn that the
   cleanup of an earlier, abandoned stream cuts short (claude_agent_sdk.py:677): what
   its own stream still opens is never ended. *)
TurnEndsWhole ==
    \A i \in DOMAIN spans :
        /\ spans[i].ends <= 1
        /\ spans[state[spans[i].turn].root].ends > 0 =>
              spans[i].ends = 1 \/ spans[i].turn \in cut

(* A subagent has one span in its turn, whatever the order of its task events and
   however late they come (_handle_task_event); not in a turn that was cut short, whose
   table of subagents was cleared under the stream. *)
OneSpanPerSubagent ==
    \A i, j \in DOMAIN spans :
        /\ spans[i].kind = "task" /\ spans[j].kind = "task"
        /\ spans[i].turn = spans[j].turn /\ spans[i].key = spans[j].key
        /\ spans[i].turn \notin cut
        => i = j

(* A subagent the orchestrator spawned never nests inside another subagent
   (claude_agent_sdk.py:215): above its span there are spans of other kinds only. *)
SubagentsAreSiblings ==
    \A i, p \in DOMAIN spans :
        /\ spans[i].kind = "task" /\ spans[i].parent = p
        /\ spans[p].kind = "tool" /\ spans[spans[p].parent].key = Root
        => \E above \in SUBSET {j \in DOMAIN spans : spans[j].kind # "task"} :
              p \in above /\ \A j \in above : spans[j].parent \in above \cup {NoSpan}

(* A tool result closes the LLM turn of the context it comes in: no span holds output of
   the agent from before and from after the answer to what it asked for, with or without
   message ids (claude_agent_sdk.py:193-195). *)
AnswersSplitTurns == \A i \in DOMAIN spans : ~spans[i].late

(* A turn that failed shows it, whether the SDK's query() raised or its stream did: its
   query span has the status of an error, and nobody who ends turns takes it back.  Only
   the cleanup of another turn's stream can have ended the turn as a success before. *)
FailureIsShown == \A t \in failed \ cut : spans[state[t].root].status = "error"

(* a stream of the client was abandoned in a turn before t, and closed *)
Overtaken(t) ==
    \E s \in Readers :
        reader[s].pc = "closed" /\ ~reader[s].own /\ reader[s].turn \in 1 .. (t - 1)

(* The response to a query() is traced, in the turn that query() started: "Each
   query()/receive_response() turn gets its own root span" (claude_agent_sdk.py:572).
   The code keeps this but for one case: the stream of an earlier turn was abandoned,
   and its cleanup came after the new query() and ended the new turn (line 677 ends
   whatever turn the client has). *)
ResponseIsTraced ==
    \A r \in Readers : reader[r].asked # 0 =>
        reader[r].turn = reader[r].asked \/ Overtaken(reader[r].asked)

----------------------------------------------------------------------------
(* Why they hold: the inductive invariant                                   *)

Active(r) == reader[r].pc \in {"reading", "dropped"}

(* somebody will still end turn t *)
Live(t) == current = t \/ \E r \in Readers : reader[r].own /\ Active(r) /\ reader[r].turn = t

(* A turn is live, was cut short, or is over. *)
Phase(t) == IF Live(t) THEN "live" ELSE IF t \in cut THEN "cut" ELSE "over"

(* The tables of a turn hold its own spans, each under its key. *)
TablesInv(sp, q, t) ==
    /\ Is(sp, q.root, "query", t, Root)
    /\ \A k \in Contexts : q.llm[k] # NoSpan => Is(sp, q.llm[k], "llm", t, k)
    /\ \A u \in Tools : q.tools[u] # NoSpan => Is(sp, q.tools[u], "tool", t, u)
    /\ \A k \in TaskKeys : q.tasks[k] # NoSpan => Is(sp, q.tasks[k], "task", t, k)
    /\ \A k \in q.over : q.tasks[k] # NoSpan

(* Open are the spans in the tables of a turn that is not over, and its query span
   while it is live. *)
StillOpen(q, i, how) == \/ how # "over" /\ i \in OpenSpans(q)
                        \/ how = "live" /\ i = q.root

EndsInv(sp, q, t, how) ==
    \A i \in DOMAIN sp : sp[i].turn = t => sp[i].ends = IF StillOpen(q, i, how) THEN 0 ELSE 1

(* A subagent has one span; the table of a live turn remembers it, ended or not. *)
TasksInv(sp, q, t, how) ==
    \A i \in DOMAIN sp : sp[i].turn = t /\ sp[i].kind = "task" =>
        /\ sp[i].key \in TaskKeys
        /\ how = "live" => q.tasks[sp[i].key] = i
        /\ how # "cut" => \A j \in DOMAIN sp : Is(sp, j, "task", t, sp[i].key) => i = j

(* A tool call hangs under the LLM span that asked for it; an LLM span that was
   answered is not continued. *)
CallsInv(sp, q, t) ==
    /\ \A i \in DOMAIN sp : sp[i].turn = t => ~sp[i].late
    /\ \A i \in DOMAIN sp : sp[i].turn = t /\ sp[i].kind = "tool" =>
          \E k \in Contexts : Is(sp, sp[i].parent, "llm", t, k)
    /\ \A k \in Contexts : q.llm[k] # NoSpan /\ sp[q.llm[k]].answered => k \in q.boundary

TurnInv(sp, q, t, how) ==
    /\ TablesInv(sp, q, t) /\ EndsInv(sp, q, t, how)
    /\ TasksInv(sp, q, t, how) /\ CallsInv(sp, q, t)

TurnsInv == \A t \in Turns : TurnInv(spans, state[t], t, Phase(t))

(* The generators: one stream of the client is read at a time, in the turn the client
   has unless it was cut short; one-shot queries have turns of their own, which nobody
   else ends; nobody reads yet a turn that is sent or about to be answered, or one after
   the client's; a turn that failed or was cut short is not live. *)
ReadersInv ==
    /\ \A r \in Readers :
          /\ reader[r].pc = "idle" => reader[r].turn = 0 /\ reader[r].asked = 0 /\ ~reader[r].own
          /\ reader[r].own => reader[r].turn \in Turns \ (cut \cup {current})
          /\ reader[r].pc = "reading" /\ ~reader[r].own =>
                /\ reader[r].turn = current \/ (current = 0 /\ reader[r].turn \in cut)
                /\ sending = 0 /\ asked = 0
          /\ reader[r].turn # 0 => reader[r].turn \notin {sending, asked}
          /\ ~reader[r].own /\ current # 0 => reader[r].turn <= current
    /\ \A r, s \in Readers :
          /\ reader[r].own /\ reader[s].own /\ reader[r].turn = reader[s].turn => r = s
          /\ reader[r].pc = "reading" /\ reader[s].pc = "reading" /\ ~reader[r].own /\ ~reader[s].own
                => r = s
    /\ \A t \in failed \cup cut : ~Live(t)

(* The turn that is sent, or about to be answered, is the one the client has, unless the
   cleanup of an abandoned stream took it. *)
ClientInv ==
    /\ sending # 0 => asked = 0
    /\ \A t \in {sending, asked} \ {0} :
          current = t \/ (current = 0 /\ t \in cut /\ Overtaken(t))

(* A query span nests under query spans only, and the orchestrator speaks right under
   the query span. *)
NestInv(sp) ==
    \A i \in DOMAIN sp :
        /\ sp[i].kind = "query" /\ sp[i].parent # NoSpan =>
              sp[i].parent \in DOMAIN sp /\ sp[sp[i].parent].kind = "query"
        /\ sp[i].kind = "llm" /\ sp[i].key = Root =>
              sp[i].parent \in DOMAIN sp /\ sp[sp[i].parent].kind = "query"

AgentInv ==
    /\ TypeOK /\ TurnsInv /\ ReadersInv /\ ClientInv
    /\ FailureIsShown /\ ResponseIsTraced
============================================================================
