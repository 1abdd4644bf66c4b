------------------------------ MODULE SpanTree ------------------------------
(***************************************************************************)
(* The tree of spans that @observe builds around functions and generators  *)
(* (decorators.py), and the path of ancestors the span processor stamps on *)
(* each span from a bounded map of the open spans                          *)
(* (transport/span_processor.py, on_start and on_end).                     *)
(*                                                                         *)
(* Tasks are threads or asyncio tasks; each has OpenTelemetry's current    *)
(* span (external: a context variable, copied into a task that is spawned) *)
(* and a stack of the observed bodies it is executing.  The sync and async *)
(* wrappers of a function behave alike; an asynchronous generator differs  *)
(* from a synchronous one in how it ends when it is not read to its end.   *)
(***************************************************************************)
EXTENDS Naturals, Sequences, FiniteSets

CONSTANTS
    Tasks,      \* the tasks
    Main,       \* the one that is there from the start
    MaxSpans,   \* bound on the spans
    PathMapMax  \* _PATH_MAP_MAX, the spans the path map holds

ASSUME SpanTreeAssumption ==
    Main \in Tasks /\ MaxSpans \in Nat /\ PathMapMax \in Nat \ {0}

VARIABLES
    span,     \* the spans, in the order they are started in
    pathMap,  \* the spans with an entry in _ids_path_by_span_id and _name_path_by_span_id
    crowded,  \* history: there have been more open spans than the map holds
    task      \* the tasks

spanVars == <<span, pathMap, crowded>>
treeVars == <<spanVars, task>>

Born == DOMAIN span
IsOpen(s) == span[s].state # "ended"
Asleep == [alive |-> FALSE, current |-> 0, frames |-> <<>>, mode |-> "runs"]

Init ==
    /\ span = <<>> /\ pathMap = {} /\ crowded = FALSE
    /\ task = [t \in Tasks |-> [Asleep EXCEPT !.alive = (t = Main)]]

----------------------------------------------------------------------------
(* on_start and on_end                                                      *)

(* Mutant: the attributes of the parent are not read. *)
PathFromMap(p, blind) ==
    IF p = 0 THEN <<>> ELSE IF p \notin pathMap THEN <<p>> ELSE Append(span[p].path, p)

(* the path of a span under p: p's own path, from the map or else from the attributes of
   p, which a context that holds only the identity of p (blind) does not have *)
PathUnder(p, blind) ==
    IF p = 0 THEN <<>>
    ELSE IF blind /\ p \notin pathMap THEN <<p>> ELSE Append(span[p].path, p)

(* spans enter the map in the order of their numbers *)
Oldest == CHOOSE s \in pathMap : \A x \in pathMap : s <= x

(* a span starts under p, the oldest entry of a full map giving way to its own *)
Starts(p, blind, by, state) ==
    /\ Len(span) < MaxSpans
    /\ span' = Append(span,
          [parent |-> p, path |-> PathUnder(p, blind), by |-> by, state |-> state,
           cut |-> blind /\ p # 0 /\ (crowded \/ ~IsOpen(p))])
    /\ pathMap' = (IF Cardinality(pathMap) >= PathMapMax THEN pathMap \ {Oldest} ELSE pathMap)
                  \cup {Len(span) + 1}
    /\ crowded' = (crowded \/ Cardinality({s \in Born : IsOpen(s)}) >= PathMapMax)

Ends(s) ==
    /\ span' = [span EXCEPT ![s].state = "ended"]
    /\ pathMap' = pathMap \ {s}
    /\ UNCHANGED crowded

Becomes(s, state) == /\ span' = [span EXCEPT ![s].state = state]
                     /\ UNCHANGED <<pathMap, crowded>>

----------------------------------------------------------------------------
(* The wrappers of @observe                                                 *)

Runs(t) == task[t].alive /\ task[t].mode = "runs"
Depth(t) == Len(task[t].frames)
Top(t) == task[t].frames[Depth(t)].of

(* the body of span s begins or goes on in t; a function's span becomes current *)
Enter(t, s, current) ==
    task' = [task EXCEPT ![t].frames = Append(@, [of |-> s, back |-> task[t].current]),
                         ![t].current = current]

(* it is left, and what was current before is again *)
Leave(t, mode) ==
    task' = [task EXCEPT ![t].frames = SubSeq(@, 1, Depth(t) - 1),
                         ![t].current = task[t].frames[Depth(t)].back,
                         ![t].mode = mode]

(* an observed function is called: start_as_current_span.  A span of an integration
   (external) starts in the same way; its context may hold only the identity of its
   parent, a span of a run it has recorded itself. *)
Call(t) ==
    /\ Runs(t)
    /\ Starts(task[t].current, FALSE, "call", "running")
    /\ Enter(t, Len(span) + 1, Len(span) + 1)
ForeignCall(t) ==
    /\ Runs(t)
    /\ \E p \in Born : Starts(p, TRUE, "call", "running")
    /\ Enter(t, Len(span) + 1, Len(span) + 1)

(* the first next() of an observed generator: its span starts and is not made current *)
FirstNext(t) ==
    /\ Runs(t)
    /\ \E by \in {"gen", "asyncgen"} : Starts(task[t].current, FALSE, by, "running")
    /\ Enter(t, Len(span) + 1, task[t].current)

(* ... or the function does not take the arguments: the span has started outside of the
   try that ends it, and nothing does *)
FirstNextFails(t) ==
    /\ Runs(t)
    /\ \E by \in {"gen", "asyncgen"} : Starts(task[t].current, FALSE, by, "stillborn")
    /\ task' = [task EXCEPT ![t].mode = "raises"]

(* the generator yields, and whoever holds it asks it for more *)
Yields(t) ==
    /\ Runs(t) /\ Depth(t) > 0 /\ span[Top(t)].by # "call"
    /\ Becomes(Top(t), "suspended") /\ Leave(t, "runs")
Resumes(t, s) ==
    /\ Runs(t) /\ span[s].state = "suspended"
    /\ Becomes(s, "running") /\ Enter(t, s, task[t].current)

(* the body returns, or the generator is exhausted *)
Returns(t) ==
    /\ Runs(t) /\ Depth(t) > 0
    /\ Ends(Top(t)) /\ Leave(t, "runs")

(* the body raises an exception, is interrupted or cancelled (BaseException) ... *)
Throws(t) ==
    /\ Runs(t) /\ Depth(t) > 0
    /\ task' = [task EXCEPT ![t].mode = "raises"]
    /\ UNCHANGED spanVars

(* Mutant: a generator's span is ended by its end or an Exception, not by finally. *)
UnwindsWithoutFinally(t) ==
    /\ task[t].mode = "raises" /\ Depth(t) > 0
    /\ Ends(Top(t)) \/ (span[Top(t)].by # "call" /\ UNCHANGED spanVars)
    /\ Leave(t, "raises")

(* ... which leaves the observed body and ends its span.  (The status of the span is not
   kept here: an Exception sets it, anything else does not.) *)
Unwinds(t) ==
    /\ task[t].mode = "raises" /\ Depth(t) > 0
    /\ Ends(Top(t)) /\ Leave(t, "raises")

(* user code catches it *)
Catches(t) ==
    /\ task[t].mode = "raises"
    /\ task' = [task EXCEPT ![t].mode = "runs"]
    /\ UNCHANGED spanVars

(* a generator is closed or dropped before its end: a synchronous one ends there and then,
   the inner one of an asynchronous one is left to the event loop ...  *)
Abandons(s) ==
    /\ span[s].state = "suspended"
    /\ IF span[s].by = "gen" THEN Ends(s) ELSE Becomes(s, "finalising")
    /\ UNCHANGED task

(* ... which closes it some time later *)
Finalises(s) ==
    /\ span[s].state = "finalising"
    /\ Ends(s)
    /\ UNCHANGED task

(* a task is spawned in a copy of the context, and may outlive the spans in it *)
Spawns(t, u) ==
    /\ Runs(t) /\ ~task[u].alive
    /\ task' = [task EXCEPT ![u] = [Asleep EXCEPT !.alive = TRUE, !.current = task[t].current]]
    /\ UNCHANGED spanVars
Finishes(t) ==
    /\ task[t].alive /\ Depth(t) = 0
    /\ task' = [task EXCEPT ![t] = Asleep]
    /\ UNCHANGED spanVars

TaskStep(t) ==
    \/ Call(t) \/ ForeignCall(t) \/ FirstNext(t) \/ FirstNextFails(t)
    \/ Yields(t) \/ (\E s \in Born : Resumes(t, s))
    \/ Returns(t) \/ Throws(t) \/ Unwinds(t) \/ Catches(t)
    \/ (\E u \in Tasks : Spawns(t, u)) \/ Finishes(t)
TreeNext ==
    \/ \E t \in Tasks : TaskStep(t)
    \/ \E s \in Born : Abandons(s) \/ Finalises(s)

TreeSpec == Init /\ [][TreeNext]_treeVars

----------------------------------------------------------------------------
(* Properties                                                               *)

SpanIds == 1 .. MaxSpans
SpanRecord ==
    [parent : SpanIds \cup {0}, path : Seq(SpanIds), by : {"call", "gen", "asyncgen"},
     state : {"running", "suspended", "finalising", "stillborn", "ended"},
     cut : BOOLEAN]

TypeOK ==
    /\ span \in Seq(SpanRecord) /\ Len(span) <= MaxSpans
    /\ pathMap \subseteq Born
    /\ crowded \in BOOLEAN
    /\ task \in [Tasks -> [alive : BOOLEAN, current : SpanIds \cup {0},
                           frames : Seq([of : SpanIds, back : SpanIds \cup {0}]),
                           mode : {"runs", "raises"}]]

(* The path stamped on a span is that of its parent and the parent itself, whether the
   parent is still in the map, has been dropped from it, or has ended, and also for the
   spans of an integration whose context carries no attributes, as long as the parent is
   open and the map has not overflowed (span_processor.py:331-384). *)
PathIsAncestry ==
    \A s \in Born : LET p == span[s].parent IN
        IF p = 0 THEN span[s].path = <<>>
        ELSE ~span[s].cut => span[s].path = Append(span[p].path, p)

(* An open span whose body no task executes, and which no one can resume, ends: "Span must
   close even if generator is abandoned mid-way" (tests/test_integration_smoothness.py:260),
   through return, error, cancellation or close.  A generator that could not be created is
   left out: its span is never ended. *)
Executed(s) == \E t \in Tasks : \E i \in DOMAIN task[t].frames : task[t].frames[i].of = s
Over(s) == /\ s \in Born
           /\ span[s].state \notin {"suspended", "stillborn"} /\ ~Executed(s)
EverySpanEnds == \A s \in SpanIds : Over(s) ~> (s \in Born /\ span[s].state = "ended")
=============================================================================
