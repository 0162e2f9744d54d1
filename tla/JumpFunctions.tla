----------------------------- MODULE JumpFunctions -----------------------------
(***************************************************************************)
(* The IDE solver: IDESolver.solve of pyflow/analysis/ifds/core/solver.py  *)
(* and the edge functions of core/problem.py.  The worklist is that of     *)
(* Tabulation, but each path edge carries a jump function, and is queued   *)
(* again when its function changes; a second phase then hands values from  *)
(* the seeds to the callees and reads the result off.                      *)
(*                                                                         *)
(* An edge function is the set of the terms it joins, and a term is the    *)
(* sequence of the primitive functions it composes, the outermost first;   *)
(* <<>> is the identity.  The code keeps joined terms in the order they    *)
(* came, but only asks whether a join has terms that are new.              *)
(***************************************************************************)
EXTENDS SolverBookkeeping, SequencesExt

CONSTANTS Values, BottomValue, JoinValues(_, _), SeedValue(_, _),
          Primitives, Constants, Idempotent,
          Compute(_, _),              \* primitive, value
          NormalFunction(_, _, _, _, _),
          BypassFunction(_, _, _, _, _),
          CallFunction(_, _, _, _, _),
                  \* problem, node, successor, continuation or callee, fact, its image
          ReturnFunction(_, _, _, _, _, _, _, _)
                  \* problem, node, callee, end, continuation, fact at the call, at the
                  \* end, its image

VARIABLES
    jumps,       \* for each path edge propagated so far, its jump function
    pending,     \* the edges to process: the queue
    calls,       \* [callee, caller, site, jump]: who waits at the end of an activation
    endings,     \* for each edge that reached the end of its activation, its summary
    sources      \* the values found for the keys of activations, in the second phase

ideVars == <<jumps, pending, calls, endings, sources>>
vars == <<problem, status, cancelled, ideVars>>

Identity == {<<>>}
Terms == Seq(Primitives)

\* An edge function joins finitely many terms.
Functions == {F \in SUBSET Terms : F # {} /\ IsFiniteSet(F)}

TypeOK ==
    /\ problem \in Problems
    /\ DOMAIN jumps \subseteq Edges /\ IsFiniteSet(DOMAIN jumps)
    /\ \A e \in DOMAIN jumps : jumps[e] \in Functions
    /\ pending \subseteq DOMAIN jumps
    /\ IsFiniteSet(calls)
    /\ calls \subseteq [callee : Keys, caller : DOMAIN jumps, site : Nodes, jump : Functions]
    /\ DOMAIN endings \subseteq DOMAIN jumps
    /\ \A e \in DOMAIN endings : endings[e] \in Functions /\ endings[e] \subseteq jumps[e]
    /\ DOMAIN sources \subseteq {e.from : e \in DOMAIN jumps}
    /\ \A k \in DOMAIN sources : sources[k] \in Values
    /\ status \in {"seeding", "running"} \cup Ended /\ cancelled \in BOOLEAN

Init ==
    /\ problem \in Problems
    /\ jumps = <<>> /\ pending = {} /\ calls = {} /\ endings = <<>> /\ sources = <<>>
    /\ status = "seeding"
    /\ cancelled = FALSE

-------------------------------------------------------------------------------
(* Edge functions. *)

\* ComposedEdgeFunction: an idempotent function after itself is left out.
Normalized(terms) ==
    LET kept[n \in 0..Len(terms)] ==
            IF n = 0 THEN <<>>
            ELSE IF kept[n - 1] # <<>> /\ Last(kept[n - 1]) = terms[n] /\ terms[n] \in Idempotent
                 THEN kept[n - 1] ELSE Append(kept[n - 1], terms[n])
    IN  kept[Len(terms)]

\* A constant forgets what came before, but only when it stands alone.
ComposedTerm(outer, inner) ==
    IF inner = <<>> \/ (Len(outer) = 1 /\ outer[1] \in Constants)
    THEN outer ELSE Normalized(outer \o inner)

Composed(outer, inner) == {ComposedTerm(s, t) : s \in outer, t \in inner}

JoinAll(values) == FoldSet(JoinValues, CHOOSE v \in values : TRUE, values)

\* The innermost primitive first.
Applied(term, v) ==
    LET after[n \in 0..Len(term)] ==
            IF n = 0 THEN v ELSE Compute(term[Len(term) + 1 - n], after[n - 1])
    IN  after[Len(term)]

Image(function, v) == JoinAll({Applied(t, v) : t \in function})

-------------------------------------------------------------------------------
(* The functions of a path's steps. *)

\* The moves of e along a normal edge, and past a call.
Flowing(p, e) ==
    {m \in Moves(p, e) : /\ m.at[1] \in Successors(p, e.at[1])
                         /\ m.at[2] \in NormalFlow(p, e.at[1], m.at[1], e.at[2])}

Passing(p, e) ==
    {m \in Moves(p, e) : /\ m.at[1] \in Sites(p, e.at[1])
                         /\ m.at[2] \in BypassFlow(p, e.at[1], m.at[1], e.at[2])}

FunctionAlong(p, e, m) == NormalFunction(p, e.at[1], m.at[1], e.at[2], m.at[2])
FunctionPast(p, e, m) == BypassFunction(p, e.at[1], m.at[1], e.at[2], m.at[2])
FunctionInto(p, e, k) == CallFunction(p, e.at[1], p.graph.owner[k.point[1]], e.at[2], k.point[2])
FunctionBack(p, c, x, r, m) ==
    ReturnFunction(p, c.at[1], p.graph.owner[x.at[1]], x.at[1], r, c.at[2], x.at[2], m.at[2])

-------------------------------------------------------------------------------
(* What processing the edge e of the queue adds: pairs of an edge and a function. *)

Along(e) == {<<m, Composed(FunctionAlong(problem, e, m), jumps[e])>> : m \in Flowing(problem, e)}
Past(e) == {<<m, Composed(FunctionPast(problem, e, m), jumps[e])>> : m \in Passing(problem, e)}
Into(e) == {<<EntryEdge(k), Identity>> : k \in Entered(problem, e)}

\* A caller is recorded once for each jump function it comes with.
Recorded(e) ==
    {[callee |-> k, caller |-> e, site |-> r,
      jump |-> Composed(FunctionInto(problem, e, k), jumps[e])] :
        k \in Entered(problem, e), r \in Sites(problem, e.at[1])}

\* The summary of the end edge x, between the call's function and the return's.
BackTo(c, x, summary) ==
    {<<m, Composed(Composed(FunctionBack(problem, c.caller, x, c.site, m), summary), c.jump)>> :
        m \in Returned(problem, c.caller, x, c.site)}

Replayed(c) ==
    UNION {BackTo(c, x, endings[x]) : x \in {s \in DOMAIN endings : s.from = c.callee}}

\* What x's summary becomes, and whether that is news.
Summary(x) == (IF x \in DOMAIN endings THEN endings[x] ELSE {}) \cup jumps[x]

Summarized(e) ==
    {x \in {e} : IsEnd(problem, x.at[1]) /\ (x \in DOMAIN endings => Summary(x) # endings[x])}

Resumed(x, waiting) ==
    UNION {BackTo(c, x, Summary(x)) : c \in {w \in waiting : w.callee = x.from}}

Produced(e) ==
    Along(e) \cup Past(e) \cup Into(e)
        \cup (UNION {Replayed(c) : c \in Recorded(e) \ calls})
        \cup (UNION {Resumed(x, calls \cup Recorded(e)) : x \in Summarized(e)})

-------------------------------------------------------------------------------
(* The first phase: jump functions. *)

\* Every function propagated to an edge joins those it has.
Joined(produced) ==
    [e \in DOMAIN jumps \cup {p[1] : p \in produced} |->
        (IF e \in DOMAIN jumps THEN jumps[e] ELSE {})
            \cup UNION {p[2] : p \in {q \in produced : q[1] = e}}]

\* FAULTY: an edge is processed once.
PropagateNew(produced, queue) ==
    /\ jumps' = Joined(produced)
    /\ pending' = queue \cup (DOMAIN jumps' \ DOMAIN jumps)

\* An edge with a new function is queued, be it for the first time or again.
Propagate(produced, queue) ==
    /\ jumps' = Joined(produced)
    /\ pending' = queue \cup {e \in DOMAIN jumps' : e \in DOMAIN jumps => jumps'[e] # jumps[e]}

PropagateSome(produced) ==
    /\ Stop
    /\ \E kept \in SUBSET produced : jumps' = Joined(kept)
    /\ pending' = {}

SeedEdges == {<<e, Identity>> : e \in Seeds(problem)}

Seed ==
    /\ status = "seeding"
    /\ \/ ~cancelled /\ Propagate(SeedEdges, {}) /\ status' = "running"
       \/ PropagateSome(SeedEdges)
    /\ UNCHANGED <<problem, calls, endings, sources, cancelled>>

\* The summaries after e was processed.
EndingsAfter(e) ==
    [x \in DOMAIN endings \cup Summarized(e) |->
        IF x \in Summarized(e) THEN Summary(x) ELSE endings[x]]

Process(e) ==
    /\ status = "running" /\ e \in pending
    /\ calls' = calls \cup Recorded(e)
    /\ endings' = EndingsAfter(e)
    /\ \/ ~cancelled /\ Propagate(Produced(e), pending \ {e}) /\ UNCHANGED status
       \/ PropagateSome(Produced(e))
    /\ UNCHANGED <<problem, sources, cancelled>>

-------------------------------------------------------------------------------
(* The second phase: values. *)

SourceKeys == {e.from : e \in DOMAIN jumps}

\* What reaches the key k: its seed, and the values of the callers that have one.
Arriving(k) ==
    {SeedValue(problem, s) : s \in {s \in problem.seeds : k = [point |-> s, ctx |-> <<>>]}}
        \cup {Image(c.jump, sources[c.caller.from]) :
              c \in {d \in calls : d.callee = k /\ d.caller.from \in DOMAIN sources}}

Unresolved ==
    {k \in SourceKeys : /\ Arriving(k) # {}
                        /\ k \in DOMAIN sources => sources[k] # JoinAll(Arriving(k))}

\* One assignment of the loop, which goes through the keys until none changes.
Resolve(k) ==
    /\ status = "running" /\ pending = {} /\ k \in Unresolved
    /\ \/ /\ ~cancelled
          /\ sources' = [j \in DOMAIN sources \cup {k} |->
                            IF j = k THEN JoinAll(Arriving(k)) ELSE sources[j]]
          /\ UNCHANGED status
       \/ Stop /\ UNCHANGED sources
    /\ UNCHANGED <<problem, jumps, pending, calls, endings, cancelled>>

Finish ==
    /\ status = "running" /\ pending = {} /\ Unresolved = {}
    /\ Conclude
    /\ UNCHANGED <<problem, ideVars, cancelled>>

Solve ==
    \/ Seed \/ (\E e \in pending : Process(e))
    \/ (\E k \in SourceKeys : Resolve(k)) \/ Finish

Next == Solve \/ (Cancel /\ UNCHANGED <<problem, ideVars>>)

Spec == Init /\ [][Next]_vars

\* IDEResult: the value at a point in a context, and that in all of them.
ValuesIn(at, ctxs) ==
    {Image(jumps[e], sources[e.from]) :
        e \in {e \in DOMAIN jumps :
                  e.at = at /\ e.from.ctx \in ctxs /\ e.from \in DOMAIN sources}}

ValueAt(at, ctxs) == IF ValuesIn(at, ctxs) = {} THEN BottomValue ELSE JoinAll(ValuesIn(at, ctxs))

-------------------------------------------------------------------------------
(* What a problem has to give the solver, each named where a result needs it. *)

\* Terms over its values, finitely many for each edge of the graph.
FunctionsAreTyped ==
    /\ IsFiniteSet(Nodes) /\ IsFiniteSet(Facts)
    /\ \A p \in Problems, n, m \in Nodes, d, e \in Facts :
          /\ NormalFunction(p, n, m, d, e) \in Functions
          /\ BypassFunction(p, n, m, d, e) \in Functions
    /\ \A p \in Problems, n \in Nodes, f \in Procedures, d, e \in Facts :
          CallFunction(p, n, f, d, e) \in Functions
    /\ \A p \in Problems, n, x, r \in Nodes, f \in Procedures, c, d, e \in Facts :
          ReturnFunction(p, n, f, x, r, c, d, e) \in Functions

ValuesAreTyped ==
    /\ \A f \in Primitives, v \in Values : Compute(f, v) \in Values
    /\ \A v, w \in Values : JoinValues(v, w) \in Values
    /\ \A p \in Problems : \A s \in p.seeds : SeedValue(p, s) \in Values

\* The shortcuts of composition are licit.
PrimitivesAreRight ==
    /\ \A f \in Primitives \cap Idempotent, v \in Values : Compute(f, Compute(f, v)) = Compute(f, v)
    /\ \A f \in Primitives \cap Constants, v, w \in Values : Compute(f, v) = Compute(f, w)

\* JoinValues is a join, and functions distribute over it: the second phase joins
\* the values that meet at a callee before it applies the jump functions to them.
JoinIsRight ==
    \A v, w, x \in Values :
        /\ JoinValues(v, v) = v
        /\ JoinValues(v, w) = JoinValues(w, v)
        /\ JoinValues(v, JoinValues(w, x)) = JoinValues(JoinValues(v, w), x)

PrimitivesDistribute ==
    \A f \in Primitives, v, w \in Values :
        Compute(f, JoinValues(v, w)) = JoinValues(Compute(f, v), Compute(f, w))

\* A call has somewhere to continue: a caller is recorded once for each place, and
\* the second phase hands values on from the records.
CallsContinue(p) == \A n \in Nodes : Callees(p, n) # {} => Sites(p, n) # {}

===============================================================================
