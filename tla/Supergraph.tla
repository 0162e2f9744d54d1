------------------------------ MODULE Supergraph ------------------------------
(***************************************************************************)
(* The program a dataflow problem is solved over: the interprocedural      *)
(* graph of pyflow/analysis/ifds/core/supergraph.py, the flow functions of *)
(* a problem, and the source-relative path edges both solvers record.      *)
(*                                                                         *)
(* A problem is a record: the direction of its solver, the depth of the    *)
(* call strings (0 when contexts are off), the limits its options set, its *)
(* seeds and its graph.  The flow functions are operators: what a problem  *)
(* computes at an edge of the graph is a set of facts.                     *)
(***************************************************************************)
EXTENDS Integers, Sequences

CONSTANTS Nodes, Procedures, Facts, Problems,
          NormalFlow(_, _, _, _),     \* problem, node, successor, fact
          BypassFlow(_, _, _, _),     \* problem, node, its continuation, fact
          CallFlow(_, _, _, _),       \* problem, node, callee, fact
          ReturnFlow(_, _, _, _, _, _, _),
                  \* problem, node, callee, end, continuation, fact at the call, at the end
          BackwardReturnFlow(_, _, _, _, _)
                  \* problem, return site, callee, its entry, fact at the call

Points == Nodes \X Facts
Contexts == Seq(Nodes)

\* Where a procedure was entered, and how: the first three fields of PathEdge
\* that a summary and an incoming record are filed under.
Keys == [point : Points, ctx : Contexts]

\* PathEdge: the point `at` is reached within the activation entered at `from`.
Edges == [from : Keys, at : Points]

Graphs == [owner : [Nodes -> Procedures], normal : SUBSET (Nodes \X Nodes),
           calls : SUBSET (Nodes \X Procedures), sites : SUBSET (Nodes \X Nodes),
           entry : [Procedures -> Nodes], exits : [Procedures -> SUBSET Nodes]]

ProblemType ==
    [name : STRING, direction : {"forward", "backward"}, depth : Nat,
     limits : {"none", "partial", "raise"}, seeds : SUBSET Points, graph : Graphs]

ASSUME ProblemsAssumption == Problems \subseteq ProblemType

VARIABLES
    problem      \* the problem being solved; it never changes

-------------------------------------------------------------------------------
(* What each direction reads off the graph. *)

IsForward(p) == p.direction = "forward"

Successors(p, n) ==
    IF IsForward(p) THEN {m \in Nodes : <<n, m>> \in p.graph.normal}
                    ELSE {m \in Nodes : <<m, n>> \in p.graph.normal}

\* The procedures called at n; backwards, n is a return site, and every call
\* that continues there contributes its callees.
Callees(p, n) ==
    IF IsForward(p) THEN {f \in Procedures : <<n, f>> \in p.graph.calls}
    ELSE {f \in Procedures : \E c \in Nodes :
             <<c, n>> \in p.graph.sites /\ <<c, f>> \in p.graph.calls}

\* Where control continues after the calls at n.
Sites(p, n) ==
    IF IsForward(p)
    THEN {r \in Nodes : <<n, r>> \in p.graph.sites /\ Callees(p, n) # {}}
    ELSE {c \in Nodes : /\ <<c, n>> \in p.graph.sites
                        /\ \E f \in Procedures : <<c, f>> \in p.graph.calls}

Starts(p, f) == IF IsForward(p) THEN {p.graph.entry[f]} ELSE p.graph.exits[f]
Ends(p, f)   == IF IsForward(p) THEN p.graph.exits[f] ELSE {p.graph.entry[f]}

IsEnd(p, n) == n \in Ends(p, p.graph.owner[n])

\* CallContext.push keeps the last p.depth call sites.
Push(p, ctx, site) ==
    LET longer == Append(ctx, site)
    IN  IF p.depth = 0 THEN ctx
        ELSE IF Len(longer) > p.depth
             THEN SubSeq(longer, Len(longer) - p.depth + 1, Len(longer))
             ELSE longer

-------------------------------------------------------------------------------
(* One step of a path, seen from the edge e it has reached. *)

EntryEdge(k) == [from |-> k, at |-> k.point]

Seeds(p) == {EntryEdge([point |-> s, ctx |-> <<>>]) : s \in p.seeds}

Moved(e, q) == [e EXCEPT !.at = q]

\* Inside the activation: along a normal edge, or past a call.
Moves(p, e) ==
    {Moved(e, q) : q \in {q \in Points :
        \/ /\ q[1] \in Successors(p, e.at[1])
           /\ q[2] \in NormalFlow(p, e.at[1], q[1], e.at[2])
        \/ /\ q[1] \in Sites(p, e.at[1])
           /\ q[2] \in BypassFlow(p, e.at[1], q[1], e.at[2])}}

\* Into the procedures called there.
Entered(p, e) ==
    {[point |-> q, ctx |-> Push(p, e.from.ctx, e.at[1])] : q \in {q \in Points :
        \E f \in Callees(p, e.at[1]) :
            q[1] \in Starts(p, f) /\ q[2] \in CallFlow(p, e.at[1], f, e.at[2])}}

\* What comes back to the continuation r of the call edge c from the end edge x,
\* when the flow function is given `fact` as the fact at the call.  Backwards it
\* is given nothing else of the two edges' facts, and not the call site either.
ReturnedFacts(p, c, x, r, fact) ==
    LET callee == p.graph.owner[x.at[1]]
    IN  IF IsForward(p) THEN ReturnFlow(p, c.at[1], callee, x.at[1], r, fact, x.at[2])
                        ELSE BackwardReturnFlow(p, c.at[1], callee, x.at[1], fact)

ReturnedWith(p, c, x, r, fact) ==
    {Moved(c, q) : q \in {q \in Points : q[1] = r /\ q[2] \in ReturnedFacts(p, c, x, r, fact)}}

Returned(p, c, x, r) == ReturnedWith(p, c, x, r, c.at[2])
===============================================================================
