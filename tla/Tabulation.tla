------------------------------ MODULE Tabulation ------------------------------
(***************************************************************************)
(* The worklist solvers of pyflow/analysis/ifds: IFDSSolver.solve of       *)
(* core/solver.py and BackwardIFDSSolver.solve of core/backward.py.        *)
(*                                                                         *)
(* The order of the queue is left open: the code takes the oldest edge,    *)
(* and the order in which a step adds edges follows from identities the    *)
(* problem gives to its nodes.                                             *)
(*                                                                         *)
(* Once the solver has ended, a walk of CallStacks may follow any path.    *)
(***************************************************************************)
EXTENDS CallStacks, SolverBookkeeping

VARIABLES
    seen,        \* the path edges propagated so far
    work,        \* those not processed yet: the queue
    incoming,    \* [callee, caller, site]: who waits at the end of an activation
    summaries    \* the edges that reached the end of their activation

solverVars == <<seen, work, incoming, summaries, status, cancelled>>
vars == <<problem, path, solverVars>>

Records == [callee : Keys, caller : Edges, site : Nodes]

TypeOK ==
    /\ problem \in Problems
    /\ seen \subseteq Edges /\ work \subseteq seen /\ summaries \subseteq seen
    /\ incoming \subseteq Records
    /\ status \in {"seeding", "running"} \cup Ended
    /\ cancelled \in BOOLEAN
    /\ path \in Seq(Edges)

Init ==
    /\ problem \in Problems
    /\ path = <<>>
    /\ seen = {} /\ work = {} /\ incoming = {} /\ summaries = {}
    /\ status = "seeding"
    /\ cancelled = FALSE

-------------------------------------------------------------------------------
(* What processing the edge e of the queue adds. *)

\* One record for each activation it enters and each continuation of the call.
Recorded(e) ==
    {[callee |-> k, caller |-> e, site |-> r] :
        k \in Entered(problem, e), r \in Sites(problem, e.at[1])}

\* FAULTY: a caller that arrives waits for the next summary.
ReplayedNever(rec) == {}

\* FAULTY: any summary of the callee's start node is replayed.
ReplayedForAnyFact(rec) ==
    UNION {Returned(problem, rec.caller, x, rec.site) :
           x \in {s \in summaries : s.from.point[1] = rec.callee.point[1]}}

\* The fact a replay of the summary x gives as the fact at the call: backwards
\* it is the fact of the summary's end.
FactReplayed(rec, x) == IF IsForward(problem) THEN rec.caller.at[2] ELSE x.at[2]

\* A caller that arrives replays the summaries its callee already has.
Replayed(rec) ==
    UNION {ReturnedWith(problem, rec.caller, x, rec.site, FactReplayed(rec, x)) :
           x \in {s \in summaries : s.from = rec.callee}}

\* A new summary resumes the callers that wait for it, both solvers with the
\* fact at the call.
Resumed(x, waiting) ==
    UNION {Returned(problem, rec.caller, x, rec.site) :
           rec \in {w \in waiting : w.callee = x.from}}

Summarized(e) == {x \in {e} : IsEnd(problem, x.at[1])} \ summaries

Produced(e) ==
    {EntryEdge(k) : k \in Entered(problem, e)}
        \cup (UNION {Replayed(rec) : rec \in Recorded(e) \ incoming})
        \cup (UNION {Resumed(x, incoming \cup Recorded(e)) : x \in Summarized(e)})
        \cup Moves(problem, e)

-------------------------------------------------------------------------------
(* propagate, for all the edges of one step. *)

\* FAULTY: edges already seen are queued again.
PropagateAgain(edges, queue) ==
    /\ seen' = seen \cup edges
    /\ work' = queue \cup edges

\* FAULTY: edges are queued and only noted as seen when they leave the queue.
PropagateUnmarked(edges, queue) ==
    /\ seen' = seen \cup (work \ queue)
    /\ work' = queue \cup (edges \ seen)

Propagate(edges, queue) ==
    /\ seen' = seen \cup edges
    /\ work' = queue \cup (edges \ seen)

\* A check between two propagations of a step stops it: only some are made, and
\* the queue goes out of use.
PropagateSome(edges) ==
    /\ Stop
    /\ \E kept \in SUBSET (edges \ seen) : seen' = seen \cup kept
    /\ work' = {}

Seed ==
    /\ status = "seeding"
    /\ \/ /\ ~cancelled
          /\ Propagate(Seeds(problem), {})
          /\ status' = "running"
       \/ PropagateSome(Seeds(problem))
    /\ UNCHANGED <<problem, path, incoming, summaries, cancelled>>

\* A step in which no check stops the solver: the token was not cancelled at its
\* first one.
Process(e) ==
    /\ status = "running" /\ e \in work /\ ~cancelled
    /\ incoming' = incoming \cup Recorded(e)
    /\ summaries' = summaries \cup Summarized(e)
    /\ Propagate(Produced(e), work \ {e})
    /\ UNCHANGED <<problem, path, status, cancelled>>

\* A step that a check stops, at its start or later.
ProcessPart(e) ==
    /\ status = "running" /\ e \in work
    /\ incoming' = incoming \cup Recorded(e)
    /\ summaries' = summaries \cup Summarized(e)
    /\ PropagateSome(Produced(e))
    /\ UNCHANGED <<problem, path, cancelled>>

\* The queue is empty; one forced check remains before the result is built.
Finish ==
    /\ status = "running" /\ work = {}
    /\ Conclude
    /\ UNCHANGED <<problem, path, seen, work, incoming, summaries, cancelled>>

CancelSolve == Cancel /\ UNCHANGED <<problem, path, seen, work, incoming, summaries>>

Solve == Seed \/ (\E e \in work : Process(e) \/ ProcessPart(e)) \/ Finish

WalkOn == status = "complete" /\ Walk /\ UNCHANGED <<problem, solverVars>>

Next == Solve \/ CancelSolve \/ WalkOn

\* The solver runs on a thread of its own until it ends; nobody has to cancel
\* it, nor to walk.
Fairness == WF_vars(Solve)

Spec == Init /\ [][Next]_vars /\ Fairness

-------------------------------------------------------------------------------
(* What the solvers owe their callers. *)

\* So far it has made no difference which of the two places that return from a
\* callee served a caller that waits and a summary it waits for: always so
\* forwards, and backwards if the flow function ignores its fact or the fact at
\* the callee's entry was the fact at the call.
ReplayAgrees ==
    \A rec \in incoming, x \in summaries :
        x.from = rec.callee =>
            ReturnedWith(problem, rec.caller, x, rec.site, FactReplayed(rec, x))
                = Returned(problem, rec.caller, x, rec.site)

\* A complete result has every edge a path can take, however deep its calls and
\* in whatever order callers and summaries met; a result that a limit or a
\* cancellation cut short never counts as complete (ifds.rst, "Production
\* Execution Contract").
Covered == status = "complete" /\ path # <<>> => Top(path) \in seen

CoveredIfReplayAgrees == ReplayAgrees => Covered

\* Recursion, and a callee that meets its own caller, do not keep the solver
\* busy: every solve ends.
SolveEnds == <>(status \in Ended)
===============================================================================
