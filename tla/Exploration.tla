----------------------------- MODULE Exploration -----------------------------
(***************************************************************************)
(* explore_file of pyflow/concolic/exploration/engine.py with the queue    *)
(* and the path tree of search.py: inputs and schedules are executed, each *)
(* branch on the way is negated, and the solver is asked for an input that *)
(* takes the other side.  The executions are those of TaskScheduler.       *)
(*                                                                         *)
(* The solver answers with any assignment that satisfies the constraints,  *)
(* or that it does not know; an assignment is then converted to an input.  *)
(* Coverage is not modelled: the order of the strategies that use it is    *)
(* left open, and so is the moment at which nothing new has been covered   *)
(* for long enough.                                                        *)
(*                                                                         *)
(* An exploration that calls itself exhausted is then audited: any input   *)
(* may be executed with any schedule, and must be found among the runs.    *)
(***************************************************************************)
EXTENDS TaskScheduler, SequencesExt

CONSTANT Assignments     \* of the solver's variables, within the bounds of the input

ASSUME ScenariosAssumption ==
    \A s \in Scenarios :
        /\ s.initial \in Inputs
        /\ s.mode \in {"fifo", "nondeterministic"}
        /\ s.timeouts \subseteq {"timeout", "total_timeout"}
        /\ s.maxSchedules \in Nat
        /\ s.holds \in [Expressions -> SUBSET Assignments]
        /\ s.value \in [Assignments -> Inputs]
        /\ s.promise \in [Cells -> Conditions \cup {None}]
        /\ \A c \in Cells, i \in Inputs :
            s.promise[c] # None => s.records[s.promise[c]][i] # None

VARIABLES
    phase,             \* where explore_file is
    queue,             \* the pending states, with the counts of enqueue
    queuedInputs, queuedExecutions,
    scheduleCounts,    \* schedule_state_counts, zero for an input without one
    edges, reserved, exhausted,    \* the path tree: a node is its path from the root
    runs,              \* the records of the result
    contractTargets, counterexamples,
    unknowns,          \* the constraints the solver's cache holds as unknown
    executions, solverCalls,
    index,             \* the branch of the path that is negated next
    stop               \* stop_reason, or "none"

searchVars == <<phase, queue, queuedInputs, queuedExecutions, scheduleCounts, edges, reserved,
                exhausted, runs, contractTargets, counterexamples, unknowns, executions,
                solverCalls, index, stop>>
vars == <<scenario, runVars, searchVars>>

State(i, p) == [input |-> i, prefix |-> p]

Init ==
    /\ scenario \in Scenarios
    /\ Idle
    /\ phase = "choosing"
    /\ queue = [pending |-> <<State(scenario.initial, <<>>)>>, truncated |-> FALSE, dropped |-> 0]
    /\ queuedInputs = {scenario.initial}
    /\ queuedExecutions = {State(scenario.initial, <<>>)}
    /\ scheduleCounts = [i \in Inputs |-> IF i = scenario.initial THEN 1 ELSE 0]
    /\ edges = {} /\ reserved = {} /\ exhausted = {}
    /\ runs = {} /\ contractTargets = {} /\ counterexamples = {} /\ unknowns = {}
    /\ executions = 0 /\ solverCalls = 0 /\ index = 0
    /\ stop = "none"

-------------------------------------------------------------------------------
(* The queue of pending states. *)

\* FAULTY: a state that is dropped leaves no trace.
EnqueuedOrForgotten(q, s) ==
    IF Len(q.pending) >= scenario.maxPending
    THEN [q EXCEPT !.dropped = @ + 1]
    ELSE [q EXCEPT !.pending = Append(@, s)]

Enqueued(q, s) ==
    IF Len(q.pending) >= scenario.maxPending
    THEN [pending |-> q.pending, truncated |-> TRUE, dropped |-> q.dropped + 1]
    ELSE [q EXCEPT !.pending = Append(@, s)]

\* The positions pop may take: the strategies other than "fifo" choose by coverage.
Positions == IF scenario.strategy = "fifo" THEN {1} ELSE DOMAIN queue.pending

\* The sibling choices of the execution, as prefixes to repeat.
Alternatives ==
    FlattenSeq([i \in DOMAIN choices |->
        LET prior == [j \in 1..(i - 1) |-> choices[j][2]]
            other(k) == IF k <= choices[i][2] THEN k - 1 ELSE k
        IN  [k \in 1..(choices[i][1] - 1) |-> Append(prior, other(k))]])

Scheduled(s, alternative) ==
    LET execution == State(input, alternative)
    IN  IF execution \in s.executions \/ s.count >= scenario.maxSchedules
        THEN s
        ELSE [queue |-> Enqueued(s.queue, execution), count |-> s.count + 1,
              executions |-> s.executions \cup {execution}]

-------------------------------------------------------------------------------
(* The loop: an execution, and what is learned from it. *)

StopWith(reason) ==
    /\ stop' = reason
    /\ phase' = "ended"

Deadline == "total_timeout" \in scenario.timeouts

Pop ==
    /\ phase = "choosing" /\ queue.pending # <<>> /\ executions < scenario.maxIterations
    /\ \E i \in Positions :
        /\ Start(queue.pending[i].input, queue.pending[i].prefix, FALSE)
        /\ queue' = [queue EXCEPT !.pending = RemoveAt(@, i)]
    /\ executions' = executions + 1
    /\ phase' = "running"
    /\ UNCHANGED <<scenario, queuedInputs, queuedExecutions, scheduleCounts, edges, reserved,
                   exhausted, runs, contractTargets, counterexamples, unknowns, solverCalls,
                   index, stop>>

\* The loop is left, or its deadline is over.
Stop ==
    /\ phase = "choosing"
    /\ \/ queue.pending # <<>> /\ executions < scenario.maxIterations
          /\ Deadline /\ StopWith("total_timeout")
       \/ queue.pending # <<>> /\ executions >= scenario.maxIterations
          /\ StopWith("max_iterations")
       \/ queue.pending = <<>> /\ queue.truncated /\ StopWith("max_pending_states")
       \/ queue.pending = <<>> /\ ~queue.truncated /\ StopWith("exhausted")
    /\ UNCHANGED <<scenario, runVars, queue, queuedInputs, queuedExecutions, scheduleCounts,
                   edges, reserved, exhausted, runs, contractTargets, counterexamples, unknowns,
                   executions, solverCalls, index>>

Step == Execute /\ UNCHANGED searchVars

Schedule == [i \in DOMAIN choices |-> choices[i][2]]
Over == outcome \notin {"none", "running"}

Record == [input |-> input, schedule |-> Schedule, path |-> path, outcome |-> outcome]

\* One record for an input and a schedule.
Recorded ==
    IF \E r \in runs : r.input = input /\ r.schedule = Schedule
    THEN runs ELSE runs \cup {Record}

\* The execution is recorded and its path observed; then its sibling schedules are
\* queued.
Observe ==
    /\ phase = "running" /\ Over
    /\ runs' = Recorded
    /\ edges' = edges \cup (Prefixes(path) \ {<<>>})
    /\ reserved' = reserved \ Prefixes(path)
    /\ IF outcome = "total_timeout"
       THEN /\ StopWith("total_timeout")
            /\ UNCHANGED <<queue, queuedExecutions, scheduleCounts, index>>
       ELSE LET before == [queue |-> queue, executions |-> queuedExecutions,
                           count |-> scheduleCounts[input]]
                after == IF scenario.mode = "nondeterministic"
                         THEN FoldLeft(Scheduled, before, Alternatives) ELSE before
            IN  /\ queue' = after.queue
                /\ queuedExecutions' = after.executions
                /\ scheduleCounts' = [scheduleCounts EXCEPT ![input] = after.count]
                /\ phase' = "contract" /\ index' = 1
                /\ UNCHANGED stop
    /\ UNCHANGED <<scenario, runVars, queuedInputs, exhausted, contractTargets, counterexamples,
                   unknowns, executions, solverCalls>>

-------------------------------------------------------------------------------
(* Questions to the solver. *)

Models(constraints) ==
    {a \in Assignments : \A c \in constraints : (a \in scenario.holds[c[1]]) = c[2]}

\* The inputs _model_value makes of them.  It need not keep what the constraints say:
\* reals are approximated and lengths are clipped.
Answers(constraints) == {scenario.value[a] : a \in Models(constraints)}

MayAsk == scenario.maxSolverCalls = 0 \/ solverCalls < scenario.maxSolverCalls

\* What the cache knows is not asked again, even when it is that the solver did not
\* know.
Unknown(constraints) ==
    /\ MayAsk
    /\ scenario.unknown \/ constraints \in unknowns
    /\ unknowns' = unknowns \cup {constraints}
    /\ solverCalls' = solverCalls + 1

Unsatisfiable(constraints) ==
    /\ MayAsk
    /\ constraints \notin unknowns /\ Models(constraints) = {}
    /\ solverCalls' = solverCalls + 1
    /\ UNCHANGED unknowns

Solved(constraints, i) ==
    /\ MayAsk
    /\ constraints \notin unknowns /\ i \in Answers(constraints)
    /\ solverCalls' = solverCalls + 1
    /\ UNCHANGED unknowns

\* A new input is queued, to be executed with every schedule.
QueueInput(i) ==
    /\ queuedInputs' = queuedInputs \cup {i}
    /\ queuedExecutions' = queuedExecutions \cup {State(i, <<>>)}
    /\ scheduleCounts' = [scheduleCounts EXCEPT ![i] = IF @ = 0 THEN 1 ELSE @]
    /\ queue' = Enqueued(queue, State(i, <<>>))

QueueNothing == UNCHANGED <<queuedInputs, queuedExecutions, scheduleCounts, queue>>

\* The condition of the contract, at the end of this execution, and the expression
\* computed for it.
Promised == scenario.promise[cell]
HasContract == outcome = "returned" /\ Promised # None
Kept == input \in scenario.truth[Promised]
Clause == scenario.records[Promised][input]
Violation == Range(path) \cup {<<Clause, FALSE>>}

\* FAULTY: a clause is negated on one path only.
ContractTargetOnce == Clause

ContractTarget == <<path, Clause>>

\* The branch that is negated, under the branches before it.
Flipped == <<path[index][1], ~path[index][2]>>
Target == Append(SubSeq(path, 1, index - 1), Flipped)
KnownTarget == Target \in edges \cup reserved \cup exhausted

\* The constraints of the next question, or none.
Question ==
    CASE phase = "contract" /\ HasContract /\ Kept
              /\ ContractTarget \notin contractTargets -> Violation
      [] phase = "flipping" /\ index <= Len(path) /\ ~KnownTarget -> Range(Target)
      [] OTHER -> {}

\* A budget is used up before a question, or in it.
OutOfBudget ==
    /\ Question # {}
    /\ \/ Deadline /\ StopWith("total_timeout")
       \/ ~MayAsk /\ StopWith("max_solver_calls")
    /\ UNCHANGED <<scenario, runVars, queue, queuedInputs, queuedExecutions, scheduleCounts, edges,
                   reserved, exhausted, runs, contractTargets, counterexamples, unknowns,
                   executions, solverCalls, index>>

\* The contract holds for this input: another with the same path is sought.  Or it
\* does not: a counterexample.
CheckContract ==
    /\ phase = "contract"
    /\ IF Question # {}
       THEN /\ contractTargets' = contractTargets \cup {ContractTarget}
            /\ \/ (Unknown(Question) \/ Unsatisfiable(Question)) /\ QueueNothing
               \/ \E i \in Inputs :
                    /\ Solved(Question, i)
                    /\ IF i \in queuedInputs THEN QueueNothing ELSE QueueInput(i)
            /\ UNCHANGED counterexamples
       ELSE /\ counterexamples' = counterexamples \cup
                {i \in {input} : HasContract /\ ~Kept}
            /\ QueueNothing
            /\ UNCHANGED <<contractTargets, unknowns, solverCalls>>
    /\ phase' = "flipping"
    /\ UNCHANGED <<scenario, runVars, edges, reserved, exhausted, runs, executions, index, stop>>

\* The target stays reserved for the input that is queued for it; when none is, it
\* is exhausted.
Answered(i) ==
    IF i \in queuedInputs
    THEN /\ QueueNothing
         /\ exhausted' = exhausted \cup {Target} /\ UNCHANGED reserved
    ELSE /\ QueueInput(i)
         /\ IF queue'.dropped = queue.dropped
            THEN reserved' = reserved \cup {Target} /\ UNCHANGED exhausted
            ELSE exhausted' = exhausted \cup {Target} /\ UNCHANGED reserved

\* FAULTY: a target without an answer stays reserved.
UnansweredReserved ==
    /\ reserved' = reserved \cup {Target}
    /\ UNCHANGED exhausted

Unanswered ==
    /\ exhausted' = exhausted \cup {Target}
    /\ UNCHANGED reserved

Flip ==
    /\ phase = "flipping" /\ index <= Len(path)
    /\ IF KnownTarget
       THEN QueueNothing /\ UNCHANGED <<reserved, exhausted, unknowns, solverCalls>>
       ELSE \/ /\ Unknown(Question) \/ Unsatisfiable(Question)
               /\ Unanswered /\ QueueNothing
            \/ \E i \in Inputs : Solved(Question, i) /\ Answered(i)
    /\ index' = index + 1
    /\ UNCHANGED <<scenario, runVars, phase, edges, runs, contractTargets, counterexamples,
                   executions, stop>>

\* The next iteration, unless the last ones covered nothing new.
Iterate ==
    /\ phase = "flipping" /\ index > Len(path)
    /\ \/ phase' = "choosing" /\ UNCHANGED stop
       \/ /\ scenario.uninteresting /\ queue.pending # <<>>
          /\ StopWith("max_uninteresting_iterations")
    /\ UNCHANGED <<scenario, runVars, queue, queuedInputs, queuedExecutions, scheduleCounts, edges,
                   reserved, exhausted, runs, contractTargets, counterexamples, unknowns,
                   executions, solverCalls, index>>

Explore ==
    \/ Pop \/ Stop \/ Observe \/ OutOfBudget \/ CheckContract \/ Flip \/ Iterate
    \/ phase = "running" /\ Step

-------------------------------------------------------------------------------
(* The reference: executions of any input with any schedule. *)

Audit ==
    /\ phase = "ended" /\ stop = "exhausted"
    /\ \E i \in Inputs : Start(i, <<>>, TRUE)
    /\ phase' = "auditing"
    /\ UNCHANGED <<scenario, queue, queuedInputs, queuedExecutions, scheduleCounts, edges,
                   reserved, exhausted, runs, contractTargets, counterexamples, unknowns,
                   executions, solverCalls, index, stop>>

Next == Explore \/ Audit \/ (phase = "auditing" /\ Step)

Spec == Init /\ [][Next]_vars /\ WF_vars(Explore)

-------------------------------------------------------------------------------
(* Properties. *)

\* The programs and models the next three are about: each condition is recorded, by
\* one expression whatever the input; the expression says of an assignment what the
\* condition says of its value; and each input is the value of an assignment.
Exact ==
    /\ \A c \in Conditions : \E e \in Expressions :
        /\ \A i \in Inputs : scenario.records[c][i] = e
        /\ \A a \in Assignments :
            a \in scenario.holds[e] <=> scenario.value[a] \in scenario.truth[c]
    /\ \A i \in Inputs : \E a \in Assignments : scenario.value[a] = i

\* No execution was cut short, and no schedule left out for its input's limit.
Undisturbed ==
    /\ \A r \in runs : r.outcome \notin {"timeout", "total_timeout"}
    /\ scenario.mode = "nondeterministic" =>
        \A i \in Inputs : scheduleCounts[i] < scenario.maxSchedules

\* An exploration reported as exhausted has seen all there is, when the solver
\* answered all its questions: whatever the input and whatever the schedule, there is
\* a run with that schedule and that path.  About targets reserved by one execution
\* and observed by another, inputs and schedules queued once, and dropped states.
ExhaustedIsComplete ==
    phase = "auditing" /\ Over /\ unknowns = {} /\ Undisturbed /\ Exact =>
        \E r \in runs : r.schedule = Schedule /\ r.path = path /\ r.outcome = outcome

\* And a contract that some input violates has a counterexample with the same
\* schedule and path.
ViolationsFound ==
    phase = "auditing" /\ unknowns = {} /\ Undisturbed /\ Exact /\ HasContract /\ ~Kept =>
        \E r \in runs : r.schedule = Schedule /\ r.path = path /\ r.input \in counterexamples

\* A reserved target is never forgotten: between two iterations a state is pending
\* whose input reaches it with some schedule.  Reserved targets are not asked for
\* again, so a forgotten one would never be explored.
ReservationsServed ==
    phase = "choosing" /\ Undisturbed /\ Exact /\ ~queue.truncated =>
        \A t \in reserved : \E i \in DOMAIN queue.pending :
            queue.pending[i].input \in Answers(Range(t))

\* Every exploration ends.
ExplorationEnds == <>(phase \in {"ended", "auditing"})
===============================================================================
