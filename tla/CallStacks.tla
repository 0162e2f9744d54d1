------------------------------ MODULE CallStacks ------------------------------
(***************************************************************************)
(* What a dataflow problem means: the configurations that an exploration   *)
(* of concrete call stacks visits, as the oracle of the solver's own tests *)
(* does (tests/analysis/ifds/reference_solver.py).  `path` is the stack of *)
(* activations: for each, where it was entered and the point it is at; the *)
(* last one is running and the others wait at their calls.                 *)
(***************************************************************************)
EXTENDS Supergraph

VARIABLES
    path         \* the stack of activations, <<>> before the exploration begins

Top(stack) == stack[Len(stack)]

\* Along the running activation.
Onward(p, stack) ==
    {[stack EXCEPT ![Len(stack)] = e] : e \in Moves(p, Top(stack))}

\* A call without a continuation is entered too, as the solvers do; the oracle
\* skips it.
Deeper(p, stack) ==
    {Append(stack, EntryEdge(k)) : k \in Entered(p, Top(stack))}

\* From the end of the running activation to a continuation of the waiting call.
Back(p, stack) ==
    IF Len(stack) < 2 \/ ~IsEnd(p, Top(stack).at[1]) THEN {}
    ELSE LET waiting == SubSeq(stack, 1, Len(stack) - 1)
             caller == Top(waiting)
         IN  UNION {{[waiting EXCEPT ![Len(waiting)] = e] :
                         e \in Returned(p, caller, Top(stack), r)} :
                    r \in Sites(p, caller.at[1])}

Begin == path = <<>> /\ \E e \in Seeds(problem) : path' = <<e>>
Move == path # <<>> /\ path' \in Onward(problem, path)
Call == path # <<>> /\ path' \in Deeper(problem, path)
Return == path # <<>> /\ path' \in Back(problem, path)

Walk == Begin \/ Move \/ Call \/ Return
===============================================================================
