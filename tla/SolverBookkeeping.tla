--------------------------- MODULE SolverBookkeeping ---------------------------
(***************************************************************************)
(* How a solve ends: _SolverBookkeeping and the CancellationToken of       *)
(* pyflow/analysis/ifds/core/solver.py, which every solver shares.  The    *)
(* moment a limit is exceeded is left open: each check may find it.        *)
(***************************************************************************)
EXTENDS Supergraph

VARIABLES
    status,      \* "seeding", "running", then how the solve ended
    cancelled    \* whether the token was cancelled, by another thread

Ended == {"complete", "partial", "cancelled", "raised"}

\* _SolverBookkeeping.stop: the first reason found is the status of the result;
\* a limit may be configured to raise instead.
Stop ==
    \/ cancelled /\ status' = "cancelled"
    \/ problem.limits = "partial" /\ status' = "partial"
    \/ problem.limits = "raise" /\ status' = "raised"

\* The forced check before the result is built.
Conclude ==
    IF cancelled THEN status' = "cancelled"
    ELSE Stop \/ status' = "complete"

\* CancellationToken.cancel, from another thread.
Cancel ==
    /\ ~cancelled /\ status \notin Ended
    /\ cancelled' = TRUE
    /\ UNCHANGED status
===============================================================================
