--------------------------- MODULE MCStandardPipeline ---------------------------
(* The scheduler over the builtin pass graph: the default pipeline and the ones   *)
(* expanded from single optimizer requests.                                        *)
EXTENDS StandardPasses, PassManager

MCNoEffects == [p \in StdPasses |-> {}]
MCOutcomes ==
    [p \in StdPasses |-> CASE p \in StdOptimizations \cup StdFinal -> {"unchanged", "changed"}
                           [] OTHER -> {"unchanged"}]
MCRequests ==
    {DefaultPassNames, <<"lifetime_refresh", "cpa", "simplify_final">>}
    \cup {<<p>> : p \in {"store_elimination", "load_elimination", "inlining",
                         "store_elimination_final", "first_pass_store_elimination"}}
MCPipelines == {BuildPipeline(StdPrerequisites, <<>>, r) : r \in MCRequests}
MCOptions == {"options"}
MCManagers == {[caching |-> TRUE, keyed |-> TRUE]}

\* The builtin passes meet the conditions of the manager's theorems.
ASSUME StandardPassesAssumption ==
    CommitsThroughManager /\ AnalysesPreserveNothing /\ SlotsAcyclic

\* No stage of the builtin graph fails for want of stable requirements, and no
\* analysis is refreshed more than once for one invocation: the limit of 32
\* is never what ends a run.
StandardStabilizes ==
    /\ outcome # "unstable"
    /\ \A i \in DOMAIN stack : \A p \in Passes : stack[i].refreshes[p] <= 1

================================================================================
