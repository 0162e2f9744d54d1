----------------------------- MODULE MCPassManager -----------------------------
(* A small pass graph in the shape of test_pass_scheduling.py: an analysis, an *)
(* analysis derived from it, a second stage of the first one's slot, rewrites   *)
(* that preserve one of them, and a consumer.                                    *)
EXTENDS PassManager

CONSTANTS types, types2, derived, rival, rewrite, setup, reader, clashing, tslot, dslot, o1, o2

MCPasses == {types, types2, derived, rival, rewrite, setup, reader, clashing}
MCKind ==
    [p \in MCPasses |-> CASE p \in {types, types2, derived, rival} -> "analysis"
                          [] p \in {rewrite, setup} -> "optimization"
                          [] p \in {reader, clashing} -> "utility"]
MCPrerequisites ==
    [p \in MCPasses |-> CASE p = types  -> <<setup>>
                          [] p \in {derived, rival} -> <<types>>
                          [] p = clashing -> <<rival, types>>
                          [] p = reader -> <<derived, setup, types>>
                          [] p = rewrite -> <<types>>
                          [] OTHER -> <<>>]
MCKey ==
    [p \in MCPasses |-> CASE p \in {types, types2} -> tslot
                          [] p \in {derived, rival} -> dslot
                          [] OTHER -> p]
\* The rewrite keeps the derived result; the set-up pass names the first stage as
\* preserved and the second stage of the same slot as invalidated.
KeepDerived ==
    [p \in MCPasses |-> CASE p = rewrite -> {derived, reader}
                          [] p = setup -> {types, derived}
                          [] OTHER -> {}]
KeepTypes   == [p \in MCPasses |-> IF p = rewrite THEN {types} ELSE {}]
DropTypes2  == [p \in MCPasses |-> IF p = setup THEN {types2} ELSE {}]
\* The bodies of test_external_invalidation_is_detected_before_consumer, and an
\* analysis whose body retires another's result, so that a consumer of both cannot
\* be satisfied (test_unstable_requirements_fail_without_running_consumer).
MCEffects ==
    [p \in MCPasses |-> CASE p = reader -> {"ir", "catalog", "solver"}
                          [] p = rival -> {"solver"}
                          [] OTHER -> {}]
\* The session's manager, and one for a program that cannot be a dictionary key.
MCManagers == {[caching |-> TRUE, keyed |-> TRUE], [caching |-> FALSE, keyed |-> FALSE]}
CachingManager == {[caching |-> TRUE, keyed |-> TRUE]}
\* A preserving rewrite that commits a revision of its own before it returns.
RewriteCommits == [p \in MCPasses |-> IF p = rewrite THEN {"ir"} ELSE {}]
\* An analysis reports no mutation; a consumer neither.
MCOutcomes ==
    [p \in MCPasses |-> CASE p \in {rewrite, setup} -> OutcomeKinds
                          [] p = types2 -> {"unchanged"}
                          [] OTHER -> {"unchanged", "failed"}]
Clash == <<clashing>>
MCPublishers == {types, derived}
MCPipelines ==
    {<<setup, derived, types2, reader>>, <<rewrite, reader>>, <<reader, types>>, Clash}
MCOptions == {o1, o2}

ASSUME MCGraphAssumption == AnalysesPreserveNothing /\ SlotsAcyclic

\* One run of a manager without dictionaries shows all it can do: its stamps are
\* those of the run.  The rival analyses run under that manager alone.
MCNext == Next /\ IF manager.keyed THEN queue' # Clash ELSE runs' <= 1
MCSpec == Init /\ [][MCNext]_vars /\ WF_vars(RunStep /\ UNCHANGED manager)
================================================================================
