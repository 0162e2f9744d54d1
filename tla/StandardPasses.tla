---------------------------- MODULE StandardPasses ----------------------------
(***************************************************************************)
(* The builtin passes as registry.py registers them: kinds, dependencies,    *)
(* requirements and invalidations after register_standard_passes, the        *)
(* session slots of AnalysisSession.ANALYSIS_KEYS, and the default pipeline.  *)
(* BuildPipeline is the manager's expansion of requested stages, and          *)
(* ScheduleOrder the order _iter_prerequisites lists prerequisites in.        *)
(***************************************************************************)
EXTENDS Integers, FiniteSets, Sequences

CONSTANTS
    Inlining,      \* include_experimental_inlining
    DumpStats,     \* AnalysisOptions.dump_stats
    DumpReports    \* AnalysisOptions.dump_reports

StdIPA == {"ipa", "ipa_refresh", "ipa_after_simplify"}
StdCPA == {"cpa", "cpa_path_sensitive", "cpa_after_simplify"}
StdLifetime == {"lifetime", "lifetime_refresh", "lifetime_after_simplify"}
StdAnalyses == StdIPA \cup StdCPA \cup StdLifetime \cup {"heap"}

\* The optimizations that read CPA facts and invalidate the analyses.
StdOptimizations ==
    {"methodcall", "simplify", "clone", "argument_normalization", "cull_program",
     "inlining", "load_elimination", "store_elimination", "dce"}
StdFinal == {"simplify_final", "store_elimination_final"}

StdAnchors ==
    {"first_pass_methodcall", "first_pass_lifetime", "first_pass_simplify",
     "first_pass_clone", "first_pass_argument_normalization",
     "first_pass_cull_program", "first_pass_store_elimination", "first_pass_complete"}

StdPasses == StdAnalyses \cup StdOptimizations \cup StdFinal \cup StdAnchors \cup {"stats"}

StdKind ==
    [p \in StdPasses |-> CASE p \in StdAnalyses -> "analysis"
                           [] p \in StdOptimizations \cup StdFinal -> "optimization"
                           [] OTHER -> "utility"]

StdKey ==
    [p \in StdPasses |-> CASE p \in StdIPA -> "ipa"
                           [] p \in StdCPA -> "cpa"
                           [] p \in StdLifetime -> "lifetime"
                           [] OTHER -> p]

\* info.invalidates: the after-simplification stages are not in the list, they
\* are reached through the session slot they share.
StdInvalidates ==
    [p \in StdPasses |->
        IF p \in StdOptimizations \cup StdFinal
        THEN {"ipa", "cpa", "lifetime", "heap", "ipa_refresh", "cpa_path_sensitive",
              "lifetime_refresh"}
        ELSE {}]

StdPreserves == [p \in StdPasses |-> {}]

AfterSimplify ==
    {"clone", "argument_normalization", "cull_program", "inlining", "load_elimination",
     "store_elimination"}

StageDependencies ==
    [stats |-> {"cpa"}, cpa |-> {"ipa"}, lifetime |-> {"cpa"}, heap |-> {"cpa"},
     clone |-> {"lifetime_after_simplify"}, inlining |-> {"argument_normalization"},
     store_elimination |-> {"lifetime"}, load_elimination |-> {"lifetime"},
     ipa_after_simplify |-> {"simplify"},
     cpa_after_simplify |-> {"ipa_after_simplify"},
     lifetime_after_simplify |-> {"cpa_after_simplify"},
     first_pass_methodcall |-> {"methodcall"},
     first_pass_lifetime |-> {"first_pass_methodcall", "lifetime"},
     first_pass_simplify |-> {"first_pass_lifetime", "simplify"},
     first_pass_clone |-> {"first_pass_simplify", "clone"},
     first_pass_argument_normalization |-> {"first_pass_clone", "argument_normalization"},
     first_pass_cull_program |-> {"first_pass_argument_normalization", "cull_program"},
     first_pass_store_elimination |-> {"first_pass_cull_program", "store_elimination"},
     first_pass_complete |-> {"cull_program"},
     cpa_path_sensitive |-> {"ipa_refresh", "first_pass_complete"},
     lifetime_refresh |-> {"cpa_path_sensitive"},
     simplify_final |-> {"cpa_path_sensitive", "lifetime_refresh"},
     store_elimination_final |-> {"simplify_final", "lifetime_refresh"}]

\* Dependencies and requirements together; every requirement is a dependency.
StdDependencies ==
    [p \in StdPasses |->
        (IF p \in DOMAIN StageDependencies THEN StageDependencies[p] ELSE {})
        \cup (IF p \in StdOptimizations THEN {"cpa"} ELSE {})
        \cup (IF p \in AfterSimplify THEN {"simplify"} ELSE {})]

\* The names in the order sorted() puts them.
StdAlphabetical ==
    <<"argument_normalization", "clone", "cpa", "cpa_after_simplify",
      "cpa_path_sensitive", "cull_program", "dce", "first_pass_argument_normalization",
      "first_pass_clone", "first_pass_complete", "first_pass_cull_program",
      "first_pass_lifetime", "first_pass_methodcall", "first_pass_simplify",
      "first_pass_store_elimination", "heap", "inlining", "ipa", "ipa_after_simplify",
      "ipa_refresh", "lifetime", "lifetime_after_simplify", "lifetime_refresh",
      "load_elimination", "methodcall", "simplify", "simplify_final", "stats",
      "store_elimination", "store_elimination_final">>

(***************************************************************************)
(* prereq_sort_key: a stage of the first pass, and path-sensitive CPA, list   *)
(* the anchors they follow before anything else.                             *)
(***************************************************************************)
ScheduleOrder(p, prerequisites) ==
    LET anchorsFirst == p \in StdAnchors \cup {"cpa_path_sensitive"}
        anchors == IF anchorsFirst THEN prerequisites \cap StdAnchors ELSE {}
        sorted(names) == SelectSeq(StdAlphabetical, LAMBDA q : q \in names)
    IN  sorted(anchors) \o sorted(prerequisites \ anchors)

StdPrerequisites == [p \in StdPasses |-> ScheduleOrder(p, StdDependencies[p])]

--------------------------------------------------------------------------------
(* build_pipeline *)

RECURSIVE Emit(_, _, _, _)
RECURSIVE EmitAll(_, _, _)

\* The plan after emit(p): its missing prerequisites in order, then p itself; a
\* stage already in the plan is added again only when the caller asked for it.
Emit(prerequisites, plan, p, explicit) ==
    IF ~explicit /\ \E i \in DOMAIN plan : plan[i] = p
    THEN plan
    ELSE Append(EmitAll(prerequisites, plan, prerequisites[p]), p)

EmitAll(prerequisites, plan, names) ==
    IF names = <<>>
    THEN plan
    ELSE EmitAll(prerequisites, Emit(prerequisites, plan, Head(names), FALSE), Tail(names))

RECURSIVE BuildPipeline(_, _, _)
BuildPipeline(prerequisites, plan, request) ==
    IF request = <<>>
    THEN plan
    ELSE BuildPipeline(prerequisites, Emit(prerequisites, plan, Head(request), TRUE),
                       Tail(request))

\* Pipeline.default_pass_names
DefaultPassNames ==
    <<"ipa", "cpa">> \o (IF DumpStats THEN <<"stats">> ELSE <<>>)
    \o <<"methodcall", "simplify", "ipa_after_simplify", "cpa_after_simplify",
         "lifetime_after_simplify", "clone", "argument_normalization">>
    \o (IF Inlining THEN <<"inlining">> ELSE <<>>)
    \o <<"cull_program", "ipa_refresh", "cpa_path_sensitive", "lifetime_refresh",
         "simplify_final">>
    \o (IF DumpReports THEN <<"ipa_refresh", "cpa_path_sensitive", "lifetime_refresh">>
        ELSE <<>>)

================================================================================
