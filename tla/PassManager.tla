------------------------------ MODULE PassManager ------------------------------
(***************************************************************************)
(* PassManager.run_pipeline: refreshing stale analysis prerequisites before  *)
(* each invocation, looking results up, running pass bodies and retiring or   *)
(* preserving what they leave behind.                                        *)
(*                                                                           *)
(* The nested calls of execute() are the frames of `stack'.  Between runs,    *)
(* and inside the bodies that do so, the program is also changed by others:  *)
(* IR commits, catalog replacement, explicit invalidation, reconfiguration.  *)
(* A program is run by one thread (ARCHITECTURE.md: concurrent execution of   *)
(* passes on one Program is not supported), so a handler is one step.        *)
(***************************************************************************)
EXTENDS AnalysisState

CONSTANTS
    Outcomes,     \* [Passes -> SUBSET OutcomeKinds]: what a body may report
    Effects,      \* [Passes -> SUBSET Disturbances]: what a body may do besides
    Publishers,   \* analyses whose body publishes facts
    Pipelines,    \* expanded pipelines a caller may run
    Managers,     \* SUBSET ManagerKinds: the managers a caller may construct
    MaxRefresh,   \* max_analysis_refreshes
    MaxRuns,      \* bound: runs of one manager
    MaxExternal   \* bound: changes made between runs

OutcomeKinds == {"unchanged", "changed", "failed"}
Disturbances == {"ir", "catalog", "solver", "facts"}

\* PassManager(enable_caching=...), and whether the program can be a key of the
\* manager's dictionaries.
ManagerKinds == [caching : BOOLEAN, keyed : BOOLEAN]

ASSUME PassManagerAssumption ==
    /\ Outcomes \in [Passes -> SUBSET OutcomeKinds]
    /\ Effects \in [Passes -> SUBSET Disturbances]
    /\ Publishers \subseteq Analyses
    /\ Pipelines \subseteq Seq(Passes)
    /\ Managers \subseteq ManagerKinds
    /\ MaxRefresh \in Nat /\ MaxRuns \in Nat /\ MaxExternal \in Nat

VARIABLES
    manager,    \* the kind of the manager in use
    prog,       \* the program's analysis state
    avail,      \* AnalysisAvailability: pass -> marker token
    local,      \* local_available: the same stamps, kept by this run alone
    cache,      \* PassCache: pass -> stamped result
    stack,      \* active execute() calls, innermost last
    queue,      \* stages of the pipeline not started yet
    completed,  \* passes completed in this run
    runs,       \* _run_id
    outcome,    \* "none", "running", or how the last run ended
    externals   \* bound on External

state == <<prog, avail, local, cache>>
control == <<stack, queue, completed, runs, outcome>>
vars == <<manager, prog, avail, local, cache, stack, queue, completed, runs, outcome, externals>>

Caching == manager.caching
Keyed == manager.keyed

Running == outcome = "running"

--------------------------------------------------------------------------------
(* Markers and cache *)

Valid(n) == MarkerToken(prog) \in {local[n], avail[n]}

\* A stale entry is removed when it is looked up; the invocation that follows
\* replaces or removes it in any case, so the removal is not a step here.
CacheHolds(n) == cache[n].tok = CacheToken(prog)

NoMarkers == [n \in Passes |-> NoToken]
EmptyCache == [n \in Passes |-> NoEntry]

\* put: nothing is kept for a program that cannot be a dictionary key.
Mark(f, n, stamp) == IF Keyed THEN [f EXCEPT ![n] = stamp] ELSE f

\* Faulty variant: preservation retags stale stamps too.
RebaseAny(f, names, before, after) ==
    [n \in Passes |-> IF n \in names /\ f[n] # NoToken THEN after ELSE NoToken]

\* Retag the stamps of these names that carry the token `before'; drop the
\* rest, and every other name.
Rebase(f, names, before, after) ==
    [n \in Passes |-> IF n \in names /\ f[n] = before THEN after ELSE NoToken]

RebaseCache(c, names, before, after) ==
    [n \in Passes |-> IF n \in names /\ c[n].tok = before
                      THEN [tok |-> after, sound |-> c[n].sound]
                      ELSE NoEntry]

\* What p's new result makes of the cached results computed from its old one.
OutdatedBy(p) ==
    [n \in Passes |->
        [tok |-> cache[n].tok,
         sound |-> cache[n].sound /\ ~(p \in Analyses /\ Key[p] \in Sources(n))]]

--------------------------------------------------------------------------------
(* The program's other writers *)

Disturbed(s, kinds) ==
    {s} \cup (IF "ir" \in kinds THEN {CommitRevision(s, {})} ELSE {})
        \cup (IF "catalog" \in kinds THEN {ReplaceCatalog(s)} ELSE {})
        \cup (IF "solver" \in kinds THEN {InvalidateResults(s, {k}) : k \in Keys} ELSE {})
        \cup (IF "facts" \in kinds THEN {InvalidateFacts(s, {k}) : k \in Keys} ELSE {})

\* Between runs.  A reconfigured session hands out a new manager; a caller may
\* also go on using the one it holds.
External ==
    /\ ~Running
    /\ externals < MaxExternal
    /\ externals' = externals + 1
    /\ \/ /\ prog' \in Disturbed(prog, Disturbances) \ {prog}
          /\ UNCHANGED <<avail, cache>>
       \/ /\ prog' = MarkChanged(prog, {})
          /\ UNCHANGED <<avail, cache>>
       \/ \E o \in Options \ {prog.opt} :
             /\ prog' = Configure(prog, o)
             /\ \/ UNCHANGED <<avail, cache>>
                \/ avail' = NoMarkers /\ cache' = EmptyCache
    /\ UNCHANGED <<local, stack, queue, completed, runs, outcome>>

--------------------------------------------------------------------------------
(* run_pipeline and execute *)

Frame(p) == [pass |-> p, refreshes |-> [q \in Passes |-> 0]]
Top == stack[Len(stack)]
Current == Top.pass
Return == SubSeq(stack, 1, Len(stack) - 1)

StartRun ==
    /\ ~Running
    /\ runs < MaxRuns
    /\ \E pipeline \in Pipelines : queue' = pipeline
    /\ runs' = runs + 1
    /\ outcome' = "running"
    /\ stack' = <<>>
    /\ completed' = {}
    /\ local' = NoMarkers
    /\ UNCHANGED <<prog, avail, cache, externals>>

NextStage ==
    /\ Running
    /\ stack = <<>>
    /\ queue # <<>>
    /\ stack' = <<Frame(Head(queue))>>
    /\ queue' = Tail(queue)
    /\ UNCHANGED <<state, completed, runs, outcome, externals>>

FinishRun ==
    /\ Running
    /\ stack = <<>>
    /\ queue = <<>>
    /\ outcome' = "completed"
    /\ UNCHANGED <<state, stack, queue, completed, runs, externals>>

\* Positions in the prerequisite list of the current pass.
Pending(p) ==
    {i \in DOMAIN Prerequisites[p] : Prerequisites[p][i] \in OrderingOnly(p) \ completed}
Missing(p) ==
    {i \in DOMAIN Prerequisites[p] :
        Prerequisites[p][i] \in AnalysisInputs(p) /\ ~Valid(Prerequisites[p][i])}
First(p, positions) == Prerequisites[p][CHOOSE i \in positions : \A j \in positions : i <= j]

Active == Running /\ stack # <<>>

\* An ordering-only prerequisite runs once per pipeline run.
RunOrderingPrerequisite ==
    /\ Active
    /\ Pending(Current) # {}
    /\ stack' = Append(stack, Frame(First(Current, Pending(Current))))
    /\ UNCHANGED <<state, queue, completed, runs, outcome, externals>>

\* The whole required set is checked again after each refresh.  Looking a
\* marker up removes it when its token is stale.
NeedsRefresh ==
    /\ Active
    /\ Pending(Current) = {}
    /\ Missing(Current) # {}

Refresh ==
    /\ NeedsRefresh
    /\ LET p == First(Current, Missing(Current))
           n == Top.refreshes[p] + 1
       IN  /\ n <= MaxRefresh
           /\ stack' = Append([stack EXCEPT ![Len(stack)].refreshes[p] = n], Frame(p))
    /\ avail' = [n \in Passes |->
                   IF \E i \in Missing(Current) : Prerequisites[Current][i] = n
                   THEN NoToken ELSE avail[n]]
    /\ UNCHANGED <<prog, local, cache, queue, completed, runs, outcome, externals>>

\* Faulty variant: the run stops, the state of the program is kept.
AbortWithoutRetiring(s, how) ==
    /\ prog' = s
    /\ stack' = <<>>
    /\ queue' = <<>>
    /\ outcome' = how
    /\ UNCHANGED <<avail, local, cache, completed, runs, externals>>

\* retire_failed_state, then every active call returns False and the loop over
\* the pipeline stops.
Abort(s, how) ==
    /\ prog' = MarkChanged(s, {})
    /\ local' = NoMarkers
    /\ avail' = NoMarkers
    /\ cache' = EmptyCache
    /\ stack' = <<>>
    /\ queue' = <<>>
    /\ outcome' = how
    /\ UNCHANGED <<completed, runs, externals>>

Unstable ==
    /\ NeedsRefresh
    /\ Top.refreshes[First(Current, Missing(Current))] + 1 > MaxRefresh
    /\ Abort(prog, "unstable")

Ready == Active /\ Pending(Current) = {} /\ Missing(Current) = {}

\* Faulty variant: the pass is not entered among the completed ones.
CompleteUnrecorded ==
    /\ stack' = Return
    /\ UNCHANGED <<completed, queue, runs, outcome, externals>>

Complete ==
    /\ completed' = completed \cup {Current}
    /\ stack' = Return
    /\ UNCHANGED <<queue, runs, outcome, externals>>

CacheHit ==
    /\ Ready
    /\ Caching /\ CacheHolds(Current)
    /\ IF Current \in Analyses
       THEN /\ avail' = Mark(avail, Current, MarkerToken(prog))
            /\ local' = [local EXCEPT ![Current] = MarkerToken(prog)]
       ELSE UNCHANGED <<avail, local>>
    /\ Complete
    /\ UNCHANGED <<prog, cache>>

--------------------------------------------------------------------------------
(* Pass bodies and what follows them *)

\* The program state a body can leave: what else it did, then an analysis
\* publishes its facts and records its result.
AfterBody(p) ==
    LET publish(s) == IF p \in Publishers THEN Publish(s, Key[p]) ELSE s
    IN  {IF p \in Analyses THEN RecordResult(publish(s), p, InputsSound(prog, p)) ELSE s :
           s \in Disturbed(prog, Effects[p])}

RunsBody(kind) ==
    /\ Ready
    /\ ~(Caching /\ CacheHolds(Current))
    /\ kind \in Outcomes[Current]

\* A failed body may have done part of its work.
BodyFails ==
    /\ RunsBody("failed")
    /\ \E s \in AfterBody(Current) \cup Disturbed(prog, Effects[Current]) :
          Abort(s, "failed")

\* _invalidate_dependent_passes: commit the mutation and keep only what the
\* pass preserves, judged by the tokens taken before its body ran.
BodyChanges ==
    /\ RunsBody("changed")
    /\ \E s \in AfterBody(Current) :
         LET kept   == Preserved(Current)
             after  == MarkChanged(s, kept)
             before == MarkerToken(prog)
             reusable == {n \in kept : Kind[n] \in {"analysis", "utility"}}
         IN  /\ prog' = after
             /\ avail' = Rebase(avail, kept, before, MarkerToken(after))
             /\ local' = [n \in Passes |-> IF n \notin kept THEN NoToken
                                           ELSE IF local[n] = before THEN MarkerToken(after)
                                           ELSE local[n]]
             /\ cache' = RebaseCache(OutdatedBy(Current), reusable, CacheToken(prog),
                                     CacheToken(after))
    /\ Complete

\* _retire_analysis_dependents: results derived from the producer's previous
\* one are retired, but only if one of them is still in use.
InUse(s, analyses) ==
    \/ \E n \in analyses : MarkerToken(s) \in {local[n], avail[n]}
    \/ \E n \in analyses : Key[n] \in Held(s)

RetireDependents(s, p) ==
    LET analyses == Retired(p) \cap Analyses
    IN  IF InUse(s, analyses) THEN InvalidateResults(s, {Key[n] : n \in analyses}) ELSE s

AnalysisUnchanged ==
    /\ RunsBody("unchanged")
    /\ Current \in Analyses
    /\ \E s \in AfterBody(Current) :
         LET retired == Retired(Current)
             after   == RetireDependents(s, Current)
             token   == MarkerToken(after)
             swept   == [n \in Passes |-> IF n \in retired THEN NoEntry ELSE OutdatedBy(Current)[n]]
             entry   == [tok |-> CacheToken(after), sound |-> InputsSound(prog, Current)]
         IN  /\ prog' = after
             /\ avail' = Mark(Rebase(avail, Passes \ (retired \cap Analyses), MarkerToken(s),
                                     token),
                              Current, token)
             /\ local' = [n \in Passes |-> IF n = Current THEN token
                                           ELSE IF n \in retired THEN NoToken
                                           ELSE IF local[n] = MarkerToken(s) THEN token
                                           ELSE local[n]]
             /\ cache' = IF Caching THEN Mark(swept, Current, entry) ELSE cache
    /\ Complete

OtherUnchanged ==
    /\ RunsBody("unchanged")
    /\ Current \notin Analyses
    /\ \E s \in AfterBody(Current) :
         /\ prog' = s
         /\ cache' = IF Caching
                     THEN Mark(cache, Current,
                               [tok |-> CacheToken(s), sound |-> InputsSound(prog, Current)])
                     ELSE cache
    /\ UNCHANGED <<avail, local>>
    /\ Complete

--------------------------------------------------------------------------------
Init ==
    /\ manager \in Managers
    /\ \E o \in Options : prog = InitialState(o)
    /\ avail = NoMarkers
    /\ local = NoMarkers
    /\ cache = EmptyCache
    /\ stack = <<>>
    /\ queue = <<>>
    /\ completed = {}
    /\ runs = 0
    /\ outcome = "none"
    /\ externals = 0

RunStep ==
    \/ NextStage \/ FinishRun
    \/ RunOrderingPrerequisite \/ Refresh \/ Unstable
    \/ CacheHit \/ BodyFails \/ BodyChanges \/ AnalysisUnchanged \/ OtherUnchanged

Next == (External \/ StartRun \/ RunStep) /\ UNCHANGED manager

Spec == Init /\ [][Next]_vars

\* Once run_pipeline is called the interpreter keeps executing it; callers and
\* the program's other writers owe nothing.
FairSpec == Spec /\ WF_vars(RunStep /\ UNCHANGED manager)

--------------------------------------------------------------------------------
(* What the manager relies on of the passes and their declarations *)

\* No pass that asks for preservation commits a revision, replaces the catalog
\* or drops results inside its own body.
CommitsThroughManager ==
    \A p \in Passes : "changed" \in Outcomes[p] /\ Preserved(p) # {} => Effects[p] = {}

\* An analysis that reports a mutation of the program preserves nothing.
AnalysesPreserveNothing ==
    \A p \in Analyses : "changed" \in Outcomes[p] => Preserved(p) = {}

\* No pass of an analysis's slot reads, directly or not, what the slot holds.
SlotsAcyclic ==
    \A p \in Analyses, q \in Passes : Key[q] = Key[p] => Key[p] \notin Sources(q)

--------------------------------------------------------------------------------
(* Properties *)

\* Type invariant: every stamp is a token and every frame names a pass.
TypeOK ==
    /\ manager \in Managers
    /\ prog \in States
    /\ avail \in [Passes -> MarkerTokens \cup {NoToken}]
    /\ local \in [Passes -> MarkerTokens \cup {NoToken}]
    /\ cache \in [Passes -> Entries(CacheTokens)]
    /\ stack \in Seq([pass : Passes, refreshes : [Passes -> Nat]])
    /\ queue \in Seq(Passes)
    /\ completed \subseteq Passes
    /\ runs \in Nat /\ externals \in Nat
    /\ outcome \in {"none", "running", "completed", "failed", "unstable"}

\* A pass is invoked (its body run or its cached result used) only when the
\* session holds a current result for each analysis it needs, computed from
\* inputs that have not been replaced since.
RequirementsMet == Ready => InputsSound(prog, Current)

\* A marker that counts as valid is backed by a result the session still
\* holds: availability and the result registry never disagree.
MarkersBacked == \A n \in Analyses : Valid(n) => Key[n] \in Held(prog)

\* A cached result that a lookup would return was computed from the results
\* still in place, and an analysis served from the cache has its solver
\* object in the session.
CacheCurrent ==
    \A n \in Passes : CacheHolds(n) =>
        /\ cache[n].sound
        /\ n \in Analyses => Key[n] \in Held(prog)

\* Published facts never outlive the solver result they were published with:
\* the two representations have one lifecycle.
FactsFollowResults == prog.facts \subseteq Held(prog)

\* The pass cache and the fact table hold nothing of results the session dropped or
\* another backend replaced: three representations, one lifecycle.
NothingOutlivesResults == CacheCurrent /\ FactsFollowResults

\* No stamp is ahead of the program's counters, so a counter that moves
\* retires every stamp taken before it moved.
NotAhead(cat, rev, s) == cat < s.cat \/ (cat = s.cat /\ rev <= s.rev)
MarkersNotAhead(f) ==
    \A n \in Passes : f[n] # NoToken =>
        NotAhead(f[n][1], f[n][2], prog) /\ f[n][4] <= prog.gen
StampsNotAhead ==
    /\ MarkersNotAhead(avail) /\ MarkersNotAhead(local)
    /\ \A k \in Keys : prog.results[k].tok # NoToken =>
          NotAhead(prog.results[k].tok[1], prog.results[k].tok[2], prog)
    /\ \A n \in Passes : cache[n].tok # NoToken =>
          NotAhead(cache[n].tok[1], cache[n].tok[2], prog) /\ cache[n].tok[5] <= prog.gen

\* After a failure nothing computed before it is held, published or valid.
FailureRetiresState ==
    outcome \in {"failed", "unstable"} =>
        /\ Held(prog) = {} /\ prog.facts = {}
        /\ \A n \in Passes : ~Valid(n) /\ ~CacheHolds(n)

\* A result that is not current becomes current only by running an analysis
\* of its slot: neither preservation, a new catalog nor a return to earlier
\* options revives it.
NothingRevived ==
    [][\A k \in Held(prog)' \ Held(prog) :
          Active /\ Current \in Analyses /\ Key[Current] = k]_vars

\* Every run ends, whatever its passes do to one another's results.
RunEnds == Running ~> ~Running

================================================================================
