------------------------- MODULE AnalysisManagerProofs -------------------------
(***************************************************************************)
(* Theorems about AnalysisManager, for every set of files, workspaces and     *)
(* worker threads and every bound.                                            *)
(***************************************************************************)
EXTENDS AnalysisManager, TLAPS

\* Every step that publishes a snapshot or a file list checks, under the same
\* hold of _state_lock, that the manager is not closed.
LEMMA CloseStays == ClosedIsFinal /\ [Next]_vars => ClosedIsFinal'
<1> SUFFICES ASSUME ClosedIsFinal, [Next]_vars PROVE ClosedIsFinal'
  OBVIOUS
<1> USE DEF ClosedIsFinal, Loaded
<1>1. ASSUME NEW t \in Workers, Begin(t) PROVE ClosedIsFinal'
  <2>1. CASE LoadSources(t)
    BY <2>1 DEF LoadSources, ConfigureWorkspace
  <2>2. CASE Load(t)
    BY <2>2 DEF Load, ConfigureWorkspace
  <2>3. CASE RefreshSources(t) \/ AnalyzeWorkspace(t) \/ Reload(t)
    BY <2>3 DEF RefreshSources, AnalyzeWorkspace, Reload, universe
  <2> QED
    BY <1>1, <2>1, <2>2, <2>3 DEF Begin
<1>2. ASSUME NEW t \in Threads, Step(t) PROVE ClosedIsFinal'
  <2>1. CASE CommitSyntax(t)
    BY <2>1 DEF CommitSyntax, Outdated, Overtaken, universe
  <2>2. CASE SetFiles(t)
    BY <2>2 DEF SetFiles, Overtaken, universe
  <2>3. CASE CommitLoad(t)
    BY <2>3 DEF CommitLoad, Overtaken
  <2>4. CASE PublishBegins(t) \/ TakeOverlays(t) \/ TakeRevision(t) \/ ReadSources(t)
    BY <2>4 DEF PublishBegins, TakeOverlays, TakeRevision, ReadSources, universe
  <2>5. CASE AcquireAnalysisLock(t) \/ Recheck(t) \/ AnalysisFails(t) \/ RecordFailure(t)
    BY <2>5 DEF AcquireAnalysisLock, Recheck, AnalysisFails, RecordFailure, universe
  <2> QED
    BY <1>2, <2>1, <2>2, <2>3, <2>4, <2>5 DEF Step
<1>3. CASE EditDocument \/ CloseDocument
  BY <1>3 DEF EditDocument, CloseDocument, EditorChange, universe
<1>4. CASE Close
  BY <1>4 DEF Close
<1>5. CASE WriteFile
  BY <1>5 DEF WriteFile, universe
<1>6. CASE UNCHANGED vars
  BY <1>6 DEF vars
<1> QED
  BY <1>1, <1>2, <1>3, <1>4, <1>5, <1>6 DEF Next

\* After close() no worker that was still running brings back a snapshot or a
\* list of files (server.py: the guards of load_files, load_source_files,
\* refresh_sources and _publish_syntax_snapshot).
THEOREM CloseIsFinal == Spec => []ClosedIsFinal
<1>1. Init => ClosedIsFinal
  BY DEF Init, ClosedIsFinal, Loaded
<1> QED
  BY <1>1, CloseStays, PTL DEF Spec

--------------------------------------------------------------------------------

\* Only load_files and load_source_files publish a snapshot that is not stale:
\* the one from the sources it indexed, the other without facts.
LEMMA FreshStays == FreshFactsMatch /\ [Next]_vars => FreshFactsMatch'
<1> SUFFICES ASSUME FreshFactsMatch, [Next]_vars PROVE FreshFactsMatch'
  OBVIOUS
<1> USE DEF FreshFactsMatch, Loaded
<1>1. ASSUME NEW t \in Workers, Begin(t) PROVE FreshFactsMatch'
  BY <1>1 DEF Begin, LoadSources, Load, RefreshSources, AnalyzeWorkspace, Reload
<1>2. ASSUME NEW t \in Threads, Step(t) PROVE FreshFactsMatch'
  <2>1. CASE CommitSyntax(t)
    BY <2>1 DEF CommitSyntax, SyntaxSnapshot
  <2>2. CASE CommitLoad(t)
    BY <2>2 DEF CommitLoad, LoadedSnapshot
  <2>3. CASE PublishBegins(t) \/ TakeOverlays(t) \/ TakeRevision(t) \/ ReadSources(t)
    BY <2>3 DEF PublishBegins, TakeOverlays, TakeRevision, ReadSources
  <2>4. CASE SetFiles(t) \/ AcquireAnalysisLock(t) \/ Recheck(t)
    BY <2>4 DEF SetFiles, AcquireAnalysisLock, Recheck
  <2>5. CASE AnalysisFails(t) \/ RecordFailure(t)
    BY <2>5 DEF AnalysisFails, RecordFailure
  <2> QED
    BY <1>2, <2>1, <2>2, <2>3, <2>4, <2>5 DEF Step
<1>3. CASE EditDocument \/ CloseDocument
  BY <1>3 DEF EditDocument, CloseDocument, EditorChange
<1>4. CASE Close
  BY <1>4 DEF Close
<1>5. CASE WriteFile
  BY <1>5 DEF WriteFile
<1>6. CASE UNCHANGED vars
  BY <1>6 DEF vars
<1> QED
  BY <1>1, <1>2, <1>3, <1>4, <1>5, <1>6 DEF Next

\* A client that require_fresh_semantics lets through reads facts computed from
\* the very sources its positions refer to.
THEOREM FreshFactsAreOfTheSources == Spec => []FreshFactsMatch
<1>1. Init => FreshFactsMatch
  BY DEF Init, FreshFactsMatch, Loaded
<1> QED
  BY <1>1, FreshStays, PTL DEF Spec

--------------------------------------------------------------------------------
(* Types, and who holds the analysis lock                                     *)

Positions == {"idle", "overlays", "acquire", "discovered", "failed", "publish", "revision",
              "sources", "commit", "recheck"}
Modes == {"none", "sources", "semantic", "syntax"}

ThreadStates ==
    [pc : Positions, op : OperationNames \cup {"none", "edit"}, mode : Modes,
     path : Paths \cup {AnyPath}, gen : Nat, files : SUBSET Paths, over : Sources, srev : Nat,
     base : Snapshots \cup {NoSnapshot}, sources : Sources]

Analyses == {"load", "analyze_workspace", "reload"}

\* What a thread is in the middle of says which operation it runs, and the event
\* loop only publishes.
ThreadOK(l) ==
    /\ l.pc \in {"commit", "sources", "overlays"} /\ l.mode = "syntax" => l.base # NoSnapshot
    /\ l.pc \in {"acquire", "revision"} => l.mode = "semantic"
    /\ l.pc = "discovered" => l.op = "refresh_sources"
    /\ l.mode = "semantic" => l.op \in Analyses
LoopOK(l) ==
    /\ l.op \in {"none", "edit"}
    /\ l.pc \in {"idle", "publish", "overlays", "sources", "commit"}
    /\ l.pc \in {"overlays", "sources", "commit"} => l.mode = "syntax"

\* An operation that runs the compiler, from the moment it has the lock.
Analyzing(l) == l.op \in Analyses /\ l.pc \notin {"idle", "acquire", "failed"}

DocumentTypes == docs \in [Paths -> Overlays] /\ docRev \in Nat
ManagerTypes ==
    /\ disk \in Sources
    /\ snap \in Snapshots \cup {NoSnapshot}
    /\ nextRev \in Nat /\ generation \in Nat
    /\ closed \in BOOLEAN /\ rooted \in BOOLEAN /\ diagnosed \in BOOLEAN
    /\ workspace \in Workspaces \cup {NoWorkspace}
    /\ pyfiles \subseteq Paths
    /\ writes \in Nat
ThreadTypes ==
    /\ thread \in [Threads -> ThreadStates]
    /\ \A t \in Threads : ThreadOK(thread[t])
    /\ LoopOK(thread[Loop])
LockHeld ==
    /\ lock # NoThread => lock \in Workers /\ Analyzing(thread[lock])
    /\ \A t \in Threads : Analyzing(thread[t]) => lock = t

TInv == DocumentTypes /\ ManagerTypes /\ ThreadTypes /\ LockHeld

LEMMA IdleType ==
  /\ Idle \in ThreadStates /\ ThreadOK(Idle) /\ LoopOK(Idle) /\ ~Analyzing(Idle)
  /\ Idle.pc = "idle"
<1>1. NoTexts \in Sources
  BY DEF NoTexts, Sources
<1> QED
  BY <1>1 DEF Idle, ThreadStates, ThreadOK, LoopOK, Analyzing, Positions, Modes, Analyses

LEMMA DiscoveredType == ASSUME NEW w \in Workspaces \cup {NoWorkspace} PROVE Discovered(w) \subseteq Paths
BY AnalysisManagerAssumption DEF Discovered

\* A thread's next position and locals, and the lock unchanged.
LEMMA Continues ==
  ASSUME ThreadTypes, LockHeld, NEW t \in Threads, NEW l \in ThreadStates, Continue(t, l),
         ThreadOK(l), t = Loop => LoopOK(l), lock' = lock, Analyzing(l) <=> Analyzing(thread[t])
  PROVE  ThreadTypes' /\ LockHeld'
<1>1. thread' \in [Threads -> ThreadStates]
  BY DEF Continue, ThreadTypes
<1>2. \A u \in Threads : thread'[u] = IF u = t THEN l ELSE thread[u]
  BY DEF Continue, ThreadTypes
<1>3. Loop \in Threads /\ Workers \subseteq Threads
  BY DEF Threads
<1> QED
  BY <1>1, <1>2, <1>3 DEF ThreadTypes, LockHeld

\* A thread leaves the lock to the next one when its operation ends.
LEMMA Finishes ==
  ASSUME ThreadTypes, LockHeld, NEW t \in Threads, NEW l \in ThreadStates, Continue(t, l),
         ThreadOK(l), t = Loop => LoopOK(l), ~Analyzing(l),
         lock' = IF lock = t THEN NoThread ELSE lock
  PROVE  ThreadTypes' /\ LockHeld'
<1>1. thread' \in [Threads -> ThreadStates]
  BY DEF Continue, ThreadTypes
<1>2. \A u \in Threads : thread'[u] = IF u = t THEN l ELSE thread[u]
  BY DEF Continue, ThreadTypes
<1>3. Loop \in Threads /\ Workers \subseteq Threads
  BY DEF Threads
<1> QED
  BY <1>1, <1>2, <1>3 DEF ThreadTypes, LockHeld

LEMMA FinishType ==
  ASSUME ThreadTypes, LockHeld, NEW t \in Threads, Finish(t)
  PROVE  ThreadTypes' /\ LockHeld'
BY IdleType, Finishes DEF Finish

LEMMA BeginTypes == ASSUME TInv, NEW t \in Workers, Begin(t) PROVE TInv'
<1>1. /\ t \in Threads /\ t # Loop /\ At(t, "idle") /\ ~Analyzing(thread[t])
      /\ UNCHANGED <<documents, disk, snap, nextRev, pyfiles, lock, writes>>
  BY AnalysisManagerAssumption
     DEF Begin, LoadSources, Load, RefreshSources, AnalyzeWorkspace, Reload, Begins, Threads,
         Analyzing, At
<1>2. ASSUME NEW files \in SUBSET Paths, NEW g \in Nat,
             Continue(t, [Idle EXCEPT !.pc = "overlays", !.op = "load_sources", !.mode = "sources",
                                      !.gen = g, !.files = files])
      PROVE  ThreadTypes' /\ LockHeld'
  <2> DEFINE l == [Idle EXCEPT !.pc = "overlays", !.op = "load_sources", !.mode = "sources",
                               !.gen = g, !.files = files]
  <2>1. l \in ThreadStates /\ l.pc = "overlays" /\ l.op = "load_sources" /\ l.mode = "sources"
    BY <1>2, IdleType DEF ThreadStates, Positions, Modes, OperationNames
  <2> HIDE DEF l
  <2>2. ThreadOK(l) /\ ~Analyzing(l)
    BY <2>1 DEF ThreadOK, Analyzing, Analyses
  <2> QED
    BY <1>1, <1>2, <2>1, <2>2, Continues DEF TInv, l
<1>3. ASSUME NEW files \in SUBSET Paths, NEW g \in Nat,
             NEW pc \in {"acquire", "failed"}, NEW op \in Analyses,
             Continue(t, [Idle EXCEPT !.pc = pc, !.op = op, !.mode = "semantic", !.gen = g,
                                      !.files = files])
      PROVE  ThreadTypes' /\ LockHeld'
  <2> DEFINE l == [Idle EXCEPT !.pc = pc, !.op = op, !.mode = "semantic", !.gen = g, !.files = files]
  <2>1. l \in ThreadStates /\ l.pc = pc /\ l.op = op /\ l.mode = "semantic"
    BY <1>3, IdleType DEF ThreadStates, Positions, Modes, OperationNames, Analyses
  <2> HIDE DEF l
  <2>2. ThreadOK(l) /\ ~Analyzing(l)
    BY <2>1 DEF ThreadOK, Analyzing
  <2> QED
    BY <1>1, <1>3, <2>1, <2>2, Continues DEF TInv, l
<1>4. ASSUME NEW w \in Workspaces \cup {NoWorkspace}, ConfigureWorkspace(w)
      PROVE  ManagerTypes' /\ DocumentTypes'
  <2>1. (w # NoWorkspace) \in BOOLEAN
    OBVIOUS
  <2>2. rooted' \in BOOLEAN
    BY <1>4, <2>1, Zenon DEF ConfigureWorkspace
  <2>3. generation' = generation + 1 /\ closed' = FALSE /\ diagnosed' = FALSE /\ workspace' = w
    BY <1>4 DEF ConfigureWorkspace
  <2>4. closed' \in BOOLEAN /\ diagnosed' \in BOOLEAN
    BY <2>3
  <2>5. generation' \in Nat /\ workspace' \in Workspaces \cup {NoWorkspace}
    BY <2>3 DEF TInv, ManagerTypes
  <2>6. ManagerTypes'
    <3>1. UNCHANGED <<disk, snap, nextRev, pyfiles, writes>>
      BY <1>1
    <3> QED
      BY <2>2, <2>4, <2>5, <3>1 DEF TInv, ManagerTypes
  <2>7. DocumentTypes'
    BY <1>1 DEF TInv, DocumentTypes, documents
  <2> QED
    BY <2>6, <2>7
<1>5. ASSUME UNCHANGED <<universe, diagnosed>> PROVE ManagerTypes' /\ DocumentTypes'
  BY <1>1, <1>5 DEF TInv, ManagerTypes, DocumentTypes, universe, documents
<1>6. CASE LoadSources(t)
  <2>1. PICK w \in Workspaces \cup {NoWorkspace} :
           /\ ConfigureWorkspace(w)
           /\ \E files \in IF w # NoWorkspace THEN {Discovered(w)}
                           ELSE {{}} \cup {{p} : p \in {q \in Paths : IsOpen(q) /\ ~Loaded}} :
                 Continue(t, [Idle EXCEPT !.pc = "overlays", !.op = "load_sources",
                                          !.mode = "sources", !.gen = generation + 1,
                                          !.files = files])
    BY <1>6 DEF LoadSources
  <2>2. PICK files \in SUBSET Paths :
           Continue(t, [Idle EXCEPT !.pc = "overlays", !.op = "load_sources",
                                    !.mode = "sources", !.gen = generation + 1,
                                    !.files = files])
    BY <2>1, DiscoveredType
  <2>3. generation + 1 \in Nat
    BY DEF TInv, ManagerTypes
  <2> QED
    BY <1>2, <1>4, <2>1, <2>2, <2>3 DEF TInv
<1>7. CASE Load(t)
  <2>1. PICK w \in Workspaces :
           /\ ConfigureWorkspace(w)
           /\ Continue(t, [Idle EXCEPT !.pc = "acquire", !.op = "load", !.mode = "semantic",
                                       !.gen = generation + 1, !.files = Discovered(w)])
    BY <1>7 DEF Load
  <2>2. generation + 1 \in Nat /\ Discovered(w) \in SUBSET Paths
    BY DiscoveredType DEF TInv, ManagerTypes
  <2> QED
    BY <1>3, <1>4, <2>1, <2>2 DEF TInv, Analyses
<1>8. CASE RefreshSources(t)
  <2>1. generation \in Nat /\ Discovered(workspace) \in SUBSET Paths
    BY DiscoveredType DEF TInv, ManagerTypes
  <2> DEFINE l == [Idle EXCEPT !.pc = "discovered", !.op = "refresh_sources",
                               !.gen = generation, !.files = Discovered(workspace)]
  <2>2. l \in ThreadStates /\ l.pc = "discovered" /\ l.op = "refresh_sources" /\ l.mode = "none"
    BY <2>1, IdleType DEF ThreadStates, Positions, Modes, OperationNames, Idle
  <2>3. Continue(t, l) /\ UNCHANGED <<universe, diagnosed>>
    BY <1>8 DEF RefreshSources
  <2> HIDE DEF l
  <2>4. ThreadOK(l) /\ ~Analyzing(l)
    BY <2>2 DEF ThreadOK, Analyzing, Analyses
  <2> QED
    BY <1>1, <1>5, <2>2, <2>3, <2>4, Continues DEF TInv
<1>9. CASE AnalyzeWorkspace(t)
  <2> DEFINE indexed == IF Loaded THEN {p \in Paths : snap.sources[p] # NoText} ELSE {}
             files   == pyfiles \cup indexed
  <2>1. files \in SUBSET Paths /\ generation \in Nat
    BY DEF TInv, ManagerTypes
  <2>2. /\ Continue(t, [Idle EXCEPT !.pc = IF files = {} THEN "failed" ELSE "acquire",
                                   !.op = "analyze_workspace", !.mode = "semantic",
                                   !.gen = generation, !.files = files])
        /\ UNCHANGED <<universe, diagnosed>>
    BY <1>9 DEF AnalyzeWorkspace
  <2> HIDE DEF files
  <2> DEFINE pc == IF files = {} THEN "failed" ELSE "acquire"
  <2>3. pc \in {"acquire", "failed"}
    OBVIOUS
  <2> HIDE DEF pc
  <2> QED
    BY <1>3, <1>5, <2>1, <2>2, <2>3 DEF TInv, Analyses, pc
<1>10. CASE Reload(t)
  <2>1. PICK w \in ReloadRoots :
           LET files == IF Discovered(w) # {} THEN Discovered(w) ELSE pyfiles
           IN  Continue(t, [Idle EXCEPT !.pc = "acquire", !.op = "reload", !.mode = "semantic",
                                        !.gen = generation, !.files = files])
    BY <1>10 DEF Reload
  <2>2. w \in Workspaces \cup {NoWorkspace}
    BY DEF ReloadRoots, TInv, ManagerTypes
  <2> DEFINE files == IF Discovered(w) # {} THEN Discovered(w) ELSE pyfiles
  <2>3. files \in SUBSET Paths /\ generation \in Nat
    BY <2>2, DiscoveredType DEF TInv, ManagerTypes
  <2>4. UNCHANGED <<universe, diagnosed>>
    BY <1>10 DEF Reload
  <2> HIDE DEF files
  <2> QED
    BY <1>3, <1>5, <2>1, <2>3, <2>4 DEF TInv, Analyses, files
<1> QED
  BY <1>6, <1>7, <1>8, <1>9, <1>10 DEF Begin

\* Sources and snapshots a thread puts together.
LEMMA SourcesTypes ==
  ASSUME NEW files \in SUBSET Paths, NEW over \in Sources, disk \in Sources
  PROVE  /\ CurrentSources(files, over) \in Sources
         /\ AnalyzedSources(files, over) \in Sources
         /\ \A base \in Sources, p \in Paths : ChangedSources(base, p, files, over) \in Sources
<1>1. \A p \in Paths : FileText(p) \in Texts \cup {NoText}
  BY DEF FileText, Sources, Texts
<1>2. CurrentSources(files, over) \in Sources
  BY <1>1 DEF CurrentSources, Sources
<1>3. AnalyzedSources(files, over) \in Sources
  BY DEF AnalyzedSources, Sources
<1>4. ASSUME NEW base \in Sources, NEW p \in Paths PROVE ChangedSources(base, p, files, over) \in Sources
  BY DEF ChangedSources, Sources
<1> QED
  BY <1>2, <1>3, <1>4

LEMMA OverridesType == ASSUME DocumentTypes PROVE SourceOverrides \in Sources
BY DEF DocumentTypes, Overlays, SourceOverrides, Sources

LEMMA SnapshotTypes ==
  ASSUME TInv, NEW t \in Threads
  PROVE  /\ At(t, "commit") /\ thread[t].mode = "syntax" => SyntaxSnapshot(t) \in Snapshots
         /\ \A facts \in Sources \cup {NoFacts} : LoadedSnapshot(t, facts) \in Snapshots
<1>1. thread[t] \in ThreadStates /\ ThreadOK(thread[t]) /\ nextRev + 1 \in Nat
  BY DEF TInv, ThreadTypes, ManagerTypes
<1>2. ASSUME At(t, "commit"), thread[t].mode = "syntax" PROVE SyntaxSnapshot(t) \in Snapshots
  <2>1. thread[t].base \in Snapshots
    BY <1>1, <1>2 DEF At, ThreadOK, ThreadStates
  <2>2. thread[t].base.semRev \in Nat /\ thread[t].base.facts \in Sources \cup {NoFacts}
    BY <2>1 DEF Snapshots
  <2> QED
    BY <1>1, <2>2 DEF SyntaxSnapshot, Snapshots, ThreadStates
<1>3. ASSUME NEW facts \in Sources \cup {NoFacts} PROVE LoadedSnapshot(t, facts) \in Snapshots
  BY <1>1 DEF LoadedSnapshot, Snapshots, ThreadStates
<1> QED
  BY <1>2, <1>3

LEMMA StepTypes == ASSUME TInv, NEW t \in Threads, Step(t) PROVE TInv'
<1> DEFINE l == thread[t]
<1>1. /\ l \in ThreadStates /\ ThreadOK(l) /\ (t = Loop => LoopOK(l))
      /\ ThreadTypes /\ LockHeld /\ DocumentTypes /\ ManagerTypes
  BY DEF TInv, ThreadTypes
<1>2. ASSUME UNCHANGED <<documents, universe, disk, snap, nextRev, pyfiles, diagnosed, bounds>>
      PROVE  ManagerTypes' /\ DocumentTypes'
  BY <1>1, <1>2 DEF ManagerTypes, DocumentTypes, documents, universe, bounds
<1>3. CASE PublishBegins(t)
  <2>1. CASE ~Loaded \/ closed
    BY <1>1, <1>2, <1>3, <2>1, FinishType DEF PublishBegins, TInv
  <2>2. CASE ~(~Loaded \/ closed)
    <3> DEFINE m == [l EXCEPT !.pc = "overlays", !.mode = "syntax", !.base = snap,
                              !.gen = generation, !.files = pyfiles]
    <3>1. Continue(t, m) /\ lock' = lock /\ l.pc = "publish" /\ snap # NoSnapshot
      BY <1>3, <2>2 DEF PublishBegins, At, Loaded
    <3>2. /\ m \in ThreadStates /\ m.pc = "overlays" /\ m.mode = "syntax" /\ m.op = l.op
          /\ m.base = snap
      BY <1>1 DEF ThreadStates, Positions, Modes, ManagerTypes
    <3> HIDE DEF m
    <3>3. ThreadOK(m) /\ (t = Loop => LoopOK(m)) /\ (Analyzing(m) <=> Analyzing(l))
      BY <1>1, <3>1, <3>2 DEF ThreadOK, LoopOK, Analyzing, Analyses
    <3> QED
      BY <1>1, <1>2, <1>3, <3>1, <3>2, <3>3, Continues DEF PublishBegins, TInv
  <2> QED
    BY <2>1, <2>2
<1>4. ASSUME NEW m \in ThreadStates, Continue(t, m), lock' = lock, m.op = l.op, m.mode = l.mode,
             m.base = l.base, l.pc \notin {"idle", "acquire", "failed"},
             m.pc \in {"revision", "sources", "commit", "recheck", "publish"},
             m.pc = "revision" => l.mode = "semantic",
             m.pc = "recheck" => l.pc = "commit" /\ l.mode # "syntax",
             m.pc \in {"sources", "commit"} => l.pc \in {"overlays", "revision", "sources"},
             m.pc = "publish" => t # Loop
      PROVE  ThreadTypes' /\ LockHeld'
  <2>1. ThreadOK(m) /\ (t = Loop => LoopOK(m)) /\ (Analyzing(m) <=> Analyzing(l))
    BY <1>1, <1>4 DEF ThreadOK, LoopOK, Analyzing, Analyses
  <2> QED
    BY <1>1, <1>4, <2>1, Continues
<1>5. CASE TakeOverlays(t)
  <2> DEFINE m == IF l.mode = "semantic"
                  THEN [l EXCEPT !.over = SourceOverrides, !.pc = "revision"]
                  ELSE [l EXCEPT !.over = SourceOverrides, !.srev = docRev, !.pc = "sources"]
  <2>1. Continue(t, m) /\ lock' = lock /\ l.pc = "overlays"
    BY <1>5 DEF TakeOverlays, TakeSnapshot, At
  <2>2. m \in ThreadStates /\ m.op = l.op /\ m.mode = l.mode /\ m.base = l.base
        /\ m.pc = IF l.mode = "semantic" THEN "revision" ELSE "sources"
    BY <1>1, OverridesType DEF ThreadStates, Positions, DocumentTypes
  <2> HIDE DEF m
  <2> QED
    BY <1>2, <1>4, <1>5, <2>1, <2>2 DEF TakeOverlays, TInv
<1>6. CASE TakeRevision(t)
  <2> DEFINE m == [l EXCEPT !.srev = docRev, !.pc = "sources"]
  <2>1. Continue(t, m) /\ lock' = lock /\ l.pc = "revision"
    BY <1>6 DEF TakeRevision, At
  <2>2. m \in ThreadStates /\ m.op = l.op /\ m.mode = l.mode /\ m.base = l.base /\ m.pc = "sources"
    BY <1>1 DEF ThreadStates, Positions, DocumentTypes
  <2> HIDE DEF m
  <2> QED
    BY <1>2, <1>4, <1>6, <2>1, <2>2 DEF TakeRevision, TInv
<1>7. CASE ReadSources(t)
  <2>1. PICK sources \in Sources : Continue(t, [l EXCEPT !.sources = sources, !.pc = "commit"])
    <3> DEFINE sources == IF l.mode = "semantic" THEN AnalyzedSources(l.files, l.over)
                          ELSE IF l.mode = "syntax" /\ l.path # AnyPath
                          THEN ChangedSources(l.base.sources, l.path, l.files, l.over)
                          ELSE CurrentSources(l.files, l.over)
    <3>1. l.files \in SUBSET Paths /\ l.over \in Sources /\ disk \in Sources
          /\ l.path \in Paths \cup {AnyPath}
      BY <1>1 DEF ThreadStates, ManagerTypes
    <3>2. l.mode = "syntax" => l.base.sources \in Sources
      BY <1>1, <1>7 DEF ThreadOK, ThreadStates, Snapshots, ReadSources, At
    <3>3. sources \in Sources
      BY <3>1, <3>2, SourcesTypes
    <3>4. Continue(t, [l EXCEPT !.sources = sources, !.pc = "commit"])
      BY <1>7 DEF ReadSources
    <3> QED
      BY <3>3, <3>4
  <2> DEFINE m == [l EXCEPT !.sources = sources, !.pc = "commit"]
  <2>2. m \in ThreadStates /\ m.op = l.op /\ m.mode = l.mode /\ m.base = l.base /\ m.pc = "commit"
    BY <1>1 DEF ThreadStates, Positions
  <2>3. lock' = lock /\ l.pc = "sources" /\ Continue(t, m)
    BY <1>7, <2>1 DEF ReadSources, At
  <2> HIDE DEF m
  <2> QED
    BY <1>2, <1>4, <1>7, <2>2, <2>3 DEF ReadSources, TInv
<1>8. CASE CommitSyntax(t)
  <2>1. ThreadTypes' /\ LockHeld'
    BY <1>1, <1>8, FinishType DEF CommitSyntax
  <2>2. snap' \in Snapshots \cup {NoSnapshot} /\ nextRev' \in Nat
    BY <1>1, <1>8, SnapshotTypes DEF CommitSyntax, ManagerTypes
  <2>3. UNCHANGED <<documents, disk, universe, pyfiles, diagnosed, bounds>>
    BY <1>8 DEF CommitSyntax
  <2> QED
    BY <1>1, <2>1, <2>2, <2>3 DEF TInv, ManagerTypes, DocumentTypes, documents, universe, bounds
<1>9. CASE SetFiles(t)
  <2>1. pyfiles' \in SUBSET Paths /\ l.files \in SUBSET Paths
    BY <1>1, <1>9 DEF SetFiles, ManagerTypes, ThreadStates
  <2>2. UNCHANGED <<documents, disk, snap, nextRev, universe, diagnosed, bounds>>
    BY <1>9 DEF SetFiles
  <2>3. ManagerTypes' /\ DocumentTypes'
    BY <1>1, <2>1, <2>2 DEF ManagerTypes, DocumentTypes, documents, universe, bounds
  <2>4. CASE Overtaken(t)
    BY <1>1, <1>9, <2>3, <2>4, FinishType DEF SetFiles, TInv
  <2>5. CASE ~Overtaken(t)
    <3> DEFINE m == [l EXCEPT !.pc = "publish"]
    <3>1. Continue(t, m) /\ lock' = lock /\ l.pc = "discovered"
      BY <1>9, <2>5 DEF SetFiles, At
    <3>2. m \in ThreadStates /\ m.op = l.op /\ m.mode = l.mode /\ m.base = l.base /\ m.pc = "publish"
      BY <1>1 DEF ThreadStates, Positions
    <3>3. t # Loop
      BY <1>1, <3>1 DEF LoopOK
    <3> HIDE DEF m
    <3> QED
      BY <1>4, <2>3, <3>1, <3>2, <3>3 DEF TInv
  <2> QED
    BY <2>4, <2>5
<1>10. CASE AcquireAnalysisLock(t)
  <2> DEFINE m == [l EXCEPT !.pc = "overlays"]
  <2>1. Continue(t, m) /\ lock = NoThread /\ lock' = t /\ l.pc = "acquire"
    BY <1>10 DEF AcquireAnalysisLock, At
  <2>2. m \in ThreadStates /\ m.op = l.op /\ m.mode = l.mode /\ m.base = l.base /\ m.pc = "overlays"
    BY <1>1 DEF ThreadStates, Positions
  <2>3. t \in Workers /\ t # Loop
    BY <1>1, <2>1 DEF LoopOK, Threads
  <2> HIDE DEF m
  <2>4. m.mode = "semantic" /\ ThreadOK(m) /\ Analyzing(m)
    BY <1>1, <2>1, <2>2 DEF ThreadOK, Analyzing
  <2>5. \A u \in Threads : ~Analyzing(thread[u])
    BY <1>1, <2>1, AnalysisManagerAssumption DEF LockHeld, Analyzing, ThreadTypes, LoopOK, Threads, Analyses
  <2>6. /\ thread' \in [Threads -> ThreadStates]
        /\ \A u \in Threads : thread'[u] = IF u = t THEN m ELSE thread[u]
    BY <1>1, <2>1, <2>2 DEF Continue, ThreadTypes
  <2>7. Loop \in Threads
    BY DEF Threads
  <2>8. ThreadTypes' /\ LockHeld'
    BY <1>1, <2>1, <2>3, <2>4, <2>5, <2>6, <2>7 DEF ThreadTypes, LockHeld
  <2> QED
    BY <1>2, <1>10, <2>8 DEF AcquireAnalysisLock, TInv
<1>11. CASE CommitLoad(t)
  <2>1. l.pc = "commit" /\ l.mode \in {"sources", "semantic"} /\ l.files \in SUBSET Paths
        /\ UNCHANGED <<documents, disk, generation, closed, workspace, bounds>>
    BY <1>1, <1>11 DEF CommitLoad, At, ThreadStates
  <2>2. CASE Overtaken(t)
    <3>1. Finish(t) /\ UNCHANGED <<snap, nextRev, pyfiles, diagnosed, rooted>>
      BY <1>11, <2>2 DEF CommitLoad
    <3>2. UNCHANGED <<documents, universe, disk, snap, nextRev, pyfiles, diagnosed, bounds>>
      BY <2>1, <3>1 DEF universe
    <3> QED
      BY <1>1, <1>2, <3>1, <3>2, FinishType DEF TInv
  <2>3. CASE ~Overtaken(t)
    <3> DEFINE m == [l EXCEPT !.pc = "recheck"]
    <3>1. /\ Continue(t, m) /\ lock' = lock /\ pyfiles' = l.files /\ nextRev' = nextRev + 1
          /\ snap' = LoadedSnapshot(t, IF l.mode = "semantic" THEN l.sources ELSE NoFacts)
      BY <1>11, <2>3 DEF CommitLoad
    <3>2. m \in ThreadStates /\ m.op = l.op /\ m.mode = l.mode /\ m.base = l.base /\ m.pc = "recheck"
      BY <1>1 DEF ThreadStates, Positions
    <3> HIDE DEF m
    <3>3. ThreadTypes' /\ LockHeld'
      BY <1>4, <2>1, <3>1, <3>2
    <3>4. snap' \in Snapshots
      BY <1>1, <3>1, SnapshotTypes DEF ThreadStates
    <3>5. diagnosed' \in BOOLEAN /\ rooted' \in BOOLEAN
      <4> DEFINE sem == l.mode = "semantic"
                 notsem == l.mode # "semantic"
      <4>1. sem \in BOOLEAN /\ notsem \in BOOLEAN /\ diagnosed \in BOOLEAN /\ rooted \in BOOLEAN
        BY <1>1 DEF ManagerTypes
      <4>2. diagnosed' = (diagnosed /\ notsem) /\ rooted' = (rooted \/ sem)
        BY <1>11, <2>3, Zenon DEF CommitLoad
      <4> HIDE DEF sem, notsem
      <4> QED
        BY <4>1, <4>2
    <3>6. nextRev' \in Nat /\ pyfiles' \in SUBSET Paths
      BY <1>1, <2>1, <3>1 DEF ManagerTypes
    <3>7. ManagerTypes' /\ DocumentTypes'
      BY <1>1, <2>1, <3>4, <3>5, <3>6 DEF ManagerTypes, DocumentTypes, documents, bounds
    <3> QED
      BY <3>3, <3>7 DEF TInv
  <2> QED
    BY <2>2, <2>3
<1>12. CASE Recheck(t)
  <2>1. l.pc = "recheck"
        /\ UNCHANGED <<documents, universe, disk, snap, nextRev, pyfiles, diagnosed, bounds>>
    BY <1>12 DEF Recheck, At
  <2>2. CASE docRev # l.srev
    <3> DEFINE m == [l EXCEPT !.pc = "publish"]
    <3>1. Continue(t, m) /\ lock' = lock /\ t # Loop
      BY <1>1, <1>12, <2>1, <2>2 DEF Recheck, LoopOK
    <3>2. m \in ThreadStates /\ m.op = l.op /\ m.mode = l.mode /\ m.base = l.base /\ m.pc = "publish"
      BY <1>1 DEF ThreadStates, Positions
    <3> HIDE DEF m
    <3> QED
      BY <1>2, <1>4, <2>1, <3>1, <3>2 DEF TInv
  <2>3. CASE docRev = l.srev
    BY <1>1, <1>2, <1>12, <2>1, <2>3, FinishType DEF Recheck, TInv
  <2> QED
    BY <2>2, <2>3
<1>13. CASE AnalysisFails(t)
  <2> DEFINE m == IF l.op = "analyze_workspace" THEN [l EXCEPT !.pc = "failed"] ELSE Idle
  <2>1. l.pc = "sources" /\ l.mode = "semantic" /\ Continue(t, m) /\ lock' = NoThread
        /\ UNCHANGED <<documents, universe, disk, snap, nextRev, pyfiles, diagnosed, bounds>>
    BY <1>13 DEF AnalysisFails, At
  <2>2. m \in ThreadStates /\ ThreadOK(m) /\ ~Analyzing(m) /\ (t = Loop => LoopOK(m))
    <3>1. CASE l.op = "analyze_workspace"
      <4>1. m \in ThreadStates /\ m.pc = "failed" /\ m.op = l.op /\ m.mode = l.mode
        BY <1>1, <3>1 DEF ThreadStates, Positions
      <4> QED
        BY <1>1, <2>1, <3>1, <4>1 DEF ThreadOK, Analyzing, LoopOK
    <3>2. CASE l.op # "analyze_workspace"
      BY <3>2, IdleType
    <3> QED
      BY <3>1, <3>2
  <2> HIDE DEF m
  <2>3. lock = t
    BY <1>1, <2>1 DEF ThreadOK, LockHeld, Analyzing
  <2> QED
    BY <1>1, <1>2, <2>1, <2>2, <2>3, Finishes DEF TInv
<1>14. CASE RecordFailure(t)
  <2>1. ThreadTypes' /\ LockHeld'
    BY <1>1, <1>14, FinishType DEF RecordFailure
  <2>2. diagnosed' \in BOOLEAN
    <3> DEFINE valid == ~Overtaken(t)
    <3>1. valid \in BOOLEAN /\ diagnosed \in BOOLEAN
      BY <1>1 DEF ManagerTypes
    <3>2. diagnosed' = (diagnosed \/ valid)
      BY <1>14 DEF RecordFailure
    <3> HIDE DEF valid
    <3> QED
      BY <3>1, <3>2
  <2>3. UNCHANGED <<documents, universe, disk, snap, nextRev, pyfiles, bounds>>
    BY <1>14 DEF RecordFailure
  <2> QED
    BY <1>1, <2>1, <2>2, <2>3 DEF TInv, ManagerTypes, DocumentTypes, documents, universe, bounds
<1> QED
  BY <1>3, <1>5, <1>6, <1>7, <1>8, <1>9, <1>10, <1>11, <1>12, <1>13, <1>14 DEF Step

LEMMA EditTypes == ASSUME TInv, EditDocument \/ CloseDocument PROVE TInv'
<1>1. PICK p \in Paths : EditorChange(p) /\ ((\E v \in Versions : Edit(p, v)) \/ CloseOverlay(p))
  BY DEF EditDocument, CloseDocument
<1>2. DocumentTypes'
  <2>1. docRev + 1 \in Nat /\ NoVersion \in Nat \cup {NoVersion}
        /\ docs \in [Paths -> Overlays]
    BY DEF TInv, DocumentTypes
  <2>2. ASSUME NEW v \in Versions, Edit(p, v) PROVE DocumentTypes'
    <3>1. [text |-> <<"edit", docRev + 1>>, version |-> v] \in Overlays
      BY <2>1, VersionAssumption DEF Overlays, Texts
    <3> QED
      BY <2>1, <2>2, <3>1 DEF DocumentTypes, Edit
  <2>3. ASSUME CloseOverlay(p) PROVE DocumentTypes'
    <3>1. Unopened \in Overlays
      BY DEF Overlays, Unopened
    <3> QED
      BY <2>1, <2>3, <3>1 DEF DocumentTypes, CloseOverlay
  <2> QED
    BY <1>1, <2>2, <2>3
<1>3. ManagerTypes'
  BY <1>1 DEF EditorChange, TInv, ManagerTypes, universe, bounds
<1>4. ThreadTypes' /\ LockHeld'
  <2> DEFINE m == [Idle EXCEPT !.pc = "publish", !.op = "edit", !.path = p]
  <2>1. /\ Continue(Loop, m) /\ lock' = lock /\ thread[Loop].pc = "idle" /\ Loop \in Threads
    BY <1>1 DEF EditorChange, At, Threads
  <2>2. m \in ThreadStates /\ m.pc = "publish" /\ m.op = "edit" /\ m.mode = "none"
    BY IdleType DEF ThreadStates, Positions, Idle
  <2> HIDE DEF m
  <2>3. ThreadOK(m) /\ LoopOK(m) /\ ~Analyzing(m) /\ ~Analyzing(thread[Loop])
    BY <2>1, <2>2 DEF ThreadOK, LoopOK, Analyzing, Analyses
  <2> QED
    BY <2>1, <2>2, <2>3, Continues DEF TInv
<1> QED
  BY <1>2, <1>3, <1>4 DEF TInv

LEMMA TypesStay == TInv /\ [Next]_vars => TInv'
<1> SUFFICES ASSUME TInv, [Next]_vars PROVE TInv'
  OBVIOUS
<1>1. CASE Close
  <2>1. ManagerTypes'
    <3>1. closed' = TRUE /\ rooted' = FALSE /\ generation' = generation + 1 /\ pyfiles' = {}
          /\ snap' = NoSnapshot /\ workspace' = NoWorkspace
          /\ UNCHANGED <<disk, nextRev, diagnosed, writes>>
      BY <1>1 DEF Close
    <3>2. closed' \in BOOLEAN /\ rooted' \in BOOLEAN /\ diagnosed' \in BOOLEAN
      BY <3>1 DEF TInv, ManagerTypes
    <3>3. generation' \in Nat /\ nextRev' \in Nat /\ writes' \in Nat /\ disk' \in Sources
      BY <3>1 DEF TInv, ManagerTypes
    <3> QED
      BY <3>1, <3>2, <3>3 DEF ManagerTypes
  <2> QED
    BY <1>1, <2>1 DEF Close, TInv, DocumentTypes, ThreadTypes, LockHeld, documents
<1>2. CASE WriteFile
  <2>1. disk' \in Sources
    <3>1. PICK p \in Paths, text \in {<<"disk", writes + 1>>, NoText} :
             disk' = [disk EXCEPT ![p] = text]
      BY <1>2 DEF WriteFile
    <3>2. text \in Texts \cup {NoText}
      BY DEF TInv, ManagerTypes, Texts
    <3> QED
      BY <3>1, <3>2 DEF TInv, ManagerTypes, Sources
  <2>2. /\ writes' = writes + 1
        /\ UNCHANGED <<snap, nextRev, generation, closed, workspace, rooted, pyfiles, diagnosed>>
    BY <1>2 DEF WriteFile, universe
  <2>3. ManagerTypes'
    BY <2>1, <2>2 DEF TInv, ManagerTypes
  <2> QED
    BY <1>2, <2>3 DEF WriteFile, TInv, DocumentTypes, ThreadTypes, LockHeld, documents
<1>3. CASE UNCHANGED vars
  BY <1>3 DEF vars, TInv, DocumentTypes, ManagerTypes, ThreadTypes, LockHeld
<1> QED
  BY <1>1, <1>2, <1>3, BeginTypes, StepTypes, EditTypes DEF Next

LEMMA InitTypes == Init => TInv
<1> SUFFICES ASSUME Init PROVE TInv
  OBVIOUS
<1>1. DocumentTypes
  BY DEF Init, DocumentsInit, DocumentTypes, Overlays, Unopened
<1>2. ManagerTypes
  BY DEF Init, ManagerTypes, Sources, Texts
<1>3. ThreadTypes /\ LockHeld
  BY IdleType DEF Init, ThreadTypes, LockHeld, Threads
<1> QED
  BY <1>1, <1>2, <1>3 DEF TInv

\* Every step is one of the same client.
LEMMA ClientStays == [Next]_vars => client' = client
BY DEF Next, Begin, Step, LoadSources, Load, RefreshSources, AnalyzeWorkspace, Reload,
       PublishBegins, TakeOverlays, TakeRevision, ReadSources, CommitSyntax, SetFiles,
       AcquireAnalysisLock, CommitLoad, Recheck, AnalysisFails, RecordFailure, EditDocument,
       CloseDocument, EditorChange, Close, WriteFile, bounds, vars

LEMMA TypesInvariance == Spec => []TInv
BY InitTypes, TypesStay, PTL DEF Spec

\* Documents, snapshots, threads and the analysis lock of AnalysisManager keep to
\* their kinds, and only a worker inside an operation holds the lock.
THEOREM TypeCorrect == Spec => []TypeOK
<1>1. TInv /\ client \in Clients => TypeOK
  BY DEF TInv, DocumentTypes, ManagerTypes, ThreadTypes, LockHeld, TypeOK, Analyzing, At,
         ThreadStates
<1>2. Init => client \in Clients
  BY DEF Init
<1>3. client \in Clients /\ [Next]_vars => (client \in Clients)'
  BY ClientStays
<1> QED
  BY <1>1, <1>2, <1>3, TypesInvariance, PTL DEF Spec

\* The compiler runs for one operation at a time: of the operations that extract
\* and analyze (load_files under _analysis_lock), only the lock's holder is past
\* the lock.
AnalysesExclude ==
    \A t, u \in Threads : Analyzing(thread[t]) /\ Analyzing(thread[u]) => t = u

THEOREM OneAnalysis == Spec => []AnalysesExclude
<1>1. TInv => AnalysesExclude
  BY DEF TInv, LockHeld, AnalysesExclude
<1> QED
  BY <1>1, TypesInvariance, PTL

--------------------------------------------------------------------------------
(* Edits of a client that waits for its loads                                 *)
(*                                                                            *)
(* While a load of source services runs no document changes, so what it        *)
(* publishes is exact.  While the event loop publishes a change it blocks       *)
(* every other change, close and load, so the one document it brings up to      *)
(* date is the one document its base lacks.  A refresh is published only if     *)
(* no document changed since it read them.                                     *)

IsEdit(text) == text \in {"edit"} \X Nat

\* These sources show the text of each open document, and of no other edit, at p.
Shows(src, over, p) == over[p] # NoText \/ IsEdit(src[p]) => src[p] = over[p]
Exact(src, over) == \A p \in Paths : Shows(src, over, p)
ExactBut(src, over, q) == \A p \in Paths \ {q} : Shows(src, over, p)

DiskHoldsNoEdit == \A p \in Paths : IsEdit(disk[p]) => disk[p] = NoText

\* A thread that has taken the overlays of the present revision has the present
\* overlays, and one that has read the sources too has exact ones.
UpToDate(l) ==
    /\ l.pc \in {"sources", "commit"} => l.srev <= docRev
    /\ l.pc \in {"sources", "commit"} /\ l.srev = docRev => l.over = SourceOverrides
    /\ l.pc = "commit" /\ l.srev = docRev => Exact(l.sources, SourceOverrides)

WorkerInv(l) ==
    /\ l.path = AnyPath
    /\ \/ l.pc = "idle" /\ l.op = "none"
       \/ /\ l.op = "load_sources" /\ At(Loop, "idle")
          /\ l.pc = "overlays" \/ (l.pc \in {"sources", "commit", "recheck"} /\ l.srev = docRev)
          /\ l.mode = "sources"
       \/ /\ l.op = "refresh_sources"
          /\ l.pc \in {"discovered", "publish"}
             \/ (l.pc \in {"overlays", "sources", "commit"} /\ l.mode = "syntax")
    /\ UpToDate(l)

LoopInv(l) ==
    /\ l.pc # "idle" => l.path \in Paths /\ l.path # AnyPath
    /\ l.pc \in {"overlays", "sources", "commit"} =>
          /\ ~closed /\ l.gen = generation
          /\ ExactBut(l.base.sources, SourceOverrides, l.path)
    /\ l.pc \in {"sources", "commit"} => l.srev = docRev
    /\ UpToDate(l)

SnapshotInv ==
    Loaded =>
        /\ snap.srcRev <= docRev
        /\ snap.srcRev = docRev => Exact(snap.sources, SourceOverrides)
        /\ IF At(Loop, "idle") THEN snap.srcRev = docRev
           ELSE ExactBut(snap.sources, SourceOverrides, thread[Loop].path)

EInv ==
    /\ DiskHoldsNoEdit /\ ClosedIsFinal
    /\ \A t \in Workers : WorkerInv(thread[t])
    /\ LoopInv(thread[Loop])
    /\ SnapshotInv

\* What a thread in the middle of an operation relies on stays as it is.
LEMMA SameDocuments ==
  ASSUME UNCHANGED documents
  PROVE  docRev' = docRev /\ SourceOverrides' = SourceOverrides
BY DEF documents, SourceOverrides

\* A worker goes on, and nothing but its own position and locals and the
\* generation changes.
LEMMA WorkerGoesOn ==
  ASSUME TInv, EInv, NEW t \in Workers, NEW m, Continue(t, m), WorkerInv(m),
         UNCHANGED documents
  PROVE  /\ \A u \in Workers : WorkerInv(thread[u])'
         /\ thread'[Loop] = thread[Loop]
         /\ UNCHANGED <<generation, closed>> => LoopInv(thread[Loop])'
         /\ UNCHANGED snap => SnapshotInv'
<1>1. /\ thread \in [Threads -> ThreadStates] /\ t # Loop /\ Loop \in Threads
      /\ Workers \subseteq Threads
  BY AnalysisManagerAssumption DEF TInv, ThreadTypes, Threads
<1>2. /\ thread'[Loop] = thread[Loop]
      /\ \A u \in Workers : thread'[u] = IF u = t THEN m ELSE thread[u]
  BY <1>1 DEF Continue
<1>3. docRev' = docRev /\ SourceOverrides' = SourceOverrides
  BY SameDocuments
<1>4. ASSUME NEW l, WorkerInv(l) PROVE WorkerInv(l)'
  BY <1>2, <1>3, <1>4 DEF WorkerInv, UpToDate, At
<1>5. \A u \in Workers : WorkerInv(thread[u])'
  <2> SUFFICES ASSUME NEW u \in Workers PROVE WorkerInv(thread[u])'
    OBVIOUS
  <2>1. PICK l : l = IF u = t THEN m ELSE thread[u]
    OBVIOUS
  <2>2. WorkerInv(l)'
    BY <1>4, <2>1 DEF EInv
  <2>3. thread'[u] = l
    BY <1>2, <2>1
  <2> QED
    BY <2>2, <2>3 DEF WorkerInv, UpToDate, At
<1>6. ASSUME UNCHANGED <<generation, closed>> PROVE LoopInv(thread[Loop])'
  BY <1>2, <1>3, <1>6 DEF EInv, LoopInv, UpToDate
<1>7. ASSUME UNCHANGED snap PROVE SnapshotInv'
  BY <1>2, <1>3, <1>7 DEF EInv, SnapshotInv, Loaded, At
<1> QED
  BY <1>2, <1>5, <1>6, <1>7

LEMMA LoopGoesOn ==
  ASSUME TInv, EInv, NEW m, Continue(Loop, m), UNCHANGED documents, ~At(Loop, "idle")
  PROVE  /\ \A u \in Workers : WorkerInv(thread[u])'
         /\ thread'[Loop] = m
<1>1. /\ thread \in [Threads -> ThreadStates] /\ Loop \in Threads /\ Loop \notin Workers
      /\ Workers \subseteq Threads
  BY AnalysisManagerAssumption DEF TInv, ThreadTypes, Threads
<1>2. thread'[Loop] = m /\ \A u \in Workers : thread'[u] = thread[u]
  BY <1>1 DEF Continue
<1>3. docRev' = docRev /\ SourceOverrides' = SourceOverrides
  BY SameDocuments
<1>4. ASSUME NEW u \in Workers PROVE WorkerInv(thread[u])'
  <2>1. WorkerInv(thread[u])
    BY DEF EInv
  <2> QED
    BY <1>2, <1>3, <2>1 DEF WorkerInv, UpToDate
<1> QED
  BY <1>2, <1>4

\* Sources read from the files below exact overlays are exact, and so is a base
\* with the one document it lacks brought up to date.
LEMMA ReadExactly ==
  ASSUME DiskHoldsNoEdit, NEW files \in SUBSET Paths, NEW over \in Sources
  PROVE  /\ Exact(CurrentSources(files, over), over)
         /\ \A base \in Sources, q \in Paths :
               ExactBut(base, over, q) => Exact(ChangedSources(base, q, files, over), over)
<1>1. ~IsEdit(<<"empty", 0>>)
  BY DEF IsEdit
<1>2. \A p \in Paths : IsEdit(FileText(p)) => FileText(p) = NoText
  BY <1>1 DEF FileText, DiskHoldsNoEdit
<1>3. Exact(CurrentSources(files, over), over)
  <2> DEFINE src == CurrentSources(files, over)
  <2>1. \A p \in Paths : src[p] = IF over[p] # NoText THEN over[p]
                                  ELSE IF p \in files THEN FileText(p) ELSE NoText
    BY DEF CurrentSources
  <2> HIDE DEF src
  <2>2. Exact(src, over)
    BY <1>2, <2>1 DEF Exact, Shows
  <2> QED
    BY <2>2 DEF src
<1>4. ASSUME NEW base \in Sources, NEW q \in Paths, ExactBut(base, over, q)
      PROVE  Exact(ChangedSources(base, q, files, over), over)
  <2> DEFINE below   == workspace # NoWorkspace /\ q \in FilesOf[workspace]
             current == IF over[q] # NoText THEN over[q]
                        ELSE IF q \in files \/ below THEN disk[q] ELSE NoText
             src == ChangedSources(base, q, files, over)
  <2>1. \A p \in Paths : src[p] = IF p = q THEN current ELSE base[p]
    BY DEF ChangedSources, Sources
  <2>2. current = IF over[q] # NoText THEN over[q] ELSE current
    OBVIOUS
  <2>3. over[q] = NoText => current \in {disk[q], NoText}
    OBVIOUS
  <2> HIDE DEF current, src, below
  <2>4. Exact(src, over)
    BY <1>4, <2>1, <2>2, <2>3 DEF Exact, ExactBut, Shows, DiskHoldsNoEdit
  <2> QED
    BY <2>4 DEF src
<1> QED
  BY <1>3, <1>4

\* Publishing exact sources of the present revision.
LEMMA ExactSnapshot ==
  ASSUME UNCHANGED documents, docRev \in Nat, snap'.srcRev = docRev,
         Exact(snap'.sources, SourceOverrides)
  PROVE  SnapshotInv'
<1>1. docRev' = docRev /\ SourceOverrides' = SourceOverrides
  BY SameDocuments
<1> QED
  BY <1>1 DEF SnapshotInv, Exact, ExactBut, Shows

LEMMA BeginEdits == ASSUME Handshaken, TInv, EInv, NEW t \in Workers, Begin(t) PROVE EInv'
<1>1. LoadSources(t) \/ RefreshSources(t)
  BY DEF Begin, Load, AnalyzeWorkspace, Reload, Begins, Handshaken
<1>2. ClosedIsFinal' /\ DiskHoldsNoEdit' /\ UNCHANGED documents /\ UNCHANGED snap
  <2>1. ClosedIsFinal'
    BY CloseStays DEF EInv, Next
  <2>2. UNCHANGED disk /\ UNCHANGED documents /\ UNCHANGED snap
    BY <1>1 DEF LoadSources, RefreshSources
  <2> QED
    BY <2>1, <2>2 DEF EInv, DiskHoldsNoEdit
<1>3. CASE LoadSources(t)
  <2>1. PICK files : Continue(t, [Idle EXCEPT !.pc = "overlays", !.op = "load_sources",
                                              !.mode = "sources", !.gen = generation + 1,
                                              !.files = files])
    BY <1>3 DEF LoadSources
  <2>2. PICK m : m = [Idle EXCEPT !.pc = "overlays", !.op = "load_sources", !.mode = "sources",
                                 !.gen = generation + 1, !.files = files]
    OBVIOUS
  <2>3. At(Loop, "idle")
    BY <1>3 DEF LoadSources, Handshake, Handshaken
  <2>4. WorkerInv(m)
    BY <2>2, <2>3 DEF WorkerInv, UpToDate, Idle
  <2>5. /\ \A u \in Workers : WorkerInv(thread[u])'
        /\ thread'[Loop] = thread[Loop] /\ SnapshotInv'
    BY <1>2, <2>1, <2>2, <2>4, WorkerGoesOn
  <2>6. LoopInv(thread[Loop])'
    BY <2>3, <2>5 DEF LoopInv, UpToDate, At
  <2> QED
    BY <1>2, <2>5, <2>6 DEF EInv
<1>4. CASE RefreshSources(t)
  <2>1. PICK m : m = [Idle EXCEPT !.pc = "discovered", !.op = "refresh_sources",
                                  !.gen = generation, !.files = Discovered(workspace)]
    OBVIOUS
  <2>2. Continue(t, m) /\ UNCHANGED <<generation, closed>>
    BY <1>4, <2>1 DEF RefreshSources, universe
  <2>3. WorkerInv(m)
    BY <2>1 DEF WorkerInv, UpToDate, Idle
  <2> QED
    BY <1>2, <2>2, <2>3, WorkerGoesOn DEF EInv
<1> QED
  BY <1>1, <1>3, <1>4

LEMMA WorkerEdits == ASSUME Handshaken, TInv, EInv, NEW t \in Workers, Step(t) PROVE EInv'
<1> DEFINE l == thread[t]
<1>1. /\ WorkerInv(l) /\ l \in ThreadStates /\ ThreadOK(l) /\ t \in Threads /\ docRev \in Nat
      /\ disk \in Sources
  BY DEF EInv, TInv, ThreadTypes, Threads, DocumentTypes, ManagerTypes
<1>2. ClosedIsFinal'
  BY <1>1, CloseStays DEF EInv, Next
<1>3. UNCHANGED <<disk, generation, closed>> /\ UNCHANGED documents
  BY DEF Step, PublishBegins, TakeOverlays, TakeRevision, ReadSources, CommitSyntax, SetFiles,
         AcquireAnalysisLock, CommitLoad, Recheck, AnalysisFails, RecordFailure, universe
<1>4. DiskHoldsNoEdit'
  BY <1>3 DEF EInv, DiskHoldsNoEdit
<1>5. ASSUME NEW m, Continue(t, m), WorkerInv(m), snap' = snap \/ SnapshotInv' PROVE EInv'
  BY <1>2, <1>3, <1>4, <1>5, WorkerGoesOn DEF EInv
<1>6. WorkerInv(Idle)
  BY DEF WorkerInv, UpToDate, Idle
<1>7. ASSUME Finish(t), snap' = snap \/ SnapshotInv' PROVE EInv'
  BY <1>5, <1>6, <1>7 DEF Finish
<1>8. CASE PublishBegins(t)
  <2>1. CASE Finish(t)
    BY <1>7, <1>8, <2>1 DEF PublishBegins
  <2>2. CASE ~Finish(t)
    <3>1. PICK m : m = [l EXCEPT !.pc = "overlays", !.mode = "syntax", !.base = snap,
                                 !.gen = generation, !.files = pyfiles]
      OBVIOUS
    <3>2. Continue(t, m) /\ l.pc = "publish" /\ snap' = snap
      BY <1>8, <2>2, <3>1 DEF PublishBegins, At
    <3>3. m.pc = "overlays" /\ m.op = l.op /\ m.mode = "syntax" /\ m.path = l.path
      BY <1>1, <3>1 DEF ThreadStates
    <3>4. WorkerInv(m)
      BY <1>1, <3>2, <3>3 DEF WorkerInv, UpToDate
    <3> QED
      BY <1>5, <3>2, <3>4
  <2> QED
    BY <2>1, <2>2
<1>9. CASE TakeOverlays(t)
  <2>1. l.pc = "overlays" /\ snap' = snap /\ l.mode # "semantic"
    BY <1>1, <1>9 DEF TakeOverlays, At, WorkerInv
  <2>2. PICK m : m = [l EXCEPT !.over = SourceOverrides, !.srev = docRev, !.pc = "sources"]
    OBVIOUS
  <2>3. Continue(t, m)
    BY <1>9, <2>1, <2>2 DEF TakeOverlays, TakeSnapshot
  <2>4. /\ m.pc = "sources" /\ m.op = l.op /\ m.mode = l.mode /\ m.path = l.path
        /\ m.srev = docRev /\ m.over = SourceOverrides
    BY <1>1, <2>2 DEF ThreadStates
  <2>5. WorkerInv(m)
    BY <1>1, <2>1, <2>4 DEF WorkerInv, UpToDate
  <2> QED
    BY <1>5, <2>1, <2>3, <2>5
<1>10. CASE ReadSources(t)
  <2>1. l.pc = "sources" /\ snap' = snap /\ l.mode # "semantic" /\ l.path = AnyPath
    BY <1>1, <1>10 DEF ReadSources, At, WorkerInv
  <2>2. PICK m : m = [l EXCEPT !.sources = CurrentSources(l.files, l.over), !.pc = "commit"]
    OBVIOUS
  <2>3. Continue(t, m)
    BY <1>10, <2>1, <2>2 DEF ReadSources
  <2>4. /\ m.pc = "commit" /\ m.op = l.op /\ m.mode = l.mode /\ m.path = l.path
        /\ m.srev = l.srev /\ m.over = l.over /\ m.sources = CurrentSources(l.files, l.over)
    BY <1>1, <2>2 DEF ThreadStates
  <2>5. Exact(CurrentSources(l.files, l.over), l.over)
    BY <1>1, ReadExactly DEF EInv, ThreadStates
  <2>6. WorkerInv(m)
    BY <1>1, <2>1, <2>4, <2>5 DEF WorkerInv, UpToDate
  <2> QED
    BY <1>5, <2>1, <2>3, <2>6
<1>11. CASE CommitSyntax(t)
  <2>1. l.pc = "commit" /\ Finish(t)
    BY <1>11 DEF CommitSyntax, At
  <2>2. CASE Outdated(t)
    BY <1>7, <1>11, <2>1, <2>2 DEF CommitSyntax
  <2>3. CASE ~Outdated(t)
    <3>1. snap'.srcRev = l.srev /\ snap'.sources = l.sources /\ l.srev = docRev
      BY <1>11, <2>3 DEF CommitSyntax, SyntaxSnapshot, Outdated
    <3>2. Exact(l.sources, SourceOverrides)
      BY <1>1, <2>1, <3>1 DEF WorkerInv, UpToDate
    <3> QED
      BY <1>1, <1>3, <1>7, <2>1, <3>1, <3>2, ExactSnapshot
  <2> QED
    BY <2>2, <2>3
<1>12. CASE SetFiles(t)
  <2>1. CASE Finish(t)
    BY <1>7, <1>12, <2>1 DEF SetFiles
  <2>2. CASE ~Finish(t)
    <3>1. PICK m : m = [l EXCEPT !.pc = "publish"]
      OBVIOUS
    <3>2. Continue(t, m) /\ l.pc = "discovered" /\ snap' = snap
      BY <1>12, <2>2, <3>1 DEF SetFiles, At
    <3>3. m.pc = "publish" /\ m.op = l.op /\ m.path = l.path
      BY <1>1, <3>1 DEF ThreadStates
    <3>4. WorkerInv(m)
      BY <1>1, <3>2, <3>3 DEF WorkerInv, UpToDate
    <3> QED
      BY <1>5, <3>2, <3>4
  <2> QED
    BY <2>1, <2>2
<1>13. CASE CommitLoad(t)
  <2>1. l.pc = "commit" /\ l.mode = "sources" /\ l.op = "load_sources"
        /\ l.srev = docRev /\ At(Loop, "idle")
    BY <1>1, <1>13 DEF CommitLoad, At, WorkerInv
  <2>2. CASE Overtaken(t)
    BY <1>7, <1>13, <2>2 DEF CommitLoad
  <2>3. CASE ~Overtaken(t)
    <3>1. PICK m : m = [l EXCEPT !.pc = "recheck"]
      OBVIOUS
    <3>2. Continue(t, m) /\ snap'.srcRev = l.srev /\ snap'.sources = l.sources
      BY <1>13, <2>3, <3>1 DEF CommitLoad, LoadedSnapshot
    <3>3. m.pc = "recheck" /\ m.op = l.op /\ m.path = l.path /\ m.srev = l.srev /\ m.mode = l.mode
      BY <1>1, <3>1 DEF ThreadStates
    <3>4. WorkerInv(m)
      BY <1>1, <2>1, <3>3 DEF WorkerInv, UpToDate
    <3>5. Exact(l.sources, SourceOverrides)
      BY <1>1, <2>1 DEF WorkerInv, UpToDate
    <3> QED
      BY <1>1, <1>3, <1>5, <2>1, <3>2, <3>4, <3>5, ExactSnapshot
  <2> QED
    BY <2>2, <2>3
<1>14. CASE Recheck(t)
  <2>1. docRev = l.srev
    BY <1>1, <1>14 DEF Recheck, At, WorkerInv
  <2> QED
    BY <1>7, <1>14, <2>1 DEF Recheck
<1>15. ~(TakeRevision(t) \/ AcquireAnalysisLock(t) \/ AnalysisFails(t) \/ RecordFailure(t))
  BY <1>1 DEF TakeRevision, AcquireAnalysisLock, AnalysisFails, RecordFailure, At, WorkerInv
<1> QED
  BY <1>8, <1>9, <1>10, <1>11, <1>12, <1>13, <1>14, <1>15 DEF Step

LEMMA LoopEdits == ASSUME TInv, EInv, Step(Loop) PROVE EInv'
<1> DEFINE l == thread[Loop]
<1>1. /\ LoopInv(l) /\ l \in ThreadStates /\ LoopOK(l) /\ ThreadOK(l) /\ Loop \in Threads
      /\ docRev \in Nat /\ disk \in Sources /\ SnapshotInv /\ ClosedIsFinal
  BY DEF EInv, TInv, ThreadTypes, Threads, DocumentTypes, ManagerTypes
<1>2. ClosedIsFinal'
  BY <1>1, CloseStays DEF EInv, Next
<1>3. /\ UNCHANGED <<disk, generation, closed>> /\ UNCHANGED documents /\ l.pc # "idle"
      /\ docRev' = docRev /\ SourceOverrides' = SourceOverrides
  <2>1. UNCHANGED <<disk, generation, closed>> /\ UNCHANGED documents /\ l.pc # "idle"
    BY DEF Step, PublishBegins, TakeOverlays, TakeRevision, ReadSources, CommitSyntax, SetFiles,
           AcquireAnalysisLock, CommitLoad, Recheck, AnalysisFails, RecordFailure, universe, At
  <2> QED
    BY <2>1, SameDocuments
<1>4. DiskHoldsNoEdit'
  BY <1>3 DEF EInv, DiskHoldsNoEdit
<1>5. ASSUME NEW m, Continue(Loop, m), LoopInv(m), m.pc # "idle", m.path = l.path, snap' = snap
      PROVE  EInv'
  <2>1. (\A u \in Workers : WorkerInv(thread[u])') /\ thread'[Loop] = m
    BY <1>3, <1>5, LoopGoesOn DEF At
  <2>2. LoopInv(thread[Loop])'
    BY <1>3, <1>5, <2>1 DEF LoopInv, UpToDate
  <2>3. SnapshotInv'
    BY <1>1, <1>3, <1>5, <2>1 DEF SnapshotInv, Loaded, At
  <2> QED
    BY <1>2, <1>4, <2>1, <2>2, <2>3 DEF EInv
<1>6. ASSUME Finish(Loop), snap' = NoSnapshot \/ SnapshotInv' PROVE EInv'
  <2>1. Continue(Loop, Idle)
    BY <1>6 DEF Finish
  <2>2. (\A u \in Workers : WorkerInv(thread[u])') /\ thread'[Loop] = Idle
    BY <1>3, <2>1, LoopGoesOn DEF At
  <2>3. LoopInv(thread[Loop])'
    <3>1. Idle.pc = "idle"
      BY DEF Idle
    <3> QED
      BY <2>2, <3>1 DEF LoopInv, UpToDate
  <2>4. SnapshotInv'
    BY <1>6 DEF SnapshotInv, Loaded
  <2> QED
    BY <1>2, <1>4, <2>2, <2>3, <2>4 DEF EInv
<1>7. CASE PublishBegins(Loop)
  <2>1. CASE ~Loaded \/ closed
    BY <1>1, <1>6, <1>7, <2>1 DEF PublishBegins, ClosedIsFinal, Loaded
  <2>2. CASE Loaded /\ ~closed
    <3>1. PICK m : m = [l EXCEPT !.pc = "overlays", !.mode = "syntax", !.base = snap,
                                 !.gen = generation, !.files = pyfiles]
      OBVIOUS
    <3>2. Continue(Loop, m) /\ snap' = snap
      BY <1>7, <2>2, <3>1 DEF PublishBegins
    <3>3. m.pc = "overlays" /\ m.path = l.path /\ m.base = snap /\ m.gen = generation
      BY <1>1, <3>1 DEF ThreadStates
    <3>4. ExactBut(snap.sources, SourceOverrides, l.path)
      BY <1>1, <1>3, <2>2 DEF SnapshotInv, At
    <3>5. LoopInv(m)
      BY <1>1, <1>3, <2>2, <3>3, <3>4 DEF LoopInv, UpToDate
    <3> QED
      BY <1>5, <3>2, <3>3, <3>5
  <2> QED
    BY <2>1, <2>2
<1>8. CASE TakeOverlays(Loop)
  <2>1. l.pc = "overlays" /\ snap' = snap /\ l.mode # "semantic"
    BY <1>1, <1>8 DEF TakeOverlays, At, LoopOK
  <2>2. PICK m : m = [l EXCEPT !.over = SourceOverrides, !.srev = docRev, !.pc = "sources"]
    OBVIOUS
  <2>3. Continue(Loop, m)
    BY <1>8, <2>1, <2>2 DEF TakeOverlays, TakeSnapshot
  <2>4. /\ m.pc = "sources" /\ m.path = l.path /\ m.base = l.base /\ m.gen = l.gen
        /\ m.srev = docRev /\ m.over = SourceOverrides
    BY <1>1, <2>2 DEF ThreadStates
  <2>5. LoopInv(m)
    BY <1>1, <2>1, <2>4 DEF LoopInv, UpToDate
  <2> QED
    BY <1>5, <2>1, <2>3, <2>4, <2>5
<1>9. CASE ReadSources(Loop)
  <2>1. l.pc = "sources" /\ snap' = snap /\ l.mode = "syntax" /\ l.path \in Paths
        /\ l.path # AnyPath /\ l.over = SourceOverrides
    BY <1>1, <1>9 DEF ReadSources, At, LoopOK, LoopInv, UpToDate
  <2> DEFINE src == ChangedSources(l.base.sources, l.path, l.files, l.over)
  <2>2. PICK m : m = [l EXCEPT !.sources = src, !.pc = "commit"]
    OBVIOUS
  <2>3. Continue(Loop, m)
    BY <1>9, <2>1, <2>2 DEF ReadSources
  <2>4. /\ m.pc = "commit" /\ m.path = l.path /\ m.base = l.base /\ m.gen = l.gen
        /\ m.srev = l.srev /\ m.over = l.over /\ m.sources = src
    BY <1>1, <2>2 DEF ThreadStates
  <2>5. Exact(src, SourceOverrides)
    <3>1. l.base.sources \in Sources
      BY <1>1, <2>1 DEF ThreadOK, ThreadStates, Snapshots
    <3>2. ExactBut(l.base.sources, SourceOverrides, l.path)
      BY <1>1, <2>1 DEF LoopInv
    <3> QED
      BY <1>1, <2>1, <3>1, <3>2, ReadExactly DEF EInv, ThreadStates
  <2> HIDE DEF src
  <2>6. LoopInv(m)
    BY <1>1, <2>1, <2>4, <2>5 DEF LoopInv, UpToDate
  <2> QED
    BY <1>5, <2>1, <2>3, <2>4, <2>6
<1>10. CASE CommitSyntax(Loop)
  <2>1. l.pc = "commit" /\ Finish(Loop)
    BY <1>10 DEF CommitSyntax, At
  <2>2. l.srev = docRev /\ ~Overtaken(Loop) /\ Exact(l.sources, SourceOverrides)
    BY <1>1, <2>1 DEF LoopInv, UpToDate, Overtaken
  <2>3. snap'.srcRev = l.srev /\ snap'.sources = l.sources
    BY <1>10, <2>2 DEF CommitSyntax, SyntaxSnapshot, Outdated
  <2> QED
    BY <1>1, <1>3, <1>6, <2>1, <2>2, <2>3, ExactSnapshot
<1>11. ~(TakeRevision(Loop) \/ AcquireAnalysisLock(Loop) \/ AnalysisFails(Loop) \/ RecordFailure(Loop)
        \/ SetFiles(Loop) \/ CommitLoad(Loop) \/ Recheck(Loop))
  BY <1>1 DEF TakeRevision, AcquireAnalysisLock, AnalysisFails, RecordFailure, SetFiles, CommitLoad,
              Recheck, At, LoopOK
<1> QED
  BY <1>7, <1>8, <1>9, <1>10, <1>11 DEF Step

\* A change outdates what the workers have taken, and the one document it
\* touches is the one its publication brings up to date.
LEMMA ChangeEdits ==
  ASSUME Handshaken, TInv, EInv, EditDocument \/ CloseDocument PROVE EInv'
<1>1. PICK p \in Paths : EditorChange(p) /\ ((\E v \in Versions : Edit(p, v)) \/ CloseOverlay(p))
  BY DEF EditDocument, CloseDocument
<1>2. /\ thread \in [Threads -> ThreadStates] /\ Loop \in Threads /\ Workers \subseteq Threads
      /\ Loop \notin Workers /\ AnyPath \notin Paths
      /\ docRev \in Nat /\ docs \in [Paths -> Overlays] /\ At(Loop, "idle") /\ ~Loading
      /\ UNCHANGED <<disk, snap, generation, closed>>
  BY <1>1, AnalysisManagerAssumption DEF EditorChange, Handshaken, TInv, ThreadTypes, DocumentTypes,
     Threads, universe
<1>3. ClosedIsFinal' /\ DiskHoldsNoEdit'
  <2>1. ClosedIsFinal'
    BY CloseStays DEF EInv, Next
  <2> QED
    BY <1>2, <2>1 DEF EInv, DiskHoldsNoEdit
<1>4. docRev' = docRev + 1 /\ \A q \in Paths \ {p} : SourceOverrides'[q] = SourceOverrides[q]
  BY <1>1, <1>2 DEF Edit, CloseOverlay, SourceOverrides
<1>5. PICK m : m = [Idle EXCEPT !.pc = "publish", !.op = "edit", !.path = p]
  OBVIOUS
<1>6. m.pc = "publish" /\ m.path = p
  BY <1>5 DEF Idle
<1>7. thread'[Loop] = m /\ \A u \in Workers : thread'[u] = thread[u]
  BY <1>1, <1>2, <1>5 DEF EditorChange, Continue
<1>8. LoopInv(thread[Loop])'
  BY <1>2, <1>6, <1>7 DEF LoopInv, UpToDate
<1>9. ASSUME NEW u \in Workers PROVE WorkerInv(thread[u])'
  <2> DEFINE l == thread[u]
  <2>1. WorkerInv(l) /\ l.op # "load_sources" /\ l \in ThreadStates
    BY <1>2 DEF EInv, Loading
  <2>2. l.srev \in Nat /\ (l.pc \in {"sources", "commit"} => l.srev < docRev')
    BY <1>2, <1>4, <2>1 DEF WorkerInv, UpToDate, ThreadStates
  <2>3. /\ l.path = AnyPath
        /\ \/ l.pc = "idle" /\ l.op = "none"
           \/ /\ l.op = "refresh_sources"
              /\ l.pc \in {"discovered", "publish"}
                 \/ (l.pc \in {"overlays", "sources", "commit"} /\ l.mode = "syntax")
    BY <2>1 DEF WorkerInv
  <2>4. thread'[u] = l
    BY <1>7, <1>9
  <2> HIDE DEF l
  <2>5. docRev' \in Nat
    BY <1>2, <1>4
  <2> QED
    BY <2>2, <2>3, <2>4, <2>5 DEF WorkerInv, UpToDate
<1>10. SnapshotInv'
  <2> SUFFICES ASSUME Loaded PROVE SnapshotInv'
    BY <1>2 DEF SnapshotInv, Loaded
  <2>1. snap.srcRev = docRev /\ Exact(snap.sources, SourceOverrides)
    BY <1>2 DEF EInv, SnapshotInv
  <2>2. ExactBut(snap.sources, SourceOverrides', p)
    BY <1>4, <2>1 DEF Exact, ExactBut, Shows
  <2>3. thread'[Loop].path = p /\ ~At(Loop, "idle")' /\ snap' = snap
    BY <1>2, <1>6, <1>7 DEF At
  <2> QED
    BY <1>2, <1>4, <2>1, <2>2, <2>3 DEF SnapshotInv, ExactBut, Shows
<1> QED
  BY <1>3, <1>8, <1>9, <1>10 DEF EInv

LEMMA EditsStay == Handshaken /\ TInv /\ EInv /\ [Next]_vars => EInv'
<1> SUFFICES ASSUME Handshaken, TInv, EInv, [Next]_vars PROVE EInv'
  OBVIOUS
<1>1. CASE Close
  <2>1. ClosedIsFinal'
    BY <1>1, CloseStays DEF EInv, Next
  <2>2. /\ At(Loop, "idle") /\ snap' = NoSnapshot /\ UNCHANGED <<disk, thread>>
        /\ UNCHANGED documents
    BY <1>1 DEF Close
  <2>3. docRev' = docRev /\ SourceOverrides' = SourceOverrides
    BY <2>2, SameDocuments
  <2>4. ASSUME NEW u \in Workers PROVE WorkerInv(thread[u])'
    BY <2>2, <2>3, <2>4 DEF EInv, WorkerInv, UpToDate, At
  <2>5. LoopInv(thread[Loop])' /\ SnapshotInv' /\ DiskHoldsNoEdit'
    BY <2>2, <2>3 DEF EInv, LoopInv, UpToDate, SnapshotInv, Loaded, At, DiskHoldsNoEdit
  <2> QED
    BY <2>1, <2>4, <2>5 DEF EInv
<1>2. CASE WriteFile
  <2>1. ClosedIsFinal'
    BY <1>2, CloseStays DEF EInv, Next
  <2>2. PICK p \in Paths, text \in {<<"disk", writes + 1>>, NoText} :
           disk' = [disk EXCEPT ![p] = text]
    BY <1>2 DEF WriteFile
  <2>3. UNCHANGED <<snap, generation, closed, thread>> /\ UNCHANGED documents
    BY <1>2 DEF WriteFile, universe
  <2>4. DiskHoldsNoEdit'
    <3>1. IsEdit(text) => text = NoText
      BY <2>2 DEF IsEdit
    <3>2. disk \in [Paths -> Texts \cup {NoText}]
      BY DEF TInv, ManagerTypes, Sources
    <3> QED
      BY <2>2, <3>1, <3>2 DEF EInv, DiskHoldsNoEdit
  <2>5. docRev' = docRev /\ SourceOverrides' = SourceOverrides
    BY <2>3, SameDocuments
  <2>6. ASSUME NEW u \in Workers PROVE WorkerInv(thread[u])'
    BY <2>3, <2>5, <2>6 DEF EInv, WorkerInv, UpToDate, At
  <2>7. LoopInv(thread[Loop])' /\ SnapshotInv'
    BY <2>3, <2>5 DEF EInv, LoopInv, UpToDate, SnapshotInv, Loaded, At
  <2> QED
    BY <2>1, <2>4, <2>6, <2>7 DEF EInv
<1>3. CASE UNCHANGED vars
  <2>1. UNCHANGED <<disk, snap, generation, closed, pyfiles, thread>> /\ UNCHANGED documents
    BY <1>3 DEF vars, documents
  <2>2. docRev' = docRev /\ SourceOverrides' = SourceOverrides
    BY <2>1, SameDocuments
  <2>3. ASSUME NEW u \in Workers PROVE WorkerInv(thread[u])'
    BY <2>1, <2>2, <2>3 DEF EInv, WorkerInv, UpToDate, At
  <2>4. LoopInv(thread[Loop])' /\ SnapshotInv'
    BY <2>1, <2>2 DEF EInv, LoopInv, UpToDate, SnapshotInv, Loaded, At
  <2>5. ClosedIsFinal' /\ DiskHoldsNoEdit'
    BY <2>1 DEF EInv, ClosedIsFinal, Loaded, DiskHoldsNoEdit
  <2> QED
    BY <2>3, <2>4, <2>5 DEF EInv
<1> QED
  BY <1>1, <1>2, <1>3, BeginEdits, WorkerEdits, LoopEdits, ChangeEdits DEF Next, Threads

LEMMA InitEdits == Init => EInv
<1> SUFFICES ASSUME Init PROVE EInv
  OBVIOUS
<1>1. DiskHoldsNoEdit /\ ClosedIsFinal /\ SnapshotInv
  BY DEF Init, DiskHoldsNoEdit, IsEdit, ClosedIsFinal, SnapshotInv, Loaded
<1>2. /\ thread[Loop] = Idle /\ \A t \in Workers : thread[t] = Idle
      /\ Idle.pc = "idle" /\ Idle.op = "none" /\ Idle.path = AnyPath
  BY DEF Init, Threads, Idle
<1>3. LoopInv(thread[Loop]) /\ \A t \in Workers : WorkerInv(thread[t])
  BY <1>2 DEF LoopInv, WorkerInv, UpToDate
<1> QED
  BY <1>1, <1>3 DEF EInv

LEMMA EditsInvariance == Spec => [](TInv /\ (Handshaken => EInv))
<1>1. Handshaken /\ TInv /\ EInv /\ [Next]_vars => EInv'
  BY EditsStay
<1>2. [Next]_vars => (Handshaken' <=> Handshaken)
  BY ClientStays DEF Handshaken
<1> QED
  BY <1>1, <1>2, InitTypes, TypesStay, InitEdits, PTL DEF Spec

\* The source_revision of a published snapshot (_publish_syntax_snapshot,
\* load_source_files) says which edits it contains: for a client that edits only
\* once its load of source services was answered, a snapshot that carries the
\* documents' revision shows every open document as it is, whatever workers
\* refresh, close and reconfigure meanwhile.
THEOREM RevisionNamesEdits == Spec => []RevisionExactAfterLoad
<1>1. (Handshaken => EInv) => RevisionExactAfterLoad
  BY DEF EInv, SnapshotInv, Exact, Shows, SourceOverrides, RevisionExactAfterLoad,
         SourceRevisionExact, IsOpen
<1> QED
  BY <1>1, EditsInvariance, PTL

\* For the same client no accepted edit is lost: once open_document,
\* change_document and close_document have returned, the published index shows
\* each open document's text and the text of no closed one.
THEOREM EditsAreKept == Spec => []NoEditLostAfterLoad
<1>1. (Handshaken => EInv) => NoEditLostAfterLoad
  <2> SUFFICES ASSUME EInv, Quiet, Loaded, NEW p \in Paths,
                      IsOpen(p) \/ IsEdit(snap.sources[p])
               PROVE  snap.sources[p] = docs[p].text
    BY DEF NoEditLostAfterLoad, NoEditLost, IsEdit
  <2>1. At(Loop, "idle")
    BY DEF Quiet, Threads
  <2>2. Exact(snap.sources, SourceOverrides)
    BY <2>1 DEF EInv, SnapshotInv
  <2> QED
    BY <2>2 DEF Exact, Shows, SourceOverrides, IsOpen
<1> QED
  BY <1>1, EditsInvariance, PTL

--------------------------------------------------------------------------------
(* The folders requested last                                                 *)
(*                                                                            *)
(* A load is given up when another has begun since, so what the published      *)
(* index shows was read below the present roots unless a load of theirs is     *)
(* still under way.  The event loop publishes only while none is.              *)

FromDisk(text) == text \in {"disk", "empty"} \X Nat
NoDiskText(over) == \A p \in Paths : ~FromDisk(over[p])

Below(w, files) == w # NoWorkspace => files \subseteq FilesOf[w]
BelowOnly(w, src) == w # NoWorkspace => \A p \in Paths \ FilesOf[w] : ~FromDisk(src[p])

Working(l) == l.pc \in {"overlays", "sources", "commit"}
InForce(l) == Working(l) /\ l.gen = generation

FolderInv(l) ==
    /\ l.gen <= generation /\ l.op # "refresh_sources"
    /\ l.pc \in {"sources", "commit"} => NoDiskText(l.over)
    /\ InForce(l) => Below(workspace, l.files)
    /\ InForce(l) /\ l.pc = "commit" => BelowOnly(workspace, l.sources)
    /\ InForce(l) /\ l.mode = "syntax" => BelowOnly(workspace, l.base.sources)

Shown ==
    Loaded /\ (\A t \in Workers : ~InForce(thread[t])) =>
        Below(workspace, pyfiles) /\ BelowOnly(workspace, snap.sources)

FInv ==
    /\ NoDiskText(SourceOverrides)
    /\ \A t \in Threads : FolderInv(thread[t])
    /\ Working(thread[Loop]) => thread[Loop].files = pyfiles
    /\ Shown

LEMMA FolderIdle == generation \in Nat => FolderInv(Idle)
BY DEF FolderInv, InForce, Working, Idle

\* While the event loop publishes, no worker is in the middle of anything.
LEMMA LoopAlone ==
  ASSUME EInv, FInv, ~At(Loop, "idle")
  PROVE  \A t \in Workers : thread[t].pc = "idle"
BY DEF EInv, WorkerInv, FInv, FolderInv, Threads

\* A thread goes on, and the published index is as good as before.
LEMMA FolderGoesOn ==
  ASSUME TInv, FInv, NEW t \in Threads, NEW m, Continue(t, m), FolderInv(m),
         UNCHANGED <<generation, workspace>>, UNCHANGED documents,
         \/ UNCHANGED <<snap, pyfiles>> /\ (t \in Workers /\ InForce(thread[t]) => InForce(m))
         \/ Shown',
         IF t = Loop THEN Working(m) => m.files = pyfiles' ELSE ~Working(thread[Loop])
  PROVE  FInv'
<1>1. /\ thread \in [Threads -> ThreadStates] /\ Workers \subseteq Threads
      /\ SourceOverrides' = SourceOverrides
  BY SameDocuments DEF TInv, ThreadTypes, Threads
<1>2. \A u \in Threads : thread'[u] = IF u = t THEN m ELSE thread[u]
  BY <1>1 DEF Continue
<1>3. ASSUME NEW l PROVE (FolderInv(l) <=> FolderInv(l)') /\ (InForce(l) <=> InForce(l)')
  BY DEF FolderInv, InForce
<1>4. ASSUME NEW u \in Threads PROVE FolderInv(thread[u])'
  <2>1. PICK l : l = IF u = t THEN m ELSE thread[u]
    OBVIOUS
  <2>2. FolderInv(l)'
    BY <1>3, <2>1 DEF FInv
  <2>3. thread'[u] = l
    BY <1>2, <2>1
  <2> QED
    BY <2>2, <2>3 DEF FolderInv, InForce
<1>5. ASSUME UNCHANGED <<snap, pyfiles>>, t \in Workers /\ InForce(thread[t]) => InForce(m) PROVE Shown'
  <2> SUFFICES ASSUME Loaded, \A u \in Workers : ~InForce(thread[u])'
               PROVE  Below(workspace, pyfiles) /\ BelowOnly(workspace, snap.sources)
    BY <1>5 DEF Shown, Loaded
  <2>1. ASSUME NEW u \in Workers PROVE ~InForce(thread[u])
    <3>1. PICK l : l = thread'[u]
      OBVIOUS
    <3>2. ~InForce(l)
      BY <1>3, <3>1 DEF InForce
    <3>3. l = IF u = t THEN m ELSE thread[u]
      BY <1>1, <1>2, <3>1
    <3> QED
      BY <1>5, <3>2, <3>3
  <2> QED
    BY <2>1 DEF FInv, Shown
<1>6. Working(thread[Loop])' => thread'[Loop].files = pyfiles'
  <2>1. Loop \in Threads
    BY DEF Threads
  <2> QED
    BY <1>2, <2>1 DEF Working
<1> QED
  BY <1>1, <1>4, <1>5, <1>6 DEF FInv

\* What is read below the roots of a worker, or brought up to date in a base, holds
\* nothing else from the disk.
LEMMA ReadBelow ==
  ASSUME NEW w, NEW files, Below(w, files), NEW over \in Sources, NoDiskText(over)
  PROVE  /\ BelowOnly(w, CurrentSources(files, over))
         /\ w = workspace => \A base \in Sources, q \in Paths :
               BelowOnly(w, base) => BelowOnly(w, ChangedSources(base, q, files, over))
<1>1. ~FromDisk(NoText)
  BY TextAssumption DEF FromDisk, Texts
<1>2. BelowOnly(w, CurrentSources(files, over))
  <2> SUFFICES ASSUME w # NoWorkspace, NEW p \in Paths \ FilesOf[w]
               PROVE  ~FromDisk(CurrentSources(files, over)[p])
    BY DEF BelowOnly
  <2>1. CurrentSources(files, over)[p] = IF over[p] # NoText THEN over[p] ELSE NoText
    BY DEF CurrentSources, Below
  <2> QED
    BY <1>1, <2>1 DEF NoDiskText
<1>3. ASSUME w = workspace, NEW base \in Sources, NEW q \in Paths, BelowOnly(w, base)
      PROVE  BelowOnly(w, ChangedSources(base, q, files, over))
  <2> SUFFICES ASSUME w # NoWorkspace, NEW p \in Paths \ FilesOf[w]
               PROVE  ~FromDisk(ChangedSources(base, q, files, over)[p])
    BY DEF BelowOnly
  <2>1. CASE p = q
    <3>1. ChangedSources(base, q, files, over)[p] = IF over[p] # NoText THEN over[p] ELSE NoText
      BY <1>3, <2>1 DEF ChangedSources, Below, Sources
    <3> QED
      BY <1>1, <3>1 DEF NoDiskText
  <2>2. CASE p # q
    <3>1. ChangedSources(base, q, files, over)[p] = base[p]
      BY <2>2 DEF ChangedSources, Sources
    <3> QED
      BY <1>3, <3>1 DEF BelowOnly
  <2> QED
    BY <2>1, <2>2
<1> QED
  BY <1>2, <1>3

LEMMA WorkerFolders ==
  ASSUME FolderRequests, TInv, EInv, FInv, NEW t \in Workers, Step(t), ClosedIsFinal'
  PROVE  FInv'
<1> DEFINE l == thread[t]
<1>1. /\ WorkerInv(l) /\ FolderInv(l) /\ l \in ThreadStates /\ t \in Threads /\ generation \in Nat
  BY DEF EInv, FInv, TInv, ThreadTypes, ManagerTypes, Threads
<1>2. UNCHANGED <<generation, closed, workspace>> /\ UNCHANGED documents
  BY DEF Step, PublishBegins, TakeOverlays, TakeRevision, ReadSources, CommitSyntax, SetFiles,
         AcquireAnalysisLock, CommitLoad, Recheck, AnalysisFails, RecordFailure, universe
<1>3. l.op # "none" => l.op = "load_sources"
  BY <1>1 DEF FolderInv, WorkerInv
<1>9. ~Working(thread[Loop]) /\ t # Loop
  <2>1. l.pc # "idle"
    BY DEF Step, PublishBegins, TakeOverlays, TakeRevision, ReadSources, CommitSyntax, SetFiles,
           AcquireAnalysisLock, CommitLoad, Recheck, AnalysisFails, RecordFailure, At
  <2>2. At(Loop, "idle") /\ t # Loop
    BY <2>1, LoopAlone, AnalysisManagerAssumption
  <2> QED
    BY <2>2 DEF At, Working
<1>4. CASE TakeOverlays(t)
  <2>1. l.pc = "overlays" /\ UNCHANGED <<snap, pyfiles>> /\ l.mode = "sources"
    BY <1>1, <1>4 DEF TakeOverlays, At, WorkerInv, FolderInv
  <2>2. PICK m : m = [l EXCEPT !.over = SourceOverrides, !.srev = docRev, !.pc = "sources"]
    OBVIOUS
  <2>3. Continue(t, m)
    BY <1>4, <2>1, <2>2 DEF TakeOverlays, TakeSnapshot
  <2>4. /\ m.pc = "sources" /\ m.op = l.op /\ m.mode = l.mode /\ m.gen = l.gen
        /\ m.files = l.files /\ m.over = SourceOverrides
    BY <1>1, <2>2 DEF ThreadStates
  <2>5. FolderInv(m) /\ (InForce(l) => InForce(m))
    BY <1>1, <2>1, <2>4 DEF FolderInv, InForce, Working, FInv
  <2> QED
    BY <1>1, <1>2, <1>9, <2>1, <2>3, <2>5, FolderGoesOn
<1>5. CASE ReadSources(t)
  <2>1. l.pc = "sources" /\ UNCHANGED <<snap, pyfiles>> /\ l.mode = "sources"
    BY <1>1, <1>5 DEF ReadSources, At, WorkerInv, FolderInv
  <2>2. PICK m : m = [l EXCEPT !.sources = CurrentSources(l.files, l.over), !.pc = "commit"]
    OBVIOUS
  <2>3. Continue(t, m)
    BY <1>5, <2>1, <2>2 DEF ReadSources
  <2>4. /\ m.pc = "commit" /\ m.op = l.op /\ m.mode = l.mode /\ m.gen = l.gen
        /\ m.files = l.files /\ m.over = l.over /\ m.sources = CurrentSources(l.files, l.over)
    BY <1>1, <2>2 DEF ThreadStates
  <2>5. InForce(l) => BelowOnly(workspace, CurrentSources(l.files, l.over))
    BY <1>1, <2>1, ReadBelow DEF FolderInv, ThreadStates
  <2>6. FolderInv(m) /\ (InForce(l) => InForce(m))
    BY <1>1, <2>1, <2>4, <2>5 DEF FolderInv, InForce, Working
  <2> QED
    BY <1>1, <1>2, <1>9, <2>1, <2>3, <2>6, FolderGoesOn
<1>6. CASE CommitLoad(t)
  <2>1. l.pc = "commit" /\ l.mode = "sources"
    BY <1>1, <1>6 DEF CommitLoad, At, WorkerInv, FolderInv
  <2>2. CASE Overtaken(t)
    <3>1. Continue(t, Idle) /\ UNCHANGED <<snap, pyfiles>>
      BY <1>6, <2>2 DEF CommitLoad, Finish
    <3>2. CASE closed
      <4>1. Shown'
        BY <1>2, <3>2 DEF ClosedIsFinal, Shown
      <4> QED
        BY <1>1, <1>2, <1>9, <3>1, <4>1, FolderIdle, FolderGoesOn
    <3>3. CASE ~closed
      <4>1. ~InForce(l)
        BY <2>2, <3>3 DEF Overtaken, InForce
      <4> QED
        BY <1>1, <1>2, <1>9, <3>1, <4>1, FolderIdle, FolderGoesOn
    <3> QED
      BY <3>2, <3>3
  <2>3. CASE ~Overtaken(t)
    <3>1. PICK m : m = [l EXCEPT !.pc = "recheck"]
      OBVIOUS
    <3>2. Continue(t, m) /\ snap'.sources = l.sources /\ pyfiles' = l.files
      BY <1>6, <2>3, <3>1 DEF CommitLoad, LoadedSnapshot
    <3>3. m.pc = "recheck" /\ m.op = l.op /\ m.gen = l.gen
      BY <1>1, <3>1 DEF ThreadStates
    <3>4. FolderInv(m)
      BY <1>1, <3>3 DEF FolderInv, InForce, Working
    <3>5. InForce(l)
      BY <2>1, <2>3 DEF Overtaken, InForce, Working
    <3>6. Shown'
      BY <1>1, <1>2, <2>1, <3>2, <3>5 DEF FolderInv, Shown
    <3> QED
      BY <1>1, <1>2, <1>9, <3>2, <3>4, <3>6, FolderGoesOn
  <2> QED
    BY <2>2, <2>3
<1>7. CASE Recheck(t)
  <2>1. Continue(t, Idle) /\ UNCHANGED <<snap, pyfiles>> /\ l.pc = "recheck"
    BY <1>1, <1>7 DEF Recheck, At, WorkerInv, FolderInv, Finish
  <2>2. ~InForce(l)
    BY <2>1 DEF InForce, Working
  <2> QED
    BY <1>1, <1>2, <1>9, <2>1, <2>2, FolderIdle, FolderGoesOn
<1>8. ~(PublishBegins(t) \/ TakeRevision(t) \/ CommitSyntax(t) \/ SetFiles(t)
        \/ AcquireAnalysisLock(t) \/ AnalysisFails(t) \/ RecordFailure(t))
  BY <1>1 DEF PublishBegins, TakeRevision, CommitSyntax, SetFiles, AcquireAnalysisLock,
              AnalysisFails, RecordFailure, At, WorkerInv, FolderInv
<1> QED
  BY <1>4, <1>5, <1>6, <1>7, <1>8 DEF Step

LEMMA LoopFolders ==
  ASSUME FolderRequests, TInv, EInv, FInv, Step(Loop)
  PROVE  FInv'
<1> DEFINE l == thread[Loop]
<1>1. /\ LoopInv(l) /\ FolderInv(l) /\ l \in ThreadStates /\ LoopOK(l) /\ ThreadOK(l)
      /\ Loop \in Threads /\ Loop \notin Workers /\ generation \in Nat
  BY AnalysisManagerAssumption DEF EInv, FInv, TInv, ThreadTypes, ManagerTypes, Threads
<1>2. /\ UNCHANGED <<generation, closed, workspace>> /\ UNCHANGED documents /\ l.pc # "idle"
  BY DEF Step, PublishBegins, TakeOverlays, TakeRevision, ReadSources, CommitSyntax, SetFiles,
         AcquireAnalysisLock, CommitLoad, Recheck, AnalysisFails, RecordFailure, universe, At
<1>3. \A t \in Workers : ~InForce(thread[t])
  BY <1>2, LoopAlone DEF At, InForce, Working
<1>4. Loaded => Below(workspace, pyfiles) /\ BelowOnly(workspace, snap.sources)
  BY <1>3 DEF FInv, Shown
<1>10. Working(l) => l.files = pyfiles
  BY DEF FInv
<1>11. ~Working(Idle)
  BY DEF Idle, Working
<1>5. CASE PublishBegins(Loop)
  <2>1. UNCHANGED <<snap, pyfiles>>
    BY <1>5 DEF PublishBegins
  <2>2. CASE ~Loaded \/ closed
    <3>1. Continue(Loop, Idle)
      BY <1>5, <2>2 DEF PublishBegins, Finish
    <3> QED
      BY <1>1, <1>2, <1>11, <2>1, <3>1, FolderIdle, FolderGoesOn
  <2>3. CASE Loaded /\ ~closed
    <3>1. PICK m : m = [l EXCEPT !.pc = "overlays", !.mode = "syntax", !.base = snap,
                                 !.gen = generation, !.files = pyfiles]
      OBVIOUS
    <3>2. Continue(Loop, m)
      BY <1>5, <2>3, <3>1 DEF PublishBegins
    <3>3. /\ m.pc = "overlays" /\ m.base = snap /\ m.gen = generation /\ m.files = pyfiles
          /\ m.op = l.op
      BY <1>1, <3>1 DEF ThreadStates
    <3>4. FolderInv(m)
      BY <1>1, <1>4, <2>3, <3>3 DEF FolderInv
    <3> QED
      BY <1>1, <1>2, <2>1, <3>2, <3>3, <3>4, FolderGoesOn
  <2> QED
    BY <2>2, <2>3
<1>6. CASE TakeOverlays(Loop)
  <2>1. l.pc = "overlays" /\ UNCHANGED <<snap, pyfiles>> /\ l.mode # "semantic"
    BY <1>1, <1>6 DEF TakeOverlays, At, LoopOK
  <2>2. PICK m : m = [l EXCEPT !.over = SourceOverrides, !.srev = docRev, !.pc = "sources"]
    OBVIOUS
  <2>3. Continue(Loop, m)
    BY <1>6, <2>1, <2>2 DEF TakeOverlays, TakeSnapshot
  <2>4. /\ m.pc = "sources" /\ m.op = l.op /\ m.mode = l.mode /\ m.gen = l.gen /\ m.base = l.base
        /\ m.files = l.files /\ m.over = SourceOverrides
    BY <1>1, <2>2 DEF ThreadStates
  <2>5. FolderInv(m)
    BY <1>1, <2>1, <2>4 DEF FolderInv, InForce, Working, FInv
  <2> QED
    BY <1>1, <1>2, <1>10, <2>1, <2>3, <2>4, <2>5, FolderGoesOn DEF Working
<1>7. CASE ReadSources(Loop)
  <2>1. /\ l.pc = "sources" /\ UNCHANGED <<snap, pyfiles>> /\ l.mode = "syntax" /\ l.path \in Paths
        /\ l.path # AnyPath /\ l.gen = generation
    BY <1>1, <1>7 DEF ReadSources, At, LoopOK, LoopInv
  <2> DEFINE src == ChangedSources(l.base.sources, l.path, l.files, l.over)
  <2>2. PICK m : m = [l EXCEPT !.sources = src, !.pc = "commit"]
    OBVIOUS
  <2>3. Continue(Loop, m)
    BY <1>7, <2>1, <2>2 DEF ReadSources
  <2>4. /\ m.pc = "commit" /\ m.op = l.op /\ m.mode = l.mode /\ m.gen = l.gen /\ m.base = l.base
        /\ m.files = l.files /\ m.over = l.over /\ m.sources = src
    BY <1>1, <2>2 DEF ThreadStates
  <2>5. BelowOnly(workspace, src)
    <3>1. l.base.sources \in Sources /\ l.over \in Sources
      BY <1>1, <2>1 DEF ThreadOK, ThreadStates, Snapshots
    <3>2. NoDiskText(l.over) /\ Below(workspace, l.files) /\ BelowOnly(workspace, l.base.sources)
      BY <1>1, <2>1 DEF FolderInv, InForce, Working
    <3> QED
      BY <2>1, <3>1, <3>2, ReadBelow
  <2> HIDE DEF src
  <2>6. FolderInv(m)
    BY <1>1, <2>1, <2>4, <2>5 DEF FolderInv, InForce, Working
  <2> QED
    BY <1>1, <1>2, <1>10, <2>1, <2>3, <2>4, <2>6, FolderGoesOn DEF Working
<1>8. CASE CommitSyntax(Loop)
  <2>1. l.pc = "commit" /\ l.mode = "syntax" /\ Continue(Loop, Idle) /\ pyfiles' = pyfiles
    BY <1>8 DEF CommitSyntax, At, Finish
  <2>2. CASE Outdated(Loop)
    BY <1>1, <1>2, <1>8, <1>11, <2>1, <2>2, FolderIdle, FolderGoesOn DEF CommitSyntax
  <2>3. CASE ~Outdated(Loop)
    <3>1. snap'.sources = l.sources
      BY <1>8, <2>3 DEF CommitSyntax, SyntaxSnapshot
    <3>2. BelowOnly(workspace, l.sources)
      BY <1>1, <2>1 DEF FolderInv, InForce, Working, LoopInv
    <3>3. Below(workspace, pyfiles)
      BY <1>1, <1>10, <2>1 DEF FolderInv, InForce, Working, LoopInv
    <3>4. Shown'
      BY <1>2, <2>1, <3>1, <3>2, <3>3 DEF Shown
    <3> QED
      BY <1>1, <1>2, <1>11, <2>1, <3>4, FolderIdle, FolderGoesOn
  <2> QED
    BY <2>2, <2>3
<1>9. ~(TakeRevision(Loop) \/ AcquireAnalysisLock(Loop) \/ AnalysisFails(Loop) \/ RecordFailure(Loop)
        \/ SetFiles(Loop) \/ CommitLoad(Loop) \/ Recheck(Loop))
  BY <1>1 DEF TakeRevision, AcquireAnalysisLock, AnalysisFails, RecordFailure, SetFiles, CommitLoad,
              Recheck, At, LoopOK
<1> QED
  BY <1>5, <1>6, <1>7, <1>8, <1>9 DEF Step

LEMMA BeginFolders ==
  ASSUME FolderRequests, TInv, EInv, FInv, NEW t \in Workers, Begin(t)
  PROVE  FInv'
<1>1. LoadSources(t)
  BY DEF Begin, Load, RefreshSources, AnalyzeWorkspace, Reload, Begins, FolderRequests
<1>2. /\ At(Loop, "idle") /\ generation' = generation + 1 /\ generation \in Nat
      /\ thread \in [Threads -> ThreadStates] /\ t # Loop /\ Workers \subseteq Threads
      /\ Loop \in Threads /\ UNCHANGED documents
  BY <1>1, AnalysisManagerAssumption
     DEF LoadSources, ConfigureWorkspace, Handshake, FolderRequests, TInv, ThreadTypes, ManagerTypes,
         Threads
<1>3. PICK files : /\ Below(workspace', files)
                   /\ Continue(t, [Idle EXCEPT !.pc = "overlays", !.op = "load_sources",
                                               !.mode = "sources", !.gen = generation + 1,
                                               !.files = files])
  BY <1>1 DEF LoadSources, ConfigureWorkspace, Below, Discovered
<1>4. PICK m : m = [Idle EXCEPT !.pc = "overlays", !.op = "load_sources", !.mode = "sources",
                               !.gen = generation + 1, !.files = files]
  OBVIOUS
<1>5. /\ m.pc = "overlays" /\ m.op = "load_sources" /\ m.mode = "sources" /\ m.files = files
      /\ m.gen = generation + 1
  BY <1>4 DEF Idle
<1>6. \A u \in Threads : thread'[u] = IF u = t THEN m ELSE thread[u]
  BY <1>2, <1>3, <1>4 DEF Continue
<1>7. FolderInv(m)'
  BY <1>2, <1>3, <1>5 DEF FolderInv, InForce, Working
<1>8. ASSUME NEW l, FolderInv(l), l.gen \in Nat PROVE FolderInv(l)'
  <2>1. l.gen <= generation' /\ l.gen # generation'
    BY <1>2, <1>8 DEF FolderInv
  <2> QED
    BY <1>8, <2>1 DEF FolderInv, InForce
<1>9. ASSUME NEW u \in Threads PROVE FolderInv(thread[u])'
  <2>1. FolderInv(thread[u]) /\ thread[u].gen \in Nat
    BY <1>2 DEF FInv, ThreadStates
  <2>2. PICK l : l = IF u = t THEN m ELSE thread[u]
    OBVIOUS
  <2>3. FolderInv(l)'
    BY <1>7, <1>8, <2>1, <2>2
  <2>4. thread'[u] = l
    BY <1>6, <2>2
  <2> QED
    BY <2>3, <2>4 DEF FolderInv, InForce
<1>10. Shown'
  <2>1. thread'[t] = m
    BY <1>2, <1>6
  <2>2. InForce(thread[t])'
    BY <1>2, <1>5, <2>1 DEF InForce, Working
  <2> QED
    BY <2>2 DEF Shown
<1>11. ~Working(thread[Loop])'
  BY <1>2, <1>6 DEF At, Working
<1>12. NoDiskText(SourceOverrides)'
  <2>1. SourceOverrides' = SourceOverrides
    BY <1>2, SameDocuments
  <2> QED
    BY <2>1 DEF FInv, NoDiskText
<1> QED
  BY <1>9, <1>10, <1>11, <1>12 DEF FInv

LEMMA RestFolders ==
  ASSUME FolderRequests, TInv, EInv, FInv,
         EditDocument \/ CloseDocument \/ Close \/ WriteFile \/ UNCHANGED vars
  PROVE  FInv'
<1>1. /\ thread \in [Threads -> ThreadStates] /\ Workers \subseteq Threads /\ generation \in Nat
      /\ docs \in [Paths -> Overlays] /\ Loop \in Threads /\ Loop \notin Workers
  BY AnalysisManagerAssumption DEF TInv, ThreadTypes, ManagerTypes, DocumentTypes, Threads
<1>2. CASE EditDocument \/ CloseDocument
  <2>1. PICK p \in Paths : EditorChange(p) /\ ((\E v \in Versions : Edit(p, v)) \/ CloseOverlay(p))
    BY <1>2 DEF EditDocument, CloseDocument
  <2>2. UNCHANGED <<snap, pyfiles, generation, workspace>>
    BY <2>1 DEF EditorChange, universe
  <2>3. PICK m : m = [Idle EXCEPT !.pc = "publish", !.op = "edit", !.path = p]
    OBVIOUS
  <2>4. m.pc = "publish" /\ m.op = "edit" /\ m.gen = 0
    BY <2>3 DEF Idle
  <2>5. thread'[Loop] = m /\ \A u \in Threads \ {Loop} : thread'[u] = thread[u]
    BY <1>1, <2>1, <2>3 DEF EditorChange, Continue
  <2>6. \A u \in Threads : FolderInv(thread[u])'
    <3>1. ASSUME NEW u \in Threads \ {Loop} PROVE FolderInv(thread[u])'
      BY <2>2, <2>5 DEF FInv, FolderInv, InForce
    <3>2. FolderInv(thread[Loop])'
      BY <1>1, <2>2, <2>4, <2>5 DEF FolderInv, InForce, Working
    <3> QED
      BY <3>1, <3>2
  <2>7. NoDiskText(SourceOverrides)'
    <3> SUFFICES ASSUME NEW q \in Paths PROVE ~FromDisk(SourceOverrides'[q])
      BY DEF NoDiskText
    <3>1. ~FromDisk(NoText) /\ ~FromDisk(<<"edit", docRev + 1>>)
      BY TextAssumption DEF FromDisk, Texts
    <3>2. SourceOverrides'[q] \in {SourceOverrides[q], NoText, <<"edit", docRev + 1>>}
      BY <1>1, <2>1 DEF Edit, CloseOverlay, SourceOverrides, Unopened
    <3> QED
      BY <3>1, <3>2 DEF FInv, NoDiskText
  <2>8. Shown'
    BY <1>1, <2>2, <2>5 DEF FInv, Shown, Loaded, InForce
  <2>9. ~Working(thread[Loop])'
    BY <2>4, <2>5 DEF Working
  <2> QED
    BY <2>6, <2>7, <2>8, <2>9 DEF FInv
<1>3. CASE Close
  <2>1. /\ snap' = NoSnapshot /\ generation' = generation + 1 /\ workspace' = NoWorkspace
        /\ thread' = thread /\ UNCHANGED documents /\ At(Loop, "idle")
    BY <1>3 DEF Close
  <2>2. ASSUME NEW u \in Threads PROVE FolderInv(thread[u])'
    <3>1. FolderInv(thread[u]) /\ thread[u].gen \in Nat
      BY <1>1 DEF FInv, ThreadStates
    <3>2. thread[u].gen <= generation' /\ thread[u].gen # generation'
      BY <1>1, <2>1, <3>1 DEF FolderInv
    <3> QED
      BY <2>1, <3>1, <3>2 DEF FolderInv, InForce
  <2>3. Shown' /\ ~Working(thread[Loop])'
    BY <2>1 DEF Shown, Loaded, At, Working
  <2>4. SourceOverrides' = SourceOverrides
    BY <2>1, SameDocuments
  <2> QED
    BY <2>2, <2>3, <2>4 DEF FInv, NoDiskText
<1>4. CASE WriteFile \/ UNCHANGED vars
  <2>1. UNCHANGED <<snap, pyfiles, generation, workspace, thread>> /\ UNCHANGED documents
    BY <1>4 DEF WriteFile, vars, universe, documents
  <2>2. SourceOverrides' = SourceOverrides
    BY <2>1, SameDocuments
  <2> QED
    BY <2>1, <2>2 DEF FInv, NoDiskText, FolderInv, InForce, Shown, Loaded
<1> QED
  BY <1>2, <1>3, <1>4

LEMMA FoldersStay == FolderRequests /\ TInv /\ EInv /\ FInv /\ [Next]_vars => FInv'
<1> SUFFICES ASSUME FolderRequests, TInv, EInv, FInv, [Next]_vars PROVE FInv'
  OBVIOUS
<1>1. ClosedIsFinal'
  BY CloseStays DEF EInv
<1> QED
  BY <1>1, BeginFolders, WorkerFolders, LoopFolders, RestFolders DEF Next, Threads

LEMMA InitFolders == Init => FInv
<1> SUFFICES ASSUME Init PROVE FInv
  OBVIOUS
<1>1. \A t \in Threads : thread[t] = Idle
  BY DEF Init
<1>2. FolderInv(Idle) /\ ~Working(Idle)
  BY FolderIdle DEF Init, Working, Idle
<1>3. NoDiskText(SourceOverrides)
  BY TextAssumption DEF Init, DocumentsInit, NoDiskText, FromDisk, Texts, SourceOverrides, Unopened
<1>4. Shown
  BY DEF Init, Shown, Loaded
<1> QED
  BY <1>1, <1>2, <1>3, <1>4 DEF FInv, Threads

\* didChangeWorkspaceFolders: however loads of different workspace folders overlap,
\* whichever finishes last and whenever the client edits in between, once nothing is
\* under way the file list and the published index are those of the folders
\* requested last (the generation of _configure_workspace and the guard of
\* load_source_files).
THEOREM LatestFoldersAreShown == Spec => []LastFoldersShown
<1>1. FolderRequests => Handshaken
  BY DEF FolderRequests, Handshaken
<1>2. (FolderRequests => FInv) => LastFoldersShown
  BY DEF LastFoldersShown, FInv, Shown, SettledUniverse, Quiet, At, InForce, Working, Below,
         BelowOnly, FromDisk, Threads
<1>3. FolderRequests /\ TInv /\ EInv /\ FInv /\ [Next]_vars => FInv'
  BY FoldersStay
<1>4. [Next]_vars => (FolderRequests' <=> FolderRequests)
  BY ClientStays DEF FolderRequests
<1> QED
  BY <1>1, <1>2, <1>3, <1>4, InitFolders, EditsInvariance, PTL DEF Spec

================================================================================
