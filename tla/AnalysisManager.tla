---------------------------- MODULE AnalysisManager ----------------------------
(***************************************************************************)
(* AnalysisManager (lsp/server.py): the thread of the event loop, which       *)
(* applies editor changes, and worker threads, which load workspaces, refresh *)
(* the source index and run the compiler, publish snapshots of the same state.*)
(*                                                                           *)
(* A step is one hold of _state_lock or of the documents' lock, or one read   *)
(* made outside both; between two steps of a thread every other thread may    *)
(* run.  A snapshot keeps what readers can tell apart: its revisions, the     *)
(* text of every file its source index was built from and the texts its       *)
(* semantic facts were computed from.                                         *)
(*                                                                           *)
(* Abstractions.  A workspace is the set of files under its roots.  They are   *)
(* discovered in the step that starts the operation, and all read in one      *)
(* later step.  Indices and type services are functions of the sources.       *)
(* _loaded and _source_files change only together with _snapshot and are read *)
(* off it.                                                                    *)
(***************************************************************************)
EXTENDS WorkspaceDocuments, FiniteSets

CONSTANTS
    Loop,           \* the event loop's thread
    Workers,        \* threads of asyncio.to_thread
    Workspaces,     \* sets of workspace roots
    NoWorkspace,    \* no roots
    FilesOf,        \* [Workspaces -> SUBSET Paths]: files below the roots
    NoSnapshot, NoFacts, NoThread,
    AnyPath,        \* a publication not caused by one document
    Clients         \* what the clients do: the operations they ask for, whether they
                    \* edit early, before a load has been answered, and the bounds on
                    \* their edits, operations and closes, and on writes to the disk

OperationNames == {"load_sources", "load", "refresh_sources", "analyze_workspace", "reload"}

ASSUME AnalysisManagerAssumption ==
    /\ Loop \notin Workers /\ NoThread \notin Workers /\ AnyPath \notin Paths
    /\ FilesOf \in [Workspaces -> SUBSET Paths]
    /\ \A k \in Clients : k.operations \subseteq OperationNames /\ k.early \in BOOLEAN

VARIABLES
    client,         \* the client of this run; it never changes
    disk,           \* path -> text of the file, or NoText
    snap,           \* _snapshot
    nextRev,        \* _next_revision
    generation,     \* _generation
    closed,         \* _closed
    workspace,      \* _workspace_roots
    rooted,         \* _root_path is set
    pyfiles,        \* _python_files
    diagnosed,      \* analysis_diagnostics is not empty
    lock,           \* holder of _analysis_lock
    thread,         \* thread -> position and local variables
    writes, started, closes     \* bounds

documents == <<docs, docRev>>
universe == <<generation, closed, workspace, rooted>>
bounds == <<client, writes, started, closes>>
vars == <<client, docs, docRev, disk, snap, nextRev, generation, closed, workspace, rooted,
          pyfiles, diagnosed, lock, thread, writes, started, closes>>

Threads == {Loop} \cup Workers

Sources == [Paths -> Texts \cup {NoText}]

Snapshots ==
    [rev : Nat, semRev : Nat, srcRev : Nat, stale : BOOLEAN, sources : Sources,
     facts : Sources \cup {NoFacts}, gen : Nat]

Idle ==
    [pc |-> "idle", op |-> "none", mode |-> "none", path |-> AnyPath, gen |-> 0, files |-> {},
     over |-> NoTexts, srev |-> 0, base |-> NoSnapshot, sources |-> NoTexts]

Loaded == snap # NoSnapshot
Overtaken(t) == closed \/ thread[t].gen # generation

At(t, pc) == thread[t].pc = pc

\* The files below these roots that exist.
Discovered(w) ==
    IF w = NoWorkspace THEN {} ELSE {p \in FilesOf[w] : disk[p] # NoText}

Continue(t, locals) == thread' = [thread EXCEPT ![t] = locals]

\* The operation returns, giving up the analysis lock if it holds it.
Finish(t) ==
    /\ Continue(t, Idle)
    /\ lock' = IF lock = t THEN NoThread ELSE lock

--------------------------------------------------------------------------------
(* Operations begin *)

Begins(t, op) ==
    /\ op \in client.operations
    /\ t \in Workers /\ At(t, "idle")
    /\ started < client.started
    /\ started' = started + 1

\* The client sends no edit before its load request has been answered.
Handshake == client.early \/ At(Loop, "idle")

\* _configure_workspace: a new analysis universe.
ConfigureWorkspace(w) ==
    /\ generation' = generation + 1
    /\ closed' = FALSE
    /\ diagnosed' = FALSE
    /\ workspace' = w
    /\ rooted' = (w # NoWorkspace)

\* load_source_workspaces, and load_source_files of one document or of none.
LoadSources(t) ==
    /\ Begins(t, "load_sources") /\ Handshake
    /\ \E w \in Workspaces \cup {NoWorkspace} :
          /\ ConfigureWorkspace(w)
          /\ \E files \in IF w # NoWorkspace THEN {Discovered(w)}
                          ELSE {{}} \cup {{p} : p \in {q \in Paths : IsOpen(q) /\ ~Loaded}} :
                Continue(t, [Idle EXCEPT !.pc = "overlays", !.op = "load_sources",
                                         !.mode = "sources", !.gen = generation + 1,
                                         !.files = files])
    /\ UNCHANGED <<documents, disk, snap, nextRev, pyfiles, lock, client, writes, closes>>

\* load and load_workspaces.
Load(t) ==
    /\ Begins(t, "load") /\ Handshake
    /\ \E w \in Workspaces :
          /\ Discovered(w) # {}
          /\ ConfigureWorkspace(w)
          /\ Continue(t, [Idle EXCEPT !.pc = "acquire", !.op = "load", !.mode = "semantic",
                                      !.gen = generation + 1, !.files = Discovered(w)])
    /\ UNCHANGED <<documents, disk, snap, nextRev, pyfiles, lock, client, writes, closes>>

RefreshSources(t) ==
    /\ Begins(t, "refresh_sources")
    /\ ~closed
    /\ Continue(t, [Idle EXCEPT !.pc = "discovered", !.op = "refresh_sources",
                                !.gen = generation, !.files = Discovered(workspace)])
    /\ UNCHANGED <<documents, disk, snap, nextRev, universe, pyfiles, diagnosed, lock,
                   client, writes, closes>>

\* The files of the workspace and whatever else the published index holds.  With
\* no file at all load_files raises.
AnalyzeWorkspace(t) ==
    /\ Begins(t, "analyze_workspace")
    /\ LET indexed == IF Loaded THEN {p \in Paths : snap.sources[p] # NoText} ELSE {}
           files   == pyfiles \cup indexed
       IN  Continue(t, [Idle EXCEPT !.pc = IF files = {} THEN "failed" ELSE "acquire",
                                    !.op = "analyze_workspace", !.mode = "semantic",
                                    !.gen = generation, !.files = files])
    /\ UNCHANGED <<documents, disk, snap, nextRev, universe, pyfiles, diagnosed, lock,
                   client, writes, closes>>

\* The roots reload discovers files below: without a workspace, the root that
\* an analysis inferred from the files it was given.
ReloadRoots ==
    IF workspace # NoWorkspace \/ ~rooted THEN {workspace}
    ELSE {NoWorkspace} \cup {w \in Workspaces : pyfiles \subseteq FilesOf[w]}

Reload(t) ==
    /\ Begins(t, "reload")
    /\ ~closed
    /\ \E w \in ReloadRoots :
       LET files == IF Discovered(w) # {} THEN Discovered(w) ELSE pyfiles
       IN  /\ files # {}
           /\ Continue(t, [Idle EXCEPT !.pc = "acquire", !.op = "reload", !.mode = "semantic",
                                       !.gen = generation, !.files = files])
    /\ UNCHANGED <<documents, disk, snap, nextRev, universe, pyfiles, diagnosed, lock,
                   client, writes, closes>>

--------------------------------------------------------------------------------
(* Editor changes, on the event loop *)

Loading == \E t \in Workers : thread[t].op \in {"load_sources", "load"}

EditorChange(p) ==
    /\ At(Loop, "idle")
    /\ client.early \/ ~Loading
    /\ docRev < client.edits
    /\ Continue(Loop, [Idle EXCEPT !.pc = "publish", !.op = "edit", !.path = p])
    /\ UNCHANGED <<disk, snap, nextRev, universe, pyfiles, diagnosed, lock, bounds>>

\* open_document, change_document: a refused change is not published.
EditDocument == \E p \in Paths, v \in Versions : EditorChange(p) /\ Edit(p, v)

CloseDocument == \E p \in Paths : EditorChange(p) /\ CloseOverlay(p)

\* shutdown and exit.
Close ==
    /\ At(Loop, "idle")
    /\ closes < client.closes
    /\ closes' = closes + 1
    /\ generation' = generation + 1
    /\ closed' = TRUE
    /\ snap' = NoSnapshot
    /\ workspace' = NoWorkspace
    /\ rooted' = FALSE
    /\ pyfiles' = {}
    /\ UNCHANGED <<documents, disk, nextRev, diagnosed, lock, thread, client, writes, started>>

--------------------------------------------------------------------------------
(* _publish_syntax_snapshot *)

\* The snapshot to build on, under _state_lock.
PublishBegins(t) ==
    /\ At(t, "publish")
    /\ IF ~Loaded \/ closed
       THEN Finish(t)
       ELSE /\ Continue(t, [thread[t] EXCEPT !.pc = "overlays", !.mode = "syntax",
                                             !.base = snap, !.gen = generation,
                                             !.files = pyfiles])
            /\ UNCHANGED lock
    /\ UNCHANGED <<documents, disk, snap, nextRev, universe, pyfiles, diagnosed, bounds>>

\* A listed file that cannot be read counts as empty.
FileText(p) == IF disk[p] = NoText THEN <<"empty", 0>> ELSE disk[p]

\* _current_source_files
CurrentSources(files, over) ==
    [p \in Paths |-> IF over[p] # NoText THEN over[p]
                     ELSE IF p \in files THEN FileText(p) ELSE NoText]

\* The base's sources with one document brought up to date.
ChangedSources(base, p, files, over) ==
    LET below   == workspace # NoWorkspace /\ p \in FilesOf[workspace]
        current == IF over[p] # NoText THEN over[p]
                   ELSE IF p \in files \/ below THEN disk[p] ELSE NoText
    IN  [base EXCEPT ![p] = current]

\* build_interface_from_paths: the listed files that can be read.
AnalyzedSources(files, over) ==
    [p \in Paths |-> IF p \notin files THEN NoText
                     ELSE IF over[p] # NoText THEN over[p] ELSE disk[p]]

\* WorkspaceDocuments.snapshot: the overlays and their revision in one hold.
TakeSnapshot(t) == [thread[t] EXCEPT !.over = SourceOverrides, !.srev = docRev, !.pc = "sources"]

\* load_files reads the overlays and their revision separately.
TakeOverlays(t) ==
    /\ At(t, "overlays")
    /\ Continue(t, IF thread[t].mode = "semantic"
                   THEN [thread[t] EXCEPT !.over = SourceOverrides, !.pc = "revision"]
                   ELSE TakeSnapshot(t))
    /\ UNCHANGED <<documents, disk, snap, nextRev, universe, pyfiles, diagnosed, lock, bounds>>

TakeRevision(t) ==
    /\ At(t, "revision")
    /\ Continue(t, [thread[t] EXCEPT !.srev = docRev, !.pc = "sources"])
    /\ UNCHANGED <<documents, disk, snap, nextRev, universe, pyfiles, diagnosed, lock, bounds>>

ReadSources(t) ==
    /\ At(t, "sources")
    /\ LET l == thread[t]
           sources == IF l.mode = "semantic" THEN AnalyzedSources(l.files, l.over)
                      ELSE IF l.mode = "syntax" /\ l.path # AnyPath
                      THEN ChangedSources(l.base.sources, l.path, l.files, l.over)
                      ELSE CurrentSources(l.files, l.over)
       IN  Continue(t, [l EXCEPT !.sources = sources, !.pc = "commit"])
    /\ UNCHANGED <<documents, disk, snap, nextRev, universe, pyfiles, diagnosed, lock, bounds>>

\* Faulty variant: a publication is not given up when its overlays are outdated.
OutdatedIgnoringDocuments(t) == Overtaken(t)

\* Another edit or another universe came in between: whoever made it publishes.
Outdated(t) == Overtaken(t) \/ thread[t].srev # docRev

\* Faulty variant: syntax is published as if its facts were current.
SyntaxSnapshotFresh(t) ==
    [rev |-> nextRev + 1, semRev |-> thread[t].base.semRev, srcRev |-> thread[t].srev,
     stale |-> FALSE, sources |-> thread[t].sources, facts |-> thread[t].base.facts,
     gen |-> thread[t].gen]

SyntaxSnapshot(t) ==
    [rev |-> nextRev + 1, semRev |-> thread[t].base.semRev, srcRev |-> thread[t].srev,
     stale |-> TRUE, sources |-> thread[t].sources, facts |-> thread[t].base.facts,
     gen |-> thread[t].gen]

CommitSyntax(t) ==
    /\ At(t, "commit") /\ thread[t].mode = "syntax"
    /\ IF Outdated(t)
       THEN UNCHANGED <<snap, nextRev>>
       ELSE /\ snap' = SyntaxSnapshot(t)
            /\ nextRev' = nextRev + 1
    /\ Finish(t)
    /\ UNCHANGED <<documents, disk, universe, pyfiles, diagnosed, bounds>>

--------------------------------------------------------------------------------
(* Loads *)

\* refresh_sources: the discovered files replace the listed ones.
SetFiles(t) ==
    /\ At(t, "discovered")
    /\ IF Overtaken(t)
       THEN Finish(t) /\ UNCHANGED pyfiles
       ELSE /\ pyfiles' = IF workspace = NoWorkspace THEN pyfiles ELSE thread[t].files
            /\ Continue(t, [thread[t] EXCEPT !.pc = "publish"])
            /\ UNCHANGED lock
    /\ UNCHANGED <<documents, disk, snap, nextRev, universe, diagnosed, bounds>>

AcquireAnalysisLock(t) ==
    /\ At(t, "acquire")
    /\ lock = NoThread
    /\ lock' = t
    /\ Continue(t, [thread[t] EXCEPT !.pc = "overlays"])
    /\ UNCHANGED <<documents, disk, snap, nextRev, universe, pyfiles, diagnosed, bounds>>

LoadedSnapshot(t, facts) ==
    [rev |-> nextRev + 1, semRev |-> nextRev + 1, srcRev |-> thread[t].srev, stale |-> FALSE,
     sources |-> thread[t].sources, facts |-> facts, gen |-> thread[t].gen]

\* Faulty variant: a load is published although the workspace was closed or
\* reconfigured meanwhile.
CommitLoadRegardless(t) ==
    /\ At(t, "commit") /\ thread[t].mode \in {"sources", "semantic"}
    /\ snap' = LoadedSnapshot(t, IF thread[t].mode = "semantic" THEN thread[t].sources ELSE NoFacts)
    /\ nextRev' = nextRev + 1
    /\ pyfiles' = thread[t].files
    /\ diagnosed' = (diagnosed /\ thread[t].mode # "semantic")
    /\ rooted' = (rooted \/ thread[t].mode = "semantic")
    /\ Continue(t, [thread[t] EXCEPT !.pc = "recheck"])
    /\ UNCHANGED <<documents, disk, generation, closed, workspace, lock, bounds>>

\* The end of load_source_files (an empty program) and of load_files.
CommitLoad(t) ==
    /\ At(t, "commit") /\ thread[t].mode \in {"sources", "semantic"}
    /\ IF Overtaken(t)
       THEN Finish(t) /\ UNCHANGED <<snap, nextRev, pyfiles, diagnosed, rooted>>
       ELSE /\ snap' = LoadedSnapshot(t, IF thread[t].mode = "semantic"
                                         THEN thread[t].sources ELSE NoFacts)
            /\ nextRev' = nextRev + 1
            /\ pyfiles' = thread[t].files
            /\ diagnosed' = (diagnosed /\ thread[t].mode # "semantic")
            /\ rooted' = (rooted \/ thread[t].mode = "semantic")
            /\ Continue(t, [thread[t] EXCEPT !.pc = "recheck"])
            /\ UNCHANGED lock
    /\ UNCHANGED <<documents, disk, generation, closed, workspace, bounds>>

\* Edits made meanwhile are published over the new base.
Recheck(t) ==
    /\ At(t, "recheck")
    /\ IF docRev # thread[t].srev
       THEN /\ Continue(t, [thread[t] EXCEPT !.pc = "publish"])
            /\ UNCHANGED lock
       ELSE Finish(t)
    /\ UNCHANGED <<documents, disk, snap, nextRev, universe, pyfiles, diagnosed, bounds>>

\* Faulty variant: a failed analysis keeps the analysis lock.
AnalysisFailsLocked(t) ==
    /\ At(t, "sources") /\ thread[t].mode = "semantic"
    /\ Continue(t, IF thread[t].op = "analyze_workspace"
                   THEN [thread[t] EXCEPT !.pc = "failed"] ELSE Idle)
    /\ UNCHANGED <<documents, disk, snap, nextRev, universe, pyfiles, diagnosed, lock, bounds>>

\* Extraction or a pass raises; the lock is left with the exception, which only
\* analyze_workspace catches.
AnalysisFails(t) ==
    /\ At(t, "sources") /\ thread[t].mode = "semantic"
    /\ Continue(t, IF thread[t].op = "analyze_workspace"
                   THEN [thread[t] EXCEPT !.pc = "failed"] ELSE Idle)
    /\ lock' = NoThread
    /\ UNCHANGED <<documents, disk, snap, nextRev, universe, pyfiles, diagnosed, bounds>>

RecordFailure(t) ==
    /\ At(t, "failed")
    /\ diagnosed' = (diagnosed \/ ~Overtaken(t))
    /\ Finish(t)
    /\ UNCHANGED <<documents, disk, snap, nextRev, universe, pyfiles, bounds>>

--------------------------------------------------------------------------------
\* Other programs write, create and delete files.
WriteFile ==
    /\ writes < client.writes
    /\ writes' = writes + 1
    /\ \E p \in Paths, text \in {<<"disk", writes + 1>>, NoText} :
          text # disk[p] /\ disk' = [disk EXCEPT ![p] = text]
    /\ UNCHANGED <<documents, snap, nextRev, universe, pyfiles, diagnosed, lock, thread,
                   client, started, closes>>

Init ==
    /\ client \in Clients
    /\ DocumentsInit
    /\ disk = [p \in Paths |-> IF \E w \in Workspaces : p \in FilesOf[w]
                               THEN <<"disk", 0>> ELSE NoText]
    /\ snap = NoSnapshot
    /\ nextRev = 0
    /\ generation = 0
    /\ closed = FALSE
    /\ workspace = NoWorkspace
    /\ rooted = FALSE
    /\ pyfiles = {}
    /\ diagnosed = FALSE
    /\ lock = NoThread
    /\ thread = [t \in Threads |-> Idle]
    /\ writes = 0 /\ started = 0 /\ closes = 0

Begin(t) ==
    LoadSources(t) \/ Load(t) \/ RefreshSources(t) \/ AnalyzeWorkspace(t) \/ Reload(t)

Step(t) ==
    \/ PublishBegins(t) \/ TakeOverlays(t) \/ TakeRevision(t) \/ ReadSources(t)
    \/ CommitSyntax(t) \/ SetFiles(t) \/ AcquireAnalysisLock(t) \/ CommitLoad(t)
    \/ Recheck(t) \/ AnalysisFails(t) \/ RecordFailure(t)

Next ==
    \/ \E t \in Workers : Begin(t)
    \/ \E t \in Threads : Step(t)
    \/ EditDocument \/ CloseDocument \/ Close \/ WriteFile

Spec == Init /\ [][Next]_vars

\* Threads are scheduled fairly; nobody owes an edit, a write or a request.
FairSpec == Spec /\ \A t \in Threads : WF_vars(Step(t))

--------------------------------------------------------------------------------
(* Properties *)

Quiet == \A t \in Threads : At(t, "idle")

\* Type invariant; the analysis lock's holder is inside an operation.
TypeOK ==
    /\ client \in Clients
    /\ docs \in [Paths -> Overlays] /\ docRev \in Nat
    /\ disk \in Sources
    /\ snap \in Snapshots \cup {NoSnapshot}
    /\ nextRev \in Nat /\ generation \in Nat
    /\ closed \in BOOLEAN /\ rooted \in BOOLEAN /\ diagnosed \in BOOLEAN
    /\ workspace \in Workspaces \cup {NoWorkspace}
    /\ pyfiles \subseteq Paths
    /\ lock # NoThread => lock \in Workers /\ ~At(lock, "idle")
    /\ \A t \in Threads : thread[t].base \in Snapshots \cup {NoSnapshot}

\* The client waits for its loads before it edits, and asks for no compiler run: a
\* run publishes only the files it was given, open or not.
Handshaken ==
    ~client.early /\ client.operations \subseteq {"load_sources", "refresh_sources"}

\* The client changes its folders and its documents, and waits for its loads.
FolderRequests == ~client.early /\ client.operations \subseteq {"load_sources"}

\* A snapshot that carries the documents' revision shows every open document as
\* it is: source_revision says which edits a snapshot contains.
SourceRevisionExact ==
    Loaded /\ snap.srcRev = docRev =>
        \A p \in Paths : IsOpen(p) => snap.sources[p] = docs[p].text

\* When no operation is under way the published source index shows each open
\* document's text and the text of no closed one (open_document, change_document,
\* close_document and the publication that follows them).
NoEditLost ==
    Quiet /\ Loaded =>
        \A p \in Paths :
            IsOpen(p) \/ snap.sources[p] \in {"edit"} \X Nat => snap.sources[p] = docs[p].text

\* For a client that waits for the answer of its load before it edits, a snapshot's
\* revision says which edits it contains (_publish_syntax_snapshot, load_source_files).
RevisionExactAfterLoad == Handshaken => SourceRevisionExact

\* For the same client no accepted edit is missing from the published index once
\* every operation has returned, and no closed document's text is left in it.
NoEditLostAfterLoad == Handshaken => NoEditLost

\* Semantic facts that are not marked stale were computed from the very sources
\* the snapshot's index shows (require_fresh_semantics).
FreshFactsMatch ==
    Loaded /\ ~snap.stale /\ snap.facts # NoFacts => snap.facts = snap.sources

\* After close no late worker brings a snapshot or a file list back.
ClosedIsFinal == closed => ~Loaded /\ pyfiles = {}

\* When no operation is under way, the file list and the published index show files
\* of the current roots and documents that were opened, and nothing of the roots
\* before them (_configure_workspace starts a new universe).  A load that raises
\* leaves the index as it was; that of source services never does.
SettledUniverse ==
    Quiet /\ Loaded /\ workspace # NoWorkspace =>
        /\ pyfiles \subseteq FilesOf[workspace]
        /\ \A p \in Paths \ FilesOf[workspace] : snap.sources[p] \notin {"disk", "empty"} \X Nat

\* However loads of different workspace folders overlap, and whichever finishes
\* last, the folders requested last are the ones shown (didChangeWorkspaceFolders).
LastFoldersShown == FolderRequests => SettledUniverse

\* Every operation ends: none waits for the analysis lock forever.
OperationsEnd == \A t \in Threads : ~At(t, "idle") ~> At(t, "idle")

================================================================================
