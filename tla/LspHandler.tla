------------------------------ MODULE LspHandler ------------------------------
(***************************************************************************)
(* LspHandler (lsp/lsp_handler.py): what it does on its own between the       *)
(* editor's messages -- delayed pushes of diagnostics, the loop that refreshes *)
(* the source index after file changes, and the handlers that wait for a      *)
(* worker thread.                                                            *)
(*                                                                           *)
(* All of it runs on the event loop: a step is what happens between two       *)
(* suspensions, except that a handler which publishes an edit is split where  *)
(* a worker thread can run in the middle of it.  Messages begin in the order  *)
(* they were sent (JsonRpc: CancelHits), so sending one and beginning it is   *)
(* one step.                                                                 *)
(*                                                                           *)
(* Of the AnalysisManager behind it, the handler needs the text its snapshot   *)
(* has for each path, the document revision of the snapshot, and which of     *)
(* the threads that publish snapshots overtakes which; which files a          *)
(* workspace contains, the semantic facts and the analysis lock are left to   *)
(* AnalysisManager.                                                          *)
(***************************************************************************)
EXTENDS WorkspaceDocuments, Sequences

CONSTANTS
    NoSnapshot, NoJob, NoEdit,
    EarlyClient,    \* the client does not wait for the answer to initialize
    Commands,       \* of {"folders", "analysis"}: commands the client sends
    MaxEdits, MaxWrites, MaxPulls, MaxFailures, MaxCommands   \* bounds

Snapshots == [texts : [Paths -> Texts \cup {NoText}], rev : Nat]

\* An editor change: what its handler keeps while it publishes.
Edits == [kind : {"open", "change", "close"}, path : Paths,
          base : Snapshots \cup {NoSnapshot}, gen : Nat]

Purposes == {"initialize", "folders", "analysis", "refresh"}

ASSUME LspHandlerAssumption ==
    /\ EarlyClient \in BOOLEAN /\ Commands \subseteq {"folders", "analysis"}
    /\ Purposes \cap Paths = {}
    /\ NoSnapshot \notin Snapshots /\ NoEdit \notin Edits /\ NoJob \notin Paths \X Nat

VARIABLES
    disk,       \* path -> text of the file, or NoText
    snap,       \* the manager's snapshot: texts and source revision
    generation, closed,     \* of the manager
    thread,     \* worker threads, by what they were started for
    edit,       \* the editor change whose handler is publishing, or NoEdit
    shutdown,   \* _shutdown
    openDocs,   \* _open_documents
    epoch,      \* _publish_epochs
    pushTask,   \* _publish_tasks: epoch of the task, 0 for none
    jobs,       \* the diagnostic tasks: pushes, and pull requests (epoch 0)
    lock,       \* the job whose worker holds _diagnostic_lock
    waiters,    \* jobs waiting for _diagnostic_lock, in order
    dirty,      \* _semantic_dirty
    refresh,    \* _semantic_task: "none", "sleeping", "refreshing"
    seenRev,    \* its source_revision
    editorOpen, \* the documents open in the editor
    unreported, \* paths written since the client last reported changes
    shown,      \* path -> the text of the diagnostics shown, or NoText
    writes, pulls, failures, commands   \* bounds

documents == <<docs, docRev>>
manager == <<snap, generation, closed>>
pushes == <<epoch, pushTask, jobs>>
locks == <<lock, waiters>>
refreshing == <<dirty, refresh, seenRev>>
client == <<editorOpen, unreported>>
bounds == <<writes, pulls, failures, commands>>
vars == <<docs, docRev, disk, snap, generation, closed, thread, edit, shutdown, openDocs,
          epoch, pushTask, jobs, lock, waiters, dirty, refresh, seenRev, editorOpen,
          unreported, shown, writes, pulls, failures, commands>>

Threads == Purposes \cup Paths
NoThread == [pc |-> "none", gen |-> 0, texts |-> NoTexts, rev |-> 0]

Loaded == snap # NoSnapshot

\* What a thread reads: the overlays, and below them the files.
CurrentTexts == [p \in Paths |-> IF IsOpen(p) THEN docs[p].text ELSE disk[p]]
ShownText(p) == IF Loaded THEN snap.texts[p] ELSE NoText

Init ==
    /\ DocumentsInit
    /\ disk = [p \in Paths |-> <<"disk", 0>>]
    /\ snap = NoSnapshot /\ generation = 0 /\ closed = FALSE
    /\ thread = [k \in Threads |-> NoThread]
    /\ edit = NoEdit /\ shutdown = FALSE
    /\ openDocs = {} /\ epoch = [p \in Paths |-> 0] /\ pushTask = [p \in Paths |-> 0]
    /\ jobs = {} /\ lock = NoJob /\ waiters = <<>>
    /\ dirty = FALSE /\ refresh = "none" /\ seenRev = 0
    /\ editorOpen = {} /\ unreported = {} /\ shown = [p \in Paths |-> NoText]
    /\ writes = 0 /\ pulls = 0 /\ failures = 0 /\ commands = 0

--------------------------------------------------------------------------------
(* Worker threads: load_source_workspaces and load_source_files, load_files,    *)
(* refresh_sources                                                            *)

Started(k) == [thread EXCEPT ![k] = [NoThread EXCEPT !.pc = "begun"]]
Goes(k, pc) == thread' = [thread EXCEPT ![k].pc = pc]

\* A load first starts a new generation of the manager.
Loads == Threads \ {"analysis", "refresh"}

Read(k) ==
    /\ thread[k].pc \in {"begun", "republish"}
    /\ LET g == IF k \in Loads /\ thread[k].pc = "begun" THEN generation + 1 ELSE generation
       IN  /\ generation' = g
           /\ thread' = [thread EXCEPT ![k] =
                [pc |-> IF thread[k].pc = "begun" THEN "read" ELSE "reread",
                 gen |-> g, texts |-> CurrentTexts, rev |-> docRev]]
    /\ closed' = (closed /\ ~(k \in Loads /\ thread[k].pc = "begun"))
    /\ UNCHANGED <<documents, disk, snap, edit, shutdown, openDocs, pushes, locks,
                   refreshing, client, shown, bounds>>

Overtaken(k) == closed \/ thread[k].gen # generation

\* A load is published whatever was edited meanwhile, and the edits after it.
CommitLoad(k) ==
    /\ k # "refresh" /\ thread[k].pc = "read"
    /\ IF Overtaken(k)
       THEN UNCHANGED snap /\ Goes(k, "done")
       ELSE /\ snap' = [texts |-> thread[k].texts, rev |-> thread[k].rev]
            /\ Goes(k, IF docRev = thread[k].rev THEN "done" ELSE "republish")
    /\ UNCHANGED <<documents, disk, generation, closed, edit, shutdown, openDocs, pushes,
                   locks, refreshing, client, shown, bounds>>

\* _publish_syntax_snapshot of all files: given up if a document changed.
CommitPublication(k) ==
    /\ thread[k].pc = IF k = "refresh" THEN "read" ELSE "reread"
    /\ snap' = IF Overtaken(k) \/ ~Loaded \/ docRev # thread[k].rev THEN snap
               ELSE [texts |-> thread[k].texts, rev |-> thread[k].rev]
    /\ Goes(k, "done")
    /\ UNCHANGED <<documents, disk, generation, closed, edit, shutdown, openDocs, pushes,
                   locks, refreshing, client, shown, bounds>>

\* refresh_sources raises: a file cannot be read.
RefreshRaises ==
    /\ thread["refresh"].pc = "begun" /\ failures < MaxFailures
    /\ failures' = failures + 1
    /\ Goes("refresh", "failed")
    /\ UNCHANGED <<documents, disk, manager, edit, shutdown, openDocs, pushes, locks,
                   refreshing, client, shown, writes, pulls, commands>>

--------------------------------------------------------------------------------
(* Scheduled pushes                                                           *)

\* The event loop runs another task.
LoopIdle == edit = NoEdit

Push(p, e) == [path |-> p, epoch |-> e, pc |-> "sleeping", text |-> NoText]
Name(j) == <<j.path, j.epoch>>
Moves(j, pc) == jobs' = (jobs \ {j}) \cup {[j EXCEPT !.pc = pc]}
Without(names) == SelectSeq(waiters, LAMBDA n : n \notin names)

\* The push tasks that cancelling the entry of each of these paths ends.
Cancelled(ps) == {j \in jobs : j.path \in ps /\ j.epoch > 0 /\ j.epoch = pushTask[j.path]}

\* The epoch not advanced; the task before left running; no second task while
\* there is one.
SchedulePublishSameEpoch(ps) ==
    /\ pushTask' = [p \in Paths |-> IF p \in ps THEN epoch[p] + 1 ELSE pushTask[p]]
    /\ jobs' = (jobs \ Cancelled(ps)) \cup {Push(p, epoch[p] + 1) : p \in ps}
    /\ waiters' = Without({Name(j) : j \in Cancelled(ps)})
    /\ UNCHANGED epoch
SchedulePublishUncancelled(ps) ==
    /\ epoch' = [p \in Paths |-> IF p \in ps THEN epoch[p] + 1 ELSE epoch[p]]
    /\ pushTask' = [p \in Paths |-> IF p \in ps THEN epoch[p] + 1 ELSE pushTask[p]]
    /\ jobs' = jobs \cup {Push(p, epoch[p] + 1) : p \in ps}
    /\ UNCHANGED waiters
SchedulePublishOnce(ps) ==
    LET new == {p \in ps : pushTask[p] = 0} IN
    /\ epoch' = [p \in Paths |-> IF p \in new THEN epoch[p] + 1 ELSE epoch[p]]
    /\ pushTask' = [p \in Paths |-> IF p \in new THEN epoch[p] + 1 ELSE pushTask[p]]
    /\ jobs' = jobs \cup {Push(p, epoch[p] + 1) : p \in new}
    /\ UNCHANGED waiters

\* _schedule_publish of each path: the task before is cancelled.
SchedulePublish(ps) ==
    IF shutdown THEN UNCHANGED <<epoch, pushTask, jobs, waiters>>
    ELSE /\ epoch' = [p \in Paths |-> IF p \in ps THEN epoch[p] + 1 ELSE epoch[p]]
         /\ pushTask' = [p \in Paths |-> IF p \in ps THEN epoch[p] + 1 ELSE pushTask[p]]
         /\ jobs' = (jobs \ Cancelled(ps)) \cup {Push(p, epoch[p] + 1) : p \in ps}
         /\ waiters' = Without({Name(j) : j \in Cancelled(ps)})

\* The task ends; its entry goes unless another task has taken it.
EndJob(j) ==
    /\ jobs' = jobs \ {j}
    /\ pushTask' = IF pushTask[j.path] = j.epoch
                   THEN [pushTask EXCEPT ![j.path] = 0] ELSE pushTask
    /\ UNCHANGED epoch

--------------------------------------------------------------------------------
(* _handle_document_diagnostic, for a push or for a request                    *)

DocumentIsCurrent(j) == Loaded /\ snap.texts[j.path] = j.text

\* The debounce is over, or the request begins: the snapshot is taken, and the
\* lock if it is free.
TakeLock(j) ==
    /\ LoopIdle /\ j \in jobs /\ j.pc = "sleeping"
    /\ IF ~Loaded THEN EndJob(j) /\ UNCHANGED locks
       ELSE LET k == [j EXCEPT !.text = snap.texts[j.path]]
                free == lock = NoJob /\ waiters = <<>>
            IN  /\ jobs' = (jobs \ {j}) \cup {[k EXCEPT !.pc = IF free THEN "working" ELSE "waiting"]}
                /\ lock' = IF free THEN Name(j) ELSE lock
                /\ waiters' = IF free THEN waiters ELSE Append(waiters, Name(j))
                /\ UNCHANGED <<epoch, pushTask>>
    /\ UNCHANGED <<documents, disk, manager, thread, edit, shutdown, openDocs, refreshing,
                   client, shown, bounds>>

\* A waiter gets the lock, and gives it back if its document has changed.
GetLock(j) ==
    /\ LoopIdle /\ j \in jobs /\ j.pc = "waiting"
    /\ lock = NoJob /\ Head(waiters) = Name(j)
    /\ waiters' = Tail(waiters)
    /\ IF DocumentIsCurrent(j)
       THEN lock' = Name(j) /\ Moves(j, "working") /\ UNCHANGED <<epoch, pushTask>>
       ELSE lock' = NoJob /\ EndJob(j)
    /\ UNCHANGED <<documents, disk, manager, thread, edit, shutdown, openDocs, refreshing,
                   client, shown, bounds>>

\* The lock freed by the task, which may be gone, instead of the callback.
WorkerDoneUncancelled ==
    /\ LoopIdle /\ lock # NoJob
    /\ lock' = IF \E j \in jobs : j.pc = "working" THEN NoJob ELSE lock
    /\ jobs' = {IF j.pc = "working" THEN [j EXCEPT !.pc = "worked"] ELSE j : j \in jobs}
    /\ UNCHANGED <<documents, disk, manager, thread, edit, shutdown, openDocs, epoch, pushTask,
                   waiters, refreshing, client, shown, bounds>>

\* The worker ends and its callback frees the lock; the task, if it still
\* waits, will resume.
WorkerDone ==
    /\ LoopIdle /\ lock # NoJob
    /\ lock' = NoJob
    /\ jobs' = {IF j.pc = "working" THEN [j EXCEPT !.pc = "worked"] ELSE j : j \in jobs}
    /\ UNCHANGED <<documents, disk, manager, thread, edit, shutdown, openDocs, epoch, pushTask,
                   waiters, refreshing, client, shown, bounds>>

\* The push is sent if the text is still the server's and the push the last
\* one asked for.
MayPush(j) ==
    /\ DocumentIsCurrent(j)
    /\ j.path \in openDocs /\ epoch[j.path] = j.epoch /\ ~shutdown

Publish(j) ==
    /\ LoopIdle /\ j \in jobs /\ j.pc = "worked"
    /\ EndJob(j)
    /\ shown' = IF j.epoch > 0 /\ MayPush(j) THEN [shown EXCEPT ![j.path] = j.text] ELSE shown
    /\ UNCHANGED <<documents, disk, manager, thread, edit, shutdown, openDocs, locks,
                   refreshing, client, bounds>>

--------------------------------------------------------------------------------
(* The refresh loop                                                           *)

\* The loop's test; without more to do the task ends, and its finally clause,
\* which looks again, finds nothing either.
Again(more) ==
    /\ dirty' = (more /\ Loaded)
    /\ refresh' = IF more /\ Loaded THEN "sleeping" ELSE "none"

WatchedFiles ==
    /\ dirty' = TRUE
    /\ refresh' = IF refresh = "none" THEN "sleeping" ELSE refresh
    /\ UNCHANGED seenRev

RefreshWakes ==
    /\ LoopIdle /\ refresh = "sleeping"
    /\ thread["refresh"].pc = "none"
    /\ dirty' = FALSE
    /\ IF Loaded
       THEN refresh' = "refreshing" /\ seenRev' = snap.rev /\ thread' = Started("refresh")
       ELSE refresh' = "none" /\ UNCHANGED <<seenRev, thread>>
    /\ UNCHANGED <<documents, disk, manager, edit, shutdown, openDocs, pushes, locks, client,
                   shown, bounds>>

\* The revision not compared after the refresh.
RefreshReturnsDone ==
    /\ LoopIdle /\ refresh = "refreshing" /\ thread["refresh"].pc = "done"
    /\ thread' = [thread EXCEPT !["refresh"] = NoThread]
    /\ SchedulePublish(openDocs)
    /\ Again(dirty)
    /\ UNCHANGED <<documents, disk, manager, edit, shutdown, openDocs, lock, seenRev, client,
                   shown, bounds>>

\* refresh_sources returned: open documents are diagnosed again, and an edit
\* published meanwhile asks for another round.
RefreshReturns ==
    /\ LoopIdle /\ refresh = "refreshing" /\ thread["refresh"].pc = "done"
    /\ thread' = [thread EXCEPT !["refresh"] = NoThread]
    /\ SchedulePublish(openDocs)
    /\ Again(dirty \/ (Loaded /\ snap.rev # seenRev))
    /\ UNCHANGED <<documents, disk, manager, edit, shutdown, openDocs, lock, seenRev, client,
                   shown, bounds>>

\* It raised: only a report that came meanwhile starts another round.
RefreshFailed ==
    /\ LoopIdle /\ refresh = "refreshing" /\ thread["refresh"].pc = "failed"
    /\ thread' = [thread EXCEPT !["refresh"] = NoThread]
    /\ Again(dirty)
    /\ UNCHANGED <<documents, disk, manager, edit, shutdown, openDocs, pushes, locks, seenRev,
                   client, shown, bounds>>

--------------------------------------------------------------------------------
(* The client's messages                                                      *)

Answered == thread["initialize"].pc = "none" /\ generation > 0

\* The client is silent after shutdown, and before initialize is answered.
MaySend == LoopIdle /\ ~shutdown /\ (Answered \/ EarlyClient)

Initialize ==
    /\ LoopIdle /\ ~shutdown /\ generation = 0 /\ thread["initialize"].pc = "none"
    /\ thread' = Started("initialize")
    /\ UNCHANGED <<documents, disk, manager, edit, shutdown, openDocs, pushes, locks,
                   refreshing, client, shown, bounds>>

\* workspace/didChangeWorkspaceFolders and pyflow.analyzeWorkspace.
Command(k) ==
    /\ MaySend /\ Loaded /\ k \in Commands /\ commands < MaxCommands
    /\ thread[k].pc = "none"
    /\ commands' = commands + 1
    /\ thread' = Started(k)
    /\ UNCHANGED <<documents, disk, manager, edit, shutdown, openDocs, pushes, locks,
                   refreshing, client, shown, writes, pulls, failures>>

\* The handler that awaited the thread returns.
Return(k) ==
    /\ LoopIdle /\ k \in {"initialize", "folders", "analysis"} /\ thread[k].pc = "done"
    /\ thread' = [thread EXCEPT ![k] = NoThread]
    /\ UNCHANGED <<documents, disk, manager, edit, shutdown, openDocs, pushes, locks,
                   refreshing, client, shown, bounds>>

\* didOpen, didChange and didClose hand the text to the documents ...
BeginEdit(kind, p) ==
    /\ MaySend /\ docRev < MaxEdits
    /\ CASE kind = "open"   -> p \notin editorOpen /\ Edit(p, NoVersion)
                               /\ thread[p].pc = "none"    \* bound: one load each
                               /\ editorOpen' = editorOpen \cup {p}
         [] kind = "change" -> p \in editorOpen /\ Edit(p, NoVersion) /\ UNCHANGED editorOpen
         [] kind = "close"  -> p \in editorOpen /\ CloseOverlay(p)
                               /\ editorOpen' = editorOpen \ {p}
    /\ edit' = [kind |-> kind, path |-> p, base |-> snap, gen |-> generation]
    /\ shown' = IF kind = "close" THEN [shown EXCEPT ![p] = NoText] ELSE shown
    /\ UNCHANGED <<disk, manager, thread, shutdown, openDocs, pushes, locks, refreshing,
                   unreported, bounds>>

\* ... which publishes the one document over the snapshot taken before ...
PublishEdit ==
    snap' = IF edit.base = NoSnapshot \/ closed \/ generation # edit.gen THEN snap
            ELSE [texts |-> [edit.base.texts EXCEPT ![edit.path] = CurrentTexts[edit.path]],
                  rev |-> docRev]

\* ... and the handler goes on: an open document is diagnosed later, a closed
\* one no more.  (Its diagnostics were cleared with the close: nothing else is
\* pushed in between.)
ListOpen(p) == openDocs' = openDocs \cup {p} /\ SchedulePublish({p})

\* The close leaves the document's pending push alone.
ForgetNothing(p) == UNCHANGED <<openDocs, epoch, pushTask, jobs, waiters>>

Forget(p) ==
    /\ openDocs' = openDocs \ {p}
    /\ epoch' = [epoch EXCEPT ![p] = @ + 1]
    /\ pushTask' = [pushTask EXCEPT ![p] = 0]
    /\ jobs' = jobs \ Cancelled({p})
    /\ waiters' = Without({Name(j) : j \in Cancelled({p})})

FinishEdit ==
    /\ edit # NoEdit
    /\ PublishEdit
    /\ edit' = NoEdit
    /\ LET p == edit.path IN
       CASE edit.kind = "open" /\ ~Loaded ->
              /\ thread' = Started(p)
              /\ UNCHANGED <<openDocs, pushes, waiters>>
         [] edit.kind = "open" /\ Loaded -> ListOpen(p) /\ UNCHANGED thread
         [] edit.kind = "change" ->
              /\ SchedulePublish({p} \cap openDocs)
              /\ UNCHANGED <<openDocs, thread>>
         [] edit.kind = "close" -> Forget(p) /\ UNCHANGED thread
    /\ UNCHANGED <<documents, disk, generation, closed, shutdown, lock, refreshing, client,
                   shown, bounds>>

\* didOpen found nothing loaded and awaited a load.
ResumeOpen(p) ==
    /\ LoopIdle /\ thread[p].pc = "done"
    /\ thread' = [thread EXCEPT ![p] = NoThread]
    /\ ListOpen(p)
    /\ UNCHANGED <<documents, disk, manager, edit, shutdown, lock, refreshing, client, shown,
                   bounds>>

DidSave(p) ==
    /\ MaySend /\ p \in editorOpen /\ pulls < MaxPulls
    /\ pulls' = pulls + 1
    /\ SchedulePublish({p} \cap openDocs)
    /\ UNCHANGED <<documents, disk, manager, thread, edit, shutdown, openDocs, lock,
                   refreshing, client, shown, writes, failures, commands>>

\* textDocument/diagnostic, and its cancellation; the worker is shielded.
Pull(p) ==
    /\ MaySend /\ Loaded /\ pulls < MaxPulls
    /\ ~\E j \in jobs : Name(j) = <<p, 0>>
    /\ pulls' = pulls + 1
    /\ jobs' = jobs \cup {Push(p, 0)}
    /\ UNCHANGED <<documents, disk, manager, thread, edit, shutdown, openDocs, epoch, pushTask,
                   locks, refreshing, client, shown, writes, failures, commands>>

CancelPull(p) ==
    /\ MaySend
    /\ \E j \in jobs :
         /\ Name(j) = <<p, 0>>
         /\ jobs' = jobs \ {j}
         /\ waiters' = Without({Name(j)})
    /\ UNCHANGED <<documents, disk, manager, thread, edit, shutdown, openDocs, epoch, pushTask,
                   lock, refreshing, client, shown, bounds>>

ReportChanges ==
    /\ MaySend /\ unreported # {}
    /\ unreported' = {}
    /\ IF Loaded THEN WatchedFiles ELSE UNCHANGED refreshing
    /\ UNCHANGED <<documents, disk, manager, thread, edit, shutdown, openDocs, pushes, locks,
                   editorOpen, shown, bounds>>

\* shutdown: the refresh loop and the pushes are cancelled, the manager closed.
Shutdown ==
    /\ MaySend
    /\ shutdown' = TRUE
    /\ dirty' = FALSE /\ refresh' = "none" /\ UNCHANGED seenRev
    /\ jobs' = jobs \ Cancelled(Paths)
    /\ waiters' = Without({Name(j) : j \in Cancelled(Paths)})
    /\ pushTask' = [p \in Paths |-> 0]
    /\ snap' = NoSnapshot /\ generation' = generation + 1 /\ closed' = TRUE
    /\ UNCHANGED <<documents, disk, thread, edit, openDocs, epoch, lock, client, shown, bounds>>

\* Another program writes a file; the client will report it.
WriteFile(p) ==
    /\ writes < MaxWrites
    /\ writes' = writes + 1
    /\ disk' = [disk EXCEPT ![p] = <<"disk", writes + 1>>]
    /\ unreported' = unreported \cup {p}
    /\ UNCHANGED <<documents, manager, thread, edit, shutdown, openDocs, pushes, locks,
                   refreshing, editorOpen, shown, pulls, failures, commands>>

--------------------------------------------------------------------------------
ThreadStep(k) == Read(k) \/ CommitLoad(k) \/ CommitPublication(k)
Diagnose(j) == TakeLock(j) \/ GetLock(j) \/ Publish(j)
RefreshStep == RefreshWakes \/ RefreshReturns \/ RefreshFailed

Next ==
    \/ \E k \in Threads : ThreadStep(k) \/ Return(k) \/ Command(k)
    \/ \E j \in jobs : Diagnose(j)
    \/ WorkerDone \/ RefreshStep \/ RefreshRaises
    \/ Initialize \/ FinishEdit \/ ReportChanges \/ Shutdown
    \/ \E p \in Paths :
         \/ \E kind \in {"open", "change", "close"} : BeginEdit(kind, p)
         \/ ResumeOpen(p) \/ DidSave(p) \/ Pull(p) \/ CancelPull(p) \/ WriteFile(p)

\* Threads run and return, sleeps end, and the event loop resumes what is
\* ready.  Nothing obliges the client to do anything.
Fairness ==
    /\ \A k \in Threads : WF_vars(ThreadStep(k)) /\ WF_vars(Return(k))
    /\ WF_vars(FinishEdit) /\ WF_vars(WorkerDone) /\ WF_vars(RefreshStep)
    /\ \A p \in Paths : WF_vars(ResumeOpen(p))
    /\ \A p \in Paths : WF_vars(\E j \in jobs : j.path = p /\ Diagnose(j))

Spec == Init /\ [][Next]_vars /\ Fairness

--------------------------------------------------------------------------------
(* Properties                                                                 *)

TypeOK ==
    /\ snap \in Snapshots \cup {NoSnapshot}
    /\ \A k \in Threads : thread[k].pc \in
          {"none", "begun", "read", "republish", "reread", "failed", "done"}
    /\ edit = NoEdit \/ edit.path \in Paths
    /\ \A p \in Paths : epoch[p] \in Nat /\ pushTask[p] \in 0..epoch[p]
    /\ openDocs \subseteq Paths /\ editorOpen \subseteq Paths
    /\ \A j \in jobs : j.pc \in {"sleeping", "waiting", "working", "worked"}
    /\ refresh \in {"none", "sleeping", "refreshing"}
    /\ shown \in [Paths -> Texts \cup {NoText}]

\* Once the edits stop, every open document is shown with the diagnostics of the
\* server's text for it: no push that replaces, cancels or overtakes another
\* leaves the newest text undiagnosed.  (Edits are bounded, so they stop.)
PushesSettle == \A p \in Paths :
    []<>(p \in editorOpen /\ ~shutdown => shown[p] = ShownText(p))

\* _publish_tasks holds, for each document, the one live push that may still be
\* sent: an older one was cancelled, so that at most one is under way.
OnePush == \A p \in Paths :
    {j.epoch : j \in {i \in jobs : i.path = p /\ i.epoch > 0}} =
        (IF pushTask[p] = 0 THEN {} ELSE {pushTask[p]})

\* Every diagnostic request ends, whatever was cancelled before it: a worker of a
\* cancelled task gives the lock back.
PullsEnd == \A p \in Paths :
    <<p, 0>> \in {Name(j) : j \in jobs} ~> <<p, 0>> \notin {Name(j) : j \in jobs}
================================================================================
