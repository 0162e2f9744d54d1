--------------------------- MODULE LspHandlerProofs ---------------------------
(***************************************************************************)
(* Theorems about LspHandler, for every set of documents and every number of  *)
(* edits, file changes, requests and commands.                               *)
(*                                                                           *)
(* The argument.  No two diagnostic tasks have the same path and epoch, and a *)
(* push task is in _publish_tasks as long as it lives, so cancelling that     *)
(* entry ends the only push of its document (Pushes).  For a client that      *)
(* waits for the answer to initialize the manager is loaded from then on      *)
(* until shutdown, so that no didOpen waits for a load of its own: the        *)
(* handler's list of open documents is the editor's, but for the close being  *)
(* handled (Waiting), and a push, sent only of a listed document and of the   *)
(* text in the index, is one the editor was promised.                        *)
(***************************************************************************)
EXTENDS LspHandler, TLAPS

--------------------------------------------------------------------------------
(* Types                                                                      *)

TextMaps == [Paths -> Texts \cup {NoText}]
ThreadPositions == {"none", "begun", "read", "republish", "reread", "failed", "done"}
ThreadStates == [pc : ThreadPositions, gen : Nat, texts : TextMaps, rev : Nat]
JobPositions == {"sleeping", "waiting", "working", "worked"}
Jobs == [path : Paths, epoch : Nat, pc : JobPositions, text : Texts \cup {NoText}]

DocumentTypes ==
    /\ docs \in [Paths -> Overlays] /\ docRev \in Nat
    /\ disk \in TextMaps /\ writes \in Nat
ManagerTypes ==
    /\ snap \in Snapshots \cup {NoSnapshot} /\ generation \in Nat
    /\ thread \in [Threads -> ThreadStates]
EditTypes == edit \in Edits \cup {NoEdit}
PushTypes == epoch \in [Paths -> Nat] /\ pushTask \in [Paths -> Nat] /\ jobs \subseteq Jobs
ClientTypes ==
    /\ openDocs \subseteq Paths /\ editorOpen \subseteq Paths /\ shown \in TextMaps
    /\ refresh \in {"none", "sleeping", "refreshing"}

--------------------------------------------------------------------------------
(* The diagnostic tasks                                                       *)

\* The tasks have names of their own, no task is ahead of its document's epoch,
\* and the pushes are those in _publish_tasks.
Pushes ==
    /\ PushTypes
    /\ \A p \in Paths : pushTask[p] <= epoch[p]
    /\ \A i, j \in jobs : Name(i) = Name(j) => i = j
    /\ \A j \in jobs : j.epoch > 0 => j.epoch = pushTask[j.path]
    /\ \A p \in Paths : pushTask[p] # 0 => \E j \in jobs : j.path = p /\ j.epoch = pushTask[p]

\* A task goes on under its own name.
LEMMA TaskGoesOn ==
  ASSUME Pushes, NEW j \in jobs, NEW k \in Jobs, Name(k) = Name(j),
         jobs' = (jobs \ {j}) \cup {k}, UNCHANGED <<epoch, pushTask>>
  PROVE  Pushes'
<1>1. k.path = j.path /\ k.epoch = j.epoch
  BY DEF Name
<1>2. PushTypes' /\ \A p \in Paths : pushTask'[p] <= epoch'[p]
  BY DEF Pushes, PushTypes
<1>3. \A i, h \in jobs' : Name(i) = Name(h) => i = h
  BY <1>1 DEF Pushes, Name
<1>4. \A i \in jobs' : i.epoch > 0 => i.epoch = pushTask'[i.path]
  BY <1>1 DEF Pushes
<1>5. ASSUME NEW p \in Paths, pushTask'[p] # 0
      PROVE  \E i \in jobs' : i.path = p /\ i.epoch = pushTask'[p]
  <2>1. PICK i \in jobs : i.path = p /\ i.epoch = pushTask[p]
    BY <1>5 DEF Pushes
  <2> QED
    BY <1>1, <2>1
<1> QED
  BY <1>2, <1>3, <1>4, <1>5 DEF Pushes, Name

\* A task ends.
LEMMA TaskEnds == ASSUME Pushes, NEW j \in jobs, EndJob(j) PROVE Pushes'
<1>1. /\ j.path \in Paths /\ j.epoch \in Nat /\ epoch' = epoch /\ jobs' = jobs \ {j}
      /\ pushTask \in [Paths -> Nat]
      /\ pushTask' = IF pushTask[j.path] = j.epoch THEN [pushTask EXCEPT ![j.path] = 0]
                     ELSE pushTask
  BY DEF Pushes, PushTypes, Jobs, EndJob
<1>2. PushTypes' /\ \A p \in Paths : pushTask'[p] <= epoch'[p]
  BY <1>1 DEF Pushes, PushTypes
<1>3. ASSUME NEW i \in jobs', i.epoch > 0 PROVE i.epoch = pushTask'[i.path]
  <2>1. i \in jobs /\ i # j /\ i.epoch = pushTask[i.path] /\ i.path \in Paths
    BY <1>1, <1>3 DEF Pushes, PushTypes, Jobs
  <2>2. ~(i.path = j.path /\ i.epoch = j.epoch)
    BY <2>1 DEF Pushes, Name
  <2> QED
    BY <1>1, <2>1, <2>2
<1>4. ASSUME NEW p \in Paths, pushTask'[p] # 0
      PROVE  \E i \in jobs' : i.path = p /\ i.epoch = pushTask'[p]
  <2>1. pushTask'[p] = pushTask[p] /\ ~(p = j.path /\ pushTask[p] = j.epoch)
    BY <1>1, <1>4
  <2>2. PICK i \in jobs : i.path = p /\ i.epoch = pushTask[p]
    BY <1>4, <2>1 DEF Pushes
  <2> QED
    BY <1>1, <2>1, <2>2
<1> QED
  BY <1>1, <1>2, <1>3, <1>4 DEF Pushes, Name

\* Pushes are scheduled: each replaces the one before.
LEMMA PushesScheduled == ASSUME Pushes, NEW ps \in SUBSET Paths, SchedulePublish(ps) PROVE Pushes'
<1>1. CASE shutdown
  BY <1>1 DEF SchedulePublish, Pushes, PushTypes
<1>2. CASE ~shutdown
  <2>1. /\ epoch' = [p \in Paths |-> IF p \in ps THEN epoch[p] + 1 ELSE epoch[p]]
        /\ pushTask' = [p \in Paths |-> IF p \in ps THEN epoch[p] + 1 ELSE pushTask[p]]
        /\ jobs' = (jobs \ Cancelled(ps)) \cup {Push(p, epoch[p] + 1) : p \in ps}
    BY <1>2 DEF SchedulePublish
  <2>2. \A p \in Paths : epoch[p] \in Nat /\ pushTask[p] \in Nat /\ pushTask[p] <= epoch[p]
    BY DEF Pushes, PushTypes
  <2>3. \A p \in ps : /\ Push(p, epoch[p] + 1) \in Jobs
                      /\ Push(p, epoch[p] + 1).path = p
                      /\ Push(p, epoch[p] + 1).epoch = epoch[p] + 1
    <3> SUFFICES ASSUME NEW p \in ps
                 PROVE  /\ Push(p, epoch[p] + 1) \in Jobs
                        /\ Push(p, epoch[p] + 1).path = p
                        /\ Push(p, epoch[p] + 1).epoch = epoch[p] + 1
      OBVIOUS
    <3>1. p \in Paths /\ epoch[p] + 1 \in Nat
      BY <2>2
    <3>2. "sleeping" \in JobPositions
      BY DEF JobPositions
    <3> QED
      BY <3>1, <3>2 DEF Push, Jobs
  <2>4. PushTypes' /\ \A p \in Paths : pushTask'[p] <= epoch'[p]
    <3>1. epoch' \in [Paths -> Nat] /\ pushTask' \in [Paths -> Nat]
      BY <2>1, <2>2
    <3>2. jobs' \subseteq Jobs
      BY <2>1, <2>3 DEF Pushes, PushTypes
    <3> QED
      BY <2>1, <2>2, <3>1, <3>2 DEF PushTypes
  <2>5. \A i \in jobs : i.path \in Paths /\ i.epoch \in Nat /\ i.epoch <= epoch[i.path]
    BY <2>2 DEF Pushes, PushTypes, Jobs
  <2>6. \A i \in jobs' : \/ i \in jobs /\ ~(i.path \in ps /\ i.epoch > 0)
                         \/ i.path \in ps /\ i = Push(i.path, epoch[i.path] + 1)
    BY <2>1, <2>3 DEF Pushes, Cancelled
  <2>7. \A i, h \in jobs' : Name(i) = Name(h) => i = h
    <3> SUFFICES ASSUME NEW i \in jobs', NEW h \in jobs', i.path = h.path, i.epoch = h.epoch
                 PROVE  i = h
      BY DEF Name
    <3>1. CASE i \in jobs /\ h \in jobs
      BY <3>1 DEF Pushes, Name
    <3>2. CASE i \notin jobs /\ h \notin jobs
      BY <2>6, <3>2
    <3>3. CASE i \in jobs /\ h \notin jobs
      <4>1. h.path \in ps /\ h.epoch = epoch[h.path] + 1
        BY <2>3, <2>6, <3>3
      <4> QED
        BY <2>2, <2>5, <3>3, <4>1
    <3>4. CASE i \notin jobs /\ h \in jobs
      <4>1. i.path \in ps /\ i.epoch = epoch[i.path] + 1
        BY <2>3, <2>6, <3>4
      <4>2. h.path \in Paths /\ h.epoch \in Nat /\ h.epoch <= epoch[h.path] /\ epoch[h.path] \in Nat
        BY <2>2, <2>5, <3>4
      <4>3. h.epoch = epoch[h.path] + 1
        BY <4>1
      <4> QED
        BY <4>2, <4>3
    <3> QED
      BY <3>1, <3>2, <3>3, <3>4
  <2>8. \A i \in jobs' : i.epoch > 0 => i.epoch = pushTask'[i.path]
    BY <2>1, <2>3, <2>5, <2>6 DEF Pushes
  <2>9. ASSUME NEW p \in Paths, pushTask'[p] # 0
        PROVE  \E i \in jobs' : i.path = p /\ i.epoch = pushTask'[p]
    <3>1. CASE p \in ps
      <4>1. Push(p, epoch[p] + 1) \in jobs'
        BY <2>1, <3>1
      <4> QED
        BY <2>1, <2>3, <3>1, <4>1
    <3>2. CASE p \notin ps
      <4>1. PICK i \in jobs : i.path = p /\ i.epoch = pushTask[p]
        BY <2>1, <2>9, <3>2 DEF Pushes
      <4>2. i \in jobs'
        BY <2>1, <3>2, <4>1 DEF Cancelled
      <4> QED
        BY <2>1, <3>2, <4>1, <4>2
    <3> QED
      BY <3>1, <3>2
  <2> QED
    BY <2>4, <2>7, <2>8, <2>9 DEF Pushes
<1> QED
  BY <1>1, <1>2

\* The pushes of these documents are cancelled and not replaced.
LEMMA PushesCancelled ==
  ASSUME Pushes, NEW ps \in SUBSET Paths, NEW e \in [Paths -> Nat],
         \A p \in Paths : e[p] >= epoch[p], epoch' = e,
         pushTask' = [p \in Paths |-> IF p \in ps THEN 0 ELSE pushTask[p]],
         jobs' = jobs \ Cancelled(ps)
  PROVE  Pushes'
<1>1. \A p \in Paths : /\ epoch[p] \in Nat /\ pushTask[p] \in Nat /\ pushTask[p] <= epoch[p]
                       /\ e[p] \in Nat
  BY DEF Pushes, PushTypes
<1>2. PushTypes' /\ \A p \in Paths : pushTask'[p] <= epoch'[p]
  <2>1. epoch' \in [Paths -> Nat] /\ pushTask' \in [Paths -> Nat] /\ jobs' \subseteq Jobs
    BY <1>1 DEF Pushes, PushTypes
  <2> QED
    BY <1>1, <2>1 DEF PushTypes
<1>3. \A i \in jobs' : i \in jobs /\ i.path \in Paths /\ ~(i.path \in ps /\ i.epoch > 0)
  BY DEF Pushes, PushTypes, Jobs, Cancelled
<1>4. ASSUME NEW p \in Paths, pushTask'[p] # 0
      PROVE  \E i \in jobs' : i.path = p /\ i.epoch = pushTask'[p]
  <2>1. p \notin ps /\ pushTask'[p] = pushTask[p]
    BY <1>4
  <2>2. PICK i \in jobs : i.path = p /\ i.epoch = pushTask[p]
    BY <1>4, <2>1 DEF Pushes
  <2>3. i \in jobs'
    BY <2>1, <2>2 DEF Cancelled
  <2> QED
    BY <2>1, <2>2, <2>3
<1> QED
  BY <1>2, <1>3, <1>4 DEF Pushes

TInv == DocumentTypes /\ ManagerTypes /\ EditTypes /\ ClientTypes /\ Pushes

LEMMA PushesStay == ASSUME TInv, Next PROVE Pushes'
<1>1. Pushes /\ PushTypes
  BY DEF TInv, Pushes
<1>2. ASSUME UNCHANGED <<epoch, pushTask, jobs>> PROVE Pushes'
  BY <1>1, <1>2 DEF Pushes, PushTypes
<1>3. ASSUME NEW j \in jobs, Diagnose(j) PROVE Pushes'
  <2>1. CASE TakeLock(j)
    <3>1. CASE EndJob(j)
      BY <1>1, <3>1, TaskEnds
    <3>2. CASE ~EndJob(j)
      <4> DEFINE pc == IF lock = NoJob /\ waiters = <<>> THEN "working" ELSE "waiting"
      <4>1. PICK k : k = [j EXCEPT !.text = snap.texts[j.path], !.pc = pc]
        OBVIOUS
      <4>2. /\ Loaded /\ jobs' = (jobs \ {j}) \cup {k} /\ UNCHANGED <<epoch, pushTask>>
        <5>1. Loaded /\ UNCHANGED <<epoch, pushTask>>
          BY <2>1, <3>2 DEF TakeLock
        <5>2. jobs' = (jobs \ {j}) \cup {[[j EXCEPT !.text = snap.texts[j.path]] EXCEPT !.pc = pc]}
          BY <2>1, <3>2 DEF TakeLock
        <5>3. k = [[j EXCEPT !.text = snap.texts[j.path]] EXCEPT !.pc = pc]
          BY <4>1
        <5> QED
          BY <5>1, <5>2, <5>3
      <4>3. snap.texts[j.path] \in Texts \cup {NoText} /\ j \in Jobs /\ pc \in JobPositions
        BY <1>1, <4>2 DEF TInv, ManagerTypes, Loaded, Snapshots, PushTypes, Jobs, JobPositions
      <4> HIDE DEF pc
      <4>4. k \in Jobs /\ Name(k) = Name(j)
        BY <4>1, <4>3 DEF Jobs, Name
      <4> QED
        BY <1>1, <4>2, <4>4, TaskGoesOn
    <3> QED
      BY <3>1, <3>2
  <2>2. CASE GetLock(j)
    <3>1. CASE EndJob(j)
      BY <1>1, <3>1, TaskEnds
    <3>2. CASE ~EndJob(j)
      <4>1. PICK k : k = [j EXCEPT !.pc = "working"]
        OBVIOUS
      <4>2. jobs' = (jobs \ {j}) \cup {k} /\ UNCHANGED <<epoch, pushTask>>
        BY <2>2, <3>2, <4>1 DEF GetLock, Moves
      <4>3. k \in Jobs /\ Name(k) = Name(j)
        BY <1>1, <4>1 DEF PushTypes, Jobs, JobPositions, Name
      <4> QED
        BY <1>1, <4>2, <4>3, TaskGoesOn
    <3> QED
      BY <3>1, <3>2
  <2>3. CASE Publish(j)
    BY <1>1, <2>3, TaskEnds DEF Publish
  <2> QED
    BY <1>3, <2>1, <2>2, <2>3 DEF Diagnose
<1>4. CASE WorkerDone
  <2> DEFINE Done(j) == IF j.pc = "working" THEN [j EXCEPT !.pc = "worked"] ELSE j
  <2>1. jobs' = {Done(j) : j \in jobs} /\ epoch' = epoch /\ pushTask' = pushTask
    BY <1>4 DEF WorkerDone
  <2>2. ASSUME NEW j \in jobs
        PROVE  Done(j) \in Jobs /\ Done(j).path = j.path /\ Done(j).epoch = j.epoch
    BY <1>1 DEF PushTypes, Jobs, JobPositions
  <2>3. \A i, j \in jobs : i.path = j.path /\ i.epoch = j.epoch => i = j
    BY <1>1 DEF Pushes, Name
  <2> HIDE DEF Done
  <2>4. PushTypes' /\ \A p \in Paths : pushTask'[p] <= epoch'[p]
    BY <1>1, <2>1, <2>2 DEF PushTypes, Pushes
  <2>5. \A i, j \in jobs' : i.path = j.path /\ i.epoch = j.epoch => i = j
    BY <2>1, <2>2, <2>3
  <2>6. \A j \in jobs' : j.epoch > 0 => j.epoch = pushTask'[j.path]
    BY <1>1, <2>1, <2>2 DEF Pushes
  <2>7. ASSUME NEW p \in Paths, pushTask'[p] # 0
        PROVE  \E j \in jobs' : j.path = p /\ j.epoch = pushTask'[p]
    <3>1. PICK j \in jobs : j.path = p /\ j.epoch = pushTask[p]
      BY <1>1, <2>1, <2>7 DEF Pushes
    <3>2. Done(j) \in jobs'
      BY <2>1
    <3> QED
      BY <2>1, <2>2, <3>1, <3>2
  <2> QED
    BY <2>4, <2>5, <2>6, <2>7 DEF Pushes, Name
<1>5. CASE FinishEdit
  <2>1. edit \in Edits
    BY <1>5 DEF FinishEdit, TInv, EditTypes
  <2>2. edit.path \in Paths /\ edit.kind \in {"open", "change", "close"}
    BY <2>1 DEF Edits
  <2>3. CASE SchedulePublish({edit.path}) \/ SchedulePublish({edit.path} \cap openDocs)
    BY <1>1, <2>2, <2>3, PushesScheduled
  <2>4. CASE Forget(edit.path)
    <3>1. PICK e : e = [epoch EXCEPT ![edit.path] = @ + 1]
      OBVIOUS
    <3>2. e \in [Paths -> Nat] /\ \A p \in Paths : e[p] >= epoch[p]
      BY <1>1, <2>2, <3>1 DEF PushTypes
    <3>3. /\ epoch' = e /\ jobs' = jobs \ Cancelled({edit.path})
          /\ pushTask' = [p \in Paths |-> IF p \in {edit.path} THEN 0 ELSE pushTask[p]]
      BY <1>1, <2>4, <3>1 DEF Forget, PushTypes
    <3> QED
      BY <1>1, <2>2, <3>2, <3>3, PushesCancelled
  <2> QED
    BY <1>2, <1>5, <2>2, <2>3, <2>4 DEF FinishEdit, ListOpen, pushes
<1>6. CASE RefreshReturns \/ \E p \in Paths : ResumeOpen(p) \/ DidSave(p)
  <2>1. CASE RefreshReturns
    BY <1>1, <2>1, PushesScheduled DEF RefreshReturns, TInv, ClientTypes
  <2>2. ASSUME NEW p \in Paths, ResumeOpen(p) \/ DidSave(p) PROVE Pushes'
    <3>1. SchedulePublish({p}) \/ SchedulePublish({p} \cap openDocs)
      BY <2>2 DEF ResumeOpen, DidSave, ListOpen
    <3> QED
      BY <1>1, <3>1, PushesScheduled
  <2> QED
    BY <1>6, <2>1, <2>2
<1>7. ASSUME NEW p \in Paths, Pull(p) PROVE Pushes'
  <2>1. /\ jobs' = jobs \cup {Push(p, 0)} /\ UNCHANGED <<epoch, pushTask>>
        /\ \A j \in jobs : Name(j) # <<p, 0>>
    BY <1>7 DEF Pull
  <2>2. Push(p, 0) \in Jobs /\ Push(p, 0).path = p /\ Push(p, 0).epoch = 0
    BY DEF Push, Jobs, JobPositions
  <2> QED
    BY <1>1, <2>1, <2>2 DEF Pushes, PushTypes, Name
<1>8. ASSUME NEW p \in Paths, CancelPull(p) PROVE Pushes'
  <2>1. PICK j \in jobs : Name(j) = <<p, 0>> /\ jobs' = jobs \ {j}
    BY <1>8 DEF CancelPull
  <2>2. j.epoch = 0 /\ UNCHANGED <<epoch, pushTask>>
    BY <1>8, <2>1 DEF CancelPull, Name
  <2>3. ASSUME NEW q \in Paths, pushTask'[q] # 0
        PROVE  \E i \in jobs' : i.path = q /\ i.epoch = pushTask'[q]
    BY <1>1, <2>1, <2>2, <2>3 DEF Pushes
  <2> QED
    BY <1>1, <2>1, <2>2, <2>3 DEF Pushes, PushTypes
<1>9. CASE Shutdown
  <2>1. pushTask' = [p \in Paths |-> IF p \in Paths THEN 0 ELSE pushTask[p]]
        /\ epoch' = epoch /\ jobs' = jobs \ Cancelled(Paths)
    BY <1>9 DEF Shutdown
  <2>2. \A p \in Paths : epoch[p] >= epoch[p]
    BY <1>1 DEF PushTypes
  <2> QED
    BY <1>1, <2>1, <2>2, PushesCancelled DEF PushTypes
<1>10. ASSUME \/ \E k \in Threads : ThreadStep(k) \/ Return(k) \/ Command(k)
              \/ RefreshWakes \/ RefreshFailed \/ RefreshRaises \/ Initialize \/ ReportChanges
              \/ \E p \in Paths : \/ \E kind \in {"open", "change", "close"} : BeginEdit(kind, p)
                                  \/ WriteFile(p)
       PROVE  UNCHANGED <<epoch, pushTask, jobs>>
  BY <1>10 DEF ThreadStep, Read, CommitLoad, CommitPublication, Return, Command, RefreshWakes,
               RefreshFailed, RefreshRaises, Initialize, ReportChanges, BeginEdit, WriteFile, pushes
<1> QED
  BY <1>2, <1>3, <1>4, <1>5, <1>6, <1>7, <1>8, <1>9, <1>10 DEF Next, RefreshStep

--------------------------------------------------------------------------------
(* Types stay                                                                 *)

LEMMA DocumentsStay == ASSUME TInv, Next PROVE DocumentTypes'
<1>1. DocumentTypes
  BY DEF TInv
<1>2. ASSUME NEW p \in Paths, NEW kind \in {"open", "change", "close"}, BeginEdit(kind, p)
      PROVE  DocumentTypes'
  <2>1. UNCHANGED <<disk, writes>> /\ (Edit(p, NoVersion) \/ CloseOverlay(p))
    BY <1>2 DEF BeginEdit, bounds
  <2>2. [text |-> <<"edit", docRev + 1>>, version |-> NoVersion] \in Overlays /\ Unopened \in Overlays
    BY <1>1 DEF DocumentTypes, Overlays, Texts, Unopened
  <2>3. docs' \in [Paths -> Overlays] /\ docRev' = docRev + 1
    BY <1>1, <2>1, <2>2 DEF DocumentTypes, Edit, CloseOverlay
  <2> QED
    BY <1>1, <2>1, <2>3 DEF DocumentTypes
<1>3. ASSUME NEW p \in Paths, WriteFile(p) PROVE DocumentTypes'
  <2>1. <<"disk", writes + 1>> \in Texts
    BY <1>1 DEF DocumentTypes, Texts
  <2>2. /\ disk' = [disk EXCEPT ![p] = <<"disk", writes + 1>>] /\ writes' = writes + 1
        /\ UNCHANGED documents
    BY <1>3 DEF WriteFile
  <2> QED
    BY <1>1, <2>1, <2>2 DEF DocumentTypes, TextMaps, documents
<1>4. ASSUME \/ \E k \in Threads : ThreadStep(k) \/ Return(k) \/ Command(k)
             \/ RefreshStep \/ RefreshRaises \/ Initialize \/ ReportChanges \/ Shutdown
             \/ \E p \in Paths : ResumeOpen(p) \/ DidSave(p) \/ Pull(p) \/ CancelPull(p)
             \/ \E j \in jobs : Diagnose(j)
             \/ WorkerDone \/ FinishEdit
      PROVE  UNCHANGED <<docs, docRev, disk, writes>>
  BY <1>4 DEF ThreadStep, Read, CommitLoad, CommitPublication, Return, Command, RefreshStep,
              RefreshWakes, RefreshReturns, RefreshFailed, RefreshRaises, Initialize,
              ReportChanges, Shutdown, ResumeOpen, DidSave, Pull, CancelPull, Diagnose, TakeLock,
              GetLock, Publish, WorkerDone, FinishEdit, documents, bounds
<1> QED
  BY <1>1, <1>2, <1>3, <1>4 DEF Next, DocumentTypes

\* A thread that goes on has a state of its kind.
LEMMA ThreadTypes ==
  ASSUME ManagerTypes, NEW k \in Threads
  PROVE  /\ thread' = Started(k) => thread' \in [Threads -> ThreadStates]
         /\ thread' = [thread EXCEPT ![k] = NoThread] => thread' \in [Threads -> ThreadStates]
         /\ \A pc \in ThreadPositions : Goes(k, pc) => thread' \in [Threads -> ThreadStates]
<1>1. NoThread \in ThreadStates /\ [NoThread EXCEPT !.pc = "begun"] \in ThreadStates
  <2>1. NoTexts \in TextMaps
    BY DEF NoTexts, TextMaps
  <2> QED
    BY <2>1 DEF NoThread, ThreadStates, ThreadPositions
<1>2. \A pc \in ThreadPositions : [thread[k] EXCEPT !.pc = pc] \in ThreadStates
  BY DEF ManagerTypes, ThreadStates
<1> QED
  BY <1>1, <1>2 DEF ManagerTypes, Started, Goes

LEMMA CurrentTypes == ASSUME DocumentTypes PROVE CurrentTexts \in TextMaps
BY DEF CurrentTexts, TextMaps, DocumentTypes, Overlays

\* What a thread or an edit publishes is a snapshot.
LEMMA ThreadPublished ==
  ASSUME ManagerTypes, NEW k \in Threads, CommitLoad(k) \/ CommitPublication(k)
  PROVE  snap' = snap \/ snap' \in Snapshots
<1>1. [texts |-> thread[k].texts, rev |-> thread[k].rev] \in Snapshots
  BY DEF ManagerTypes, ThreadStates, TextMaps, Snapshots
<1> QED
  BY <1>1 DEF CommitLoad, CommitPublication

LEMMA EditPublished == ASSUME TInv, FinishEdit PROVE snap' = snap \/ snap' \in Snapshots
<1>1. edit \in Edits /\ DocumentTypes
  BY DEF TInv, FinishEdit, EditTypes
<1> DEFINE texts == [edit.base.texts EXCEPT ![edit.path] = CurrentTexts[edit.path]]
<1>2. CASE snap' # snap
  <2>1. snap' = [texts |-> texts, rev |-> docRev] /\ edit.base # NoSnapshot
    BY <1>2 DEF FinishEdit, PublishEdit
  <2>2. edit.base.texts \in TextMaps /\ edit.path \in Paths
    BY <1>1, <2>1 DEF Edits, Snapshots, TextMaps
  <2>3. texts \in TextMaps
    BY <1>1, <2>2, CurrentTypes DEF TextMaps
  <2> HIDE DEF texts
  <2> QED
    BY <1>1, <2>1, <2>3 DEF Snapshots, TextMaps, DocumentTypes
<1> QED
  BY <1>2

LEMMA ManagerStays == ASSUME TInv, Next PROVE ManagerTypes'
<1>1. ManagerTypes /\ DocumentTypes /\ EditTypes /\ Purposes \subseteq Threads
  BY DEF TInv, Threads
<1>2. CurrentTexts \in TextMaps
  BY <1>1, CurrentTypes
<1>3. ASSUME NEW k \in Threads, Read(k) PROVE ManagerTypes'
  <2> DEFINE g == IF k \in Loads /\ thread[k].pc = "begun" THEN generation + 1 ELSE generation
             m == [pc |-> IF thread[k].pc = "begun" THEN "read" ELSE "reread",
                   gen |-> g, texts |-> CurrentTexts, rev |-> docRev]
  <2>1. g \in Nat
    BY <1>1 DEF ManagerTypes
  <2>2. generation' = g /\ snap' = snap /\ thread' = [thread EXCEPT ![k] = m]
    BY <1>3 DEF Read
  <2> HIDE DEF g
  <2>3. m \in ThreadStates
    BY <1>1, <1>2, <2>1 DEF ThreadStates, ThreadPositions, DocumentTypes
  <2> HIDE DEF m
  <2> QED
    BY <1>1, <2>1, <2>2, <2>3 DEF ManagerTypes
<1>4. ASSUME NEW k \in Threads, CommitLoad(k) \/ CommitPublication(k) PROVE ManagerTypes'
  <2>1. generation' = generation /\ \E pc \in ThreadPositions : Goes(k, pc)
    BY <1>4 DEF CommitLoad, CommitPublication, ThreadPositions
  <2> QED
    BY <1>1, <1>4, <2>1, ThreadTypes, ThreadPublished DEF ManagerTypes
<1>5. ASSUME NEW k \in Threads,
             thread' = Started(k) \/ thread' = [thread EXCEPT ![k] = NoThread] \/ Goes(k, "failed"),
             UNCHANGED <<snap, generation>>
      PROVE  ManagerTypes'
  BY <1>1, <1>5, ThreadTypes DEF ManagerTypes, ThreadPositions
<1>6. ASSUME NEW k \in Threads, Return(k) \/ Command(k) PROVE ManagerTypes'
  BY <1>5, <1>6 DEF Return, Command, manager
<1>7. CASE RefreshRaises \/ RefreshReturns \/ RefreshFailed \/ Initialize
  BY <1>1, <1>5, <1>7 DEF RefreshRaises, RefreshReturns, RefreshFailed, Initialize, manager, Purposes
<1>8. CASE RefreshWakes
  BY <1>1, <1>5, <1>8 DEF RefreshWakes, manager, Purposes, ManagerTypes
<1>9. ASSUME NEW p \in Paths, ResumeOpen(p) PROVE ManagerTypes'
  BY <1>5, <1>9 DEF ResumeOpen, manager, Threads
<1>10. CASE FinishEdit
  <2>1. edit \in Edits
    BY <1>1, <1>10 DEF FinishEdit, EditTypes
  <2>2. edit.path \in Threads /\ edit.path \in Paths /\ generation' = generation
    BY <1>10, <2>1 DEF Edits, Threads, FinishEdit
  <2>3. snap' \in Snapshots \cup {NoSnapshot}
    BY <1>1, <1>10, EditPublished DEF ManagerTypes
  <2>4. thread' = thread \/ thread' = Started(edit.path)
    <3>1. edit.kind \in {"open", "change", "close"}
      BY <2>1 DEF Edits
    <3> QED
      BY <1>10, <3>1 DEF FinishEdit
  <2> QED
    BY <1>1, <2>2, <2>3, <2>4, ThreadTypes DEF ManagerTypes
<1>11. CASE Shutdown
  BY <1>1, <1>11 DEF Shutdown, ManagerTypes
<1>12. ASSUME \/ \E j \in jobs : Diagnose(j)
              \/ WorkerDone \/ ReportChanges
              \/ \E p \in Paths : \/ \E kind \in {"open", "change", "close"} : BeginEdit(kind, p)
                                  \/ DidSave(p) \/ Pull(p) \/ CancelPull(p) \/ WriteFile(p)
       PROVE  UNCHANGED <<snap, generation, thread>>
  BY <1>12 DEF Diagnose, TakeLock, GetLock, Publish, WorkerDone, ReportChanges, BeginEdit, DidSave,
               Pull, CancelPull, WriteFile, manager
<1> QED
  BY <1>1, <1>3, <1>4, <1>6, <1>7, <1>8, <1>9, <1>10, <1>11, <1>12
     DEF Next, RefreshStep, ThreadStep, ManagerTypes

LEMMA ClientsStay == ASSUME TInv, Next PROVE EditTypes' /\ ClientTypes'
<1>1. EditTypes /\ ClientTypes /\ ManagerTypes /\ Pushes
  BY DEF TInv
<1>2. ASSUME NEW p \in Paths, NEW kind \in {"open", "change", "close"}, BeginEdit(kind, p)
      PROVE  EditTypes' /\ ClientTypes'
  <2>1. edit' \in Edits
    BY <1>1, <1>2 DEF BeginEdit, Edits, ManagerTypes
  <2>2. editorOpen' \subseteq Paths /\ shown' \in TextMaps
    <3>1. editorOpen' \in {editorOpen, editorOpen \cup {p}, editorOpen \ {p}}
      BY <1>2 DEF BeginEdit
    <3>2. shown' \in {shown, [shown EXCEPT ![p] = NoText]}
      BY <1>2 DEF BeginEdit
    <3> QED
      BY <1>1, <3>1, <3>2 DEF ClientTypes, TextMaps
  <2>3. UNCHANGED <<openDocs, refresh>>
    BY <1>2 DEF BeginEdit, refreshing
  <2> QED
    BY <1>1, <2>1, <2>2, <2>3 DEF EditTypes, ClientTypes
<1>3. CASE FinishEdit
  <2>1. edit.path \in Paths /\ edit.kind \in {"open", "change", "close"}
    BY <1>1, <1>3 DEF FinishEdit, EditTypes, Edits
  <2>2. edit' = NoEdit /\ UNCHANGED <<editorOpen, shown, refresh>>
    BY <1>3 DEF FinishEdit, client, refreshing
  <2>3. openDocs' \in {openDocs, openDocs \cup {edit.path}, openDocs \ {edit.path}}
    BY <1>3, <2>1 DEF FinishEdit, ListOpen, Forget
  <2> QED
    BY <1>1, <2>1, <2>2, <2>3 DEF EditTypes, ClientTypes
<1>4. ASSUME NEW p \in Paths, ResumeOpen(p) PROVE EditTypes' /\ ClientTypes'
  BY <1>1, <1>4 DEF ResumeOpen, ListOpen, EditTypes, ClientTypes, client, refreshing
<1>5. ASSUME NEW j \in jobs, Diagnose(j) PROVE EditTypes' /\ ClientTypes'
  <2>1. j.path \in Paths /\ j.text \in Texts \cup {NoText}
    BY <1>1 DEF Pushes, PushTypes, Jobs
  <2>2. UNCHANGED <<edit, openDocs, editorOpen, refresh>>
        /\ shown' \in {shown, [shown EXCEPT ![j.path] = j.text]}
    BY <1>5 DEF Diagnose, TakeLock, GetLock, Publish, client, refreshing
  <2> QED
    BY <1>1, <2>1, <2>2 DEF EditTypes, ClientTypes, TextMaps
<1>6. CASE RefreshStep \/ ReportChanges \/ Shutdown
  <2>1. UNCHANGED <<edit, openDocs, editorOpen, shown>>
    BY <1>6 DEF RefreshStep, RefreshWakes, RefreshReturns, RefreshFailed, ReportChanges, Shutdown, client
  <2>2. refresh' \in {"none", "sleeping", "refreshing"}
    BY <1>1, <1>6 DEF RefreshStep, RefreshWakes, RefreshReturns, RefreshFailed, Again, ReportChanges,
       WatchedFiles, Shutdown, refreshing, ClientTypes
  <2> QED
    BY <1>1, <2>1, <2>2 DEF EditTypes, ClientTypes
<1>7. ASSUME \/ \E k \in Threads : ThreadStep(k) \/ Return(k) \/ Command(k)
             \/ RefreshRaises \/ Initialize \/ WorkerDone
             \/ \E p \in Paths : DidSave(p) \/ Pull(p) \/ CancelPull(p) \/ WriteFile(p)
      PROVE  UNCHANGED <<edit, openDocs, editorOpen, shown, refresh>>
  BY <1>7 DEF ThreadStep, Read, CommitLoad, CommitPublication, Return, Command, RefreshRaises,
              Initialize, WorkerDone, DidSave, Pull, CancelPull, WriteFile, client, refreshing
<1> QED
  BY <1>1, <1>2, <1>3, <1>4, <1>5, <1>6, <1>7 DEF Next, EditTypes, ClientTypes

LEMMA TypesStay == TInv /\ [Next]_vars => TInv'
<1> SUFFICES ASSUME TInv, [Next]_vars PROVE TInv'
  OBVIOUS
<1>1. CASE Next
  BY <1>1, DocumentsStay, ManagerStays, ClientsStay, PushesStay DEF TInv
<1>2. CASE UNCHANGED vars
  BY <1>2 DEF vars, TInv, DocumentTypes, ManagerTypes, EditTypes, ClientTypes, Pushes, PushTypes
<1> QED
  BY <1>1, <1>2

LEMMA InitTypes == Init => TInv
<1> SUFFICES ASSUME Init PROVE TInv
  OBVIOUS
<1>1. DocumentTypes
  BY DEF Init, DocumentsInit, DocumentTypes, Overlays, Unopened, TextMaps, Texts
<1>2. ManagerTypes
  <2>1. NoThread \in ThreadStates
    BY DEF NoThread, ThreadStates, ThreadPositions, NoTexts, TextMaps
  <2> QED
    BY <2>1 DEF Init, ManagerTypes
<1>3. EditTypes /\ ClientTypes /\ Pushes
  BY DEF Init, EditTypes, ClientTypes, Pushes, PushTypes, TextMaps
<1> QED
  BY <1>1, <1>2, <1>3 DEF TInv

LEMMA TypesInvariance == Spec => []TInv
BY InitTypes, TypesStay, PTL DEF Spec

\* The snapshot, the threads, the diagnostic tasks and the lists of LspHandler keep
\* to their kinds, and no task of _publish_tasks is ahead of its document's epoch.
THEOREM TypeCorrect == Spec => []TypeOK
<1>1. TInv => TypeOK
  BY DEF TInv, ManagerTypes, EditTypes, Edits, ClientTypes, Pushes, PushTypes, TypeOK,
         ThreadStates, ThreadPositions, Jobs, JobPositions, TextMaps
<1> QED
  BY <1>1, TypesInvariance, PTL

\* _publish_tasks holds, for each document, the one live push that may still be
\* sent (_schedule_publish, _publish_document): however edits, refreshes, closes and
\* pushes that end interleave, a document has at most one push under way, and it is
\* the one that the next change cancels.
THEOREM OnePushEach == Spec => []OnePush
<1>1. TInv => OnePush
  <2> SUFFICES ASSUME TInv, NEW p \in Paths
               PROVE  {j.epoch : j \in {i \in jobs : i.path = p /\ i.epoch > 0}} =
                         (IF pushTask[p] = 0 THEN {} ELSE {pushTask[p]})
    BY DEF OnePush
  <2>1. \A j \in jobs : j.epoch > 0 => j.epoch = pushTask[j.path]
    BY DEF TInv, Pushes
  <2>2. pushTask[p] # 0 => \E j \in jobs : j.path = p /\ j.epoch = pushTask[p]
    BY DEF TInv, Pushes
  <2>3. pushTask[p] \in Nat
    BY DEF TInv, Pushes, PushTypes
  <2>4. CASE pushTask[p] = 0
    BY <2>1, <2>4
  <2>5. CASE pushTask[p] # 0
    <3>1. PICK j \in jobs : j.path = p /\ j.epoch = pushTask[p]
      BY <2>2, <2>5
    <3>2. j \in {i \in jobs : i.path = p /\ i.epoch > 0}
      BY <2>3, <2>5, <3>1
    <3> QED
      BY <2>1, <2>5, <3>1, <3>2
  <2> QED
    BY <2>4, <2>5
<1> QED
  BY <1>1, TypesInvariance, PTL

--------------------------------------------------------------------------------
(* The promise to a client that waits for the answer to initialize            *)

\* The manager is loaded from the answer to shutdown, so that no document waits
\* for a load of its own, and the documents the handler lists are those the
\* editor has open, but for one whose close is being handled.
Closing == IF edit # NoEdit /\ edit.kind = "close" THEN {edit.path} ELSE {}

Waiting ==
    /\ \A p \in Paths : thread[p].pc = "none"
    /\ ~Answered => ~closed /\ ~shutdown /\ edit = NoEdit /\ thread["folders"].pc = "none"
    /\ thread["initialize"].pc = "read" => thread["initialize"].gen = generation
    /\ thread["initialize"].pc \in {"republish", "reread", "done"} => Loaded
    /\ Answered /\ ~shutdown => Loaded
    /\ edit # NoEdit => ~shutdown
    /\ edit # NoEdit /\ edit.kind = "open" => edit.path \in editorOpen
    /\ openDocs \subseteq editorOpen \cup Closing

\* What it shows, as a document of DocumentDiagnostics.
Promise == INSTANCE DocumentDiagnostics WITH
    open <- editorOpen, text <- [p \in Paths |-> ShownText(p)], shown <- shown

\* What the threads do to the manager.
LEMMA ThreadsWait == ASSUME TInv, Waiting, NEW k \in Threads, ThreadStep(k) PROVE Waiting'
<1>1. /\ thread \in [Threads -> ThreadStates] /\ generation \in Nat /\ ManagerTypes
      /\ Purposes \subseteq Threads /\ Paths \subseteq Threads /\ Purposes \cap Paths = {}
  BY LspHandlerAssumption DEF TInv, ManagerTypes, Threads
<1>2. k \in Purposes
  <2>1. thread[k].pc # "none"
    BY DEF ThreadStep, Read, CommitLoad, CommitPublication
  <2> QED
    BY <2>1 DEF Waiting, Threads
<1>3. /\ UNCHANGED <<shutdown, edit, openDocs, editorOpen>>
      /\ \A h \in Threads : h # k => thread'[h] = thread[h]
  BY <1>1 DEF ThreadStep, Read, CommitLoad, CommitPublication, Goes, client
<1>4. \A p \in Paths : thread'[p].pc = "none"
  BY <1>1, <1>2, <1>3 DEF Waiting
<1>5. Closing' = Closing
  BY <1>3 DEF Closing
<1>6. CASE Read(k)
  <2> DEFINE begun == k \in Loads /\ thread[k].pc = "begun"
             g == IF begun THEN generation + 1 ELSE generation
  <2>1. snap' = snap /\ generation' = g /\ (~closed => ~closed')
    BY <1>6 DEF Read
  <2>2. thread[k].pc \in {"begun", "republish"} /\ thread'[k].gen = g
        /\ thread'[k].pc = IF thread[k].pc = "begun" THEN "read" ELSE "reread"
    BY <1>1, <1>6 DEF Read
  <2>3. CASE k = "initialize"
    <3>1. ~Answered /\ ~Answered'
      BY <2>2, <2>3 DEF Answered
    <3>2. thread'["folders"] = thread["folders"]
      BY <1>1, <1>3, <2>3 DEF Purposes
    <3>3. thread'["initialize"].pc = "read" => thread'["initialize"].gen = generation'
      BY <2>1, <2>2, <2>3
    <3>4. thread'["initialize"].pc # "read" => Loaded'
      BY <2>1, <2>2, <2>3 DEF Waiting, Loaded
    <3> QED
      BY <1>3, <1>4, <1>5, <2>1, <2>2, <2>3, <3>1, <3>2, <3>3, <3>4 DEF Waiting
  <2>4. CASE k # "initialize"
    <3>1. thread'["initialize"] = thread["initialize"]
      BY <1>1, <1>3, <2>4 DEF Purposes
    <3>2. ~Answered => ~begun /\ k # "folders"
      BY <1>2, <2>2, <2>4 DEF Waiting, Purposes, Loads
    <3>3. Answered' <=> Answered
      BY <1>1, <2>1, <3>1, <3>2 DEF Answered
    <3>4. ~Answered => generation' = generation /\ thread'["folders"] = thread["folders"]
      BY <1>1, <1>3, <2>1, <3>2 DEF Purposes
    <3>5. thread["initialize"].pc = "read" => ~Answered
      BY DEF Answered
    <3> QED
      BY <1>3, <1>4, <1>5, <2>1, <3>1, <3>3, <3>4, <3>5 DEF Waiting, Loaded
  <2> QED
    BY <2>3, <2>4
<1>7. CASE CommitLoad(k) \/ CommitPublication(k)
  <2>1. generation' = generation /\ closed' = closed
    BY <1>7 DEF CommitLoad, CommitPublication
  <2>2. Loaded => Loaded'
    BY <1>1, <1>7, ThreadPublished, LspHandlerAssumption DEF Loaded
  <2>3. CASE k = "initialize"
    <3>1. thread[k].pc \in {"read", "reread"} /\ thread'[k].pc \in {"done", "republish"}
      BY <1>1, <1>7, <2>3 DEF CommitLoad, CommitPublication, Goes, ThreadStates
    <3>2. ~Answered /\ ~Answered'
      BY <2>3, <3>1 DEF Answered
    <3>3. thread'["folders"] = thread["folders"]
      BY <1>1, <1>3, <2>3 DEF Purposes
    <3>4. Loaded'
      <4>1. CASE thread[k].pc = "reread"
        BY <2>2, <2>3, <4>1 DEF Waiting
      <4>2. CASE thread[k].pc = "read"
        <5>1. CommitLoad(k) /\ ~Overtaken(k)
          BY <1>7, <2>3, <3>2, <4>2 DEF Waiting, Overtaken, CommitPublication
        <5>2. snap' = [texts |-> thread[k].texts, rev |-> thread[k].rev]
          BY <5>1 DEF CommitLoad
        <5>3. snap' \in Snapshots
          BY <1>1, <5>2 DEF ThreadStates, TextMaps, Snapshots
        <5> QED
          BY <5>3, LspHandlerAssumption DEF Loaded
      <4> QED
        BY <3>1, <4>1, <4>2
    <3> QED
      BY <1>3, <1>4, <1>5, <2>1, <2>3, <3>1, <3>2, <3>3, <3>4 DEF Waiting
  <2>4. CASE k # "initialize"
    <3>1. thread'["initialize"] = thread["initialize"]
      BY <1>1, <1>3, <2>4 DEF Purposes
    <3>2. Answered' <=> Answered
      BY <2>1, <3>1 DEF Answered
    <3>3. ~Answered => thread'["folders"] = thread["folders"]
      <4>1. thread[k].pc # "none"
        BY <1>7 DEF CommitLoad, CommitPublication
      <4> QED
        BY <1>1, <1>3, <4>1 DEF Waiting, Purposes
    <3> QED
      BY <1>3, <1>4, <1>5, <2>1, <2>2, <3>1, <3>2, <3>3 DEF Waiting
  <2> QED
    BY <2>3, <2>4
<1> QED
  BY <1>6, <1>7 DEF ThreadStep

LEMMA WaitingStays == ASSUME ~EarlyClient PROVE TInv /\ Waiting /\ [Next]_vars => Waiting'
<1> SUFFICES ASSUME TInv, Waiting, [Next]_vars PROVE Waiting'
  OBVIOUS
<1>1. /\ thread \in [Threads -> ThreadStates] /\ generation \in Nat /\ EditTypes
      /\ Purposes \subseteq Threads /\ Paths \subseteq Threads /\ Purposes \cap Paths = {}
  BY LspHandlerAssumption DEF TInv, ManagerTypes, Threads
<1>2. MaySend => LoopIdle /\ ~shutdown /\ Answered /\ Loaded
  BY DEF MaySend, Waiting
<1>3. ASSUME UNCHANGED <<thread, snap, generation, closed, shutdown, edit, openDocs, editorOpen>>
      PROVE  Waiting'
  BY <1>3 DEF Waiting, Answered, Loaded, Closing
\* Handlers that start a thread, or return from one.
<1>4. ASSUME NEW k \in {"folders", "analysis", "refresh"},
             k = "folders" => Answered,
             \A h \in Threads : h # k => thread'[h] = thread[h],
             UNCHANGED <<snap, generation, closed, shutdown, edit, openDocs, editorOpen>>
      PROVE  Waiting'
  <2>1. thread'["initialize"] = thread["initialize"] /\ \A p \in Paths : thread'[p] = thread[p]
    BY <1>1, <1>4 DEF Purposes
  <2>2. Answered' = Answered
    BY <1>4, <2>1 DEF Answered
  <2>3. ~Answered => thread'["folders"] = thread["folders"]
    BY <1>1, <1>4 DEF Purposes
  <2> QED
    BY <1>4, <2>1, <2>2, <2>3 DEF Waiting, Loaded, Closing
<1>5. CASE Initialize
  <2>1. /\ thread' = Started("initialize") /\ generation = 0 /\ ~Answered
        /\ UNCHANGED <<snap, generation, closed, shutdown, edit, openDocs, editorOpen>>
    BY <1>5 DEF Initialize, Answered, manager, client
  <2>2. thread'["initialize"].pc = "begun"
    BY <1>1, <2>1 DEF Started, NoThread, Purposes
  <2>3. /\ \A p \in Paths : thread'[p] = thread[p]
        /\ thread'["folders"] = thread["folders"]
    BY <1>1, <2>1 DEF Started, Purposes
  <2>4. ~Answered'
    BY <2>2 DEF Answered
  <2> QED
    BY <2>1, <2>2, <2>3, <2>4 DEF Waiting, Loaded, Closing
<1>6. ASSUME NEW k \in Threads, Return(k) PROVE Waiting'
  <2>1. /\ k \in Purposes /\ k # "refresh" /\ thread[k].pc = "done"
        /\ thread' = [thread EXCEPT ![k] = NoThread]
        /\ UNCHANGED <<snap, generation, closed, shutdown, edit, openDocs, editorOpen>>
    BY <1>6 DEF Return, manager, client, Purposes
  <2>2. CASE k = "initialize"
    <3>1. ~Answered /\ Loaded
      BY <2>1, <2>2 DEF Answered, Waiting
    <3>2. /\ thread'["initialize"].pc = "none" /\ thread'["folders"] = thread["folders"]
          /\ \A p \in Paths : thread'[p] = thread[p]
      BY <1>1, <2>1, <2>2 DEF NoThread, Purposes
    <3> QED
      BY <2>1, <3>1, <3>2 DEF Waiting, Loaded, Closing
  <2>3. CASE k # "initialize"
    <3>1. k = "folders" => Answered
      BY <2>1 DEF Waiting
    <3> QED
      BY <1>1, <1>4, <2>1, <2>3, <3>1 DEF Purposes
  <2> QED
    BY <2>2, <2>3
<1>7. ASSUME NEW k \in Threads, Command(k) PROVE Waiting'
  <2>1. /\ Answered /\ k \in {"folders", "analysis"} /\ thread' = Started(k)
        /\ UNCHANGED <<snap, generation, closed, shutdown, edit, openDocs, editorOpen>>
    BY <1>2, <1>7, LspHandlerAssumption DEF Command, manager, client
  <2> QED
    BY <1>1, <1>4, <2>1 DEF Started
<1>8. CASE RefreshStep \/ RefreshRaises
  <2>1. /\ \A h \in Threads : h # "refresh" => thread'[h] = thread[h]
        /\ UNCHANGED <<snap, generation, closed, shutdown, edit, openDocs, editorOpen>>
    BY <1>1, <1>8 DEF RefreshStep, RefreshWakes, RefreshReturns, RefreshFailed, RefreshRaises,
       Started, Goes, manager, client
  <2> QED
    BY <1>4, <2>1
<1>9. ASSUME NEW p \in Paths, NEW kind \in {"open", "change", "close"}, BeginEdit(kind, p)
      PROVE  Waiting'
  <2>1. /\ edit = NoEdit /\ ~shutdown /\ Answered /\ Loaded
        /\ UNCHANGED <<thread, snap, generation, closed, shutdown, openDocs>>
    BY <1>2, <1>9 DEF BeginEdit, LoopIdle, manager
  <2>2. edit' \in Edits /\ edit'.path = p /\ edit'.kind = kind
    BY <1>1, <1>9 DEF BeginEdit, Edits, TInv, ManagerTypes
  <2>3. editorOpen' = IF kind = "open" THEN editorOpen \cup {p}
                      ELSE IF kind = "close" THEN editorOpen \ {p} ELSE editorOpen
    BY <1>9 DEF BeginEdit
  <2>4. edit' # NoEdit
    BY <2>2, LspHandlerAssumption
  <2>5. openDocs' \subseteq (editorOpen \cup Closing)'
    BY <2>1, <2>2, <2>3, <2>4 DEF Waiting, Closing
  <2> QED
    BY <2>1, <2>2, <2>3, <2>4, <2>5 DEF Waiting, Answered, Loaded
<1>10. CASE FinishEdit
  <2>1. edit # NoEdit /\ ~shutdown /\ Answered /\ Loaded
    BY <1>10 DEF FinishEdit, Waiting
  <2>2. edit.kind \in {"open", "change", "close"} /\ edit' = NoEdit /\ Closing' = {}
    BY <1>1, <1>10, <2>1 DEF EditTypes, Edits, FinishEdit, Closing
  <2>3. UNCHANGED <<thread, generation, closed, shutdown, editorOpen>>
    BY <1>10, <2>1, <2>2 DEF FinishEdit, client
  <2>4. Loaded'
    BY <1>10, <2>1, EditPublished, LspHandlerAssumption DEF Loaded
  <2>5. openDocs' = IF edit.kind = "open" THEN openDocs \cup {edit.path}
                    ELSE IF edit.kind = "close" THEN openDocs \ {edit.path} ELSE openDocs
    BY <1>10, <2>1, <2>2 DEF FinishEdit, ListOpen, Forget
  <2>6. openDocs' \subseteq editorOpen'
    BY <2>1, <2>2, <2>3, <2>5 DEF Waiting, Closing
  <2> QED
    BY <2>1, <2>2, <2>3, <2>4, <2>6 DEF Waiting, Answered
<1>11. ASSUME NEW p \in Paths, ResumeOpen(p) PROVE Waiting'
  BY <1>11 DEF ResumeOpen, Waiting
<1>12. CASE Shutdown
  <2>1. /\ Answered /\ edit = NoEdit /\ generation' = generation + 1 /\ shutdown' = TRUE
        /\ UNCHANGED <<thread, edit, openDocs, editorOpen>>
    BY <1>2, <1>12 DEF Shutdown, LoopIdle, client
  <2>2. Answered'
    BY <1>1, <2>1 DEF Answered
  <2>3. thread["initialize"].pc = "none"
    BY <2>1 DEF Answered
  <2> QED
    BY <2>1, <2>2, <2>3 DEF Waiting, Closing
<1>13. ASSUME \/ \E j \in jobs : Diagnose(j)
              \/ WorkerDone \/ ReportChanges
              \/ \E p \in Paths : DidSave(p) \/ Pull(p) \/ CancelPull(p) \/ WriteFile(p)
       PROVE  UNCHANGED <<thread, snap, generation, closed, shutdown, edit, openDocs, editorOpen>>
  BY <1>13 DEF Diagnose, TakeLock, GetLock, Publish, WorkerDone, ReportChanges, DidSave, Pull,
               CancelPull, WriteFile, manager, client
<1>14. CASE UNCHANGED vars
  BY <1>3, <1>14 DEF vars
<1> QED
  BY <1>3, <1>5, <1>6, <1>7, <1>8, <1>9, <1>10, <1>11, <1>12, <1>13, <1>14, ThreadsWait DEF Next

LEMMA InitWaiting == Init => Waiting
<1> SUFFICES ASSUME Init PROVE Waiting
  OBVIOUS
<1>1. \A k \in Threads : thread[k].pc = "none"
  BY DEF Init, NoThread
<1>2. ~Answered /\ ~closed /\ ~shutdown /\ edit = NoEdit /\ openDocs = {}
  BY DEF Init, Answered
<1> QED
  BY <1>1, <1>2 DEF Waiting, Threads, Purposes

\* A step of the handler is a step, or no step, of what the editor was promised.
LEMMA StepsPromised ==
  TInv /\ TInv' /\ Waiting /\ [Next]_vars => [Promise!Next]_Promise!vars
<1> SUFFICES ASSUME TInv, TInv', Waiting, [Next]_vars PROVE [Promise!Next]_Promise!vars
  OBVIOUS
<1>1. [p \in Paths |-> ShownText(p)]' \in [Paths -> Texts \cup {NoText}]
  BY DEF TInv, ManagerTypes, ShownText, Loaded, Snapshots
<1>2. editorOpen' \subseteq Paths
  BY DEF TInv, ClientTypes
<1>3. ASSUME shown' = shown, editorOpen \subseteq editorOpen' PROVE Promise!Change
  BY <1>1, <1>2, <1>3 DEF Promise!Change
<1>4. ASSUME NEW j \in jobs, Publish(j), shown' # shown PROVE Promise!Push(j.path)
  <2>1. /\ MayPush(j) /\ shown' = [shown EXCEPT ![j.path] = j.text] /\ edit = NoEdit
        /\ UNCHANGED <<snap, editorOpen>>
    BY <1>4 DEF Publish, LoopIdle, manager, client
  <2>2. j.path \in editorOpen /\ j.path \in Paths
    BY <2>1 DEF MayPush, Waiting, Closing, TInv, ClientTypes
  <2>3. ShownText(j.path) = j.text
    BY <2>1 DEF MayPush, DocumentIsCurrent, ShownText
  <2>4. [p \in Paths |-> ShownText(p)]' = [p \in Paths |-> ShownText(p)]
    BY <2>1 DEF ShownText, Loaded
  <2> QED
    BY <2>1, <2>2, <2>3, <2>4 DEF Promise!Push
<1>5. ASSUME NEW p \in Paths, BeginEdit("close", p) PROVE Promise!Close(p)
  BY <1>1, <1>5 DEF BeginEdit, Promise!Close
<1>6. ASSUME \/ \E k \in Threads : ThreadStep(k) \/ Return(k) \/ Command(k)
             \/ WorkerDone \/ RefreshStep \/ RefreshRaises
             \/ Initialize \/ FinishEdit \/ ReportChanges \/ Shutdown
             \/ \E p \in Paths : \/ BeginEdit("open", p) \/ BeginEdit("change", p)
                                 \/ ResumeOpen(p) \/ DidSave(p) \/ Pull(p) \/ CancelPull(p)
                                 \/ WriteFile(p)
             \/ \E j \in jobs : TakeLock(j) \/ GetLock(j)
      PROVE  shown' = shown /\ editorOpen \subseteq editorOpen'
  BY <1>6 DEF ThreadStep, Read, CommitLoad, CommitPublication, Return, Command, WorkerDone,
     RefreshStep, RefreshWakes, RefreshReturns, RefreshFailed, RefreshRaises, Initialize, FinishEdit,
     ReportChanges, Shutdown, BeginEdit, ResumeOpen, DidSave, Pull, CancelPull, WriteFile, TakeLock,
     GetLock, client
<1>7. ASSUME NEW j \in jobs, Publish(j) PROVE [Promise!Next]_Promise!vars
  <2>1. CASE shown' # shown
    <3>1. j.path \in Paths
      BY DEF TInv, Pushes, PushTypes, Jobs
    <3> QED
      BY <1>4, <1>7, <2>1, <3>1 DEF Promise!Next
  <2>2. CASE shown' = shown
    <3>1. editorOpen' = editorOpen
      BY <1>7 DEF Publish, client
    <3> QED
      BY <1>3, <2>2, <3>1 DEF Promise!Next
  <2> QED
    BY <2>1, <2>2
<1>8. CASE UNCHANGED vars
  BY <1>3, <1>8 DEF vars, Promise!Next
<1> QED
  BY <1>3, <1>5, <1>6, <1>7, <1>8 DEF Next, Diagnose, Promise!Next

LEMMA InitPromised == TInv /\ Init => Promise!Init
BY DEF Init, Promise!Init, TInv, ManagerTypes, ShownText, Loaded

\* The handler keeps what DocumentDiagnostics promises: a client that waits for the
\* answer to initialize is shown diagnostics only of documents it has open, of the
\* text the server holds for them when they are sent, and none of a closed one
\* (_publish_document and its checks, _handle_did_close), whatever edits, refreshes,
\* loads, cancellations and the shutdown come between a push's steps.
THEOREM PushesAreKept == ASSUME ~EarlyClient PROVE Spec => Promise!Spec
<1>1. TInv /\ Waiting /\ [Next]_vars => Waiting'
  BY WaitingStays
<1> QED
  BY <1>1, InitTypes, TypesStay, InitWaiting, StepsPromised, InitPromised, PTL DEF Spec, Promise!Spec

================================================================================
