# TLA+ models of pyflow

Pyflow is a static-analysis framework for Python: a compiler front end, a set of
analysis and optimization passes over one program, query services over their
results, a language server, IFDS and IDE solvers, checkers and a concolic executor.
This directory holds TLA+ specifications of the parts whose correctness depends
on the order in which things happen, the TLC configurations that check them and
proofs checked by TLAPS. `PROJECT.json` lists the same in machine-readable form:
components, runs, what each definition models, hazards, findings and theorems.
Paths below are relative to `src/pyflow/` unless they name another directory.

## 1. Inventory

### 1.1 Pass scheduling (`application/`, `ir/core/facts.py`, `ir/core/catalog.py`)

| part | state | operations |
|---|---|---|
| `PassManager` (`passes/manager.py`) | registered passes, result cache, availability markers, run counter | `run_pipeline` with its nested `execute`, `build_pipeline`, `_invalidate_dependent_passes`, `_retire_analysis_dependents` |
| `PassCache`, `AnalysisAvailability` (`passes/cache.py`) | per program: pass -> (version token, result) | `get`, `put`, `mark_valid`, `rebase`, `invalidate` |
| `AnalysisSession` (`session.py`) | options, generation, solver results by slot, each with a token | `configure`, `record_result`, `mark_changed`, `invalidate_results` |
| `FactStore` (`ir/core/facts.py`) | facts by producer, revision of the store, invalidation epoch | `publish_many`, `retain_producers`, `invalidate_producers`, `advance_ir_revision` |
| `IRCatalog` (`ir/core/catalog.py`) | node tables, IR revision | `commit_revision`; replaced as a whole by the extractor |
| standard passes (`passes/registry.py`, `passes/builtin.py`) | none | the declared graph |

The manager, the session and the fact store keep *four* records of what is still
valid - the run's own markers, the manager's markers, its cache, the session's
slots - each stamped with its own combination of counters (catalog identity, IR
revision, options, result generation, fact revision, invalidation epoch). They
must agree although passes change the program, a pass can fail half-way,
alternative backends share a slot, and other code commits revisions between runs
and inside bodies. Nothing here is concurrent (`ARCHITECTURE.md` rules out
concurrent passes on one program). Hard: stale stamps, preservation, transitive
retirement, requirements that retire one another, failure.

Correct when: a pass is invoked only with current, mutually consistent inputs;
no stale result becomes valid again; facts do not outlive the result they came
with; a failure leaves nothing valid; every run ends.

### 1.2 Language server (`lsp/`, `api/snapshot.py`)

| part | state | operations |
|---|---|---|
| `WorkspaceDocuments` (`workspace.py`) | open documents' texts and versions, revision | `open`, `change`, `close`, `snapshot` |
| `AnalysisManager` (`server.py`) | published snapshot, generation, closed flag, roots, file list, two locks | loads, `refresh_sources`, `analyze_workspace`, `reload`, document changes, `close` |
| `AnalysisSnapshot` (`api/snapshot.py`) | immutable | `require_fresh_semantics` |
| `LspHandler` (`lsp_handler.py`) | open documents, publish tasks and epochs, diagnostic lock, refresh task and dirty flag, shutdown flag | request and notification handlers |
| `JsonRpcServer` (`transport.py`) | request table, dispatch tasks, 64 slots, send lock | read loop, dispatch, cancel, send, stop |

Three layers. The transport runs a task per message on one event loop; the handler
answers on the same loop and keeps tasks of its own, which outlive the message; the
manager does its work in threads of `asyncio.to_thread`. `_state_lock` guards single
reads and commits, `_analysis_lock` a whole compiler run, the documents have a lock of
their own, and between the holds everything can change. Hard: reads of one snapshot
and commit of another, loads that overtake one another, close during a load,
exceptions inside a lock; cancellation of what is waiting, running or done; delayed
pushes and coalesced refreshes.

Correct when: the published index shows every accepted edit; a revision number
names exactly one set of texts; facts that are called fresh belong to the shown
sources; the last requested workspace wins; nothing comes back after close; every
request is answered exactly once and every cancellation hits its request; an editor
is shown the diagnostics of the current text, and in the end is.

### 1.3 IFDS and IDE solvers (`analysis/ifds/core/`)

| part | state | operations |
|---|---|---|
| `IFDSSolver`, `BackwardIFDSSolver` | path edges, worklist, incoming records, end summaries | `solve`: seeds, calls, returns, moves |
| `IDESolver` | the same with a jump function per edge; values of the second phase | `solve`: re-queue on a changed function, values of entries, read-off |
| `_SolverBookkeeping`, `CancellationToken` | counters, deadline, cancelled flag | `check`, `stop`, `finish` |

One thread per solve; only cancellation comes from outside. Hard: each order in which
callers and summaries meet must give the same result; a function grows after what was
derived from it; recursion; a limit in the middle of a step. Correct when a complete
result is exactly what realizable paths reach (with IDE: the join of the values they
carry), an incomplete one says so and contains nothing else, and every solve ends.

### 1.4 Concolic executor (`concolic/`)

| part | state | operations |
|---|---|---|
| task scheduler (`resumable/scheduler.py`, `coroutines.py`, `interpreter/calls.py`) | tasks with their suspension, cancellation request and ready order; clock; choices made | turns, choice of the next task, await, create, cancel, deadlock |
| exploration (`exploration/engine.py`, `search.py`) | state queue, path tree with reserved and exhausted targets, schedules per input, counterexamples, budgets | pop, execute, observe, flip branches and contracts, stop |
| project scan (`project/scan.py`, `worker.py`) | worker process | run with a timeout |

Target programs are interpreted, so their tasks interleave only by recorded choices.
Hard: a target is reserved by one execution and observed by another; a schedule is
replayed as positions in lists that must come out the same; each budget must be
admitted in the result. Correct when a replay repeats its schedule, every exploration
ends, and, as far as the interpreter records the target's conditions as they are, an
exploration that calls itself exhausted has seen every path of every schedule and found
every violated contract.

### 1.5 Other components

* **IR semantics registry** (`ir/core/semantics.py`): contents, ready and loading
  flags, a lock around loading only. Correct when readers never see contents
  older than the last invalidation.
* **Graph query engine** (`api/queries/engine.py`): caches by IR revision; building
  a graph may itself commit a revision. Correct when a cached graph belongs to
  the current revision.
* **Incremental cache** (`analysis/cache/incremental.py`): hashes, findings and
  imports in SQLite. Correct when unchanged means analysed with this text.
* **Sequential analyses, IRs and output**: alias (`analysis/alias`, partly
  vendored), call graph, IPA/CPA, lifetime, shape, type inference, CFG/CDG/DDG/PDG
  and the other IRs, optimizations, front end, checkers, MCP server, editor features,
  command line. Their difficulty is data, not order; they appear here only as pass
  outcomes or as functions of the sources.

The line where each of the hard behaviours bites is in `PROJECT.json` under
"hazards", with the property that covers it or the reason why none does.

## 2. Modules

| module | models | extends |
|---|---|---|
| `PassGraph` | declarations of passes and what the manager derives from them | - |
| `AnalysisState` | session, fact store and catalog revision of one program | `PassGraph` |
| `PassManager` | `run_pipeline`/`execute` and the program's other writers | `AnalysisState` |
| `StandardPasses` | the builtin pass graph and `build_pipeline` | - |
| `WorkspaceDocuments` | open documents | - |
| `AnalysisManager` | operations, locks and snapshots of the analysis manager | `WorkspaceDocuments` |
| `DocumentDiagnostics` | abstract: what an editor is promised about pushed diagnostics | - |
| `LspHandler` | pushes, refresh loop and handlers, over an outline of the manager | `WorkspaceDocuments` |
| `RpcReplies` | abstract: every request owed an answer gets one | - |
| `JsonRpc` | read loop, slots, request table, batches, cancellation | - |
| `Supergraph` | a dataflow problem: graph, contexts, flow steps | - |
| `CallStacks` | abstract: configurations reached by concrete call stacks | `Supergraph` |
| `SolverBookkeeping` | how a solve ends | `Supergraph` |
| `Tabulation` | the forward and the backward IFDS solver | `CallStacks`, `SolverBookkeeping` |
| `JumpFunctions` | the IDE solver and its edge functions | `SolverBookkeeping` |
| `TaskScheduler` | one execution of an asynchronous target program | - |
| `Exploration` | `explore_file`: queue, path tree, solver, budgets | `TaskScheduler` |
| `PassManagerProofs`, `AnalysisManagerProofs`, `LspHandlerProofs`, `JsonRpcProofs`, `ExplorationProofs` | theorems | the module of the name |
| `SupergraphProofs` | lemmas on the steps of a path | `Supergraph` |
| `TabulationProofs`, `JumpFunctionProofs` | theorems | the module of the name, `SupergraphProofs` |
| `MC...` | instances for TLC | |

The MC modules are small: constants, and bounds. A variable (`client`, `kind`) or a field
(`manager`, `problem`, `scenario`) is chosen in the initial state and never changes. Each value of it has
bounds of its own, so that one run covers several situations, each deep where it
matters, without their product. A property that is promised only to some of the
situations names them.

### 2.1 Pass scheduling

`prog` is the record of one program's analysis state; the operations of
`AnalysisState` are functions from one record to the next, because a handler of the
manager makes several of them without interruption. `stack` is the stack of nested
`execute` calls; each frame counts the refreshes of each prerequisite. `avail`,
`local` and `cache` map passes to stamps. A stage is one of: run an ordering-only
prerequisite, refresh a missing analysis, give up after `MaxRefresh`, serve the
cached result, or run the body, which fails, changes the program or leaves it. The
end of a body includes everything `execute` does after it: commit, rebase, retire,
mark, store. `External` is every change other code makes between runs, `Effects`
those a body makes besides its result. `manager` says whether it caches results and
whether the program can be a dictionary key; without both, only the markers of the
run are left. The field `sound` is not in the code: it records whether a result was
computed from results still in place, and is the reference for "current and mutually
consistent". Capabilities are identified with the pass that publishes them; facts and
results have no contents. `SharedKeyAssumption` states what `registry.py` guarantees
of stages that share a slot; TLC evaluates it for the builtin graph.

### 2.2 Analysis manager

`thread` gives each thread its place and local variables; a step is one hold of a
lock or one read made without one, so all interleavings the locks allow are
explored. The event loop's thread runs document changes, worker threads the
other operations, each of which can fail where the code runs the compiler. `client` is
what is asked of the manager: which operations, whether edits may come before a load has
been answered, and how many of each. A text
is the identity of the edit or write that made it; a snapshot keeps its revisions,
the text of every file its index was built from (`sources`), the texts its semantic
facts were computed from (`facts`) and the generation it was published in. Files
are discovered in the step that starts an operation and read in one later step.
`WriteFile` is any other program. Position conversion, source indices, type
services and query results are functions of the sources and are left out.

### 2.3 Language server handler

A step of `LspHandler` is what happens between two suspensions of the event loop; only
a handler that publishes an edit is split, where a worker thread can run in the middle
of it. A push is a record `[path, epoch, pc, text]` in `jobs`; `pushTask` is
`_publish_tasks`, `epoch` is `_publish_epochs`, `lock` and `waiters` are the diagnostic
lock, which a task takes and the callback of its worker gives back. A diagnostic
request is a job of epoch 0. `refresh`, `dirty` and `seenRev` are the refresh loop.
The manager behind it is an outline: the texts and the revision of its snapshot,
its generation and closed flag, and for each thread what it has read. Files of a
workspace, facts and the analysis lock stay with `AnalysisManager`. Handlers that only
read a snapshot, and `pyflow.scanDocument`, are not modelled.

`DocumentDiagnostics` is its abstract specification: a push shows the text the server
has then, of a document that is open, and a closed document shows nothing.
`PushesKeptInTime` is that refinement.

### 2.4 JSON-RPC transport

The stream is what the client wrote; `task[n]` and `item[r]` are the states of a
message's task and of the tasks `gather` makes of a batch; `table` is
`_request_tasks`. Messages are told apart by what `_dispatch_one` does with them, and
frames are opaque: readable or not. A handler suspends or ends; a cancelled one ends
where it was suspended. Waiters of the dispatch semaphore are first come first
served, as `asyncio.Semaphore` has been since Python 3.10.5. Not modelled: an output
stream that fails, results that cannot be serialised, and framing; a frame refused for
its size leaves its body on the stream (`transport.py:201`), so that what follows is
read as garbage.

`RpcReplies` is its abstract specification: a request that was read is owed an
answer, gets one, and the server returns only when it owes nothing. Requests are
identified by their place in the stream, so that two that share an id are two.
`RepliesKeptOnce` is the refinement of its safety part, `RepliesCome` the liveness. Owed
for certain (`Certain`) are all single requests, and those of batches unless a handler of
this server can end in a `CancelledError` (`outcomes`, chosen in the initial state).

### 2.5 IFDS and IDE solvers

A path edge is `[from, at]`: the key of an activation (context and entry point) and a
point in it. `Tabulation` processes the edges of the queue in any order, which
includes the order of the code; the order in which one step adds edges depends on
identities of nodes. `Produced` is everything one iteration adds: entries of callees,
replayed summaries, resumed callers, moves. The moment a limit is exceeded is left
open: every check may find it, and a step that it stops keeps any part of its edges.
The backward solver is the same worklist over the reversed graph. Its problems have a
return flow of their own (`BackwardReturnFlow`), which is given one fact where the forward
one is given two, and no call site: the fact at the call when a caller is resumed
(`Resumed`), the fact at the callee's entry when a summary is replayed (`FactReplayed`),
which is the finding `replayed_return`. What is claimed of backward results has the
condition `ReplayAgrees`, a condition on the states reached: for each caller and each
summary of its callee that met, both places make the same edges. It holds of return
flows that ignore their fact (`counting` and `guarding` of the run) and of those that
are given equal facts at both places (`passing`); forward it always holds.
As in the code, calls that share a continuation are crossed with all their
continuations backward.

`CallStacks` is what the result means: it walks concrete call stacks, as the oracle
of the solver's own tests does (`tests/analysis/ifds/reference_solver.py`), except that
a call without a continuation is entered, as the solvers do. Once a solve ended as
complete, a walk begins in the same behaviour; `Covered` compares it with the result.

In `JumpFunctions` an edge function is the set of terms it joins, a term a sequence of
primitive functions; normalization, the shortcut for constants and the comparison on
a join are those of `core/problem.py`. Edges are queued again when their function
grows, records of waiting callers carry the function they were made with, and after
the worklist the second phase hands values from seeds to entries until nothing
changes and reads the values off.

### 2.6 Concolic executor

A target program is data: for each task the statements the scheduler sees (branch,
await, sleep, create, cancel, write, return, raise, with handlers). One shared cell stands
for memory, so that schedules can matter to branches. `TaskScheduler` is one
execution with its prefix of choices; `Exploration` queues inputs and schedules,
observes paths, asks a solver that answers with any model or does not know, and stops
for one of the code's reasons.

What the target does and what the interpreter writes down of it are kept apart:

* a *condition* is what a branch or a contract asks: the set of inputs it is true of
  (`truth`). It alone decides where the execution goes;
* an *expression* is what is recorded (`records`), and may depend on the input. Bit
  operations, string formatting and repetition, floor division and remainder of reals
  and `is` record the value they came to, shifts and list repetition one that is right
  for the same operand only (`values.py:147`, `175`, `180`, `189`, `224-242`, `318-323`);
  a test for a zero divisor decides without a branch (`values.py:205`, `212`, `217`), which
  is `None` here;
* an *assignment* is a model of the solver, within the constraints on the input. It
  satisfies a set of expressions (`holds`) and is converted to an input (`value`), which
  need not satisfy them: `_model_value` clips lengths (`engine.py:798-801`) and
  approximates reals (`851-855`, `878-882`).

The program is `Exact` when each condition is recorded by one expression whatever the
input, the expression says of each assignment what the condition says of its value, and
each input is the value of an assignment. Nothing in the code ensures this: linear
integer and boolean conditions without concretized operations are of this kind, others
are not. What is claimed of exhausted explorations and of reserved targets is claimed
of exact programs; section 5.1 says what happens to others.
 Coverage is not modelled: strategies that use it may
pop any state, and "nothing new for long enough" may happen at any time.
`gather` is the awaits it makes. A task of the data is one object: it is created once, and
only what was created is awaited or cancelled. After an exploration that calls itself exhausted,
`Audit` executes any input with any schedule: the reference that
`ExhaustedIsComplete` and `ViolationsFound` compare the runs with. Not modelled: what
a task does while it is closed (`finally`), generators, `__await__` objects,
preconditions, guidance from opaque calls, contracts of more than one clause.

## 3. Runs

| run | configuration | shows |
|---|---|---|
| `scheduling` | eight passes, two shared slots, four pipelines, two runs, one external change; a manager with caches and one without any | no pass is invoked without current inputs, nothing stale comes back, every run ends |
| `standard_pipeline` | the builtin graph, seven requests, every choice of which optimizations change the program | requirements hold at every stage, and no analysis is refreshed twice for one invocation |
| `analysis_manager` | three clients on two worker threads: edits with versions during refreshes; every operation and a close; overlapping loads of two workspaces | no accepted edit is lost, fresh facts match, close is final, the last workspace wins, every operation returns |
| `json_rpc` | single messages and batches on two slots; clients whose handlers never end, or end in a `CancelledError` | every request is answered once, every cancellation hits and none waits for a handler |
| `diagnostics` | clients that edit two documents, report file changes, change folders, run the analysis, or do not wait for `initialize` | pushes are current and the last ones come, reported changes reach the index, no request hangs |
| `tabulation` | 13 problems: calls from two places, recursion, a loop; forward, backward, IDE; contexts of depth 0 to 2; limits and cancellation at every check; every order of the queue | a complete result is exactly what call stacks reach, a partial one a part of it, every solve ends |
| `exploration` | 23 scenarios: nested branches with a contract, racing, cancelling and deadlocking tasks, each limit, inexact records and models | exhausted explorations of exact programs are complete, schedules are replayed, every exploration ends |
| `self_commit`, `lost_edit`, `rpc_lost_batch`, `lost_push`, `replayed_return` | | the findings of section 5 |

### 3.1 Properties

Pass scheduling: `RequirementsMet` (a pass is invoked only when the session holds,
for each analysis it requires, a current result computed from inputs not replaced
since), `MarkersBacked` (a valid marker has a result behind it),
`NothingOutlivesResults` (a cached result that would be served is still derived from
what is there, and facts have the lifetime of their result), `StampsNotAhead` (no
stamp is ahead of the counters, so moving a counter retires it),
`FailureRetiresState`, `NothingRevived` (only running an analysis of a slot makes the
slot current), `RunEnds`, `StandardStabilizes`.

Analysis manager: `RevisionExactAfterLoad` (a snapshot with the documents' revision
shows the documents), `NoEditLostAfterLoad` (at rest, the index shows each open
document's text and no closed one's), both for a client that edits only once its load
was answered, as the handshake of `initialize` demands; `FreshFactsMatch`;
`ClosedIsFinal`; `LastFoldersShown` (at rest, only files of the current roots are
listed or indexed, whichever load finished last); `OperationsEnd`.

Handler: `OnePush` (`_publish_tasks` holds the one push of a document that may still be
sent), `PushesKeptInTime` (refinement of `DocumentDiagnostics`), `EditsDiagnosed` (when
edits stop, every open document is shown the diagnostics of the server's text),
`ReportsIndexed` (when all changes are reported, the index has every file's text),
`PullsEnd` (every diagnostic request ends, whatever was cancelled before it).

Transport: `TableExact` (an entry of the request table is a running request of that
id, and a running request is in it unless a later one took its id),
`RepliesKeptOnce`, `RepliesCome`, `CancelActs` (a cancellation does not stay pending
while a slot is free, though no handler ends), `CancelHits` (when it runs, the request
it names has been answered or is in the table).

Solvers: `NothingSpurious` (complete or partial, nothing is reported that no call
stack reaches), `CoveredIfReplayAgrees` (a complete result misses nothing, if the two
return flows of a backward problem agreed where callers and summaries met), `ValuesExact` (each point, in each context,
has the join of the values of all paths; a partial result no more), `SolveEnds`.

Concolic: `PrefixReplayed` (an execution repeats the schedule it was queued with and
does not end before), `ExplorationEnds`; and, for `Exact` programs, `ExhaustedIsComplete`
(whatever input and schedule, the run is among the explored ones), `ViolationsFound`,
`ReservationsServed` (a reserved target still has an input pending that reaches it).

Each module has one type invariant besides. Each property is violated when one mapped
definition is replaced by a plausible bug; these are
the operators next to the original that "mutants" lists, and nothing else uses them.

### 3.2 Bounds

Pass scheduling: two runs and one external change are enough for a stamp to be
written in one run, outlived by the change and met in the next; the pipelines contain
a preserving rewrite, a producer with dependents in another slot, a second stage of a
shared slot and a consumer. The manager without dictionaries keeps nothing between
runs and gets one. `MaxRefresh` is 3 rather than 32 where passes retire one another,
and 32, the default of the code, on the builtin graph, where it is never approached.

Analysis manager: two worker threads and the event loop give every pair of operations
and an edit in between; three edits allow an edit during the publication of another
and a version that is refused; two workspaces that share a file make a leftover of the
old one visible. The client `eager`, which edits before its load is answered, is only
in `lost_edit`.

Handler: two documents, three edits or writes, so that one push replaces another while
a third waits for the lock; one load per document; one command; one failing refresh;
two requests. The index holds a text for every path. Transport: two slots, four
messages (three where handlers never end, or batches meet single messages), two ids,
two items: enough for both slots taken, one message waiting and a cancellation
behind it, and for an id used a second time while its first request is cancelled.

Solvers: two facts and two procedures; six activations, more than the distinct keys of
any of these problems, so that walks and the oracle go through each recursion and back
again. The second procedure is called from two places, by itself, or both. The labels
of the IDE problems form a lattice of two labels, with functions that do not
commute. Concolic: three tasks, four inputs and five assignments, two of which are
converted to the same input; six conditions and ten expressions. Six of the scenarios are
inexact: a constant recorded for a branch (in a sequential and in a racing program) and
for a contract, a sum with a concretized part, a decision without a branch, a model that
is rounded. There every property but the three about exact programs is checked as
elsewhere. Limits are 1 to 5 in the scenarios that are to reach them, `max_task_switches`
among them, and out of reach in the others.

`CHECK_DEADLOCK FALSE` is used where a system may rest: a run has ended and nobody
asks for another. In `Exploration` the end of an audit is such a rest.

### 3.3 Fairness

* Pass manager: a run that was started goes on; one thread executes it without
  waiting for anything.
* Analysis manager: each thread that can take a step eventually does. Weak fairness is
  enough although threads wait for `_analysis_lock`: the number of operations is
  bounded in the run, so the lock becomes free for good.
* Transport: the event loop runs every task that is ready; handlers end, except those
  of the client `slow`, for which `CancelActs` is claimed and `RepliesCome` is not. Nobody has to write.
* Handler: threads run and return, sleeps end, the loop resumes what is ready. The
  client has no obligation: it need not edit, close, report, or wait.
* Solvers and exploration: the one thread goes on. Nobody has to cancel, walk or audit.

## 4. Proofs

All theorems hold for every value of the constants that satisfies the named
assumptions of the modules, and for any number of steps: none of the bounds of section
3.2 is used. A hypothesis of a theorem that is not such an assumption is named here.

### 4.1 Pass manager

`PassManagerProofs` (for every pass graph, pipeline set and option set) has three parts.
Stamps and markers:

* `TypeCorrect`: `Spec => []TypeOK`; `StampsNeverAhead`: `Spec => []StampsNotAhead`.
* `MarkersAreBacked`: `Spec => []MarkersBacked`, if a pass that reports changes and
  preserves something leaves commits to the manager (`CommitsThroughManager`; the
  finding `self_commit` shows the condition is needed).
* `InvokedWithRequirements`: under the same condition a pass is invoked, and a
  cached analysis served, only with the required slots held.

`MarkersBacked` is not inductive: it says nothing of stamps that are not valid now
but could become so. The inductive invariant `IInv` therefore speaks of every stamp:
it is not ahead of the program, and if it carries the program's *epoch* (catalog,
revision, options, generation) its slot is held. Each operation on the program
either starts a later epoch or keeps the epoch and drops no held result (`Follows`,
one lemma per operation), and the four steps that end a pass write stamps only for
held results.

What retirement reaches: `DerivedAreRetired` and `RetirementIsExact`. Retirement follows the
readers of a recomputed slot forwards; "derived from" follows inputs backwards. The two
recursive functions are proved to agree: a set that grows at most once per slot is
closed after as many steps as there are slots, and a closed set contains all that is
derived from its members. The induction over steps is by a least counterexample
(`SetInduction`), for the reason given in 4.6.

Lifetimes of results, on top of both:

* `FactsFollow` (facts have no longer lifetime than their result), `FailureRetires`:
  `Spec => []FailureRetiresState`, and `OnlyAnalysesGain`: `Spec => NothingRevived`.
  Every operation but recording a result *loses* (`Loses`): it holds no slot that was
  not held before, and drops with a slot the facts of it.
* `InvokedOnSoundInputs`: `Spec => []RequirementsMet`, and `OneLifecycle`:
  `Spec => []NothingOutlivesResults`, under `PassesKeepRules`: preserving passes leave
  commits to the manager, analyses that mutate preserve nothing, and no slot is derived
  from itself. The builtin passes satisfy all three, which TLC evaluates as an
  assumption of `standard_pipeline`. The invariant is that no held or cached result, be it
  current or not, was computed from one recomputed since: recording a result makes
  exactly those unsound that `RetirementIsExact` says are dropped in the same step.

### 4.2 Analysis manager

`AnalysisManagerProofs` (for every set of files, workspaces and threads):

* `TypeCorrect`: `Spec => []TypeOK`; `OneAnalysis`: at most one thread is inside
  `_analysis_lock`.
* `CloseIsFinal`: `Spec => []ClosedIsFinal`; every commit tests the closed flag in the
  same hold of the lock. `FreshFactsAreOfTheSources`: `Spec => []FreshFactsMatch`.
* `RevisionNamesEdits` and `EditsAreKept`: `Spec => []RevisionExactAfterLoad` and
  `Spec => []NoEditLostAfterLoad`, for any set of clients. What the two say is about a
  client that edits only while no load is under way and asks for no compiler run
  (`Handshaken`; the finding `lost_edit` shows that some such condition is needed). While the event loop publishes a change it lets nothing else
  change the documents, so the base it publishes from lacks that one document at most; a
  refresh is published only if no document changed since it read them.
* `LatestFoldersAreShown`: `Spec => []LastFoldersShown`, likewise; what it says is about a
  client that changes folders and documents and edits only while no load is under way
  (`FolderRequests`). A load is
  given up when another has begun since, so what is shown was read below the present
  folders unless a load of theirs is still under way (`Shown`), and the event loop
  publishes only while none is.

### 4.3 Language server

`LspHandlerProofs` (for any documents, edits, file changes, requests and commands):

* `TypeCorrect`: `Spec => []TypeOK`; `OnePushEach`: `Spec => []OnePush`. No two diagnostic
  tasks have the same document and epoch, and a push task is the entry of
  `_publish_tasks` as long as it lives (`Pushes`).
* `PushesAreKept`: `Spec => Promise!Spec`, the refinement of `DocumentDiagnostics`, for
  clients that wait for the answer to `initialize` (`~EarlyClient`). From then to shutdown
  the manager is loaded, so no `didOpen` waits for a load, and the handler's list of open
  documents is the editor's, but for a close being handled (`Waiting`).

`JsonRpcProofs` (for any ids, messages, batches, slots and ways handlers end):

* `TypeCorrect`: `Spec => []TypeOK`; `TableIsExact`: `Spec => []TableExact`;
  `CancellationsHit`: `Spec => CancelHits`. Slots are given in the order of messages, so
  the table, written when a task begins, names the latest message of an id that has
  begun, and a cancellation comes after every earlier one (`InOrder`).
* `RepliesAreKept`: `Spec => RepliesKeptOnce`, the refinement of `RpcReplies`. The states of
  a message's task and of its items move together with the number of replies written
  (`SinglesSettled`, `BatchesSettled`). Replies to batches of servers whose handlers may end
  in a `CancelledError` are not among the certain ones, which is the finding
  `rpc_lost_batch`.

### 4.4 Solvers

`TabulationProofs` (for every graph, all flow functions, every context depth, order of
the queue, limit and cancellation):

* `TypeCorrect`: `Spec => []TypeOK`.
* `CompleteResultsCover`: `Spec => []CoveredIfReplayAgrees`, with no bound on the
  depth of the call stack.
* `ResultsAreSound`: `Spec => []NothingInvented`: each edge of a result, complete or not, is
  that of the running activation of a call stack some walk visits.

Both have the condition `ReplayAgrees` of 2.5, which is true of every forward problem. The
tables only grow, so what agrees in a state agreed in all states before it
(`AgreedBefore`), and the invariant can be claimed under the condition.

What `CompleteResultsCover` needs is an invariant about solver and walk together.
`Closed`: an edge that left the queue has all its moves and entries among the seen ones,
its records made and its summary stored. `Met`: for each record and each summary of its
callee, in whichever order they came, the return has been propagated. Both are
broken by a step that is stopped, so they are claimed for solves that were not.
`Stacked`: each activation of the walk is a seen edge and was entered from the one
below it, which by `Closed` has a record of the call. A return of the walk then finds
record and summary, and `Met` gives the edge it leads to.

`ResultsAreSound` defines the visited stacks as the intersection of all sets of stacks
that have the seeds' and are closed under the steps of a walk, so that no induction over
walks is needed. Its invariant `Sound` is stronger than the theorem: an edge can be
reached in every visited stack whose running activation began where the edge's did
(`Realized`), with the stack below left as it was. This is what makes one summary
serve all callers.

`JumpFunctionProofs` (for every graph, all flow and edge functions, every context depth,
order of the queue, limit and cancellation), of what an IDE result means:

* `JumpFunctionsAreTyped`: `Spec => []TypeOK`.
* `JumpFunctionsAreRealized`: `Spec => []NoFunctionSpurious`. Each term of the jump function
  of an edge is the effect of a realizable walk from the activation's entry to the edge,
  whatever value enters. Partial results are included.
* `JumpFunctionsCover`: `Spec => []EveryPathSummed`. In a complete result the jump
  functions sum up every activation of every realizable walk.
* `ValuesAreRealized` and `ValuesCover`: `Spec => []NoValueSpurious` and
  `Spec => []NoValueMissing`. The value of a point in a set of contexts is below every
  upper bound of the values walks carry there; in a complete result it is above all of
  them. So it is the join over all realizable walks, of which there can be infinitely many.

The hypotheses say what a problem has to be; all are stated at the end of `JumpFunctions`,
and TLC evaluates them for the problems of the run `tabulation` (`LabellingAssumption`).
`FunctionsAreTyped` and `ValuesAreTyped` give the abstract methods of `IDEProblem` their
types, over a finite graph with finitely many facts. `PrimitivesAreRight`: a function that
calls itself idempotent or constant is, or the shortcuts of composition would change what
is computed. Only the two results on values need `JoinIsRight` and
`PrimitivesDistribute`, as the second phase joins the values that meet at a callee
before it applies the jump functions to them; and only `ValuesCover` needs
`CallsContinue` (see 5.1). The code tests none of this.

The walks are those of `CallStacks`, with a value for each activation; `Visited` is again
the least set that has the seeds' and is closed under the steps, so that the claim on all
walks needs no induction. A term means the composition of its primitives, and the
shortcuts do not change that (`ComposedTermMeans`). `Genuine`: each term of a jump function
or a summary is `Realized`, and each record of a waiting caller names a walk that waits there
(`Waits`); a return joins the three (`RealizedBack`). `Saturating` is the
counterpart of `Closed` and `Met` above: an edge outside the queue has handed on its
present function, as one whose function grew is in the queue again. When that is empty, the
walks whose activations are accounted for (`Summed`) are closed under the steps. In the
second phase a source lies in every set closed under joins that holds what walks bring
to its key (`SourcesGenuine`), hence below their bounds; when no source changes any more,
each is above what its callers hand on, and so, from the seed upwards along the stack, above
the value of every walk (`SummedSourced`).

### 4.5 Concolic executor

`ExplorationProofs` (for any tasks, programs, inputs, conditions, expressions and limits):

* `TasksAreTyped`: `Spec => []TypeOK`
* `SchedulesAreReplayed`: `Spec => []PrefixReplayed`
* `TargetsAreServed`: `Spec => []ReservationsServed`
* `ExhaustionIsComplete`: `Spec => []ExhaustedIsComplete`
* `ViolationsAreFound`: `Spec => []ViolationsFound`

The first two hold for every target program. The properties of the other three have
`Exact` as a hypothesis (section 2.6): they are about target programs whose conditions are
recorded exactly and models converted without loss, and say nothing of others. The
hypothesis is about the scenario, not about what an execution happens to meet.

`TasksAreTyped` needs more than types (`Scheduling`): the task that runs is blocked by none,
each task became ready before the present time, and the candidates are tasks of the list
that are not done (`InOrderIs`, an induction on the list). The "fifo" choice is then
one of them: tasks are ranked by cancellation and order (`Rank`), and some rank is least.
`ProgramsAssumption` says what the interpreter's frames guarantee: a statement leads to
statements of its own task, or ends it.

An execution is taken as a value (`Frame`) with a function to the next one (`After`),
which depends on the choices of the scheduler and, at branches only, on the input. A
`History` is a sequence of such values; two histories with the same choices and
branches are equal (`Determined`). The invariant has parts. `Replaying`: what runs is
a history that agrees with the queued schedule; with `Scheduling` and `Remembering` (the
cell holds one of `Cells`) it needs no hypothesis about conditions. `Accounted` and `Executed`: every queued
state is pending, running or has a run, and each choice of a run has its alternatives
queued as well. So each history of an input whose states are settled has a run, by
induction on the number of choices that agree with a run (`Explored`). `Looping` and
`Targets`: for each branch of a run, an input that takes its other side is queued, if
one exists. Here exactness enters: the expression recorded for a condition tells every
assignment what the condition tells its value (`Told`), so answers of the solver take the
side they were asked for (`AnswersTake`) and an input on that side is an answer. So each input shares its path with a queued input, by induction on the branches
that agree (`Reached`), and has the same runs. `Contracts`: the contract of each run was
checked with the clause of its path, and one counterexample for a path is replayed under
all its schedules.

### 4.6 What is only model-checked

* Liveness under fairness, and ENABLED, which are beyond the prover: `RunEnds`,
  `OperationsEnd`, `EditsDiagnosed`, `ReportsIndexed`, `PullsEnd`, `RepliesCome`,
  `CancelActs`, `SolveEnds`, `ExplorationEnds`.
* `StandardStabilizes` and `NothingSpurious`, which are about recursively computed data;
  `NothingInvented` is the proved counterpart of the latter. Modules with RECURSIVE
  operators (`StandardPasses`, `MCTabulation`) are kept apart from the proofs.
* `ValuesExact`, which compares with a join that is computed recursively up to a bound on
  the stack; its proved counterparts are `ValuesAreRealized` and `ValuesCover`, and the
  types it includes are `JumpFunctionsAreTyped`.

Schemes of induction are theorems with an operator as parameter, which the installed
provers cannot instantiate. Where a proof needs induction it uses the well-founded order
of the naturals on a set (`SetInduction` or `NatSteps`, stated in the modules that use it),
applied to the set of numbers for which the claim holds.

## 5. Findings

Each has a run whose counterexample shows it and is described in `PROJECT.json`.

1. `self_commit` (`application/passes/manager.py:387`): a pass that commits a revision
   in its own body and preserves an analysis leaves a valid marker for a result
   the session has dropped.
2. `lost_edit` (`lsp/server.py:441`): two publications with the same document revision,
   built on different bases; the later drops the other's edit.
3. `rpc_lost_batch` (`lsp/transport.py:224`): a `CancelledError` of one handler of a batch
   ends `gather`, and no request of the batch is answered.
4. `lost_push` (`lsp/lsp_handler.py:553`): an analysis commits an older text for a moment,
   the push of the newest one gives up, and nothing schedules it again.
5. `replayed_return` (`analysis/ifds/core/backward.py:193`): the backward solver passes
   the fact at the callee's entry where the interface promises the fact at the call, if
   the summary was there before the caller.

### 5.1 Observations

Behaviour of the code that conditional properties above leave out, or that no
statement of the repository contradicts.

* `lsp/server.py:294`: `load_files` reads texts and revision in two holds of the documents'
  lock; a snapshot can carry a revision newer than its texts, and the edit in between is
  published by neither. It takes a client that edits during its load, which
  `RevisionExactAfterLoad` and `NoEditLostAfterLoad` exclude, so no property that holds
  covers this race.
* `lsp/server.py:432`: a publication begun between `_configure_workspace` and the load's
  commit restores the old folders' files. `LastFoldersShown` is about a client that
  edits only while no load is under way.
* `lsp/server.py:461`: a publication can put the facts of an earlier analysis back over
  those of one that completed meanwhile; they are marked stale, so `FreshFactsMatch`
  holds.
* `lsp/lsp_handler.py:212`: `did_open` before anything is loaded awaits a load and then
  lists its document as open although it was closed meanwhile; its push comes for a
  closed document. `PushesKeptInTime` is about clients that wait for `initialize`;
  `OnePush` holds all the same, since the push is one.
* `lsp/server.py:339`: a load, or a command that loads, publishes texts it read before a
  later write or refresh; only another report corrects them. `ReportsIndexed` excludes
  commands.
* `analysis/ifds/core/problem.py:114`: a term drops an idempotent function only after
  itself. Round a loop through two different idempotent functions terms grow without
  end, and so does the solve unless a limit is set. A constant inside a longer term
  does not absorb what came before it, which costs terms, not values.
* The IDE solver hands values to callees through its records, one per continuation: a
  call without a continuation gives its callee none. `ValuesCover` is about graphs that have
  none (`CallsContinue`).
* `concolic/exploration/engine.py:407`: reaching `max_schedule_states` still reports
  "exhausted", although `concolic/README.md:54` calls budget termination explicit.
  `Undisturbed` excludes it.
* `concolic/interpreter/values.py:242`: a bit operation records its result as a constant. In
  `if x & 1`, run with 0, the recorded condition is a constant, its flip cannot be
  satisfied, and the exploration ends as "exhausted", with no unknown answer and no limit
  reached, without a run of the other side. A contract violated only there gets no
  counterexample. The other operations of section 2.6 and decisions without a branch have
  the same effect.
* The same line, for reserved targets: `if (x & 1) + x == 5`, run with 0, records
  `0 + x == 5`; 5 is queued for the other side, but its run records `1 + x == 5` instead. The target
  stays reserved with nothing pending that reaches it. A model that `_model_value`
  approximates or clips (`concolic/exploration/engine.py:801`, `853`, `880`) does the same. These are
  observations and not findings: no statement of the repository promises
  completeness for such operations.
* `concolic/resumable/coroutines.py:43`: a task cancelled after the task it awaits is done,
  but before it resumed, never sees the cancellation.
* `concolic/exploration/state_space.py:21`: the solver cache is said to be of conclusive
  results, but it keeps unknown answers too; a question
  the solver gave up is not asked again, which is why the completeness properties
  require that there was none.

## 6. Plan

1. `IRSemantics` and `QueryEngine`: loading against invalidation, caches against
   revisions, as one instance with the pass manager that makes the revisions.
2. `IncrementalCache`: crash between commits, writes between reads and hashes.
3. More than one clause of a contract, and preconditions, in `Exploration`.

## 7. Not modelled

What the passes compute; query results and their presentation; parsing, file
selection and positions; formatters, reports and command-line handling; vendored
and generated code. The catalog's tables, pass registration and execution records.
The registry of IR semantics and the query engine's caches, which one caller at a
time uses; the incremental cache, which no other part of the package uses; the
project scan, which is process I/O. The large sequential analyses (type inference,
alias, shape, call graph), the IRs and the checkers: their difficulty is the data they
compute on, and an instance small enough to check would leave it out.
Sections 2.1 to 2.6 say what is left out of the components that are modelled.
