--------------------------- MODULE MCAnalysisManager ---------------------------
(* Two overlapping workspaces of three files, two worker threads, and several      *)
(* kinds of client, each with bounds of its own.                                   *)
EXTENDS AnalysisManager, TLC

CONSTANTS a, b, c, w1, w2, wsA, wsB, KindsUsed

MCPaths == {a, b, c}
MCWorkers == {w1, w2}
MCWorkspaces == {wsA, wsB}
MCFilesOf == (wsA :> {a, b}) @@ (wsB :> {b, c})
MCVersions == {1, 2, NoVersion}

(* A client that edits files with version numbers while the source index is        *)
(* refreshed; one that uses every operation and shuts down; one that changes the   *)
(* workspace folders; and an eager one that edits before its load is answered.     *)
Kinds ==
    [editing |->
        [paths |-> {a, b}, versions |-> {1, 2}, early |-> FALSE,
         operations |-> {"load_sources", "refresh_sources"},
         edits |-> 3, writes |-> 1, changes |-> 3, started |-> 2, closes |-> 0],
     everything |->
        [paths |-> {a, b}, versions |-> {NoVersion}, early |-> TRUE,
         operations |-> OperationNames,
         edits |-> 1, writes |-> 0, changes |-> 1, started |-> 2, closes |-> 1],
     folders |->
        [paths |-> {a, b, c}, versions |-> {NoVersion}, early |-> FALSE,
         operations |-> {"load_sources"},
         edits |-> 1, writes |-> 1, changes |-> 1, started |-> 3, closes |-> 1],
     eager |->
        [paths |-> {a, b}, versions |-> {NoVersion}, early |-> TRUE,
         operations |-> {"load_sources"},
         edits |-> 2, writes |-> 0, changes |-> 2, started |-> 2, closes |-> 0]]

MCClients == {Kinds[k] : k \in KindsUsed}

(* Each kind of client concerns some of the files, versions and changes.           *)
Allowed ==
    /\ docRev + writes <= client.changes
    /\ \A p \in Paths : IsOpen(p) => p \in client.paths /\ docs[p].version \in client.versions
    /\ \A p \in Paths \ client.paths : disk[p] = <<"disk", 0>>
    /\ \A t \in Workers : thread[t].files \subseteq client.paths
    /\ workspace # NoWorkspace => FilesOf[workspace] \subseteq client.paths

(* Idle workers are alike: the second one is given work while the first is busy.   *)
FirstIdle == At(w2, "idle") /\ ~At(w2, "idle")' => ~At(w1, "idle")

MCNext == Next /\ Allowed' /\ FirstIdle
MCSpec == Init /\ [][MCNext]_vars /\ \A t \in Threads : WF_vars(Step(t))
================================================================================
