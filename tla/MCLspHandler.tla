---------------------------- MODULE MCLspHandler ----------------------------
(* Small instances of LspHandler, one per kind of client, chosen in the       *)
(* initial state.                                                             *)
EXTENDS LspHandler

CONSTANTS a, b, ClientsUsed

VARIABLE kind       \* of client

MCPaths == {a, b}

(* One that edits two documents and asks for diagnostics; one whose files     *)
(* change; one that changes the folders; one that runs the analysis; one that *)
(* does not wait for initialize.                                              *)
Client(opens, changed, written, pulled, failing, runs) ==
    [paths |-> opens, edits |-> changed, writes |-> written, changes |-> 3,
     pulls |-> pulled, failures |-> failing, commands |-> runs]
Clients ==
    [editing  |-> Client({a, b}, 3, 0, 2, 0, {}),
     files    |-> Client({a, b}, 2, 2, 0, 1, {}),
     folders  |-> Client({a}, 2, 1, 0, 0, {"folders"}),
     analysis |-> Client({a}, 2, 1, 0, 0, {"analysis"}),
     early    |-> Client({a}, 3, 0, 1, 0, {})]

Fits(bound) ==
    /\ docRev <= bound.edits /\ writes <= bound.writes /\ docRev + writes <= bound.changes
    /\ pulls <= bound.pulls /\ failures <= bound.failures
    /\ editorOpen \subseteq bound.paths
    /\ \A j \in jobs : j.path \in bound.paths
    /\ \A p \in Paths \ bound.paths : disk[p] = <<"disk", 0>>
    /\ \A c \in {"folders", "analysis"} : thread[c].pc # "none" => c \in bound.commands

(* Nothing is sent before initialize has been answered.                       *)
Waits == ~Answered => /\ UNCHANGED <<docs, docRev, shutdown, pulls, jobs>>
                      /\ unreported \subseteq unreported'

MCInit == Init /\ kind \in ClientsUsed
MCNext ==
    /\ UNCHANGED kind /\ Next
    /\ Fits(Clients[kind])'
    /\ kind = "early" \/ Waits

all == <<vars, kind>>
MCSpec ==
    /\ MCInit /\ [][MCNext]_all
    /\ \A k \in Threads : /\ WF_all(UNCHANGED kind /\ ThreadStep(k))
                          /\ WF_all(UNCHANGED kind /\ Return(k))
    /\ WF_all(UNCHANGED kind /\ FinishEdit) /\ WF_all(UNCHANGED kind /\ WorkerDone)
    /\ WF_all(UNCHANGED kind /\ RefreshStep)
    /\ \A p \in Paths :
         /\ WF_all(UNCHANGED kind /\ ResumeOpen(p))
         /\ WF_all(UNCHANGED kind /\ \E j \in jobs : j.path = p /\ Diagnose(j))

(* The diagnostics of a client that waits for initialize.                     *)
MCPromise == INSTANCE DocumentDiagnostics WITH
    open <- editorOpen, text <- [p \in Paths |-> ShownText(p)],
    shown <- IF kind = "early" THEN [p \in Paths |-> NoText] ELSE shown

\* A client that waits for the answer to initialize is shown diagnostics only of
\* documents it has open, and of the text the server holds when they are sent.
PushesKeptInTime == MCPromise!Spec

\* Once its edits stop and unless it runs a command, every open document is
\* shown with the diagnostics of the server's text for it: no push that replaces,
\* cancels or overtakes another leaves the newest text undiagnosed.
EditsDiagnosed == []<>(kind \in {"editing", "files"} =>
    \A p \in editorOpen : shutdown \/ shown[p] = ShownText(p))

\* When every file change has been reported, no refresh failed and no command
\* reads the files, the index ends up with the text of every file.
ReportsIndexed == []<>(kind \notin {"folders", "analysis"} /\ unreported = {} /\ Loaded /\ failures = 0 =>
    snap.texts = CurrentTexts)
=============================================================================
