-------------------------- MODULE WorkspaceDocuments --------------------------
(***************************************************************************)
(* WorkspaceDocuments (lsp/workspace.py): the texts of the documents the      *)
(* editor holds open, over the files on disk.  Each method runs inside one    *)
(* hold of the instance's lock, so each is one step.                          *)
(*                                                                           *)
(* A text is an identity: an accepted edit produces a text of its own, so two *)
(* texts are equal only if they come from the same edit or the same write.    *)
(***************************************************************************)
EXTENDS Integers

CONSTANTS
    Paths,      \* Python files an editor can open or a workspace contains
    Versions,   \* versions a client sends with an edit
    NoVersion,  \* the version of an edit that carries none
    NoText      \* no overlay, or no file

ASSUME VersionAssumption == Versions \subseteq Nat \cup {NoVersion} /\ NoVersion \notin Nat

VARIABLES
    docs,       \* _documents: path -> text and version
    docRev      \* revision

Texts == {"edit", "disk", "empty"} \X Nat

ASSUME TextAssumption == NoText \notin Texts

Overlays == [text : Texts \cup {NoText}, version : Nat \cup {NoVersion}]
Unopened == [text |-> NoText, version |-> NoVersion]

NoTexts == [p \in Paths |-> NoText]

IsOpen(p) == docs[p].text # NoText

\* A version that is not newer than the held one is refused.
Accepts(p, v) ==
    IsOpen(p) /\ NoVersion \notin {v, docs[p].version} => v > docs[p].version

\* open, and change with any list of full or ranged edits.
Edit(p, v) ==
    /\ Accepts(p, v)
    /\ docs' = [docs EXCEPT ![p] = [text |-> <<"edit", docRev + 1>>, version |-> v]]
    /\ docRev' = docRev + 1

CloseOverlay(p) ==
    /\ IsOpen(p)
    /\ docs' = [docs EXCEPT ![p] = Unopened]
    /\ docRev' = docRev + 1

SourceOverrides == [p \in Paths |-> docs[p].text]

DocumentsInit == docs = [p \in Paths |-> Unopened] /\ docRev = 0

================================================================================
