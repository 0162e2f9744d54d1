------------------------- MODULE DocumentDiagnostics -------------------------
(***************************************************************************)
(* What the editor is promised about the diagnostics it is pushed: they     *)
(* are those of the text the server has, they come for every open document  *)
(* whose text has come to rest, and a closed document has none.             *)
(***************************************************************************)
CONSTANTS Paths, Texts, NoText

VARIABLES
    open,       \* the documents the editor has open
    text,       \* [Paths -> Texts \cup {NoText}]: the server's texts
    shown       \* path -> the text whose diagnostics are shown, or NoText

vars == <<open, text, shown>>

Init ==
    /\ open = {}
    /\ text \in [Paths -> Texts \cup {NoText}]
    /\ shown = [p \in Paths |-> NoText]

\* Documents are opened and edited, files change, the server reads them.
Change ==
    /\ open' \in {S \in SUBSET Paths : open \subseteq S}
    /\ text' \in [Paths -> Texts \cup {NoText}]
    /\ UNCHANGED shown

Close(p) ==
    /\ p \in open
    /\ open' = open \ {p}
    /\ shown' = [shown EXCEPT ![p] = NoText]
    /\ text' \in [Paths -> Texts \cup {NoText}]

Push(p) ==
    /\ p \in open
    /\ shown' = [shown EXCEPT ![p] = text[p]]
    /\ UNCHANGED <<open, text>>

Next == Change \/ \E p \in Paths : Close(p) \/ Push(p)

Spec == Init /\ [][Next]_vars

\* A document left open with one text for good is eventually shown with it.
Settles == \A p \in Paths : \A t \in Texts :
    <>[](p \in open /\ text[p] = t) => <>[](shown[p] = t)
==============================================================================
