----------------------------- MODULE RpcReplies -----------------------------
(***************************************************************************)
(* What a JSON-RPC server owes its client: a request that was accepted is  *)
(* answered, once, before the server returns.  Requests are identified by  *)
(* where they stand in the stream, not by the id the client gave them, so  *)
(* that two requests that share an id are still two requests.              *)
(***************************************************************************)
EXTENDS Naturals

CONSTANT Requests

VARIABLES
  due,    \* the requests accepted so far that must be answered
  sent,   \* sent[r]: the number of answers written for r
  open    \* the server has not returned

vars == <<due, sent, open>>

Init ==
  /\ due = {}
  /\ sent = [r \in Requests |-> 0]
  /\ open = TRUE

(* A message is read: the requests it carries are owed an answer.  One of  *)
(* its requests is never owed already.                                     *)
Accept ==
  /\ open
  /\ \E R \in SUBSET (Requests \ due) : due' = due \cup R
  /\ UNCHANGED <<sent, open>>

(* One reply is written.  It answers one request, or those of a batch.     *)
Answer(R) ==
  /\ R # {}
  /\ \A r \in R : sent[r] = 0
  /\ sent' = [r \in Requests |-> IF r \in R THEN 1 ELSE sent[r]]
  /\ UNCHANGED <<due, open>>

(* The server returns only when it owes nothing.                           *)
Return ==
  /\ open
  /\ \A r \in due : sent[r] = 1
  /\ open' = FALSE
  /\ UNCHANGED <<due, sent>>

Next == Accept \/ (\E R \in SUBSET due : Answer(R)) \/ Return

(* No request is answered twice or without being owed an answer.            *)
Safety == Init /\ [][Next]_vars

(* And each is answered in the end.                                         *)
Spec ==
  /\ Safety
  /\ \A r \in Requests : WF_vars(\E R \in SUBSET due : r \in R /\ Answer(R))
=============================================================================
