----------------------------- MODULE MCJsonRpc -----------------------------
(* Small instances of JsonRpc, one per kind of client: what a client may    *)
(* put on the stream is chosen in the initial state.                        *)
EXTENDS JsonRpc

CONSTANT Clients

VARIABLE client

Part(method, id, target) == [method |-> method, id |-> id, target |-> target]
Alone(part) == [batch |-> FALSE, items |-> <<part>>]
Batch(parts) == [batch |-> TRUE, items |-> parts]

Call(id) == Part("call", id, 0)
Cancel(id) == Part("cancel", NoId, id)

(* Messages of one item: two ids, one of them used again, notifications,    *)
(* cancellations, refusals, bad frames and the exit notification.           *)
SingleMessages ==
  {Alone(p) : p \in {Call(1), Call(2), Call(NoId), Cancel(1),
                     Part("unknown", 1, 0), Part("exit", NoId, 0),
                     Part("unreadable", NoId, 0)}}

(* Batches, with the single messages that meet them.                        *)
BatchMessages ==
  {Batch(<<Call(1), Call(2)>>), Batch(<<Cancel(1), Part("invalid", NoId, 0)>>),
   Batch(<<Part("exit", NoId, 0), Call(NoId)>>),
   Alone(Call(1)), Alone(Cancel(1))}

MCMessages == SingleMessages \cup BatchMessages

Answering == {"answer"}
MCServers == {Answering, {"answer", "cancelled"}}

(* "single" and "slow" send no batch; handlers of "slow" need never end.    *)
(* "batching" sends batches to handlers that only answer; one of "failing"  *)
(* may end with a CancelledError.                                           *)
Written == {stream[n] : n \in 1..Len(stream)}
Fits ==
  \/ client = "single" /\ Written \subseteq SingleMessages
  \/ client = "slow" /\ Written \subseteq SingleMessages /\ Len(stream) <= 3
  \/ client = "batching" /\ Written \subseteq BatchMessages /\ Len(stream) <= 3
  \/ client = "failing" /\ Written \subseteq BatchMessages /\ Len(stream) <= 2

MCInit == Init /\ client \in Clients /\ (outcomes = Answering <=> client = "batching")
MCNext == UNCHANGED client /\ Next /\ Fits'

all == <<vars, client>>
MCSpec ==
  /\ MCInit /\ [][MCNext]_all
  /\ WF_all(UNCHANGED client /\ Read) /\ WF_all(UNCHANGED client /\ Return)
  /\ WF_all(UNCHANGED client /\ EndOfInput /\ reader = "closing")
  /\ \A n \in Numbers :
       /\ WF_all(UNCHANGED client /\ (Begin(n) \/ DeliverCancel(n) \/ Collect(n) \/ Abandon(n)))
       /\ WF_all(UNCHANGED client /\ client # "slow" /\ ResumeSingle(n))
  /\ \A r \in Requests :
       WF_all(UNCHANGED client /\ (BeginItem(r) \/ ResumeItem(r)))

(* Where handlers end, a client that has stopped writing gets every reply.  *)
RepliesCome == []<>(client # "slow" => \A r \in Certain : sent[r] = 1)
=============================================================================
