------------------------------ MODULE JsonRpc ------------------------------
(***************************************************************************)
(* The JSON-RPC server under both language-server adapters (lsp/           *)
(* transport.py).  One task reads the stream and starts a task per         *)
(* message; a message's task waits, first come first served, for one of    *)
(* MaxInFlight slots, looks its handler up and runs it.  Everything runs   *)
(* on one event loop, so a step here is what happens between two           *)
(* suspensions.  Writing a reply never suspends: the send lock is held     *)
(* only around a synchronous write.                                        *)
(*                                                                         *)
(* A message is a record [batch, items]; a message that is not a batch has *)
(* one item.  An item is [method, id, target]: the request id (NoId for a  *)
(* notification) and, of a "$/cancelRequest", the id to cancel.  Methods   *)
(* are told apart by what _dispatch_one does with them:                    *)
(*   "call"        a registered handler, which may suspend                 *)
(*   "exit"        the handler that stops the server                       *)
(*   "cancel"      $/cancelRequest                                         *)
(*   "unknown"     no such handler: refused, if it has an id               *)
(*   "invalid"     not a request: refused, id or not                       *)
(*   "unreadable"  a bad frame: the read loop itself answers it            *)
(***************************************************************************)
EXTENDS Naturals, Sequences, FiniteSets

CONSTANTS
  Ids, NoId,     \* request ids, and the id of a notification
  Messages,      \* the messages the client may write
  MaxMessages,   \* bound: messages on the stream
  MaxItems,      \* bound: items of a batch
  MaxInFlight,   \* max_in_flight
  Servers        \* the ways in which a server's handlers may end: sets of
                 \* "answer", and "cancelled" if one awaits something that
                 \* another task cancels

ASSUME IdsAssumption == NoId \notin Ids
ASSUME MessagesAssumption ==
  \A m \in Messages :
    /\ m.batch \in BOOLEAN
    /\ Len(m.items) \in 1..MaxItems
    /\ ~m.batch => Len(m.items) = 1
    /\ \A i \in 1..Len(m.items) :
         /\ m.items[i].method \in
              {"call", "exit", "cancel", "unknown", "invalid", "unreadable"}
         /\ m.items[i].method = "unreadable" => ~m.batch /\ m.items[i].id = NoId
         /\ m.items[i].id \in Ids \cup {NoId}
         /\ m.items[i].method = "cancel" =>
              m.items[i].id = NoId /\ m.items[i].target \in Ids
ASSUME ServersAssumption == Servers \subseteq SUBSET {"answer", "cancelled"}
ASSUME BoundsAssumption ==
  /\ MaxMessages \in Nat /\ MaxItems \in Nat
  /\ MaxInFlight \in Nat \ {0}

Numbers == 1..MaxMessages
Requests == Numbers \X (1..MaxItems)

VARIABLES
  outcomes,   \* how the handlers of this server may end
  stream,     \* the messages the client has written
  read,       \* how many of them run() has read
  reader,     \* run(): "open", "closing" (stopped, its read may still
              \* deliver), "closed", "returned"
  task,       \* task[n], of message n: "unread", "queued", "running", "done"
  item,       \* item[r]: "idle", "suspended", "answer", "silent", "cancelled"
  table,      \* _request_tasks: table[id] is a message number, 0 for none
  cancelled,  \* the messages whose task was cancelled
  sent        \* history: sent[r] is the number of replies written for r

vars == <<outcomes, stream, read, reader, task, item, table, cancelled, sent>>

Single(n) == ~stream[n].batch
Item(n) == stream[n].items[1]
ItemsOf(n) == {<<n, i>> : i \in 1..Len(stream[n].items)}
At(r) == stream[r[1]].items[r[2]]
Running == {n \in Numbers : task[n] = "running"}

Init ==
  /\ outcomes \in Servers
  /\ stream = <<>> /\ read = 0 /\ reader = "open"
  /\ task = [n \in Numbers |-> "unread"]
  /\ item = [r \in Requests |-> "idle"]
  /\ table = [id \in Ids |-> 0]
  /\ cancelled = {}
  /\ sent = [r \in Requests |-> 0]

----------------------------------------------------------------------------
(* The client, and run().                                                  *)

Write ==
  /\ reader \in {"open", "closing"} /\ Len(stream) < MaxMessages
  /\ \E m \in Messages : stream' = Append(stream, m)
  /\ UNCHANGED <<outcomes, read, reader, task, item, table, cancelled, sent>>

(* A read that was already resumed when the server stopped delivers its    *)
(* message; the loop then ends.  A bad frame is answered on the spot.      *)
Read ==
  /\ reader \in {"open", "closing"} /\ read < Len(stream)
  /\ read' = read + 1
  /\ reader' = IF reader = "open" THEN "open" ELSE "closed"
  /\ task' = [task EXCEPT ![read + 1] =
       IF Item(read + 1).method = "unreadable" THEN "done" ELSE "queued"]
  /\ UNCHANGED <<outcomes, stream, item, table, cancelled, sent>>

(* The client hung up, or the stopped reader was closed.                   *)
EndOfInput ==
  /\ \/ reader = "open" /\ read = Len(stream)
     \/ reader = "closing"
  /\ reader' = "closed"
  /\ UNCHANGED <<outcomes, stream, read, task, item, table, cancelled, sent>>

(* gather(self._tasks), then run() returns.                                *)
Return ==
  /\ reader = "closed"
  /\ \A n \in Numbers : task[n] \in {"unread", "done"}
  /\ reader' = "returned"
  /\ UNCHANGED <<outcomes, stream, read, task, item, table, cancelled, sent>>

----------------------------------------------------------------------------
(* _dispatch_one                                                           *)

(* The ways a handler can end: without an id there is no response.         *)
Ends(it) ==
  IF it.id = NoId
  THEN {IF o = "answer" THEN "silent" ELSE o : o \in outcomes}
  ELSE outcomes

(* Where the first run of _dispatch_one can leave an item.                 *)
Called(it) ==
  CASE it.method = "call"    -> {"suspended"} \cup Ends(it)
    [] it.method = "invalid" -> {"answer"}
    [] it.method = "cancel"  -> {"silent"}
    [] OTHER                 -> {IF it.id = NoId THEN "silent" ELSE "answer"}

(* The running task that a cancellation finds, given the table.            *)
CancelledBy(it, tab, self) ==
  {n \in Numbers : it.method = "cancel" /\ tab[it.target] = n /\ n # self}

Stopped(it) == IF it.method = "exit" /\ reader = "open" THEN "closing" ELSE reader

----------------------------------------------------------------------------
(* _dispatch                                                               *)

(* Slots given out in any order, and messages served one at a time.        *)
AdmittedUnordered(n) ==
  task[n] = "queued" /\ Cardinality(Running) < MaxInFlight
AdmittedAlone(n) ==
  task[n] = "queued" /\ \A k \in 1..(n - 1) : task[k] \notin {"queued", "running"}

(* A slot is free and every earlier message has had one.                   *)
Admitted(n) ==
  /\ task[n] = "queued"
  /\ \A k \in 1..(n - 1) : task[k] # "queued"
  /\ Cardinality(Running) < MaxInFlight

Registered(n) ==
  IF Item(n).id = NoId THEN table ELSE [table EXCEPT ![Item(n).id] = n]

(* The entry popped whoever owns it.                                       *)
UnregisteredAnyway(n, tab) ==
  IF Item(n).id = NoId THEN tab ELSE [tab EXCEPT ![Item(n).id] = 0]

(* The task leaves the table if its own entry is still there.              *)
Unregistered(n, tab) ==
  IF Item(n).id # NoId /\ tab[Item(n).id] = n
  THEN [tab EXCEPT ![Item(n).id] = 0] ELSE tab

(* A request answered before its task is over.                             *)
SettleEarly(n, s, tab) ==
  /\ item' = [item EXCEPT ![<<n, 1>>] = s]
  /\ task' = [task EXCEPT ![n] = IF item[<<n, 1>>] = "idle" THEN "running" ELSE "done"]
  /\ table' = IF s = "suspended" THEN tab ELSE Unregistered(n, tab)
  /\ sent' = [sent EXCEPT ![<<n, 1>>] =
       IF s = "answer" \/ (s = "cancelled" /\ Item(n).id # NoId) THEN @ + 1 ELSE @]

(* A cancelled request ended without a reply.                              *)
SettleSilently(n, s, tab) ==
  /\ item' = [item EXCEPT ![<<n, 1>>] = s]
  /\ task' = [task EXCEPT ![n] = IF s = "suspended" THEN "running" ELSE "done"]
  /\ table' = IF s = "suspended" THEN tab ELSE Unregistered(n, tab)
  /\ sent' = [sent EXCEPT ![<<n, 1>>] = IF s = "answer" THEN @ + 1 ELSE @]

(* A single message has run up to state s: suspended, or over and          *)
(* answered.  A cancelled request is answered with RequestCancelled.       *)
Settle(n, s, tab) ==
  /\ item' = [item EXCEPT ![<<n, 1>>] = s]
  /\ task' = [task EXCEPT ![n] = IF s = "suspended" THEN "running" ELSE "done"]
  /\ table' = IF s = "suspended" THEN tab ELSE Unregistered(n, tab)
  /\ sent' = [sent EXCEPT ![<<n, 1>>] =
       IF s = "answer" \/ (s = "cancelled" /\ Item(n).id # NoId) THEN @ + 1 ELSE @]

BeginSingle(n) ==
  /\ Admitted(n) /\ Single(n)
  /\ \E s \in Called(Item(n)) : Settle(n, s, Registered(n))
  /\ cancelled' = cancelled \cup CancelledBy(Item(n), Registered(n), n)
  /\ reader' = Stopped(Item(n))
  /\ UNCHANGED <<outcomes, stream, read>>

(* The handler goes on and ends, unless its task was cancelled.            *)
ResumeSingle(n) ==
  /\ task[n] = "running" /\ Single(n) /\ n \notin cancelled
  /\ \E s \in Ends(Item(n)) : Settle(n, s, table)
  /\ UNCHANGED <<outcomes, stream, read, reader, cancelled>>

(* CancelledError is raised where the handler was suspended, even if what  *)
(* it awaited is there by now.                                             *)
DeliverCancel(n) ==
  /\ task[n] = "running" /\ Single(n) /\ n \in cancelled
  /\ Settle(n, "cancelled", table)
  /\ UNCHANGED <<outcomes, stream, read, reader, cancelled>>

(* A batch: gather starts a task per item, and none is in the table.       *)
BeginBatch(n) ==
  /\ Admitted(n) /\ ~Single(n)
  /\ task' = [task EXCEPT ![n] = "running"]
  /\ UNCHANGED <<outcomes, stream, read, reader, item, table, cancelled, sent>>

BeginItem(r) ==
  /\ r[1] <= Len(stream) /\ r \in ItemsOf(r[1])
  /\ ~Single(r[1]) /\ task[r[1]] \in {"running", "done"} /\ item[r] = "idle"
  /\ \E s \in Called(At(r)) : item' = [item EXCEPT ![r] = s]
  /\ cancelled' = cancelled \cup CancelledBy(At(r), table, 0)
  /\ reader' = Stopped(At(r))
  /\ UNCHANGED <<outcomes, stream, read, task, table, sent>>

ResumeItem(r) ==
  /\ r[1] <= Len(stream) /\ ~Single(r[1]) /\ item[r] = "suspended"
  /\ \E s \in Ends(At(r)) : item' = [item EXCEPT ![r] = s]
  /\ UNCHANGED <<outcomes, stream, read, reader, task, table, cancelled, sent>>

(* Every item is over: the responses there are go out as one reply.        *)
Collect(n) ==
  /\ task[n] = "running" /\ ~Single(n)
  /\ \A r \in ItemsOf(n) : item[r] \in {"answer", "silent"}
  /\ task' = [task EXCEPT ![n] = "done"]
  /\ sent' = [r \in Requests |->
       IF r \in ItemsOf(n) /\ item[r] = "answer" THEN sent[r] + 1 ELSE sent[r]]
  /\ UNCHANGED <<outcomes, stream, read, reader, item, table, cancelled>>

(* The CancelledError of one item ends gather and the batch's task: no     *)
(* reply is written, and the other items go on without a reader.           *)
Abandon(n) ==
  /\ task[n] = "running" /\ ~Single(n)
  /\ \E r \in ItemsOf(n) : item[r] = "cancelled"
  /\ task' = [task EXCEPT ![n] = "done"]
  /\ UNCHANGED <<outcomes, stream, read, reader, item, table, cancelled, sent>>

----------------------------------------------------------------------------
Begin(n) == BeginSingle(n) \/ BeginBatch(n)

Next ==
  \/ Write \/ Read \/ EndOfInput \/ Return
  \/ \E n \in Numbers :
       Begin(n) \/ ResumeSingle(n) \/ DeliverCancel(n) \/ Collect(n) \/ Abandon(n)
  \/ \E r \in Requests : BeginItem(r) \/ ResumeItem(r)

(* The event loop runs every task that is ready.                           *)
LoopFairness ==
  /\ WF_vars(Read) /\ WF_vars(Return) /\ WF_vars(EndOfInput /\ reader = "closing")
  /\ \A n \in Numbers :
       WF_vars(Begin(n)) /\ WF_vars(DeliverCancel(n))
         /\ WF_vars(Collect(n)) /\ WF_vars(Abandon(n))
  /\ \A r \in Requests : WF_vars(BeginItem(r))

(* Handlers end.                                                           *)
HandlerFairness ==
  /\ \A n \in Numbers : WF_vars(ResumeSingle(n))
  /\ \A r \in Requests : WF_vars(ResumeItem(r))

LoopSpec == Init /\ [][Next]_vars /\ LoopFairness
Spec == LoopSpec /\ HandlerFairness

----------------------------------------------------------------------------
(* Properties.                                                             *)

TypeOK ==
  /\ outcomes \in Servers
  /\ stream \in Seq(Messages) /\ Len(stream) <= MaxMessages
  /\ read \in 0..Len(stream)
  /\ reader \in {"open", "closing", "closed", "returned"}
  /\ task \in [Numbers -> {"unread", "queued", "running", "done"}]
  /\ item \in [Requests -> {"idle", "suspended", "answer", "silent", "cancelled"}]
  /\ table \in [Ids -> 0..MaxMessages]
  /\ cancelled \subseteq Numbers
  /\ sent \in [Requests -> 0..1]

(* The requests read so far that JSON-RPC wants answered: those with an id *)
(* and those too malformed to have one.                                    *)
Due ==
  {r \in Requests :
     /\ r[1] <= read /\ r \in ItemsOf(r[1])
     /\ At(r).method # "unreadable"
     /\ At(r).id # NoId \/ At(r).method = "invalid"}

(* Of these, the ones that are certain to be answered: where a handler may  *)
(* end with a CancelledError, the requests of batches are not.             *)
Certain == {r \in Due : Single(r[1]) \/ "cancelled" \notin outcomes}

Promise ==
  INSTANCE RpcReplies WITH
    due <- Certain, open <- reader # "returned",
    sent <- [r \in Requests |-> IF r \in Certain THEN sent[r] ELSE 0]

(* Every request that was read is answered at most once, and the server     *)
(* returns only when it owes nothing, whatever order handlers end in,       *)
(* whatever is cancelled and however many times; those of a batch one of    *)
(* whose handlers may raise a CancelledError excepted.                      *)
RepliesKeptOnce == Promise!Safety

(* A batch whose task is over has been answered: each of its requests has  *)
(* a response in the one reply the batch gets.                             *)
BatchAnswered ==
  \A n \in 1..read : ~Single(n) /\ task[n] = "done" =>
    \A r \in ItemsOf(n) : At(r).id # NoId => sent[r] = 1

(* A live entry of _request_tasks is a running single request of that id,  *)
(* so that a cancellation never reaches a task that is over or another     *)
(* request's: the entry is replaced and removed by whoever owns it.        *)
TableIsLive ==
  \A id \in Ids : table[id] # 0 =>
    /\ task[table[id]] = "running"
    /\ Single(table[id]) /\ Item(table[id]).id = id

(* A running single request is in the table, hence can be cancelled,       *)
(* unless a later message took its id.                                     *)
CancellableUnlessReplaced ==
  \A n \in Running : Single(n) /\ Item(n).id # NoId =>
    \/ table[Item(n).id] = n
    \/ \E k \in (n + 1)..read :
         /\ task[k] \in {"running", "done"}
         /\ Single(k) /\ Item(k).id = Item(n).id

(* The request table is exact, however ids are used again.                 *)
TableExact == TableIsLive /\ CancellableUnlessReplaced

(* A cancellation that was read acts without help from any handler, unless  *)
(* every slot is taken: $/cancelRequest waits for a slot like any message.  *)
(* Of finitely many messages, none stays pending while a slot is free.      *)
Pending(n, k) ==
  /\ task[n] = "queued" /\ Single(n) /\ Item(n).method = "cancel"
  /\ task[k] = "running" /\ Single(k) /\ table[Item(n).target] = k
CancelActs ==
  []<>(\A n, k \in Numbers : Pending(n, k) => Cardinality(Running) = MaxInFlight)

(* A cancellation hits: when its turn comes, the last earlier request of   *)
(* its id has been answered or is the task it cancels.  It never arrives   *)
(* before that request is in the table, although both wait for slots.      *)
CancelHits ==
  [][\A n \in Numbers :
       /\ task[n] = "queued" /\ task'[n] # "queued"
       /\ Single(n) /\ Item(n).method = "cancel"
       => \A k \in 1..(n - 1) :
            /\ Single(k) /\ Item(k).id = Item(n).target
            /\ \A j \in (k + 1)..(n - 1) : Single(j) => Item(j).id # Item(n).target
            => task[k] = "done" \/ k \in cancelled']_vars
=============================================================================
