--------------------------- MODULE JsonRpcProofs ---------------------------
(***************************************************************************)
(* Theorems about JsonRpc, for every set of ids and messages, every number *)
(* of slots and all the ways handlers may end.                             *)
(*                                                                         *)
(* The argument.  Tasks get their slots in the order of their messages     *)
(* (InOrder), so the table, written when a task begins, names the latest   *)
(* message of an id that has begun: that is what a cancellation looks up.  *)
(* A task's state, its item's state and the number of replies written move *)
(* together (SinglesSettled, BatchesSettled), and an item that must be     *)
(* answered never ends silently (ItemsFit).                                *)
(***************************************************************************)
EXTENDS JsonRpc, TLAPS

Unreadable(n) == Single(n) /\ Item(n).method = "unreadable"

\* Messages are read in the order of the stream.
ReadInOrder == \A n \in Numbers : task[n] = "unread" <=> n > read

\* And begun in this order, but for those the read loop answers itself.
InOrder ==
  \A j, k \in 1..read :
    j < k /\ task[j] = "queued" => task[k] = "queued" \/ Unreadable(k)

\* Where the items of no message stay.
Unused ==
  \A r \in Requests :
    (r[1] <= read => r \notin ItemsOf(r[1])) => item[r] = "idle" /\ sent[r] = 0

\* What each state of an item says of its method and its id.
ItemsFit ==
  \A n \in 1..read : \A r \in ItemsOf(n) :
    /\ item[r] = "suspended" => At(r).method = "call"
    /\ item[r] = "silent" => At(r).id = NoId /\ At(r).method # "invalid"
    /\ item[r] = "cancelled" =>
         At(r).method = "call" /\ (Single(n) \/ "cancelled" \in outcomes)

SingleSettled(n) ==
  LET i == item[<<n, 1>>]
  IN  /\ Item(n).method = "unreadable" => task[n] = "done"
      /\ task[n] = "queued" => i = "idle"
      /\ task[n] = "running" => i = "suspended"
      /\ task[n] = "done" /\ Item(n).method # "unreadable" =>
           i \in {"answer", "silent", "cancelled"}
      /\ sent[<<n, 1>>] =
           IF i = "answer" \/ (i = "cancelled" /\ Item(n).id # NoId) THEN 1 ELSE 0

SinglesSettled == \A n \in 1..read : Single(n) => SingleSettled(n)

BatchesSettled ==
  \A n \in 1..read : ~Single(n) =>
    \A r \in ItemsOf(n) :
      /\ task[n] = "queued" => item[r] = "idle"
      /\ task[n] # "done" => sent[r] = 0
      /\ task[n] = "done" /\ "cancelled" \notin outcomes =>
           /\ item[r] \in {"answer", "silent"}
           /\ item[r] = "answer" => sent[r] = 1

IInv ==
  /\ TypeOK
  /\ ReadInOrder /\ InOrder
  /\ Unused /\ ItemsFit
  /\ SinglesSettled /\ BatchesSettled
  /\ TableExact

----------------------------------------------------------------------------
(* Messages and their items.                                               *)

LEMMA MessageFacts ==
  ASSUME TypeOK, NEW n \in 1..Len(stream)
  PROVE  /\ n \in Numbers /\ stream[n] \in Messages
         /\ ItemsOf(n) \subseteq Requests
         /\ \A r \in ItemsOf(n) : r[1] = n
         /\ Single(n) => ItemsOf(n) = {<<n, 1>>}
         /\ <<n, 1>> \in Requests /\ <<n, 1>> \in ItemsOf(n)
         /\ At(<<n, 1>>) = Item(n)
<1>1. n \in Numbers /\ stream[n] \in Messages
  BY BoundsAssumption DEF TypeOK, Numbers
<1>2. Len(stream[n].items) \in 1..MaxItems /\ (Single(n) => Len(stream[n].items) = 1)
  BY <1>1, MessagesAssumption DEF Single
<1>3. ItemsOf(n) \subseteq Requests /\ \A r \in ItemsOf(n) : r[1] = n
  BY <1>1, <1>2, BoundsAssumption DEF ItemsOf, Requests
<1>4. Single(n) => ItemsOf(n) = {<<n, 1>>}
  <2>1. SUFFICES ASSUME Single(n) PROVE ItemsOf(n) = {<<n, 1>>}
    OBVIOUS
  <2>2. Len(stream[n].items) = 1
    BY <1>2, <2>1
  <2>3. 1..1 = {1}
    OBVIOUS
  <2> QED  BY <2>2, <2>3 DEF ItemsOf
<1>5. <<n, 1>> \in Requests /\ <<n, 1>> \in ItemsOf(n)
  BY <1>1, <1>2, BoundsAssumption DEF ItemsOf, Requests
<1> QED  BY <1>1, <1>3, <1>4, <1>5 DEF At, Item

LEMMA PartFacts ==
  ASSUME TypeOK, NEW n \in 1..Len(stream), NEW r \in ItemsOf(n)
  PROVE  /\ At(r).method \in {"call", "exit", "cancel", "unknown", "invalid", "unreadable"}
         /\ At(r).id \in Ids \cup {NoId}
         /\ At(r).method = "unreadable" => Single(n) /\ At(r).id = NoId
         /\ At(r).method = "cancel" => At(r).id = NoId /\ At(r).target \in Ids
<1>1. stream[n] \in Messages
  BY MessageFacts
<1>2. PICK i \in 1..Len(stream[n].items) : r = <<n, i>>
  BY DEF ItemsOf
<1>3. At(r) = stream[n].items[i]
  BY <1>2 DEF At
<1> QED  BY <1>1, <1>3, MessagesAssumption DEF Single

\* Where an item can be after its handler was called, or has gone on.
LEMMA CalledFits ==
  ASSUME TypeOK, NEW n \in 1..Len(stream), NEW r \in ItemsOf(n), NEW s \in Called(At(r)),
         At(r).method # "unreadable"
  PROVE  /\ s \in {"suspended", "answer", "silent", "cancelled"}
         /\ s = "suspended" => At(r).method = "call"
         /\ s = "silent" => At(r).id = NoId /\ At(r).method # "invalid"
         /\ s = "cancelled" => At(r).method = "call" /\ "cancelled" \in outcomes
<1>1. outcomes \subseteq {"answer", "cancelled"}
  BY ServersAssumption DEF TypeOK
<1>2. \/ At(r).method = "call" /\ s \in {"suspended"} \cup Ends(At(r))
      \/ At(r).method = "invalid" /\ s = "answer"
      \/ At(r).method = "cancel" /\ s = "silent"
      \/ At(r).method \in {"exit", "unknown"}
           /\ s = IF At(r).id = NoId THEN "silent" ELSE "answer"
  BY PartFacts DEF Called
<1>3. s \in Ends(At(r)) =>
        /\ s \in {"answer", "silent", "cancelled"}
        /\ s = "silent" => At(r).id = NoId
        /\ s = "cancelled" => "cancelled" \in outcomes
  BY <1>1 DEF Ends
<1> QED  BY <1>2, <1>3, PartFacts

LEMMA EndsFit ==
  ASSUME TypeOK, NEW n \in 1..Len(stream), NEW r \in ItemsOf(n), NEW s \in Ends(At(r)),
         At(r).method = "call"
  PROVE  /\ s \in {"answer", "silent", "cancelled"}
         /\ s = "silent" => At(r).id = NoId
         /\ s = "cancelled" => "cancelled" \in outcomes
<1>1. outcomes \subseteq {"answer", "cancelled"}
  BY ServersAssumption DEF TypeOK
<1>2. CASE At(r).id = NoId
  BY <1>1, <1>2 DEF Ends
<1>3. CASE At(r).id # NoId
  BY <1>1, <1>3 DEF Ends
<1> QED  BY <1>2, <1>3

----------------------------------------------------------------------------
(* The client and the read loop.                                           *)

LEMMA WriteStep == ASSUME IInv, Write PROVE IInv'
<1> USE DEF IInv
<1>1. PICK m \in Messages : stream' = Append(stream, m)
  BY DEF Write
<1>2. /\ UNCHANGED <<outcomes, read, reader, task, item, table, cancelled, sent>>
      /\ read \in 0..Len(stream) /\ stream \in Seq(Messages) /\ Len(stream) < MaxMessages
      /\ \A n \in 1..read : n \in Numbers
  BY BoundsAssumption DEF Write, TypeOK, Numbers
<1>3. stream' \in Seq(Messages) /\ Len(stream') = Len(stream) + 1
      /\ \A n \in 1..read : stream'[n] = stream[n]
  BY <1>1, <1>2
<1>4. \A n \in 1..read :
        /\ Single(n)' = Single(n) /\ Item(n)' = Item(n) /\ ItemsOf(n)' = ItemsOf(n)
        /\ Unreadable(n)' = Unreadable(n)
  BY <1>3 DEF Single, Item, ItemsOf, Unreadable
<1>5. \A n \in 1..read : \A r \in ItemsOf(n) : At(r)' = At(r)
  <2> TAKE n \in 1..read
  <2>1. n \in 1..Len(stream)
    BY <1>2
  <2>2. \A r \in ItemsOf(n) : r[1] = n
    BY <2>1, MessageFacts
  <2> QED  BY <2>2, <1>3 DEF At
<1>6. TypeOK'
  BY <1>2, <1>3, BoundsAssumption DEF TypeOK
<1>7. ReadInOrder' /\ InOrder'
  BY <1>2, <1>4 DEF ReadInOrder, InOrder
<1>8. Unused'
  <2>1. SUFFICES ASSUME NEW r \in Requests, r[1] <= read => r \notin ItemsOf(r[1])'
                 PROVE  item[r] = "idle" /\ sent[r] = 0
    BY <1>2 DEF Unused
  <2>2. r[1] \in Numbers
    BY DEF Requests
  <2>3. r[1] <= read => r[1] \in 1..read
    BY <2>2, BoundsAssumption, <1>2 DEF Numbers
  <2> QED  BY <2>1, <2>3, <1>4 DEF Unused
<1>9. ItemsFit'
  BY <1>2, <1>4, <1>5 DEF ItemsFit
<1>10. SinglesSettled' /\ BatchesSettled'
  BY <1>2, <1>4 DEF SinglesSettled, SingleSettled, BatchesSettled
<1>11. TableExact'
  <2>1. \A id \in Ids : table[id] # 0 => table[id] \in 1..read
    BY <1>2, BoundsAssumption
       DEF TableExact, TableIsLive, TypeOK, ReadInOrder, Numbers
  <2>2. TableIsLive'
    BY <1>2, <1>4, <2>1 DEF TableExact, TableIsLive
  <2>3. \A n \in Numbers : task[n] = "running" => n \in 1..read
    BY <1>2, BoundsAssumption DEF ReadInOrder, Numbers
  <2>4. Running' = Running /\ \A n \in Running : n \in 1..read
    BY <1>2, <2>3 DEF Running
  <2>5. \A n \in Running : \A k \in (n + 1)..read : k \in 1..read
    BY <1>2, <2>4
  <2>6. CancellableUnlessReplaced'
    BY <1>2, <1>4, <2>4, <2>5 DEF TableExact, CancellableUnlessReplaced
  <2> QED  BY <2>2, <2>6 DEF TableExact
<1> QED  BY <1>6, <1>7, <1>8, <1>9, <1>10, <1>11

\* What the invariant says of items does not depend on the state of the reader.
LEMMA SettledStays ==
  ASSUME IInv, UNCHANGED <<outcomes, stream, read, task, item, sent>>
  PROVE  ItemsFit' /\ SinglesSettled' /\ BatchesSettled'
<1>1. /\ \A n : Single(n)' = Single(n) /\ Item(n)' = Item(n) /\ ItemsOf(n)' = ItemsOf(n)
      /\ \A r : At(r)' = At(r)
  BY DEF Single, Item, ItemsOf, At
<1>2. ItemsFit'
  BY <1>1 DEF IInv, ItemsFit
<1>3. \A n : SingleSettled(n)' = SingleSettled(n)
  BY <1>1 DEF SingleSettled
<1>4. SinglesSettled'
  BY <1>1, <1>3 DEF IInv, SinglesSettled
<1>5. BatchesSettled'
  BY <1>1 DEF IInv, BatchesSettled
<1> QED  BY <1>2, <1>4, <1>5

LEMMA ReaderStep == ASSUME IInv, EndOfInput \/ Return PROVE IInv'
<1> USE DEF IInv
<1>1. /\ UNCHANGED <<outcomes, stream, read, task, item, table, cancelled, sent>>
      /\ reader' \in {"closed", "returned"}
  BY DEF EndOfInput, Return
<1>2. TypeOK'
  BY <1>1 DEF TypeOK
<1>3. ReadInOrder' /\ InOrder' /\ Unused'
  BY <1>1 DEF ReadInOrder, InOrder, Unused, Unreadable, Single, Item, ItemsOf
<1>4. ItemsFit' /\ SinglesSettled' /\ BatchesSettled'
  BY <1>1, SettledStays
<1>5. TableExact'
  BY <1>1 DEF TableExact, TableIsLive, CancellableUnlessReplaced, Running, Single, Item
<1> QED  BY <1>2, <1>3, <1>4, <1>5

LEMMA ReadStep == ASSUME IInv, Read PROVE IInv'
<1> USE DEF IInv
<1> DEFINE n == read + 1
<1>1. /\ UNCHANGED <<outcomes, stream, item, table, cancelled, sent>>
      /\ read' = n /\ read < Len(stream)
      /\ read \in 0..Len(stream) /\ n \in 1..Len(stream) /\ n \in Numbers
      /\ reader' \in {"open", "closed"}
  BY BoundsAssumption DEF Read, TypeOK, Numbers
<1>2. task' = [task EXCEPT ![n] = IF Item(n).method = "unreadable" THEN "done" ELSE "queued"]
  BY DEF Read
<1>3. task \in [Numbers -> {"unread", "queued", "running", "done"}]
  BY DEF TypeOK
<1>4. \A k \in Numbers : k # n => task'[k] = task[k]
  BY <1>2, <1>3
<1>5. task'[n] = IF Item(n).method = "unreadable" THEN "done" ELSE "queued"
  BY <1>1, <1>2, <1>3
<1>6. /\ \A k \in 1..n : k \in 1..read \/ k = n
      /\ \A k \in 1..read : k \in 1..n /\ k \in Numbers /\ k < n /\ k \in 1..Len(stream)
  BY <1>1, BoundsAssumption DEF Numbers
<1>7. /\ \A k : Single(k)' = Single(k) /\ Item(k)' = Item(k) /\ ItemsOf(k)' = ItemsOf(k)
      /\ \A k : Unreadable(k)' = Unreadable(k)
      /\ \A r : At(r)' = At(r)
  BY <1>1 DEF Single, Item, ItemsOf, Unreadable, At
<1>8. \A r \in ItemsOf(n) : item[r] = "idle" /\ sent[r] = 0
  <2>1. \A r \in ItemsOf(n) : r \in Requests /\ r[1] = n
    BY <1>1, MessageFacts
  <2> QED  BY <2>1, <1>1 DEF Unused
<1>9. TypeOK'
  BY <1>1, <1>2, <1>3 DEF TypeOK
<1>10. ReadInOrder'
  BY <1>1, <1>4, <1>5, BoundsAssumption DEF ReadInOrder, Numbers
<1>11. InOrder'
  <2>1. SUFFICES ASSUME NEW j \in 1..n, NEW k \in 1..n, j < k, task'[j] = "queued"
                 PROVE  task'[k] = "queued" \/ Unreadable(k)
    BY <1>1, <1>7 DEF InOrder
  <2>2. CASE k = n
    <3>1. Item(n).method = "unreadable" => Single(n)
      BY <1>1, MessageFacts, PartFacts
    <3> QED  BY <2>2, <3>1, <1>5 DEF Unreadable
  <2>3. CASE k # n
    BY <2>1, <2>3, <1>1, <1>4, <1>6 DEF InOrder
  <2> QED  BY <2>2, <2>3
<1>12. Unused'
  BY <1>1, <1>7 DEF Unused, Requests, Numbers
<1>13. ItemsFit'
  BY <1>1, <1>6, <1>7, <1>8 DEF ItemsFit
<1>14. SinglesSettled'
  <2>1. SUFFICES ASSUME NEW k \in 1..n, Single(k) PROVE SingleSettled(k)'
    BY <1>1, <1>7 DEF SinglesSettled
  <2>2. CASE k = n
    <3>1. <<n, 1>> \in ItemsOf(n)
      BY <1>1, MessageFacts
    <3> QED  BY <2>2, <3>1, <1>1, <1>5, <1>7, <1>8 DEF SingleSettled
  <2>3. CASE k # n
    <3>1. k \in 1..read /\ task'[k] = task[k]
      BY <2>3, <1>4, <1>6
    <3> QED  BY <2>1, <3>1, <1>1, <1>7 DEF SinglesSettled, SingleSettled
  <2> QED  BY <2>2, <2>3
<1>15. BatchesSettled'
  <2>1. ~Single(n) => task'[n] = "queued"
    <3>1. Item(n).method = "unreadable" => Single(n)
      BY <1>1, MessageFacts, PartFacts
    <3> QED  BY <3>1, <1>5
  <2> QED  BY <2>1, <1>1, <1>4, <1>6, <1>7, <1>8 DEF BatchesSettled
<1>16. TableExact'
  <2>1. task[n] = "unread" /\ task'[n] # "running"
    BY <1>1, <1>5 DEF ReadInOrder
  <2>2. \A k \in Numbers : (task'[k] = "running") = (task[k] = "running")
    BY <2>1, <1>4
  <2>3. \A id \in Ids : table[id] # 0 => table[id] \in Numbers
    BY BoundsAssumption DEF TypeOK, Numbers
  <2>4. TableIsLive'
    BY <2>2, <2>3, <1>1, <1>7 DEF TableExact, TableIsLive
  <2>5. Running' = Running
    BY <2>2 DEF Running
  <2>6. \A k \in Running : \A j \in (k + 1)..read :
          j \in (k + 1)..n /\ j \in Numbers /\ j # n
    BY <1>1, BoundsAssumption DEF Running, Numbers
  <2>7. CancellableUnlessReplaced'
    BY <2>5, <2>6, <1>1, <1>4, <1>7 DEF TableExact, CancellableUnlessReplaced
  <2> QED  BY <2>4, <2>7 DEF TableExact
<1> QED  BY <1>9, <1>10, <1>11, <1>12, <1>13, <1>14, <1>15, <1>16

----------------------------------------------------------------------------
(* Single messages.                                                        *)

\* What the table must be when a task has run, before its own entry may go.
TableFits(n, tab) ==
  /\ tab \in [Ids -> 0..MaxMessages]
  /\ \A id \in Ids : tab[id] # 0 =>
       /\ tab[id] \in 1..read /\ Single(tab[id]) /\ Item(tab[id]).id = id
       /\ tab[id] = n \/ task[tab[id]] = "running"
  /\ \A m \in 1..read :
       (m = n \/ task[m] = "running") /\ Single(m) /\ Item(m).id # NoId =>
         \/ tab[Item(m).id] = m
         \/ \E k \in (m + 1)..read :
              /\ k = n \/ task[k] \in {"running", "done"}
              /\ Single(k) /\ Item(k).id = Item(m).id

\* A single message runs, to a suspension or to its end and its reply.
LEMMA SettleStep ==
  ASSUME IInv, NEW n \in 1..read, Single(n), Item(n).method # "unreadable",
         task[n] \in {"queued", "running"}, sent[<<n, 1>>] = 0,
         \A k \in 1..(n - 1) : task[k] # "queued",
         NEW s \in {"suspended", "answer", "silent", "cancelled"},
         s = "suspended" => Item(n).method = "call",
         s = "silent" => Item(n).id = NoId /\ Item(n).method # "invalid",
         s = "cancelled" => Item(n).method = "call",
         NEW tab, TableFits(n, tab), Settle(n, s, tab),
         UNCHANGED <<outcomes, stream, read>>,
         reader' \in {"open", "closing", "closed", "returned"}, cancelled' \subseteq Numbers
  PROVE  IInv'
<1> USE DEF IInv
<1> DEFINE r0 == <<n, 1>>
<1>1. /\ n \in Numbers /\ n \in 1..Len(stream)
      /\ \A k \in 1..read : k \in Numbers /\ k \in 1..Len(stream)
      /\ read \in 0..Len(stream) /\ read \in Nat
  BY BoundsAssumption DEF TypeOK, Numbers
<1>2. /\ r0 \in Requests /\ ItemsOf(n) = {r0} /\ At(r0) = Item(n)
  BY <1>1, MessageFacts
<1>3. /\ task \in [Numbers -> {"unread", "queued", "running", "done"}]
      /\ item \in [Requests -> {"idle", "suspended", "answer", "silent", "cancelled"}]
      /\ sent \in [Requests -> 0..1]
  BY DEF TypeOK
<1>4. /\ task' = [task EXCEPT ![n] = IF s = "suspended" THEN "running" ELSE "done"]
      /\ item' = [item EXCEPT ![r0] = s]
      /\ table' = IF s = "suspended" THEN tab ELSE Unregistered(n, tab)
      /\ sent' = [sent EXCEPT ![r0] =
           IF s = "answer" \/ (s = "cancelled" /\ Item(n).id # NoId) THEN @ + 1 ELSE @]
  BY DEF Settle
<1>5. /\ \A k \in Numbers : k # n => task'[k] = task[k]
      /\ task'[n] = IF s = "suspended" THEN "running" ELSE "done"
  BY <1>1, <1>3, <1>4
<1>6. /\ \A r \in Requests : r # r0 => item'[r] = item[r] /\ sent'[r] = sent[r]
      /\ item'[r0] = s
      /\ sent'[r0] = IF s = "answer" \/ (s = "cancelled" /\ Item(n).id # NoId) THEN 1 ELSE 0
  BY <1>2, <1>3, <1>4
<1>7. /\ \A k : Single(k)' = Single(k) /\ Item(k)' = Item(k) /\ ItemsOf(k)' = ItemsOf(k)
      /\ \A k : Unreadable(k)' = Unreadable(k)
      /\ \A r : At(r)' = At(r)
  BY DEF Single, Item, ItemsOf, Unreadable, At
<1>8. \A k \in 1..read : k # n => \A r \in ItemsOf(k) : r \in Requests /\ r # r0
  <2>1. \A k \in 1..read : \A r \in ItemsOf(k) : r \in Requests /\ r[1] = k
    BY <1>1, MessageFacts
  <2> QED  BY <2>1
<1>9. table' \in [Ids -> 0..MaxMessages]
  <2>1. tab \in [Ids -> 0..MaxMessages] /\ 0 \in 0..MaxMessages
    BY BoundsAssumption DEF TableFits
  <2>2. [tab EXCEPT ![Item(n).id] = 0] \in [Ids -> 0..MaxMessages]
    BY <2>1
  <2> QED  BY <1>4, <2>1, <2>2 DEF Unregistered
<1>10. TypeOK'
  <2>1. task' \in [Numbers -> {"unread", "queued", "running", "done"}]
    BY <1>3, <1>4
  <2>2. item' \in [Requests -> {"idle", "suspended", "answer", "silent", "cancelled"}]
    BY <1>3, <1>4
  <2>3. sent' \in [Requests -> 0..1]
    BY <1>2, <1>3, <1>4
  <2> QED  BY <1>9, <2>1, <2>2, <2>3 DEF TypeOK
<1>11. ReadInOrder'
  BY <1>1, <1>5 DEF ReadInOrder
<1>12. InOrder'
  <2>1. SUFFICES ASSUME NEW j \in 1..read, NEW k \in 1..read, j < k, task'[j] = "queued"
                 PROVE  task'[k] = "queued" \/ Unreadable(k)
    BY <1>7 DEF InOrder
  <2>2. j # n /\ task[j] = "queued"
    BY <2>1, <1>1, <1>5
  <2>3. k # n
    BY <2>1, <2>2
  <2> QED  BY <2>1, <2>2, <2>3, <1>1, <1>5 DEF InOrder
<1>13. Unused'
  <2>1. SUFFICES ASSUME NEW r \in Requests, r[1] <= read => r \notin ItemsOf(r[1])
                 PROVE  item'[r] = "idle" /\ sent'[r] = 0
    BY <1>7 DEF Unused
  <2>2. r # r0
    BY <2>1, <1>1, <1>2
  <2> QED  BY <2>1, <2>2, <1>6 DEF Unused
<1>14. ItemsFit'
  <2>1. SUFFICES ASSUME NEW k \in 1..read, NEW r \in ItemsOf(k)
                 PROVE  /\ item'[r] = "suspended" => At(r).method = "call"
                        /\ item'[r] = "silent" => At(r).id = NoId /\ At(r).method # "invalid"
                        /\ item'[r] = "cancelled" => /\ At(r).method = "call"
                                                     /\ Single(k) \/ "cancelled" \in outcomes
    BY <1>7 DEF ItemsFit
  <2>2. CASE k = n
    BY <2>2, <1>2, <1>6
  <2>3. CASE k # n
    BY <2>3, <1>6, <1>8 DEF ItemsFit
  <2> QED  BY <2>2, <2>3
<1>15. SinglesSettled'
  <2>1. SUFFICES ASSUME NEW k \in 1..read, Single(k) PROVE SingleSettled(k)'
    BY <1>7 DEF SinglesSettled
  <2>2. CASE k = n
    BY <2>2, <1>5, <1>6, <1>7 DEF SingleSettled
  <2>3. CASE k # n
    <3>1. <<k, 1>> \in ItemsOf(k)
      BY <1>1, MessageFacts
    <3>2. /\ item'[<<k, 1>>] = item[<<k, 1>>] /\ sent'[<<k, 1>>] = sent[<<k, 1>>]
          /\ task'[k] = task[k]
      BY <2>3, <3>1, <1>1, <1>5, <1>6, <1>8
    <3> QED  BY <2>1, <3>2, <1>7 DEF SinglesSettled, SingleSettled
  <2> QED  BY <2>2, <2>3
<1>16. BatchesSettled'
  BY <1>1, <1>5, <1>6, <1>7, <1>8 DEF BatchesSettled
<1>17. TableIsLive'
  <2>1. SUFFICES ASSUME NEW id \in Ids, table'[id] # 0
                 PROVE  /\ task'[table'[id]] = "running"
                        /\ Single(table'[id]) /\ Item(table'[id]).id = id
    BY <1>7 DEF TableIsLive
  <2>2. table'[id] = tab[id] /\ tab[id] # 0 /\ (tab[id] = n => s = "suspended")
    BY <2>1, <1>4, IdsAssumption DEF Unregistered, TableFits
  <2> QED  BY <2>2, <1>1, <1>5 DEF TableFits
<1>18. CancellableUnlessReplaced'
  <2>1. SUFFICES ASSUME NEW m \in Numbers, task'[m] = "running", Single(m), Item(m).id # NoId
                 PROVE  \/ table'[Item(m).id] = m
                        \/ \E k \in (m + 1)..read :
                             /\ task'[k] \in {"running", "done"}
                             /\ Single(k) /\ Item(k).id = Item(m).id
    BY <1>7 DEF CancellableUnlessReplaced, Running
  <2>2. m \in 1..read /\ (m = n \/ task[m] = "running") /\ (m = n => s = "suspended")
    BY <2>1, <1>1, <1>5 DEF ReadInOrder, Numbers
  <2>3. \A k \in (m + 1)..read : k \in Numbers
    BY <1>1, <2>2
  <2>4. CASE tab[Item(m).id] = m
    <3>1. At(<<m, 1>>) = Item(m) /\ <<m, 1>> \in ItemsOf(m)
      BY <1>1, <2>2, MessageFacts
    <3>2. Item(m).id \in Ids
      BY <3>1, <1>1, <2>1, <2>2, PartFacts
    <3>3. table'[Item(m).id] = m
      BY <2>1, <2>2, <2>4, <3>2, <1>4 DEF Unregistered, TableFits
    <3> QED  BY <3>3
  <2>5. CASE tab[Item(m).id] # m
    <3>1. PICK k \in (m + 1)..read :
            /\ k = n \/ task[k] \in {"running", "done"}
            /\ Single(k) /\ Item(k).id = Item(m).id
      BY <2>1, <2>2, <2>5 DEF TableFits
    <3>2. task'[k] \in {"running", "done"}
      BY <3>1, <2>3, <1>5
    <3> QED  BY <3>1, <3>2
  <2> QED  BY <2>4, <2>5
<1> QED
  BY <1>10, <1>11, <1>12, <1>13, <1>14, <1>15, <1>16, <1>17, <1>18 DEF TableExact

\* A task that has its slot is past every earlier one, and is no bad frame.
LEMMA RunningFacts ==
  ASSUME IInv, NEW n \in Numbers, task[n] \in {"queued", "running"}
  PROVE  /\ n \in 1..read /\ n \in 1..Len(stream)
         /\ ~Unreadable(n)
         /\ task[n] = "running" => \A k \in 1..(n - 1) : task[k] # "queued"
         /\ task[n] = "running" => \A k \in (n + 1)..read : k \in Numbers
<1> USE DEF IInv
<1>1. n \in 1..read /\ read \in 0..Len(stream) /\ Len(stream) <= MaxMessages
  BY BoundsAssumption DEF TypeOK, ReadInOrder, Numbers
<1>2. n \in 1..Len(stream)
  BY <1>1
<1>3. ~Unreadable(n)
  BY <1>1 DEF SinglesSettled, SingleSettled, Unreadable
<1>4. task[n] = "running" => \A k \in 1..(n - 1) : task[k] # "queued"
  <2>1. \A k \in 1..(n - 1) : k \in 1..read /\ k < n
    BY <1>1
  <2> QED  BY <1>1, <1>3, <2>1 DEF InOrder
<1>5. \A k \in (n + 1)..read : k \in Numbers
  BY <1>1, BoundsAssumption DEF Numbers
<1> QED  BY <1>1, <1>2, <1>3, <1>4, <1>5

\* The first in the queue has no running task behind it.
LEMMA FirstInLine ==
  ASSUME IInv, NEW n \in Numbers, task[n] = "queued"
  PROVE  \A m \in 1..read : task[m] = "running" => m < n
<1> SUFFICES ASSUME NEW m \in 1..read, task[m] = "running" PROVE m < n
  OBVIOUS
<1>1. m \in Numbers /\ m \in Nat /\ n \in Nat /\ m # n
  BY BoundsAssumption DEF IInv, TypeOK, Numbers
<1>2. ~(n < m)
  BY <1>1, RunningFacts DEF IInv, InOrder
<1> QED  BY <1>1, <1>2

\* The entries that are there, and the one a beginning request makes.
LEMMA RegisteredFits ==
  ASSUME IInv, NEW n \in Numbers, task[n] = "queued", Single(n)
  PROVE  TableFits(n, Registered(n))
<1> USE DEF IInv
<1>1. /\ n \in 1..read /\ n \in 1..Len(stream) /\ read \in 0..Len(stream)
      /\ \A m \in 1..read : m \in Numbers
      /\ table \in [Ids -> 0..MaxMessages] /\ n \in 0..MaxMessages
  BY RunningFacts, BoundsAssumption DEF TypeOK, Numbers
<1>2. Item(n).id \in Ids \cup {NoId}
  BY <1>1, MessageFacts, PartFacts
<1>3. \A id \in Ids : table[id] # 0 =>
        /\ table[id] \in 1..read /\ task[table[id]] = "running"
        /\ Single(table[id]) /\ Item(table[id]).id = id
  <2> TAKE id \in Ids
  <2>1. table[id] # 0 => table[id] \in Numbers
    BY <1>1, BoundsAssumption DEF Numbers
  <2> QED  BY <2>1, RunningFacts DEF TableExact, TableIsLive
<1>4. /\ Registered(n) \in [Ids -> 0..MaxMessages]
      /\ \A id \in Ids : Registered(n)[id] = IF Item(n).id = id THEN n ELSE table[id]
  <2>1. [table EXCEPT ![Item(n).id] = n] \in [Ids -> 0..MaxMessages]
    BY <1>1
  <2> QED  BY <1>1, <1>2, <2>1, IdsAssumption DEF Registered
<1>5. \A id \in Ids : Registered(n)[id] # 0 =>
        /\ Registered(n)[id] \in 1..read
        /\ Single(Registered(n)[id]) /\ Item(Registered(n)[id]).id = id
        /\ Registered(n)[id] = n \/ task[Registered(n)[id]] = "running"
  BY <1>1, <1>3, <1>4
<1>6. ASSUME NEW m \in 1..read, m = n \/ task[m] = "running", Single(m), Item(m).id # NoId
      PROVE  \/ Registered(n)[Item(m).id] = m
             \/ \E k \in (m + 1)..read :
                  /\ k = n \/ task[k] \in {"running", "done"}
                  /\ Single(k) /\ Item(k).id = Item(m).id
  <2>1. Item(m).id \in Ids
    <3>1. m \in 1..Len(stream)
      BY <1>1
    <3>2. <<m, 1>> \in ItemsOf(m) /\ At(<<m, 1>>) = Item(m)
      BY <3>1, MessageFacts DEF At, Item
    <3>3. At(<<m, 1>>).id \in Ids \cup {NoId}
      BY <3>1, <3>2, PartFacts
    <3> QED  BY <3>2, <3>3, <1>6
  <2>2. CASE m = n
    <3>1. \A id \in Ids : Item(n).id = id => Registered(n)[id] = n
      BY <1>4
    <3> QED  BY <2>1, <2>2, <3>1
  <2>3. CASE m # n /\ Item(m).id = Item(n).id
    <3>1. n \in (m + 1)..read
      BY <1>1, <1>6, <2>3, FirstInLine
    <3> QED  BY <3>1, <2>3
  <2>4. CASE m # n /\ Item(m).id # Item(n).id
    <3>1. Registered(n)[Item(m).id] = table[Item(m).id]
      BY <2>1, <2>4, <1>4
    <3> QED  BY <3>1, <2>4, <1>1, <1>6 DEF TableExact, CancellableUnlessReplaced, Running
  <2> QED  BY <2>2, <2>3, <2>4
<1> QED  BY <1>4, <1>5, <1>6 DEF TableFits

LEMMA TableFitsRunning ==
  ASSUME IInv, NEW n \in Numbers, task[n] = "running"
  PROVE  TableFits(n, table)
<1> USE DEF IInv
<1>1. /\ table \in [Ids -> 0..MaxMessages]
      /\ \A m \in 1..read : m \in Numbers
  BY BoundsAssumption DEF TypeOK, Numbers
<1>2. \A id \in Ids : table[id] # 0 =>
        /\ table[id] \in 1..read /\ task[table[id]] = "running"
        /\ Single(table[id]) /\ Item(table[id]).id = id
  <2> TAKE id \in Ids
  <2>1. table[id] # 0 => table[id] \in Numbers
    BY <1>1, BoundsAssumption DEF Numbers
  <2> QED  BY <2>1, RunningFacts DEF TableExact, TableIsLive
<1> QED  BY <1>1, <1>2 DEF TableFits, TableExact, CancellableUnlessReplaced, Running

LEMMA CancelTypes == \A it, tab, self : CancelledBy(it, tab, self) \subseteq Numbers
BY DEF CancelledBy

LEMMA StoppedType ==
  ASSUME TypeOK, NEW it
  PROVE  Stopped(it) \in {"open", "closing", "closed", "returned"}
BY DEF TypeOK, Stopped

LEMMA BeginSingleStep == ASSUME IInv, NEW n \in Numbers, BeginSingle(n) PROVE IInv'
<1> USE DEF IInv
<1>1. /\ task[n] = "queued" /\ Single(n)
      /\ \A k \in 1..(n - 1) : task[k] # "queued"
      /\ UNCHANGED <<outcomes, stream, read>>
      /\ reader' = Stopped(Item(n))
      /\ cancelled' = cancelled \cup CancelledBy(Item(n), Registered(n), n)
  BY DEF BeginSingle, Admitted
<1>2. /\ n \in 1..read /\ n \in 1..Len(stream)
      /\ <<n, 1>> \in ItemsOf(n) /\ At(<<n, 1>>) = Item(n)
  BY <1>1, RunningFacts, MessageFacts
<1>3. PICK s \in Called(Item(n)) : Settle(n, s, Registered(n))
  BY DEF BeginSingle
<1>4. item[<<n, 1>>] = "idle" /\ sent[<<n, 1>>] = 0
  BY <1>1, <1>2 DEF SinglesSettled, SingleSettled
<1>5. reader' \in {"open", "closing", "closed", "returned"} /\ cancelled' \subseteq Numbers
  BY <1>1, StoppedType, CancelTypes DEF TypeOK
<1>6. TableFits(n, Registered(n))
  BY <1>1, RegisteredFits
<1>7. Item(n).method # "unreadable"
  BY <1>1, RunningFacts DEF Unreadable
<1>8. /\ s \in {"suspended", "answer", "silent", "cancelled"}
      /\ s = "suspended" => Item(n).method = "call"
      /\ s = "silent" => Item(n).id = NoId /\ Item(n).method # "invalid"
      /\ s = "cancelled" => Item(n).method = "call"
  BY <1>2, <1>3, <1>7, CalledFits
<1> QED  BY <1>1, <1>2, <1>3, <1>4, <1>5, <1>6, <1>7, <1>8, SettleStep

LEMMA ResumeSingleStep ==
  ASSUME IInv, NEW n \in Numbers, ResumeSingle(n) \/ DeliverCancel(n)
  PROVE  IInv'
<1> USE DEF IInv
<1>1. /\ task[n] = "running" /\ Single(n)
      /\ UNCHANGED <<outcomes, stream, read, reader, cancelled>>
  BY DEF ResumeSingle, DeliverCancel
<1>2. /\ n \in 1..read /\ n \in 1..Len(stream)
      /\ <<n, 1>> \in ItemsOf(n) /\ At(<<n, 1>>) = Item(n)
      /\ \A k \in 1..(n - 1) : task[k] # "queued"
      /\ Item(n).method # "unreadable"
  BY <1>1, RunningFacts, MessageFacts DEF Unreadable
<1>3. item[<<n, 1>>] = "suspended" /\ sent[<<n, 1>>] = 0
  BY <1>1, <1>2 DEF SinglesSettled, SingleSettled
<1>4. Item(n).method = "call"
  BY <1>2, <1>3 DEF ItemsFit
<1>5. PICK s \in Ends(Item(n)) \cup {"cancelled"} : Settle(n, s, table)
  BY DEF ResumeSingle, DeliverCancel
<1>6. /\ s \in {"answer", "silent", "cancelled"}
      /\ s = "silent" => Item(n).id = NoId
  BY <1>2, <1>4, <1>5, EndsFit
<1>7. TableFits(n, table)
  BY <1>1, TableFitsRunning
<1>8. reader' \in {"open", "closing", "closed", "returned"} /\ cancelled' \subseteq Numbers
  BY <1>1 DEF TypeOK
<1> QED  BY <1>1, <1>2, <1>3, <1>4, <1>5, <1>6, <1>7, <1>8, SettleStep

----------------------------------------------------------------------------
(* Batches.                                                                *)

\* The task of a batch begins or ends; its replies are written by then.
LEMMA BatchStep ==
  ASSUME IInv, NEW n \in Numbers, ~Single(n), task[n] \in {"queued", "running"},
         NEW w \in {"running", "done"}, task' = [task EXCEPT ![n] = w],
         \A k \in 1..(n - 1) : task[k] # "queued",
         UNCHANGED <<outcomes, stream, read, reader, item, table, cancelled>>,
         sent' \in [Requests -> 0..1],
         \A r \in Requests : r \notin ItemsOf(n) => sent'[r] = sent[r],
         w = "running" => UNCHANGED sent,
         w = "done" /\ "cancelled" \notin outcomes =>
           \A r \in ItemsOf(n) : /\ item[r] \in {"answer", "silent"}
                                 /\ item[r] = "answer" => sent'[r] = 1
  PROVE  IInv'
<1> USE DEF IInv
<1>1. /\ n \in 1..read /\ \A k \in 1..read : k \in Numbers /\ k \in 1..Len(stream)
      /\ read \in Nat
  BY RunningFacts, BoundsAssumption DEF TypeOK, Numbers
<1>2. /\ \A k \in Numbers : k # n => task'[k] = task[k]
      /\ task'[n] = w
  BY DEF TypeOK
<1>3. /\ \A k : Single(k)' = Single(k) /\ Item(k)' = Item(k) /\ ItemsOf(k)' = ItemsOf(k)
      /\ \A k : Unreadable(k)' = Unreadable(k)
      /\ \A r : At(r)' = At(r)
  BY DEF Single, Item, ItemsOf, Unreadable, At
<1>4. \A k \in 1..read : \A r \in ItemsOf(k) : r \in Requests /\ r[1] = k
  BY <1>1, MessageFacts
<1>5. \A k \in 1..read : k # n => \A r \in ItemsOf(k) : sent'[r] = sent[r]
  BY <1>1, <1>4
<1>6. TypeOK'
  BY DEF TypeOK
<1>7. ReadInOrder'
  BY <1>1, <1>2 DEF ReadInOrder
<1>8. InOrder'
  <2>1. SUFFICES ASSUME NEW j \in 1..read, NEW k \in 1..read, j < k, task'[j] = "queued"
                 PROVE  task'[k] = "queued" \/ Unreadable(k)
    BY <1>3 DEF InOrder
  <2>2. j # n /\ task[j] = "queued"
    BY <2>1, <1>1, <1>2
  <2>3. k # n
    BY <2>1, <2>2
  <2> QED  BY <2>1, <2>2, <2>3, <1>1, <1>2 DEF InOrder
<1>9. Unused'
  <2>1. SUFFICES ASSUME NEW r \in Requests, r[1] <= read => r \notin ItemsOf(r[1])
                 PROVE  item[r] = "idle" /\ sent'[r] = 0
    BY <1>3 DEF Unused
  <2>2. r \notin ItemsOf(n)
    BY <2>1, <1>1, <1>4
  <2> QED  BY <2>1, <2>2 DEF Unused
<1>10. ItemsFit'
  BY <1>3 DEF ItemsFit
<1>11. SinglesSettled'
  <2>1. SUFFICES ASSUME NEW k \in 1..read, Single(k) PROVE SingleSettled(k)'
    BY <1>3 DEF SinglesSettled
  <2>2. k # n /\ <<k, 1>> \in ItemsOf(k)
    BY <2>1, <1>1, MessageFacts
  <2>3. task'[k] = task[k] /\ sent'[<<k, 1>>] = sent[<<k, 1>>]
    BY <2>2, <1>1, <1>2, <1>5
  <2> QED  BY <2>1, <2>3, <1>3 DEF SinglesSettled, SingleSettled
<1>12. BatchesSettled'
  <2>1. SUFFICES ASSUME NEW k \in 1..read, ~Single(k), NEW r \in ItemsOf(k)
                 PROVE  /\ task'[k] = "queued" => item[r] = "idle"
                        /\ task'[k] # "done" => sent'[r] = 0
                        /\ task'[k] = "done" /\ "cancelled" \notin outcomes =>
                             /\ item[r] \in {"answer", "silent"}
                             /\ item[r] = "answer" => sent'[r] = 1
    BY <1>3 DEF BatchesSettled
  <2>2. CASE k = n
    BY <2>1, <2>2, <1>1, <1>2 DEF BatchesSettled
  <2>3. CASE k # n
    BY <2>1, <2>3, <1>1, <1>2, <1>5 DEF BatchesSettled
  <2> QED  BY <2>2, <2>3
<1>13. TableIsLive'
  <2>1. SUFFICES ASSUME NEW id \in Ids, table[id] # 0
                 PROVE  /\ task'[table[id]] = "running"
                        /\ Single(table[id]) /\ Item(table[id]).id = id
    BY <1>3 DEF TableIsLive
  <2>2. table[id] \in Numbers
    BY <2>1, BoundsAssumption DEF TypeOK, Numbers
  <2> QED  BY <2>1, <2>2, <1>2 DEF TableExact, TableIsLive
<1>14. CancellableUnlessReplaced'
  <2>1. SUFFICES ASSUME NEW m \in Numbers, task'[m] = "running", Single(m), Item(m).id # NoId
                 PROVE  \/ table[Item(m).id] = m
                        \/ \E k \in (m + 1)..read :
                             /\ task'[k] \in {"running", "done"}
                             /\ Single(k) /\ Item(k).id = Item(m).id
    BY <1>3 DEF CancellableUnlessReplaced, Running
  <2>2. m # n /\ task[m] = "running"
    BY <2>1, <1>2
  <2>3. \A k \in (m + 1)..read : k \in Numbers
    BY <2>2, RunningFacts
  <2> QED
    BY <2>1, <2>2, <2>3, <1>2 DEF TableExact, CancellableUnlessReplaced, Running
<1> QED
  BY <1>6, <1>7, <1>8, <1>9, <1>10, <1>11, <1>12, <1>13, <1>14 DEF TableExact

\* An item of a batch runs.
LEMMA ItemStep ==
  ASSUME IInv, NEW n \in 1..read, ~Single(n), NEW r \in ItemsOf(n),
         item[r] \in {"idle", "suspended"}, task[n] # "queued",
         NEW s \in {"suspended", "answer", "silent", "cancelled"},
         item' = [item EXCEPT ![r] = s],
         s = "suspended" => At(r).method = "call",
         s = "silent" => At(r).id = NoId /\ At(r).method # "invalid",
         s = "cancelled" => At(r).method = "call" /\ "cancelled" \in outcomes,
         UNCHANGED <<outcomes, stream, read, task, table, sent>>,
         reader' \in {"open", "closing", "closed", "returned"}, cancelled' \subseteq Numbers
  PROVE  IInv'
<1> USE DEF IInv
<1>1. \A k \in 1..read : k \in Numbers /\ k \in 1..Len(stream)
  BY BoundsAssumption DEF TypeOK, Numbers
<1>2. \A k \in 1..read : \A q \in ItemsOf(k) : q \in Requests /\ q[1] = k
  BY <1>1, MessageFacts
<1>3. /\ \A q \in Requests : q # r => item'[q] = item[q]
      /\ item'[r] = s
  BY <1>2 DEF TypeOK
<1>4. /\ \A k : Single(k)' = Single(k) /\ Item(k)' = Item(k) /\ ItemsOf(k)' = ItemsOf(k)
      /\ \A k : Unreadable(k)' = Unreadable(k)
      /\ \A q : At(q)' = At(q)
  BY DEF Single, Item, ItemsOf, Unreadable, At
<1>5. \A k \in 1..read : k # n => \A q \in ItemsOf(k) : q # r
  BY <1>2
<1>6. TypeOK'
  BY DEF TypeOK
<1>7. ReadInOrder' /\ InOrder'
  BY <1>4 DEF ReadInOrder, InOrder
<1>8. Unused'
  <2>1. SUFFICES ASSUME NEW q \in Requests, q[1] <= read => q \notin ItemsOf(q[1])
                 PROVE  item'[q] = "idle" /\ sent[q] = 0
    BY <1>4 DEF Unused
  <2>2. n <= read /\ r[1] = n
    BY <1>2 DEF TypeOK
  <2>3. q # r
    BY <2>1, <2>2
  <2> QED  BY <2>1, <2>3, <1>3 DEF Unused
<1>9. ItemsFit'
  <2>1. SUFFICES ASSUME NEW k \in 1..read, NEW q \in ItemsOf(k)
                 PROVE  /\ item'[q] = "suspended" => At(q).method = "call"
                        /\ item'[q] = "silent" => At(q).id = NoId /\ At(q).method # "invalid"
                        /\ item'[q] = "cancelled" => /\ At(q).method = "call"
                                                     /\ Single(k) \/ "cancelled" \in outcomes
    BY <1>4 DEF ItemsFit
  <2> QED  BY <1>2, <1>3 DEF ItemsFit
<1>10. SinglesSettled'
  <2>1. SUFFICES ASSUME NEW k \in 1..read, Single(k) PROVE SingleSettled(k)'
    BY <1>4 DEF SinglesSettled
  <2>2. k # n /\ <<k, 1>> \in ItemsOf(k)
    BY <2>1, <1>1, MessageFacts
  <2>3. item'[<<k, 1>>] = item[<<k, 1>>]
    BY <2>2, <1>2, <1>3, <1>5
  <2> QED  BY <2>1, <2>3, <1>4 DEF SinglesSettled, SingleSettled
<1>11. BatchesSettled'
  <2>1. SUFFICES ASSUME NEW k \in 1..read, ~Single(k), NEW q \in ItemsOf(k)
                 PROVE  /\ task[k] = "queued" => item'[q] = "idle"
                        /\ task[k] # "done" => sent[q] = 0
                        /\ task[k] = "done" /\ "cancelled" \notin outcomes =>
                             /\ item'[q] \in {"answer", "silent"}
                             /\ item'[q] = "answer" => sent[q] = 1
    BY <1>4 DEF BatchesSettled
  <2>2. CASE k = n
    <3>1. ~(task[n] = "done" /\ "cancelled" \notin outcomes)
      BY DEF BatchesSettled
    <3> QED  BY <2>1, <2>2, <3>1 DEF BatchesSettled
  <2>3. CASE k # n
    <3>1. item'[q] = item[q]
      BY <2>1, <2>3, <1>2, <1>3, <1>5
    <3> QED  BY <2>1, <3>1 DEF BatchesSettled
  <2> QED  BY <2>2, <2>3
<1>12. TableExact'
  BY <1>4 DEF TableExact, TableIsLive, CancellableUnlessReplaced, Running
<1> QED  BY <1>6, <1>7, <1>8, <1>9, <1>10, <1>11, <1>12

LEMMA BeginBatchStep == ASSUME IInv, NEW n \in Numbers, BeginBatch(n) PROVE IInv'
<1>1. /\ task[n] = "queued" /\ ~Single(n)
      /\ \A k \in 1..(n - 1) : task[k] # "queued"
      /\ task' = [task EXCEPT ![n] = "running"]
      /\ UNCHANGED <<outcomes, stream, read, reader, item, table, cancelled, sent>>
  BY DEF BeginBatch, Admitted
<1>2. sent' \in [Requests -> 0..1]
  BY <1>1 DEF IInv, TypeOK
<1> QED  BY <1>1, <1>2, BatchStep

LEMMA CollectStep == ASSUME IInv, NEW n \in Numbers, Collect(n) PROVE IInv'
<1> USE DEF IInv
<1>1. /\ task[n] = "running" /\ ~Single(n)
      /\ \A r \in ItemsOf(n) : item[r] \in {"answer", "silent"}
      /\ task' = [task EXCEPT ![n] = "done"]
      /\ UNCHANGED <<outcomes, stream, read, reader, item, table, cancelled>>
      /\ sent' = [r \in Requests |->
           IF r \in ItemsOf(n) /\ item[r] = "answer" THEN sent[r] + 1 ELSE sent[r]]
  BY DEF Collect
<1>2. /\ n \in 1..read /\ n \in 1..Len(stream)
      /\ \A k \in 1..(n - 1) : task[k] # "queued"
  BY <1>1, RunningFacts
<1>3. \A r \in ItemsOf(n) : r \in Requests /\ sent[r] = 0
  BY <1>1, <1>2, MessageFacts DEF BatchesSettled
<1>4. sent \in [Requests -> 0..1]
  BY DEF TypeOK
<1>5. \A r \in Requests :
        /\ sent'[r] \in 0..1
        /\ r \notin ItemsOf(n) => sent'[r] = sent[r]
        /\ r \in ItemsOf(n) /\ item[r] = "answer" => sent'[r] = 1
  BY <1>1, <1>3, <1>4
<1>6. sent' \in [Requests -> 0..1]
  BY <1>1, <1>5
<1>7. \A r \in ItemsOf(n) : item[r] \in {"answer", "silent"} /\ (item[r] = "answer" => sent'[r] = 1)
  BY <1>1, <1>3, <1>5
<1> QED  BY <1>1, <1>2, <1>5, <1>6, <1>7, BatchStep

LEMMA AbandonStep == ASSUME IInv, NEW n \in Numbers, Abandon(n) PROVE IInv'
<1> USE DEF IInv
<1>1. /\ task[n] = "running" /\ ~Single(n)
      /\ task' = [task EXCEPT ![n] = "done"]
      /\ UNCHANGED <<outcomes, stream, read, reader, item, table, cancelled, sent>>
  BY DEF Abandon
<1>2. n \in 1..read /\ \A k \in 1..(n - 1) : task[k] # "queued"
  BY <1>1, RunningFacts
<1>3. "cancelled" \in outcomes
  BY <1>1, <1>2 DEF Abandon, ItemsFit
<1>4. sent' \in [Requests -> 0..1]
  BY <1>1 DEF TypeOK
<1> QED  BY <1>1, <1>2, <1>3, <1>4, BatchStep

LEMMA BeginItemStep == ASSUME IInv, NEW r \in Requests, BeginItem(r) PROVE IInv'
<1> USE DEF IInv
<1> DEFINE n == r[1]
<1>1. /\ r \in ItemsOf(n) /\ ~Single(n) /\ task[n] \in {"running", "done"} /\ item[r] = "idle"
      /\ cancelled' = cancelled \cup CancelledBy(At(r), table, 0)
      /\ reader' = Stopped(At(r))
      /\ UNCHANGED <<outcomes, stream, read, task, table, sent>>
  BY DEF BeginItem
<1>2. n \in Numbers /\ n \in 1..read /\ n \in 1..Len(stream)
  <2>1. n \in Numbers
    BY DEF Requests
  <2> QED  BY <2>1, <1>1, BoundsAssumption DEF ReadInOrder, TypeOK, Numbers
<1>3. PICK s \in Called(At(r)) : item' = [item EXCEPT ![r] = s]
  BY DEF BeginItem
<1>4. At(r).method # "unreadable"
  BY <1>1, <1>2, PartFacts
<1>5. /\ s \in {"suspended", "answer", "silent", "cancelled"}
      /\ s = "suspended" => At(r).method = "call"
      /\ s = "silent" => At(r).id = NoId /\ At(r).method # "invalid"
      /\ s = "cancelled" => At(r).method = "call" /\ "cancelled" \in outcomes
  BY <1>1, <1>2, <1>3, <1>4, CalledFits
<1>6. reader' \in {"open", "closing", "closed", "returned"} /\ cancelled' \subseteq Numbers
  BY <1>1, StoppedType, CancelTypes DEF TypeOK
<1>7. task[n] # "queued" /\ item[r] \in {"idle", "suspended"}
  BY <1>1
<1> HIDE DEF n
<1> QED  BY <1>1, <1>2, <1>3, <1>5, <1>6, <1>7, ItemStep

LEMMA ResumeItemStep == ASSUME IInv, NEW r \in Requests, ResumeItem(r) PROVE IInv'
<1> USE DEF IInv
<1> DEFINE n == r[1]
<1>1. /\ ~Single(n) /\ item[r] = "suspended"
      /\ UNCHANGED <<outcomes, stream, read, reader, task, table, cancelled, sent>>
  BY DEF ResumeItem
<1>2. n \in Numbers /\ n \in 1..read /\ n \in 1..Len(stream) /\ r \in ItemsOf(n)
  <2>1. n \in Numbers
    BY DEF Requests
  <2>2. n <= read /\ r \in ItemsOf(n)
    BY <1>1 DEF Unused
  <2> QED  BY <2>1, <2>2, BoundsAssumption DEF TypeOK, Numbers
<1>3. PICK s \in Ends(At(r)) : item' = [item EXCEPT ![r] = s]
  BY DEF ResumeItem
<1>4. At(r).method = "call"
  BY <1>1, <1>2 DEF ItemsFit
<1>5. /\ s \in {"answer", "silent", "cancelled"}
      /\ s = "silent" => At(r).id = NoId
      /\ s = "cancelled" => "cancelled" \in outcomes
  BY <1>2, <1>3, <1>4, EndsFit
<1>6. reader' \in {"open", "closing", "closed", "returned"} /\ cancelled' \subseteq Numbers
  BY <1>1 DEF TypeOK
<1>7. task[n] # "queued"
  BY <1>1, <1>2 DEF BatchesSettled
<1> HIDE DEF n
<1> QED  BY <1>1, <1>2, <1>3, <1>4, <1>5, <1>6, <1>7, ItemStep

----------------------------------------------------------------------------
(* The invariant.                                                          *)

LEMMA InitInv == Init => IInv
<1> SUFFICES ASSUME Init PROVE IInv
  OBVIOUS
<1>1. /\ stream = <<>> /\ Len(stream) = 0 /\ read = 0 /\ reader = "open"
      /\ \A n \in Numbers : task[n] = "unread" /\ n > 0
      /\ \A r \in Requests : item[r] = "idle" /\ sent[r] = 0
      /\ \A id \in Ids : table[id] = 0
  BY BoundsAssumption DEF Init, Numbers
<1>2. 1..read = {}
  BY <1>1
<1>3. TypeOK
  BY <1>1, BoundsAssumption DEF Init, TypeOK
<1>4. ReadInOrder /\ InOrder /\ Unused
  BY <1>1, <1>2 DEF ReadInOrder, InOrder, Unused
<1>5. ItemsFit /\ SinglesSettled /\ BatchesSettled
  BY <1>2 DEF ItemsFit, SinglesSettled, BatchesSettled
<1>6. TableExact
  BY <1>1 DEF TableExact, TableIsLive, CancellableUnlessReplaced, Running
<1> QED  BY <1>3, <1>4, <1>5, <1>6 DEF IInv

LEMMA StutterStep == IInv /\ UNCHANGED vars => IInv'
<1> SUFFICES ASSUME IInv, UNCHANGED vars PROVE IInv'
  OBVIOUS
<1> USE DEF IInv
<1>1. UNCHANGED <<outcomes, stream, read, reader, task, item, table, cancelled, sent>>
  BY DEF vars
<1>2. TypeOK'
  BY <1>1 DEF TypeOK
<1>3. ReadInOrder' /\ InOrder' /\ Unused'
  BY <1>1 DEF ReadInOrder, InOrder, Unused, Unreadable, Single, Item, ItemsOf
<1>4. ItemsFit' /\ SinglesSettled' /\ BatchesSettled'
  BY <1>1, SettledStays
<1>5. TableExact'
  BY <1>1 DEF TableExact, TableIsLive, CancellableUnlessReplaced, Running, Single, Item
<1> QED  BY <1>2, <1>3, <1>4, <1>5

LEMMA NextInv == IInv /\ [Next]_vars => IInv'
<1> SUFFICES ASSUME IInv, [Next]_vars PROVE IInv'
  OBVIOUS
<1>1. CASE Write \/ Read \/ EndOfInput \/ Return
  BY <1>1, WriteStep, ReadStep, ReaderStep
<1>2. CASE \E n \in Numbers : Begin(n) \/ ResumeSingle(n) \/ DeliverCancel(n)
  BY <1>2, BeginSingleStep, BeginBatchStep, ResumeSingleStep DEF Begin
<1>3. CASE \E n \in Numbers : Collect(n) \/ Abandon(n)
  BY <1>3, CollectStep, AbandonStep
<1>4. CASE \E r \in Requests : BeginItem(r) \/ ResumeItem(r)
  BY <1>4, BeginItemStep, ResumeItemStep
<1>5. CASE UNCHANGED vars
  BY <1>5, StutterStep
<1> QED  BY <1>1, <1>2, <1>3, <1>4, <1>5 DEF Next

LEMMA Invariance == Spec => []IInv
<1>1. Init => IInv
  BY InitInv
<1>2. IInv /\ [Next]_vars => IInv'
  BY NextInv
<1> QED  BY <1>1, <1>2, PTL DEF Spec, LoopSpec

(* Every variable of the server stays in its range: no request is answered *)
(* twice (sent is at most 1), and _request_tasks holds message numbers.    *)
THEOREM TypeCorrect == Spec => []TypeOK
BY Invariance, PTL DEF IInv

(* _request_tasks (transport.py, _dispatch) is exact in every state: an    *)
(* entry is a running request of that id, and a running request has one    *)
(* unless a later message took its id, with any number of slots.           *)
THEOREM TableIsExact == Spec => []TableExact
BY Invariance, PTL DEF IInv

----------------------------------------------------------------------------
(* A cancellation reaches the last earlier request of its id.              *)

\* A message leaves the queue when its own task gets a slot.
LEMMA LeavesQueue ==
  ASSUME IInv, [Next]_vars, NEW n \in Numbers, Single(n),
         task[n] = "queued", task'[n] # "queued"
  PROVE  BeginSingle(n)
<1>1. task \in [Numbers -> {"unread", "queued", "running", "done"}]
  BY DEF IInv, TypeOK
<1>2. ~UNCHANGED task
  OBVIOUS
<1>3. CASE Read
  <2>1. n # read + 1
    BY BoundsAssumption DEF IInv, ReadInOrder, TypeOK, Numbers
  <2>2. task'[n] = task[n]
    BY <1>1, <1>3, <2>1 DEF Read
  <2> QED  BY <2>2
<1>4. ASSUME NEW m \in Numbers,
             BeginBatch(m) \/ ResumeSingle(m) \/ DeliverCancel(m) \/ Collect(m) \/ Abandon(m)
      PROVE  FALSE
  <2>1. \E w : task' = [task EXCEPT ![m] = w]
    BY <1>4 DEF BeginBatch, ResumeSingle, DeliverCancel, Collect, Abandon, Settle
  <2>2. m # n
    BY <1>4 DEF BeginBatch, ResumeSingle, DeliverCancel, Collect, Abandon
  <2> QED  BY <1>1, <2>1, <2>2
<1>5. ASSUME NEW m \in Numbers, BeginSingle(m)
      PROVE  m = n
  <2>1. \E w : task' = [task EXCEPT ![m] = w]
    BY <1>5 DEF BeginSingle, Settle
  <2> QED  BY <1>1, <2>1
<1>6. ~Write /\ ~EndOfInput /\ ~Return /\ ~UNCHANGED vars
  BY <1>2 DEF Write, EndOfInput, Return, vars
<1>7. \A r \in Requests : ~BeginItem(r) /\ ~ResumeItem(r)
  BY <1>2 DEF BeginItem, ResumeItem
<1> QED  BY <1>3, <1>4, <1>5, <1>6, <1>7 DEF Next, Begin

LEMMA CancelFinds ==
  ASSUME IInv, NEW n \in Numbers, BeginSingle(n), Item(n).method = "cancel",
         NEW k \in 1..(n - 1), Single(k), Item(k).id = Item(n).target,
         \A j \in (k + 1)..(n - 1) : Single(j) => Item(j).id # Item(n).target
  PROVE  task[k] = "done" \/ k \in cancelled'
<1> USE DEF IInv
<1> SUFFICES ASSUME task[k] # "done" PROVE k \in cancelled'
  OBVIOUS
<1>1. /\ task[n] = "queued" /\ Single(n) /\ task[k] # "queued"
      /\ cancelled' = cancelled \cup CancelledBy(Item(n), Registered(n), n)
  BY DEF BeginSingle, Admitted
<1>2. /\ n \in 1..read /\ n \in 1..Len(stream) /\ read \in 0..Len(stream)
      /\ k \in Numbers /\ k # n /\ k \in 1..read
      /\ <<n, 1>> \in ItemsOf(n) /\ At(<<n, 1>>) = Item(n)
  <2>1. n \in 1..read /\ n \in 1..Len(stream) /\ read \in 0..Len(stream)
    BY <1>1, RunningFacts DEF TypeOK
  <2>2. k \in Numbers /\ k # n /\ k \in 1..read
    BY <2>1, BoundsAssumption DEF Numbers
  <2>3. <<n, 1>> \in ItemsOf(n) /\ At(<<n, 1>>) = Item(n)
    BY <2>1, MessageFacts
  <2> QED  BY <2>1, <2>2, <2>3
<1>3. Item(n).id = NoId /\ Item(n).target \in Ids /\ Item(n).target # NoId
  BY <1>2, PartFacts, IdsAssumption
<1>4. task[k] = "running"
  BY <1>1, <1>2 DEF TypeOK, ReadInOrder
<1>5. ASSUME NEW j \in (k + 1)..read, task[j] \in {"running", "done"},
             Single(j), Item(j).id = Item(n).target
      PROVE  FALSE
  <2>1. j # n
    BY <1>3, <1>5
  <2>2. n < j
    BY <1>2, <1>5, <2>1 DEF Numbers
  <2>3. j \in 1..read /\ j \in 1..Len(stream)
    BY <1>2
  <2>4. Unreadable(j)
    BY <1>1, <1>2, <1>5, <2>2, <2>3 DEF InOrder
  <2>5. <<j, 1>> \in ItemsOf(j) /\ At(<<j, 1>>) = Item(j)
    BY <2>3, MessageFacts
  <2>6. Item(j).id = NoId
    BY <2>3, <2>4, <2>5, PartFacts DEF Unreadable
  <2> QED  BY <1>3, <1>5, <2>6
<1>6. table[Item(n).target] = k
  BY <1>2, <1>3, <1>4, <1>5 DEF TableExact, CancellableUnlessReplaced, Running
<1>7. Registered(n) = table
  BY <1>3 DEF Registered
<1> QED  BY <1>1, <1>2, <1>6, <1>7 DEF CancelledBy

(* When $/cancelRequest gets its slot, the last earlier request of its id  *)
(* is answered or its task is cancelled: _dispatch and _cancel_request     *)
(* rely on the slots being given in the order of the stream.               *)
THEOREM CancellationsHit == Spec => CancelHits
<1>1. IInv /\ [Next]_vars =>
        [\A n \in Numbers :
           /\ task[n] = "queued" /\ task'[n] # "queued"
           /\ Single(n) /\ Item(n).method = "cancel"
           => \A k \in 1..(n - 1) :
                /\ Single(k) /\ Item(k).id = Item(n).target
                /\ \A j \in (k + 1)..(n - 1) : Single(j) => Item(j).id # Item(n).target
                => task[k] = "done" \/ k \in cancelled']_vars
  BY LeavesQueue, CancelFinds
<1> QED  BY <1>1, Invariance, PTL DEF Spec, LoopSpec, CancelHits

----------------------------------------------------------------------------
(* The promise to the client.                                              *)

\* The replies of the requests that are certain to get one.
Replies == [r \in Requests |-> IF r \in Certain THEN sent[r] ELSE 0]

\* A reply answers certain requests, or none that the promise is about.
LEMMA ReplyKept ==
  ASSUME TypeOK, UNCHANGED <<outcomes, stream, read>>,
         reader # "returned" <=> reader' # "returned",
         NEW R \in SUBSET Requests, \A r \in R : sent[r] = 0,
         \A r \in Requests : sent'[r] = IF r \in R THEN 1 ELSE sent[r]
  PROVE  [Promise!Next]_Promise!vars
<1> DEFINE T == R \cap Certain
<1>1. Certain' = Certain
  BY DEF Certain, Due, Single, ItemsOf, At
<1>2. (reader # "returned")' = (reader # "returned")
  OBVIOUS
<1>3. CASE T = {}
  <2>1. Replies' = Replies
    BY <1>1, <1>3 DEF Replies
  <2> QED  BY <1>1, <1>2, <2>1 DEF Promise!vars, Replies
<1>4. CASE T # {}
  <2>1. T \in SUBSET Certain /\ Certain \subseteq Requests
    BY DEF Certain, Due
  <2>2. \A r \in T : Replies[r] = 0
    BY <2>1 DEF Replies
  <2>3. Replies' = [r \in Requests |-> IF r \in T THEN 1 ELSE Replies[r]]
    BY <1>1 DEF Replies
  <2>4. Promise!Answer(T)
    BY <1>1, <1>2, <1>4, <2>2, <2>3 DEF Promise!Answer, Replies
  <2> HIDE DEF T
  <2>5. \E S \in SUBSET Certain : Promise!Answer(S)
    BY <2>1, <2>4 DEF Promise!Answer
  <2> QED  BY <2>5 DEF Promise!Next
<1> QED  BY <1>3, <1>4

\* Nothing is said to the client.
LEMMA SilenceKept ==
  ASSUME TypeOK, UNCHANGED <<outcomes, stream, read, sent>>,
         reader # "returned" <=> reader' # "returned"
  PROVE  [Promise!Next]_Promise!vars
<1>1. {} \in SUBSET Requests
  OBVIOUS
<1>2. \A r \in Requests : sent'[r] = IF r \in {} THEN 1 ELSE sent[r]
  OBVIOUS
<1>3. \A r \in {} : sent[r] = 0
  OBVIOUS
<1> QED  BY <1>1, <1>2, <1>3, ReplyKept

LEMMA WriteKept == ASSUME IInv, Write PROVE [Promise!Next]_Promise!vars
<1>1. /\ UNCHANGED <<outcomes, read, reader, sent>>
      /\ read \in 0..Len(stream)
  BY DEF Write, IInv, TypeOK
<1>2. \A n \in 1..read : stream'[n] = stream[n]
  BY BoundsAssumption DEF Write, IInv, TypeOK
<1>3. \A r \in Requests : r[1] <= read => r[1] \in 1..read
  BY <1>1, BoundsAssumption DEF Requests, Numbers
<1>4. \A r \in Requests : r[1] <= read =>
        Single(r[1])' = Single(r[1]) /\ ItemsOf(r[1])' = ItemsOf(r[1]) /\ At(r)' = At(r)
  BY <1>2, <1>3 DEF Single, ItemsOf, At
<1>5. Due' = Due
  BY <1>1, <1>4 DEF Due
<1>6. Certain' = Certain
  BY <1>1, <1>4, <1>5 DEF Certain, Due
<1>7. Replies' = Replies
  BY <1>1, <1>6 DEF Replies
<1> QED  BY <1>1, <1>6, <1>7 DEF Promise!vars, Replies

\* A message is accepted; it brings requests that were not owed before.
LEMMA ReadKept == ASSUME IInv, Read PROVE [Promise!Next]_Promise!vars
<1>1. /\ UNCHANGED <<outcomes, stream, sent>>
      /\ read' = read + 1 /\ read \in Nat
      /\ reader # "returned" /\ reader' # "returned"
  BY DEF Read, IInv, TypeOK
<1>2. \A r \in Requests : r[1] \in Nat
  BY BoundsAssumption DEF Requests, Numbers
<1>3. \A r : Single(r[1])' = Single(r[1]) /\ ItemsOf(r[1])' = ItemsOf(r[1]) /\ At(r)' = At(r)
  BY <1>1 DEF Single, ItemsOf, At
<1>4. Certain \subseteq Certain' /\ Certain' \subseteq Requests
  BY <1>1, <1>2, <1>3 DEF Certain, Due
<1>5. \A r \in Certain' \ Certain : sent[r] = 0
  <2>1. \A r \in Certain' \ Certain : r \in Requests /\ ~(r[1] <= read)
    BY <1>1, <1>2, <1>3 DEF Certain, Due
  <2> QED  BY <2>1 DEF IInv, Unused
<1>6. Replies' = Replies
  BY <1>1, <1>4, <1>5 DEF Replies
<1>7. Certain' = Certain \cup (Certain' \ Certain)
      /\ (Certain' \ Certain) \in SUBSET (Requests \ Certain)
  BY <1>4
<1>8. Promise!Accept
  BY <1>1, <1>6, <1>7 DEF Promise!Accept, Replies
<1> QED  BY <1>8 DEF Promise!Next

\* run() returns when every task is done, hence when nothing is owed.
LEMMA ReturnKept == ASSUME IInv, Return PROVE [Promise!Next]_Promise!vars
<1> USE DEF IInv
<1>1. /\ UNCHANGED <<outcomes, stream, read, sent>>
      /\ reader = "closed" /\ reader' = "returned"
      /\ \A n \in Numbers : task[n] \in {"unread", "done"}
  BY DEF Return
<1>2. Certain' = Certain
  BY <1>1 DEF Certain, Due, Single, ItemsOf, At
<1>3. Replies' = Replies
  BY <1>1, <1>2 DEF Replies
<1>4. ASSUME NEW r \in Certain PROVE sent[r] = 1
  <2> DEFINE n == r[1]
  <2>1. /\ r \in Requests /\ n <= read /\ r \in ItemsOf(n)
        /\ At(r).method # "unreadable"
        /\ At(r).id # NoId \/ At(r).method = "invalid"
        /\ Single(n) \/ "cancelled" \notin outcomes
    BY DEF Certain, Due
  <2>2. n \in Numbers /\ n \in 1..read /\ n \in 1..Len(stream)
    <3>1. n \in Numbers
      BY <2>1 DEF Requests
    <3> QED  BY <3>1, <2>1, BoundsAssumption DEF TypeOK, Numbers
  <2>3. task[n] = "done"
    BY <2>2, <1>1 DEF ReadInOrder, TypeOK, Numbers
  <2>4. CASE Single(n)
    <3>1. r = <<n, 1>> /\ At(r) = Item(n)
      <4>1. TypeOK
        OBVIOUS
      <4>2. ItemsOf(n) = {<<n, 1>>} /\ At(<<n, 1>>) = Item(n)
        BY <4>1, <2>2, <2>4, MessageFacts
      <4> HIDE DEF n
      <4> QED  BY <4>2, <2>1
    <3>2. item[r] \in {"answer", "cancelled"}
      BY <2>1, <2>2, <2>3, <2>4, <3>1 DEF SinglesSettled, SingleSettled, ItemsFit
    <3>3. item[r] = "cancelled" => Item(n).id # NoId
      BY <2>1, <2>2, <3>1 DEF ItemsFit
    <3> HIDE DEF n
    <3> QED  BY <2>2, <2>4, <3>1, <3>2, <3>3 DEF SinglesSettled, SingleSettled
  <2>5. CASE ~Single(n)
    <3>1. item[r] \in {"answer", "silent"} /\ (item[r] = "answer" => sent[r] = 1)
      BY <2>1, <2>2, <2>3, <2>5 DEF BatchesSettled
    <3>2. item[r] # "silent"
      BY <2>1, <2>2 DEF ItemsFit
    <3> QED  BY <3>1, <3>2
  <2> QED  BY <2>4, <2>5
<1>5. \A r \in Certain : Replies[r] = 1
  BY <1>4 DEF Replies, Certain, Due
<1>6. Promise!Return
  BY <1>1, <1>2, <1>3, <1>5 DEF Promise!Return, Replies
<1> QED  BY <1>6 DEF Promise!Next

\* A single message is answered at most when it ends.
LEMMA SettleKept ==
  ASSUME IInv, NEW n \in Numbers, Single(n), task[n] \in {"queued", "running"},
         NEW s, NEW tab, Settle(n, s, tab),
         UNCHANGED <<outcomes, stream, read>>,
         reader # "returned" <=> reader' # "returned"
  PROVE  [Promise!Next]_Promise!vars
<1>1. n \in 1..read /\ n \in 1..Len(stream) /\ TypeOK
  BY RunningFacts DEF IInv
<1>2. <<n, 1>> \in Requests
  BY <1>1, MessageFacts
<1>3. sent[<<n, 1>>] = 0
  BY <1>1 DEF IInv, SinglesSettled, SingleSettled
<1>4. sent \in [Requests -> 0..1]
  BY <1>1 DEF TypeOK
<1>5. CASE UNCHANGED sent
  BY <1>1, <1>5, SilenceKept
<1>6. CASE ~UNCHANGED sent
  <2>1. sent' = [sent EXCEPT ![<<n, 1>>] = @ + 1]
    BY <1>2, <1>4, <1>6 DEF Settle
  <2>2. \A r \in Requests : sent'[r] = IF r \in {<<n, 1>>} THEN 1 ELSE sent[r]
    BY <2>1, <1>2, <1>3, <1>4
  <2> QED  BY <1>1, <1>2, <1>3, <2>2, ReplyKept
<1> QED  BY <1>5, <1>6

LEMMA CollectKept ==
  ASSUME IInv, NEW n \in Numbers, Collect(n)
  PROVE  [Promise!Next]_Promise!vars
<1> DEFINE R == {r \in ItemsOf(n) : item[r] = "answer"}
<1>1. /\ task[n] = "running" /\ ~Single(n)
      /\ UNCHANGED <<outcomes, stream, read, reader>>
      /\ sent' = [r \in Requests |->
           IF r \in ItemsOf(n) /\ item[r] = "answer" THEN sent[r] + 1 ELSE sent[r]]
  BY DEF Collect
<1>2. n \in 1..read /\ n \in 1..Len(stream) /\ TypeOK
  BY <1>1, RunningFacts DEF IInv
<1>3. R \in SUBSET Requests /\ \A r \in R : sent[r] = 0
  BY <1>1, <1>2, MessageFacts DEF IInv, BatchesSettled
<1>4. \A r \in Requests : sent'[r] = IF r \in R THEN 1 ELSE sent[r]
  BY <1>1, <1>3
<1> HIDE DEF R
<1> QED  BY <1>1, <1>2, <1>3, <1>4, ReplyKept

LEMMA NextKept == IInv /\ [Next]_vars => [Promise!Next]_Promise!vars
<1> SUFFICES ASSUME IInv, [Next]_vars PROVE [Promise!Next]_Promise!vars
  OBVIOUS
<1>1. TypeOK
  BY DEF IInv
<1>2. CASE Write \/ Read \/ Return
  BY <1>2, WriteKept, ReadKept, ReturnKept
<1>3. CASE EndOfInput
  BY <1>1, <1>3, SilenceKept DEF EndOfInput
<1>4. ASSUME NEW n \in Numbers, BeginSingle(n)
      PROVE  [Promise!Next]_Promise!vars
  <2>1. /\ task[n] = "queued" /\ Single(n) /\ UNCHANGED <<outcomes, stream, read>>
        /\ reader' = Stopped(Item(n))
    BY <1>4 DEF BeginSingle, Admitted
  <2>2. reader # "returned" <=> reader' # "returned"
    BY <2>1 DEF Stopped
  <2>3. PICK s \in Called(Item(n)) : Settle(n, s, Registered(n))
    BY <1>4 DEF BeginSingle
  <2> QED  BY <2>1, <2>2, <2>3, SettleKept
<1>5. ASSUME NEW n \in Numbers, ResumeSingle(n) \/ DeliverCancel(n)
      PROVE  [Promise!Next]_Promise!vars
  <2>1. /\ task[n] = "running" /\ Single(n)
        /\ UNCHANGED <<outcomes, stream, read, reader>>
    BY <1>5 DEF ResumeSingle, DeliverCancel
  <2>2. \E s : Settle(n, s, table)
    BY <1>5 DEF ResumeSingle, DeliverCancel
  <2> QED  BY <2>1, <2>2, SettleKept
<1>6. ASSUME NEW n \in Numbers, BeginBatch(n) \/ Abandon(n)
      PROVE  [Promise!Next]_Promise!vars
  BY <1>1, <1>6, SilenceKept DEF BeginBatch, Abandon
<1>7. ASSUME NEW n \in Numbers, Collect(n)
      PROVE  [Promise!Next]_Promise!vars
  BY <1>7, CollectKept
<1>8. ASSUME NEW r \in Requests, BeginItem(r) \/ ResumeItem(r)
      PROVE  [Promise!Next]_Promise!vars
  <2>1. UNCHANGED <<outcomes, stream, read, sent>>
    BY <1>8 DEF BeginItem, ResumeItem
  <2>2. reader # "returned" <=> reader' # "returned"
    BY <1>8 DEF BeginItem, ResumeItem, Stopped
  <2> QED  BY <1>1, <2>1, <2>2, SilenceKept
<1>9. CASE UNCHANGED vars
  BY <1>1, <1>9, SilenceKept DEF vars
<1> QED
  BY <1>2, <1>3, <1>4, <1>5, <1>6, <1>7, <1>8, <1>9 DEF Next, Begin

LEMMA InitKept == Init => Promise!Init
<1> SUFFICES ASSUME Init PROVE Promise!Init
  OBVIOUS
<1>1. /\ read = 0 /\ reader = "open"
      /\ \A r \in Requests : r[1] \in Nat \ {0}
      /\ sent = [r \in Requests |-> 0]
  BY BoundsAssumption DEF Init, Requests, Numbers
<1>2. Certain = {}
  BY <1>1 DEF Certain, Due
<1> QED  BY <1>1, <1>2 DEF Promise!Init

(* The transport keeps its promise to the client: a request that run() has *)
(* read is answered at most once, and run() returns only when no certain   *)
(* reply is missing.  The steps of JsonRpc are steps of RpcReplies or say  *)
(* nothing to the client.                                                  *)
THEOREM RepliesAreKept == Spec => RepliesKeptOnce
<1>1. Init => Promise!Init
  BY InitKept
<1>2. IInv /\ [Next]_vars => [Promise!Next]_Promise!vars
  BY NextKept
<1> QED  BY <1>1, <1>2, Invariance, PTL DEF Spec, LoopSpec, RepliesKeptOnce, Promise!Safety
=============================================================================
