--------------------------- MODULE TabulationProofs ---------------------------
(***************************************************************************)
(* Type correctness and coverage of the tabulation solvers, for every      *)
(* graph, every set of facts and every flow function.                      *)
(*                                                                         *)
(* A worklist is complete when what was processed is closed: every edge    *)
(* out of the queue has its moves, its entries and its records among the   *)
(* results (Closed), and every caller that waits for a summary that exists *)
(* has been resumed (Met).  A walk then never leaves the edges seen,       *)
(* because each activation on its stack was entered from the edge below    *)
(* it, which was recorded (Stacked).                                       *)
(***************************************************************************)
EXTENDS Tabulation, SupergraphProofs

Closed(e) ==
    /\ Moves(problem, e) \subseteq seen
    /\ \A k \in Entered(problem, e) : EntryEdge(k) \in seen
    /\ Recorded(e) \subseteq incoming
    /\ IsEnd(problem, e.at[1]) => e \in summaries

Met ==
    \A rec \in incoming, x \in summaries :
        x.from = rec.callee => Returned(problem, rec.caller, x, rec.site) \subseteq seen

Saturating ==
    /\ Seeds(problem) \subseteq seen
    /\ \A e \in seen \ work : Closed(e)
    /\ Met

Stacked ==
    /\ \A i \in 1..Len(path) : path[i] \in seen
    /\ \A i \in 1..Len(path) - 1 : path[i + 1].from \in Entered(problem, path[i])

Phases ==
    /\ status = "complete" => work = {}
    /\ path # <<>> => status = "complete"
    /\ status = "seeding" => seen = {} /\ incoming = {} /\ summaries = {}

IInv ==
    /\ TypeOK
    /\ Phases
    /\ ReplayAgrees => /\ status \in {"running", "complete"} => Saturating
                       /\ Stacked

-------------------------------------------------------------------------------
(* What a step adds is typed. *)

LEMMA RecordedType ==
    ASSUME TypeOK, NEW e \in Edges
    PROVE  Recorded(e) \subseteq Records
<1>1. Entered(problem, e) \subseteq Keys
  BY EnteredType DEF TypeOK
<1>2. Sites(problem, e.at[1]) \subseteq Nodes
  BY DEF Sites
<1> QED  BY <1>1, <1>2 DEF Recorded, Records

LEMMA ReplayedType ==
    ASSUME TypeOK, NEW rec \in Records
    PROVE  Replayed(rec) \subseteq Edges
<1>1. ASSUME NEW x \in summaries
      PROVE  ReturnedWith(problem, rec.caller, x, rec.site,
                          FactReplayed(rec, x)) \subseteq Edges
  <2>1. x \in Edges /\ rec.caller \in Edges /\ rec.site \in Nodes
    BY <1>1 DEF TypeOK, Records
  <2>2. FactReplayed(rec, x) \in Facts
    BY <2>1 DEF FactReplayed, Edges, Points
  <2> QED  BY <2>1, <2>2, ReturnedType DEF TypeOK
<1> QED  BY <1>1 DEF Replayed

LEMMA ResumedType ==
    ASSUME TypeOK, NEW x \in Edges, NEW waiting \in SUBSET Records
    PROVE  Resumed(x, waiting) \subseteq Edges
<1>1. ASSUME NEW rec \in waiting
      PROVE  Returned(problem, rec.caller, x, rec.site) \subseteq Edges
  <2>1. rec.caller \in Edges /\ rec.site \in Nodes
    BY <1>1 DEF Records
  <2>2. rec.caller.at[2] \in Facts
    BY <2>1 DEF Edges, Points
  <2> QED  BY <2>1, <2>2, ReturnedType DEF TypeOK, Returned
<1> QED  BY <1>1 DEF Resumed

LEMMA ProducedType ==
    ASSUME TypeOK, NEW e \in Edges
    PROVE  Produced(e) \subseteq Edges
<1>1. {EntryEdge(k) : k \in Entered(problem, e)} \subseteq Edges
  BY EnteredType, EntryType DEF TypeOK
<1>2. UNION {Replayed(rec) : rec \in Recorded(e) \ incoming} \subseteq Edges
  BY RecordedType, ReplayedType
<1>3. UNION {Resumed(x, incoming \cup Recorded(e)) : x \in Summarized(e)} \subseteq Edges
  BY RecordedType, ResumedType DEF Summarized, TypeOK
<1>4. Moves(problem, e) \subseteq Edges
  BY MovesType DEF TypeOK
<1> QED  BY <1>1, <1>2, <1>3, <1>4 DEF Produced

LEMMA WalkType ==
    ASSUME TypeOK, Walk
    PROVE  path' \in Seq(Edges)
<1>1. CASE Begin
  BY <1>1, SeedsType DEF Begin, TypeOK
<1> SUFFICES ASSUME path # <<>>, path \in Seq(Edges), problem \in Problems,
                    Move \/ Call \/ Return
             PROVE  path' \in Seq(Edges)
  BY <1>1 DEF Walk, Move, Call, Return, TypeOK
<1> DEFINE top == path[Len(path)]
<1>2. Len(path) \in Nat \ {0} /\ top \in Edges
  OBVIOUS
<1>3. CASE Move
  <2>1. PICK e \in Moves(problem, top) : path' = [path EXCEPT ![Len(path)] = e]
    BY <1>3 DEF Move, Onward, Top
  <2>2. e \in Edges
    BY <1>2, MovesType
  <2> QED  BY <1>2, <2>1, <2>2, ExceptSeq
<1>4. CASE Call
  <2>1. PICK k \in Entered(problem, top) : path' = Append(path, EntryEdge(k))
    BY <1>4 DEF Call, Deeper, Top
  <2>2. EntryEdge(k) \in Edges
    BY <1>2, EnteredType, EntryType
  <2> QED  BY <2>1, <2>2
<1>5. CASE Return
  <2> DEFINE waiting == SubSeq(path, 1, Len(path) - 1)
  <2>1. Len(path) >= 2
    BY <1>2, <1>5 DEF Return, Back
  <2>2. waiting \in Seq(Edges) /\ Len(waiting) = Len(path) - 1
    BY <1>2, <2>1, SubSeqProperties
  <2>3. PICK r \in Sites(problem, waiting[Len(waiting)].at[1]) :
            \E e \in Returned(problem, waiting[Len(waiting)], top, r) :
                path' = [waiting EXCEPT ![Len(waiting)] = e]
    BY <1>5, <2>1 DEF Return, Back, Top
  <2>4. PICK e \in Returned(problem, waiting[Len(waiting)], top, r) :
            path' = [waiting EXCEPT ![Len(waiting)] = e]
    BY <2>3
  <2>5. waiting[Len(waiting)] \in Edges /\ r \in Nodes
    BY <2>1, <2>2, <2>3 DEF Sites
  <2>6. e \in Edges
    <3>1. waiting[Len(waiting)].at[2] \in Facts
      BY <2>5 DEF Edges, Points
    <3>2. e \in ReturnedWith(problem, waiting[Len(waiting)], top, r, waiting[Len(waiting)].at[2])
      BY <2>4 DEF Returned
    <3> HIDE DEF waiting, top
    <3> QED  BY <1>2, <2>5, <3>1, <3>2, ReturnedType
  <2>7. Len(waiting) \in 1..Len(waiting)
    BY <1>2, <2>1, <2>2
  <2> HIDE DEF waiting
  <2> QED  BY <2>2, <2>4, <2>6, <2>7, ExceptSeq
<1> QED  BY <1>3, <1>4, <1>5

-------------------------------------------------------------------------------
(* Type correctness. *)

LEMMA PartTyped ==
    ASSUME TypeOK, NEW edges \in SUBSET Edges, PropagateSome(edges)
    PROVE  /\ seen' \subseteq Edges /\ seen \subseteq seen' /\ work' = {}
           /\ status' \in {"partial", "cancelled", "raised"}
BY DEF PropagateSome, Stop, TypeOK

LEMMA AllTyped ==
    ASSUME TypeOK, NEW edges \in SUBSET Edges, NEW queue \in SUBSET work,
           Propagate(edges, queue)
    PROVE  /\ seen' \subseteq Edges /\ seen \subseteq seen' /\ work' \subseteq seen'
BY DEF Propagate, TypeOK

\* One edge processed adds records of its own and at most itself as a summary.
LEMMA FiledTyped ==
    ASSUME TypeOK, NEW e \in work, seen \subseteq seen',
           incoming' = incoming \cup Recorded(e), summaries' = summaries \cup Summarized(e)
    PROVE  incoming' \subseteq Records /\ summaries' \subseteq seen'
<1>1. e \in Edges /\ e \in seen
  BY DEF TypeOK
<1>2. Recorded(e) \subseteq Records
  BY <1>1, RecordedType
<1> QED  BY <1>1, <1>2 DEF TypeOK, Summarized

LEMMA InitType == Init => TypeOK
<1> SUFFICES ASSUME Init  PROVE TypeOK
  OBVIOUS
<1>1. path \in Seq(Edges)
  BY DEF Init
<1> QED  BY <1>1 DEF Init, TypeOK

LEMMA NextType == TypeOK /\ [Next]_vars => TypeOK'
<1> SUFFICES ASSUME TypeOK, [Next]_vars  PROVE TypeOK'
  OBVIOUS
<1>1. CASE Seed
  <2>1. Seeds(problem) \in SUBSET Edges
    BY SeedsType DEF TypeOK
  <2>2. CASE Propagate(Seeds(problem), {}) /\ status' = "running"
    BY <1>1, <2>1, <2>2, AllTyped DEF Seed, TypeOK, Ended
  <2>3. CASE PropagateSome(Seeds(problem))
    BY <1>1, <2>1, <2>3, PartTyped DEF Seed, TypeOK, Ended
  <2> QED  BY <1>1, <2>2, <2>3 DEF Seed
<1>2. ASSUME NEW e \in work, Process(e)  PROVE TypeOK'
  <2>1. Produced(e) \in SUBSET Edges
    BY ProducedType DEF TypeOK
  <2>2. seen' \subseteq Edges /\ seen \subseteq seen' /\ work' \subseteq seen'
    BY <1>2, <2>1, AllTyped DEF Process
  <2>3. incoming' \subseteq Records /\ summaries' \subseteq seen'
    BY <1>2, <2>2, FiledTyped DEF Process
  <2> QED  BY <1>2, <2>2, <2>3 DEF Process, TypeOK
<1>3. ASSUME NEW e \in work, ProcessPart(e)  PROVE TypeOK'
  <2>1. Produced(e) \in SUBSET Edges
    BY ProducedType DEF TypeOK
  <2>2. /\ seen' \subseteq Edges /\ seen \subseteq seen' /\ work' = {}
        /\ status' \in {"partial", "cancelled", "raised"}
    BY <1>3, <2>1, PartTyped DEF ProcessPart
  <2>3. incoming' \subseteq Records /\ summaries' \subseteq seen'
    BY <1>3, <2>2, FiledTyped DEF ProcessPart
  <2> QED  BY <1>3, <2>2, <2>3 DEF ProcessPart, TypeOK, Ended
<1>4. CASE Finish
  BY <1>4 DEF Finish, Conclude, Stop, TypeOK, Ended
<1>5. CASE CancelSolve
  BY <1>5 DEF CancelSolve, Cancel, TypeOK
<1>6. CASE WalkOn
  BY <1>6, WalkType DEF WalkOn, solverVars, TypeOK
<1>7. CASE UNCHANGED vars
  BY <1>7 DEF vars, solverVars, TypeOK
<1> QED  BY <1>1, <1>2, <1>3, <1>4, <1>5, <1>6, <1>7 DEF Next, Solve

\* Edges, records and summaries are what they claim to be, and nothing is queued
\* or summarized that was not seen: every step of every solver keeps its tables
\* of one kind.
THEOREM TypeCorrect == Spec => []TypeOK
<1> QED  BY InitType, NextType, PTL DEF Spec

-------------------------------------------------------------------------------
(* Coverage. *)

\* The two return calls make the same edges for a caller and a summary.
AgreesOn(rec, x) ==
    ReturnedWith(problem, rec.caller, x, rec.site, FactReplayed(rec, x))
        = Returned(problem, rec.caller, x, rec.site)

\* A replay of a summary they agree on makes the edges a return makes.
LEMMA ReplayReturns ==
    ASSUME NEW rec, NEW x \in summaries, x.from = rec.callee, AgreesOn(rec, x)
    PROVE  Returned(problem, rec.caller, x, rec.site) \subseteq Replayed(rec)
BY DEF Replayed, AgreesOn

\* What agrees after a step agreed before it: the tables only grow.
LEMMA AgreedBefore ==
    ASSUME UNCHANGED problem, incoming \subseteq incoming', summaries \subseteq summaries',
           ReplayAgrees'
    PROVE  ReplayAgrees /\ \A rec \in incoming', x \in summaries' :
                               x.from = rec.callee => AgreesOn(rec, x)
BY DEF ReplayAgrees, AgreesOn, FactReplayed

LEMMA SeedSaturates ==
    ASSUME IInv, Seed, status' = "running"
    PROVE  Saturating'
<1>1. /\ seen = {} /\ incoming = {} /\ summaries = {} /\ status = "seeding"
      /\ UNCHANGED <<problem, incoming, summaries>>
  BY DEF IInv, Phases, Seed
<1>2. Propagate(Seeds(problem), {})
  BY DEF Seed, PropagateSome, Stop
<1>3. seen' = Seeds(problem) /\ work' = seen'
  BY <1>1, <1>2 DEF Propagate
<1>4. Met'
  BY <1>1 DEF Met
<1> QED  BY <1>1, <1>3, <1>4 DEF Saturating

\* What is closed stays closed while the tables grow.
LEMMA ClosedGrows ==
    ASSUME NEW e, Closed(e), UNCHANGED problem,
           seen \subseteq seen', incoming \subseteq incoming', summaries \subseteq summaries'
    PROVE  Closed(e)'
BY DEF Closed, Recorded

LEMMA ProcessSaturates ==
    ASSUME TypeOK, ReplayAgrees', Saturating, NEW e \in work, Process(e)
    PROVE  Saturating'
<1> DEFINE P == Produced(e)
<1>1. /\ seen' = seen \cup P /\ work' = (work \ {e}) \cup (P \ seen)
      /\ incoming' = incoming \cup Recorded(e) /\ summaries' = summaries \cup Summarized(e)
      /\ UNCHANGED problem
  BY DEF Process, Propagate
<1>2. Closed(e)'
  <2>1. Moves(problem, e) \subseteq P /\ \A k \in Entered(problem, e) : EntryEdge(k) \in P
    BY DEF Produced
  <2>2. Recorded(e)' = Recorded(e)
    BY <1>1 DEF Recorded
  <2>3. IsEnd(problem, e.at[1]) => e \in summaries'
    BY <1>1 DEF Summarized
  <2> QED  BY <1>1, <2>1, <2>2, <2>3 DEF Closed
<1>3. ASSUME NEW f \in seen' \ work'  PROVE Closed(f)'
  <2>1. f = e \/ f \in seen \ work
    BY <1>1, <1>3
  <2>2. CASE f = e
    BY <1>2, <2>2
  <2>3. CASE f \in seen \ work
    <3>1. Closed(f)
      BY <2>3 DEF Saturating
    <3> QED  BY <1>1, <3>1, ClosedGrows
  <2> QED  BY <2>1, <2>2, <2>3
<1>4. ASSUME NEW rec \in incoming', NEW x \in summaries', x.from = rec.callee
      PROVE  Returned(problem, rec.caller, x, rec.site) \subseteq seen'
  <2>1. CASE rec \in incoming /\ x \in summaries
    BY <1>1, <1>4, <2>1 DEF Saturating, Met
  <2>2. CASE rec \in Recorded(e) \ incoming /\ x \in summaries
    <3>1. incoming \subseteq incoming' /\ summaries \subseteq summaries'
      BY <1>1
    <3>2. AgreesOn(rec, x)
      BY <1>1, <1>4, <3>1, AgreedBefore
    <3>3. Returned(problem, rec.caller, x, rec.site) \subseteq Replayed(rec)
      BY <1>4, <2>2, <3>2, ReplayReturns
    <3>4. Replayed(rec) \subseteq P
      BY <2>2 DEF Produced
    <3> QED  BY <1>1, <3>3, <3>4
  <2>3. CASE x \in Summarized(e)
    <3>1. rec \in incoming \cup Recorded(e)
      BY <1>1, <1>4
    <3>2. Returned(problem, rec.caller, x, rec.site) \subseteq Resumed(x, incoming \cup Recorded(e))
      BY <1>4, <3>1 DEF Resumed
    <3>3. Resumed(x, incoming \cup Recorded(e)) \subseteq P
      BY <2>3 DEF Produced
    <3> QED  BY <1>1, <3>2, <3>3
  <2> QED  BY <1>1, <1>4, <2>1, <2>2, <2>3
<1>5. Met'
  BY <1>1, <1>4 DEF Met
<1>6. Seeds(problem)' \subseteq seen'
  BY <1>1 DEF Saturating
<1> QED  BY <1>3, <1>5, <1>6 DEF Saturating

\* A walk over a complete result stays on the edges seen: its next edge is a
\* move, an entry, or a return that was made when caller and summary met.
LEMMA WalkStacked ==
    ASSUME TypeOK, Saturating, work = {}, Stacked, Walk, UNCHANGED <<problem, seen>>
    PROVE  Stacked'
<1>1. \A e \in seen : Closed(e)
  BY DEF Saturating
<1>2. CASE Begin
  <2>1. PICK e \in Seeds(problem) : path' = <<e>>
    BY <1>2 DEF Begin
  <2>2. e \in seen
    BY DEF Saturating
  <2> QED  BY <2>1, <2>2 DEF Stacked
<1> SUFFICES ASSUME path # <<>>, Move \/ Call \/ Return
             PROVE  Stacked'
  BY <1>2 DEF Walk, Move, Call, Return
<1> DEFINE n == Len(path)
           top == path[n]
<1>3. path \in Seq(Edges) /\ problem \in Problems
  BY DEF TypeOK
<1>4. n \in Nat \ {0} /\ top \in Edges
  BY <1>3
<1>5. top \in seen /\ Closed(top)
  BY <1>1, <1>4 DEF Stacked
<1>6. CASE Move
  <2>1. PICK e \in Moves(problem, top) : path' = [path EXCEPT ![n] = e]
    BY <1>6 DEF Move, Onward, Top
  <2>2. e \in Edges /\ e.from = top.from /\ e \in seen
    BY <1>3, <1>4, <1>5, MovesType DEF Closed
  <2>3. /\ Len(path') = n
        /\ \A j \in 1..n : path'[j] = IF j = n THEN e ELSE path[j]
    BY <1>3, <1>4, <2>1, <2>2, ExceptSeq
  <2>4. \A i \in 1..n - 1 : path'[i + 1].from = path[i + 1].from /\ path'[i] = path[i]
    BY <1>4, <2>2, <2>3
  <2> QED  BY <1>4, <2>2, <2>3, <2>4 DEF Stacked
<1>7. CASE Call
  <2>1. PICK k \in Entered(problem, top) : path' = Append(path, EntryEdge(k))
    BY <1>7 DEF Call, Deeper, Top
  <2>2. /\ EntryEdge(k) \in Edges /\ EntryEdge(k).from = k
        /\ EntryEdge(k) \in seen
    BY <1>3, <1>4, <1>5, EnteredType, EntryType DEF Closed
  <2>3. /\ Len(path') = n + 1 /\ path'[n + 1] = EntryEdge(k)
        /\ \A j \in 1..n : path'[j] = path[j]
    BY <1>3, <2>1, <2>2
  <2> QED  BY <1>4, <2>1, <2>2, <2>3 DEF Stacked
<1>8. CASE Return
  <2> DEFINE waiting == SubSeq(path, 1, n - 1)
             caller == path[n - 1]
  <2>1. n >= 2 /\ IsEnd(problem, top.at[1])
    BY <1>4, <1>8 DEF Return, Back, Top
  <2>2. /\ waiting \in Seq(Edges) /\ Len(waiting) = n - 1
        /\ \A j \in 1..n - 1 : waiting[j] = path[j]
    BY <1>3, <1>4, <2>1, SubSeqProperties
  <2>3. PICK r \in Sites(problem, caller.at[1]) :
            \E e \in Returned(problem, caller, top, r) : path' = [waiting EXCEPT ![n - 1] = e]
    BY <1>8, <2>1, <2>2 DEF Return, Back, Top
  <2>4. PICK e \in Returned(problem, caller, top, r) : path' = [waiting EXCEPT ![n - 1] = e]
    BY <2>3
  <2>5. caller \in Edges /\ caller \in seen /\ Closed(caller)
    BY <1>1, <1>3, <1>4, <2>1 DEF Stacked
  <2>6. top.from \in Entered(problem, caller)
    BY <1>4, <2>1 DEF Stacked
  <2> DEFINE rec == [callee |-> top.from, caller |-> caller, site |-> r]
  <2>7. rec \in incoming
    BY <2>3, <2>5, <2>6 DEF Closed, Recorded
  <2>8. top \in summaries
    BY <1>5, <2>1 DEF Closed
  <2>9. e \in seen
    BY <2>4, <2>7, <2>8 DEF Saturating, Met
  <2>10. e \in Edges /\ e.from = caller.from
    <3>1. r \in Nodes /\ caller.at[2] \in Facts
      BY <2>3, <2>5 DEF Sites, Edges, Points
    <3> QED  BY <1>3, <1>4, <2>4, <2>5, <3>1, ReturnedType DEF Returned
  <2>11. /\ Len(path') = n - 1
         /\ \A j \in 1..n - 1 : path'[j] = IF j = n - 1 THEN e ELSE path[j]
    <3>1. n - 1 \in 1..Len(waiting)
      BY <1>4, <2>1, <2>2
    <3> HIDE DEF waiting, n, caller, top, rec
    <3>2. /\ Len([waiting EXCEPT ![n - 1] = e]) = Len(waiting)
          /\ \A j \in 1..Len(waiting) :
                [waiting EXCEPT ![n - 1] = e][j] = IF j = n - 1 THEN e ELSE waiting[j]
      BY <2>2, <2>10, <3>1, ExceptSeq
    <3> QED  BY <2>2, <2>4, <3>2
  <2>12. \A i \in 1..n - 2 : path'[i + 1].from = path[i + 1].from /\ path'[i] = path[i]
    <3>1. e.from = path[n - 1].from
      BY <2>10
    <3> HIDE DEF n, rec, waiting, caller, top
    <3>2. n \in Nat /\ n >= 2
      BY <1>4, <2>1 DEF n
    <3>3. TAKE i \in 1..n - 2
    <3>4. i \in 1..n - 1 /\ i # n - 1 /\ i + 1 \in 1..n - 1
      BY <3>2
    <3>5. path'[i] = path[i]
      BY <2>11, <3>4
    <3>6. CASE i + 1 = n - 1
      <4>1. path'[i + 1] = e
        BY <2>11, <3>4, <3>6
      <4> QED  BY <3>1, <3>5, <3>6, <4>1
    <3>7. CASE i + 1 # n - 1
      <4>1. path'[i + 1] = path[i + 1]
        BY <2>11, <3>4, <3>7
      <4> QED  BY <3>5, <4>1
    <3> QED  BY <3>6, <3>7
  <2>13. ASSUME NEW i \in 1..Len(path') PROVE path'[i] \in seen
    <3> HIDE DEF n, rec, waiting, caller, top
    <3>1. CASE i = n - 1
      BY <2>9, <2>11, <2>13, <3>1
    <3>2. CASE i # n - 1
      <4>1. i \in 1..n - 1 /\ path'[i] = path[i]
        BY <2>11, <2>13, <3>2
      <4>2. i \in 1..Len(path)
        BY <1>4, <2>1, <4>1 DEF n
      <4> QED  BY <4>1, <4>2 DEF Stacked
    <3> QED  BY <3>1, <3>2
  <2>14. ASSUME NEW i \in 1..Len(path') - 1
         PROVE  path'[i + 1].from \in Entered(problem, path'[i])
    <3> HIDE DEF n, rec, waiting, caller, top
    <3>1. i \in 1..n - 2 /\ i \in 1..Len(path) - 1
      BY <1>4, <2>1, <2>11, <2>14 DEF n
    <3> QED  BY <2>12, <3>1 DEF Stacked
  <2> HIDE DEF n, rec, waiting, caller, top
  <2> QED  BY <2>13, <2>14 DEF Stacked
<1> QED  BY <1>6, <1>7, <1>8

-------------------------------------------------------------------------------
(* The inductive invariant. *)

LEMMA InitInv == Init => IInv
<1> SUFFICES ASSUME Init  PROVE IInv
  OBVIOUS
<1>1. TypeOK
  BY InitType
<1>2. Phases
  BY DEF Init, Phases
<1>3. Stacked /\ status = "seeding"
  BY DEF Init, Stacked
<1> QED  BY <1>1, <1>2, <1>3 DEF IInv

LEMMA NextInv == IInv /\ [Next]_vars => IInv'
<1> SUFFICES ASSUME IInv, [Next]_vars  PROVE IInv'
  OBVIOUS
<1>1. TypeOK /\ TypeOK'
  BY NextType DEF IInv
<1>2. CASE Seed
  <2>1. /\ status = "seeding" /\ path = <<>> /\ path' = <<>>
        /\ UNCHANGED problem
    BY <1>2 DEF Seed, IInv, Phases
  <2>2. status' \in {"running", "partial", "cancelled", "raised"}
    BY <1>2 DEF Seed, PropagateSome, Stop
  <2>3. Phases'
    BY <2>1, <2>2 DEF Phases
  <2>4. Stacked'
    BY <2>1 DEF Stacked
  <2>5. status' \in {"running", "complete"} => Saturating'
    BY <1>2, <2>2, SeedSaturates
  <2> QED  BY <1>1, <2>3, <2>4, <2>5 DEF IInv
<1>3. ASSUME NEW e \in work, Process(e)  PROVE IInv'
  <2>1. /\ status = "running" /\ status' = "running" /\ path = <<>> /\ path' = <<>>
        /\ UNCHANGED problem
        /\ incoming \subseteq incoming' /\ summaries \subseteq summaries'
    BY <1>3 DEF Process, IInv, Phases
  <2>2. Phases' /\ Stacked'
    BY <2>1 DEF Phases, Stacked
  <2>3. ReplayAgrees' => Saturating'
    <3>1. ReplayAgrees' => ReplayAgrees
      BY <2>1, AgreedBefore
    <3> QED  BY <1>1, <1>3, <2>1, <3>1, ProcessSaturates DEF IInv
  <2> QED  BY <1>1, <2>2, <2>3 DEF IInv
<1>4. ASSUME NEW e \in work, ProcessPart(e)  PROVE IInv'
  <2>1. /\ path = <<>> /\ path' = <<>>
        /\ status' \in {"partial", "cancelled", "raised"}
    BY <1>4 DEF ProcessPart, PropagateSome, Stop, IInv, Phases
  <2>2. Phases' /\ Stacked'
    BY <2>1 DEF Phases, Stacked
  <2> QED  BY <1>1, <2>1, <2>2 DEF IInv
<1>5. CASE Finish
  <2>1. /\ status = "running" /\ work = {} /\ path = <<>>
        /\ UNCHANGED <<problem, path, seen, work, incoming, summaries>>
        /\ status' \in Ended
    BY <1>5 DEF Finish, Conclude, Stop, IInv, Phases, Ended
  <2>2. Phases' /\ Stacked'
    BY <2>1 DEF Phases, Stacked, Ended
  <2>3. ReplayAgrees' => Saturating'
    BY <2>1, AgreedBefore DEF IInv, Saturating, Closed, Met, Recorded
  <2> QED  BY <1>1, <2>2, <2>3 DEF IInv
<1>6. CASE CancelSolve
  BY <1>1, <1>6, AgreedBefore DEF CancelSolve, Cancel, IInv, Phases, Saturating, Closed, Met, Recorded, Stacked
<1>7. CASE WalkOn
  <2>1. /\ status = "complete" /\ work = {} /\ Walk
        /\ UNCHANGED <<problem, seen, work, incoming, summaries, status>>
    BY <1>7 DEF WalkOn, solverVars, IInv, Phases
  <2>2. Phases'
    BY <2>1 DEF IInv, Phases
  <2>3. ReplayAgrees' => ReplayAgrees
    BY <2>1, AgreedBefore
  <2>4. ReplayAgrees => Saturating /\ Saturating'
    BY <2>1 DEF IInv, Saturating, Closed, Met, Recorded
  <2>5. ReplayAgrees => Stacked'
    BY <1>1, <2>1, <2>4, WalkStacked DEF IInv
  <2> QED  BY <1>1, <2>2, <2>3, <2>4, <2>5 DEF IInv
<1>8. CASE UNCHANGED vars
  BY <1>1, <1>8, AgreedBefore DEF vars, solverVars, IInv, Phases, Saturating, Closed, Met,
                    Recorded, Stacked
<1> QED  BY <1>2, <1>3, <1>4, <1>5, <1>6, <1>7, <1>8 DEF Next, Solve

LEMMA InvCovers == IInv => CoveredIfReplayAgrees
<1> SUFFICES ASSUME IInv, ReplayAgrees, path # <<>>  PROVE path[Len(path)] \in seen
  BY DEF CoveredIfReplayAgrees, Covered, Top
<1>1. path \in Seq(Edges) /\ Stacked
  BY DEF IInv, TypeOK
<1>2. Len(path) \in 1..Len(path)
  BY <1>1
<1> QED  BY <1>1, <1>2 DEF Stacked

\* Whatever the graph, the flow functions, the depth of the contexts, the order
\* of the queue and the moment of a limit or a cancellation: a result reported
\* as complete contains every configuration of every call stack.  Backwards it
\* does so if replaying and resuming made the same edges for every caller and
\* summary that met (ReplayAgrees); forwards they always do.
THEOREM CompleteResultsCover == Spec => []CoveredIfReplayAgrees
<1>1. Spec => []IInv
  BY InitInv, NextInv, PTL DEF Spec
<1> QED  BY <1>1, InvCovers, PTL

-------------------------------------------------------------------------------
(* Soundness. *)

\* The stacks an exploration visits: those in every set of stacks that has the
\* seeds' and all that follow from its own.
Explorations(p) ==
    {S \in SUBSET Seq(Edges) :
        /\ \A e \in Seeds(p) : <<e>> \in S
        /\ \A s \in S : s # <<>> => Onward(p, s) \cup Deeper(p, s) \cup Back(p, s) \subseteq S}

Visited(p) == {s \in Seq(Edges) \ {<<>>} : \A S \in Explorations(p) : s \in S}

\* The activation of e is entered on some stack, and wherever it is, e is reached
\* in it with the stack below left as it was.
Realized(p, e) ==
    /\ \E s \in Visited(p) : Top(s) = EntryEdge(e.from)
    /\ \A s \in Visited(p) : Top(s) = EntryEdge(e.from) => Reaching(s, e) \in Visited(p)

Sound ==
    /\ \A e \in seen : Realized(problem, e)
    /\ \A rec \in incoming : /\ rec.caller \in seen
                             /\ rec.callee \in Entered(problem, rec.caller)
                             /\ rec.site \in Sites(problem, rec.caller.at[1])
    /\ \A x \in summaries : IsEnd(problem, x.at[1])

\* Every edge recorded is where some stack's running activation is.
NothingInvented ==
    ReplayAgrees => \A e \in seen : \E s \in Visited(problem) : Top(s) = e

LEMMA VisitedGoesOn ==
    ASSUME NEW p \in Problems, NEW s \in Visited(p), NEW t \in Seq(Edges) \ {<<>>},
           t \in Onward(p, s) \cup Deeper(p, s) \cup Back(p, s)
    PROVE  t \in Visited(p)
<1>1. s # <<>>
  BY DEF Visited
<1>2. ASSUME NEW S \in Explorations(p)  PROVE t \in S
  <2>1. s \in S
    BY DEF Visited
  <2> QED  BY <1>1, <2>1 DEF Explorations
<1> QED  BY <1>2 DEF Visited

LEMMA ReachingType ==
    ASSUME NEW s \in Seq(Edges) \ {<<>>}, NEW e \in Edges
    PROVE  /\ Reaching(s, e) \in Seq(Edges) \ {<<>>}
           /\ Len(Reaching(s, e)) = Len(s) /\ Len(s) \in Nat \ {0}
           /\ Top(Reaching(s, e)) = e
           /\ \A f \in Edges : Reaching(Reaching(s, e), f) = Reaching(s, f)
           /\ Top(s) = e => Reaching(s, e) = s
BY StackReaching, Zenon DEF Top

LEMMA DeeperStack ==
    ASSUME NEW s \in Seq(Edges) \ {<<>>}, NEW e \in Edges, NEW f \in Edges
    PROVE  /\ Append(s, e) \in Seq(Edges) \ {<<>>} /\ Top(Append(s, e)) = e
           /\ Len(Append(s, e)) = Len(s) + 1 /\ Len(s) \in Nat \ {0}
           /\ Reaching(Append(s, e), f) = Append(s, f)
           /\ SubSeq(Append(s, e), 1, Len(s)) = s
BY StackDeeper, Zenon DEF Top

\* The seeds, the moves, the entries and the returns of realized edges.
LEMMA SeedRealized ==
    ASSUME NEW p \in Problems, NEW e \in Seeds(p)
    PROVE  Realized(p, e)
<1>1. e \in Edges /\ e = EntryEdge(e.from)
  <2>1. e \in Edges
    BY SeedsType
  <2>2. PICK k : e = EntryEdge(k)
    BY DEF Seeds
  <2> QED  BY <2>1, <2>2 DEF EntryEdge
<1>2. <<e>> \in Visited(p) /\ Top(<<e>>) = e
  BY <1>1 DEF Visited, Explorations, Top
<1>3. ASSUME NEW s \in Visited(p), Top(s) = EntryEdge(e.from)
      PROVE  Reaching(s, e) \in Visited(p)
  <2>1. Reaching(s, e) = s
    BY <1>1, <1>3, ReachingType DEF Visited
  <2> QED  BY <2>1
<1> QED  BY <1>1, <1>2, <1>3 DEF Realized

LEMMA MoveRealized ==
    ASSUME NEW p \in Problems, NEW e \in Edges, Realized(p, e), NEW m \in Moves(p, e)
    PROVE  Realized(p, m)
<1>1. m \in Edges /\ m.from = e.from
  BY MovesType
<1>2. ASSUME NEW s \in Visited(p), Top(s) = EntryEdge(e.from)
      PROVE  Reaching(s, m) \in Visited(p)
  <2>1. PICK t : t = Reaching(s, e)
    OBVIOUS
  <2>2. s \in Seq(Edges) \ {<<>>}
    BY DEF Visited
  <2>3. t \in Visited(p) /\ t \in Seq(Edges) \ {<<>>} /\ Top(t) = e /\ Reaching(t, m) = Reaching(s, m)
    BY <1>1, <1>2, <2>1, <2>2, ReachingType DEF Realized
  <2>4. Reaching(t, m) \in Onward(p, t)
    BY <2>3 DEF Onward, Reaching
  <2>5. Reaching(t, m) \in Seq(Edges) \ {<<>>}
    BY <1>1, <2>3, ReachingType
  <2> QED  BY <2>3, <2>4, <2>5, VisitedGoesOn
<1> QED  BY <1>1, <1>2 DEF Realized

\* The stack on which the caller e enters its callee k.
LEMMA CalleeVisited ==
    ASSUME NEW p \in Problems, NEW e \in Edges, Realized(p, e), NEW k \in Entered(p, e),
           NEW s \in Visited(p), Top(s) = EntryEdge(e.from)
    PROVE  Append(Reaching(s, e), EntryEdge(k)) \in Visited(p)
<1>1. k \in Keys /\ EntryEdge(k) \in Edges
  BY EnteredType, EntryType
<1>2. PICK t : t = Reaching(s, e)
  OBVIOUS
<1>3. s \in Seq(Edges) \ {<<>>}
  BY DEF Visited
<1>4. t \in Visited(p) /\ t \in Seq(Edges) \ {<<>>} /\ Top(t) = e
  BY <1>2, <1>3, ReachingType DEF Realized
<1>5. Append(t, EntryEdge(k)) \in Deeper(p, t)
  BY <1>4 DEF Deeper
<1>6. Append(t, EntryEdge(k)) \in Seq(Edges) \ {<<>>}
  BY <1>1, <1>4, DeeperStack
<1> QED  BY <1>2, <1>4, <1>5, <1>6, VisitedGoesOn

LEMMA EntryRealized ==
    ASSUME NEW p \in Problems, NEW e \in Edges, Realized(p, e), NEW k \in Entered(p, e)
    PROVE  Realized(p, EntryEdge(k))
<1>1. PICK s \in Visited(p) : Top(s) = EntryEdge(e.from)
  BY DEF Realized
<1>2. k \in Keys /\ EntryEdge(k) \in Edges /\ EntryEdge(k).from = k
  BY EnteredType, EntryType
<1>3. PICK f : f = EntryEdge(k)
  OBVIOUS
<1>4. PICK t : t = Reaching(s, e)
  OBVIOUS
<1>5. s \in Seq(Edges) \ {<<>>}
  BY DEF Visited
<1>6. t \in Seq(Edges) \ {<<>>}
  BY <1>4, <1>5, ReachingType
<1>7. Append(t, f) \in Visited(p) /\ Top(Append(t, f)) = f
  BY <1>1, <1>2, <1>3, <1>4, <1>6, CalleeVisited, DeeperStack
<1>8. ASSUME NEW u \in Visited(p), Top(u) = f
      PROVE  Reaching(u, f) \in Visited(p)
  <2>1. Reaching(u, f) = u
    BY <1>2, <1>3, <1>8, ReachingType DEF Visited
  <2> QED  BY <2>1
<1> QED  BY <1>2, <1>3, <1>7, <1>8 DEF Realized

LEMMA ReturnRealized ==
    ASSUME NEW p \in Problems, NEW c \in Edges, Realized(p, c), NEW x \in Edges, Realized(p, x),
           x.from \in Entered(p, c), IsEnd(p, x.at[1]), NEW r \in Sites(p, c.at[1]),
           NEW m \in Returned(p, c, x, r)
    PROVE  Realized(p, m)
<1>1. r \in Nodes /\ c.at[2] \in Facts
  BY DEF Sites, Edges, Points
<1>2. m \in Edges /\ m.from = c.from
  BY <1>1, ReturnedType DEF Returned
<1>3. x.from \in Keys /\ EntryEdge(x.from) \in Edges
  BY EnteredType, EntryType
<1>4. ASSUME NEW s \in Visited(p), Top(s) = EntryEdge(c.from)
      PROVE  Reaching(s, m) \in Visited(p)
  <2>1. PICK t : t = Reaching(s, c)
    OBVIOUS
  <2>2. PICK f : f = EntryEdge(x.from)
    OBVIOUS
  <2>3. s \in Seq(Edges) \ {<<>>}
    BY DEF Visited
  <2>4. t \in Seq(Edges) \ {<<>>} /\ Top(t) = c /\ Reaching(t, m) = Reaching(s, m)
    BY <1>2, <2>1, <2>3, ReachingType
  <2>5. Append(t, f) \in Visited(p)
    BY <1>4, <2>1, <2>2, CalleeVisited
  <2>6. Top(Append(t, f)) = f /\ Reaching(Append(t, f), x) = Append(t, x)
    BY <1>3, <2>2, <2>4, DeeperStack
  <2>7. PICK u : u = Append(t, x)
    OBVIOUS
  <2>8. u \in Visited(p)
    BY <2>2, <2>5, <2>6, <2>7 DEF Realized
  <2>9. /\ Top(u) = x /\ Len(u) = Len(t) + 1 /\ Len(t) \in Nat \ {0}
        /\ SubSeq(u, 1, Len(t)) = t
    BY <2>4, <2>7, DeeperStack
  <2>10. Len(u) - 1 = Len(t) /\ ~(Len(u) < 2)
    BY <2>9
  <2>11. SubSeq(u, 1, Len(u) - 1) = t
    BY <2>9, <2>10
  <2>12. Reaching(t, m) \in Back(p, u)
    <3> DEFINE waiting == SubSeq(u, 1, Len(u) - 1)
    <3>1. ~(Len(u) < 2 \/ ~IsEnd(p, Top(u).at[1]))
      BY <2>9, <2>10
    <3>2. Back(p, u) = UNION {{Reaching(waiting, e) : e \in Returned(p, Top(waiting), Top(u), q)} :
                                q \in Sites(p, Top(waiting).at[1])}
      BY <3>1, Zenon DEF Back, Reaching
    <3> HIDE DEF waiting
    <3>3. waiting = t
      BY <2>11 DEF waiting
    <3>4. r \in Sites(p, Top(waiting).at[1]) /\ m \in Returned(p, Top(waiting), Top(u), r)
      BY <2>4, <2>9, <3>3
    <3>5. Reaching(waiting, m) \in Back(p, u)
      BY <3>2, <3>4
    <3> QED  BY <3>3, <3>5
  <2>13. Reaching(t, m) \in Seq(Edges) \ {<<>>}
    BY <1>2, <2>4, ReachingType
  <2> QED  BY <2>4, <2>8, <2>12, <2>13, VisitedGoesOn
<1> QED  BY <1>2, <1>4 DEF Realized

\* A replay of summaries they agree on makes only edges a return makes.
LEMMA ReplayedReturns ==
    ASSUME NEW rec, NEW m \in Replayed(rec),
           \A x \in summaries : x.from = rec.callee => AgreesOn(rec, x)
    PROVE  \E x \in summaries :
              x.from = rec.callee /\ m \in Returned(problem, rec.caller, x, rec.site)
BY DEF Replayed, AgreesOn

\* Processing an edge makes realized edges and records of callers seen.
LEMMA ProcessSound ==
    ASSUME TypeOK, ReplayAgrees', Sound, NEW e \in work, UNCHANGED problem,
           seen \subseteq seen', seen' \subseteq seen \cup Produced(e),
           incoming' = incoming \cup Recorded(e), summaries' = summaries \cup Summarized(e)
    PROVE  Sound'
<1>1. /\ e \in seen /\ e \in Edges /\ problem \in Problems /\ seen \subseteq Edges
      /\ summaries \subseteq seen /\ Recorded(e) \subseteq Records /\ incoming \subseteq Records
  BY RecordedType DEF TypeOK
<1>2. \A rec \in incoming \cup Recorded(e) :
         /\ rec.caller \in seen /\ rec.callee \in Entered(problem, rec.caller)
         /\ rec.site \in Sites(problem, rec.caller.at[1])
  BY <1>1 DEF Sound, Recorded
<1>3. \A x \in summaries \cup Summarized(e) : x \in seen /\ IsEnd(problem, x.at[1])
  BY <1>1 DEF Sound, Summarized
<1>4. ASSUME NEW rec \in incoming \cup Recorded(e), NEW x \in summaries \cup Summarized(e),
             x.from = rec.callee, NEW m \in Returned(problem, rec.caller, x, rec.site)
      PROVE  Realized(problem, m)
  <2>1. /\ rec.caller \in Edges /\ x \in Edges
        /\ Realized(problem, rec.caller) /\ Realized(problem, x)
    BY <1>1, <1>2, <1>3 DEF Sound
  <2> QED  BY <1>1, <1>2, <1>3, <1>4, <2>1, ReturnRealized
<1>5. ASSUME NEW m \in Produced(e)  PROVE Realized(problem, m)
  <2>1. Realized(problem, e)
    BY <1>1 DEF Sound
  <2>2. CASE m \in Moves(problem, e)
    BY <1>1, <2>1, <2>2, MoveRealized
  <2>3. ASSUME NEW k \in Entered(problem, e), m = EntryEdge(k)  PROVE Realized(problem, m)
    BY <1>1, <2>1, <2>3, EntryRealized
  <2>4. ASSUME NEW rec \in Recorded(e) \ incoming, m \in Replayed(rec)
        PROVE  Realized(problem, m)
    <3>1. incoming \subseteq incoming' /\ summaries \subseteq summaries' /\ rec \in incoming'
      BY <2>4
    <3>2. \A x \in summaries : x.from = rec.callee => AgreesOn(rec, x)
      BY <3>1, AgreedBefore
    <3>3. PICK x \in summaries :
             x.from = rec.callee /\ m \in Returned(problem, rec.caller, x, rec.site)
      BY <2>4, <3>2, ReplayedReturns
    <3> QED  BY <1>4, <2>4, <3>3
  <2>5. ASSUME NEW x \in Summarized(e), m \in Resumed(x, incoming \cup Recorded(e))
        PROVE  Realized(problem, m)
    BY <1>4, <2>5 DEF Resumed
  <2> QED  BY <2>2, <2>3, <2>4, <2>5 DEF Produced
<1>6. \A m \in seen' : Realized(problem, m)
  BY <1>5 DEF Sound
<1> QED  BY <1>2, <1>3, <1>6 DEF Sound

LEMMA SoundStays == TypeOK /\ (ReplayAgrees => Sound) /\ [Next]_vars => (ReplayAgrees => Sound)'
<1> SUFFICES ASSUME TypeOK, ReplayAgrees => Sound, [Next]_vars, ReplayAgrees'
             PROVE  Sound'
  OBVIOUS
<1>1. UNCHANGED problem
  BY DEF Next, Solve, Seed, Process, ProcessPart, Finish, CancelSolve, WalkOn, vars
<1>2. ReplayAgrees /\ Sound
  <2>1. incoming \subseteq incoming' /\ summaries \subseteq summaries'
    BY DEF Next, Solve, Seed, Process, ProcessPart, Finish, CancelSolve, WalkOn, vars, solverVars
  <2> QED  BY <1>1, <2>1, AgreedBefore
<1>3. CASE Seed
  <2>1. seen' \subseteq seen \cup Seeds(problem) /\ UNCHANGED <<incoming, summaries>>
        /\ seen \subseteq seen'
    BY <1>3 DEF Seed, Propagate, PropagateSome
  <2>2. \A e \in Seeds(problem) : Realized(problem, e)
    BY SeedRealized DEF TypeOK
  <2> QED  BY <1>1, <1>2, <2>1, <2>2 DEF Sound
<1>4. ASSUME NEW e \in work, Process(e) \/ ProcessPart(e)  PROVE Sound'
  <2>1. /\ seen \subseteq seen' /\ seen' \subseteq seen \cup Produced(e)
        /\ incoming' = incoming \cup Recorded(e) /\ summaries' = summaries \cup Summarized(e)
    BY <1>4 DEF Process, ProcessPart, Propagate, PropagateSome
  <2> QED  BY <1>1, <1>2, <2>1, ProcessSound
<1>5. ASSUME UNCHANGED <<seen, incoming, summaries>>  PROVE Sound'
  BY <1>1, <1>2, <1>5 DEF Sound
<1>6. CASE Finish \/ CancelSolve \/ WalkOn \/ UNCHANGED vars
  BY <1>5, <1>6 DEF Finish, CancelSolve, WalkOn, vars, solverVars
<1> QED  BY <1>3, <1>4, <1>6 DEF Next, Solve

LEMMA SoundReaches == TypeOK /\ (ReplayAgrees => Sound) => NothingInvented
<1> SUFFICES ASSUME TypeOK, Sound, NEW e \in seen  PROVE \E s \in Visited(problem) : Top(s) = e
  BY DEF NothingInvented
<1>1. e \in Edges
  BY DEF TypeOK
<1>2. PICK s \in Visited(problem) :
         Top(s) = EntryEdge(e.from) /\ Reaching(s, e) \in Visited(problem)
  BY DEF Sound, Realized
<1>3. Top(Reaching(s, e)) = e
  BY <1>1, ReachingType DEF Visited
<1> QED  BY <1>2, <1>3

\* Nothing is reported that no path takes: every edge that propagate records, in a
\* partial result as in a complete one, is the running activation's of some call
\* stack the program can be in, so that no fact returns to a caller that did not
\* send it (summaries and incoming are filed under the whole entry); backwards,
\* with the same condition on the callers and summaries that met.
THEOREM ResultsAreSound == Spec => []NothingInvented
<1>1. Init => (ReplayAgrees => Sound)
  BY DEF Init, Sound
<1> QED  BY <1>1, InitType, NextType, SoundStays, SoundReaches, PTL DEF Spec
===============================================================================
