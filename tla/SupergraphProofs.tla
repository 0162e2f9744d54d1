--------------------------- MODULE SupergraphProofs ---------------------------
(***************************************************************************)
(* Where the steps of a path lead, for every graph and every flow function: *)
(* the edges and keys that the proofs of both solvers rest on.             *)
(***************************************************************************)
EXTENDS Supergraph, SequenceTheorems, TLAPS

LEMMA PushType ==
    ASSUME NEW p \in Problems, NEW ctx \in Contexts, NEW n \in Nodes
    PROVE  Push(p, ctx, n) \in Contexts
<1> DEFINE longer == Append(ctx, n)
<1>1. longer \in Seq(Nodes)
  BY DEF Contexts
<1>2. p.depth \in Nat
  BY ProblemsAssumption DEF ProblemType
<1>3. CASE Len(longer) > p.depth /\ p.depth # 0
  <2>1. Len(longer) - p.depth + 1 \in 1..Len(longer) + 1
    BY <1>1, <1>2, <1>3
  <2>2. SubSeq(longer, Len(longer) - p.depth + 1, Len(longer)) \in Seq(Nodes)
    BY <1>1, <2>1, SubSeqProperties
  <2> QED  BY <1>3, <2>2 DEF Push, Contexts
<1> QED  BY <1>1, <1>3 DEF Push, Contexts

LEMMA EntryType ==
    ASSUME NEW k \in Keys
    PROVE  EntryEdge(k) \in Edges /\ EntryEdge(k).from = k /\ EntryEdge(k).at = k.point
BY DEF EntryEdge, Edges, Keys

LEMMA MovedType ==
    ASSUME NEW e \in Edges, NEW q \in Points
    PROVE  Moved(e, q) \in Edges /\ Moved(e, q).from = e.from
BY DEF Moved, Edges

LEMMA MovesType ==
    ASSUME NEW p \in Problems, NEW e \in Edges
    PROVE  /\ Moves(p, e) \subseteq Edges
           /\ \A m \in Moves(p, e) : m.from = e.from
BY MovedType DEF Moves

LEMMA EnteredType ==
    ASSUME NEW p \in Problems, NEW e \in Edges
    PROVE  Entered(p, e) \subseteq Keys
<1>1. e.from.ctx \in Contexts /\ e.at[1] \in Nodes
  BY DEF Edges, Keys, Points
<1>2. Push(p, e.from.ctx, e.at[1]) \in Contexts
  BY <1>1, PushType
<1> QED  BY <1>2 DEF Entered, Keys

LEMMA ReturnedType ==
    ASSUME NEW p \in Problems, NEW c \in Edges, NEW x \in Edges, NEW r \in Nodes, NEW d \in Facts
    PROVE  /\ ReturnedWith(p, c, x, r, d) \subseteq Edges
           /\ \A m \in ReturnedWith(p, c, x, r, d) : m.from = c.from
BY MovedType DEF ReturnedWith

LEMMA SeedsType ==
    ASSUME NEW p \in Problems
    PROVE  Seeds(p) \subseteq Edges
<1>1. p.seeds \subseteq Points
  BY ProblemsAssumption DEF ProblemType
<1>2. <<>> \in Contexts
  BY DEF Contexts
<1> QED  BY <1>1, <1>2, EntryType DEF Seeds, Keys

-------------------------------------------------------------------------------
(* Stacks of activations: the last one runs. *)

\* The stack s with its running activation at e.
Reaching(s, e) == [s EXCEPT ![Len(s)] = e]

LEMMA StackReaching ==
    ASSUME NEW A, NEW s \in Seq(A) \ {<<>>}, NEW e \in A
    PROVE  /\ Reaching(s, e) \in Seq(A) \ {<<>>}
           /\ Len(Reaching(s, e)) = Len(s) /\ Len(s) \in Nat \ {0}
           /\ Reaching(s, e)[Len(Reaching(s, e))] = e
           /\ \A f \in A : Reaching(Reaching(s, e), f) = Reaching(s, f)
           /\ s[Len(s)] = e => Reaching(s, e) = s
<1>1. Len(s) \in Nat \ {0}
  OBVIOUS
<1>2. Reaching(s, e) \in Seq(A) /\ Len(Reaching(s, e)) = Len(s)
  BY <1>1, ExceptSeq DEF Reaching
<1>3. Reaching(s, e) # <<>>
  BY <1>1, <1>2
<1>4. Reaching(s, e)[Len(s)] = e
  BY <1>1, ExceptSeq DEF Reaching
<1>5. ASSUME NEW f \in A  PROVE Reaching(Reaching(s, e), f) = Reaching(s, f)
  <2>1. Reaching(s, e) = [s EXCEPT ![Len(s)] = e]
    BY DEF Reaching
  <2>2. Reaching(Reaching(s, e), f) = [Reaching(s, e) EXCEPT ![Len(s)] = f]
    BY <1>2 DEF Reaching
  <2> QED  BY <2>1, <2>2 DEF Reaching
<1>6. s[Len(s)] = e => Reaching(s, e) = s
  BY <1>1 DEF Reaching
<1> QED  BY <1>1, <1>2, <1>3, <1>4, <1>5, <1>6

LEMMA StackDeeper ==
    ASSUME NEW A, NEW s \in Seq(A) \ {<<>>}, NEW e \in A, NEW f \in A
    PROVE  /\ Append(s, e) \in Seq(A) \ {<<>>} /\ Append(s, e)[Len(Append(s, e))] = e
           /\ Len(Append(s, e)) = Len(s) + 1 /\ Len(s) \in Nat \ {0}
           /\ Reaching(Append(s, e), f) = Append(s, f)
           /\ SubSeq(Append(s, e), 1, Len(s)) = s
<1>1. /\ Append(s, e) \in Seq(A) \ {<<>>} /\ Len(Append(s, e)) = Len(s) + 1
      /\ Len(s) \in Nat \ {0} /\ Append(s, e)[Len(s) + 1] = e
  BY AppendProperties
<1>2. Reaching(Append(s, e), f) = Append(s, f)
  <2> DEFINE t == Reaching(Append(s, e), f)
             u == Append(s, f)
             n == Len(s) + 1
  <2>1. PICK longer : longer = Append(s, e)
    OBVIOUS
  <2>2. t \in Seq(A) /\ Len(t) = Len(s) + 1
        /\ \A i \in 1..Len(s) + 1 : t[i] = IF i = Len(s) + 1 THEN f ELSE Append(s, e)[i]
    <3>1. longer \in Seq(A) /\ Len(longer) = n /\ n \in 1..Len(longer)
      BY <1>1, <2>1
    <3>2. t = [longer EXCEPT ![n] = f]
      BY <1>1, <2>1 DEF Reaching
    <3> HIDE DEF t, n
    <3>3. t \in Seq(A) /\ Len(t) = n
          /\ \A i \in 1..n : t[i] = IF i = n THEN f ELSE longer[i]
      BY <3>1, <3>2, ExceptSeq
    <3> QED  BY <2>1, <3>3 DEF n
  <2>3. u \in Seq(A) /\ Len(u) = Len(s) + 1
        /\ \A i \in 1..Len(s) + 1 : u[i] = IF i = Len(s) + 1 THEN f ELSE s[i]
    BY AppendProperties
  <2>4. \A i \in 1..Len(s) : Append(s, e)[i] = s[i]
    BY AppendProperties
  <2>5. \A i \in 1..Len(s) + 1 : t[i] = u[i]
    BY <1>1, <2>2, <2>3, <2>4
  <2> HIDE DEF t, u
  <2>6. t = u
    BY <2>2, <2>3, <2>5, SeqEqual
  <2> QED  BY <2>6 DEF t, u
<1>3. SubSeq(Append(s, e), 1, Len(s)) = s
  BY <1>1, AppendProperties, SubSeqProperties
<1> QED  BY <1>1, <1>2, <1>3
===============================================================================
