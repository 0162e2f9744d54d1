--------------------------- MODULE JumpFunctionProofs ---------------------------
(***************************************************************************)
(* The IDE solver computes the join over all realizable walks: for every   *)
(* graph, every set of facts, every flow function and every function on    *)
(* the values.                                                             *)
(*                                                                         *)
(* The argument.  A term means the function its primitives compose, and    *)
(* shortening it changes nothing (ComposedTermMeans).  A walk is a stack   *)
(* of activations that carries a value (Visited).                          *)
(*                                                                         *)
(* Each term of a jump function is that of walks (Realized): a walk that   *)
(* enters the activation can go on to the edge and carries there what the  *)
(* term makes of its value.  Each step of the solver extends such a walk,  *)
(* and one that returns joins the walk of a waiting caller, the way into   *)
(* the callee and the walk of the callee (RealizedBack).                   *)
(*                                                                         *)
(* Conversely what was processed is closed under the steps (Saturating):   *)
(* an edge whose function changed is in the queue again, so when it is     *)
(* empty the walks that are accounted for are closed too (SummedSteps),    *)
(* and Visited is the least such set.                                      *)
(*                                                                         *)
(* For the values, where functions distribute over the join: a source is   *)
(* in each set closed under joins that holds the values walks enter with   *)
(* (SourcesGenuine), hence below each of their upper bounds; and when no   *)
(* source changes any more it is above them, along the stack of a walk     *)
(* from its seed upwards (SummedSourced).                                  *)
(***************************************************************************)
EXTENDS JumpFunctions, SupergraphProofs, FiniteSetTheorems, WellFoundedInduction

-------------------------------------------------------------------------------
(* Terms. *)

LEMMA NatSteps ==
    ASSUME NEW T \in SUBSET Nat, 0 \in T, \A n \in Nat : n \in T => n + 1 \in T
    PROVE  T = Nat
<1> SUFFICES ASSUME Nat \ T # {} PROVE FALSE
  OBVIOUS
<1>1. Nat \ T \subseteq Nat
  OBVIOUS
<1>2. PICK m \in Nat \ T : \A n \in Nat \ T : ~(<<n, m>> \in OpToRel(<, Nat))
  BY <1>1, WFMin, NatLessThanWellFounded, Zenon
<1>3. m \in Nat /\ m # 0 /\ m - 1 \in Nat /\ m - 1 < m /\ m = (m - 1) + 1
  <2>1. m \in Nat /\ m \notin T
    OBVIOUS
  <2>2. m # 0
    BY <2>1
  <2> QED  BY <2>1, <2>2
<1>4. m - 1 \notin Nat \ T
  BY <1>2, <1>3, Zenon DEF OpToRel
<1> QED  BY <1>2, <1>3, <1>4

\* The first m primitives applied, innermost first.
Applying(f, term, v, m) ==
    f = [n \in 0..m |-> IF n = 0 THEN v ELSE Compute(term[Len(term) + 1 - n], f[n - 1])]

LEMMA ApplyingExists ==
    ASSUME NEW term, NEW v, NEW m \in Nat
    PROVE  \E f : Applying(f, term, v, m)
<1> DEFINE T == {n \in Nat : \E f : Applying(f, term, v, n)}
           body(h, k) == IF k = 0 THEN v ELSE Compute(term[Len(term) + 1 - k], h[k - 1])
<1>1. 0 \in T
  <2> DEFINE f == [n \in 0..0 |-> v]
  <2>1. Applying(f, term, v, 0)
    BY DEF Applying
  <2> QED  BY <2>1
<1>2. ASSUME NEW n \in Nat, n \in T  PROVE n + 1 \in T
  <2>1. PICK f : Applying(f, term, v, n)
    BY <1>2
  <2> DEFINE g == [k \in 0..(n + 1) |-> IF k = n + 1 THEN body(f, k) ELSE f[k]]
  <2>2. ASSUME NEW k \in 0..(n + 1)  PROVE g[k] = body(g, k)
    <3>1. CASE k = n + 1
      <4>1. k # 0 /\ k - 1 = n /\ n \in 0..(n + 1) /\ n # n + 1
        BY <3>1
      <4>2. g[k] = body(f, k) /\ g[n] = f[n]
        BY <3>1, <4>1
      <4> HIDE DEF g
      <4> QED  BY <4>1, <4>2
    <3>2. CASE k # n + 1
      <4>1. k \in 0..n
        BY <3>2
      <4>2. k # 0 => k - 1 \in 0..(n + 1) /\ k - 1 # n + 1
        BY <4>1
      <4>3. g[k] = f[k] /\ (k # 0 => g[k - 1] = f[k - 1])
        BY <3>2, <4>2
      <4>4. f[k] = body(f, k)
        BY <2>1, <4>1 DEF Applying
      <4> HIDE DEF g
      <4> QED  BY <4>3, <4>4
    <3> QED  BY <3>1, <3>2
  <2>3. Applying(g, term, v, n + 1)
    BY <2>2 DEF Applying
  <2> HIDE DEF g
  <2> QED  BY <2>3
<1>3. T = Nat
  BY <1>1, <1>2, NatSteps
<1> QED  BY <1>3

LEMMA AppliedIs ==
    ASSUME NEW term, Len(term) \in Nat, NEW v
    PROVE  \E f : Applying(f, term, v, Len(term)) /\ Applied(term, v) = f[Len(term)]
<1> DEFINE L == Len(term)
           f == CHOOSE f : Applying(f, term, v, L)
<1>1. Applying(f, term, v, L)
  BY ApplyingExists
<1>2. Applied(term, v) = f[L]
  BY DEF Applied, Applying
<1> QED  BY <1>1, <1>2

\* Whatever applies the primitives one by one computes the same.
LEMMA AppliedBy ==
    ASSUME NEW term, Len(term) \in Nat, NEW v, NEW g, g[0] = v,
           \A n \in 1..Len(term) : g[n] = Compute(term[Len(term) + 1 - n], g[n - 1])
    PROVE  Applied(term, v) = g[Len(term)]
<1> DEFINE L == Len(term)
<1>1. PICK f : Applying(f, term, v, L) /\ Applied(term, v) = f[L]
  BY AppliedIs
<1>2. \A n \in 0..L : f[n] = IF n = 0 THEN v ELSE Compute(term[L + 1 - n], f[n - 1])
  BY <1>1 DEF Applying
<1> HIDE DEF L
<1> DEFINE T == {n \in Nat : n <= L => f[n] = g[n]}
<1>3. L \in Nat /\ \A n \in 1..L : g[n] = Compute(term[L + 1 - n], g[n - 1])
  BY DEF L
<1>4. 0 \in T
  BY <1>2, <1>3
<1>5. ASSUME NEW n \in Nat, n \in T  PROVE n + 1 \in T
  <2> SUFFICES ASSUME n + 1 <= L  PROVE f[n + 1] = g[n + 1]
    OBVIOUS
  <2>1. n + 1 \in 0..L /\ n + 1 # 0 /\ (n + 1) - 1 = n /\ n + 1 \in 1..L /\ n <= L
    BY <1>3
  <2>2. f[n] = g[n]
    BY <1>5, <2>1
  <2>3. f[n + 1] = Compute(term[L + 1 - (n + 1)], f[n])
    BY <1>2, <2>1
  <2>4. g[n + 1] = Compute(term[L + 1 - (n + 1)], g[n])
    BY <1>3, <2>1
  <2> QED  BY <2>2, <2>3, <2>4
<1>6. T = Nat
  BY <1>4, <1>5, NatSteps
<1> QED  BY <1>1, <1>3, <1>6 DEF L

LEMMA AppliedType ==
    ASSUME ValuesAreTyped, NEW term \in Terms, NEW v \in Values
    PROVE  Applied(term, v) \in Values
<1> DEFINE L == Len(term)
<1>0. L \in Nat /\ \A i \in 1..L : term[i] \in Primitives
  BY DEF Terms
<1>1. PICK f : Applying(f, term, v, L) /\ Applied(term, v) = f[L]
  BY <1>0, AppliedIs
<1>2. \A n \in 0..L : f[n] = IF n = 0 THEN v ELSE Compute(term[L + 1 - n], f[n - 1])
  BY <1>1 DEF Applying
<1> HIDE DEF L
<1> DEFINE T == {n \in Nat : n <= L => f[n] \in Values}
<1>4. 0 \in T
  BY <1>0, <1>2
<1>5. ASSUME NEW n \in Nat, n \in T  PROVE n + 1 \in T
  <2> SUFFICES ASSUME n + 1 <= L  PROVE f[n + 1] \in Values
    OBVIOUS
  <2>1. n + 1 \in 0..L /\ n + 1 # 0 /\ (n + 1) - 1 = n /\ L + 1 - (n + 1) \in 1..L /\ n <= L
    BY <1>0
  <2>2. f[n] \in Values /\ term[L + 1 - (n + 1)] \in Primitives
    BY <1>0, <1>5, <2>1
  <2>3. f[n + 1] = Compute(term[L + 1 - (n + 1)], f[n])
    BY <1>2, <2>1
  <2> QED  BY <2>2, <2>3 DEF ValuesAreTyped
<1>6. T = Nat
  BY <1>4, <1>5, NatSteps
<1> QED  BY <1>0, <1>1, <1>6 DEF L

LEMMA AppliedEmpty == \A v : Applied(<<>>, v) = v
<1> TAKE v
<1> DEFINE g == [n \in 0..0 |-> v]
<1>1. Len(<<>>) = 0 /\ g[0] = v
  OBVIOUS
<1> HIDE DEF g
<1> QED  BY <1>1, AppliedBy

\* A composition applies its inner term and then its outer one.
LEMMA AppliedConcat ==
    ASSUME NEW s \in Terms, NEW t \in Terms, NEW v
    PROVE  Applied(s \o t, v) = Applied(s, Applied(t, v))
<1> DEFINE S == Len(s)
           T == Len(t)
           w == Applied(t, v)
<1>1. S \in Nat /\ T \in Nat
  BY DEF Terms
<1>2. PICK u : u = s \o t
  OBVIOUS
<1>3. /\ Len(u) = S + T
      /\ \A i \in 1..S : u[i] = s[i]
      /\ \A i \in 1..T : u[S + i] = t[i]
  BY <1>2 DEF Terms
<1>4. PICK f : Applying(f, t, v, T) /\ w = f[T]
  BY <1>1, AppliedIs
<1>5. PICK g : Applying(g, s, w, S) /\ Applied(s, w) = g[S]
  BY <1>1, AppliedIs
<1>6. \A n \in 0..T : f[n] = IF n = 0 THEN v ELSE Compute(t[T + 1 - n], f[n - 1])
  BY <1>4 DEF Applying
<1>7. \A n \in 0..S : g[n] = IF n = 0 THEN w ELSE Compute(s[S + 1 - n], g[n - 1])
  BY <1>5 DEF Applying
<1> DEFINE h == [n \in 0..(S + T) |-> IF n <= T THEN f[n] ELSE g[n - T]]
<1> HIDE DEF S, T, w
<1>8. h[0] = v
  BY <1>1, <1>6
<1>9. ASSUME NEW n \in 1..(S + T)
      PROVE  h[n] = Compute(u[S + T + 1 - n], h[n - 1])
  <2>1. CASE n <= T
    <3>1. n \in 0..T /\ n # 0 /\ n - 1 \in 0..(S + T) /\ n - 1 <= T /\ T + 1 - n \in 1..T
          /\ S + T + 1 - n = S + (T + 1 - n)
      BY <1>1, <2>1
    <3>2. h[n] = f[n] /\ h[n - 1] = f[n - 1]
      BY <2>1, <3>1
    <3>3. u[S + T + 1 - n] = t[T + 1 - n]
      <4>1. PICK i \in 1..T : i = T + 1 - n
        BY <3>1
      <4>2. u[S + i] = t[i]
        BY <1>3
      <4> QED  BY <3>1, <4>1, <4>2
    <3> HIDE DEF h
    <3> QED  BY <1>6, <3>1, <3>2, <3>3
  <2>2. CASE n > T
    <3>1. n - T \in 0..S /\ n - T # 0 /\ n - 1 \in 0..(S + T) /\ S + 1 - (n - T) \in 1..S
          /\ S + T + 1 - n = S + 1 - (n - T) /\ (n - T) - 1 = n - 1 - T /\ T \in 0..T
      BY <1>1, <2>2
    <3>2. h[n] = g[n - T]
      BY <1>1, <2>2, <3>1
    <3>3. h[n - 1] = g[n - 1 - T]
      <4>1. CASE n - 1 <= T
        <5>1. n - 1 = T /\ n - 1 - T = 0 /\ 0 \in 0..S
          BY <1>1, <2>2, <4>1
        <5>2. h[n - 1] = f[T] /\ g[0] = w
          BY <1>7, <3>1, <4>1, <5>1
        <5> QED  BY <1>4, <5>1, <5>2 DEF T
      <4>2. CASE ~(n - 1 <= T)
        BY <3>1, <4>2
      <4> QED  BY <4>1, <4>2
    <3>4. u[S + T + 1 - n] = s[S + 1 - (n - T)]
      BY <1>3, <3>1
    <3> HIDE DEF h
    <3> QED  BY <1>7, <3>1, <3>2, <3>3, <3>4
  <2> QED  BY <1>1, <2>1, <2>2
<1>10. h[S + T] = g[S]
  <2>1. CASE S = 0
    <3>1. h[S + T] = f[T] /\ g[S] = w
      BY <1>1, <1>7, <2>1
    <3> QED  BY <1>4, <3>1 DEF T
  <2>2. CASE S # 0
    <3>1. PICK k \in 0..(S + T) : k = S + T /\ ~(k <= T) /\ k - T = S
      BY <1>1, <2>2
    <3>2. h[k] = g[k - T]
      BY <3>1
    <3> HIDE DEF h
    <3> QED  BY <3>1, <3>2
  <2> QED  BY <2>1, <2>2
<1> HIDE DEF h
<1>11. \A n \in 1..Len(u) : h[n] = Compute(u[Len(u) + 1 - n], h[n - 1])
  BY <1>9, <1>3
<1>12. Applied(u, v) = h[Len(u)]
  <2>1. Len(u) \in Nat
    BY <1>1, <1>3
  <2> QED  BY <1>8, <1>11, <2>1, AppliedBy
<1> QED  BY <1>5, <1>3, <1>10, <1>12, <1>2 DEF w, S

LEMMA AppliedOne ==
    ASSUME NEW f \in Primitives, NEW v
    PROVE  <<f>> \in Terms /\ Applied(<<f>>, v) = Compute(f, v)
<1> DEFINE g == [n \in 0..1 |-> IF n = 0 THEN v ELSE Compute(f, v)]
<1>1. <<f>> \in Terms /\ Len(<<f>>) = 1 /\ <<f>>[1] = f
  BY DEF Terms
<1>2. g[0] = v /\ g[1] = Compute(f, v)
  OBVIOUS
<1> HIDE DEF g
<1>3. \A n \in 1..Len(<<f>>) : g[n] = Compute(<<f>>[Len(<<f>>) + 1 - n], g[n - 1])
  BY <1>1, <1>2
<1>4. Applied(<<f>>, v) = g[Len(<<f>>)]
  BY <1>1, <1>2, <1>3, AppliedBy
<1> QED  BY <1>1, <1>2, <1>4

\* The steps of Normalized.
Normalizing(f, terms, m) ==
    f = [n \in 0..m |->
            IF n = 0 THEN <<>>
            ELSE IF f[n - 1] # <<>> /\ Last(f[n - 1]) = terms[n] /\ terms[n] \in Idempotent
                 THEN f[n - 1] ELSE Append(f[n - 1], terms[n])]

LEMMA NormalizingExists ==
    ASSUME NEW terms, NEW m \in Nat
    PROVE  \E f : Normalizing(f, terms, m)
<1> DEFINE T == {n \in Nat : \E f : Normalizing(f, terms, n)}
           body(h, k) == IF k = 0 THEN <<>>
                         ELSE IF h[k - 1] # <<>> /\ Last(h[k - 1]) = terms[k]
                                 /\ terms[k] \in Idempotent
                              THEN h[k - 1] ELSE Append(h[k - 1], terms[k])
<1>1. 0 \in T
  <2> DEFINE f == [n \in 0..0 |-> <<>>]
  <2>1. Normalizing(f, terms, 0)
    BY DEF Normalizing
  <2> QED  BY <2>1
<1>2. ASSUME NEW n \in Nat, n \in T  PROVE n + 1 \in T
  <2>1. PICK f : Normalizing(f, terms, n)
    BY <1>2
  <2> DEFINE g == [k \in 0..(n + 1) |-> IF k = n + 1 THEN body(f, k) ELSE f[k]]
  <2>2. ASSUME NEW k \in 0..(n + 1)  PROVE g[k] = body(g, k)
    <3>1. CASE k = n + 1
      <4>1. k # 0 /\ k - 1 = n /\ n \in 0..(n + 1) /\ n # n + 1
        BY <3>1
      <4>2. g[k] = body(f, k) /\ g[n] = f[n]
        BY <3>1, <4>1
      <4> HIDE DEF g
      <4> QED  BY <4>1, <4>2
    <3>2. CASE k # n + 1
      <4>1. k \in 0..n
        BY <3>2
      <4>2. k # 0 => k - 1 \in 0..(n + 1) /\ k - 1 # n + 1
        BY <4>1
      <4>3. g[k] = f[k] /\ (k # 0 => g[k - 1] = f[k - 1])
        BY <3>2, <4>2
      <4>4. f[k] = body(f, k)
        BY <2>1, <4>1 DEF Normalizing
      <4> HIDE DEF g
      <4> QED  BY <4>3, <4>4
    <3> QED  BY <3>1, <3>2
  <2>3. Normalizing(g, terms, n + 1)
    BY <2>2 DEF Normalizing
  <2> HIDE DEF g
  <2> QED  BY <2>3
<1>3. T = Nat
  BY <1>1, <1>2, NatSteps
<1> QED  BY <1>3

LEMMA AppliedAppend ==
    ASSUME NEW s \in Terms, NEW f \in Primitives, NEW v
    PROVE  Append(s, f) \in Terms /\ Applied(Append(s, f), v) = Applied(s, Compute(f, v))
<1>1. Append(s, f) = s \o <<f>> /\ Append(s, f) \in Terms
  BY DEF Terms
<1> QED  BY <1>1, AppliedConcat, AppliedOne

\* An idempotent function after itself changes nothing.
LEMMA NormalizedMeans ==
    ASSUME ValuesAreTyped, PrimitivesAreRight, NEW terms \in Terms
    PROVE  /\ Normalized(terms) \in Terms
           /\ \A v \in Values : Applied(Normalized(terms), v) = Applied(terms, v)
<1> DEFINE L == Len(terms)
           f == CHOOSE f : Normalizing(f, terms, L)
<1>1. L \in Nat /\ \A n \in 1..L : terms[n] \in Primitives
  BY DEF Terms
<1>2. Normalizing(f, terms, L)
  BY <1>1, NormalizingExists
<1>3. Normalized(terms) = f[L]
  BY DEF Normalized, Normalizing
<1> HIDE DEF f
<1>4. \A n \in 0..L : f[n] = IF n = 0 THEN <<>>
                             ELSE IF f[n - 1] # <<>> /\ Last(f[n - 1]) = terms[n]
                                     /\ terms[n] \in Idempotent
                                  THEN f[n - 1] ELSE Append(f[n - 1], terms[n])
  BY <1>2 DEF Normalizing
<1> DEFINE U == {n \in Nat : n <= L => /\ f[n] \in Terms
                                       /\ \A v \in Values :
                                            Applied(f[n], v) = Applied(SubSeq(terms, 1, n), v)}
<1>5. 0 \in U
  <2>1. f[0] = <<>> /\ SubSeq(terms, 1, 0) = <<>> /\ <<>> \in Terms
    BY <1>1, <1>4 DEF Terms
  <2> QED  BY <2>1
<1>6. ASSUME NEW n \in Nat, n \in U  PROVE n + 1 \in U
  <2> SUFFICES ASSUME n + 1 <= L
               PROVE  /\ f[n + 1] \in Terms
                      /\ \A v \in Values :
                            Applied(f[n + 1], v) = Applied(SubSeq(terms, 1, n + 1), v)
    OBVIOUS
  <2>1. n + 1 \in 0..L /\ n + 1 # 0 /\ (n + 1) - 1 = n /\ n + 1 \in 1..L /\ n <= L
    BY <1>1
  <2>2. PICK g : g = terms[n + 1]
    OBVIOUS
  <2>3. PICK s : s = f[n]
    OBVIOUS
  <2>4. PICK u : u = SubSeq(terms, 1, n)
    OBVIOUS
  <2>5. g \in Primitives /\ s \in Terms /\ \A v \in Values : Applied(s, v) = Applied(u, v)
    BY <1>1, <1>6, <2>1, <2>2, <2>3, <2>4
  <2>6. u \in Terms /\ SubSeq(terms, 1, n + 1) = Append(u, g)
    <3>1. terms \in Seq(Primitives)
      BY DEF Terms
    <3>2. u \in Seq(Primitives) /\ Len(u) = n /\ \A i \in 1..n : u[i] = terms[i]
      BY <1>1, <2>1, <2>4, <3>1, SubSeqProperties
    <3>3. PICK w : w = SubSeq(terms, 1, n + 1)
      OBVIOUS
    <3>4. w \in Seq(Primitives) /\ Len(w) = n + 1 /\ \A i \in 1..n + 1 : w[i] = terms[i]
      BY <1>1, <2>1, <3>1, <3>3, SubSeqProperties
    <3>5. PICK x : x = Append(u, g)
      OBVIOUS
    <3>6. x \in Seq(Primitives) /\ Len(x) = n + 1
          /\ \A i \in 1..n + 1 : x[i] = IF i = n + 1 THEN g ELSE u[i]
      BY <2>5, <3>2, <3>5, AppendProperties
    <3>7. \A i \in 1..n + 1 : w[i] = x[i]
      BY <2>2, <3>2, <3>4, <3>6
    <3>8. w = x
      BY <3>4, <3>6, <3>7, SeqEqual
    <3> QED  BY <3>2, <3>3, <3>5, <3>8 DEF Terms
  <2>7. ASSUME NEW v \in Values
        PROVE  Applied(SubSeq(terms, 1, n + 1), v) = Applied(s, Compute(g, v))
    <3>1. Compute(g, v) \in Values
      BY <2>5 DEF ValuesAreTyped
    <3>2. Applied(Append(u, g), v) = Applied(u, Compute(g, v))
      BY <2>5, <2>6, AppliedAppend
    <3> QED  BY <2>5, <2>6, <3>1, <3>2
  <2>8. CASE s # <<>> /\ Last(s) = g /\ g \in Idempotent
    <3>1. f[n + 1] = s
      BY <1>4, <2>1, <2>2, <2>3, <2>8
    <3> DEFINE m == Len(s) - 1
               front == SubSeq(s, 1, m)
    <3>2. front \in Terms /\ s = Append(front, g)
      <4>1. s \in Seq(Primitives) /\ s # <<>> /\ s[Len(s)] = g
        BY <2>5, <2>8 DEF Terms, Last
      <4>2. Len(s) \in Nat \ {0} /\ m \in Nat /\ Len(s) = m + 1 /\ m \in 0..Len(s)
        BY <4>1
      <4> HIDE DEF m
      <4>3. front \in Seq(Primitives) /\ Len(front) = m /\ \A i \in 1..m : front[i] = s[i]
        BY <4>1, <4>2, SubSeqProperties
      <4>4. PICK y : y = front
        OBVIOUS
      <4> HIDE DEF front
      <4>5. PICK x : x = Append(y, g)
        OBVIOUS
      <4>6. x \in Seq(Primitives) /\ Len(x) = Len(s)
            /\ \A i \in 1..Len(s) : x[i] = IF i = Len(s) THEN g ELSE y[i]
        BY <2>5, <4>2, <4>3, <4>4, <4>5, AppendProperties
      <4>7. \A i \in 1..Len(s) : x[i] = s[i]
        BY <4>1, <4>2, <4>3, <4>4, <4>6
      <4>8. x = s
        BY <4>1, <4>6, <4>7, SeqEqual
      <4> QED  BY <4>3, <4>4, <4>5, <4>8 DEF Terms
    <3> HIDE DEF front
    <3>3. ASSUME NEW v \in Values  PROVE Applied(s, Compute(g, v)) = Applied(s, v)
      <4>1. Compute(g, Compute(g, v)) = Compute(g, v)
        BY <2>5, <2>8 DEF PrimitivesAreRight
      <4>2. \A w : Applied(s, w) = Applied(front, Compute(g, w))
        BY <2>5, <3>2, AppliedAppend
      <4> QED  BY <4>1, <4>2
    <3> QED  BY <2>5, <2>7, <3>1, <3>3
  <2>9. CASE ~(s # <<>> /\ Last(s) = g /\ g \in Idempotent)
    <3>1. f[n + 1] = Append(s, g)
      BY <1>4, <2>1, <2>2, <2>3, <2>9
    <3> QED  BY <2>5, <2>7, <3>1, AppliedAppend
  <2> QED  BY <2>8, <2>9
<1>7. U = Nat
  BY <1>5, <1>6, NatSteps
<1>8. SubSeq(terms, 1, L) = terms
  BY DEF Terms
<1>9. f[L] \in Terms /\ \A v \in Values : Applied(f[L], v) = Applied(SubSeq(terms, 1, L), v)
  <2> HIDE DEF L
  <2>1. L \in U /\ L <= L
    BY <1>1, <1>7
  <2> QED  BY <2>1
<1> QED  BY <1>3, <1>8, <1>9

\* What a composed term computes: the inner one's value, given to the outer one.
LEMMA ComposedTermMeans ==
    ASSUME ValuesAreTyped, PrimitivesAreRight, NEW s \in Terms, NEW t \in Terms
    PROVE  /\ ComposedTerm(s, t) \in Terms
           /\ \A v \in Values : Applied(ComposedTerm(s, t), v) = Applied(s, Applied(t, v))
<1>1. CASE t = <<>>
  BY <1>1, AppliedEmpty DEF ComposedTerm
<1>2. CASE t # <<>> /\ Len(s) = 1 /\ s[1] \in Constants
  <2>1. s[1] \in Primitives /\ s = <<s[1]>>
    <3>1. s \in Seq(Primitives) /\ Len(s) = 1 /\ s[1] \in Primitives
      <4>1. s \in Seq(Primitives) /\ Len(s) = 1
        BY <1>2 DEF Terms
      <4>2. \A i \in 1..Len(s) : s[i] \in Primitives
        BY <4>1
      <4>3. 1 \in 1..Len(s)
        BY <4>1
      <4> QED  BY <4>1, <4>2, <4>3
    <3>2. PICK g \in Primitives : g = s[1]
      BY <3>1
    <3>3. <<g>> \in Seq(Primitives) /\ Len(<<g>>) = 1 /\ <<g>>[1] = g
      OBVIOUS
    <3>4. \A i \in 1..1 : s[i] = <<g>>[i]
      BY <3>2, <3>3
    <3>5. s = <<g>>
      BY <3>1, <3>3, <3>4, SeqEqual
    <3> QED  BY <3>1, <3>2, <3>5
  <2>2. ASSUME NEW v \in Values  PROVE Applied(s, v) = Applied(s, Applied(t, v))
    <3>1. Applied(t, v) \in Values
      BY AppliedType
    <3>2. \A w : Applied(s, w) = Compute(s[1], w)
      BY <2>1, AppliedOne
    <3>3. Compute(s[1], v) = Compute(s[1], Applied(t, v))
      BY <1>2, <2>1, <3>1 DEF PrimitivesAreRight
    <3> QED  BY <3>2, <3>3
  <2> QED  BY <1>2, <2>2 DEF ComposedTerm
<1>3. CASE ~(t = <<>> \/ (Len(s) = 1 /\ s[1] \in Constants))
  <2>1. ComposedTerm(s, t) = Normalized(s \o t) /\ s \o t \in Terms
    BY <1>3 DEF ComposedTerm, Terms
  <2> QED  BY <2>1, NormalizedMeans, AppliedConcat
<1> QED  BY <1>1, <1>2, <1>3

-------------------------------------------------------------------------------
(* Finite sets. *)

\* What is named by the members of a finite set is finite.
LEMMA FiniteImage ==
    ASSUME NEW S, IsFiniteSet(S), NEW T, NEW f, \A y \in T : \E x \in S : y = f[x]
    PROVE  IsFiniteSet(T)
<1> DEFINE R == {x \in S : f[x] \in T}
           g == [x \in R |-> f[x]]
<1>1. IsFiniteSet(R)
  BY FS_Subset
<1>2. g \in Surjection(R, T)
  <2>1. g \in [R -> T]
    OBVIOUS
  <2>2. ASSUME NEW y \in T  PROVE \E x \in R : g[x] = y
    <3>1. PICK x \in S : y = f[x]
      OBVIOUS
    <3> QED  BY <3>1
  <2> HIDE DEF g
  <2> QED  BY <2>1, <2>2 DEF Surjection
<1> QED  BY <1>1, <1>2, FS_Surjection

\* So is the union of finitely many finite sets.
LEMMA FiniteUnion ==
    ASSUME NEW S, IsFiniteSet(S), NEW T, NEW f, \A x \in S : IsFiniteSet(f[x]),
           \A y \in T : \E x \in S : y \in f[x]
    PROVE  IsFiniteSet(T)
<1> DEFINE U == {f[x] : x \in S}
<1>1. IsFiniteSet(U) /\ \A u \in U : IsFiniteSet(u)
  BY FiniteImage
<1>2. T \in SUBSET UNION U
  OBVIOUS
<1> HIDE DEF U
<1>3. IsFiniteSet(UNION U)
  BY <1>1, FS_UNION
<1> QED  BY <1>2, <1>3, FS_Subset

LEMMA ComposedType ==
    ASSUME ValuesAreTyped, PrimitivesAreRight, NEW F \in Functions, NEW G \in Functions
    PROVE  Composed(F, G) \in Functions
<1>1. F \subseteq Terms /\ G \subseteq Terms /\ IsFiniteSet(F) /\ IsFiniteSet(G)
      /\ (\E s \in F : TRUE) /\ (\E t \in G : TRUE)
  BY DEF Functions
<1>2. \A s \in F, t \in G : ComposedTerm(s, t) \in Terms
  BY <1>1, ComposedTermMeans
<1>3. Composed(F, G) \subseteq Terms /\ Composed(F, G) # {}
  <2>1. \A s \in F, t \in G : ComposedTerm(s, t) \in Composed(F, G)
    BY DEF Composed
  <2>2. \A u \in Composed(F, G) : \E s \in F, t \in G : u = ComposedTerm(s, t)
    BY DEF Composed
  <2> QED  BY <1>1, <1>2, <2>1, <2>2
<1>4. IsFiniteSet(Composed(F, G))
  <2> DEFINE h == [p \in F \X G |-> ComposedTerm(p[1], p[2])]
  <2>1. IsFiniteSet(F \X G)
    BY <1>1, FS_Product
  <2>2. ASSUME NEW u \in Composed(F, G)  PROVE \E p \in F \X G : u = h[p]
    <3>1. PICK s \in F, t \in G : u = ComposedTerm(s, t)
      BY DEF Composed
    <3>2. <<s, t>> \in F \X G /\ h[<<s, t>>] = u
      BY <3>1
    <3> QED  BY <3>2
  <2> HIDE DEF h
  <2> QED  BY <2>1, <2>2, FiniteImage
<1> QED  BY <1>3, <1>4 DEF Functions

LEMMA PointsFinite == FunctionsAreTyped => IsFiniteSet(Points)
BY FS_Product DEF FunctionsAreTyped, Points

LEMMA MovesFinite ==
    ASSUME FunctionsAreTyped, NEW p, NEW e
    PROVE  IsFiniteSet(Moves(p, e))
<1> DEFINE Q == {q \in Points :
        \/ /\ q[1] \in Successors(p, e.at[1])
           /\ q[2] \in NormalFlow(p, e.at[1], q[1], e.at[2])
        \/ /\ q[1] \in Sites(p, e.at[1])
           /\ q[2] \in BypassFlow(p, e.at[1], q[1], e.at[2])}
           f == [q \in Q |-> Moved(e, q)]
<1>1. IsFiniteSet(Q)
  BY PointsFinite, FS_Subset
<1>2. \A y \in Moves(p, e) : \E q \in Q : y = f[q]
  BY DEF Moves
<1> HIDE DEF Q, f
<1> QED  BY <1>1, <1>2, FiniteImage

LEMMA EnteredFinite ==
    ASSUME FunctionsAreTyped, NEW p, NEW e
    PROVE  IsFiniteSet(Entered(p, e))
<1> DEFINE Q == {q \in Points : \E f \in Callees(p, e.at[1]) :
                    q[1] \in Starts(p, f) /\ q[2] \in CallFlow(p, e.at[1], f, e.at[2])}
           f == [q \in Q |-> [point |-> q, ctx |-> Push(p, e.from.ctx, e.at[1])]]
<1>1. IsFiniteSet(Q)
  BY PointsFinite, FS_Subset
<1>2. \A y \in Entered(p, e) : \E q \in Q : y = f[q]
  BY DEF Entered
<1> HIDE DEF Q, f
<1> QED  BY <1>1, <1>2, FiniteImage

LEMMA ReturnedFinite ==
    ASSUME FunctionsAreTyped, NEW p, NEW c, NEW x, NEW r
    PROVE  IsFiniteSet(Returned(p, c, x, r))
<1> DEFINE Q == {q \in Points :
        q[1] = r /\ q[2] \in ReturnedFacts(p, c, x, r, c.at[2])}
           f == [q \in Q |-> Moved(c, q)]
<1>1. IsFiniteSet(Q)
  BY PointsFinite, FS_Subset
<1>2. \A y \in Returned(p, c, x, r) : \E q \in Q : y = f[q]
  BY DEF Returned, ReturnedWith
<1> HIDE DEF Q, f
<1> QED  BY <1>1, <1>2, FiniteImage

LEMMA SeedsFinite ==
    ASSUME FunctionsAreTyped, NEW p \in Problems
    PROVE  IsFiniteSet(Seeds(p))
<1> DEFINE f == [q \in p.seeds |-> EntryEdge([point |-> q, ctx |-> <<>>])]
<1>1. p.seeds \in SUBSET Points
  BY ProblemsAssumption DEF ProblemType
<1>2. IsFiniteSet(p.seeds)
  BY <1>1, PointsFinite, FS_Subset
<1>3. \A y \in Seeds(p) : \E q \in p.seeds : y = f[q]
  BY DEF Seeds
<1> HIDE DEF f
<1> QED  BY <1>2, <1>3, FiniteImage

LEMMA SitesFinite ==
    ASSUME FunctionsAreTyped, NEW p, NEW n
    PROVE  Sites(p, n) \subseteq Nodes /\ IsFiniteSet(Sites(p, n))
<1>1. Sites(p, n) \in SUBSET Nodes
  BY DEF Sites
<1> QED  BY <1>1, FS_Subset DEF FunctionsAreTyped

-------------------------------------------------------------------------------
(* What a step adds is typed. *)

\* The tables of the first phase.
Tables ==
    /\ problem \in Problems
    /\ DOMAIN jumps \subseteq Edges /\ IsFiniteSet(DOMAIN jumps)
    /\ \A e \in DOMAIN jumps : jumps[e] \in Functions
    /\ pending \subseteq DOMAIN jumps
    /\ IsFiniteSet(calls)
    /\ calls \subseteq [callee : Keys, caller : DOMAIN jumps, site : Nodes, jump : Functions]
    /\ DOMAIN endings \subseteq DOMAIN jumps
    /\ \A e \in DOMAIN endings : endings[e] \in Functions /\ endings[e] \subseteq jumps[e]

Additions == Edges \X Functions

LEMMA EdgePoints ==
    ASSUME NEW e \in Edges
    PROVE  /\ e.from \in Keys /\ e.at \in Points /\ e.at[1] \in Nodes /\ e.at[2] \in Facts
           /\ e.from.point \in Points /\ e.from.point[1] \in Nodes /\ e.from.point[2] \in Facts
BY DEF Edges, Keys, Points

LEMMA OwnerType ==
    ASSUME NEW p \in Problems, NEW n \in Nodes
    PROVE  p.graph.owner[n] \in Procedures
BY ProblemsAssumption DEF ProblemType, Graphs

LEMMA FunctionTypes ==
    ASSUME FunctionsAreTyped, NEW p \in Problems, NEW e \in Edges
    PROVE  /\ \A m \in Edges : FunctionAlong(p, e, m) \in Functions
                               /\ FunctionPast(p, e, m) \in Functions
           /\ \A k \in Keys : FunctionInto(p, e, k) \in Functions
           /\ \A x, m \in Edges, r \in Nodes : FunctionBack(p, e, x, r, m) \in Functions
<1>1. e.at[1] \in Nodes /\ e.at[2] \in Facts
  BY EdgePoints
<1>2. ASSUME NEW m \in Edges
      PROVE  FunctionAlong(p, e, m) \in Functions /\ FunctionPast(p, e, m) \in Functions
  <2>1. m.at[1] \in Nodes /\ m.at[2] \in Facts
    BY EdgePoints
  <2> QED  BY <1>1, <2>1 DEF FunctionsAreTyped, FunctionAlong, FunctionPast
<1>3. ASSUME NEW k \in Keys  PROVE FunctionInto(p, e, k) \in Functions
  <2>1. k.point[1] \in Nodes /\ k.point[2] \in Facts
    BY DEF Keys, Points
  <2>2. p.graph.owner[k.point[1]] \in Procedures
    BY <2>1, OwnerType
  <2> QED  BY <1>1, <2>1, <2>2 DEF FunctionsAreTyped, FunctionInto
<1>4. ASSUME NEW x \in Edges, NEW m \in Edges, NEW r \in Nodes
      PROVE  FunctionBack(p, e, x, r, m) \in Functions
  <2>1. m.at[2] \in Facts /\ x.at[1] \in Nodes /\ x.at[2] \in Facts
    BY EdgePoints
  <2>2. p.graph.owner[x.at[1]] \in Procedures
    BY <2>1, OwnerType
  <2> QED  BY <1>1, <2>1, <2>2 DEF FunctionsAreTyped, FunctionBack
<1> QED  BY <1>2, <1>3, <1>4

Good == FunctionsAreTyped /\ ValuesAreTyped /\ PrimitivesAreRight

LEMMA IdentityType == Identity \in Functions
<1>1. <<>> \in Terms
  BY DEF Terms
<1>2. IsFiniteSet({<<>>})
  BY FS_Singleton
<1> QED  BY <1>1, <1>2 DEF Identity, Functions

LEMMA AlongType ==
    ASSUME Good, Tables, NEW e \in DOMAIN jumps
    PROVE  /\ Along(e) \cup Past(e) \cup Into(e) \subseteq Additions
           /\ IsFiniteSet(Along(e)) /\ IsFiniteSet(Past(e)) /\ IsFiniteSet(Into(e))
<1>1. e \in Edges /\ jumps[e] \in Functions /\ problem \in Problems
  BY DEF Tables
<1>2. Moves(problem, e) \subseteq Edges /\ Entered(problem, e) \subseteq Keys
  BY <1>1, MovesType, EnteredType
<1>3. Flowing(problem, e) \in SUBSET Moves(problem, e)
      /\ Passing(problem, e) \in SUBSET Moves(problem, e)
  BY DEF Flowing, Passing
<1>4. \A m \in Edges : /\ Composed(FunctionAlong(problem, e, m), jumps[e]) \in Functions
                       /\ Composed(FunctionPast(problem, e, m), jumps[e]) \in Functions
  BY <1>1, FunctionTypes, ComposedType DEF Good
<1>5. Along(e) \subseteq Additions /\ Past(e) \subseteq Additions
  BY <1>2, <1>3, <1>4 DEF Along, Past, Additions
<1>6. Into(e) \subseteq Additions
  BY <1>2, EntryType, IdentityType DEF Into, Additions
<1>7. IsFiniteSet(Flowing(problem, e)) /\ IsFiniteSet(Passing(problem, e))
  BY <1>3, MovesFinite, FS_Subset DEF Good
<1>8. IsFiniteSet(Along(e))
  <2> DEFINE f == [m \in Flowing(problem, e) |->
                      <<m, Composed(FunctionAlong(problem, e, m), jumps[e])>>]
  <2>1. \A y \in Along(e) : \E m \in Flowing(problem, e) : y = f[m]
    BY DEF Along
  <2> HIDE DEF f
  <2> QED  BY <1>7, <2>1, FiniteImage
<1>9. IsFiniteSet(Past(e))
  <2> DEFINE f == [m \in Passing(problem, e) |->
                      <<m, Composed(FunctionPast(problem, e, m), jumps[e])>>]
  <2>1. \A y \in Past(e) : \E m \in Passing(problem, e) : y = f[m]
    BY DEF Past
  <2> HIDE DEF f
  <2> QED  BY <1>7, <2>1, FiniteImage
<1>10. IsFiniteSet(Into(e))
  <2> DEFINE f == [k \in Entered(problem, e) |-> <<EntryEdge(k), Identity>>]
  <2>1. \A y \in Into(e) : \E k \in Entered(problem, e) : y = f[k]
    BY DEF Into
  <2>2. IsFiniteSet(Entered(problem, e))
    BY EnteredFinite DEF Good
  <2> HIDE DEF f
  <2> QED  BY <2>1, <2>2, FiniteImage
<1> QED  BY <1>5, <1>6, <1>8, <1>9, <1>10

LEMMA RecordedType ==
    ASSUME Good, Tables, NEW e \in DOMAIN jumps
    PROVE  /\ Recorded(e) \subseteq
                  [callee : Keys, caller : DOMAIN jumps, site : Nodes, jump : Functions]
           /\ IsFiniteSet(Recorded(e))
<1>1. e \in Edges /\ jumps[e] \in Functions /\ problem \in Problems
  BY DEF Tables
<1>2. Entered(problem, e) \subseteq Keys /\ Sites(problem, e.at[1]) \subseteq Nodes
  BY <1>1, EnteredType, SitesFinite DEF Good
<1>3. \A k \in Keys : Composed(FunctionInto(problem, e, k), jumps[e]) \in Functions
  BY <1>1, FunctionTypes, ComposedType DEF Good
<1>4. IsFiniteSet(Recorded(e))
  <2> DEFINE S == Entered(problem, e) \X Sites(problem, e.at[1])
             f == [q \in S |-> [callee |-> q[1], caller |-> e, site |-> q[2],
                               jump |-> Composed(FunctionInto(problem, e, q[1]), jumps[e])]]
  <2>1. IsFiniteSet(S)
    BY EnteredFinite, SitesFinite, FS_Product DEF Good
  <2>2. ASSUME NEW y \in Recorded(e)  PROVE \E q \in S : y = f[q]
    <3>1. PICK k \in Entered(problem, e), r \in Sites(problem, e.at[1]) :
             y = [callee |-> k, caller |-> e, site |-> r,
                  jump |-> Composed(FunctionInto(problem, e, k), jumps[e])]
      BY DEF Recorded
    <3>2. <<k, r>> \in S /\ f[<<k, r>>] = y
      BY <3>1
    <3> QED  BY <3>2
  <2> HIDE DEF S, f
  <2> QED  BY <2>1, <2>2, FiniteImage
<1> QED  BY <1>2, <1>3, <1>4 DEF Recorded

LEMMA BackToType ==
    ASSUME Good, problem \in Problems, NEW c, c.caller \in Edges, c.site \in Nodes,
           c.jump \in Functions, NEW x \in Edges, NEW F \in Functions
    PROVE  BackTo(c, x, F) \subseteq Additions /\ IsFiniteSet(BackTo(c, x, F))
<1> DEFINE R == Returned(problem, c.caller, x, c.site)
           f == [m \in R |->
              <<m, Composed(Composed(FunctionBack(problem, c.caller, x, c.site, m), F), c.jump)>>]
<1>1. R \subseteq Edges
  <2>1. c.caller.at[2] \in Facts
    BY EdgePoints
  <2> QED  BY <2>1, ReturnedType DEF Returned
<1>2. \A m \in R : Composed(Composed(FunctionBack(problem, c.caller, x, c.site, m), F), c.jump)
                      \in Functions
  BY <1>1, FunctionTypes, ComposedType DEF Good
<1>3. IsFiniteSet(R)
  BY ReturnedFinite DEF Good
<1>4. \A y \in BackTo(c, x, F) : \E m \in R : y = f[m]
  BY DEF BackTo
<1>5. BackTo(c, x, F) \subseteq Additions
  BY <1>1, <1>2 DEF BackTo, Additions
<1> HIDE DEF R, f
<1> QED  BY <1>3, <1>4, <1>5, FiniteImage

LEMMA SummaryType ==
    ASSUME Tables, NEW x \in DOMAIN jumps
    PROVE  Summary(x) = jumps[x]
BY DEF Tables, Summary

LEMMA ReplayedType ==
    ASSUME Good, Tables, NEW c, c.caller \in Edges, c.site \in Nodes, c.jump \in Functions
    PROVE  Replayed(c) \subseteq Additions /\ IsFiniteSet(Replayed(c))
<1> DEFINE S == {x \in DOMAIN endings : x.from = c.callee}
           f == [x \in S |-> BackTo(c, x, endings[x])]
<1>1. /\ \A x \in S : x \in Edges /\ endings[x] \in Functions
      /\ problem \in Problems /\ S \in SUBSET DOMAIN jumps
  BY DEF Tables
<1>2. IsFiniteSet(S)
  BY <1>1, FS_Subset DEF Tables
<1>3. \A x \in S : BackTo(c, x, endings[x]) \subseteq Additions
                   /\ IsFiniteSet(BackTo(c, x, endings[x]))
  BY <1>1, BackToType
<1>4. \A x \in S : IsFiniteSet(f[x])
  BY <1>3
<1>5. \A y \in Replayed(c) : \E x \in S : y \in f[x]
  BY DEF Replayed
<1>6. Replayed(c) \subseteq Additions
  BY <1>3 DEF Replayed
<1> HIDE DEF S, f
<1> QED  BY <1>2, <1>4, <1>5, <1>6, FiniteUnion

LEMMA ResumedType ==
    ASSUME Good, Tables, NEW x \in DOMAIN jumps, NEW waiting, IsFiniteSet(waiting),
           \A c \in waiting : c.caller \in Edges /\ c.site \in Nodes /\ c.jump \in Functions
    PROVE  Resumed(x, waiting) \subseteq Additions /\ IsFiniteSet(Resumed(x, waiting))
<1> DEFINE S == {c \in waiting : c.callee = x.from}
           f == [c \in S |-> BackTo(c, x, Summary(x))]
<1>1. S \in SUBSET waiting /\ x \in Edges /\ Summary(x) \in Functions /\ problem \in Problems
  BY SummaryType DEF Tables
<1>2. IsFiniteSet(S)
  BY <1>1, FS_Subset
<1>3. \A c \in S : BackTo(c, x, Summary(x)) \subseteq Additions
                   /\ IsFiniteSet(BackTo(c, x, Summary(x)))
  BY <1>1, BackToType
<1>4. \A c \in S : IsFiniteSet(f[c])
  BY <1>3
<1>5. \A y \in Resumed(x, waiting) : \E c \in S : y \in f[c]
  BY DEF Resumed
<1>6. Resumed(x, waiting) \subseteq Additions
  BY <1>3 DEF Resumed
<1> HIDE DEF S, f
<1> QED  BY <1>2, <1>4, <1>5, <1>6, FiniteUnion

LEMMA RecordTyped ==
    ASSUME Good, Tables, NEW e \in DOMAIN jumps
    PROVE  /\ IsFiniteSet(calls \cup Recorded(e))
           /\ \A c \in calls \cup Recorded(e) :
                 /\ c.callee \in Keys /\ c.caller \in DOMAIN jumps /\ c.caller \in Edges
                 /\ c.site \in Nodes /\ c.jump \in Functions
<1>1. IsFiniteSet(calls \cup Recorded(e))
  BY RecordedType, FS_Union DEF Tables
<1>2. calls \cup Recorded(e) \subseteq
          [callee : Keys, caller : DOMAIN jumps, site : Nodes, jump : Functions]
  BY RecordedType DEF Tables
<1>3. DOMAIN jumps \subseteq Edges
  BY DEF Tables
<1> QED  BY <1>1, <1>2, <1>3

LEMMA ProducedType ==
    ASSUME Good, Tables, NEW e \in DOMAIN jumps
    PROVE  Produced(e) \subseteq Additions /\ IsFiniteSet(Produced(e))
<1> DEFINE old == UNION {Replayed(c) : c \in Recorded(e) \ calls}
           new == UNION {Resumed(x, calls \cup Recorded(e)) : x \in Summarized(e)}
<1>1. old \subseteq Additions /\ IsFiniteSet(old)
  <2> DEFINE S == Recorded(e) \ calls
             f == [c \in S |-> Replayed(c)]
  <2>1. IsFiniteSet(S)
    BY RecordedType, FS_Difference
  <2>2. \A c \in S : Replayed(c) \subseteq Additions /\ IsFiniteSet(Replayed(c))
    BY RecordTyped, ReplayedType
  <2>3. (\A c \in S : IsFiniteSet(f[c])) /\ (\A y \in old : \E c \in S : y \in f[c])
    BY <2>2
  <2>4. old \subseteq Additions
    BY <2>2
  <2> HIDE DEF S, f, old
  <2> QED  BY <2>1, <2>3, <2>4, FiniteUnion
<1>2. new \subseteq Additions /\ IsFiniteSet(new)
  <2> DEFINE S == Summarized(e)
             f == [x \in S |-> Resumed(x, calls \cup Recorded(e))]
  <2>1. IsFiniteSet(S)
    <3>1. S \in SUBSET {e} /\ IsFiniteSet({e})
      BY FS_Singleton DEF Summarized
    <3> QED  BY <3>1, FS_Subset
  <2>2. \A x \in S : /\ Resumed(x, calls \cup Recorded(e)) \subseteq Additions
                     /\ IsFiniteSet(Resumed(x, calls \cup Recorded(e)))
    <3>1. S \subseteq DOMAIN jumps
      BY DEF Summarized
    <3> QED  BY <3>1, RecordTyped, ResumedType
  <2>3. (\A x \in S : IsFiniteSet(f[x])) /\ (\A y \in new : \E x \in S : y \in f[x])
    BY <2>2
  <2>4. new \subseteq Additions
    BY <2>2
  <2> HIDE DEF S, f, new
  <2> QED  BY <2>1, <2>3, <2>4, FiniteUnion
<1>3. Produced(e) = Along(e) \cup Past(e) \cup Into(e) \cup old \cup new
  BY DEF Produced
<1> HIDE DEF old, new
<1>4. IsFiniteSet(Along(e) \cup Past(e)) /\ IsFiniteSet(Into(e) \cup old)
  BY <1>1, AlongType, FS_Union
<1>5. IsFiniteSet((Along(e) \cup Past(e)) \cup (Into(e) \cup old))
  BY <1>4, FS_Union
<1>6. IsFiniteSet(((Along(e) \cup Past(e)) \cup (Into(e) \cup old)) \cup new)
  BY <1>2, <1>5, FS_Union
<1>7. Produced(e) = ((Along(e) \cup Past(e)) \cup (Into(e) \cup old)) \cup new
  BY <1>3
<1> QED  BY <1>1, <1>2, <1>3, <1>6, <1>7, AlongType

\* Joining keeps what there was and takes up what is produced.
LEMMA JoinedGrows ==
    ASSUME NEW P
    PROVE  /\ DOMAIN Joined(P) = DOMAIN jumps \cup {p[1] : p \in P}
           /\ \A e \in DOMAIN jumps : jumps[e] \subseteq Joined(P)[e]
           /\ \A p \in P : p[1] \in DOMAIN Joined(P) /\ p[2] \subseteq Joined(P)[p[1]]
BY DEF Joined

LEMMA JoinedMembers ==
    ASSUME NEW P, NEW J, J = Joined(P), NEW e \in DOMAIN J, NEW t \in J[e]
    PROVE  \/ e \in DOMAIN jumps /\ t \in jumps[e]
           \/ \E a \in P : e = a[1] /\ t \in a[2]
<1> DEFINE before == IF e \in DOMAIN jumps THEN jumps[e] ELSE {}
           mine == {q \in P : q[1] = e}
<1>1. J[e] = before \cup UNION {p[2] : p \in mine}
  BY DEF Joined
<1>2. t \in before \/ \E p \in mine : t \in p[2]
  <2> HIDE DEF before, mine
  <2> QED  BY <1>1
<1> QED  BY <1>2

LEMMA JoinedType ==
    ASSUME Tables, NEW P, P \subseteq Additions, IsFiniteSet(P)
    PROVE  /\ DOMAIN Joined(P) \subseteq Edges /\ IsFiniteSet(DOMAIN Joined(P))
           /\ \A e \in DOMAIN Joined(P) : Joined(P)[e] \in Functions
<1> DEFINE firsts == {p[1] : p \in P}
<1>1. firsts \subseteq Edges /\ IsFiniteSet(firsts)
  <2> DEFINE f == [p \in P |-> p[1]]
  <2>1. \A y \in firsts : \E p \in P : y = f[p]
    OBVIOUS
  <2>2. firsts \subseteq Edges
    BY DEF Additions
  <2> HIDE DEF f, firsts
  <2> QED  BY <2>1, <2>2, FiniteImage
<1>2. DOMAIN Joined(P) = DOMAIN jumps \cup firsts
  BY JoinedGrows
<1> HIDE DEF firsts
<1>3. DOMAIN Joined(P) \subseteq Edges /\ IsFiniteSet(DOMAIN Joined(P))
  <2>1. DOMAIN jumps \subseteq Edges /\ IsFiniteSet(DOMAIN jumps)
    BY DEF Tables
  <2>2. IsFiniteSet(DOMAIN jumps \cup firsts)
    BY <1>1, <2>1, FS_Union
  <2> QED  BY <1>1, <1>2, <2>1, <2>2
<1>4. ASSUME NEW e \in DOMAIN Joined(P)  PROVE Joined(P)[e] \in Functions
  <2> DEFINE before == IF e \in DOMAIN jumps THEN jumps[e] ELSE {}
             mine == {q \in P : q[1] = e}
             more == UNION {p[2] : p \in mine}
  <2>1. Joined(P)[e] = before \cup more
    BY <1>4 DEF Joined
  <2>2. before \subseteq Terms /\ IsFiniteSet(before)
    BY FS_EmptySet DEF Tables, Functions
  <2>3. mine \in SUBSET P /\ \A p \in mine : p[2] \in Functions
    BY DEF Additions
  <2>4. more \subseteq Terms /\ IsFiniteSet(more)
    <3> DEFINE f == [p \in mine |-> p[2]]
    <3>1. IsFiniteSet(mine)
      BY <2>3, FS_Subset
    <3>2. \A p \in mine : IsFiniteSet(f[p]) /\ f[p] \subseteq Terms
      BY <2>3 DEF Functions
    <3>3. \A y \in more : \E p \in mine : y \in f[p]
      OBVIOUS
    <3> HIDE DEF f, mine, more
    <3> QED  BY <3>1, <3>2, <3>3, FiniteUnion
  <2>5. before # {} \/ more # {}
    <3>1. CASE e \in DOMAIN jumps
      BY <3>1 DEF Tables, Functions
    <3>2. CASE e \notin DOMAIN jumps
      <4>1. PICK p \in P : p[1] = e
        BY <1>2, <1>4, <3>2 DEF firsts
      <4>2. p \in mine /\ p[2] # {}
        BY <2>3, <4>1 DEF Functions
      <4> QED  BY <4>2
    <3> QED  BY <3>1, <3>2
  <2> HIDE DEF before, more
  <2>6. IsFiniteSet(before \cup more)
    BY <2>2, <2>4, FS_Union
  <2> QED  BY <2>1, <2>2, <2>4, <2>5, <2>6 DEF Functions
<1> QED  BY <1>3, <1>4

-------------------------------------------------------------------------------
(* Joins of values. *)

\* The steps of FoldSet.
Joining(g, A, base) ==
    g = [s \in SUBSET A |->
            IF s = {} THEN base
            ELSE JoinValues(CHOOSE x \in s : TRUE, g[s \ {CHOOSE x \in s : TRUE}])]

LEMMA JoiningExists ==
    ASSUME NEW A, IsFiniteSet(A), NEW base
    PROVE  \E g : Joining(g, A, base)
<1> DEFINE body(h, s) == IF s = {} THEN base
                         ELSE JoinValues(CHOOSE x \in s : TRUE, h[s \ {CHOOSE x \in s : TRUE}])
           upto(h, n) == /\ h = [s \in SUBSET A |-> h[s]]
                         /\ \A s \in SUBSET A : Cardinality(s) <= n => h[s] = body(h, s)
           T == {n \in Nat : \E h : upto(h, n)}
<1>1. ASSUME NEW s \in SUBSET A
      PROVE  /\ IsFiniteSet(s) /\ Cardinality(s) \in Nat /\ Cardinality(s) <= Cardinality(A)
             /\ Cardinality(s) = 0 <=> s = {}
             /\ s # {} => LET x == CHOOSE x \in s : TRUE
                          IN  s \ {x} \in SUBSET A /\ Cardinality(s \ {x}) = Cardinality(s) - 1
  <2>1. IsFiniteSet(s) /\ Cardinality(s) <= Cardinality(A)
    BY FS_Subset
  <2>2. Cardinality(s) \in Nat /\ (Cardinality(s) = 0 <=> s = {})
    BY <2>1, FS_CardinalityType, FS_EmptySet
  <2>3. ASSUME s # {}
        PROVE  LET x == CHOOSE x \in s : TRUE
               IN  s \ {x} \in SUBSET A /\ Cardinality(s \ {x}) = Cardinality(s) - 1
    <3>1. PICK x : x = CHOOSE y \in s : TRUE
      OBVIOUS
    <3>2. x \in s
      BY <2>3, <3>1
    <3>3. Cardinality(s \ {x}) = Cardinality(s) - 1
      BY <2>1, <3>2, FS_RemoveElement
    <3> QED  BY <3>1, <3>3
  <2> QED  BY <2>1, <2>2, <2>3
<1>2. 0 \in T
  <2> DEFINE h == [s \in SUBSET A |-> base]
  <2>1. ASSUME NEW s \in SUBSET A, Cardinality(s) <= 0  PROVE h[s] = body(h, s)
    <3>1. Cardinality(s) \in Nat /\ (Cardinality(s) = 0 <=> s = {})
      BY <1>1
    <3>2. s = {}
      BY <2>1, <3>1
    <3> QED  BY <3>2
  <2>2. upto(h, 0)
    BY <2>1
  <2> QED  BY <2>2
<1>3. ASSUME NEW n \in Nat, n \in T  PROVE n + 1 \in T
  <2>1. PICK h : upto(h, n)
    BY <1>3
  <2> DEFINE g == [s \in SUBSET A |-> IF Cardinality(s) <= n THEN h[s] ELSE body(h, s)]
  <2>2. ASSUME NEW s \in SUBSET A, Cardinality(s) <= n + 1  PROVE g[s] = body(g, s)
    <3>1. CASE s = {}
      <4>1. Cardinality(s) <= n
        BY <1>1, <3>1
      <4>2. g[s] = h[s] /\ h[s] = base
        BY <2>1, <3>1, <4>1
      <4> HIDE DEF g
      <4> QED  BY <3>1, <4>2
    <3>2. CASE s # {}
      <4>1. PICK x : x = CHOOSE y \in s : TRUE
        OBVIOUS
      <4>2. s \ {x} \in SUBSET A /\ Cardinality(s \ {x}) <= n
        BY <1>1, <2>2, <3>2, <4>1
      <4>3. g[s \ {x}] = h[s \ {x}]
        BY <4>2
      <4>4. g[s] = body(h, s)
        BY <2>1
      <4> HIDE DEF g
      <4> QED  BY <3>2, <4>1, <4>3, <4>4
    <3> QED  BY <3>1, <3>2
  <2>3. g = [s \in SUBSET A |-> g[s]]
    OBVIOUS
  <2> HIDE DEF g
  <2>4. upto(g, n + 1)
    BY <2>2, <2>3
  <2>5. \E f : upto(f, n + 1)
    <3> HIDE DEF upto
    <3> QED  BY <2>4
  <2>6. n + 1 \in Nat
    BY <1>3
  <2> HIDE DEF upto
  <2> QED  BY <2>5, <2>6
<1>4. T = Nat
  BY <1>2, <1>3, NatSteps
<1>5. Cardinality(A) \in Nat
  BY FS_CardinalityType
<1>6. PICK h : upto(h, Cardinality(A))
  <2>1. Cardinality(A) \in T
    BY <1>4, <1>5
  <2> QED  BY <2>1
<1>7. \A s \in SUBSET A : h[s] = body(h, s)
  BY <1>1, <1>6
<1>8. Joining(h, A, base)
  BY <1>6, <1>7 DEF Joining
<1> QED  BY <1>8

\* The order of the values that JoinValues is the join of.
Below(v, w) == JoinValues(v, w) = w

\* Sets that hold the joins of their members.
JoinClosed == {J \in SUBSET Values : \A v, w \in J : JoinValues(v, w) \in J}

LEMMA JoinAllIs ==
    ASSUME ValuesAreTyped, NEW A, A \subseteq Values, IsFiniteSet(A), A # {}
    PROVE  /\ JoinAll(A) \in Values
           /\ \A J \in JoinClosed : A \subseteq J => JoinAll(A) \in J
           /\ JoinIsRight => \A v \in A : Below(v, JoinAll(A))
<1> DEFINE base == CHOOSE v \in A : TRUE
           g == CHOOSE g : Joining(g, A, base)
<1>1. Joining(g, A, base)
  BY JoiningExists
<1>2. JoinAll(A) = g[A]
  BY DEF JoinAll, FoldSet, MapThenFoldSet, Joining
<1>3. base \in A
  OBVIOUS
<1> HIDE DEF base, g
<1>4. \A s \in SUBSET A : g[s] = IF s = {} THEN base
              ELSE JoinValues(CHOOSE x \in s : TRUE, g[s \ {CHOOSE x \in s : TRUE}])
  BY <1>1 DEF Joining
<1> DEFINE fine(s) == /\ g[s] \in Values
                      /\ \A J \in JoinClosed : A \subseteq J => g[s] \in J
                      /\ JoinIsRight => \A v \in s : Below(v, g[s])
           T == {n \in Nat : \A s \in SUBSET A : Cardinality(s) = n => fine(s)}
<1>5. \A s \in SUBSET A : IsFiniteSet(s) /\ Cardinality(s) \in Nat
  BY FS_Subset, FS_CardinalityType
<1>6. 0 \in T
  <2> SUFFICES ASSUME NEW s \in SUBSET A, Cardinality(s) = 0  PROVE fine(s)
    OBVIOUS
  <2>1. s = {}
    BY <1>5, FS_EmptySet
  <2> QED  BY <1>3, <1>4, <2>1
<1>7. ASSUME NEW n \in Nat, n \in T  PROVE n + 1 \in T
  <2> SUFFICES ASSUME NEW s \in SUBSET A, Cardinality(s) = n + 1  PROVE fine(s)
    OBVIOUS
  <2>1. s # {}
    BY FS_EmptySet
  <2>2. PICK x : x = CHOOSE y \in s : TRUE
    OBVIOUS
  <2>3. PICK r : r = s \ {x}
    OBVIOUS
  <2>4. x \in s /\ r \in SUBSET A
    BY <2>1, <2>2, <2>3
  <2>5. Cardinality(r) = n
    BY <1>5, <2>3, <2>4, FS_RemoveElement
  <2>6. fine(r)
    BY <1>7, <2>4, <2>5
  <2>7. g[s] = JoinValues(x, g[r])
    BY <1>4, <2>1, <2>2, <2>3
  <2>8. x \in Values
    BY <2>4
  <2>9. g[s] \in Values
    BY <2>6, <2>7, <2>8 DEF ValuesAreTyped
  <2>10. ASSUME NEW J \in JoinClosed, A \subseteq J  PROVE g[s] \in J
    <3>1. x \in J /\ g[r] \in J
      BY <2>4, <2>6, <2>10
    <3> QED  BY <2>7, <3>1 DEF JoinClosed
  <2>11. ASSUME JoinIsRight, NEW v \in s  PROVE Below(v, g[s])
    <3>1. v \in Values /\ g[r] \in Values
      BY <2>6
    <3>2. CASE v = x
      <4>1. JoinValues(x, JoinValues(x, g[r])) = JoinValues(JoinValues(x, x), g[r])
        BY <2>8, <2>11, <3>1 DEF JoinIsRight
      <4>2. JoinValues(x, x) = x
        BY <2>8, <2>11 DEF JoinIsRight
      <4> QED  BY <2>7, <3>2, <4>1, <4>2 DEF Below
    <3>3. CASE v # x
      <4>1. JoinValues(v, g[r]) = g[r]
        BY <2>3, <2>6, <2>11, <3>3 DEF Below
      <4>2. /\ JoinValues(v, JoinValues(x, g[r])) = JoinValues(JoinValues(v, x), g[r])
            /\ JoinValues(v, x) = JoinValues(x, v)
            /\ JoinValues(x, JoinValues(v, g[r])) = JoinValues(JoinValues(x, v), g[r])
        BY <2>8, <2>11, <3>1 DEF JoinIsRight
      <4> QED  BY <2>7, <4>1, <4>2 DEF Below
    <3> QED  BY <3>2, <3>3
  <2> QED  BY <2>9, <2>10, <2>11
<1>8. T = Nat
  BY <1>6, <1>7, NatSteps
<1>9. fine(A)
  <2>1. Cardinality(A) \in T
    BY <1>5, <1>8
  <2> QED  BY <2>1
<1> QED  BY <1>2, <1>9

LEMMA ImageIs ==
    ASSUME ValuesAreTyped, NEW F \in Functions, NEW v \in Values
    PROVE  /\ Image(F, v) \in Values
           /\ \A J \in JoinClosed : (\A t \in F : Applied(t, v) \in J) => Image(F, v) \in J
           /\ JoinIsRight => \A t \in F : Below(Applied(t, v), Image(F, v))
<1> DEFINE A == {Applied(t, v) : t \in F}
<1>1. A \subseteq Values /\ IsFiniteSet(A) /\ A # {}
  <2> DEFINE f == [t \in F |-> Applied(t, v)]
  <2>1. F \subseteq Terms /\ IsFiniteSet(F) /\ F # {}
    BY DEF Functions
  <2>2. \A y \in A : \E t \in F : y = f[t]
    OBVIOUS
  <2>3. A \subseteq Values /\ A # {}
    BY <2>1, AppliedType
  <2> HIDE DEF f, A
  <2> QED  BY <2>1, <2>2, <2>3, FiniteImage
<1>2. Image(F, v) = JoinAll(A)
  BY DEF Image
<1>3. \A t \in F : Applied(t, v) \in A
  OBVIOUS
<1>4. \A J : (\A t \in F : Applied(t, v) \in J) => A \subseteq J
  OBVIOUS
<1> HIDE DEF A
<1> QED  BY <1>1, <1>2, <1>3, <1>4, JoinAllIs

-------------------------------------------------------------------------------
(* The tables keep their types. *)

LEMMA JoinedTables ==
    ASSUME Good, Tables, NEW P, P \subseteq Additions, IsFiniteSet(P),
           problem' = problem, jumps' = Joined(P), pending' \subseteq DOMAIN jumps',
           IsFiniteSet(calls'),
           calls' \subseteq [callee : Keys, caller : DOMAIN jumps, site : Nodes, jump : Functions],
           DOMAIN endings' \subseteq DOMAIN jumps,
           \A e \in DOMAIN endings' : endings'[e] \in Functions /\ endings'[e] \subseteq jumps[e]
    PROVE  Tables'
<1>1. /\ DOMAIN jumps \subseteq DOMAIN jumps' /\ \A e \in DOMAIN jumps : jumps[e] \subseteq jumps'[e]
      /\ DOMAIN jumps' \subseteq Edges /\ IsFiniteSet(DOMAIN jumps')
      /\ \A e \in DOMAIN jumps' : jumps'[e] \in Functions
  BY JoinedGrows, JoinedType
<1>2. calls' \subseteq [callee : Keys, caller : DOMAIN jumps', site : Nodes, jump : Functions]
  BY <1>1
<1>3. \A e \in DOMAIN endings' : endings'[e] \in Functions /\ endings'[e] \subseteq jumps'[e]
  BY <1>1
<1>4. DOMAIN endings' \subseteq DOMAIN jumps' /\ problem' \in Problems
  BY <1>1 DEF Tables
<1> QED  BY <1>1, <1>2, <1>3, <1>4 DEF Tables

\* A step that propagates takes up some of what there is to propagate: all of it
\* unless it stops.
LEMMA PropagateTakes ==
    ASSUME NEW P, NEW queue, P \subseteq Additions, IsFiniteSet(P), queue \subseteq DOMAIN jumps,
           Propagate(P, queue) \/ PropagateSome(P)
    PROVE  \E K \in SUBSET P : /\ K \subseteq Additions /\ IsFiniteSet(K) /\ jumps' = Joined(K)
                               /\ pending' \subseteq DOMAIN jumps'
<1>1. CASE Propagate(P, queue)
  <2>1. jumps' = Joined(P) /\ DOMAIN jumps \subseteq DOMAIN jumps'
    BY <1>1, JoinedGrows DEF Propagate
  <2>2. pending' \subseteq DOMAIN jumps'
    BY <1>1, <2>1 DEF Propagate
  <2> QED  BY <2>1, <2>2
<1>2. CASE PropagateSome(P)
  <2>1. PICK K \in SUBSET P : jumps' = Joined(K)
    BY <1>2 DEF PropagateSome
  <2>2. IsFiniteSet(K) /\ pending' = {}
    BY <1>2, FS_Subset DEF PropagateSome
  <2> QED  BY <2>1, <2>2
<1> QED  BY <1>1, <1>2

LEMMA SeedEdgesType ==
    ASSUME Good, problem \in Problems
    PROVE  SeedEdges \subseteq Additions /\ IsFiniteSet(SeedEdges)
<1> DEFINE f == [e \in Seeds(problem) |-> <<e, Identity>>]
<1>1. \A y \in SeedEdges : \E e \in Seeds(problem) : y = f[e]
  BY DEF SeedEdges
<1>2. SeedEdges \subseteq Additions
  BY SeedsType, IdentityType DEF SeedEdges, Additions
<1>3. IsFiniteSet(Seeds(problem))
  BY SeedsFinite DEF Good
<1> HIDE DEF f
<1> QED  BY <1>1, <1>2, <1>3, FiniteImage

LEMMA EndingsAfterType ==
    ASSUME Tables, NEW e \in DOMAIN jumps
    PROVE  /\ DOMAIN EndingsAfter(e) = DOMAIN endings \cup Summarized(e)
           /\ Summarized(e) \subseteq {e} /\ DOMAIN EndingsAfter(e) \subseteq DOMAIN jumps
           /\ \A x \in Summarized(e) : EndingsAfter(e)[x] = jumps[x]
           /\ \A x \in DOMAIN endings \ Summarized(e) : EndingsAfter(e)[x] = endings[x]
           /\ \A x \in DOMAIN EndingsAfter(e) : /\ EndingsAfter(e)[x] \in Functions
                                                /\ EndingsAfter(e)[x] \subseteq jumps[x]
<1>1. Summarized(e) \subseteq {e}
  BY DEF Summarized
<1>2. DOMAIN EndingsAfter(e) = DOMAIN endings \cup Summarized(e)
  BY DEF EndingsAfter
<1>3. \A x \in Summarized(e) : EndingsAfter(e)[x] = jumps[x]
  BY <1>1, SummaryType DEF EndingsAfter
<1>4. \A x \in DOMAIN endings \ Summarized(e) : EndingsAfter(e)[x] = endings[x]
  BY DEF EndingsAfter
<1> QED  BY <1>1, <1>2, <1>3, <1>4 DEF Tables

\* What the actions of the first phase do to the tables.
LEMMA SeedStep ==
    ASSUME Good, Tables, Seed
    PROVE  /\ UNCHANGED <<problem, calls, endings, sources>>
           /\ \E K \in SUBSET SeedEdges :
                 /\ K \subseteq Additions /\ IsFiniteSet(K) /\ jumps' = Joined(K)
                 /\ pending' \subseteq DOMAIN jumps'
           /\ \/ Propagate(SeedEdges, {}) /\ status' = "running"
              \/ pending' = {} /\ Stop
<1>1. SeedEdges \subseteq Additions /\ IsFiniteSet(SeedEdges)
  BY SeedEdgesType DEF Tables
<1>2. Propagate(SeedEdges, {}) \/ PropagateSome(SeedEdges)
  BY DEF Seed
<1>3. {} \subseteq DOMAIN jumps
  OBVIOUS
<1> QED  BY <1>1, <1>2, <1>3, PropagateTakes DEF Seed, PropagateSome

LEMMA ProcessStep ==
    ASSUME Good, Tables, NEW e \in pending, Process(e)
    PROVE  /\ e \in DOMAIN jumps /\ UNCHANGED <<problem, sources>>
           /\ calls' = calls \cup Recorded(e) /\ endings' = EndingsAfter(e)
           /\ \E K \in SUBSET Produced(e) :
                 /\ K \subseteq Additions /\ IsFiniteSet(K) /\ jumps' = Joined(K)
                 /\ pending' \subseteq DOMAIN jumps'
           /\ \/ Propagate(Produced(e), pending \ {e}) /\ status' = status
              \/ pending' = {} /\ Stop
<1>1. e \in DOMAIN jumps /\ pending \ {e} \subseteq DOMAIN jumps
  BY DEF Tables
<1>2. Produced(e) \subseteq Additions /\ IsFiniteSet(Produced(e))
  BY <1>1, ProducedType
<1>3. Propagate(Produced(e), pending \ {e}) \/ PropagateSome(Produced(e))
  BY DEF Process
<1> QED  BY <1>1, <1>2, <1>3, PropagateTakes DEF Process, PropagateSome

LEMMA TablesStep ==
    ASSUME Good, Tables, [Next]_vars
    PROVE  /\ Tables'
           /\ DOMAIN jumps \subseteq DOMAIN jumps' /\ \A e \in DOMAIN jumps : jumps[e] \subseteq jumps'[e]
<1> DEFINE grown == /\ DOMAIN jumps \subseteq DOMAIN jumps'
                    /\ \A e \in DOMAIN jumps : jumps[e] \subseteq jumps'[e]
<1>1. CASE Seed
  <2>1. PICK K \in SUBSET SeedEdges : /\ K \subseteq Additions /\ IsFiniteSet(K)
                                      /\ jumps' = Joined(K) /\ pending' \subseteq DOMAIN jumps'
    BY <1>1, SeedStep
  <2>2. UNCHANGED <<problem, calls, endings>>
    BY <1>1, SeedStep
  <2>3. Tables'
    BY <2>1, <2>2, JoinedTables DEF Tables
  <2> QED  BY <2>1, <2>3, JoinedGrows
<1>2. ASSUME NEW e \in pending, Process(e)  PROVE Tables' /\ grown
  <2>1. PICK K \in SUBSET Produced(e) : /\ K \subseteq Additions /\ IsFiniteSet(K)
                                        /\ jumps' = Joined(K) /\ pending' \subseteq DOMAIN jumps'
    BY <1>2, ProcessStep
  <2>2. /\ e \in DOMAIN jumps /\ problem' = problem
        /\ calls' = calls \cup Recorded(e) /\ endings' = EndingsAfter(e)
    BY <1>2, ProcessStep
  <2>3. /\ IsFiniteSet(calls')
        /\ calls' \subseteq [callee : Keys, caller : DOMAIN jumps, site : Nodes, jump : Functions]
    <3>1. calls \subseteq [callee : Keys, caller : DOMAIN jumps, site : Nodes, jump : Functions]
      BY DEF Tables
    <3> QED  BY <2>2, <3>1, RecordTyped, RecordedType
  <2>4. /\ DOMAIN endings' \subseteq DOMAIN jumps
        /\ \A x \in DOMAIN endings' : endings'[x] \in Functions /\ endings'[x] \subseteq jumps[x]
    BY <2>2, EndingsAfterType
  <2>5. Tables'
    BY <2>1, <2>2, <2>3, <2>4, JoinedTables
  <2> QED  BY <2>1, <2>5, JoinedGrows
<1>3. CASE UNCHANGED <<problem, jumps, pending, calls, endings>>
  BY <1>3 DEF Tables
<1>4. ASSUME NEW k, Resolve(k)  PROVE UNCHANGED <<problem, jumps, pending, calls, endings>>
  BY <1>4 DEF Resolve
<1>5. CASE Finish \/ (Cancel /\ UNCHANGED <<problem, ideVars>>) \/ UNCHANGED vars
  BY <1>3, <1>5 DEF Finish, vars, ideVars
<1> QED  BY <1>1, <1>2, <1>3, <1>4, <1>5 DEF Next, Solve

\* What reaches a key is values, finitely many.
Resolved ==
    /\ DOMAIN sources \subseteq {e.from : e \in DOMAIN jumps}
    /\ \A k \in DOMAIN sources : sources[k] \in Values

LEMMA ArrivingType ==
    ASSUME Good, Tables, Resolved, NEW k
    PROVE  Arriving(k) \subseteq Values /\ IsFiniteSet(Arriving(k))
<1> DEFINE mine == {s \in problem.seeds : k = [point |-> s, ctx |-> <<>>]}
           first == {SeedValue(problem, s) : s \in mine}
           callers == {d \in calls : d.callee = k /\ d.caller.from \in DOMAIN sources}
           handed == {Image(c.jump, sources[c.caller.from]) : c \in callers}
<1>1. first \subseteq Values /\ IsFiniteSet(first)
  <2> DEFINE f == [s \in mine |-> SeedValue(problem, s)]
  <2>1. problem \in Problems /\ problem.seeds \in SUBSET Points
    BY ProblemsAssumption DEF Tables, ProblemType
  <2>2. mine \in SUBSET Points /\ IsFiniteSet(Points)
    BY <2>1, PointsFinite DEF Good
  <2>3. IsFiniteSet(mine)
    BY <2>2, FS_Subset
  <2>4. first \subseteq Values
    BY <2>1 DEF Good, ValuesAreTyped
  <2>5. \A y \in first : \E s \in mine : y = f[s]
    OBVIOUS
  <2> HIDE DEF f, first, mine
  <2> QED  BY <2>3, <2>4, <2>5, FiniteImage
<1>2. handed \subseteq Values /\ IsFiniteSet(handed)
  <2> DEFINE f == [c \in callers |-> Image(c.jump, sources[c.caller.from])]
  <2>1. callers \in SUBSET calls /\ IsFiniteSet(calls)
    BY DEF Tables
  <2>2. IsFiniteSet(callers)
    BY <2>1, FS_Subset
  <2>3. \A c \in callers : c.jump \in Functions /\ sources[c.caller.from] \in Values
    BY DEF Tables, Resolved
  <2>4. \A c \in callers : Image(c.jump, sources[c.caller.from]) \in Values
    <3> HIDE DEF callers
    <3> QED  BY <2>3, ImageIs DEF Good
  <2>5. handed \subseteq Values
    BY <2>4
  <2>6. \A y \in handed : \E c \in callers : y = f[c]
    OBVIOUS
  <2> HIDE DEF f, handed, callers
  <2> QED  BY <2>2, <2>5, <2>6, FiniteImage
<1>3. Arriving(k) = first \cup handed
  BY DEF Arriving
<1> HIDE DEF first, handed
<1> QED  BY <1>1, <1>2, <1>3, FS_Union

LEMMA ResolvedStep ==
    ASSUME Good, Tables, Resolved, [Next]_vars
    PROVE  Resolved'
<1>1. DOMAIN jumps \subseteq DOMAIN jumps'
  BY TablesStep
<1>2. CASE UNCHANGED sources
  BY <1>1, <1>2 DEF Resolved
<1>3. ASSUME NEW k \in SourceKeys, Resolve(k), sources' # sources  PROVE Resolved'
  <2>1. /\ sources' = [j \in DOMAIN sources \cup {k} |->
                          IF j = k THEN JoinAll(Arriving(k)) ELSE sources[j]]
        /\ Arriving(k) # {} /\ jumps' = jumps
    BY <1>3 DEF Resolve, Unresolved
  <2>2. JoinAll(Arriving(k)) \in Values
    BY <2>1, ArrivingType, JoinAllIs DEF Good
  <2> QED  BY <2>1, <2>2 DEF Resolved, SourceKeys
<1>4. CASE Seed \/ (\E e \in pending : Process(e)) \/ Finish
           \/ (Cancel /\ UNCHANGED <<problem, ideVars>>) \/ UNCHANGED vars
  BY <1>2, <1>4 DEF Seed, Process, Finish, vars, ideVars
<1> QED  BY <1>2, <1>3, <1>4 DEF Next, Solve

Control ==
    status \in {"seeding", "running"} \cup Ended /\ cancelled \in BOOLEAN

LEMMA ControlStep ==
    ASSUME Control, [Next]_vars
    PROVE  Control'
<1>1. Stop => status' \in Ended
  BY DEF Stop, Ended
<1>2. Conclude => status' \in Ended
  BY <1>1 DEF Conclude, Ended
<1>3. CASE Seed
  BY <1>1, <1>3 DEF Seed, PropagateSome, Control
<1>4. CASE \E e \in pending : Process(e)
  BY <1>1, <1>4 DEF Process, PropagateSome, Control
<1>5. CASE \E k \in SourceKeys : Resolve(k)
  BY <1>1, <1>5 DEF Resolve, Control
<1>6. CASE Finish \/ (Cancel /\ UNCHANGED <<problem, ideVars>>) \/ UNCHANGED vars
  BY <1>2, <1>6 DEF Finish, Cancel, vars, Control
<1> QED  BY <1>3, <1>4, <1>5, <1>6 DEF Next, Solve

LEMMA InitTyped ==
    ASSUME Init
    PROVE  Tables /\ Resolved /\ Control
<1>1. DOMAIN jumps = {} /\ DOMAIN endings = {} /\ DOMAIN sources = {} /\ calls = {} /\ pending = {}
  BY DEF Init
<1> QED  BY <1>1, FS_EmptySet DEF Init, Tables, Resolved, Control

\* Whatever the functions and the values of the problem, the tables of both phases
\* hold edges with functions, and keys with values, for every run of the solver.
THEOREM JumpFunctionsAreTyped ==
    ASSUME Good
    PROVE  Spec => []TypeOK
<1>1. Init => Tables /\ Resolved /\ Control
  BY InitTyped
<1>2. Tables /\ Resolved /\ Control /\ [Next]_vars => (Tables /\ Resolved /\ Control)'
  BY TablesStep, ResolvedStep, ControlStep
<1>3. Tables /\ Resolved /\ Control => TypeOK
  BY DEF Tables, Resolved, Control, TypeOK
<1> QED  BY <1>1, <1>2, <1>3, PTL DEF Spec

-------------------------------------------------------------------------------
(* What a problem means: the walks that carry a value. *)

\* A walk is a stack of activations.  Each has the edge it has reached, the value
\* it was entered with and the one it carries now; a caller keeps its own while
\* it waits.
Frames == [edge : Edges, entered : Values, value : Values]
Stacks == Seq(Frames) \ {<<>>}

Running(s) == s[Len(s)]
Waiting(s) == SubSeq(s, 1, Len(s) - 1)

\* An activation that begins with the value v, and one that goes on to m by the term t.
Begun(k, v) == [edge |-> EntryEdge(k), entered |-> v, value |-> v]
Onto(f, m, t, v) == [edge |-> m, entered |-> f.entered, value |-> Applied(t, v)]

SeedStacks(p) == {<<Begun([point |-> s, ctx |-> <<>>], SeedValue(p, s))>> : s \in p.seeds}

\* Along a normal edge or past a call; into a callee; back from one, from its end
\* to a continuation of the call.
GoesOn(p, s, u) ==
    \E m \in Edges, t \in Terms :
        /\ \/ m \in Flowing(p, Running(s).edge) /\ t \in FunctionAlong(p, Running(s).edge, m)
           \/ m \in Passing(p, Running(s).edge) /\ t \in FunctionPast(p, Running(s).edge, m)
        /\ u = Reaching(s, Onto(Running(s), m, t, Running(s).value))

Enters(p, s, u) ==
    \E k \in Entered(p, Running(s).edge) : \E t \in FunctionInto(p, Running(s).edge, k) :
        u = Append(s, Begun(k, Applied(t, Running(s).value)))

Returns(p, s, u) ==
    /\ Len(s) > 1 /\ IsEnd(p, Running(s).edge.at[1])
    /\ \E c \in {Running(Waiting(s))}, x \in {Running(s).edge} :
          \E r \in Sites(p, c.edge.at[1]) :
             \E m \in Returned(p, c.edge, x, r) :
                \E t \in FunctionBack(p, c.edge, x, r, m) :
                   u = Reaching(Waiting(s), Onto(c, m, t, Running(s).value))

Steps(p, s, u) == GoesOn(p, s, u) \/ Enters(p, s, u) \/ Returns(p, s, u)

\* The walks are the least set that has the seeds and every step.
Explorations(p) ==
    {X \in SUBSET Stacks : /\ SeedStacks(p) \subseteq X
                           /\ \A s \in X, u \in Stacks : Steps(p, s, u) => u \in X}

Visited(p) == {s \in Stacks : \A X \in Explorations(p) : s \in X}

LEMMA VisitedClosed ==
    ASSUME NEW p, NEW s \in Visited(p), NEW u \in Stacks, Steps(p, s, u)
    PROVE  u \in Visited(p)
BY DEF Visited, Explorations

LEMMA VisitedLeast ==
    ASSUME NEW p, NEW X \in Explorations(p)
    PROVE  Visited(p) \subseteq X
BY DEF Visited

LEMMA SeedKey ==
    ASSUME NEW p \in Problems, NEW s \in p.seeds
    PROVE  /\ [point |-> s, ctx |-> <<>>] \in Keys
           /\ EntryEdge([point |-> s, ctx |-> <<>>]) \in Seeds(p)
<1>1. p.seeds \in SUBSET Points
  BY ProblemsAssumption DEF ProblemType
<1>2. <<>> \in Contexts
  BY DEF Contexts
<1> QED  BY <1>1, <1>2 DEF Keys, Seeds

LEMMA BegunType ==
    ASSUME NEW k \in Keys, NEW v \in Values
    PROVE  Begun(k, v) \in Frames /\ Begun(k, v).edge = EntryEdge(k)
           /\ Begun(k, v).entered = v /\ Begun(k, v).value = v
BY EntryType DEF Begun, Frames

LEMMA OntoType ==
    ASSUME Good, NEW f \in Frames, NEW m \in Edges, NEW t \in Terms, NEW v \in Values
    PROVE  Onto(f, m, t, v) \in Frames /\ Onto(f, m, t, v).edge = m
           /\ Onto(f, m, t, v).entered = f.entered /\ Onto(f, m, t, v).value = Applied(t, v)
<1>1. Applied(t, v) \in Values
  BY AppliedType DEF Good
<1> QED  BY <1>1 DEF Onto, Frames

LEMMA SeedStackType ==
    ASSUME Good, NEW p \in Problems, NEW s \in p.seeds
    PROVE  /\ <<Begun([point |-> s, ctx |-> <<>>], SeedValue(p, s))>> \in Visited(p)
           /\ SeedValue(p, s) \in Values
<1> DEFINE k == [point |-> s, ctx |-> <<>>]
<1>1. SeedValue(p, s) \in Values
  BY DEF Good, ValuesAreTyped
<1>2. k \in Keys
  BY SeedKey
<1> HIDE DEF k
<1>3. Begun(k, SeedValue(p, s)) \in Frames
  BY <1>1, <1>2, BegunType
<1>4. <<Begun(k, SeedValue(p, s))>> \in Stacks
  BY <1>3 DEF Stacks
<1>5. <<Begun(k, SeedValue(p, s))>> \in SeedStacks(p)
  BY DEF SeedStacks, k
<1> QED  BY <1>1, <1>4, <1>5 DEF Visited, Explorations, k

\* The steps of a walk, each from the running activation f of a stack.
LEMMA GoesOnVisits ==
    ASSUME Good, NEW p \in Problems, NEW s \in Visited(p), NEW m \in Edges, NEW t \in Terms,
           \/ m \in Flowing(p, Running(s).edge) /\ t \in FunctionAlong(p, Running(s).edge, m)
           \/ m \in Passing(p, Running(s).edge) /\ t \in FunctionPast(p, Running(s).edge, m)
    PROVE  Reaching(s, Onto(Running(s), m, t, Running(s).value)) \in Visited(p)
<1>1. s \in Stacks
  BY DEF Visited
<1>2. Running(s) \in Frames
  BY <1>1 DEF Stacks, Running
<1>3. Running(s).value \in Values
  BY <1>2 DEF Frames
<1>4. Onto(Running(s), m, t, Running(s).value) \in Frames
  BY <1>2, <1>3, OntoType
<1>5. Reaching(s, Onto(Running(s), m, t, Running(s).value)) \in Stacks
  BY <1>1, <1>4, StackReaching DEF Stacks
<1>6. GoesOn(p, s, Reaching(s, Onto(Running(s), m, t, Running(s).value)))
  BY DEF GoesOn
<1> QED  BY <1>5, <1>6, VisitedClosed DEF Steps

LEMMA EntersVisits ==
    ASSUME Good, NEW p \in Problems, NEW s \in Visited(p), NEW k \in Entered(p, Running(s).edge),
           NEW t \in FunctionInto(p, Running(s).edge, k)
    PROVE  /\ k \in Keys /\ t \in Terms /\ Applied(t, Running(s).value) \in Values
           /\ Append(s, Begun(k, Applied(t, Running(s).value))) \in Visited(p)
<1>1. s \in Stacks
  BY DEF Visited
<1>2. Running(s) \in Frames
  BY <1>1 DEF Stacks, Running
<1>3. Running(s).value \in Values /\ Running(s).edge \in Edges
  BY <1>2 DEF Frames
<1>4. k \in Keys
  BY <1>3, EnteredType
<1>5. t \in Terms
  BY <1>3, <1>4, FunctionTypes DEF Good, Functions
<1>6. Applied(t, Running(s).value) \in Values
  BY <1>3, <1>5, AppliedType DEF Good
<1>7. Begun(k, Applied(t, Running(s).value)) \in Frames
  BY <1>4, <1>6, BegunType
<1>8. Append(s, Begun(k, Applied(t, Running(s).value))) \in Stacks
  <2>1. PICK g \in Frames : g = Begun(k, Applied(t, Running(s).value))
    BY <1>7
  <2>2. Append(s, g) \in Stacks
    BY <1>1, StackDeeper DEF Stacks
  <2> QED  BY <2>1, <2>2
<1>9. Enters(p, s, Append(s, Begun(k, Applied(t, Running(s).value))))
  BY DEF Enters
<1> QED  BY <1>4, <1>5, <1>6, <1>8, <1>9, VisitedClosed DEF Steps

\* A callee that was entered from s and has reached the end x returns to s.
LEMMA ReturnsVisits ==
    ASSUME Good, NEW p \in Problems, NEW s \in Stacks, NEW g \in Frames,
           Append(s, g) \in Visited(p), IsEnd(p, g.edge.at[1]),
           NEW r \in Sites(p, Running(s).edge.at[1]), NEW m \in Returned(p, Running(s).edge, g.edge, r),
           NEW t \in FunctionBack(p, Running(s).edge, g.edge, r, m)
    PROVE  /\ m \in Edges /\ t \in Terms
           /\ Reaching(s, Onto(Running(s), m, t, g.value)) \in Visited(p)
<1> DEFINE c == Running(s)
           u == Append(s, g)
<1>1. c \in Frames
  BY DEF Stacks, Running
<1>2. c.edge \in Edges /\ g.edge \in Edges /\ g.value \in Values /\ r \in Nodes
  BY <1>1 DEF Frames, Sites
<1>3. m \in Edges
  <2>1. c.edge.at[2] \in Facts
    BY <1>2, EdgePoints
  <2> QED  BY <1>2, <2>1, ReturnedType DEF Returned
<1>4. t \in Terms
  BY <1>2, <1>3, FunctionTypes DEF Good, Functions
<1>5. Onto(c, m, t, g.value) \in Frames
  BY <1>1, <1>2, <1>3, <1>4, OntoType
<1>6. Reaching(s, Onto(c, m, t, g.value)) \in Stacks
  BY <1>5, StackReaching DEF Stacks
<1>7. Running(u) = g /\ Len(u) > 1 /\ Waiting(u) = s
  <2>1. u[Len(u)] = g /\ Len(u) = Len(s) + 1 /\ Len(s) \in Nat \ {0} /\ SubSeq(u, 1, Len(s)) = s
    BY StackDeeper, <1>1 DEF Stacks
  <2> QED  BY <2>1 DEF Running, Waiting
<1>8. Returns(p, u, Reaching(s, Onto(c, m, t, g.value)))
  BY <1>7 DEF Returns
<1> HIDE DEF c, u
<1>9. u \in Visited(p)
  BY DEF u
<1>10. Reaching(s, Onto(c, m, t, g.value)) \in Visited(p)
  BY <1>6, <1>8, <1>9, VisitedClosed DEF Steps
<1> QED  BY <1>3, <1>4, <1>10 DEF c

-------------------------------------------------------------------------------
(* No function is spurious. *)

\* The activation that was entered with v and has reached e by the term t.
At(e, v, t) == [edge |-> e, entered |-> v, value |-> Applied(t, v)]

\* The term t is that of a path to e: walks do enter where e's activation begins,
\* and whichever does can go on to e and carry there what t makes of its value.
Realized(p, e, t) ==
    /\ \E s \in Visited(p), v \in Values : Running(s) = Begun(e.from, v)
    /\ \A s \in Visited(p), v \in Values :
          Running(s) = Begun(e.from, v) => Reaching(s, At(e, v, t)) \in Visited(p)

LEMMA AtType ==
    ASSUME Good, NEW e \in Edges, NEW v \in Values, NEW t \in Terms
    PROVE  /\ At(e, v, t) \in Frames /\ At(e, v, t).edge = e
           /\ At(e, v, t).value = Applied(t, v) /\ Applied(t, v) \in Values
<1>1. Applied(t, v) \in Values
  BY AppliedType DEF Good
<1> QED  BY <1>1 DEF At, Frames

LEMMA OntoComposes ==
    ASSUME Good, NEW e, NEW m, NEW v \in Values, NEW f \in Terms, NEW t \in Terms
    PROVE  Onto(At(e, v, t), m, f, Applied(t, v)) = At(m, v, ComposedTerm(f, t))
<1>1. Applied(ComposedTerm(f, t), v) = Applied(f, Applied(t, v))
  BY ComposedTermMeans DEF Good
<1>2. At(e, v, t).entered = v
  BY DEF At
<1>3. At(m, v, ComposedTerm(f, t)) = [edge |-> m, entered |-> v, value |-> Applied(ComposedTerm(f, t), v)]
  BY DEF At
<1>4. Onto(At(e, v, t), m, f, Applied(t, v)) = [edge |-> m, entered |-> v, value |-> Applied(f, Applied(t, v))]
  BY <1>2 DEF Onto
<1> QED  BY <1>1, <1>3, <1>4

\* A walk that has reached e from its entry.
LEMMA RealizedVisits ==
    ASSUME Good, NEW p, NEW e \in Edges, NEW t \in Terms, Realized(p, e, t),
           NEW s \in Visited(p), NEW v \in Values, Running(s) = Begun(e.from, v)
    PROVE  /\ Reaching(s, At(e, v, t)) \in Visited(p)
           /\ Running(Reaching(s, At(e, v, t))) = At(e, v, t)
           /\ \A f \in Frames : Reaching(Reaching(s, At(e, v, t)), f) = Reaching(s, f)
<1>1. At(e, v, t) \in Frames
  BY AtType
<1>2. s \in Seq(Frames) \ {<<>>}
  BY DEF Visited, Stacks
<1> QED  BY <1>1, <1>2, StackReaching DEF Realized, Running

LEMMA RealizedOnward ==
    ASSUME Good, NEW p \in Problems, NEW e \in Edges, NEW t \in Terms, Realized(p, e, t),
           NEW m \in Edges, NEW f \in Terms,
           \/ m \in Flowing(p, e) /\ f \in FunctionAlong(p, e, m)
           \/ m \in Passing(p, e) /\ f \in FunctionPast(p, e, m)
    PROVE  Realized(p, m, ComposedTerm(f, t))
<1>1. m.from = e.from
  BY MovesType DEF Flowing, Passing
<1>2. ASSUME NEW s \in Visited(p), NEW v \in Values, Running(s) = Begun(m.from, v)
      PROVE  Reaching(s, At(m, v, ComposedTerm(f, t))) \in Visited(p)
  <2>1. PICK u : u = Reaching(s, At(e, v, t))
    OBVIOUS
  <2>2. u \in Visited(p) /\ Running(u) = At(e, v, t)
        /\ \A g \in Frames : Reaching(u, g) = Reaching(s, g)
    BY <1>1, <1>2, <2>1, RealizedVisits
  <2>3. Running(u).edge = e /\ Running(u).value = Applied(t, v) /\ Applied(t, v) \in Values
        /\ Running(u) \in Frames
    BY <2>2, AtType
  <2>4. Reaching(u, Onto(Running(u), m, f, Running(u).value)) \in Visited(p)
    BY <2>2, <2>3, GoesOnVisits
  <2>5. Onto(Running(u), m, f, Running(u).value) = At(m, v, ComposedTerm(f, t))
    BY <2>2, <2>3, OntoComposes
  <2>6. At(m, v, ComposedTerm(f, t)) \in Frames
    BY <2>3, <2>5, OntoType
  <2> QED  BY <2>2, <2>4, <2>5, <2>6
<1> QED  BY <1>1, <1>2 DEF Realized

LEMMA RealizedInto ==
    ASSUME Good, NEW p \in Problems, NEW e \in Edges, NEW t \in Terms, Realized(p, e, t),
           NEW k \in Entered(p, e)
    PROVE  Realized(p, EntryEdge(k), <<>>)
<1>1. k \in Keys
  BY EnteredType
<1>2. EntryEdge(k).from = k
  BY <1>1, EntryType
<1>3. PICK f \in FunctionInto(p, e, k) : TRUE
  BY <1>1, FunctionTypes DEF Good, Functions
<1>4. PICK s \in Visited(p), v \in Values : Running(s) = Begun(e.from, v)
  BY DEF Realized
<1>5. PICK u : u = Reaching(s, At(e, v, t))
  OBVIOUS
<1>6. u \in Visited(p) /\ Running(u) = At(e, v, t)
  BY <1>4, <1>5, RealizedVisits
<1>7. Running(u).edge = e
  BY <1>6, AtType
<1>8. PICK w \in Values : Append(u, Begun(k, w)) \in Visited(p)
  BY <1>3, <1>6, <1>7, EntersVisits
<1>9. Running(Append(u, Begun(k, w))) = Begun(k, w)
  <2>1. u \in Seq(Frames) \ {<<>>}
    BY <1>6 DEF Visited, Stacks
  <2>2. Begun(k, w) \in Frames
    BY <1>1, BegunType
  <2> QED  BY <2>1, <2>2, StackDeeper DEF Running
<1>10. ASSUME NEW s2 \in Visited(p), NEW v2 \in Values, Running(s2) = Begun(k, v2)
       PROVE  Reaching(s2, At(EntryEdge(k), v2, <<>>)) \in Visited(p)
  <2>1. At(EntryEdge(k), v2, <<>>) = Begun(k, v2)
    BY AppliedEmpty DEF At, Begun
  <2>2. s2 \in Seq(Frames) \ {<<>>} /\ Begun(k, v2) \in Frames
    BY <1>1, BegunType DEF Visited, Stacks
  <2>3. Reaching(s2, Begun(k, v2)) = s2
    BY <1>10, <2>2, StackReaching DEF Running
  <2> QED  BY <2>1, <2>3
<1> QED  BY <1>2, <1>8, <1>9, <1>10 DEF Realized

\* Through a callee: t to the call, f into it, b back from what tx makes at its end.
LEMMA RealizedBack ==
    ASSUME Good, NEW p \in Problems, NEW c \in Edges, NEW x \in Edges, NEW t \in Terms, NEW tx \in Terms,
           Realized(p, c, t), Realized(p, x, tx), IsEnd(p, x.at[1]),
           x.from \in Entered(p, c), NEW f \in FunctionInto(p, c, x.from),
           NEW r \in Sites(p, c.at[1]), NEW m \in Returned(p, c, x, r),
           NEW b \in FunctionBack(p, c, x, r, m)
    PROVE  Realized(p, m, ComposedTerm(ComposedTerm(b, tx), ComposedTerm(f, t)))
<1> DEFINE term == ComposedTerm(ComposedTerm(b, tx), ComposedTerm(f, t))
<1>1. m \in Edges /\ m.from = c.from /\ r \in Nodes
  <2>1. c.at[2] \in Facts /\ r \in Nodes
    BY EdgePoints DEF Sites
  <2> QED  BY <2>1, ReturnedType DEF Returned
<1>2. x.from \in Keys /\ f \in Terms /\ b \in Terms
  <2>1. x.from \in Keys
    BY EdgePoints
  <2>2. FunctionInto(p, c, x.from) \in Functions /\ FunctionBack(p, c, x, r, m) \in Functions
    BY <1>1, <2>1, FunctionTypes DEF Good
  <2> QED  BY <2>1, <2>2 DEF Functions
<1>3. ASSUME NEW s \in Visited(p), NEW v \in Values, Running(s) = Begun(m.from, v)
      PROVE  Reaching(s, At(m, v, term)) \in Visited(p)
  <2>1. PICK u : u = Reaching(s, At(c, v, t))
    OBVIOUS
  <2>2. u \in Visited(p) /\ Running(u) = At(c, v, t)
        /\ \A g \in Frames : Reaching(u, g) = Reaching(s, g)
    BY <1>1, <1>3, <2>1, RealizedVisits
  <2>3. Running(u).edge = c /\ Running(u).value = Applied(t, v) /\ Applied(t, v) \in Values
        /\ Running(u) \in Frames /\ u \in Stacks
    BY <2>2, AtType DEF Visited
  <2>4. PICK w \in Values : w = Applied(f, Applied(t, v))
    BY <1>2, <2>3, AppliedType DEF Good
  <2>5. Append(u, Begun(x.from, w)) \in Visited(p)
    BY <2>2, <2>3, <2>4, EntersVisits
  <2>6. PICK u2 : u2 = Append(u, Begun(x.from, w))
    OBVIOUS
  <2>7. PICK g \in Frames : g = At(x, w, tx)
    BY AtType
  <2>8. Begun(x.from, w) \in Frames /\ u \in Seq(Frames) \ {<<>>}
    BY <1>2, <2>3, BegunType DEF Stacks
  <2>9. Running(u2) = Begun(x.from, w) /\ Reaching(u2, g) = Append(u, g)
    BY <2>6, <2>8, StackDeeper DEF Running
  <2>10. Reaching(u2, g) \in Visited(p)
    BY <2>5, <2>6, <2>7, <2>9, RealizedVisits
  <2>11. Append(u, g) \in Visited(p) /\ g.edge = x /\ g.value = Applied(tx, w)
    BY <2>7, <2>9, <2>10, AtType
  <2>12. Reaching(u, Onto(Running(u), m, b, g.value)) \in Visited(p)
    BY <2>3, <2>11, ReturnsVisits
  <2>13. Onto(Running(u), m, b, g.value) = At(m, v, term)
    <3>1. Applied(term, v) = Applied(b, Applied(tx, Applied(f, Applied(t, v))))
      BY <1>2, <2>3, <2>4, ComposedTermMeans DEF Good
    <3>2. Running(u).entered = v
      BY <2>2 DEF At
    <3> HIDE DEF term
    <3> QED  BY <2>4, <2>11, <3>1, <3>2 DEF Onto, At
  <2>14. Onto(Running(u), m, b, g.value) \in Frames
    BY <1>1, <1>2, <2>3, <2>7, <2>11, OntoType DEF Frames
  <2> QED  BY <2>2, <2>12, <2>13, <2>14
<1> HIDE DEF term
<1>4. Realized(p, m, term)
  BY <1>1, <1>3 DEF Realized
<1> QED  BY <1>4 DEF term

\* Who waits comes with functions of paths into the callee.
Waits(c) ==
    /\ c.callee \in Entered(problem, c.caller)
    /\ c.site \in Sites(problem, c.caller.at[1])
    /\ \A j \in c.jump : \E f \in FunctionInto(problem, c.caller, c.callee), t \in jumps[c.caller] :
          j = ComposedTerm(f, t)

Genuine ==
    /\ \A e \in DOMAIN jumps : \A t \in jumps[e] : Realized(problem, e, t)
    /\ \A c \in calls : Waits(c)
    /\ \A x \in DOMAIN endings : IsEnd(problem, x.at[1])

AllRealized(P) == \A a \in P : \A t \in a[2] : Realized(problem, a[1], t)

LEMMA ComposedMembers ==
    ASSUME NEW F, NEW G, NEW u \in Composed(F, G)
    PROVE  \E f \in F, t \in G : u = ComposedTerm(f, t)
BY DEF Composed

LEMMA RecordedWaits ==
    ASSUME NEW e \in DOMAIN jumps, NEW c \in Recorded(e)
    PROVE  Waits(c) /\ c.caller = e
<1>1. PICK k \in Entered(problem, e), r \in Sites(problem, e.at[1]) :
          c = [callee |-> k, caller |-> e, site |-> r,
               jump |-> Composed(FunctionInto(problem, e, k), jumps[e])]
  BY DEF Recorded
<1>2. c.callee = k /\ c.caller = e /\ c.site = r
      /\ c.jump = Composed(FunctionInto(problem, e, k), jumps[e])
  BY <1>1
<1>3. \A j \in c.jump : \E f \in FunctionInto(problem, e, k), t \in jumps[e] : j = ComposedTerm(f, t)
  BY <1>2, ComposedMembers
<1> QED  BY <1>2, <1>3 DEF Waits

LEMMA BackToRealized ==
    ASSUME Good, Tables, Genuine, NEW c, c.caller \in DOMAIN jumps, Waits(c),
           NEW x \in DOMAIN jumps, x.from = c.callee, IsEnd(problem, x.at[1]),
           NEW F \in SUBSET jumps[x]
    PROVE  AllRealized(BackTo(c, x, F))
<1> SUFFICES ASSUME NEW a \in BackTo(c, x, F), NEW u \in a[2]
             PROVE  Realized(problem, a[1], u)
  BY DEF AllRealized
<1>1. PICK m \in Returned(problem, c.caller, x, c.site) :
          a = <<m, Composed(Composed(FunctionBack(problem, c.caller, x, c.site, m), F), c.jump)>>
  BY DEF BackTo
<1>2. PICK g \in Composed(FunctionBack(problem, c.caller, x, c.site, m), F), j \in c.jump :
          u = ComposedTerm(g, j)
  BY <1>1, ComposedMembers
<1>3. PICK b \in FunctionBack(problem, c.caller, x, c.site, m), tx \in F : g = ComposedTerm(b, tx)
  BY <1>2, ComposedMembers
<1>4. PICK f \in FunctionInto(problem, c.caller, c.callee), t \in jumps[c.caller] :
          j = ComposedTerm(f, t)
  BY <1>2 DEF Waits
<1>5. /\ c.caller \in Edges /\ x \in Edges /\ t \in Terms /\ tx \in Terms /\ problem \in Problems
      /\ tx \in jumps[x]
  BY DEF Tables, Functions
<1>6. Realized(problem, c.caller, t) /\ Realized(problem, x, tx)
  BY <1>5 DEF Genuine
<1>7. Realized(problem, m, u)
  BY <1>2, <1>3, <1>4, <1>5, <1>6, RealizedBack DEF Waits
<1> QED  BY <1>1, <1>7

LEMMA ProducedRealized ==
    ASSUME Good, Tables, Genuine, NEW e \in DOMAIN jumps
    PROVE  AllRealized(Produced(e))
<1>1. e \in Edges /\ problem \in Problems /\ jumps[e] \subseteq Terms /\ jumps[e] # {}
      /\ \A t \in jumps[e] : Realized(problem, e, t)
  BY DEF Tables, Functions, Genuine
<1>2. AllRealized(Along(e)) /\ AllRealized(Past(e))
  <2>1. ASSUME NEW m, NEW F, NEW u \in Composed(F, jumps[e]),
               \/ m \in Flowing(problem, e) /\ F = FunctionAlong(problem, e, m)
               \/ m \in Passing(problem, e) /\ F = FunctionPast(problem, e, m)
        PROVE  Realized(problem, m, u)
    <3>1. m \in Edges
      BY <1>1, <2>1, MovesType DEF Flowing, Passing
    <3>2. F \subseteq Terms
      BY <1>1, <2>1, <3>1, FunctionTypes DEF Good, Functions
    <3>3. PICK f \in F, t \in jumps[e] : u = ComposedTerm(f, t)
      BY <2>1, ComposedMembers
    <3>4. f \in Terms /\ t \in Terms /\ Realized(problem, e, t)
      BY <1>1, <3>2, <3>3
    <3> QED  BY <1>1, <2>1, <3>1, <3>3, <3>4, RealizedOnward
  <2>2. ASSUME NEW a \in Along(e), NEW u \in a[2]  PROVE Realized(problem, a[1], u)
    <3>1. PICK m \in Flowing(problem, e) : a = <<m, Composed(FunctionAlong(problem, e, m), jumps[e])>>
      BY DEF Along
    <3> QED  BY <2>1, <2>2, <3>1
  <2>3. ASSUME NEW a \in Past(e), NEW u \in a[2]  PROVE Realized(problem, a[1], u)
    <3>1. PICK m \in Passing(problem, e) : a = <<m, Composed(FunctionPast(problem, e, m), jumps[e])>>
      BY DEF Past
    <3> QED  BY <2>1, <2>3, <3>1
  <2> QED  BY <2>2, <2>3 DEF AllRealized
<1>3. AllRealized(Into(e))
  <2>1. PICK t \in jumps[e] : t \in Terms /\ Realized(problem, e, t)
    BY <1>1
  <2>2. \A k \in Entered(problem, e) : Realized(problem, EntryEdge(k), <<>>)
    BY <1>1, <2>1, RealizedInto
  <2> QED  BY <2>2 DEF Into, Identity, AllRealized
<1>4. ASSUME NEW c \in calls \cup Recorded(e)  PROVE c.caller \in DOMAIN jumps /\ Waits(c)
  BY <1>4, RecordedWaits, RecordTyped DEF Genuine
<1>5. ASSUME NEW c \in Recorded(e), NEW a \in Replayed(c)  PROVE AllRealized({a})
  <2>1. PICK x \in DOMAIN endings : x.from = c.callee /\ a \in BackTo(c, x, endings[x])
    BY <1>5 DEF Replayed
  <2>2. x \in DOMAIN jumps /\ endings[x] \in SUBSET jumps[x] /\ IsEnd(problem, x.at[1])
    BY DEF Tables, Genuine
  <2>3. AllRealized(BackTo(c, x, endings[x]))
    BY <1>4, <2>1, <2>2, BackToRealized
  <2> QED  BY <2>1, <2>3 DEF AllRealized
<1>6. ASSUME NEW x \in Summarized(e), NEW a \in Resumed(x, calls \cup Recorded(e))
      PROVE  AllRealized({a})
  <2>1. PICK c \in calls \cup Recorded(e) : c.callee = x.from /\ a \in BackTo(c, x, Summary(x))
    BY <1>6 DEF Resumed
  <2>2. x \in DOMAIN jumps /\ IsEnd(problem, x.at[1])
    BY DEF Summarized
  <2>3. Summary(x) \in SUBSET jumps[x]
    BY <2>2, SummaryType
  <2>4. AllRealized(BackTo(c, x, Summary(x)))
    BY <1>4, <2>1, <2>2, <2>3, BackToRealized
  <2> QED  BY <2>1, <2>4 DEF AllRealized
<1> QED  BY <1>2, <1>3, <1>5, <1>6 DEF Produced, AllRealized

LEMMA SeedsRealized ==
    ASSUME Good, problem \in Problems
    PROVE  AllRealized(SeedEdges)
<1> SUFFICES ASSUME NEW s \in problem.seeds
             PROVE  Realized(problem, EntryEdge([point |-> s, ctx |-> <<>>]), <<>>)
  <2> SUFFICES ASSUME NEW a \in SeedEdges, NEW t \in a[2]  PROVE Realized(problem, a[1], t)
    BY DEF AllRealized
  <2>1. PICK e \in Seeds(problem) : a = <<e, Identity>>
    BY DEF SeedEdges
  <2>2. PICK s \in problem.seeds : e = EntryEdge([point |-> s, ctx |-> <<>>])
    BY DEF Seeds
  <2>3. a[1] = e /\ t = <<>>
    BY <2>1 DEF Identity
  <2> QED  BY <2>2, <2>3
<1>1. PICK k \in Keys : k = [point |-> s, ctx |-> <<>>]
  BY SeedKey
<1>2. PICK v \in Values : v = SeedValue(problem, s) /\ <<Begun(k, v)>> \in Visited(problem)
  BY <1>1, SeedStackType
<1>3. Running(<<Begun(k, v)>>) = Begun(k, v)
  BY DEF Running
<1>4. EntryEdge(k).from = k
  BY EntryType
<1>5. ASSUME NEW s2 \in Visited(problem), NEW v2 \in Values, Running(s2) = Begun(k, v2)
      PROVE  Reaching(s2, At(EntryEdge(k), v2, <<>>)) \in Visited(problem)
  <2>1. At(EntryEdge(k), v2, <<>>) = Begun(k, v2)
    BY AppliedEmpty DEF At, Begun
  <2>2. s2 \in Seq(Frames) \ {<<>>} /\ Begun(k, v2) \in Frames
    BY BegunType DEF Visited, Stacks
  <2>3. Reaching(s2, Begun(k, v2)) = s2
    BY <1>5, <2>2, StackReaching DEF Running
  <2> QED  BY <2>1, <2>3
<1>6. Realized(problem, EntryEdge(k), <<>>)
  BY <1>2, <1>3, <1>4, <1>5 DEF Realized
<1> QED  BY <1>1, <1>6

\* What is genuine stays so when what is realized joins it.
LEMMA GenuineJoined ==
    ASSUME Genuine, NEW K, AllRealized(K), problem' = problem, jumps' = Joined(K),
           \A c \in calls' : c \in calls \/ (Waits(c) /\ c.caller \in DOMAIN jumps),
           calls \subseteq [callee : Keys, caller : DOMAIN jumps, site : Nodes, jump : Functions],
           \A x \in DOMAIN endings' : IsEnd(problem, x.at[1])
    PROVE  Genuine'
<1>1. \A e \in DOMAIN jumps : e \in DOMAIN jumps' /\ jumps[e] \subseteq jumps'[e]
  BY JoinedGrows
<1>2. ASSUME NEW e \in DOMAIN jumps', NEW t \in jumps'[e]  PROVE Realized(problem, e, t)
  <2>1. \/ e \in DOMAIN jumps /\ t \in jumps[e]
        \/ \E a \in K : e = a[1] /\ t \in a[2]
    BY <1>2, JoinedMembers
  <2> QED  BY <2>1 DEF Genuine, AllRealized
<1>3. ASSUME NEW c \in calls'  PROVE Waits(c)'
  <2>1. Waits(c) /\ c.caller \in DOMAIN jumps
    BY DEF Genuine
  <2> QED  BY <1>1, <2>1 DEF Waits
<1> QED  BY <1>2, <1>3 DEF Genuine

LEMMA GenuineStep ==
    ASSUME Good, Tables, Genuine, [Next]_vars
    PROVE  Genuine'
<1>0. calls \subseteq [callee : Keys, caller : DOMAIN jumps, site : Nodes, jump : Functions]
  BY DEF Tables
<1>1. CASE Seed
  <2>1. PICK K \in SUBSET SeedEdges : jumps' = Joined(K)
    BY <1>1, SeedStep
  <2>2. UNCHANGED <<problem, calls, endings>>
    BY <1>1, SeedStep
  <2>3. AllRealized(K)
    BY SeedsRealized DEF Tables, AllRealized
  <2> QED  BY <1>0, <2>1, <2>2, <2>3, GenuineJoined DEF Genuine
<1>2. ASSUME NEW e \in pending, Process(e)  PROVE Genuine'
  <2>1. PICK K \in SUBSET Produced(e) : jumps' = Joined(K)
    BY <1>2, ProcessStep
  <2>2. /\ e \in DOMAIN jumps /\ problem' = problem
        /\ calls' = calls \cup Recorded(e) /\ endings' = EndingsAfter(e)
    BY <1>2, ProcessStep
  <2>3. AllRealized(K)
    BY <2>2, ProducedRealized DEF AllRealized
  <2>4. \A c \in calls' : c \in calls \/ (Waits(c) /\ c.caller \in DOMAIN jumps)
    BY <2>2, RecordedWaits
  <2>5. \A x \in DOMAIN endings' : IsEnd(problem, x.at[1])
    BY <2>2, EndingsAfterType DEF Genuine, Summarized
  <2> QED  BY <1>0, <2>1, <2>2, <2>3, <2>4, <2>5, GenuineJoined
<1>3. CASE UNCHANGED <<problem, jumps, calls, endings>>
  BY <1>3 DEF Genuine, Waits
<1>4. ASSUME NEW k, Resolve(k)  PROVE UNCHANGED <<problem, jumps, calls, endings>>
  BY <1>4 DEF Resolve
<1>5. CASE Finish \/ (Cancel /\ UNCHANGED <<problem, ideVars>>) \/ UNCHANGED vars
  BY <1>3, <1>5 DEF Finish, vars, ideVars
<1> QED  BY <1>1, <1>2, <1>3, <1>4, <1>5 DEF Next, Solve

\* The jump function of an edge joins only functions of paths to it: walks enter
\* where the edge begins, and each that does can reach the edge with the value the
\* term makes of the one it entered with.  This holds all along, hence of results
\* cut short too, and for the callers that wait: no order of summaries and callers
\* joins the way into a callee from one call with the way back to another.
NoFunctionSpurious ==
    \A e \in DOMAIN jumps : \A t \in jumps[e] : Realized(problem, e, t)

THEOREM JumpFunctionsAreRealized ==
    ASSUME Good
    PROVE  Spec => []NoFunctionSpurious
<1>1. Init => Tables /\ Genuine
  <2> SUFFICES ASSUME Init  PROVE Tables /\ Genuine
    OBVIOUS
  <2>1. DOMAIN jumps = {} /\ calls = {} /\ DOMAIN endings = {}
    BY DEF Init
  <2> QED  BY <2>1, InitTyped DEF Genuine
<1>2. Tables /\ Genuine /\ [Next]_vars => (Tables /\ Genuine)'
  BY TablesStep, GenuineStep
<1>3. Genuine => NoFunctionSpurious
  BY DEF Genuine, NoFunctionSpurious
<1> QED  BY <1>1, <1>2, <1>3, PTL DEF Spec

-------------------------------------------------------------------------------
(* No path is left out. *)

Has(m, F) == m \in DOMAIN jumps /\ F \subseteq jumps[m]

Closed(e) ==
    /\ \A m \in Flowing(problem, e) : Has(m, Composed(FunctionAlong(problem, e, m), jumps[e]))
    /\ \A m \in Passing(problem, e) : Has(m, Composed(FunctionPast(problem, e, m), jumps[e]))
    /\ \A k \in Entered(problem, e) : Has(EntryEdge(k), Identity)
    /\ Recorded(e) \subseteq calls
    /\ IsEnd(problem, e.at[1]) => e \in DOMAIN endings /\ endings[e] = jumps[e]

\* The caller c was resumed with the summary of x.
Met(c, x) ==
    \A m \in Returned(problem, c.caller, x, c.site) :
        Has(m, Composed(Composed(FunctionBack(problem, c.caller, x, c.site, m), endings[x]), c.jump))

Saturating ==
    /\ \A e \in Seeds(problem) : Has(e, Identity)
    /\ \A e \in DOMAIN jumps \ pending : Closed(e)
    /\ \A c \in calls, x \in DOMAIN endings : x.from = c.callee => Met(c, x)

Phases ==
    /\ status = "seeding" => DOMAIN jumps = {} /\ calls = {} /\ DOMAIN endings = {}
    /\ status \in {"running", "complete"} => Saturating
    /\ status = "complete" => pending = {} /\ Unresolved = {}

\* What was joined is there, and no less than before.
LEMMA JoinedHas ==
    ASSUME NEW P, jumps' = Joined(P)
    PROVE  /\ \A m, F : Has(m, F) => Has(m, F)'
           /\ \A a \in P : Has(a[1], a[2])'
<1>1. PICK J : J = Joined(P)
  OBVIOUS
<1>2. /\ DOMAIN jumps \subseteq DOMAIN J /\ \A e \in DOMAIN jumps : jumps[e] \subseteq J[e]
      /\ \A a \in P : a[1] \in DOMAIN J /\ a[2] \subseteq J[a[1]]
  BY <1>1, JoinedGrows
<1>3. jumps' = J
  BY <1>1
<1> QED  BY <1>2, <1>3 DEF Has

LEMMA SeedSaturates ==
    ASSUME Good, Tables, Phases, Seed, status' = "running"
    PROVE  Saturating'
<1>1. status = "seeding" /\ UNCHANGED <<problem, calls, endings>>
  BY DEF Seed
<1>2. DOMAIN jumps = {} /\ calls = {} /\ DOMAIN endings = {}
  BY <1>1 DEF Phases
<1>3. Propagate(SeedEdges, {})
  BY DEF Seed, PropagateSome, Stop
<1>4. jumps' = Joined(SeedEdges) /\ pending' = DOMAIN jumps'
  BY <1>2, <1>3 DEF Propagate
<1>5. \A e \in Seeds(problem)' : Has(e, Identity)'
  <2>1. ASSUME NEW e \in Seeds(problem)  PROVE Has(e, Identity)'
    <3>1. PICK a \in SeedEdges : a = <<e, Identity>>
      BY DEF SeedEdges
    <3>2. Has(a[1], a[2])'
      BY <1>4, JoinedHas
    <3> QED  BY <3>1, <3>2
  <2> QED  BY <1>1, <2>1
<1> QED  BY <1>1, <1>2, <1>4, <1>5 DEF Saturating

LEMMA ProcessSaturates ==
    ASSUME Good, Tables, Saturating, NEW e \in pending, Process(e), Propagate(Produced(e), pending \ {e})
    PROVE  Saturating'
<1> DEFINE P == Produced(e)
<1>1. /\ e \in DOMAIN jumps /\ UNCHANGED problem
      /\ calls' = calls \cup Recorded(e) /\ endings' = EndingsAfter(e)
  BY ProcessStep
<1>2. /\ jumps' = Joined(P)
      /\ pending' = (pending \ {e}) \cup {m \in DOMAIN jumps' : m \in DOMAIN jumps => jumps'[m] # jumps[m]}
  BY DEF Propagate
<1>3. (\A m, F : Has(m, F) => Has(m, F)') /\ (\A a \in P : Has(a[1], a[2])')
  <2> HIDE DEF P
  <2> QED  BY <1>2, JoinedHas
<1>4. \A c, x, F : BackTo(c, x, F) \subseteq P =>
         \A m \in Returned(problem, c.caller, x, c.site) :
            Has(m, Composed(Composed(FunctionBack(problem, c.caller, x, c.site, m), F), c.jump))'
  <2> SUFFICES ASSUME NEW c, NEW x, NEW F, BackTo(c, x, F) \subseteq P,
                      NEW m \in Returned(problem, c.caller, x, c.site)
               PROVE  Has(m, Composed(Composed(FunctionBack(problem, c.caller, x, c.site, m), F), c.jump))'
    OBVIOUS
  <2>1. PICK G : G = Composed(Composed(FunctionBack(problem, c.caller, x, c.site, m), F), c.jump)
    OBVIOUS
  <2>2. <<m, G>> \in P
    BY <2>1 DEF BackTo
  <2>3. Has(<<m, G>>[1], <<m, G>>[2])'
    BY <1>3, <2>2
  <2> QED  BY <1>1, <2>1, <2>3
<1>5. ASSUME NEW f \in DOMAIN jumps' \ pending'
      PROVE  f \in DOMAIN jumps /\ jumps'[f] = jumps[f] /\ (f = e \/ f \notin pending)
  BY <1>2, <1>5
<1>6. ASSUME e \notin pending'  PROVE Closed(e)'
  <2>1. jumps'[e] = jumps[e]
    <3>1. e \in DOMAIN jumps'
      BY <1>1, <1>2, JoinedGrows
    <3> QED  BY <1>5, <1>6, <3>1
  <2>2. Recorded(e)' = Recorded(e)
    BY <1>1, <2>1 DEF Recorded
  <2>3. \A m \in Flowing(problem, e) : Has(m, Composed(FunctionAlong(problem, e, m), jumps[e]))'
    <3> SUFFICES ASSUME NEW m \in Flowing(problem, e), NEW G, G = Composed(FunctionAlong(problem, e, m), jumps[e])
                 PROVE  Has(m, G)'
      BY <1>1, <2>1
    <3>1. <<m, G>> \in P
      BY DEF Produced, Along
    <3>2. Has(<<m, G>>[1], <<m, G>>[2])'
      BY <1>3, <3>1
    <3> QED  BY <3>2
  <2>4. \A m \in Passing(problem, e) : Has(m, Composed(FunctionPast(problem, e, m), jumps[e]))'
    <3> SUFFICES ASSUME NEW m \in Passing(problem, e), NEW G, G = Composed(FunctionPast(problem, e, m), jumps[e])
                 PROVE  Has(m, G)'
      BY <1>1, <2>1
    <3>1. <<m, G>> \in P
      BY DEF Produced, Past
    <3>2. Has(<<m, G>>[1], <<m, G>>[2])'
      BY <1>3, <3>1
    <3> QED  BY <3>2
  <2>5. \A k \in Entered(problem, e) : Has(EntryEdge(k), Identity)'
    <3> SUFFICES ASSUME NEW k \in Entered(problem, e)  PROVE Has(EntryEdge(k), Identity)'
      OBVIOUS
    <3>1. <<EntryEdge(k), Identity>> \in P
      BY DEF Produced, Into
    <3>2. Has(<<EntryEdge(k), Identity>>[1], <<EntryEdge(k), Identity>>[2])'
      BY <1>3, <3>1
    <3> QED  BY <3>2
  <2>6. IsEnd(problem, e.at[1]) => e \in DOMAIN endings' /\ endings'[e] = jumps[e]
    <3>1. CASE e \in Summarized(e)
      BY <1>1, <3>1, EndingsAfterType
    <3>2. CASE e \notin Summarized(e) /\ IsEnd(problem, e.at[1])
      <4>1. e \in DOMAIN endings /\ Summary(e) = endings[e]
        BY <3>2 DEF Summarized
      <4>2. endings[e] = jumps[e]
        BY <1>1, <4>1, SummaryType
      <4> QED  BY <1>1, <3>2, <4>1, <4>2, EndingsAfterType
    <3> QED  BY <3>1, <3>2
  <2> QED  BY <1>1, <2>1, <2>2, <2>3, <2>4, <2>5, <2>6 DEF Closed
<1>7. ASSUME NEW f \in DOMAIN jumps, f \notin pending, f # e, jumps'[f] = jumps[f]
      PROVE  Closed(f)'
  <2>1. Closed(f)
    BY <1>7 DEF Saturating
  <2>2. Recorded(f)' = Recorded(f)
    BY <1>1, <1>7 DEF Recorded
  <2>3. IsEnd(problem, f.at[1]) => f \in DOMAIN endings' /\ endings'[f] = jumps[f]
    BY <1>1, <1>7, <2>1, EndingsAfterType DEF Closed
  <2>4. /\ \A m \in Flowing(problem, f) : Has(m, Composed(FunctionAlong(problem, f, m), jumps[f]))'
        /\ \A m \in Passing(problem, f) : Has(m, Composed(FunctionPast(problem, f, m), jumps[f]))'
        /\ \A k \in Entered(problem, f) : Has(EntryEdge(k), Identity)'
    BY <1>1, <1>3, <1>7, <2>1 DEF Closed
  <2> QED  BY <1>1, <1>7, <2>1, <2>2, <2>3, <2>4 DEF Closed
<1>8. ASSUME NEW c \in calls', NEW x \in DOMAIN endings', x.from = c.callee  PROVE Met(c, x)'
  <2>1. c \in calls \/ c \in Recorded(e) \ calls
    BY <1>1
  <2>2. x \in Summarized(e) \/ x \in DOMAIN endings \ Summarized(e)
    BY <1>1, EndingsAfterType
  <2>3. CASE x \in Summarized(e)
    <3>1. BackTo(c, x, Summary(x)) \subseteq Resumed(x, calls \cup Recorded(e))
      BY <1>8, <2>1 DEF Resumed
    <3>2. BackTo(c, x, Summary(x)) \subseteq P
      BY <2>3, <3>1 DEF Produced
    <3>3. endings'[x] = Summary(x)
      BY <1>1, <2>3 DEF EndingsAfter
    <3> HIDE DEF P
    <3> QED  BY <1>1, <1>4, <3>2, <3>3 DEF Met
  <2>4. CASE x \in DOMAIN endings \ Summarized(e) /\ c \in Recorded(e) \ calls
    <3>1. BackTo(c, x, endings[x]) \subseteq Replayed(c)
      BY <1>8, <2>4 DEF Replayed
    <3>2. BackTo(c, x, endings[x]) \subseteq P
      BY <2>4, <3>1 DEF Produced
    <3>3. endings'[x] = endings[x]
      BY <1>1, <2>4, EndingsAfterType
    <3> HIDE DEF P
    <3> QED  BY <1>1, <1>4, <3>2, <3>3 DEF Met
  <2>5. CASE x \in DOMAIN endings \ Summarized(e) /\ c \in calls
    <3>1. Met(c, x)
      BY <1>8, <2>5 DEF Saturating
    <3>2. endings'[x] = endings[x]
      BY <1>1, <2>5, EndingsAfterType
    <3> QED  BY <1>1, <1>3, <3>1, <3>2 DEF Met
  <2> QED  BY <2>1, <2>2, <2>3, <2>4, <2>5
<1>9. \A f \in Seeds(problem) : Has(f, Identity)'
  BY <1>3 DEF Saturating
<1> HIDE DEF P
<1>10. \A f \in DOMAIN jumps' \ pending' : Closed(f)'
  BY <1>5, <1>6, <1>7
<1> QED  BY <1>1, <1>8, <1>9, <1>10 DEF Saturating

LEMMA PhasesStep ==
    ASSUME Good, Tables, Control, Phases, [Next]_vars
    PROVE  Phases'
<1>1. Stop => status' \notin {"seeding", "running", "complete"}
  BY DEF Stop
<1>2. CASE Seed
  <2>1. CASE status' = "running"
    BY <1>2, <2>1, SeedSaturates DEF Phases
  <2>2. CASE status' # "running"
    BY <1>1, <1>2, <2>2, SeedStep DEF Phases
  <2> QED  BY <2>1, <2>2
<1>3. ASSUME NEW e \in pending, Process(e)  PROVE Phases'
  <2>1. status = "running" /\ Saturating
    BY <1>3 DEF Process, Phases
  <2>2. CASE Propagate(Produced(e), pending \ {e}) /\ status' = status
    BY <1>3, <2>1, <2>2, ProcessSaturates DEF Phases
  <2>3. CASE Stop
    BY <1>1, <2>3 DEF Phases
  <2> QED  BY <1>3, <2>2, <2>3, ProcessStep
<1>4. CASE \E k \in SourceKeys : Resolve(k)
  <2>1. status = "running" /\ Saturating /\ UNCHANGED <<problem, jumps, pending, calls, endings>>
        /\ (status' = status \/ Stop)
    BY <1>4 DEF Resolve, Phases
  <2>2. Saturating'
    BY <2>1 DEF Saturating, Closed, Met, Has, Recorded
  <2> QED  BY <1>1, <2>1, <2>2 DEF Phases
<1>5. CASE Finish
  <2>1. /\ status = "running" /\ Saturating /\ UNCHANGED <<problem, jumps, pending, calls, endings, sources>>
        /\ pending = {} /\ Unresolved = {} /\ (status' = "complete" \/ status' = "cancelled" \/ Stop)
    BY <1>5 DEF Finish, Conclude, Phases, ideVars
  <2>2. Saturating'
    BY <2>1 DEF Saturating, Closed, Met, Has, Recorded
  <2>3. pending' = pending /\ Unresolved' = Unresolved
    BY <2>1 DEF Unresolved, SourceKeys, Arriving
  <2> QED  BY <1>1, <2>1, <2>2, <2>3 DEF Phases
<1>6. CASE (Cancel /\ UNCHANGED <<problem, ideVars>>) \/ UNCHANGED vars
  <2>1. status' = status /\ UNCHANGED <<problem, jumps, pending, calls, endings, sources>>
    BY <1>6 DEF Cancel, ideVars, vars
  <2>2. Saturating => Saturating'
    BY <2>1 DEF Saturating, Closed, Met, Has, Recorded
  <2>3. pending' = pending /\ Unresolved' = Unresolved
    BY <2>1 DEF Unresolved, SourceKeys, Arriving
  <2> QED  BY <2>1, <2>2, <2>3 DEF Phases
<1> QED  BY <1>2, <1>3, <1>4, <1>5, <1>6 DEF Next, Solve

\* The frame f is accounted for: the edge it has reached has a term that makes its
\* value of the one it was entered with.
Accounted(f) ==
    f.edge \in DOMAIN jumps /\ \E t \in jumps[f.edge] : f.value = Applied(t, f.entered)

\* The activation g was entered from f.
EnteredFrom(f, g) ==
    /\ g.edge.from \in Entered(problem, f.edge)
    /\ \E t \in FunctionInto(problem, f.edge, g.edge.from) : g.entered = Applied(t, f.value)

FromSeed(f) ==
    \E q \in problem.seeds : /\ f.edge.from = [point |-> q, ctx |-> <<>>]
                             /\ f.entered = SeedValue(problem, q)

\* The walks from a seed whose activations are accounted for, each entered from the
\* one below.
Summed ==
    {s \in Stacks : /\ FromSeed(s[1])
                    /\ \A i \in 1..Len(s) : Accounted(s[i])
                    /\ \A i \in 1..Len(s) - 1 : EnteredFrom(s[i], s[i + 1])}

LEMMA SummedReaching ==
    ASSUME NEW s \in Summed, NEW f \in Frames, Accounted(f),
           f.edge.from = Running(s).edge.from, f.entered = Running(s).entered
    PROVE  Reaching(s, f) \in Summed
<1>1. s \in Seq(Frames) \ {<<>>}
  BY DEF Summed, Stacks
<1>2. PICK u : u = Reaching(s, f)
  OBVIOUS
<1>3. u \in Stacks /\ Len(u) = Len(s) /\ Len(s) \in Nat \ {0}
  BY <1>1, <1>2, StackReaching DEF Stacks
<1>4. \A i \in 1..Len(s) : u[i] = IF i = Len(s) THEN f ELSE s[i]
  BY <1>1, <1>2 DEF Reaching
<1>5. \A i \in 1..Len(u) : Accounted(u[i])
  BY <1>3, <1>4 DEF Summed
<1>6. ASSUME NEW i \in 1..Len(u) - 1  PROVE EnteredFrom(u[i], u[i + 1])
  <2>1. i \in 1..Len(s) - 1 /\ i # Len(s) /\ i \in 1..Len(s) /\ i + 1 \in 1..Len(s)
    BY <1>3
  <2>2. EnteredFrom(s[i], s[i + 1]) /\ u[i] = s[i]
    BY <1>4, <2>1 DEF Summed
  <2>3. CASE i + 1 = Len(s)
    <3>1. u[i + 1] = f /\ s[i + 1] = Running(s)
      BY <1>4, <2>1, <2>3 DEF Running
    <3> QED  BY <2>2, <3>1 DEF EnteredFrom
  <2>4. CASE i + 1 # Len(s)
    BY <1>4, <2>1, <2>2, <2>4
  <2> QED  BY <2>3, <2>4
<1>7. FromSeed(u[1])
  <2>1. FromSeed(s[1])
    BY DEF Summed
  <2>2. 1 \in 1..Len(s)
    BY <1>3
  <2>3. u[1] = IF Len(s) = 1 THEN f ELSE s[1]
    BY <1>4, <2>2
  <2>4. Len(s) = 1 => s[1] = Running(s)
    BY DEF Running
  <2> QED  BY <2>1, <2>3, <2>4 DEF FromSeed
<1> QED  BY <1>2, <1>3, <1>5, <1>6, <1>7 DEF Summed

LEMMA SummedDeeper ==
    ASSUME NEW s \in Summed, NEW f \in Frames, Accounted(f), EnteredFrom(Running(s), f)
    PROVE  Append(s, f) \in Summed
<1>1. s \in Seq(Frames) \ {<<>>}
  BY DEF Summed, Stacks
<1>2. PICK u : u = Append(s, f)
  OBVIOUS
<1>3. u \in Stacks /\ Len(u) = Len(s) + 1 /\ Len(s) \in Nat \ {0}
  BY <1>1, <1>2, StackDeeper DEF Stacks
<1>4. (\A i \in 1..Len(s) : u[i] = s[i]) /\ u[Len(s) + 1] = f
  BY <1>1, <1>2, AppendProperties
<1>5. \A i \in 1..Len(u) : Accounted(u[i])
  BY <1>3, <1>4 DEF Summed
<1>6. \A i \in 1..Len(u) - 1 : EnteredFrom(u[i], u[i + 1])
  <2>1. ASSUME NEW i \in 1..Len(u) - 1  PROVE EnteredFrom(u[i], u[i + 1])
    <3>1. CASE i = Len(s)
      BY <1>3, <1>4, <3>1 DEF Running
    <3>2. CASE i # Len(s)
      <4>1. i \in 1..Len(s) - 1 /\ i \in 1..Len(s) /\ i + 1 \in 1..Len(s)
        BY <1>3, <3>2
      <4> QED  BY <1>4, <4>1 DEF Summed
    <3> QED  BY <3>1, <3>2
  <2> QED  BY <2>1
<1>7. FromSeed(u[1])
  BY <1>3, <1>4 DEF Summed
<1> QED  BY <1>2, <1>3, <1>5, <1>6, <1>7 DEF Summed

LEMMA SummedWaiting ==
    ASSUME NEW s \in Summed, Len(s) > 1
    PROVE  /\ Waiting(s) \in Summed /\ Accounted(Running(Waiting(s))) /\ Accounted(Running(s))
           /\ EnteredFrom(Running(Waiting(s)), Running(s))
<1>1. s \in Seq(Frames) /\ Len(s) \in Nat
  BY DEF Summed, Stacks
<1>2. PICK n : n = Len(s) - 1
  OBVIOUS
<1>3. n \in 1..Len(s) /\ n + 1 = Len(s) /\ n \in 1..Len(s) - 1 /\ Len(s) \in 1..Len(s)
  BY <1>1, <1>2
<1>4. PICK w : w = Waiting(s)
  OBVIOUS
<1>5. w \in Seq(Frames) /\ Len(w) = n /\ \A i \in 1..n : w[i] = s[i]
  BY <1>1, <1>2, <1>3, <1>4, SubSeqProperties DEF Waiting
<1>6. w \in Stacks
  BY <1>3, <1>5 DEF Stacks
<1>7. \A i \in 1..n : i \in 1..Len(s) /\ Accounted(w[i])
  BY <1>1, <1>3, <1>5 DEF Summed
<1>8. \A i \in 1..n - 1 : EnteredFrom(w[i], w[i + 1])
  <2>1. \A i \in 1..n - 1 : i \in 1..n /\ i + 1 \in 1..n /\ i \in 1..Len(s) - 1
    BY <1>1, <1>3
  <2> QED  BY <1>5, <2>1 DEF Summed
<1>9. w \in Summed
  <2>1. FromSeed(w[1])
    BY <1>1, <1>3, <1>5 DEF Summed
  <2> QED  BY <1>5, <1>6, <1>7, <1>8, <2>1 DEF Summed
<1>10. Running(w) = s[n] /\ Running(s) = s[n + 1]
  BY <1>3, <1>5 DEF Running
<1> QED  BY <1>3, <1>4, <1>9, <1>10 DEF Summed

LEMMA ComposedHas ==
    ASSUME NEW F, NEW G, NEW f \in F, NEW g \in G
    PROVE  ComposedTerm(f, g) \in Composed(F, G)
BY DEF Composed

\* A step from a walk that is accounted for leads to one.
LEMMA SummedSteps ==
    ASSUME Good, Tables, Saturating, pending = {}, NEW s \in Summed, NEW u \in Stacks,
           Steps(problem, s, u)
    PROVE  u \in Summed
<1> DEFINE f == Running(s)
<1>1. problem \in Problems /\ s \in Stacks /\ Len(s) \in Nat \ {0} /\ f \in Frames
  BY DEF Tables, Summed, Stacks, Running
<1>2. Accounted(f)
  BY <1>1 DEF Summed, Running
<1>3. PICK t \in jumps[f.edge] : f.value = Applied(t, f.entered)
  BY <1>2 DEF Accounted
<1>4. f.edge \in DOMAIN jumps /\ f.edge \in Edges /\ Closed(f.edge) /\ f.entered \in Values
      /\ t \in Terms /\ f.value \in Values
  BY <1>1, <1>2, <1>3 DEF Accounted, Frames, Saturating, Tables, Functions
<1> HIDE DEF f
<1>5. CASE GoesOn(problem, s, u)
  <2>1. PICK m \in Edges, a \in Terms :
           /\ \/ m \in Flowing(problem, f.edge) /\ a \in FunctionAlong(problem, f.edge, m)
              \/ m \in Passing(problem, f.edge) /\ a \in FunctionPast(problem, f.edge, m)
           /\ u = Reaching(s, Onto(f, m, a, f.value))
    BY <1>5 DEF GoesOn, f
  <2>2. m.from = f.edge.from
    BY <1>1, <1>4, <2>1, MovesType DEF Flowing, Passing
  <2>3. m \in DOMAIN jumps /\ ComposedTerm(a, t) \in jumps[m]
    BY <1>4, <2>1, ComposedHas DEF Closed, Has
  <2>4. Applied(ComposedTerm(a, t), f.entered) = Applied(a, f.value)
    BY <1>3, <1>4, ComposedTermMeans DEF Good
  <2>5. PICK g \in Frames : /\ g = Onto(f, m, a, f.value) /\ g.edge = m /\ g.entered = f.entered
                            /\ g.value = Applied(a, f.value)
    BY <1>1, <1>4, OntoType
  <2>6. Accounted(g)
    BY <2>3, <2>4, <2>5 DEF Accounted
  <2> QED  BY <2>1, <2>2, <2>5, <2>6, SummedReaching DEF f
<1>6. CASE Enters(problem, s, u)
  <2>1. PICK k \in Entered(problem, f.edge) : \E a \in FunctionInto(problem, f.edge, k) :
            u = Append(s, Begun(k, Applied(a, f.value)))
    BY <1>6 DEF Enters, f
  <2>2. PICK a \in FunctionInto(problem, f.edge, k) : u = Append(s, Begun(k, Applied(a, f.value)))
    BY <2>1
  <2>3. k \in Keys /\ a \in Terms
    BY <1>1, <1>4, <2>1, <2>2, EnteredType, FunctionTypes DEF Good, Functions
  <2>4. PICK v \in Values : v = Applied(a, f.value)
    BY <1>4, <2>3, AppliedType DEF Good
  <2>5. PICK g \in Frames : g = Begun(k, v) /\ g.edge = EntryEdge(k) /\ g.entered = v /\ g.value = v
    BY <2>3, BegunType
  <2>6. Accounted(g)
    <3>1. EntryEdge(k) \in DOMAIN jumps /\ <<>> \in jumps[EntryEdge(k)]
      BY <1>4, <2>1 DEF Closed, Has, Identity
    <3> QED  BY <2>5, <3>1, AppliedEmpty DEF Accounted
  <2>7. EnteredFrom(f, g)
    BY <2>1, <2>2, <2>3, <2>4, <2>5, EntryType DEF EnteredFrom
  <2> QED  BY <2>2, <2>4, <2>5, <2>6, <2>7, SummedDeeper DEF f
<1>7. CASE Returns(problem, s, u)
  <2>1. PICK w, c, x : w = Waiting(s) /\ c = Running(w) /\ x = f.edge
    OBVIOUS
  <2>2. Len(s) > 1 /\ IsEnd(problem, x.at[1])
    BY <1>7, <2>1 DEF Returns, f
  <2>3. PICK r \in Sites(problem, c.edge.at[1]) : \E m \in Returned(problem, c.edge, x, r) :
            \E b \in FunctionBack(problem, c.edge, x, r, m) : u = Reaching(w, Onto(c, m, b, f.value))
    BY <1>7, <2>1 DEF Returns, f
  <2>4. PICK m \in Returned(problem, c.edge, x, r) :
            \E b \in FunctionBack(problem, c.edge, x, r, m) : u = Reaching(w, Onto(c, m, b, f.value))
    BY <2>3
  <2>5. PICK b \in FunctionBack(problem, c.edge, x, r, m) : u = Reaching(w, Onto(c, m, b, f.value))
    BY <2>4
  <2>6. w \in Summed /\ Accounted(c) /\ EnteredFrom(c, f)
    BY <2>1, <2>2, SummedWaiting DEF f
  <2>7. c \in Frames
    BY <2>1, <2>6 DEF Summed, Stacks, Running
  <2>8. PICK tc \in jumps[c.edge] : c.value = Applied(tc, c.entered)
    BY <2>6 DEF Accounted
  <2>9. PICK a \in FunctionInto(problem, c.edge, x.from) : f.entered = Applied(a, c.value)
    BY <2>1, <2>6 DEF EnteredFrom
  <2>10. /\ c.edge \in DOMAIN jumps /\ c.edge \in Edges /\ Closed(c.edge) /\ c.entered \in Values
         /\ tc \in Terms /\ x \in Edges /\ x.from \in Keys /\ x.from \in Entered(problem, c.edge)
    BY <1>4, <2>1, <2>6, <2>7, <2>8, EdgePoints
       DEF Accounted, EnteredFrom, Frames, Saturating, Tables, Functions
  <2>11. m \in Edges /\ m.from = c.edge.from /\ r \in Nodes
    <3>1. c.edge.at[2] \in Facts /\ r \in Nodes
      BY <2>10, EdgePoints DEF Sites
    <3> QED  BY <1>1, <2>10, <3>1, ReturnedType DEF Returned
  <2>12. a \in Terms /\ b \in Terms
    BY <1>1, <2>10, <2>11, FunctionTypes DEF Good, Functions
  <2>13. PICK j : j = Composed(FunctionInto(problem, c.edge, x.from), jumps[c.edge])
    OBVIOUS
  <2>14. PICK rec : rec = [callee |-> x.from, caller |-> c.edge, site |-> r, jump |-> j]
    OBVIOUS
  <2>15. rec \in calls
    <3>1. rec \in Recorded(c.edge)
      BY <2>10, <2>13, <2>14 DEF Recorded
    <3> QED  BY <2>10, <3>1 DEF Closed
  <2>16. x \in DOMAIN endings /\ t \in endings[x]
    BY <1>3, <1>4, <2>1, <2>2 DEF Closed
  <2>17. Met(rec, x)
    BY <2>14, <2>15, <2>16 DEF Saturating
  <2>18. Has(m, Composed(Composed(FunctionBack(problem, c.edge, x, r, m), endings[x]), j))
    BY <2>14, <2>17 DEF Met
  <2>19. PICK term : term = ComposedTerm(ComposedTerm(b, t), ComposedTerm(a, tc))
    OBVIOUS
  <2>20. m \in DOMAIN jumps /\ term \in jumps[m]
    <3>1. ComposedTerm(a, tc) \in j
      BY <2>13, ComposedHas
    <3>2. ComposedTerm(b, t) \in Composed(FunctionBack(problem, c.edge, x, r, m), endings[x])
      BY <2>16, ComposedHas
    <3> QED  BY <2>18, <2>19, <3>1, <3>2, ComposedHas DEF Has
  <2>21. Applied(term, c.entered) = Applied(b, f.value)
    <3>1. Applied(ComposedTerm(a, tc), c.entered) = f.entered
      BY <2>8, <2>9, <2>10, <2>12, ComposedTermMeans DEF Good
    <3>2. Applied(ComposedTerm(b, t), f.entered) = Applied(b, f.value)
      BY <1>3, <1>4, <2>12, ComposedTermMeans DEF Good
    <3>3. ComposedTerm(a, tc) \in Terms /\ ComposedTerm(b, t) \in Terms
      BY <1>4, <2>10, <2>12, ComposedTermMeans DEF Good
    <3> QED  BY <2>10, <2>19, <3>1, <3>2, <3>3, ComposedTermMeans DEF Good
  <2>22. PICK g \in Frames : /\ g = Onto(c, m, b, f.value) /\ g.edge = m /\ g.entered = c.entered
                             /\ g.value = Applied(b, f.value)
    BY <1>4, <2>7, <2>11, <2>12, OntoType
  <2>23. Accounted(g)
    BY <2>20, <2>21, <2>22 DEF Accounted
  <2> QED  BY <2>1, <2>5, <2>6, <2>11, <2>22, <2>23, SummedReaching
<1> QED  BY <1>5, <1>6, <1>7 DEF Steps

LEMMA SummedExplores ==
    ASSUME Good, Tables, Saturating, pending = {}
    PROVE  Summed \in Explorations(problem)
<1>1. problem \in Problems
  BY DEF Tables
<1>2. ASSUME NEW s \in problem.seeds
      PROVE  <<Begun([point |-> s, ctx |-> <<>>], SeedValue(problem, s))>> \in Summed
  <2>1. PICK k \in Keys : k = [point |-> s, ctx |-> <<>>]
    BY <1>1, SeedKey
  <2>2. EntryEdge(k) \in Seeds(problem)
    BY <1>1, <2>1, SeedKey
  <2>3. PICK v \in Values : v = SeedValue(problem, s)
    BY <1>1, SeedStackType
  <2>4. PICK g \in Frames : g = Begun(k, v) /\ g.edge = EntryEdge(k) /\ g.entered = v /\ g.value = v
    BY BegunType
  <2>5. Accounted(g)
    <3>1. EntryEdge(k) \in DOMAIN jumps /\ <<>> \in jumps[EntryEdge(k)]
      BY <2>2 DEF Saturating, Has, Identity
    <3> QED  BY <2>4, <3>1, AppliedEmpty DEF Accounted
  <2>6. <<g>> \in Stacks /\ Len(<<g>>) = 1 /\ <<g>>[1] = g
    BY DEF Stacks
  <2>7. <<g>> \in Summed
    <3>1. FromSeed(g)
      BY <2>1, <2>3, <2>4, EntryType DEF FromSeed
    <3> QED  BY <2>5, <2>6, <3>1 DEF Summed
  <2> QED  BY <2>1, <2>3, <2>4, <2>7
<1>3. SeedStacks(problem) \subseteq Summed
  BY <1>2 DEF SeedStacks
<1>4. Summed \subseteq Stacks
  BY DEF Summed
<1> QED  BY <1>3, <1>4, SummedSteps DEF Explorations

\* A complete result sums up every walk: whatever an activation on its stack does
\* to the value it was entered with, the jump function of the edge it has reached
\* has a term that does the same, in whatever order edges were queued again and
\* summaries met their callers.
EveryPathSummed ==
    status = "complete" =>
        \A s \in Visited(problem) : \A i \in 1..Len(s) :
            /\ s[i].edge \in DOMAIN jumps
            /\ \E t \in jumps[s[i].edge] : s[i].value = Applied(t, s[i].entered)

LEMMA InitPhases ==
    ASSUME Init
    PROVE  Phases
<1>1. DOMAIN jumps = {} /\ calls = {} /\ DOMAIN endings = {} /\ status = "seeding"
  BY DEF Init
<1> QED  BY <1>1 DEF Phases

LEMMA PhasesSum ==
    ASSUME Good, Tables, Phases
    PROVE  EveryPathSummed
<1> SUFFICES ASSUME status = "complete"  PROVE Visited(problem) \subseteq Summed
  BY DEF EveryPathSummed, Summed, Accounted
<1>1. Saturating /\ pending = {}
  BY DEF Phases
<1> QED  BY <1>1, SummedExplores, VisitedLeast

THEOREM JumpFunctionsCover ==
    ASSUME Good
    PROVE  Spec => []EveryPathSummed
<1>1. Init => Tables /\ Control /\ Phases
  BY InitTyped, InitPhases
<1>2. Tables /\ Control /\ Phases /\ [Next]_vars => (Tables /\ Control /\ Phases)'
  BY TablesStep, ControlStep, PhasesStep
<1>3. Tables /\ Phases => EveryPathSummed
  BY PhasesSum
<1> QED  BY <1>1, <1>2, <1>3, PTL DEF Spec

-------------------------------------------------------------------------------
(* The values are those of the walks, joined. *)

Lattice == Good /\ JoinIsRight /\ PrimitivesDistribute

\* A term distributes as its primitives do.
LEMMA AppliedJoins ==
    ASSUME Lattice, NEW t \in Terms, NEW v \in Values, NEW w \in Values
    PROVE  Applied(t, JoinValues(v, w)) = JoinValues(Applied(t, v), Applied(t, w))
<1> DEFINE L == Len(t)
<1>1. L \in Nat /\ \A i \in 1..L : t[i] \in Primitives
  BY DEF Terms
<1>2. PICK j \in Values : j = JoinValues(v, w)
  BY DEF Lattice, Good, ValuesAreTyped
<1>3. PICK f : Applying(f, t, v, L) /\ Applied(t, v) = f[L]
  BY <1>1, AppliedIs
<1>4. PICK g : Applying(g, t, w, L) /\ Applied(t, w) = g[L]
  BY <1>1, AppliedIs
<1>5. PICK h : Applying(h, t, j, L) /\ Applied(t, j) = h[L]
  BY <1>1, AppliedIs
<1>6. \A n \in 0..L : /\ f[n] = IF n = 0 THEN v ELSE Compute(t[L + 1 - n], f[n - 1])
                      /\ g[n] = IF n = 0 THEN w ELSE Compute(t[L + 1 - n], g[n - 1])
                      /\ h[n] = IF n = 0 THEN j ELSE Compute(t[L + 1 - n], h[n - 1])
  BY <1>3, <1>4, <1>5 DEF Applying
<1> HIDE DEF L
<1> DEFINE T == {n \in Nat : n <= L => /\ f[n] \in Values /\ g[n] \in Values
                                       /\ h[n] = JoinValues(f[n], g[n])}
<1>7. 0 \in T
  BY <1>1, <1>2, <1>6
<1>8. ASSUME NEW n \in Nat, n \in T  PROVE n + 1 \in T
  <2> SUFFICES ASSUME n + 1 <= L
               PROVE  /\ f[n + 1] \in Values /\ g[n + 1] \in Values
                      /\ h[n + 1] = JoinValues(f[n + 1], g[n + 1])
    OBVIOUS
  <2>1. n + 1 \in 0..L /\ n + 1 # 0 /\ (n + 1) - 1 = n /\ L + 1 - (n + 1) \in 1..L /\ n <= L
    BY <1>1
  <2>2. PICK a \in Primitives : a = t[L + 1 - (n + 1)]
    BY <1>1, <2>1
  <2>3. f[n] \in Values /\ g[n] \in Values /\ h[n] = JoinValues(f[n], g[n])
    BY <1>8, <2>1
  <2>4. f[n + 1] = Compute(a, f[n]) /\ g[n + 1] = Compute(a, g[n]) /\ h[n + 1] = Compute(a, h[n])
    BY <1>6, <2>1, <2>2
  <2>5. PICK f0 \in Values, g0 \in Values : f0 = f[n] /\ g0 = g[n]
    BY <2>3
  <2>6. /\ Compute(a, f0) \in Values /\ Compute(a, g0) \in Values
        /\ Compute(a, JoinValues(f0, g0)) = JoinValues(Compute(a, f0), Compute(a, g0))
    BY DEF Lattice, Good, ValuesAreTyped, PrimitivesDistribute
  <2> QED  BY <2>3, <2>4, <2>5, <2>6
<1>9. T = Nat
  BY <1>7, <1>8, NatSteps
<1> QED  BY <1>1, <1>2, <1>3, <1>4, <1>5, <1>9

LEMMA BelowTransitive ==
    ASSUME JoinIsRight, NEW u \in Values, NEW v \in Values, NEW w \in Values, Below(u, v), Below(v, w)
    PROVE  Below(u, w)
<1>1. JoinValues(u, JoinValues(v, w)) = JoinValues(JoinValues(u, v), w)
  BY DEF JoinIsRight
<1> QED  BY <1>1 DEF Below

LEMMA AppliedBelow ==
    ASSUME Lattice, NEW t \in Terms, NEW v \in Values, NEW w \in Values, Below(v, w)
    PROVE  Below(Applied(t, v), Applied(t, w))
BY AppliedJoins DEF Below

\* What the functions of F send into a set that holds its joins is such a set.
LEMMA SentInto ==
    ASSUME Lattice, NEW F \in Functions, NEW J \in JoinClosed
    PROVE  {v \in Values : \A t \in F : Applied(t, v) \in J} \in JoinClosed
<1> DEFINE K == {v \in Values : \A t \in F : Applied(t, v) \in J}
<1>1. ASSUME NEW v \in K, NEW w \in K  PROVE JoinValues(v, w) \in K
  <2>1. JoinValues(v, w) \in Values
    BY DEF Lattice, Good, ValuesAreTyped
  <2>2. ASSUME NEW t \in F  PROVE Applied(t, JoinValues(v, w)) \in J
    <3>1. t \in Terms /\ v \in Values /\ w \in Values /\ Applied(t, v) \in J /\ Applied(t, w) \in J
      BY DEF Functions
    <3> HIDE DEF K
    <3>2. Applied(t, JoinValues(v, w)) = JoinValues(Applied(t, v), Applied(t, w))
      BY <3>1, AppliedJoins
    <3> QED  BY <3>1, <3>2 DEF JoinClosed
  <2> QED  BY <2>1, <2>2
<1> QED  BY <1>1 DEF JoinClosed

\* The upper bounds' sets: everything below a value.
LEMMA UnderClosed ==
    ASSUME Lattice, NEW u \in Values
    PROVE  {v \in Values : Below(v, u)} \in JoinClosed
<1>1. ASSUME NEW v \in Values, NEW w \in Values, Below(v, u), Below(w, u)
      PROVE  JoinValues(v, w) \in Values /\ Below(JoinValues(v, w), u)
  <2>1. JoinValues(v, w) \in Values
    BY DEF Lattice, Good, ValuesAreTyped
  <2>2. JoinValues(JoinValues(v, w), u) = JoinValues(v, JoinValues(w, u))
    BY DEF Lattice, JoinIsRight
  <2> QED  BY <1>1, <2>1, <2>2 DEF Below
<1> QED  BY <1>1 DEF JoinClosed

\* The values that walks enter an activation with.
EntryValues(k) == {v \in Values : \E s \in Visited(problem) : Running(s) = Begun(k, v)}

\* A source is a join of those: it is wherever they all are.
SourcesGenuine ==
    \A k \in DOMAIN sources : \A J \in JoinClosed : EntryValues(k) \subseteq J => sources[k] \in J

\* What the function of a caller makes of an entry value of its own is one of the callee.
LEMMA HandedOn ==
    ASSUME Good, Tables, Genuine, NEW c \in calls, NEW j \in c.jump,
           NEW v \in EntryValues(c.caller.from)
    PROVE  j \in Terms /\ Applied(j, v) \in EntryValues(c.callee)
<1>1. /\ c.caller \in DOMAIN jumps /\ c.caller \in Edges /\ c.callee \in Keys /\ problem \in Problems
      /\ c.jump \in Functions /\ jumps[c.caller] \in Functions
  BY DEF Tables
<1>2. Waits(c)
  BY DEF Genuine
<1>3. PICK f \in FunctionInto(problem, c.caller, c.callee), t \in jumps[c.caller] : j = ComposedTerm(f, t)
  BY <1>2 DEF Waits
<1>4. f \in Terms /\ t \in Terms /\ j \in Terms /\ Realized(problem, c.caller, t)
  BY <1>1, <1>3, FunctionTypes DEF Good, Functions, Genuine
<1>5. v \in Values /\ Applied(j, v) = Applied(f, Applied(t, v))
  BY <1>3, <1>4, ComposedTermMeans DEF Good, EntryValues
<1>6. PICK s \in Visited(problem) : Running(s) = Begun(c.caller.from, v)
  BY DEF EntryValues
<1>7. PICK u : u = Reaching(s, At(c.caller, v, t))
  OBVIOUS
<1>8. u \in Visited(problem) /\ Running(u) = At(c.caller, v, t)
  BY <1>1, <1>4, <1>5, <1>6, <1>7, RealizedVisits
<1>9. Running(u).edge = c.caller /\ Running(u).value = Applied(t, v)
  BY <1>1, <1>4, <1>5, <1>8, AtType
<1>10. PICK w \in Values : w = Applied(j, v)
  BY <1>4, <1>5, AppliedType DEF Good
<1>11. Append(u, Begun(c.callee, w)) \in Visited(problem)
  BY <1>1, <1>2, <1>5, <1>8, <1>9, <1>10, EntersVisits DEF Waits
<1>12. Running(Append(u, Begun(c.callee, w))) = Begun(c.callee, w)
  <2>1. u \in Seq(Frames) \ {<<>>} /\ Begun(c.callee, w) \in Frames
    BY <1>1, <1>8, BegunType DEF Visited, Stacks
  <2> QED  BY <2>1, StackDeeper DEF Running
<1> QED  BY <1>4, <1>10, <1>11, <1>12 DEF EntryValues

LEMMA ArrivingGenuine ==
    ASSUME Lattice, Tables, Resolved, Genuine, SourcesGenuine, NEW k, NEW J \in JoinClosed,
           EntryValues(k) \subseteq J
    PROVE  Arriving(k) \subseteq J
<1>1. problem \in Problems /\ Good
  BY DEF Tables, Lattice
<1>2. ASSUME NEW q \in problem.seeds, k = [point |-> q, ctx |-> <<>>]
      PROVE  SeedValue(problem, q) \in J
  <2>1. PICK v \in Values : v = SeedValue(problem, q) /\ <<Begun(k, v)>> \in Visited(problem)
    BY <1>1, <1>2, SeedStackType
  <2>2. Running(<<Begun(k, v)>>) = Begun(k, v)
    BY DEF Running
  <2>3. v \in EntryValues(k)
    BY <2>1, <2>2 DEF EntryValues
  <2> QED  BY <2>1, <2>3
<1>3. ASSUME NEW c \in calls, c.callee = k, c.caller.from \in DOMAIN sources
      PROVE  Image(c.jump, sources[c.caller.from]) \in J
  <2> DEFINE K == {v \in Values : \A t \in c.jump : Applied(t, v) \in J}
  <2>1. c.jump \in Functions
    BY DEF Tables
  <2>2. K \in JoinClosed
    BY <2>1, SentInto
  <2>3. EntryValues(c.caller.from) \subseteq K
    <3>1. ASSUME NEW v \in EntryValues(c.caller.from), NEW t \in c.jump
          PROVE  v \in Values /\ Applied(t, v) \in J
      <4>1. Applied(t, v) \in EntryValues(c.callee)
        BY <1>1, HandedOn
      <4> QED  BY <1>3, <4>1 DEF EntryValues
    <3> QED  BY <3>1 DEF EntryValues
  <2>4. sources[c.caller.from] \in K
    <3> HIDE DEF K
    <3> QED  BY <1>3, <2>2, <2>3 DEF SourcesGenuine
  <2> QED  BY <1>1, <2>1, <2>4, ImageIs DEF Good
<1> QED  BY <1>2, <1>3 DEF Arriving

LEMMA SourcesGenuineStep ==
    ASSUME Lattice, Tables, Resolved, Genuine, SourcesGenuine, [Next]_vars
    PROVE  SourcesGenuine'
<1>1. CASE UNCHANGED <<problem, sources>>
  BY <1>1 DEF SourcesGenuine, EntryValues
<1>2. ASSUME NEW k \in SourceKeys, Resolve(k), sources' # sources  PROVE SourcesGenuine'
  <2>1. /\ sources' = [j \in DOMAIN sources \cup {k} |->
                          IF j = k THEN JoinAll(Arriving(k)) ELSE sources[j]]
        /\ Arriving(k) # {} /\ problem' = problem
    BY <1>2 DEF Resolve, Unresolved
  <2>2. Good
    BY DEF Lattice
  <2>3. ASSUME NEW J \in JoinClosed, EntryValues(k) \subseteq J  PROVE JoinAll(Arriving(k)) \in J
    <3>1. Arriving(k) \subseteq J
      BY <2>3, ArrivingGenuine
    <3>2. Arriving(k) \subseteq Values /\ IsFiniteSet(Arriving(k)) /\ ValuesAreTyped
      BY <2>2, ArrivingType DEF Good
    <3> QED  BY <2>1, <3>1, <3>2, JoinAllIs
  <2>4. \A i : EntryValues(i)' = EntryValues(i)
    BY <2>1 DEF EntryValues
  <2>5. ASSUME NEW i \in DOMAIN sources', NEW J \in JoinClosed, EntryValues(i) \subseteq J
        PROVE  sources'[i] \in J
    BY <2>1, <2>3, <2>5 DEF SourcesGenuine
  <2> QED  BY <2>4, <2>5 DEF SourcesGenuine
<1>3. CASE Seed \/ (\E e \in pending : Process(e)) \/ Finish
           \/ (Cancel /\ UNCHANGED <<problem, ideVars>>) \/ UNCHANGED vars
  BY <1>1, <1>3 DEF Seed, Process, Finish, vars, ideVars
<1>4. ASSUME NEW k \in SourceKeys, Resolve(k)  PROVE problem' = problem
  BY <1>4 DEF Resolve
<1> QED  BY <1>1, <1>2, <1>3, <1>4 DEF Next, Solve

\* What the result joins for a point and some contexts.
LEMMA ValuesInType ==
    ASSUME Good, Tables, Resolved, NEW at, NEW ctxs
    PROVE  ValuesIn(at, ctxs) \subseteq Values /\ IsFiniteSet(ValuesIn(at, ctxs))
<1> DEFINE S == {e \in DOMAIN jumps : e.at = at /\ e.from.ctx \in ctxs /\ e.from \in DOMAIN sources}
           f == [e \in S |-> Image(jumps[e], sources[e.from])]
<1>1. S \in SUBSET DOMAIN jumps /\ IsFiniteSet(DOMAIN jumps)
  BY DEF Tables
<1>2. IsFiniteSet(S)
  BY <1>1, FS_Subset
<1>3. \A e \in S : jumps[e] \in Functions /\ sources[e.from] \in Values
  BY DEF Tables, Resolved
<1>4. ValuesIn(at, ctxs) \subseteq Values
  BY <1>3, ImageIs DEF ValuesIn, Good
<1>5. \A y \in ValuesIn(at, ctxs) : \E e \in S : y = f[e]
  BY DEF ValuesIn
<1> HIDE DEF f, S
<1> QED  BY <1>2, <1>4, <1>5, FiniteImage

\* The values that walks carry to a point, in activations of some contexts.
WalkValues(at, ctxs) ==
    {Running(s).value :
        s \in {s \in Visited(problem) : /\ Running(s).edge.at = at
                                        /\ Running(s).edge.from.ctx \in ctxs}}

LEMMA WalkValuesType == \A at, ctxs : WalkValues(at, ctxs) \subseteq Values
<1>1. ASSUME NEW s \in Visited(problem)  PROVE Running(s).value \in Values
  <2>1. s \in Seq(Frames) /\ s # <<>>
    BY DEF Visited, Stacks
  <2>2. Running(s) \in Frames
    BY <2>1 DEF Running
  <2> QED  BY <2>2 DEF Frames
<1> QED  BY <1>1 DEF WalkValues

\* An edge of the result carries a value only where walks do, and a join of theirs.
LEMMA EdgeValueGenuine ==
    ASSUME Lattice, Tables, Resolved, Genuine, SourcesGenuine,
           NEW e \in DOMAIN jumps, e.from \in DOMAIN sources, NEW ctxs, e.from.ctx \in ctxs
    PROVE  /\ WalkValues(e.at, ctxs) # {}
           /\ \A J \in JoinClosed : WalkValues(e.at, ctxs) \subseteq J => Image(jumps[e], sources[e.from]) \in J
<1>1. e \in Edges /\ jumps[e] \in Functions /\ sources[e.from] \in Values /\ Good
  BY DEF Tables, Resolved, Lattice
<1>2. ASSUME NEW t \in jumps[e], NEW s \in Visited(problem), NEW v \in Values,
             Running(s) = Begun(e.from, v)
      PROVE  Applied(t, v) \in WalkValues(e.at, ctxs)
  <2>1. t \in Terms /\ Realized(problem, e, t)
    BY <1>1 DEF Functions, Genuine
  <2>2. PICK u \in Visited(problem) : Running(u) = At(e, v, t)
    BY <1>1, <1>2, <2>1, RealizedVisits
  <2>3. Running(u).edge = e /\ Running(u).value = Applied(t, v)
    BY <1>1, <2>1, <2>2, AtType
  <2> QED  BY <2>2, <2>3 DEF WalkValues
<1>3. WalkValues(e.at, ctxs) # {}
  <2>1. PICK t \in jumps[e] : Realized(problem, e, t)
    BY <1>1 DEF Functions, Genuine
  <2>2. PICK s \in Visited(problem), v \in Values : Running(s) = Begun(e.from, v)
    BY <2>1 DEF Realized
  <2> QED  BY <1>2, <2>2
<1>4. ASSUME NEW J \in JoinClosed, WalkValues(e.at, ctxs) \subseteq J
      PROVE  Image(jumps[e], sources[e.from]) \in J
  <2> DEFINE K == {v \in Values : \A t \in jumps[e] : Applied(t, v) \in J}
  <2>1. K \in JoinClosed
    BY <1>1, SentInto
  <2>2. EntryValues(e.from) \subseteq K
    BY <1>2, <1>4 DEF EntryValues
  <2>3. sources[e.from] \in K
    <3> HIDE DEF K
    <3> QED  BY <2>1, <2>2 DEF SourcesGenuine
  <2> QED  BY <1>1, <2>3, ImageIs DEF Good
<1> QED  BY <1>3, <1>4

\* A result, complete or cut short, gives a point in some contexts nothing but
\* bottom unless walks carry values there, and then no more than what is above all
\* of these: no value is handed to a callee that its callers do not send, and none
\* comes back to a caller from the call of another.
NoValueSpurious ==
    \A at, ctxs :
        \/ ValuesIn(at, ctxs) = {} /\ ValueAt(at, ctxs) = BottomValue
        \/ /\ WalkValues(at, ctxs) # {}
           /\ \A u \in Values : (\A w \in WalkValues(at, ctxs) : Below(w, u)) => Below(ValueAt(at, ctxs), u)

LEMMA GenuineValues ==
    ASSUME Lattice, Tables, Resolved, Genuine, SourcesGenuine
    PROVE  NoValueSpurious
<1> SUFFICES ASSUME NEW at, NEW ctxs, ValuesIn(at, ctxs) # {}
             PROVE  /\ WalkValues(at, ctxs) # {}
                    /\ \A u \in Values : (\A w \in WalkValues(at, ctxs) : Below(w, u))
                                            => Below(JoinAll(ValuesIn(at, ctxs)), u)
  BY DEF NoValueSpurious, ValueAt
<1>1. \A y \in ValuesIn(at, ctxs) : \E e \in DOMAIN jumps :
         /\ e.at = at /\ e.from.ctx \in ctxs /\ e.from \in DOMAIN sources
         /\ y = Image(jumps[e], sources[e.from])
  BY DEF ValuesIn
<1>2. WalkValues(at, ctxs) # {}
  BY <1>1, EdgeValueGenuine
<1>3. ASSUME NEW J \in JoinClosed, WalkValues(at, ctxs) \subseteq J
      PROVE  JoinAll(ValuesIn(at, ctxs)) \in J
  <2>1. ValuesIn(at, ctxs) \subseteq J
    BY <1>1, <1>3, EdgeValueGenuine
  <2>2. ValuesIn(at, ctxs) \subseteq Values /\ IsFiniteSet(ValuesIn(at, ctxs)) /\ ValuesAreTyped
    BY ValuesInType DEF Lattice, Good
  <2> QED  BY <2>1, <2>2, JoinAllIs
<1>4. ASSUME NEW u \in Values, \A w \in WalkValues(at, ctxs) : Below(w, u)
      PROVE  Below(JoinAll(ValuesIn(at, ctxs)), u)
  <2>1. {v \in Values : Below(v, u)} \in JoinClosed
    BY UnderClosed
  <2>2. WalkValues(at, ctxs) \subseteq {v \in Values : Below(v, u)}
    BY <1>4, WalkValuesType
  <2>3. JoinAll(ValuesIn(at, ctxs)) \in {v \in Values : Below(v, u)}
    BY <1>3, <2>1, <2>2
  <2> QED  BY <2>3
<1> QED  BY <1>2, <1>4

THEOREM ValuesAreRealized ==
    ASSUME Lattice
    PROVE  Spec => []NoValueSpurious
<1>0. Good
  BY DEF Lattice
<1>1. Init => Tables /\ Resolved /\ Genuine /\ SourcesGenuine
  <2> SUFFICES ASSUME Init  PROVE Tables /\ Resolved /\ Genuine /\ SourcesGenuine
    OBVIOUS
  <2>1. DOMAIN jumps = {} /\ calls = {} /\ DOMAIN endings = {} /\ DOMAIN sources = {}
    BY DEF Init
  <2> QED  BY <2>1, InitTyped DEF Genuine, SourcesGenuine
<1>2. Tables /\ Resolved /\ Genuine /\ SourcesGenuine /\ [Next]_vars
        => (Tables /\ Resolved /\ Genuine /\ SourcesGenuine)'
  BY <1>0, TablesStep, ResolvedStep, GenuineStep, SourcesGenuineStep
<1>3. Tables /\ Resolved /\ Genuine /\ SourcesGenuine => NoValueSpurious
  BY GenuineValues
<1> QED  BY <1>1, <1>2, <1>3, PTL DEF Spec

-------------------------------------------------------------------------------
(* And no value of a walk is left out. *)

\* The source of the frame's activation is above what it was entered with.
Sourced(f) ==
    f.edge.from \in DOMAIN sources /\ Below(f.entered, sources[f.edge.from])

\* When the second phase has nothing left to change, a key with an edge that some
\* value arrives at is above it.
LEMMA ArrivedBelow ==
    ASSUME Lattice, Tables, Resolved, Unresolved = {}, NEW k \in SourceKeys, NEW v \in Arriving(k)
    PROVE  k \in DOMAIN sources /\ Below(v, sources[k]) /\ v \in Values
<1>1. k \in DOMAIN sources /\ sources[k] = JoinAll(Arriving(k))
  BY DEF Unresolved
<1>2. Arriving(k) \subseteq Values /\ IsFiniteSet(Arriving(k)) /\ ValuesAreTyped /\ JoinIsRight
  BY ArrivingType DEF Lattice, Good
<1> QED  BY <1>1, <1>2, JoinAllIs

LEMMA SeedSourced ==
    ASSUME Lattice, Tables, Resolved, Saturating, Unresolved = {}, NEW f, FromSeed(f)
    PROVE  Sourced(f)
<1>1. PICK q \in problem.seeds : /\ f.edge.from = [point |-> q, ctx |-> <<>>]
                                 /\ f.entered = SeedValue(problem, q)
  BY DEF FromSeed
<1>2. PICK k : k = f.edge.from
  OBVIOUS
<1>3. EntryEdge(k) \in Seeds(problem) /\ k \in Keys
  BY <1>1, <1>2, SeedKey DEF Tables
<1>4. EntryEdge(k) \in DOMAIN jumps /\ EntryEdge(k).from = k
  BY <1>3, EntryType DEF Saturating, Has
<1>5. k \in SourceKeys
  BY <1>4 DEF SourceKeys
<1>6. f.entered \in Arriving(k)
  BY <1>1, <1>2 DEF Arriving
<1> QED  BY <1>2, <1>5, <1>6, ArrivedBelow DEF Sourced

LEMMA EnteredSourced ==
    ASSUME Lattice, Tables, Resolved, Saturating, pending = {}, Unresolved = {},
           CallsContinue(problem), NEW f \in Frames, NEW g \in Frames,
           Accounted(f), Sourced(f), EnteredFrom(f, g)
    PROVE  Sourced(g)
<1>1. /\ f.edge \in DOMAIN jumps /\ f.edge \in Edges /\ jumps[f.edge] \in Functions /\ Closed(f.edge)
      /\ problem \in Problems /\ f.entered \in Values
  BY DEF Accounted, Tables, Saturating, Frames
<1>2. PICK k \in Keys : k = g.edge.from
  BY EdgePoints DEF Frames
<1>3. k \in Entered(problem, f.edge)
  BY <1>2 DEF EnteredFrom
<1>4. PICK a \in FunctionInto(problem, f.edge, k) : g.entered = Applied(a, f.value)
  BY <1>2 DEF EnteredFrom
<1>5. PICK t \in jumps[f.edge] : f.value = Applied(t, f.entered)
  BY DEF Accounted
<1>6. PICK r \in Sites(problem, f.edge.at[1]) : TRUE
  <2>1. Callees(problem, f.edge.at[1]) # {}
    BY <1>3 DEF Entered
  <2>2. f.edge.at[1] \in Nodes
    BY <1>1, EdgePoints
  <2> QED  BY <2>1, <2>2 DEF CallsContinue
<1>7. PICK jump : jump = Composed(FunctionInto(problem, f.edge, k), jumps[f.edge])
  OBVIOUS
<1>8. PICK c : c = [callee |-> k, caller |-> f.edge, site |-> r, jump |-> jump]
  OBVIOUS
<1>9. c \in calls
  <2>1. c \in Recorded(f.edge)
    BY <1>3, <1>6, <1>7, <1>8 DEF Recorded
  <2> QED  BY <1>1, <2>1 DEF Closed
<1>10. PICK v \in Values : v = sources[f.edge.from]
  BY DEF Resolved, Sourced
<1>11. Image(jump, v) \in Arriving(k)
  <2>1. /\ c \in calls /\ c.callee = k /\ c.caller.from \in DOMAIN sources
        /\ Image(c.jump, sources[c.caller.from]) = Image(jump, v)
    BY <1>8, <1>9, <1>10 DEF Sourced
  <2> QED  BY <2>1 DEF Arriving
<1>12. k \in SourceKeys
  <2>1. EntryEdge(k) \in DOMAIN jumps /\ EntryEdge(k).from = k
    BY <1>1, <1>3, EntryType DEF Closed, Has
  <2> QED  BY <2>1 DEF SourceKeys
<1>13. k \in DOMAIN sources /\ Below(Image(jump, v), sources[k]) /\ Image(jump, v) \in Values
  BY <1>11, <1>12, ArrivedBelow
<1>14. a \in Terms /\ t \in Terms
  BY <1>1, <1>4, <1>5, FunctionTypes DEF Lattice, Good, Functions
<1>15. PICK j \in jump : j = ComposedTerm(a, t)
  BY <1>4, <1>5, <1>7, ComposedHas
<1>16. j \in Terms /\ Applied(j, f.entered) = g.entered
  BY <1>1, <1>4, <1>5, <1>14, <1>15, ComposedTermMeans DEF Lattice, Good
<1>17. Below(g.entered, Applied(j, v)) /\ Applied(j, v) \in Values /\ g.entered \in Values
  <2>1. Below(f.entered, v)
    BY <1>10 DEF Sourced
  <2>2. Applied(j, v) \in Values /\ Applied(j, f.entered) \in Values
    BY <1>1, <1>16, AppliedType DEF Lattice, Good
  <2> QED  BY <1>1, <1>16, <2>1, <2>2, AppliedBelow
<1>18. Below(Applied(j, v), Image(jump, v))
  <2>1. jump \in Functions
    BY <1>1, <1>2, <1>7, FunctionTypes, ComposedType DEF Lattice, Good
  <2> QED  BY <1>15, <2>1, ImageIs DEF Lattice, Good
<1>19. sources[k] \in Values
  BY <1>13 DEF Resolved
<1>20. Below(g.entered, sources[k])
  <2>1. Below(g.entered, Image(jump, v))
    BY <1>13, <1>17, <1>18, BelowTransitive DEF Lattice
  <2> QED  BY <1>13, <1>17, <1>19, <2>1, BelowTransitive DEF Lattice
<1> QED  BY <1>2, <1>13, <1>20 DEF Sourced

LEMMA SummedSourced ==
    ASSUME Lattice, Tables, Resolved, Saturating, pending = {}, Unresolved = {},
           CallsContinue(problem), NEW s \in Summed
    PROVE  Sourced(Running(s))
<1> DEFINE T == {n \in Nat : n + 1 <= Len(s) => Sourced(s[n + 1])}
<1>1. s \in Seq(Frames) /\ Len(s) \in Nat \ {0}
  BY DEF Summed, Stacks
<1>2. 0 \in T
  <2>1. FromSeed(s[1])
    BY DEF Summed
  <2>2. Sourced(s[1])
    BY <2>1, SeedSourced
  <2> QED  BY <2>2
<1>3. ASSUME NEW n \in Nat, n \in T  PROVE n + 1 \in T
  <2> SUFFICES ASSUME (n + 1) + 1 <= Len(s)  PROVE Sourced(s[(n + 1) + 1])
    OBVIOUS
  <2>1. n + 1 \in 1..Len(s) - 1 /\ n + 1 \in 1..Len(s) /\ (n + 1) + 1 \in 1..Len(s) /\ n + 1 <= Len(s)
    BY <1>1
  <2>2. s[n + 1] \in Frames /\ s[(n + 1) + 1] \in Frames
    BY <1>1, <2>1
  <2>3. Accounted(s[n + 1]) /\ EnteredFrom(s[n + 1], s[(n + 1) + 1])
    BY <2>1 DEF Summed
  <2>4. Sourced(s[n + 1])
    BY <1>3, <2>1
  <2> QED  BY <2>2, <2>3, <2>4, EnteredSourced
<1>4. T = Nat
  BY <1>2, <1>3, NatSteps
<1>5. PICK n \in Nat : n + 1 = Len(s)
  <2>1. Len(s) - 1 \in Nat /\ (Len(s) - 1) + 1 = Len(s)
    BY <1>1
  <2> QED  BY <2>1
<1>6. n \in T
  BY <1>4
<1> QED  BY <1>5, <1>6 DEF Running

\* A complete result gives a point in some contexts at least every value a walk
\* carries there, if each call of the program continues somewhere.
NoValueMissing ==
    status = "complete" /\ CallsContinue(problem) =>
        \A at, ctxs : \A w \in WalkValues(at, ctxs) :
            ValuesIn(at, ctxs) # {} /\ Below(w, ValueAt(at, ctxs))

LEMMA CompleteValues ==
    ASSUME Lattice, Tables, Resolved, Phases
    PROVE  NoValueMissing
<1> SUFFICES ASSUME status = "complete", CallsContinue(problem), NEW at, NEW ctxs,
                    NEW w \in WalkValues(at, ctxs)
             PROVE  ValuesIn(at, ctxs) # {} /\ Below(w, JoinAll(ValuesIn(at, ctxs)))
  BY DEF NoValueMissing, ValueAt
<1>1. Saturating /\ pending = {} /\ Unresolved = {} /\ Good
  BY DEF Phases, Lattice
<1>2. PICK s \in Visited(problem) : /\ Running(s).edge.at = at /\ Running(s).edge.from.ctx \in ctxs
                                    /\ w = Running(s).value
  BY DEF WalkValues
<1>3. s \in Summed
  BY <1>1, SummedExplores, VisitedLeast
<1>4. PICK f : f = Running(s)
  OBVIOUS
<1>5. Sourced(f) /\ Accounted(f) /\ f \in Frames
  <2>1. s \in Seq(Frames) /\ Len(s) \in 1..Len(s)
    BY <1>3 DEF Summed, Stacks
  <2>2. f \in Frames /\ Accounted(f)
    BY <1>3, <1>4, <2>1 DEF Running, Summed
  <2> QED  BY <1>1, <1>3, <1>4, <2>2, SummedSourced
<1>6. PICK t \in jumps[f.edge] : w = Applied(t, f.entered)
  BY <1>2, <1>4, <1>5 DEF Accounted
<1>7. /\ f.edge \in DOMAIN jumps /\ jumps[f.edge] \in Functions /\ t \in Terms /\ f.entered \in Values
      /\ f.edge.from \in DOMAIN sources
  BY <1>5, <1>6 DEF Accounted, Sourced, Tables, Functions, Frames
<1>8. PICK v \in Values : v = sources[f.edge.from] /\ Below(f.entered, v)
  BY <1>5, <1>7 DEF Sourced, Resolved
<1>9. PICK y : y = Image(jumps[f.edge], v)
  OBVIOUS
<1>10. y \in ValuesIn(at, ctxs)
  BY <1>2, <1>4, <1>7, <1>8, <1>9 DEF ValuesIn
<1>11. y \in Values /\ Below(Applied(t, v), y)
  BY <1>6, <1>7, <1>9, ImageIs DEF Lattice, Good
<1>12. Below(w, Applied(t, v)) /\ Applied(t, v) \in Values /\ w \in Values
  BY <1>1, <1>6, <1>7, <1>8, AppliedBelow, AppliedType DEF Good
<1>13. /\ JoinAll(ValuesIn(at, ctxs)) \in Values /\ Below(y, JoinAll(ValuesIn(at, ctxs)))
  <2>1. ValuesIn(at, ctxs) \subseteq Values /\ IsFiniteSet(ValuesIn(at, ctxs)) /\ ValuesAreTyped
        /\ JoinIsRight
    BY <1>1, ValuesInType DEF Lattice, Good
  <2> QED  BY <1>10, <2>1, JoinAllIs
<1>14. Below(w, y)
  BY <1>11, <1>12, BelowTransitive DEF Lattice
<1>15. Below(w, JoinAll(ValuesIn(at, ctxs)))
  BY <1>11, <1>12, <1>13, <1>14, BelowTransitive DEF Lattice
<1> QED  BY <1>10, <1>15

THEOREM ValuesCover ==
    ASSUME Lattice
    PROVE  Spec => []NoValueMissing
<1>0. Good
  BY DEF Lattice
<1>1. Init => Tables /\ Resolved /\ Control /\ Phases
  BY InitTyped, InitPhases
<1>2. Tables /\ Resolved /\ Control /\ Phases /\ [Next]_vars
        => (Tables /\ Resolved /\ Control /\ Phases)'
  BY <1>0, TablesStep, ResolvedStep, ControlStep, PhasesStep
<1>3. Tables /\ Resolved /\ Phases => NoValueMissing
  BY CompleteValues
<1> QED  BY <1>1, <1>2, <1>3, PTL DEF Spec
===============================================================================
