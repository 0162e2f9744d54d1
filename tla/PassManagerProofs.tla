--------------------------- MODULE PassManagerProofs ---------------------------
(***************************************************************************)
(* Theorems about PassManager for every pass graph, pipeline set and bound,  *)
(* in three parts: what a stamp promises, what the retirement of a replaced  *)
(* result reaches, and how long what a pass computed lives.                  *)
(*                                                                           *)
(* Stamps.  An epoch is what a stamp and the program must share for a         *)
(* result to be usable: catalog, revision, options, result generation.  Every *)
(* operation on the program state either starts a later epoch, which no       *)
(* stored stamp carries (stamps are never ahead of the program), or keeps the *)
(* epoch and drops no held result.  So a stamp of the current epoch is backed *)
(* by a held result as long as the steps that write stamps write them only    *)
(* for held results, and those steps are the four that end a pass.           *)
(*                                                                           *)
(* Retirement.  AffectedKeys adds the readers of what is reached once per     *)
(* slot.  A set that grows at most once per slot is closed by then (Stable),  *)
(* and a closed set that holds the producer's slot holds every slot derived   *)
(* from it.  Induction over the steps is by the least counterexample.         *)
(*                                                                           *)
(* Lifetimes.  Every operation on the program state but recording a result    *)
(* loses: it holds no slot the previous state did not hold, and drops the     *)
(* facts of each slot it drops.  So only an analysis gains a slot, its own,   *)
(* after publishing facts under the same key.  Recording a result makes every *)
(* result derived from the previous one unsound, and these are exactly the    *)
(* ones retirement takes; the analysis itself ran on sound inputs because     *)
(* valid markers are backed by held results.                                  *)
(***************************************************************************)
EXTENDS PassManager, SequenceTheorems, FiniteSetTheorems, WellFoundedInduction, TLAPS

Epoch(s) == <<s.cat, s.rev, s.opt, s.gen>>
Epochs == Nat \X Nat \X Options \X Nat

MarkerEpoch(tok) == <<tok[1], tok[2], tok[3], tok[4]>>
CacheEpoch(tok)  == <<tok[1], tok[2], tok[4], tok[5]>>

\* A stamp of pass n: not ahead of the program, and if it is of the program's
\* epoch and n is an analysis, n's slot is held.
Backed(e, n, s) ==
    /\ NotAhead(e[1], e[2], s)
    /\ e[4] <= s.gen
    /\ CommitsThroughManager /\ n \in Analyses /\ e = Epoch(s) => Key[n] \in Held(s)

MarkersGood(f, s) ==
    \A n \in Passes : f[n] # NoToken => Backed(MarkerEpoch(f[n]), n, s)
CacheGood(c, s) ==
    \A n \in Passes : c[n].tok # NoToken => Backed(CacheEpoch(c[n].tok), n, s)

WellFormed(s) ==
    /\ s \in States
    /\ \A k \in Keys : s.results[k].tok # NoToken =>
          NotAhead(s.results[k].tok[1], s.results[k].tok[2], s)

\* t is s, or what an operation makes of s.
Follows(s, t) ==
    /\ WellFormed(t)
    /\ NotAhead(s.cat, s.rev, t)
    /\ s.gen <= t.gen
    /\ s.gen = t.gen => s.opt = t.opt
    /\ Epoch(s) = Epoch(t) => Held(s) \subseteq Held(t)

--------------------------------------------------------------------------------
(* Operations on the program state *)

LEMMA FollowsRefl == ASSUME NEW s, WellFormed(s) PROVE Follows(s, s)
  BY DEF Follows, WellFormed, States, NotAhead

LEMMA FollowsTrans ==
  ASSUME NEW s, NEW t, NEW u, WellFormed(s), Follows(s, t), Follows(t, u)
  PROVE  Follows(s, u)
  BY DEF Follows, WellFormed, States, NotAhead, Epoch

\* A stamp stays good while the program moves on.
LEMMA BackedFollows ==
  ASSUME NEW s, NEW t, NEW e \in Epochs, NEW n,
         WellFormed(s), Follows(s, t), Backed(e, n, s)
  PROVE  Backed(e, n, t)
  BY DEF Follows, WellFormed, States, NotAhead, Epoch, Epochs, Backed

LEMMA TokenType ==
  ASSUME NEW s \in States
  PROVE  /\ ResultToken(s) \in ResultTokens /\ ResultToken(s) # NoToken
         /\ CacheToken(s) \in CacheTokens /\ CacheToken(s) # NoToken
         /\ MarkerToken(s) \in MarkerTokens /\ MarkerToken(s) # NoToken
         /\ Epoch(s) \in Epochs
  <1>1. /\ ResultToken(s) \in ResultTokens /\ CacheToken(s) \in CacheTokens
        /\ MarkerToken(s) \in MarkerTokens /\ Epoch(s) \in Epochs
    BY DEF States, ResultToken, CacheToken, MarkerToken, ResultTokens, CacheTokens,
           MarkerTokens, Epoch, Epochs
  <1> QED
    BY <1>1, NoTokenAssumption

LEMMA EntryType ==
  ASSUME NEW s \in States, NEW k \in Keys, s.results[k].tok # NoToken
  PROVE  s.results[k].tok \in Nat \X Nat \X Options
  BY DEF States, Results, Entries, ResultTokens

\* An operation that keeps the results and does not go back.
LEMMA SameResults ==
  ASSUME NEW s, NEW t, WellFormed(s), t \in States, t.results = s.results,
         NotAhead(s.cat, s.rev, t), t.opt = s.opt, t.gen = s.gen
  PROVE  Follows(s, t)
  <1>1. WellFormed(t)
    BY EntryType DEF WellFormed, NotAhead, States
  <1> QED
    BY <1>1 DEF WellFormed, Follows, Epoch, Held, ResultToken, States

\* What the operations on facts leave alone.
LEMMA RetainProducersFields ==
  ASSUME NEW s \in States, NEW ks
  PROVE  LET t == RetainProducers(s, ks)
         IN  /\ t \in States /\ t.results = s.results /\ t.cat = s.cat
             /\ t.rev = s.rev /\ t.opt = s.opt /\ t.gen = s.gen
             /\ t.facts = s.facts \cap ks
  <1>1. CASE s.facts \subseteq ks
    <2>1. RetainProducers(s, ks) = s
      BY <1>1 DEF RetainProducers
    <2> QED
      BY <1>1, <2>1
  <1>2. CASE ~(s.facts \subseteq ks)
    <2> DEFINE t == [s EXCEPT !.facts = @ \cap ks, !.frev = @ + 1, !.inval = @ + 1]
    <2>1. RetainProducers(s, ks) = t
      BY <1>2 DEF RetainProducers
    <2>2. /\ t.facts = s.facts \cap ks /\ t.results = s.results /\ t.cat = s.cat
          /\ t.rev = s.rev /\ t.opt = s.opt /\ t.gen = s.gen
      BY DEF States
    <2>3. /\ s.facts \cap ks \in SUBSET Keys
          /\ s.frev + 1 \in Nat /\ s.inval + 1 \in Nat
      BY DEF States
    <2>4. t \in States
      BY <2>3 DEF States
    <2> QED
      BY <2>1, <2>2, <2>4
  <1> QED
    BY <1>1, <1>2

LEMMA RetainProducersFollows ==
  ASSUME NEW s, WellFormed(s), NEW ks
  PROVE  /\ Follows(s, RetainProducers(s, ks))
         /\ Epoch(RetainProducers(s, ks)) = Epoch(s)
         /\ Held(RetainProducers(s, ks)) = Held(s)
  <1> DEFINE t == RetainProducers(s, ks)
  <1> HIDE DEF t
  <1>1. /\ t \in States /\ t.results = s.results /\ t.cat = s.cat /\ t.rev = s.rev
        /\ t.opt = s.opt /\ t.gen = s.gen
    BY RetainProducersFields DEF WellFormed, t
  <1>2. NotAhead(s.cat, s.rev, t)
    BY <1>1 DEF NotAhead, States
  <1>3. Follows(s, t)
    BY <1>1, <1>2, SameResults
  <1>4. Epoch(t) = Epoch(s) /\ Held(t) = Held(s)
    BY <1>1 DEF Epoch, Held, ResultToken
  <1> QED
    BY <1>3, <1>4 DEF t

LEMMA PublishFollows ==
  ASSUME NEW s, WellFormed(s), NEW k \in Keys
  PROVE  /\ Follows(s, Publish(s, k))
         /\ Epoch(Publish(s, k)) = Epoch(s)
         /\ Held(Publish(s, k)) = Held(s)
  <1> DEFINE t == Publish(s, k)
  <1>1. s \in States
    BY DEF WellFormed
  <1>2. t.results = s.results /\ t.cat = s.cat /\ t.rev = s.rev /\ t.opt = s.opt /\ t.gen = s.gen
    BY <1>1 DEF Publish, States
  <1>3. /\ s.facts \cup {k} \in SUBSET Keys
        /\ s.frev + 1 \in Nat
    BY <1>1 DEF States
  <1>4. t \in States
    BY <1>1, <1>3 DEF Publish, States
  <1> HIDE DEF t
  <1>5. NotAhead(s.cat, s.rev, t)
    BY <1>1, <1>2 DEF NotAhead, States
  <1>6. Follows(s, t)
    BY <1>2, <1>4, <1>5, SameResults
  <1>7. Epoch(t) = Epoch(s) /\ Held(t) = Held(s)
    BY <1>2 DEF Epoch, Held, ResultToken
  <1> QED
    BY <1>6, <1>7 DEF t

LEMMA CommitFollows ==
  ASSUME NEW s, WellFormed(s), NEW ks
  PROVE  Follows(s, CommitRevision(s, ks))
  <1> DEFINE t == CommitRevision(s, ks)
  <1>1. s \in States
    BY DEF WellFormed
  <1>2. /\ t.results = s.results /\ t.cat = s.cat /\ t.rev = s.rev + 1
        /\ t.opt = s.opt /\ t.gen = s.gen
    BY <1>1 DEF CommitRevision, States
  <1>3. /\ s.facts \cap ks \in SUBSET Keys
        /\ s.rev + 1 \in Nat /\ s.frev + 1 \in Nat /\ s.inval + 1 \in Nat
    BY <1>1 DEF States
  <1>4. t \in States
    BY <1>1, <1>3 DEF CommitRevision, States
  <1> HIDE DEF t
  <1>5. NotAhead(s.cat, s.rev, t)
    BY <1>1, <1>2 DEF NotAhead, States
  <1>6. Follows(s, t)
    BY <1>2, <1>4, <1>5, SameResults
  <1> QED
    BY <1>6 DEF t

LEMMA ReplaceCatalogFollows ==
  ASSUME NEW s, WellFormed(s)
  PROVE  Follows(s, ReplaceCatalog(s))
  <1> DEFINE t == ReplaceCatalog(s)
  <1>1. s \in States
    BY DEF WellFormed
  <1>2. /\ t.results = s.results /\ t.cat = s.cat + 1 /\ t.rev = 0
        /\ t.opt = s.opt /\ t.gen = s.gen
    BY <1>1 DEF ReplaceCatalog, States
  <1>3. {} \in SUBSET Keys /\ s.cat + 1 \in Nat
    BY <1>1 DEF States
  <1>4. t \in States
    BY <1>1, <1>3 DEF ReplaceCatalog, States
  <1> HIDE DEF t
  <1>5. NotAhead(s.cat, s.rev, t)
    BY <1>1, <1>2 DEF NotAhead, States
  <1>6. Follows(s, t)
    BY <1>2, <1>4, <1>5, SameResults
  <1> QED
    BY <1>6 DEF t

\* A later result generation is a later epoch.
LEMMA LaterGeneration ==
  ASSUME NEW s \in States, NEW t, WellFormed(t), NotAhead(s.cat, s.rev, t), s.gen < t.gen
  PROVE  Follows(s, t)
  BY DEF Follows, WellFormed, States, Epoch

LEMMA RetainResultsFields ==
  ASSUME NEW s \in States, NEW ks
  PROVE  LET t == RetainResults(s, ks)
         IN  /\ WellFormed(t) /\ t.cat = s.cat /\ t.rev = s.rev /\ t.opt = s.opt
             /\ t.gen = s.gen + 1
             /\ t.facts = s.facts
             /\ Held(t) = {k \in Keys \cap ks : s.results[k].tok # NoToken}
  <1> DEFINE entry(k) == IF k \in ks /\ s.results[k].tok # NoToken
                         THEN [tok |-> ResultToken(s), sound |-> s.results[k].sound]
                         ELSE NoEntry
             results  == [k \in Keys |-> entry(k)]
             t        == RetainResults(s, ks)
  <1>1. ASSUME NEW k \in Keys PROVE entry(k) \in Entries(ResultTokens)
    <2>1. s.results[k].sound \in BOOLEAN
      BY DEF States, Results, Entries
    <2> QED
      BY <2>1, TokenType DEF Entries, NoEntry
  <1>2. results \in Results /\ s.gen + 1 \in Nat
    BY <1>1 DEF Results, States
  <1>3. t = [s EXCEPT !.results = results, !.gen = s.gen + 1]
    BY DEF RetainResults
  <1>4. /\ t.cat = s.cat /\ t.rev = s.rev /\ t.opt = s.opt /\ t.gen = s.gen + 1
        /\ t.facts = s.facts /\ t.results = results
    BY <1>3 DEF States
  <1>5. t \in States
    BY <1>2, <1>3 DEF States
  <1>6. \A k \in Keys : t.results[k].tok = IF k \in ks /\ s.results[k].tok # NoToken
                                          THEN ResultToken(s) ELSE NoToken
    BY <1>4 DEF NoEntry
  <1> HIDE DEF t, results
  <1>7. ResultToken(t) = ResultToken(s) /\ ResultToken(s) # NoToken
    BY <1>4, TokenType DEF ResultToken
  <1>8. WellFormed(t)
    BY <1>4, <1>5, <1>6 DEF WellFormed, NotAhead, ResultToken, States
  <1>9. Held(t) = {k \in Keys \cap ks : s.results[k].tok # NoToken}
    BY <1>6, <1>7 DEF Held
  <1> QED
    BY <1>4, <1>8, <1>9 DEF t

LEMMA DropResultsFields ==
  ASSUME NEW s, WellFormed(s), NEW ks
  PROVE  LET t == DropResults(s, ks)
         IN  /\ WellFormed(t) /\ t.cat = s.cat /\ t.rev = s.rev /\ t.opt = s.opt
             /\ t.gen = s.gen + 1
             /\ t.facts = s.facts
             /\ Held(t) = Held(s) \ ks
  <1> DEFINE results == [k \in Keys |-> IF k \in ks THEN NoEntry ELSE s.results[k]]
             t       == DropResults(s, ks)
  <1>0. s \in States
    BY DEF WellFormed
  <1>1. NoEntry \in Entries(ResultTokens)
    BY DEF Entries, NoEntry
  <1>2. results \in Results /\ s.gen + 1 \in Nat
    BY <1>0, <1>1 DEF Results, States
  <1>3. t = [s EXCEPT !.results = results, !.gen = s.gen + 1]
    BY DEF DropResults
  <1>4. /\ t.cat = s.cat /\ t.rev = s.rev /\ t.opt = s.opt /\ t.gen = s.gen + 1
        /\ t.facts = s.facts /\ t.results = results
    BY <1>0, <1>3 DEF States
  <1>5. t \in States
    BY <1>0, <1>2, <1>3 DEF States
  <1>6. \A k \in Keys : t.results[k].tok = IF k \in ks THEN NoToken ELSE s.results[k].tok
    BY <1>4 DEF NoEntry
  <1> HIDE DEF t, results
  <1>7. ResultToken(t) = ResultToken(s) /\ ResultToken(s) # NoToken
    BY <1>0, <1>4, TokenType DEF ResultToken
  <1>8. WellFormed(t)
    BY <1>4, <1>5, <1>6 DEF WellFormed, NotAhead
  <1>9. Held(t) = Held(s) \ ks
    BY <1>6, <1>7 DEF Held
  <1> QED
    BY <1>4, <1>8, <1>9 DEF t

LEMMA InvalidateFactsFollows ==
  ASSUME NEW s, WellFormed(s), NEW ks
  PROVE  /\ Follows(s, InvalidateFacts(s, ks))
         /\ Epoch(InvalidateFacts(s, ks)) = Epoch(s)
         /\ Held(InvalidateFacts(s, ks)) = Held(s)
  BY RetainProducersFollows DEF InvalidateFacts

LEMMA InvalidateResultsFollows ==
  ASSUME NEW s, WellFormed(s), NEW ks
  PROVE  /\ Follows(s, InvalidateResults(s, ks))
         /\ InvalidateResults(s, ks).gen = s.gen + 1
         /\ Held(InvalidateResults(s, ks)) = Held(s) \ ks
  <1> DEFINE d == DropResults(s, ks)
             t == InvalidateResults(s, ks)
  <1>1. /\ WellFormed(d) /\ d.cat = s.cat /\ d.rev = s.rev
        /\ d.gen = s.gen + 1 /\ Held(d) = Held(s) \ ks
    BY DropResultsFields
  <1>2. Follows(d, t) /\ Epoch(t) = Epoch(d) /\ Held(t) = Held(d)
    BY <1>1, InvalidateFactsFollows DEF InvalidateResults
  <1> HIDE DEF d, t
  <1>3. Follows(s, d)
    BY <1>1, LaterGeneration DEF WellFormed, NotAhead, States
  <1>4. Follows(s, t)
    BY <1>2, <1>3, FollowsTrans
  <1> QED
    BY <1>1, <1>2, <1>4 DEF t, Epoch

LEMMA ConfigureFollows ==
  ASSUME NEW s, WellFormed(s), NEW o \in Options
  PROVE  Follows(s, Configure(s, o))
  <1> DEFINE c == [s EXCEPT !.opt = o]
             r == RetainResults(c, {})
             t == RetainProducers(r, {})
  <1>1. /\ c \in States /\ c.cat = s.cat /\ c.rev = s.rev /\ c.gen = s.gen /\ s \in States
    BY DEF WellFormed, States
  <1> HIDE DEF c
  <1>2. WellFormed(r) /\ r.cat = c.cat /\ r.rev = c.rev /\ r.gen = c.gen + 1
    BY <1>1, RetainResultsFields
  <1>3. Configure(s, o) = t
    BY DEF Configure, c
  <1> HIDE DEF r
  <1>4. Follows(r, t)
    BY <1>2, RetainProducersFollows
  <1>5. Follows(s, r)
    BY <1>1, <1>2, LaterGeneration DEF NotAhead, States
  <1> HIDE DEF t
  <1>6. Follows(s, t)
    BY <1>4, <1>5, FollowsTrans
  <1> QED
    BY <1>3, <1>6

\* A mutation starts a new generation and keeps exactly the preserved slots
\* that were held.
LEMMA MarkChangedFollows ==
  ASSUME NEW s, WellFormed(s), NEW ps
  PROVE  /\ Follows(s, MarkChanged(s, ps))
         /\ MarkChanged(s, ps).gen = s.gen + 1
         /\ Held(MarkChanged(s, ps)) = {Key[p] : p \in ps} \cap Held(s)
         /\ MarkChanged(s, ps).facts \subseteq s.facts \cap {Key[p] : p \in ps}
  <1> DEFINE keys == {Key[p] : p \in ps}
             r == RetainProducers(s, keys)
             a == CommitRevision(r, r.facts)
             t == RetainResults(a, keys \cap Held(s))
  <1>1. /\ r \in States /\ r.results = s.results /\ r.cat = s.cat /\ r.rev = s.rev
        /\ r.opt = s.opt /\ r.gen = s.gen /\ r.facts = s.facts \cap keys
        /\ s \in States
    BY RetainProducersFields DEF WellFormed
  <1>2. WellFormed(r)
    BY RetainProducersFollows DEF Follows
  <1>3. MarkChanged(s, ps) = t
    BY DEF MarkChanged
  <1> HIDE DEF r, keys
  <1>4. Follows(r, a)
    BY <1>2, CommitFollows
  <1>5. /\ a.results = s.results /\ a.cat = s.cat /\ a.rev = s.rev + 1
        /\ a.gen = s.gen /\ a.facts = s.facts \cap keys
    BY <1>1 DEF CommitRevision, States
  <1>6. a \in States
    BY <1>4 DEF Follows, WellFormed
  <1> HIDE DEF a
  <1>7. /\ WellFormed(t) /\ t.cat = a.cat /\ t.rev = a.rev /\ t.gen = a.gen + 1
        /\ t.facts = a.facts
        /\ Held(t) = {k \in Keys \cap (keys \cap Held(s)) : a.results[k].tok # NoToken}
    BY <1>6, RetainResultsFields
  <1> HIDE DEF t
  <1>8. NotAhead(s.cat, s.rev, t) /\ s.gen < t.gen /\ t.gen = s.gen + 1
    BY <1>1, <1>5, <1>7 DEF NotAhead, States
  <1>9. Follows(s, t)
    BY <1>1, <1>7, <1>8, LaterGeneration
  <1>10. ResultToken(s) # NoToken
    BY <1>1, TokenType
  <1>11. Held(t) = keys \cap Held(s)
    BY <1>5, <1>7, <1>10 DEF Held
  <1>12. t.facts \subseteq s.facts \cap keys
    BY <1>5, <1>7
  <1> QED
    BY <1>3, <1>8, <1>9, <1>11, <1>12 DEF keys

LEMMA RecordResultFollows ==
  ASSUME NEW s, WellFormed(s), NEW p \in Analyses, NEW b \in BOOLEAN
  PROVE  /\ Follows(s, RecordResult(s, p, b))
         /\ Epoch(RecordResult(s, p, b)) = Epoch(s)
         /\ Held(RecordResult(s, p, b)) = Held(s) \cup {Key[p]}
  <1> DEFINE entry(k) == IF k = Key[p]
                         THEN [tok |-> ResultToken(s), sound |-> b]
                         ELSE [tok |-> s.results[k].tok,
                               sound |-> s.results[k].sound /\ Key[p] \notin AncestorKeys[k]]
             results  == [k \in Keys |-> entry(k)]
             t        == RecordResult(s, p, b)
  <1>0. s \in States /\ Key[p] \in Keys
    BY DEF WellFormed, Keys, Analyses
  <1>1. ASSUME NEW k \in Keys PROVE entry(k) \in Entries(ResultTokens)
    <2>1. s.results[k] \in Entries(ResultTokens)
      BY <1>0 DEF States, Results
    <2> DEFINE clean == Key[p] \notin AncestorKeys[k]
    <2>2. clean \in BOOLEAN
      OBVIOUS
    <2> HIDE DEF clean
    <2>3. s.results[k].tok \in ResultTokens \cup {NoToken} /\ s.results[k].sound \in BOOLEAN
      BY <2>1 DEF Entries
    <2>4. (s.results[k].sound /\ clean) \in BOOLEAN
      OBVIOUS
    <2>5. [tok |-> s.results[k].tok, sound |-> s.results[k].sound /\ clean] \in Entries(ResultTokens)
      BY <2>3, <2>4 DEF Entries
    <2>6. [tok |-> ResultToken(s), sound |-> b] \in Entries(ResultTokens)
      BY <1>0, TokenType DEF Entries
    <2> QED
      BY <2>5, <2>6 DEF clean
  <1>2. results \in Results
    BY <1>1 DEF Results
  <1>3. t = [s EXCEPT !.results = results]
    BY DEF RecordResult
  <1>4. \A k \in Keys : results[k].tok = IF k = Key[p] THEN ResultToken(s) ELSE s.results[k].tok
    OBVIOUS
  <1> HIDE DEF results, t
  <1>5. /\ t.cat = s.cat /\ t.rev = s.rev /\ t.opt = s.opt /\ t.gen = s.gen
        /\ t.results = results
    BY <1>0, <1>3 DEF States
  <1>6. t \in States
    BY <1>0, <1>2, <1>3 DEF States
  <1>7. ResultToken(t) = ResultToken(s)
    BY <1>5 DEF ResultToken
  <1>8. WellFormed(t)
    BY <1>0, <1>4, <1>5, <1>6 DEF WellFormed, NotAhead, ResultToken, States
  <1>9. Held(t) = Held(s) \cup {Key[p]}
    BY <1>0, <1>4, <1>5, <1>7 DEF Held
  <1>10. Epoch(t) = Epoch(s)
    BY <1>5 DEF Epoch
  <1>11. NotAhead(s.cat, s.rev, t) /\ s.gen <= t.gen /\ (s.gen = t.gen => s.opt = t.opt)
    BY <1>0, <1>5 DEF NotAhead, States
  <1>12. Follows(s, t)
    BY <1>8, <1>9, <1>11 DEF Follows
  <1> QED
    BY <1>9, <1>10, <1>12 DEF t

LEMMA DisturbedFollows ==
  ASSUME NEW s, WellFormed(s), NEW kinds, NEW t \in Disturbed(s, kinds)
  PROVE  Follows(s, t) /\ (kinds = {} => t = s)
  <1>1. CASE t = s
    BY <1>1, FollowsRefl
  <1>2. CASE "ir" \in kinds /\ t = CommitRevision(s, {})
    BY <1>2, CommitFollows
  <1>3. CASE "catalog" \in kinds /\ t = ReplaceCatalog(s)
    BY <1>3, ReplaceCatalogFollows
  <1>4. CASE "solver" \in kinds /\ \E k \in Keys : t = InvalidateResults(s, {k})
    BY <1>4, InvalidateResultsFollows
  <1>5. CASE "facts" \in kinds /\ \E k \in Keys : t = InvalidateFacts(s, {k})
    BY <1>5, InvalidateFactsFollows
  <1> QED
    BY <1>1, <1>2, <1>3, <1>4, <1>5 DEF Disturbed

\* A body leaves a later program, whose epoch is the same if it did nothing
\* besides its work; an analysis leaves its slot held.
LEMMA AfterBodyFollows ==
  ASSUME WellFormed(prog), NEW p \in Passes, NEW t \in AfterBody(p)
  PROVE  /\ Follows(prog, t)
         /\ Effects[p] = {} => Epoch(t) = Epoch(prog)
         /\ p \in Analyses => Key[p] \in Held(t)
  <1> DEFINE publish(s) == IF p \in Publishers THEN Publish(s, Key[p]) ELSE s
  <1>1. PICK s \in Disturbed(prog, Effects[p]) :
           t = IF p \in Analyses
               THEN RecordResult(publish(s), p, InputsSound(prog, p)) ELSE s
    BY DEF AfterBody
  <1>2. /\ Follows(prog, s) /\ WellFormed(s)
        /\ Effects[p] = {} => Epoch(s) = Epoch(prog)
    BY DisturbedFollows DEF Follows
  <1>3. Key[p] \in Keys
    BY DEF Keys
  <1>4. Follows(s, publish(s)) /\ Epoch(publish(s)) = Epoch(s)
    BY <1>2, <1>3, PublishFollows, FollowsRefl
  <1> HIDE DEF publish
  <1>5. Follows(prog, publish(s)) /\ WellFormed(publish(s))
    BY <1>2, <1>4, FollowsTrans DEF Follows
  <1>6. CASE p \notin Analyses
    BY <1>1, <1>2, <1>6
  <1>7. CASE p \in Analyses
    <2>1. InputsSound(prog, p) \in BOOLEAN
      BY DEF InputsSound
    <2>2. /\ Follows(publish(s), t) /\ Epoch(t) = Epoch(publish(s))
          /\ Held(t) = Held(publish(s)) \cup {Key[p]}
      BY <1>1, <1>5, <1>7, <2>1, RecordResultFollows
    <2>3. Follows(prog, t)
      BY <1>5, <2>2, FollowsTrans
    <2> QED
      BY <1>2, <1>4, <2>2, <2>3
  <1> QED
    BY <1>6, <1>7

\* Retirement takes all stages of a slot or none.
LEMMA RetiredSlots ==
  ASSUME NEW p \in Passes, NEW n \in Analyses, n \notin Retired(p)
  PROVE  Key[n] \notin {Key[q] : q \in Retired(p) \cap Analyses}
  <1>1. SUFFICES ASSUME NEW q \in Retired(p) \cap Analyses, Key[n] = Key[q] PROVE FALSE
    OBVIOUS
  <1>2. InputKeys(n) = InputKeys(q)
    BY <1>1, SharedKeyAssumption
  <1> QED
    BY <1>1, <1>2 DEF Retired, Analyses

LEMMA RetireDependentsFollows ==
  ASSUME NEW s, WellFormed(s), NEW p \in Passes
  PROVE  /\ Follows(s, RetireDependents(s, p))
         /\ \A n \in Analyses \ Retired(p) :
               Key[n] \in Held(s) => Key[n] \in Held(RetireDependents(s, p))
  <1> DEFINE slots == {Key[n] : n \in Retired(p) \cap Analyses}
  <1>1. RetireDependents(s, p) \in {s, InvalidateResults(s, slots)}
    BY DEF RetireDependents
  <1>2. /\ Follows(s, InvalidateResults(s, slots)) /\ Follows(s, s)
        /\ Held(InvalidateResults(s, slots)) = Held(s) \ slots
    BY InvalidateResultsFollows, FollowsRefl
  <1>3. \A n \in Analyses \ Retired(p) : Key[n] \notin slots
    BY RetiredSlots
  <1> QED
    BY <1>1, <1>2, <1>3

--------------------------------------------------------------------------------
(* Stamps *)

MarkerMaps == [Passes -> MarkerTokens \cup {NoToken}]
CacheMaps  == [Passes -> Entries(CacheTokens)]

LEMMA MarkersFollow ==
  ASSUME NEW s, NEW t, WellFormed(s), Follows(s, t), NEW f \in MarkerMaps, MarkersGood(f, s)
  PROVE  MarkersGood(f, t)
  <1> SUFFICES ASSUME NEW n \in Passes, f[n] # NoToken
               PROVE  Backed(MarkerEpoch(f[n]), n, t)
    BY DEF MarkersGood
  <1>1. f[n] \in MarkerTokens
    BY DEF MarkerMaps
  <1>2. MarkerEpoch(f[n]) \in Epochs
    BY <1>1 DEF MarkerTokens, MarkerEpoch, Epochs
  <1> QED
    BY <1>2, BackedFollows DEF MarkersGood

LEMMA CacheFollows ==
  ASSUME NEW s, NEW t, WellFormed(s), Follows(s, t), NEW c \in CacheMaps, CacheGood(c, s)
  PROVE  CacheGood(c, t)
  <1> SUFFICES ASSUME NEW n \in Passes, c[n].tok # NoToken
               PROVE  Backed(CacheEpoch(c[n].tok), n, t)
    BY DEF CacheGood
  <1>1. c[n].tok \in CacheTokens
    BY DEF CacheMaps, Entries
  <1>2. CacheEpoch(c[n].tok) \in Epochs
    BY <1>1 DEF CacheTokens, CacheEpoch, Epochs
  <1> QED
    BY <1>2, BackedFollows DEF CacheGood

\* What a stamp of the program's present state promises.
LEMMA PresentStamp ==
  ASSUME NEW s, WellFormed(s), NEW n
  PROVE  /\ MarkerEpoch(MarkerToken(s)) = Epoch(s) /\ CacheEpoch(CacheToken(s)) = Epoch(s)
         /\ Backed(Epoch(s), n, s) <=>
               (CommitsThroughManager /\ n \in Analyses => Key[n] \in Held(s))
  <1>1. MarkerEpoch(MarkerToken(s)) = Epoch(s) /\ CacheEpoch(CacheToken(s)) = Epoch(s)
    BY DEF MarkerEpoch, MarkerToken, CacheEpoch, CacheToken, Epoch
  <1>2. NotAhead(Epoch(s)[1], Epoch(s)[2], s) /\ Epoch(s)[4] <= s.gen
    BY DEF Epoch, NotAhead, WellFormed, States
  <1> QED
    BY <1>1, <1>2 DEF Backed

--------------------------------------------------------------------------------
(* The calls in progress *)

Frames == [pass : Passes, refreshes : [Passes -> Nat]]

ControlOK ==
    /\ stack \in Seq(Frames)
    /\ queue \in Seq(Passes)
    /\ completed \subseteq Passes
    /\ runs \in Nat /\ externals \in Nat
    /\ outcome \in {"none", "running", "completed", "failed", "unstable"}

LEMMA FrameType == ASSUME NEW p \in Passes PROVE Frame(p) \in Frames
  BY DEF Frame, Frames

\* The prerequisite chosen next is a pass.
LEMMA FirstType ==
  ASSUME NEW p \in Passes, NEW positions \in SUBSET DOMAIN Prerequisites[p], positions # {}
  PROVE  \E i \in positions : First(p, positions) = Prerequisites[p][i] /\ First(p, positions) \in Passes
  <1>1. Prerequisites[p] \in Seq(Passes)
    BY PassGraphAssumption
  <1>2. positions \subseteq Nat
    BY <1>1
  <1>3. PICK i \in positions : \A j \in positions : ~(<<j, i>> \in OpToRel(<, Nat))
    BY <1>2, WFMin, NatLessThanWellFounded, Zenon
  <1>4. ASSUME NEW j \in positions PROVE i <= j
    <2>1. ~(j < i)
      BY <1>2, <1>3, Zenon DEF OpToRel
    <2> QED
      BY <1>2, <2>1
  <1> DEFINE least == CHOOSE k \in positions : \A j \in positions : k <= j
  <1>5. least \in positions
    BY <1>4
  <1>6. First(p, positions) = Prerequisites[p][least]
    BY DEF First
  <1> HIDE DEF least
  <1> QED
    BY <1>1, <1>5, <1>6

LEMMA CurrentType ==
  ASSUME ControlOK, Active
  PROVE  Len(stack) \in 1 .. Len(stack) /\ Top \in Frames /\ Current \in Passes
  <1>1. stack \in Seq(Frames) /\ stack # <<>>
    BY DEF ControlOK, Active
  <1>2. Len(stack) \in 1 .. Len(stack)
    BY <1>1, HeadTailProperties
  <1>3. Top \in Frames
    BY <1>1, <1>2 DEF Top
  <1> QED
    BY <1>2, <1>3 DEF Current, Frames

LEMMA ReturnType == ASSUME ControlOK, Active PROVE Return \in Seq(Frames)
  BY CurrentType, SubSeqProperties DEF ControlOK, Return

LEMMA ControlStep == ControlOK /\ [Next]_vars => ControlOK'
  <1> SUFFICES ASSUME ControlOK, [Next]_vars PROVE ControlOK'
    OBVIOUS
  <1>1. ASSUME Complete, Active PROVE ControlOK'
    BY <1>1, CurrentType, ReturnType DEF ControlOK, Complete
  <1>2. ASSUME NEW s, NEW how \in {"failed", "unstable"}, Abort(s, how) PROVE ControlOK'
    BY <1>2 DEF ControlOK, Abort
  <1>3. CASE External
    BY <1>3 DEF ControlOK, External
  <1>4. CASE StartRun
    BY <1>4, PassManagerAssumption DEF ControlOK, StartRun
  <1>5. CASE NextStage
    <2>1. Head(queue) \in Passes /\ Tail(queue) \in Seq(Passes)
      BY <1>5, HeadTailProperties DEF ControlOK, NextStage
    <2> QED
      BY <1>5, <2>1, FrameType DEF ControlOK, NextStage
  <1>6. CASE FinishRun
    BY <1>6 DEF ControlOK, FinishRun
  <1>7. CASE RunOrderingPrerequisite
    <2>1. First(Current, Pending(Current)) \in Passes
      BY <1>7, CurrentType, FirstType DEF RunOrderingPrerequisite, Pending
    <2>2. Frame(First(Current, Pending(Current))) \in Frames
      BY <2>1, FrameType
    <2> QED
      BY <1>7, <2>2 DEF ControlOK, RunOrderingPrerequisite
  <1>8. CASE Refresh
    <2> DEFINE p == First(Current, Missing(Current))
               n == Top.refreshes[p] + 1
               updated == [stack EXCEPT ![Len(stack)].refreshes[p] = n]
    <2>1. p \in Passes
      BY <1>8, CurrentType, FirstType DEF Refresh, NeedsRefresh, Missing
    <2>2. Active /\ stack' = Append(updated, Frame(p))
          /\ UNCHANGED <<queue, completed, runs, outcome, externals>>
      BY <1>8 DEF Refresh, NeedsRefresh
    <2> HIDE DEF p
    <2>3. Top \in Frames /\ n \in Nat
      BY <2>1, <2>2, CurrentType DEF Frames
    <2>4. [Top EXCEPT !.refreshes[p] = n] \in Frames
      BY <2>1, <2>3 DEF Frames
    <2>5. updated = [stack EXCEPT ![Len(stack)] = [Top EXCEPT !.refreshes[p] = n]]
      BY DEF Top
    <2>6. updated \in Seq(Frames)
      BY <2>2, <2>4, <2>5, CurrentType, ExceptSeq DEF ControlOK
    <2>7. Frame(p) \in Frames
      BY <2>1, FrameType
    <2> HIDE DEF updated
    <2> QED
      BY <2>2, <2>6, <2>7 DEF ControlOK
  <1>9. CASE Unstable
    BY <1>2, <1>9 DEF Unstable
  <1>10. CASE CacheHit
    BY <1>1, <1>10 DEF CacheHit, Ready
  <1>11. CASE BodyFails
    BY <1>2, <1>11 DEF BodyFails
  <1>12. CASE BodyChanges
    BY <1>1, <1>12 DEF BodyChanges, RunsBody, Ready
  <1>13. CASE AnalysisUnchanged
    BY <1>1, <1>13 DEF AnalysisUnchanged, RunsBody, Ready
  <1>14. CASE OtherUnchanged
    BY <1>1, <1>14 DEF OtherUnchanged, RunsBody, Ready
  <1>15. CASE UNCHANGED vars
    BY <1>15 DEF ControlOK, vars
  <1> QED
    BY <1>3, <1>4, <1>5, <1>6, <1>7, <1>8, <1>9, <1>10, <1>11, <1>12, <1>13, <1>14, <1>15
       DEF Next, RunStep

--------------------------------------------------------------------------------
(* The inductive invariant *)

StampsGood ==
    /\ WellFormed(prog)
    /\ avail \in MarkerMaps /\ MarkersGood(avail, prog)
    /\ local \in MarkerMaps /\ MarkersGood(local, prog)
    /\ cache \in CacheMaps /\ CacheGood(cache, prog)

IInv == manager \in Managers /\ ControlOK /\ StampsGood

\* Emptied maps are good for any program.
LEMMA EmptyMaps ==
  ASSUME NEW s
  PROVE  /\ NoMarkers \in MarkerMaps /\ MarkersGood(NoMarkers, s)
         /\ EmptyCache \in CacheMaps /\ CacheGood(EmptyCache, s)
  BY DEF NoMarkers, MarkerMaps, MarkersGood, EmptyCache, CacheMaps, CacheGood, Entries, NoEntry

\* Entering a stamp of the present state for a pass whose slot is held.
LEMMA MarkGood ==
  ASSUME NEW s, WellFormed(s), NEW f \in MarkerMaps, MarkersGood(f, s), NEW n \in Passes,
         CommitsThroughManager /\ n \in Analyses => Key[n] \in Held(s)
  PROVE  /\ Mark(f, n, MarkerToken(s)) \in MarkerMaps
         /\ MarkersGood(Mark(f, n, MarkerToken(s)), s)
         /\ [f EXCEPT ![n] = MarkerToken(s)] \in MarkerMaps
         /\ MarkersGood([f EXCEPT ![n] = MarkerToken(s)], s)
  <1> DEFINE g == [f EXCEPT ![n] = MarkerToken(s)]
  <1>1. MarkerToken(s) \in MarkerTokens
    BY TokenType DEF WellFormed
  <1>2. g \in MarkerMaps
    BY <1>1 DEF MarkerMaps
  <1>3. \A m \in Passes : g[m] = IF m = n THEN MarkerToken(s) ELSE f[m]
    BY DEF MarkerMaps
  <1> HIDE DEF g
  <1>4. MarkersGood(g, s)
    BY <1>3, PresentStamp DEF MarkersGood
  <1>5. Mark(f, n, MarkerToken(s)) \in {f, g}
    BY DEF Mark, g
  <1> QED
    BY <1>2, <1>4, <1>5 DEF g

LEMMA CacheMarkGood ==
  ASSUME NEW s, WellFormed(s), NEW c \in CacheMaps, CacheGood(c, s), NEW n \in Passes,
         CommitsThroughManager /\ n \in Analyses => Key[n] \in Held(s), NEW b \in BOOLEAN
  PROVE  LET e == [tok |-> CacheToken(s), sound |-> b]
         IN  Mark(c, n, e) \in CacheMaps /\ CacheGood(Mark(c, n, e), s)
  <1> DEFINE e == [tok |-> CacheToken(s), sound |-> b]
             d == [c EXCEPT ![n] = e]
  <1>1. e \in Entries(CacheTokens) /\ e.tok = CacheToken(s)
    BY TokenType DEF WellFormed, Entries
  <1> HIDE DEF e
  <1>2. d \in CacheMaps
    BY <1>1 DEF CacheMaps
  <1>3. \A m \in Passes : d[m] = IF m = n THEN e ELSE c[m]
    BY DEF CacheMaps
  <1> HIDE DEF d
  <1>4. CacheGood(d, s)
    BY <1>1, <1>3, PresentStamp DEF CacheGood
  <1>5. Mark(c, n, e) \in {c, d}
    BY DEF Mark, d
  <1> QED
    BY <1>2, <1>4, <1>5 DEF e

\* A map each of whose stamps is absent, one of f's, or a stamp of the present
\* state for a pass whose slot is held.
LEMMA RetaggedMarkers ==
  ASSUME NEW s, NEW t, WellFormed(s), Follows(s, t),
         NEW f \in MarkerMaps, MarkersGood(f, s), NEW g, g = [n \in Passes |-> g[n]],
         \A n \in Passes :
            \/ g[n] = NoToken
            \/ g[n] = f[n]
            \/ g[n] = MarkerToken(t) /\ (CommitsThroughManager /\ n \in Analyses => Key[n] \in Held(t))
  PROVE  g \in MarkerMaps /\ MarkersGood(g, t)
  <1>1. WellFormed(t) /\ MarkersGood(f, t)
    BY MarkersFollow DEF Follows
  <1>2. MarkerToken(t) \in MarkerTokens
    BY <1>1, TokenType DEF WellFormed
  <1>3. \A n \in Passes : g[n] \in MarkerTokens \cup {NoToken}
    BY <1>2 DEF MarkerMaps
  <1>4. g \in MarkerMaps
    BY <1>3 DEF MarkerMaps
  <1>5. MarkersGood(g, t)
    BY <1>1, PresentStamp DEF MarkersGood
  <1> QED
    BY <1>4, <1>5

LEMMA RetaggedCache ==
  ASSUME NEW s, NEW t, WellFormed(s), Follows(s, t),
         NEW c \in CacheMaps, CacheGood(c, s), NEW d, d = [n \in Passes |-> d[n]],
         \A n \in Passes :
            /\ d[n] \in Entries(CacheTokens)
            /\ \/ d[n].tok = NoToken
               \/ d[n].tok = c[n].tok
               \/ /\ d[n].tok = CacheToken(t)
                  /\ CommitsThroughManager /\ n \in Analyses => Key[n] \in Held(t)
  PROVE  d \in CacheMaps /\ CacheGood(d, t)
  <1>1. WellFormed(t) /\ CacheGood(c, t)
    BY CacheFollows DEF Follows
  <1>2. d \in CacheMaps
    BY DEF CacheMaps
  <1>3. CacheGood(d, t)
    BY <1>1, PresentStamp DEF CacheGood
  <1> QED
    BY <1>2, <1>3

\* A stamp that counts as valid is backed by a held slot.
LEMMA ValidStamp ==
  ASSUME StampsGood, CommitsThroughManager, NEW n \in Analyses,
         MarkerToken(prog) \in {local[n], avail[n]} \/ cache[n].tok = CacheToken(prog)
  PROVE  Key[n] \in Held(prog)
  <1>1. n \in Passes /\ WellFormed(prog)
    BY DEF Analyses, StampsGood
  <1>2. MarkerToken(prog) # NoToken /\ CacheToken(prog) # NoToken
    BY <1>1, TokenType DEF WellFormed
  <1>3. Backed(Epoch(prog), n, prog)
    BY <1>1, <1>2, PresentStamp DEF StampsGood, MarkersGood, CacheGood
  <1> QED
    BY <1>1, <1>3, PresentStamp

LEMMA TokenBacked ==
  ASSUME NEW s, WellFormed(s), NEW f \in MarkerMaps, MarkersGood(f, s),
         CommitsThroughManager, NEW n \in Analyses, f[n] = MarkerToken(s)
  PROVE  Key[n] \in Held(s)
  <1>1. n \in Passes /\ f[n] # NoToken
    BY TokenType DEF Analyses, WellFormed
  <1>2. Backed(Epoch(s), n, s)
    BY <1>1, PresentStamp DEF MarkersGood
  <1> QED
    BY <1>2, PresentStamp

LEMMA CacheTokenBacked ==
  ASSUME NEW s, WellFormed(s), NEW c \in CacheMaps, CacheGood(c, s),
         CommitsThroughManager, NEW n \in Analyses, c[n].tok = CacheToken(s)
  PROVE  Key[n] \in Held(s)
  <1>1. n \in Passes /\ c[n].tok # NoToken
    BY TokenType DEF Analyses, WellFormed
  <1>2. Backed(Epoch(s), n, s)
    BY <1>1, PresentStamp DEF CacheGood
  <1> QED
    BY <1>2, PresentStamp

LEMMA OutdatedByType ==
  ASSUME cache \in CacheMaps, NEW p, NEW n \in Passes
  PROVE  OutdatedBy(p)[n] \in Entries(CacheTokens) /\ OutdatedBy(p)[n].tok = cache[n].tok
  <1> DEFINE fresh == ~(p \in Analyses /\ Key[p] \in Sources(n))
  <1>1. cache[n].tok \in CacheTokens \cup {NoToken}
    BY DEF CacheMaps, Entries
  <1>2. OutdatedBy(p)[n] = [tok |-> cache[n].tok, sound |-> cache[n].sound /\ fresh]
    BY DEF OutdatedBy
  <1> HIDE DEF fresh
  <1>3. (cache[n].sound /\ fresh) \in BOOLEAN
    OBVIOUS
  <1> QED
    BY <1>1, <1>2, <1>3 DEF Entries

LEMMA AbortStep ==
  ASSUME IInv, NEW s, Follows(prog, s), NEW how, Abort(s, how)
  PROVE  StampsGood'
  <1>1. WellFormed(s)
    BY DEF Follows
  <1>2. WellFormed(MarkChanged(s, {}))
    BY <1>1, MarkChangedFollows DEF Follows
  <1>3. /\ prog' = MarkChanged(s, {}) /\ avail' = NoMarkers /\ local' = NoMarkers
        /\ cache' = EmptyCache
    BY DEF Abort
  <1>4. /\ avail' \in MarkerMaps /\ MarkersGood(avail', prog')
        /\ local' \in MarkerMaps /\ MarkersGood(local', prog')
        /\ cache' \in CacheMaps /\ CacheGood(cache', prog')
    BY <1>3, EmptyMaps
  <1>5. WellFormed(prog')
    BY <1>2, <1>3
  <1> QED
    BY <1>4, <1>5 DEF StampsGood

LEMMA ExternalStep == ASSUME IInv, External PROVE StampsGood'
  <1>1. WellFormed(prog)
    BY DEF IInv, StampsGood
  <1>2. Follows(prog, prog')
    <2>1. CASE prog' \in Disturbed(prog, Disturbances)
      BY <1>1, <2>1, DisturbedFollows
    <2>2. CASE prog' = MarkChanged(prog, {})
      BY <1>1, <2>2, MarkChangedFollows
    <2>3. CASE \E o \in Options : prog' = Configure(prog, o)
      BY <1>1, <2>3, ConfigureFollows
    <2> QED
      BY <2>1, <2>2, <2>3 DEF External
  <1>3. local' = local /\ avail' \in {avail, NoMarkers} /\ cache' \in {cache, EmptyCache}
    BY DEF External
  <1> QED
    BY <1>1, <1>2, <1>3, MarkersFollow, CacheFollows, EmptyMaps DEF IInv, StampsGood, Follows

LEMMA RefreshStep == ASSUME IInv, Refresh PROVE StampsGood'
  <1>1. /\ UNCHANGED <<prog, local, cache>> /\ WellFormed(prog)
        /\ avail' = [n \in Passes |->
                       IF \E i \in Missing(Current) : Prerequisites[Current][i] = n
                       THEN NoToken ELSE avail[n]]
    BY DEF Refresh, IInv, StampsGood
  <1>2. \A n \in Passes : avail'[n] = NoToken \/ avail'[n] = avail[n]
    BY <1>1
  <1>3. avail' \in MarkerMaps /\ MarkersGood(avail', prog)
    BY <1>1, <1>2 DEF IInv, StampsGood, MarkerMaps, MarkersGood
  <1> QED
    BY <1>1, <1>3 DEF IInv, StampsGood

LEMMA CacheHitStep == ASSUME IInv, CacheHit PROVE StampsGood'
  <1>1. Current \in Passes
    BY CurrentType DEF IInv, CacheHit, Ready
  <1>2. CommitsThroughManager /\ Current \in Analyses => Key[Current] \in Held(prog)
    BY CacheTokenBacked DEF CacheHit, CacheHolds, IInv, StampsGood
  <1>3. UNCHANGED <<prog, cache>>
    BY DEF CacheHit
  <1>4. /\ avail' \in {avail, Mark(avail, Current, MarkerToken(prog))}
        /\ local' \in {local, [local EXCEPT ![Current] = MarkerToken(prog)]}
    BY DEF CacheHit
  <1> DEFINE Good(f) == f \in MarkerMaps /\ MarkersGood(f, prog)
  <1>5. /\ Good(avail) /\ Good(local) /\ WellFormed(prog)
        /\ cache \in CacheMaps /\ CacheGood(cache, prog)
    BY DEF IInv, StampsGood
  <1>6. Good(Mark(avail, Current, MarkerToken(prog)))
    BY <1>1, <1>2, <1>5, MarkGood
  <1>7. Good([local EXCEPT ![Current] = MarkerToken(prog)])
    BY <1>1, <1>2, <1>5, MarkGood
  <1>8. Good(avail') /\ Good(local')
    <2> HIDE DEF Good
    <2> QED
      BY <1>4, <1>5, <1>6, <1>7
  <1> QED
    BY <1>3, <1>5, <1>8 DEF StampsGood

\* What the mutating pass preserves was held before its body and is held after
\* the commit, so retagged stamps stay backed.
LEMMA BodyChangesStep == ASSUME IInv, BodyChanges PROVE StampsGood'
  <1> DEFINE kept   == Preserved(Current)
             before == MarkerToken(prog)
             reusable == {n \in kept : Kind[n] \in {"analysis", "utility"}}
  <1>1. PICK s \in AfterBody(Current) :
           LET after == MarkChanged(s, kept)
           IN  /\ prog' = after
               /\ avail' = Rebase(avail, kept, before, MarkerToken(after))
               /\ local' = [n \in Passes |-> IF n \notin kept THEN NoToken
                                             ELSE IF local[n] = before THEN MarkerToken(after)
                                             ELSE local[n]]
               /\ cache' = RebaseCache(OutdatedBy(Current), reusable, CacheToken(prog),
                                       CacheToken(after))
    BY DEF BodyChanges
  <1> DEFINE after == MarkChanged(s, kept)
  <1>2. /\ Current \in Passes /\ "changed" \in Outcomes[Current] /\ WellFormed(prog)
        /\ avail \in MarkerMaps /\ local \in MarkerMaps /\ cache \in CacheMaps
        /\ MarkersGood(avail, prog) /\ MarkersGood(local, prog) /\ CacheGood(cache, prog)
    BY CurrentType DEF BodyChanges, RunsBody, Ready, IInv, StampsGood
  <1>3. Follows(prog, s) /\ (Effects[Current] = {} => Epoch(s) = Epoch(prog)) /\ WellFormed(s)
    BY <1>2, AfterBodyFollows DEF Follows
  <1>4. Follows(s, after) /\ Held(after) = {Key[p] : p \in kept} \cap Held(s)
    BY <1>3, MarkChangedFollows
  <1>5. Follows(prog, after) /\ WellFormed(after)
    BY <1>2, <1>3, <1>4, FollowsTrans DEF Follows
  <1>6. ASSUME NEW n \in Analyses, n \in kept, CommitsThroughManager,
               before \in {avail[n], local[n]} \/ cache[n].tok = CacheToken(prog)
        PROVE  Key[n] \in Held(after)
    <2>1. Key[n] \in Held(prog)
      BY <1>2, <1>6, TokenBacked, CacheTokenBacked
    <2>2. Held(prog) \subseteq Held(s)
      BY <1>2, <1>3, <1>6 DEF CommitsThroughManager, Follows
    <2> QED
      BY <1>4, <1>6, <2>1, <2>2
  <1>7. prog' = after /\ avail' = Rebase(avail, kept, before, MarkerToken(after))
    BY <1>1
  <1> HIDE DEF after, kept, before
  <1>8. avail' \in MarkerMaps /\ MarkersGood(avail', after)
    <2>1. avail' = [n \in Passes |-> avail'[n]]
      BY <1>7 DEF Rebase
    <2>2. \A n \in Passes :
             \/ avail'[n] = NoToken
             \/ avail'[n] = MarkerToken(after) /\ n \in kept /\ avail[n] = before
      BY <1>7 DEF Rebase
    <2> QED
      BY <1>2, <1>5, <1>6, <2>1, <2>2, RetaggedMarkers
  <1>9. local' \in MarkerMaps /\ MarkersGood(local', after)
    <2>1. local' = [n \in Passes |-> IF n \notin kept THEN NoToken
                                     ELSE IF local[n] = before THEN MarkerToken(after)
                                     ELSE local[n]]
      BY <1>1 DEF after, kept, before
    <2>2. local' = [n \in Passes |-> local'[n]]
      BY <2>1
    <2>3. \A n \in Passes :
             \/ local'[n] = NoToken \/ local'[n] = local[n]
             \/ local'[n] = MarkerToken(after) /\ n \in kept /\ local[n] = before
      BY <2>1
    <2> QED
      BY <1>2, <1>5, <1>6, <2>2, <2>3, RetaggedMarkers
  <1>10. cache' \in CacheMaps /\ CacheGood(cache', after)
    <2>1. cache' = RebaseCache(OutdatedBy(Current), reusable, CacheToken(prog), CacheToken(after))
      BY <1>1 DEF after, kept
    <2>2. cache' = [n \in Passes |-> cache'[n]]
      BY <2>1 DEF RebaseCache
    <2>3. CacheToken(after) \in CacheTokens
      BY <1>5, TokenType DEF WellFormed
    <2>4. ASSUME NEW n \in Passes
          PROVE  /\ cache'[n] \in Entries(CacheTokens)
                 /\ \/ cache'[n].tok = NoToken
                    \/ cache'[n].tok = CacheToken(after) /\ n \in kept
                       /\ cache[n].tok = CacheToken(prog)
      <3>1. /\ OutdatedBy(Current)[n] \in Entries(CacheTokens)
            /\ OutdatedBy(Current)[n].tok = cache[n].tok
        BY <1>2, OutdatedByType
      <3>2. cache'[n] = IF n \in reusable /\ OutdatedBy(Current)[n].tok = CacheToken(prog)
                        THEN [tok |-> CacheToken(after), sound |-> OutdatedBy(Current)[n].sound]
                        ELSE NoEntry
        BY <2>1 DEF RebaseCache
      <3>3. reusable \subseteq kept
        OBVIOUS
      <3> HIDE DEF reusable
      <3> QED
        BY <2>3, <3>1, <3>2, <3>3 DEF Entries, NoEntry
    <2> QED
      BY <1>2, <1>5, <1>6, <2>2, <2>4, RetaggedCache
  <1> QED
    BY <1>5, <1>7, <1>8, <1>9, <1>10 DEF StampsGood

LEMMA AnalysisUnchangedStep == ASSUME IInv, AnalysisUnchanged PROVE StampsGood'
  <1> DEFINE retired == Retired(Current)
             sound   == InputsSound(prog, Current)
  <1>1. PICK s \in AfterBody(Current) :
           LET after   == RetireDependents(s, Current)
               token   == MarkerToken(after)
               swept   == [n \in Passes |-> IF n \in retired THEN NoEntry ELSE OutdatedBy(Current)[n]]
               entry   == [tok |-> CacheToken(after), sound |-> sound]
           IN  /\ prog' = after
               /\ avail' = Mark(Rebase(avail, Passes \ (retired \cap Analyses), MarkerToken(s),
                                       token),
                                Current, token)
               /\ local' = [n \in Passes |-> IF n = Current THEN token
                                             ELSE IF n \in retired THEN NoToken
                                             ELSE IF local[n] = MarkerToken(s) THEN token
                                             ELSE local[n]]
               /\ cache' = IF Caching THEN Mark(swept, Current, entry) ELSE cache
    BY DEF AnalysisUnchanged
  <1> DEFINE after   == RetireDependents(s, Current)
             token   == MarkerToken(after)
             rebased == Rebase(avail, Passes \ (retired \cap Analyses), MarkerToken(s), token)
             swept   == [n \in Passes |-> IF n \in retired THEN NoEntry ELSE OutdatedBy(Current)[n]]
  <1>2. /\ Current \in Analyses /\ Current \in Passes /\ WellFormed(prog)
        /\ avail \in MarkerMaps /\ local \in MarkerMaps /\ cache \in CacheMaps
        /\ MarkersGood(avail, prog) /\ MarkersGood(local, prog) /\ CacheGood(cache, prog)
    BY DEF AnalysisUnchanged, IInv, StampsGood, Analyses
  <1>3. Follows(prog, s) /\ WellFormed(s) /\ Key[Current] \in Held(s)
    BY <1>2, AfterBodyFollows DEF Follows
  <1>4. /\ Follows(s, after)
        /\ \A n \in Analyses \ retired : Key[n] \in Held(s) => Key[n] \in Held(after)
    BY <1>2, <1>3, RetireDependentsFollows
  <1>5. Current \notin retired
    BY DEF Retired
  <1>6. Key[Current] \in Held(after) /\ WellFormed(after) /\ Follows(prog, after)
    BY <1>2, <1>3, <1>4, <1>5, FollowsTrans DEF Follows
  <1>7. MarkersGood(avail, s) /\ MarkersGood(local, s)
    BY <1>2, <1>3, MarkersFollow
  <1>8. /\ prog' = after
        /\ avail' = Mark(rebased, Current, token)
        /\ cache' = IF Caching THEN Mark(swept, Current, [tok |-> CacheToken(after), sound |-> sound])
                    ELSE cache
    BY <1>1
  <1>9. local' = [n \in Passes |-> IF n = Current THEN token
                                   ELSE IF n \in retired THEN NoToken
                                   ELSE IF local[n] = MarkerToken(s) THEN token
                                   ELSE local[n]]
    BY <1>1
  <1>10. rebased = [n \in Passes |->
                      IF n \notin retired \cap Analyses /\ avail[n] = MarkerToken(s)
                      THEN token ELSE NoToken]
    BY DEF Rebase
  <1> HIDE DEF after, retired, rebased, sound
  <1>11. rebased \in MarkerMaps /\ MarkersGood(rebased, after)
    <2>1. rebased = [n \in Passes |-> rebased[n]]
      BY <1>10
    <2>2. \A n \in Passes :
             \/ rebased[n] = NoToken
             \/ rebased[n] = token /\ (CommitsThroughManager /\ n \in Analyses => Key[n] \in Held(after))
      BY <1>2, <1>3, <1>4, <1>7, <1>10, TokenBacked
    <2> QED
      BY <1>2, <1>3, <1>4, <1>7, <2>1, <2>2, RetaggedMarkers
  <1>12. avail' \in MarkerMaps /\ MarkersGood(avail', after)
    BY <1>2, <1>6, <1>8, <1>11, MarkGood
  <1>13. local' \in MarkerMaps /\ MarkersGood(local', after)
    <2>1. local' = [n \in Passes |-> local'[n]]
      BY <1>9
    <2>2. \A n \in Passes :
             \/ local'[n] = NoToken \/ local'[n] = local[n]
             \/ local'[n] = token /\ (CommitsThroughManager /\ n \in Analyses => Key[n] \in Held(after))
      BY <1>2, <1>3, <1>4, <1>6, <1>7, <1>9, TokenBacked
    <2> QED
      BY <1>2, <1>3, <1>4, <1>7, <2>1, <2>2, RetaggedMarkers
  <1>14. swept \in CacheMaps /\ CacheGood(swept, after)
    <2>1. swept = [n \in Passes |-> swept[n]]
      OBVIOUS
    <2>2. \A n \in Passes :
             /\ swept[n] \in Entries(CacheTokens)
             /\ swept[n].tok = NoToken \/ swept[n].tok = cache[n].tok
      BY <1>2, OutdatedByType DEF Entries, NoEntry
    <2> HIDE DEF swept
    <2> QED
      BY <1>2, <1>6, <2>1, <2>2, RetaggedCache
  <1> HIDE DEF swept
  <1>15. sound \in BOOLEAN
    BY DEF sound, InputsSound
  <1>16. cache' \in CacheMaps /\ CacheGood(cache', after)
    BY <1>2, <1>6, <1>8, <1>14, <1>15, CacheMarkGood, CacheFollows
  <1> QED
    BY <1>6, <1>8, <1>12, <1>13, <1>16 DEF StampsGood

LEMMA OtherUnchangedStep == ASSUME IInv, OtherUnchanged PROVE StampsGood'
  <1> DEFINE sound == InputsSound(prog, Current)
  <1>1. PICK s \in AfterBody(Current) :
           /\ prog' = s
           /\ cache' = IF Caching
                       THEN Mark(cache, Current, [tok |-> CacheToken(s), sound |-> sound])
                       ELSE cache
    BY DEF OtherUnchanged
  <1>2. /\ Current \in Passes /\ Current \notin Analyses /\ WellFormed(prog)
        /\ UNCHANGED <<avail, local>>
    BY CurrentType DEF OtherUnchanged, RunsBody, Ready, IInv, StampsGood
  <1>3. Follows(prog, s) /\ WellFormed(s)
    BY <1>2, AfterBodyFollows DEF Follows
  <1>4. sound \in BOOLEAN
    BY DEF InputsSound
  <1> HIDE DEF sound
  <1>5. /\ avail \in MarkerMaps /\ MarkersGood(avail, s)
        /\ local \in MarkerMaps /\ MarkersGood(local, s)
        /\ cache \in CacheMaps /\ CacheGood(cache, s)
    BY <1>2, <1>3, MarkersFollow, CacheFollows DEF IInv, StampsGood
  <1>6. cache' \in CacheMaps /\ CacheGood(cache', s)
    BY <1>1, <1>2, <1>3, <1>4, <1>5, CacheMarkGood
  <1> QED
    BY <1>1, <1>2, <1>3, <1>5, <1>6 DEF StampsGood

LEMMA BodyFailsStep == ASSUME IInv, BodyFails PROVE StampsGood'
  <1>1. Current \in Passes /\ WellFormed(prog)
    BY CurrentType DEF BodyFails, RunsBody, Ready, IInv, StampsGood
  <1>2. PICK s \in AfterBody(Current) \cup Disturbed(prog, Effects[Current]) : Abort(s, "failed")
    BY DEF BodyFails
  <1>3. Follows(prog, s)
    BY <1>1, AfterBodyFollows, DisturbedFollows
  <1> QED
    BY <1>2, <1>3, AbortStep

LEMMA UnstableStep == ASSUME IInv, Unstable PROVE StampsGood'
  <1>1. Follows(prog, prog)
    BY FollowsRefl DEF IInv, StampsGood
  <1> QED
    BY <1>1, AbortStep DEF Unstable

LEMMA StampsStep == IInv /\ [Next]_vars => StampsGood'
  <1> SUFFICES ASSUME IInv, [Next]_vars PROVE StampsGood'
    OBVIOUS
  <1>1. ASSUME UNCHANGED state PROVE StampsGood'
    BY <1>1 DEF IInv, StampsGood, state
  <1>2. CASE StartRun
    BY <1>2, EmptyMaps DEF StartRun, IInv, StampsGood
  <1>3. CASE NextStage \/ FinishRun \/ RunOrderingPrerequisite
    BY <1>1, <1>3 DEF NextStage, FinishRun, RunOrderingPrerequisite
  <1>4. CASE UNCHANGED vars
    BY <1>1, <1>4 DEF vars, state
  <1> QED
    BY <1>2, <1>3, <1>4, ExternalStep, RefreshStep, UnstableStep, CacheHitStep, BodyFailsStep,
       BodyChangesStep, AnalysisUnchangedStep, OtherUnchangedStep DEF Next, RunStep

LEMMA InitInv == Init => IInv
  <1> SUFFICES ASSUME Init PROVE IInv
    OBVIOUS
  <1>1. PICK o \in Options : prog = InitialState(o)
    BY DEF Init
  <1>2. NoEntry \in Entries(ResultTokens)
    BY DEF NoEntry, Entries
  <1>3. prog \in States /\ \A k \in Keys : prog.results[k].tok = NoToken
    BY <1>1, <1>2 DEF InitialState, States, Results, NoEntry
  <1>4. WellFormed(prog)
    BY <1>3 DEF WellFormed
  <1> QED
    BY <1>4, EmptyMaps DEF Init, IInv, StampsGood, ControlOK

LEMMA Invariance == Spec => []IInv
  <1>1. IInv /\ [Next]_vars => IInv'
    <2>1. manager \in Managers /\ [Next]_vars => manager' \in Managers
      BY DEF Next, vars
    <2> QED
      BY <2>1, ControlStep, StampsStep DEF IInv
  <1> QED
    BY <1>1, InitInv, PTL DEF Spec

--------------------------------------------------------------------------------
(* Stamps: what the runs rely on *)

\* Every stamp is a token and every call in progress names a pass.
THEOREM TypeCorrect == Spec => []TypeOK
  <1>1. IInv => TypeOK
    BY DEF IInv, ControlOK, StampsGood, WellFormed, MarkerMaps, CacheMaps, Frames, TypeOK
  <1> QED
    BY <1>1, Invariance, PTL

\* Revision, catalog and generation counters only move past the stamps that
\* were taken of them, whatever pass bodies and other writers do.
THEOREM StampsNeverAhead == Spec => []StampsNotAhead
  <1>1. ASSUME IInv PROVE StampsNotAhead
    <2>1. ASSUME NEW f, MarkersGood(f, prog) PROVE MarkersNotAhead(f)
      BY <2>1 DEF MarkersGood, MarkersNotAhead, Backed, MarkerEpoch
    <2>2. \A n \in Passes : cache[n].tok # NoToken =>
             NotAhead(cache[n].tok[1], cache[n].tok[2], prog) /\ cache[n].tok[5] <= prog.gen
      BY <1>1 DEF IInv, StampsGood, CacheGood, Backed, CacheEpoch
    <2> QED
      BY <1>1, <2>1, <2>2 DEF IInv, StampsGood, WellFormed, StampsNotAhead
  <1> QED
    BY <1>1, Invariance, PTL

\* If mutations that preserve anything go through the manager's own commit,
\* availability and the result registry never disagree.
THEOREM MarkersAreBacked ==
  ASSUME CommitsThroughManager
  PROVE  Spec => []MarkersBacked
  <1>1. IInv => MarkersBacked
    BY ValidStamp DEF IInv, MarkersBacked, Valid
  <1> QED
    BY <1>1, Invariance, PTL

\* Under the same condition a pass is invoked with every analysis it requires
\* held by the session, and a cached analysis is served only while its slot is.
RequirementsHeld == Ready => InputKeys(Current) \subseteq Held(prog)
CachedAnalysesHeld == \A n \in Analyses : CacheHolds(n) => Key[n] \in Held(prog)

THEOREM InvokedWithRequirements ==
  ASSUME CommitsThroughManager
  PROVE  Spec => [](RequirementsHeld /\ CachedAnalysesHeld)
  <1>1. ASSUME IInv PROVE RequirementsHeld
    <2> SUFFICES ASSUME Ready, NEW q \in AnalysisInputs(Current) PROVE Key[q] \in Held(prog)
      BY DEF RequirementsHeld, InputKeys
    <2>1. Valid(q) /\ q \in Analyses
      BY DEF Ready, Missing, AnalysisInputs, PrerequisiteSet
    <2> QED
      BY <1>1, <2>1, ValidStamp DEF IInv, Valid
  <1>2. IInv => CachedAnalysesHeld
    BY ValidStamp DEF IInv, CachedAnalysesHeld, CacheHolds
  <1> QED
    BY <1>1, <1>2, Invariance, PTL

--------------------------------------------------------------------------------
(* Retirement: iteration *)

\* Induction, for the members of a set.
LEMMA SetInduction ==
  ASSUME NEW T \in SUBSET Nat, 0 \in T, \A n \in Nat : n \in T => n + 1 \in T
  PROVE  T = Nat
  <1> SUFFICES ASSUME Nat \ T # {} PROVE FALSE
    OBVIOUS
  <1>1. Nat \ T \subseteq Nat
    OBVIOUS
  <1>2. PICK m \in Nat \ T : \A n \in Nat \ T : ~(<<n, m>> \in OpToRel(<, Nat))
    BY <1>1, WFMin, NatLessThanWellFounded, Zenon
  <1>3. m \in Nat /\ m # 0 /\ m - 1 \in Nat /\ m - 1 < m /\ m = (m - 1) + 1
    <2>1. m \in Nat /\ m \notin T
      OBVIOUS
    <2>2. m # 0
      BY <2>1
    <2> QED
      BY <2>1, <2>2
  <1>4. m - 1 \notin Nat \ T
    BY <1>2, <1>3, Zenon DEF OpToRel
  <1> QED
    BY <1>2, <1>3, <1>4

\* The first n iterates of step from a.
Iterates(S, a, step, n, g) ==
    g \in [0 .. n -> S] /\ g[0] = a /\ \A i \in 0 .. (n - 1) : g[i + 1] = step[g[i]]

LEMMA IteratesExist ==
  ASSUME NEW S, NEW a \in S, NEW step \in [S -> S]
  PROVE  \A n \in Nat : \E g : Iterates(S, a, step, n, g)
  <1> DEFINE T == {n \in Nat : \E g : Iterates(S, a, step, n, g)}
  <1>1. 0 \in T
    <2> DEFINE g == [i \in 0 .. 0 |-> a]
    <2>1. 0 \in 0 .. 0 /\ 0 .. (0 - 1) = {}
      OBVIOUS
    <2>2. Iterates(S, a, step, 0, g)
      BY <2>1 DEF Iterates
    <2> QED
      BY <2>2
  <1>2. ASSUME NEW n \in Nat, n \in T PROVE n + 1 \in T
    <2>1. PICK g : Iterates(S, a, step, n, g)
      BY <1>2
    <2> DEFINE h == [i \in 0 .. (n + 1) |-> IF i = n + 1 THEN step[g[n]] ELSE g[i]]
    <2>2. g \in [0 .. n -> S] /\ g[0] = a /\ g[n] \in S
      BY <2>1 DEF Iterates
    <2>3. \A i \in 0 .. (n + 1) : h[i] \in S
      BY <2>2
    <2>4. h[0] = a
      BY <2>2
    <2>5. ASSUME NEW i \in 0 .. ((n + 1) - 1) PROVE h[i + 1] = step[h[i]]
      <3>1. CASE i = n
        BY <3>1
      <3>2. CASE i # n
        <4>1. i \in 0 .. (n - 1) /\ i + 1 \in 0 .. n
          BY <3>2
        <4> QED
          BY <2>1, <4>1 DEF Iterates
      <3> QED
        BY <3>1, <3>2
    <2>6. h \in [0 .. (n + 1) -> S]
      BY <2>3
    <2>7. Iterates(S, a, step, n + 1, h)
      BY <2>4, <2>5, <2>6 DEF Iterates
    <2> QED
      BY <2>7
  <1>3. T = Nat
    BY <1>1, <1>2, SetInduction
  <1> QED
    BY <1>3

LEMMA IteratesAgree ==
  ASSUME NEW S, NEW a \in S, NEW step \in [S -> S],
         NEW m \in Nat, NEW n \in Nat, NEW g, NEW h,
         Iterates(S, a, step, m, g), Iterates(S, a, step, n, h)
  PROVE  \A i \in Nat : i <= m /\ i <= n => g[i] = h[i]
  <1> DEFINE T == {i \in Nat : i <= m /\ i <= n => g[i] = h[i]}
  <1>1. 0 \in T
    BY DEF Iterates
  <1>2. ASSUME NEW i \in Nat, i \in T PROVE i + 1 \in T
    <2> SUFFICES ASSUME i + 1 <= m, i + 1 <= n PROVE g[i + 1] = h[i + 1]
      OBVIOUS
    <2>1. i \in 0 .. (m - 1) /\ i \in 0 .. (n - 1) /\ g[i] = h[i]
      BY <1>2
    <2> QED
      BY <2>1 DEF Iterates
  <1>3. T = Nat
    BY <1>1, <1>2, SetInduction
  <1> QED
    BY <1>3

\* f has the values of step, iterated from a.
Iterated(S, a, step, f) ==
    f \in [Nat -> S] /\ f[0] = a /\ \A i \in Nat : f[i + 1] = step[f[i]]

\* A function on a set can be iterated for ever.
LEMMA IterationExists ==
  ASSUME NEW S, NEW a \in S, NEW step \in [S -> S]
  PROVE  \E f : Iterated(S, a, step, f)
  <1> DEFINE it(n) == CHOOSE g : Iterates(S, a, step, n, g)
             f     == [n \in Nat |-> it(n)[n]]
  <1>1. \A n \in Nat : Iterates(S, a, step, n, it(n))
    BY IteratesExist
  <1> HIDE DEF it
  <1>2. f \in [Nat -> S]
    <2>1. \A n \in Nat : it(n)[n] \in S
      BY <1>1 DEF Iterates
    <2> QED
      BY <2>1
  <1>3. f[0] = a
    BY <1>1 DEF Iterates
  <1>4. ASSUME NEW i \in Nat PROVE f[i + 1] = step[f[i]]
    <2>1. i + 1 \in Nat /\ i \in 0 .. ((i + 1) - 1) /\ i <= i + 1 /\ i <= i
      OBVIOUS
    <2>2. Iterates(S, a, step, i + 1, it(i + 1)) /\ Iterates(S, a, step, i, it(i))
      BY <1>1, <2>1
    <2>3. it(i + 1)[i + 1] = step[it(i + 1)[i]]
      BY <2>1, <2>2 DEF Iterates
    <2>4. it(i + 1)[i] = it(i)[i]
      BY <2>1, <2>2, IteratesAgree
    <2> QED
      BY <2>1, <2>3, <2>4
  <1> QED
    BY <1>2, <1>3, <1>4 DEF Iterated

\* Sets that grow, and stop growing once they stay the same, within a finite
\* set stay the same after as many steps as it has members.
LEMMA Stable ==
  ASSUME NEW S, IsFiniteSet(S), NEW f \in [Nat -> SUBSET S],
         \A i \in Nat : f[i] \subseteq f[i + 1],
         \A i \in Nat : f[i + 1] = f[i] => f[i + 2] = f[i + 1],
         f[0] # {}
  PROVE  f[Cardinality(S) + 1] = f[Cardinality(S)]
  <1> DEFINE c == Cardinality(S)
             T == {i \in Nat : f[i + 1] # f[i] => i + 1 <= Cardinality(f[i])}
  <1>1. \A i \in Nat : IsFiniteSet(f[i]) /\ Cardinality(f[i]) \in Nat /\ Cardinality(f[i]) <= c
    BY FS_Subset, FS_CardinalityType
  <1>2. 0 \in T
    <2>1. Cardinality(f[0]) # 0
      BY <1>1, FS_EmptySet
    <2> QED
      BY <1>1, <2>1
  <1>3. ASSUME NEW i \in Nat, i \in T PROVE i + 1 \in T
    <2> SUFFICES ASSUME f[(i + 1) + 1] # f[i + 1]
                 PROVE  (i + 1) + 1 <= Cardinality(f[i + 1])
      OBVIOUS
    <2>1. (i + 1) + 1 = i + 2 /\ i + 1 \in Nat
      OBVIOUS
    <2>2. f[i + 1] # f[i]
      BY <2>1
    <2>3. i + 1 <= Cardinality(f[i])
      BY <1>3, <2>2
    <2>4. /\ Cardinality(f[i]) <= Cardinality(f[i + 1])
          /\ Cardinality(f[i]) # Cardinality(f[i + 1])
      BY <1>1, <2>1, <2>2, FS_Subset
    <2>5. \A a, b \in Nat : i + 1 <= a /\ a <= b /\ a # b => i + 2 <= b
      OBVIOUS
    <2>6. Cardinality(f[i]) \in Nat /\ Cardinality(f[i + 1]) \in Nat
      BY <1>1, <2>1
    <2>7. i + 2 <= Cardinality(f[i + 1])
      <3> HIDE DEF T, c
      <3> QED
        BY <2>3, <2>4, <2>5, <2>6
    <2> QED
      BY <2>1, <2>7
  <1>4. T = Nat
    BY <1>2, <1>3, SetInduction
  <1>5. c \in Nat
    BY FS_CardinalityType
  <1> QED
    BY <1>1, <1>4, <1>5

--------------------------------------------------------------------------------
(* Retirement: slots derived from a slot *)

LEMMA KeysFinite == IsFiniteSet(Keys)
  <1> DEFINE f == [p \in Passes |-> Key[p]]
  <1>1. f \in Surjection(Passes, Keys)
    BY DEF Surjection, Keys
  <1> QED
    BY <1>1, PassGraphAssumption, FS_Surjection

LEMMA InputKeysType == \A p : InputKeys(p) \subseteq Keys
  BY DEF InputKeys, AnalysisInputs, Analyses, Keys

\* The analyses that read one of these slots into another slot than k.
Readers(k, K) == {q \in Analyses : Key[q] # k /\ InputKeys(q) \cap K # {}}

\* What retirement reaches is the least closed set with the producer's slot.
LEMMA AffectedClosed ==
  ASSUME NEW p \in Passes
  PROVE  /\ Affected[p] \subseteq Keys
         /\ Key[p] \in Affected[p]
         /\ \A q \in Readers(Key[p], Affected[p]) : Key[q] \in Affected[p]
         /\ \A S : Key[p] \in S /\ (\A q \in Readers(Key[p], S) : Key[q] \in S)
                 => Affected[p] \subseteq S
  <1> DEFINE More(K) == K \cup {Key[q] : q \in Readers(Key[p], K)}
             step == [K \in SUBSET Keys |-> More(K)]
  <1>2. step \in [SUBSET Keys -> SUBSET Keys] /\ {Key[p]} \in SUBSET Keys
    BY DEF Keys, Readers, Analyses
  <1>3a. PICK f : Iterated(SUBSET Keys, {Key[p]}, step, f)
    <2> HIDE DEF step
    <2> QED
      BY <1>2, IterationExists
  <1>3. /\ f \in [Nat -> SUBSET Keys]
        /\ f[0] = {Key[p]} /\ \A i \in Nat : f[i + 1] = step[f[i]]
    BY <1>3a DEF Iterated
  <1> DEFINE reached[i \in Nat] ==
               IF i = 0
               THEN {Key[p]}
               ELSE LET known == reached[i - 1]
                        readers == {q \in Analyses :
                                      Key[q] # Key[p] /\ InputKeys(q) \cap known # {}}
                    IN  known \cup {Key[q] : q \in readers}
  <1>1. Affected[p] = reached[Cardinality(Keys)]
    BY DEF Affected, AffectedKeys
  <1>4. \A i \in Nat : f[i + 1] = More(f[i])
    BY <1>3
  <1>5. f = [i \in Nat |->
               IF i = 0
               THEN {Key[p]}
               ELSE LET known == f[i - 1]
                        readers == {q \in Analyses :
                                      Key[q] # Key[p] /\ InputKeys(q) \cap known # {}}
                    IN  known \cup {Key[q] : q \in readers}]
    <2>1. ASSUME NEW i \in Nat, i # 0 PROVE f[i] = More(f[i - 1])
      <3>1. i - 1 \in Nat /\ (i - 1) + 1 = i
        BY <2>1
      <3> QED
        BY <1>4, <3>1
    <2> QED
      BY <1>3, <2>1 DEF Readers
  <1>6. reached = [i \in Nat |->
               IF i = 0
               THEN {Key[p]}
               ELSE LET known == reached[i - 1]
                        readers == {q \in Analyses :
                                      Key[q] # Key[p] /\ InputKeys(q) \cap known # {}}
                    IN  known \cup {Key[q] : q \in readers}]
    <2>1. \E g : g = [i \in Nat |->
               IF i = 0
               THEN {Key[p]}
               ELSE LET known == g[i - 1]
                        readers == {q \in Analyses :
                                      Key[q] # Key[p] /\ InputKeys(q) \cap known # {}}
                    IN  known \cup {Key[q] : q \in readers}]
      BY <1>5
    <2> QED
      BY <2>1
  <1>7. reached[0] = {Key[p]}
    BY <1>6
  <1>8. \A i \in Nat : i # 0 => reached[i] = More(reached[i - 1])
    BY <1>6 DEF Readers
  <1> HIDE DEF reached
  <1>9. reached[Cardinality(Keys)] = f[Cardinality(Keys)]
    <2> DEFINE T == {i \in Nat : reached[i] = f[i]}
    <2>1. 0 \in T
      BY <1>3, <1>7
    <2>2. ASSUME NEW i \in Nat, i \in T PROVE i + 1 \in T
      <3>1. i + 1 \in Nat /\ i + 1 # 0 /\ (i + 1) - 1 = i
        OBVIOUS
      <3>2. reached[i + 1] = More(reached[i])
        BY <1>8, <3>1
      <3> QED
        BY <1>4, <2>2, <3>1, <3>2
    <2>3. T = Nat
      <3> HIDE DEF T
      <3> QED
        BY <2>1, <2>2, SetInduction DEF T
    <2> QED
      BY <2>3, KeysFinite, FS_CardinalityType
  <1> DEFINE c == Cardinality(Keys)
  <1>10. c \in Nat
    BY KeysFinite, FS_CardinalityType
  <1>11. f[c + 1] = f[c]
    <2>1. \A i \in Nat : f[i] \subseteq f[i + 1]
      BY <1>4
    <2>2. ASSUME NEW i \in Nat, f[i + 1] = f[i] PROVE f[i + 2] = f[i + 1]
      <3>1. i + 1 \in Nat /\ (i + 1) + 1 = i + 2
        OBVIOUS
      <3>2. f[i + 2] = More(f[i + 1])
        BY <1>4, <3>1
      <3> QED
        BY <1>4, <2>2, <3>2
    <2>3. f[0] # {}
      BY <1>3
    <2> HIDE DEF More
    <2> QED
      BY <1>3, <2>1, <2>2, <2>3, KeysFinite, Stable
  <1>12. Key[p] \in f[c]
    <2> DEFINE T == {i \in Nat : Key[p] \in f[i]}
    <2>1. 0 \in T
      BY <1>3
    <2>2. \A i \in Nat : i \in T => i + 1 \in T
      BY <1>4
    <2>3. T = Nat
      <3> HIDE DEF T
      <3> QED
        BY <2>1, <2>2, SetInduction DEF T
    <2> QED
      BY <2>3, <1>10
  <1>13. f[c] = More(f[c])
    BY <1>4, <1>10, <1>11
  <1>14. ASSUME NEW S, Key[p] \in S, \A q \in Readers(Key[p], S) : Key[q] \in S
         PROVE  f[c] \subseteq S
    <2> DEFINE T == {i \in Nat : f[i] \subseteq S}
    <2>1. 0 \in T
      BY <1>3, <1>14
    <2>2. ASSUME NEW i \in Nat, i \in T PROVE i + 1 \in T
      <3>1. Readers(Key[p], f[i]) \subseteq Readers(Key[p], S)
        BY <2>2 DEF Readers
      <3> QED
        BY <1>4, <1>14, <2>2, <3>1
    <2>3. T = Nat
      <3> HIDE DEF T
      <3> QED
        BY <2>1, <2>2, SetInduction DEF T
    <2> QED
      BY <2>3, <1>10
  <1> QED
    BY <1>1, <1>3, <1>9, <1>10, <1>12, <1>13, <1>14

\* What a slot is derived from: its inputs, theirs in turn, and nothing else.
LEMMA AncestorsClosed ==
  ASSUME NEW k \in Keys
  PROVE  /\ KeyInputs(k) \subseteq AncestorKeys[k] /\ AncestorKeys[k] \subseteq Keys
         /\ \A j \in AncestorKeys[k] : KeyInputs(j) \subseteq AncestorKeys[k]
         /\ \A S : k \in S /\ (\A j \in S : KeyInputs(j) \subseteq S)
                 => AncestorKeys[k] \subseteq S
  <1> DEFINE More(K) == K \cup UNION {KeyInputs(j) : j \in K}
             step == [K \in SUBSET Keys |-> More(K)]
             up[i \in Nat] ==
               IF i = 0 THEN KeyInputs(k)
               ELSE LET known == up[i - 1] IN known \cup UNION {KeyInputs(j) : j \in known}
  <1>1. AncestorKeys[k] = up[Cardinality(Keys)]
    BY DEF AncestorKeys, AncestorsOf
  <1>2. \A j : KeyInputs(j) \in SUBSET Keys
    BY InputKeysType DEF KeyInputs
  <1>3. step \in [SUBSET Keys -> SUBSET Keys]
    BY <1>2
  <1>4a. PICK f : Iterated(SUBSET Keys, KeyInputs(k), step, f)
    <2> HIDE DEF step
    <2> QED
      BY <1>2, <1>3, IterationExists
  <1>4. /\ f \in [Nat -> SUBSET Keys]
        /\ f[0] = KeyInputs(k) /\ \A i \in Nat : f[i + 1] = step[f[i]]
    BY <1>4a DEF Iterated
  <1>5. \A i \in Nat : f[i + 1] = More(f[i])
    BY <1>4
  <1>6. f = [i \in Nat |->
               IF i = 0 THEN KeyInputs(k)
               ELSE LET known == f[i - 1] IN known \cup UNION {KeyInputs(j) : j \in known}]
    <2>1. ASSUME NEW i \in Nat, i # 0 PROVE f[i] = More(f[i - 1])
      <3>1. i - 1 \in Nat /\ (i - 1) + 1 = i
        BY <2>1
      <3> QED
        BY <1>5, <3>1
    <2> QED
      BY <1>4, <2>1
  <1>7. up = [i \in Nat |->
               IF i = 0 THEN KeyInputs(k)
               ELSE LET known == up[i - 1] IN known \cup UNION {KeyInputs(j) : j \in known}]
    BY <1>6
  <1>8. up[0] = KeyInputs(k)
    BY <1>7
  <1>9. \A i \in Nat : i # 0 => up[i] = More(up[i - 1])
    BY <1>7
  <1> HIDE DEF up
  <1> DEFINE c == Cardinality(Keys)
  <1>10. c \in Nat
    BY KeysFinite, FS_CardinalityType
  <1>11. up[c] = f[c] /\ KeyInputs(k) \subseteq f[c]
    <2> DEFINE T == {i \in Nat : up[i] = f[i] /\ KeyInputs(k) \subseteq f[i]}
    <2>1. 0 \in T
      BY <1>4, <1>8
    <2>2. ASSUME NEW i \in Nat, i \in T PROVE i + 1 \in T
      <3>1. i + 1 \in Nat /\ i + 1 # 0 /\ (i + 1) - 1 = i
        OBVIOUS
      <3>2. up[i + 1] = More(up[i])
        BY <1>9, <3>1
      <3> QED
        BY <1>5, <2>2, <3>1, <3>2
    <2>3. T = Nat
      <3> HIDE DEF T
      <3> QED
        BY <2>1, <2>2, SetInduction DEF T
    <2> QED
      BY <2>3, <1>10
  <1>12. f[c + 1] = f[c]
    <2>1. \A i \in Nat : f[i] \subseteq f[i + 1]
      BY <1>5
    <2>2. ASSUME NEW i \in Nat, f[i + 1] = f[i] PROVE f[i + 2] = f[i + 1]
      <3>1. i + 1 \in Nat /\ (i + 1) + 1 = i + 2
        OBVIOUS
      <3>2. f[i + 2] = More(f[i + 1])
        BY <1>5, <3>1
      <3> QED
        BY <1>5, <2>2, <3>2
    <2>3. CASE f[0] = {}
      <3> DEFINE T == {i \in Nat : f[i] = {}}
      <3>1. 0 \in T
        BY <2>3
      <3>2. \A i \in Nat : i \in T => i + 1 \in T
        BY <1>5
      <3>3. T = Nat
        <4> HIDE DEF T
        <4> QED
          BY <3>1, <3>2, SetInduction DEF T
      <3>4. c \in T /\ c + 1 \in T
        BY <3>3, <1>10
      <3> QED
        BY <3>4
    <2>4. CASE f[0] # {}
      <3> HIDE DEF More
      <3> QED
        BY <1>4, <2>1, <2>2, <2>4, KeysFinite, Stable
    <2> QED
      BY <2>3, <2>4
  <1>13. f[c] = More(f[c])
    BY <1>5, <1>10, <1>12
  <1>14. ASSUME NEW S, k \in S, \A j \in S : KeyInputs(j) \subseteq S
         PROVE  f[c] \subseteq S
    <2> DEFINE T == {i \in Nat : f[i] \subseteq S}
    <2>1. 0 \in T
      BY <1>4, <1>14
    <2>2. ASSUME NEW i \in Nat, i \in T PROVE i + 1 \in T
      <3>1. \A j \in f[i] : KeyInputs(j) \subseteq S
        BY <1>14, <2>2
      <3> QED
        BY <1>5, <2>2, <3>1
    <2>3. T = Nat
      <3> HIDE DEF T
      <3> QED
        BY <2>1, <2>2, SetInduction DEF T
    <2> QED
      BY <2>3, <1>10
  <1> QED
    BY <1>1, <1>4, <1>10, <1>11, <1>13, <1>14

\* A set that goes back along inputs is met by what k is derived from only if
\* it is met by the inputs of k.
LEMMA AncestorsFound ==
  ASSUME NEW k \in Keys, NEW S, k \notin S,
         \A j \in Keys : j # k /\ KeyInputs(j) \cap S # {} => j \in S,
         AncestorKeys[k] \cap S # {}
  PROVE  KeyInputs(k) \cap S # {}
  <1> SUFFICES ASSUME KeyInputs(k) \cap S = {} PROVE FALSE
    OBVIOUS
  <1>1. \A j \in Keys \ S : KeyInputs(j) \subseteq Keys \ S
    BY InputKeysType DEF KeyInputs
  <1>2. AncestorKeys[k] \subseteq Keys \ S
    BY <1>1, AncestorsClosed
  <1> QED
    BY <1>2

\* A slot derived from p's is retired with its analyses: retirement
\* (PassManager._retire_analysis_dependents), which follows readers forwards,
\* meets what was read, which is found backwards.
THEOREM DerivedAreRetired ==
  ASSUME NEW p \in Passes, NEW k \in Keys, k # Key[p], Key[p] \in AncestorKeys[k]
  PROVE  \E q \in Retired(p) \cap Analyses : Key[q] = k
  <1> DEFINE S == Affected[p]
  <1>1. Key[p] \in S /\ \A q \in Readers(Key[p], S) : Key[q] \in S
    BY AffectedClosed
  <1>2. ASSUME NEW j \in Keys, j # Key[p], KeyInputs(j) \cap S # {}
        PROVE  \E q \in Readers(Key[p], S) : Key[q] = j
    <2>1. PICK q \in Analyses : Key[q] = j /\ InputKeys(q) \cap S # {}
      BY <1>2 DEF KeyInputs
    <2> QED
      BY <1>2, <2>1 DEF Readers
  <1>3. KeyInputs(k) \cap S # {}
    <2> DEFINE others == S \ {k}
    <2>1. Key[p] \in others /\ k \notin others /\ others \subseteq S
      BY <1>1
    <2>2. \A j \in Keys : j # k /\ KeyInputs(j) \cap others # {} => j \in others
      BY <1>1, <1>2, <2>1
    <2> HIDE DEF others, S
    <2>3. AncestorKeys[k] \cap others # {}
      BY <2>1
    <2>4. KeyInputs(k) \cap others # {}
      BY <2>1, <2>2, <2>3, AncestorsFound
    <2> QED
      BY <2>1, <2>4
  <1>4. PICK q \in Readers(Key[p], S) : Key[q] = k
    BY <1>2, <1>3
  <1> QED
    BY <1>4 DEF Readers, Retired, Analyses

LEMMA AncestorsOfAncestors ==
  ASSUME NEW k \in Keys, NEW j \in AncestorKeys[k]
  PROVE  AncestorKeys[j] \subseteq AncestorKeys[k]
  <1>1. j \in Keys /\ \A i \in AncestorKeys[k] : KeyInputs(i) \subseteq AncestorKeys[k]
    BY AncestorsClosed
  <1> QED
    BY <1>1, AncestorsClosed

\* Retirement (PassManager._retire_analysis_dependents) is exact: of the other
\* slots, it takes the passes that read something computed from the producer's
\* result, through any number of analyses, and no pass that does not.
THEOREM RetirementIsExact ==
  ASSUME NEW p \in Passes
  PROVE  Retired(p) = {q \in Passes : Key[q] # Key[p] /\ Key[p] \in Sources(q)}
  <1> DEFINE S == Affected[p]
  <1>1. /\ Key[p] \in S /\ S \subseteq Keys
        /\ \A q \in Readers(Key[p], S) : Key[q] \in S
    BY AffectedClosed
  <1>2. ASSUME NEW q \in Passes, Key[q] # Key[p], Key[p] \in Sources(q)
        PROVE  InputKeys(q) \cap S # {}
    <2>1. CASE Key[p] \in InputKeys(q)
      BY <1>1, <2>1
    <2>2. CASE \E k \in InputKeys(q) : Key[p] \in AncestorKeys[k]
      <3>1. PICK k \in InputKeys(q) : Key[p] \in AncestorKeys[k]
        BY <2>2
      <3>2. k \in Keys
        BY InputKeysType
      <3>3. CASE k # Key[p]
        <4>1. PICK n \in Retired(p) \cap Analyses : Key[n] = k
          BY <3>1, <3>2, <3>3, DerivedAreRetired
        <4>2. n \in Readers(Key[p], S)
          BY <4>1 DEF Readers, Retired
        <4> QED
          BY <1>1, <4>1, <4>2
      <3> QED
        BY <1>1, <3>3
    <2> QED
      BY <1>2, <2>1, <2>2 DEF Sources
  <1>3. \A k \in S : k = Key[p] \/ Key[p] \in AncestorKeys[k]
    <2> DEFINE D == {k \in Keys : k = Key[p] \/ Key[p] \in AncestorKeys[k]}
    <2>1. Key[p] \in D
      BY DEF Keys
    <2>2. ASSUME NEW q \in Readers(Key[p], D) PROVE Key[q] \in D
      <3>1. q \in Analyses /\ Key[q] \in Keys
        BY DEF Readers, Analyses, Keys
      <3>2. PICK j \in InputKeys(q) : j \in D
        BY DEF Readers
      <3>3. j \in KeyInputs(Key[q])
        BY <3>1 DEF KeyInputs
      <3>4. j \in AncestorKeys[Key[q]]
        BY <3>1, <3>3, AncestorsClosed
      <3>5. AncestorKeys[j] \subseteq AncestorKeys[Key[q]]
        BY <3>1, <3>4, AncestorsOfAncestors
      <3> QED
        BY <3>1, <3>2, <3>4, <3>5
    <2> HIDE DEF D
    <2>3. S \subseteq D
      BY <2>1, <2>2, AffectedClosed
    <2> QED
      BY <2>3 DEF D
  <1>4. ASSUME NEW q \in Retired(p) PROVE Key[p] \in Sources(q)
    <2>1. PICK k \in InputKeys(q) : k \in S
      BY DEF Retired
    <2> QED
      BY <1>3, <2>1 DEF Sources
  <1> QED
    BY <1>2, <1>4 DEF Retired

--------------------------------------------------------------------------------
(* Lifetimes: states that lose *)

Loses(s, t) ==
    /\ Held(t) \subseteq Held(s)
    /\ t.facts \subseteq s.facts
    /\ \A k \in Held(t) : s.results[k].sound => t.results[k].sound
    /\ s.facts \subseteq Held(s) => t.facts \subseteq Held(t)

--------------------------------------------------------------------------------
(* Lifetimes: operations that lose *)

LEMMA LosesRefl == \A s : Loses(s, s)
  BY DEF Loses

LEMMA LosesTrans ==
  ASSUME NEW s, NEW t, NEW u, Loses(s, t), Loses(t, u)
  PROVE  Loses(s, u)
  BY DEF Loses

\* A state that holds nothing and publishes nothing.
LEMMA NothingLeft ==
  ASSUME NEW s, NEW t, Held(t) = {}, t.facts = {}
  PROVE  Loses(s, t)
  BY DEF Loses


\* No stored result carries a revision or a catalog that did not exist yet.
LEMMA NewRevisionHoldsNothing ==
  ASSUME NEW s, WellFormed(s), NEW t \in States, t.results = s.results,
         t.cat > s.cat \/ (t.cat = s.cat /\ t.rev > s.rev)
  PROVE  Held(t) = {}
  <1> SUFFICES ASSUME NEW k \in Keys, s.results[k].tok = ResultToken(t) PROVE FALSE
    BY DEF Held
  <1>1. s.results[k].tok # NoToken
    BY TokenType
  <1>2. NotAhead(s.results[k].tok[1], s.results[k].tok[2], s) /\ s \in States
    BY <1>1 DEF WellFormed
  <1>3. s.results[k].tok[1] = t.cat /\ s.results[k].tok[2] = t.rev
    BY DEF ResultToken
  <1> QED
    BY <1>2, <1>3 DEF NotAhead, States

LEMMA CommitLoses ==
  ASSUME NEW s, WellFormed(s)
  PROVE  Loses(s, CommitRevision(s, {}))
  <1> DEFINE t == CommitRevision(s, {})
  <1>1. s \in States /\ t \in States
    BY CommitFollows DEF WellFormed, Follows
  <1>2. t.results = s.results /\ t.cat = s.cat /\ t.rev = s.rev + 1 /\ t.facts = {}
    BY <1>1 DEF CommitRevision, States
  <1> HIDE DEF t
  <1>3. t.rev > s.rev
    BY <1>1, <1>2 DEF States
  <1>4. Loses(s, t)
    BY <1>1, <1>2, <1>3, NewRevisionHoldsNothing, NothingLeft
  <1> QED
    BY <1>4 DEF t

LEMMA ReplaceCatalogLoses ==
  ASSUME NEW s, WellFormed(s)
  PROVE  Loses(s, ReplaceCatalog(s))
  <1> DEFINE t == ReplaceCatalog(s)
  <1>1. s \in States /\ t \in States
    BY ReplaceCatalogFollows DEF WellFormed, Follows
  <1>2. t.results = s.results /\ t.cat = s.cat + 1 /\ t.facts = {}
    BY <1>1 DEF ReplaceCatalog, States
  <1> HIDE DEF t
  <1>3. t.cat > s.cat
    BY <1>1, <1>2 DEF States
  <1>4. Loses(s, t)
    BY <1>1, <1>2, <1>3, NewRevisionHoldsNothing, NothingLeft
  <1> QED
    BY <1>4 DEF t

LEMMA InvalidateFactsLoses ==
  ASSUME NEW s, WellFormed(s), NEW ks
  PROVE  Loses(s, InvalidateFacts(s, ks))
  <1> DEFINE t == InvalidateFacts(s, ks)
  <1>1. t.results = s.results /\ t.facts = s.facts \ ks
    BY RetainProducersFields DEF WellFormed, InvalidateFacts
  <1>2. Held(t) = Held(s)
    BY InvalidateFactsFollows
  <1> HIDE DEF t
  <1>3. Loses(s, t)
    BY <1>1, <1>2 DEF Loses
  <1> QED
    BY <1>3 DEF t

LEMMA InvalidateResultsLoses ==
  ASSUME NEW s, WellFormed(s), NEW ks
  PROVE  Loses(s, InvalidateResults(s, ks))
  <1> DEFINE d == DropResults(s, ks)
             t == InvalidateResults(s, ks)
  <1>1. WellFormed(d) /\ d.facts = s.facts /\ Held(d) = Held(s) \ ks
    BY DropResultsFields
  <1>2. \A k \in Keys \ ks : d.results[k] = s.results[k]
    BY DEF DropResults, WellFormed, States
  <1>3. t.results = d.results /\ t.facts = d.facts \ ks
    BY <1>1, RetainProducersFields DEF WellFormed, InvalidateFacts, InvalidateResults
  <1>4. Held(t) = Held(s) \ ks
    BY InvalidateResultsFollows
  <1> HIDE DEF d, t
  <1>5. Held(s) \subseteq Keys
    BY DEF Held
  <1>6. Loses(s, t)
    BY <1>1, <1>2, <1>3, <1>4, <1>5 DEF Loses
  <1> QED
    BY <1>6 DEF t

LEMMA ConfigureLoses ==
  ASSUME NEW s, WellFormed(s), NEW o \in Options
  PROVE  Loses(s, Configure(s, o))
  <1> DEFINE c == [s EXCEPT !.opt = o]
             r == RetainResults(c, {})
             t == RetainProducers(r, {})
  <1>1. c \in States
    BY DEF WellFormed, States
  <1> HIDE DEF c
  <1>2. WellFormed(r) /\ Held(r) = {}
    BY <1>1, RetainResultsFields
  <1>3. Configure(s, o) = t
    BY DEF Configure, c
  <1> HIDE DEF r
  <1>4. Held(t) = {} /\ t.facts = {}
    BY <1>2, RetainProducersFollows, RetainProducersFields DEF WellFormed
  <1> QED
    BY <1>3, <1>4, NothingLeft

\* A commit keeps the preserved slots that were held, as they were.
LEMMA MarkChangedLoses ==
  ASSUME NEW s, WellFormed(s), NEW ps
  PROVE  Loses(s, MarkChanged(s, ps))
  <1> DEFINE keys == {Key[p] : p \in ps}
             r == RetainProducers(s, keys)
             a == CommitRevision(r, r.facts)
             t == MarkChanged(s, ps)
  <1>1. /\ Held(t) = keys \cap Held(s)
        /\ t.facts \subseteq s.facts \cap keys
    BY MarkChangedFollows
  <1>2. r \in States /\ r.results = s.results /\ s \in States
    BY RetainProducersFields DEF WellFormed
  <1> HIDE DEF r
  <1>3. a.results = s.results /\ a \in States
    <2>1. WellFormed(r)
      BY RetainProducersFollows DEF Follows, r
    <2> QED
      BY <1>2, <2>1, CommitFollows DEF CommitRevision, States, Follows, WellFormed
  <1>4. t = RetainResults(a, keys \cap Held(s))
    BY DEF MarkChanged, r
  <1> HIDE DEF a, keys
  <1>5. ASSUME NEW k \in Held(t) PROVE t.results[k].sound = s.results[k].sound
    <2>1. k \in Keys /\ k \in keys \cap Held(s)
      BY <1>1, <1>5 DEF Held
    <2>2. s.results[k].tok # NoToken
      BY <1>2, <2>1, TokenType DEF Held
    <2>3. t.results[k] = [tok |-> ResultToken(a), sound |-> a.results[k].sound]
      BY <1>3, <1>4, <2>1, <2>2 DEF RetainResults, States
    <2> QED
      BY <1>3, <2>3
  <1> HIDE DEF t
  <1>6. Loses(s, t)
    BY <1>1, <1>5 DEF Loses
  <1> QED
    BY <1>6 DEF t

LEMMA DisturbedLoses ==
  ASSUME NEW s, WellFormed(s), NEW kinds, NEW t \in Disturbed(s, kinds)
  PROVE  Loses(s, t)
  <1>1. CASE t = s
    BY <1>1, LosesRefl
  <1>2. CASE t = CommitRevision(s, {})
    BY <1>2, CommitLoses
  <1>3. CASE t = ReplaceCatalog(s)
    BY <1>3, ReplaceCatalogLoses
  <1>4. CASE \E k \in Keys : t = InvalidateResults(s, {k})
    BY <1>4, InvalidateResultsLoses
  <1>5. CASE \E k \in Keys : t = InvalidateFacts(s, {k})
    BY <1>5, InvalidateFactsLoses
  <1> QED
    BY <1>1, <1>2, <1>3, <1>4, <1>5 DEF Disturbed

--------------------------------------------------------------------------------
(* Lifetimes: pass bodies *)

LEMMA RecordResultFields ==
  ASSUME NEW s \in States, NEW p \in Analyses, NEW b \in BOOLEAN
  PROVE  LET t == RecordResult(s, p, b)
         IN  /\ t.facts = s.facts
             /\ t.results[Key[p]].sound = b
             /\ \A k \in Keys : k # Key[p] /\ s.results[k].sound /\ Key[p] \notin AncestorKeys[k]
                                   => t.results[k].sound
  <1> DEFINE t == RecordResult(s, p, b)
             entry(k) == IF k = Key[p]
                         THEN [tok |-> ResultToken(s), sound |-> b]
                         ELSE [tok |-> s.results[k].tok,
                               sound |-> s.results[k].sound /\ Key[p] \notin AncestorKeys[k]]
  <1>1. Key[p] \in Keys
    BY DEF Keys, Analyses
  <1>2. t.facts = s.facts /\ t.results = [k \in Keys |-> entry(k)]
    BY DEF RecordResult, States
  <1>3. \A k \in Keys : t.results[k] = entry(k)
    BY <1>2
  <1> HIDE DEF t
  <1>4. ASSUME NEW k \in Keys, k # Key[p], s.results[k].sound, Key[p] \notin AncestorKeys[k]
        PROVE  t.results[k].sound
    <2> DEFINE c == s.results[k].sound /\ Key[p] \notin AncestorKeys[k]
    <2>1. c = TRUE
      BY <1>4
    <2>2. t.results[k] = [tok |-> s.results[k].tok, sound |-> c]
      BY <1>3, <1>4, Zenon
    <2> HIDE DEF c
    <2> QED
      BY <2>1, <2>2
  <1>5. t.results[Key[p]].sound = b
    <2>1. t.results[Key[p]] = [tok |-> ResultToken(s), sound |-> b]
      BY <1>1, <1>3, Zenon
    <2> QED
      BY <2>1
  <1> QED
    BY <1>2, <1>4, <1>5 DEF t

\* A body that is no analysis only loses.
LEMMA OtherBody ==
  ASSUME WellFormed(prog), NEW p \in Passes \ Analyses, NEW t \in AfterBody(p)
  PROVE  t \in Disturbed(prog, Effects[p]) /\ Loses(prog, t)
  <1>1. t \in Disturbed(prog, Effects[p])
    BY DEF AfterBody
  <1> QED
    BY <1>1, DisturbedLoses

\* An analysis gains its own slot, publishes under its own key, and outdates
\* what was derived from the result it replaces.
LEMMA AnalysisBody ==
  ASSUME WellFormed(prog), NEW p \in Analyses, NEW t \in AfterBody(p)
  PROVE  /\ Held(t) \subseteq Held(prog) \cup {Key[p]}
         /\ prog.facts \subseteq Held(prog) => t.facts \subseteq Held(t)
         /\ t.results[Key[p]].sound = InputsSound(prog, p)
         /\ \A k \in Held(t) : k # Key[p] /\ prog.results[k].sound /\ Key[p] \notin AncestorKeys[k]
                                  => t.results[k].sound
  <1> DEFINE publish(s) == IF p \in Publishers THEN Publish(s, Key[p]) ELSE s
             b == InputsSound(prog, p)
  <1>1. PICK s \in Disturbed(prog, Effects[p]) : t = RecordResult(publish(s), p, b)
    BY DEF AfterBody
  <1> DEFINE q == publish(s)
  <1>2. WellFormed(s) /\ Loses(prog, s)
    BY DisturbedFollows, DisturbedLoses DEF Follows
  <1>3. Key[p] \in Keys /\ b \in BOOLEAN
    BY DEF Keys, Analyses, InputsSound
  <1>4. /\ WellFormed(q) /\ Held(q) = Held(s) /\ q.results = s.results
        /\ q.facts \subseteq s.facts \cup {Key[p]}
    <2>1. CASE q = s
      BY <1>2, <2>1
    <2>2. CASE q = Publish(s, Key[p])
      <3>1. q.results = s.results /\ q.facts = s.facts \cup {Key[p]}
        BY <1>2, <2>2 DEF Publish, WellFormed, States
      <3>2. WellFormed(q) /\ Held(q) = Held(s)
        BY <1>2, <1>3, <2>2, PublishFollows DEF Follows
      <3> QED
        BY <3>1, <3>2
    <2> QED
      BY <2>1, <2>2
  <1> HIDE DEF publish, b, q
  <1>5. t = RecordResult(q, p, b)
    BY <1>1 DEF q
  <1>6. Held(t) = Held(q) \cup {Key[p]}
    BY <1>3, <1>4, <1>5, RecordResultFollows
  <1>7. /\ t.facts = q.facts
        /\ t.results[Key[p]].sound = b
        /\ \A k \in Keys : k # Key[p] /\ q.results[k].sound /\ Key[p] \notin AncestorKeys[k]
                              => t.results[k].sound
    BY <1>3, <1>4, <1>5, RecordResultFields DEF WellFormed
  <1>8. Held(t) \subseteq Held(prog) \cup {Key[p]}
    BY <1>2, <1>4, <1>6 DEF Loses
  <1>9. prog.facts \subseteq Held(prog) => t.facts \subseteq Held(t)
    BY <1>2, <1>4, <1>6, <1>7 DEF Loses
  <1>10. ASSUME NEW k \in Held(t), k # Key[p], prog.results[k].sound, Key[p] \notin AncestorKeys[k]
         PROVE  t.results[k].sound
    <2>1. k \in Keys /\ k \in Held(s)
      BY <1>4, <1>6, <1>10 DEF Held
    <2>2. s.results[k].sound
      BY <1>2, <1>10, <2>1 DEF Loses
    <2> QED
      BY <1>4, <1>7, <1>10, <2>1, <2>2
  <1> QED
    BY <1>7, <1>8, <1>9, <1>10 DEF b

\* Retiring loses, and no analysis it takes stays held.
LEMMA RetireDependentsLoses ==
  ASSUME NEW s, WellFormed(s), NEW p \in Passes
  PROVE  /\ Loses(s, RetireDependents(s, p))
         /\ \A q \in Retired(p) \cap Analyses : Key[q] \notin Held(RetireDependents(s, p))
  <1> DEFINE slots == {Key[n] : n \in Retired(p) \cap Analyses}
  <1>1. CASE InUse(s, Retired(p) \cap Analyses)
    <2>1. RetireDependents(s, p) = InvalidateResults(s, slots)
      BY <1>1 DEF RetireDependents
    <2>2. Held(InvalidateResults(s, slots)) = Held(s) \ slots
      BY InvalidateResultsFollows
    <2>3. Loses(s, InvalidateResults(s, slots))
      BY InvalidateResultsLoses
    <2> QED
      BY <2>1, <2>2, <2>3
  <1>2. CASE ~InUse(s, Retired(p) \cap Analyses)
    <2>1. RetireDependents(s, p) = s
      BY <1>2 DEF RetireDependents
    <2>2. \A q \in Retired(p) \cap Analyses : Key[q] \notin Held(s)
      BY <1>2 DEF InUse
    <2> QED
      BY <2>1, <2>2, LosesRefl
  <1> QED
    BY <1>1, <1>2

--------------------------------------------------------------------------------
(* Lifetimes: steps *)

\* A step loses, or is an analysis that gains its own slot with its facts.
Gains(k) ==
    /\ Held(prog)' \subseteq Held(prog) \cup {k}
    /\ FactsFollowResults => FactsFollowResults'

LEMMA AbortLoses ==
  ASSUME WellFormed(prog), NEW s, WellFormed(s), NEW how, Abort(s, how)
  PROVE  Held(prog') = {} /\ prog'.facts = {}
  BY MarkChangedFollows DEF Abort

LEMMA BodyState ==
  ASSUME IInv, NEW kind, RunsBody(kind)
  PROVE  Current \in Passes /\ WellFormed(prog) /\ Active
         /\ \A s \in AfterBody(Current) : WellFormed(s)
  BY CurrentType, AfterBodyFollows DEF RunsBody, Ready, IInv, StampsGood, Follows

LEMMA StepLosesOrGains ==
  ASSUME IInv, [Next]_vars
  PROVE  Loses(prog, prog') \/ (Active /\ Current \in Analyses /\ Gains(Key[Current]))
  <1> DEFINE Gain == Active /\ Current \in Analyses /\ Gains(Key[Current])
  <1>1. WellFormed(prog) /\ Loses(prog, prog)
    BY LosesRefl DEF IInv, StampsGood
  <1>2. CASE UNCHANGED prog
    BY <1>1, <1>2
  <1>3. CASE External
    <2>1. CASE prog' \in Disturbed(prog, Disturbances)
      BY <1>1, <2>1, DisturbedLoses
    <2>2. CASE prog' = MarkChanged(prog, {})
      BY <1>1, <2>2, MarkChangedLoses
    <2>3. CASE \E o \in Options : prog' = Configure(prog, o)
      BY <1>1, <2>3, ConfigureLoses
    <2> QED
      BY <1>3, <2>1, <2>2, <2>3 DEF External
  <1>4. CASE Unstable
    BY <1>1, <1>4, AbortLoses, NothingLeft DEF Unstable
  <1>5. CASE BodyFails
    <2>1. PICK s \in AfterBody(Current) \cup Disturbed(prog, Effects[Current]) : Abort(s, "failed")
      BY <1>5 DEF BodyFails
    <2>2. WellFormed(s)
      BY <1>1, <1>5, BodyState, DisturbedFollows DEF BodyFails, Follows
    <2> QED
      BY <1>1, <2>1, <2>2, AbortLoses, NothingLeft
  <1>6. CASE BodyChanges
    <2>1. PICK s \in AfterBody(Current) : prog' = MarkChanged(s, Preserved(Current))
      BY <1>6 DEF BodyChanges
    <2>2. WellFormed(s) /\ Current \in Passes /\ Active
      BY <1>6, BodyState DEF BodyChanges
    <2>3. Loses(s, prog')
      BY <2>1, <2>2, MarkChangedLoses
    <2>4. CASE Current \in Analyses
      BY <1>1, <2>2, <2>3, <2>4, AnalysisBody DEF Gains, FactsFollowResults, Loses
    <2>5. CASE Current \notin Analyses
      BY <1>1, <2>2, <2>3, <2>5, OtherBody, LosesTrans
    <2> QED
      BY <2>4, <2>5
  <1>7. CASE AnalysisUnchanged
    <2>1. PICK s \in AfterBody(Current) : prog' = RetireDependents(s, Current)
      BY <1>7 DEF AnalysisUnchanged
    <2>2. WellFormed(s) /\ Current \in Passes /\ Active /\ Current \in Analyses
      BY <1>7, BodyState DEF AnalysisUnchanged
    <2>3. Loses(s, prog')
      BY <2>1, <2>2, RetireDependentsLoses
    <2> QED
      BY <1>1, <2>2, <2>3, AnalysisBody DEF Gains, FactsFollowResults, Loses
  <1>8. CASE OtherUnchanged
    <2>1. PICK s \in AfterBody(Current) : prog' = s
      BY <1>8 DEF OtherUnchanged
    <2>2. Current \in Passes \ Analyses
      BY <1>8, BodyState DEF OtherUnchanged
    <2> QED
      BY <1>1, <2>1, <2>2, OtherBody
  <1>9. CASE StartRun \/ NextStage \/ FinishRun \/ RunOrderingPrerequisite \/ Refresh \/ CacheHit
    BY <1>2, <1>9 DEF StartRun, NextStage, FinishRun, RunOrderingPrerequisite, Refresh, CacheHit,
                     state
  <1>10. CASE UNCHANGED vars
    BY <1>2, <1>10 DEF vars
  <1> QED
    BY <1>3, <1>4, <1>5, <1>6, <1>7, <1>8, <1>9, <1>10 DEF Next, RunStep

--------------------------------------------------------------------------------
(* Lifetimes: what holds whatever the passes do *)

\* The program, its markers and the cache after a failure.
NothingStored ==
    /\ Held(prog) = {} /\ prog.facts = {}
    /\ avail = NoMarkers /\ local = NoMarkers /\ cache = EmptyCache

FailureStoresNothing == outcome \in {"failed", "unstable"} => NothingStored

LInv == IInv /\ FactsFollowResults /\ FailureStoresNothing

LEMMA FailureStep == ASSUME LInv, [Next]_vars PROVE FailureStoresNothing'
  <1>1. WellFormed(prog) /\ IInv
    BY DEF LInv, IInv, StampsGood
  <1>2. CASE External
    <2>1. Loses(prog, prog')
      <3>1. ~Active
        BY <1>2 DEF External, Active
      <3> QED
        BY <1>1, <3>1, StepLosesOrGains
    <2>2. /\ local' = local /\ avail' \in {avail, NoMarkers} /\ cache' \in {cache, EmptyCache}
          /\ outcome' = outcome
      BY <1>2 DEF External
    <2>3. NothingStored => NothingStored'
      BY <2>1, <2>2 DEF NothingStored, Loses
    <2> QED
      BY <2>2, <2>3 DEF LInv, FailureStoresNothing
  <1>3. ASSUME NEW s, WellFormed(s), NEW how, Abort(s, how) PROVE NothingStored'
    BY <1>1, <1>3, AbortLoses DEF Abort, NothingStored
  <1>4. CASE Unstable
    BY <1>1, <1>3, <1>4 DEF Unstable, FailureStoresNothing
  <1>5. CASE BodyFails
    <2>1. PICK s \in AfterBody(Current) \cup Disturbed(prog, Effects[Current]) : Abort(s, "failed")
      BY <1>5 DEF BodyFails
    <2>2. WellFormed(s)
      BY <1>1, <1>5, BodyState, DisturbedFollows DEF BodyFails, Follows
    <2> QED
      BY <1>3, <2>1, <2>2 DEF FailureStoresNothing
  <1>6. CASE UNCHANGED vars
    BY <1>6 DEF LInv, FailureStoresNothing, NothingStored, Held, vars
  <1>7. ASSUME Running, outcome' = outcome PROVE FailureStoresNothing'
    BY <1>7 DEF Running, FailureStoresNothing
  <1>8. CASE StartRun \/ FinishRun
    BY <1>8 DEF StartRun, FinishRun, FailureStoresNothing
  <1>9. CASE NextStage \/ RunOrderingPrerequisite \/ Refresh
    BY <1>7, <1>9 DEF NextStage, RunOrderingPrerequisite, Refresh, NeedsRefresh, Active
  <1>10. CASE CacheHit \/ BodyChanges \/ AnalysisUnchanged \/ OtherUnchanged
    BY <1>7, <1>10 DEF CacheHit, BodyChanges, AnalysisUnchanged, OtherUnchanged, RunsBody, Ready,
                       Active, Complete
  <1> QED
    BY <1>2, <1>4, <1>5, <1>6, <1>8, <1>9, <1>10 DEF Next, RunStep

LEMMA LInvariance == Spec => []LInv
  <1>1. Init => FactsFollowResults /\ FailureStoresNothing
    BY DEF Init, InitialState, FactsFollowResults, FailureStoresNothing
  <1>2. LInv /\ [Next]_vars => FactsFollowResults'
    BY StepLosesOrGains DEF LInv, Gains, Loses, FactsFollowResults
  <1>3. LInv /\ [Next]_vars => FailureStoresNothing'
    BY FailureStep
  <1> QED
    BY <1>1, <1>2, <1>3, Invariance, PTL DEF LInv, Spec

\* The fact table (FactStore) never answers for a result the session does not
\* hold, whatever bodies commit, replace, drop or leave half done.
THEOREM FactsFollow == Spec => []FactsFollowResults
  BY LInvariance, PTL DEF LInv

\* retire_failed_state leaves nothing of a failed or unstable run to be used,
\* and nothing the program's other writers do before the next run revives it.
THEOREM FailureRetires == Spec => []FailureRetiresState
  <1>1. ASSUME LInv PROVE FailureRetiresState
    <2>1. MarkerToken(prog) # NoToken /\ CacheToken(prog) # NoToken
      BY <1>1, TokenType DEF LInv, IInv, StampsGood, WellFormed
    <2>2. ASSUME NothingStored, NEW n \in Passes PROVE ~Valid(n) /\ ~CacheHolds(n)
      BY <2>1, <2>2 DEF NothingStored, NoMarkers, EmptyCache, NoEntry, Valid, CacheHolds
    <2> QED
      BY <1>1, <2>2 DEF LInv, FailureStoresNothing, NothingStored, FailureRetiresState
  <1> QED
    BY <1>1, LInvariance, PTL

\* AnalysisSession's slots become current only by running an analysis of the
\* slot: not by preservation, a replaced catalog or a return to earlier options.
THEOREM OnlyAnalysesGain == Spec => NothingRevived
  <1>1. ASSUME IInv, [Next]_vars
        PROVE  \A k \in Held(prog)' \ Held(prog) : Active /\ Current \in Analyses /\ Key[Current] = k
    <2>1. Held(prog)' = Held(prog')
      BY DEF Held, ResultToken
    <2> QED
      BY <1>1, <2>1, StepLosesOrGains DEF Loses, Gains
  <1>2. IInv /\ [Next]_vars =>
           [\A k \in Held(prog)' \ Held(prog) : Active /\ Current \in Analyses /\ Key[Current] = k]_vars
    BY <1>1
  <1> QED
    BY <1>2, Invariance, PTL DEF Spec, NothingRevived

--------------------------------------------------------------------------------
(* Lifetimes: what holds when the passes keep to their declarations *)

PassesKeepRules == CommitsThroughManager /\ AnalysesPreserveNothing /\ SlotsAcyclic

\* No result and no cached result, current or not, was computed from one that
\* has been recomputed since.
ResultsSound == \A k \in Held(prog) : prog.results[k].sound
CacheSound == \A n \in Passes : cache[n].tok # NoToken => cache[n].sound

SInv == LInv /\ ResultsSound /\ CacheSound

\* A pass that is ready has a valid marker for each analysis it requires, so a
\* held slot, so a sound one.
LEMMA ReadyInputs ==
  ASSUME SInv, PassesKeepRules, Ready
  PROVE  InputsSound(prog, Current)
  <1> SUFFICES ASSUME NEW q \in AnalysisInputs(Current) PROVE Key[q] \in Held(prog)
    BY DEF InputsSound, InputKeys, SInv, ResultsSound
  <1>1. Valid(q) /\ q \in Analyses
    BY DEF Ready, Missing, AnalysisInputs, PrerequisiteSet
  <1> QED
    BY <1>1, ValidStamp DEF SInv, LInv, IInv, Valid, PassesKeepRules

LEMMA LosesSound ==
  ASSUME NEW s, NEW t, Loses(s, t), \A k \in Held(s) : s.results[k].sound
  PROVE  \A k \in Held(t) : t.results[k].sound
  BY DEF Loses

\* A cache entry that the recomputation of p outdates belongs to a retired pass.
LEMMA OutdatedIsRetired ==
  ASSUME PassesKeepRules, CacheSound, NEW p \in Analyses, NEW n \in Passes \ Retired(p)
  PROVE  cache[n].tok # NoToken => OutdatedBy(p)[n].sound
  <1>1. p \in Passes
    BY DEF Analyses
  <1>2. Key[p] \notin Sources(n)
    BY <1>1, RetirementIsExact DEF PassesKeepRules, SlotsAcyclic
  <1> QED
    BY <1>2 DEF OutdatedBy, CacheSound

\* An analysis that runs unchanged leaves only sound results held: what was
\* derived from its previous result is retired.
LEMMA RecomputedSound ==
  ASSUME SInv, PassesKeepRules, AnalysisUnchanged
  PROVE  ResultsSound'
  <1> DEFINE p == Current
  <1>1. /\ p \in Passes /\ p \in Analyses /\ WellFormed(prog) /\ Ready
        /\ \A s \in AfterBody(p) : WellFormed(s)
    BY BodyState DEF AnalysisUnchanged, RunsBody, SInv, LInv
  <1>2. PICK s \in AfterBody(p) : prog' = RetireDependents(s, p)
    BY DEF AnalysisUnchanged
  <1>3. InputsSound(prog, p)
    BY <1>1, ReadyInputs
  <1> HIDE DEF p
  <1>4. /\ Held(s) \subseteq Held(prog) \cup {Key[p]}
        /\ s.results[Key[p]].sound
        /\ \A k \in Held(s) : k # Key[p] /\ prog.results[k].sound /\ Key[p] \notin AncestorKeys[k]
                                 => s.results[k].sound
    BY <1>1, <1>3, AnalysisBody
  <1>5. /\ Loses(s, prog')
        /\ \A q \in Retired(p) \cap Analyses : Key[q] \notin Held(prog')
    BY <1>1, <1>2, RetireDependentsLoses
  <1>6. ASSUME NEW k \in Held(prog') PROVE prog'.results[k].sound
    <2>1. k \in Held(s) /\ k \in Keys
      BY <1>5, <1>6 DEF Loses, Held
    <2>2. CASE k = Key[p]
      BY <1>4, <1>5, <1>6, <2>2 DEF Loses
    <2>3. CASE k # Key[p]
      <3>1. Key[p] \notin AncestorKeys[k]
        BY <1>1, <1>5, <1>6, <2>1, <2>3, DerivedAreRetired
      <3>2. prog.results[k].sound
        BY <1>4, <2>1, <2>3 DEF SInv, ResultsSound
      <3> QED
        BY <1>4, <1>5, <1>6, <2>1, <2>3, <3>1, <3>2 DEF Loses
    <2> QED
      BY <2>2, <2>3
  <1> QED
    BY <1>6 DEF ResultsSound, Held, ResultToken

LEMMA ResultsStep == ASSUME SInv, PassesKeepRules, [Next]_vars PROVE ResultsSound'
  <1>1. IInv /\ WellFormed(prog) /\ \A k \in Held(prog) : prog.results[k].sound
    BY DEF SInv, LInv, IInv, StampsGood, ResultsSound
  <1>2. ASSUME Loses(prog, prog') PROVE ResultsSound'
    <2>1. \A k \in Held(prog') : prog'.results[k].sound
      BY <1>1, <1>2, LosesSound
    <2> QED
      BY <2>1 DEF ResultsSound, Held, ResultToken
  <1>3. ASSUME Held(prog') = {} PROVE ResultsSound'
    BY <1>3 DEF ResultsSound, Held, ResultToken
  <1>4. CASE Loses(prog, prog')
    BY <1>2, <1>4
  <1>5. CASE AnalysisUnchanged
    BY <1>5, RecomputedSound
  <1>6. CASE BodyChanges /\ Current \in Analyses
    <2>1. PICK s \in AfterBody(Current) : prog' = MarkChanged(s, Preserved(Current))
      BY <1>6 DEF BodyChanges
    <2>2. Preserved(Current) = {} /\ WellFormed(s)
      BY <1>1, <1>6, BodyState DEF BodyChanges, RunsBody, PassesKeepRules, AnalysesPreserveNothing
    <2>3. Held(prog') = {}
      BY <2>1, <2>2, MarkChangedFollows
    <2> QED
      BY <1>3, <2>3
  <1>7. CASE BodyFails
    <2>1. PICK s \in AfterBody(Current) \cup Disturbed(prog, Effects[Current]) : Abort(s, "failed")
      BY <1>7 DEF BodyFails
    <2>2. WellFormed(s)
      BY <1>1, <1>7, BodyState, DisturbedFollows DEF BodyFails, Follows
    <2> QED
      BY <1>1, <1>3, <2>1, <2>2, AbortLoses
  <1>8. CASE BodyChanges /\ Current \notin Analyses
    <2>1. PICK s \in AfterBody(Current) : prog' = MarkChanged(s, Preserved(Current))
      BY <1>8 DEF BodyChanges
    <2>2. WellFormed(s) /\ Current \in Passes \ Analyses
      BY <1>1, <1>8, BodyState DEF BodyChanges
    <2> QED
      BY <1>1, <1>2, <2>1, <2>2, MarkChangedLoses, OtherBody, LosesTrans
  <1>9. CASE Unstable
    BY <1>1, <1>3, <1>9, AbortLoses DEF Unstable
  <1>10. CASE External \/ OtherUnchanged
    <2>1. ~(Active /\ Current \in Analyses)
      BY <1>10 DEF External, OtherUnchanged, Active
    <2> QED
      BY <1>1, <1>4, <2>1, StepLosesOrGains
  <1>11. CASE UNCHANGED prog
    BY <1>4, <1>11, LosesRefl
  <1>12. CASE StartRun \/ NextStage \/ FinishRun \/ RunOrderingPrerequisite \/ Refresh \/ CacheHit
    BY <1>11, <1>12 DEF StartRun, NextStage, FinishRun, RunOrderingPrerequisite, Refresh, CacheHit,
                        state
  <1>13. CASE UNCHANGED vars
    BY <1>11, <1>13 DEF vars
  <1> QED
    BY <1>5, <1>6, <1>7, <1>8, <1>9, <1>10, <1>12, <1>13 DEF Next, RunStep

\* A map each of whose entries is absent or sound is sound.
LEMMA EnteredSound ==
  ASSUME NEW c \in CacheMaps, \A n \in Passes : c[n].tok # NoToken => c[n].sound,
         NEW p \in Passes, NEW tok
  PROVE  \A n \in Passes :
            LET d == Mark(c, p, [tok |-> tok, sound |-> TRUE])
            IN  d[n].tok # NoToken => d[n].sound
  BY DEF Mark, CacheMaps

LEMMA CacheStep == ASSUME SInv, PassesKeepRules, [Next]_vars PROVE CacheSound'
  <1>1. /\ IInv /\ cache \in CacheMaps
        /\ \A n \in Passes : cache[n].tok # NoToken => cache[n].sound
    BY DEF SInv, LInv, IInv, StampsGood, CacheSound
  <1>2. ASSUME cache' \in {cache, EmptyCache} PROVE CacheSound'
    BY <1>1, <1>2 DEF CacheSound, EmptyCache, NoEntry
  <1>3. CASE AnalysisUnchanged
    <2> DEFINE p     == Current
               swept == [n \in Passes |-> IF n \in Retired(p) THEN NoEntry ELSE OutdatedBy(p)[n]]
    <2>1. p \in Passes /\ p \in Analyses /\ InputsSound(prog, p) = TRUE
      BY <1>1, <1>3, BodyState, ReadyInputs DEF AnalysisUnchanged, RunsBody
    <2>2. PICK tok : cache' = IF Caching
                              THEN Mark(swept, p, [tok |-> tok, sound |-> InputsSound(prog, p)])
                              ELSE cache
      BY <1>3 DEF AnalysisUnchanged
    <2>3. swept \in CacheMaps
      BY <1>1, OutdatedByType DEF CacheMaps, Entries, NoEntry
    <2>4. ASSUME NEW n \in Passes, swept[n].tok # NoToken PROVE swept[n].sound
      <3>1. n \notin Retired(p)
        BY <2>4 DEF NoEntry
      <3>2. cache[n].tok # NoToken
        BY <1>1, <2>4, <3>1, OutdatedByType
      <3> HIDE DEF p
      <3>3. OutdatedBy(p)[n].sound
        BY <2>1, <3>1, <3>2, OutdatedIsRetired DEF SInv
      <3> QED
        BY <3>1, <3>3
    <2> HIDE DEF swept, p
    <2>5. CASE Caching
      BY <2>1, <2>2, <2>3, <2>4, <2>5, EnteredSound DEF CacheSound
    <2>6. CASE ~Caching
      BY <1>2, <2>2, <2>6
    <2> QED
      BY <2>5, <2>6
  <1>4. CASE OtherUnchanged
    <2>1. Current \in Passes /\ InputsSound(prog, Current) = TRUE
      BY <1>1, <1>4, BodyState, ReadyInputs DEF OtherUnchanged, RunsBody
    <2>2. PICK tok : cache' = IF Caching
                              THEN Mark(cache, Current, [tok |-> tok, sound |-> InputsSound(prog, Current)])
                              ELSE cache
      BY <1>4 DEF OtherUnchanged
    <2>3. CASE Caching
      BY <1>1, <2>1, <2>2, <2>3, EnteredSound DEF CacheSound
    <2>4. CASE ~Caching
      BY <1>2, <2>2, <2>4
    <2> QED
      BY <2>3, <2>4
  <1>5. CASE BodyChanges
    <2> DEFINE kept     == Preserved(Current)
               reusable == {n \in kept : Kind[n] \in {"analysis", "utility"}}
    <2>1. PICK after : cache' = RebaseCache(OutdatedBy(Current), reusable, CacheToken(prog), after)
      BY <1>5 DEF BodyChanges
    <2>2. CASE Current \in Analyses
      <3>1. reusable = {}
        BY <1>5, <2>2 DEF BodyChanges, RunsBody, PassesKeepRules, AnalysesPreserveNothing
      <3> HIDE DEF reusable
      <3>2. \A n \in Passes : cache'[n] = NoEntry
        BY <2>1, <3>1 DEF RebaseCache
      <3> QED
        BY <3>2 DEF CacheSound, NoEntry
    <2>3. CASE Current \notin Analyses
      <3> HIDE DEF reusable
      <3>1. CacheToken(prog) # NoToken
        BY <1>1, TokenType DEF IInv, StampsGood, WellFormed
      <3>2. ASSUME NEW n \in Passes, cache'[n].tok # NoToken PROVE cache'[n].sound
        <4> DEFINE o == OutdatedBy(Current)[n]
        <4>1. o.tok = cache[n].tok /\ (cache[n].sound => o.sound)
          BY <2>3 DEF OutdatedBy
        <4>2. cache'[n] = IF n \in reusable /\ o.tok = CacheToken(prog)
                          THEN [tok |-> after, sound |-> o.sound] ELSE NoEntry
          BY <2>1 DEF RebaseCache
        <4> HIDE DEF o
        <4>3. o.tok = CacheToken(prog) /\ cache'[n] = [tok |-> after, sound |-> o.sound]
          BY <3>2, <4>2 DEF NoEntry
        <4>4. o.sound
          BY <1>1, <3>1, <4>1, <4>3
        <4> QED
          BY <4>3, <4>4
      <3> QED
        BY <3>2 DEF CacheSound
    <2> QED
      BY <2>2, <2>3
  <1>6. CASE External \/ Unstable \/ BodyFails
    BY <1>2, <1>6 DEF External, Unstable, BodyFails, Abort
  <1>7. CASE StartRun \/ NextStage \/ FinishRun \/ RunOrderingPrerequisite \/ Refresh \/ CacheHit
    BY <1>2, <1>7 DEF StartRun, NextStage, FinishRun, RunOrderingPrerequisite, Refresh, CacheHit,
                      state
  <1>8. CASE UNCHANGED vars
    BY <1>2, <1>8 DEF vars
  <1> QED
    BY <1>3, <1>4, <1>5, <1>6, <1>7, <1>8 DEF Next, RunStep

LEMMA SInvariance ==
  ASSUME PassesKeepRules
  PROVE  Spec => []SInv
  <1>1. Init => ResultsSound /\ CacheSound
    <2> SUFFICES ASSUME Init PROVE ResultsSound /\ CacheSound
      OBVIOUS
    <2>1. PICK o \in Options : prog = InitialState(o)
      BY DEF Init
    <2>2. \A k \in Keys : prog.results[k].tok = NoToken
      BY <2>1 DEF InitialState, NoEntry
    <2>3. prog \in States
      BY InitInv DEF IInv, StampsGood, WellFormed
    <2>4. Held(prog) = {}
      BY <2>2, <2>3, TokenType DEF Held
    <2>5. cache = EmptyCache
      BY DEF Init
    <2> QED
      BY <2>4, <2>5 DEF ResultsSound, CacheSound, EmptyCache, NoEntry
  <1>2. SInv /\ [Next]_vars => ResultsSound' /\ CacheSound'
    BY ResultsStep, CacheStep
  <1> QED
    BY <1>1, <1>2, LInvariance, PTL DEF SInv, Spec

\* When mutations that preserve anything go through the manager's commit,
\* mutating analyses preserve nothing and no slot is derived from itself, a
\* pass (PassManager.execute) is only ever invoked on current results, none of
\* them computed from a result that has been replaced since.
THEOREM InvokedOnSoundInputs ==
  ASSUME PassesKeepRules
  PROVE  Spec => []RequirementsMet
  <1>1. SInv => RequirementsMet
    BY ReadyInputs DEF RequirementsMet
  <1> QED
    BY <1>1, SInvariance, PTL

\* Under the same conditions a cached result that a lookup (PassCache.get) would
\* return was computed from results still in place, its solver object is still
\* in the session, and the fact table holds nothing of results that are not.
THEOREM OneLifecycle ==
  ASSUME PassesKeepRules
  PROVE  Spec => []NothingOutlivesResults
  <1>1. ASSUME SInv PROVE NothingOutlivesResults
    <2> SUFFICES ASSUME NEW n \in Passes, CacheHolds(n)
                 PROVE  cache[n].sound /\ (n \in Analyses => Key[n] \in Held(prog))
      BY <1>1 DEF NothingOutlivesResults, CacheCurrent, SInv, LInv
    <2>1. CacheToken(prog) # NoToken
      BY <1>1, TokenType DEF SInv, LInv, IInv, StampsGood, WellFormed
    <2> QED
      BY <1>1, <2>1, ValidStamp DEF SInv, LInv, IInv, CacheSound, CacheHolds, PassesKeepRules
  <1> QED
    BY <1>1, SInvariance, PTL

================================================================================
