----------------------------- MODULE AnalysisState -----------------------------
(***************************************************************************)
(* One program's analysis state: the IR catalog's identity and revision, the *)
(* FactStore's two epochs and the producers it holds facts of, and the       *)
(* session's options, result generation and result slots.  The operations    *)
(* are functions from one such record to the next, because a handler of the  *)
(* pass manager runs several of them in one uninterrupted step.              *)
(*                                                                           *)
(* Abstractions.  A capability is not told apart from its producer; the      *)
(* facts and solver objects themselves are dropped.  Because publication     *)
(* tags a snapshot with the store's own revision and advance_ir_revision     *)
(* retags or drops every one, a held snapshot is always current and `facts'  *)
(* is just the set of producers.  `sound' is not in the code: it records     *)
(* whether a result was computed from results that are still in place.       *)
(***************************************************************************)
EXTENDS PassGraph

CONSTANTS
    Options,    \* AnalysisOptions values a session can be configured with
    NoToken     \* the stamp of an entry that is not there

(***************************************************************************)
(* The three stamps: of a solver result, of a cached pass result, and of an   *)
(* availability marker.                                                      *)
(***************************************************************************)
ResultTokens == Nat \X Nat \X Options
CacheTokens  == Nat \X Nat \X Nat \X Options \X Nat
MarkerTokens == Nat \X Nat \X Options \X Nat \X Nat

ASSUME NoTokenAssumption == NoToken \notin ResultTokens \cup CacheTokens \cup MarkerTokens

ResultToken(s) == <<s.cat, s.rev, s.opt>>
CacheToken(s)  == <<s.cat, s.rev, s.frev, s.opt, s.gen>>

\* Faulty variant: a marker stamp that is the cache's.
MarkerTokenWithFacts(s) == CacheToken(s)

MarkerToken(s) == <<s.cat, s.rev, s.opt, s.gen, s.inval>>

\* An entry of the results mapping or of the cache.
Entries(tokens) == [tok : tokens \cup {NoToken}, sound : BOOLEAN]
NoEntry == [tok |-> NoToken, sound |-> FALSE]

Results == [Keys -> Entries(ResultTokens)]

States ==
    [cat : Nat, rev : Nat, opt : Options, gen : Nat, frev : Nat, inval : Nat,
     facts : SUBSET Keys, results : Results]

InitialState(o) ==
    [cat |-> 0, rev |-> 0, opt |-> o, gen |-> 0, frev |-> 0, inval |-> 0,
     facts |-> {}, results |-> [k \in Keys |-> NoEntry]]

\* The slots the results mapping shows: entries stamped with the current token.
Held(s) == {k \in Keys : s.results[k].tok = ResultToken(s)}

(***************************************************************************)
(* FactStore.                                                                *)
(***************************************************************************)
Publish(s, k) == [s EXCEPT !.facts = @ \cup {k}, !.frev = @ + 1]

RetainProducers(s, producers) ==
    IF s.facts \subseteq producers
    THEN s
    ELSE [s EXCEPT !.facts = @ \cap producers, !.frev = @ + 1, !.inval = @ + 1]

InvalidateFacts(s, producers) == RetainProducers(s, s.facts \ producers)

(***************************************************************************)
(* IRCatalog.commit_revision and FactStore.advance_ir_revision: the next      *)
(* revision, carrying over the facts of the preserved capabilities only.     *)
(***************************************************************************)
CommitRevision(s, preserved) ==
    [s EXCEPT !.rev = @ + 1, !.facts = @ \cap preserved,
              !.frev = @ + 1, !.inval = @ + 1]

\* Faulty variant: stamps that do not tell catalogs apart.
ReplaceCatalogUnnoticed(s) == [s EXCEPT !.rev = 0, !.frev = 0, !.inval = 0, !.facts = {}]

\* program.ir = IRCatalog(): a new identity whose counters start again.
ReplaceCatalog(s) ==
    [s EXCEPT !.cat = @ + 1, !.rev = 0, !.frev = 0, !.inval = 0, !.facts = {}]

(***************************************************************************)
(* AnalysisResults and AnalysisSession.                                      *)
(***************************************************************************)
\* retain: keep these slots and stamp each with the current token.
RetainResults(s, ks) ==
    [s EXCEPT !.results =
                 [k \in Keys |->
                    IF k \in ks /\ s.results[k].tok # NoToken
                    THEN [tok |-> ResultToken(s), sound |-> s.results[k].sound]
                    ELSE NoEntry],
              !.gen = @ + 1]

\* invalidate: these slots are emptied.
DropResults(s, ks) ==
    [s EXCEPT !.results = [k \in Keys |-> IF k \in ks THEN NoEntry ELSE s.results[k]],
              !.gen = @ + 1]

\* Faulty variant: the solver object goes, its published facts stay.
InvalidateSlotsOnly(s, ks) == DropResults(s, ks)

InvalidateResults(s, ks) == InvalidateFacts(DropResults(s, ks), ks)

Configure(s, o) ==
    LET retired == RetainResults([s EXCEPT !.opt = o], {})
    IN  RetainProducers(retired, {})

\* Faulty variant: preservation is not limited to the results still current.
MarkChangedReviving(s, preserved) ==
    LET keys     == {Key[p] : p \in preserved}
        retained == RetainProducers(s, keys)
    IN  RetainResults(CommitRevision(retained, retained.facts), keys)

MarkChanged(s, preserved) ==
    LET keys     == {Key[p] : p \in preserved}
        retained == RetainProducers(s, keys)
        advanced == CommitRevision(retained, retained.facts)
    IN  RetainResults(advanced, keys \cap Held(s))

(***************************************************************************)
(* Slots whose result was derived, through declared analysis inputs, from     *)
(* slot k: the reference against which retirement is checked.                *)
(***************************************************************************)
KeyInputs(k) == UNION {InputKeys(p) : p \in {q \in Analyses : Key[q] = k}}

AncestorsOf(k) ==
    LET up[i \in Nat] ==
          IF i = 0 THEN KeyInputs(k)
          ELSE LET known == up[i - 1] IN known \cup UNION {KeyInputs(j) : j \in known}
    IN  up[Cardinality(Keys)]

AncestorKeys == [k \in Keys |-> AncestorsOf(k)]

\* Everything p's output was computed from.
Sources(p) == InputKeys(p) \cup UNION {AncestorKeys[k] : k \in InputKeys(p)}

InputsSound(s, p) ==
    \A k \in InputKeys(p) : k \in Held(s) /\ s.results[k].sound

\* record_result: the slot gets a fresh object, whatever was derived from the
\* previous one no longer matches it.
RecordResult(s, p, sound) ==
    [s EXCEPT !.results =
        [k \in Keys |->
            IF k = Key[p]
            THEN [tok |-> ResultToken(s), sound |-> sound]
            ELSE [tok |-> s.results[k].tok,
                  sound |-> s.results[k].sound /\ Key[p] \notin AncestorKeys[k]]]]

================================================================================
