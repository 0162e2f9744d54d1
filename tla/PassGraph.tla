------------------------------- MODULE PassGraph -------------------------------
(***************************************************************************)
(* The declarative side of the pass scheduler: the registered passes, what  *)
(* each one declares (application/passes/base.py, PassInfo) and what the     *)
(* manager derives from those declarations before it touches any state.      *)
(*                                                                           *)
(* A pass is named by its canonical name; aliases are resolved when the       *)
(* declarations are turned into these constants.  Prerequisites[p] is the    *)
(* list _iter_prerequisites returns: dependencies and requirements together, *)
(* resolved and in the manager's order.                                      *)
(***************************************************************************)
EXTENDS Integers, FiniteSets, Sequences

CONSTANTS
    Passes,         \* registered canonical pass names
    Kind,           \* [Passes -> Kinds]
    Prerequisites,  \* [Passes -> Seq(Passes)], in scheduling order
    Preserves,      \* [Passes -> SUBSET Passes]
    Invalidates,    \* [Passes -> SUBSET Passes]
    Key             \* AnalysisSession.analysis_key: the session slot of a pass

Kinds == {"analysis", "optimization", "transformation", "utility"}

Keys == {Key[p] : p \in Passes}

ASSUME PassGraphAssumption ==
    /\ IsFiniteSet(Passes)
    /\ Kind \in [Passes -> Kinds]
    /\ \A p \in Passes : Prerequisites[p] \in Seq(Passes)
    /\ Preserves \in [Passes -> SUBSET Passes]
    /\ Invalidates \in [Passes -> SUBSET Passes]

Analyses == {p \in Passes : Kind[p] = "analysis"}

PrerequisiteSet(p) == {Prerequisites[p][i] : i \in DOMAIN Prerequisites[p]}

\* The prerequisites that must hold a current result when p is invoked.
AnalysisInputs(p) == PrerequisiteSet(p) \cap Analyses

\* The prerequisites that only fix an order and are never replayed.
OrderingOnly(p) == PrerequisiteSet(p) \ Analyses

InputKeys(p) == {Key[q] : q \in AnalysisInputs(p)}

\* Two stages that share a session slot declare the same analysis inputs.  The
\* registered stages do (registry.py); the manager's retirement relies on it.
ASSUME SharedKeyAssumption ==
    \A p, q \in Analyses : Key[p] = Key[q] => InputKeys(p) = InputKeys(q)

(***************************************************************************)
(* What a mutation by p keeps: the declared preservations, less whatever is  *)
(* declared invalidated under its own name or under a shared session slot.   *)
(***************************************************************************)
Preserved(p) ==
    LET invalidatedKeys == {Key[q] : q \in Invalidates[p]}
    IN  {q \in Preserves[p] \ Invalidates[p] : Key[q] \notin invalidatedKeys}

(***************************************************************************)
(* Retirement: the session slots reached from the producer through declared  *)
(* analysis inputs, and every pass that reads one of them.  A stage sharing  *)
(* the producer's own slot is never retired.                                 *)
(***************************************************************************)
AffectedKeys(p) ==
    LET reached[i \in Nat] ==
          IF i = 0
          THEN {Key[p]}
          ELSE LET known == reached[i - 1]
                   readers == {q \in Analyses :
                                 Key[q] # Key[p] /\ InputKeys(q) \cap known # {}}
               IN  known \cup {Key[q] : q \in readers}
    IN  reached[Cardinality(Keys)]

Affected == [p \in Passes |-> AffectedKeys(p)]

\* Faulty variant: dependents are matched by pass name, so a second stage of the
\* same slot retires nothing.
RetiredByName(p) == {q \in Passes : q # p /\ p \in AnalysisInputs(q)}

\* Faulty variant: a stage also retires the other stages of its own slot.
RetiredWithSiblings(p) ==
    {q \in Passes \ {p} : Key[q] = Key[p] \/ InputKeys(q) \cap Affected[p] # {}}

Retired(p) ==
    {q \in Passes : Key[q] # Key[p] /\ InputKeys(q) \cap Affected[p] # {}}

================================================================================
