---------------------------- MODULE MCExploration ----------------------------
(***************************************************************************)
(* Small target programs for Exploration: nested branches with a contract, *)
(* tasks whose order decides a branch, cancellations that travel along     *)
(* awaits, and tasks that wait for one another; each under the limits that *)
(* end an exploration early.  Then programs whose conditions are not       *)
(* recorded as they are, and models that are not converted as they are.    *)
(***************************************************************************)
EXTENDS Exploration

MCTasks == {"main", "first", "second"}
MCInputs == {"i0", "i1", "i2", "i3"}
MCConditions == {"low", "even", "never", "early", "late", "kept"}

Truth ==
    [c \in MCConditions |->
        CASE c = "low" -> {"i0", "i1"}
          [] c = "even" -> {"i0", "i2"}
          [] c = "never" -> {}
          [] c = "early" -> {"i1", "i2"}
          [] c = "late" -> {"i3"}
          [] c = "kept" -> {"i0", "i1", "i3"}]

\* The last input has two assignments.
MCAssignments == MCInputs \cup {"alike"}
Value == [a \in MCAssignments |-> IF a = "alike" THEN "i3" ELSE a]

\* The expressions that say what the conditions say are called as these; then the
\* constants, and what is recorded of the sum below.
MCExpressions == MCConditions \cup {"true", "false", "x = 3", "x + 1 = 3"}
MCHolds ==
    [e \in MCExpressions |->
        CASE e \in MCConditions -> {a \in MCAssignments : Value[a] \in Truth[e]}
          [] e = "true" -> MCAssignments
          [] e = "false" -> {}
          [] e = "x = 3" -> {"i3", "alike"}
          [] e = "x + 1 = 3" -> {"i2"}]

Records == [c \in MCConditions |-> [i \in MCInputs |-> c]]

MCCells == {"new", "A", "B"}
Always(e) == [c \in MCCells |-> e]

If(e, yes, no) == [op |-> "if", asks |-> e, next |-> yes, otherwise |-> no]
Sleeps(next, handler) == [op |-> "sleep", next |-> next, handler |-> handler]
Awaits(t, next, handler) == [op |-> "await", task |-> t, next |-> next, handler |-> handler]
Creates(t, next) == [op |-> "create", task |-> t, next |-> next]
Cancels(t, next) == [op |-> "cancel", task |-> t, next |-> next]
Writes(v, next) == [op |-> "write", value |-> v, next |-> next]
Returns == [op |-> "return"]
Raises(handler) == [op |-> "raise", handler |-> handler]

Code(main, first, second) ==
    [t \in MCTasks |-> CASE t = "main" -> main [] t = "first" -> first [] t = "second" -> second]

\* if low: if even: return; raise.  elif never: return.  return.
Nested == Code(<<If(Always("low"), 2, 4), If(Always("even"), 3, 5), Returns,
                 If(Always("never"), 3, 3), Raises(0)>>, <<Returns>>, <<Returns>>)

\* Two tasks write the cell, one of them for some inputs only, and the entry asks
\* for what was written last.
Orders == Code(
    <<Creates("first", 2), Creates("second", 3), Awaits("first", 4, 0), Awaits("second", 5, 0),
      If([c \in MCCells |-> IF c = "A" THEN "early" ELSE "late"], 6, 6), Returns>>,
    <<Sleeps(2, 0), Writes("A", 3), Returns>>,
    <<If(Always("low"), 2, 3), Writes("B", 3), Returns>>)

\* The second task awaits the first and is cancelled; the first handles it.
Cancelling == Code(
    <<Creates("first", 2), Creates("second", 3), Sleeps(4, 0), Cancels("second", 5),
      Awaits("second", 6, 6),
      If([c \in MCCells |-> IF c = "A" THEN "early" ELSE "late"], 7, 7), Returns>>,
    <<Sleeps(2, 3), Returns, Writes("A", 4), Raises(0)>>,
    <<Awaits("first", 2, 0), Returns>>)

\* The two tasks await each other for some inputs, and for some of these the entry
\* cancels one of them.
Waiting == Code(
    <<Creates("first", 2), Creates("second", 3), Sleeps(4, 0), If(Always("even"), 5, 6),
      Cancels("first", 6), Awaits("second", 7, 7), Returns>>,
    <<Awaits("second", 2, 0), Returns>>,
    <<If(Always("low"), 2, 3), Awaits("first", 3, 0), Returns>>)

NoPromise == [c \in MCCells |-> "None"]

Base == [code |-> Nested, truth |-> Truth, records |-> Records, holds |-> MCHolds,
         value |-> Value, promise |-> NoPromise, initial |-> "i0",
         mode |-> "fifo", strategy |-> "fifo", maxPending |-> 10, maxIterations |-> 50,
         maxSolverCalls |-> 0, maxSchedules |-> 50, maxSwitches |-> 20, unknown |-> FALSE,
         uninteresting |-> FALSE, timeouts |-> {}]

Promising == [Base EXCEPT !.promise = Always("kept"), !.strategy = "coverage"]
Free(code) == [Base EXCEPT !.code = code, !.mode = "nondeterministic"]

\* What an operation came to is recorded, as with "&": a constant.
Concretized(c) ==
    [Records EXCEPT ![c] = [i \in MCInputs |-> IF i \in Truth[c] THEN "true" ELSE "false"]]

\* It is added to the input, as in (x & 1) + x = 3: what is recorded for even inputs
\* is true of an odd one, and the other way round.
Sum ==
    [Promising EXCEPT !.truth["low"] = {},
        !.records["low"] =
            [i \in MCInputs |-> IF i \in Truth["even"] THEN "x = 3" ELSE "x + 1 = 3"]]

\* A decision without a branch, as whether a divisor is zero.
Silent == [Records EXCEPT !["even"] = [i \in MCInputs |-> "None"]]

\* The only number that satisfies a constraint is converted to one that does not.
Rounded == [Value EXCEPT !["i1"] = "i0"]

MCScenarios == {
    Promising,
    [Promising EXCEPT !.records = Concretized("even")],
    [Promising EXCEPT !.records = Concretized("kept")],
    [Promising EXCEPT !.records = Silent],
    [Promising EXCEPT !.value = Rounded],
    Sum,
    [Free(Orders) EXCEPT !.records = Concretized("low")],
    [Promising EXCEPT !.unknown = TRUE],
    [Promising EXCEPT !.maxPending = 1],
    [Promising EXCEPT !.maxIterations = 2],
    [Promising EXCEPT !.maxSolverCalls = 2],
    [Promising EXCEPT !.uninteresting = TRUE],
    [Promising EXCEPT !.timeouts = {"timeout", "total_timeout"}],
    Free(Orders),
    [Free(Orders) EXCEPT !.promise = [NoPromise EXCEPT !["A"] = "kept"], !.initial = "i1"],
    [Free(Orders) EXCEPT !.maxSchedules = 3],
    [Free(Orders) EXCEPT !.maxPending = 3],
    [Free(Orders) EXCEPT !.maxSwitches = 5],
    [Base EXCEPT !.code = Orders],
    Free(Cancelling),
    [Free(Cancelling) EXCEPT !.timeouts = {"timeout"}, !.maxIterations = 3],
    Free(Waiting),
    [Base EXCEPT !.code = Waiting]}
===============================================================================
