----------------------------- MODULE MCTabulation -----------------------------
(***************************************************************************)
(* Small dataflow problems for the solvers of Tabulation and JumpFunctions, *)
(* and the exploration of concrete call stacks that their results are      *)
(* compared with.  A problem whose name is "labelling" is one for the IDE  *)
(* solver: its facts carry sets of labels.                                 *)
(***************************************************************************)
EXTENDS Tabulation, FiniteSets, TLC

CONSTANTS MaxStack,       \* activations of a walk, and of the exploration
          Names           \* the problems of this run

VARIABLES jumps, pending, calls, endings, sources     \* those of JumpFunctions

\* A main procedure with two calls of a helper, one after the other.
MCNodes == {"m0", "r1", "r2", "h0", "hr", "hx"}
MCProcedures == {"main", "helper"}
MCFacts == {"a", "b"}

TwoCalls ==
    [owner |-> [n \in MCNodes |-> IF n \in {"m0", "r1", "r2"} THEN "main" ELSE "helper"],
     normal |-> {<<"h0", "hx">>},
     calls |-> {<<"m0", "helper">>, <<"r1", "helper">>},
     sites |-> {<<"m0", "r1">>, <<"r1", "r2">>},
     entry |-> [f \in MCProcedures |-> IF f = "main" THEN "m0" ELSE "h0"],
     exits |-> [f \in MCProcedures |-> IF f = "main" THEN {"r2"} ELSE {"hx"}]]

\* The same with one call, of a helper that calls itself at the node where it
\* may also end.
Recursive ==
    [TwoCalls EXCEPT !.calls = {<<"m0", "helper">>, <<"h0", "helper">>},
                     !.sites = {<<"m0", "r1">>, <<"h0", "hr">>},
                     !.normal = {<<"hr", "hx">>},
                     !.exits["helper"] = {"h0", "hx"}]

\* And with both calls.
RecursiveTwice ==
    [Recursive EXCEPT !.calls = @ \cup TwoCalls.calls, !.sites = @ \cup TwoCalls.sites]

\* Two calls of a helper that loops.
Looping == [TwoCalls EXCEPT !.normal = @ \cup {<<"hx", "h0">>}]

Problem(name, direction, depth, limits, seeds, graph) ==
    [name |-> name, direction |-> direction, depth |-> depth, limits |-> limits,
     seeds |-> seeds, graph |-> graph]

AllProblems == {
    Problem("carrying", "forward", 0, "partial", {<<"m0", "a">>}, TwoCalls),
    Problem("carrying", "forward", 1, "raise", {<<"m0", "a">>, <<"h0", "b">>}, TwoCalls),
    Problem("counting", "forward", 0, "none", {<<"m0", "a">>}, Recursive),
    Problem("counting", "forward", 1, "partial", {<<"m0", "a">>}, Recursive),
    Problem("counting", "forward", 2, "none", {<<"m0", "a">>}, Recursive),
    Problem("counting", "forward", 0, "none", {<<"m0", "b">>}, RecursiveTwice),
    Problem("passing", "backward", 0, "partial", {<<"r2", "a">>, <<"r1", "b">>}, TwoCalls),
    Problem("guarding", "backward", 0, "raise", {<<"r2", "a">>}, TwoCalls),
    Problem("counting", "backward", 0, "none", {<<"hx", "a">>, <<"r1", "b">>}, Recursive),
    Problem("choosing", "backward", 0, "none", {<<"r2", "b">>}, TwoCalls),
    Problem("labelling", "forward", 0, "none", {<<"m0", "a">>}, Looping),
    Problem("labelling", "forward", 1, "partial", {<<"m0", "a">>, <<"h0", "b">>}, TwoCalls),
    Problem("labelling", "forward", 0, "none", {<<"m0", "b">>}, RecursiveTwice),
    Problem("labelling", "forward", 2, "none", {<<"m0", "a">>}, Recursive)}

MCProblems == {p \in AllProblems : p.name \in Names}

Other(d) == IF d = "a" THEN "b" ELSE "a"

\* "carrying" swaps the facts at the second call, so that a and b pass through
\* the helper for one caller each; "counting" swaps them at each call, and the
\* caller's own fact decides what comes back.  Backwards, "passing" gives the
\* caller the fact it sent; "guarding" lets only a through the helper, and like
\* "counting" it looks at the return site but not at the fact.
MCNormalFlow(p, n, m, d) == IF p.name = "guarding" THEN {d} \ {"b"} ELSE {d}

MCBypassFlow(p, n, m, d) == IF p.name \in {"carrying", "labelling"} THEN {d} \ {"a"} ELSE {}

MCCallFlow(p, n, f, d) ==
    CASE p.name = "carrying" -> IF n = "r1" THEN {Other(d)} ELSE {d}
      [] p.name = "counting" -> {Other(d)}
      [] p.name = "labelling" -> IF n = "m0" THEN {"a"} ELSE {d}
      [] p.name = "choosing" -> {"a"}
      [] OTHER -> {d}

MCReturnFlow(p, n, f, x, r, c, d) ==
    IF p.name = "counting" /\ c = d THEN {"a", "b"} ELSE {d}

MCBackwardReturnFlow(p, n, f, x, c) ==
    CASE p.name = "guarding" -> IF n = "r2" THEN {"b"} ELSE {"a", "b"}
      [] p.name = "counting" -> IF n = "hr" THEN {"a"} ELSE {"a", "b"}
      [] OTHER -> {c}

-------------------------------------------------------------------------------
(* The values of "labelling": sets of labels, and functions on them that do *)
(* not commute.                                                            *)

Values == SUBSET {"one", "two"}
BottomValue == {}
JoinValues(v, w) == v \cup w
SeedValue(p, s) == IF s[2] = "a" THEN {} ELSE {"two"}

Primitives == {"addOne", "addTwo", "onlyTwo", "justOne"}
Constants == {"justOne"}
Idempotent == Primitives
Compute(f, v) ==
    CASE f = "addOne" -> v \cup {"one"}
      [] f = "addTwo" -> v \cup {"two"}
      [] f = "onlyTwo" -> v \cap {"two"}
      [] OTHER -> {"one"}

NormalFunction(p, n, m, d, e) ==
    CASE n = "h0" -> {<<"addTwo">>}
      [] n = "hx" -> {<<"justOne">>}
      [] OTHER -> {<<>>}
BypassFunction(p, n, m, d, e) == {<<"justOne">>}
CallFunction(p, n, f, d, e) ==
    CASE n = "m0" -> IF d = "a" THEN {<<"addOne">>} ELSE {<<>>, <<"addTwo">>}
      [] n = "r1" -> {<<"onlyTwo">>}
      [] OTHER -> {<<"addOne">>}
ReturnFunction(p, n, f, x, r, c, d, e) ==
    IF n = "h0" THEN {<<"onlyTwo">>} ELSE {<<>>}

IDE == INSTANCE JumpFunctions

ASSUME LabellingAssumption ==
    /\ IDE!FunctionsAreTyped /\ IDE!ValuesAreTyped /\ IDE!PrimitivesAreRight
    /\ IDE!JoinIsRight /\ IDE!PrimitivesDistribute
    /\ \A p \in MCProblems : IDE!CallsContinue(p)

-------------------------------------------------------------------------------
(* The oracle: every configuration within MaxStack activations. *)

RECURSIVE Explored(_, _)
Explored(p, stacks) ==
    LET next == stacks \cup UNION {Onward(p, s) \cup Deeper(p, s) \cup Back(p, s) : s \in stacks}
        within == {s \in next : Len(s) <= MaxStack}
    IN  IF within = stacks THEN stacks ELSE Explored(p, within)

Reference ==
    [p \in MCProblems |->
        {<<Top(s).from.ctx, Top(s).at>> : s \in Explored(p, {<<e>> : e \in Seeds(p)})}]

Reached == {<<e.from.ctx, e.at>> : e \in seen}

\* Nothing is reported that no path reaches: in no context and in no order does
\* a fact return from a callee to a caller that did not send it, in partial
\* results no more than in complete ones.
NothingSpurious == ReplayAgrees => Reached \subseteq Reference[problem]

\* The same with the values that arrive.
Stepped(p, s, v) ==
    LET e == Top(s)
    IN  {<<[s EXCEPT ![Len(s)] = m],
           IDE!Image(IF m.at[1] \in Successors(p, e.at[1])
                     THEN NormalFunction(p, e.at[1], m.at[1], e.at[2], m.at[2])
                     ELSE BypassFunction(p, e.at[1], m.at[1], e.at[2], m.at[2]), v)>> :
            m \in Moves(p, e)}
        \cup {<<Append(s, EntryEdge(k)),
                IDE!Image(CallFunction(p, e.at[1], p.graph.owner[k.point[1]], e.at[2],
                                       k.point[2]), v)>> : k \in Entered(p, e)}
        \cup {<<t, IDE!Image(ReturnFunction(p, s[Len(s) - 1].at[1], p.graph.owner[e.at[1]],
                                            e.at[1], Top(t).at[1], s[Len(s) - 1].at[2], e.at[2],
                                            Top(t).at[2]), v)>> :
                t \in Back(p, s)}

RECURSIVE Valued(_, _)
Valued(p, found) ==
    LET next == found \cup UNION {Stepped(p, f[1], f[2]) : f \in found}
        within == {f \in next : Len(f[1]) <= MaxStack}
    IN  IF within = found THEN found ELSE Valued(p, within)

ReferenceValues ==
    [p \in {q \in MCProblems : q.name = "labelling"} |->
        {<<Top(f[1]).from.ctx, Top(f[1]).at, f[2]>> :
            f \in Valued(p, {<<<<e>>, SeedValue(p, e.at)>> : e \in Seeds(p)})}]

\* The value of a point in some contexts, over all paths.
OverAllPaths(at, ctxs) ==
    LET arriving == {r[3] : r \in {r \in ReferenceValues[problem] : r[2] = at /\ r[1] \in ctxs}}
    IN  IF arriving = {} THEN BottomValue ELSE IDE!JoinAll(arriving)

\* A complete result gives each point, alone and in each context, the join of
\* the values all its paths carry there, whatever was queued again, in which
\* order, and however values reached the callees; a partial one gives no more.
ValuesExact ==
    problem.name = "labelling" =>
        IDE!TypeOK /\
        LET contexts == {r[1] : r \in ReferenceValues[problem]}
        IN  \A at \in Points : \A ctxs \in {{c} : c \in contexts} \cup {contexts} :
                LET value == IDE!ValueAt(at, ctxs)
                    all == OverAllPaths(at, ctxs)
                IN  /\ status = "complete" => value = all
                    /\ status \in Ended => JoinValues(value, all) = all

-------------------------------------------------------------------------------
(* One solve. *)

ideVars == <<jumps, pending, calls, endings, sources>>

MCInit == Init /\ IDE!Init

MCSolve ==
    \/ /\ problem.name = "labelling"
       /\ IDE!Solve /\ UNCHANGED <<path, seen, work, incoming, summaries>>
    \/ problem.name # "labelling" /\ Solve /\ UNCHANGED ideVars

\* Walks stay within MaxStack activations.
MCNext ==
    \/ MCSolve
    \/ CancelSolve /\ UNCHANGED ideVars
    \/ problem.name # "labelling" /\ WalkOn /\ Len(path') <= MaxStack /\ UNCHANGED ideVars

MCSpec == MCInit /\ [][MCNext]_<<vars, ideVars>> /\ WF_<<vars, ideVars>>(MCSolve)
===============================================================================
