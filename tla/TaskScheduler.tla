---------------------------- MODULE TaskScheduler ----------------------------
(***************************************************************************)
(* One execution of an asynchronous target program by the concolic         *)
(* interpreter: _drive_coroutine and its helpers                           *)
(* (pyflow/concolic/resumable/scheduler.py), awaits (coroutines.py), and   *)
(* the task operations of interpreter/calls.py.                            *)
(*                                                                         *)
(* A target program is data: for each task the sequence of its statements  *)
(* that matter to the scheduler.  One shared cell stands for the program's *)
(* memory: what a branch asks may depend on its content, so that another   *)
(* schedule can take another path.                                         *)
(*                                                                         *)
(* What a branch asks is a condition, which is true of some inputs.  What  *)
(* the interpreter records of it is an expression, computed beside the     *)
(* value; the two need not say the same, and the expression may depend on  *)
(* the input, because some operations record the value they came to.       *)
(***************************************************************************)
EXTENDS Integers, Sequences, FiniteSetsExt

CONSTANTS
    Tasks, Main,     \* the coroutines of the target; the entry coroutine
    Inputs,
    Cells,           \* what the memory may hold
    Conditions,      \* what a branch may ask
    Expressions,     \* what may be recorded of it
    None,
    Scenarios        \* target programs, with the options of the exploration

ASSUME MainAssumption == Main \in Tasks /\ None \notin Tasks \cup Expressions

\* The memory of a new execution, and for each condition the inputs it is true of
\* and what is recorded when it is evaluated: None is a decision without a branch.
ASSUME ConditionsAssumption ==
    /\ "new" \in Cells
    /\ \A s \in Scenarios :
        /\ s.truth \in [Conditions -> SUBSET Inputs]
        /\ s.records \in [Conditions -> [Inputs -> Expressions \cup {None}]]

\* Every statement leads to statements of its own task, or ends it.
ASSUME ProgramsAssumption ==
    \A s \in Scenarios, t \in Tasks :
        /\ DOMAIN s.code[t] \subseteq Nat /\ 1 \in DOMAIN s.code[t]
        /\ \A pc \in DOMAIN s.code[t] :
            LET now == s.code[t][pc]
            IN  /\ now.op \in {"sleep", "await", "create", "cancel", "if", "write"} =>
                    now.next \in DOMAIN s.code[t]
                /\ now.op = "if" => /\ now.otherwise \in DOMAIN s.code[t]
                                    /\ now.asks \in [Cells -> Conditions]
                /\ now.op = "write" => now.value \in Cells
                /\ now.op \in {"sleep", "await", "raise"} /\ now.handler # 0 =>
                    now.handler \in DOMAIN s.code[t]
                /\ now.op \in {"await", "create", "cancel"} => now.task \in Tasks

VARIABLES
    scenario,
    input,       \* the input of this execution
    prefix,      \* the choices it has to repeat: _schedule_prefix
    unguided,    \* the reference's executions choose freely
    task,        \* [Tasks -> the fields of _TaskValue and the task's frame]
    tasks,       \* _tasks: in the order of their creation, the entry first
    clock,       \* _scheduler_clock
    choices,     \* _schedule_choices: pairs of a count and the index chosen
    path,        \* the branches recorded: pairs of an expression and the outcome
    cell,        \* the target's memory
    current,     \* the task that runs
    thrown,      \* it is resumed with a CancelledError
    switches,    \* _task_switches
    outcome      \* how the execution ended, "running", or "none" before the first

runVars == <<input, prefix, unguided, task, tasks, clock, choices, path, cell,
             current, thrown, switches, outcome>>

Exists(t) == task[t].state # "none"
Done(t) == task[t].state \in {"returned", "failed", "cancelled"}

NotCreated == [state |-> "none", pc |-> 1, asleep |-> FALSE, blocked |-> None,
               cancel |-> FALSE, order |-> 0]

\* FAULTY: a new task is not marked ready.
CreatedUnmarked(at) == [NotCreated EXCEPT !.state = "live"]

Created(at) == [NotCreated EXCEPT !.state = "live", !.order = at]

TypeOK ==
    /\ scenario \in Scenarios
    /\ \A t \in Tasks :
        /\ task[t].state \in {"none", "live", "returned", "failed", "cancelled"}
        /\ task[t].state # "none" <=> \E i \in DOMAIN tasks : tasks[i] = t
        /\ task[t].state = "live" => task[t].pc \in DOMAIN scenario.code[t]
        /\ task[t].blocked # None => task[t].asleep /\ task[task[t].blocked].state # "none"
        /\ outcome = "running" /\ task[t].state = "live" /\ t # current /\ task[t].pc # 1
            => task[t].asleep
        /\ \A u \in Tasks \ {t} :
            task[t].state = "live" /\ task[u].state = "live" => task[t].order # task[u].order
    /\ \A i \in DOMAIN choices : choices[i][2] \in 0..(choices[i][1] - 1)
    /\ outcome \in {"none", "running", "returned", "failed", "cancelled", "deadlocked",
                    "limit", "timeout", "total_timeout"}
    /\ current # None => task[current].state = "live" /\ outcome = "running"

Idle ==
    /\ input \in {i \in Inputs : i = scenario.initial}
    /\ prefix = <<>> /\ unguided = FALSE
    /\ task = [t \in Tasks |-> NotCreated] /\ tasks = <<>> /\ clock = 0
    /\ choices = <<>> /\ path = <<>> /\ cell = "new"
    /\ current = None /\ thrown = FALSE /\ switches = 0
    /\ outcome = "none"

\* A new executor for the input i, told to repeat the choices p.
Start(i, p, free) ==
    /\ input' = i /\ prefix' = p /\ unguided' = free
    /\ task' = [t \in Tasks |-> IF t = Main THEN Created(0) ELSE NotCreated]
    /\ tasks' = <<Main>> /\ clock' = 1
    /\ choices' = <<>> /\ path' = <<>> /\ cell' = "new"
    /\ current' = None /\ thrown' = FALSE /\ switches' = 0
    /\ outcome' = "running"

Between == outcome = "running" /\ current = None

-------------------------------------------------------------------------------
(* Which task runs next. *)

Ready ==
    {t \in Tasks :
        ~Done(t) /\ (task[t].cancel \/ task[t].blocked = None \/ Done(task[t].blocked))}

\* The elements of s that are in S, in their order.
InOrder(s, S) ==
    LET kept[n \in 0..Len(s)] ==
            IF n = 0 THEN <<>>
            ELSE IF s[n] \in S THEN Append(kept[n - 1], s[n]) ELSE kept[n - 1]
    IN  kept[Len(s)]

Candidates == InOrder(tasks, Ready)

\* FAULTY: the prefix lists choices among several candidates only.
RepeatedAmongSeveral(count) ==
    LET position == Len(SelectSeq(choices, LAMBDA c : c[1] > 1))
    IN  IF count <= 1 \/ position >= Len(prefix) THEN 0 ELSE prefix[position + 1] % count

Repeated(count) ==
    IF count <= 1 \/ Len(choices) >= Len(prefix) THEN 0 ELSE prefix[Len(choices) + 1] % count

\* t runs before u in the "fifo" mode: cancelled tasks first.
Earlier(t, u) ==
    \/ task[t].cancel /\ ~task[u].cancel
    \/ task[t].cancel = task[u].cancel /\ task[t].order <= task[u].order

\* _choose_task_index, the indices counted from zero.
Indices(candidates) == 0..(Len(candidates) - 1)

First(candidates) ==
    Min({i \in Indices(candidates) :
            \A j \in Indices(candidates) : Earlier(candidates[i + 1], candidates[j + 1])})

Choice(candidates) ==
    CASE scenario.mode = "fifo" -> {First(candidates)}
      [] scenario.mode # "fifo" /\ unguided -> Indices(candidates)
      [] scenario.mode # "fifo" /\ ~unguided -> {Repeated(Len(candidates))}

Resume ==
    /\ Between /\ ~Done(Main) /\ Candidates # <<>>
    /\ \E i \in Choice(Candidates) :
        LET t == Candidates[i + 1]
        IN  /\ choices' = Append(choices, <<Len(Candidates), i>>)
            /\ current' = t
            /\ thrown' = task[t].cancel
            /\ task' = [task EXCEPT ![t].blocked = None, ![t].cancel = FALSE]
    /\ UNCHANGED <<scenario, input, prefix, unguided, tasks, clock, path, cell, switches, outcome>>

\* Nobody can run: an error of the target program.
Deadlock ==
    /\ Between /\ ~Done(Main) /\ Candidates = <<>>
    /\ outcome' = "deadlocked"
    /\ UNCHANGED <<scenario, input, prefix, unguided, task, tasks, clock, choices, path, cell,
                   current, thrown, switches>>

\* What the entry coroutine raised or returned.  Its unfinished tasks are closed.
End ==
    /\ Between /\ Done(Main)
    /\ outcome' = task[Main].state
    /\ UNCHANGED <<scenario, input, prefix, unguided, task, tasks, clock, choices, path, cell,
                   current, thrown, switches>>

\* A deadline is checked at every statement and every switch.  The reference's
\* executions have none.
Expire ==
    /\ outcome = "running" /\ ~unguided
    /\ outcome' \in scenario.timeouts
    /\ current' = None
    /\ UNCHANGED <<scenario, input, prefix, unguided, task, tasks, clock, choices, path, cell,
                   thrown, switches>>

-------------------------------------------------------------------------------
(* A turn of the current task: statements up to its next suspension. *)

Now == scenario.code[current][task[current].pc]
Runs(op) == current # None /\ Now.op = op

\* The turn is over, and the limit of switches is checked.
LeaveWith(changed) ==
    /\ task' = changed
    /\ current' = None /\ thrown' = FALSE
    /\ switches' = switches + 1
    /\ outcome' = IF switches + 1 > scenario.maxSwitches THEN "limit" ELSE outcome

Finish(how) ==
    /\ LeaveWith([task EXCEPT ![current].state = how])
    /\ clock' = clock

\* The task goes on at the statement pc.
Proceed(changed, pc) ==
    /\ task' = [changed EXCEPT ![current].pc = pc, ![current].asleep = FALSE]
    /\ thrown' = FALSE
    /\ UNCHANGED <<clock, current, switches, outcome>>

\* An exception at the current statement: handled, or the end of the task.
Throw(exception) ==
    \/ Now.handler # 0 /\ Proceed(task, Now.handler)
    \/ Now.handler = 0 /\ Finish(exception)

\* Cancelled before its first statement: no handler is entered yet.
CancelUnstarted ==
    /\ current # None /\ thrown /\ ~task[current].asleep
    /\ Finish("cancelled")
    /\ UNCHANGED <<scenario, input, prefix, unguided, tasks, choices, path, cell>>

\* await asyncio.sleep(...): ready again at once, behind the others.
Sleep ==
    /\ Runs("sleep")
    /\ \/ /\ ~task[current].asleep /\ ~thrown
          /\ LeaveWith([task EXCEPT ![current].asleep = TRUE, ![current].order = clock])
          /\ clock' = clock + 1
       \/ task[current].asleep /\ ~thrown /\ Proceed(task, Now.next)
       \/ task[current].asleep /\ thrown /\ Throw("cancelled")
    /\ UNCHANGED <<scenario, input, prefix, unguided, tasks, choices, path, cell>>

\* A task awaits another that is not done: a program can only name one that exists.  A cancellation that arrives here is
\* handed on to the task awaited, and this one goes on waiting.
AwaitMore ==
    /\ Runs("await") /\ (thrown => task[current].asleep)
    /\ Exists(Now.task) /\ ~Done(Now.task)
    /\ LeaveWith([task EXCEPT ![current].asleep = TRUE, ![current].blocked = Now.task,
                              ![Now.task].cancel = @ \/ thrown])
    /\ UNCHANGED <<scenario, input, prefix, unguided, tasks, clock, choices, path, cell>>

\* The task awaited is done: its result, or its exception.  A cancellation that
\* arrives only now has no effect.
AwaitResult ==
    /\ Runs("await") /\ (thrown => task[current].asleep) /\ Done(Now.task)
    /\ IF task[Now.task].state = "returned"
       THEN Proceed(task, Now.next)
       ELSE Throw(task[Now.task].state)
    /\ UNCHANGED <<scenario, input, prefix, unguided, tasks, choices, path, cell>>

\* Each task is another object: a statement that creates it runs once.
Create ==
    /\ Runs("create") /\ ~thrown /\ ~Exists(Now.task)
    /\ tasks' = Append(tasks, Now.task)
    /\ task' = [task EXCEPT ![Now.task] = Created(clock), ![current].pc = Now.next]
    /\ clock' = clock + 1
    /\ UNCHANGED <<scenario, input, prefix, unguided, choices, path, cell, current, thrown,
                   switches, outcome>>

\* task.cancel(): a request, unless the task is done.
Cancel ==
    /\ Runs("cancel") /\ ~thrown /\ Exists(Now.task)
    /\ Proceed([task EXCEPT ![Now.task].cancel = @ \/ ~Done(Now.task)], Now.next)
    /\ UNCHANGED <<scenario, input, prefix, unguided, tasks, choices, path, cell>>

\* A branch follows the value of its condition; _record_branch notes the expression
\* that was computed beside it, if this is one of the decisions that call it.
Branch ==
    /\ Runs("if") /\ ~thrown
    /\ LET asked == Now.asks[cell]
           taken == input \in scenario.truth[asked]
           noted == scenario.records[asked][input]
       IN  /\ path' = IF noted = None THEN path ELSE Append(path, <<noted, taken>>)
           /\ Proceed(task, IF taken THEN Now.next ELSE Now.otherwise)
    /\ UNCHANGED <<scenario, input, prefix, unguided, tasks, choices, cell>>

Write ==
    /\ Runs("write") /\ ~thrown
    /\ cell' = Now.value
    /\ Proceed(task, Now.next)
    /\ UNCHANGED <<scenario, input, prefix, unguided, tasks, choices, path>>

Return ==
    /\ Runs("return") /\ ~thrown
    /\ Finish("returned")
    /\ UNCHANGED <<scenario, input, prefix, unguided, tasks, choices, path, cell>>

Raise ==
    /\ Runs("raise") /\ ~thrown
    /\ Throw("failed")
    /\ UNCHANGED <<scenario, input, prefix, unguided, tasks, choices, path, cell>>

Turn ==
    \/ CancelUnstarted \/ Sleep \/ AwaitMore \/ AwaitResult \/ Create \/ Cancel
    \/ Branch \/ Write \/ Return \/ Raise

\* FAULTY: without a candidate the scheduler waits.
ExecuteWaiting == Resume \/ End \/ Turn \/ Expire

Execute == Resume \/ Deadlock \/ End \/ Turn \/ Expire

-------------------------------------------------------------------------------
(* Properties. *)

\* An execution repeats the schedule it was queued with, choice by choice, and
\* does not end before: a target is deterministic once its choices are fixed, and
\* the positions recorded by one execution are those the next one reads.
PrefixReplayed ==
    ~unguided =>
        /\ \A i \in DOMAIN choices : i <= Len(prefix) => choices[i][2] = prefix[i]
        /\ outcome \in {"returned", "failed", "cancelled", "deadlocked", "limit"} =>
            Len(choices) >= Len(prefix)
===============================================================================
