--------------------------- MODULE ExplorationProofs ---------------------------
(***************************************************************************)
(* What explore_file promises when it says that it is exhausted, for every *)
(* set of tasks, programs, inputs and scenarios: how the schedules are     *)
(* repeated, whatever is recorded of the conditions; and what is found, of *)
(* the scenarios that are Exact.                                           *)
(*                                                                         *)
(* An execution is a value (Frame), and one step of the scheduler leads    *)
(* from one value to the next (Follows, which is deterministic but for the *)
(* choice of a task, and looks at the input only where the target          *)
(* branches).  A history is a sequence of such values.  It follows that    *)
(*   - a queued schedule is the start of an execution's choices, so a run  *)
(*     that repeats them passes the same values (Replaying);               *)
(*   - every schedule of an input that was run is the schedule of a run or *)
(*     agrees with a run up to a choice whose alternative is queued        *)
(*     (Accounted, Executed), so that by induction on the choices that     *)
(*     agree every execution of the input is a run once nothing is queued; *)
(*   - where conditions are recorded exactly (Exact), a path says which    *)
(*     inputs take it (OwnPath, SameBranches, AnswersTake);                *)
(*   - then the other side of each branch of a run was answered: an input  *)
(*     that takes it is queued, or none exists (Looping, Targets).  By     *)
(*     induction on the branches that agree, every input's executions are  *)
(*     among the runs;                                                     *)
(*   - the contract was checked on the path of every run (Contracts).      *)
(***************************************************************************)
EXTENDS Exploration, WellFoundedInduction, TLAPS

--------------------------------------------------------------------------------
(* One execution as a value, and what follows it. *)

Frame ==
    [task |-> task, tasks |-> tasks, clock |-> clock, choices |-> choices, path |-> path,
     cell |-> cell, current |-> current, thrown |-> thrown, switches |-> switches,
     outcome |-> outcome]

Started ==
    [task |-> [t \in Tasks |-> IF t = Main THEN Created(0) ELSE NotCreated],
     tasks |-> <<Main>>, clock |-> 1, choices |-> <<>>, path |-> <<>>, cell |-> "new",
     current |-> None, thrown |-> FALSE, switches |-> 0, outcome |-> "running"]

DoneIn(c, t) == c.task[t].state \in {"returned", "failed", "cancelled"}

CandidatesIn(c) ==
    InOrder(c.tasks,
        {t \in Tasks : ~DoneIn(c, t) /\ (c.task[t].cancel \/ c.task[t].blocked = None
                                            \/ DoneIn(c, c.task[t].blocked))})

EarlierIn(c, t, u) ==
    \/ c.task[t].cancel /\ ~c.task[u].cancel
    \/ c.task[t].cancel = c.task[u].cancel /\ c.task[t].order <= c.task[u].order

\* A task is chosen next.
Choosing(c) == c.current = None /\ ~DoneIn(c, Main) /\ CandidatesIn(c) # <<>>

\* What may be chosen.
FirstIn(c) ==
    Min({i \in Indices(CandidatesIn(c)) : \A j \in Indices(CandidatesIn(c)) :
            EarlierIn(c, CandidatesIn(c)[i + 1], CandidatesIn(c)[j + 1])})

Offered(sc, c) ==
    IF sc.mode = "fifo" THEN {FirstIn(c)} ELSE Indices(CandidatesIn(c)) \cup {0}

\* c with the choice k.
Chosen(c, k) ==
    LET t == CandidatesIn(c)[k + 1]
    IN  [task |-> [c.task EXCEPT ![t].blocked = None, ![t].cancel = FALSE],
         tasks |-> c.tasks, clock |-> c.clock,
         choices |-> Append(c.choices, <<Len(CandidatesIn(c)), k>>), path |-> c.path,
         cell |-> c.cell, current |-> t, thrown |-> c.task[t].cancel,
         switches |-> c.switches, outcome |-> c.outcome]

\* c where nothing is chosen and no task runs.
Rested(c) ==
    [task |-> c.task, tasks |-> c.tasks, clock |-> c.clock, choices |-> c.choices,
     path |-> c.path, cell |-> c.cell, current |-> c.current, thrown |-> c.thrown,
     switches |-> c.switches,
     outcome |-> IF DoneIn(c, Main) THEN c.task[Main].state ELSE "deadlocked"]

NowIn(sc, c) == sc.code[c.current][c.task[c.current].pc]

LeftWith(sc, c, changed, at) ==
    [task |-> changed, tasks |-> c.tasks, clock |-> at, choices |-> c.choices,
     path |-> c.path, cell |-> c.cell, current |-> None, thrown |-> FALSE,
     switches |-> c.switches + 1,
     outcome |-> IF c.switches + 1 > sc.maxSwitches THEN "limit" ELSE c.outcome]

FinishedAs(sc, c, how) ==
    LeftWith(sc, c, [c.task EXCEPT ![c.current].state = how], c.clock)

ProceededTo(c, changed, pc) ==
    [task |-> [changed EXCEPT ![c.current].pc = pc, ![c.current].asleep = FALSE],
     tasks |-> c.tasks, clock |-> c.clock, choices |-> c.choices, path |-> c.path,
     cell |-> c.cell, current |-> c.current, thrown |-> FALSE, switches |-> c.switches,
     outcome |-> c.outcome]

\* The same, with the branches and the value of the shared variable.
RanTo(c, pc, branches, value) ==
    [task |-> [c.task EXCEPT ![c.current].pc = pc, ![c.current].asleep = FALSE],
     tasks |-> c.tasks, clock |-> c.clock, choices |-> c.choices, path |-> branches,
     cell |-> value, current |-> c.current, thrown |-> FALSE, switches |-> c.switches,
     outcome |-> c.outcome]

\* c with the task t created.
CreatedIn(c, t, pc) ==
    [task |-> [c.task EXCEPT ![t] = Created(c.clock), ![c.current].pc = pc],
     tasks |-> Append(c.tasks, t), clock |-> c.clock + 1, choices |-> c.choices,
     path |-> c.path, cell |-> c.cell, current |-> c.current, thrown |-> c.thrown,
     switches |-> c.switches, outcome |-> c.outcome]

ThrownAs(sc, c, exception) ==
    IF NowIn(sc, c).handler # 0
    THEN ProceededTo(c, c.task, NowIn(sc, c).handler)
    ELSE FinishedAs(sc, c, exception)

\* The running task branches, on this condition.
Branching(sc, c) == c.current # None /\ ~c.thrown /\ NowIn(sc, c).op = "if"
AskedIn(sc, c) == NowIn(sc, c).asks[c.cell]

\* What is noted of it for the input i, and the branch as it is recorded.
NotedIn(sc, i, c) == sc.records[AskedIn(sc, c)][i]
BranchOf(sc, i, c) == <<NotedIn(sc, i, c), i \in sc.truth[AskedIn(sc, c)]>>
Recording(sc, i, c) == Branching(sc, c) /\ NotedIn(sc, i, c) # None

Branched(sc, i, c) ==
    RanTo(c, IF i \in sc.truth[AskedIn(sc, c)] THEN NowIn(sc, c).next ELSE NowIn(sc, c).otherwise,
          IF NotedIn(sc, i, c) = None THEN c.path ELSE Append(c.path, BranchOf(sc, i, c)), c.cell)

\* c after the running task's next statement, which is no branch.
Ran(sc, c) ==
    LET now == NowIn(sc, c)
        me == c.task[c.current]
    IN  IF c.thrown /\ ~me.asleep THEN FinishedAs(sc, c, "cancelled")
        ELSE IF now.op = "sleep" /\ ~me.asleep
             THEN LeftWith(sc, c, [c.task EXCEPT ![c.current].asleep = TRUE,
                                                 ![c.current].order = c.clock], c.clock + 1)
        ELSE IF now.op = "sleep" /\ ~c.thrown THEN ProceededTo(c, c.task, now.next)
        ELSE IF now.op = "sleep" THEN ThrownAs(sc, c, "cancelled")
        ELSE IF now.op = "await" /\ ~DoneIn(c, now.task)
             THEN LeftWith(sc, c, [c.task EXCEPT ![c.current].asleep = TRUE,
                                                 ![c.current].blocked = now.task,
                                                 ![now.task].cancel = @ \/ c.thrown], c.clock)
        ELSE IF now.op = "await" /\ c.task[now.task].state = "returned"
             THEN ProceededTo(c, c.task, now.next)
        ELSE IF now.op = "await" THEN ThrownAs(sc, c, c.task[now.task].state)
        ELSE IF now.op = "create" THEN CreatedIn(c, now.task, now.next)
        ELSE IF now.op = "cancel"
             THEN ProceededTo(c, [c.task EXCEPT ![now.task].cancel = @ \/ ~DoneIn(c, now.task)],
                              now.next)
        ELSE IF now.op = "write"
             THEN RanTo(c, now.next, c.path, now.value)
        ELSE IF now.op = "return" THEN FinishedAs(sc, c, "returned")
        ELSE ThrownAs(sc, c, "failed")

\* What follows c for the input i, with the choice k where there is one.
After(sc, i, c, k) ==
    IF c.current = None
    THEN IF Choosing(c) THEN Chosen(c, k) ELSE Rested(c)
    ELSE IF Branching(sc, c) THEN Branched(sc, i, c)
    ELSE Ran(sc, c)

--------------------------------------------------------------------------------
(* The actions follow it. *)

LEMMA Views ==
  /\ \A t : DoneIn(Frame, t) = Done(t)
  /\ CandidatesIn(Frame) = Candidates
  /\ \A t, u : EarlierIn(Frame, t, u) = Earlier(t, u)
  /\ NowIn(scenario, Frame) = Now
  <1>1. \A t : DoneIn(Frame, t) = Done(t)
    BY DEF DoneIn, Done, Frame
  <1>2. CandidatesIn(Frame) = Candidates
    <2>1. Frame.task = task /\ Frame.tasks = tasks
      BY DEF Frame
    <2> QED
      BY <1>1, <2>1 DEF CandidatesIn, Candidates, Ready
  <1>3. \A t, u : EarlierIn(Frame, t, u) = Earlier(t, u)
    BY DEF EarlierIn, Earlier, Frame
  <1>4. NowIn(scenario, Frame) = Now
    BY DEF NowIn, Now, Frame
  <1> QED
    BY <1>1, <1>2, <1>3, <1>4

LEMMA LeavingFollows ==
  ASSUME NEW STATE changed, NEW STATE at, LeaveWith(changed), clock' = at, UNCHANGED <<tasks, choices, path, cell>>
  PROVE  Frame' = LeftWith(scenario, Frame, changed, at)
  <1>1. /\ task' = changed /\ clock' = at /\ current' = None /\ thrown' = FALSE /\ switches' = switches + 1
        /\ outcome' = IF switches + 1 > scenario.maxSwitches THEN "limit" ELSE outcome
        /\ tasks' = tasks /\ choices' = choices /\ path' = path /\ cell' = cell
    BY DEF LeaveWith
  <1> QED
    BY <1>1 DEF Frame, LeftWith

LEMMA FinishFollows ==
  ASSUME NEW STATE how, Finish(how), UNCHANGED <<tasks, choices, path, cell>>
  PROVE  Frame' = FinishedAs(scenario, Frame, how)
  <1>1. Frame.task = task /\ Frame.current = current /\ Frame.clock = clock
    BY DEF Frame
  <1> QED
    BY <1>1, LeavingFollows DEF Finish, FinishedAs

LEMMA ProceedFollows ==
  ASSUME NEW STATE changed, NEW STATE pc, Proceed(changed, pc), UNCHANGED <<tasks, choices, path, cell>>
  PROVE  Frame' = ProceededTo(Frame, changed, pc)
  BY DEF Proceed, Frame, ProceededTo

LEMMA RanFollows ==
  ASSUME NEW STATE pc, NEW STATE branches, NEW STATE value,
         Proceed(task, pc), path' = branches, cell' = value, UNCHANGED <<tasks, choices>>
  PROVE  Frame' = RanTo(Frame, pc, branches, value)
  BY DEF Proceed, Frame, RanTo

LEMMA ThrowFollows ==
  ASSUME NEW STATE exception, Throw(exception), UNCHANGED <<tasks, choices, path, cell>>
  PROVE  Frame' = ThrownAs(scenario, Frame, exception)
  <1>1. Frame.task = task
    BY DEF Frame
  <1> QED
    BY <1>1, Views, FinishFollows, ProceedFollows DEF Throw, ThrownAs

LEMMA TurnFollows ==
  ASSUME Turn, current # None
  PROVE  Frame' = After(scenario, input, Frame, 0)
  <1> DEFINE now == Now
  <1>a. /\ Frame.task = task /\ Frame.current = current /\ Frame.clock = clock
        /\ Frame.thrown = thrown /\ Frame.cell = cell /\ Frame.path = path
    BY DEF Frame
  <1> USE <1>a, Views
  <1>1. CASE CancelUnstarted
    BY <1>1, FinishFollows DEF CancelUnstarted, After, Branching, Ran
  <1>2. CASE Sleep
    <2> USE <1>2 DEF Sleep, Runs
    <2>1. CASE ~task[current].asleep /\ ~thrown
      BY <2>1, LeavingFollows DEF After, Branching, Ran
    <2>2. CASE task[current].asleep /\ ~thrown
      BY <2>2, ProceedFollows DEF After, Branching, Ran
    <2>3. CASE task[current].asleep /\ thrown
      BY <2>3, ThrowFollows DEF After, Branching, Ran
    <2> QED
      BY <2>1, <2>2, <2>3
  <1>3. CASE AwaitMore
    BY <1>3, LeavingFollows DEF AwaitMore, Runs, After, Branching, Ran
  <1>4. CASE AwaitResult
    BY <1>4, ProceedFollows, ThrowFollows DEF AwaitResult, Runs, After, Branching, Ran
  <1>5. CASE Create
    <2> DEFINE t == now.task
               pc == now.next
    <2>1. now.op = "create" /\ ~thrown
      BY <1>5 DEF Create, Runs
    <2>2. After(scenario, input, Frame, 0) = Ran(scenario, Frame)
      BY <2>1 DEF After, Branching
    <2>3. Ran(scenario, Frame) = CreatedIn(Frame, t, pc)
      BY <2>1 DEF Ran
    <2>4. /\ tasks' = Append(tasks, t) /\ clock' = clock + 1
          /\ task' = [task EXCEPT ![t] = Created(clock), ![current].pc = pc]
          /\ UNCHANGED <<choices, path, cell, current, thrown, switches, outcome>>
      BY <1>5 DEF Create
    <2> HIDE DEF t, pc, now
    <2>5. Frame' = CreatedIn(Frame, t, pc)
      BY <2>4 DEF Frame, CreatedIn
    <2> QED
      BY <2>2, <2>3, <2>5
  <1>6. CASE Cancel
    BY <1>6, ProceedFollows DEF Cancel, Runs, After, Branching, Ran
  <1>7. CASE Branch
    <2> DEFINE asked == now.asks[cell]
               yes == input \in scenario.truth[asked]
               noted == scenario.records[asked][input]
               pc == IF yes THEN now.next ELSE now.otherwise
               branches == IF noted = None THEN path ELSE Append(path, <<noted, yes>>)
    <2>1. now.op = "if" /\ ~thrown
      BY <1>7 DEF Branch, Runs
    <2>2. AskedIn(scenario, Frame) = asked
      BY DEF AskedIn
    <2>3. After(scenario, input, Frame, 0) = Branched(scenario, input, Frame)
      BY <2>1, <2>2 DEF After, Branching
    <2>4. Branched(scenario, input, Frame) = RanTo(Frame, pc, branches, cell)
      BY <2>2 DEF Branched, NotedIn, BranchOf
    <2>5. path' = branches /\ Proceed(task, pc) /\ UNCHANGED <<tasks, choices, cell>>
      BY <1>7 DEF Branch
    <2> HIDE DEF asked, yes, noted, pc, branches
    <2>6. Frame' = RanTo(Frame, pc, branches, cell)
      BY <2>5, RanFollows
    <2> QED
      BY <2>3, <2>4, <2>6
  <1>8. CASE Write
    <2> DEFINE value == now.value
               pc == now.next
    <2>1. now.op = "write" /\ ~thrown
      BY <1>8 DEF Write, Runs
    <2>2. After(scenario, input, Frame, 0) = Ran(scenario, Frame)
      BY <2>1 DEF After, Branching
    <2>3. Ran(scenario, Frame) = RanTo(Frame, pc, path, value)
      BY <2>1 DEF Ran
    <2>4. path' = path /\ cell' = value /\ Proceed(task, pc) /\ UNCHANGED <<tasks, choices>>
      BY <1>8 DEF Write
    <2> HIDE DEF value, pc
    <2>5. Frame' = RanTo(Frame, pc, path, value)
      BY <2>4, RanFollows
    <2> QED
      BY <2>2, <2>3, <2>5
  <1>9. CASE Return
    BY <1>9, FinishFollows DEF Return, Runs, After, Branching, Ran
  <1>10. CASE Raise
    BY <1>10, ThrowFollows DEF Raise, Runs, After, Branching, Ran
  <1> QED
    BY <1>1, <1>2, <1>3, <1>4, <1>5, <1>6, <1>7, <1>8, <1>9, <1>10 DEF Turn

LEMMA ResumeFollows ==
  ASSUME Resume
  PROVE  \E k \in Choice(Candidates) : Frame' = After(scenario, input, Frame, k)
  <1>1. PICK k \in Choice(Candidates) :
          /\ choices' = Append(choices, <<Len(Candidates), k>>)
          /\ current' = Candidates[k + 1]
          /\ thrown' = task[Candidates[k + 1]].cancel
          /\ task' = [task EXCEPT ![Candidates[k + 1]].blocked = None,
                                  ![Candidates[k + 1]].cancel = FALSE]
    BY DEF Resume
  <1>2. /\ current = None /\ Choosing(Frame)
        /\ UNCHANGED <<tasks, clock, path, cell, switches, outcome>>
    BY Views DEF Resume, Between, Choosing, Frame
  <1>3. Frame' = Chosen(Frame, k)
    BY <1>1, <1>2, Views DEF Chosen, Frame
  <1>4. Frame.current = None
    BY <1>2 DEF Frame
  <1> QED
    BY <1>2, <1>3, <1>4 DEF After

LEMMA RestFollows ==
  ASSUME Deadlock \/ End
  PROVE  \A k : Frame' = After(scenario, input, Frame, k)
  <1>1. Frame.current = None /\ ~Choosing(Frame)
    BY Views DEF Deadlock, End, Between, Choosing, Frame
  <1>2. Frame' = Rested(Frame)
    BY Views DEF Deadlock, End, Between, Rested, Frame
  <1> QED
    BY <1>1, <1>2 DEF After

IsSeq(s) == \E S : s \in Seq(S)

LEMMA ChoiceOffered ==
  ASSUME prefix \in Seq(Nat), IsSeq(choices), scenario.mode \in {"fifo", "nondeterministic"}
  PROVE  Choice(Candidates) \subseteq Offered(scenario, Frame)
  <1> USE DEF Indices
  <1>1. CASE scenario.mode = "fifo"
    <2> DEFINE first(E(_, _)) == {i \in Indices(Candidates) :
                 \A j \in Indices(Candidates) : E(Candidates[i + 1], Candidates[j + 1])}
    <2>1. first(Earlier) = first(LAMBDA t, u : EarlierIn(Frame, t, u))
      BY Views
    <2>2. First(Candidates) = FirstIn(Frame)
      BY <2>1, Views DEF First, FirstIn
    <2> QED
      BY <1>1, <2>2 DEF Choice, Offered
  <1>2. CASE scenario.mode # "fifo" /\ unguided
    BY <1>2, Views DEF Choice, Offered
  <1>3. CASE scenario.mode # "fifo" /\ ~unguided
    <2>1. Len(Candidates) \in Nat /\ Len(choices) \in Nat /\ Len(prefix) \in Nat
      BY DEF IsSeq
    <2>2. Repeated(Len(Candidates)) \in 0 .. (Len(Candidates) - 1) \cup {0}
      <3>1. CASE Len(Candidates) <= 1 \/ Len(choices) >= Len(prefix)
        BY <3>1 DEF Repeated
      <3>2. CASE ~(Len(Candidates) <= 1 \/ Len(choices) >= Len(prefix))
        <4>1. prefix[Len(choices) + 1] \in Nat
          BY <2>1, <3>2
        <4>2. prefix[Len(choices) + 1] % Len(Candidates) \in 0 .. (Len(Candidates) - 1)
          BY <2>1, <3>2, <4>1
        <4> QED
          BY <3>2, <4>2 DEF Repeated
      <3> QED
        BY <3>1, <3>2
    <2> QED
      BY <1>3, <2>2, Views DEF Choice, Offered
  <1> QED
    BY <1>1, <1>2, <1>3

\* A branch asks for a condition.
Asks(sc, c) == Branching(sc, c) => AskedIn(sc, c) \in Conditions

\* d follows c in an execution for the input i.
Follows(sc, i, c, d) ==
    /\ c.outcome = "running" /\ Asks(sc, c)
    /\ \E k \in Offered(sc, c) : d = After(sc, i, c, k)

LEMMA ExecuteFollows ==
  ASSUME Execute, prefix \in Seq(Nat), IsSeq(choices), current # None => outcome = "running",
         scenario.mode \in {"fifo", "nondeterministic"}, Asks(scenario, Frame)
  PROVE  Expire \/ Follows(scenario, input, Frame, Frame')
  <1>1. Offered(scenario, Frame) # {}
    BY DEF Offered
  <1>2. CASE Resume
    <2>1. Frame.outcome = "running"
      BY <1>2 DEF Resume, Between, Frame
    <2> QED
      BY <1>2, <2>1, ResumeFollows, ChoiceOffered DEF Follows
  <1>3. CASE Deadlock \/ End
    <2>1. Frame.outcome = "running"
      BY <1>3 DEF Deadlock, End, Between, Frame
    <2> QED
      BY <1>1, <1>3, <2>1, RestFollows DEF Follows
  <1>4. CASE Turn
    <2>1. current # None
      BY <1>4 DEF Turn, CancelUnstarted, Sleep, AwaitMore, AwaitResult, Create, Cancel, Branch, Write,
                  Return, Raise, Runs
    <2>2. Frame.outcome = "running" /\ Frame.current # None
      BY <2>1 DEF Frame
    <2>3. \A k : After(scenario, input, Frame, k) = After(scenario, input, Frame, 0)
      BY <2>2 DEF After
    <2> QED
      BY <1>1, <1>4, <2>1, <2>2, <2>3, TurnFollows DEF Follows
  <1> QED
    BY <1>2, <1>3, <1>4 DEF Execute

--------------------------------------------------------------------------------
(* Executions *)

\* The first n steps of h are an execution for the input i.
History(sc, i, h, n) ==
    h[0] = Started /\ \A m \in 0 .. (n - 1) : Follows(sc, i, h[m], h[m + 1])

\* The choice k in c, as it is recorded.
ChoiceOf(c, k) == <<Len(CandidatesIn(c)), k>>

LEMMA Grown ==
  ASSUME NEW sc, NEW i, NEW c, NEW k
  PROVE  /\ Choosing(c) => After(sc, i, c, k).choices = Append(c.choices, ChoiceOf(c, k))
         /\ ~Choosing(c) => After(sc, i, c, k).choices = c.choices
         /\ Recording(sc, i, c) =>
              After(sc, i, c, k).path = Append(c.path, BranchOf(sc, i, c))
         /\ ~Recording(sc, i, c) => After(sc, i, c, k).path = c.path
  <1>1. CASE Choosing(c)
    BY <1>1 DEF Choosing, Recording, Branching, After, Chosen, ChoiceOf
  <1>2. CASE ~Choosing(c) /\ c.current = None
    BY <1>2 DEF Recording, Branching, After, Rested
  <1>3. CASE Branching(sc, c)
    BY <1>3 DEF Choosing, Recording, Branching, After, Branched, RanTo
  <1>4. CASE c.current # None /\ ~Branching(sc, c)
    <2>1. After(sc, i, c, k) = Ran(sc, c) /\ ~Choosing(c)
      BY <1>4 DEF After, Choosing
    <2>2. Ran(sc, c).choices = c.choices /\ Ran(sc, c).path = c.path
      BY DEF Ran, FinishedAs, LeftWith, ProceededTo, RanTo, CreatedIn, ThrownAs
    <2> QED
      BY <1>4, <2>1, <2>2 DEF Recording
  <1> QED
    BY <1>1, <1>2, <1>3, <1>4 DEF Branching, Choosing

Begins(s, t) == Len(s) <= Len(t) /\ \A x \in 1 .. Len(s) : s[x] = t[x]

LEMMA EmptySequence == IsSeq(<<>>)
  <1>1. <<>> \in Seq({})
    OBVIOUS
  <1> QED
    BY <1>1 DEF IsSeq

LEMMA AppendBegins ==
  ASSUME NEW s, NEW e, IsSeq(s)
  PROVE  /\ Len(Append(s, e)) = Len(s) + 1 /\ Len(s) \in Nat /\ DOMAIN s = 1 .. Len(s)
         /\ Append(s, e)[Len(s) + 1] = e
         /\ Begins(s, Append(s, e)) /\ Begins(s, s)
         /\ IsSeq(Append(s, e))
  <1> PICK S : s \in Seq(S)
    BY DEF IsSeq
  <1>1. s \in Seq(S \cup {e}) /\ e \in S \cup {e}
    OBVIOUS
  <1>2. Append(s, e) \in Seq(S \cup {e})
    BY <1>1
  <1> QED
    BY <1>1, <1>2 DEF Begins, IsSeq

LEMMA AppendEntries ==
  ASSUME NEW s, IsSeq(s), NEW e, NEW t, t = Append(s, e)
  PROVE  /\ Len(s) \in Nat /\ DOMAIN s = 1 .. Len(s) /\ DOMAIN t = 1 .. (Len(s) + 1)
         /\ t[Len(s) + 1] = e /\ \A x \in 1 .. Len(s) : t[x] = s[x]
  <1> PICK S : s \in Seq(S)
    BY DEF IsSeq
  <1>1. s \in Seq(S \cup {e}) /\ e \in S \cup {e}
    OBVIOUS
  <1> QED
    BY <1>1

LEMMA FollowsGrows ==
  ASSUME NEW sc, NEW i, NEW c, NEW d, Follows(sc, i, c, d), IsSeq(c.choices), IsSeq(c.path)
  PROVE  /\ IsSeq(d.choices) /\ Begins(c.choices, d.choices)
         /\ IsSeq(d.path) /\ Begins(c.path, d.path)
  <1>1. PICK k : d = After(sc, i, c, k)
    BY DEF Follows
  <1>2. d.choices = c.choices \/ d.choices = Append(c.choices, ChoiceOf(c, k))
    BY <1>1, Grown
  <1>3. \/ d.path = c.path
        \/ d.path = Append(c.path, BranchOf(sc, i, c))
    BY <1>1, Grown
  <1>4. IsSeq(d.choices) /\ Begins(c.choices, d.choices)
    <2>1. CASE d.choices = c.choices
      BY <2>1, AppendBegins
    <2>2. CASE d.choices = Append(c.choices, ChoiceOf(c, k))
      <3> DEFINE e == ChoiceOf(c, k)
      <3> HIDE DEF e
      <3>1. d.choices = Append(c.choices, e)
        BY <2>2 DEF e
      <3> QED
        BY <3>1, AppendBegins
    <2> QED
      BY <1>2, <2>1, <2>2
  <1>5. IsSeq(d.path) /\ Begins(c.path, d.path)
    <2> DEFINE e == BranchOf(sc, i, c)
    <2>1. d.path = c.path \/ d.path = Append(c.path, e)
      BY <1>3
    <2> HIDE DEF e
    <2>2. CASE d.path = c.path
      BY <2>2, AppendBegins
    <2>3. CASE d.path = Append(c.path, e)
      BY <2>3, AppendBegins
    <2> QED
      BY <2>1, <2>2, <2>3
  <1> QED
    BY <1>4, <1>5

LEMMA SetInduction ==
  ASSUME NEW T \in SUBSET Nat, 0 \in T, \A n \in Nat : n \in T => n + 1 \in T
  PROVE  T = Nat
  <1> SUFFICES ASSUME Nat \ T # {} PROVE FALSE
    OBVIOUS
  <1>1. Nat \ T \subseteq Nat
    OBVIOUS
  <1>2. PICK m \in Nat \ T : \A n \in Nat \ T : ~(<<n, m>> \in OpToRel(<, Nat))
    BY <1>1, WFMin, NatLessThanWellFounded, Zenon
  <1>3. m \in Nat /\ m # 0 /\ m - 1 \in Nat /\ m - 1 < m /\ m = (m - 1) + 1
    <2>1. m \in Nat /\ m \notin T
      OBVIOUS
    <2>2. m # 0
      BY <2>1
    <2> QED
      BY <2>1, <2>2
  <1>4. m - 1 \notin Nat \ T
    BY <1>2, <1>3, Zenon DEF OpToRel
  <1> QED
    BY <1>2, <1>3, <1>4

LEMMA HistorySequences ==
  ASSUME NEW sc, NEW i, NEW h, NEW n \in Nat, History(sc, i, h, n)
  PROVE  \A m \in 0 .. n : IsSeq(h[m].choices) /\ IsSeq(h[m].path)
  <1> DEFINE T == {m \in Nat : m <= n => IsSeq(h[m].choices) /\ IsSeq(h[m].path)}
  <1>1. 0 \in T
    <2>1. h[0].choices = <<>> /\ h[0].path = <<>>
      BY DEF History, Started
    <2> QED
      BY <2>1, EmptySequence, Zenon
  <1>2. ASSUME NEW m \in Nat, m \in T PROVE m + 1 \in T
    <2> SUFFICES ASSUME m + 1 <= n PROVE IsSeq(h[m + 1].choices) /\ IsSeq(h[m + 1].path)
      OBVIOUS
    <2>1. m \in 0 .. (n - 1) /\ IsSeq(h[m].choices) /\ IsSeq(h[m].path)
      BY <1>2
    <2>2. Follows(sc, i, h[m], h[m + 1])
      BY <2>1 DEF History
    <2> QED
      BY <2>1, <2>2, FollowsGrows
  <1>3. T = Nat
    BY <1>1, <1>2, SetInduction
  <1> QED
    BY <1>3

LEMMA HistoryGrows ==
  ASSUME NEW sc, NEW i, NEW h, NEW n \in Nat, History(sc, i, h, n), NEW l \in 0 .. n, NEW m \in 0 .. n,
         l <= m
  PROVE  Begins(h[l].choices, h[m].choices) /\ Begins(h[l].path, h[m].path)
  <1> DEFINE T == {x \in Nat : l + x <= n => /\ Begins(h[l].choices, h[l + x].choices)
                                             /\ Begins(h[l].path, h[l + x].path)}
  <1> DEFINE Good(c) == /\ Len(c.choices) \in Nat /\ Len(c.path) \in Nat
  <1>0. \A x \in 0 .. n : Good(h[x])
    BY HistorySequences, AppendBegins
  <1>1. 0 \in T
    BY <1>0 DEF Begins
  <1>2. ASSUME NEW x \in Nat, x \in T PROVE x + 1 \in T
    <2> SUFFICES ASSUME l + (x + 1) <= n
                 PROVE  /\ Begins(h[l].choices, h[l + (x + 1)].choices)
                        /\ Begins(h[l].path, h[l + (x + 1)].path)
      OBVIOUS
    <2>1. l + x \in 0 .. (n - 1) /\ l + x \in 0 .. n /\ l + (x + 1) = (l + x) + 1
          /\ (l + x) + 1 \in 0 .. n
      OBVIOUS
    <2>2. Follows(sc, i, h[l + x], h[(l + x) + 1])
      BY <2>1 DEF History
    <2>3. IsSeq(h[l + x].choices) /\ IsSeq(h[l + x].path)
      BY <2>1, HistorySequences
    <2>5. /\ Begins(h[l + x].choices, h[(l + x) + 1].choices)
          /\ Begins(h[l + x].path, h[(l + x) + 1].path)
      BY <2>2, <2>3, FollowsGrows
    <2>6. Begins(h[l].choices, h[l + x].choices) /\ Begins(h[l].path, h[l + x].path)
      BY <1>2, <2>1
    <2>7. Good(h[l]) /\ Good(h[l + x]) /\ Good(h[(l + x) + 1])
      BY <1>0, <2>1
    <2>8. \A r, s, t : Begins(r, s) /\ Begins(s, t) /\ Len(r) \in Nat /\ Len(s) \in Nat /\ Len(t) \in Nat
                        => Begins(r, t)
      BY DEF Begins
    <2> QED
      BY <2>1, <2>5, <2>6, <2>7, <2>8, Zenon
  <1>3. T = Nat
    BY <1>1, <1>2, SetInduction
  <1>4. m - l \in Nat /\ l + (m - l) = m /\ m <= n
    OBVIOUS
  <1>5. m - l \in T
    BY <1>3, <1>4
  <1> QED
    BY <1>4, <1>5

\* The indices that were chosen.
Picks(c) == [x \in DOMAIN c.choices |-> c.choices[x][2]]

Compatible(s, t) == \A x \in DOMAIN s \cap DOMAIN t : s[x] = t[x]

LEMMA Restrained ==
  ASSUME NEW sc, NEW i, NEW h, NEW n \in Nat, History(sc, i, h, n), NEW l \in 0 .. n
  PROVE  /\ DOMAIN h[l].choices = 1 .. Len(h[l].choices) /\ DOMAIN h[l].path = 1 .. Len(h[l].path)
         /\ Len(h[l].choices) \in Nat /\ Len(h[l].path) \in Nat
  BY HistorySequences, AppendBegins

\* The choice number x of c, among count candidates, was k.
ChosenAt(c, x, count, k) ==
    /\ x \in DOMAIN c.choices /\ c.choices[x] = <<count, k>>
    /\ x \in DOMAIN Picks(c) /\ Picks(c)[x] = k

\* A choice is found in every later state.
LEMMA ChoiceKept ==
  ASSUME NEW sc, NEW i, NEW h, NEW n \in Nat, NEW l \in Nat, NEW k,
         History(sc, i, h, n), l < n, Choosing(h[l]), h[l + 1] = After(sc, i, h[l], k)
  PROVE  ChosenAt(h[n], Len(h[l].choices) + 1, Len(CandidatesIn(h[l])), k)
  <1> DEFINE s == h[l].choices
             e == ChoiceOf(h[l], k)
             t == h[n].choices
             z == Len(s) + 1
  <1>1. h[l + 1].choices = Append(s, e)
    BY Grown
  <1>2. l \in 0 .. n /\ l + 1 \in 0 .. n /\ n \in 0 .. n /\ l + 1 <= n
    OBVIOUS
  <1>3. Begins(Append(s, e), t)
    BY <1>1, <1>2, HistoryGrows
  <1>4. IsSeq(s) /\ IsSeq(t)
    BY <1>2, HistorySequences
  <1>5. e[2] = k
    BY DEF ChoiceOf
  <1> HIDE DEF e
  <1>6. Len(Append(s, e)) = z /\ Append(s, e)[z] = e /\ Len(s) \in Nat
    BY <1>4, AppendBegins
  <1>7. Len(t) \in Nat /\ DOMAIN t = 1 .. Len(t)
    BY <1>4, AppendBegins
  <1> HIDE DEF s, t
  <1>8. z \in DOMAIN t /\ t[z] = e
    BY <1>3, <1>6, <1>7 DEF Begins
  <1> QED
    BY <1>5, <1>8 DEF ChosenAt, Picks, ChoiceOf, e, s, t

LEMMA UnchosenAfter ==
  ASSUME NEW sc, NEW i, NEW c, ~Choosing(c), NEW k, NEW l
  PROVE  After(sc, i, c, k) = After(sc, i, c, l)
  BY DEF After

\* An execution is determined by its input and the choices made.
LEMMA Determined ==
  ASSUME NEW sc, NEW i, NEW h, NEW m \in Nat, History(sc, i, h, m),
         NEW g, NEW n \in Nat, History(sc, i, g, n),
         sc.mode = "fifo" \/ Compatible(Picks(h[m]), Picks(g[n]))
  PROVE  \A l \in Nat : l <= m /\ l <= n => h[l] = g[l]
  <1> DEFINE T == {l \in Nat : l <= m /\ l <= n => h[l] = g[l]}
  <1>1. 0 \in T
    BY DEF History
  <1>2. ASSUME NEW l \in Nat, l \in T PROVE l + 1 \in T
    <2> SUFFICES ASSUME l + 1 <= m, l + 1 <= n PROVE h[l + 1] = g[l + 1]
      OBVIOUS
    <2>1. l \in 0 .. (m - 1) /\ l \in 0 .. (n - 1) /\ h[l] = g[l] /\ l < m /\ l < n
      BY <1>2
    <2>2. PICK j \in Offered(sc, h[l]) : h[l + 1] = After(sc, i, h[l], j)
      BY <2>1 DEF History, Follows
    <2>3. PICK k \in Offered(sc, g[l]) : g[l + 1] = After(sc, i, g[l], k)
      BY <2>1 DEF History, Follows
    <2>4. CASE ~Choosing(h[l])
      BY <2>1, <2>2, <2>3, <2>4, UnchosenAfter
    <2>5. CASE Choosing(h[l]) /\ sc.mode = "fifo"
      BY <2>1, <2>2, <2>3, <2>5 DEF Offered
    <2>6. CASE Choosing(h[l]) /\ Compatible(Picks(h[m]), Picks(g[n]))
      <3>1. l < m /\ l < n /\ Choosing(h[l]) /\ Choosing(g[l]) /\ l \in Nat
        BY <2>1, <2>6
      <3>2. ChosenAt(h[m], Len(h[l].choices) + 1, Len(CandidatesIn(h[l])), j)
        BY <2>2, <3>1, ChoiceKept
      <3>4. ChosenAt(g[n], Len(g[l].choices) + 1, Len(CandidatesIn(g[l])), k)
        BY <2>3, <3>1, ChoiceKept
      <3>3. j = k
        <4> DEFINE z == Len(h[l].choices) + 1
        <4>1. z \in DOMAIN Picks(h[m]) /\ Picks(h[m])[z] = j
          BY <3>2 DEF ChosenAt
        <4>2. z \in DOMAIN Picks(g[n]) /\ Picks(g[n])[z] = k
          BY <2>1, <3>4 DEF ChosenAt
        <4> HIDE DEF z
        <4> QED
          BY <4>1, <4>2, <2>6 DEF Compatible
      <3> QED
        BY <2>1, <2>2, <2>3, <3>3
    <2> QED
      BY <2>4, <2>5, <2>6
  <1>3. T = Nat
    BY <1>1, <1>2, SetInduction
  <1> QED
    BY <1>3


LEMMA Longer ==
  ASSUME NEW sc, NEW i, NEW h, NEW n \in Nat, NEW d,
         History(sc, i, h, n), Follows(sc, i, h[n], d)
  PROVE  \E g : /\ History(sc, i, g, n + 1) /\ g[n + 1] = d
                /\ \A m \in 0 .. n : g[m] = h[m]
  <1> DEFINE g == [m \in 0 .. (n + 1) |-> IF m = n + 1 THEN d ELSE h[m]]
  <1>1. g[n + 1] = d /\ \A m \in 0 .. n : g[m] = h[m]
    OBVIOUS
  <1>2. g[0] = Started
    BY <1>1 DEF History
  <1>3. ASSUME NEW m \in 0 .. ((n + 1) - 1) PROVE Follows(sc, i, g[m], g[m + 1])
    <2>1. CASE m = n
      BY <1>1, <2>1
    <2>2. CASE m # n
      <3>1. m \in 0 .. (n - 1) /\ m \in 0 .. n /\ m + 1 \in 0 .. n
        BY <2>2
      <3>2. g[m] = h[m] /\ g[m + 1] = h[m + 1]
        BY <1>1, <3>1
      <3> QED
        BY <3>1, <3>2 DEF History
    <2> QED
      BY <2>1, <2>2
  <1> HIDE DEF g
  <1> QED
    BY <1>1, <1>2, <1>3 DEF History

\* The choice number x of h[n] was made in the state l.
MadeAt(sc, h, n, x, l) ==
    /\ l < n /\ Choosing(h[l]) /\ Len(h[l].choices) = x - 1
    /\ h[n].choices[x][1] = Len(CandidatesIn(h[l])) /\ h[n].choices[x][2] \in Offered(sc, h[l])

LEMMA ChoiceMade ==
  ASSUME NEW sc, NEW i, NEW h, NEW n \in Nat, History(sc, i, h, n), NEW x \in DOMAIN h[n].choices
  PROVE  \E l \in Nat : MadeAt(sc, h, n, x, l)
  <1> DEFINE T == {m \in Nat : m <= n =>
                      \A y \in DOMAIN h[m].choices : \E l \in Nat : MadeAt(sc, h, m, y, l)}
  <1>1. 0 \in T
    BY DEF History, Started
  <1>2. ASSUME NEW m \in Nat, m \in T PROVE m + 1 \in T
    <2> SUFFICES ASSUME m + 1 <= n, NEW y \in DOMAIN h[m + 1].choices
                 PROVE  \E l \in Nat : MadeAt(sc, h, m + 1, y, l)
      OBVIOUS
    <2>1. m \in 0 .. (n - 1) /\ m \in 0 .. n /\ m <= n /\ m < m + 1
      OBVIOUS
    <2>2. PICK k \in Offered(sc, h[m]) : h[m + 1] = After(sc, i, h[m], k)
      BY <2>1 DEF History, Follows
    <2>3. IsSeq(h[m].choices)
      BY <2>1, HistorySequences
    <2>6. \A z \in DOMAIN h[m].choices : \E l \in Nat : MadeAt(sc, h, m, z, l)
      BY <1>2, <2>1
    <2> HIDE DEF T
    <2>4. CASE ~Choosing(h[m])
      <3>1. h[m + 1].choices = h[m].choices
        BY <2>2, <2>4, Grown
      <3>2. PICK l \in Nat : MadeAt(sc, h, m, y, l)
        BY <2>6, <3>1
      <3> QED
        BY <3>1, <3>2 DEF MadeAt
    <2>5. CASE Choosing(h[m])
      <3>1. h[m + 1].choices = Append(h[m].choices, ChoiceOf(h[m], k))
        BY <2>2, <2>5, Grown
      <3> DEFINE e == ChoiceOf(h[m], k)
      <3>2. e[1] = Len(CandidatesIn(h[m])) /\ e[2] = k /\ h[m + 1].choices = Append(h[m].choices, e)
        BY <3>1 DEF ChoiceOf
      <3> HIDE DEF e
      <3>3. /\ Len(h[m].choices) \in Nat /\ DOMAIN h[m].choices = 1 .. Len(h[m].choices)
            /\ DOMAIN h[m + 1].choices = 1 .. (Len(h[m].choices) + 1)
            /\ h[m + 1].choices[Len(h[m].choices) + 1] = e
            /\ \A z \in 1 .. Len(h[m].choices) : h[m + 1].choices[z] = h[m].choices[z]
        BY <2>3, <3>2, AppendEntries
      <3>4. CASE y = Len(h[m].choices) + 1
        <4>1. h[m + 1].choices[y] = e /\ Len(h[m].choices) = y - 1
          BY <3>3, <3>4
        <4> QED
          BY <2>1, <2>5, <3>2, <4>1 DEF MadeAt
      <3>5. CASE y # Len(h[m].choices) + 1
        <4>1. y \in DOMAIN h[m].choices /\ h[m + 1].choices[y] = h[m].choices[y]
          BY <3>3, <3>5
        <4>2. PICK l \in Nat : MadeAt(sc, h, m, y, l)
          BY <2>6, <4>1
        <4> QED
          BY <4>1, <4>2 DEF MadeAt
      <3> QED
        BY <3>4, <3>5
    <2> QED
      BY <2>4, <2>5
  <1>3. T = Nat
    BY <1>1, <1>2, SetInduction
  <1> QED
    BY <1>3


\* The branch number x of h[n] was taken from the state l.
TakenAt(sc, i, h, n, x, l) ==
    /\ l < n /\ Recording(sc, i, h[l]) /\ Len(h[l].path) = x - 1
    /\ h[n].path[x] = BranchOf(sc, i, h[l])

LEMMA BranchTaken ==
  ASSUME NEW sc, NEW i, NEW h, NEW n \in Nat, History(sc, i, h, n), NEW x \in DOMAIN h[n].path
  PROVE  \E l \in Nat : TakenAt(sc, i, h, n, x, l)
  <1> DEFINE T == {m \in Nat : m <= n =>
                      \A y \in DOMAIN h[m].path : \E l \in Nat : TakenAt(sc, i, h, m, y, l)}
  <1>1. 0 \in T
    BY DEF History, Started
  <1>2. ASSUME NEW m \in Nat, m \in T PROVE m + 1 \in T
    <2> SUFFICES ASSUME m + 1 <= n, NEW y \in DOMAIN h[m + 1].path
                 PROVE  \E l \in Nat : TakenAt(sc, i, h, m + 1, y, l)
      OBVIOUS
    <2>1. m \in 0 .. (n - 1) /\ m \in 0 .. n /\ m <= n /\ m < m + 1
      OBVIOUS
    <2>2. PICK k : h[m + 1] = After(sc, i, h[m], k)
      BY <2>1 DEF History, Follows
    <2> DEFINE e == BranchOf(sc, i, h[m])
    <2>3. IsSeq(h[m].path)
      BY <2>1, HistorySequences
    <2>6. \A z \in DOMAIN h[m].path : \E l \in Nat : TakenAt(sc, i, h, m, z, l)
      BY <1>2, <2>1
    <2> HIDE DEF T
    <2>4. CASE ~Recording(sc, i, h[m])
      <3>1. h[m + 1].path = h[m].path
        BY <2>2, <2>4, Grown
      <3>2. PICK l \in Nat : TakenAt(sc, i, h, m, y, l)
        BY <2>6, <3>1
      <3> QED
        BY <3>1, <3>2 DEF TakenAt
    <2>5. CASE Recording(sc, i, h[m])
      <3>1. After(sc, i, h[m], k).path = Append(h[m].path, e)
        BY <2>5, Grown
      <3> HIDE DEF e
      <3>2. h[m + 1].path = Append(h[m].path, e)
        BY <2>2, <3>1
      <3>3. /\ Len(h[m].path) \in Nat /\ DOMAIN h[m].path = 1 .. Len(h[m].path)
            /\ DOMAIN h[m + 1].path = 1 .. (Len(h[m].path) + 1)
            /\ h[m + 1].path[Len(h[m].path) + 1] = e
            /\ \A z \in 1 .. Len(h[m].path) : h[m + 1].path[z] = h[m].path[z]
        BY <2>3, <3>2, AppendEntries
      <3>4. CASE y = Len(h[m].path) + 1
        <4>1. h[m + 1].path[y] = e /\ Len(h[m].path) = y - 1
          BY <3>3, <3>4
        <4> QED
          BY <2>1, <2>5, <4>1 DEF TakenAt, e
      <3>5. CASE y # Len(h[m].path) + 1
        <4>1. y \in DOMAIN h[m].path /\ h[m + 1].path[y] = h[m].path[y]
          <5>1. y \in 1 .. (Len(h[m].path) + 1)
            BY <3>3
          <5>2. y \in 1 .. Len(h[m].path)
            BY <3>3, <3>5, <5>1
          <5> QED
            BY <3>3, <5>2
        <4>2. PICK l \in Nat : TakenAt(sc, i, h, m, y, l)
          BY <2>6, <4>1
        <4> QED
          BY <2>1, <4>1, <4>2 DEF TakenAt
      <3> QED
        BY <3>4, <3>5
    <2> QED
      BY <2>4, <2>5
  <1>3. T = Nat
    BY <1>1, <1>2, SetInduction
  <1> QED
    BY <1>3

\* The inputs that an expression is true of: the values of the assignments it holds
\* of.  It is plain when no other assignment has such a value.
Told(sc, e) == {sc.value[a] : a \in {b \in Assignments : b \in sc.holds[e]}}
Plain(sc, e) == \A a \in Assignments : a \in sc.holds[e] <=> sc.value[a] \in Told(sc, e)

\* What Exact says, of the scenario sc.
ExactIn(sc) ==
    /\ \A c \in Conditions : \E e \in Expressions :
        /\ \A i \in Inputs : sc.records[c][i] = e
        /\ \A a \in Assignments : a \in sc.holds[e] <=> sc.value[a] \in sc.truth[c]
    /\ \A i \in Inputs : \E a \in Assignments : sc.value[a] = i

LEMMA ExactIs ==
  Exact <=> ExactIn(scenario)
  BY DEF Exact, ExactIn

\* One expression is recorded of a condition, and it tells the inputs it is true of.
LEMMA ExactlyTold ==
  ASSUME NEW sc, ExactIn(sc), NEW c \in Conditions
  PROVE  \E e : /\ e # None /\ Plain(sc, e)
               /\ \A i \in Inputs : sc.records[c][i] = e /\ (i \in sc.truth[c]) = (i \in Told(sc, e))
  <1>1. PICK e \in Expressions :
          /\ \A i \in Inputs : sc.records[c][i] = e
          /\ \A a \in Assignments : a \in sc.holds[e] <=> sc.value[a] \in sc.truth[c]
    BY DEF ExactIn
  <1>2. e # None
    BY MainAssumption
  <1>3. ASSUME NEW i \in Inputs PROVE i \in sc.truth[c] <=> i \in Told(sc, e)
    <2>1. PICK a \in Assignments : sc.value[a] = i
      BY DEF ExactIn
    <2> QED
      BY <1>1, <2>1 DEF Told
  <1>4. \A i : i \in Told(sc, e) => i \in sc.truth[c]
    BY <1>1 DEF Told
  <1>5. Plain(sc, e)
    BY <1>1, <1>4 DEF Plain, Told
  <1> QED
    BY <1>1, <1>2, <1>3, <1>5

LEMMA HistoryAsks ==
  ASSUME NEW sc, NEW i, NEW h, NEW n \in Nat, History(sc, i, h, n), NEW l \in Nat, l < n
  PROVE  Asks(sc, h[l])
  <1>1. l \in 0 .. (n - 1)
    OBVIOUS
  <1> QED
    BY <1>1 DEF History, Follows

\* So each branch is recorded, the same for all inputs but for its outcome.
LEMMA BranchTold ==
  ASSUME NEW sc, ExactIn(sc), NEW c, Branching(sc, c), Asks(sc, c)
  PROVE  \E e : /\ Plain(sc, e)
               /\ \A i \in Inputs : /\ Recording(sc, i, c) /\ NotedIn(sc, i, c) = e
                                    /\ BranchOf(sc, i, c) = <<e, i \in Told(sc, e)>>
                                    /\ (i \in sc.truth[AskedIn(sc, c)]) = (i \in Told(sc, e))
  <1>1. AskedIn(sc, c) \in Conditions
    BY DEF Asks
  <1>2. PICK e : /\ e # None /\ Plain(sc, e)
                 /\ \A i \in Inputs : /\ sc.records[AskedIn(sc, c)][i] = e
                                      /\ (i \in sc.truth[AskedIn(sc, c)]) = (i \in Told(sc, e))
    BY <1>1, ExactlyTold
  <1>3. ASSUME NEW i \in Inputs
        PROVE  /\ Recording(sc, i, c) /\ NotedIn(sc, i, c) = e
               /\ BranchOf(sc, i, c) = <<e, i \in Told(sc, e)>>
    BY <1>2 DEF Recording, BranchOf, NotedIn
  <1> QED
    BY <1>2, <1>3

\* j takes the branches of p as they were taken.
Takes(sc, j, p) == \A x \in DOMAIN p : p[x][2] = (j \in Told(sc, p[x][1]))

PlainPath(sc, p) == \A x \in DOMAIN p : Plain(sc, p[x][1])

LEMMA OwnPath ==
  ASSUME NEW sc, ExactIn(sc), NEW i \in Inputs, NEW h, NEW n \in Nat, History(sc, i, h, n)
  PROVE  Takes(sc, i, h[n].path) /\ PlainPath(sc, h[n].path)
  <1> SUFFICES ASSUME NEW x \in DOMAIN h[n].path
               PROVE  /\ h[n].path[x][2] = (i \in Told(sc, h[n].path[x][1]))
                      /\ Plain(sc, h[n].path[x][1])
    BY DEF Takes, PlainPath
  <1>1. PICK l \in Nat : TakenAt(sc, i, h, n, x, l)
    BY BranchTaken
  <1>2. PICK e : /\ Plain(sc, e) /\ BranchOf(sc, i, h[l]) = <<e, i \in Told(sc, e)>>
    BY <1>1, HistoryAsks, BranchTold DEF TakenAt, Recording
  <1>3. h[n].path[x] = <<e, i \in Told(sc, e)>>
    BY <1>1, <1>2 DEF TakenAt
  <1> QED
    BY <1>2, <1>3

\* A branch is found in every later state.
LEMMA BranchKept ==
  ASSUME NEW sc, NEW i, NEW h, NEW n \in Nat, NEW l \in Nat,
         History(sc, i, h, n), l < n, Recording(sc, i, h[l])
  PROVE  /\ Len(h[l].path) + 1 \in DOMAIN h[n].path
         /\ h[n].path[Len(h[l].path) + 1] = BranchOf(sc, i, h[l])
  <1> DEFINE s == h[l].path
             e == BranchOf(sc, i, h[l])
             t == h[n].path
             z == Len(s) + 1
  <1>1. l \in 0 .. (n - 1) /\ l \in 0 .. n /\ l + 1 \in 0 .. n /\ n \in 0 .. n /\ l + 1 <= n
    OBVIOUS
  <1>2. PICK k : h[l + 1] = After(sc, i, h[l], k)
    BY <1>1 DEF History, Follows
  <1>3. h[l + 1].path = Append(s, e)
    BY <1>2, Grown
  <1>4. Begins(Append(s, e), t)
    BY <1>1, <1>3, HistoryGrows
  <1>5. IsSeq(s) /\ IsSeq(t)
    BY <1>1, HistorySequences
  <1> HIDE DEF e
  <1>6. Len(Append(s, e)) = z /\ Append(s, e)[z] = e /\ Len(s) \in Nat
    BY <1>5, AppendBegins
  <1>7. Len(t) \in Nat /\ DOMAIN t = 1 .. Len(t)
    BY <1>5, AppendBegins
  <1> HIDE DEF s, t
  <1>8. z \in DOMAIN t /\ t[z] = e
    BY <1>4, <1>6, <1>7 DEF Begins
  <1> QED
    BY <1>8 DEF e, s, t

\* An execution looks at its input only where it branches: another input that takes
\* the same branches has the same execution.
LEMMA SameBranches ==
  ASSUME NEW sc, ExactIn(sc), NEW i \in Inputs, NEW j \in Inputs, NEW h, NEW n \in Nat,
         History(sc, i, h, n), Takes(sc, j, h[n].path)
  PROVE  History(sc, j, h, n)
  <1> SUFFICES ASSUME NEW m \in 0 .. (n - 1) PROVE Follows(sc, j, h[m], h[m + 1])
    BY DEF History
  <1>1. m \in Nat /\ m < n
    OBVIOUS
  <1>2. /\ h[m].outcome = "running" /\ Asks(sc, h[m])
        /\ \E k \in Offered(sc, h[m]) : h[m + 1] = After(sc, i, h[m], k)
    BY DEF History, Follows
  <1>3. PICK k \in Offered(sc, h[m]) : h[m + 1] = After(sc, i, h[m], k)
    BY <1>2
  <1>4. After(sc, i, h[m], k) = After(sc, j, h[m], k)
    <2>1. CASE ~Branching(sc, h[m])
      BY <2>1 DEF After
    <2>2. CASE Branching(sc, h[m])
      <3> DEFINE z == Len(h[m].path) + 1
      <3>1. PICK e : \A v \in Inputs :
                          /\ Recording(sc, v, h[m]) /\ NotedIn(sc, v, h[m]) = e
                          /\ BranchOf(sc, v, h[m]) = <<e, v \in Told(sc, e)>>
                          /\ (v \in sc.truth[AskedIn(sc, h[m])]) = (v \in Told(sc, e))
        BY <1>2, <2>2, BranchTold
      <3>2. z \in DOMAIN h[n].path /\ h[n].path[z] = <<e, i \in Told(sc, e)>>
        BY <1>1, <3>1, BranchKept
      <3>3. (i \in Told(sc, e)) = (j \in Told(sc, e))
        <4> HIDE DEF z
        <4> QED
          BY <3>2 DEF Takes
      <3>4. BranchOf(sc, i, h[m]) = BranchOf(sc, j, h[m])
        BY <3>1, <3>3
      <3>5. (i \in sc.truth[AskedIn(sc, h[m])]) <=> (j \in sc.truth[AskedIn(sc, h[m])])
        BY <3>1, <3>3
      <3>6. NotedIn(sc, i, h[m]) = NotedIn(sc, j, h[m])
        BY <3>1
      <3> QED
        BY <2>2, <3>4, <3>5, <3>6 DEF After, Branched
    <2> QED
      BY <2>1, <2>2
  <1> QED
    BY <1>2, <1>3, <1>4 DEF Follows


--------------------------------------------------------------------------------
(* The sequences an observation builds. *)

FlatTo(seqs, f, n) ==
    f = [i \in 1 .. n |-> IF i = 1 THEN seqs[i] ELSE f[i - 1] \o seqs[i]]

LEMMA FlatSteps ==
  ASSUME NEW seqs, NEW n \in Nat
  PROVE  \E f : FlatTo(seqs, f, n)
  <1> DEFINE T == {m \in Nat : \E f : FlatTo(seqs, f, m)}
  <1>1. 0 \in T
    <2> DEFINE f == [i \in 1 .. 0 |-> 0]
    <2>1. FlatTo(seqs, f, 0)
      BY DEF FlatTo
    <2> QED
      BY <2>1
  <1>2. ASSUME NEW m \in Nat, m \in T PROVE m + 1 \in T
    <2>1. PICK f : FlatTo(seqs, f, m)
      BY <1>2
    <2> DEFINE g == [i \in 1 .. (m + 1) |-> IF i = 1 THEN seqs[i] ELSE f[i - 1] \o seqs[i]]
               k == [i \in 1 .. (m + 1) |-> IF i = 1 THEN seqs[i] ELSE g[i - 1] \o seqs[i]]
    <2>2. ASSUME NEW i \in 1 .. (m + 1) PROVE g[i] = k[i]
      <3>1. CASE i = 1
        BY <3>1
      <3>2. CASE i # 1
        <4>1. i - 1 \in 1 .. m /\ i - 1 \in 1 .. (m + 1)
          BY <3>2
        <4>2. f[i - 1] = g[i - 1]
          <5>1. f[i - 1] = IF i - 1 = 1 THEN seqs[i - 1] ELSE f[(i - 1) - 1] \o seqs[i - 1]
            BY <2>1, <4>1 DEF FlatTo
          <5> QED
            BY <4>1, <5>1
        <4>3. g[i] = f[i - 1] \o seqs[i]
          BY <3>2
        <4>4. k[i] = g[i - 1] \o seqs[i]
          BY <3>2
        <4> QED
          BY <4>2, <4>3, <4>4
      <3> QED
        BY <3>1, <3>2
    <2>3. g = k
      <3>1. DOMAIN g = 1 .. (m + 1) /\ DOMAIN k = 1 .. (m + 1)
        OBVIOUS
      <3> QED
        BY <2>2, <3>1
    <2>4. FlatTo(seqs, g, m + 1)
      BY <2>3, Zenon DEF FlatTo
    <2> QED
      BY <2>4
  <1>3. T = Nat
    BY <1>1, <1>2, SetInduction
  <1> QED
    BY <1>3

\* All elements of s are found in t.
Holds(t, s) == \A x \in DOMAIN s : \E y \in DOMAIN t : t[y] = s[x]

LEMMA Concatenated ==
  ASSUME NEW S, NEW a \in Seq(S), NEW b \in Seq(S)
  PROVE  a \o b \in Seq(S) /\ Holds(a \o b, a) /\ Holds(a \o b, b)
  <1> DEFINE c == a \o b
  <1>1. /\ c \in Seq(S) /\ Len(c) = Len(a) + Len(b) /\ Len(a) \in Nat /\ Len(b) \in Nat
        /\ DOMAIN c = 1 .. Len(c) /\ DOMAIN a = 1 .. Len(a) /\ DOMAIN b = 1 .. Len(b)
    OBVIOUS
  <1>2. ASSUME NEW x \in DOMAIN a PROVE x \in DOMAIN c /\ c[x] = a[x]
    BY <1>1
  <1>3. ASSUME NEW x \in DOMAIN b PROVE Len(a) + x \in DOMAIN c /\ c[Len(a) + x] = b[x]
    BY <1>1
  <1> HIDE DEF c
  <1>4. \A x \in DOMAIN a : \E y \in DOMAIN c : c[y] = a[x]
    BY <1>2
  <1>5. \A x \in DOMAIN b : \E y \in DOMAIN c : c[y] = b[x]
    BY <1>3
  <1> QED
    BY <1>1, <1>4, <1>5 DEF c, Holds

LEMMA Flattened ==
  ASSUME NEW S, NEW seqs \in Seq(Seq(S))
  PROVE  /\ FlattenSeq(seqs) \in Seq(S)
         /\ \A i \in DOMAIN seqs : Holds(FlattenSeq(seqs), seqs[i])
  <1> DEFINE L == Len(seqs)
  <1>0. L \in Nat /\ DOMAIN seqs = 1 .. L /\ \A i \in 1 .. L : seqs[i] \in Seq(S)
    OBVIOUS
  <1>1. CASE L = 0
    <2>1. seqs = <<>> /\ <<>> \in Seq(S) /\ DOMAIN seqs = {}
      BY <1>0, <1>1
    <2>2. FlattenSeq(seqs) = seqs
      BY <1>1 DEF FlattenSeq
    <2> QED
      BY <2>1, <2>2
  <1>2. CASE L # 0
    <2> DEFINE f == CHOOSE f : FlatTo(seqs, f, L)
    <2>4. FlatTo(seqs, f, L)
      BY <1>0, FlatSteps
    <2>5. FlattenSeq(seqs) = f[L]
      BY <1>2 DEF FlattenSeq, FlatTo
    <2> HIDE DEF f
    <2>a. \A i \in 1 .. L : f[i] = IF i = 1 THEN seqs[i] ELSE f[i - 1] \o seqs[i]
      BY <2>4 DEF FlatTo
    <2> DEFINE Good(n) == f[n] \in Seq(S) /\ \A i \in 1 .. n : Holds(f[n], seqs[i])
               U == {n \in Nat : n + 1 <= L => Good(n + 1)}
    <2>6. 0 \in U
      <3>1. f[1] = seqs[1] /\ 1 \in 1 .. L
        BY <1>0, <1>2, <2>a
      <3>2. \A s : Holds(s, s)
        BY DEF Holds
      <3>3. Good(1)
        <4>1. \A i \in 1 .. 1 : i = 1
          OBVIOUS
        <4> QED
          BY <1>0, <3>1, <3>2, <4>1
      <3> QED
        BY <3>3
    <2>7. ASSUME NEW n \in Nat, n \in U PROVE n + 1 \in U
      <3> SUFFICES ASSUME (n + 1) + 1 <= L PROVE Good((n + 1) + 1)
        OBVIOUS
      <3> DEFINE a == f[n + 1]
                 b == seqs[(n + 1) + 1]
                 c == f[(n + 1) + 1]
      <3>0. Good(n + 1) /\ (n + 1) + 1 \in 1 .. L /\ (n + 1) + 1 # 1 /\ ((n + 1) + 1) - 1 = n + 1
        BY <1>0, <2>7
      <3>1. c = a \o b
        BY <2>a, <3>0
      <3>2. a \in Seq(S) /\ b \in Seq(S)
        BY <1>0, <3>0
      <3> HIDE DEF a, b, c
      <3>3. c \in Seq(S) /\ Holds(c, a) /\ Holds(c, b)
        BY <3>1, <3>2, Concatenated
      <3>4. ASSUME NEW i \in 1 .. ((n + 1) + 1) PROVE Holds(c, seqs[i])
        <4>1. CASE i = (n + 1) + 1
          BY <3>3, <4>1 DEF b
        <4>2. CASE i # (n + 1) + 1
          <5>1. i \in 1 .. (n + 1)
            BY <4>2
          <5>2. Holds(a, seqs[i])
            BY <3>0, <5>1 DEF a
          <5> QED
            BY <3>3, <5>2 DEF Holds
        <4> QED
          BY <4>1, <4>2
      <3> QED
        BY <3>3, <3>4 DEF c
    <2> HIDE DEF Good
    <2>8. U = Nat
      BY <2>6, <2>7, SetInduction
    <2>9. L - 1 \in Nat /\ (L - 1) + 1 = L /\ L <= L
      BY <1>0, <1>2
    <2>10. Good(L)
      BY <2>8, <2>9
    <2> QED
      BY <1>0, <2>5, <2>10 DEF Good
  <1> QED
    BY <1>1, <1>2

IterTo(g, base, seq, m) ==
    g = [s \in SUBSET (1 .. m) |->
           IF s = {} THEN base ELSE Scheduled(g[s \ {Max(s)}], seq[Max(s)])]

\* The steps of the fold of Scheduled.
Fold(f, base, seq) ==
    f[0] = base /\ \A m \in 1 .. Len(seq) : f[m] = Scheduled(f[m - 1], seq[m])

LEMMA Folded ==
  ASSUME NEW STATE base, NEW STATE seq, IsSeq(seq)
  PROVE  \E f : Fold(f, base, seq) /\ FoldLeft(Scheduled, base, seq) = f[Len(seq)]
  <1> DEFINE n == Len(seq)
  <1>0. n \in Nat /\ DOMAIN seq = 1 .. n
    BY AppendBegins
  <1> DEFINE T == {m \in Nat : \E g : IterTo(g, base, seq, m)}
  <1>1. 0 \in T
    <2>1. IterTo([s \in SUBSET (1 .. 0) |-> base], base, seq, 0)
      BY DEF IterTo
    <2> QED
      BY <2>1
  <1>2. ASSUME NEW m \in Nat, m \in T PROVE m + 1 \in T
    <2>1. PICK g : IterTo(g, base, seq, m)
      BY <1>2
    <2> DEFINE body(h, s) == IF s = {} THEN base ELSE Scheduled(h[s \ {Max(s)}], seq[Max(s)])
               k == [s \in SUBSET (1 .. (m + 1)) |->
                       IF m + 1 \in s THEN Scheduled(g[s \ {m + 1}], seq[m + 1]) ELSE g[s]]
    <2>2. ASSUME NEW s \in SUBSET (1 .. (m + 1)) PROVE k[s] = body(k, s)
      <3>1. CASE m + 1 \in s
        <4>1. Max(s) = m + 1
          <5>1. m + 1 \in s /\ \A y \in s : m + 1 >= y
            BY <3>1
          <5>2. \A x \in s : (\A y \in s : x >= y) => x = m + 1
            BY <3>1
          <5> QED
            BY <5>1, <5>2 DEF Max
        <4>2. s \ {m + 1} \in SUBSET (1 .. m) /\ s \ {m + 1} \in SUBSET (1 .. (m + 1))
              /\ m + 1 \notin s \ {m + 1}
          OBVIOUS
        <4>3. k[s \ {m + 1}] = g[s \ {m + 1}]
          BY <4>2
        <4>4. k[s] = Scheduled(g[s \ {m + 1}], seq[m + 1])
          BY <3>1
        <4> HIDE DEF k
        <4> QED
          BY <3>1, <4>1, <4>3, <4>4
      <3>2. CASE m + 1 \notin s
        <4>0. \A x \in s : x \in 1 .. m
          BY <3>2
        <4>1. s \in SUBSET (1 .. m) /\ s \ {Max(s)} \in SUBSET (1 .. m)
              /\ s \ {Max(s)} \in SUBSET (1 .. (m + 1)) /\ m + 1 \notin s \ {Max(s)}
          BY <3>2, <4>0
        <4>2. k[s] = g[s] /\ k[s \ {Max(s)}] = g[s \ {Max(s)}]
          BY <3>2, <4>1
        <4>3. g[s] = body(g, s)
          BY <2>1, <4>1 DEF IterTo
        <4> HIDE DEF k
        <4> QED
          BY <4>2, <4>3
      <3> QED
        BY <3>1, <3>2
    <2>3. IterTo(k, base, seq, m + 1)
      BY <2>2 DEF IterTo
    <2> HIDE DEF k
    <2> QED
      BY <2>3
  <1>3. T = Nat
    BY <1>1, <1>2, SetInduction
  <1> DEFINE g == CHOOSE g : IterTo(g, base, seq, n)
  <1>4. IterTo(g, base, seq, n)
    <2>1. \E h : IterTo(h, base, seq, n)
      BY <1>0, <1>3
    <2> QED
      BY <2>1
  <1>5. FoldLeft(Scheduled, base, seq) = g[1 .. n]
    BY <1>0 DEF FoldLeft, MapThenFoldSet, IterTo
  <1> HIDE DEF g
  <1> DEFINE f == [m \in 0 .. n |-> g[1 .. m]]
  <1>6. f[0] = base
    BY <1>0, <1>4 DEF IterTo
  <1>7. ASSUME NEW m \in 1 .. n PROVE f[m] = Scheduled(f[m - 1], seq[m])
    <2>0. n \in Nat /\ m \in Nat /\ m <= n /\ m >= 1 /\ m \in 1 .. m
      BY <1>0
    <2>1. 1 .. m \in SUBSET (1 .. n) /\ 1 .. m # {} /\ (1 .. m) \ {m} = 1 .. (m - 1)
          /\ m - 1 \in 0 .. n /\ m \in 0 .. n
      <3> HIDE DEF n
      <3>1. 1 .. m \in SUBSET (1 .. n) /\ 1 .. m # {}
        BY <2>0
      <3>2. (1 .. m) \ {m} = 1 .. (m - 1)
        BY <2>0
      <3> QED
        BY <2>0, <3>1, <3>2
    <2>2. Max(1 .. m) = m
      <3>1. m \in 1 .. m /\ \A y \in 1 .. m : m >= y
        OBVIOUS
      <3>2. \A x \in 1 .. m : (\A y \in 1 .. m : x >= y) => x = m
        OBVIOUS
      <3> QED
        BY <3>1, <3>2 DEF Max
    <2>3. g[1 .. m] = Scheduled(g[1 .. (m - 1)], seq[m])
      BY <1>4, <2>1, <2>2 DEF IterTo
    <2> QED
      BY <2>1, <2>3
  <1> HIDE DEF f
  <1>8. f[n] = g[1 .. n]
    BY <1>0 DEF f
  <1> QED
    BY <1>5, <1>6, <1>7, <1>8 DEF Fold


LEMMA MapSequence ==
  ASSUME NEW n \in Nat, NEW f, DOMAIN f = 1 .. n, f = [x \in 1 .. n |-> f[x]]
  PROVE  IsSeq(f) /\ Len(f) = n
  <1> DEFINE S == {f[x] : x \in 1 .. n}
  <1>1. f \in [1 .. n -> S]
    OBVIOUS
  <1>2. f \in Seq(S) /\ Len(f) = n
    BY <1>1
  <1> QED
    BY <1>2 DEF IsSeq

LEMMA PicksSequence ==
  ASSUME NEW c, IsSeq(c.choices)
  PROVE  /\ DOMAIN Picks(c) = 1 .. Len(c.choices) /\ Len(Picks(c)) = Len(c.choices)
         /\ IsSeq(Picks(c)) /\ Len(c.choices) \in Nat /\ DOMAIN c.choices = 1 .. Len(c.choices)
  <1>1. Len(c.choices) \in Nat /\ DOMAIN c.choices = 1 .. Len(c.choices)
    BY AppendBegins
  <1>2. /\ DOMAIN Picks(c) = 1 .. Len(c.choices)
        /\ Picks(c) = [x \in 1 .. Len(c.choices) |-> Picks(c)[x]]
    BY <1>1 DEF Picks
  <1> QED
    BY <1>1, <1>2, MapSequence

\* Some execution for the input i makes the choices p and no more.
Repeatable(sc, i, p) == \E n \in Nat : \E h : History(sc, i, h, n) /\ Picks(h[n]) = p

\* The first x of the choices c, and then k.
Instead(c, x, k) == Append([y \in 1 .. (x - 1) |-> c.choices[y][2]], k)

\* d has the choices of c and the choice k.
Adds(d, c, k) == d.choices = Append(c.choices, ChoiceOf(c, k))

LEMMA ChoosingNext ==
  ASSUME NEW sc, NEW i, NEW h, NEW n \in Nat, NEW k \in Offered(sc, h[n]),
         History(sc, i, h, n), Choosing(h[n]), h[n].outcome = "running"
  PROVE  \E g : History(sc, i, g, n + 1) /\ Adds(g[n + 1], h[n], k)
  <1>1. PICK d : d = After(sc, i, h[n], k)
    OBVIOUS
  <1>2. Follows(sc, i, h[n], d)
    BY <1>1 DEF Follows, Asks, Choosing, Branching
  <1>3. PICK g : /\ History(sc, i, g, n + 1) /\ g[n + 1] = d
                 /\ \A m \in 0 .. n : g[m] = h[m]
    BY <1>2, Longer
  <1>4. d.choices = Append(h[n].choices, ChoiceOf(h[n], k))
    BY <1>1, Grown
  <1> QED
    BY <1>3, <1>4 DEF Adds

\* Where a choice was made, any other candidate could have been chosen.
LEMMA AnotherChoice ==
  ASSUME NEW sc, NEW i, NEW h, NEW n \in Nat, History(sc, i, h, n), sc.mode # "fifo",
         NEW x \in DOMAIN h[n].choices, NEW k \in 0 .. (h[n].choices[x][1] - 1)
  PROVE  Repeatable(sc, i, Instead(h[n], x, k))
  <1>1. PICK l \in Nat : MadeAt(sc, h, n, x, l)
    BY ChoiceMade
  <1>2. /\ l < n /\ Choosing(h[l]) /\ Len(h[l].choices) = x - 1
        /\ h[n].choices[x][1] = Len(CandidatesIn(h[l]))
    BY <1>1 DEF MadeAt
  <1>3. l \in 0 .. (n - 1) /\ l \in 0 .. n /\ n \in 0 .. n /\ l <= n
    BY <1>2
  <1>4. k \in Offered(sc, h[l])
    BY <1>2 DEF Offered, Indices
  <1>5. History(sc, i, h, l) /\ h[l].outcome = "running"
    BY <1>3 DEF History, Follows
  <1>6. PICK g : History(sc, i, g, l + 1) /\ Adds(g[l + 1], h[l], k)
    BY <1>2, <1>4, <1>5, ChoosingNext
  <1> DEFINE d == g[l + 1]
  <1>7. d.choices = Append(h[l].choices, ChoiceOf(h[l], k))
    BY <1>6 DEF Adds
  <1>8. Picks(d) = Instead(h[n], x, k)
    <2> DEFINE e == ChoiceOf(h[l], k)
               s == h[l].choices
               prior == [y \in 1 .. (x - 1) |-> h[n].choices[y][2]]
    <2>1. IsSeq(s) /\ IsSeq(h[n].choices)
      BY <1>3, HistorySequences
    <2>2. Begins(s, h[n].choices)
      BY <1>3, HistoryGrows
    <2>3. d.choices = Append(s, e) /\ e[2] = k /\ Len(s) = x - 1
      BY <1>2, <1>7 DEF ChoiceOf
    <2>4. x - 1 \in Nat /\ x \in Nat
      <3>1. Len(h[n].choices) \in Nat /\ DOMAIN h[n].choices = 1 .. Len(h[n].choices)
        BY <2>1, AppendBegins
      <3> HIDE DEF s
      <3> QED
        BY <3>1
    <2>5. DOMAIN prior = 1 .. (x - 1) /\ prior = [y \in 1 .. (x - 1) |-> prior[y]]
      OBVIOUS
    <2>6. \A y \in 1 .. (x - 1) : prior[y] = h[n].choices[y][2]
      OBVIOUS
    <2> HIDE DEF e, s, prior, d
    <2>7. IsSeq(prior) /\ Len(prior) = x - 1
      BY <2>4, <2>5, MapSequence
    <2>8. /\ IsSeq(d.choices) /\ Len(d.choices) = x /\ d.choices[x] = e
          /\ \A y \in 1 .. (x - 1) : d.choices[y] = s[y]
      BY <2>1, <2>3, <2>4, AppendBegins DEF Begins
    <2>9. /\ Len(Append(prior, k)) = x /\ Append(prior, k)[x] = k /\ IsSeq(Append(prior, k))
          /\ \A y \in 1 .. (x - 1) : Append(prior, k)[y] = prior[y]
      BY <2>4, <2>7, AppendBegins DEF Begins
    <2>10. DOMAIN Picks(d) = 1 .. x /\ DOMAIN Append(prior, k) = 1 .. x
      BY <2>8, <2>9, PicksSequence, AppendBegins
    <2>11. ASSUME NEW y \in 1 .. x PROVE Picks(d)[y] = Append(prior, k)[y]
      <3>1. Picks(d)[y] = d.choices[y][2]
        BY <2>8, AppendBegins DEF Picks
      <3>2. CASE y = x
        BY <2>3, <2>8, <2>9, <3>1, <3>2
      <3>3. CASE y # x
        <4>1. y \in 1 .. (x - 1)
          BY <2>4, <3>3
        <4>2. s[y] = h[n].choices[y]
          BY <2>2, <2>3, <4>1 DEF Begins
        <4> QED
          BY <2>6, <2>8, <2>9, <3>1, <4>1, <4>2
      <3> QED
        BY <3>2, <3>3
    <2>12. Picks(d) = [y \in 1 .. x |-> Picks(d)[y]] /\ Append(prior, k) = [y \in 1 .. x |-> Append(prior, k)[y]]
      <3>1. Picks(d) = [y \in DOMAIN d.choices |-> Picks(d)[y]]
        BY DEF Picks
      <3>2. \A r : IsSeq(r) => r = [y \in DOMAIN r |-> r[y]]
        BY DEF IsSeq
      <3> QED
        BY <2>8, <2>9, <2>10, <3>1, <3>2 DEF Picks
    <2>13. Picks(d) = Append(prior, k)
      BY <2>11, <2>12
    <2> QED
      BY <2>13 DEF Instead, prior
  <1> QED
    BY <1>6, <1>8 DEF Repeatable


--------------------------------------------------------------------------------
(* The alternatives of an execution. *)

Timeouts == {"timeout", "total_timeout"}

\* The execution is one: h up to n, if it was not cut short since.
IsAt(h, n) ==
    /\ History(scenario, input, h, n)
    /\ choices = h[n].choices /\ path = h[n].path
    /\ outcome \notin Timeouts => Frame = h[n]

Present == \E n \in Nat : \E h : IsAt(h, n)

Branchings(sc, i) == {p \in Seq(Nat) : p # <<>> /\ Repeatable(sc, i, p)}

\* The siblings of the choice number x, in their order.
Siblings(c, x) ==
    [k \in 1 .. (c.choices[x][1] - 1) |->
        Instead(c, x, IF k <= c.choices[x][2] THEN k - 1 ELSE k)]

LEMMA AlternativesAre ==
  ASSUME NEW c, choices = c.choices
  PROVE  Alternatives = FlattenSeq([x \in DOMAIN c.choices |-> Siblings(c, x)])
  BY DEF Alternatives, Siblings, Instead

LEMMA ChoicesOffered ==
  ASSUME NEW sc, NEW i, NEW h, NEW n \in Nat, History(sc, i, h, n), sc.mode # "fifo",
         NEW x \in DOMAIN h[n].choices
  PROVE  /\ h[n].choices[x][1] \in Nat /\ h[n].choices[x][2] \in Nat /\ x \in Nat /\ x >= 1
         /\ h[n].choices[x][1] > 0 => h[n].choices[x][2] < h[n].choices[x][1]
  <1>1. PICK l \in Nat : MadeAt(sc, h, n, x, l)
    BY ChoiceMade
  <1> DEFINE count == Len(CandidatesIn(h[l]))
             k == h[n].choices[x][2]
  <1>2. h[n].choices[x][1] = count /\ k \in Offered(sc, h[l]) /\ Choosing(h[l])
    BY <1>1 DEF MadeAt
  <1>3. DOMAIN h[n].choices = 1 .. Len(h[n].choices) /\ Len(h[n].choices) \in Nat
    BY Restrained
  <1>4. x \in Nat /\ x >= 1
    BY <1>3
  <1>5. count \in Nat /\ k \in (0 .. (count - 1)) \cup {0}
    BY <1>2 DEF Offered, Indices
  <1> HIDE DEF count, k
  <1>6. k \in Nat /\ (count > 0 => k < count)
    BY <1>5
  <1> QED
    BY <1>2, <1>4, <1>5, <1>6 DEF k

LEMMA InsteadIn ==
  ASSUME NEW sc, NEW i, NEW h, NEW n \in Nat, History(sc, i, h, n), sc.mode # "fifo",
         NEW x \in DOMAIN h[n].choices, NEW k \in 0 .. (h[n].choices[x][1] - 1)
  PROVE  Instead(h[n], x, k) \in Branchings(sc, i)
  <1> DEFINE prior == [y \in 1 .. (x - 1) |-> h[n].choices[y][2]]
  <1>1. x \in Nat /\ x >= 1 /\ k \in Nat
    <2>1. x \in Nat /\ x >= 1 /\ h[n].choices[x][1] \in Nat
      BY ChoicesOffered
    <2> QED
      BY <2>1
  <1>2. DOMAIN h[n].choices = 1 .. Len(h[n].choices) /\ Len(h[n].choices) \in Nat
    BY Restrained
  <1>3. prior \in [1 .. (x - 1) -> Nat]
    <2>1. \A y \in 1 .. (x - 1) : y \in DOMAIN h[n].choices
      BY <1>1, <1>2
    <2>2. \A y \in 1 .. (x - 1) : h[n].choices[y][2] \in Nat
      BY <2>1, ChoicesOffered
    <2> QED
      BY <2>2
  <1>4. x - 1 \in Nat
    BY <1>1
  <1> HIDE DEF prior
  <1>5. prior \in Seq(Nat)
    BY <1>3, <1>4
  <1>6. Append(prior, k) \in Seq(Nat) /\ Append(prior, k) # <<>>
    BY <1>1, <1>5
  <1>7. Instead(h[n], x, k) = Append(prior, k)
    BY DEF Instead, prior
  <1>8. Repeatable(sc, i, Instead(h[n], x, k))
    BY AnotherChoice
  <1> QED
    BY <1>6, <1>7, <1>8 DEF Branchings

\* t has the member e.
Has(t, e) == \E y \in DOMAIN t : t[y] = e

LEMMA AlternativesFound ==
  ASSUME NEW h, NEW n \in Nat, IsAt(h, n), scenario.mode # "fifo"
  PROVE  /\ Alternatives \in Seq(Branchings(scenario, input))
         /\ \A x \in DOMAIN choices : \A k \in 0 .. (choices[x][1] - 1) :
              k # choices[x][2] => Has(Alternatives, Instead(h[n], x, k))
  <1> DEFINE c == h[n]
             S == Branchings(scenario, input)
             seqs == [x \in DOMAIN c.choices |-> Siblings(c, x)]
  <1>1. History(scenario, input, h, n) /\ choices = c.choices
    BY DEF IsAt
  <1>2. Alternatives = FlattenSeq(seqs)
    BY <1>1, AlternativesAre
  <1>3. \A x \in DOMAIN c.choices :
          /\ c.choices[x][1] \in Nat /\ c.choices[x][2] \in Nat
          /\ c.choices[x][1] > 0 => c.choices[x][2] < c.choices[x][1]
    BY <1>1, ChoicesOffered
  <1>4. ASSUME NEW x \in DOMAIN c.choices
        PROVE  Siblings(c, x) \in Seq(S)
    <2> DEFINE a == c.choices[x][1]
               b == c.choices[x][2]
               z == IF a = 0 THEN 0 ELSE a - 1
               other(k) == IF k <= b THEN k - 1 ELSE k
    <2>1. a \in Nat /\ b \in Nat
      BY <1>3
    <2>2. z \in Nat /\ 1 .. z = 1 .. (a - 1)
      <3> HIDE DEF a
      <3> QED
        BY <2>1
    <2>3. \A k \in 1 .. (a - 1) : other(k) \in 0 .. (a - 1)
      <3> HIDE DEF a, b
      <3> QED
        BY <2>1
    <2>4. \A k \in 0 .. (a - 1) : Instead(c, x, k) \in S
      BY <1>1, InsteadIn
    <2>5. Siblings(c, x) = [k \in 1 .. (a - 1) |-> Instead(c, x, other(k))]
      BY DEF Siblings
    <2> HIDE DEF a, b, z, other, S
    <2>6. Siblings(c, x) \in [1 .. z -> S]
      BY <2>2, <2>3, <2>4, <2>5
    <2> QED
      BY <2>2, <2>6
  <1>5. seqs \in Seq(Seq(S))
    <2>1. DOMAIN c.choices = 1 .. Len(c.choices) /\ Len(c.choices) \in Nat
      BY <1>1, Restrained
    <2> HIDE DEF S
    <2>2. seqs \in [1 .. Len(c.choices) -> Seq(S)]
      BY <1>4, <2>1
    <2> QED
      BY <2>1, <2>2
  <1>6. /\ FlattenSeq(seqs) \in Seq(S)
        /\ \A x \in DOMAIN seqs : Holds(FlattenSeq(seqs), seqs[x])
    <2> HIDE DEF S, seqs
    <2> QED
      BY <1>5, Flattened
  <1>7. ASSUME NEW x \in DOMAIN c.choices, NEW k \in 0 .. (c.choices[x][1] - 1), k # c.choices[x][2]
        PROVE  Has(FlattenSeq(seqs), Instead(c, x, k))
    <2> DEFINE a == c.choices[x][1]
               b == c.choices[x][2]
               j == IF k < b THEN k + 1 ELSE k
    <2>1. a \in Nat /\ b \in Nat /\ (a > 0 => b < a)
      BY <1>3
    <2>2. j \in 1 .. (a - 1) /\ (IF j <= b THEN j - 1 ELSE j) = k
      <3>1. k \in 0 .. (a - 1) /\ k # b
        BY <1>7
      <3> HIDE DEF a, b
      <3>2. j <= a - 1
        <4>1. CASE k < b
          <5>1. k + 1 <= b
            BY <2>1, <3>1, <4>1
          <5>2. b <= a - 1
            BY <2>1, <3>1
          <5> QED
            BY <2>1, <3>1, <4>1, <5>1, <5>2
        <4>2. CASE ~(k < b)
          BY <2>1, <3>1, <4>2
        <4> QED
          BY <4>1, <4>2
      <3> QED
        BY <2>1, <3>1, <3>2
    <2>3. j \in DOMAIN seqs[x] /\ seqs[x][j] = Instead(c, x, k)
      BY <2>2 DEF Siblings
    <2>4. x \in DOMAIN seqs
      OBVIOUS
    <2> HIDE DEF seqs, c, j
    <2> QED
      BY <1>6, <2>3, <2>4 DEF Holds, Has
  <1> QED
    BY <1>1, <1>2, <1>6, <1>7

--------------------------------------------------------------------------------
(* Executions repeat the choices they were queued with. *)

\* States that can be queued.
Pendings(sc) ==
    {s \in [input : Inputs, prefix : Seq(Nat)] :
        /\ s.prefix # <<>> => sc.mode # "fifo"
        /\ Repeatable(sc, s.input, s.prefix)}

Queues(sc) == [pending : Seq(Pendings(sc)), truncated : BOOLEAN, dropped : Nat]

Replaying ==
    /\ scenario \in Scenarios
    /\ current # None => outcome = "running"
    /\ queue \in Queues(scenario)
    /\ input \in Inputs /\ prefix \in Seq(Nat)
    /\ unguided \/ State(input, prefix) \in Pendings(scenario)
    /\ outcome = "none" \/ Present
    /\ PrefixReplayed

LEMMA ScenarioFacts ==
  ASSUME scenario \in Scenarios
  PROVE  /\ scenario.initial \in Inputs /\ scenario.mode \in {"fifo", "nondeterministic"}
         /\ scenario.timeouts \subseteq Timeouts /\ scenario.maxSchedules \in Nat
  BY ScenariosAssumption DEF Timeouts

LEMMA StartedHistory ==
  ASSUME NEW sc, NEW i
  PROVE  \E h : History(sc, i, h, 0) /\ h[0] = Started
  <1> DEFINE h == [m \in 0 .. 0 |-> Started]
  <1>1. h[0] = Started /\ 0 .. (0 - 1) = {}
    OBVIOUS
  <1>2. History(sc, i, h, 0)
    BY <1>1 DEF History
  <1> HIDE DEF h
  <1> QED
    BY <1>1, <1>2

LEMMA FreshPending ==
  ASSUME NEW sc, NEW i \in Inputs
  PROVE  State(i, <<>>) \in Pendings(sc)
  <1>1. PICK h : History(sc, i, h, 0) /\ h[0] = Started
    BY StartedHistory
  <1>2. Picks(Started) = <<>>
    <2>1. Started.choices = <<>>
      BY DEF Started
    <2> QED
      BY <2>1 DEF Picks
  <1>3. Repeatable(sc, i, <<>>)
    BY <1>1, <1>2 DEF Repeatable
  <1> QED
    BY <1>3 DEF Pendings, State

LEMMA EnqueuedQueue ==
  ASSUME NEW STATE q, NEW STATE s, q \in Queues(scenario), s \in Pendings(scenario)
  PROVE  Enqueued(q, s) \in Queues(scenario)
  <1> DEFINE P == Pendings(scenario)
             Q == [pending : Seq(P), truncated : BOOLEAN, dropped : Nat]
  <1>0. Queues(scenario) = Q
    BY DEF Queues
  <1> HIDE DEF P
  <1>1. q \in Q /\ s \in P
    BY <1>0 DEF P
  <1>2. Append(q.pending, s) \in Seq(P)
    BY <1>1
  <1>3. [pending |-> q.pending, truncated |-> TRUE, dropped |-> q.dropped + 1] \in Q
    BY <1>1
  <1>4. [q EXCEPT !.pending = Append(@, s)] \in Q
    BY <1>1, <1>2
  <1> HIDE DEF Q
  <1>5. Enqueued(q, s) \in Q
    BY <1>3, <1>4 DEF Enqueued
  <1> QED
    BY <1>0, <1>5

LEMMA ScheduledQueue ==
  ASSUME NEW STATE f, NEW STATE p, f.queue \in Queues(scenario), input \in Inputs,
         p \in Branchings(scenario, input), scenario.mode # "fifo"
  PROVE  Scheduled(f, p).queue \in Queues(scenario)
  <1>1. State(input, p) \in Pendings(scenario)
    BY DEF State, Pendings, Branchings
  <1>2. Enqueued(f.queue, State(input, p)) \in Queues(scenario)
    BY <1>1, EnqueuedQueue
  <1> QED
    BY <1>2 DEF Scheduled

\* The queue after an observation.
LEMMA FoldedQueue ==
  ASSUME NEW STATE base, base.queue \in Queues(scenario), input \in Inputs,
         Alternatives \in Seq(Branchings(scenario, input)), scenario.mode # "fifo"
  PROVE  FoldLeft(Scheduled, base, Alternatives).queue \in Queues(scenario)
  <1> DEFINE seq == Alternatives
  <1>1. IsSeq(seq) /\ Len(seq) \in Nat /\ \A m \in 1 .. Len(seq) : seq[m] \in Branchings(scenario, input)
    BY DEF IsSeq
  <1>2. PICK f : Fold(f, base, seq) /\ FoldLeft(Scheduled, base, seq) = f[Len(seq)]
    BY <1>1, Folded
  <1> HIDE DEF seq
  <1> DEFINE T == {m \in Nat : m <= Len(seq) => f[m].queue \in Queues(scenario)}
  <1>3. 0 \in T
    BY <1>2 DEF Fold
  <1>4. ASSUME NEW m \in Nat, m \in T PROVE m + 1 \in T
    <2> SUFFICES ASSUME m + 1 <= Len(seq) PROVE f[m + 1].queue \in Queues(scenario)
      OBVIOUS
    <2>1. m + 1 \in 1 .. Len(seq) /\ (m + 1) - 1 = m /\ f[m].queue \in Queues(scenario)
      BY <1>1, <1>4
    <2>2. f[m + 1] = Scheduled(f[m], seq[m + 1])
      BY <1>2, <2>1 DEF Fold
    <2>3. seq[m + 1] \in Branchings(scenario, input)
      BY <1>1, <2>1
    <2>4. Scheduled(f[m], seq[m + 1]).queue \in Queues(scenario)
      BY <2>1, <2>3, ScheduledQueue
    <2> QED
      BY <2>2, <2>4
  <1>5. T = Nat
    BY <1>3, <1>4, SetInduction
  <1> QED
    BY <1>1, <1>2, <1>5 DEF seq

\* The present execution and one that makes the choices of its prefix go the same
\* way until the prefix is used up.
LEMMA SameAsQueued ==
  ASSUME NEW sc, NEW i, NEW g, NEW m \in Nat, History(sc, i, g, m),
         NEW h, NEW n \in Nat, History(sc, i, h, n),
         Compatible(Picks(g[m]), Picks(h[n])), Len(g[m].choices) < Len(h[n].choices)
  PROVE  m < n /\ h[m] = g[m] /\ h[m].outcome = "running"
  <1>1. \A l \in Nat : l <= m /\ l <= n => g[l] = h[l]
    BY Determined
  <1>2. m < n
    <2> SUFFICES ASSUME ~(m < n) PROVE FALSE
      OBVIOUS
    <2>1. n <= m /\ n \in 0 .. m /\ m \in 0 .. m
      OBVIOUS
    <2>2. g[n] = h[n]
      BY <1>1, <2>1
    <2>3. Begins(g[n].choices, g[m].choices)
      BY <2>1, HistoryGrows
    <2>4. Len(g[n].choices) \in Nat /\ Len(g[m].choices) \in Nat
      BY <2>1, Restrained
    <2> QED
      BY <2>2, <2>3, <2>4 DEF Begins
  <1>3. m \in 0 .. (n - 1)
    BY <1>2
  <1> QED
    BY <1>1, <1>2, <1>3 DEF History, Follows

LEMMA StaysRunning ==
  ASSUME NEW sc, NEW i, NEW c, NEW k, After(sc, i, c, k).current # None
  PROVE  After(sc, i, c, k).outcome = c.outcome
  BY DEF After, Chosen, Rested, Branched, Ran, FinishedAs, LeftWith, ProceededTo, RanTo, CreatedIn, ThrownAs

LEMMA PrefixCompatible ==
  ASSUME NEW c, NEW p, IsSeq(c.choices), IsSeq(p)
  PROVE  Compatible(Picks(c), p)
           <=> \A x \in DOMAIN c.choices : x <= Len(p) => c.choices[x][2] = p[x]
  <1>1. DOMAIN c.choices = 1 .. Len(c.choices) /\ DOMAIN p = 1 .. Len(p)
        /\ Len(p) \in Nat /\ Len(c.choices) \in Nat
    BY AppendBegins
  <1>2. DOMAIN Picks(c) = DOMAIN c.choices /\ \A x \in DOMAIN c.choices : Picks(c)[x] = c.choices[x][2]
    BY DEF Picks
  <1> QED
    BY <1>1, <1>2 DEF Compatible

\* The execution that a queued state came from.
LEMMA QueuedBy ==
  ASSUME Replaying, ~unguided
  PROVE  \E m \in Nat : \E g : History(scenario, input, g, m) /\ Picks(g[m]) = prefix
                               /\ Len(g[m].choices) = Len(prefix) /\ IsSeq(g[m].choices)
  <1>1. PICK m, g : m \in Nat /\ History(scenario, input, g, m) /\ Picks(g[m]) = prefix
    BY DEF Replaying, Pendings, Repeatable, State
  <1>2. IsSeq(g[m].choices)
    BY <1>1, HistorySequences
  <1>3. Len(g[m].choices) = Len(prefix)
    BY <1>1, <1>2, PicksSequence
  <1> QED
    BY <1>1, <1>2, <1>3

\* The next choice is that of the prefix.
LEMMA RepeatsNext ==
  ASSUME Replaying, ~unguided, Resume, Len(choices) < Len(prefix)
  PROVE  choices' = Append(choices, <<Len(Candidates), prefix[Len(choices) + 1]>>)
  <1>1. outcome = "running" /\ current = None /\ ~Done(Main) /\ Candidates # <<>>
    BY DEF Resume, Between
  <1>2. PICK n, h : n \in Nat /\ IsAt(h, n)
    BY <1>1 DEF Replaying, Present
  <1>3. History(scenario, input, h, n) /\ Frame = h[n] /\ choices = h[n].choices
    BY <1>1, <1>2 DEF IsAt, Timeouts
  <1>4. PICK m, g : m \in Nat /\ History(scenario, input, g, m) /\ Picks(g[m]) = prefix
                             /\ Len(g[m].choices) = Len(prefix) /\ IsSeq(g[m].choices)
    BY QueuedBy
  <1>5. IsSeq(choices) /\ IsSeq(prefix) /\ Len(choices) \in Nat
    <2>1. IsSeq(choices)
      BY <1>2, <1>4, <1>3, HistorySequences
    <2>2. IsSeq(prefix)
      BY DEF Replaying, IsSeq
    <2> QED
      BY <2>1, <2>2, AppendBegins
  <1>6. Compatible(Picks(h[n]), Picks(g[m]))
    BY <1>3, <1>4, <1>5, PrefixCompatible DEF Replaying, PrefixReplayed
  <1>7. n < m /\ g[n] = h[n]
    BY <1>2, <1>3, <1>4, <1>6, SameAsQueued
  <1>8. Choosing(g[n]) /\ CandidatesIn(g[n]) = Candidates /\ g[n].choices = choices
    <2>1. Choosing(Frame)
      BY <1>1, Views DEF Choosing, Frame
    <2> QED
      BY <1>3, <1>7, <2>1, Views
  <1>9. PICK j \in Offered(scenario, g[n]) : g[n + 1] = After(scenario, input, g[n], j)
    <2>1. n \in 0 .. (m - 1)
      BY <1>2, <1>4, <1>7
    <2> QED
      BY <1>4, <2>1 DEF History, Follows
  <1>10. ChosenAt(g[m], Len(g[n].choices) + 1, Len(CandidatesIn(g[n])), j)
    BY <1>2, <1>4, <1>7, <1>8, <1>9, ChoiceKept
  <1>11. prefix[Len(choices) + 1] = j
    BY <1>4, <1>8, <1>10 DEF ChosenAt
  <1>12. scenario.mode # "fifo" /\ Len(prefix) \in Nat
    <2>1. prefix # <<>> /\ Len(prefix) \in Nat
      <3>1. Len(prefix) \in Nat /\ Len(prefix) # 0
        BY <1>5, AppendBegins
      <3> QED
        BY <3>1
    <2> QED
      BY <2>1 DEF Replaying, Pendings, State
  <1>13. \A k \in Choice(Candidates) : k = j
    <2>1. Choice(Candidates) = {Repeated(Len(Candidates))}
      BY <1>12 DEF Choice
    <2>2. j \in 0 .. (Len(Candidates) - 1) \cup {0}
      BY <1>8, <1>9, <1>12 DEF Offered, Indices
    <2>3. Len(Candidates) \in Nat
      <3>1. ChosenAt(g[m], Len(choices) + 1, Len(Candidates), j)
        BY <1>8, <1>10
      <3>2. Len(choices) + 1 \in DOMAIN g[m].choices
            /\ g[m].choices[Len(choices) + 1] = <<Len(Candidates), j>>
        BY <3>1 DEF ChosenAt
      <3>3. g[m].choices[Len(choices) + 1][1] \in Nat
        BY <1>4, <1>12, <3>2, ChoicesOffered
      <3> QED
        BY <3>2, <3>3
    <2>4. Repeated(Len(Candidates)) = j
      <3>1. CASE Len(Candidates) <= 1
        BY <2>2, <2>3, <3>1 DEF Repeated
      <3>2. CASE ~(Len(Candidates) <= 1)
        <4>1. Repeated(Len(Candidates)) = j % Len(Candidates)
          BY <1>5, <1>11, <1>12, <3>2 DEF Repeated
        <4>2. j \in 0 .. (Len(Candidates) - 1) /\ Len(Candidates) > 1
          BY <2>2, <2>3, <3>2
        <4> QED
          BY <2>3, <4>1, <4>2
      <3> QED
        BY <3>1, <3>2
    <2> QED
      BY <2>1, <2>4
  <1> QED
    BY <1>11, <1>13 DEF Resume

LEMMA EndsProperly ==
  ASSUME NEW sc, NEW i, NEW c, NEW d, Follows(sc, i, c, d)
  PROVE  d.outcome \notin Timeouts
  <1>1. c.outcome = "running" /\ \E k : d = After(sc, i, c, k)
    BY DEF Follows
  <1>2. PICK k : d = After(sc, i, c, k)
    BY <1>1
  <1>3. CASE d = Chosen(c, k)
    BY <1>1, <1>3 DEF Chosen, Timeouts
  <1>4. CASE d = Rested(c)
    BY <1>4 DEF Rested, DoneIn, Timeouts
  <1>5. CASE d = Branched(sc, i, c)
    BY <1>1, <1>5 DEF Branched, RanTo, Timeouts
  <1>6. CASE d = Ran(sc, c)
    <2>1. Ran(sc, c).outcome \in {"limit", c.outcome}
      BY DEF Ran, FinishedAs, LeftWith, ProceededTo, RanTo, CreatedIn, ThrownAs
    <2> QED
      BY <1>1, <1>6, <2>1 DEF Timeouts
  <1> QED
    BY <1>2, <1>3, <1>4, <1>5, <1>6 DEF After

\* A step of the present execution.
LEMMA StepReplays ==
  ASSUME Replaying, Asks(scenario, Frame), Execute, UNCHANGED searchVars
  PROVE  Replaying' /\ Present' /\ (unguided => outcome' \notin Timeouts)
  <1>1. /\ UNCHANGED <<scenario, input, prefix, unguided>> /\ outcome = "running"
    <2>1. Resume \/ Deadlock \/ End \/ Expire => UNCHANGED <<scenario, input, prefix, unguided>>
      BY DEF Resume, Deadlock, End, Expire
    <2>2. Turn => UNCHANGED <<scenario, input, prefix, unguided>> /\ current # None
      BY DEF Turn, CancelUnstarted, Sleep, AwaitMore, AwaitResult, Create, Cancel, Branch, Write,
             Return, Raise, Runs
    <2>3. Resume \/ Deadlock \/ End \/ Expire => outcome = "running"
      BY DEF Resume, Deadlock, End, Expire, Between
    <2> QED
      BY <2>1, <2>2, <2>3 DEF Execute, Replaying
  <1>2. PICK n, h : n \in Nat /\ IsAt(h, n)
    BY <1>1 DEF Replaying, Present
  <1>3. History(scenario, input, h, n) /\ Frame = h[n] /\ choices = h[n].choices /\ path = h[n].path
    BY <1>1, <1>2 DEF IsAt, Timeouts
  <1>4. IsSeq(choices) /\ IsSeq(prefix) /\ Len(choices) \in Nat /\ Len(prefix) \in Nat
    <2>1. IsSeq(choices)
      BY <1>2, <1>3, HistorySequences
    <2>2. IsSeq(prefix)
      BY DEF Replaying, IsSeq
    <2> QED
      BY <2>1, <2>2, AppendBegins
  <1>5. Expire \/ Follows(scenario, input, Frame, Frame')
    BY <1>1, <1>4, ScenarioFacts, ExecuteFollows DEF Replaying
  <1>6. queue' = queue
    BY DEF searchVars
  <1>7. CASE Expire
    <2>1. outcome' \in Timeouts /\ current' = None /\ UNCHANGED <<choices, path>>
      BY <1>7, ScenarioFacts DEF Expire, Replaying
    <2>2. IsAt(h, n)'
      BY <1>1, <1>3, <2>1 DEF IsAt
    <2>3. PrefixReplayed'
      BY <1>1, <2>1 DEF Replaying, PrefixReplayed, Timeouts
    <2> QED
      BY <1>2, <1>1, <1>6, <1>7, <2>1, <2>2, <2>3 DEF Replaying, Present, Expire
  <1>8. CASE ~Expire
    <2>1. PICK d : d = Frame'
      OBVIOUS
    <2>2. n \in Nat /\ Follows(scenario, input, h[n], d)
      BY <1>2, <1>3, <1>5, <1>8, <2>1
    <2>3. PICK g : /\ History(scenario, input, g, n + 1) /\ g[n + 1] = d
                   /\ \A m \in 0 .. n : g[m] = h[m]
      BY <1>3, <2>2, Longer
    <2>4. n + 1 \in Nat
      BY <2>2
    <2>5. choices' = g[n + 1].choices /\ path' = g[n + 1].path /\ Frame' = g[n + 1]
          /\ current' = d.current /\ outcome' = d.outcome
      BY <2>1, <2>3 DEF Frame
    <2>6. IsAt(g, n + 1)'
      BY <1>1, <2>3, <2>5 DEF IsAt
    <2>7. current' # None => outcome' = "running"
      <3>1. PICK k : d = After(scenario, input, h[n], k)
        BY <2>2 DEF Follows
      <3>2. h[n].outcome = "running"
        BY <2>2 DEF Follows
      <3> QED
        BY <2>5, <3>1, <3>2, StaysRunning
    <2>11. outcome' \notin Timeouts
      BY <2>2, <2>5, EndsProperly
    <2>8. ASSUME ~unguided PROVE \A x \in DOMAIN choices' : x <= Len(prefix) => choices'[x][2] = prefix[x]
      <3>1. CASE choices' = choices
        BY <2>8, <3>1 DEF Replaying, PrefixReplayed
      <3>2. CASE choices' # choices
        <4>1. Resume
          <5>1. ~Deadlock /\ ~End /\ ~Turn
            BY <3>2 DEF Deadlock, End, Turn, CancelUnstarted, Sleep, AwaitMore, AwaitResult, Create,
                        Cancel, Branch, Write, Return, Raise
          <5> QED
            BY <1>8, <5>1 DEF Execute
        <4>2. PICK k : choices' = Append(choices, <<Len(Candidates), k>>)
          BY <4>1 DEF Resume
        <4> DEFINE e == <<Len(Candidates), k>>
        <4>3. choices' = Append(choices, e)
          BY <4>2
        <4> HIDE DEF e
        <4>4. /\ DOMAIN choices' = 1 .. (Len(choices) + 1) /\ DOMAIN choices = 1 .. Len(choices)
              /\ \A x \in 1 .. Len(choices) : choices'[x] = choices[x]
          BY <1>4, <4>3, AppendBegins DEF Begins
        <4>5. SUFFICES ASSUME NEW x \in DOMAIN choices', x <= Len(prefix)
                       PROVE  choices'[x][2] = prefix[x]
          OBVIOUS
        <4>6. CASE x \in 1 .. Len(choices)
          BY <2>8, <4>4, <4>5, <4>6 DEF Replaying, PrefixReplayed
        <4>7. CASE x \notin 1 .. Len(choices)
          <5>1. x = Len(choices) + 1
            BY <1>4, <4>4, <4>7
          <5>2. Len(choices) < Len(prefix)
            BY <1>4, <4>5, <5>1
          <5>3. PICK f : f = <<Len(Candidates), prefix[Len(choices) + 1]>>
            OBVIOUS
          <5>4. choices' = Append(choices, f)
            BY <2>8, <4>1, <5>2, <5>3, RepeatsNext
          <5>5. choices'[Len(choices) + 1] = f /\ f[2] = prefix[Len(choices) + 1]
            BY <1>4, <5>3, <5>4, AppendBegins
          <5> QED
            BY <5>1, <5>5
        <4> QED
          BY <4>6, <4>7
      <3> QED
        BY <3>1, <3>2
    <2>9. ASSUME ~unguided, outcome' # "running" PROVE Len(choices') >= Len(prefix)
      <3>1. PICK m, f : m \in Nat /\ History(scenario, input, f, m) /\ Picks(f[m]) = prefix
                                 /\ Len(f[m].choices) = Len(prefix) /\ IsSeq(f[m].choices)
        BY <2>9, QueuedBy
      <3>2. IsSeq(g[n + 1].choices)
        BY <2>3, <2>4, HistorySequences
      <3>3. Compatible(Picks(g[n + 1]), Picks(f[m]))
        <4>1. \A x \in DOMAIN g[n + 1].choices : x <= Len(prefix) => g[n + 1].choices[x][2] = prefix[x]
          BY <2>5, <2>8, <2>9
        <4> QED
          BY <1>4, <3>1, <3>2, <4>1, PrefixCompatible
      <3>4. Len(g[n + 1].choices) \in Nat
        BY <3>2, AppendBegins
      <3>5. ~(Len(g[n + 1].choices) < Len(f[m].choices))
        <4>1. g[n + 1].outcome # "running"
          BY <2>3, <2>5, <2>9
        <4> QED
          BY <2>3, <2>4, <3>1, <3>3, <4>1, SameAsQueued
      <3> QED
        BY <1>4, <2>5, <3>1, <3>4, <3>5
    <2>10. PrefixReplayed'
      BY <1>1, <2>8, <2>9 DEF PrefixReplayed
    <2> QED
      BY <1>1, <1>6, <2>4, <2>6, <2>7, <2>10, <2>11 DEF Replaying, Present
  <1> QED
    BY <1>7, <1>8

LEMMA QuietReplays ==
  ASSUME Replaying, UNCHANGED <<scenario, runVars>>, queue' \in Queues(scenario)
  PROVE  Replaying'
  <1>1. Frame' = Frame
    BY DEF runVars, Frame
  <1>2. Present' = Present
    BY <1>1 DEF runVars, Present, IsAt
  <1> QED
    BY <1>2 DEF runVars, Replaying, PrefixReplayed

LEMMA StartReplays ==
  ASSUME NEW STATE i, NEW STATE p, NEW STATE free, scenario \in Scenarios, UNCHANGED scenario,
         i \in Inputs, p \in Seq(Nat), Start(i, p, free), free \/ State(i, p) \in Pendings(scenario),
         queue' \in Queues(scenario)
  PROVE  Replaying'
  <1>1. /\ input' = i /\ prefix' = p /\ unguided' = free /\ choices' = <<>> /\ path' = <<>>
        /\ current' = None /\ outcome' = "running"
    BY DEF Start
  <1>2. Frame' = Started
    BY DEF Start, Frame, Started
  <1>3. PICK h : History(scenario, i, h, 0) /\ h[0] = Started
    BY StartedHistory
  <1>4. IsAt(h, 0)'
    <2>1. Started.choices = <<>> /\ Started.path = <<>>
      BY DEF Started
    <2> QED
      BY <1>1, <1>2, <1>3, <2>1 DEF IsAt
  <1>5. PrefixReplayed'
    BY <1>1 DEF PrefixReplayed
  <1> QED
    BY <1>1, <1>4, <1>5 DEF Replaying, Present

LEMMA QueueReplays ==
  ASSUME Replaying, NEW STATE i, i \in Inputs, QueueInput(i) \/ QueueNothing
  PROVE  queue' \in Queues(scenario)
  <1>1. CASE QueueInput(i)
    <2>1. State(i, <<>>) \in Pendings(scenario)
      BY FreshPending
    <2> QED
      BY <1>1, <2>1, EnqueuedQueue DEF QueueInput, Replaying
  <1>2. CASE QueueNothing
    BY <1>2 DEF QueueNothing, Replaying
  <1> QED
    BY <1>1, <1>2

LEMMA ReplayingStarts ==
  Init => Replaying
  <1> SUFFICES ASSUME Init PROVE Replaying
    OBVIOUS
  <1>1. scenario \in Scenarios /\ scenario.initial \in Inputs
    BY ScenarioFacts DEF Init
  <1>2. /\ input = scenario.initial /\ prefix = <<>> /\ choices = <<>> /\ current = None /\ outcome = "none"
        /\ queue = [pending |-> <<State(scenario.initial, <<>>)>>, truncated |-> FALSE, dropped |-> 0]
    BY DEF Init, Idle
  <1>3. State(scenario.initial, <<>>) \in Pendings(scenario)
    BY <1>1, FreshPending
  <1>4. queue \in Queues(scenario)
    <2> DEFINE P == Pendings(scenario)
               s == State(scenario.initial, <<>>)
    <2>1. s \in P
      BY <1>3
    <2> HIDE DEF P, s
    <2>2. <<s>> \in Seq(P)
      BY <2>1
    <2>3. [pending |-> <<s>>, truncated |-> FALSE, dropped |-> 0]
            \in [pending : Seq(P), truncated : BOOLEAN, dropped : Nat]
      BY <2>2
    <2> QED
      BY <1>2, <2>3 DEF P, s, Queues
  <1>5. PrefixReplayed
    BY <1>2 DEF PrefixReplayed
  <1>6. <<>> \in Seq(Nat)
    OBVIOUS
  <1> QED
    BY <1>1, <1>2, <1>3, <1>4, <1>5, <1>6 DEF Replaying

LEMMA ReplayingStays ==
  Replaying /\ Asks(scenario, Frame) /\ [Next]_vars => Replaying'
  <1> SUFFICES ASSUME Replaying, Asks(scenario, Frame), [Next]_vars PROVE Replaying'
    OBVIOUS
  <1>1. CASE Pop
    <2>1. PICK i \in Positions : /\ Start(queue.pending[i].input, queue.pending[i].prefix, FALSE)
                                 /\ queue' = [queue EXCEPT !.pending = RemoveAt(@, i)]
      BY <1>1 DEF Pop
    <2> DEFINE P == Pendings(scenario)
               Q == [pending : Seq(P), truncated : BOOLEAN, dropped : Nat]
               s == queue.pending[i]
    <2>2. queue \in Q /\ queue.pending # <<>>
      BY <1>1 DEF Replaying, Queues, Pop
    <2> HIDE DEF P
    <2>3. i \in DOMAIN queue.pending /\ queue.pending \in Seq(P)
      BY <2>1, <2>2 DEF Positions
    <2>4. RemoveAt(queue.pending, i) \in Seq(P)
      BY <2>3 DEF RemoveAt
    <2>5. queue' \in Q
      BY <2>1, <2>2, <2>4
    <2>6. s \in P
      BY <2>3
    <2>7. s.input \in Inputs /\ s.prefix \in Seq(Nat) /\ State(s.input, s.prefix) = s
      BY <2>6 DEF P, Pendings, State
    <2>8. scenario \in Scenarios /\ UNCHANGED scenario
      BY <1>1 DEF Replaying, Pop
    <2>9. queue' \in Queues(scenario)
      BY <2>5 DEF P, Queues
    <2> QED
      BY <2>1, <2>6, <2>7, <2>8, <2>9, StartReplays DEF P
  <1>2. CASE Audit
    <2>1. PICK i \in Inputs : Start(i, <<>>, TRUE)
      BY <1>2 DEF Audit
    <2>2. <<>> \in Seq(Nat) /\ scenario \in Scenarios /\ UNCHANGED scenario
          /\ queue' \in Queues(scenario)
      BY <1>2 DEF Audit, Replaying
    <2> QED
      BY <2>1, <2>2, StartReplays
  <1>3. CASE Step
    BY <1>3, StepReplays DEF Step
  <1>4. CASE Stop \/ OutOfBudget \/ Iterate \/ UNCHANGED vars
    <2>1. UNCHANGED <<scenario, runVars, queue>>
      BY <1>4 DEF Stop, OutOfBudget, Iterate, vars, searchVars
    <2> QED
      BY <2>1, QuietReplays DEF Replaying
  <1>5. CASE Observe
    <2>1. UNCHANGED <<scenario, runVars>> /\ outcome \notin {"none", "running"}
      BY <1>5 DEF Observe, Over
    <2>2. queue' \in Queues(scenario)
      <3> DEFINE before == [queue |-> queue, executions |-> queuedExecutions,
                            count |-> scheduleCounts[input]]
      <3>1. CASE queue' = queue
        BY <3>1 DEF Replaying
      <3>2. CASE scenario.mode = "nondeterministic" /\ queue' = FoldLeft(Scheduled, before, Alternatives).queue
        <4>1. PICK n, h : n \in Nat /\ IsAt(h, n)
          BY <2>1 DEF Replaying, Present
        <4>2. Alternatives \in Seq(Branchings(scenario, input))
          BY <3>2, <4>1, AlternativesFound
        <4>3. before.queue \in Queues(scenario) /\ input \in Inputs
          BY DEF Replaying
        <4> HIDE DEF before
        <4> QED
          BY <3>2, <4>2, <4>3, FoldedQueue
      <3>3. \/ queue' = queue
            \/ /\ scenario.mode = "nondeterministic"
               /\ queue' = FoldLeft(Scheduled, before, Alternatives).queue
        BY <1>5 DEF Observe
      <3> QED
        BY <3>1, <3>2, <3>3
    <2> QED
      BY <2>1, <2>2, QuietReplays
  <1>6. CASE CheckContract \/ Flip
    <2>1. UNCHANGED <<scenario, runVars>>
      BY <1>6 DEF CheckContract, Flip
    <2>2. QueueNothing \/ \E i \in Inputs : QueueInput(i)
      BY <1>6 DEF CheckContract, Flip, Answered
    <2>3. queue' \in Queues(scenario)
      <3>1. CASE QueueNothing
        BY <3>1 DEF QueueNothing, Replaying
      <3>2. CASE \E i \in Inputs : QueueInput(i)
        BY <3>2, QueueReplays
      <3> QED
        BY <2>2, <3>1, <3>2
    <2> QED
      BY <2>1, <2>3, QuietReplays
  <1> QED
    BY <1>1, <1>2, <1>3, <1>4, <1>5, <1>6 DEF Next, Explore

--------------------------------------------------------------------------------
(* The tasks of an execution. *)

LEMMA NaturalMinimum ==
  ASSUME NEW T \in SUBSET Nat, T # {}
  PROVE  \E m \in T : \A n \in T : m <= n
  <1>1. PICK m \in T : \A n \in T : ~(<<n, m>> \in OpToRel(<, Nat))
    BY WFMin, NatLessThanWellFounded, Zenon
  <1>2. ASSUME NEW n \in T PROVE m <= n
    <2>1. m \in Nat /\ n \in Nat
      OBVIOUS
    <2>2. ~(n < m)
      BY <1>1, <2>1, Zenon DEF OpToRel
    <2> QED
      BY <2>1, <2>2
  <1> QED
    BY <1>2

\* The steps of InOrder.
Keeping(s, S, m, f) ==
    f = [n \in 0 .. m |->
            IF n = 0 THEN <<>>
            ELSE IF s[n] \in S THEN Append(f[n - 1], s[n]) ELSE f[n - 1]]

LEMMA KeepingExists ==
  ASSUME NEW s, NEW S, NEW m \in Nat
  PROVE  \E f : Keeping(s, S, m, f)
  <1> DEFINE T == {n \in Nat : \E f : Keeping(s, S, n, f)}
  <1>1. 0 \in T
    <2> DEFINE f == [n \in 0 .. 0 |-> <<>>]
    <2>1. Keeping(s, S, 0, f)
      BY DEF Keeping
    <2> QED
      BY <2>1
  <1>2. ASSUME NEW n \in Nat, n \in T PROVE n + 1 \in T
    <2>1. PICK f : Keeping(s, S, n, f)
      BY <1>2
    <2> DEFINE last == IF s[n + 1] \in S THEN Append(f[n], s[n + 1]) ELSE f[n]
               g == [k \in 0 .. (n + 1) |-> IF k = n + 1 THEN last ELSE f[k]]
               body(h, k) == IF k = 0 THEN <<>>
                             ELSE IF s[k] \in S THEN Append(h[k - 1], s[k]) ELSE h[k - 1]
    <2>2. ASSUME NEW k \in 0 .. (n + 1) PROVE g[k] = body(g, k)
      <3>1. CASE k = n + 1
        <4>1. k # 0 /\ k - 1 = n /\ n \in 0 .. (n + 1) /\ n # n + 1
          BY <3>1
        <4>2. g[k] = last /\ g[n] = f[n]
          BY <3>1, <4>1
        <4> HIDE DEF g
        <4> QED
          BY <3>1, <4>1, <4>2
      <3>2. CASE k # n + 1
        <4>1. k \in 0 .. n
          BY <3>2
        <4>2. k # 0 => k - 1 \in 0 .. (n + 1) /\ k - 1 # n + 1
          BY <4>1
        <4>3. g[k] = f[k] /\ (k # 0 => g[k - 1] = f[k - 1])
          BY <3>2, <4>2
        <4>4. f[k] = body(f, k)
          BY <2>1, <4>1 DEF Keeping
        <4> HIDE DEF g
        <4> QED
          BY <4>3, <4>4
      <3> QED
        BY <3>1, <3>2
    <2>3. Keeping(s, S, n + 1, g)
      BY <2>2 DEF Keeping
    <2> HIDE DEF g
    <2> QED
      BY <2>3
  <1>3. T = Nat
    BY <1>1, <1>2, SetInduction
  <1> QED
    BY <1>3

LEMMA InOrderIs ==
  ASSUME NEW T, NEW s \in Seq(T), NEW S
  PROVE  InOrder(s, S) \in Seq(T \cap S)
  <1> DEFINE L == Len(s)
             f == CHOOSE f : Keeping(s, S, L, f)
  <1>1. L \in Nat /\ \A n \in 1 .. L : s[n] \in T
    OBVIOUS
  <1>2. Keeping(s, S, L, f)
    BY <1>1, KeepingExists
  <1>3. InOrder(s, S) = f[L]
    BY DEF InOrder, Keeping
  <1> HIDE DEF f
  <1> DEFINE U == {n \in Nat : n <= L => f[n] \in Seq(T \cap S)}
  <1>4. \A n \in 0 .. L : f[n] = IF n = 0 THEN <<>>
                                 ELSE IF s[n] \in S THEN Append(f[n - 1], s[n]) ELSE f[n - 1]
    BY <1>2 DEF Keeping
  <1>5. 0 \in U
    <2>1. f[0] = <<>>
      BY <1>1, <1>4
    <2>2. <<>> \in Seq(T \cap S)
      OBVIOUS
    <2> QED
      BY <2>1, <2>2
  <1>6. ASSUME NEW n \in Nat, n \in U PROVE n + 1 \in U
    <2> SUFFICES ASSUME n + 1 <= L PROVE f[n + 1] \in Seq(T \cap S)
      OBVIOUS
    <2>1. n + 1 \in 0 .. L /\ n + 1 # 0 /\ (n + 1) - 1 = n /\ n + 1 \in 1 .. L /\ n <= L
      BY <1>1
    <2>2. f[n + 1] = IF s[n + 1] \in S THEN Append(f[n], s[n + 1]) ELSE f[n]
      BY <1>4, <2>1
    <2>3. f[n] \in Seq(T \cap S) /\ s[n + 1] \in T
      BY <1>1, <1>6, <2>1
    <2> HIDE DEF L
    <2>4. s[n + 1] \in S => Append(f[n], s[n + 1]) \in Seq(T \cap S)
      BY <2>3
    <2> QED
      BY <2>2, <2>3, <2>4
  <1>7. U = Nat
    BY <1>5, <1>6, SetInduction
  <1> QED
    BY <1>1, <1>3, <1>7

TaskStates == {"none", "live", "returned", "failed", "cancelled"}
TaskValues == [state : TaskStates, pc : Nat, asleep : BOOLEAN, blocked : Tasks \cup {None},
               cancel : BOOLEAN, order : Nat]

\* The tasks f, created in the order ts before the time at, while me runs.
Sound(f, ts, at, me) ==
    /\ f \in [Tasks -> TaskValues] /\ ts \in Seq(Tasks) /\ at \in Nat
    /\ \A t \in Tasks :
        /\ f[t].state # "none" <=> Has(ts, t)
        /\ f[t].state = "live" => f[t].pc \in DOMAIN scenario.code[t]
        /\ f[t].blocked # None => f[t].asleep /\ f[f[t].blocked].state # "none"
        /\ f[t].state = "live" /\ t # me /\ f[t].pc # 1 => f[t].asleep
        /\ f[t].state # "none" => f[t].order < at
        /\ \A u \in Tasks \ {t} :
            f[t].state # "none" /\ f[u].state # "none" => f[t].order # f[u].order
    /\ me # None => me \in Tasks /\ f[me].state = "live" /\ f[me].blocked = None

Outcomes == {"none", "running", "returned", "failed", "cancelled", "deadlocked",
             "limit", "timeout", "total_timeout"}

\* The task that runs is forgotten when a deadline ends the execution.
Scheduling ==
    /\ \E me \in Tasks \cup {None} :
        /\ Sound(task, tasks, clock, me)
        /\ outcome = "running" => me = current
    /\ outcome \in Outcomes
    /\ outcome # "running" => current = None
    /\ thrown \in BOOLEAN
    /\ choices \in Seq(Nat \X Nat)
    /\ \A i \in DOMAIN choices : choices[i][2] < choices[i][1]

LEMMA SchedulingTypes ==
  ASSUME Scheduling, scenario \in Scenarios
  PROVE  TypeOK
  <1>1. PICK me : Sound(task, tasks, clock, me) /\ (outcome = "running" => me = current)
    BY DEF Scheduling
  <1>2. ASSUME NEW t \in Tasks
        PROVE  /\ task[t].state \in TaskStates
               /\ task[t].state # "none" <=> \E i \in DOMAIN tasks : tasks[i] = t
               /\ task[t].state = "live" => task[t].pc \in DOMAIN scenario.code[t]
               /\ task[t].blocked # None => task[t].asleep /\ task[task[t].blocked].state # "none"
               /\ outcome = "running" /\ task[t].state = "live" /\ t # current /\ task[t].pc # 1
                   => task[t].asleep
               /\ \A u \in Tasks \ {t} :
                   task[t].state = "live" /\ task[u].state = "live" => task[t].order # task[u].order
    <2>1. task[t] \in TaskValues
      BY <1>1 DEF Sound
    <2> QED
      BY <1>1, <2>1 DEF Sound, Has, TaskValues
  <1>3. ASSUME NEW i \in DOMAIN choices PROVE choices[i][2] \in 0 .. (choices[i][1] - 1)
    <2>1. choices[i] \in Nat \X Nat /\ choices[i][2] < choices[i][1]
      BY DEF Scheduling
    <2> QED
      BY <2>1
  <1>4. current # None => task[current].state = "live" /\ outcome = "running"
    BY <1>1 DEF Scheduling, Sound
  <1>5. outcome \in Outcomes
    BY DEF Scheduling
  <1> QED
    BY <1>2, <1>3, <1>4, <1>5 DEF TypeOK, TaskStates, Outcomes

--------------------------------------------------------------------------------
(* Which task is chosen. *)

\* Tasks in the order of "fifo": cancelled ones first, then those that were ready
\* first.
Rank(t) == IF task[t].cancel THEN task[t].order ELSE clock + task[t].order

LEMMA CandidatesLive ==
  ASSUME Scheduling, outcome = "running"
  PROVE  Candidates \in Seq({t \in Tasks : task[t].state = "live"})
  <1>1. Sound(task, tasks, clock, current)
    BY DEF Scheduling
  <1> DEFINE T == {t \in Tasks : Has(tasks, t)}
  <1>2. tasks \in Seq(T)
    <2>1. tasks \in Seq(Tasks)
      BY <1>1 DEF Sound
    <2>2. \A i \in DOMAIN tasks : tasks[i] \in T
      BY <2>1 DEF Has
    <2> HIDE DEF T
    <2> QED
      BY <2>1, <2>2
  <1>3. Candidates \in Seq(T \cap Ready)
    BY <1>2, InOrderIs DEF Candidates
  <1>4. T \cap Ready \subseteq {t \in Tasks : task[t].state = "live"}
    <2> SUFFICES ASSUME NEW t \in Tasks, Has(tasks, t), ~Done(t) PROVE task[t].state = "live"
      BY DEF Ready
    <2>1. task[t] \in TaskValues /\ task[t].state # "none"
      BY <1>1 DEF Sound
    <2> QED
      BY <2>1 DEF Done, TaskValues, TaskStates
  <1> HIDE DEF T
  <1> QED
    BY <1>3, <1>4

LEMMA RankOrders ==
  ASSUME NEW t, NEW u, clock \in Nat, task[t].cancel \in BOOLEAN, task[u].cancel \in BOOLEAN,
         task[t].order \in Nat, task[u].order \in Nat, task[u].order < clock,
         Rank(t) <= Rank(u)
  PROVE  Earlier(t, u)
  <1>1. CASE task[t].cancel /\ ~task[u].cancel
    BY <1>1 DEF Earlier
  <1>2. CASE task[t].cancel /\ task[u].cancel
    <2>1. Rank(t) = task[t].order /\ Rank(u) = task[u].order
      BY <1>2 DEF Rank
    <2> QED
      BY <1>2, <2>1 DEF Earlier
  <1>3. CASE ~task[t].cancel /\ task[u].cancel
    <2>1. Rank(t) = clock + task[t].order /\ Rank(u) = task[u].order
      BY <1>3 DEF Rank
    <2> QED
      BY <2>1
  <1>4. CASE ~task[t].cancel /\ ~task[u].cancel
    <2>1. Rank(t) = clock + task[t].order /\ Rank(u) = clock + task[u].order
      BY <1>4 DEF Rank
    <2>2. task[t].order <= task[u].order
      BY <2>1
    <2> QED
      BY <1>4, <2>2 DEF Earlier
  <1> QED
    BY <1>1, <1>2, <1>3, <1>4

LEMMA FirstChosen ==
  ASSUME Scheduling, outcome = "running", Candidates # <<>>
  PROVE  First(Candidates) \in Indices(Candidates)
  <1> DEFINE n == Len(Candidates)
             rank(i) == Rank(Candidates[i + 1])
             I == 0 .. (n - 1)
             M == {i \in I : \A j \in I : Earlier(Candidates[i + 1], Candidates[j + 1])}
  <1>1. Sound(task, tasks, clock, current)
    BY DEF Scheduling
  <1>2. n \in Nat /\ n # 0 /\ \A i \in I : /\ Candidates[i + 1] \in Tasks
                                           /\ task[Candidates[i + 1]].state = "live"
    <2>1. Candidates \in Seq({t \in Tasks : task[t].state = "live"})
      BY CandidatesLive
    <2> QED
      BY <2>1
  <1>3. ASSUME NEW i \in I
        PROVE  /\ task[Candidates[i + 1]].order \in Nat
               /\ task[Candidates[i + 1]].cancel \in BOOLEAN
               /\ task[Candidates[i + 1]].order < clock /\ clock \in Nat
    <2> DEFINE t == Candidates[i + 1]
    <2>1. t \in Tasks /\ task[t].state = "live"
      BY <1>2
    <2> HIDE DEF t
    <2>2. task[t] \in TaskValues /\ task[t].order < clock /\ clock \in Nat
      BY <1>1, <2>1 DEF Sound
    <2> QED
      BY <2>2 DEF TaskValues, t
  <1>4. \A i \in I : rank(i) \in Nat
    BY <1>3 DEF Rank
  <1>5. ASSUME NEW i \in I, NEW j \in I, rank(i) <= rank(j)
        PROVE  Earlier(Candidates[i + 1], Candidates[j + 1])
    BY <1>3, <1>5, RankOrders
  <1>6. PICK r \in {rank(i) : i \in I} : \A q \in {rank(i) : i \in I} : r <= q
    <2> DEFINE R == {rank(i) : i \in I}
    <2>1. R \in SUBSET Nat
      BY <1>4
    <2>2. R # {}
      <3>1. 0 \in I
        BY <1>2
      <3> QED
        BY <3>1
    <2> HIDE DEF R
    <2>3. \E m \in R : \A q \in R : m <= q
      BY <2>1, <2>2, NaturalMinimum
    <2> QED
      BY <2>3 DEF R
  <1> HIDE DEF rank, n
  <1>7. PICK i \in I : r = rank(i)
    BY <1>6
  <1>8. i \in M
    <2> SUFFICES ASSUME NEW j \in I PROVE Earlier(Candidates[i + 1], Candidates[j + 1])
      OBVIOUS
    <2>1. rank(i) <= rank(j)
      BY <1>6, <1>7
    <2> QED
      BY <1>5, <2>1
  <1>9. M \in SUBSET Nat
    BY <1>2
  <1> HIDE DEF M
  <1>10. \E m \in M : \A q \in M : m <= q
    BY <1>8, <1>9, NaturalMinimum
  <1>11. Min(M) \in M
    BY <1>10 DEF Min
  <1>12. First(Candidates) = Min(M)
    BY DEF First, Indices, M, n
  <1> QED
    BY <1>11, <1>12 DEF M, Indices, n

LEMMA ChoiceInRange ==
  ASSUME Scheduling, outcome = "running", Candidates # <<>>, prefix \in Seq(Nat),
         scenario.mode \in {"fifo", "nondeterministic"}
  PROVE  Choice(Candidates) \subseteq 0 .. (Len(Candidates) - 1)
  <1>1. Len(Candidates) \in Nat /\ Len(Candidates) # 0
    BY CandidatesLive
  <1>2. CASE scenario.mode = "fifo"
    BY <1>2, FirstChosen DEF Choice, Indices
  <1>3. CASE scenario.mode # "fifo"
    <2>1. Choice(Candidates) \subseteq Offered(scenario, Frame)
      <3>1. IsSeq(choices)
        BY DEF Scheduling, IsSeq
      <3> QED
        BY <3>1, ChoiceOffered
    <2>2. Offered(scenario, Frame) = Indices(Candidates) \cup {0}
      BY <1>3, Views DEF Offered
    <2> QED
      BY <1>1, <2>1, <2>2 DEF Indices
  <1> QED
    BY <1>2, <1>3

--------------------------------------------------------------------------------
(* What the scheduler and a turn make of the tasks. *)

\* Fields of one task change.
LEMMA Changed ==
  ASSUME NEW f \in [Tasks -> TaskValues], NEW t \in Tasks, NEW v \in TaskValues
  PROVE  /\ [f EXCEPT ![t] = v] \in [Tasks -> TaskValues]
         /\ [f EXCEPT ![t] = v][t] = v
         /\ \A u \in Tasks \ {t} : [f EXCEPT ![t] = v][u] = f[u]
  OBVIOUS

\* A task that is done, and what replaces the task that runs.
LEMMA SoundAfter ==
  ASSUME NEW STATE f, NEW STATE ts, NEW STATE at, NEW STATE me, Sound(f, ts, at, me), me # None,
         NEW STATE v, v \in TaskValues, NEW STATE then, then \in Nat, then >= at,
         v.state # "none", v.state = "live" => v.pc \in DOMAIN scenario.code[me],
         v.blocked # None => v.asleep /\ f[v.blocked].state # "none",
         v.order = f[me].order \/ (v.order = at /\ then > at),
         NEW STATE next, next = me \/ next = None,
         next = me => v.state = "live" /\ v.blocked = None,
         next = None /\ v.state = "live" /\ v.pc # 1 => v.asleep
  PROVE  Sound([f EXCEPT ![me] = v], ts, then, next)
  <1> DEFINE g == [f EXCEPT ![me] = v]
  <1>0. me \in Tasks /\ f \in [Tasks -> TaskValues] /\ at \in Nat
    BY DEF Sound
  <1>1. g \in [Tasks -> TaskValues] /\ g[me] = v /\ \A u \in Tasks \ {me} : g[u] = f[u]
    BY <1>0, Changed
  <1>2. \A u \in Tasks : f[u].order \in Nat /\ f[u].blocked \in Tasks \cup {None} /\ g[u].order \in Nat
    <2>1. \A u \in Tasks : f[u] \in TaskValues /\ g[u] \in TaskValues
      BY <1>0, <1>1
    <2> QED
      BY <2>1 DEF TaskValues
  <1>3. \A u \in Tasks : g[u].state # "none" <=> f[u].state # "none"
    BY <1>1 DEF Sound
  <1> HIDE DEF g
  <1>4. ASSUME NEW t \in Tasks
        PROVE  /\ g[t].state # "none" <=> Has(ts, t)
               /\ g[t].state = "live" => g[t].pc \in DOMAIN scenario.code[t]
               /\ g[t].state = "live" /\ t # next /\ g[t].pc # 1 => g[t].asleep
               /\ g[t].state # "none" => g[t].order < then
    <2>1. CASE t = me
      BY <1>0, <1>1, <1>2, <2>1 DEF Sound
    <2>2. CASE t # me
      <3>1. g[t] = f[t]
        BY <1>1, <2>2
      <3> QED
        BY <1>0, <1>2, <2>2, <3>1 DEF Sound
    <2> QED
      BY <2>1, <2>2
  <1>5. ASSUME NEW t \in Tasks, g[t].blocked # None
        PROVE  g[t].asleep /\ g[g[t].blocked].state # "none"
    <2>1. g[t] \in TaskValues
      BY <1>1
    <2>2. g[t].blocked \in Tasks
      BY <1>5, <2>1 DEF TaskValues
    <2>3. CASE t = me
      BY <1>1, <1>3, <1>5, <2>2, <2>3
    <2>4. CASE t # me
      <3>1. g[t] = f[t]
        BY <1>1, <2>4
      <3> QED
        BY <1>3, <1>5, <2>2, <3>1 DEF Sound
    <2> QED
      BY <2>3, <2>4
  <1>6. ASSUME NEW t \in Tasks, NEW u \in Tasks \ {t}, g[t].state # "none", g[u].state # "none"
        PROVE  g[t].order # g[u].order
    <2>1. f[t].state # "none" /\ f[u].state # "none"
      BY <1>3, <1>6
    <2>2. f[t].order # f[u].order /\ f[t].order < at /\ f[u].order < at
      BY <2>1 DEF Sound
    <2>3. CASE t = me
      <3>1. g[u] = f[u] /\ g[t] = v
        BY <1>1, <2>3
      <3> QED
        BY <1>0, <1>2, <2>2, <2>3, <3>1
    <2>4. CASE u = me
      <3>1. g[t] = f[t] /\ g[u] = v
        BY <1>1, <2>4
      <3> QED
        BY <1>0, <1>2, <2>2, <2>4, <3>1
    <2>5. CASE t # me /\ u # me
      BY <1>1, <2>2, <2>5
    <2> QED
      BY <2>3, <2>4, <2>5
  <1>7. next # None => next \in Tasks /\ g[next].state = "live" /\ g[next].blocked = None
    BY <1>0, <1>1
  <1>8. ts \in Seq(Tasks)
    BY DEF Sound
  <1> QED
    BY <1>1, <1>4, <1>5, <1>6, <1>7, <1>8 DEF Sound, g

\* The running task leaves.
LEMMA SoundLeft ==
  ASSUME NEW STATE f, NEW STATE ts, NEW STATE at, NEW STATE me, Sound(f, ts, at, me), me # None,
         NEW STATE v, v \in TaskValues, NEW STATE then, then \in Nat, then >= at,
         v.state # "none", v.state = "live" => v.pc \in DOMAIN scenario.code[me] /\ v.asleep,
         v.blocked # None => v.asleep /\ f[v.blocked].state # "none",
         v.order = f[me].order \/ (v.order = at /\ then > at)
  PROVE  Sound([f EXCEPT ![me] = v], ts, then, None)
  <1> DEFINE next == None
  <1>1. next = None /\ next # me
    OBVIOUS
  <1> HIDE DEF next
  <1>2. Sound([f EXCEPT ![me] = v], ts, then, next)
    BY <1>1, SoundAfter
  <1> QED
    BY <1>1, <1>2

\* Whether a cancellation is requested of a task does not matter.
LEMMA SoundCancel ==
  ASSUME NEW STATE f, NEW STATE ts, NEW STATE at, NEW STATE me, Sound(f, ts, at, me),
         NEW STATE t, t \in Tasks, NEW STATE yes, yes \in BOOLEAN
  PROVE  Sound([f EXCEPT ![t].cancel = yes], ts, at, me)
  <1> DEFINE g == [f EXCEPT ![t].cancel = yes]
  <1>0. f \in [Tasks -> TaskValues]
    BY DEF Sound
  <1>1. ASSUME NEW u \in Tasks
        PROVE  /\ g[u] \in TaskValues
               /\ g[u].state = f[u].state /\ g[u].pc = f[u].pc /\ g[u].asleep = f[u].asleep
               /\ g[u].blocked = f[u].blocked /\ g[u].order = f[u].order
    <2>1. f[u] \in TaskValues
      BY <1>0
    <2>2. g[u] = IF u = t THEN [f[u] EXCEPT !.cancel = yes] ELSE f[u]
      BY <1>0
    <2> HIDE DEF g
    <2> QED
      BY <2>1, <2>2 DEF TaskValues
  <1>2. g \in [Tasks -> TaskValues]
    <2>1. g = [u \in Tasks |-> g[u]]
      BY <1>0
    <2> HIDE DEF g
    <2> QED
      BY <1>1, <2>1
  <1>3. \A u \in Tasks : f[u].blocked \in Tasks \cup {None}
    <2>1. \A u \in Tasks : f[u] \in TaskValues
      BY <1>0
    <2> QED
      BY <2>1 DEF TaskValues
  <1> HIDE DEF g
  <1>4. ASSUME NEW u \in Tasks
        PROVE  /\ g[u].state # "none" <=> Has(ts, u)
               /\ g[u].state = "live" => g[u].pc \in DOMAIN scenario.code[u]
               /\ g[u].blocked # None => g[u].asleep /\ g[g[u].blocked].state # "none"
               /\ g[u].state = "live" /\ u # me /\ g[u].pc # 1 => g[u].asleep
               /\ g[u].state # "none" => g[u].order < at
               /\ \A w \in Tasks \ {u} :
                   g[u].state # "none" /\ g[w].state # "none" => g[u].order # g[w].order
    BY <1>1, <1>3 DEF Sound
  <1>5. me # None => me \in Tasks /\ g[me].state = "live" /\ g[me].blocked = None
    BY <1>1 DEF Sound
  <1>6. ts \in Seq(Tasks) /\ at \in Nat
    BY DEF Sound
  <1> QED
    BY <1>2, <1>4, <1>5, <1>6 DEF Sound, g

\* The task chosen is no longer blocked, nor asked to end.
LEMMA SoundResumed ==
  ASSUME NEW STATE f, NEW STATE ts, NEW STATE at, Sound(f, ts, at, None),
         NEW STATE t, t \in Tasks, f[t].state = "live"
  PROVE  Sound([f EXCEPT ![t].blocked = None, ![t].cancel = FALSE], ts, at, t)
  <1> DEFINE g == [f EXCEPT ![t].blocked = None, ![t].cancel = FALSE]
  <1>0. f \in [Tasks -> TaskValues]
    BY DEF Sound
  <1>1. ASSUME NEW u \in Tasks
        PROVE  /\ g[u] \in TaskValues
               /\ g[u].state = f[u].state /\ g[u].pc = f[u].pc /\ g[u].asleep = f[u].asleep
               /\ g[u].blocked = IF u = t THEN None ELSE f[u].blocked
               /\ g[u].order = f[u].order
    <2>1. f[u] \in TaskValues
      BY <1>0
    <2>2. g[u] = IF u = t THEN [f[u] EXCEPT !.blocked = None, !.cancel = FALSE] ELSE f[u]
      BY <1>0
    <2> HIDE DEF g
    <2> QED
      BY <2>1, <2>2 DEF TaskValues
  <1>2. g \in [Tasks -> TaskValues]
    <2>1. g = [u \in Tasks |-> g[u]]
      BY <1>0
    <2> HIDE DEF g
    <2> QED
      BY <1>1, <2>1
  <1>3. \A u \in Tasks : f[u].blocked \in Tasks \cup {None}
    <2>1. \A u \in Tasks : f[u] \in TaskValues
      BY <1>0
    <2> QED
      BY <2>1 DEF TaskValues
  <1>4. None \notin Tasks
    BY MainAssumption
  <1> HIDE DEF g
  <1>5. ASSUME NEW u \in Tasks
        PROVE  /\ g[u].state # "none" <=> Has(ts, u)
               /\ g[u].state = "live" => g[u].pc \in DOMAIN scenario.code[u]
               /\ g[u].blocked # None => g[u].asleep /\ g[g[u].blocked].state # "none"
               /\ g[u].state = "live" /\ u # t /\ g[u].pc # 1 => g[u].asleep
               /\ g[u].state # "none" => g[u].order < at
               /\ \A w \in Tasks \ {u} :
                   g[u].state # "none" /\ g[w].state # "none" => g[u].order # g[w].order
    BY <1>1, <1>3, <1>4 DEF Sound
  <1>6. ts \in Seq(Tasks) /\ at \in Nat
    BY DEF Sound
  <1>7. g[t].state = "live" /\ g[t].blocked = None
    BY <1>1
  <1> QED
    BY <1>2, <1>5, <1>6, <1>7 DEF Sound, g

\* The running task and its statement.
LEMMA Running ==
  ASSUME Scheduling, scenario \in Scenarios, current # None
  PROVE  /\ outcome = "running" /\ Sound(task, tasks, clock, current)
         /\ current \in Tasks /\ task[current] \in TaskValues
         /\ task[current].state = "live" /\ task[current].blocked = None
         /\ task \in [Tasks -> TaskValues] /\ clock \in Nat
         /\ DOMAIN scenario.code[current] \subseteq Nat
         /\ Now.op \in {"sleep", "await", "create", "cancel", "if", "write"} =>
              Now.next \in DOMAIN scenario.code[current]
         /\ Now.op = "if" => /\ Now.otherwise \in DOMAIN scenario.code[current]
                             /\ Now.asks \in [Cells -> Conditions]
         /\ Now.op = "write" => Now.value \in Cells
         /\ Now.op \in {"sleep", "await", "raise"} /\ Now.handler # 0 =>
              Now.handler \in DOMAIN scenario.code[current]
         /\ Now.op \in {"await", "create", "cancel"} => Now.task \in Tasks
  <1>1. outcome = "running" /\ Sound(task, tasks, clock, current)
    BY DEF Scheduling
  <1>2. /\ current \in Tasks /\ task[current].state = "live" /\ task[current].blocked = None
        /\ task \in [Tasks -> TaskValues] /\ clock \in Nat
        /\ task[current].pc \in DOMAIN scenario.code[current]
    BY <1>1 DEF Sound
  <1>3. task[current] \in TaskValues
    BY <1>2
  <1> QED
    BY <1>1, <1>2, <1>3, ProgramsAssumption DEF Now

LEMMA LeavingSchedules ==
  ASSUME Scheduling, scenario \in Scenarios, current # None, UNCHANGED <<scenario, tasks, choices>>,
         NEW STATE changed, LeaveWith(changed), NEW STATE then, clock' = then, Sound(changed, tasks, then, None)
  PROVE  Scheduling'
  <1>1. /\ task' = changed /\ current' = None /\ thrown' = FALSE
        /\ outcome' = outcome \/ outcome' = "limit"
    BY DEF LeaveWith
  <1>2. Sound(task, tasks, clock, None)'
    BY <1>1 DEF Sound
  <1>3. outcome' \in Outcomes
    BY <1>1 DEF Scheduling, Outcomes
  <1> QED
    BY <1>1, <1>2, <1>3 DEF Scheduling

LEMMA FinishSchedules ==
  ASSUME Scheduling, scenario \in Scenarios, current # None, UNCHANGED <<scenario, tasks, choices>>,
         NEW STATE how, how \in {"returned", "failed", "cancelled"}, Finish(how)
  PROVE  Scheduling'
  <1> DEFINE v == [task[current] EXCEPT !.state = how]
             changed == [task EXCEPT ![current] = v]
  <1>1. /\ Sound(task, tasks, clock, current) /\ task[current] \in TaskValues /\ clock \in Nat
        /\ task \in [Tasks -> TaskValues] /\ current \in Tasks /\ task[current].blocked = None
    BY Running
  <1>2. /\ v \in TaskValues /\ v.state = how /\ v.order = task[current].order
        /\ v.blocked = None
    BY <1>1 DEF TaskValues, TaskStates
  <1>3. changed = [task EXCEPT ![current].state = how]
    BY <1>1
  <1> HIDE DEF v
  <1>4. Sound(changed, tasks, clock, None)
    <2>1. clock >= clock
      BY <1>1
    <2>2. v.state # "none" /\ v.state # "live"
      BY <1>2
    <2> QED
      BY <1>1, <1>2, <2>1, <2>2, SoundLeft
  <1>5. LeaveWith(changed) /\ clock' = clock
    BY <1>3 DEF Finish
  <1> HIDE DEF changed
  <1> QED
    BY <1>4, <1>5, LeavingSchedules

LEMMA ProceedSchedules ==
  ASSUME Scheduling, scenario \in Scenarios, current # None, UNCHANGED <<scenario, tasks, choices>>,
         NEW STATE changed, Sound(changed, tasks, clock, current),
         NEW STATE pc, pc \in DOMAIN scenario.code[current], Proceed(changed, pc)
  PROVE  Scheduling'
  <1> DEFINE v == [changed[current] EXCEPT !.pc = pc, !.asleep = FALSE]
             after == [changed EXCEPT ![current] = v]
  <1>1. /\ DOMAIN scenario.code[current] \subseteq Nat /\ clock \in Nat
        /\ current \in Tasks /\ outcome = "running"
    BY Running
  <1>2. /\ changed \in [Tasks -> TaskValues] /\ changed[current].state = "live"
        /\ changed[current].blocked = None
    BY DEF Sound
  <1>3. /\ v \in TaskValues /\ v.state = "live" /\ v.order = changed[current].order
        /\ v.blocked = None /\ v.pc = pc
    <2>1. changed[current] \in TaskValues /\ pc \in Nat
      BY <1>1, <1>2
    <2> QED
      BY <1>2, <2>1 DEF TaskValues
  <1>4. after = [changed EXCEPT ![current].pc = pc, ![current].asleep = FALSE]
    BY <1>1, <1>2
  <1> HIDE DEF v
  <1>5. Sound(after, tasks, clock, current)
    BY <1>1, <1>3, SoundAfter
  <1>6. task' = after /\ thrown' = FALSE /\ UNCHANGED <<clock, current, outcome>>
    BY <1>4 DEF Proceed
  <1> HIDE DEF after
  <1>7. Sound(task, tasks, clock, current)'
    BY <1>5, <1>6 DEF Sound
  <1> QED
    BY <1>1, <1>6, <1>7 DEF Scheduling

LEMMA ThrowSchedules ==
  ASSUME Scheduling, scenario \in Scenarios, current # None, UNCHANGED <<scenario, tasks, choices>>,
         NEW STATE how, how \in {"failed", "cancelled"}, Throw(how),
         Now.op \in {"sleep", "await", "raise"}
  PROVE  Scheduling'
  BY Running, FinishSchedules, ProceedSchedules DEF Throw

LEMMA SleepSchedules ==
  ASSUME Scheduling, scenario \in Scenarios, Sleep
  PROVE  Scheduling'
  <1> DEFINE v == [task[current] EXCEPT !.asleep = TRUE, !.order = clock]
             changed == [task EXCEPT ![current] = v]
  <1>1. current # None /\ Now.op = "sleep" /\ UNCHANGED <<scenario, tasks, choices>>
    BY DEF Sleep, Runs
  <1>2. /\ Sound(task, tasks, clock, current) /\ task[current] \in TaskValues /\ clock \in Nat
        /\ task \in [Tasks -> TaskValues] /\ current \in Tasks
        /\ task[current].blocked = None /\ task[current].state = "live"
        /\ Now.next \in DOMAIN scenario.code[current]
        /\ task[current].pc \in DOMAIN scenario.code[current]
    BY <1>1, Running DEF Sound
  <1>3. CASE LeaveWith([task EXCEPT ![current].asleep = TRUE, ![current].order = clock])
             /\ clock' = clock + 1
    <2>1. /\ v \in TaskValues /\ v.state = "live" /\ v.order = clock
          /\ v.blocked = None /\ v.pc = task[current].pc /\ v.asleep
      BY <1>2 DEF TaskValues
    <2>2. changed = [task EXCEPT ![current].asleep = TRUE, ![current].order = clock]
      BY <1>2
    <2> HIDE DEF v
    <2>3. Sound(changed, tasks, clock + 1, None)
      <3>1. clock + 1 \in Nat /\ clock + 1 >= clock /\ clock + 1 > clock
        BY <1>2
      <3>2. v.state # "none" /\ v.pc \in DOMAIN scenario.code[current]
        BY <1>2, <2>1
      <3> QED
        BY <1>1, <1>2, <2>1, <3>1, <3>2, SoundLeft
    <2>4. LeaveWith(changed)
      BY <1>3, <2>2
    <2> HIDE DEF changed
    <2> QED
      BY <1>1, <1>3, <2>3, <2>4, LeavingSchedules
  <1>4. CASE Proceed(task, Now.next)
    BY <1>1, <1>2, <1>4, ProceedSchedules
  <1>5. CASE Throw("cancelled")
    BY <1>1, <1>5, ThrowSchedules
  <1> QED
    BY <1>3, <1>4, <1>5 DEF Sleep

LEMMA AwaitSchedules ==
  ASSUME Scheduling, scenario \in Scenarios, AwaitMore
  PROVE  Scheduling'
  <1> DEFINE u == Now.task
             asked == [task EXCEPT ![u].cancel = @ \/ thrown]
             v == [asked[current] EXCEPT !.asleep = TRUE, !.blocked = u]
             changed == [asked EXCEPT ![current] = v]
  <1>1. /\ current # None /\ Now.op = "await" /\ UNCHANGED <<scenario, tasks, clock, choices>>
        /\ Exists(u) /\ thrown \in BOOLEAN
        /\ LeaveWith([task EXCEPT ![current].asleep = TRUE, ![current].blocked = u,
                                  ![u].cancel = @ \/ thrown])
    BY DEF AwaitMore, Runs, Scheduling
  <1>2. /\ Sound(task, tasks, clock, current) /\ clock \in Nat
        /\ task \in [Tasks -> TaskValues] /\ current \in Tasks /\ u \in Tasks
    BY <1>1, Running
  <1> HIDE DEF u
  <1>3. Sound(asked, tasks, clock, current)
    <2>1. task[u].cancel \in BOOLEAN
      <3>1. task[u] \in TaskValues
        BY <1>2
      <3> QED
        BY <3>1 DEF TaskValues
    <2>2. (task[u].cancel \/ thrown) \in BOOLEAN
      BY <1>1, <2>1
    <2> QED
      BY <1>2, <2>2, SoundCancel
  <1>4. changed = [task EXCEPT ![current].asleep = TRUE, ![current].blocked = u,
                               ![u].cancel = @ \/ thrown]
    <2> DEFINE w == [task EXCEPT ![current].asleep = TRUE, ![current].blocked = u,
                                 ![u].cancel = @ \/ thrown]
    <2>1. ASSUME NEW t \in Tasks PROVE changed[t] = w[t]
      <3>1. CASE t = current /\ u = current
        BY <1>2, <3>1
      <3>2. CASE t = current /\ u # current
        <4>1. asked[t] = task[t]
          BY <1>2, <3>2
        <4>2. changed[t] = [asked[t] EXCEPT !.asleep = TRUE, !.blocked = u]
          BY <1>2, <3>2
        <4>3. w[t] = [task[t] EXCEPT !.asleep = TRUE, !.blocked = u]
          BY <1>2, <3>2
        <4> HIDE DEF asked, changed, w
        <4> QED
          BY <4>1, <4>2, <4>3
      <3>3. CASE t # current
        <4>1. changed[t] = asked[t]
          BY <1>2, <3>3
        <4> HIDE DEF changed
        <4> QED
          BY <1>2, <3>3, <4>1
      <3> QED
        BY <3>1, <3>2, <3>3
    <2>2. changed = [t \in Tasks |-> changed[t]] /\ w = [t \in Tasks |-> w[t]]
      BY <1>2
    <2> HIDE DEF changed, w
    <2>3. changed = w
      BY <2>1, <2>2
    <2> QED
      BY <2>3 DEF w
  <1>5. asked[u].state # "none"
    BY <1>1, <1>2 DEF Exists
  <1> HIDE DEF asked
  <1>6. /\ v \in TaskValues /\ v.state = "live" /\ v.order = asked[current].order
        /\ v.blocked = u /\ v.pc \in DOMAIN scenario.code[current] /\ v.asleep
    <2>1. asked[current] \in TaskValues /\ asked[current].state = "live"
          /\ asked[current].pc \in DOMAIN scenario.code[current]
      BY <1>1, <1>2, <1>3 DEF Sound
    <2> QED
      BY <1>2, <2>1 DEF TaskValues
  <1> HIDE DEF v
  <1>7. Sound(changed, tasks, clock, None)
    BY <1>1, <1>2, <1>3, <1>5, <1>6, SoundLeft
  <1>8. LeaveWith(changed)
    BY <1>1, <1>4
  <1> HIDE DEF changed
  <1> QED
    BY <1>1, <1>7, <1>8, LeavingSchedules

\* A new task is the youngest.
LEMMA SoundCreated ==
  ASSUME NEW STATE f, NEW STATE ts, NEW STATE at, NEW STATE me, Sound(f, ts, at, me), me # None,
         scenario \in Scenarios, NEW STATE t, t \in Tasks, f[t].state = "none"
  PROVE  Sound([f EXCEPT ![t] = Created(at)], Append(ts, t), at + 1, me)
  <1> DEFINE g == [f EXCEPT ![t] = Created(at)]
             us == Append(ts, t)
  <1>0. /\ f \in [Tasks -> TaskValues] /\ ts \in Seq(Tasks) /\ at \in Nat
        /\ me \in Tasks /\ f[me].state = "live" /\ f[me].blocked = None
    BY DEF Sound
  <1>1. /\ Created(at) \in TaskValues /\ Created(at).state = "live" /\ Created(at).order = at
        /\ Created(at).pc = 1 /\ Created(at).blocked = None
    BY <1>0 DEF Created, NotCreated, TaskValues, TaskStates
  <1>2. g \in [Tasks -> TaskValues] /\ g[t] = Created(at) /\ \A u \in Tasks \ {t} : g[u] = f[u]
    BY <1>0, <1>1, Changed
  <1>3. \A u \in Tasks : f[u].order \in Nat /\ f[u].blocked \in Tasks \cup {None}
    <2>1. \A u \in Tasks : f[u] \in TaskValues
      BY <1>0
    <2> QED
      BY <2>1 DEF TaskValues
  <1>4. us \in Seq(Tasks) /\ \A u : Has(us, u) <=> Has(ts, u) \/ u = t
    <2>1. /\ us \in Seq(Tasks) /\ Len(ts) \in Nat /\ DOMAIN ts = 1 .. Len(ts)
          /\ DOMAIN us = 1 .. (Len(ts) + 1) /\ us[Len(ts) + 1] = t
          /\ \A i \in DOMAIN ts : us[i] = ts[i]
      BY <1>0
    <2>2. ASSUME NEW u, Has(us, u) PROVE Has(ts, u) \/ u = t
      <3>1. PICK i \in DOMAIN us : us[i] = u
        BY <2>2 DEF Has
      <3>2. i = Len(ts) + 1 \/ i \in DOMAIN ts
        BY <2>1
      <3> QED
        BY <2>1, <3>1, <3>2 DEF Has
    <2>3. ASSUME NEW u, Has(ts, u) \/ u = t PROVE Has(us, u)
      <3>1. Len(ts) + 1 \in DOMAIN us /\ \A i \in DOMAIN ts : i \in DOMAIN us
        BY <2>1
      <3> QED
        BY <2>1, <2>3, <3>1 DEF Has
    <2> QED
      BY <2>1, <2>2, <2>3
  <1>5. 1 \in DOMAIN scenario.code[t]
    BY ProgramsAssumption
  <1> HIDE DEF g, us
  <1>6. ASSUME NEW u \in Tasks
        PROVE  /\ g[u].state # "none" <=> Has(us, u)
               /\ g[u].state = "live" => g[u].pc \in DOMAIN scenario.code[u]
               /\ g[u].state = "live" /\ u # me /\ g[u].pc # 1 => g[u].asleep
               /\ g[u].state # "none" => g[u].order < at + 1
    <2>1. CASE u = t
      BY <1>0, <1>1, <1>2, <1>4, <1>5, <2>1
    <2>2. CASE u # t
      <3>1. g[u] = f[u] /\ (Has(us, u) <=> Has(ts, u))
        BY <1>2, <1>4, <2>2
      <3> QED
        BY <1>0, <1>3, <3>1 DEF Sound
    <2> QED
      BY <2>1, <2>2
  <1>7. ASSUME NEW u \in Tasks, g[u].blocked # None
        PROVE  g[u].asleep /\ g[g[u].blocked].state # "none"
    <2>1. u # t /\ g[u] = f[u]
      BY <1>1, <1>2, <1>7
    <2>2. f[u].asleep /\ f[u].blocked \in Tasks /\ f[f[u].blocked].state # "none"
      BY <1>3, <1>7, <2>1 DEF Sound
    <2>3. f[u].blocked # t
      BY <2>2
    <2> QED
      BY <1>2, <2>1, <2>2, <2>3
  <1>8. ASSUME NEW u \in Tasks, NEW w \in Tasks \ {u}, g[u].state # "none", g[w].state # "none"
        PROVE  g[u].order # g[w].order
    <2>1. CASE u = t
      <3>1. g[w] = f[w] /\ f[w].order < at /\ g[u].order = at
        BY <1>1, <1>2, <1>8, <2>1 DEF Sound
      <3> QED
        BY <1>0, <1>3, <3>1
    <2>2. CASE w = t
      <3>1. g[u] = f[u] /\ f[u].order < at /\ g[w].order = at
        BY <1>1, <1>2, <1>8, <2>2 DEF Sound
      <3> QED
        BY <1>0, <1>3, <3>1
    <2>3. CASE u # t /\ w # t
      BY <1>2, <1>8, <2>3 DEF Sound
    <2> QED
      BY <2>1, <2>2, <2>3
  <1>9. me # t /\ g[me] = f[me] /\ at + 1 \in Nat
    BY <1>0, <1>2
  <1> QED
    BY <1>0, <1>2, <1>4, <1>6, <1>7, <1>8, <1>9 DEF Sound, g, us

LEMMA CreateSchedules ==
  ASSUME Scheduling, scenario \in Scenarios, Create
  PROVE  Scheduling'
  <1> DEFINE t == Now.task
             created == [task EXCEPT ![t] = Created(clock)]
             v == [created[current] EXCEPT !.pc = Now.next]
             changed == [created EXCEPT ![current] = v]
             ts == Append(tasks, t)
  <1>1. /\ current # None /\ Now.op = "create" /\ ~Exists(t)
        /\ UNCHANGED <<scenario, choices, current, thrown, outcome>>
        /\ tasks' = ts /\ clock' = clock + 1
        /\ task' = [task EXCEPT ![t] = Created(clock), ![current].pc = Now.next]
    BY DEF Create, Runs
  <1>2. /\ Sound(task, tasks, clock, current) /\ clock \in Nat /\ current \in Tasks
        /\ task \in [Tasks -> TaskValues] /\ t \in Tasks /\ outcome = "running"
        /\ Now.next \in DOMAIN scenario.code[current] /\ DOMAIN scenario.code[current] \subseteq Nat
    BY <1>1, Running
  <1>3. changed = task'
    BY <1>1, <1>2
  <1>4. Sound(created, ts, clock + 1, current)
    <2>1. task[t].state = "none"
      BY <1>1 DEF Exists
    <2> HIDE DEF t
    <2> QED
      BY <1>1, <1>2, <2>1, SoundCreated
  <1> HIDE DEF created, ts
  <1>5. /\ v \in TaskValues /\ v.state = "live" /\ v.order = created[current].order
        /\ v.blocked = None /\ v.pc = Now.next
    <2>1. created[current] \in TaskValues /\ created[current].state = "live"
          /\ created[current].blocked = None
      BY <1>1, <1>2, <1>4 DEF Sound
    <2> QED
      BY <1>2, <2>1 DEF TaskValues
  <1>6. clock + 1 \in Nat /\ clock + 1 >= clock + 1
    BY <1>2
  <1> HIDE DEF v
  <1>7. Sound(changed, ts, clock + 1, current)
    BY <1>1, <1>2, <1>4, <1>5, <1>6, SoundAfter
  <1> HIDE DEF changed
  <1>8. Sound(task, tasks, clock, current)'
    <2> DEFINE at == clock + 1
    <2>1. /\ task' = changed /\ tasks' = ts /\ clock' = at
          /\ UNCHANGED <<current, scenario>>
      BY <1>1, <1>3
    <2>2. Sound(changed, ts, at, current)
      BY <1>7
    <2> HIDE DEF at
    <2> QED
      BY <2>1, <2>2 DEF Sound
  <1> QED
    BY <1>1, <1>2, <1>8 DEF Scheduling

LEMMA CancelSchedules ==
  ASSUME Scheduling, scenario \in Scenarios, Cancel
  PROVE  Scheduling'
  <1> DEFINE t == Now.task
             yes == task[t].cancel \/ ~Done(t)
             changed == [task EXCEPT ![t].cancel = yes]
  <1>1. /\ current # None /\ Now.op = "cancel" /\ UNCHANGED <<scenario, tasks, choices>>
        /\ Proceed([task EXCEPT ![t].cancel = @ \/ ~Done(t)], Now.next)
    BY DEF Cancel, Runs
  <1>2. /\ Sound(task, tasks, clock, current) /\ t \in Tasks /\ task \in [Tasks -> TaskValues]
        /\ Now.next \in DOMAIN scenario.code[current]
    BY <1>1, Running
  <1>3. yes \in BOOLEAN
    <2>1. task[t] \in TaskValues
      BY <1>2
    <2> QED
      BY <2>1 DEF TaskValues, Done
  <1>4. changed = [task EXCEPT ![t].cancel = @ \/ ~Done(t)]
    BY <1>2
  <1> HIDE DEF yes
  <1>5. Sound(changed, tasks, clock, current)
    BY <1>2, <1>3, SoundCancel
  <1> HIDE DEF changed
  <1> QED
    BY <1>1, <1>2, <1>4, <1>5, ProceedSchedules

LEMMA TurnSchedules ==
  ASSUME Scheduling, scenario \in Scenarios, Turn
  PROVE  Scheduling'
  <1>1. CASE CancelUnstarted
    BY <1>1, FinishSchedules DEF CancelUnstarted
  <1>2. CASE AwaitResult
    <2>1. /\ current # None /\ Now.op = "await" /\ Done(Now.task)
          /\ UNCHANGED <<scenario, tasks, choices>>
      BY <1>2 DEF AwaitResult, Runs
    <2>2. CASE task[Now.task].state = "returned"
      <3>1. Proceed(task, Now.next)
        BY <1>2, <2>2 DEF AwaitResult
      <3> QED
        BY <2>1, <3>1, Running, ProceedSchedules
    <2>3. CASE task[Now.task].state # "returned"
      <3> DEFINE how == task[Now.task].state
      <3>1. Throw(how)
        BY <1>2, <2>3 DEF AwaitResult
      <3>2. how \in {"failed", "cancelled"}
        BY <2>1, <2>3 DEF Done
      <3> HIDE DEF how
      <3> QED
        BY <2>1, <3>1, <3>2, ThrowSchedules
    <2> QED
      BY <2>2, <2>3
  <1>3. CASE Branch
    <2> DEFINE yes == input \in scenario.truth[Now.asks[cell]]
               pc == IF yes THEN Now.next ELSE Now.otherwise
    <2>1. /\ current # None /\ Now.op = "if" /\ UNCHANGED <<scenario, tasks, choices>>
          /\ Proceed(task, pc)
      BY <1>3 DEF Branch, Runs
    <2>2. pc \in DOMAIN scenario.code[current] /\ Sound(task, tasks, clock, current)
      BY <2>1, Running
    <2> HIDE DEF pc
    <2> QED
      BY <2>1, <2>2, ProceedSchedules
  <1>4. CASE Write
    <2>1. /\ current # None /\ Now.op = "write" /\ UNCHANGED <<scenario, tasks, choices>>
          /\ Proceed(task, Now.next)
      BY <1>4 DEF Write, Runs
    <2> QED
      BY <2>1, Running, ProceedSchedules
  <1>5. CASE Return
    BY <1>5, FinishSchedules DEF Return, Runs
  <1>6. CASE Raise
    BY <1>6, ThrowSchedules DEF Raise, Runs
  <1> QED
    BY <1>1, <1>2, <1>3, <1>4, <1>5, <1>6, SleepSchedules, AwaitSchedules, CreateSchedules,
       CancelSchedules DEF Turn

LEMMA ResumeSchedules ==
  ASSUME Scheduling, scenario \in Scenarios, prefix \in Seq(Nat),
         scenario.mode \in {"fifo", "nondeterministic"}, Resume
  PROVE  Scheduling'
  <1>1. outcome = "running" /\ current = None /\ Candidates # <<>>
        /\ UNCHANGED <<scenario, tasks, clock, outcome>>
    BY DEF Resume, Between
  <1> DEFINE n == Len(Candidates)
             t(i) == Candidates[i + 1]
  <1>2. PICK i \in Choice(Candidates) :
          /\ choices' = Append(choices, <<n, i>>)
          /\ current' = t(i) /\ thrown' = task[t(i)].cancel
          /\ task' = [task EXCEPT ![t(i)].blocked = None, ![t(i)].cancel = FALSE]
    BY DEF Resume
  <1>3. n \in Nat /\ i \in 0 .. (n - 1)
    BY <1>1, CandidatesLive, ChoiceInRange
  <1>4. t(i) \in Tasks /\ task[t(i)].state = "live"
    <2>1. Candidates \in Seq({u \in Tasks : task[u].state = "live"}) /\ i + 1 \in 1 .. n
      BY <1>1, <1>3, CandidatesLive
    <2> QED
      BY <2>1
  <1>5. Sound(task, tasks, clock, None)
    BY <1>1 DEF Scheduling
  <1> DEFINE u == t(i)
             changed == [task EXCEPT ![u].blocked = None, ![u].cancel = FALSE]
  <1>6. u \in Tasks /\ task[u].state = "live" /\ changed = task' /\ current' = u
    BY <1>2, <1>4
  <1>7. thrown' \in BOOLEAN
    <2>1. task[t(i)] \in TaskValues
      BY <1>4, <1>5 DEF Sound
    <2> QED
      BY <1>2, <2>1 DEF TaskValues
  <1>8. choices' \in Seq(Nat \X Nat) /\ \A x \in DOMAIN choices' : choices'[x][2] < choices'[x][1]
    <2> DEFINE made == <<n, i>>
    <2>1. made \in Nat \X Nat /\ made[2] < made[1]
      BY <1>3
    <2>2. choices \in Seq(Nat \X Nat) /\ \A x \in DOMAIN choices : choices[x][2] < choices[x][1]
      BY DEF Scheduling
    <2>3. choices' = Append(choices, made)
      BY <1>2
    <2> HIDE DEF made
    <2>4. choices' \in Seq(Nat \X Nat)
      BY <2>1, <2>2, <2>3
    <2>5. ASSUME NEW x \in DOMAIN choices'
          PROVE  (x \in DOMAIN choices /\ choices'[x] = choices[x]) \/ choices'[x] = made
      BY <2>2, <2>3
    <2> QED
      BY <2>1, <2>2, <2>4, <2>5
  <1> HIDE DEF u, t
  <1>9. Sound(changed, tasks, clock, u)
    BY <1>5, <1>6, SoundResumed
  <1> HIDE DEF changed
  <1>10. Sound(task, tasks, clock, current)'
    BY <1>1, <1>6, <1>9 DEF Sound
  <1>11. outcome' = "running" /\ current' \in Tasks
    BY <1>1, <1>6
  <1> QED
    BY <1>7, <1>8, <1>10, <1>11 DEF Scheduling, Outcomes

\* Before the first execution, and at the start of each.
LEMMA FreshTypes ==
  /\ NotCreated \in TaskValues /\ NotCreated.state = "none" /\ NotCreated.blocked = None
  /\ NotCreated.order = 0
  /\ Created(0) \in TaskValues /\ Created(0).state = "live" /\ Created(0).pc = 1
  /\ Created(0).blocked = None /\ Created(0).order = 0
  BY DEF NotCreated, Created, TaskValues, TaskStates

LEMMA StartSchedules ==
  ASSUME NEW STATE i, NEW STATE p, NEW STATE free, Start(i, p, free),
         scenario \in Scenarios, UNCHANGED scenario
  PROVE  Scheduling'
  <1> DEFINE f == [t \in Tasks |-> IF t = Main THEN Created(0) ELSE NotCreated]
             ts == <<Main>>
  <1>1. /\ task' = f /\ tasks' = ts /\ clock' = 1 /\ current' = None /\ thrown' = FALSE
        /\ choices' = <<>> /\ outcome' = "running"
    BY DEF Start
  <1>2. Main \in Tasks /\ 1 \in DOMAIN scenario.code[Main]
    BY MainAssumption, ProgramsAssumption
  <1>3. ts \in Seq(Tasks) /\ \A t : Has(ts, t) <=> t = Main
    BY <1>2 DEF Has
  <1>4. \A t \in Tasks : f[t] = IF t = Main THEN Created(0) ELSE NotCreated
    OBVIOUS
  <1>5. f \in [Tasks -> TaskValues]
    BY FreshTypes
  <1> HIDE DEF f, ts
  <1>6. Sound(f, ts, 1, None)
    BY <1>2, <1>3, <1>4, <1>5, FreshTypes DEF Sound
  <1>7. Sound(task, tasks, clock, current)'
    BY <1>1, <1>6 DEF Sound
  <1>8. choices' \in Seq(Nat \X Nat) /\ DOMAIN choices' = {}
    BY <1>1
  <1> QED
    BY <1>1, <1>7, <1>8 DEF Scheduling, Outcomes

LEMMA SchedulingStarts ==
  Init => Scheduling
  <1> SUFFICES ASSUME Init PROVE Scheduling
    OBVIOUS
  <1> DEFINE f == [t \in Tasks |-> NotCreated]
             ts == <<>>
  <1>1. /\ task = f /\ tasks = ts /\ clock = 0 /\ current = None /\ thrown = FALSE
        /\ choices = <<>> /\ outcome = "none"
    BY DEF Init, Idle
  <1>2. ts \in Seq(Tasks) /\ \A t : ~Has(ts, t)
    BY DEF Has
  <1>3. f \in [Tasks -> TaskValues] /\ \A t \in Tasks : f[t] = NotCreated
    BY FreshTypes
  <1> HIDE DEF f, ts
  <1>4. Sound(f, ts, 0, None)
    BY <1>2, <1>3, FreshTypes DEF Sound
  <1>5. choices \in Seq(Nat \X Nat) /\ DOMAIN choices = {}
    BY <1>1
  <1> QED
    BY <1>1, <1>4, <1>5 DEF Scheduling, Outcomes

LEMMA StepSchedules ==
  ASSUME Replaying, Scheduling, Execute
  PROVE  Scheduling'
  <1>0. /\ scenario \in Scenarios /\ scenario.mode \in {"fifo", "nondeterministic"}
        /\ scenario.timeouts \subseteq Timeouts /\ prefix \in Seq(Nat)
    BY ScenarioFacts DEF Replaying
  <1>1. CASE Resume
    BY <1>0, <1>1, ResumeSchedules
  <1>2. CASE Turn
    BY <1>0, <1>2, TurnSchedules
  <1>3. CASE Deadlock \/ End \/ Expire
    <2>1. /\ UNCHANGED <<scenario, task, tasks, clock, choices, thrown>>
          /\ current' = None /\ outcome' # "running" /\ outcome' \in Outcomes
      <3>1. CASE Deadlock
        BY <3>1 DEF Deadlock, Between, Outcomes
      <3>2. CASE End
        BY <3>2 DEF End, Between, Done, Outcomes
      <3>3. CASE Expire
        BY <1>0, <3>3 DEF Expire, Outcomes, Timeouts
      <3> QED
        BY <1>3, <3>1, <3>2, <3>3
    <2>2. PICK me \in Tasks \cup {None} : Sound(task, tasks, clock, me)
      BY DEF Scheduling
    <2>3. \E one \in Tasks \cup {None} : Sound(task, tasks, clock, one)'
      BY <2>1, <2>2 DEF Sound
    <2> QED
      BY <2>1, <2>3 DEF Scheduling
  <1> QED
    BY <1>1, <1>2, <1>3 DEF Execute

LEMMA SchedulingStays ==
  Replaying /\ Scheduling /\ [Next]_vars => Scheduling'
  <1> SUFFICES ASSUME Replaying, Scheduling, [Next]_vars PROVE Scheduling'
    OBVIOUS
  <1>0. scenario \in Scenarios
    BY DEF Replaying
  <1>1. CASE Pop \/ Audit
    <2>1. UNCHANGED scenario /\ \E i, p, free : Start(i, p, free)
      BY <1>1 DEF Pop, Audit
    <2> QED
      BY <1>0, <2>1, StartSchedules
  <1>2. CASE Step
    BY <1>2, StepSchedules DEF Step
  <1>3. CASE Stop \/ Observe \/ OutOfBudget \/ CheckContract \/ Flip \/ Iterate \/ UNCHANGED vars
    <2>1. UNCHANGED <<scenario, task, tasks, clock, choices, current, thrown, outcome>>
      BY <1>3 DEF Stop, Observe, OutOfBudget, CheckContract, Flip, Iterate, vars, runVars
    <2> QED
      BY <2>1 DEF Scheduling, Sound
  <1> QED
    BY <1>1, <1>2, <1>3 DEF Next, Explore

\* What the target's memory holds is one of the cells, so that a branch asks for a
\* condition.
Remembering == cell \in Cells

LEMMA RememberingStarts ==
  Init => Remembering
  BY ConditionsAssumption DEF Init, Idle, Remembering

LEMMA RememberingStays ==
  Replaying /\ Scheduling /\ Remembering /\ [Next]_vars => Remembering'
  <1> SUFFICES ASSUME Replaying, Scheduling, Remembering, [Next]_vars PROVE Remembering'
    OBVIOUS
  <1>1. CASE Write
    <2>1. /\ current # None /\ Now.op = "write" /\ cell' = Now.value /\ scenario \in Scenarios
      BY <1>1 DEF Write, Runs, Replaying
    <2>2. Now.value \in Cells
      BY <2>1, Running
    <2> QED
      BY <2>1, <2>2 DEF Remembering
  <1>2. CASE Pop \/ Audit
    <2>1. cell' = "new"
      BY <1>2 DEF Pop, Audit, Start
    <2> QED
      BY <2>1, ConditionsAssumption DEF Remembering
  <1>3. CASE ~Write /\ Step
    BY <1>3 DEF Step, Execute, Resume, Deadlock, End, Expire, Turn, CancelUnstarted, Sleep, AwaitMore,
                AwaitResult, Create, Cancel, Branch, Return, Raise, Remembering
  <1>4. CASE Stop \/ Observe \/ OutOfBudget \/ CheckContract \/ Flip \/ Iterate \/ UNCHANGED vars
    BY <1>4 DEF Stop, Observe, OutOfBudget, CheckContract, Flip, Iterate, vars, runVars, Remembering
  <1> QED
    BY <1>1, <1>2, <1>3, <1>4 DEF Next, Explore

LEMMA ConditionAsked ==
  Replaying /\ Scheduling /\ Remembering => Asks(scenario, Frame)
  <1> SUFFICES ASSUME Replaying, Scheduling, Remembering, Branching(scenario, Frame)
               PROVE  AskedIn(scenario, Frame) \in Conditions
    BY DEF Asks
  <1>1. Frame.current = current /\ Frame.cell = cell /\ NowIn(scenario, Frame) = Now
    BY Views DEF Frame
  <1>2. current # None /\ Now.op = "if" /\ scenario \in Scenarios /\ cell \in Cells
    BY <1>1 DEF Branching, Replaying, Remembering
  <1>3. Now.asks \in [Cells -> Conditions]
    BY <1>2, Running
  <1> QED
    BY <1>1, <1>2, <1>3 DEF AskedIn

Executing == Replaying /\ Scheduling /\ Remembering

LEMMA ExecutingStarts ==
  Init => Executing
  BY ReplayingStarts, SchedulingStarts, RememberingStarts DEF Executing

LEMMA ExecutingStays ==
  Executing /\ [Next]_vars => Executing'
  BY ReplayingStays, SchedulingStays, RememberingStays, ConditionAsked DEF Executing

\* The scheduler's bookkeeping holds together at every step: the tasks it lists are
\* those that exist, what runs is live, what waits is suspended and awaits a task that
\* exists, no two became ready at the same time, and each recorded choice is one of
\* the candidates there were.
THEOREM TasksAreTyped == Spec => []TypeOK
  <1>1. Executing => TypeOK
    BY SchedulingTypes DEF Executing, Replaying
  <1> QED
    BY <1>1, ExecutingStarts, ExecutingStays, PTL DEF Spec

\* Every execution the exploration starts repeats the choices it was queued with, one
\* by one, and does not end before they are used up: what _schedule_alternatives
\* records of one execution is what _choose_task_index reads in another.
THEOREM SchedulesAreReplayed == Spec => []PrefixReplayed
  <1>1. Executing => PrefixReplayed
    BY DEF Executing, Replaying
  <1> QED
    BY <1>1, ExecutingStarts, ExecutingStays, PTL DEF Spec

--------------------------------------------------------------------------------
(* What is queued is served. *)

\* What a queue holds, r holds too, or tells that something is missing.
Keeps(q, r) == (q.truncated => r.truncated) /\ Holds(r.pending, q.pending)

LEMMA KeepsOn ==
  ASSUME NEW p, NEW q, NEW r, Keeps(p, q), Keeps(q, r)
  PROVE  Keeps(p, r)
  BY DEF Keeps, Holds

LEMMA HasKept ==
  ASSUME NEW q, NEW r, NEW s, Keeps(q, r), Has(q.pending, s)
  PROVE  Has(r.pending, s)
  BY DEF Keeps, Holds, Has

LEMMA EnqueuedServes ==
  ASSUME NEW STATE q, NEW STATE s, q \in Queues(scenario), s \in Pendings(scenario)
  PROVE  /\ Keeps(q, Enqueued(q, s))
         /\ Enqueued(q, s).truncated \/ Has(Enqueued(q, s).pending, s)
         /\ \A y \in DOMAIN Enqueued(q, s).pending :
              Has(q.pending, Enqueued(q, s).pending[y]) \/ Enqueued(q, s).pending[y] = s
  <1> DEFINE P == Pendings(scenario)
             e == Enqueued(q, s)
  <1> HIDE DEF P
  <1>1. q \in [pending : Seq(P), truncated : BOOLEAN, dropped : Nat] /\ s \in P
    BY DEF Queues, P
  <1>2. \/ e.truncated = TRUE /\ e.pending = q.pending
        \/ e.truncated = q.truncated /\ e.pending = Append(q.pending, s)
    BY <1>1 DEF Enqueued
  <1>3. IsSeq(q.pending)
    BY <1>1 DEF IsSeq
  <1>4. /\ Len(q.pending) \in Nat /\ DOMAIN q.pending = 1 .. Len(q.pending)
        /\ DOMAIN Append(q.pending, s) = 1 .. (Len(q.pending) + 1)
        /\ Append(q.pending, s)[Len(q.pending) + 1] = s
        /\ \A y \in 1 .. Len(q.pending) : Append(q.pending, s)[y] = q.pending[y]
    BY <1>3, AppendBegins DEF Begins
  <1>5. Len(q.pending) + 1 \in 1 .. (Len(q.pending) + 1)
        /\ \A y \in 1 .. Len(q.pending) : y \in 1 .. (Len(q.pending) + 1)
    BY <1>4
  <1>6. \A y \in 1 .. (Len(q.pending) + 1) : y \in 1 .. Len(q.pending) \/ y = Len(q.pending) + 1
    BY <1>4
  <1> HIDE DEF e
  <1>7. CASE e.truncated = TRUE /\ e.pending = q.pending
    <2>1. Keeps(q, e)
      BY <1>7 DEF Keeps, Holds
    <2>2. \A y \in DOMAIN e.pending : Has(q.pending, e.pending[y])
      BY <1>7 DEF Has
    <2> QED
      BY <1>7, <2>1, <2>2 DEF e
  <1>8. CASE e.truncated = q.truncated /\ e.pending = Append(q.pending, s)
    <2>1. Keeps(q, e)
      BY <1>4, <1>5, <1>8 DEF Keeps, Holds
    <2>2. Has(e.pending, s)
      BY <1>4, <1>5, <1>8 DEF Has
    <2>3. \A y \in DOMAIN e.pending : Has(q.pending, e.pending[y]) \/ e.pending[y] = s
      BY <1>4, <1>6, <1>8 DEF Has
    <2> QED
      BY <2>1, <2>2, <2>3 DEF e
  <1> QED
    BY <1>2, <1>7, <1>8

\* b has what a has, and what it has more is pending.
Serving(a, b) ==
    /\ Keeps(a.queue, b.queue)
    /\ a.executions \subseteq b.executions
    /\ b.count \in Nat /\ b.count >= a.count
    /\ \A s \in b.executions : s \in a.executions \/ b.queue.truncated \/ Has(b.queue.pending, s)
    /\ \A y \in DOMAIN b.queue.pending :
         Has(a.queue.pending, b.queue.pending[y]) \/ b.queue.pending[y].input = input

LEMMA ServingOn ==
  ASSUME NEW STATE a, NEW STATE b, NEW STATE c, Serving(a, b), Serving(b, c), a.count \in Nat
  PROVE  Serving(a, c)
  <1>1. Keeps(a.queue, c.queue)
    BY KeepsOn DEF Serving
  <1>2. \A s \in c.executions : s \in a.executions \/ c.queue.truncated \/ Has(c.queue.pending, s)
    <2>1. \A s : Has(b.queue.pending, s) => Has(c.queue.pending, s)
      BY HasKept DEF Serving
    <2>2. b.queue.truncated => c.queue.truncated
      BY DEF Serving, Keeps
    <2> QED
      BY <2>1, <2>2 DEF Serving
  <1>3. ASSUME NEW y \in DOMAIN c.queue.pending
        PROVE  Has(a.queue.pending, c.queue.pending[y]) \/ c.queue.pending[y].input = input
    <2>1. CASE Has(b.queue.pending, c.queue.pending[y])
      BY <2>1 DEF Serving, Has
    <2> QED
      BY <2>1 DEF Serving
  <1> QED
    BY <1>1, <1>2, <1>3 DEF Serving

LEMMA ServingSelf ==
  ASSUME NEW STATE a, a.count \in Nat
  PROVE  Serving(a, a)
  BY DEF Serving, Keeps, Holds, Has

\* p is queued, or the limit of its input is reached.
Placed(f, p) == State(input, p) \in f.executions \/ f.count >= scenario.maxSchedules

LEMMA ScheduledServes ==
  ASSUME NEW STATE f, NEW STATE p, f.queue \in Queues(scenario), input \in Inputs, f.count \in Nat,
         p \in Branchings(scenario, input), scenario.mode # "fifo"
  PROVE  Serving(f, Scheduled(f, p)) /\ Placed(Scheduled(f, p), p)
  <1> DEFINE s == State(input, p)
  <1>1. CASE s \in f.executions \/ f.count >= scenario.maxSchedules
    <2>1. Scheduled(f, p) = f
      BY <1>1 DEF Scheduled
    <2> QED
      BY <1>1, <2>1, ServingSelf DEF Placed
  <1>2. CASE ~(s \in f.executions \/ f.count >= scenario.maxSchedules)
    <2> DEFINE q == Enqueued(f.queue, s)
               d == Scheduled(f, p)
    <2>1. d = [queue |-> q, count |-> f.count + 1, executions |-> f.executions \cup {s}]
      BY <1>2 DEF Scheduled
    <2>2. s \in Pendings(scenario) /\ s.input = input
      BY DEF State, Pendings, Branchings
    <2> HIDE DEF s
    <2>3. /\ Keeps(f.queue, q)
          /\ q.truncated \/ Has(q.pending, s)
          /\ \A y \in DOMAIN q.pending : Has(f.queue.pending, q.pending[y]) \/ q.pending[y] = s
      BY <2>2, EnqueuedServes
    <2> HIDE DEF q, d
    <2>4. d.queue = q /\ d.count = f.count + 1 /\ d.executions = f.executions \cup {s}
      BY <2>1
    <2>5. Serving(f, d)
      BY <2>2, <2>3, <2>4 DEF Serving
    <2>6. Placed(d, p)
      BY <2>4 DEF Placed, s
    <2> QED
      BY <2>5, <2>6 DEF d
  <1> QED
    BY <1>1, <1>2

\* All siblings are placed.
LEMMA FoldServes ==
  ASSUME NEW STATE base, base.queue \in Queues(scenario), base.count \in Nat, input \in Inputs,
         scenario \in Scenarios,
         Alternatives \in Seq(Branchings(scenario, input)), scenario.mode # "fifo"
  PROVE  /\ Serving(base, FoldLeft(Scheduled, base, Alternatives))
         /\ \A p : Has(Alternatives, p) => Placed(FoldLeft(Scheduled, base, Alternatives), p)
  <1> DEFINE seq == Alternatives
  <1>1. IsSeq(seq) /\ Len(seq) \in Nat /\ DOMAIN seq = 1 .. Len(seq)
        /\ \A m \in 1 .. Len(seq) : seq[m] \in Branchings(scenario, input)
    BY DEF IsSeq
  <1>2. PICK f : Fold(f, base, seq) /\ FoldLeft(Scheduled, base, seq) = f[Len(seq)]
    BY <1>1, Folded
  <1> HIDE DEF seq
  <1> DEFINE Good(m) == /\ f[m].queue \in Queues(scenario) /\ f[m].count \in Nat /\ Serving(base, f[m])
                        /\ \A y \in 1 .. m : Placed(f[m], seq[y])
             T == {m \in Nat : m <= Len(seq) => Good(m)}
  <1>3. 0 \in T
    BY <1>2, ServingSelf DEF Fold
  <1>4. ASSUME NEW m \in Nat, m \in T PROVE m + 1 \in T
    <2> SUFFICES ASSUME m + 1 <= Len(seq) PROVE Good(m + 1)
      OBVIOUS
    <2>1. m + 1 \in 1 .. Len(seq) /\ (m + 1) - 1 = m /\ Good(m)
      BY <1>1, <1>4
    <2>2. f[m + 1] = Scheduled(f[m], seq[m + 1])
      BY <1>2, <2>1 DEF Fold
    <2>3. seq[m + 1] \in Branchings(scenario, input)
      BY <1>1, <2>1
    <2>4. Scheduled(f[m], seq[m + 1]).queue \in Queues(scenario)
      BY <2>1, <2>3, ScheduledQueue
    <2>5. Serving(f[m], Scheduled(f[m], seq[m + 1])) /\ Placed(Scheduled(f[m], seq[m + 1]), seq[m + 1])
      BY <2>1, <2>3, ScheduledServes
    <2>6. Serving(f[m], f[m + 1]) /\ Placed(f[m + 1], seq[m + 1]) /\ f[m + 1].queue \in Queues(scenario)
      BY <2>2, <2>4, <2>5
    <2>7. Serving(base, f[m + 1]) /\ f[m + 1].count \in Nat
      <3>1. Serving(base, f[m])
        BY <2>1
      <3>2. Serving(base, f[m + 1])
        BY <2>6, <3>1, ServingOn
      <3> QED
        BY <3>2 DEF Serving
    <2>8. ASSUME NEW y \in 1 .. (m + 1) PROVE Placed(f[m + 1], seq[y])
      <3>1. CASE y = m + 1
        BY <2>6, <3>1
      <3>2. CASE y # m + 1
        <4>1. y \in 1 .. m
          BY <3>2
        <4>2. Placed(f[m], seq[y])
          BY <2>1, <4>1
        <4>3. f[m + 1].count >= f[m].count /\ f[m].executions \subseteq f[m + 1].executions
              /\ f[m + 1].count \in Nat /\ f[m].count \in Nat
          BY <2>1, <2>6 DEF Serving
        <4>4. CASE State(input, seq[y]) \in f[m].executions
          BY <4>3, <4>4 DEF Placed
        <4>5. CASE f[m].count >= scenario.maxSchedules
          <5>1. scenario.maxSchedules \in Nat
            BY ScenarioFacts
          <5> QED
            BY <4>3, <4>5, <5>1 DEF Placed
        <4> QED
          BY <4>2, <4>4, <4>5 DEF Placed
      <3> QED
        BY <3>1, <3>2
    <2> QED
      BY <2>6, <2>7, <2>8
  <1>5. T = Nat
    BY <1>3, <1>4, SetInduction
  <1>6. Good(Len(seq))
    BY <1>1, <1>5
  <1>7. ASSUME NEW p, Has(seq, p) PROVE Placed(f[Len(seq)], p)
    BY <1>1, <1>6, <1>7 DEF Has
  <1> QED
    BY <1>2, <1>6, <1>7 DEF seq

\* What the exploration keeps of its inputs and executions.
Accounted ==
    /\ unguided => phase = "auditing" /\ outcome \notin Timeouts
    /\ phase = "auditing" => unguided
    /\ phase \in {"choosing", "ended"} \/ Present
    /\ scenario.initial \in queuedInputs /\ queuedInputs \subseteq Inputs
    /\ unguided \/ input \in queuedInputs
    /\ \A x \in DOMAIN queue.pending : queue.pending[x].input \in queuedInputs
    /\ \A i \in queuedInputs : State(i, <<>>) \in queuedExecutions
    /\ scheduleCounts \in [Inputs -> Nat]

\* A step that adds to the queue.
Enlarges ==
    /\ queuedInputs \subseteq queuedInputs' /\ queuedInputs' \subseteq Inputs
    /\ queuedExecutions \subseteq queuedExecutions'
    /\ Keeps(queue, queue')
    /\ \A s \in queuedExecutions' :
         s \in queuedExecutions \/ queue'.truncated \/ Has(queue'.pending, s)
    /\ \A y \in DOMAIN queue'.pending :
         Has(queue.pending, queue'.pending[y]) \/ queue'.pending[y].input \in queuedInputs'
    /\ \A i \in queuedInputs' \ queuedInputs : State(i, <<>>) \in queuedExecutions'
    /\ scheduleCounts' \in [Inputs -> Nat]
    /\ \A i \in Inputs : scheduleCounts'[i] >= scheduleCounts[i]

LEMMA NothingEnlarges ==
  ASSUME Accounted, UNCHANGED <<queue, queuedInputs, queuedExecutions, scheduleCounts>>
  PROVE  Enlarges
  <1>1. \A i \in Inputs : scheduleCounts[i] \in Nat
    BY DEF Accounted
  <1>2. Keeps(queue, queue)
    BY DEF Keeps, Holds
  <1>3. \A y \in DOMAIN queue.pending : Has(queue.pending, queue.pending[y])
    BY DEF Has
  <1> QED
    BY <1>1, <1>2, <1>3 DEF Accounted, Enlarges

LEMMA InputEnlarges ==
  ASSUME Replaying, Accounted, NEW STATE i, i \in Inputs, QueueInput(i)
  PROVE  Enlarges /\ i \in queuedInputs'
  <1> DEFINE s == State(i, <<>>)
             q == Enqueued(queue, s)
  <1>1. s \in Pendings(scenario) /\ s.input = i
    BY FreshPending DEF State
  <1>2. /\ queuedInputs' = queuedInputs \cup {i} /\ queuedExecutions' = queuedExecutions \cup {s}
        /\ queue' = q
        /\ scheduleCounts' = [scheduleCounts EXCEPT ![i] = IF @ = 0 THEN 1 ELSE @]
    BY DEF QueueInput
  <1>3. s = State(i, <<>>)
    OBVIOUS
  <1> HIDE DEF s
  <1>4. /\ Keeps(queue, q)
        /\ q.truncated \/ Has(q.pending, s)
        /\ \A y \in DOMAIN q.pending : Has(queue.pending, q.pending[y]) \/ q.pending[y] = s
    BY <1>1, EnqueuedServes DEF Replaying
  <1> HIDE DEF q
  <1>5. scheduleCounts' \in [Inputs -> Nat] /\ \A j \in Inputs : scheduleCounts'[j] >= scheduleCounts[j]
    BY <1>2 DEF Accounted
  <1>6. queuedInputs \subseteq Inputs
    BY DEF Accounted
  <1> QED
    BY <1>1, <1>2, <1>3, <1>4, <1>5, <1>6 DEF Enlarges

LEMMA ObserveEnlarges ==
  ASSUME Replaying, Accounted, Observe
  PROVE  /\ Enlarges
         /\ outcome # "total_timeout" /\ scenario.mode # "fifo" =>
              \A p : Has(Alternatives, p) =>
                  State(input, p) \in queuedExecutions' \/ scheduleCounts'[input] >= scenario.maxSchedules
  <1>1. UNCHANGED queuedInputs /\ ~unguided /\ input \in queuedInputs /\ input \in Inputs
    BY DEF Observe, Accounted
  <1> DEFINE before == [queue |-> queue, executions |-> queuedExecutions, count |-> scheduleCounts[input]]
             after == FoldLeft(Scheduled, before, Alternatives)
  <1>2. \/ /\ outcome # "total_timeout" /\ scenario.mode = "nondeterministic"
           /\ queue' = after.queue /\ queuedExecutions' = after.executions
           /\ scheduleCounts' = [scheduleCounts EXCEPT ![input] = after.count]
        \/ /\ scenario.mode # "nondeterministic" \/ outcome = "total_timeout"
           /\ UNCHANGED <<queue, queuedExecutions>>
           /\ scheduleCounts' = scheduleCounts
    <2>1. CASE outcome = "total_timeout"
      BY <2>1 DEF Observe
    <2>2. CASE outcome # "total_timeout" /\ scenario.mode = "nondeterministic"
      BY <2>2 DEF Observe
    <2>3. CASE outcome # "total_timeout" /\ scenario.mode # "nondeterministic"
      <3>1. /\ UNCHANGED <<queue, queuedExecutions>>
            /\ scheduleCounts' = [scheduleCounts EXCEPT ![input] = scheduleCounts[input]]
        BY <2>3 DEF Observe
      <3>2. scheduleCounts' = scheduleCounts
        BY <3>1 DEF Accounted
      <3> QED
        BY <2>3, <3>1, <3>2
    <2> QED
      BY <2>1, <2>2, <2>3
  <1>3. scenario \in Scenarios /\ scenario.mode \in {"fifo", "nondeterministic"}
    BY ScenarioFacts DEF Replaying
  <1>4. CASE /\ scenario.mode # "nondeterministic" \/ outcome = "total_timeout"
             /\ UNCHANGED <<queue, queuedExecutions>>
             /\ scheduleCounts' = scheduleCounts
    BY <1>1, <1>3, <1>4, NothingEnlarges
  <1>5. CASE /\ outcome # "total_timeout" /\ scenario.mode = "nondeterministic"
             /\ queue' = after.queue /\ queuedExecutions' = after.executions
             /\ scheduleCounts' = [scheduleCounts EXCEPT ![input] = after.count]
    <2>1. PICK n, h : n \in Nat /\ IsAt(h, n)
      BY DEF Observe, Accounted, Present
    <2>2. Alternatives \in Seq(Branchings(scenario, input))
      BY <1>5, <2>1, AlternativesFound
    <2>3. /\ before.queue = queue /\ before.executions = queuedExecutions
          /\ before.count = scheduleCounts[input]
      OBVIOUS
    <2>4. before.queue \in Queues(scenario) /\ before.count \in Nat
      BY <1>1, <2>3 DEF Replaying, Accounted
    <2> HIDE DEF before
    <2>5. Serving(before, after) /\ \A p : Has(Alternatives, p) => Placed(after, p)
      BY <1>1, <1>3, <1>5, <2>2, <2>4, FoldServes
    <2> HIDE DEF after
    <2>6. /\ Keeps(queue, queue') /\ queuedExecutions \subseteq queuedExecutions'
          /\ \A s \in queuedExecutions' :
               s \in queuedExecutions \/ queue'.truncated \/ Has(queue'.pending, s)
          /\ \A y \in DOMAIN queue'.pending :
               Has(queue.pending, queue'.pending[y]) \/ queue'.pending[y].input = input
          /\ after.count \in Nat /\ after.count >= scheduleCounts[input]
      BY <1>5, <2>3, <2>5 DEF Serving
    <2>7. /\ scheduleCounts' \in [Inputs -> Nat] /\ scheduleCounts'[input] = after.count
          /\ \A i \in Inputs : scheduleCounts'[i] >= scheduleCounts[i]
      BY <1>1, <1>5, <2>6 DEF Accounted
    <2>8. queuedInputs \subseteq Inputs
      BY DEF Accounted
    <2>9. Enlarges
      BY <1>1, <2>6, <2>7, <2>8 DEF Enlarges
    <2> QED
      BY <1>5, <2>5, <2>7, <2>9 DEF Placed
  <1> QED
    BY <1>2, <1>4, <1>5

LEMMA QuestionEnlarges ==
  ASSUME Replaying, Accounted, CheckContract \/ Flip
  PROVE  Enlarges
  <1>1. QueueNothing \/ \E i \in Inputs : QueueInput(i)
    BY DEF CheckContract, Flip, Answered
  <1>2. CASE QueueNothing
    BY <1>2, NothingEnlarges DEF QueueNothing
  <1>3. CASE \E i \in Inputs : QueueInput(i)
    BY <1>3, InputEnlarges
  <1> QED
    BY <1>1, <1>2, <1>3

\* All steps but Pop add to the queue or leave it alone.
LEMMA StepEnlarges ==
  ASSUME Replaying, Accounted, [Next]_vars, ~Pop
  PROVE  Enlarges
  <1>1. CASE Observe
    BY <1>1, ObserveEnlarges
  <1>2. CASE CheckContract \/ Flip
    BY <1>2, QuestionEnlarges
  <1>3. CASE Stop \/ OutOfBudget \/ Iterate \/ Audit \/ Step \/ UNCHANGED vars
    <2>1. UNCHANGED <<queue, queuedInputs, queuedExecutions, scheduleCounts>>
      BY <1>3 DEF Stop, OutOfBudget, Iterate, Audit, Step, vars, searchVars
    <2> QED
      BY <2>1, NothingEnlarges
  <1> QED
    BY <1>1, <1>2, <1>3 DEF Next, Explore

LEMMA Joined ==
  ASSUME NEW S, NEW a \in Seq(S), NEW b \in Seq(S)
  PROVE  /\ a \o b \in Seq(S) /\ Len(a \o b) = Len(a) + Len(b)
         /\ \A y \in 1 .. (Len(a) + Len(b)) :
              (a \o b)[y] = IF y <= Len(a) THEN a[y] ELSE b[y - Len(a)]
  OBVIOUS

LEMMA Removed ==
  ASSUME NEW S, NEW p \in Seq(S), NEW i \in 1 .. Len(p)
  PROVE  /\ RemoveAt(p, i) \in Seq(S) /\ Len(RemoveAt(p, i)) = Len(p) - 1
         /\ \A y \in 1 .. (Len(p) - 1) : RemoveAt(p, i)[y] = IF y < i THEN p[y] ELSE p[y + 1]
  <1> DEFINE a == SubSeq(p, 1, i - 1)
             b == SubSeq(p, i + 1, Len(p))
             r == a \o b
  <1>1. Len(p) \in Nat /\ i \in Nat /\ i >= 1 /\ i <= Len(p)
    OBVIOUS
  <1>2. a \in Seq(S) /\ Len(a) = i - 1 /\ \A y \in 1 .. (i - 1) : a[y] = p[y]
    BY <1>1
  <1>3. b \in Seq(S) /\ Len(b) = Len(p) - i /\ \A y \in 1 .. (Len(p) - i) : b[y] = p[i + y]
    BY <1>1
  <1> HIDE DEF a, b
  <1>4. r \in Seq(S) /\ Len(r) = Len(a) + Len(b)
    BY <1>2, <1>3, Joined
  <1>5. Len(r) = Len(p) - 1
    BY <1>1, <1>2, <1>3, <1>4
  <1>6. ASSUME NEW y \in 1 .. (Len(p) - 1) PROVE r[y] = IF y < i THEN p[y] ELSE p[y + 1]
    <2>1. r[y] = IF y <= Len(a) THEN a[y] ELSE b[y - Len(a)]
      <3>1. y \in 1 .. (Len(a) + Len(b))
        BY <1>4, <1>5
      <3> QED
        BY <1>2, <1>3, <3>1, Joined
    <2>2. CASE y < i
      BY <1>1, <1>2, <2>1, <2>2
    <2>3. CASE ~(y < i)
      <3>1. y - Len(a) \in 1 .. (Len(p) - i) /\ ~(y <= Len(a)) /\ i + (y - Len(a)) = y + 1
        BY <1>1, <1>2, <2>3
      <3> QED
        BY <1>3, <2>1, <2>3, <3>1
    <2> QED
      BY <2>2, <2>3
  <1> HIDE DEF r
  <1>7. r = RemoveAt(p, i)
    BY DEF RemoveAt, r, a, b
  <1> QED
    BY <1>4, <1>5, <1>6, <1>7

\* Pop takes one state from the queue, and executes it.
LEMMA PopTakes ==
  ASSUME Replaying, Pop
  PROVE  /\ \A s : Has(queue.pending, s) => Has(queue'.pending, s) \/ s = State(input', prefix')
         /\ \A y \in DOMAIN queue'.pending : Has(queue.pending, queue'.pending[y])
         /\ Has(queue.pending, State(input', prefix'))
         /\ queue'.truncated = queue.truncated
         /\ input' \in Inputs
  <1>1. PICK i \in Positions : /\ Start(queue.pending[i].input, queue.pending[i].prefix, FALSE)
                               /\ queue' = [queue EXCEPT !.pending = RemoveAt(@, i)]
    BY DEF Pop
  <1> DEFINE P == Pendings(scenario)
             p == queue.pending
             r == RemoveAt(p, i)
  <1>2. queue \in [pending : Seq(P), truncated : BOOLEAN, dropped : Nat] /\ p # <<>>
    BY DEF Replaying, Queues, Pop
  <1> HIDE DEF P
  <1>3. i \in DOMAIN p /\ p \in Seq(P) /\ queue'.pending = r /\ queue'.truncated = queue.truncated
    BY <1>1, <1>2 DEF Positions
  <1>4. p[i] = State(input', prefix') /\ input' \in Inputs
    <2>1. p[i] \in P
      BY <1>3
    <2> QED
      BY <1>1, <2>1 DEF P, Pendings, State, Start
  <1> HIDE DEF p, r
  <1>5. i \in 1 .. Len(p) /\ Len(p) \in Nat /\ DOMAIN p = 1 .. Len(p)
    BY <1>3
  <1>6. /\ r \in Seq(P) /\ Len(r) = Len(p) - 1 /\ DOMAIN r = 1 .. (Len(p) - 1)
        /\ \A y \in 1 .. (Len(p) - 1) : r[y] = IF y < i THEN p[y] ELSE p[y + 1]
    <2>1. r \in Seq(P) /\ Len(r) = Len(p) - 1
          /\ \A y \in 1 .. (Len(p) - 1) : r[y] = IF y < i THEN p[y] ELSE p[y + 1]
      BY <1>3, <1>5, Removed DEF r
    <2> QED
      BY <2>1
  <1> HIDE DEF r
  <1>7. ASSUME NEW y \in DOMAIN p, y # i PROVE \E x \in DOMAIN r : r[x] = p[y]
    <2>1. y \in 1 .. Len(p)
      BY <1>5
    <2>2. CASE y < i
      <3>1. y \in 1 .. (Len(p) - 1)
        BY <1>5, <2>1, <2>2
      <3> QED
        BY <1>6, <2>2, <3>1
    <2>3. CASE ~(y < i)
      <3>1. y - 1 \in 1 .. (Len(p) - 1) /\ ~(y - 1 < i) /\ (y - 1) + 1 = y
        BY <1>5, <1>7, <2>1, <2>3
      <3> QED
        BY <1>6, <3>1
    <2> QED
      BY <2>2, <2>3
  <1>8. ASSUME NEW y \in DOMAIN r PROVE \E x \in DOMAIN p : p[x] = r[y]
    <2>1. y \in 1 .. (Len(p) - 1) /\ y \in 1 .. Len(p) /\ y + 1 \in 1 .. Len(p)
      BY <1>5, <1>6
    <2> QED
      BY <1>5, <1>6, <2>1
  <1> QED
    BY <1>3, <1>4, <1>5, <1>7, <1>8 DEF Has, p

LEMMA AccountedStarts ==
  Init => Accounted
  <1> SUFFICES ASSUME Init PROVE Accounted
    OBVIOUS
  <1>1. scenario \in Scenarios /\ scenario.initial \in Inputs
    BY ScenarioFacts DEF Init
  <1>2. /\ queue.pending = <<State(scenario.initial, <<>>)>> /\ unguided = FALSE /\ phase = "choosing"
        /\ input = scenario.initial /\ queuedInputs = {scenario.initial}
        /\ queuedExecutions = {State(scenario.initial, <<>>)}
        /\ scheduleCounts = [i \in Inputs |-> IF i = scenario.initial THEN 1 ELSE 0]
    BY DEF Init, Idle
  <1>3. \A x \in DOMAIN queue.pending : queue.pending[x].input = scenario.initial
    BY <1>2 DEF State
  <1> QED
    BY <1>1, <1>2, <1>3 DEF Accounted

LEMMA PresentKept ==
  ASSUME Present, UNCHANGED <<scenario, runVars>>
  PROVE  Present'
  <1>1. Frame' = Frame
    BY DEF runVars, Frame
  <1> QED
    BY <1>1 DEF runVars, Present, IsAt

LEMMA AccountedStays ==
  Replaying /\ Asks(scenario, Frame) /\ Accounted /\ [Next]_vars => Accounted'
  <1> SUFFICES ASSUME Replaying, Asks(scenario, Frame), Accounted, [Next]_vars PROVE Accounted'
    OBVIOUS
  <1>1. CASE Pop
    <2>1. /\ UNCHANGED <<scenario, queuedInputs, queuedExecutions, scheduleCounts>>
          /\ unguided' = FALSE /\ phase' = "running" /\ outcome' = "running"
      BY <1>1 DEF Pop, Start
    <2>2. /\ \A y \in DOMAIN queue'.pending : Has(queue.pending, queue'.pending[y])
          /\ Has(queue.pending, State(input', prefix'))
      BY <1>1, PopTakes
    <2>3. \A s : Has(queue.pending, s) => s.input \in queuedInputs
      BY DEF Accounted, Has
    <2>4. input' \in queuedInputs
      BY <2>2, <2>3 DEF State
    <2>5. Present'
      BY <2>1, ReplayingStays DEF Replaying
    <2> QED
      BY <2>1, <2>2, <2>3, <2>4, <2>5 DEF Accounted
  <1>2. CASE ~Pop
    <2>1. Enlarges
      BY <1>2, StepEnlarges
    <2>2. \A s : Has(queue.pending, s) => s.input \in queuedInputs
      BY DEF Accounted, Has
    <2>3. /\ queuedInputs \subseteq queuedInputs' /\ queuedInputs' \subseteq Inputs
          /\ \A x \in DOMAIN queue'.pending : queue'.pending[x].input \in queuedInputs'
          /\ \A i \in queuedInputs' : State(i, <<>>) \in queuedExecutions'
          /\ scheduleCounts' \in [Inputs -> Nat]
      BY <2>1, <2>2 DEF Enlarges, Accounted
    <2>4. scenario' = scenario
      BY <1>2 DEF Next, Explore, Stop, Observe, OutOfBudget, CheckContract, Flip, Iterate, Audit, Step,
                  Execute, Resume, Deadlock, End, Expire, Turn, CancelUnstarted, Sleep, AwaitMore,
                  AwaitResult, Create, Cancel, Branch, Write, Return, Raise, vars
    <2>5. scenario'.initial \in queuedInputs'
      BY <2>3, <2>4 DEF Accounted
    <2>6. CASE Audit
      <3>1. unguided' = TRUE /\ phase' = "auditing" /\ outcome' = "running"
        BY <2>6 DEF Audit, Start
      <3>2. Present'
        BY <3>1, ReplayingStays DEF Replaying
      <3> QED
        BY <2>3, <2>5, <3>1, <3>2 DEF Accounted, Timeouts
    <2>7. CASE Step
      <3>1. UNCHANGED <<input, unguided, phase>>
        BY <2>7 DEF Step, searchVars,
                  Execute, Resume, Deadlock, End, Expire, Turn, CancelUnstarted, Sleep, AwaitMore,
                  AwaitResult, Create, Cancel, Branch, Write, Return, Raise
      <3>2. Present' /\ (unguided => outcome' \notin Timeouts)
        BY <2>7, StepReplays DEF Step
      <3> QED
        BY <2>3, <2>5, <3>1, <3>2 DEF Accounted
    <2>8. CASE Stop \/ Observe \/ OutOfBudget \/ CheckContract \/ Flip \/ Iterate
      <3>1. UNCHANGED <<scenario, runVars>> /\ phase # "auditing"
        BY <2>8 DEF Stop, Observe, OutOfBudget, CheckContract, Flip, Iterate, Question
      <3>2. /\ phase' # "auditing" /\ UNCHANGED <<input, unguided>>
        BY <2>8, <3>1 DEF Stop, Observe, OutOfBudget, CheckContract, Flip, Iterate, StopWith, runVars
      <3>3. ~unguided
        BY <3>1 DEF Accounted
      <3>4. phase' \in {"choosing", "ended"} \/ Present'
        <4>1. CASE Present
          BY <3>1, <4>1, PresentKept
        <4>2. CASE ~Present
          <5>1. phase \in {"choosing", "ended"}
            BY <4>2 DEF Accounted
          <5> QED
            BY <2>8, <5>1 DEF Stop, Observe, OutOfBudget, CheckContract, Flip, Iterate, StopWith, Question
        <4> QED
          BY <4>1, <4>2
      <3> QED
        BY <2>3, <2>5, <3>2, <3>3, <3>4 DEF Accounted
    <2>9. CASE UNCHANGED vars
      <3>1. UNCHANGED <<input, unguided, phase, outcome, scenario, runVars>>
        BY <2>9 DEF vars, searchVars, runVars
      <3>2. phase' \in {"choosing", "ended"} \/ Present'
        BY <3>1, PresentKept DEF Accounted
      <3> QED
        BY <2>3, <2>5, <3>1, <3>2 DEF Accounted
    <2> QED
      BY <1>2, <2>6, <2>7, <2>8, <2>9 DEF Next, Explore
  <1> QED
    BY <1>1, <1>2

\* r is the record of the execution h, which ended after n steps.
IsRun(r, h, n) ==
    /\ History(scenario, r.input, h, n)
    /\ Picks(h[n]) = r.schedule /\ h[n].path = r.path
    /\ h[n].outcome = r.outcome /\ r.outcome # "running"

\* The other choices of h were queued, up to the limit of its input.
Spreads(r, h, n) ==
    /\ IsRun(r, h, n) /\ r.input \in Inputs
    /\ scenario.mode # "fifo" =>
        \A x \in DOMAIN h[n].choices : \A k \in 0 .. (h[n].choices[x][1] - 1) :
            k # h[n].choices[x][2] =>
                \/ State(r.input, Instead(h[n], x, k)) \in queuedExecutions
                \/ scheduleCounts[r.input] >= scenario.maxSchedules

Spread(r) == \E n \in Nat : \E h : Spreads(r, h, n)

\* s is pending, is running, or has run.
Served(s) ==
    \/ queue.truncated
    \/ Has(queue.pending, s)
    \/ phase = "running" /\ s = State(input, prefix)
    \/ \E r \in runs : r.outcome \in Timeouts \/ (r.input = s.input /\ Begins(s.prefix, r.schedule))

Executed ==
    /\ \A s \in queuedExecutions : Served(s)
    /\ \A r \in runs : r.outcome \notin Timeouts => Spread(r)

LEMMA SchedulePicks ==
  ASSUME NEW c, choices = c.choices
  PROVE  Schedule = Picks(c)
  BY DEF Schedule, Picks

\* An execution that ended with this schedule has used the prefix up.
LEMMA Outlasts ==
  ASSUME Replaying, ~unguided, NEW h, NEW n \in Nat, History(scenario, input, h, n),
         Picks(h[n]) = Schedule, h[n].outcome # "running", IsSeq(choices)
  PROVE  Begins(prefix, Schedule)
  <1>1. PICK m, g : m \in Nat /\ History(scenario, input, g, m) /\ Picks(g[m]) = prefix
                            /\ Len(g[m].choices) = Len(prefix) /\ IsSeq(g[m].choices)
    BY QueuedBy
  <1>2. IsSeq(prefix) /\ IsSeq(h[n].choices)
    <2>1. IsSeq(prefix)
      BY DEF Replaying, IsSeq
    <2> QED
      BY <2>1, HistorySequences
  <1>3. Len(prefix) \in Nat /\ DOMAIN prefix = 1 .. Len(prefix)
        /\ DOMAIN choices = 1 .. Len(choices) /\ Len(choices) \in Nat
    BY <1>2, AppendBegins
  <1>4. DOMAIN Schedule = DOMAIN choices /\ \A x \in DOMAIN choices : Schedule[x] = choices[x][2]
    BY DEF Schedule
  <1>5. /\ DOMAIN Picks(h[n]) = 1 .. Len(h[n].choices) /\ Len(Picks(h[n])) = Len(h[n].choices)
        /\ Len(h[n].choices) \in Nat
    BY <1>2, PicksSequence
  <1>6. \A x \in DOMAIN choices : x <= Len(prefix) => Schedule[x] = prefix[x]
    BY <1>4 DEF Replaying, PrefixReplayed
  <1>7. Compatible(Picks(g[m]), Picks(h[n]))
    BY <1>1, <1>3, <1>4, <1>6 DEF Compatible
  <1>8. ~(Len(h[n].choices) < Len(g[m].choices))
    <2>1. Compatible(Picks(h[n]), Picks(g[m]))
      BY <1>7 DEF Compatible
    <2> QED
      BY <1>1, <2>1, SameAsQueued
  <1>9. Len(prefix) <= Len(Schedule) /\ DOMAIN Schedule = 1 .. Len(Schedule)
    BY <1>1, <1>3, <1>5, <1>8
  <1>10. \A x \in 1 .. Len(prefix) : x \in DOMAIN Schedule /\ x <= Len(prefix)
    BY <1>3, <1>5, <1>9
  <1> QED
    BY <1>4, <1>6, <1>9, <1>10 DEF Begins

LEMMA ObservedHistory ==
  ASSUME Accounted, Observe
  PROVE  \E n \in Nat : \E h : IsAt(h, n) /\ IsSeq(choices) /\ Schedule = Picks(h[n])
  <1>1. PICK n, h : n \in Nat /\ IsAt(h, n)
    BY DEF Observe, Accounted, Present
  <1>2. IsSeq(choices)
    BY <1>1, HistorySequences DEF IsAt
  <1>3. Schedule = Picks(h[n])
    BY <1>1, SchedulePicks DEF IsAt
  <1> QED
    BY <1>1, <1>2, <1>3

\* What is recorded serves the state that was executed.
LEMMA RecordServes ==
  ASSUME Replaying, Accounted, Executed, Observe
  PROVE  \E r \in runs' : r.outcome \in Timeouts \/ (r.input = input /\ Begins(prefix, r.schedule))
  <1>1. PICK n, h : n \in Nat /\ IsAt(h, n) /\ IsSeq(choices) /\ Schedule = Picks(h[n])
    BY ObservedHistory
  <1>2. ~unguided /\ runs' = Recorded /\ outcome # "running"
    BY DEF Observe, Accounted, Over
  <1>3. CASE \E r \in runs : r.input = input /\ r.schedule = Schedule
    <2>1. PICK r \in runs : r.input = input /\ r.schedule = Schedule
      BY <1>3
    <2>2. r \in runs'
      BY <1>2, <1>3 DEF Recorded
    <2>3. CASE r.outcome \notin Timeouts
      <3>1. PICK m, g : m \in Nat /\ Spreads(r, g, m)
        BY <2>3 DEF Executed, Spread
      <3>2. /\ History(scenario, input, g, m) /\ Picks(g[m]) = Schedule
            /\ g[m].outcome # "running"
        BY <2>1, <3>1 DEF Spreads, IsRun
      <3>3. Begins(prefix, Schedule)
        BY <3>1, <1>1, <1>2, <3>2, Outlasts
      <3> QED
        BY <2>1, <2>2, <3>3
    <2> QED
      BY <2>2, <2>3
  <1>4. CASE ~(\E r \in runs : r.input = input /\ r.schedule = Schedule)
    <2>1. Record \in runs' /\ Record.outcome = outcome /\ Record.input = input /\ Record.schedule = Schedule
      BY <1>2, <1>4 DEF Recorded, Record
    <2>2. CASE outcome \notin Timeouts
      <3>1. History(scenario, input, h, n) /\ Frame = h[n]
        BY <1>1, <2>2 DEF IsAt
      <3>2. h[n].outcome # "running"
        BY <1>2, <3>1 DEF Frame
      <3>3. Begins(prefix, Schedule)
        BY <1>1, <1>2, <3>1, <3>2, Outlasts
      <3> QED
        BY <2>1, <3>3
    <2> QED
      BY <2>1, <2>2
  <1> QED
    BY <1>3, <1>4

LEMMA SpreadKept ==
  ASSUME NEW r, Spread(r), Replaying, Accounted, Enlarges, UNCHANGED scenario
  PROVE  Spread(r)'
  <1>1. PICK n, h : n \in Nat /\ Spreads(r, h, n)
    BY DEF Spread
  <1>2. r.input \in Inputs /\ scenario' = scenario /\ IsRun(r, h, n)'
    BY <1>1 DEF Spreads, IsRun
  <1>3. scheduleCounts[r.input] \in Nat /\ scheduleCounts'[r.input] \in Nat
        /\ scheduleCounts'[r.input] >= scheduleCounts[r.input] /\ scenario.maxSchedules \in Nat
    BY <1>2, ScenarioFacts DEF Replaying, Accounted, Enlarges
  <1>4. scheduleCounts[r.input] >= scenario.maxSchedules => scheduleCounts'[r.input] >= scenario.maxSchedules
    BY <1>3
  <1>5. queuedExecutions \subseteq queuedExecutions'
    BY DEF Enlarges
  <1>6. ASSUME scenario.mode # "fifo", NEW x \in DOMAIN h[n].choices,
               NEW k \in 0 .. (h[n].choices[x][1] - 1), k # h[n].choices[x][2]
        PROVE  \/ State(r.input, Instead(h[n], x, k)) \in queuedExecutions'
               \/ scheduleCounts'[r.input] >= scenario.maxSchedules
    <2>1. \/ State(r.input, Instead(h[n], x, k)) \in queuedExecutions
          \/ scheduleCounts[r.input] >= scenario.maxSchedules
      BY <1>1, <1>6 DEF Spreads
    <2> QED
      BY <1>4, <1>5, <2>1
  <1>7. Spreads(r, h, n)'
    BY <1>2, <1>6 DEF Spreads
  <1> QED
    BY <1>1, <1>7 DEF Spread

LEMMA ServedKept ==
  ASSUME NEW s, Served(s), Enlarges, runs \subseteq runs', phase # "running"
  PROVE  Served(s)'
  <1>1. Has(queue.pending, s) => Has(queue'.pending, s)
    BY HasKept DEF Enlarges
  <1>2. queue.truncated => queue'.truncated
    BY DEF Enlarges, Keeps
  <1> QED
    BY <1>1, <1>2 DEF Served

\* The siblings of what is recorded are queued.
LEMMA RecordSpreads ==
  ASSUME Replaying, Accounted, Observe, outcome \notin Timeouts
  PROVE  Spread(Record)'
  <1>1. PICK n, h : n \in Nat /\ IsAt(h, n) /\ IsSeq(choices) /\ Schedule = Picks(h[n])
    BY ObservedHistory
  <1>2. ~unguided /\ outcome # "running" /\ outcome # "total_timeout" /\ UNCHANGED <<scenario, runVars>>
    BY DEF Observe, Accounted, Over, Timeouts
  <1>3. /\ History(scenario, input, h, n) /\ Frame = h[n] /\ choices = h[n].choices /\ path = h[n].path
        /\ h[n].outcome = outcome
    BY <1>1 DEF IsAt, Frame
  <1>4. PICK r : r = Record
    OBVIOUS
  <1>5. r.input = input /\ r.schedule = Schedule /\ r.path = path /\ r.outcome = outcome /\ r.input \in Inputs
    BY <1>4 DEF Record, Replaying
  <1>6. Record' = r
    BY <1>2, <1>4 DEF Record, Schedule, runVars
  <1>7. IsRun(r, h, n)'
    BY <1>1, <1>2, <1>3, <1>5 DEF IsRun
  <1>8. ASSUME scenario.mode # "fifo", NEW x \in DOMAIN h[n].choices,
               NEW k \in 0 .. (h[n].choices[x][1] - 1), k # h[n].choices[x][2]
        PROVE  \/ State(r.input, Instead(h[n], x, k)) \in queuedExecutions'
               \/ scheduleCounts'[r.input] >= scenario.maxSchedules
    <2>1. Has(Alternatives, Instead(h[n], x, k))
      BY <1>1, <1>3, <1>8, AlternativesFound
    <2> QED
      BY <1>2, <1>5, <1>8, <2>1, ObserveEnlarges
  <1>9. Spreads(r, h, n)'
    BY <1>2, <1>5, <1>7, <1>8 DEF Spreads
  <1> QED
    BY <1>1, <1>6, <1>9 DEF Spread

LEMMA ExecutedStarts ==
  Init => Executed
  <1> SUFFICES ASSUME Init PROVE Executed
    OBVIOUS
  <1>1. /\ queue.pending = <<State(scenario.initial, <<>>)>> /\ runs = {}
        /\ queuedExecutions = {State(scenario.initial, <<>>)}
    BY DEF Init
  <1> DEFINE s == State(scenario.initial, <<>>)
  <1>2. queue.pending = <<s>> /\ queuedExecutions = {s}
    BY <1>1
  <1> HIDE DEF s
  <1>3. Has(queue.pending, s)
    <2>1. 1 \in DOMAIN <<s>> /\ <<s>>[1] = s
      OBVIOUS
    <2> QED
      BY <1>2, <2>1 DEF Has
  <1> QED
    BY <1>1, <1>2, <1>3 DEF Executed, Served

LEMMA ExecutedStays ==
  Replaying /\ Accounted /\ Executed /\ [Next]_vars => Executed'
  <1> SUFFICES ASSUME Replaying, Accounted, Executed, [Next]_vars PROVE Executed'
    OBVIOUS
  <1>1. CASE Pop
    <2>1. /\ UNCHANGED <<scenario, queuedExecutions, scheduleCounts, runs>>
          /\ phase' = "running" /\ phase = "choosing"
      BY <1>1 DEF Pop
    <2>2. /\ \A s : Has(queue.pending, s) => Has(queue'.pending, s) \/ s = State(input', prefix')
          /\ queue'.truncated = queue.truncated
      BY <1>1, PopTakes
    <2>3. ASSUME NEW s \in queuedExecutions' PROVE Served(s)'
      BY <2>1, <2>2, <2>3 DEF Executed, Served
    <2>4. ASSUME NEW r \in runs', r.outcome \notin Timeouts PROVE Spread(r)'
      BY <2>1, <2>4 DEF Executed, Spread, Spreads, IsRun
    <2> QED
      BY <2>3, <2>4 DEF Executed
  <1>2. CASE Step
    <2>1. /\ UNCHANGED <<scenario, queuedExecutions, scheduleCounts, runs, phase, input, prefix, queue>>
      BY <1>2 DEF Step, searchVars,
                  Execute, Resume, Deadlock, End, Expire, Turn, CancelUnstarted, Sleep, AwaitMore,
                  AwaitResult, Create, Cancel, Branch, Write, Return, Raise
    <2>2. ASSUME NEW s \in queuedExecutions' PROVE Served(s)'
      BY <2>1, <2>2 DEF Executed, Served
    <2>3. ASSUME NEW r \in runs', r.outcome \notin Timeouts PROVE Spread(r)'
      BY <2>1, <2>3 DEF Executed, Spread, Spreads, IsRun
    <2> QED
      BY <2>2, <2>3 DEF Executed
  <1>3. CASE Observe
    <2>1. Enlarges /\ runs \subseteq runs' /\ phase = "running"
          /\ UNCHANGED <<scenario, input, prefix, runVars>>
      BY <1>3, ObserveEnlarges DEF Observe, Recorded, runVars
    <2>2. ASSUME NEW s \in queuedExecutions' PROVE Served(s)'
      <3>1. CASE queue'.truncated \/ Has(queue'.pending, s)
        BY <3>1 DEF Served
      <3>2. CASE s \in queuedExecutions
        <4>1. Has(queue.pending, s) => Has(queue'.pending, s)
          BY <2>1, HasKept DEF Enlarges
        <4>2. queue.truncated => queue'.truncated
          BY <2>1 DEF Enlarges, Keeps
        <4>3. CASE s = State(input, prefix)
          <5>1. s.input = input /\ s.prefix = prefix
            BY <4>3 DEF State
          <5> QED
            BY <1>3, <5>1, RecordServes DEF Served
        <4>4. Served(s)
          BY <3>2 DEF Executed
        <4> QED
          BY <2>1, <4>1, <4>2, <4>3, <4>4 DEF Served
      <3> QED
        BY <2>1, <2>2, <3>1, <3>2 DEF Enlarges
    <2>3. ASSUME NEW r \in runs', r.outcome \notin Timeouts PROVE Spread(r)'
      <3>1. CASE r \in runs
        BY <2>1, <2>3, <3>1, SpreadKept DEF Executed
      <3>2. CASE r \notin runs
        <4>1. r = Record
          BY <1>3, <3>2 DEF Observe, Recorded
        <4>2. outcome \notin Timeouts /\ Record' = Record
          BY <2>1, <2>3, <4>1 DEF Record, Schedule, runVars
        <4>3. Spread(Record)'
          BY <1>3, <4>2, RecordSpreads
        <4> QED
          BY <4>1, <4>2, <4>3 DEF Spread, Spreads, IsRun
      <3> QED
        BY <3>1, <3>2
    <2> QED
      BY <2>2, <2>3 DEF Executed
  <1>4. CASE CheckContract \/ Flip \/ Stop \/ OutOfBudget \/ Iterate \/ Audit
    <2>1. Enlarges /\ runs' = runs /\ phase # "running" /\ scenario' = scenario
      <3>1. ~Pop
        BY <1>4 DEF CheckContract, Flip, Stop, StopWith, OutOfBudget, Iterate, Audit, Pop, Question
      <3> QED
        BY <1>4, <3>1, StepEnlarges DEF CheckContract, Flip, Stop, OutOfBudget, Iterate, Audit, Question
    <2>2. ASSUME NEW s \in queuedExecutions' PROVE Served(s)'
      <3>1. CASE s \in queuedExecutions
        BY <2>1, <3>1, ServedKept DEF Executed
      <3>2. CASE s \notin queuedExecutions
        BY <2>1, <2>2, <3>2 DEF Enlarges, Served
      <3> QED
        BY <3>1, <3>2
    <2>3. ASSUME NEW r \in runs', r.outcome \notin Timeouts PROVE Spread(r)'
      BY <2>1, <2>3, SpreadKept DEF Executed
    <2> QED
      BY <2>2, <2>3 DEF Executed
  <1>5. CASE UNCHANGED vars
    <2>1. UNCHANGED <<scenario, queuedExecutions, scheduleCounts, runs, phase, input, prefix, queue>>
      BY <1>5 DEF vars, searchVars, runVars
    <2>2. ASSUME NEW s \in queuedExecutions' PROVE Served(s)'
      BY <2>1, <2>2 DEF Executed, Served
    <2>3. ASSUME NEW r \in runs', r.outcome \notin Timeouts PROVE Spread(r)'
      BY <2>1, <2>3 DEF Executed, Spread, Spreads, IsRun
    <2> QED
      BY <2>2, <2>3 DEF Executed
  <1> QED
    BY <1>1, <1>2, <1>3, <1>4, <1>5 DEF Next, Explore

--------------------------------------------------------------------------------
(* Every schedule of an input is among the runs. *)

LEMMA InsteadIs ==
  ASSUME NEW c, IsSeq(c.choices), NEW x \in DOMAIN c.choices, NEW k
  PROVE  /\ Len(Instead(c, x, k)) = x /\ Instead(c, x, k)[x] = k
         /\ \A y \in 1 .. (x - 1) : Instead(c, x, k)[y] = c.choices[y][2]
  <1> DEFINE prior == [y \in 1 .. (x - 1) |-> c.choices[y][2]]
  <1>1. x \in Nat /\ x - 1 \in Nat
    <2>1. DOMAIN c.choices = 1 .. Len(c.choices) /\ Len(c.choices) \in Nat
      BY AppendBegins
    <2> QED
      BY <2>1
  <1>2. /\ DOMAIN prior = 1 .. (x - 1) /\ prior = [y \in 1 .. (x - 1) |-> prior[y]]
        /\ \A y \in 1 .. (x - 1) : prior[y] = c.choices[y][2]
        /\ Instead(c, x, k) = Append(prior, k)
    BY DEF Instead
  <1> HIDE DEF prior
  <1>3. IsSeq(prior) /\ Len(prior) = x - 1
    BY <1>1, <1>2, MapSequence
  <1>4. Len(Append(prior, k)) = x /\ Append(prior, k)[x] = k
        /\ \A y \in 1 .. (x - 1) : Append(prior, k)[y] = prior[y]
    BY <1>1, <1>3, AppendBegins DEF Begins
  <1> QED
    BY <1>2, <1>4

\* An execution that ended goes through every shorter one that it agrees with.
LEMMA Passed ==
  ASSUME NEW sc, NEW i, NEW h, NEW m \in Nat, History(sc, i, h, m), h[m].outcome # "running",
         NEW g, NEW n \in Nat, History(sc, i, g, n),
         sc.mode = "fifo" \/ Compatible(Picks(h[m]), Picks(g[n]))
  PROVE  n <= m /\ \A x \in 0 .. n : h[x] = g[x]
  <1>1. \A l \in Nat : l <= m /\ l <= n => h[l] = g[l]
    BY Determined
  <1>2. n <= m
    <2> SUFFICES ASSUME ~(n <= m) PROVE FALSE
      OBVIOUS
    <2>1. m \in 0 .. (n - 1) /\ m <= m /\ m <= n
      OBVIOUS
    <2>2. g[m].outcome = "running"
      BY <2>1 DEF History, Follows
    <2> QED
      BY <1>1, <2>1, <2>2
  <1> QED
    BY <1>1, <1>2

\* s agrees with t on its first l members.
Agree(s, t, l) == \A x \in 1 .. l : x \in DOMAIN t => x \in DOMAIN s /\ s[x] = t[x]

\* A run that agrees with g on l choices.
Near(i, g, n, l) ==
    \E r \in runs : \E m \in Nat : \E h :
        Spreads(r, h, m) /\ r.input = i /\ Agree(Picks(h[m]), Picks(g[n]), l)

\* Nothing of i is pending or running.
Settled(i) ==
    /\ Undisturbed /\ ~queue.truncated /\ phase # "running"
    /\ i \in queuedInputs
    /\ \A x \in DOMAIN queue.pending : queue.pending[x].input # i

LEMMA HasRun ==
  ASSUME Executed, NEW i, Settled(i), NEW s, s \in queuedExecutions, s.input = i
  PROVE  \E r \in runs : \E m \in Nat : \E h :
            Spreads(r, h, m) /\ r.input = i /\ Begins(s.prefix, Picks(h[m]))
  <1>1. Served(s) /\ ~Has(queue.pending, s)
    BY DEF Executed, Settled, Has
  <1>2. PICK r \in runs : r.outcome \in Timeouts \/ (r.input = s.input /\ Begins(s.prefix, r.schedule))
    BY <1>1 DEF Served, Settled
  <1>3. r.outcome \notin Timeouts
    BY DEF Settled, Undisturbed, Timeouts
  <1>4. PICK m, h : m \in Nat /\ Spreads(r, h, m)
    BY <1>3 DEF Executed, Spread
  <1>5. Picks(h[m]) = r.schedule
    BY <1>4 DEF Spreads, IsRun
  <1> QED
    BY <1>2, <1>3, <1>4, <1>5

LEMMA Nearer ==
  ASSUME Replaying, Accounted, Executed, scenario.mode # "fifo",
         NEW i, Settled(i), NEW g, NEW n \in Nat, History(scenario, i, g, n),
         NEW l \in Nat, Near(i, g, n, l)
  PROVE  Near(i, g, n, l + 1)
  <1>1. PICK r, m, h :
          r \in runs /\ m \in Nat /\ Spreads(r, h, m) /\ r.input = i /\ Agree(Picks(h[m]), Picks(g[n]), l)
    BY DEF Near
  <1>2. /\ History(scenario, i, h, m) /\ h[m].outcome # "running" /\ i \in Inputs
    BY <1>1 DEF Spreads, IsRun
  <1>3. IsSeq(g[n].choices) /\ IsSeq(h[m].choices)
    BY <1>1, <1>2, HistorySequences
  <1>4. /\ DOMAIN Picks(g[n]) = 1 .. Len(g[n].choices) /\ Len(g[n].choices) \in Nat
        /\ DOMAIN Picks(h[m]) = 1 .. Len(h[m].choices) /\ Len(h[m].choices) \in Nat
        /\ DOMAIN g[n].choices = 1 .. Len(g[n].choices)
        /\ DOMAIN h[m].choices = 1 .. Len(h[m].choices)
    BY <1>3, PicksSequence
  <1>5. CASE l + 1 \notin DOMAIN Picks(g[n])
    <2>1. \A x \in 1 .. (l + 1) : x \in 1 .. l \/ x = l + 1
      OBVIOUS
    <2>2. Agree(Picks(h[m]), Picks(g[n]), l + 1)
      BY <1>1, <1>5, <2>1 DEF Agree
    <2> QED
      BY <1>1, <2>2 DEF Near
  <1>6. CASE l + 1 \in DOMAIN Picks(g[n])
    <2>1. PICK a \in Nat : MadeAt(scenario, g, n, l + 1, a)
      BY <1>4, <1>6, ChoiceMade
    <2>2. a < n /\ Choosing(g[a]) /\ Len(g[a].choices) = l
      BY <2>1 DEF MadeAt
    <2>3. a \in 0 .. (n - 1) /\ a \in 0 .. n /\ n \in 0 .. n /\ a <= n
      BY <2>2
    <2>4. History(scenario, i, g, a) /\ g[a].outcome = "running"
      BY <2>3 DEF History, Follows
    <2>5. IsSeq(g[a].choices) /\ Begins(g[a].choices, g[n].choices)
      BY <2>3, HistorySequences, HistoryGrows
    <2>6. Compatible(Picks(h[m]), Picks(g[a]))
      <3>1. DOMAIN Picks(g[a]) = 1 .. l /\ DOMAIN g[a].choices = 1 .. l
        BY <2>2, <2>5, PicksSequence
      <3>2. ASSUME NEW x \in 1 .. l PROVE x \in DOMAIN Picks(g[n]) /\ Picks(g[a])[x] = Picks(g[n])[x]
        <4>1. x \in DOMAIN Picks(g[n])
          BY <1>4, <1>6
        <4>2. g[a].choices[x] = g[n].choices[x]
          BY <2>2, <2>5 DEF Begins
        <4> QED
          BY <1>4, <3>1, <4>1, <4>2 DEF Picks
      <3> QED
        BY <1>1, <3>1, <3>2 DEF Compatible, Agree
    <2>7. a <= m /\ \A x \in 0 .. a : h[x] = g[x]
      BY <1>1, <1>2, <2>4, <2>6, Passed
    <2>8. a < m /\ h[a] = g[a] /\ a \in 0 .. (m - 1)
      <3>1. a \in 0 .. a
        OBVIOUS
      <3>2. h[a] = g[a] /\ a # m
        BY <1>2, <2>4, <2>7, <3>1
      <3> QED
        BY <1>1, <2>7, <3>2
    <2> DEFINE count == Len(CandidatesIn(g[a]))
    <2>9. PICK j \in Offered(scenario, h[a]) : h[a + 1] = After(scenario, i, h[a], j)
      BY <1>2, <2>8 DEF History, Follows
    <2>10. PICK k \in Offered(scenario, g[a]) : g[a + 1] = After(scenario, i, g[a], k)
      BY <2>3 DEF History, Follows
    <2>11. ChosenAt(h[m], l + 1, count, j)
      <3>1. ChosenAt(h[m], Len(h[a].choices) + 1, Len(CandidatesIn(h[a])), j)
        BY <1>1, <1>2, <2>2, <2>8, <2>9, ChoiceKept
      <3> QED
        BY <2>2, <2>8, <3>1
    <2>12. ChosenAt(g[n], l + 1, count, k)
      <3>1. ChosenAt(g[n], Len(g[a].choices) + 1, Len(CandidatesIn(g[a])), k)
        BY <2>2, <2>10, ChoiceKept
      <3> QED
        BY <2>2, <3>1
    <2>13. CASE j = k
      <3>1. \A x \in 1 .. (l + 1) : x \in 1 .. l \/ x = l + 1
        OBVIOUS
      <3>2. Agree(Picks(h[m]), Picks(g[n]), l + 1)
        BY <1>1, <2>11, <2>12, <2>13, <3>1 DEF Agree, ChosenAt
      <3> QED
        BY <1>1, <3>2 DEF Near
    <2>14. CASE j # k
      <3>1. l + 1 \in DOMAIN h[m].choices /\ h[m].choices[l + 1][1] = count /\ h[m].choices[l + 1][2] = j
        BY <2>11 DEF ChosenAt
      <3>2. count \in Nat
        BY <1>2, <3>1, ChoicesOffered
      <3>3. k \in 0 .. (count - 1)
        BY <2>8, <2>9, <2>10, <2>14, <3>2 DEF Offered, Indices
      <3> DEFINE s == State(i, Instead(h[m], l + 1, k))
      <3>4. s \in queuedExecutions \/ scheduleCounts[i] >= scenario.maxSchedules
        BY <1>1, <2>14, <3>1, <3>3 DEF Spreads
      <3>5. s \in queuedExecutions
        <4>1. scenario.mode = "nondeterministic" /\ scenario.maxSchedules \in Nat
          BY ScenarioFacts DEF Replaying
        <4>2. scheduleCounts[i] < scenario.maxSchedules /\ scheduleCounts[i] \in Nat
          BY <1>2, <4>1 DEF Settled, Undisturbed, Accounted
        <4> QED
          BY <3>4, <4>1, <4>2
      <3>6. s.input = i /\ s.prefix = Instead(h[m], l + 1, k)
        BY DEF State
      <3> HIDE DEF s
      <3>7. PICK q, b, f :
              q \in runs /\ b \in Nat /\ Spreads(q, f, b) /\ q.input = i /\ Begins(s.prefix, Picks(f[b]))
        BY <3>5, <3>6, HasRun
      <3>8. /\ Len(s.prefix) = l + 1 /\ s.prefix[l + 1] = k
            /\ \A y \in 1 .. l : s.prefix[y] = h[m].choices[y][2]
        <4>1. 1 .. ((l + 1) - 1) = 1 .. l
          OBVIOUS
        <4>2. PICK z, c : z = l + 1 /\ c = h[m]
          OBVIOUS
        <4>3. IsSeq(c.choices) /\ z \in DOMAIN c.choices
          BY <1>3, <3>1, <4>2
        <4>4. /\ Len(Instead(c, z, k)) = z /\ Instead(c, z, k)[z] = k
              /\ \A y \in 1 .. (z - 1) : Instead(c, z, k)[y] = c.choices[y][2]
          BY <4>3, InsteadIs
        <4> QED
          BY <3>6, <4>1, <4>2, <4>4
      <3>9. DOMAIN Picks(f[b]) = 1 .. Len(Picks(f[b])) /\ Len(Picks(f[b])) \in Nat
        <4>1. History(scenario, q.input, f, b)
          BY <3>7 DEF Spreads, IsRun
        <4>2. IsSeq(f[b].choices)
          BY <1>1, <3>7, <4>1, HistorySequences
        <4> QED
          BY <4>2, PicksSequence
      <3>10. \A x \in 1 .. (l + 1) : x \in DOMAIN Picks(f[b]) /\ Picks(f[b])[x] = s.prefix[x]
        BY <3>7, <3>8, <3>9 DEF Begins
      <3>11. ASSUME NEW x \in 1 .. (l + 1), x \in DOMAIN Picks(g[n])
             PROVE  Picks(f[b])[x] = Picks(g[n])[x]
        <4>1. CASE x = l + 1
          BY <2>12, <3>8, <3>10, <4>1 DEF ChosenAt
        <4>2. CASE x # l + 1
          <5>1. x \in 1 .. l
            BY <4>2
          <5>2. x \in DOMAIN h[m].choices /\ Picks(h[m])[x] = Picks(g[n])[x]
            BY <1>1, <1>4, <3>11, <5>1 DEF Agree
          <5>3. Picks(h[m])[x] = h[m].choices[x][2]
            BY <5>2 DEF Picks
          <5> QED
            BY <3>8, <3>10, <5>1, <5>2, <5>3
        <4> QED
          BY <4>1, <4>2
      <3>12. Agree(Picks(f[b]), Picks(g[n]), l + 1)
        BY <3>10, <3>11 DEF Agree
      <3> QED
        BY <3>7, <3>12 DEF Near
    <2> QED
      BY <2>13, <2>14
  <1> QED
    BY <1>5, <1>6

\* When nothing of an input is pending any more, a run goes through each of its
\* executions.
LEMMA Explored ==
  ASSUME Replaying, Accounted, Executed, NEW i, Settled(i),
         NEW g, NEW n \in Nat, History(scenario, i, g, n)
  PROVE  \E r \in runs : \E m \in Nat : \E h :
            Spreads(r, h, m) /\ r.input = i /\ n <= m /\ \A x \in 0 .. n : h[x] = g[x]
  <1> DEFINE s == State(i, <<>>)
  <1>1. s \in queuedExecutions /\ s.input = i
    BY DEF Accounted, Settled, State
  <1> HIDE DEF s
  <1>2. PICK r, m, h : r \in runs /\ m \in Nat /\ Spreads(r, h, m) /\ r.input = i
    BY <1>1, HasRun
  <1>3. Near(i, g, n, 0)
    BY <1>2 DEF Near, Agree
  <1>4. CASE scenario.mode = "fifo"
    <2>1. History(scenario, i, h, m) /\ h[m].outcome # "running"
      BY <1>2 DEF Spreads, IsRun
    <2>2. n <= m /\ \A x \in 0 .. n : h[x] = g[x]
      BY <1>2, <1>4, <2>1, Passed
    <2> QED
      BY <1>2, <2>2
  <1>5. CASE scenario.mode # "fifo"
    <2> DEFINE T == {l \in Nat : Near(i, g, n, l)}
    <2>1. 0 \in T
      BY <1>3
    <2>2. ASSUME NEW l \in Nat, l \in T PROVE l + 1 \in T
      BY <1>5, <2>2, Nearer
    <2> HIDE DEF T
    <2>3. T = Nat
      <3>1. T \in SUBSET Nat
        BY DEF T
      <3> QED
        BY <2>1, <2>2, <3>1, SetInduction
    <2>4. IsSeq(g[n].choices)
      BY HistorySequences
    <2>5. DOMAIN Picks(g[n]) = 1 .. Len(g[n].choices) /\ Len(g[n].choices) \in Nat
      BY <2>4, PicksSequence
    <2>6. Near(i, g, n, Len(g[n].choices))
      BY <2>3, <2>5 DEF T
    <2>7. PICK q, b, f :
            /\ q \in runs /\ b \in Nat
            /\ Spreads(q, f, b) /\ q.input = i
            /\ Agree(Picks(f[b]), Picks(g[n]), Len(g[n].choices))
      BY <2>6 DEF Near
    <2>8. History(scenario, i, f, b) /\ f[b].outcome # "running"
      BY <2>7 DEF Spreads, IsRun
    <2>9. Compatible(Picks(f[b]), Picks(g[n]))
      BY <2>5, <2>7 DEF Agree, Compatible
    <2>10. n <= b /\ \A x \in 0 .. n : f[x] = g[x]
      BY <1>2, <2>7, <2>8, <2>9, Passed
    <2> QED
      BY <2>7, <2>10
  <1> QED
    BY <1>4, <1>5

--------------------------------------------------------------------------------
(* Targets. *)

LEMMA SameSequence ==
  ASSUME NEW s, NEW t, IsSeq(s), IsSeq(t), Len(s) = Len(t), \A x \in 1 .. Len(s) : s[x] = t[x]
  PROVE  s = t
  <1>1. PICK S : s \in Seq(S)
    BY DEF IsSeq
  <1>2. PICK T : t \in Seq(T)
    BY DEF IsSeq
  <1>3. /\ s = [x \in 1 .. Len(s) |-> s[x]] /\ t = [x \in 1 .. Len(t) |-> t[x]]
    BY <1>1, <1>2
  <1> QED
    BY <1>3

LEMMA Cut ==
  ASSUME NEW s, IsSeq(s), NEW l \in 0 .. Len(s)
  PROVE  /\ IsSeq(SubSeq(s, 1, l)) /\ Len(SubSeq(s, 1, l)) = l /\ DOMAIN SubSeq(s, 1, l) = 1 .. l
         /\ \A x \in 1 .. l : SubSeq(s, 1, l)[x] = s[x]
  <1>1. PICK S : s \in Seq(S)
    BY DEF IsSeq
  <1>2. Len(s) \in Nat /\ l \in Nat /\ l <= Len(s)
    BY <1>1
  <1>3. SubSeq(s, 1, l) \in Seq(S) /\ Len(SubSeq(s, 1, l)) = l
        /\ \A x \in 1 .. l : SubSeq(s, 1, l)[x] = s[x]
    BY <1>1, <1>2
  <1> QED
    BY <1>2, <1>3 DEF IsSeq

\* The branches of p up to x, the last with the other outcome.
OtherSide(p, x) == Append(SubSeq(p, 1, x - 1), <<p[x][1], ~p[x][2]>>)

LEMMA OtherSideIs ==
  ASSUME NEW p, IsSeq(p), NEW x \in 1 .. Len(p)
  PROVE  /\ IsSeq(OtherSide(p, x)) /\ Len(OtherSide(p, x)) = x /\ DOMAIN OtherSide(p, x) = 1 .. x
         /\ OtherSide(p, x)[x] = <<p[x][1], ~p[x][2]>>
         /\ \A y \in 1 .. (x - 1) : OtherSide(p, x)[y] = p[y]
  <1> DEFINE a == SubSeq(p, 1, x - 1)
             e == <<p[x][1], ~p[x][2]>>
  <1>1. x - 1 \in 0 .. Len(p) /\ x \in Nat
    <2>1. Len(p) \in Nat
      BY AppendBegins
    <2> QED
      BY <2>1
  <1>2. IsSeq(a) /\ Len(a) = x - 1 /\ \A y \in 1 .. (x - 1) : a[y] = p[y]
    BY <1>1, Cut
  <1> HIDE DEF a, e
  <1>3. /\ Len(Append(a, e)) = x /\ Append(a, e)[x] = e /\ IsSeq(Append(a, e))
        /\ \A y \in 1 .. (x - 1) : Append(a, e)[y] = a[y]
    BY <1>1, <1>2, AppendBegins DEF Begins
  <1>4. DOMAIN Append(a, e) = 1 .. x
    BY <1>3, AppendBegins
  <1> QED
    BY <1>2, <1>3, <1>4 DEF OtherSide, a, e

\* The answers to exact constraints are the inputs that meet them.
LEMMA AnswersTake ==
  ASSUME scenario \in Scenarios, ExactIn(scenario), NEW t, PlainPath(scenario, t), NEW i
  PROVE  i \in Answers(Range(t)) <=> i \in Inputs /\ Takes(scenario, i, t)
  <1>1. ASSUME NEW a \in Assignments
        PROVE  /\ scenario.value[a] \in Inputs
               /\ a \in Models(Range(t)) <=> Takes(scenario, scenario.value[a], t)
    <2>1. \A x \in DOMAIN t :
            a \in scenario.holds[t[x][1]] <=> scenario.value[a] \in Told(scenario, t[x][1])
      BY DEF PlainPath, Plain
    <2>2. a \in Models(Range(t)) <=> \A x \in DOMAIN t : (a \in scenario.holds[t[x][1]]) = t[x][2]
      BY DEF Models, Range
    <2>3. scenario.value[a] \in Inputs
      BY ScenariosAssumption
    <2> QED
      BY <2>1, <2>2, <2>3 DEF Takes
  <1>2. i \in Answers(Range(t)) <=> \E a \in Models(Range(t)) : scenario.value[a] = i
    BY DEF Answers
  <1>3. Models(Range(t)) \subseteq Assignments
    BY DEF Models
  <1>4. i \in Inputs => \E a \in Assignments : scenario.value[a] = i
    BY DEF ExactIn
  <1> QED
    BY <1>1, <1>2, <1>3, <1>4

\* The solver's answer to the constraints is known.
Answerable(constraints) ==
    \/ \E i \in queuedInputs : i \in Answers(constraints)
    \/ Models(constraints) = {}
    \/ constraints \in unknowns

Known == edges \cup reserved \cup exhausted

\* Some execution gets to the branch of t.
RealTarget(t) ==
    \E n \in Nat : \E i \in Inputs : \E h, yes :
        /\ History(scenario, i, h, n) /\ h[n].outcome = "running"
        /\ Asks(scenario, h[n]) /\ Recording(scenario, i, h[n])
        /\ t = Append(h[n].path, <<NotedIn(scenario, i, h[n]), yes>>)

\* The branch number x of the run r is negated later.
Unasked(r, x) == r = Record /\ (phase = "contract" \/ (phase = "flipping" /\ x >= index))

Looping ==
    /\ phase \in {"ended", "auditing"} \/ stop = "none"
    /\ stop = "exhausted" => queue.pending = <<>> /\ ~queue.truncated /\ phase \in {"ended", "auditing"}
    /\ phase = "auditing" => stop = "exhausted"
    /\ index \in Nat
    /\ phase = "contract" => index = 1
    /\ phase = "flipping" => index >= 1

Targets ==
    /\ \A t \in Known : Answerable(Range(t))
    /\ \A t \in reserved : /\ t \notin edges /\ RealTarget(t)
                           /\ \E i \in queuedInputs : i \in Answers(Range(t))
    /\ \A r \in runs : \A x \in DOMAIN r.path : SubSeq(r.path, 1, x) \in edges
    /\ \A r \in runs : r.outcome \notin Timeouts /\ stop \in {"none", "exhausted"} =>
         \A x \in DOMAIN r.path : OtherSide(r.path, x) \in Known \/ Unasked(r, x)

LEMMA LoopingStarts ==
  Init => Looping
  BY DEF Init, Looping

LEMMA LoopingStays ==
  Looping /\ [Next]_vars => Looping'
  <1> SUFFICES ASSUME Looping, [Next]_vars PROVE Looping'
    OBVIOUS
  <1>1. CASE Pop
    BY <1>1 DEF Pop, Looping
  <1>2. CASE Stop
    BY <1>2 DEF Stop, StopWith, Looping
  <1>3. CASE Observe
    BY <1>3 DEF Observe, StopWith, Looping
  <1>4. CASE OutOfBudget
    BY <1>4 DEF OutOfBudget, StopWith, Looping, Question
  <1>5. CASE CheckContract
    BY <1>5 DEF CheckContract, Looping
  <1>6. CASE Flip
    BY <1>6 DEF Flip, Looping
  <1>7. CASE Iterate
    BY <1>7 DEF Iterate, StopWith, Looping
  <1>8. CASE Audit
    BY <1>8 DEF Audit, Looping
  <1>9. CASE Step
    BY <1>9 DEF Step, searchVars, Looping
  <1>10. CASE UNCHANGED vars
    BY <1>10 DEF vars, searchVars, Looping
  <1> QED
    BY <1>1, <1>2, <1>3, <1>4, <1>5, <1>6, <1>7, <1>8, <1>9, <1>10 DEF Next, Explore

LEMMA AnswerableKept ==
  ASSUME NEW c, Answerable(c), UNCHANGED scenario, queuedInputs \subseteq queuedInputs',
         unknowns \subseteq unknowns'
  PROVE  Answerable(c)'
  BY DEF Answerable, Answers, Models

LEMMA QuestionAnswered ==
  ASSUME NEW STATE q, UNCHANGED scenario,
         \/ Unknown(q) \/ Unsatisfiable(q)
         \/ \E i \in Inputs : Solved(q, i) /\ i \in queuedInputs'
  PROVE  \E c : c = q /\ Answerable(c)'
  <1>1. PICK c : c = q
    OBVIOUS
  <1>2. Models(c)' = Models(c) /\ Answers(c)' = Answers(c)
    BY DEF Answers, Models
  <1> QED
    BY <1>1, <1>2 DEF Unknown, Unsatisfiable, Solved, Answerable

LEMMA Asking ==
  ASSUME CheckContract \/ Flip
  PROVE  unknowns \subseteq unknowns' /\ UNCHANGED <<scenario, runVars, edges, runs, stop>>
  BY DEF CheckContract, Flip, Unknown, Unsatisfiable, Solved

\* The target of a flip is real.
LEMMA TargetReal ==
  ASSUME Replaying, Accounted, Looping, phase = "flipping", index <= Len(path)
  PROVE  RealTarget(Target) /\ Target = OtherSide(path, index) /\ index \in DOMAIN path
  <1>1. PICK n, h : n \in Nat /\ IsAt(h, n)
    BY DEF Accounted, Present
  <1>2. History(scenario, input, h, n) /\ path = h[n].path
    BY <1>1 DEF IsAt
  <1>3. IsSeq(path) /\ DOMAIN path = 1 .. Len(path) /\ Len(path) \in Nat
    <2>1. IsSeq(path)
      BY <1>1, <1>2, HistorySequences
    <2> QED
      BY <2>1, AppendBegins
  <1>4. index \in DOMAIN path /\ index \in Nat
    BY <1>3 DEF Looping
  <1>5. PICK l \in Nat : TakenAt(scenario, input, h, n, index, l)
    BY <1>1, <1>2, <1>4, BranchTaken
  <1>6. /\ l < n /\ Recording(scenario, input, h[l]) /\ Len(h[l].path) = index - 1
        /\ path[index][1] = NotedIn(scenario, input, h[l])
    BY <1>2, <1>5 DEF TakenAt, BranchOf
  <1>7. l \in 0 .. (n - 1) /\ l \in 0 .. n /\ n \in 0 .. n /\ l <= n
    BY <1>1, <1>6
  <1>8. History(scenario, input, h, l) /\ h[l].outcome = "running" /\ Asks(scenario, h[l])
    BY <1>2, <1>7 DEF History, Follows
  <1>9. SubSeq(path, 1, index - 1) = h[l].path
    <2>1. IsSeq(h[l].path) /\ Begins(h[l].path, h[n].path)
      BY <1>2, <1>7, HistorySequences, HistoryGrows
    <2>2. index - 1 \in 0 .. Len(path)
      BY <1>3, <1>4
    <2>3. PICK s : s = SubSeq(path, 1, index - 1)
      OBVIOUS
    <2>4. IsSeq(s) /\ Len(s) = index - 1 /\ \A x \in 1 .. (index - 1) : s[x] = path[x]
      BY <1>3, <2>2, <2>3, Cut
    <2>5. s = h[l].path
      BY <1>2, <1>6, <2>1, <2>4, SameSequence DEF Begins
    <2> QED
      BY <2>3, <2>5
  <1>10. \E yes : Flipped = <<NotedIn(scenario, input, h[l]), yes>>
    BY <1>6 DEF Flipped
  <1>11. input \in Inputs
    BY DEF Replaying
  <1>12. RealTarget(Target)
    BY <1>6, <1>8, <1>9, <1>10, <1>11 DEF RealTarget, Target
  <1> QED
    BY <1>4, <1>12 DEF Target, Flipped, OtherSide

LEMMA FlipAnswered ==
  ASSUME Replaying, Accounted, Flip
  PROVE  \/ KnownTarget /\ UNCHANGED <<reserved, exhausted>>
         \/ /\ ~KnownTarget
            /\ \E c : c = Range(Target) /\ Answerable(c)'
            /\ reserved \subseteq reserved' /\ exhausted \subseteq exhausted'
            /\ Target \in reserved' \cup exhausted'
            /\ reserved' \subseteq reserved \cup {Target}
            /\ exhausted' \subseteq exhausted \cup {Target}
            /\ Target \in reserved' \ reserved =>
                 \E i \in queuedInputs' : i \in Answers(Range(Target))
  <1>1. CASE KnownTarget
    BY <1>1 DEF Flip
  <1>2. CASE ~KnownTarget
    <2>1. Question = Range(Target) /\ UNCHANGED scenario
      BY <1>2 DEF Flip, Question
    <2>2. CASE /\ Unknown(Question) \/ Unsatisfiable(Question)
               /\ Unanswered
      <3>1. \E c : c = Range(Target) /\ Answerable(c)'
        BY <2>1, <2>2, QuestionAnswered
      <3> QED
        BY <1>2, <2>2, <3>1 DEF Unanswered
    <2>3. CASE \E i \in Inputs : Solved(Question, i) /\ Answered(i)
      <3>1. PICK i \in Inputs : Solved(Question, i) /\ Answered(i)
        BY <2>3
      <3>2. i \in queuedInputs' /\ i \in Answers(Range(Target))
        <4>1. CASE i \in queuedInputs
          BY <2>1, <3>1, <4>1 DEF Answered, QueueNothing, Solved
        <4>2. CASE i \notin queuedInputs
          BY <2>1, <3>1, <4>2, InputEnlarges DEF Answered, Solved
        <4> QED
          BY <4>1, <4>2
      <3>3. \E c : c = Range(Target) /\ Answerable(c)'
        BY <2>1, <3>1, <3>2, QuestionAnswered
      <3>4. \/ exhausted' = exhausted \cup {Target} /\ UNCHANGED reserved
            \/ reserved' = reserved \cup {Target} /\ UNCHANGED exhausted
        BY <3>1 DEF Answered
      <3> QED
        BY <1>2, <3>2, <3>3, <3>4
    <2>4. \/ /\ Unknown(Question) \/ Unsatisfiable(Question)
             /\ Unanswered
          \/ \E i \in Inputs : Solved(Question, i) /\ Answered(i)
      BY <1>2 DEF Flip
    <2> QED
      BY <2>2, <2>3, <2>4
  <1> QED
    BY <1>1, <1>2

\* A target that is observed was one that its input reaches.
LEMMA PathEdges ==
  ASSUME Exact, Replaying, Accounted, Observe
  PROVE  /\ IsSeq(path) /\ DOMAIN path = 1 .. Len(path) /\ Len(path) \in Nat
         /\ \A t \in Prefixes(path) : input \in Answers(Range(t))
         /\ \A x \in DOMAIN path : SubSeq(path, 1, x) \in edges'
  <1>1. PICK n, h : n \in Nat /\ IsAt(h, n)
    BY DEF Observe, Accounted, Present
  <1>2. History(scenario, input, h, n) /\ path = h[n].path
    BY <1>1 DEF IsAt
  <1>3. IsSeq(path) /\ DOMAIN path = 1 .. Len(path) /\ Len(path) \in Nat
    <2>1. IsSeq(path)
      BY <1>1, <1>2, HistorySequences
    <2> QED
      BY <2>1, AppendBegins
  <1>4. /\ ExactIn(scenario) /\ scenario \in Scenarios /\ input \in Inputs
        /\ Takes(scenario, input, path) /\ PlainPath(scenario, path)
    BY <1>1, <1>2, ExactIs, OwnPath DEF Replaying
  <1>5. ASSUME NEW t \in Prefixes(path) PROVE input \in Answers(Range(t))
    <2>1. PICK l \in 0 .. Len(path) : t = SubSeq(path, 1, l)
      BY DEF Prefixes
    <2>2. DOMAIN t = 1 .. l /\ \A x \in 1 .. l : t[x] = path[x]
      <3>1. /\ DOMAIN SubSeq(path, 1, l) = 1 .. l
            /\ \A x \in 1 .. l : SubSeq(path, 1, l)[x] = path[x]
        BY <1>3, Cut
      <3> QED
        BY <2>1, <3>1
    <2>3. \A x \in 1 .. l : x \in DOMAIN path
      BY <1>3
    <2>4. Takes(scenario, input, t) /\ PlainPath(scenario, t)
      BY <1>4, <2>2, <2>3 DEF Takes, PlainPath
    <2> QED
      BY <1>4, <2>4, AnswersTake
  <1>6. ASSUME NEW x \in DOMAIN path PROVE SubSeq(path, 1, x) \in edges'
    <2>1. x \in 0 .. Len(path) /\ x # 0
      BY <1>3
    <2>2. SubSeq(path, 1, x) \in Prefixes(path)
      BY <2>1 DEF Prefixes
    <2>3. SubSeq(path, 1, x) # <<>>
      <3>1. Len(SubSeq(path, 1, x)) = x
        BY <1>3, <2>1, Cut
      <3> QED
        BY <2>1, <3>1
    <2> QED
      BY <2>2, <2>3 DEF Observe
  <1> QED
    BY <1>3, <1>5, <1>6

\* t is a target of the branch of h[n], for the input i.
RealAs(t, n, i, h, yes) ==
    /\ n \in Nat /\ i \in Inputs
    /\ History(scenario, i, h, n) /\ h[n].outcome = "running"
    /\ Asks(scenario, h[n]) /\ Recording(scenario, i, h[n])
    /\ IsSeq(t) /\ Len(h[n].path) \in Nat /\ Len(t) = Len(h[n].path) + 1
    /\ DOMAIN h[n].path = 1 .. Len(h[n].path) /\ DOMAIN t = 1 .. (Len(h[n].path) + 1)
    /\ t[Len(h[n].path) + 1] = <<NotedIn(scenario, i, h[n]), yes>>
    /\ \A x \in 1 .. Len(h[n].path) : t[x] = h[n].path[x]

LEMMA RealParts ==
  ASSUME NEW t, RealTarget(t)
  PROVE  \E n, i, h, yes : RealAs(t, n, i, h, yes)
  <1>1. PICK n, i, h, yes :
          /\ n \in Nat /\ i \in Inputs
          /\ History(scenario, i, h, n) /\ h[n].outcome = "running"
          /\ Asks(scenario, h[n]) /\ Recording(scenario, i, h[n])
          /\ t = Append(h[n].path, <<NotedIn(scenario, i, h[n]), yes>>)
    BY DEF RealTarget
  <1>2. IsSeq(h[n].path)
    BY <1>1, HistorySequences
  <1> DEFINE s == h[n].path
             e == <<NotedIn(scenario, i, h[n]), yes>>
  <1>3. t = Append(s, e) /\ IsSeq(s)
    BY <1>1, <1>2
  <1> HIDE DEF s, e
  <1>4. /\ IsSeq(t) /\ Len(t) = Len(s) + 1 /\ Len(s) \in Nat /\ DOMAIN s = 1 .. Len(s)
        /\ DOMAIN t = 1 .. (Len(s) + 1) /\ t[Len(s) + 1] = e /\ \A x \in 1 .. Len(s) : t[x] = s[x]
    BY <1>3, AppendBegins, AppendEntries
  <1>5. RealAs(t, n, i, h, yes)
    BY <1>1, <1>4 DEF s, e, RealAs
  <1> QED
    BY <1>5

LEMMA RealNotEmpty ==
  ASSUME NEW t, RealTarget(t)
  PROVE  t # <<>>
  <1>1. PICK l \in Nat : Len(t) = l + 1
    BY RealParts DEF RealAs
  <1> QED
    BY <1>1

LEMMA RealKept ==
  ASSUME NEW t, RealTarget(t), UNCHANGED scenario
  PROVE  RealTarget(t)'
  BY DEF RealTarget

LEMMA TargetsStart ==
  Init => Targets
  BY DEF Init, Targets, Known

LEMMA PathSequence ==
  ASSUME Accounted, phase \notin {"choosing", "ended"}
  PROVE  IsSeq(path) /\ DOMAIN path = 1 .. Len(path) /\ Len(path) \in Nat
  <1>1. PICK n, h : n \in Nat /\ IsAt(h, n)
    BY DEF Accounted, Present
  <1>2. IsSeq(path)
    BY <1>1, HistorySequences DEF IsAt
  <1> QED
    BY <1>2, AppendBegins

\* Steps that add no target.
LEMMA QuietTargets ==
  ASSUME Targets, UNCHANGED <<scenario, edges, reserved, exhausted, runs, unknowns, queuedInputs>>,
         \A r \in runs : \A x \in DOMAIN r.path :
            Unasked(r, x) /\ stop' \in {"none", "exhausted"} => Unasked(r, x)',
         stop' \in {"none", "exhausted"} => stop \in {"none", "exhausted"}
  PROVE  Targets'
  <1>1. ASSUME NEW t \in Known' PROVE Answerable(Range(t))'
    <2>1. Answerable(Range(t))
      BY DEF Targets, Known
    <2>2. PICK c : c = Range(t)
      OBVIOUS
    <2> QED
      BY <2>1, <2>2, AnswerableKept
  <1>2. ASSUME NEW t \in reserved'
        PROVE  t \notin edges' /\ RealTarget(t)' /\ \E i \in queuedInputs' : i \in Answers(Range(t))'
    BY RealKept DEF Targets, Answers, Models
  <1>3. \A r \in runs' : r.outcome \notin Timeouts /\ stop' \in {"none", "exhausted"} =>
          \A x \in DOMAIN r.path : OtherSide(r.path, x) \in Known' \/ Unasked(r, x)'
    BY DEF Targets, Known
  <1> QED
    BY <1>1, <1>2, <1>3 DEF Targets

LEMMA RestTargets ==
  ASSUME Accounted, Looping, Targets, Pop \/ Stop \/ OutOfBudget \/ Iterate \/ Audit \/ UNCHANGED vars
           \/ (phase \in {"running", "auditing"} /\ Step)
  PROVE  Targets'
  <1>1. UNCHANGED <<edges, reserved, exhausted, runs, unknowns, queuedInputs>>
    BY DEF Pop, Stop, OutOfBudget, Iterate, Audit, Step, vars, searchVars
  <1>2. scenario' = scenario
    BY DEF Pop, Stop, OutOfBudget, Iterate, Audit, Step, vars,
           Execute, Resume, Deadlock, End, Expire, Turn, CancelUnstarted, Sleep, AwaitMore,
           AwaitResult, Create, Cancel, Branch, Write, Return, Raise
  <1>3. stop' \in {"none", "exhausted"} => stop \in {"none", "exhausted"}
    BY DEF Looping, Pop, Stop, StopWith, OutOfBudget, Iterate, Audit, Step, vars, searchVars
  <1>4. ASSUME NEW r \in runs, NEW x \in DOMAIN r.path, Unasked(r, x), stop' \in {"none", "exhausted"}
        PROVE  Unasked(r, x)'
    <2>1. phase \in {"contract", "flipping"} /\ r = Record
      BY <1>4 DEF Unasked
    <2>2. CASE Pop \/ Stop \/ Audit \/ (phase \in {"running", "auditing"} /\ Step)
      BY <2>1, <2>2 DEF Pop, Stop, Audit
    <2>3. CASE OutOfBudget
      BY <1>4, <2>3 DEF OutOfBudget, StopWith
    <2>4. CASE Iterate
      <3>1. r.path = path /\ phase = "flipping" /\ x >= index /\ index > Len(path)
        BY <1>4, <2>1, <2>4 DEF Iterate, Unasked, Record
      <3>2. DOMAIN path = 1 .. Len(path) /\ Len(path) \in Nat /\ index \in Nat
        BY <3>1, PathSequence DEF Looping
      <3> QED
        BY <1>4, <3>1, <3>2
    <2>5. CASE UNCHANGED vars
      BY <1>4, <2>5 DEF Unasked, Record, Schedule, vars, runVars, searchVars
    <2> QED
      BY <2>2, <2>3, <2>4, <2>5
  <1> QED
    BY <1>1, <1>2, <1>3, <1>4, QuietTargets

LEMMA ObserveTargets ==
  ASSUME Exact, Replaying, Accounted, Looping, Targets, Observe
  PROVE  Targets'
  <1>1. /\ UNCHANGED <<scenario, runVars, exhausted, unknowns, queuedInputs>> /\ ~unguided /\ phase = "running"
        /\ edges' = edges \cup (Prefixes(path) \ {<<>>}) /\ reserved' = reserved \ Prefixes(path)
        /\ runs' \subseteq runs \cup {Record} /\ stop \in {"none", "exhausted"}
    BY DEF Observe, Accounted, Looping, Recorded
  <1>2. Record' = Record /\ input \in queuedInputs
    BY <1>1 DEF Record, Schedule, runVars, Accounted
  <1>3. ASSUME NEW c, Answerable(c) PROVE Answerable(c)'
    BY <1>1, <1>3, AnswerableKept
  <1>4. ASSUME NEW t \in Known' PROVE Answerable(Range(t))'
    <2>1. PICK c : c = Range(t)
      OBVIOUS
    <2>2. CASE t \in Known
      <3>1. Answerable(c)
        BY <2>1, <2>2 DEF Targets
      <3> QED
        BY <1>3, <2>1, <3>1
    <2>3. CASE t \notin Known
      <3>1. t \in Prefixes(path)
        BY <1>1, <1>4, <2>3 DEF Known
      <3>2. Answerable(c)
        BY <1>2, <2>1, <3>1, PathEdges DEF Answerable
      <3> QED
        BY <1>3, <2>1, <3>2
    <2> QED
      BY <2>2, <2>3
  <1>5. ASSUME NEW t \in reserved'
        PROVE  t \notin edges' /\ RealTarget(t)' /\ \E i \in queuedInputs' : i \in Answers(Range(t))'
    <2>1. t \in reserved /\ t \notin Prefixes(path)
      BY <1>1
    <2>2. RealTarget(t)'
      BY <1>1, <2>1, RealKept DEF Targets
    <2> QED
      BY <1>1, <2>1, <2>2 DEF Targets, Answers, Models
  <1>6. ASSUME NEW r \in runs', NEW x \in DOMAIN r.path PROVE SubSeq(r.path, 1, x) \in edges'
    <2>1. CASE r \in runs
      BY <1>1, <2>1 DEF Targets
    <2>2. CASE r = Record
      <3>1. r.path = path
        BY <2>2 DEF Record
      <3> QED
        BY <3>1, PathEdges
    <2> QED
      BY <1>1, <2>1, <2>2
  <1>7. Known \subseteq Known'
    <2>1. ASSUME NEW t \in reserved PROVE t \in Known'
      <3>1. t # <<>>
        BY RealNotEmpty DEF Targets
      <3> QED
        BY <1>1, <3>1 DEF Known
    <2> QED
      BY <1>1, <2>1 DEF Known
  <1>8. ASSUME NEW r \in runs', r.outcome \notin Timeouts, stop' \in {"none", "exhausted"},
               NEW x \in DOMAIN r.path
        PROVE  OtherSide(r.path, x) \in Known' \/ Unasked(r, x)'
    <2>1. CASE r \in runs
      <3>1. ~Unasked(r, x)
        BY <1>1 DEF Unasked
      <3>2. OtherSide(r.path, x) \in Known
        BY <1>1, <1>8, <2>1, <3>1 DEF Targets
      <3> QED
        BY <1>7, <3>2
    <2>2. CASE r = Record
      <3>1. phase' = "contract"
        <4>1. outcome # "total_timeout"
          BY <1>8, <2>2 DEF Record, Timeouts
        <4> QED
          BY <4>1 DEF Observe
      <3> QED
        BY <1>2, <2>2, <3>1 DEF Unasked
    <2> QED
      BY <1>1, <2>1, <2>2
  <1> QED
    BY <1>4, <1>5, <1>6, <1>8 DEF Targets

LEMMA CheckTargets ==
  ASSUME Replaying, Accounted, Looping, Targets, CheckContract
  PROVE  Targets'
  <1>1. /\ UNCHANGED <<scenario, runVars, edges, reserved, exhausted, runs, stop>>
        /\ queuedInputs \subseteq queuedInputs' /\ unknowns \subseteq unknowns'
        /\ phase = "contract" /\ phase' = "flipping" /\ index = 1 /\ index' = index
    BY Asking, QuestionEnlarges DEF CheckContract, Enlarges, Looping
  <1>2. Record' = Record /\ Known' = Known
    BY <1>1 DEF Record, Schedule, runVars, Known
  <1>3. ASSUME NEW t \in Known' PROVE Answerable(Range(t))'
    <2>1. PICK c : c = Range(t)
      OBVIOUS
    <2>2. Answerable(c)
      BY <1>2, <2>1 DEF Targets
    <2> QED
      BY <1>1, <2>1, <2>2, AnswerableKept
  <1>4. ASSUME NEW t \in reserved'
        PROVE  t \notin edges' /\ RealTarget(t)' /\ \E i \in queuedInputs' : i \in Answers(Range(t))'
    <2>1. RealTarget(t)'
      BY <1>1, RealKept DEF Targets
    <2> QED
      BY <1>1, <2>1 DEF Targets, Answers, Models
  <1>5. ASSUME NEW r \in runs', r.outcome \notin Timeouts, stop' \in {"none", "exhausted"},
               NEW x \in DOMAIN r.path
        PROVE  OtherSide(r.path, x) \in Known' \/ Unasked(r, x)'
    <2>1. OtherSide(r.path, x) \in Known \/ Unasked(r, x)
      BY <1>1, <1>5 DEF Targets
    <2>2. CASE Unasked(r, x)
      <3>1. r = Record /\ r.path = path
        BY <2>2 DEF Unasked, Record
      <3>2. x >= 1
        BY <1>1, <1>5, <3>1, PathSequence
      <3> QED
        BY <1>1, <1>2, <3>1, <3>2 DEF Unasked
    <2> QED
      BY <1>2, <2>1, <2>2
  <1> QED
    BY <1>1, <1>3, <1>4, <1>5 DEF Targets

LEMMA FlipTargets ==
  ASSUME Replaying, Accounted, Looping, Targets, Flip
  PROVE  Targets'
  <1>1. /\ UNCHANGED <<scenario, runVars, edges, runs, stop, phase>>
        /\ queuedInputs \subseteq queuedInputs' /\ unknowns \subseteq unknowns'
        /\ phase = "flipping" /\ index <= Len(path) /\ index' = index + 1
    BY Asking, QuestionEnlarges DEF Flip, Enlarges
  <1>2. Record' = Record
    BY <1>1 DEF Record, Schedule, runVars
  <1>3. RealTarget(Target) /\ Target = OtherSide(path, index) /\ index \in DOMAIN path
    BY <1>1, TargetReal
  <1>4. Known \subseteq Known' /\ Target \in Known' /\ Known' \subseteq Known \cup {Target}
    BY <1>1, FlipAnswered DEF Known, KnownTarget
  <1>5. ASSUME NEW t \in Known' PROVE Answerable(Range(t))'
    <2>1. PICK c : c = Range(t)
      OBVIOUS
    <2>2. CASE t \in Known
      <3>1. Answerable(c)
        BY <2>1, <2>2 DEF Targets
      <3> QED
        BY <1>1, <2>1, <3>1, AnswerableKept
    <2>3. CASE t \notin Known
      <3>1. t = Target /\ ~KnownTarget
        BY <1>4, <1>5, <2>3 DEF Known, KnownTarget
      <3>2. \E d : d = Range(Target) /\ Answerable(d)'
        BY <3>1, FlipAnswered
      <3> QED
        BY <3>1, <3>2
    <2> QED
      BY <2>2, <2>3
  <1>6. ASSUME NEW t \in reserved'
        PROVE  t \notin edges' /\ RealTarget(t)' /\ \E i \in queuedInputs' : i \in Answers(Range(t))'
    <2>1. CASE t \in reserved
      <3>1. RealTarget(t)'
        BY <1>1, <2>1, RealKept DEF Targets
      <3> QED
        BY <1>1, <2>1, <3>1 DEF Targets, Answers, Models
    <2>2. CASE t \notin reserved
      <3>1. t = Target /\ ~KnownTarget /\ t \in reserved' \ reserved
        BY <1>6, <2>2, FlipAnswered
      <3>2. \E i \in queuedInputs' : i \in Answers(Range(t))
        BY <3>1, FlipAnswered
      <3>3. t \notin edges /\ RealTarget(t)
        BY <1>3, <3>1 DEF KnownTarget
      <3>4. RealTarget(t)'
        BY <1>1, <3>3, RealKept
      <3> QED
        BY <1>1, <3>2, <3>3, <3>4 DEF Answers, Models
    <2> QED
      BY <2>1, <2>2
  <1>7. ASSUME NEW r \in runs', r.outcome \notin Timeouts, stop' \in {"none", "exhausted"},
               NEW x \in DOMAIN r.path
        PROVE  OtherSide(r.path, x) \in Known' \/ Unasked(r, x)'
    <2>1. OtherSide(r.path, x) \in Known \/ Unasked(r, x)
      BY <1>1, <1>7 DEF Targets
    <2>2. CASE Unasked(r, x)
      <3>1. r = Record /\ r.path = path /\ x >= index
        BY <1>1, <2>2 DEF Unasked, Record
      <3>2. x \in Nat /\ index \in Nat
        BY <1>1, <1>7, <3>1, PathSequence DEF Looping
      <3>3. CASE x = index
        BY <1>3, <1>4, <3>1, <3>3
      <3>4. CASE x # index
        <4>1. x >= index + 1
          BY <3>1, <3>2, <3>4
        <4> QED
          BY <1>1, <1>2, <3>1, <4>1 DEF Unasked
      <3> QED
        BY <3>3, <3>4
    <2> QED
      BY <1>4, <2>1, <2>2
  <1> QED
    BY <1>1, <1>5, <1>6, <1>7 DEF Targets

LEMMA ScenarioKept ==
  [Next]_vars => scenario' = scenario
  BY DEF Next, Explore, Pop, Stop, Observe, OutOfBudget, CheckContract, Flip, Iterate, Audit, Step,
         Execute, Resume, Deadlock, End, Expire, Turn, CancelUnstarted, Sleep, AwaitMore,
         AwaitResult, Create, Cancel, Branch, Write, Return, Raise, vars

LEMMA TargetsStay ==
  Replaying /\ Accounted /\ Looping /\ (Exact => Targets) /\ [Next]_vars => (Exact => Targets)'
  <1> SUFFICES ASSUME Replaying, Accounted, Looping, Exact => Targets, [Next]_vars, Exact'
               PROVE  Targets'
    OBVIOUS
  <1>1. Exact /\ Targets
    BY ScenarioKept DEF Exact
  <1>2. \/ Observe \/ CheckContract \/ Flip
        \/ Pop \/ Stop \/ OutOfBudget \/ Iterate \/ Audit \/ UNCHANGED vars
        \/ (phase \in {"running", "auditing"} /\ Step)
    BY DEF Next, Explore
  <1> QED
    BY <1>1, <1>2, ObserveTargets, CheckTargets, FlipTargets, RestTargets

--------------------------------------------------------------------------------
(* Every input's executions are among the runs. *)

\* The exploration is over, and nothing was left out.
Finished ==
    /\ stop = "exhausted" /\ phase # "running"
    /\ unknowns = {} /\ Undisturbed

LEMMA AllSettled ==
  ASSUME Looping, Finished, NEW j, j \in queuedInputs
  PROVE  Settled(j)
  BY DEF Looping, Finished, Settled

\* j takes the first l branches of p.
TakesTo(sc, j, p, l) == \A x \in 1 .. l : x \in DOMAIN p => p[x][2] = (j \in Told(sc, p[x][1]))

Reaches(p, l) == \E j \in queuedInputs : TakesTo(scenario, j, p, l)

LEMMA ReachesMore ==
  ASSUME ExactIn(scenario), Replaying, Accounted, Executed, Looping, Targets, Finished,
         NEW i, i \in Inputs, NEW g, NEW n \in Nat, History(scenario, i, g, n),
         NEW l \in Nat, Reaches(g[n].path, l)
  PROVE  Reaches(g[n].path, l + 1)
  <1> DEFINE p == g[n].path
  <1>1. PICK j : j \in queuedInputs /\ TakesTo(scenario, j, p, l)
    BY DEF Reaches
  <1>0. scenario \in Scenarios /\ j \in Inputs
    BY <1>1 DEF Replaying, Accounted
  <1>2. DOMAIN p = 1 .. Len(p) /\ Len(p) \in Nat /\ n \in 0 .. n
    <2>1. IsSeq(p)
      BY HistorySequences
    <2> HIDE DEF p
    <2> QED
      BY <2>1, AppendBegins
  <1>3. \A x \in 1 .. (l + 1) : x \in 1 .. l \/ x = l + 1
    OBVIOUS
  <1>4. CASE l + 1 \notin DOMAIN p
    BY <1>1, <1>3, <1>4 DEF Reaches, TakesTo
  <1>5. CASE l + 1 \in DOMAIN p
    <2>1. PICK a \in Nat : TakenAt(scenario, i, g, n, l + 1, a)
      BY <1>5, BranchTaken
    <2>0. /\ a < n /\ Branching(scenario, g[a]) /\ Len(g[a].path) = l
          /\ p[l + 1] = BranchOf(scenario, i, g[a])
      BY <2>1 DEF TakenAt, Recording
    <2>a. PICK e : \A v \in Inputs : /\ Recording(scenario, v, g[a])
                                    /\ BranchOf(scenario, v, g[a]) = <<e, v \in Told(scenario, e)>>
      BY <2>0, HistoryAsks, BranchTold
    <2>2. /\ a < n /\ Len(g[a].path) = l /\ p[l + 1] = <<e, i \in Told(scenario, e)>>
      BY <2>0, <2>a
    <2>3. a \in 0 .. (n - 1) /\ a \in 0 .. n /\ a <= n
      BY <2>2
    <2>4. History(scenario, i, g, a) /\ g[a].outcome = "running"
      BY <2>3 DEF History, Follows
    <2>5. IsSeq(g[a].path) /\ Begins(g[a].path, p) /\ DOMAIN g[a].path = 1 .. l
      BY <1>2, <2>2, <2>3, HistorySequences, HistoryGrows, AppendBegins
    <2>6. \A x \in 1 .. l : x \in DOMAIN p /\ g[a].path[x] = p[x]
      BY <1>2, <1>5, <2>2, <2>5 DEF Begins
    <2>7. Takes(scenario, j, g[a].path)
      BY <1>1, <2>5, <2>6 DEF Takes, TakesTo
    <2>8. History(scenario, j, g, a)
      BY <1>0, <2>4, <2>7, SameBranches
    <2>9. CASE (i \in Told(scenario, e)) = (j \in Told(scenario, e))
      <3>1. p[l + 1][2] = (j \in Told(scenario, p[l + 1][1]))
        <4> HIDE DEF p
        <4> QED
          BY <2>2, <2>9
      <3> QED
        BY <1>1, <1>3, <3>1 DEF Reaches, TakesTo
    <2>10. CASE (i \in Told(scenario, e)) # (j \in Told(scenario, e))
      <3>1. PICK r, m, h :
              /\ r \in runs /\ m \in Nat /\ Spreads(r, h, m) /\ r.input = j
              /\ a <= m /\ \A x \in 0 .. a : h[x] = g[x]
        BY <1>1, <2>8, AllSettled, Explored
      <3>2. /\ History(scenario, j, h, m) /\ h[m].outcome # "running" /\ h[m].path = r.path
            /\ h[m].outcome = r.outcome
        BY <3>1 DEF Spreads, IsRun
      <3>3. h[a] = g[a] /\ a < m /\ a \in 0 .. m /\ m \in 0 .. m
        <4>1. a \in 0 .. a
          OBVIOUS
        <4>2. h[a] = g[a]
          BY <3>1, <4>1
        <4>3. a # m
          BY <2>4, <3>2, <4>2
        <4> QED
          BY <3>1, <4>2, <4>3
      <3>4. l + 1 \in DOMAIN r.path /\ r.path[l + 1] = <<e, j \in Told(scenario, e)>>
        <4>1. History(scenario, j, h, m) /\ a < m /\ a \in Nat /\ m \in Nat /\ Recording(scenario, j, h[a])
          BY <1>0, <2>a, <3>1, <3>2, <3>3
        <4>2. /\ Len(h[a].path) + 1 \in DOMAIN h[m].path
              /\ h[m].path[Len(h[a].path) + 1] = BranchOf(scenario, j, h[a])
          BY <4>1, BranchKept
        <4> QED
          BY <1>0, <2>2, <2>a, <3>2, <3>3, <4>2
      <3>5. IsSeq(r.path) /\ DOMAIN r.path = 1 .. Len(r.path) /\ Begins(g[a].path, r.path)
        BY <3>2, <3>3, HistorySequences, HistoryGrows, AppendBegins
      <3> DEFINE t == OtherSide(r.path, l + 1)
      <3>6. t \in Known
        <4>1. r.outcome \notin Timeouts /\ ~Unasked(r, l + 1)
          BY <3>1 DEF Finished, Undisturbed, Looping, Unasked, Timeouts
        <4> QED
          BY <3>1, <3>4, <4>1 DEF Targets, Finished
      <3>7. DOMAIN t = 1 .. (l + 1) /\ \A x \in 1 .. (l + 1) : t[x] = p[x]
        <4>1. PICK z, q : z = l + 1 /\ q = r.path
          OBVIOUS
        <4>2. z \in 1 .. Len(q) /\ IsSeq(q)
          BY <3>4, <3>5, <4>1
        <4>3. /\ DOMAIN OtherSide(q, z) = 1 .. z
              /\ OtherSide(q, z)[z] = <<q[z][1], ~q[z][2]>>
              /\ \A y \in 1 .. (z - 1) : OtherSide(q, z)[y] = q[y]
          BY <4>2, OtherSideIs
        <4>4. q[z][1] = e /\ (~q[z][2]) = (i \in Told(scenario, e))
          <5>1. q[z] = <<e, j \in Told(scenario, e)>>
            BY <3>4, <4>1
          <5>2. q[z][1] = e /\ q[z][2] = (j \in Told(scenario, e))
            BY <5>1
          <5> DEFINE yes == i \in Told(scenario, e)
                     no == j \in Told(scenario, e)
          <5>3. yes \in BOOLEAN /\ no \in BOOLEAN /\ yes # no
            BY <2>10
          <5>4. q[z][2] = no
            BY <5>2
          <5> HIDE DEF yes, no
          <5>5. (~q[z][2]) = yes
            BY <5>3, <5>4
          <5> QED
            BY <5>2, <5>5 DEF yes
        <4>5. OtherSide(q, z)[z] = p[l + 1]
          <5> HIDE DEF p
          <5> QED
            BY <2>2, <4>3, <4>4
        <4>6. \A y \in 1 .. l : q[y] = p[y] /\ y \in 1 .. (z - 1)
          BY <2>2, <2>6, <3>5, <4>1 DEF Begins
        <4>7. \A y \in 1 .. l : OtherSide(q, z)[y] = p[y]
          BY <4>3, <4>6
        <4> HIDE DEF p
        <4> QED
          BY <1>3, <4>1, <4>3, <4>5, <4>7
      <3>8. \A x \in 1 .. (l + 1) : x \in DOMAIN p
        BY <1>3, <1>5, <2>6
      <3>9. Takes(scenario, i, t) /\ PlainPath(scenario, t)
        <4>1. Takes(scenario, i, p) /\ PlainPath(scenario, p)
          BY OwnPath
        <4> HIDE DEF p, t
        <4> QED
          BY <3>7, <3>8, <4>1 DEF Takes, PlainPath
      <3>10. PICK k : k \in queuedInputs /\ k \in Answers(Range(t))
        <4>1. Answerable(Range(t))
          BY <3>6 DEF Targets
        <4> HIDE DEF t
        <4>2. i \in Answers(Range(t))
          BY <1>0, <3>9, AnswersTake
        <4>3. Models(Range(t)) # {}
          BY <4>2 DEF Answers
        <4> QED
          BY <4>1, <4>3 DEF Answerable, Finished
      <3>11. Takes(scenario, k, t)
        <4> HIDE DEF t
        <4> QED
          BY <1>0, <3>9, <3>10, AnswersTake
      <3>12. TakesTo(scenario, k, p, l + 1)
        <4> HIDE DEF p, t
        <4> QED
          BY <3>7, <3>11 DEF Takes, TakesTo
      <3> QED
        BY <3>10, <3>12 DEF Reaches
    <2> QED
      BY <2>9, <2>10
  <1> QED
    BY <1>4, <1>5

\* For every execution of any input, there is a queued input that takes its branches.
LEMMA Reached ==
  ASSUME ExactIn(scenario), Replaying, Accounted, Executed, Looping, Targets, Finished,
         NEW i, i \in Inputs, NEW g, NEW n \in Nat, History(scenario, i, g, n)
  PROVE  \E j \in queuedInputs : Takes(scenario, j, g[n].path)
  <1> DEFINE T == {l \in Nat : Reaches(g[n].path, l)}
  <1>1. 0 \in T
    BY DEF Reaches, TakesTo, Accounted
  <1>2. ASSUME NEW l \in Nat, l \in T PROVE l + 1 \in T
    BY <1>2, ReachesMore
  <1>3. T = Nat
    <2>1. T \in SUBSET Nat
      OBVIOUS
    <2> HIDE DEF T
    <2> QED
      BY <1>1, <1>2, <2>1, SetInduction
  <1>4. IsSeq(g[n].path)
    BY HistorySequences
  <1>5. DOMAIN g[n].path = 1 .. Len(g[n].path) /\ Len(g[n].path) \in Nat
    BY <1>4, AppendBegins
  <1>6. Reaches(g[n].path, Len(g[n].path))
    BY <1>3, <1>5
  <1> QED
    BY <1>5, <1>6 DEF Reaches, TakesTo, Takes

\* A queued input that takes the branches of an execution that ended has a run with it.
LEMMA FoundAgain ==
  ASSUME ExactIn(scenario), Replaying, Accounted, Executed, Looping, Finished,
         NEW i, i \in Inputs, NEW g, NEW n \in Nat, History(scenario, i, g, n), g[n].outcome # "running",
         NEW j, j \in queuedInputs, Takes(scenario, j, g[n].path)
  PROVE  History(scenario, j, g, n) /\ \E r \in runs : r.input = j /\ IsRun(r, g, n)
  <1>1. History(scenario, j, g, n) /\ Settled(j)
    BY SameBranches, AllSettled DEF Accounted
  <1>2. PICK r, m, h :
          /\ r \in runs /\ m \in Nat /\ Spreads(r, h, m) /\ r.input = j
          /\ n <= m /\ \A x \in 0 .. n : h[x] = g[x]
    BY <1>1, Explored
  <1>3. IsRun(r, h, m)
    BY <1>2 DEF Spreads
  <1>4. h[n] = g[n] /\ n = m
    <2>1. n \in 0 .. n
      OBVIOUS
    <2>2. h[n] = g[n]
      BY <1>2, <2>1
    <2>3. ~(n < m)
      <3>1. n < m => n \in 0 .. (m - 1)
        BY <1>2
      <3> QED
        BY <1>3, <2>2, <3>1 DEF IsRun, History, Follows
    <2> QED
      BY <1>2, <2>2, <2>3
  <1>5. IsRun(r, g, n)
    BY <1>1, <1>2, <1>3, <1>4 DEF IsRun
  <1> QED
    BY <1>1, <1>2, <1>5

\* The execution of an audit, when it has ended.
LEMMA Audited ==
  ASSUME Replaying, Accounted, phase = "auditing", Over
  PROVE  \E n \in Nat : \E g :
            /\ History(scenario, input, g, n) /\ g[n].outcome # "running"
            /\ Frame = g[n] /\ Schedule = Picks(g[n]) /\ path = g[n].path /\ outcome = g[n].outcome
            /\ cell = g[n].cell
  <1>1. PICK n, g : n \in Nat /\ IsAt(g, n)
    BY DEF Accounted, Present
  <1>2. outcome \notin Timeouts /\ outcome # "running"
    BY DEF Accounted, Over
  <1>3. /\ History(scenario, input, g, n) /\ Frame = g[n] /\ choices = g[n].choices /\ path = g[n].path
        /\ outcome = g[n].outcome /\ cell = g[n].cell
    BY <1>1, <1>2 DEF IsAt, Frame
  <1>4. Schedule = Picks(g[n])
    BY <1>3, SchedulePicks
  <1> QED
    BY <1>1, <1>2, <1>3, <1>4

LEMMA Completes ==
  ASSUME Replaying, Accounted, Executed, Looping, Exact => Targets
  PROVE  ExhaustedIsComplete
  <1> SUFFICES ASSUME phase = "auditing", Over, unknowns = {}, Undisturbed, ExactIn(scenario), Targets
               PROVE  \E r \in runs : r.schedule = Schedule /\ r.path = path /\ r.outcome = outcome
    BY ExactIs DEF ExhaustedIsComplete
  <1>1. PICK n, g :
            /\ n \in Nat
            /\ History(scenario, input, g, n) /\ g[n].outcome # "running"
            /\ Schedule = Picks(g[n]) /\ path = g[n].path /\ outcome = g[n].outcome
    BY Audited
  <1>2. Finished /\ input \in Inputs
    BY DEF Finished, Looping, Replaying
  <1>3. PICK j \in queuedInputs : Takes(scenario, j, g[n].path)
    BY <1>1, <1>2, Reached
  <1>4. PICK r \in runs : IsRun(r, g, n)
    BY <1>1, <1>2, <1>3, FoundAgain
  <1> QED
    BY <1>1, <1>4 DEF IsRun

\* A target says of each input rightly whether it goes there.
LEMMA RealPlain ==
  ASSUME ExactIn(scenario), NEW t, RealTarget(t)
  PROVE  PlainPath(scenario, t)
  <1>0. PICK n, i, h, yes : RealAs(t, n, i, h, yes)
    BY RealParts
  <1>1. /\ n \in Nat /\ i \in Inputs /\ History(scenario, i, h, n)
        /\ Asks(scenario, h[n]) /\ Recording(scenario, i, h[n])
        /\ Len(h[n].path) \in Nat
        /\ DOMAIN h[n].path = 1 .. Len(h[n].path) /\ DOMAIN t = 1 .. (Len(h[n].path) + 1)
        /\ t[Len(h[n].path) + 1] = <<NotedIn(scenario, i, h[n]), yes>>
        /\ \A x \in 1 .. Len(h[n].path) : t[x] = h[n].path[x]
    BY <1>0 DEF RealAs
  <1>2. PlainPath(scenario, h[n].path)
    BY <1>1, OwnPath
  <1>3. Plain(scenario, NotedIn(scenario, i, h[n]))
    BY <1>1, BranchTold DEF Recording
  <1> DEFINE l == Len(h[n].path)
  <1>4. \A x \in 1 .. (l + 1) : x \in 1 .. l \/ x = l + 1
    BY <1>1
  <1>5. t[l + 1][1] = NotedIn(scenario, i, h[n])
    BY <1>1
  <1> QED
    BY <1>1, <1>2, <1>3, <1>4, <1>5 DEF PlainPath

LEMMA Serves ==
  ASSUME Replaying, Accounted, Executed, Looping, Exact => Targets
  PROVE  ReservationsServed
  <1> SUFFICES ASSUME phase = "choosing", Undisturbed, ExactIn(scenario), Targets, ~queue.truncated,
                      NEW t \in reserved,
                      ~\E x \in DOMAIN queue.pending : queue.pending[x].input \in Answers(Range(t))
               PROVE  FALSE
    BY ExactIs DEF ReservationsServed
  <1>1. PICK i : i \in queuedInputs /\ i \in Answers(Range(t))
    BY DEF Targets
  <1>2. t \notin edges /\ RealTarget(t)
    BY DEF Targets
  <1>b. PICK n, k, h, yes : RealAs(t, n, k, h, yes)
    BY <1>2, RealParts
  <1>3. /\ n \in Nat /\ k \in Inputs
        /\ History(scenario, k, h, n) /\ h[n].outcome = "running"
        /\ Asks(scenario, h[n]) /\ Recording(scenario, k, h[n])
        /\ IsSeq(t) /\ Len(h[n].path) \in Nat /\ Len(t) = Len(h[n].path) + 1
        /\ DOMAIN h[n].path = 1 .. Len(h[n].path) /\ DOMAIN t = 1 .. (Len(h[n].path) + 1)
        /\ t[Len(h[n].path) + 1] = <<NotedIn(scenario, k, h[n]), yes>>
        /\ \A x \in 1 .. Len(h[n].path) : t[x] = h[n].path[x]
    BY <1>b DEF RealAs
  <1>4. PICK e : \A v \in Inputs : /\ Recording(scenario, v, h[n]) /\ NotedIn(scenario, v, h[n]) = e
                                  /\ BranchOf(scenario, v, h[n]) = <<e, v \in Told(scenario, e)>>
    BY <1>3, BranchTold DEF Recording
  <1> DEFINE s == h[n].path
             c == <<e, yes>>
             l == Len(s)
  <1>5. /\ Len(t) = l + 1 /\ l \in Nat /\ DOMAIN s = 1 .. l /\ DOMAIN t = 1 .. (l + 1) /\ IsSeq(t)
        /\ t[l + 1] = c /\ \A x \in 1 .. l : t[x] = s[x]
    BY <1>3, <1>4
  <1>6. Takes(scenario, i, t) /\ i \in Inputs
    BY <1>1, <1>2, RealPlain, AnswersTake DEF Replaying
  <1>7. Takes(scenario, i, s)
    BY <1>5, <1>6 DEF Takes
  <1>8. yes = (i \in Told(scenario, e))
    <2>1. c[1] = e /\ c[2] = yes
      OBVIOUS
    <2>2. t[l + 1][2] = (i \in Told(scenario, t[l + 1][1]))
      BY <1>5, <1>6 DEF Takes
    <2> HIDE DEF c, l
    <2> QED
      BY <1>5, <2>1, <2>2
  <1>9. History(scenario, i, h, n)
    BY <1>3, <1>6, <1>7, SameBranches
  <1>10. Settled(i)
    BY <1>1 DEF Settled
  <1>11. PICK r, m, f :
           /\ r \in runs /\ m \in Nat /\ Spreads(r, f, m) /\ r.input = i
           /\ n <= m /\ \A x \in 0 .. n : f[x] = h[x]
    BY <1>3, <1>9, <1>10, Explored
  <1>12. History(scenario, i, f, m) /\ f[m].outcome # "running" /\ f[m].path = r.path
    BY <1>11 DEF Spreads, IsRun
  <1>13. f[n] = h[n] /\ n < m /\ n \in 0 .. m /\ m \in 0 .. m
    <2>1. n \in 0 .. n
      BY <1>11, <1>3
    <2>2. f[n] = h[n]
      BY <1>11, <2>1
    <2>3. n # m
      BY <1>3, <1>12, <2>2
    <2> QED
      BY <1>3, <1>11, <2>2, <2>3
  <1>14. l + 1 \in DOMAIN r.path /\ r.path[l + 1] = <<e, i \in Told(scenario, e)>>
    <2>1. /\ n \in Nat /\ m \in Nat /\ n < m
          /\ History(scenario, i, f, m) /\ Recording(scenario, i, f[n])
      BY <1>3, <1>4, <1>6, <1>11, <1>12, <1>13
    <2>2. /\ Len(f[n].path) + 1 \in DOMAIN f[m].path
          /\ f[m].path[Len(f[n].path) + 1] = BranchOf(scenario, i, f[n])
      BY <2>1, BranchKept
    <2> QED
      BY <1>4, <1>6, <1>12, <1>13, <2>2
  <1>15. r.path[l + 1] = c
    BY <1>8, <1>14
  <1>16. IsSeq(r.path) /\ DOMAIN r.path = 1 .. Len(r.path) /\ Begins(s, r.path)
    BY <1>12, <1>13, HistorySequences, HistoryGrows, AppendBegins
  <1>17. PICK q : q = SubSeq(r.path, 1, l + 1)
    OBVIOUS
  <1> HIDE DEF c, s
  <1>18. IsSeq(q) /\ Len(q) = l + 1 /\ \A x \in 1 .. (l + 1) : q[x] = r.path[x]
    <2>1. l + 1 \in 0 .. Len(r.path)
      BY <1>5, <1>14, <1>16
    <2> QED
      BY <1>16, <1>17, <2>1, Cut
  <1>19. \A x \in 1 .. (l + 1) : x \in 1 .. l \/ x = l + 1
    BY <1>5
  <1>20. \A x \in 1 .. l : r.path[x] = s[x]
    BY <1>16 DEF Begins
  <1>21. \A x \in 1 .. (l + 1) : q[x] = t[x]
    BY <1>5, <1>15, <1>18, <1>19, <1>20
  <1>22. q = t
    BY <1>5, <1>18, <1>21, SameSequence
  <1>23. q \in edges
    BY <1>11, <1>3, <1>14, <1>17 DEF Targets
  <1> QED
    BY <1>2, <1>22, <1>23

--------------------------------------------------------------------------------
(* The contracts of the runs are checked. *)

\* The contract of the run r: it held, and an input that violates it on the same path
\* was asked for; or its input is a counterexample.
ContractChecked(r) ==
    \E n \in Nat : \E h : IsRun(r, h, n) /\
        LET p == scenario.promise[h[n].cell]
        IN  r.outcome = "returned" /\ p # None =>
              IF r.input \in scenario.truth[p]
              THEN <<r.path, scenario.records[p][r.input]>> \in contractTargets
              ELSE r.input \in counterexamples

ClauseOf(t) == Range(t[1]) \cup {<<t[2], FALSE>>}

Contracts ==
    /\ \A t \in contractTargets : Answerable(ClauseOf(t))
    /\ \A r \in runs : r.outcome \notin Timeouts /\ stop \in {"none", "exhausted"} =>
         ContractChecked(r) \/ (phase = "contract" /\ r = Record)

LEMMA ContractsStart ==
  Init => Contracts
  BY DEF Init, Contracts

\* What is checked stays checked.
LEMMA CheckedKept ==
  ASSUME NEW r, ContractChecked(r), UNCHANGED scenario,
         contractTargets \subseteq contractTargets', counterexamples \subseteq counterexamples'
  PROVE  ContractChecked(r)'
  <1>1. PICK n, h : n \in Nat /\ IsRun(r, h, n) /\
            (r.outcome = "returned" /\ scenario.promise[h[n].cell] # None =>
                IF r.input \in scenario.truth[scenario.promise[h[n].cell]]
                THEN <<r.path, scenario.records[scenario.promise[h[n].cell]][r.input]>>
                       \in contractTargets
                ELSE r.input \in counterexamples)
    BY DEF ContractChecked
  <1>2. IsRun(r, h, n)'
    BY <1>1 DEF IsRun
  <1> QED
    BY <1>1, <1>2 DEF ContractChecked

\* The steps that leave the contracts alone.
LEMMA RestContracts ==
  ASSUME Replaying, Accounted, Looping, Contracts,
         Observe \/ Flip \/ Pop \/ Stop \/ OutOfBudget \/ Iterate \/ Audit \/ UNCHANGED vars
           \/ (phase \in {"running", "auditing"} /\ Step)
  PROVE  Contracts'
  <1>1. /\ UNCHANGED <<contractTargets, counterexamples>>
        /\ queuedInputs \subseteq queuedInputs' /\ unknowns \subseteq unknowns'
    <2>1. CASE Flip
      BY <2>1, Asking, QuestionEnlarges DEF Flip, Enlarges
    <2>2. CASE Observe
      BY <2>2 DEF Observe
    <2>3. CASE Pop \/ Stop \/ Iterate \/ Audit
      BY <2>3 DEF Pop, Stop, Iterate, Audit
    <2>4. CASE OutOfBudget
      BY <2>4 DEF OutOfBudget
    <2>5. CASE Step \/ UNCHANGED vars
      BY <2>5 DEF Step, vars, searchVars
    <2> QED
      BY <2>1, <2>2, <2>3, <2>4, <2>5
  <1>2. scenario' = scenario
    BY DEF Observe, Flip, Pop, Stop, OutOfBudget, Iterate, Audit, Step, vars,
           Execute, Resume, Deadlock, End, Expire, Turn, CancelUnstarted, Sleep, AwaitMore,
           AwaitResult, Create, Cancel, Branch, Write, Return, Raise
  <1>3. stop' \in {"none", "exhausted"} => stop \in {"none", "exhausted"}
    BY DEF Looping, Observe, Flip, Pop, Stop, StopWith, OutOfBudget, Iterate, Audit, Step, vars,
           searchVars
  <1>4. ASSUME NEW t \in contractTargets' PROVE Answerable(ClauseOf(t))'
    <2>1. Answerable(ClauseOf(t)) /\ t \in contractTargets
      BY <1>1 DEF Contracts
    <2>2. PICK c : c = ClauseOf(t)
      OBVIOUS
    <2> QED
      BY <1>1, <1>2, <2>1, <2>2, AnswerableKept
  <1>5. ASSUME NEW r \in runs', r.outcome \notin Timeouts, stop' \in {"none", "exhausted"}
        PROVE  ContractChecked(r)' \/ (phase' = "contract" /\ r = Record')
    <2>1. ContractChecked(r) => ContractChecked(r)'
      BY <1>1, <1>2, CheckedKept
    <2>2. CASE Observe
      <3>1. phase = "running" /\ UNCHANGED runVars /\ runs' \subseteq runs \cup {Record}
        BY <2>2 DEF Observe, Recorded
      <3>2. CASE r \in runs
        BY <1>3, <1>5, <2>1, <3>1, <3>2 DEF Contracts
      <3>3. CASE r = Record
        <4>1. outcome # "total_timeout"
          BY <1>5, <3>3 DEF Record, Timeouts
        <4>2. phase' = "contract" /\ Record' = Record
          BY <2>2, <3>1, <4>1 DEF Observe, Record, Schedule, runVars
        <4> QED
          BY <3>3, <4>2
      <3> QED
        BY <3>1, <3>2, <3>3
    <2>3. CASE ~Observe
      <3>1. runs' = runs
        BY <2>3 DEF Flip, Pop, Stop, OutOfBudget, Iterate, Audit, Step, vars, searchVars
      <3>2. ContractChecked(r) \/ (phase = "contract" /\ r = Record)
        BY <1>3, <1>5, <3>1 DEF Contracts
      <3>3. CASE UNCHANGED vars
        BY <2>1, <3>2, <3>3 DEF vars, searchVars, runVars, Record, Schedule
      <3>4. CASE ~UNCHANGED vars
        <4>1. phase # "contract"
          BY <1>5, <2>3, <3>4 DEF Flip, Pop, Stop, OutOfBudget, StopWith, Iterate, Audit
        <4> QED
          BY <2>1, <3>2, <4>1
      <3> QED
        BY <3>3, <3>4
    <2> QED
      BY <2>2, <2>3
  <1> QED
    BY <1>4, <1>5 DEF Contracts

LEMMA CheckContracts ==
  ASSUME Replaying, Accounted, Executed, Looping, Contracts, CheckContract
  PROVE  Contracts'
  <1>1. /\ UNCHANGED <<scenario, runVars, edges, runs, stop>>
        /\ queuedInputs \subseteq queuedInputs' /\ unknowns \subseteq unknowns'
        /\ phase = "contract"
    BY Asking, QuestionEnlarges DEF CheckContract, Enlarges
  <1>2. contractTargets \subseteq contractTargets' /\ counterexamples \subseteq counterexamples'
    BY DEF CheckContract
  <1>3. Question # {} <=> HasContract /\ Kept
                            /\ ContractTarget \notin contractTargets
    BY <1>1 DEF Question, Violation
  <1>4. ASSUME NEW t \in contractTargets' PROVE Answerable(ClauseOf(t))'
    <2>1. PICK c : c = ClauseOf(t)
      OBVIOUS
    <2>2. CASE t \in contractTargets
      <3>1. Answerable(c)
        BY <2>1, <2>2 DEF Contracts
      <3> QED
        BY <1>1, <2>1, <3>1, AnswerableKept
    <2>3. CASE t \notin contractTargets
      <3>1. Question # {} /\ t = ContractTarget
        BY <1>4, <2>3 DEF CheckContract
      <3>2. Question = Violation
        BY <1>1, <1>3, <3>1 DEF Question
      <3>3. ClauseOf(t) = Question
        BY <3>1, <3>2 DEF ClauseOf, ContractTarget, Violation
      <3>4. \/ Unknown(Question) \/ Unsatisfiable(Question)
            \/ \E i \in Inputs : Solved(Question, i) /\ i \in queuedInputs'
        BY <3>1 DEF CheckContract, QueueInput, QueueNothing
      <3>5. \E d : d = Question /\ Answerable(d)'
        BY <1>1, <3>4, QuestionAnswered
      <3> QED
        BY <2>1, <3>3, <3>5
    <2> QED
      BY <2>2, <2>3
  <1>5. ASSUME NEW r \in runs', r.outcome \notin Timeouts, stop' \in {"none", "exhausted"}
        PROVE  ContractChecked(r)'
    <2>1. ContractChecked(r) => ContractChecked(r)'
      BY <1>1, <1>2, CheckedKept
    <2>2. CASE r # Record
      BY <1>1, <1>5, <2>1, <2>2 DEF Contracts
    <2>3. CASE r = Record
      <3>1. /\ r.input = input /\ r.path = path /\ r.outcome = outcome /\ r.schedule = Schedule
        BY <2>3 DEF Record
      <3>2. r.outcome # "running"
        BY <1>1, <1>5 DEF Executed, Spread, Spreads, IsRun
      <3>3. PICK n, h : n \in Nat /\ IsAt(h, n)
        BY <1>1 DEF Accounted, Present
      <3>4. Frame = h[n]
        BY <1>5, <3>1, <3>3 DEF IsAt
      <3>5. /\ History(scenario, input, h, n) /\ h[n].cell = cell /\ h[n].path = path
            /\ h[n].outcome = outcome /\ h[n].choices = choices
        BY <3>3, <3>4 DEF IsAt, Frame
      <3>6. Picks(h[n]) = Schedule
        BY <3>5, SchedulePicks
      <3>7. /\ IsRun(r, h, n) /\ scenario.promise[h[n].cell] = Promised
            /\ scenario.records[Promised][r.input] = Clause
        BY <3>1, <3>2, <3>5, <3>6 DEF IsRun, Promised, Clause
      <3>8. outcome = "returned" /\ Promised # None =>
              IF input \in scenario.truth[Promised]
              THEN <<path, Clause>> \in contractTargets' ELSE input \in counterexamples'
        <4>1. SUFFICES ASSUME HasContract
                       PROVE  IF input \in scenario.truth[Promised]
                              THEN <<path, Clause>> \in contractTargets' ELSE input \in counterexamples'
          BY DEF HasContract
        <4>2. CASE Question # {}
          BY <1>3, <4>2 DEF CheckContract, ContractTarget, Kept
        <4>3. CASE Question = {}
          BY <1>2, <1>3, <4>1, <4>3 DEF CheckContract, ContractTarget, Kept
        <4> QED
          BY <4>2, <4>3
      <3>9. IsRun(r, h, n)' /\ UNCHANGED scenario
        BY <1>1, <3>7 DEF IsRun
      <3> QED
        BY <3>3, <3>1, <3>7, <3>8, <3>9 DEF ContractChecked
    <2> QED
      BY <2>2, <2>3
  <1> QED
    BY <1>4, <1>5 DEF Contracts

LEMMA ContractsStay ==
  Replaying /\ Accounted /\ Executed /\ Looping /\ Contracts /\ [Next]_vars => Contracts'
  <1> SUFFICES ASSUME Replaying, Accounted, Executed, Looping, Contracts, [Next]_vars PROVE Contracts'
    OBVIOUS
  <1>1. \/ CheckContract
        \/ Observe \/ Flip \/ Pop \/ Stop \/ OutOfBudget \/ Iterate \/ Audit \/ UNCHANGED vars
        \/ (phase \in {"running", "auditing"} /\ Step)
    BY DEF Next, Explore
  <1> QED
    BY <1>1, CheckContracts, RestContracts

\* Two histories of one run end in the same state.
LEMMA SameEnd ==
  ASSUME NEW r, NEW h, NEW n \in Nat, IsRun(r, h, n), NEW g, NEW m \in Nat, IsRun(r, g, m)
  PROVE  h[n] = g[m]
  <1>1. /\ History(scenario, r.input, h, n) /\ History(scenario, r.input, g, m)
        /\ Picks(h[n]) = Picks(g[m]) /\ h[n].outcome # "running" /\ g[m].outcome # "running"
    BY DEF IsRun
  <1>2. Compatible(Picks(h[n]), Picks(g[m])) /\ Compatible(Picks(g[m]), Picks(h[n]))
    BY <1>1 DEF Compatible
  <1>3. n <= m /\ m <= n /\ \A x \in 0 .. n : g[x] = h[x]
    BY <1>1, <1>2, Passed
  <1>4. n = m /\ n \in 0 .. n
    BY <1>3
  <1> QED
    BY <1>3, <1>4

\* The answers to the negation of a clause.
LEMMA ClauseAnswers ==
  ASSUME scenario \in Scenarios, ExactIn(scenario), NEW s, IsSeq(s), PlainPath(scenario, s),
         NEW e, Plain(scenario, e), NEW i
  PROVE  i \in Answers(Range(s) \cup {<<e, FALSE>>})
           <=> i \in Inputs /\ Takes(scenario, i, s) /\ i \notin Told(scenario, e)
  <1> DEFINE c == <<e, FALSE>>
             l == Len(s)
  <1>1. PICK u : u = Append(s, c)
    OBVIOUS
  <1>2. c[1] = e /\ c[2] = FALSE
    OBVIOUS
  <1> HIDE DEF c
  <1>3. /\ l \in Nat /\ DOMAIN s = 1 .. l /\ DOMAIN u = 1 .. (l + 1)
        /\ u[l + 1] = c /\ \A x \in 1 .. l : u[x] = s[x]
    BY <1>1, AppendEntries
  <1> HIDE DEF l
  <1>4. \A x : x \in DOMAIN u <=> x \in DOMAIN s \/ x = l + 1
    BY <1>3
  <1>5. Range(u) = Range(s) \cup {c}
    BY <1>3, <1>4 DEF Range
  <1>6. PlainPath(scenario, u)
    BY <1>2, <1>3, <1>4 DEF PlainPath
  <1>7. Takes(scenario, i, u) <=> Takes(scenario, i, s) /\ i \notin Told(scenario, e)
    <2>1. FALSE = (i \in Told(scenario, e)) <=> i \notin Told(scenario, e)
      OBVIOUS
    <2> QED
      BY <1>2, <1>3, <1>4, <2>1 DEF Takes
  <1> QED
    BY <1>5, <1>6, <1>7, AnswersTake DEF c

\* The contract of a run found again.
LEMMA FoundChecked ==
  ASSUME Looping, Contracts, Finished, NEW r \in runs, NEW g, NEW n \in Nat, IsRun(r, g, n),
         g[n].outcome = "returned", NEW p, p = scenario.promise[g[n].cell], p # None
  PROVE  IF r.input \in scenario.truth[p]
         THEN <<r.path, scenario.records[p][r.input]>> \in contractTargets ELSE r.input \in counterexamples
  <1>1. r.outcome = "returned"
    BY DEF IsRun
  <1>2. stop = "exhausted" /\ phase # "contract"
    BY DEF Finished, Looping
  <1>3. ContractChecked(r)
    BY <1>1, <1>2 DEF Contracts, Timeouts
  <1>4. PICK m, h : m \in Nat /\ IsRun(r, h, m) /\
            (r.outcome = "returned" /\ scenario.promise[h[m].cell] # None =>
                IF r.input \in scenario.truth[scenario.promise[h[m].cell]]
                THEN <<r.path, scenario.records[scenario.promise[h[m].cell]][r.input]>>
                       \in contractTargets
                ELSE r.input \in counterexamples)
    BY <1>3 DEF ContractChecked
  <1>5. h[m] = g[n]
    BY <1>4, SameEnd
  <1> QED
    BY <1>1, <1>4, <1>5

LEMMA Finds ==
  ASSUME Replaying, Remembering, Accounted, Executed, Looping, Exact => Targets, Contracts
  PROVE  ViolationsFound
  <1> SUFFICES ASSUME phase = "auditing", unknowns = {}, Undisturbed, ExactIn(scenario), Targets,
                      HasContract, input \notin scenario.truth[Promised]
               PROVE  \E r \in runs :
                        r.schedule = Schedule /\ r.path = path /\ r.input \in counterexamples
    BY ExactIs DEF ViolationsFound, Kept
  <1>1. Over /\ outcome = "returned" /\ Promised # None
    BY DEF HasContract, Over
  <1>2. PICK n, g :
            /\ n \in Nat
            /\ History(scenario, input, g, n) /\ g[n].outcome # "running"
            /\ Schedule = Picks(g[n]) /\ path = g[n].path /\ outcome = g[n].outcome
            /\ cell = g[n].cell
    BY <1>1, Audited
  <1>3. Finished /\ input \in Inputs /\ scenario \in Scenarios /\ queuedInputs \subseteq Inputs
    BY DEF Finished, Looping, Replaying, Accounted
  <1>4. PICK p : p = Promised
    OBVIOUS
  <1>5. p = scenario.promise[g[n].cell] /\ p # None /\ input \notin scenario.truth[p] /\ p \in Conditions
    BY <1>1, <1>2, <1>3, <1>4, ScenariosAssumption DEF Promised, Remembering
  <1>a. PICK e : /\ Plain(scenario, e)
                 /\ \A v \in Inputs : /\ scenario.records[p][v] = e
                                      /\ (v \in scenario.truth[p]) = (v \in Told(scenario, e))
    BY <1>5, ExactlyTold
  <1>6. PICK j \in queuedInputs : Takes(scenario, j, g[n].path)
    BY <1>2, <1>3, Reached
  <1>7. PICK r \in runs : r.input = j /\ IsRun(r, g, n)
    BY <1>2, <1>3, <1>6, FoundAgain
  <1>8. IF j \in scenario.truth[p] THEN <<r.path, e>> \in contractTargets ELSE j \in counterexamples
    BY <1>1, <1>2, <1>3, <1>5, <1>6, <1>7, <1>a, FoundChecked
  <1>9. r.path = path /\ r.schedule = Schedule
    BY <1>2, <1>7 DEF IsRun
  <1>10. CASE j \notin scenario.truth[p]
    BY <1>7, <1>8, <1>9, <1>10
  <1>11. CASE j \in scenario.truth[p]
    <2>1. PICK t : t = <<path, e>>
      OBVIOUS
    <2>2. t \in contractTargets /\ ClauseOf(t) = Range(path) \cup {<<e, FALSE>>}
      BY <1>8, <1>9, <1>11, <2>1 DEF ClauseOf
    <2>3. Takes(scenario, input, path) /\ PlainPath(scenario, path) /\ IsSeq(path)
      BY <1>2, <1>3, OwnPath, HistorySequences
    <2>4. input \in Answers(ClauseOf(t))
      BY <1>3, <1>5, <1>a, <2>2, <2>3, ClauseAnswers
    <2>5. Models(ClauseOf(t)) # {}
      BY <2>4 DEF Answers
    <2>6. PICK k \in queuedInputs : k \in Answers(ClauseOf(t))
      <3>1. Answerable(ClauseOf(t))
        BY <2>2 DEF Contracts
      <3> QED
        BY <2>5, <3>1 DEF Answerable
    <2>7. Takes(scenario, k, path) /\ k \notin Told(scenario, e) /\ k \in Inputs
      BY <1>3, <1>a, <2>2, <2>3, <2>6, ClauseAnswers
    <2>8. k \notin scenario.truth[p]
      BY <1>a, <2>7
    <2>9. PICK q \in runs : q.input = k /\ IsRun(q, g, n)
      BY <1>2, <1>3, <2>6, <2>7, FoundAgain
    <2>10. k \in counterexamples
      BY <1>1, <1>2, <1>3, <1>5, <2>8, <2>9, FoundChecked
    <2>11. q.path = path /\ q.schedule = Schedule
      BY <1>2, <2>9 DEF IsRun
    <2> QED
      BY <2>9, <2>10, <2>11
  <1> QED
    BY <1>10, <1>11

--------------------------------------------------------------------------------
(* The theorems. *)

Exploring ==
    Executing /\ Accounted /\ Executed /\ Looping /\ (Exact => Targets) /\ Contracts

LEMMA ExploringHolds == Spec => []Exploring
  <1>1. Init => Exploring
    BY ExecutingStarts, AccountedStarts, ExecutedStarts, LoopingStarts, TargetsStart, ContractsStart
       DEF Exploring
  <1>2. Exploring /\ [Next]_vars => Exploring'
    <2> SUFFICES ASSUME Exploring, [Next]_vars PROVE Exploring'
      OBVIOUS
    <2>1. /\ Executing /\ Replaying /\ Asks(scenario, Frame) /\ Accounted /\ Executed /\ Looping
          /\ Exact => Targets
          /\ Contracts
      BY ConditionAsked DEF Exploring, Executing
    <2>2. Executing' /\ Accounted' /\ Executed' /\ Looping' /\ Contracts'
      BY <2>1, ExecutingStays, AccountedStays, ExecutedStays, LoopingStays, ContractsStay
    <2>3. (Exact => Targets)'
      BY <2>1, TargetsStay
    <2> QED
      BY <2>2, <2>3 DEF Exploring
  <1> QED
    BY <1>1, <1>2, PTL DEF Spec

\* While an input is tried, a target that was reserved for it is not asked for again:
\* between two iterations such a target still has a pending state whose input takes
\* its branches, as long as pending states and schedules were not left out, for target
\* programs whose conditions are recorded exactly and models converted without loss.
\* This is what PathTree.reserve relies on when should_explore answers no for a
\* reserved target; the interpreter does not see to the exactness.
THEOREM TargetsAreServed == Spec => []ReservationsServed
  <1>1. Exploring => ReservationsServed
    BY Serves DEF Exploring, Executing
  <1> QED
    BY <1>1, ExploringHolds, PTL

\* When explore_file reports that it is exhausted, with every question answered and
\* nothing cut short, and the target program is Exact, every input executed with every
\* schedule has the path, the schedule and the outcome of a recorded run.  The report
\* is made in the same words for programs that are not Exact, of which this is not true.
THEOREM ExhaustionIsComplete == Spec => []ExhaustedIsComplete
  <1>1. Exploring => ExhaustedIsComplete
    BY Completes DEF Exploring, Executing
  <1> QED
    BY <1>1, ExploringHolds, PTL

\* Then every contract that some execution violates has a counterexample with the
\* schedule and the path of that execution, its condition being recorded exactly too:
\* one question per clause and path is enough for _explore_contract.
THEOREM ViolationsAreFound == Spec => []ViolationsFound
  <1>1. Exploring => ViolationsFound
    BY Finds DEF Exploring, Executing
  <1> QED
    BY <1>1, ExploringHolds, PTL
================================================================================
