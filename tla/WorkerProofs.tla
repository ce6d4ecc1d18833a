---------------------------- MODULE WorkerProofs ----------------------------
(***************************************************************************)
(* Worktrees and sessions of any number of workers, tasks and attempts.    *)
(***************************************************************************)
EXTENDS Worker, TLAPS

-----------------------------------------------------------------------------
(* The inductive invariant, in parts                                       *)

Kinds == {"doc", "code", "split"}
Busy == {"begin", "submit", "after"} \cup Executing

\* A loop has an order from the poll that brought it to the end of its submit.
Orders == [pc : {"checkin", "poll"}, task : {NoTask}, attempt : {0}, kind : {"none"}]
            \cup [pc : Busy, task : Task, attempt : Nat, kind : Kinds]
Outs == [status : {"none", "completed", "blocked", "error"},
         landable : BOOLEAN, ref : BOOLEAN]
Loops == [order : Orders, out : Outs, reply : {"none", "queued", "done", "next"}]
Tasks == [state : {"queued", "leased", "landing", "done", "failed"},
          step : Nat, by : Worker \cup {NoTask}, attempt : Nat]
Trees == [by : Nat, commits : SUBSET Nat]

\* Every variable the theorems are about keeps its type; in particular a task
\* always stands at one of the steps it asks for.
TypeOK ==
    /\ remote \in BOOLEAN /\ brief \in [Task -> Brief]
    /\ attempts \in Nat
    /\ task \in [Task -> Tasks]
    /\ \A t \in Task : task[t].step \in 1..Len(brief[t].steps)
    /\ tree \in [Site -> [Task -> Trees]] /\ wip \in [Task -> Trees]
    /\ loop \in [Worker -> Loops]
    /\ beat \in [Worker -> Nat]
    /\ hints \in [Worker -> [Task -> Nat]]

LEMMA KindOfStep ==
    ASSUME TypeOK, NEW t \in Task, NEW n \in 1..Len(brief[t].steps)
    PROVE  brief[t].steps[n] \in Kinds
  <1>1. brief[t] \in Brief
    BY DEF TypeOK
  <1>2. brief[t].steps \in Seq(Kinds)
    BY <1>1, WorkerAssumption DEF Kinds
  <1> QED
    BY <1>2

LEMMA TypeInit == Init => TypeOK
  <1> SUFFICES ASSUME Init PROVE TypeOK
    OBVIOUS
  <1>1. \A t \in Task : 1 \in 1..Len(brief[t].steps)
    <2> TAKE t \in Task
    <2>1. brief[t] \in Brief
      BY DEF Init
    <2>2. brief[t].steps \in Seq(Kinds) /\ brief[t].steps # <<>>
      BY <2>1, WorkerAssumption DEF Kinds
    <2> QED
      BY <2>2
  <1> QED
    BY <1>1, WorkerAssumption DEF Init, TypeOK, Tasks, Trees, Loops, Orders, Outs, Busy, Executing,
      NoTree, Idle, NoOutcome, Site


(* The moves of a loop and of a worktree keep their types.                 *)

LoopOK == loop \in [Worker -> Loops]
TreeOK == tree \in [Site -> [Task -> Trees]]

LEMMA LoopUpdate ==
    ASSUME LoopOK, NEW w \in Worker, NEW l \in Loops, loop' = [loop EXCEPT ![w] = l]
    PROVE  LoopOK'
  BY DEF LoopOK

LEMMA BusyOrder ==
    ASSUME LoopOK, NEW w \in Worker, At(w) \in Busy
    PROVE  Order(w) \in [pc : Busy, task : Task, attempt : Nat, kind : Kinds]
  <1>1. Order(w) \in Orders
    BY DEF LoopOK, Loops, Order
  <1> QED
    BY <1>1 DEF Orders, Order, At, Busy, Executing

LEMMA GotoType ==
    ASSUME LoopOK, NEW w \in Worker, At(w) \in Busy, NEW pc \in Busy, Goto(w, pc)
    PROVE  LoopOK'
  <1>1. loop[w] \in Loops
    BY DEF LoopOK
  <1> DEFINE o == [Order(w) EXCEPT !.pc = pc]
             l == [loop[w] EXCEPT !.order = o]
  <1>2. o \in Orders
    BY BusyOrder DEF Orders
  <1>3. l \in Loops
    BY <1>1, <1>2 DEF Loops
  <1>4. loop' = [loop EXCEPT ![w] = l]
    BY DEF Goto, Order
  <1> QED
    BY <1>3, <1>4, LoopUpdate

LEMMA ReturnType ==
    ASSUME LoopOK, beat \in [Worker -> Nat], NEW w \in Worker, At(w) \in Busy,
           NEW status \in {"completed", "blocked", "error"},
           NEW landable \in BOOLEAN, NEW ref \in BOOLEAN,
           Return(w, status, landable, ref)
    PROVE  LoopOK' /\ (beat \in [Worker -> Nat])'
  <1>1. loop[w] \in Loops
    BY DEF LoopOK
  <1> DEFINE o == [Order(w) EXCEPT !.pc = "submit"]
             out == [status |-> status, landable |-> landable, ref |-> ref]
             l == [[loop[w] EXCEPT !.order = o] EXCEPT !.out = out]
  <1>2. o \in Orders /\ out \in Outs
    BY BusyOrder DEF Orders, Outs, Busy
  <1>3. l \in Loops
    BY <1>1, <1>2 DEF Loops
  <1>4. loop' = [loop EXCEPT ![w] = l]
    BY <1>1 DEF Return, Order, LoopOK
  <1>5. LoopOK'
    BY <1>3, <1>4, LoopUpdate
  <1>6. (beat \in [Worker -> Nat])'
    BY DEF Return
  <1> QED
    BY <1>5, <1>6

LEMMA AnsweredType ==
    ASSUME LoopOK, NEW w \in Worker, At(w) \in Busy, NEW reply \in {"none", "queued", "done", "next"},
           Answered(w, reply)
    PROVE  LoopOK'
  <1>1. loop[w] \in Loops
    BY DEF LoopOK
  <1> DEFINE o == [Order(w) EXCEPT !.pc = "after"]
             l == [[loop[w] EXCEPT !.order = o] EXCEPT !.reply = reply]
  <1>2. o \in Orders
    BY BusyOrder DEF Orders, Busy
  <1>3. l \in Loops
    BY <1>1, <1>2 DEF Loops
  <1>4. loop' = [loop EXCEPT ![w] = l]
    BY <1>1 DEF Answered, Order, LoopOK
  <1> QED
    BY <1>3, <1>4, LoopUpdate

LEMMA FreshType ==
    ASSUME LoopOK, NEW w \in Worker, NEW o \in Orders,
           loop' = [loop EXCEPT ![w] = [order |-> o, out |-> NoOutcome, reply |-> "none"]]
    PROVE  LoopOK'
  <1>1. [order |-> o, out |-> NoOutcome, reply |-> "none"] \in Loops
    BY DEF Loops, Outs, NoOutcome
  <1> QED
    BY <1>1, LoopUpdate

LEMMA IdleType == ASSUME NEW pc \in {"checkin", "poll"} PROVE Idle(pc) \in Orders
  BY DEF Idle, Orders

LEMMA RecheckType ==
    ASSUME LoopOK, NEW w \in Worker, Recheck(w)
    PROVE  LoopOK'
  BY IdleType, FreshType DEF Recheck

LEMMA GivenType ==
    ASSUME TypeOK, NEW w \in Worker, NEW t \in Task, NEW a \in Nat, Given(w, t, a)
    PROVE  LoopOK'
  <1>1. brief[t].steps[task[t].step] \in Kinds
    BY KindOfStep DEF TypeOK
  <1>2. [pc |-> "begin", task |-> t, attempt |-> a,
         kind |-> brief[t].steps[task[t].step]] \in Orders
    BY <1>1 DEF Orders, Busy
  <1>3. LoopOK
    BY DEF TypeOK, LoopOK
  <1> QED
    BY <1>2, <1>3, FreshType DEF Given

LEMMA TreeUpdate ==
    ASSUME TreeOK, NEW s \in Site, NEW t, NEW x \in Trees,
           tree' = [tree EXCEPT ![s][t] = x]
    PROVE  TreeOK'
  BY DEF TreeOK

LEMMA SiteType == ASSUME NEW w \in Worker PROVE SiteOf(w) \in Site
  BY DEF SiteOf, Site

LEMMA TeardownType == ASSUME TreeOK, NEW w \in Worker, Teardown(w) PROVE TreeOK'
  <1>1. NoTree \in Trees
    BY DEF NoTree, Trees
  <1> QED
    BY <1>1, SiteType, TreeUpdate DEF Teardown

LEMMA CutType ==
    ASSUME TreeOK, NEW w \in Worker, NEW t, NEW a \in Nat, Cut(w, t, a)
    PROVE  TreeOK'
  <1>1. [by |-> a, commits |-> {}] \in Trees
    BY DEF Trees
  <1> QED
    BY <1>1, SiteType, TreeUpdate DEF Cut

LEMMA CommittedType ==
    ASSUME TreeOK, LoopOK, NEW w \in Worker, At(w) \in Busy,
           tree' \in {tree, Committed(w)}
    PROVE  TreeOK'
  <1>1. CASE tree' = tree
    BY <1>1 DEF TreeOK
  <1>2. CASE tree' # tree
    <2> DEFINE x == tree[SiteOf(w)][Order(w).task]
               y == [x EXCEPT !.commits = @ \cup {Order(w).attempt}]
    <2>1. Order(w).task \in Task /\ Order(w).attempt \in Nat
      BY BusyOrder
    <2>2. x \in Trees
      BY <2>1, SiteType DEF TreeOK
    <2>3. y \in Trees
      BY <2>1, <2>2 DEF Trees
    <2>4. tree' = [tree EXCEPT ![SiteOf(w)][Order(w).task] = y]
      BY <1>2 DEF Committed
    <2> QED
      BY <2>3, <2>4, SiteType, TreeUpdate
  <1> QED
    BY <1>1, <1>2

LEMMA TaskUpdate ==
    ASSUME task \in [Task -> Tasks], NEW t \in Task, NEW x \in Tasks,
           task' = [task EXCEPT ![t] = x]
    PROVE  (task \in [Task -> Tasks])'
  OBVIOUS

LEMMA LeaseType ==
    ASSUME TypeOK, NEW w \in Worker, NEW t \in Task, NEW n \in 1..Len(brief[t].steps),
           Lease(w, t, n), brief' = brief
    PROVE  /\ (attempts \in Nat)'
           /\ (task \in [Task -> Tasks])'
           /\ (\A u \in Task : task[u].step \in 1..Len(brief[u].steps))'
  <1> DEFINE x == [state |-> "leased", step |-> n, by |-> w, attempt |-> attempts + 1]
  <1>1. n \in Nat
    OBVIOUS
  <1>2. x \in Tasks
    BY <1>1 DEF Tasks, TypeOK
  <1>3. task' = [task EXCEPT ![t] = x] /\ attempts' \in Nat
    BY DEF Lease, TypeOK
  <1>4. (task \in [Task -> Tasks])'
    BY <1>2, <1>3, TaskUpdate DEF TypeOK
  <1>5. (\A u \in Task : task[u].step \in 1..Len(brief[u].steps))'
    BY <1>3 DEF TypeOK
  <1> QED
    BY <1>3, <1>4, <1>5

\* A task moves to another state at the step it stands at.
LEMMA StateType ==
    ASSUME TypeOK, NEW t \in Task, brief' = brief,
           NEW state \in {"queued", "leased", "landing", "done", "failed"},
           task' = [task EXCEPT ![t].state = state]
    PROVE  /\ (task \in [Task -> Tasks])'
           /\ (\A u \in Task : task[u].step \in 1..Len(brief[u].steps))'
  <1> DEFINE x == [task[t] EXCEPT !.state = state]
  <1>1. x \in Tasks /\ x.step = task[t].step
    BY DEF TypeOK, Tasks
  <1>2. task' = [task EXCEPT ![t] = x]
    OBVIOUS
  <1>3. (task \in [Task -> Tasks])'
    BY <1>1, <1>2, TaskUpdate DEF TypeOK
  <1>4. \A u \in Task : task'[u].step = task[u].step
    BY <1>1, <1>2 DEF TypeOK
  <1> QED
    BY <1>3, <1>4 DEF TypeOK

LEMMA StepBound ==
    ASSUME TypeOK, NEW t \in Task, ~LastStep(t)
    PROVE  task[t].step + 1 \in 1..Len(brief[t].steps)
  <1>1. brief[t].steps \in Seq(Kinds)
    BY WorkerAssumption DEF TypeOK, Kinds
  <1> QED
    BY <1>1 DEF TypeOK, LastStep

\* A task moves on to its next step, or is over.
LEMMA StepDoneType ==
    ASSUME TypeOK, NEW t \in Task, brief' = brief,
           task' = [task EXCEPT ![t] = StepDone(t)]
    PROVE  /\ (task \in [Task -> Tasks])'
           /\ (\A u \in Task : task[u].step \in 1..Len(brief[u].steps))'
  <1>1. task[t] \in Tasks /\ task[t].step + 1 \in Nat
    BY DEF TypeOK, Tasks
  <1>2. StepDone(t).step \in 1..Len(brief[t].steps)
    <2>1. CASE LastStep(t)
      BY <1>1, <2>1 DEF StepDone, TypeOK, Tasks
    <2>2. CASE ~LastStep(t)
      <3>1. StepDone(t).step = task[t].step + 1
        BY <1>1, <2>2 DEF StepDone, Tasks
      <3> QED
        BY <2>2, <3>1, StepBound
    <2> QED
      BY <2>1, <2>2
  <1>3. StepDone(t) \in Tasks
    BY <1>1 DEF StepDone, Tasks
  <1>4. (task \in [Task -> Tasks])'
    BY <1>3, TaskUpdate DEF TypeOK
  <1>5. \A u \in Task : task'[u].step = IF u = t THEN StepDone(t).step ELSE task[u].step
    BY DEF TypeOK
  <1> QED
    BY <1>2, <1>4, <1>5 DEF TypeOK

LEMMA HintType ==
    ASSUME hints \in [Worker -> [Task -> Nat]], NEW w \in Worker, NEW t, NEW a \in Nat,
           hints' = [hints EXCEPT ![w][t] = a]
    PROVE  (hints \in [Worker -> [Task -> Nat]])'
  OBVIOUS

LEMMA RememberedType ==
    ASSUME LoopOK, hints \in [Worker -> [Task -> Nat]],
           NEW w \in Worker, At(w) \in Busy, Remembered(w)
    PROVE  (hints \in [Worker -> [Task -> Nat]])'
  <1>1. Order(w).attempt \in Nat
    BY BusyOrder
  <1> QED
    BY <1>1, HintType DEF Remembered

LEMMA CheckInType ==
    ASSUME LoopOK, NEW w \in Worker, CheckIn(w)
    PROVE  LoopOK'
  <1> DEFINE l == [loop[w] EXCEPT !.order = [Order(w) EXCEPT !.pc = "poll"]]
  <1>1. loop[w] \in Loops /\ Order(w) \in Orders /\ Order(w).pc = "checkin"
    BY DEF LoopOK, Loops, CheckIn, At, Order
  <1>2. [Order(w) EXCEPT !.pc = "poll"] \in Orders
    BY <1>1 DEF Orders, Busy, Executing
  <1>3. l \in Loops
    BY <1>1, <1>2 DEF Loops
  <1>4. loop' = [loop EXCEPT ![w] = l]
    BY DEF CheckIn, Goto, Order
  <1> QED
    BY <1>3, <1>4, LoopUpdate

LEMMA TypeStep == ASSUME TypeOK, [Next]_vars PROVE TypeOK'
  <1> USE DEF setting, manager, disk, page, memory, history
  <1>0. LoopOK /\ TreeOK
    BY DEF TypeOK, LoopOK, TreeOK
  <1>1. CASE UNCHANGED vars
    BY <1>1 DEF vars, TypeOK
  <1>2. ASSUME NEW w \in Worker, CheckIn(w) PROVE TypeOK'
    BY <1>0, <1>2, CheckInType DEF CheckIn, TypeOK, LoopOK
  <1>3. ASSUME NEW w \in Worker, PollIdle(w) PROVE TypeOK'
    BY <1>0, <1>3 DEF PollIdle, Synced, TypeOK, LoopOK
  <1>4. ASSUME NEW w \in Worker, PollOrder(w) PROVE TypeOK'
    <2> PICK t \in Offered(w) : Lease(w, t, task[t].step) /\ Given(w, t, attempts + 1)
      BY <1>4 DEF PollOrder
    <2>1. t \in Task /\ attempts + 1 \in Nat /\ brief' = brief
      BY <1>4 DEF Offered, TypeOK, PollOrder
    <2>2. task[t].step \in 1..Len(brief[t].steps)
      BY <2>1 DEF TypeOK
    <2>3. LoopOK'
      BY <2>1, GivenType
    <2>4. /\ (attempts \in Nat)' /\ (task \in [Task -> Tasks])'
          /\ (\A u \in Task : task[u].step \in 1..Len(brief[u].steps))'
      BY <2>1, <2>2, LeaseType
    <2> QED
      BY <1>4, <2>3, <2>4 DEF PollOrder, TypeOK, LoopOK
  <1>5. ASSUME NEW w \in Worker, Begin(w) PROVE TypeOK'
    <2>1. Order(w).attempt \in Nat
      BY <1>0, <1>5, BusyOrder DEF Begin, Busy
    <2>2. LoopOK'
      BY <1>0, <1>5, GotoType DEF Begin, Busy, Executing
    <2> QED
      BY <1>5, <2>1, <2>2 DEF Begin, TypeOK, LoopOK
  <1>6. ASSUME NEW w \in Worker, Refuse(w) PROVE TypeOK'
    BY <1>0, <1>6, ReturnType DEF Busy, Executing, Refuse, Fails, TypeOK, LoopOK
  <1>7. ASSUME NEW w \in Worker, Setup(w) PROVE TypeOK'
    BY <1>0, <1>7, GotoType, CutType DEF Setup, TreeOK, Order, Busy, Executing, Loops, Orders, TypeOK, LoopOK
  <1>8. ASSUME NEW w \in Worker, SetupFails(w) PROVE TypeOK'
    BY <1>0, <1>8, ReturnType, TeardownType DEF Busy, Executing, SetupFails, TreeOK, Fails, TypeOK, LoopOK
  <1>9. ASSUME NEW w \in Worker, Materialize(w) PROVE TypeOK'
    BY <1>0, <1>9, GotoType DEF Materialize, AfterDocs, Busy, Executing, TypeOK, LoopOK
  <1>10. ASSUME NEW w \in Worker, Unavailable(w) PROVE TypeOK'
    BY <1>0, <1>10, ReturnType, TeardownType DEF Busy, Executing, Unavailable, TreeOK, Fails, TypeOK, LoopOK
  <1>11. ASSUME NEW w \in Worker, ScratchReadOnly(w) PROVE TypeOK'
    BY <1>0, <1>11, RecheckType, TeardownType DEF Busy, Executing, ScratchReadOnly, TreeOK, Raises, TypeOK, LoopOK
  <1>12. ASSUME NEW w \in Worker, Preflight(w) PROVE TypeOK'
    BY <1>0, <1>12, GotoType DEF Preflight, Busy, Executing, TypeOK, LoopOK
  <1>13. ASSUME NEW w \in Worker, PreflightFails(w) PROVE TypeOK'
    BY <1>0, <1>13, ReturnType, TeardownType DEF Busy, Executing, PreflightFails, TreeOK, Fails, TypeOK, LoopOK
  <1>14. ASSUME NEW w \in Worker, Unlaunched(w) PROVE TypeOK'
    BY <1>0, <1>14, ReturnType, TeardownType DEF Busy, Executing, Unlaunched, TreeOK, Fails, TypeOK, LoopOK
  <1>15. ASSUME NEW w \in Worker, RunDoc(w) PROVE TypeOK'
    <2>1. PICK status \in {"completed", "blocked", "error"} : Return(w, status, FALSE, FALSE)
      BY <1>15 DEF RunDoc
    <2>2. LoopOK' /\ (beat \in [Worker -> Nat])'
      BY <1>0, <1>15, <2>1, ReturnType DEF RunDoc, Busy, Executing, TypeOK
    <2>3. TreeOK'
      BY <1>0, <1>15, TeardownType DEF RunDoc
    <2>4. (hints \in [Worker -> [Task -> Nat]])'
      BY <1>0, <1>15, RememberedType DEF RunDoc, TypeOK, Busy, Executing
    <2> QED
      BY <1>15, <2>2, <2>3, <2>4 DEF RunDoc, TypeOK, LoopOK, TreeOK
  <1>16. ASSUME NEW w \in Worker, RunCode(w) PROVE TypeOK'
    <2>1. LoopOK'
      BY <1>0, <1>16, GotoType DEF RunCode, Busy, Executing
    <2>2. TreeOK'
      BY <1>0, <1>16, CommittedType DEF RunCode, Busy, Executing
    <2>3. (hints \in [Worker -> [Task -> Nat]])'
      BY <1>0, <1>16, RememberedType DEF RunCode, TypeOK, Busy, Executing
    <2> QED
      BY <1>16, <2>1, <2>2, <2>3 DEF RunCode, TypeOK, LoopOK, TreeOK
  <1>17. ASSUME NEW w \in Worker, JudgeBlocked(w) PROVE TypeOK'
    BY <1>0, <1>17, ReturnType, TeardownType DEF Busy, Executing, JudgeBlocked, TreeOK, Judged, TypeOK, LoopOK
  <1>18. ASSUME NEW w \in Worker, JudgeError(w) PROVE TypeOK'
    BY <1>0, <1>18, ReturnType, TeardownType DEF Busy, Executing, JudgeError, TreeOK, Judged, TypeOK, LoopOK
  <1>19. ASSUME NEW w \in Worker, JudgeSplit(w) PROVE TypeOK'
    BY <1>0, <1>19, ReturnType, TeardownType DEF Busy, Executing, JudgeSplit, TreeOK, Judged, TypeOK, LoopOK
  <1>20. ASSUME NEW w \in Worker, JudgeEmpty(w) PROVE TypeOK'
    BY <1>0, <1>20, ReturnType, TeardownType DEF Busy, Executing, JudgeEmpty, TreeOK, Judged, TypeOK, LoopOK
  <1>21. ASSUME NEW w \in Worker, JudgeWork(w) PROVE TypeOK'
    BY <1>0, <1>21, GotoType DEF JudgeWork, Busy, Executing, TypeOK, LoopOK
  <1>22. ASSUME NEW w \in Worker, Validate(w) PROVE TypeOK'
    BY <1>0, <1>22, GotoType DEF Validate, Busy, Executing, TypeOK, LoopOK
  <1>23. ASSUME NEW w \in Worker, ValidateFails(w) PROVE TypeOK'
    BY <1>0, <1>23, ReturnType DEF Busy, Executing, ValidateFails, Fails, TypeOK, LoopOK
  <1>24. ASSUME NEW w \in Worker, Publish(w) PROVE TypeOK'
    <2>1. LoopOK' /\ (beat \in [Worker -> Nat])'
      BY <1>0, <1>24, ReturnType DEF Busy, Executing, Publish, TypeOK
    <2>2. TreeOf(w) \in Trees
      BY <1>0, <1>24, BusyOrder, SiteType DEF Busy, Executing, Publish, TypeOK, TreeOf
    <2>3. (wip \in [Task -> Trees])'
      BY <1>24, <2>2 DEF Publish, TypeOK
    <2> QED
      BY <1>24, <2>1, <2>3 DEF Publish, TypeOK, LoopOK
  <1>25. ASSUME NEW w \in Worker, PublishFails(w) PROVE TypeOK'
    BY <1>0, <1>25, ReturnType DEF Busy, Executing, PublishFails, Fails, TypeOK, LoopOK
  <1>26. ASSUME NEW w \in Worker, SubmitRefused(w) PROVE TypeOK'
    BY <1>0, <1>26, AnsweredType DEF Busy, Executing, SubmitRefused, TypeOK, LoopOK
  <1>27. ASSUME NEW w \in Worker, SubmitLand(w) PROVE TypeOK'
    BY <1>0, <1>27, AnsweredType, StateType DEF Busy, Executing, SubmitLand, Delivered, Order, Live, TypeOK, LoopOK
  <1>28. ASSUME NEW w \in Worker, SubmitStep(w) PROVE TypeOK'
    <2> DEFINE t == Order(w).task
    <2>1. LoopOK' /\ brief' = brief
      BY <1>0, <1>28, AnsweredType DEF Busy, Executing, SubmitStep, Delivered
    <2>2. t \in Task
      BY <1>0, <1>28, BusyOrder DEF SubmitStep, Busy
    <2> QED
      BY <1>28, <2>1, <2>2, StepDoneType DEF SubmitStep, TypeOK, LoopOK
  <1>29. ASSUME NEW w \in Worker, SubmitChain(w) PROVE TypeOK'
    <2> DEFINE t == Order(w).task
    <2>1. LoopOK' /\ brief' = brief
      BY <1>0, <1>29, AnsweredType DEF Busy, Executing, SubmitChain, Delivered
    <2>2. t \in Task
      BY <1>0, <1>29, BusyOrder DEF SubmitChain, Busy
    <2>3. task[t].step + 1 \in 1..Len(brief[t].steps)
      BY <1>29, <2>2, StepBound DEF SubmitChain
    <2> QED
      BY <1>29, <2>1, <2>2, <2>3, LeaseType DEF SubmitChain, TypeOK, LoopOK
  <1>30. ASSUME NEW w \in Worker, SubmitFailure(w) PROVE TypeOK'
    BY <1>0, <1>30, AnsweredType, StateType DEF Busy, Executing, SubmitFailure, Delivered, TypeOK, LoopOK
  <1>31. ASSUME NEW w \in Worker, After(w) PROVE TypeOK'
    <2>1. (hints \in [Worker -> [Task -> Nat]])'
      BY <1>31, HintType DEF After, Forgotten, TypeOK
    <2>2. TreeOK'
      BY <1>0, <1>31, TeardownType DEF After, Consumed, TreeOK
    <2>3. CASE loop[w].reply = "next"
      <3>1. Given(w, Order(w).task, task[Order(w).task].attempt)
        BY <1>31, <2>3 DEF After
      <3>2. Order(w).task \in Task
        BY <1>0, <1>31, BusyOrder DEF After, Busy
      <3>3. task[Order(w).task].attempt \in Nat
        BY <3>2 DEF TypeOK, Tasks
      <3>4. LoopOK'
        BY <3>1, <3>2, <3>3, GivenType
      <3> QED
        BY <1>31, <2>1, <2>2, <3>4 DEF After, TypeOK, LoopOK, TreeOK
    <2>4. CASE loop[w].reply # "next"
      <3>1. LoopOK'
        BY <1>0, <1>31, <2>4, IdleType, FreshType DEF After
      <3> QED
        BY <1>31, <2>1, <2>2, <3>1 DEF After, TypeOK, LoopOK, TreeOK
    <2> QED
      BY <2>3, <2>4
  <1>32. ASSUME NEW w \in Worker, RequestFails(w) PROVE TypeOK'
    BY <1>0, <1>32, RecheckType DEF Busy, Executing, RequestFails, TypeOK, LoopOK
  <1>33. ASSUME NEW w \in Worker, PollLost(w) PROVE TypeOK'
    BY <1>0, <1>33, LeaseType, RecheckType DEF Busy, Executing, PollLost, Offered, TypeOK, LoopOK
  <1>34. ASSUME NEW w \in Worker, Raise(w) PROVE TypeOK'
    BY <1>0, <1>34, RecheckType, TeardownType DEF Busy, Executing, Raise, TreeOK, Raises, TypeOK, LoopOK
  <1>35. ASSUME NEW w \in Worker, Crash(w) PROVE TypeOK'
    BY <1>0, <1>35, RecheckType DEF Busy, Executing, Crash, Reborn, TypeOK, LoopOK
  <1>36. ASSUME NEW w \in Worker, Restart(w) PROVE TypeOK'
    BY <1>0, <1>36 DEF Restart, TypeOK, LoopOK
  <1>37. ASSUME NEW w \in Worker, Shutdown(w) PROVE TypeOK'
    BY <1>0, <1>37, RecheckType DEF Busy, Executing, Shutdown, Reborn, TypeOK, LoopOK
  <1>38. ASSUME NEW t \in Task, Expire(t) PROVE TypeOK'
    BY <1>38, StateType DEF Expire, TypeOK
  <1>39. ASSUME NEW t \in Task, Land(t) PROVE TypeOK'
    <2> PICK state \in {"done", "failed", "queued"} :
          /\ task' = [task EXCEPT ![t] = IF state = "done" THEN StepDone(t)
                                         ELSE [task[t] EXCEPT !.state = state]]
          /\ tree' = IF state = "done" THEN [tree EXCEPT ![Home][t] = NoTree] ELSE tree
          /\ wip' = IF state = "done" THEN [wip EXCEPT ![t] = NoTree] ELSE wip
      BY <1>39 DEF Land
    <2>1. TreeOK' /\ (wip \in [Task -> Trees])'
      <3>1. Home \in Site /\ NoTree \in Trees
        BY DEF Site, NoTree, Trees
      <3> QED
        BY <1>0, <3>1, TreeUpdate DEF TreeOK, TypeOK
    <2>2. /\ (task \in [Task -> Tasks])'
          /\ (\A u \in Task : task[u].step \in 1..Len(brief[u].steps))'
      <3>1. CASE state = "done"
        <4>1. task' = [task EXCEPT ![t] = StepDone(t)]
          BY <3>1
        <4> QED
          BY <1>39, <4>1, StepDoneType DEF Land
      <3>2. CASE state # "done"
        <4>1. task' = [task EXCEPT ![t].state = state]
          BY <3>2
        <4> QED
          BY <1>39, <4>1, StateType DEF Land
      <3> QED
        BY <3>1, <3>2
    <2> QED
      BY <1>39, <2>1, <2>2 DEF Land, TypeOK, TreeOK
  <1>40. ASSUME NEW t \in Task, Retry(t) PROVE TypeOK'
    BY <1>40, StateType DEF Retry, TypeOK
  <1>41. CASE Play
    BY <1>41 DEF Play, TypeOK, Tasks
  <1> QED
    BY <1>1, <1>2, <1>3, <1>4, <1>5, <1>6, <1>7, <1>8, <1>9, <1>10, <1>11, <1>12, <1>13, <1>14, <1>15, <1>16, <1>17, <1>18, <1>19, <1>20, <1>21, <1>22, <1>23, <1>24, <1>25, <1>26, <1>27, <1>28, <1>29, <1>30, <1>31, <1>32, <1>33, <1>34, <1>35, <1>36, <1>37, <1>38, <1>39, <1>40, <1>41
       DEF Next, Loop, Execute, Submit

(***************************************************************************)
(* Every order and every request keeps the types of the variables, in      *)
(* whatever order the workers, the manager and the operator act.           *)
(***************************************************************************)
THEOREM TypeCorrect == Spec => []TypeOK
  BY TypeInit, TypeStep, PTL DEF Spec

-----------------------------------------------------------------------------
(* What a move of one loop leaves as it is                                 *)

LEMMA GotoMoves ==
    ASSUME LoopOK, NEW w \in Worker, NEW pc, Goto(w, pc)
    PROVE  /\ \A v \in Worker \ {w} : loop'[v] = loop[v]
           /\ loop'[w].order = [Order(w) EXCEPT !.pc = pc]
           /\ loop'[w].out = loop[w].out /\ loop'[w].reply = loop[w].reply
  BY DEF Goto, LoopOK, Loops, Order

LEMMA ReturnMoves ==
    ASSUME LoopOK, NEW w \in Worker, NEW s, NEW landable, NEW ref,
           Return(w, s, landable, ref)
    PROVE  /\ \A v \in Worker \ {w} : loop'[v] = loop[v]
           /\ loop'[w].order = [Order(w) EXCEPT !.pc = "submit"]
           /\ loop'[w].out = [status |-> s, landable |-> landable, ref |-> ref]
  BY DEF Return, LoopOK, Loops, Order

LEMMA AnsweredMoves ==
    ASSUME LoopOK, NEW w \in Worker, NEW r, Answered(w, r)
    PROVE  /\ \A v \in Worker \ {w} : loop'[v] = loop[v]
           /\ loop'[w].order = [Order(w) EXCEPT !.pc = "after"]
           /\ loop'[w].out = loop[w].out /\ loop'[w].reply = r
  BY DEF Answered, LoopOK, Loops, Order

LEMMA FreshMoves ==
    ASSUME LoopOK, NEW w \in Worker, NEW o,
           loop' = [loop EXCEPT ![w] = [order |-> o, out |-> NoOutcome, reply |-> "none"]]
    PROVE  /\ \A v \in Worker \ {w} : loop'[v] = loop[v]
           /\ loop'[w].order = o /\ loop'[w].out = NoOutcome /\ loop'[w].reply = "none"
  BY DEF LoopOK

LEMMA GivenMoves ==
    ASSUME LoopOK, NEW w \in Worker, NEW t, NEW a, Given(w, t, a)
    PROVE  /\ \A v \in Worker \ {w} : loop'[v] = loop[v]
           /\ loop'[w].order.pc = "begin" /\ loop'[w].order.task = t
           /\ loop'[w].order.attempt = a
           /\ loop'[w].out = NoOutcome /\ loop'[w].reply = "none"
  <1> DEFINE o == [pc |-> "begin", task |-> t, attempt |-> a,
                   kind |-> brief[t].steps[task[t].step]]
  <1>1. loop' = [loop EXCEPT ![w] = [order |-> o, out |-> NoOutcome, reply |-> "none"]]
    BY DEF Given
  <1> HIDE DEF o
  <1>2. /\ \A v \in Worker \ {w} : loop'[v] = loop[v]
        /\ loop'[w].order = o /\ loop'[w].out = NoOutcome /\ loop'[w].reply = "none"
    BY <1>1, FreshMoves
  <1> QED
    BY <1>2 DEF o

\* A change of pc keeps the order.
LEMMA SameOrder ==
    ASSUME LoopOK, NEW w \in Worker, NEW pc,
           loop'[w].order = [Order(w) EXCEPT !.pc = pc]
    PROVE  /\ At(w)' = pc
           /\ Order(w)'.task = Order(w).task /\ Order(w)'.attempt = Order(w).attempt
  <1>1. Order(w) \in Orders
    BY DEF LoopOK, Loops, Order
  <1> QED
    BY <1>1 DEF Orders, Order, At

\* An idle loop has no order, a busy one has a task.
LEMMA Occupied ==
    ASSUME LoopOK, NEW w \in Worker
    PROVE  /\ Order(w).attempt \in Nat
           /\ At(w) \in Busy => Order(w).task \in Task
           /\ At(w) \in {"checkin", "poll"} => Order(w).task = NoTask
  <1>1. Order(w) \in Orders
    BY DEF LoopOK, Loops, Order
  <1> QED
    BY <1>1 DEF Orders, Order, At, Busy, Executing

-----------------------------------------------------------------------------
(* Sessions                                                                *)

AttemptsOK == \A t \in Task : task[t].attempt <= attempts

\* What w remembers of a task is no later than its order of that task, which
\* is no later than the last lease of the task.
HintOK(w) ==
    /\ \A t \in Task : hints[w][t] <= attempts
    /\ Order(w).task \in Task =>
         /\ Order(w).attempt <= task[Order(w).task].attempt
         /\ hints[w][Order(w).task] <= Order(w).attempt
    /\ \A t \in Task : hints[w][t] # 0 =>
         Order(w).task = t \/ \E e \in cut : e.by = w /\ e.task = t /\ e.attempt >= hints[w][t]

HintInv == AttemptsOK /\ \A w \in Worker : HintOK(w)

\* Attempts are numbered upwards, and what was cut short stays so.
Grows ==
    /\ attempts' >= attempts /\ cut \subseteq cut'
    /\ \A t \in Task : task'[t].attempt >= task[t].attempt /\ task'[t].attempt <= attempts'

LEMMA SameAttempt ==
    ASSUME TypeOK, AttemptsOK, attempts' = attempts, cut \subseteq cut',
           \A t \in Task : task'[t].attempt = task[t].attempt
    PROVE  Grows
  BY DEF Grows, AttemptsOK, TypeOK, Tasks

LEMMA StateAttempt ==
    ASSUME TypeOK, AttemptsOK, attempts' = attempts, cut' = cut, NEW t \in Task,
           task' = task \/ (\E s : task' = [task EXCEPT ![t].state = s])
                        \/ task' = [task EXCEPT ![t] = StepDone(t)]
    PROVE  Grows
  <1>1. task[t] \in Tasks
    BY DEF TypeOK
  <1>2. StepDone(t).attempt = task[t].attempt
    BY <1>1 DEF StepDone, Tasks
  <1>3. \A u \in Task : task'[u].attempt = task[u].attempt
    <2>1. CASE task' = task
      BY <2>1
    <2>2. CASE \E s : task' = [task EXCEPT ![t].state = s]
      BY <1>1, <2>2 DEF TypeOK, Tasks
    <2>3. CASE task' = [task EXCEPT ![t] = StepDone(t)]
      BY <1>2, <2>3 DEF TypeOK
    <2> QED
      BY <2>1, <2>2, <2>3
  <1> QED
    BY <1>3, SameAttempt

LEMMA LeaseAttempt ==
    ASSUME TypeOK, AttemptsOK, cut' = cut, NEW w \in Worker, NEW t \in Task, NEW n,
           Lease(w, t, n)
    PROVE  Grows /\ attempts' = attempts + 1 /\ task'[t].attempt = attempts + 1
  BY DEF Lease, Grows, AttemptsOK, TypeOK, Tasks

\* A loop that keeps its order, and what it remembers.
LEMMA Still ==
    ASSUME TypeOK, TypeOK', Grows, NEW w \in Worker, HintOK(w),
           Order(w)'.task = Order(w).task, Order(w)'.attempt = Order(w).attempt,
           hints'[w] = hints[w]
    PROVE  HintOK(w)'
  <1>1. Order(w).attempt \in Nat
    BY Occupied DEF TypeOK, LoopOK
  <1>2. attempts \in Nat /\ attempts' \in Nat /\ \A t \in Task : hints[w][t] \in Nat
    BY DEF TypeOK
  <1>3. \A t \in Task : task[t].attempt \in Nat /\ task'[t].attempt \in Nat
    BY DEF TypeOK, Tasks
  <1> DEFINE o == Order(w).task
             a == Order(w).attempt
             h(t) == hints[w][t]
  <1>4. \A t \in Task : (hints[w][t])' = h(t)
    OBVIOUS
  <1>5. (\A t \in Task : hints[w][t] <= attempts)'
    BY <1>2, <1>4 DEF HintOK, Grows
  <1>6. (Order(w).task \in Task =>
           /\ Order(w).attempt <= task[Order(w).task].attempt
           /\ hints[w][Order(w).task] <= Order(w).attempt)'
    <2> SUFFICES ASSUME o \in Task
                 PROVE  a <= task'[o].attempt /\ h(o) <= a
      OBVIOUS
    <2>1. a <= task[o].attempt /\ h(o) <= a
      BY DEF HintOK
    <2> QED
      BY <1>1, <1>3, <2>1 DEF Grows
  <1>7. (\A t \in Task : hints[w][t] # 0 =>
           Order(w).task = t \/ \E e \in cut : e.by = w /\ e.task = t /\ e.attempt >= hints[w][t])'
    BY <1>4 DEF HintOK, Grows
  <1> QED
    BY <1>5, <1>6, <1>7 DEF HintOK

\* The other loops, and the whole of a step that moves no order.
LEMMA OthersStill ==
    ASSUME TypeOK, TypeOK', HintInv, Grows, NEW w \in Worker,
           \A v \in Worker \ {w} : loop'[v] = loop[v] /\ hints'[v] = hints[v],
           HintOK(w)'
    PROVE  HintInv'
  <1>1. \A v \in Worker \ {w} : HintOK(v)'
    BY Still DEF HintInv, Order
  <1> QED
    BY <1>1 DEF HintInv, AttemptsOK, Grows

LEMMA AllStill ==
    ASSUME TypeOK, TypeOK', HintInv, Grows, hints' = hints,
           \A v \in Worker : /\ Order(v)'.task = Order(v).task
                             /\ Order(v)'.attempt = Order(v).attempt
    PROVE  HintInv'
  BY Still DEF HintInv, AttemptsOK, Grows

\* A move of one loop with its order.
LEMMA MoveStill ==
    ASSUME TypeOK, TypeOK', HintInv, Grows, hints' = hints, NEW w \in Worker, NEW pc,
           \A v \in Worker \ {w} : loop'[v] = loop[v],
           loop'[w].order = [Order(w) EXCEPT !.pc = pc]
    PROVE  HintInv'
  <1>1. Order(w)'.task = Order(w).task /\ Order(w)'.attempt = Order(w).attempt
    BY SameOrder DEF TypeOK, LoopOK
  <1> QED
    BY <1>1, AllStill DEF Order

\* The loop drops an order: it has none, or the execution is recorded as cut.
LEMMA DropStill ==
    ASSUME TypeOK, TypeOK', HintInv, Grows, hints' = hints, NEW w \in Worker,
           \/ Order(w).task = NoTask
           \/ CutShort(w) \in cut',
           Recheck(w)
    PROVE  HintInv'
  <1>1. /\ \A v \in Worker \ {w} : loop'[v] = loop[v]
        /\ loop'[w].order = Idle("checkin")
    BY FreshMoves DEF Recheck, TypeOK, LoopOK
  <1>2. Order(w)'.task \notin Task
    BY <1>1, WorkerAssumption DEF Order, Idle
  <1>3. attempts \in Nat /\ attempts' \in Nat /\ \A t \in Task : hints[w][t] \in Nat
    BY DEF TypeOK
  <1>4. HintOK(w)
    BY DEF HintInv
  <1>5. (\A t \in Task : hints[w][t] <= attempts)'
    BY <1>3, <1>4 DEF HintOK, Grows
  <1>6. (\A t \in Task : hints[w][t] # 0 =>
           Order(w).task = t \/ \E e \in cut : e.by = w /\ e.task = t /\ e.attempt >= hints[w][t])'
    <2> SUFFICES ASSUME NEW t \in Task, hints[w][t] # 0
                 PROVE  \E e \in cut' : e.by = w /\ e.task = t /\ e.attempt >= hints[w][t]
      OBVIOUS
    <2>1. CASE Order(w).task = t
      <3>1. hints[w][t] <= Order(w).attempt /\ CutShort(w) \in cut'
        BY <1>4, <2>1, WorkerAssumption DEF HintOK
      <3>2. Order(w).attempt \in Nat
        BY Occupied DEF TypeOK, LoopOK
      <3> QED
        BY <1>3, <2>1, <3>1, <3>2 DEF CutShort
    <2>2. CASE Order(w).task # t
      BY <1>4, <2>2 DEF HintOK, Grows
    <2> QED
      BY <2>1, <2>2
  <1>7. HintOK(w)'
    BY <1>2, <1>5, <1>6 DEF HintOK
  <1> QED
    BY <1>1, <1>7, OthersStill

LEMMA HintInit == Init => HintInv
  <1> SUFFICES ASSUME Init PROVE HintInv
    OBVIOUS
  <1>1. AttemptsOK
    BY DEF Init, AttemptsOK
  <1>2. \A w \in Worker : HintOK(w)
    BY WorkerAssumption DEF Init, HintOK, Order, Idle
  <1> QED
    BY <1>1, <1>2 DEF HintInv

LEMMA RememberedStill ==
    ASSUME TypeOK, TypeOK', AttemptsOK, Grows, NEW w \in Worker, HintOK(w), Remembered(w),
           Order(w).task \in Task,
           Order(w)'.task = Order(w).task, Order(w)'.attempt = Order(w).attempt
    PROVE  HintOK(w)'
  <1>1. CASE hints' = hints
    BY <1>1, Still
  <1>2. CASE hints' = [hints EXCEPT ![w][Order(w).task] = Order(w).attempt]
    <2> DEFINE o == Order(w).task
               a == Order(w).attempt
    <2>1. /\ a \in Nat /\ attempts \in Nat /\ attempts' \in Nat
          /\ task[o].attempt \in Nat /\ task'[o].attempt \in Nat
      BY Occupied DEF TypeOK, LoopOK, Tasks
    <2>2. \A t \in Task : hints[w][t] \in Nat
      BY DEF TypeOK
    <2>3. \A t \in Task : hints'[w][t] = IF t = o THEN a ELSE hints[w][t]
      BY <1>2 DEF TypeOK
    <2>4. a <= task[o].attempt /\ task[o].attempt <= attempts
      BY DEF HintOK, AttemptsOK
    <2>5. (\A t \in Task : hints[w][t] <= attempts)'
      BY <2>1, <2>2, <2>3, <2>4 DEF HintOK, Grows
    <2>6. a <= task'[o].attempt /\ hints'[w][o] <= a
      BY <2>1, <2>3, <2>4 DEF Grows
    <2>7. \A t \in Task : hints'[w][t] # 0 =>
            o = t \/ \E e \in cut' : e.by = w /\ e.task = t /\ e.attempt >= hints'[w][t]
      BY <2>3 DEF HintOK, Grows
    <2> QED
      BY <2>5, <2>6, <2>7 DEF HintOK
  <1> QED
    BY <1>1, <1>2 DEF Remembered

LEMMA HintStep == ASSUME TypeOK, TypeOK', HintInv, [Next]_vars PROVE HintInv'
  <1> USE DEF setting, manager, disk, page, memory, history
  <1>0. LoopOK /\ AttemptsOK
    BY DEF TypeOK, LoopOK, HintInv
  <1>1. CASE UNCHANGED vars
    <2>1. Grows
      BY <1>0, <1>1, SameAttempt DEF vars
    <2> QED
      BY <1>1, <2>1, AllStill DEF vars, Order
  <1>2. ASSUME NEW w \in Worker, CheckIn(w) PROVE HintInv'
    <2>1. Grows
      BY <1>0, <1>2, SameAttempt DEF CheckIn
    <2> QED
      BY <1>0, <1>2, <2>1, GotoMoves, MoveStill DEF CheckIn
  <1>3. ASSUME NEW w \in Worker, PollIdle(w) PROVE HintInv'
    <2>1. Grows
      BY <1>0, <1>3, SameAttempt DEF PollIdle, Synced
    <2> QED
      BY <1>3, <2>1, AllStill DEF PollIdle, Synced, Order
  <1>4. ASSUME NEW w \in Worker, PollOrder(w) PROVE HintInv'
    <2> PICK t \in Offered(w) : Lease(w, t, task[t].step) /\ Given(w, t, attempts + 1)
      BY <1>4 DEF PollOrder
    <2>1. t \in Task
      BY DEF Offered
    <2>2. Grows /\ attempts' = attempts + 1 /\ task'[t].attempt = attempts + 1
      BY <1>0, <1>4, <2>1, LeaseAttempt DEF PollOrder, Synced
    <2>3. /\ \A v \in Worker \ {w} : loop'[v] = loop[v]
          /\ Order(w)'.task = t /\ Order(w)'.attempt = attempts + 1
      BY <1>0, GivenMoves DEF Order
    <2>4. hints' = hints /\ cut' = cut
      BY <1>4 DEF PollOrder, Synced
    <2>5. HintOK(w) /\ Order(w).task \notin Task
      BY <1>0, <1>4, Occupied, WorkerAssumption DEF HintInv, PollOrder
    <2>6. attempts \in Nat /\ \A u \in Task : hints[w][u] \in Nat
      BY DEF TypeOK
    <2>7. HintOK(w)'
      BY <2>1, <2>2, <2>3, <2>4, <2>5, <2>6 DEF HintOK
    <2> QED
      BY <2>2, <2>3, <2>4, <2>7, OthersStill
  <1>5. ASSUME NEW w \in Worker, Begin(w) PROVE HintInv'
    <2>1. Grows
      BY <1>0, <1>5, SameAttempt DEF Begin
    <2> QED
      BY <1>0, <1>5, <2>1, GotoMoves, MoveStill DEF Begin
  <1>6. ASSUME NEW w \in Worker, Refuse(w) PROVE HintInv'
    <2>1. Grows
      BY <1>0, <1>6, SameAttempt DEF Refuse, Fails
    <2> QED
      BY <1>0, <1>6, <2>1, ReturnMoves, MoveStill DEF Refuse, Fails
  <1>7. ASSUME NEW w \in Worker, Setup(w) PROVE HintInv'
    <2>1. Grows
      BY <1>0, <1>7, SameAttempt DEF Setup
    <2> QED
      BY <1>0, <1>7, <2>1, GotoMoves, MoveStill DEF Setup
  <1>8. ASSUME NEW w \in Worker, SetupFails(w) PROVE HintInv'
    <2>1. Grows
      BY <1>0, <1>8, SameAttempt DEF SetupFails, Fails
    <2> QED
      BY <1>0, <1>8, <2>1, ReturnMoves, MoveStill DEF SetupFails, Fails
  <1>9. ASSUME NEW w \in Worker, Materialize(w) PROVE HintInv'
    <2>1. Grows
      BY <1>0, <1>9, SameAttempt DEF Materialize
    <2> QED
      BY <1>0, <1>9, <2>1, GotoMoves, MoveStill DEF Materialize
  <1>10. ASSUME NEW w \in Worker, Unavailable(w) PROVE HintInv'
    <2>1. Grows
      BY <1>0, <1>10, SameAttempt DEF Unavailable, Fails
    <2> QED
      BY <1>0, <1>10, <2>1, ReturnMoves, MoveStill DEF Unavailable, Fails
  <1>11. ASSUME NEW w \in Worker, ScratchReadOnly(w) PROVE HintInv'
    <2>1. Grows /\ CutShort(w) \in cut'
      BY <1>0, <1>11, SameAttempt DEF ScratchReadOnly, Raises
    <2> QED
      BY <1>11, <2>1, DropStill DEF ScratchReadOnly, Raises
  <1>12. ASSUME NEW w \in Worker, Preflight(w) PROVE HintInv'
    <2>1. Grows
      BY <1>0, <1>12, SameAttempt DEF Preflight
    <2> QED
      BY <1>0, <1>12, <2>1, GotoMoves, MoveStill DEF Preflight
  <1>13. ASSUME NEW w \in Worker, PreflightFails(w) PROVE HintInv'
    <2>1. Grows
      BY <1>0, <1>13, SameAttempt DEF PreflightFails, Fails
    <2> QED
      BY <1>0, <1>13, <2>1, ReturnMoves, MoveStill DEF PreflightFails, Fails
  <1>14. ASSUME NEW w \in Worker, Unlaunched(w) PROVE HintInv'
    <2>1. Grows
      BY <1>0, <1>14, SameAttempt DEF Unlaunched, Fails
    <2> QED
      BY <1>0, <1>14, <2>1, ReturnMoves, MoveStill DEF Unlaunched, Fails
  <1>15. ASSUME NEW w \in Worker, RunDoc(w) PROVE HintInv'
    <2>1. Grows
      BY <1>0, <1>15, SameAttempt DEF RunDoc
    <2>2. /\ \A v \in Worker \ {w} : loop'[v] = loop[v]
          /\ Order(w)'.task = Order(w).task /\ Order(w)'.attempt = Order(w).attempt
      BY <1>0, <1>15, ReturnMoves, SameOrder DEF RunDoc
    <2>3. Order(w).task \in Task
      BY <1>0, <1>15, Occupied DEF RunDoc, Busy, Executing
    <2>4. Remembered(w) /\ HintOK(w)
      BY <1>15 DEF RunDoc, HintInv
    <2>5. HintOK(w)'
      BY <1>0, <2>1, <2>2, <2>3, <2>4, RememberedStill
    <2>6. \A v \in Worker \ {w} : hints'[v] = hints[v]
      BY <2>4 DEF Remembered, TypeOK
    <2> QED
      BY <2>1, <2>2, <2>5, <2>6, OthersStill
  <1>16. ASSUME NEW w \in Worker, RunCode(w) PROVE HintInv'
    <2>1. Grows
      BY <1>0, <1>16, SameAttempt DEF RunCode
    <2>2. /\ \A v \in Worker \ {w} : loop'[v] = loop[v]
          /\ Order(w)'.task = Order(w).task /\ Order(w)'.attempt = Order(w).attempt
      BY <1>0, <1>16, GotoMoves, SameOrder DEF RunCode
    <2>3. Order(w).task \in Task
      BY <1>0, <1>16, Occupied DEF RunCode, Busy, Executing
    <2>4. Remembered(w) /\ HintOK(w)
      BY <1>16 DEF RunCode, HintInv
    <2>5. HintOK(w)'
      BY <1>0, <2>1, <2>2, <2>3, <2>4, RememberedStill
    <2>6. \A v \in Worker \ {w} : hints'[v] = hints[v]
      BY <2>4 DEF Remembered, TypeOK
    <2> QED
      BY <2>1, <2>2, <2>5, <2>6, OthersStill
  <1>17. ASSUME NEW w \in Worker, JudgeBlocked(w) PROVE HintInv'
    <2>1. Grows
      BY <1>0, <1>17, SameAttempt DEF JudgeBlocked, Judged
    <2> QED
      BY <1>0, <1>17, <2>1, ReturnMoves, MoveStill DEF JudgeBlocked, Judged
  <1>18. ASSUME NEW w \in Worker, JudgeError(w) PROVE HintInv'
    <2>1. Grows
      BY <1>0, <1>18, SameAttempt DEF JudgeError, Judged
    <2> QED
      BY <1>0, <1>18, <2>1, ReturnMoves, MoveStill DEF JudgeError, Judged
  <1>19. ASSUME NEW w \in Worker, JudgeSplit(w) PROVE HintInv'
    <2>1. Grows
      BY <1>0, <1>19, SameAttempt DEF JudgeSplit, Judged
    <2> QED
      BY <1>0, <1>19, <2>1, ReturnMoves, MoveStill DEF JudgeSplit, Judged
  <1>20. ASSUME NEW w \in Worker, JudgeEmpty(w) PROVE HintInv'
    <2>1. Grows
      BY <1>0, <1>20, SameAttempt DEF JudgeEmpty, Judged
    <2> QED
      BY <1>0, <1>20, <2>1, ReturnMoves, MoveStill DEF JudgeEmpty, Judged
  <1>21. ASSUME NEW w \in Worker, JudgeWork(w) PROVE HintInv'
    <2>1. Grows
      BY <1>0, <1>21, SameAttempt DEF JudgeWork
    <2> QED
      BY <1>0, <1>21, <2>1, GotoMoves, MoveStill DEF JudgeWork
  <1>22. ASSUME NEW w \in Worker, Validate(w) PROVE HintInv'
    <2>1. Grows
      BY <1>0, <1>22, SameAttempt DEF Validate
    <2> QED
      BY <1>0, <1>22, <2>1, GotoMoves, MoveStill DEF Validate
  <1>23. ASSUME NEW w \in Worker, ValidateFails(w) PROVE HintInv'
    <2>1. Grows
      BY <1>0, <1>23, SameAttempt DEF ValidateFails, Fails
    <2> QED
      BY <1>0, <1>23, <2>1, ReturnMoves, MoveStill DEF ValidateFails, Fails
  <1>24. ASSUME NEW w \in Worker, Publish(w) PROVE HintInv'
    <2>1. Grows
      BY <1>0, <1>24, SameAttempt DEF Publish
    <2> QED
      BY <1>0, <1>24, <2>1, ReturnMoves, MoveStill DEF Publish
  <1>25. ASSUME NEW w \in Worker, PublishFails(w) PROVE HintInv'
    <2>1. Grows
      BY <1>0, <1>25, SameAttempt DEF PublishFails, Fails
    <2> QED
      BY <1>0, <1>25, <2>1, ReturnMoves, MoveStill DEF PublishFails, Fails
  <1>26. ASSUME NEW w \in Worker, SubmitRefused(w) PROVE HintInv'
    <2>1. Grows
      BY <1>0, <1>26, SameAttempt DEF SubmitRefused
    <2> QED
      BY <1>0, <1>26, <2>1, AnsweredMoves, MoveStill DEF SubmitRefused
  <1>27. ASSUME NEW w \in Worker, SubmitLand(w) PROVE HintInv'
    <2>1. Order(w).task \in Task
      BY <1>0, <1>27, Occupied DEF SubmitLand, Busy
    <2>2. Grows
      BY <1>0, <1>27, <2>1, StateAttempt DEF SubmitLand
    <2> QED
      BY <1>0, <1>27, <2>2, AnsweredMoves, MoveStill DEF SubmitLand, Delivered
  <1>28. ASSUME NEW w \in Worker, SubmitStep(w) PROVE HintInv'
    <2>1. Order(w).task \in Task
      BY <1>0, <1>28, Occupied DEF SubmitStep, Busy
    <2>2. Grows
      BY <1>0, <1>28, <2>1, StateAttempt DEF SubmitStep
    <2> QED
      BY <1>0, <1>28, <2>2, AnsweredMoves, MoveStill DEF SubmitStep, Delivered
  <1>29. ASSUME NEW w \in Worker, SubmitChain(w) PROVE HintInv'
    <2>1. Order(w).task \in Task
      BY <1>0, <1>29, Occupied DEF SubmitChain, Busy
    <2>2. Grows
      BY <1>0, <1>29, <2>1, LeaseAttempt DEF SubmitChain
    <2> QED
      BY <1>0, <1>29, <2>2, AnsweredMoves, MoveStill DEF SubmitChain, Delivered
  <1>30. ASSUME NEW w \in Worker, SubmitFailure(w) PROVE HintInv'
    <2>1. Order(w).task \in Task
      BY <1>0, <1>30, Occupied DEF SubmitFailure, Busy
    <2>2. Grows
      BY <1>0, <1>30, <2>1, StateAttempt DEF SubmitFailure
    <2> QED
      BY <1>0, <1>30, <2>2, AnsweredMoves, MoveStill DEF SubmitFailure, Delivered
  <1>31. ASSUME NEW w \in Worker, After(w) PROVE HintInv'
    <2>1. Grows
      BY <1>0, <1>31, SameAttempt DEF After
    <2>2. Order(w).task \in Task /\ HintOK(w) /\ Order(w).attempt \in Nat
      BY <1>0, <1>31, Occupied DEF After, Busy, HintInv
    <2>3. \A v \in Worker \ {w} : loop'[v] = loop[v]
      BY <1>0, <1>31, FreshMoves DEF After, Given
    <2>4. hints \in [Worker -> [Task -> Nat]] /\ attempts \in Nat
          /\ attempts' = attempts /\ cut' = cut /\ task' = task
      BY <1>31 DEF TypeOK, After
    <2>5. task[Order(w).task].attempt \in Nat /\ task[Order(w).task].attempt <= attempts
      BY <1>0, <2>2 DEF TypeOK, Tasks, AttemptsOK
    <2>6. HintOK(w)'
      <3>1. CASE loop[w].reply = "next"
        <4>1. hints' = hints
          BY <1>31, <3>1 DEF After, Forgotten
        <4>2. Order(w)'.task = Order(w).task
              /\ Order(w)'.attempt = task[Order(w).task].attempt
          BY <1>0, <1>31, <3>1, GivenMoves DEF After, Order
        <4>3. hints[w][Order(w).task] <= task[Order(w).task].attempt
          BY <2>2, <2>4, <2>5 DEF HintOK
        <4> QED
          BY <2>2, <2>4, <2>5, <4>1, <4>2, <4>3 DEF HintOK
      <3>2. CASE loop[w].reply # "next"
        <4>1. hints' = [hints EXCEPT ![w][Order(w).task] = 0]
          BY <1>31, <3>2 DEF After, Forgotten
        <4>2. Order(w)'.task = NoTask
          BY <1>0, <1>31, <3>2, FreshMoves DEF After, Order, Idle
        <4>3. \A t \in Task : hints'[w][t] = IF t = Order(w).task THEN 0 ELSE hints[w][t]
          BY <2>2, <2>4, <4>1
        <4> QED
          BY <2>2, <2>4, <4>2, <4>3, WorkerAssumption DEF HintOK
      <3> QED
        BY <3>1, <3>2
    <2>7. \A v \in Worker \ {w} : hints'[v] = hints[v]
      BY <1>31, <2>4 DEF After, Forgotten
    <2> QED
      BY <2>1, <2>3, <2>6, <2>7, OthersStill
  <1>32. ASSUME NEW w \in Worker, RequestFails(w) PROVE HintInv'
    <2>1. Grows /\ Order(w).task = NoTask
      BY <1>0, <1>32, SameAttempt, Occupied DEF RequestFails
    <2> QED
      BY <1>32, <2>1, DropStill DEF RequestFails
  <1>33. ASSUME NEW w \in Worker, PollLost(w) PROVE HintInv'
    <2> PICK t \in Offered(w) : Lease(w, t, task[t].step)
      BY <1>33 DEF PollLost
    <2>1. t \in Task
      BY DEF Offered
    <2>2. Grows
      BY <1>0, <1>33, <2>1, LeaseAttempt DEF PollLost
    <2>3. Order(w).task = NoTask
      BY <1>0, <1>33, Occupied DEF PollLost
    <2> QED
      BY <1>33, <2>2, <2>3, DropStill DEF PollLost
  <1>34. ASSUME NEW w \in Worker, Raise(w) PROVE HintInv'
    <2>1. Grows /\ CutShort(w) \in cut'
      BY <1>0, <1>34, SameAttempt DEF Raise, Raises
    <2> QED
      BY <1>34, <2>1, DropStill DEF Raise, Raises
  <1>35. ASSUME NEW w \in Worker, Reborn(w) PROVE HintInv'
    <2>1. Grows
      BY <1>0, <1>35, SameAttempt DEF Reborn
    <2>2. /\ \A v \in Worker \ {w} : loop'[v] = loop[v]
          /\ loop'[w].order = Idle("checkin")
      BY <1>0, <1>35, FreshMoves DEF Reborn, Recheck
    <2>3. hints' = [hints EXCEPT ![w] = [t \in Task |-> 0]] /\ attempts' \in Nat
      BY <1>35 DEF Reborn, TypeOK
    <2>4. hints'[w] = [t \in Task |-> 0] /\ \A v \in Worker \ {w} : hints'[v] = hints[v]
      BY <2>3 DEF TypeOK
    <2>5. Order(w)'.task \notin Task
      BY <2>2, WorkerAssumption DEF Order, Idle
    <2>6. HintOK(w)'
      BY <2>3, <2>4, <2>5 DEF HintOK
    <2> QED
      BY <2>1, <2>2, <2>4, <2>6, OthersStill
  <1>36. ASSUME NEW w \in Worker, Restart(w) PROVE HintInv'
    <2>1. Grows
      BY <1>0, <1>36, SameAttempt DEF Restart
    <2> QED
      BY <1>36, <2>1, AllStill DEF Restart, Order
  <1>37. ASSUME NEW t \in Task, Expire(t) PROVE HintInv'
    <2>1. Grows
      BY <1>0, <1>37, StateAttempt DEF Expire
    <2> QED
      BY <1>37, <2>1, AllStill DEF Expire, Order
  <1>38. ASSUME NEW t \in Task, Retry(t) PROVE HintInv'
    <2>1. Grows
      BY <1>0, <1>38, StateAttempt DEF Retry
    <2> QED
      BY <1>38, <2>1, AllStill DEF Retry, Order
  <1>39. ASSUME NEW t \in Task, Land(t) PROVE HintInv'
    <2> PICK state \in {"done", "failed", "queued"} :
          task' = [task EXCEPT ![t] = IF state = "done" THEN StepDone(t)
                                      ELSE [task[t] EXCEPT !.state = state]]
      BY <1>39 DEF Land
    <2>1. task' = [task EXCEPT ![t].state = state] \/ task' = [task EXCEPT ![t] = StepDone(t)]
      OBVIOUS
    <2>2. Grows
      BY <1>0, <1>39, <2>1, StateAttempt DEF Land
    <2> QED
      BY <1>39, <2>2, AllStill DEF Land, Order
  <1>40. CASE Play
    <2>1. \A t \in Task : task'[t].attempt = task[t].attempt
      BY <1>40 DEF Play, TypeOK, Tasks
    <2>2. Grows
      BY <1>0, <1>40, <2>1, SameAttempt DEF Play
    <2> QED
      BY <1>40, <2>2, AllStill DEF Play, Order
  <1> QED
    BY <1>1, <1>2, <1>3, <1>4, <1>5, <1>6, <1>7, <1>8, <1>9, <1>10, <1>11,
       <1>12, <1>13, <1>14, <1>15, <1>16, <1>17, <1>18, <1>19, <1>20, <1>21,
       <1>22, <1>23, <1>24, <1>25, <1>26, <1>27, <1>28, <1>29, <1>30, <1>31,
       <1>32, <1>33, <1>34, <1>35, <1>36, <1>37, <1>38, <1>39, <1>40
       DEF Next, Loop, Execute, Submit, Crash, Shutdown

(***************************************************************************)
(* A remembered backend session belongs to the order at hand or to an      *)
(* execution that was cut short: the loop forgets a session at the end of  *)
(* the chain of orders it came from (loop.py:362-367), so the next task    *)
(* starts a session of its own.                                            *)
(***************************************************************************)
THEOREM HintsAreLiveHolds == Spec => []HintsAreLive
  <1>1. TypeOK /\ HintInv => HintsAreLive
    BY DEF HintInv, HintOK, HintsAreLive
  <1>2. Init => TypeOK /\ HintInv
    BY TypeInit, HintInit
  <1>3. TypeOK /\ HintInv /\ [Next]_vars => (TypeOK /\ HintInv)'
    BY TypeStep, HintStep
  <1> QED
    BY <1>1, <1>2, <1>3, PTL DEF Spec

-----------------------------------------------------------------------------
(* Worktrees                                                               *)

\* Where a worker relies on its lease.
Owns(w) ==
    \/ At(w) \in Executing \cup {"begin"}
    \/ At(w) = "after" /\ loop[w].reply = "next"

\* From the answer that brings an order to the end of its execution its lease
\* is the task's; while it is executed the heartbeats are for that lease, and
\* since the cut of the worktree that is its own.
OwnOK(w) ==
    /\ Owns(w) => task[Order(w).task].state = "leased" /\ task[Order(w).task].by = w
    /\ At(w) \in Executing \cup {"begin"} => task[Order(w).task].attempt = Order(w).attempt
    /\ At(w) \in Executing => beat[w] = Order(w).attempt
    /\ loop[w].out.ref => remote
    /\ At(w) \in Executing \ {"setup"} => TreeOf(w).by = Order(w).attempt

OwnInv == \A w \in Worker : OwnOK(w)

\* A loop that stands still keeps what is its own.
LEMMA OwnStill ==
    ASSUME TypeOK, NEW w \in Worker, OwnOK(w), remote' = remote,
           loop'[w] = loop[w], beat'[w] = beat[w],
           Owns(w) => task'[Order(w).task] = task[Order(w).task],
           At(w) \in Executing =>
             tree'[SiteOf(w)][Order(w).task].by = tree[SiteOf(w)][Order(w).task].by
    PROVE  OwnOK(w)'
  <1>1. Order(w)' = Order(w) /\ At(w)' = At(w) /\ SiteOf(w)' = SiteOf(w)
    BY DEF Order, At, SiteOf
  <1>2. Owns(w)' = Owns(w)
    BY <1>1 DEF Owns
  <1>3. At(w) \in Executing => TreeOf(w)'.by = TreeOf(w).by
    BY <1>1 DEF TreeOf
  <1> QED
    BY <1>1, <1>2, <1>3 DEF OwnOK, Owns

\* A step of w touches the task it leases, or one that is not leased ...
TaskSafe(w) ==
    \/ task' = task
    \/ \E t \in Task : /\ \E x : task' = [task EXCEPT ![t] = x]
                       /\ task[t].state # "leased" \/ task[t].by = w

\* ... and the worktree of its order, where no other worker has that path.
TreeSafe(w) ==
    \A s \in Site, t \in Task :
        \/ tree'[s][t] = tree[s][t]
        \/ (At(w) \in Executing \/ remote) /\ s = SiteOf(w) /\ t = Order(w).task

LEMMA TreeKept ==
    ASSUME TypeOK, OwnInv, NEW w \in Worker, TreeSafe(w), NEW v \in Worker \ {w},
           At(v) \in Executing
    PROVE  tree'[SiteOf(v)][Order(v).task] = tree[SiteOf(v)][Order(v).task]
  <1>1. SiteOf(v) \in Site /\ Order(v).task \in Task
    BY SiteType, Occupied DEF TypeOK, LoopOK, Busy
  <1>2. CASE At(w) \in Executing
    <2>1. Owns(v) /\ Owns(w)
      BY <1>2 DEF Owns
    <2>2. task[Order(v).task].by = v /\ task[Order(w).task].by = w
      BY <2>1 DEF OwnInv, OwnOK
    <2>3. Order(v).task # Order(w).task
      BY <2>2
    <2> QED
      BY <1>1, <2>3 DEF TreeSafe
  <1>3. CASE At(w) \notin Executing /\ remote
    <2>1. SiteOf(v) # SiteOf(w)
      BY <1>3 DEF SiteOf
    <2> QED
      BY <1>1, <2>1 DEF TreeSafe
  <1>4. CASE At(w) \notin Executing /\ ~remote
    BY <1>1, <1>4 DEF TreeSafe
  <1> QED
    BY <1>2, <1>3, <1>4

LEMMA OwnOthers ==
    ASSUME TypeOK, OwnInv, NEW w \in Worker, remote' = remote,
           \A v \in Worker \ {w} : loop'[v] = loop[v] /\ beat'[v] = beat[v],
           TaskSafe(w), TreeSafe(w), OwnOK(w)'
    PROVE  OwnInv'
  <1>1. ASSUME NEW v \in Worker \ {w} PROVE OwnOK(v)'
    <2>1. OwnOK(v)
      BY DEF OwnInv
    <2>2. Owns(v) => task'[Order(v).task] = task[Order(v).task]
      <3> SUFFICES ASSUME Owns(v) PROVE task'[Order(v).task] = task[Order(v).task]
        OBVIOUS
      <3>1. task[Order(v).task].state = "leased" /\ task[Order(v).task].by = v
        BY <2>1 DEF OwnOK
      <3>2. CASE task' = task
        BY <3>2
      <3>3. CASE task' # task
        <4>1. PICK t \in Task : /\ \E x : task' = [task EXCEPT ![t] = x]
                                /\ task[t].state # "leased" \/ task[t].by = w
          BY <3>3 DEF TaskSafe
        <4>2. PICK x : task' = [task EXCEPT ![t] = x]
          BY <4>1
        <4>3. Order(v).task # t /\ Order(v).task \in Task
          BY <3>1, <4>1, Occupied DEF TypeOK, LoopOK, Owns, Busy
        <4> QED
          BY <4>2, <4>3 DEF TypeOK
      <3> QED
        BY <3>2, <3>3
    <2>3. At(v) \in Executing =>
            tree'[SiteOf(v)][Order(v).task].by = tree[SiteOf(v)][Order(v).task].by
      BY TreeKept
    <2> QED
      BY <2>1, <2>2, <2>3, OwnStill
  <1> QED
    BY <1>1 DEF OwnInv

LEMMA OwnAll ==
    ASSUME TypeOK, OwnInv, remote' = remote, loop' = loop, beat' = beat,
           \A v \in Worker : Owns(v) => task'[Order(v).task] = task[Order(v).task],
           \A v \in Worker : At(v) \in Executing =>
             tree'[SiteOf(v)][Order(v).task].by = tree[SiteOf(v)][Order(v).task].by
    PROVE  OwnInv'
  BY OwnStill DEF OwnInv

\* A loop that is done with its execution owns nothing.
LEMMA Released ==
    ASSUME NEW w \in Worker,
           At(w)' \notin Executing \cup {"begin"},
           At(w)' = "after" => loop'[w].reply # "next",
           loop'[w].out.ref => remote'
    PROVE  OwnOK(w)'
  BY DEF OwnOK, Owns

LEMMA Returned ==
    ASSUME LoopOK, NEW w \in Worker, NEW s, NEW landable, NEW ref,
           Return(w, s, landable, ref)
    PROVE  At(w)' = "submit" /\ loop'[w].out.ref = ref
  <1>1. /\ loop'[w].order = [Order(w) EXCEPT !.pc = "submit"]
        /\ loop'[w].out = [status |-> s, landable |-> landable, ref |-> ref]
    BY ReturnMoves
  <1> QED
    BY <1>1, SameOrder

LEMMA Submits ==
    ASSUME LoopOK, NEW w \in Worker, NEW s, NEW landable, NEW ref,
           Return(w, s, landable, ref)
    PROVE  /\ \A v \in Worker \ {w} : loop'[v] = loop[v]
           /\ At(w)' = "submit" /\ loop'[w].out.landable = landable
  <1>1. /\ \A v \in Worker \ {w} : loop'[v] = loop[v]
        /\ loop'[w].order = [Order(w) EXCEPT !.pc = "submit"]
        /\ loop'[w].out = [status |-> s, landable |-> landable, ref |-> ref]
    BY ReturnMoves
  <1> QED
    BY <1>1, SameOrder

LEMMA WentTo ==
    ASSUME LoopOK, NEW w \in Worker, NEW pc, Goto(w, pc)
    PROVE  At(w)' = pc /\ \A v \in Worker \ {w} : loop'[v] = loop[v]
  <1>1. /\ \A v \in Worker \ {w} : loop'[v] = loop[v]
        /\ loop'[w].order = [Order(w) EXCEPT !.pc = pc]
    BY GotoMoves
  <1> QED
    BY <1>1, SameOrder

LEMMA Replied ==
    ASSUME LoopOK, NEW w \in Worker, NEW reply, Answered(w, reply)
    PROVE  At(w)' = "after" /\ \A v \in Worker \ {w} : loop'[v] = loop[v]
  BY AnsweredMoves, SameOrder

LEMMA StepDoneState ==
    ASSUME NEW t \in Task, task[t] \in Tasks
    PROVE  StepDone(t).state \in {"queued", "done"}
  BY DEF StepDone, Tasks

LEMMA Rechecked ==
    ASSUME LoopOK, NEW w \in Worker, Recheck(w)
    PROVE  /\ \A v \in Worker \ {w} : loop'[v] = loop[v]
           /\ At(w)' = "checkin" /\ loop'[w].out.ref = FALSE
  <1>1. /\ \A v \in Worker \ {w} : loop'[v] = loop[v]
        /\ loop'[w].order = Idle("checkin") /\ loop'[w].out = NoOutcome
    BY FreshMoves DEF Recheck
  <1> QED
    BY <1>1 DEF Idle, At, Order, NoOutcome

\* An execution goes on.
LEMMA GoesOn ==
    ASSUME TypeOK, NEW w \in Worker, OwnOK(w), remote' = remote, task' = task, beat' = beat,
           At(w) \in Executing, NEW pc \in Executing \ {"setup"}, Goto(w, pc),
           tree'[SiteOf(w)][Order(w).task].by = Order(w).attempt
    PROVE  OwnOK(w)'
  <1>1. /\ loop'[w].order = [Order(w) EXCEPT !.pc = pc]
        /\ loop'[w].out = loop[w].out
    BY GotoMoves DEF TypeOK, LoopOK
  <1>2. At(w)' = pc /\ Order(w)'.task = Order(w).task /\ Order(w)'.attempt = Order(w).attempt
    BY <1>1, SameOrder DEF TypeOK, LoopOK
  <1>3. Owns(w) /\ pc # "after" /\ pc # "begin"
    BY DEF Owns, Executing
  <1>4. TreeOf(w)'.by = Order(w).attempt
    BY <1>2 DEF TreeOf, SiteOf
  <1> QED
    BY <1>1, <1>2, <1>3, <1>4 DEF OwnOK

\* The worktrees of a step that cuts, tears down or leaves one alone.
LEMMA TreeChange ==
    ASSUME TypeOK, NEW w \in Worker,
           \/ tree' = tree
           \/ /\ At(w) \in Executing \/ remote
              /\ \E x : tree' = [tree EXCEPT ![SiteOf(w)][Order(w).task] = x]
    PROVE  TreeSafe(w)
  BY DEF TreeSafe, TypeOK

\* The agent's commits change nothing else.
LEMMA CommittedTree ==
    ASSUME TypeOK, NEW w \in Worker, At(w) \in Executing, tree' \in {tree, Committed(w)}
    PROVE  /\ TreeSafe(w)
           /\ tree'[SiteOf(w)][Order(w).task].by = TreeOf(w).by
           /\ tree'[SiteOf(w)][Order(w).task].commits
                \subseteq TreeOf(w).commits \cup {Order(w).attempt}
  <1>1. CASE tree' = tree
    BY <1>1, TreeChange DEF TreeOf
  <1>2. CASE tree' # tree
    <2> DEFINE x == TreeOf(w)
               y == [x EXCEPT !.commits = @ \cup {Order(w).attempt}]
    <2>1. Order(w).task \in Task /\ SiteOf(w) \in Site
      BY Occupied, SiteType DEF TypeOK, LoopOK, Busy
    <2>2. x \in Trees
      BY <2>1 DEF TypeOK, TreeOf
    <2>3. tree' = [tree EXCEPT ![SiteOf(w)][Order(w).task] = y]
      BY <1>2 DEF Committed, TreeOf
    <2>4. y.by = x.by /\ y.commits = x.commits \cup {Order(w).attempt}
      BY <2>2 DEF Trees
    <2>5. tree'[SiteOf(w)][Order(w).task] = y
      BY <2>1, <2>3 DEF TypeOK
    <2>6. TreeSafe(w)
      BY <2>3, TreeChange
    <2> QED
      BY <2>4, <2>5, <2>6
  <1> QED
    BY <1>1, <1>2

LEMMA OwnInit == Init => OwnInv
  BY DEF Init, OwnInv, OwnOK, Owns, At, Executing, Idle, NoOutcome

LEMMA OwnStep ==
    ASSUME Partition = FALSE, TypeOK, OwnInv, [Next]_vars
    PROVE  OwnInv'
  <1> USE DEF setting, manager, disk, page, memory, history
  <1>0. LoopOK
    BY DEF TypeOK, LoopOK
  <1>1. CASE UNCHANGED vars
    BY <1>1, OwnAll DEF vars
  <1>2. ASSUME NEW w \in Worker, CheckIn(w) PROVE OwnInv'
    <2>1. /\ \A v \in Worker \ {w} : loop'[v] = loop[v]
          /\ At(w)' = "poll" /\ loop'[w].out = loop[w].out
      <3>1. Goto(w, "poll")
        BY <1>2 DEF CheckIn
      <3>2. /\ \A v \in Worker \ {w} : loop'[v] = loop[v]
            /\ loop'[w].order = [Order(w) EXCEPT !.pc = "poll"]
            /\ loop'[w].out = loop[w].out
        BY <1>0, <3>1, GotoMoves
      <3> QED
        BY <1>0, <3>2, SameOrder
    <2>2. OwnOK(w)'
      BY <1>2, <2>1, Released DEF Executing, OwnInv, OwnOK, CheckIn
    <2> QED
      BY <1>2, <2>1, <2>2, TreeChange, OwnOthers DEF CheckIn, TaskSafe
  <1>3. ASSUME NEW w \in Worker, PollIdle(w) PROVE OwnInv'
    BY <1>3, OwnAll DEF PollIdle, Synced
  <1>4. ASSUME NEW w \in Worker, PollOrder(w) PROVE OwnInv'
    <2> PICK t \in Offered(w) : Lease(w, t, task[t].step) /\ Given(w, t, attempts + 1)
      BY <1>4 DEF PollOrder
    <2>1. t \in Task /\ task[t].state = "queued"
      BY DEF Offered
    <2>2. /\ \A v \in Worker \ {w} : loop'[v] = loop[v]
          /\ At(w)' = "begin" /\ Order(w)'.task = t /\ Order(w)'.attempt = attempts + 1
          /\ loop'[w].out.ref = FALSE
      BY <1>0, GivenMoves DEF Order, At, NoOutcome
    <2>3. TaskSafe(w)
      BY <2>1 DEF Lease, TaskSafe
    <2>4. /\ task'[t].state = "leased" /\ task'[t].by = w
          /\ task'[t].attempt = attempts + 1
      BY <2>1 DEF Lease, TypeOK
    <2>5. OwnOK(w)'
      BY <2>2, <2>4 DEF OwnOK, Owns, Executing
    <2> QED
      BY <1>4, <2>2, <2>3, <2>5, TreeChange, OwnOthers DEF PollOrder
  <1>5. ASSUME NEW w \in Worker, Begin(w) PROVE OwnInv'
    <2>1. /\ \A v \in Worker \ {w} : loop'[v] = loop[v]
          /\ loop'[w].order = [Order(w) EXCEPT !.pc = "setup"]
          /\ loop'[w].out = loop[w].out
      BY <1>0, <1>5, GotoMoves DEF Begin
    <2>2. /\ At(w)' = "setup"
          /\ Order(w)'.task = Order(w).task /\ Order(w)'.attempt = Order(w).attempt
      BY <1>0, <2>1, SameOrder
    <2>3. beat'[w] = Order(w).attempt /\ \A v \in Worker \ {w} : beat'[v] = beat[v]
      BY <1>5 DEF Begin, TypeOK
    <2>4. OwnOK(w) /\ Owns(w) /\ task' = task /\ remote' = remote
      BY <1>5 DEF OwnInv, Owns, Begin
    <2>5. OwnOK(w)'
      BY <1>5, <2>1, <2>2, <2>3, <2>4 DEF OwnOK, Begin
    <2> QED
      BY <1>5, <2>1, <2>3, <2>5, TreeChange, OwnOthers DEF Begin, TaskSafe
  <1>6. ASSUME NEW w \in Worker, Refuse(w) PROVE OwnInv'
    <2>1. OwnOK(w)'
      <3>1. At(w)' = "submit" /\ (loop'[w].out.ref => remote')
        BY <1>0, <1>6, Returned DEF Refuse, Fails
      <3> QED
        BY <3>1, Released DEF Executing
    <2>2. TreeSafe(w)
      BY <1>6, TreeChange DEF Refuse, Fails, Teardown, Executing
    <2>3. \A v \in Worker \ {w} : loop'[v] = loop[v] /\ beat'[v] = beat[v]
      BY <1>0, <1>6, ReturnMoves DEF Refuse, Fails, Return, TypeOK
    <2> QED
      BY <1>6, <2>1, <2>2, <2>3, OwnOthers DEF Refuse, Fails, TaskSafe
  <1>7. ASSUME NEW w \in Worker, Setup(w) PROVE OwnInv'
    <2>1. Order(w).task \in Task /\ SiteOf(w) \in Site
      BY <1>0, <1>7, Occupied, SiteType DEF Setup, Busy, Executing
    <2>2. tree'[SiteOf(w)][Order(w).task].by = Order(w).attempt
      BY <1>7, <2>1 DEF Setup, Cut, TypeOK
    <2>3. OwnOK(w)'
      BY <1>7, <2>2, GoesOn DEF Setup, Executing, OwnInv
    <2>4. TreeSafe(w)
      BY <1>7, TreeChange DEF Setup, Cut, Executing
    <2>5. \A v \in Worker \ {w} : loop'[v] = loop[v] /\ beat'[v] = beat[v]
      BY <1>0, <1>7, GotoMoves DEF Setup
    <2> QED
      BY <1>7, <2>3, <2>4, <2>5, OwnOthers DEF Setup, TaskSafe
  <1>8. ASSUME NEW w \in Worker, SetupFails(w) PROVE OwnInv'
    <2>1. OwnOK(w)'
      <3>1. At(w)' = "submit" /\ (loop'[w].out.ref => remote')
        BY <1>0, <1>8, Returned DEF SetupFails, Fails
      <3> QED
        BY <3>1, Released DEF Executing
    <2>2. TreeSafe(w)
      BY <1>8, TreeChange DEF SetupFails, Fails, Teardown, Executing
    <2>3. \A v \in Worker \ {w} : loop'[v] = loop[v] /\ beat'[v] = beat[v]
      BY <1>0, <1>8, ReturnMoves DEF SetupFails, Fails, Return, TypeOK
    <2> QED
      BY <1>8, <2>1, <2>2, <2>3, OwnOthers DEF SetupFails, Fails, TaskSafe
  <1>9. ASSUME NEW w \in Worker, Materialize(w) PROVE OwnInv'
    <2>1. OwnOK(w)'
      <3>1. OwnOK(w) /\ At(w) \in Executing \ {"setup"}
        BY <1>9 DEF Materialize, AfterDocs, OwnInv, Executing
      <3>2. tree'[SiteOf(w)][Order(w).task].by = Order(w).attempt
        BY <1>9, <3>1 DEF Materialize, AfterDocs, OwnOK, TreeOf
      <3> QED
        BY <1>9, <3>1, <3>2, GoesOn DEF Materialize, AfterDocs, Executing
    <2>2. \A v \in Worker \ {w} : loop'[v] = loop[v] /\ beat'[v] = beat[v]
      BY <1>0, <1>9, GotoMoves DEF Materialize, AfterDocs
    <2> QED
      BY <1>9, <2>1, <2>2, TreeChange, OwnOthers DEF Materialize, AfterDocs, TaskSafe
  <1>10. ASSUME NEW w \in Worker, Unavailable(w) PROVE OwnInv'
    <2>1. OwnOK(w)'
      <3>1. At(w)' = "submit" /\ (loop'[w].out.ref => remote')
        BY <1>0, <1>10, Returned DEF Unavailable, Fails
      <3> QED
        BY <3>1, Released DEF Executing
    <2>2. TreeSafe(w)
      BY <1>10, TreeChange DEF Unavailable, Fails, Teardown, Executing
    <2>3. \A v \in Worker \ {w} : loop'[v] = loop[v] /\ beat'[v] = beat[v]
      BY <1>0, <1>10, ReturnMoves DEF Unavailable, Fails, Return, TypeOK
    <2> QED
      BY <1>10, <2>1, <2>2, <2>3, OwnOthers DEF Unavailable, Fails, TaskSafe
  <1>11. ASSUME NEW w \in Worker, ScratchReadOnly(w) PROVE OwnInv'
    <2>1. /\ \A v \in Worker \ {w} : loop'[v] = loop[v]
          /\ At(w)' = "checkin" /\ loop'[w].out.ref = FALSE
      BY <1>0, <1>11, Rechecked DEF ScratchReadOnly, Raises
    <2>2. OwnOK(w)'
      BY <2>1, Released DEF Executing
    <2>3. TreeSafe(w)
      BY <1>11, TreeChange DEF ScratchReadOnly, Raises, Teardown, Executing
    <2>4. \A v \in Worker \ {w} : beat'[v] = beat[v]
      BY <1>11 DEF ScratchReadOnly, Raises, TypeOK
    <2> QED
      BY <1>11, <2>1, <2>2, <2>3, <2>4, OwnOthers DEF ScratchReadOnly, Raises, TaskSafe
  <1>12. ASSUME NEW w \in Worker, Preflight(w) PROVE OwnInv'
    <2>1. OwnOK(w)'
      <3>1. OwnOK(w) /\ At(w) \in Executing \ {"setup"}
        BY <1>12 DEF Preflight, OwnInv, Executing
      <3>2. tree'[SiteOf(w)][Order(w).task].by = Order(w).attempt
        BY <1>12, <3>1 DEF Preflight, OwnOK, TreeOf
      <3> QED
        BY <1>12, <3>1, <3>2, GoesOn DEF Preflight, Executing
    <2>2. \A v \in Worker \ {w} : loop'[v] = loop[v] /\ beat'[v] = beat[v]
      BY <1>0, <1>12, GotoMoves DEF Preflight
    <2> QED
      BY <1>12, <2>1, <2>2, TreeChange, OwnOthers DEF Preflight, TaskSafe
  <1>13. ASSUME NEW w \in Worker, PreflightFails(w) PROVE OwnInv'
    <2>1. OwnOK(w)'
      <3>1. At(w)' = "submit" /\ (loop'[w].out.ref => remote')
        BY <1>0, <1>13, Returned DEF PreflightFails, Fails
      <3> QED
        BY <3>1, Released DEF Executing
    <2>2. TreeSafe(w)
      BY <1>13, TreeChange DEF PreflightFails, Fails, Teardown, Executing
    <2>3. \A v \in Worker \ {w} : loop'[v] = loop[v] /\ beat'[v] = beat[v]
      BY <1>0, <1>13, ReturnMoves DEF PreflightFails, Fails, Return, TypeOK
    <2> QED
      BY <1>13, <2>1, <2>2, <2>3, OwnOthers DEF PreflightFails, Fails, TaskSafe
  <1>14. ASSUME NEW w \in Worker, Unlaunched(w) PROVE OwnInv'
    <2>1. OwnOK(w)'
      <3>1. At(w)' = "submit" /\ (loop'[w].out.ref => remote')
        BY <1>0, <1>14, Returned DEF Unlaunched, Fails
      <3> QED
        BY <3>1, Released DEF Executing
    <2>2. TreeSafe(w)
      BY <1>14, TreeChange DEF Unlaunched, Fails, Teardown, Executing
    <2>3. \A v \in Worker \ {w} : loop'[v] = loop[v] /\ beat'[v] = beat[v]
      BY <1>0, <1>14, ReturnMoves DEF Unlaunched, Fails, Return, TypeOK
    <2> QED
      BY <1>14, <2>1, <2>2, <2>3, OwnOthers DEF Unlaunched, Fails, TaskSafe
  <1>15. ASSUME NEW w \in Worker, RunDoc(w) PROVE OwnInv'
    <2>1. OwnOK(w)'
      <3>1. At(w)' = "submit" /\ (loop'[w].out.ref => remote')
        BY <1>0, <1>15, Returned DEF RunDoc
      <3> QED
        BY <3>1, Released DEF Executing
    <2>2. TreeSafe(w)
      BY <1>15, TreeChange DEF RunDoc, Teardown, Executing
    <2>3. \A v \in Worker \ {w} : loop'[v] = loop[v] /\ beat'[v] = beat[v]
      BY <1>0, <1>15, ReturnMoves DEF RunDoc, Return, TypeOK
    <2> QED
      BY <1>15, <2>1, <2>2, <2>3, OwnOthers DEF RunDoc, TaskSafe
  <1>16. ASSUME NEW w \in Worker, RunCode(w) PROVE OwnInv'
    <2>1. Order(w).task \in Task /\ SiteOf(w) \in Site
      BY <1>0, <1>16, Occupied, SiteType DEF RunCode, Busy, Executing
    <2>2. TreeSafe(w) /\ tree'[SiteOf(w)][Order(w).task].by = TreeOf(w).by
      BY <1>0, <1>16, CommittedTree DEF RunCode, Executing
    <2>3. OwnOK(w)'
      <3>1. OwnOK(w) /\ At(w) \in Executing \ {"setup"}
        BY <1>16 DEF RunCode, OwnInv, Executing
      <3>2. tree'[SiteOf(w)][Order(w).task].by = Order(w).attempt
        BY <2>1, <2>2, <3>1 DEF OwnOK
      <3> QED
        BY <1>16, <3>1, <3>2, GoesOn DEF RunCode, Executing
    <2>4. \A v \in Worker \ {w} : loop'[v] = loop[v] /\ beat'[v] = beat[v]
      BY <1>0, <1>16, GotoMoves DEF RunCode
    <2> QED
      BY <1>16, <2>2, <2>3, <2>4, OwnOthers DEF RunCode, TaskSafe
  <1>17. ASSUME NEW w \in Worker, JudgeBlocked(w) PROVE OwnInv'
    <2>1. OwnOK(w)'
      <3>1. At(w)' = "submit" /\ (loop'[w].out.ref => remote')
        BY <1>0, <1>17, Returned DEF JudgeBlocked, Judged
      <3> QED
        BY <3>1, Released DEF Executing
    <2>2. TreeSafe(w)
      BY <1>17, TreeChange DEF JudgeBlocked, Judged, Teardown, Executing
    <2>3. \A v \in Worker \ {w} : loop'[v] = loop[v] /\ beat'[v] = beat[v]
      BY <1>0, <1>17, ReturnMoves DEF JudgeBlocked, Judged, Return, TypeOK
    <2> QED
      BY <1>17, <2>1, <2>2, <2>3, OwnOthers DEF JudgeBlocked, Judged, TaskSafe
  <1>18. ASSUME NEW w \in Worker, JudgeError(w) PROVE OwnInv'
    <2>1. OwnOK(w)'
      <3>1. At(w)' = "submit" /\ (loop'[w].out.ref => remote')
        BY <1>0, <1>18, Returned DEF JudgeError, Judged
      <3> QED
        BY <3>1, Released DEF Executing
    <2>2. TreeSafe(w)
      BY <1>18, TreeChange DEF JudgeError, Judged, Teardown, Executing
    <2>3. \A v \in Worker \ {w} : loop'[v] = loop[v] /\ beat'[v] = beat[v]
      BY <1>0, <1>18, ReturnMoves DEF JudgeError, Judged, Return, TypeOK
    <2> QED
      BY <1>18, <2>1, <2>2, <2>3, OwnOthers DEF JudgeError, Judged, TaskSafe
  <1>19. ASSUME NEW w \in Worker, JudgeSplit(w) PROVE OwnInv'
    <2>1. OwnOK(w)'
      <3>1. At(w)' = "submit" /\ (loop'[w].out.ref => remote')
        BY <1>0, <1>19, Returned DEF JudgeSplit, Judged
      <3> QED
        BY <3>1, Released DEF Executing
    <2>2. TreeSafe(w)
      BY <1>19, TreeChange DEF JudgeSplit, Judged, Teardown, Executing
    <2>3. \A v \in Worker \ {w} : loop'[v] = loop[v] /\ beat'[v] = beat[v]
      BY <1>0, <1>19, ReturnMoves DEF JudgeSplit, Judged, Return, TypeOK
    <2> QED
      BY <1>19, <2>1, <2>2, <2>3, OwnOthers DEF JudgeSplit, Judged, TaskSafe
  <1>20. ASSUME NEW w \in Worker, JudgeEmpty(w) PROVE OwnInv'
    <2>1. OwnOK(w)'
      <3>1. At(w)' = "submit" /\ (loop'[w].out.ref => remote')
        BY <1>0, <1>20, Returned DEF JudgeEmpty, Judged
      <3> QED
        BY <3>1, Released DEF Executing
    <2>2. TreeSafe(w)
      BY <1>20, TreeChange DEF JudgeEmpty, Judged, Teardown, Executing
    <2>3. \A v \in Worker \ {w} : loop'[v] = loop[v] /\ beat'[v] = beat[v]
      BY <1>0, <1>20, ReturnMoves DEF JudgeEmpty, Judged, Return, TypeOK
    <2> QED
      BY <1>20, <2>1, <2>2, <2>3, OwnOthers DEF JudgeEmpty, Judged, TaskSafe
  <1>21. ASSUME NEW w \in Worker, JudgeWork(w) PROVE OwnInv'
    <2>1. OwnOK(w)'
      <3>1. OwnOK(w) /\ At(w) \in Executing \ {"setup"}
        BY <1>21 DEF JudgeWork, OwnInv, Executing
      <3>2. tree'[SiteOf(w)][Order(w).task].by = Order(w).attempt
        BY <1>21, <3>1 DEF JudgeWork, OwnOK, TreeOf
      <3> QED
        BY <1>21, <3>1, <3>2, GoesOn DEF JudgeWork, Executing
    <2>2. \A v \in Worker \ {w} : loop'[v] = loop[v] /\ beat'[v] = beat[v]
      BY <1>0, <1>21, GotoMoves DEF JudgeWork
    <2> QED
      BY <1>21, <2>1, <2>2, TreeChange, OwnOthers DEF JudgeWork, TaskSafe
  <1>22. ASSUME NEW w \in Worker, Validate(w) PROVE OwnInv'
    <2>1. OwnOK(w)'
      <3>1. OwnOK(w) /\ At(w) \in Executing \ {"setup"}
        BY <1>22 DEF Validate, OwnInv, Executing
      <3>2. tree'[SiteOf(w)][Order(w).task].by = Order(w).attempt
        BY <1>22, <3>1 DEF Validate, OwnOK, TreeOf
      <3> QED
        BY <1>22, <3>1, <3>2, GoesOn DEF Validate, Executing
    <2>2. \A v \in Worker \ {w} : loop'[v] = loop[v] /\ beat'[v] = beat[v]
      BY <1>0, <1>22, GotoMoves DEF Validate
    <2> QED
      BY <1>22, <2>1, <2>2, TreeChange, OwnOthers DEF Validate, TaskSafe
  <1>23. ASSUME NEW w \in Worker, ValidateFails(w) PROVE OwnInv'
    <2>1. OwnOK(w)'
      <3>1. At(w)' = "submit" /\ (loop'[w].out.ref => remote')
        BY <1>0, <1>23, Returned DEF ValidateFails, Fails
      <3> QED
        BY <3>1, Released DEF Executing
    <2>2. TreeSafe(w)
      BY <1>23, TreeChange DEF ValidateFails, Fails, Teardown, Executing
    <2>3. \A v \in Worker \ {w} : loop'[v] = loop[v] /\ beat'[v] = beat[v]
      BY <1>0, <1>23, ReturnMoves DEF ValidateFails, Fails, Return, TypeOK
    <2> QED
      BY <1>23, <2>1, <2>2, <2>3, OwnOthers DEF ValidateFails, Fails, TaskSafe
  <1>24. ASSUME NEW w \in Worker, Publish(w) PROVE OwnInv'
    <2>1. OwnOK(w)'
      <3>1. At(w)' = "submit" /\ (loop'[w].out.ref => remote')
        <4>1. Return(w, "completed", TRUE, remote) /\ remote' = remote
          BY <1>24 DEF Publish
        <4>2. At(w)' = "submit" /\ loop'[w].out.ref = remote
          BY <1>0, <4>1, Returned
        <4> QED
          BY <4>1, <4>2
      <3> QED
        BY <3>1, Released DEF Executing
    <2>2. TreeSafe(w)
      BY <1>24, TreeChange DEF Publish, Teardown, Executing
    <2>3. \A v \in Worker \ {w} : loop'[v] = loop[v] /\ beat'[v] = beat[v]
      BY <1>0, <1>24, ReturnMoves DEF Publish, Return, TypeOK
    <2> QED
      BY <1>24, <2>1, <2>2, <2>3, OwnOthers DEF Publish, TaskSafe
  <1>25. ASSUME NEW w \in Worker, PublishFails(w) PROVE OwnInv'
    <2>1. OwnOK(w)'
      <3>1. At(w)' = "submit" /\ (loop'[w].out.ref => remote')
        BY <1>0, <1>25, Returned DEF PublishFails, Fails
      <3> QED
        BY <3>1, Released DEF Executing
    <2>2. TreeSafe(w)
      BY <1>25, TreeChange DEF PublishFails, Fails, Teardown, Executing
    <2>3. \A v \in Worker \ {w} : loop'[v] = loop[v] /\ beat'[v] = beat[v]
      BY <1>0, <1>25, ReturnMoves DEF PublishFails, Fails, Return, TypeOK
    <2> QED
      BY <1>25, <2>1, <2>2, <2>3, OwnOthers DEF PublishFails, Fails, TaskSafe
  <1>26. ASSUME NEW w \in Worker, SubmitRefused(w) PROVE OwnInv'
    <2>1. /\ \A v \in Worker \ {w} : loop'[v] = loop[v]
          /\ At(w)' = "after" /\ loop'[w].out = loop[w].out /\ loop'[w].reply = "none"
      BY <1>0, <1>26, AnsweredMoves, SameOrder DEF SubmitRefused
    <2>2. OwnOK(w)'
      BY <1>26, <2>1, Released DEF Executing, OwnInv, OwnOK, SubmitRefused
    <2> QED
      BY <1>26, <2>1, <2>2, TreeChange, OwnOthers DEF SubmitRefused, TaskSafe
  <1>27. ASSUME NEW w \in Worker, SubmitLand(w) PROVE OwnInv'
    <2>1. /\ \A v \in Worker \ {w} : loop'[v] = loop[v]
          /\ At(w)' = "after" /\ loop'[w].out = loop[w].out
          /\ loop'[w].reply \in {"none", "queued"}
      BY <1>0, <1>27, AnsweredMoves, SameOrder DEF SubmitLand, Delivered
    <2>2. OwnOK(w)'
      BY <1>27, <2>1, Released DEF Executing, OwnInv, OwnOK, SubmitLand
    <2>3. TaskSafe(w)
      <3>1. Order(w).task \in Task /\ task[Order(w).task].by = w
        BY <1>0, <1>27, Occupied DEF SubmitLand, Live, Busy
      <3> QED
        BY <1>27, <3>1 DEF SubmitLand, TaskSafe
    <2> QED
      BY <1>27, <2>1, <2>2, <2>3, TreeChange, OwnOthers DEF SubmitLand
  <1>28. ASSUME NEW w \in Worker, SubmitStep(w) PROVE OwnInv'
    <2>1. /\ \A v \in Worker \ {w} : loop'[v] = loop[v]
          /\ At(w)' = "after" /\ loop'[w].out = loop[w].out
          /\ loop'[w].reply \in {"none", "done"}
      BY <1>0, <1>28, AnsweredMoves, SameOrder DEF SubmitStep, Delivered
    <2>2. OwnOK(w)'
      BY <1>28, <2>1, Released DEF Executing, OwnInv, OwnOK, SubmitStep
    <2>3. TaskSafe(w)
      <3>1. Order(w).task \in Task /\ task[Order(w).task].by = w
        BY <1>0, <1>28, Occupied DEF SubmitStep, Live, Busy
      <3> QED
        BY <1>28, <3>1 DEF SubmitStep, TaskSafe
    <2> QED
      BY <1>28, <2>1, <2>2, <2>3, TreeChange, OwnOthers DEF SubmitStep
  <1>29. ASSUME NEW w \in Worker, SubmitChain(w) PROVE OwnInv'
    <2>1. /\ \A v \in Worker \ {w} : loop'[v] = loop[v]
          /\ At(w)' = "after" /\ Order(w)'.task = Order(w).task
          /\ loop'[w].out = loop[w].out
      BY <1>0, <1>29, AnsweredMoves, SameOrder DEF SubmitChain, Delivered
    <2>2. Order(w).task \in Task /\ task[Order(w).task].by = w
      BY <1>0, <1>29, Occupied DEF SubmitChain, Live, Busy
    <2>3. task'[Order(w).task].state = "leased" /\ task'[Order(w).task].by = w
      BY <1>29, <2>2 DEF SubmitChain, Lease, TypeOK
    <2>4. OwnOK(w)'
      BY <1>29, <2>1, <2>3 DEF OwnOK, OwnInv, SubmitChain, Executing
    <2>5. TaskSafe(w)
      BY <1>29, <2>2 DEF SubmitChain, Lease, TaskSafe
    <2> QED
      BY <1>29, <2>1, <2>4, <2>5, TreeChange, OwnOthers DEF SubmitChain
  <1>30. ASSUME NEW w \in Worker, SubmitFailure(w) PROVE OwnInv'
    <2>1. /\ \A v \in Worker \ {w} : loop'[v] = loop[v]
          /\ At(w)' = "after" /\ loop'[w].out = loop[w].out
          /\ loop'[w].reply \in {"none", "done"}
      BY <1>0, <1>30, AnsweredMoves, SameOrder DEF SubmitFailure, Delivered
    <2>2. OwnOK(w)'
      BY <1>30, <2>1, Released DEF Executing, OwnInv, OwnOK, SubmitFailure
    <2>3. TaskSafe(w)
      <3>1. Order(w).task \in Task /\ task[Order(w).task].by = w
        BY <1>0, <1>30, Occupied DEF SubmitFailure, Live, Busy
      <3> QED
        BY <1>30, <3>1 DEF SubmitFailure, TaskSafe
    <2> QED
      BY <1>30, <2>1, <2>2, <2>3, TreeChange, OwnOthers DEF SubmitFailure
  <1>31. ASSUME NEW w \in Worker, After(w) PROVE OwnInv'
    <2>1. OwnOK(w) /\ task' = task /\ remote' = remote /\ beat' = beat
      BY <1>31 DEF OwnInv, After
    <2>2. TreeSafe(w)
      BY <1>31, <2>1, TreeChange DEF After, Consumed, Teardown, OwnOK
    <2>3. (\A v \in Worker \ {w} : loop'[v] = loop[v]) /\ OwnOK(w)'
      <3>1. CASE loop[w].reply = "next"
        <4>1. Given(w, Order(w).task, task[Order(w).task].attempt)
          BY <1>31, <3>1 DEF After
        <4>2. /\ \A v \in Worker \ {w} : loop'[v] = loop[v]
              /\ At(w)' = "begin" /\ Order(w)'.task = Order(w).task
              /\ Order(w)'.attempt = task[Order(w).task].attempt
              /\ loop'[w].out.ref = FALSE
          BY <1>0, <4>1, GivenMoves DEF Order, At, NoOutcome
        <4>3. task[Order(w).task].state = "leased" /\ task[Order(w).task].by = w
          BY <1>31, <2>1, <3>1 DEF OwnOK, Owns, After
        <4> QED
          BY <2>1, <4>2, <4>3 DEF OwnOK, Owns, Executing
      <3>2. CASE loop[w].reply # "next"
        <4>1. /\ \A v \in Worker \ {w} : loop'[v] = loop[v]
              /\ At(w)' = "poll" /\ loop'[w].out.ref = FALSE
          BY <1>0, <1>31, <3>2, FreshMoves DEF After, Idle, At, NoOutcome
        <4> QED
          BY <4>1, Released DEF Executing
      <3> QED
        BY <3>1, <3>2
    <2> QED
      BY <2>1, <2>2, <2>3, OwnOthers DEF TaskSafe
  <1>32. ASSUME NEW w \in Worker, RequestFails(w) PROVE OwnInv'
    <2>1. /\ \A v \in Worker \ {w} : loop'[v] = loop[v]
          /\ At(w)' = "checkin" /\ loop'[w].out.ref = FALSE
      BY <1>0, <1>32, Rechecked DEF RequestFails
    <2>2. OwnOK(w)'
      BY <2>1, Released DEF Executing
    <2>3. TreeSafe(w)
      BY <1>32, TreeChange DEF RequestFails, Teardown, Executing
    <2>4. \A v \in Worker \ {w} : beat'[v] = beat[v]
      BY <1>32 DEF RequestFails, TypeOK
    <2> QED
      BY <1>32, <2>1, <2>2, <2>3, <2>4, OwnOthers DEF RequestFails, TaskSafe
  <1>33. ASSUME NEW w \in Worker, PollLost(w) PROVE OwnInv'
    <2> PICK t \in Offered(w) : Lease(w, t, task[t].step)
      BY <1>33 DEF PollLost
    <2>1. /\ \A v \in Worker \ {w} : loop'[v] = loop[v]
          /\ At(w)' = "checkin" /\ loop'[w].out.ref = FALSE
      BY <1>0, <1>33, Rechecked DEF PollLost
    <2>2. OwnOK(w)'
      BY <2>1, Released DEF Executing
    <2>3. TaskSafe(w)
      BY DEF Lease, TaskSafe, Offered
    <2> QED
      BY <1>33, <2>1, <2>2, <2>3, TreeChange, OwnOthers DEF PollLost
  <1>34. ASSUME NEW w \in Worker, Raise(w) PROVE OwnInv'
    <2>1. /\ \A v \in Worker \ {w} : loop'[v] = loop[v]
          /\ At(w)' = "checkin" /\ loop'[w].out.ref = FALSE
      BY <1>0, <1>34, Rechecked DEF Raise, Raises
    <2>2. OwnOK(w)'
      BY <2>1, Released DEF Executing
    <2>3. TreeSafe(w)
      BY <1>34, TreeChange DEF Raise, Raises, Teardown
    <2>4. \A v \in Worker \ {w} : beat'[v] = beat[v]
      BY <1>34 DEF Raise, Raises, TypeOK
    <2> QED
      BY <1>34, <2>1, <2>2, <2>3, <2>4, OwnOthers DEF Raise, Raises, TaskSafe
  <1>35. ASSUME NEW w \in Worker, Reborn(w) PROVE OwnInv'
    <2>1. /\ \A v \in Worker \ {w} : loop'[v] = loop[v]
          /\ At(w)' = "checkin" /\ loop'[w].out.ref = FALSE
      BY <1>0, <1>35, Rechecked DEF Reborn
    <2>2. OwnOK(w)'
      BY <2>1, Released DEF Executing
    <2>3. TreeSafe(w)
      BY <1>35, TreeChange DEF Reborn, Teardown, Executing
    <2>4. \A v \in Worker \ {w} : beat'[v] = beat[v]
      BY <1>35 DEF Reborn, TypeOK
    <2> QED
      BY <1>35, <2>1, <2>2, <2>3, <2>4, OwnOthers DEF Reborn, TaskSafe
  <1>36. ASSUME NEW w \in Worker, Restart(w) PROVE OwnInv'
    BY <1>36, OwnAll DEF Restart
  <1>37. ASSUME NEW t \in Task, Expire(t) PROVE OwnInv'
    <2>1. ASSUME NEW v \in Worker, Owns(v) PROVE Order(v).task # t
      <3>1. OwnOK(v)
        BY DEF OwnInv
      <3>2. CASE At(v) \in Executing
        BY <1>37, <2>1, <3>1, <3>2 DEF OwnOK, Expire, Kept
      <3>3. CASE At(v) \notin Executing
        BY <1>37, <2>1, <3>1, <3>3 DEF OwnOK, Owns, Expire, HandedOver
      <3> QED
        BY <3>2, <3>3
    <2>2. \A v \in Worker : Owns(v) => task'[Order(v).task] = task[Order(v).task]
      BY <1>37, <2>1 DEF Expire, TypeOK
    <2> QED
      BY <1>37, <2>2, OwnAll DEF Expire
  <1>38. ASSUME NEW t \in Task, Land(t) PROVE OwnInv'
    <2>1. ASSUME NEW v \in Worker, Owns(v) PROVE Order(v).task # t
      BY <1>38, <2>1 DEF OwnInv, OwnOK, Land
    <2>2. \A v \in Worker : Owns(v) => task'[Order(v).task] = task[Order(v).task]
      BY <1>38, <2>1 DEF Land, TypeOK
    <2>3. \A v \in Worker : At(v) \in Executing =>
            tree'[SiteOf(v)][Order(v).task].by = tree[SiteOf(v)][Order(v).task].by
      BY <1>38, <2>1 DEF Land, TypeOK, Owns
    <2> QED
      BY <1>38, <2>2, <2>3, OwnAll DEF Land
  <1>39. ASSUME NEW t \in Task, Retry(t) PROVE OwnInv'
    <2>1. \A v \in Worker : Owns(v) => task'[Order(v).task] = task[Order(v).task]
      BY <1>39 DEF Retry, OwnInv, OwnOK, TypeOK
    <2> QED
      BY <1>39, <2>1, OwnAll DEF Retry
  <1>40. CASE Play
    <2>1. ASSUME NEW v \in Worker, Owns(v) PROVE task'[Order(v).task] = task[Order(v).task]
      <3>1. Order(v).task \in Task
        BY <1>0, <2>1, Occupied DEF Owns, Busy
      <3> QED
        BY <1>40, <2>1, <3>1 DEF Play, OwnInv, OwnOK
    <2> QED
      BY <1>40, <2>1, OwnAll DEF Play
  <1> QED
    BY <1>1, <1>2, <1>3, <1>4, <1>5, <1>6, <1>7, <1>8, <1>9, <1>10, <1>11,
       <1>12, <1>13, <1>14, <1>15, <1>16, <1>17, <1>18, <1>19, <1>20, <1>21,
       <1>22, <1>23, <1>24, <1>25, <1>26, <1>27, <1>28, <1>29, <1>30, <1>31,
       <1>32, <1>33, <1>34, <1>35, <1>36, <1>37, <1>38, <1>39, <1>40
       DEF Next, Loop, Execute, Submit, Crash, Shutdown

(***************************************************************************)
(* From the cut to the end of its execution an attempt has its worktree    *)
(* for itself, however many workers share the box: a heartbeat renews the  *)
(* lease every ten seconds, so while one executes the task is leased to    *)
(* nobody else, and only the holder of the lease cuts or removes the       *)
(* worktree (loop.py:288-290, git/worktrees.py:96-104).                    *)
(***************************************************************************)
THEOREM OwnTreeHolds == ASSUME Partition = FALSE PROVE Spec => []OwnTree
  <1>1. OwnInv => OwnTree
    BY DEF OwnInv, OwnOK, OwnTree, Executing
  <1>2. Init => TypeOK /\ OwnInv
    BY TypeInit, OwnInit
  <1>3. TypeOK /\ OwnInv /\ [Next]_vars => (TypeOK /\ OwnInv)'
    BY TypeStep, OwnStep
  <1> QED
    BY <1>1, <1>2, <1>3, PTL DEF Spec

-----------------------------------------------------------------------------
(* What is landed                                                          *)

\* Where the manager finds the work of t.
Place(t) == IF remote THEN wip[t] ELSE tree[Home][t]

WorkOf(a) == [by |-> a, commits |-> {a}]

LandOK(t) ==
    task[t].state = "landing" =>
        task[t].attempt \in validated /\ Place(t) = WorkOf(task[t].attempt)

\* An execution finds no commits but its own; what it validates and publishes
\* has some; and a submit that asks for a land, and still has its lease, names
\* work that is in its place and validated.
WorkOK(w) ==
    /\ At(w) \in Executing \ {"setup"} => TreeOf(w).commits \subseteq {Order(w).attempt}
    /\ At(w) \in {"validate", "publish"} => TreeOf(w).commits # {}
    /\ At(w) = "publish" => Order(w).attempt \in validated
    /\ At(w) = "submit" /\ loop[w].out.landable /\ Live(w) =>
         /\ Order(w).attempt \in validated
         /\ Place(Order(w).task) = WorkOf(Order(w).attempt)

WorkInv == (\A t \in Task : LandOK(t)) /\ (\A w \in Worker : WorkOK(w))

\* Only the execution of its order publishes a task.
WipSafe(w) ==
    \A t \in Task : \/ wip'[t] = wip[t]
                    \/ At(w) \in Executing /\ t = Order(w).task

\* A task is leased anew, or comes to land with its work in place.
TaskNext ==
    \A t \in Task :
        \/ task'[t] = task[t]
        \/ task'[t].state \in {"queued", "done", "failed"}
        \/ task'[t].state = "leased" /\ task'[t].attempt = attempts + 1
        \/ task'[t].state = "landing" /\ LandOK(t)'

\* An order is no later than any lease of its task.
LEMMA NoLaterLease ==
    ASSUME TypeOK, HintInv, NEW w \in Worker, Order(w).task \in Task
    PROVE  Order(w).attempt # attempts + 1
  <1>1. /\ Order(w).attempt <= task[Order(w).task].attempt
        /\ task[Order(w).task].attempt <= attempts
    BY DEF HintInv, HintOK, AttemptsOK
  <1>2. Order(w).attempt \in Nat /\ attempts \in Nat /\ task[Order(w).task].attempt \in Nat
    BY Occupied DEF TypeOK, LoopOK, Tasks
  <1> QED
    BY <1>1, <1>2

\* Where a task is landed, or leased to another, a step of w leaves its work.
LEMMA PlaceKept ==
    ASSUME TypeOK, OwnInv, remote' = remote, NEW w \in Worker, TreeSafe(w), WipSafe(w),
           NEW t \in Task, task[t].state # "leased" \/ task[t].by # w
    PROVE  Place(t)' = Place(t)
  <1>1. At(w) \in Executing => Order(w).task # t
    BY DEF OwnInv, OwnOK, Owns
  <1>2. Home \in Site
    BY DEF Site
  <1>3. CASE remote
    BY <1>1, <1>3 DEF Place, WipSafe
  <1>4. CASE ~remote
    <2>1. tree'[Home][t] = tree[Home][t]
      BY <1>1, <1>2, <1>4 DEF TreeSafe
    <2> QED
      BY <1>4, <2>1 DEF Place
  <1> QED
    BY <1>3, <1>4

\* A loop that stands still, of whose order nobody takes the lease or the tree.
LEMMA WorkStill ==
    ASSUME TypeOK, HintInv, NEW w \in Worker, WorkOK(w), remote' = remote,
           loop'[w] = loop[w], validated \subseteq validated', TaskNext,
           At(w) \in Executing =>
             tree'[SiteOf(w)][Order(w).task] = tree[SiteOf(w)][Order(w).task],
           At(w) = "submit" /\ Live(w) =>
             \A t \in Task : t = Order(w).task => Place(t)' = Place(t)
    PROVE  WorkOK(w)'
  <1>1. Order(w)' = Order(w) /\ At(w)' = At(w) /\ SiteOf(w)' = SiteOf(w)
    BY DEF Order, At, SiteOf
  <1>2. At(w) \in Executing => TreeOf(w)' = TreeOf(w)
    BY <1>1 DEF TreeOf
  <1>3. At(w) = "submit" /\ Live(w)' => Live(w)
    <2> SUFFICES ASSUME At(w) = "submit", Live(w)' PROVE Live(w)
      OBVIOUS
    <2>1. Order(w).task \in Task
      BY Occupied DEF TypeOK, LoopOK, Busy
    <2>2. task'[Order(w).task].state = "leased" /\ task'[Order(w).task].attempt = Order(w).attempt
      BY <1>1 DEF Live
    <2>3. task'[Order(w).task] = task[Order(w).task]
      BY <2>1, <2>2, NoLaterLease DEF TaskNext
    <2> QED
      BY <1>1, <2>3 DEF Live
  <1>4. At(w)' \in Executing \ {"setup"} => (TreeOf(w).commits \subseteq {Order(w).attempt})'
    BY <1>1, <1>2 DEF WorkOK
  <1>5. At(w)' \in {"validate", "publish"} => TreeOf(w)'.commits # {}
    BY <1>1, <1>2 DEF WorkOK, Executing
  <1>6. At(w)' = "publish" => Order(w)'.attempt \in validated'
    BY <1>1 DEF WorkOK
  <1>7. At(w)' = "submit" /\ loop'[w].out.landable /\ Live(w)' =>
          /\ Order(w)'.attempt \in validated'
          /\ (Place(Order(w).task) = WorkOf(Order(w).attempt))'
    <2> SUFFICES ASSUME At(w)' = "submit", loop'[w].out.landable, Live(w)'
                 PROVE  /\ Order(w)'.attempt \in validated'
                        /\ (Place(Order(w).task) = WorkOf(Order(w).attempt))'
      OBVIOUS
    <2> PICK t \in Task : t = Order(w).task
      BY <1>1, Occupied DEF TypeOK, LoopOK, Busy
    <2>1. Order(w).attempt \in validated /\ Place(t) = WorkOf(Order(w).attempt)
      BY <1>1, <1>3 DEF WorkOK
    <2>2. Place(t)' = Place(t)
      BY <1>1, <1>3
    <2>3. (Place(Order(w).task))' = Place(t)'
      BY <1>1 DEF Place
    <2> QED
      BY <1>1, <2>1, <2>2, <2>3 DEF WorkOf
  <1> QED
    BY <1>4, <1>5, <1>6, <1>7 DEF WorkOK

LEMMA WorkOthers ==
    ASSUME TypeOK, HintInv, OwnInv, WorkInv, NEW w \in Worker, remote' = remote,
           \A v \in Worker \ {w} : loop'[v] = loop[v],
           validated \subseteq validated', TaskNext, TreeSafe(w), WipSafe(w), WorkOK(w)'
    PROVE  WorkInv'
  <1>1. ASSUME NEW v \in Worker \ {w} PROVE WorkOK(v)'
    <2>1. At(v) \in Executing =>
            tree'[SiteOf(v)][Order(v).task] = tree[SiteOf(v)][Order(v).task]
      BY TreeKept
    <2>2. At(v) = "submit" /\ Live(v) =>
            \A t \in Task : t = Order(v).task => Place(t)' = Place(t)
      <3> SUFFICES ASSUME At(v) = "submit", Live(v), NEW t \in Task, t = Order(v).task
                   PROVE  Place(t)' = Place(t)
        OBVIOUS
      <3>1. task[t].by # w
        BY DEF Live
      <3> QED
        BY <3>1, PlaceKept
    <2> QED
      BY <2>1, <2>2, WorkStill DEF WorkInv
  <1>2. ASSUME NEW t \in Task PROVE LandOK(t)'
    <2> SUFFICES ASSUME task'[t].state = "landing", task'[t] = task[t]
                 PROVE  LandOK(t)'
      BY DEF TaskNext, LandOK
    <2>1. Place(t)' = Place(t)
      BY PlaceKept
    <2>2. (Place(t) = WorkOf(task[t].attempt))' <=> Place(t)' = WorkOf(task[t].attempt)
      BY DEF WorkOf
    <2> QED
      BY <2>1, <2>2 DEF WorkInv, LandOK
  <1> QED
    BY <1>1, <1>2 DEF WorkInv

\* A step of nobody's loop.
LEMMA WorkAll ==
    ASSUME TypeOK, HintInv, OwnInv, WorkInv, remote' = remote, loop' = loop,
           validated' = validated,
           \A t \in Task :
             \/ /\ task'[t] = task[t] \/ task'[t].state \in {"queued", "done", "failed"}
                /\ Place(t)' = Place(t) /\ \A s \in Site : tree'[s][t] = tree[s][t]
             \/ task[t].state = "landing" /\ task'[t].state \in {"queued", "done", "failed"}
    PROVE  WorkInv'
  <1>1. TaskNext
    BY DEF TaskNext
  <1>2. ASSUME NEW v \in Worker PROVE WorkOK(v)'
    <2>1. At(v) \in Executing =>
            tree'[SiteOf(v)][Order(v).task] = tree[SiteOf(v)][Order(v).task]
      <3> SUFFICES ASSUME At(v) \in Executing
                   PROVE  tree'[SiteOf(v)][Order(v).task] = tree[SiteOf(v)][Order(v).task]
        OBVIOUS
      <3>1. SiteOf(v) \in Site /\ Order(v).task \in Task
        BY SiteType, Occupied DEF TypeOK, LoopOK, Busy
      <3>2. task[Order(v).task].state = "leased"
        BY DEF OwnInv, OwnOK, Owns
      <3> QED
        BY <3>1, <3>2
    <2>2. At(v) = "submit" /\ Live(v) =>
            \A t \in Task : t = Order(v).task => Place(t)' = Place(t)
      <3> SUFFICES ASSUME At(v) = "submit", Live(v), NEW t \in Task, t = Order(v).task
                   PROVE  Place(t)' = Place(t)
        OBVIOUS
      <3>1. task[t].state = "leased"
        BY DEF Live
      <3> QED
        BY <3>1
    <2> QED
      BY <1>1, <2>1, <2>2, WorkStill DEF WorkInv
  <1>3. ASSUME NEW t \in Task PROVE LandOK(t)'
    <2> SUFFICES ASSUME task'[t].state = "landing" PROVE LandOK(t)'
      BY DEF LandOK
    <2>1. task'[t] = task[t] /\ Place(t)' = Place(t)
      OBVIOUS
    <2>2. (Place(t) = WorkOf(task[t].attempt))' <=> Place(t)' = WorkOf(task[t].attempt)
      BY <2>1 DEF WorkOf
    <2> QED
      BY <2>1, <2>2 DEF WorkInv, LandOK
  <1> QED
    BY <1>2, <1>3 DEF WorkInv

\* A loop that neither executes nor asks for a land owes no work.
LEMMA NoWork ==
    ASSUME NEW w \in Worker, At(w)' \notin Executing \ {"setup"},
           At(w)' = "submit" => loop'[w].out.landable = FALSE
    PROVE  WorkOK(w)'
  BY DEF WorkOK, Executing

\* An execution goes on with a tree that has no commits but its own.
LEMMA WorkGoesOn ==
    ASSUME TypeOK, NEW w \in Worker, remote' = remote,
           NEW pc \in Executing \ {"setup"}, Goto(w, pc),
           tree'[SiteOf(w)][Order(w).task].commits \subseteq {Order(w).attempt},
           pc \in {"validate", "publish"} => tree'[SiteOf(w)][Order(w).task].commits # {},
           pc = "publish" => Order(w).attempt \in validated'
    PROVE  WorkOK(w)'
  <1>1. At(w)' = pc /\ Order(w)'.task = Order(w).task /\ Order(w)'.attempt = Order(w).attempt
    BY GotoMoves, SameOrder DEF TypeOK, LoopOK
  <1>2. TreeOf(w)' = tree'[SiteOf(w)][Order(w).task]
    BY <1>1 DEF TreeOf, SiteOf
  <1>3. pc # "submit"
    BY DEF Executing
  <1> QED
    BY <1>1, <1>2, <1>3 DEF WorkOK

LEMMA WorkInit == Init => WorkInv
  BY DEF Init, WorkInv, LandOK, WorkOK, At, Executing, Idle

LEMMA WorkStep ==
    ASSUME Partition = FALSE, TypeOK, HintInv, OwnInv, WorkInv, [Next]_vars
    PROVE  WorkInv'
  <1> USE DEF setting, manager, disk, page, memory, history
  <1>0. LoopOK
    BY DEF TypeOK, LoopOK
  <1>1. CASE UNCHANGED vars
    BY <1>1, WorkAll DEF vars, Place
  <1>2. ASSUME NEW w \in Worker, CheckIn(w) PROVE WorkInv'
    <2>1. At(w)' = "poll" /\ \A v \in Worker \ {w} : loop'[v] = loop[v]
      BY <1>0, <1>2, WentTo DEF CheckIn
    <2>2. WorkOK(w)'
      BY <2>1, NoWork DEF Executing
    <2>3. TreeSafe(w)
      BY <1>2, TreeChange DEF CheckIn
    <2> QED
      BY <1>2, <2>1, <2>2, <2>3, WorkOthers DEF CheckIn, TaskNext, WipSafe
  <1>3. ASSUME NEW w \in Worker, PollIdle(w) PROVE WorkInv'
    BY <1>3, WorkAll DEF PollIdle, Synced, Place
  <1>4. ASSUME NEW w \in Worker, PollOrder(w) PROVE WorkInv'
    <2> PICK t \in Offered(w) : Lease(w, t, task[t].step) /\ Given(w, t, attempts + 1)
      BY <1>4 DEF PollOrder
    <2>1. At(w)' = "begin" /\ \A v \in Worker \ {w} : loop'[v] = loop[v]
      BY <1>0, GivenMoves DEF Order, At
    <2>2. WorkOK(w)'
      BY <2>1, NoWork DEF Executing
    <2>3. TaskNext
      BY DEF Lease, TaskNext, Offered, TypeOK
    <2>4. TreeSafe(w) /\ WipSafe(w)
      BY <1>4, TreeChange DEF PollOrder, WipSafe
    <2> QED
      BY <1>4, <2>1, <2>2, <2>3, <2>4, WorkOthers DEF PollOrder
  <1>5. ASSUME NEW w \in Worker, Begin(w) PROVE WorkInv'
    <2>1. At(w)' = "setup" /\ \A v \in Worker \ {w} : loop'[v] = loop[v]
      BY <1>0, <1>5, WentTo DEF Begin
    <2>2. WorkOK(w)'
      BY <2>1, NoWork DEF Executing
    <2>3. TreeSafe(w)
      BY <1>5, TreeChange DEF Begin
    <2> QED
      BY <1>5, <2>1, <2>2, <2>3, WorkOthers DEF Begin, TaskNext, WipSafe
  <1>6. ASSUME NEW w \in Worker, Refuse(w) PROVE WorkInv'
    <2>1. /\ At(w)' = "submit" /\ loop'[w].out.landable = FALSE
          /\ \A v \in Worker \ {w} : loop'[v] = loop[v]
      BY <1>0, <1>6, Submits DEF Refuse, Fails
    <2>2. WorkOK(w)'
      BY <2>1, NoWork DEF Executing
    <2>3. TreeSafe(w)
      BY <1>6, TreeChange DEF Refuse, Fails, Teardown, Executing
    <2> QED
      BY <1>6, <2>1, <2>2, <2>3, WorkOthers DEF Refuse, Fails, TaskNext, WipSafe
  <1>7. ASSUME NEW w \in Worker, Setup(w) PROVE WorkInv'
    <2>1. Order(w).task \in Task /\ SiteOf(w) \in Site
      BY <1>0, <1>7, Occupied, SiteType DEF Setup, Busy, Executing
    <2>2. tree'[SiteOf(w)][Order(w).task].commits = {}
      BY <1>7, <2>1 DEF Setup, Cut, TypeOK
    <2>3. WorkOK(w)'
      BY <1>7, <2>2, WorkGoesOn DEF Setup, Executing
    <2>4. TreeSafe(w)
      BY <1>7, TreeChange DEF Setup, Cut, Executing
    <2>5. \A v \in Worker \ {w} : loop'[v] = loop[v]
      BY <1>0, <1>7, GotoMoves DEF Setup
    <2> QED
      BY <1>7, <2>3, <2>4, <2>5, WorkOthers DEF Setup, TaskNext, WipSafe
  <1>8. ASSUME NEW w \in Worker, SetupFails(w) PROVE WorkInv'
    <2>1. /\ At(w)' = "submit" /\ loop'[w].out.landable = FALSE
          /\ \A v \in Worker \ {w} : loop'[v] = loop[v]
      BY <1>0, <1>8, Submits DEF SetupFails, Fails
    <2>2. WorkOK(w)'
      BY <2>1, NoWork DEF Executing
    <2>3. TreeSafe(w)
      BY <1>8, TreeChange DEF SetupFails, Fails, Teardown, Executing
    <2> QED
      BY <1>8, <2>1, <2>2, <2>3, WorkOthers DEF SetupFails, Fails, TaskNext, WipSafe
  <1>9. ASSUME NEW w \in Worker, Materialize(w) PROVE WorkInv'
    <2>1. WorkOK(w)'
      <3>1. WorkOK(w) /\ At(w) \in Executing \ {"setup"}
        BY <1>9 DEF Materialize, AfterDocs, WorkInv, Executing
      <3>2. tree'[SiteOf(w)][Order(w).task] = TreeOf(w) /\ remote' = remote
        BY <1>9 DEF Materialize, AfterDocs, TreeOf
      <3> QED
        BY <1>9, <3>1, <3>2, WorkGoesOn DEF Materialize, AfterDocs, WorkOK, HasCommits, Executing
    <2>2. \A v \in Worker \ {w} : loop'[v] = loop[v]
      BY <1>0, <1>9, GotoMoves DEF Materialize, AfterDocs
    <2>3. TreeSafe(w)
      BY <1>9, TreeChange DEF Materialize, AfterDocs
    <2> QED
      BY <1>9, <2>1, <2>2, <2>3, WorkOthers DEF Materialize, AfterDocs, TaskNext, WipSafe
  <1>10. ASSUME NEW w \in Worker, Unavailable(w) PROVE WorkInv'
    <2>1. /\ At(w)' = "submit" /\ loop'[w].out.landable = FALSE
          /\ \A v \in Worker \ {w} : loop'[v] = loop[v]
      BY <1>0, <1>10, Submits DEF Unavailable, Fails
    <2>2. WorkOK(w)'
      BY <2>1, NoWork DEF Executing
    <2>3. TreeSafe(w)
      BY <1>10, TreeChange DEF Unavailable, Fails, Teardown, Executing
    <2> QED
      BY <1>10, <2>1, <2>2, <2>3, WorkOthers DEF Unavailable, Fails, TaskNext, WipSafe
  <1>11. ASSUME NEW w \in Worker, ScratchReadOnly(w) PROVE WorkInv'
    <2>1. At(w)' = "checkin" /\ \A v \in Worker \ {w} : loop'[v] = loop[v]
      BY <1>0, <1>11, Rechecked DEF ScratchReadOnly, Raises
    <2>2. WorkOK(w)'
      BY <2>1, NoWork DEF Executing
    <2>3. TreeSafe(w)
      BY <1>11, TreeChange DEF ScratchReadOnly, Raises, Teardown, Executing
    <2> QED
      BY <1>11, <2>1, <2>2, <2>3, WorkOthers DEF ScratchReadOnly, Raises, TaskNext, WipSafe
  <1>12. ASSUME NEW w \in Worker, Preflight(w) PROVE WorkInv'
    <2>1. WorkOK(w)'
      <3>1. WorkOK(w) /\ At(w) \in Executing \ {"setup"}
        BY <1>12 DEF Preflight, WorkInv, Executing
      <3>2. tree'[SiteOf(w)][Order(w).task] = TreeOf(w) /\ remote' = remote
        BY <1>12 DEF Preflight, TreeOf
      <3> QED
        BY <1>12, <3>1, <3>2, WorkGoesOn DEF Preflight, WorkOK, HasCommits, Executing
    <2>2. \A v \in Worker \ {w} : loop'[v] = loop[v]
      BY <1>0, <1>12, GotoMoves DEF Preflight
    <2>3. TreeSafe(w)
      BY <1>12, TreeChange DEF Preflight
    <2> QED
      BY <1>12, <2>1, <2>2, <2>3, WorkOthers DEF Preflight, TaskNext, WipSafe
  <1>13. ASSUME NEW w \in Worker, PreflightFails(w) PROVE WorkInv'
    <2>1. /\ At(w)' = "submit" /\ loop'[w].out.landable = FALSE
          /\ \A v \in Worker \ {w} : loop'[v] = loop[v]
      BY <1>0, <1>13, Submits DEF PreflightFails, Fails
    <2>2. WorkOK(w)'
      BY <2>1, NoWork DEF Executing
    <2>3. TreeSafe(w)
      BY <1>13, TreeChange DEF PreflightFails, Fails, Teardown, Executing
    <2> QED
      BY <1>13, <2>1, <2>2, <2>3, WorkOthers DEF PreflightFails, Fails, TaskNext, WipSafe
  <1>14. ASSUME NEW w \in Worker, Unlaunched(w) PROVE WorkInv'
    <2>1. /\ At(w)' = "submit" /\ loop'[w].out.landable = FALSE
          /\ \A v \in Worker \ {w} : loop'[v] = loop[v]
      BY <1>0, <1>14, Submits DEF Unlaunched, Fails
    <2>2. WorkOK(w)'
      BY <2>1, NoWork DEF Executing
    <2>3. TreeSafe(w)
      BY <1>14, TreeChange DEF Unlaunched, Fails, Teardown, Executing
    <2> QED
      BY <1>14, <2>1, <2>2, <2>3, WorkOthers DEF Unlaunched, Fails, TaskNext, WipSafe
  <1>15. ASSUME NEW w \in Worker, RunDoc(w) PROVE WorkInv'
    <2>1. /\ At(w)' = "submit" /\ loop'[w].out.landable = FALSE
          /\ \A v \in Worker \ {w} : loop'[v] = loop[v]
      BY <1>0, <1>15, Submits DEF RunDoc
    <2>2. WorkOK(w)'
      BY <2>1, NoWork DEF Executing
    <2>3. TreeSafe(w)
      BY <1>15, TreeChange DEF RunDoc, Teardown, Executing
    <2> QED
      BY <1>15, <2>1, <2>2, <2>3, WorkOthers DEF RunDoc, TaskNext, WipSafe
  <1>16. ASSUME NEW w \in Worker, RunCode(w) PROVE WorkInv'
    <2>1. /\ TreeSafe(w)
          /\ tree'[SiteOf(w)][Order(w).task].commits
               \subseteq TreeOf(w).commits \cup {Order(w).attempt}
      BY <1>0, <1>16, CommittedTree DEF RunCode, Executing
    <2>2. WorkOK(w)'
      <3>1. TreeOf(w).commits \subseteq {Order(w).attempt}
        BY <1>16 DEF RunCode, WorkInv, WorkOK, Executing
      <3> QED
        BY <1>16, <2>1, <3>1, WorkGoesOn DEF RunCode, Executing
    <2>3. \A v \in Worker \ {w} : loop'[v] = loop[v]
      BY <1>0, <1>16, GotoMoves DEF RunCode
    <2> QED
      BY <1>16, <2>1, <2>2, <2>3, WorkOthers DEF RunCode, TaskNext, WipSafe
  <1>17. ASSUME NEW w \in Worker, JudgeBlocked(w) PROVE WorkInv'
    <2>1. /\ At(w)' = "submit" /\ loop'[w].out.landable = FALSE
          /\ \A v \in Worker \ {w} : loop'[v] = loop[v]
      BY <1>0, <1>17, Submits DEF JudgeBlocked, Judged
    <2>2. WorkOK(w)'
      BY <2>1, NoWork DEF Executing
    <2>3. TreeSafe(w)
      BY <1>17, TreeChange DEF JudgeBlocked, Judged, Teardown, Executing
    <2> QED
      BY <1>17, <2>1, <2>2, <2>3, WorkOthers DEF JudgeBlocked, Judged, TaskNext, WipSafe
  <1>18. ASSUME NEW w \in Worker, JudgeError(w) PROVE WorkInv'
    <2>1. /\ At(w)' = "submit" /\ loop'[w].out.landable = FALSE
          /\ \A v \in Worker \ {w} : loop'[v] = loop[v]
      BY <1>0, <1>18, Submits DEF JudgeError, Judged
    <2>2. WorkOK(w)'
      BY <2>1, NoWork DEF Executing
    <2>3. TreeSafe(w)
      BY <1>18, TreeChange DEF JudgeError, Judged, Teardown, Executing
    <2> QED
      BY <1>18, <2>1, <2>2, <2>3, WorkOthers DEF JudgeError, Judged, TaskNext, WipSafe
  <1>19. ASSUME NEW w \in Worker, JudgeSplit(w) PROVE WorkInv'
    <2>1. /\ At(w)' = "submit" /\ loop'[w].out.landable = FALSE
          /\ \A v \in Worker \ {w} : loop'[v] = loop[v]
      BY <1>0, <1>19, Submits DEF JudgeSplit, Judged
    <2>2. WorkOK(w)'
      BY <2>1, NoWork DEF Executing
    <2>3. TreeSafe(w)
      BY <1>19, TreeChange DEF JudgeSplit, Judged, Teardown, Executing
    <2> QED
      BY <1>19, <2>1, <2>2, <2>3, WorkOthers DEF JudgeSplit, Judged, TaskNext, WipSafe
  <1>20. ASSUME NEW w \in Worker, JudgeEmpty(w) PROVE WorkInv'
    <2>1. /\ At(w)' = "submit" /\ loop'[w].out.landable = FALSE
          /\ \A v \in Worker \ {w} : loop'[v] = loop[v]
      BY <1>0, <1>20, Submits DEF JudgeEmpty, Judged
    <2>2. WorkOK(w)'
      BY <2>1, NoWork DEF Executing
    <2>3. TreeSafe(w)
      BY <1>20, TreeChange DEF JudgeEmpty, Judged, Teardown, Executing
    <2> QED
      BY <1>20, <2>1, <2>2, <2>3, WorkOthers DEF JudgeEmpty, Judged, TaskNext, WipSafe
  <1>21. ASSUME NEW w \in Worker, JudgeWork(w) PROVE WorkInv'
    <2>1. WorkOK(w)'
      <3>1. WorkOK(w) /\ At(w) \in Executing \ {"setup"}
        BY <1>21 DEF JudgeWork, WorkInv, Executing
      <3>2. tree'[SiteOf(w)][Order(w).task] = TreeOf(w) /\ remote' = remote
        BY <1>21 DEF JudgeWork, TreeOf
      <3> QED
        BY <1>21, <3>1, <3>2, WorkGoesOn DEF JudgeWork, WorkOK, HasCommits, Executing
    <2>2. \A v \in Worker \ {w} : loop'[v] = loop[v]
      BY <1>0, <1>21, GotoMoves DEF JudgeWork
    <2>3. TreeSafe(w)
      BY <1>21, TreeChange DEF JudgeWork
    <2> QED
      BY <1>21, <2>1, <2>2, <2>3, WorkOthers DEF JudgeWork, TaskNext, WipSafe
  <1>22. ASSUME NEW w \in Worker, Validate(w) PROVE WorkInv'
    <2>1. WorkOK(w)'
      <3>1. WorkOK(w) /\ At(w) \in Executing \ {"setup"}
        BY <1>22 DEF Validate, WorkInv, Executing
      <3>2. tree'[SiteOf(w)][Order(w).task] = TreeOf(w) /\ remote' = remote
        BY <1>22 DEF Validate, TreeOf
      <3> QED
        BY <1>22, <3>1, <3>2, WorkGoesOn DEF Validate, WorkOK, HasCommits, Executing
    <2>2. \A v \in Worker \ {w} : loop'[v] = loop[v]
      BY <1>0, <1>22, GotoMoves DEF Validate
    <2>3. TreeSafe(w)
      BY <1>22, TreeChange DEF Validate
    <2> QED
      BY <1>22, <2>1, <2>2, <2>3, WorkOthers DEF Validate, TaskNext, WipSafe
  <1>23. ASSUME NEW w \in Worker, ValidateFails(w) PROVE WorkInv'
    <2>1. /\ At(w)' = "submit" /\ loop'[w].out.landable = FALSE
          /\ \A v \in Worker \ {w} : loop'[v] = loop[v]
      BY <1>0, <1>23, Submits DEF ValidateFails, Fails
    <2>2. WorkOK(w)'
      BY <2>1, NoWork DEF Executing
    <2>3. TreeSafe(w)
      BY <1>23, TreeChange DEF ValidateFails, Fails, Teardown, Executing
    <2> QED
      BY <1>23, <2>1, <2>2, <2>3, WorkOthers DEF ValidateFails, Fails, TaskNext, WipSafe
  <1>24. ASSUME NEW w \in Worker, Publish(w) PROVE WorkInv'
    <2> PICK t \in Task, a \in Nat : t = Order(w).task /\ a = Order(w).attempt
      BY <1>0, <1>24, Occupied DEF Publish, Busy, Executing
    <2>1. SiteOf(w) \in Site
      BY SiteType
    <2>2. TreeOf(w) = WorkOf(a) /\ a \in validated
      <3>1. TreeOf(w).by = a
        BY <1>24 DEF OwnInv, OwnOK, Publish, Executing
      <3>2. TreeOf(w).commits = {a} /\ a \in validated
        BY <1>24 DEF WorkInv, WorkOK, Publish, Executing
      <3>3. TreeOf(w) \in Trees
        BY <2>1 DEF TypeOK, TreeOf
      <3> QED
        BY <3>1, <3>2, <3>3 DEF Trees, WorkOf
    <2>3. Return(w, "completed", TRUE, remote)
      BY <1>24 DEF Publish
    <2>4. /\ At(w)' = "submit" /\ Order(w)'.task = t /\ Order(w)'.attempt = a
          /\ \A v \in Worker \ {w} : loop'[v] = loop[v]
      BY <1>0, <2>3, ReturnMoves, SameOrder
    <2>5. Place(t)' = WorkOf(a)
      <3>1. remote' = remote /\ tree' = tree
        BY <1>24 DEF Publish
      <3>2. CASE remote
        <4>1. wip' = [wip EXCEPT ![t] = TreeOf(w)]
          BY <1>24, <3>2 DEF Publish
        <4> QED
          BY <2>1, <2>2, <3>1, <3>2, <4>1 DEF Place, TypeOK
      <3>3. CASE ~remote
        BY <2>2, <3>1, <3>3 DEF Place, TreeOf, SiteOf
      <3> QED
        BY <3>2, <3>3
    <2>6. (Place(Order(w).task) = WorkOf(Order(w).attempt))'
      <3>1. (Place(Order(w).task))' = Place(t)'
        BY <2>4 DEF Place
      <3> QED
        BY <2>4, <2>5, <3>1 DEF WorkOf
    <2>7. WorkOK(w)'
      <3>1. validated' = validated /\ "submit" \notin Executing
        BY <1>24 DEF Publish, Executing
      <3> QED
        BY <2>2, <2>4, <2>6, <3>1 DEF WorkOK
    <2>8. TreeSafe(w) /\ WipSafe(w)
      BY <1>24, <2>1, TreeChange DEF Publish, WipSafe, Executing, TypeOK
    <2> QED
      BY <1>24, <2>4, <2>7, <2>8, WorkOthers DEF Publish, TaskNext
  <1>25. ASSUME NEW w \in Worker, PublishFails(w) PROVE WorkInv'
    <2>1. /\ At(w)' = "submit" /\ loop'[w].out.landable = FALSE
          /\ \A v \in Worker \ {w} : loop'[v] = loop[v]
      BY <1>0, <1>25, Submits DEF PublishFails, Fails
    <2>2. WorkOK(w)'
      BY <2>1, NoWork DEF Executing
    <2>3. TreeSafe(w)
      BY <1>25, TreeChange DEF PublishFails, Fails, Teardown, Executing
    <2> QED
      BY <1>25, <2>1, <2>2, <2>3, WorkOthers DEF PublishFails, Fails, TaskNext, WipSafe
  <1>26. ASSUME NEW w \in Worker, SubmitRefused(w) PROVE WorkInv'
    <2>1. At(w)' = "after" /\ \A v \in Worker \ {w} : loop'[v] = loop[v]
      BY <1>0, <1>26, Replied DEF SubmitRefused
    <2>2. WorkOK(w)'
      BY <2>1, NoWork DEF Executing
    <2>3. TreeSafe(w)
      BY <1>26, TreeChange DEF SubmitRefused
    <2> QED
      BY <1>26, <2>1, <2>2, <2>3, WorkOthers DEF SubmitRefused, TaskNext, WipSafe
  <1>27. ASSUME NEW w \in Worker, SubmitLand(w) PROVE WorkInv'
    <2> PICK t \in Task : t = Order(w).task
      BY <1>0, <1>27, Occupied DEF SubmitLand, Busy
    <2>1. task[t] \in Tasks
      BY DEF TypeOK
    <2>2. At(w)' = "after" /\ \A v \in Worker \ {w} : loop'[v] = loop[v]
      BY <1>0, <1>27, Replied DEF SubmitLand, Delivered
    <2>3. WorkOK(w)'
      BY <2>2, NoWork DEF Executing
    <2>4. /\ task'[t].attempt = task[t].attempt /\ task'[t].state = "landing"
          /\ \A u \in Task \ {t} : task'[u] = task[u]
      BY <1>27, <2>1 DEF SubmitLand, TypeOK, Tasks
    <2>5. /\ task[t].attempt \in validated /\ Place(t) = WorkOf(task[t].attempt)
          /\ Place(t)' = Place(t) /\ validated' = validated
      BY <1>27 DEF SubmitLand, WorkInv, WorkOK, Live, Place
    <2>6. LandOK(t)'
      <3>1. (Place(t) = WorkOf(task[t].attempt))' <=> Place(t)' = WorkOf(task[t].attempt)
        BY <2>4 DEF WorkOf
      <3> QED
        BY <2>4, <2>5, <3>1 DEF LandOK
    <2>7. TaskNext
      BY <2>4, <2>6 DEF TaskNext
    <2>8. TreeSafe(w) /\ WipSafe(w)
      BY <1>27, TreeChange DEF SubmitLand, WipSafe
    <2> QED
      BY <1>27, <2>2, <2>3, <2>7, <2>8, WorkOthers DEF SubmitLand
  <1>28. ASSUME NEW w \in Worker, SubmitStep(w) PROVE WorkInv'
    <2>1. Order(w).task \in Task /\ task[Order(w).task] \in Tasks
      BY <1>0, <1>28, Occupied DEF SubmitStep, Busy, TypeOK
    <2>2. At(w)' = "after" /\ \A v \in Worker \ {w} : loop'[v] = loop[v]
      BY <1>0, <1>28, Replied DEF SubmitStep, Delivered
    <2>3. WorkOK(w)'
      BY <2>2, NoWork DEF Executing
    <2>4. TaskNext
      BY <1>28, <2>1, StepDoneState DEF SubmitStep, TaskNext, TypeOK, Tasks
    <2>5. TreeSafe(w) /\ WipSafe(w)
      BY <1>28, TreeChange DEF SubmitStep, WipSafe
    <2> QED
      BY <1>28, <2>2, <2>3, <2>4, <2>5, WorkOthers DEF SubmitStep
  <1>29. ASSUME NEW w \in Worker, SubmitChain(w) PROVE WorkInv'
    <2>1. Order(w).task \in Task /\ task[Order(w).task] \in Tasks
      BY <1>0, <1>29, Occupied DEF SubmitChain, Busy, TypeOK
    <2>2. At(w)' = "after" /\ \A v \in Worker \ {w} : loop'[v] = loop[v]
      BY <1>0, <1>29, Replied DEF SubmitChain, Delivered
    <2>3. WorkOK(w)'
      BY <2>2, NoWork DEF Executing
    <2>4. TaskNext
      BY <1>29, <2>1 DEF SubmitChain, TaskNext, TypeOK, Tasks, Lease
    <2>5. TreeSafe(w) /\ WipSafe(w)
      BY <1>29, TreeChange DEF SubmitChain, WipSafe
    <2> QED
      BY <1>29, <2>2, <2>3, <2>4, <2>5, WorkOthers DEF SubmitChain
  <1>30. ASSUME NEW w \in Worker, SubmitFailure(w) PROVE WorkInv'
    <2>1. Order(w).task \in Task /\ task[Order(w).task] \in Tasks
      BY <1>0, <1>30, Occupied DEF SubmitFailure, Busy, TypeOK
    <2>2. At(w)' = "after" /\ \A v \in Worker \ {w} : loop'[v] = loop[v]
      BY <1>0, <1>30, Replied DEF SubmitFailure, Delivered
    <2>3. WorkOK(w)'
      BY <2>2, NoWork DEF Executing
    <2>4. TaskNext
      BY <1>30, <2>1 DEF SubmitFailure, TaskNext, TypeOK, Tasks
    <2>5. TreeSafe(w) /\ WipSafe(w)
      BY <1>30, TreeChange DEF SubmitFailure, WipSafe
    <2> QED
      BY <1>30, <2>2, <2>3, <2>4, <2>5, WorkOthers DEF SubmitFailure
  <1>31. ASSUME NEW w \in Worker, After(w) PROVE WorkInv'
    <2>1. /\ At(w)' \in {"begin", "poll"}
          /\ \A v \in Worker \ {w} : loop'[v] = loop[v]
      <3>1. CASE loop[w].reply = "next"
        <4>1. Given(w, Order(w).task, task[Order(w).task].attempt)
          BY <1>31, <3>1 DEF After
        <4> QED
          BY <1>0, <4>1, GivenMoves DEF Order, At
      <3>2. CASE loop[w].reply # "next"
        BY <1>0, <1>31, <3>2, FreshMoves DEF After, Idle, Order, At
      <3> QED
        BY <3>1, <3>2
    <2>2. WorkOK(w)'
      BY <2>1, NoWork DEF Executing
    <2>3. TreeSafe(w)
      <3>1. loop[w].out.ref => remote
        BY DEF OwnInv, OwnOK
      <3> QED
        BY <1>31, <3>1, TreeChange DEF After, Consumed, Teardown
    <2> QED
      BY <1>31, <2>1, <2>2, <2>3, WorkOthers DEF After, TaskNext, WipSafe
  <1>32. ASSUME NEW w \in Worker, RequestFails(w) PROVE WorkInv'
    <2>1. At(w)' = "checkin" /\ \A v \in Worker \ {w} : loop'[v] = loop[v]
      BY <1>0, <1>32, Rechecked DEF RequestFails
    <2>2. WorkOK(w)'
      BY <2>1, NoWork DEF Executing
    <2>3. TreeSafe(w)
      BY <1>32, TreeChange DEF RequestFails, Teardown, Executing
    <2> QED
      BY <1>32, <2>1, <2>2, <2>3, WorkOthers DEF RequestFails, TaskNext, WipSafe
  <1>33. ASSUME NEW w \in Worker, PollLost(w) PROVE WorkInv'
    <2> PICK t \in Offered(w) : Lease(w, t, task[t].step)
      BY <1>33 DEF PollLost
    <2>1. At(w)' = "checkin" /\ \A v \in Worker \ {w} : loop'[v] = loop[v]
      BY <1>0, <1>33, Rechecked DEF PollLost
    <2>2. WorkOK(w)'
      BY <2>1, NoWork DEF Executing
    <2>3. TaskNext
      BY DEF Lease, TaskNext, Offered, TypeOK
    <2>4. TreeSafe(w) /\ WipSafe(w)
      BY <1>33, TreeChange DEF PollLost, WipSafe
    <2> QED
      BY <1>33, <2>1, <2>2, <2>3, <2>4, WorkOthers DEF PollLost
  <1>34. ASSUME NEW w \in Worker, Raise(w) PROVE WorkInv'
    <2>1. At(w)' = "checkin" /\ \A v \in Worker \ {w} : loop'[v] = loop[v]
      BY <1>0, <1>34, Rechecked DEF Raise, Raises
    <2>2. WorkOK(w)'
      BY <2>1, NoWork DEF Executing
    <2>3. TreeSafe(w)
      BY <1>34, TreeChange DEF Raise, Raises, Teardown, Executing
    <2> QED
      BY <1>34, <2>1, <2>2, <2>3, WorkOthers DEF Raise, Raises, TaskNext, WipSafe
  <1>35. ASSUME NEW w \in Worker, Reborn(w) PROVE WorkInv'
    <2>1. At(w)' = "checkin" /\ \A v \in Worker \ {w} : loop'[v] = loop[v]
      BY <1>0, <1>35, Rechecked DEF Reborn
    <2>2. WorkOK(w)'
      BY <2>1, NoWork DEF Executing
    <2>3. TreeSafe(w)
      BY <1>35, TreeChange DEF Reborn, Teardown, Executing
    <2> QED
      BY <1>35, <2>1, <2>2, <2>3, WorkOthers DEF Reborn, TaskNext, WipSafe
  <1>36. ASSUME NEW w \in Worker, Restart(w) PROVE WorkInv'
    BY <1>36, WorkAll DEF Restart, Place
  <1>37. ASSUME NEW t \in Task, Expire(t) PROVE WorkInv'
    <2>1. \A u \in Task : task'[u] = task[u] \/ task'[u].state = "queued"
      BY <1>37 DEF Expire, TypeOK, Tasks
    <2> QED
      BY <1>37, <2>1, WorkAll DEF Expire, Place
  <1>38. ASSUME NEW t \in Task, Retry(t) PROVE WorkInv'
    <2>1. \A u \in Task : task'[u] = task[u] \/ task'[u].state = "queued"
      BY <1>38 DEF Retry, TypeOK, Tasks
    <2> QED
      BY <1>38, <2>1, WorkAll DEF Retry, Place
  <1>39. ASSUME NEW t \in Task, Land(t) PROVE WorkInv'
    <2>1. task[t].state = "landing" /\ task[t] \in Tasks
      BY <1>39 DEF Land, TypeOK
    <2>2. task'[t].state \in {"queued", "done", "failed"}
      BY <1>39, <2>1, StepDoneState DEF Land, TypeOK, Tasks
    <2>3. \A u \in Task \ {t} : /\ task'[u] = task[u] /\ wip'[u] = wip[u]
                               /\ \A s \in Site : tree'[s][u] = tree[s][u]
      BY <1>39 DEF Land, TypeOK
    <2>4. \A u \in Task \ {t} : Place(u)' = Place(u)
      BY <1>39, <2>3 DEF Land, Place, Site
    <2> QED
      BY <1>39, <2>1, <2>2, <2>3, <2>4, WorkAll DEF Land
  <1>40. CASE Play
    <2>1. \A u \in Task : task'[u] = task[u] \/ task'[u].state = "queued"
      BY <1>40 DEF Play, TypeOK, Tasks
    <2> QED
      BY <1>40, <2>1, WorkAll DEF Play, Place
  <1> QED
    BY <1>1, <1>2, <1>3, <1>4, <1>5, <1>6, <1>7, <1>8, <1>9, <1>10, <1>11,
       <1>12, <1>13, <1>14, <1>15, <1>16, <1>17, <1>18, <1>19, <1>20, <1>21,
       <1>22, <1>23, <1>24, <1>25, <1>26, <1>27, <1>28, <1>29, <1>30, <1>31,
       <1>32, <1>33, <1>34, <1>35, <1>36, <1>37, <1>38, <1>39, <1>40
       DEF Next, Loop, Execute, Submit, Crash, Shutdown

(***************************************************************************)
(* What the manager is about to squash is in its place, is the work of the *)
(* attempt whose submit it accepted and of no other, and was validated:    *)
(* work that is published while the lease lasts is neither cut again nor   *)
(* removed before the land ends (execute.py:655-725, loop.py:329-340).     *)
(***************************************************************************)
THEOREM LandsItsWorkHolds == ASSUME Partition = FALSE PROVE Spec => []LandsItsWork
  <1>1. WorkInv => LandsItsWork
    BY DEF WorkInv, LandOK, LandsItsWork, Place, WorkOf
  <1>2. Init => TypeOK /\ HintInv /\ OwnInv /\ WorkInv
    BY TypeInit, HintInit, OwnInit, WorkInit
  <1>3. TypeOK /\ HintInv /\ OwnInv /\ WorkInv /\ [Next]_vars
          => (TypeOK /\ HintInv /\ OwnInv /\ WorkInv)'
    BY TypeStep, HintStep, OwnStep, WorkStep
  <1> QED
    BY <1>1, <1>2, <1>3, PTL DEF Spec

-----------------------------------------------------------------------------
(* What is left in a worktree                                              *)

Handed(w) == At(w) = "after" /\ loop[w].reply = "next"

\* The attempt a worker has in hand, to execute or handed over by a submit.
Carried(w) ==
    IF At(w) \in Executing \cup {"begin"} THEN Order(w).attempt
    ELSE IF Handed(w) THEN task[Order(w).task].attempt
    ELSE 0

\* No worktree is cut for an attempt before its setup, one is cut at most, and it has
\* commits from the verdict of its run on, whoever else may cut it again.
LeftOK(w) ==
    /\ Carried(w) \in 0..attempts
    /\ At(w) \in Executing \cup {"begin"} => Order(w).attempt # 0
    /\ Handed(w) => /\ task[Order(w).task].state = "leased" /\ task[Order(w).task].by = w
                    /\ task[Order(w).task].attempt # 0
    /\ At(w) \in {"begin", "setup", "after"} /\ Carried(w) # 0 =>
           \A s \in Site, t \in Task : tree[s][t].by # Carried(w)
    /\ At(w) \in Executing =>
           \A s \in Site, t \in Task :
               tree[s][t].by = Carried(w) => s = SiteOf(w) /\ t = Order(w).task
    /\ At(w) = "publish" => Order(w).attempt \in validated
    /\ At(w) \in {"validate", "publish"} /\ TreeOf(w).by = Order(w).attempt =>
           TreeOf(w).commits # {}

Apart == \A v, w \in Worker : v # w /\ Carried(v) = Carried(w) => Carried(w) = 0
Past == \A s \in Site, t \in Task : tree[s][t].by \in 0..attempts

LeftInv ==
    /\ \A w \in Worker : LeftOK(w)
    /\ Apart /\ Past
    /\ LeftoversAreWork

\* A step of w removes a worktree, adds to it, or cuts one for its order.
TreeStep(w) ==
    \A s \in Site, t \in Task :
        \/ tree'[s][t].by = 0
        \/ /\ tree'[s][t].by = tree[s][t].by
           /\ tree[s][t].commits \subseteq tree'[s][t].commits
        \/ /\ At(w) = "setup" /\ tree'[s][t].by = Carried(w)
           /\ s = SiteOf(w) /\ t = Order(w).task

Recorded == validated \subseteq validated' /\ rejected \subseteq rejected' /\ cut \subseteq cut'

\* How an execution ends.
Leaves(w) ==
    At(w) \in Executing =>
        \/ At(w)' \in Executing /\ Order(w)'.attempt = Order(w).attempt
        \/ At(w) = "setup" /\ \A s \in Site, t \in Task : tree'[s][t].by # Order(w).attempt
        \/ tree'[SiteOf(w)][Order(w).task].by = 0
        \/ CutShort(w) \in cut'
        \/ /\ Order(w).attempt \in validated' \cup rejected'
           /\ TreeOf(w).by = Order(w).attempt =>
                  tree'[SiteOf(w)][Order(w).task].commits # {}

\* A worker that stands still.
LEMMA LeftStill ==
    ASSUME TypeOK, TypeOK', NEW v \in Worker, LeftOK(v), remote' = remote,
           loop'[v] = loop[v], Handed(v) => task'[Order(v).task] = task[Order(v).task],
           attempts' >= attempts, Recorded,
           \A s \in Site, t \in Task :
               \/ tree'[s][t].by = 0
               \/ /\ tree'[s][t].by = tree[s][t].by
                  /\ tree[s][t].commits \subseteq tree'[s][t].commits
               \/ tree'[s][t].by # Carried(v)
    PROVE  LeftOK(v)' /\ Carried(v)' = Carried(v)
  <1>1. Order(v)' = Order(v) /\ At(v)' = At(v) /\ SiteOf(v)' = SiteOf(v) /\ Handed(v)' = Handed(v)
    BY DEF Order, At, SiteOf, Handed
  <1>2. Carried(v)' = Carried(v)
    BY <1>1 DEF Carried
  <1>3. attempts \in Nat /\ attempts' \in Nat
    BY DEF TypeOK
  <1>4. (Carried(v) \in 0..attempts)'
    BY <1>2, <1>3 DEF LeftOK
  <1>5. ASSUME Carried(v) # 0, NEW s \in Site, NEW t \in Task, tree'[s][t].by = Carried(v)
        PROVE  tree[s][t].by = Carried(v) /\ tree[s][t].commits \subseteq tree'[s][t].commits
    BY <1>5
  <1>6. At(v) \in Executing => Carried(v) # 0 /\ Carried(v) = Order(v).attempt
    BY DEF Carried, LeftOK
  <1>7. At(v) \in Executing => SiteOf(v) \in Site /\ Order(v).task \in Task
    BY SiteType, Occupied DEF TypeOK, LoopOK, Busy
  <1>8. (At(v) \in {"begin", "setup", "after"} /\ Carried(v) # 0 =>
           \A s \in Site, t \in Task : tree[s][t].by # Carried(v))'
    BY <1>1, <1>2, <1>5 DEF LeftOK
  <1>9. (At(v) \in Executing =>
           \A s \in Site, t \in Task :
               tree[s][t].by = Carried(v) => s = SiteOf(v) /\ t = Order(v).task)'
    BY <1>1, <1>2, <1>5, <1>6 DEF LeftOK
  <1>10. (At(v) = "publish" => Order(v).attempt \in validated)'
    BY <1>1 DEF LeftOK, Recorded
  <1>11. (At(v) \in {"validate", "publish"} /\ TreeOf(v).by = Order(v).attempt =>
            TreeOf(v).commits # {})'
    <2> SUFFICES ASSUME At(v) \in {"validate", "publish"},
                        tree'[SiteOf(v)][Order(v).task].by = Order(v).attempt
                 PROVE  tree'[SiteOf(v)][Order(v).task].commits # {}
      BY <1>1 DEF TreeOf
    <2>1. At(v) \in Executing
      BY DEF Executing
    <2>2. /\ tree[SiteOf(v)][Order(v).task].by = Order(v).attempt
          /\ tree[SiteOf(v)][Order(v).task].commits \subseteq tree'[SiteOf(v)][Order(v).task].commits
      BY <1>5, <1>6, <1>7, <2>1
    <2> QED
      BY <2>2 DEF LeftOK, TreeOf
  <1>12. (At(v) \in Executing \cup {"begin"} => Order(v).attempt # 0)'
    BY <1>1 DEF LeftOK
  <1>13. (Handed(v) => /\ task[Order(v).task].state = "leased" /\ task[Order(v).task].by = v
                       /\ task[Order(v).task].attempt # 0)'
    BY <1>1 DEF LeftOK
  <1> QED
    BY <1>2, <1>4, <1>8, <1>9, <1>10, <1>11, <1>12, <1>13 DEF LeftOK

\* A worktree that is neither removed nor cut in the step is accounted for.
LEMMA LeftTrees ==
    ASSUME TypeOK, TypeOK', LeftInv, NEW w \in Worker, Recorded, TreeStep(w), Leaves(w),
           \A v \in Worker \ {w} : loop'[v] = loop[v],
           At(w) = "setup" /\ (\E s \in Site, t \in Task : tree'[s][t].by = Carried(w)) =>
               At(w)' \in Executing /\ Order(w)'.attempt = Order(w).attempt
    PROVE  LeftoversAreWork'
  <1> SUFFICES ASSUME NEW s \in Site, NEW t \in Task, tree'[s][t].by # 0
               PROVE  LET a == tree'[s][t].by IN
                      \/ \E e \in cut' : e.attempt = a
                      \/ a \in validated' \cup rejected' /\ tree'[s][t].commits # {}
                      \/ \E v \in Worker : At(v)' \in Executing /\ Order(v)'.attempt = a
    BY DEF LeftoversAreWork
  <1> DEFINE a == tree'[s][t].by
  <1>1. CASE At(w) = "setup" /\ a = Carried(w)
    <2>1. Carried(w) = Order(w).attempt
      BY <1>1 DEF Carried, Executing
    <2> QED
      BY <1>1, <2>1
  <1>2. CASE ~ (At(w) = "setup" /\ a = Carried(w))
    <2>1. a = tree[s][t].by /\ tree[s][t].commits \subseteq tree'[s][t].commits
      BY <1>2 DEF TreeStep
    <2>2. CASE \E e \in cut : e.attempt = a
      BY <2>2 DEF Recorded
    <2>3. CASE a \in validated \cup rejected /\ tree[s][t].commits # {}
      BY <2>1, <2>3 DEF Recorded
    <2>4. CASE \E v \in Worker \ {w} : At(v) \in Executing /\ Order(v).attempt = a
      BY <2>4 DEF At, Order
    <2>5. CASE At(w) \in Executing /\ Order(w).attempt = a
      <3>1. Carried(w) = a
        BY <2>5 DEF Carried
      <3>2. s = SiteOf(w) /\ t = Order(w).task
        BY <2>1, <2>5, <3>1 DEF LeftInv, LeftOK
      <3>3. TreeOf(w).by = a
        BY <2>1, <3>2 DEF TreeOf
      <3>4. CASE At(w)' \in Executing /\ Order(w)'.attempt = Order(w).attempt
        BY <2>5, <3>4
      <3>5. CASE At(w) = "setup"
        BY <1>2, <3>1, <3>5
      <3>6. CASE tree'[SiteOf(w)][Order(w).task].by = 0
        BY <3>2, <3>6
      <3>7. CASE CutShort(w) \in cut'
        BY <2>5, <3>7 DEF CutShort
      <3>8. CASE /\ Order(w).attempt \in validated' \cup rejected'
                 /\ TreeOf(w).by = Order(w).attempt =>
                        tree'[SiteOf(w)][Order(w).task].commits # {}
        BY <2>5, <3>2, <3>3, <3>8
      <3> QED
        BY <2>5, <3>4, <3>5, <3>6, <3>7, <3>8 DEF Leaves
    <2> QED
      BY <2>1, <2>2, <2>3, <2>4, <2>5 DEF LeftInv, LeftoversAreWork
  <1> QED
    BY <1>1, <1>2

CutGoesOn(w) ==
    At(w) = "setup" /\ (\E s \in Site, t \in Task : tree'[s][t].by = Carried(w)) =>
        At(w)' \in Executing /\ Order(w)'.attempt = Order(w).attempt

LEMMA LeftMove ==
    ASSUME TypeOK, TypeOK', LeftInv, NEW w \in Worker, remote' = remote,
           attempts' \in {attempts, attempts + 1}, Recorded, TaskSafe(w), TreeStep(w), Leaves(w),
           \A v \in Worker \ {w} : loop'[v] = loop[v], CutGoesOn(w), LeftOK(w)',
           Carried(w)' \in {0, Carried(w), attempts + 1}
    PROVE  LeftInv'
  <1>1. LeftoversAreWork'
    BY LeftTrees DEF CutGoesOn
  <1>2. attempts \in Nat /\ attempts' \in Nat /\ attempts' >= attempts
    BY DEF TypeOK
  <1>3. ASSUME NEW v \in Worker \ {w} PROVE LeftOK(v)' /\ Carried(v)' = Carried(v)
    <2>1. LeftOK(v)
      BY DEF LeftInv
    <2>2. Handed(v) => task'[Order(v).task] = task[Order(v).task]
      <3> SUFFICES ASSUME Handed(v) PROVE task'[Order(v).task] = task[Order(v).task]
        OBVIOUS
      <3>1. task[Order(v).task].state = "leased" /\ task[Order(v).task].by = v
        BY <2>1 DEF LeftOK
      <3>2. CASE task' = task
        BY <3>2
      <3>3. CASE task' # task
        <4>1. PICK t \in Task : /\ \E x : task' = [task EXCEPT ![t] = x]
                                /\ task[t].state # "leased" \/ task[t].by = w
          BY <3>3 DEF TaskSafe
        <4>2. PICK x : task' = [task EXCEPT ![t] = x]
          BY <4>1
        <4>3. Order(v).task # t /\ Order(v).task \in Task
          BY <3>1, <4>1, Occupied DEF TypeOK, LoopOK, Handed, Busy
        <4> QED
          BY <4>2, <4>3 DEF TypeOK
      <3> QED
        BY <3>2, <3>3
    <2>3. ASSUME NEW s \in Site, NEW t \in Task
          PROVE  \/ tree'[s][t].by = 0
                 \/ /\ tree'[s][t].by = tree[s][t].by
                    /\ tree[s][t].commits \subseteq tree'[s][t].commits
                 \/ tree'[s][t].by # Carried(v)
      <3>1. CASE tree'[s][t].by = Carried(w) /\ Carried(v) = Carried(w)
        BY <3>1 DEF LeftInv, Apart
      <3> QED
        BY <3>1 DEF TreeStep
    <2> QED
      BY <1>2, <2>1, <2>2, <2>3, LeftStill
  <1>4. \A v \in Worker : LeftOK(v)'
    BY <1>3
  <1>5. \A v \in Worker : Carried(v) \in 0..attempts
    BY DEF LeftInv, LeftOK
  <1>6. Apart'
    <2> SUFFICES ASSUME NEW v \in Worker, NEW u \in Worker, v # u, Carried(v)' = Carried(u)'
                 PROVE  Carried(u)' = 0
      BY DEF Apart
    <2>1. CASE u # w /\ v # w
      BY <1>3, <2>1 DEF LeftInv, Apart
    <2>2. CASE u = w
      <3>1. Carried(v)' = Carried(v) /\ Carried(v) \in 0..attempts
        BY <1>3, <1>5, <2>2
      <3>2. Carried(u)' \in {0, Carried(u), attempts + 1}
        BY <2>2
      <3>3. Carried(v) = Carried(u) => Carried(u) = 0
        BY DEF LeftInv, Apart
      <3>4. Carried(u)' # attempts + 1
        BY <1>2, <3>1
      <3> QED
        BY <3>1, <3>2, <3>3, <3>4
    <2>3. CASE v = w
      <3>1. Carried(u)' = Carried(u) /\ Carried(u) \in 0..attempts
        BY <1>3, <1>5, <2>3
      <3>2. Carried(v)' \in {0, Carried(v), attempts + 1}
        BY <2>3
      <3>3. Carried(v) = Carried(u) => Carried(u) = 0
        BY DEF LeftInv, Apart
      <3>4. Carried(v)' # attempts + 1
        BY <1>2, <3>1
      <3> QED
        BY <3>1, <3>2, <3>3, <3>4
    <2> QED
      BY <2>1, <2>2, <2>3
  <1>7. Past'
    <2> SUFFICES ASSUME NEW s \in Site, NEW t \in Task PROVE tree'[s][t].by \in 0..attempts'
      BY DEF Past
    <2>1. tree[s][t].by \in 0..attempts /\ Carried(w) \in 0..attempts
      BY <1>5 DEF LeftInv, Past
    <2>2. tree'[s][t].by \in 0..attempts
      BY <1>2, <2>1 DEF TreeStep
    <2> QED
      BY <1>2, <2>2
  <1> QED
    BY <1>1, <1>4, <1>6, <1>7 DEF LeftInv

\* No worktree, or one less.
LEMMA LessTree ==
    ASSUME TypeOK, LeftInv, NEW w \in Worker, tree' = tree \/ Teardown(w)
    PROVE  /\ TreeStep(w) /\ CutGoesOn(w)
           /\ \A s \in Site, t \in Task : tree'[s][t].by \in {0, tree[s][t].by}
           /\ At(w) = "setup" => \A s \in Site, t \in Task : tree'[s][t].by # Order(w).attempt
           /\ At(w) \in Executing /\ Teardown(w) => tree'[SiteOf(w)][Order(w).task].by = 0
  <1>1. CASE tree' = tree
    <2>1. \A s \in Site, t \in Task : tree'[s][t] = tree[s][t]
      BY <1>1
    <2>2. At(w) = "setup" => /\ Carried(w) = Order(w).attempt /\ Carried(w) # 0
                             /\ \A s \in Site, t \in Task : tree[s][t].by # Carried(w)
      BY DEF Carried, Executing, LeftInv, LeftOK
    <2>3. At(w) \in Executing /\ Teardown(w) => tree'[SiteOf(w)][Order(w).task].by = 0
      BY SiteType, Occupied DEF TypeOK, LoopOK, Busy, Teardown, NoTree
    <2> QED
      BY <2>1, <2>2, <2>3 DEF TreeStep, CutGoesOn
  <1>2. CASE Teardown(w)
    <2>1. \A s \in Site, t \in Task :
            \/ tree'[s][t] = tree[s][t]
            \/ tree'[s][t] = NoTree
      BY <1>2 DEF Teardown, TypeOK
    <2>2. At(w) = "setup" => /\ Carried(w) = Order(w).attempt /\ Carried(w) # 0
                             /\ \A s \in Site, t \in Task : tree[s][t].by # Carried(w)
      BY DEF Carried, Executing, LeftInv, LeftOK
    <2>3. At(w) \in Executing => tree'[SiteOf(w)][Order(w).task].by = 0
      BY <1>2, SiteType, Occupied DEF TypeOK, LoopOK, Busy, Teardown, NoTree
    <2> QED
      BY <2>1, <2>2, <2>3 DEF TreeStep, CutGoesOn, NoTree
  <1> QED
    BY <1>1, <1>2

\* The loop ends up with nothing in hand.
LEMMA LeftIdle ==
    ASSUME TypeOK, TypeOK', LeftInv, NEW w \in Worker, remote' = remote,
           attempts' \in {attempts, attempts + 1}, Recorded, TaskSafe(w), TreeStep(w), Leaves(w),
           \A v \in Worker \ {w} : loop'[v] = loop[v], CutGoesOn(w),
           At(w)' \notin Executing \cup {"begin"},
           At(w)' = "after" => loop'[w].reply # "next"
    PROVE  LeftInv'
  <1>1. Carried(w)' = 0
    BY DEF Carried, Handed
  <1>2. attempts' \in Nat
    BY DEF TypeOK
  <1>3. ~Handed(w)'
    BY DEF Handed
  <1>4. LeftOK(w)'
    BY <1>1, <1>2, <1>3 DEF LeftOK, Executing
  <1> QED
    BY <1>1, <1>4, LeftMove

\* An execution returns.
LEMMA LeftReturns ==
    ASSUME TypeOK, TypeOK', LeftInv, NEW w \in Worker, remote' = remote, attempts' = attempts,
           task' = task, Recorded, At(w) \in Executing,
           NEW status, NEW landable, NEW ref, Return(w, status, landable, ref),
           \/ Teardown(w)
           \/ /\ tree' = tree
              /\ \/ At(w) = "setup"
                 \/ /\ Order(w).attempt \in validated' \cup rejected'
                    /\ TreeOf(w).by = Order(w).attempt => TreeOf(w).commits # {}
    PROVE  LeftInv'
  <1>1. /\ \A v \in Worker \ {w} : loop'[v] = loop[v]
        /\ At(w)' = "submit"
    BY Submits DEF TypeOK, LoopOK
  <1>2. TreeStep(w) /\ CutGoesOn(w)
    BY LessTree
  <1>3. Leaves(w)
    BY LessTree DEF Leaves, TreeOf
  <1>4. TaskSafe(w)
    BY DEF TaskSafe
  <1> QED
    BY <1>1, <1>2, <1>3, <1>4, LeftIdle DEF Executing

\* The loop starts again, with or without an order in hand.
LEMMA LeftRechecks ==
    ASSUME TypeOK, TypeOK', LeftInv, NEW w \in Worker, remote' = remote,
           attempts' \in {attempts, attempts + 1}, Recorded, TaskSafe(w), Recheck(w),
           tree' = tree \/ Teardown(w),
           At(w) \in Executing => CutShort(w) \in cut'
    PROVE  LeftInv'
  <1>1. /\ \A v \in Worker \ {w} : loop'[v] = loop[v]
        /\ At(w)' = "checkin"
    BY Rechecked DEF TypeOK, LoopOK
  <1>2. TreeStep(w) /\ CutGoesOn(w)
    BY LessTree
  <1>3. Leaves(w)
    BY DEF Leaves
  <1> QED
    BY <1>1, <1>2, <1>3, LeftIdle DEF Executing

\* An execution goes on.
LEMMA LeftGoesOn ==
    ASSUME TypeOK, TypeOK', LeftInv, NEW w \in Worker, remote' = remote, attempts' = attempts,
           task' = task, Recorded, At(w) \in Executing, NEW pc \in Executing \ {"setup"},
           Goto(w, pc), TreeStep(w),
           pc = "publish" => Order(w).attempt \in validated',
           pc \in {"validate", "publish"} /\ TreeOf(w).by = Order(w).attempt =>
               tree' = tree /\ TreeOf(w).commits # {},
           pc \in {"validate", "publish"} => tree' = tree
    PROVE  LeftInv'
  <1>1. /\ \A v \in Worker \ {w} : loop'[v] = loop[v]
        /\ loop'[w].order = [Order(w) EXCEPT !.pc = pc]
    BY GotoMoves DEF TypeOK, LoopOK
  <1>2. At(w)' = pc /\ Order(w)'.task = Order(w).task /\ Order(w)'.attempt = Order(w).attempt
    BY <1>1, SameOrder DEF TypeOK, LoopOK
  <1>3. SiteOf(w)' = SiteOf(w) /\ ~Handed(w)' /\ pc \notin {"begin", "after"}
    BY <1>2 DEF SiteOf, Handed, Executing
  <1>4. Carried(w)' = Carried(w) /\ Carried(w) = Order(w).attempt /\ Carried(w) # 0
    BY <1>2 DEF Carried, LeftInv, LeftOK
  <1>5. (At(w) \in Executing =>
           \A s \in Site, t \in Task :
               tree[s][t].by = Carried(w) => s = SiteOf(w) /\ t = Order(w).task)'
    BY <1>2, <1>3, <1>4 DEF LeftInv, LeftOK, TreeStep
  <1>6. (At(w) \in {"validate", "publish"} /\ TreeOf(w).by = Order(w).attempt =>
           TreeOf(w).commits # {})'
    BY <1>2, <1>3 DEF TreeOf
  <1>7. LeftOK(w)'
    BY <1>2, <1>3, <1>4, <1>5, <1>6 DEF LeftInv, LeftOK
  <1>8. Leaves(w) /\ CutGoesOn(w)
    BY <1>2 DEF Leaves, CutGoesOn
  <1>9. TaskSafe(w) /\ attempts' \in {attempts, attempts + 1}
    BY DEF TaskSafe
  <1> QED
    BY <1>1, <1>4, <1>7, <1>8, <1>9, LeftMove

\* The manager and the operator: no loop moves.
LEMMA LeftWorld ==
    ASSUME TypeOK, TypeOK', LeftInv, remote' = remote, attempts' = attempts, loop' = loop,
           UNCHANGED <<validated, rejected, cut>>,
           \A v \in Worker : Handed(v) => task'[Order(v).task] = task[Order(v).task],
           \A s \in Site, t \in Task : tree'[s][t] \in {tree[s][t], NoTree}
    PROVE  LeftInv'
  <1>1. attempts \in Nat
    BY DEF TypeOK
  <1>2. ASSUME NEW s \in Site, NEW t \in Task
        PROVE  \/ tree'[s][t].by = 0
               \/ /\ tree'[s][t].by = tree[s][t].by
                  /\ tree[s][t].commits \subseteq tree'[s][t].commits
    BY DEF NoTree
  <1>3. \A v \in Worker : LeftOK(v)' /\ Carried(v)' = Carried(v)
    BY <1>1, <1>2, LeftStill DEF LeftInv, Recorded
  <1>4. Apart'
    BY <1>3 DEF LeftInv, Apart
  <1>5. Past'
    BY <1>1, <1>2 DEF LeftInv, Past
  <1>6. LeftoversAreWork'
    <2> SUFFICES ASSUME NEW s \in Site, NEW t \in Task, tree'[s][t].by # 0
                 PROVE  LET a == tree'[s][t].by IN
                        \/ \E e \in cut : e.attempt = a
                        \/ a \in validated \cup rejected /\ tree'[s][t].commits # {}
                        \/ \E v \in Worker : At(v) \in Executing /\ Order(v).attempt = a
      BY DEF LeftoversAreWork, At, Order
    <2>1. tree'[s][t] = tree[s][t]
      BY DEF NoTree
    <2> QED
      BY <2>1 DEF LeftInv, LeftoversAreWork
  <1> QED
    BY <1>3, <1>4, <1>5, <1>6 DEF LeftInv

\* An order is taken up, or handed over by a submit.
LEMMA LeftTakes ==
    ASSUME TypeOK, TypeOK', LeftInv, NEW w \in Worker, remote' = remote, tree' = tree,
           attempts' \in {attempts, attempts + 1}, Recorded, TaskSafe(w),
           \A v \in Worker \ {w} : loop'[v] = loop[v],
           At(w) \notin Executing,
           \/ At(w)' \in {"begin", "setup"} /\ Carried(w)' = Order(w)'.attempt
           \/ /\ At(w)' = "after"
              /\ Handed(w)' => /\ task'[Order(w)'.task].state = "leased"
                               /\ task'[Order(w)'.task].by = w
                               /\ Carried(w)' = attempts + 1
                               /\ task'[Order(w)'.task].attempt # 0,
           \/ Carried(w)' = attempts + 1 /\ attempts' = attempts + 1
           \/ Carried(w)' = Carried(w) /\ Carried(w) # 0 /\ At(w) \in {"begin", "after"}
           \/ Carried(w)' = 0 /\ At(w)' = "after" /\ ~Handed(w)'
    PROVE  LeftInv'
  <1>1. attempts \in Nat /\ attempts' \in Nat
    BY DEF TypeOK
  <1>2. Carried(w) \in 0..attempts /\ Past
    BY DEF LeftInv, LeftOK
  <1>3. Carried(w)' \in 0..attempts'
    BY <1>1, <1>2
  <1>4. Carried(w)' # 0 => \A s \in Site, t \in Task : tree'[s][t].by # Carried(w)'
    <2> SUFFICES ASSUME Carried(w)' # 0, NEW s \in Site, NEW t \in Task
                 PROVE  tree[s][t].by # Carried(w)'
      OBVIOUS
    <2>1. CASE Carried(w)' = attempts + 1
      <3>1. tree[s][t].by \in 0..attempts
        BY <1>2 DEF Past
      <3> QED
        BY <1>1, <2>1, <3>1
    <2>2. CASE Carried(w)' = Carried(w) /\ Carried(w) # 0 /\ At(w) \in {"begin", "after"}
      BY <2>2 DEF LeftInv, LeftOK
    <2> QED
      BY <2>1, <2>2
  <1>5. At(w)' \in {"begin", "setup"} => Order(w)'.attempt # 0 /\ Carried(w)' # 0
    BY <1>1
  <1>6. (At(w) \in Executing =>
           \A s \in Site, t \in Task :
               tree[s][t].by = Carried(w) => s = SiteOf(w) /\ t = Order(w).task)'
    BY <1>4, <1>5 DEF Executing
  <1>7. At(w)' \in {"begin", "setup", "after"}
    OBVIOUS
  <1>8. LeftOK(w)'
    BY <1>3, <1>4, <1>5, <1>6, <1>7 DEF LeftOK, Executing, Handed
  <1>9. TreeStep(w) /\ CutGoesOn(w)
    BY LessTree
  <1>10. Leaves(w) /\ Carried(w)' \in {0, Carried(w), attempts + 1}
    BY DEF Leaves
  <1> QED
    BY <1>8, <1>9, <1>10, LeftMove

LEMMA LeftInit == Init => LeftInv
  <1> SUFFICES ASSUME Init PROVE LeftInv
    OBVIOUS
  <1>1. \A w \in Worker : At(w) = "checkin"
    BY DEF Init, At, Idle
  <1>2. \A s \in Site, t \in Task : tree[s][t].by = 0
    BY DEF Init, NoTree
  <1>3. attempts = 0
    BY DEF Init
  <1>4. \A w \in Worker : Carried(w) = 0
    BY <1>1 DEF Carried, Executing, Handed
  <1> QED
    BY <1>1, <1>2, <1>3, <1>4
       DEF LeftInv, LeftOK, Apart, Past, LeftoversAreWork, Executing, Handed

\* What a submit and its aftermath leave of a worktree.
LEMMA LeftAfter ==
    ASSUME TypeOK, TypeOK', LeftInv, NEW w \in Worker, After(w)
    PROVE  LeftInv'
  <1> USE DEF setting, manager, disk, page, memory, history
  <1>0. LoopOK
    BY DEF TypeOK, LoopOK
  <1>1. At(w) = "after" /\ At(w) \notin Executing /\ At(w) # "setup"
    BY DEF After, Executing
  <1>2. UNCHANGED <<task, attempts, validated, rejected, cut, remote>>
    BY DEF After
  <1>3. Recorded /\ TaskSafe(w) /\ attempts' \in {attempts, attempts + 1}
    BY <1>2 DEF Recorded, TaskSafe
  <1>4. CASE loop[w].reply = "next"
    <2> DEFINE t == Order(w).task
    <2>1. Handed(w)
      BY <1>1, <1>4 DEF Handed
    <2>2. t \in Task /\ task[t].attempt # 0
      BY <1>0, <1>1, <2>1, Occupied DEF Busy, LeftInv, LeftOK
    <2>3. Given(w, t, task[t].attempt)
      BY <1>4 DEF After
    <2>4. /\ \A v \in Worker \ {w} : loop'[v] = loop[v]
          /\ At(w)' = "begin" /\ Order(w)'.task = t /\ Order(w)'.attempt = task[t].attempt
      BY <1>0, <2>2, <2>3, GivenMoves DEF Order, At
    <2>5. tree' = tree
      BY <1>4 DEF After, Consumed
    <2>6. Carried(w)' = Order(w)'.attempt /\ Carried(w) = task[t].attempt
      BY <1>1, <2>1, <2>4 DEF Carried
    <2> QED
      BY <1>1, <1>2, <1>3, <2>2, <2>4, <2>5, <2>6, LeftTakes
  <1>5. CASE loop[w].reply # "next"
    <2>1. loop' = [loop EXCEPT ![w] =
                [order |-> Idle("poll"), out |-> NoOutcome, reply |-> "none"]]
      BY <1>5 DEF After
    <2>2. /\ \A v \in Worker \ {w} : loop'[v] = loop[v]
          /\ At(w)' = "poll"
      <3> DEFINE o == Idle("poll")
      <3>1. o.pc = "poll"
        BY DEF Idle
      <3> HIDE DEF o
      <3>2. /\ \A v \in Worker \ {w} : loop'[v] = loop[v]
            /\ loop'[w].order = o
        BY <1>0, <2>1, FreshMoves DEF o
      <3> QED
        BY <3>1, <3>2 DEF At
    <2>3. tree' = tree \/ Teardown(w)
      BY DEF After, Consumed
    <2>4. TreeStep(w) /\ CutGoesOn(w) /\ Leaves(w)
      BY <1>1, <2>3, LessTree DEF Leaves
    <2> QED
      BY <1>2, <1>3, <2>2, <2>4, LeftIdle DEF Executing
  <1> QED
    BY <1>4, <1>5

LEMMA LeftSubmit ==
    ASSUME TypeOK, TypeOK', LeftInv, NEW w \in Worker, Submit(w)
    PROVE  LeftInv'
  <1> USE DEF setting, manager, disk, page, memory, history
  <1>0. LoopOK
    BY DEF TypeOK, LoopOK
  <1>1. At(w) = "submit" /\ At(w) \notin Executing /\ Order(w).task \in Task
    BY <1>0, Occupied DEF Submit, SubmitRefused, SubmitLand, SubmitStep, SubmitChain,
                          SubmitFailure, Executing, Busy
  <1>2. UNCHANGED <<tree, validated, rejected, cut, remote>>
    BY DEF Submit, SubmitRefused, SubmitLand, SubmitStep, SubmitChain, SubmitFailure
  <1>3. Recorded /\ TreeStep(w) /\ CutGoesOn(w) /\ Leaves(w)
    BY <1>1, <1>2, LessTree DEF Recorded, Leaves
  <1>4. CASE SubmitChain(w)
    <2> DEFINE t == Order(w).task
    <2>1. Live(w) /\ Lease(w, t, task[t].step + 1) /\ Delivered(w, "next")
      BY <1>4 DEF SubmitChain
    <2>2. TaskSafe(w) /\ attempts' = attempts + 1
      BY <1>1, <2>1 DEF Live, TaskSafe, Lease
    <2>3. /\ task'[t].state = "leased" /\ task'[t].by = w /\ task'[t].attempt = attempts + 1
      BY <1>1, <2>1 DEF Lease, TypeOK
    <2>4. attempts + 1 # 0
      BY DEF TypeOK
    <2>5. CASE Answered(w, "next")
      <3>1. /\ \A v \in Worker \ {w} : loop'[v] = loop[v]
            /\ loop'[w].order = [Order(w) EXCEPT !.pc = "after"]
            /\ loop'[w].reply = "next"
        BY <1>0, <2>5, AnsweredMoves
      <3>2. At(w)' = "after" /\ Order(w)'.task = t
        BY <1>0, <3>1, SameOrder
      <3>3. Carried(w)' = task'[t].attempt
        BY <3>1, <3>2 DEF Carried, Handed, Executing
      <3> QED
        BY <1>1, <1>2, <1>3, <2>2, <2>3, <2>4, <3>1, <3>2, <3>3, LeftTakes
    <2>6. CASE Answered(w, "none")
      <3>1. /\ \A v \in Worker \ {w} : loop'[v] = loop[v]
            /\ loop'[w].order = [Order(w) EXCEPT !.pc = "after"]
            /\ loop'[w].reply = "none"
        BY <1>0, <2>6, AnsweredMoves
      <3>2. At(w)' = "after"
        BY <1>0, <3>1, SameOrder
      <3> QED
        BY <1>2, <1>3, <2>2, <3>1, <3>2, LeftIdle DEF Executing
    <2> QED
      BY <2>1, <2>5, <2>6 DEF Delivered
  <1>5. CASE ~SubmitChain(w)
    <2>1. /\ attempts' = attempts
          /\ \E reply \in {"none", "queued", "done"} : Answered(w, reply)
      BY <1>5 DEF Submit, SubmitRefused, SubmitLand, SubmitStep, SubmitFailure, Delivered
    <2>2. TaskSafe(w)
      BY <1>1, <1>5
         DEF Submit, SubmitRefused, SubmitLand, SubmitStep, SubmitFailure, TaskSafe, Live
    <2>3. PICK reply \in {"none", "queued", "done"} : Answered(w, reply)
      BY <2>1
    <2>4. /\ \A v \in Worker \ {w} : loop'[v] = loop[v]
          /\ loop'[w].order = [Order(w) EXCEPT !.pc = "after"]
          /\ loop'[w].reply = reply
      BY <1>0, <2>3, AnsweredMoves
    <2>5. At(w)' = "after"
      BY <1>0, <2>4, SameOrder
    <2> QED
      BY <1>2, <1>3, <2>1, <2>2, <2>4, <2>5, LeftIdle DEF Executing
  <1> QED
    BY <1>4, <1>5

LEMMA LeftExecute ==
    ASSUME TypeOK, TypeOK', LeftInv, NEW w \in Worker, Execute(w)
    PROVE  LeftInv'
  <1> USE DEF setting, manager, disk, page, memory, history
  <1>0. LoopOK /\ LeftOK(w)
    BY DEF TypeOK, LoopOK, LeftInv
  <1>1. At(w) \in Executing /\ UNCHANGED <<task, attempts, remote>>
    BY DEF Execute, Executing, Refuse, Setup, SetupFails, Materialize, Unavailable,
           ScratchReadOnly, Raises, Preflight, PreflightFails, Unlaunched, RunDoc, RunCode,
           JudgeBlocked, JudgeError, JudgeSplit, JudgeEmpty, Judged, JudgeWork, Validate,
           ValidateFails, Publish, PublishFails
  <1>2. Order(w).task \in Task /\ SiteOf(w) \in Site
    BY <1>0, <1>1, Occupied, SiteType DEF Busy
  <1>3. Recorded
    BY DEF Recorded, Execute, Refuse, Setup, SetupFails, Materialize, Unavailable,
           ScratchReadOnly, Raises, Preflight, PreflightFails, Unlaunched, RunDoc, RunCode,
           JudgeBlocked, JudgeError, JudgeSplit, JudgeEmpty, Judged, JudgeWork, Validate,
           ValidateFails, Publish, PublishFails
  <1>4. tree' = tree => TreeStep(w)
    BY LessTree
  <1>5. CASE Refuse(w)
    BY <1>1, <1>3, <1>5, LeftReturns DEF Refuse, Fails
  <1>6. CASE Setup(w)
    <2>1. Carried(w) = Order(w).attempt
      BY <1>1 DEF Carried
    <2>2. \A s \in Site, t \in Task :
            \/ tree'[s][t] = tree[s][t]
            \/ s = SiteOf(w) /\ t = Order(w).task /\ tree'[s][t].by = Order(w).attempt
      BY <1>2, <1>6 DEF Setup, Cut, TypeOK
    <2>3. TreeStep(w)
      BY <1>6, <2>1, <2>2 DEF TreeStep, Setup
    <2> QED
      BY <1>1, <1>3, <1>6, <2>3, LeftGoesOn DEF Setup, Executing
  <1>7. CASE SetupFails(w) \/ Unavailable(w) \/ PreflightFails(w) \/ Unlaunched(w)
    BY <1>1, <1>3, <1>7, LeftReturns
       DEF SetupFails, Unavailable, PreflightFails, Unlaunched, Fails
  <1>8. CASE RunDoc(w)
    BY <1>1, <1>3, <1>8, LeftReturns DEF RunDoc
  <1>9. CASE JudgeBlocked(w) \/ JudgeError(w) \/ JudgeSplit(w) \/ JudgeEmpty(w)
    BY <1>1, <1>3, <1>9, LeftReturns
       DEF JudgeBlocked, JudgeError, JudgeSplit, JudgeEmpty, Judged
  <1>10. CASE Materialize(w)
    <2>1. AfterDocs(w) \in {"run", "preflight"} /\ tree' = tree /\ Goto(w, AfterDocs(w))
      BY <1>10 DEF Materialize, AfterDocs
    <2> DEFINE pc == AfterDocs(w)
    <2>2. pc \in Executing \ {"setup"} /\ pc \notin {"validate", "publish"} /\ Goto(w, pc)
      BY <2>1 DEF Executing
    <2> HIDE DEF pc
    <2> QED
      BY <1>1, <1>3, <1>4, <2>1, <2>2, LeftGoesOn
  <1>11. CASE Preflight(w)
    BY <1>1, <1>3, <1>4, <1>11, LeftGoesOn DEF Preflight, Executing
  <1>12. CASE RunCode(w)
    <2>1. /\ TreeSafe(w)
          /\ tree'[SiteOf(w)][Order(w).task].by = TreeOf(w).by
      BY <1>1, <1>12, CommittedTree DEF RunCode
    <2>2. TreeOf(w).commits \subseteq tree'[SiteOf(w)][Order(w).task].commits
      <3>1. CASE tree' = tree
        BY <3>1 DEF TreeOf
      <3>2. CASE tree' # tree
        <4> DEFINE x == TreeOf(w)
                   y == [x EXCEPT !.commits = @ \cup {Order(w).attempt}]
        <4>1. x \in Trees
          BY <1>2 DEF TypeOK, TreeOf
        <4>2. tree' = [tree EXCEPT ![SiteOf(w)][Order(w).task] = y]
          BY <1>12, <3>2 DEF RunCode, Committed, TreeOf
        <4>3. y.commits = x.commits \cup {Order(w).attempt}
          BY <4>1 DEF Trees
        <4>4. tree'[SiteOf(w)][Order(w).task] = y
          BY <1>2, <4>2 DEF TypeOK
        <4> QED
          BY <4>3, <4>4
      <3> QED
        BY <3>1, <3>2
    <2>3. TreeStep(w)
      BY <2>1, <2>2 DEF TreeStep, TreeSafe, TreeOf
    <2> QED
      BY <1>1, <1>3, <1>12, <2>3, LeftGoesOn DEF RunCode, Executing
  <1>13. CASE JudgeWork(w)
    <2>1. tree' = tree /\ TreeOf(w).commits # {}
      BY <1>13 DEF JudgeWork, HasCommits
    <2>2. \/ Goto(w, "validate")
          \/ Goto(w, "publish") /\ Order(w).attempt \in validated'
      BY <1>13 DEF JudgeWork
    <2>3. {"validate", "publish"} \subseteq Executing \ {"setup"}
      BY DEF Executing
    <2> QED
      BY <1>1, <1>3, <1>4, <2>1, <2>2, <2>3, LeftGoesOn
  <1>14. CASE Validate(w)
    <2>1. tree' = tree /\ Goto(w, "publish") /\ Order(w).attempt \in validated'
          /\ At(w) = "validate" /\ "publish" \in Executing \ {"setup"}
      BY <1>14 DEF Validate, Executing
    <2>2. TreeOf(w).by = Order(w).attempt => TreeOf(w).commits # {}
      BY <1>0, <2>1 DEF LeftOK
    <2> QED
      BY <1>1, <1>3, <1>4, <2>1, <2>2, LeftGoesOn
  <1>15. CASE ValidateFails(w)
    <2>1. /\ tree' = tree /\ Order(w).attempt \in rejected'
          /\ TreeOf(w).by = Order(w).attempt => TreeOf(w).commits # {}
      BY <1>0, <1>15 DEF ValidateFails, LeftOK
    <2> QED
      BY <1>1, <1>3, <1>15, <2>1, LeftReturns DEF ValidateFails, Fails
  <1>16. CASE Publish(w) \/ PublishFails(w)
    <2>1. /\ tree' = tree /\ Order(w).attempt \in validated'
          /\ TreeOf(w).by = Order(w).attempt => TreeOf(w).commits # {}
      BY <1>0, <1>16 DEF Publish, PublishFails, LeftOK
    <2> QED
      BY <1>1, <1>3, <1>16, <2>1, LeftReturns DEF Publish, PublishFails, Fails
  <1>17. CASE ScratchReadOnly(w)
    <2>1. Recheck(w) /\ (tree' = tree \/ Teardown(w)) /\ CutShort(w) \in cut'
      BY <1>17 DEF ScratchReadOnly, Raises
    <2> QED
      BY <1>1, <1>3, <2>1, LeftRechecks DEF TaskSafe
  <1> QED
    BY <1>5, <1>6, <1>7, <1>8, <1>9, <1>10, <1>11, <1>12, <1>13, <1>14, <1>15, <1>16, <1>17
       DEF Execute

LEMMA LeftStep == ASSUME TypeOK, TypeOK', LeftInv, [Next]_vars PROVE LeftInv'
  <1> USE DEF setting, manager, disk, page, memory, history
  <1>0. LoopOK
    BY DEF TypeOK, LoopOK
  <1>1. CASE UNCHANGED vars
    BY <1>1, LeftWorld DEF vars
  <1>2. ASSUME NEW w \in Worker, CheckIn(w) PROVE LeftInv'
    <2>1. At(w)' = "poll" /\ \A v \in Worker \ {w} : loop'[v] = loop[v]
      BY <1>0, <1>2, WentTo DEF CheckIn
    <2>2. TreeStep(w) /\ CutGoesOn(w)
      BY <1>2, LessTree DEF CheckIn
    <2>3. Leaves(w) /\ Recorded /\ TaskSafe(w)
      BY <1>2 DEF CheckIn, Leaves, Executing, Recorded, TaskSafe
    <2> QED
      BY <1>2, <2>1, <2>2, <2>3, LeftIdle DEF CheckIn, Executing
  <1>3. ASSUME NEW w \in Worker, PollIdle(w) PROVE LeftInv'
    BY <1>3, LeftWorld DEF PollIdle
  <1>4. ASSUME NEW w \in Worker, PollOrder(w) PROVE LeftInv'
    <2> PICK t \in Offered(w) : Lease(w, t, task[t].step) /\ Given(w, t, attempts + 1)
      BY <1>4 DEF PollOrder
    <2>1. t \in Task /\ task[t].state = "queued"
      BY DEF Offered
    <2>2. /\ \A v \in Worker \ {w} : loop'[v] = loop[v]
          /\ At(w)' = "begin" /\ Order(w)'.attempt = attempts + 1
      BY <1>0, GivenMoves DEF Order, At
    <2>3. TaskSafe(w) /\ attempts' = attempts + 1
      BY <2>1 DEF Lease, TaskSafe
    <2>4. Carried(w)' = Order(w)'.attempt
      BY <2>2 DEF Carried
    <2>5. Recorded /\ tree' = tree /\ remote' = remote /\ At(w) \notin Executing
      BY <1>4 DEF PollOrder, Recorded, Executing
    <2> QED
      BY <2>2, <2>3, <2>4, <2>5, LeftTakes
  <1>5. ASSUME NEW w \in Worker, Begin(w) PROVE LeftInv'
    <2>1. /\ \A v \in Worker \ {w} : loop'[v] = loop[v]
          /\ loop'[w].order = [Order(w) EXCEPT !.pc = "setup"]
      BY <1>0, <1>5, GotoMoves DEF Begin
    <2>2. At(w)' = "setup" /\ Order(w)'.attempt = Order(w).attempt
      BY <1>0, <2>1, SameOrder
    <2>3. At(w) = "begin" /\ At(w) \notin Executing
          /\ UNCHANGED <<tree, remote, task, attempts, validated, rejected, cut>>
      BY <1>5 DEF Begin, Executing
    <2>4. Carried(w)' = Order(w)'.attempt /\ Carried(w) = Order(w).attempt /\ Carried(w) # 0
      BY <2>2, <2>3 DEF Carried, Executing, LeftInv, LeftOK
    <2>5. Recorded /\ TaskSafe(w)
      BY <2>3 DEF Recorded, TaskSafe
    <2> QED
      BY <2>1, <2>2, <2>3, <2>4, <2>5, LeftTakes
  <1>6. ASSUME NEW w \in Worker, RequestFails(w) \/ Raise(w) PROVE LeftInv'
    <2>1. /\ Recheck(w) /\ (tree' = tree \/ Teardown(w))
          /\ At(w) \in Executing => CutShort(w) \in cut'
          /\ UNCHANGED <<remote, task, attempts, validated, rejected>>
          /\ cut \subseteq cut'
      BY <1>6 DEF RequestFails, Raise, Raises, Executing
    <2>2. Recorded /\ TaskSafe(w)
      BY <2>1 DEF Recorded, TaskSafe
    <2> QED
      BY <2>1, <2>2, LeftRechecks
  <1>7. ASSUME NEW w \in Worker, PollLost(w) PROVE LeftInv'
    <2> PICK t \in Offered(w) : Lease(w, t, task[t].step)
      BY <1>7 DEF PollLost
    <2>1. t \in Task /\ task[t].state = "queued"
      BY DEF Offered
    <2>2. TaskSafe(w) /\ attempts' = attempts + 1
      BY <2>1 DEF Lease, TaskSafe
    <2>3. Recheck(w) /\ tree' = tree /\ remote' = remote /\ At(w) \notin Executing /\ Recorded
      BY <1>7 DEF PollLost, Executing, Recorded
    <2> QED
      BY <2>2, <2>3, LeftRechecks
  <1>8. ASSUME NEW w \in Worker, Crash(w) \/ Shutdown(w) PROVE LeftInv'
    <2>1. Reborn(w)
      BY <1>8 DEF Crash, Shutdown
    <2>2. At(w) \in Executing => Order(w).task # NoTask
      BY <1>0, Occupied, WorkerAssumption DEF Busy
    <2>3. /\ Recheck(w) /\ tree' = tree
          /\ At(w) \in Executing => CutShort(w) \in cut'
          /\ UNCHANGED <<remote, task, attempts, validated, rejected>>
          /\ cut \subseteq cut'
      BY <2>1, <2>2 DEF Reborn
    <2>4. Recorded /\ TaskSafe(w)
      BY <2>3 DEF Recorded, TaskSafe
    <2> QED
      BY <2>3, <2>4, LeftRechecks
  <1>9. ASSUME NEW w \in Worker, Restart(w) PROVE LeftInv'
    BY <1>9, LeftWorld DEF Restart
  <1>10. ASSUME NEW t \in Task, Expire(t) \/ Retry(t) PROVE LeftInv'
    <2>1. /\ UNCHANGED <<remote, attempts, loop, validated, rejected, cut, tree>>
          /\ task' = [task EXCEPT ![t].state = "queued"]
      BY <1>10 DEF Expire, Retry
    <2>2. ASSUME NEW v \in Worker, Handed(v)
          PROVE  task'[Order(v).task] = task[Order(v).task]
      <3>1. task[Order(v).task].state = "leased" /\ task[Order(v).task].by = v
        BY <2>2 DEF LeftInv, LeftOK
      <3>2. Expire(t) => Order(v).task # t
        BY <2>2 DEF Expire, HandedOver, Handed
      <3>3. Retry(t) => Order(v).task # t
        BY <3>1 DEF Retry
      <3>4. Order(v).task \in Task
        BY <1>0, <2>2, Occupied DEF Handed, Busy
      <3> QED
        BY <1>10, <2>1, <3>2, <3>3, <3>4 DEF TypeOK
    <2> QED
      BY <2>1, <2>2, LeftWorld
  <1>11. ASSUME NEW t \in Task, Land(t) PROVE LeftInv'
    <2>1. /\ UNCHANGED <<remote, attempts, loop, validated, rejected, cut>>
          /\ \E x : task' = [task EXCEPT ![t] = x]
          /\ task[t].state = "landing"
          /\ tree' = tree \/ tree' = [tree EXCEPT ![Home][t] = NoTree]
      BY <1>11 DEF Land
    <2>2. ASSUME NEW v \in Worker, Handed(v)
          PROVE  task'[Order(v).task] = task[Order(v).task]
      <3>1. task[Order(v).task].state = "leased"
        BY <2>2 DEF LeftInv, LeftOK
      <3>2. Order(v).task \in Task /\ Order(v).task # t
        BY <1>0, <2>1, <2>2, <3>1, Occupied DEF Handed, Busy
      <3> QED
        BY <2>1, <3>2 DEF TypeOK
    <2>3. \A s \in Site, u \in Task : tree'[s][u] \in {tree[s][u], NoTree}
      <3> DEFINE none == NoTree
      <3> HIDE DEF none
      <3>1. tree' = tree \/ tree' = [tree EXCEPT ![Home][t] = none]
        BY <2>1 DEF none
      <3>2. \A s \in Site, u \in Task : tree'[s][u] \in {tree[s][u], none}
        <4>1. CASE tree' = tree
          BY <4>1
        <4>2. CASE tree' = [tree EXCEPT ![Home][t] = none]
          BY <1>0, <4>2 DEF TypeOK
        <4> QED
          BY <3>1, <4>1, <4>2
      <3> QED
        BY <3>2 DEF none
    <2> QED
      BY <2>1, <2>2, <2>3, LeftWorld
  <1>12. ASSUME Play PROVE LeftInv'
    <2>1. /\ UNCHANGED <<remote, attempts, loop, validated, rejected, cut, tree>>
          /\ task' = [t \in Task |-> IF task[t].state = "failed"
                                     THEN [task[t] EXCEPT !.state = "queued"] ELSE task[t]]
      BY <1>12 DEF Play
    <2>2. ASSUME NEW v \in Worker, Handed(v)
          PROVE  task'[Order(v).task] = task[Order(v).task]
      <3>1. task[Order(v).task].state = "leased" /\ Order(v).task \in Task
        BY <1>0, <2>2, Occupied DEF LeftInv, LeftOK, Handed, Busy
      <3> QED
        BY <2>1, <3>1
    <2> QED
      BY <2>1, <2>2, LeftWorld
  <1> QED
    BY <1>1, <1>2, <1>3, <1>4, <1>5, <1>6, <1>7, <1>8, <1>9, <1>10, <1>11, <1>12,
       LeftExecute, LeftSubmit, LeftAfter
       DEF Next, Loop

(***************************************************************************)
(* A worktree that nobody works in holds an attempt's commits, judged by a *)
(* validation, or is what an execution left that was cut short: every      *)
(* other return of execute_work_order (execute.py:510-728) tears it down.  *)
(* Heartbeats may get lost and other workers may take the path over.       *)
(***************************************************************************)
THEOREM LeftoversAreWorkHolds == Spec => []LeftoversAreWork
  <1>1. Init => TypeOK /\ LeftInv
    BY TypeInit, LeftInit
  <1>2. TypeOK /\ LeftInv /\ [Next]_vars => (TypeOK /\ LeftInv)'
    BY TypeStep, LeftStep
  <1>3. LeftInv => LeftoversAreWork
    BY DEF LeftInv
  <1> QED
    BY <1>1, <1>2, <1>3, PTL DEF Spec
=============================================================================
