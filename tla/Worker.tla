------------------------------- MODULE Worker -------------------------------
(***************************************************************************)
(* The worker: its poll loop (worker/loop.py), the execution of one work   *)
(* order (worker/execute.py), its volatile memory (worker/local_store.py)  *)
(* and the worktrees it cuts in its workspace (git/worktrees.py).  The     *)
(* manager is reduced to what a worker sees of it: leases, their deadline, *)
(* the answer to a submit and the end of a land; Manager.tla and           *)
(* Workflow.tla model it in full.                                          *)
(*                                                                         *)
(* With a rendezvous remote every worker has a workspace of its own and    *)
(* publishes its branch; without one all workers share the manager's       *)
(* workspace, and a task's worktree and branch have one path for all.      *)
(***************************************************************************)
EXTENDS Naturals, FiniteSets, Sequences

CONSTANTS
    Worker,       \* worker processes
    Home,         \* the workspace of the manager and its co-located workers
    NoTask,       \* a worker's order when it has none
    Task,         \* tasks, all of one queue
    Brief,        \* what a task may ask for: the kinds of its steps, and
                  \* whether it declares documents
    Partition,    \* whether heartbeats of a living worker may get lost
    Faults,       \* the events that may happen: "crash", "transport", "raise"
                  \* (an unforeseen exception) and an operator's "restart"
    MaxFaults,    \* bound on their number
    MaxAttempts   \* bound on the attempts the manager leases

ASSUME WorkerAssumption ==
    /\ Home \notin Worker /\ NoTask \notin Task
    /\ \A b \in Brief : /\ b.steps \in Seq({"doc", "code", "split"}) \ {<<>>}
                        /\ b.docs \in BOOLEAN
    /\ Partition \in BOOLEAN
    /\ Faults \subseteq {"crash", "transport", "raise", "restart"}
    /\ MaxFaults \in Nat /\ MaxAttempts \in Nat

Site == Worker \cup {Home}

\* An attempt is its number, which is its lease too; 0 is none.
Attempt == 1..MaxAttempts

VARIABLES
    remote,    \* whether a rendezvous remote is configured, on both sides
    brief,     \* brief[t] is what t asks for
    task,      \* the manager's view of a task
    paused,    \* whether the manager pauses the queue
    attempts,  \* attempts leased so far
    tree,      \* tree[s][t]: the task's worktree and branch in workspace s
    scratch,   \* scratch[s][t]: its documents were written next to them
    wip,       \* the branch published to the rendezvous remote
    loop,      \* the poll loop's thread: where it is, with which order
    beat,      \* the lease a worker's heartbeat thread keeps alive
    now,       \* the attempt the worker's page shows as running
    drain,     \* whether an operator's restart waits for the run to end
    hints,     \* hints[w][t]: the attempt whose backend session w remembers
    strikes,   \* a worker's failures in a row in the queue
    backoff,   \* the workers that ask not to be offered the queue
    validated, \* (history) attempts whose work passed, or needs no validation
    rejected,  \* (history) attempts whose work failed its validation
    cut,       \* (history) the executions that ended without an outcome
    faults     \* faults so far

setting == <<remote, brief>>
manager == <<task, paused, attempts>>
disk == <<tree, scratch, wip>>
page == <<now, drain>>
memory == <<hints, strikes, backoff>>
history == <<validated, rejected, cut>>
vars == <<setting, manager, disk, loop, beat, page, memory, history, faults>>

NoTree == [by |-> 0, commits |-> {}]
Idle(pc) == [pc |-> pc, task |-> NoTask, attempt |-> 0, kind |-> "none"]
NoOutcome == [status |-> "none", landable |-> FALSE, ref |-> FALSE]

Init ==
    /\ remote \in BOOLEAN
    /\ brief \in [Task -> Brief]
    /\ task = [t \in Task |-> [state |-> "queued", step |-> 1, by |-> NoTask, attempt |-> 0]]
    /\ paused = FALSE /\ attempts = 0
    /\ tree = [s \in Site |-> [t \in Task |-> NoTree]]
    /\ scratch = [s \in Site |-> [t \in Task |-> FALSE]]
    /\ wip = [t \in Task |-> NoTree]
    /\ loop = [w \in Worker |-> [order |-> Idle("checkin"), out |-> NoOutcome, reply |-> "none"]]
    /\ beat = [w \in Worker |-> 0]
    /\ now = [w \in Worker |-> 0] /\ drain = [w \in Worker |-> FALSE]
    /\ hints = [w \in Worker |-> [t \in Task |-> 0]]
    /\ strikes = [w \in Worker |-> 0] /\ backoff = {}
    /\ validated = {} /\ rejected = {} /\ cut = {}
    /\ faults = 0

-----------------------------------------------------------------------------
(* The workspace.                                                          *)

SiteOf(w) == IF remote THEN w ELSE Home
At(w) == loop[w].order.pc
Order(w) == loop[w].order
TreeOf(w) == tree[SiteOf(w)][Order(w).task]

\* setup_worktree removes whatever an earlier attempt left at the path.
Cut(w, t, a) ==
    tree' = [tree EXCEPT ![SiteOf(w)][t] = [by |-> a, commits |-> {}]]

Teardown(w) ==
    tree' = [tree EXCEPT ![SiteOf(w)][Order(w).task] = NoTree]

\* The agent works at the path: its commits go to the branch that is there.
Committed(w) ==
    IF TreeOf(w).by = 0 THEN tree
    ELSE [tree EXCEPT ![SiteOf(w)][Order(w).task].commits = @ \cup {Order(w).attempt}]

HasCommits(w) == TreeOf(w).commits # {}

-----------------------------------------------------------------------------
(* The loop's moves from one point to the next.                            *)

Goto(w, pc) == loop' = [loop EXCEPT ![w].order.pc = pc]

\* Every return of execute_work_order; the heartbeat thread is stopped first.
Return(w, status, landable, ref) ==
    /\ loop' = [loop EXCEPT
          ![w].order.pc = "submit",
          ![w].out = [status |-> status, landable |-> landable, ref |-> ref]]
    /\ beat' = [beat EXCEPT ![w] = 0]

Fails(w) == Return(w, "error", FALSE, FALSE)

\* run_forever's handler: the check-in is repeated before the next poll.
Recheck(w) ==
    loop' = [loop EXCEPT ![w] =
        [order |-> Idle("checkin"), out |-> NoOutcome, reply |-> "none"]]

Fault(kind) ==
    /\ kind \in Faults /\ faults < MaxFaults
    /\ faults' = faults + 1

Given(w, t, a) ==
    loop' = [loop EXCEPT ![w] =
        [order |-> [pc |-> "begin", task |-> t, attempt |-> a,
                    kind |-> brief[t].steps[task[t].step]],
         out |-> NoOutcome, reply |-> "none"]]

CheckIn(w) ==
    /\ At(w) = "checkin"
    /\ Goto(w, "poll")
    /\ UNCHANGED <<setting, page, manager, disk, beat, memory, history, faults>>

\* A request of the loop that raises: the check-in, the poll, an idle beat.
RequestFails(w) ==
    /\ At(w) \in {"checkin", "poll"}
    /\ Fault("transport")
    /\ Recheck(w)
    /\ UNCHANGED <<setting, page, manager, disk, beat, memory, history>>

\* A queue the manager does not report as paused is asked for again.
SyncedNever(w) == UNCHANGED <<strikes, backoff>>
Synced(w) ==
    IF w \in backoff /\ ~paused
    THEN backoff' = backoff \ {w} /\ strikes' = [strikes EXCEPT ![w] = 0]
    ELSE UNCHANGED <<strikes, backoff>>

Offered(w) ==
    {t \in Task : /\ task[t].state = "queued" /\ attempts < MaxAttempts
                  /\ ~paused /\ w \notin backoff}

Lease(w, t, step) ==
    /\ attempts' = attempts + 1
    /\ task' = [task EXCEPT ![t] =
          [state |-> "leased", step |-> step, by |-> w, attempt |-> attempts + 1]]

\* The worker asks without the queues it backs off from, then takes note of
\* the pauses reported in the answer.
PollIdle(w) ==
    /\ At(w) = "poll" /\ Offered(w) = {}
    /\ Synced(w)
    /\ UNCHANGED <<setting, page, manager, disk, loop, beat, hints, history, faults>>

PollOrder(w) ==
    /\ At(w) = "poll"
    /\ \E t \in Offered(w) :
        /\ Lease(w, t, task[t].step)
        /\ Given(w, t, attempts + 1)
    /\ Synced(w)
    /\ UNCHANGED <<setting, page, paused, disk, beat, hints, history, faults>>

\* The manager leases and the answer is lost: nobody works on the lease.
PollLost(w) ==
    /\ At(w) = "poll"
    /\ \E t \in Offered(w) : Lease(w, t, task[t].step)
    /\ Fault("transport")
    /\ Recheck(w)
    /\ UNCHANGED <<setting, page, paused, disk, beat, memory, history>>

\* The heartbeat thread starts before the order is executed.
BeginSilent(w) ==
    /\ At(w) = "begin"
    /\ Goto(w, "setup")
    /\ now' = [now EXCEPT ![w] = Order(w).attempt]
    /\ UNCHANGED <<setting, drain, manager, disk, beat, memory, history, faults>>
Begin(w) ==
    /\ At(w) = "begin"
    /\ Goto(w, "setup")
    /\ now' = [now EXCEPT ![w] = Order(w).attempt]
    /\ beat' = [beat EXCEPT ![w] = Order(w).attempt]
    /\ UNCHANGED <<setting, drain, manager, disk, memory, history, faults>>

-----------------------------------------------------------------------------
(* One order: execute_work_order and _execute_doc_step.                    *)

Executing == {"setup", "docs", "preflight", "run", "judge", "validate", "publish"}

\* The model, its provider, the repository and the backend are looked up; a
\* doc step wants a backend with tools.
Refuse(w) ==
    /\ At(w) = "setup"
    /\ Fails(w)
    /\ UNCHANGED <<setting, page, manager, disk, memory, history, faults>>
Setup(w) ==
    /\ At(w) = "setup"
    /\ Cut(w, Order(w).task, Order(w).attempt)
    /\ Goto(w, "docs")
    /\ UNCHANGED <<setting, page, manager, scratch, wip, beat, memory, history, faults>>
SetupFails(w) ==
    /\ At(w) = "setup"
    /\ Teardown(w)
    /\ Fails(w)
    /\ UNCHANGED <<setting, page, manager, scratch, wip, memory, history, faults>>

AfterDocs(w) == IF Order(w).kind = "doc" THEN "run" ELSE "preflight"

DocsPresent(w) == scratch[SiteOf(w)][Order(w).task]
HasDocs(w) == brief[Order(w).task].docs

Materialize(w) ==
    /\ At(w) = "docs" /\ ~(HasDocs(w) /\ DocsPresent(w))
    /\ scratch' = [scratch EXCEPT ![SiteOf(w)][Order(w).task] = HasDocs(w)]
    /\ Goto(w, AfterDocs(w))
    /\ UNCHANGED <<setting, page, manager, tree, wip, beat, memory, history, faults>>

\* A blob that is not there, or not the one pinned.
UnavailableKeeps(w) ==
    /\ At(w) = "docs" /\ HasDocs(w)
    /\ Fails(w)
    /\ UNCHANGED <<setting, page, manager, disk, memory, history, faults>>
Unavailable(w) ==
    /\ At(w) = "docs" /\ HasDocs(w)
    /\ Teardown(w)
    /\ Fails(w)
    /\ UNCHANGED <<setting, page, manager, scratch, wip, memory, history, faults>>

CutShort(w) == [by |-> w, task |-> Order(w).task, attempt |-> Order(w).attempt]

\* An exception that no handler of the execution knows: the heartbeats stop,
\* nothing is submitted, sessions stay.  The worktree is torn down only from
\* inside the try block that follows the documents.
Raises(w) ==
    /\ IF At(w) \in {"preflight", "run", "judge", "validate"}
       THEN Teardown(w) ELSE UNCHANGED tree
    /\ beat' = [beat EXCEPT ![w] = 0]
    /\ cut' = cut \cup {CutShort(w)}
    /\ Recheck(w)
    /\ UNCHANGED <<setting, page, manager, scratch, wip, memory, validated, rejected>>
Raise(w) ==
    /\ At(w) \in Executing /\ Fault("raise")
    /\ Raises(w)

\* The scratch copy of a document is written read-only; writing it again is
\* a PermissionError, which is not a DocumentUnavailable.
ScratchReadOnly(w) ==
    /\ At(w) = "docs" /\ HasDocs(w) /\ DocsPresent(w)
    /\ Raises(w)
    /\ UNCHANGED faults

Preflight(w) ==
    /\ At(w) = "preflight"
    /\ Goto(w, "run")
    /\ UNCHANGED <<setting, page, manager, disk, beat, memory, history, faults>>
PreflightFails(w) ==
    /\ At(w) = "preflight"
    /\ Teardown(w)
    /\ Fails(w)
    /\ UNCHANGED <<setting, page, manager, scratch, wip, memory, history, faults>>

\* The backend's run.  A session id is remembered whatever the result.
Remembered(w) ==
    \/ hints' = [hints EXCEPT ![w][Order(w).task] = Order(w).attempt]
    \/ UNCHANGED hints

\* The backend could not be started: a missing program, a refused configuration.
Unlaunched(w) ==
    /\ At(w) = "run"
    /\ Teardown(w)
    /\ Fails(w)
    /\ UNCHANGED <<setting, page, manager, scratch, wip, memory, history, faults>>

RunDoc(w) ==
    /\ At(w) = "run" /\ Order(w).kind = "doc"
    /\ Remembered(w)
    /\ Teardown(w)
    /\ \E status \in {"completed", "blocked", "error"} : Return(w, status, FALSE, FALSE)
    /\ UNCHANGED <<setting, page, manager, scratch, wip, strikes, backoff, history, faults>>

RunCode(w) ==
    /\ At(w) = "run" /\ Order(w).kind # "doc"
    /\ Remembered(w)
    /\ tree' \in {tree, Committed(w)}
    /\ Goto(w, "judge")
    /\ UNCHANGED <<setting, page, manager, scratch, wip, beat, strikes, backoff, history, faults>>

\* What the agent said and left, without work to validate.
Judged(w, status) ==
    /\ At(w) = "judge"
    /\ Teardown(w)
    /\ Return(w, status, FALSE, FALSE)
    /\ UNCHANGED <<setting, page, manager, scratch, wip, memory, history, faults>>
JudgeBlocked(w) == At(w) = "judge" /\ ~HasCommits(w) /\ Judged(w, "blocked")
JudgeError(w) == Judged(w, "error")
JudgeSplit(w) == Order(w).kind = "split" /\ Judged(w, "completed")
JudgeEmpty(w) ==
    /\ At(w) = "judge" /\ Order(w).kind = "code" /\ ~HasCommits(w)
    /\ Judged(w, "completed")

\* Commits: they go to the validate command, if the queue's configuration,
\* read at each dispatch, has one.
JudgeWork(w) ==
    /\ At(w) = "judge" /\ Order(w).kind = "code" /\ HasCommits(w)
    /\ \/ Goto(w, "validate") /\ UNCHANGED validated
       \/ Goto(w, "publish") /\ validated' = validated \cup {Order(w).attempt}
    /\ UNCHANGED <<setting, page, manager, disk, beat, memory, rejected, cut, faults>>

Validate(w) ==
    /\ At(w) = "validate"
    /\ Goto(w, "publish")
    /\ validated' = validated \cup {Order(w).attempt}
    /\ UNCHANGED <<setting, page, manager, disk, beat, memory, rejected, cut, faults>>

\* The worktree of a failed validation stays, for a resolve or an operator.
ValidateFails(w) ==
    /\ At(w) = "validate"
    /\ rejected' = rejected \cup {Order(w).attempt}
    /\ Fails(w)
    /\ UNCHANGED <<setting, page, manager, disk, memory, validated, cut, faults>>

\* _finish_landable: push the branch, or leave it for the manager to squash.
Publish(w) ==
    /\ At(w) = "publish"
    /\ remote => TreeOf(w).by # 0
    /\ wip' = IF remote THEN [wip EXCEPT ![Order(w).task] = TreeOf(w)] ELSE wip
    /\ Return(w, "completed", TRUE, remote)
    /\ UNCHANGED <<setting, page, manager, tree, scratch, memory, history, faults>>
PublishFails(w) ==
    /\ At(w) = "publish" /\ remote
    /\ Fails(w)
    /\ UNCHANGED <<setting, page, manager, disk, memory, history, faults>>

-----------------------------------------------------------------------------
(* The submit, once, and what follows from the answer.                     *)

Live(w) ==
    LET t == Order(w).task IN
    task[t].state = "leased" /\ task[t].by = w /\ task[t].attempt = Order(w).attempt

Answered(w, reply) ==
    loop' = [loop EXCEPT ![w].order.pc = "after", ![w].reply = reply]

\* The request raises: it never arrived, or the lease is not this worker's.
SubmitRefused(w) ==
    /\ At(w) = "submit"
    /\ \/ ~Live(w) /\ UNCHANGED faults
       \/ Fault("transport")
    /\ Answered(w, "none")
    /\ UNCHANGED <<setting, page, manager, disk, beat, memory, history>>

\* The answer of an accepted submit may get lost.
Delivered(w, reply) ==
    \/ Answered(w, reply) /\ UNCHANGED faults
    \/ Answered(w, "none") /\ Fault("transport")

SubmitLand(w) ==
    /\ At(w) = "submit" /\ Live(w) /\ loop[w].out.landable
    /\ task' = [task EXCEPT ![Order(w).task].state = "landing"]
    /\ Delivered(w, "queued")
    /\ UNCHANGED <<setting, page, paused, attempts, disk, beat, memory, history>>

LastStep(t) == task[t].step = Len(brief[t].steps)

\* After a step the next one is queued, or the task is over.
StepDone(t) ==
    IF LastStep(t) THEN [task[t] EXCEPT !.state = "done"]
    ELSE [task[t] EXCEPT !.state = "queued", !.step = @ + 1]

\* A completed step without a branch.
SubmitStep(w) ==
    /\ At(w) = "submit" /\ Live(w)
    /\ ~loop[w].out.landable /\ loop[w].out.status = "completed"
    /\ task' = [task EXCEPT ![Order(w).task] = StepDone(Order(w).task)]
    /\ Delivered(w, "done")
    /\ UNCHANGED <<setting, page, paused, attempts, disk, beat, memory, history>>

\* The next step is leased in the answer.
SubmitChain(w) ==
    /\ At(w) = "submit" /\ Live(w)
    /\ Order(w).kind = "doc" /\ loop[w].out.status = "completed"
    /\ ~LastStep(Order(w).task) /\ attempts < MaxAttempts
    /\ Lease(w, Order(w).task, task[Order(w).task].step + 1)
    /\ Delivered(w, "next")
    /\ UNCHANGED <<setting, page, paused, disk, beat, memory, history>>

\* The manager's failure policy: another try or a hold, with or without a
\* pause of the queue.
SubmitFailure(w) ==
    /\ At(w) = "submit" /\ Live(w) /\ loop[w].out.status # "completed"
    /\ \E state \in {"queued", "failed"} :
        task' = [task EXCEPT ![Order(w).task].state = state]
    /\ paused' \in {paused, TRUE}
    /\ Delivered(w, "done")
    /\ UNCHANGED <<setting, page, attempts, disk, beat, memory, history>>

\* The queue's record of this worker; a lost submit counts like a settled one.
Noted(w) ==
    IF loop[w].out.status = "completed"
    THEN strikes' = [strikes EXCEPT ![w] = 0] /\ backoff' = backoff \ {w}
    ELSE /\ strikes' = [strikes EXCEPT ![w] = IF @ < 2 THEN @ + 1 ELSE @]
         /\ backoff' = IF strikes[w] >= 1 THEN backoff \cup {w} ELSE backoff

\* The published worktree is consumed once the manager has said so.
ConsumedAny(w) == IF loop[w].reply = "queued" THEN Teardown(w) ELSE UNCHANGED tree
Consumed(w) ==
    IF loop[w].out.ref /\ loop[w].reply = "queued" THEN Teardown(w) ELSE UNCHANGED tree

ForgottenOnLand(w) ==
    hints' = IF loop[w].reply = "queued"
             THEN [hints EXCEPT ![w][Order(w).task] = 0] ELSE hints
Forgotten(w) ==
    hints' = IF loop[w].reply = "next" THEN hints
             ELSE [hints EXCEPT ![w][Order(w).task] = 0]

After(w) ==
    /\ At(w) = "after"
    /\ Noted(w) /\ Consumed(w) /\ Forgotten(w)
    /\ now' = [now EXCEPT ![w] = 0]
    /\ IF loop[w].reply = "next"
       THEN Given(w, Order(w).task, task[Order(w).task].attempt)
       ELSE loop' = [loop EXCEPT ![w] =
                [order |-> Idle("poll"), out |-> NoOutcome, reply |-> "none"]]
    /\ UNCHANGED <<setting, drain, manager, scratch, wip, beat, history, faults>>

-----------------------------------------------------------------------------
(* The rest of the world.                                                  *)

\* A new process takes over; what the old one kept in memory is gone.
Reborn(w) ==
    /\ Recheck(w)
    /\ beat' = [beat EXCEPT ![w] = 0]
    /\ hints' = [hints EXCEPT ![w] = [t \in Task |-> 0]]
    /\ strikes' = [strikes EXCEPT ![w] = 0] /\ backoff' = backoff \ {w}
    /\ cut' = IF Order(w).task = NoTask THEN cut ELSE cut \cup {CutShort(w)}
    /\ now' = [now EXCEPT ![w] = 0] /\ drain' = [drain EXCEPT ![w] = FALSE]
    /\ UNCHANGED <<setting, manager, disk, validated, rejected>>

\* A worker is killed and started again.
Crash(w) == Fault("crash") /\ Reborn(w)

\* The operator presses Restart!: the process is replaced once no run is
\* shown, which is read every so often.  The loop is not told to take no
\* further order: one that it holds already, but does not show, is cut.
\* (A run begun in the seconds between the read and the end is a Crash.)
Restart(w) ==
    /\ Fault("restart") /\ ~drain[w]
    /\ drain' = [drain EXCEPT ![w] = TRUE]
    /\ UNCHANGED <<setting, now, manager, disk, loop, beat, memory, history>>
Shutdown(w) ==
    /\ drain[w] /\ now[w] = 0
    /\ Reborn(w)
    /\ UNCHANGED faults

\* A lease outlasts the few steps in which its order is handed over.
HandedOver(a) ==
    \E w \in Worker :
        \/ At(w) = "begin" /\ Order(w).attempt = a
        \/ At(w) = "after" /\ loop[w].reply = "next" /\ task[Order(w).task].attempt = a

Kept(a) == \E w \in Worker : beat[w] = a

\* The deadline passes of a lease that nobody keeps alive.
Expire(t) ==
    /\ task[t].state = "leased"
    /\ Partition \/ ~Kept(task[t].attempt)
    /\ ~HandedOver(task[t].attempt)
    /\ task' = [task EXCEPT ![t].state = "queued"]
    /\ UNCHANGED <<setting, page, paused, attempts, disk, loop, beat, memory, history, faults>>

\* A land ends: done, with the branch and the published ref gone, or not.
Land(t) ==
    /\ task[t].state = "landing"
    /\ \E state \in {"done", "failed", "queued"} :
        /\ task' = [task EXCEPT ![t] = IF state = "done" THEN StepDone(t)
                                      ELSE [task[t] EXCEPT !.state = state]]
        /\ tree' = IF state = "done" THEN [tree EXCEPT ![Home][t] = NoTree] ELSE tree
        /\ wip' = IF state = "done" THEN [wip EXCEPT ![t] = NoTree] ELSE wip
    /\ UNCHANGED <<setting, page, paused, attempts, scratch, loop, beat, memory, history, faults>>

\* The operator presses play, which has the failed tasks tried again too, or
\* asks that of one task.
Play ==
    /\ paused /\ paused' = FALSE
    /\ task' = [t \in Task |-> IF task[t].state = "failed"
                               THEN [task[t] EXCEPT !.state = "queued"] ELSE task[t]]
    /\ UNCHANGED <<setting, page, attempts, disk, loop, beat, memory, history, faults>>
Retry(t) ==
    /\ task[t].state = "failed"
    /\ task' = [task EXCEPT ![t].state = "queued"]
    /\ UNCHANGED <<setting, page, paused, attempts, disk, loop, beat, memory, history, faults>>

-----------------------------------------------------------------------------
Execute(w) ==
    \/ Refuse(w) \/ Setup(w) \/ SetupFails(w)
    \/ Materialize(w) \/ Unavailable(w) \/ ScratchReadOnly(w)
    \/ Preflight(w) \/ PreflightFails(w) \/ Unlaunched(w) \/ RunDoc(w) \/ RunCode(w)
    \/ JudgeBlocked(w) \/ JudgeError(w) \/ JudgeSplit(w) \/ JudgeEmpty(w) \/ JudgeWork(w)
    \/ Validate(w) \/ ValidateFails(w) \/ Publish(w) \/ PublishFails(w)

Submit(w) ==
    SubmitRefused(w) \/ SubmitLand(w) \/ SubmitStep(w) \/ SubmitChain(w) \/ SubmitFailure(w)

Loop(w) ==
    CheckIn(w) \/ PollIdle(w) \/ PollOrder(w) \/ Begin(w) \/ Execute(w) \/ Submit(w) \/ After(w)

Next ==
    \/ \E w \in Worker :
        Loop(w) \/ RequestFails(w) \/ PollLost(w) \/ Raise(w)
        \/ Crash(w) \/ Restart(w) \/ Shutdown(w)
    \/ \E t \in Task : Expire(t) \/ Land(t) \/ Retry(t)
    \/ Play

Spec == Init /\ [][Next]_vars

\* The loop's thread runs on: every request and every run of a backend has a
\* time limit.  The manager's sweep of deadlines and its lands run on too.
FairSpec ==
    /\ Spec
    /\ \A w \in Worker : WF_vars(Loop(w))
    /\ \A t \in Task : WF_vars(Expire(t) \/ Land(t))

-----------------------------------------------------------------------------
(* Properties.                                                             *)

\* From the cut to the end of its execution an attempt has its worktree for
\* itself: no other worker on the box removes it or cuts it again
\* (execute.py:510-728, git/worktrees.py:96-104).
OwnTree ==
    \A w \in Worker :
        At(w) \in {"docs", "preflight", "run", "judge", "validate", "publish"} =>
            TreeOf(w).by = Order(w).attempt

\* What the manager is about to squash is there, is the work of the attempt
\* it accepted and nothing else, and was validated (execute.py:655-725,
\* loop.py:329-340).
LandsItsWork ==
    \A t \in Task :
        task[t].state = "landing" =>
            LET a == task[t].attempt IN
            /\ a \in validated
            /\ (IF remote THEN wip[t] ELSE tree[Home][t]) = [by |-> a, commits |-> {a}]

\* A worktree that nobody works in holds an attempt's commits, validated or
\* rejected, unless its execution was cut short (execute.py:527, 726-728).
LeftoversAreWork ==
    \A s \in Site, t \in Task :
        LET a == tree[s][t].by IN
        \/ a = 0
        \/ \E e \in cut : e.attempt = a
        \/ a \in validated \cup rejected /\ tree[s][t].commits # {}
        \/ \E w \in Worker : At(w) \in Executing /\ Order(w).attempt = a

\* A session is remembered while its task's chain of orders lasts, or after
\* an execution that was cut short (loop.py:200-209, 362-367).
HintsAreLive ==
    \A w \in Worker, t \in Task :
        hints[w][t] # 0 =>
            Order(w).task = t \/ \E e \in cut : e.by = w /\ e.task = t /\ e.attempt >= hints[w][t]

\* Every task is settled again and again, unless the queue is paused or the
\* attempts of the model are used up: no lease stays with a worker that is
\* gone.  No worker stays away from a queue that is not paused (loop.py:98-132,
\* 179-195, 288-290).
TaskServed ==
    /\ \A t \in Task :
        []<>(\/ task[t].state \in {"done", "failed"}
             \/ task[t].state = "queued" /\ (paused \/ attempts = MaxAttempts))
    /\ \A w \in Worker : []<>(paused \/ w \notin backoff)

\* Every dispatch of a task delivers its documents again; an order never
\* ends without a submit (docs/specs/2026-07-18-task-documents.md:167-169).
EveryOrderReported == cut = {}
=============================================================================
