------------------------------ MODULE Manager ------------------------------
(***************************************************************************)
(* The manager of one queue and one target repository: dispatch, submit,   *)
(* the asynchronous land, the post-commit effects, resolves, the deadline  *)
(* sweep, the operator's transport, and crash recovery (api_worker.py,     *)
(* api_operator.py, reconciler.py, store.py, landing.py).                  *)
(*                                                                         *)
(* An action is the code between two awaits: a handler suspended at an     *)
(* await is a value of polls, handler, spawning, reports or sweep, and     *)
(* every other handler may run before it resumes.  state, lease, late, row *)
(* and pause are the database; brief, main and branch are on disk; all of  *)
(* these survive a crash.  The rest of the manager's state does not.       *)
(***************************************************************************)
EXTENDS Lifecycle, Integers, Sequences, FiniteSets

CONSTANTS
    Task,          \* the queue's task names
    Worker,        \* worker ids
    Evergreen,     \* tasks whose brief is kept after a land
    DocTasks,      \* tasks whose docs: references may fail to resolve
    Rank,          \* the queue's configured order
    Submits,       \* outcomes workers may submit in this instance
    LandReplies,   \* results the git pipeline may give in this instance
    MaxAttempts,   \* bound: attempt ids in this instance
    MaxResolves,   \* cfg.max_concurrent_resolves
    PushMode,      \* the landing mode is PUSH: origin is pushed first
    Events,        \* faults and operator actions this instance has
    MaxEvents      \* bound: how many of the counted ones happen

EventNames == {"agent_lands", "worker_dies", "deadline", "partition",
               "lost_report",
               "spawn_fails", "crash", "play", "pause", "stop", "skip", "retry",
               "unquarantine", "release", "delete", "resolve"}

ASSUME ManagerConstants ==
    /\ IsFiniteSet(Task) /\ Worker # {}
    /\ Evergreen \subseteq Task
    /\ DocTasks \subseteq Task
    /\ Rank \in [Task -> Nat]
    /\ Submits \subseteq Outcomes
    /\ LandReplies \subseteq LandResults
    /\ MaxAttempts \in Nat /\ MaxResolves \in Nat \ {0}
    /\ PushMode \in BOOLEAN
    /\ Events \subseteq EventNames
    /\ MaxEvents \in Nat

Attempt == 1..MaxAttempts

VARIABLES
    state,      \* attempt -> its stored state, "none" before it exists
    lease,      \* attempt -> the task, worker, pinned base and resolve origin
    late,       \* attempts whose deadline_at has passed
    row,        \* task -> its row of the tasks table
    pause,      \* the queue's paused_reason, "none" when it runs
    brief,      \* task -> its brief in the content store
    main,       \* the commits on canonical main
    ahead,      \* commits on origin's main that local main lacks
    branch,     \* task -> its task branch
    watch,      \* QueueFailureState.watch_armed
    cooldown,   \* workers cooled down for this queue
    polls,      \* worker -> its suspended worker_poll
    handler,    \* attempt -> its suspended worker_submit
    jobs,       \* the repo executor's queue of land jobs
    result,     \* attempt -> the land job's result
    spawning,   \* origins whose _start_resolve passed the cap check
    reports,    \* resolve children whose report passed the fence
    tracked,    \* children in app.state.resolves
    sweep,      \* the operator's stop or skip in progress
    order,      \* worker -> the order it executes
    resolver,   \* child -> its resolver process
    mgr,        \* the manager process: up, down or in startup recovery
    spent       \* counted events so far

durable == <<state, lease, late, row, pause>>
disk == <<brief, main, ahead, branch>>
requests == <<polls, handler, spawning, reports, sweep>>
executor == <<jobs, result>>
volatile == <<watch, cooldown, tracked>>
processes == <<order, resolver>>
vars == <<durable, disk, requests, executor, volatile, processes, mgr, spent>>

-----------------------------------------------------------------------------
(* Types                                                                   *)

Leases == [task : Task, worker : Worker \cup {"resolve"}, base : Nat,
           origin : Attempt \cup {0}]

NoLease == [task |-> "none"]

Rows == [present : BOOLEAN, hold : {"none", "blocked"}, retry : BOOLEAN,
         counter : Nat, backoff : {"null", "pending", "elapsed"}]

NoRow == [present |-> FALSE, hold |-> "none", retry |-> FALSE,
          counter |-> 0, backoff |-> "null"]

Briefs == [present : BOOLEAN, failed : BOOLEAN, quarantined : BOOLEAN]

\* A commit: whose branch it squashes, whose idempotency trailer it carries
\* (0: none) and whether the work on the branch was finished.
Commits == [by : Attempt, trailer : Attempt \cup {0},
            work : {"partial", "done"}]

Branches == [by : Attempt \cup {0}, work : {"gone", "empty", "partial", "done"}]

NoBranch == [by |-> 0, work |-> "gone"]

Polls == [pc : {"idle"}] \cup [pc : {"lease"}, task : Task]
           \cup [pc : {"create"}, task : Task, base : Nat]

Idle == [pc |-> "idle"]

Handlers == [pc : {"idle"}]
              \cup [pc : {"apply"}, tr : Transitions]
              \cup [pc : {"adopt", "enqueue", "landing"}, out : Outcomes,
                    pol : Policies]
              \cup [pc : {"flags", "queue", "drop", "resolve"}, eff : Effects]

NoResult == [kind |-> "none"]

\* The land job is past its sync; it pushed its squash to origin and has not
\* moved local main.
Synced == [kind |-> "synced"]
Pushed == [kind |-> "pushed"]

Sweeps == [pc : {"idle"}] \cup [pc : {"stop", "skip"}, todo : SUBSET Attempt]

Orders == [pc : {"idle"}]
            \cup [pc : {"leased", "working", "finished"}, at : Attempt]

Managers == [pc : {"up", "down", "scan"}] \cup [pc : {"land", "drop"},
                                                at : Attempt]

Init ==
    /\ state = [a \in Attempt |-> "none"]
    /\ lease = [a \in Attempt |-> NoLease]
    /\ late = {}
    /\ row = [t \in Task |-> NoRow]
    /\ pause = "none"
    /\ brief = [t \in Task |-> [present |-> TRUE, failed |-> FALSE,
                                quarantined |-> FALSE]]
    /\ main = <<>>
    /\ ahead = <<>>
    /\ branch = [t \in Task |-> NoBranch]
    /\ watch = FALSE
    /\ cooldown = {}
    /\ polls = [w \in Worker |-> Idle]
    /\ handler = [a \in Attempt |-> Idle]
    /\ jobs = <<>>
    /\ result = [a \in Attempt |-> NoResult]
    /\ spawning = {}
    /\ reports = {}
    /\ tracked = {}
    /\ sweep = Idle
    /\ order = [w \in Worker |-> Idle]
    /\ resolver = [a \in Attempt |-> "none"]
    /\ mgr = [pc |-> "up"]
    /\ spent = 0

TypeOK ==
    /\ state \in [Attempt -> AttemptStates \cup {"none"}]
    /\ lease \in [Attempt -> Leases \cup {NoLease}]
    /\ \A a \in Attempt : state[a] # "none" => lease[a] \in Leases
    /\ late \subseteq Attempt
    /\ row \in [Task -> Rows]
    /\ pause \in {"none", "operator", "consecutive_failures", "retry_failed"}
    /\ brief \in [Task -> Briefs]
    /\ main \in Seq(Commits) /\ ahead \in Seq(Commits)
    /\ branch \in [Task -> Branches]
    /\ watch \in BOOLEAN
    /\ cooldown \subseteq Worker
    /\ polls \in [Worker -> Polls]
    /\ handler \in [Attempt -> Handlers]
    /\ jobs \in Seq(Attempt)
    /\ result \in [Attempt -> LandResults \cup {NoResult, Synced, Pushed}]
    /\ spawning \subseteq Attempt
    /\ reports \subseteq Attempt
    /\ tracked \subseteq Attempt
    /\ sweep \in Sweeps
    /\ order \in [Worker -> Orders]
    /\ resolver \in [Attempt -> {"none", "running", "landed", "failed", "exited"}]
    /\ mgr \in Managers
    /\ spent \in Nat

-----------------------------------------------------------------------------
(* Reads                                                                   *)

Up == mgr.pc = "up"

Live(a) == state[a] \in LiveStates

\* Mutant: the index covers running attempts only.
LeasedRunning(t) == \E a \in Attempt : state[a] = "running" /\ lease[a].task = t

Leased(t) == \E a \in Attempt : Live(a) /\ lease[a].task = t

Fresh(a) == state[a] = "none" /\ \A b \in 1..(a - 1) : state[b] # "none"

\* Bound: an id is left for every request that may still create an attempt.
Room == Cardinality({a \in Attempt : state[a] = "none"})
          > Cardinality({w \in Worker : polls[w].pc # "idle"})
            + Cardinality(spawning)

HasCommits(b) == b.work \in {"partial", "done"}

\* A squash of b onto main is empty: its tree is already there.
OnMain(b) == \E i \in DOMAIN main : main[i].by = b.by /\ main[i].work = b.work

\* A commit of the log carries a's idempotency trailer.
Carries(log, a) == \E i \in DOMAIN log : log[i].trailer = a

\* find_landed_attempt.
FindLandedAttempt(a) == Carries(main, a)

\* main_advanced_sha: main moved past the base the attempt was pinned to.
MainAdvanced(a) == Len(main) > lease[a].base

\* build_candidates: the briefs a poll considers (failed ones included).
Candidates == {t \in Task : brief[t].present /\ ~brief[t].quarantined}

BackingOff(t) == row[t].backoff = "pending"

\* What worker_poll collects in `blocked`.
Blocked(t) == row[t].hold = "blocked" \/ brief[t].failed \/ BackingOff(t)

\* Phase B: the failed and the blocked-retryable tasks out of backoff.
Retryable ==
    {t \in Task : /\ ~BackingOff(t)
                  /\ \/ brief[t].present /\ brief[t].failed
                        /\ ~brief[t].quarantined
                     \/ row[t].hold = "blocked" /\ row[t].retry}

PickRetry == {t \in Retryable : \A u \in Retryable : Rank[t] <= Rank[u]}

RetryPhase == /\ \A a \in Attempt : ~Live(a)
              /\ \A t \in Candidates : Blocked(t)

\* The tasks one poll may choose from; which one is the scheduler's.
Dispatchable ==
    IF RetryPhase THEN Candidates \cap PickRetry
    ELSE {t \in Candidates : ~Blocked(t) /\ ~Leased(t)}

\* A land job holds the repo lock between its steps.
LockFree == jobs # <<>> => result[Head(jobs)] = NoResult

-----------------------------------------------------------------------------
(* Writes                                                                  *)

\* The tasks-table half of apply_transition, before a clear: the hold's
\* upsert, then the counter and the backoff.
WriteRow(r, eff) ==
    [present |-> r.present \/ eff.hold # "none" \/ eff.progress = "increment",
     hold |-> IF eff.hold = "none" THEN r.hold ELSE eff.hold,
     retry |-> IF eff.hold = "none" THEN r.retry ELSE eff.retry,
     counter |-> CASE eff.progress = "increment" -> r.counter + 1
                   [] eff.progress = "reset" -> 0
                   [] OTHER -> r.counter,
     backoff |-> CASE eff.progress = "increment" ->
                        IF eff.backoff THEN "pending" ELSE "null"
                   [] eff.progress = "reset" -> "null"
                   [] OTHER -> r.backoff]

\* A released row keeps what it counts.
DemoteRow(r, backoff) == [present |-> r.present, hold |-> "none",
                          retry |-> FALSE, counter |-> r.counter,
                          backoff |-> backoff]

\* Mutant: a cleared row is demoted and never deleted.
ApplyRowDemote(r, eff) ==
    LET w == WriteRow(r, eff) IN
    IF eff.hold = "none" /\ eff.clear THEN DemoteRow(w, w.backoff) ELSE w

\* The row after apply_transition: a clear deletes it once it is empty.
ApplyRow(r, eff) ==
    LET w == WriteRow(r, eff) IN
    IF eff.hold = "none" /\ eff.clear
    THEN IF w.counter = 0 /\ w.backoff = "null" THEN NoRow
         ELSE DemoteRow(w, w.backoff)
    ELSE w

\* clear_task_state without reset_progress.
ReleaseRow(r) == IF r.counter = 0 THEN NoRow ELSE DemoteRow(r, "null")

HoldRow(r) == [present |-> TRUE, hold |-> "blocked", retry |-> FALSE,
               counter |-> r.counter, backoff |-> r.backoff]

ClearBackoff(r) == [r EXCEPT !.backoff = "null"]

Flagged(b, flags) ==
    [present |-> b.present, failed |-> b.failed \/ "failed" \in flags,
     quarantined |-> b.quarantined \/ "quarantined" \in flags]

NoBrief == [present |-> FALSE, failed |-> FALSE, quarantined |-> FALSE]

\* apply_transition after its compare-and-swap matched.
Commit(a, tr) ==
    /\ state' = [state EXCEPT ![a] = tr.state]
    /\ row' = [row EXCEPT ![lease[a].task] = ApplyRow(@, tr.eff)]

\* The post-commit effects _finish runs, in its order.
AfterDrop(eff) == IF eff.resolve THEN "resolve" ELSE "idle"

\* Mutant: the brief of a landed task is kept.
AfterQueueNoDrop(eff) == AfterDrop(eff)

AfterQueue(eff) == IF eff.drop THEN "drop" ELSE AfterDrop(eff)

AfterFlags(eff) ==
    IF eff.watch # "keep" \/ eff.pause # "keep" \/ eff.cooldown
    THEN "queue" ELSE AfterQueue(eff)

AfterCommit(eff) == IF eff.flags # {} THEN "flags" ELSE AfterFlags(eff)

Resume(stage, eff) == IF stage = "idle" THEN Idle
                      ELSE [pc |-> stage, eff |-> eff]

NewAttempt(a, st, t, w, base, orig) ==
    /\ Fresh(a)
    /\ state' = [state EXCEPT ![a] = st]
    /\ lease' = [lease EXCEPT ![a] = [task |-> t, worker |-> w,
                                      base |-> base, origin |-> orig]]

Happens(e) == e \in Events

\* A counted event.
Spend(e) == e \in Events /\ spent < MaxEvents /\ spent' = spent + 1

-----------------------------------------------------------------------------
(* Dispatch: worker_poll and _lease_and_build                              *)

\* The poll's reads and its choice.
PollPick(w) ==
    /\ Up /\ Room
    /\ polls[w].pc = "idle" /\ order[w].pc = "idle"
    /\ pause = "none" /\ w \notin cooldown
    /\ \E t \in Dispatchable :
         polls' = [polls EXCEPT ![w] = [pc |-> "lease", task |-> t]]
    /\ UNCHANGED <<durable, disk, handler, spawning, reports, sweep, executor,
                   volatile, processes, mgr, spent>>

\* Clear a stale hold, then pin main's tip.  sync_main_locked may first pull
\* what origin has: it is throttled, best effort, and takes the repo lock.
LeaseClear(w, synced) ==
    /\ Up /\ polls[w].pc = "lease"
    /\ synced => PushMode /\ LockFree /\ ahead # <<>>
    /\ main' = IF synced THEN main \o ahead ELSE main
    /\ ahead' = IF synced THEN <<>> ELSE ahead
    /\ LET t == polls[w].task IN
         /\ row' = IF row[t].hold = "blocked"
                   THEN [row EXCEPT ![t] = ReleaseRow(@)] ELSE row
         /\ polls' = [polls EXCEPT ![w] = [pc |-> "create", task |-> t,
                                           base |-> Len(main')]]
    /\ UNCHANGED <<state, lease, late, pause, brief, branch, handler,
                   spawning, reports, sweep, executor, volatile, processes,
                   mgr, spent>>

\* create_attempt: the partial unique index admits one live attempt a task.
LeaseCreate(w) ==
    /\ Up /\ polls[w].pc = "create"
    /\ ~Leased(polls[w].task)
    /\ \E a \in Attempt :
         /\ NewAttempt(a, "running", polls[w].task, w, polls[w].base, 0)
         /\ order' = [order EXCEPT ![w] = [pc |-> "leased", at |-> a]]
    /\ polls' = [polls EXCEPT ![w] = Idle]
    /\ UNCHANGED <<late, row, pause, disk, handler, spawning, reports, sweep,
                   executor, volatile, resolver, mgr, spent>>

\* Another poll won the task: the insert did nothing.
LeaseLost(w) ==
    /\ Up /\ polls[w].pc = "create"
    /\ Leased(polls[w].task)
    /\ polls' = [polls EXCEPT ![w] = Idle]
    /\ UNCHANGED <<durable, disk, handler, spawning, reports, sweep, executor,
                   volatile, processes, mgr, spent>>

\* build_work_order raised DocsBlocked: hold the task, hand out no lease.
LeaseDocsBlocked(w) ==
    /\ Up /\ polls[w].pc = "create"
    /\ polls[w].task \in DocTasks
    /\ row' = [row EXCEPT ![polls[w].task] = HoldRow(@)]
    /\ polls' = [polls EXCEPT ![w] = Idle]
    /\ UNCHANGED <<state, lease, late, pause, disk, handler, spawning,
                   reports, sweep, executor, volatile, processes, mgr, spent>>

-----------------------------------------------------------------------------
(* The worker's side of an order                                           *)

OrderTask(w) == lease[order[w].at].task

\* setup_worktree: remove the task's old worktree and branch, cut new ones.
SetupWorktree(w) ==
    /\ order[w].pc = "leased"
    /\ branch' = [branch EXCEPT ![OrderTask(w)] = [by |-> order[w].at,
                                                   work |-> "empty"]]
    /\ order' = [order EXCEPT ![w].pc = "working"]
    /\ UNCHANGED <<durable, brief, main, ahead, requests, executor, volatile,
                   resolver, mgr, spent>>

\* The agent commits part of its work.
AgentCommits(w) ==
    /\ order[w].pc = "working"
    /\ branch[OrderTask(w)] = [by |-> order[w].at, work |-> "empty"]
    /\ branch' = [branch EXCEPT ![OrderTask(w)] = [by |-> order[w].at,
                                                   work |-> "partial"]]
    /\ UNCHANGED <<durable, brief, main, ahead, requests, executor, volatile,
                   processes, mgr, spent>>

\* The agent finished; its work is complete if the worktree is still its own.
AgentFinishes(w) ==
    /\ order[w].pc = "working"
    /\ LET b == branch[OrderTask(w)] IN
         branch' = IF b.by = order[w].at /\ b.work = "partial"
                   THEN [branch EXCEPT ![OrderTask(w)].work = "done"]
                   ELSE branch
    /\ order' = [order EXCEPT ![w].pc = "finished"]
    /\ UNCHANGED <<durable, brief, main, ahead, requests, executor, volatile,
                   resolver, mgr, spent>>

\* The agent squash-merges its own branch onto main during the run.
AgentLands(w) ==
    /\ Happens("agent_lands")
    /\ order[w].pc = "working"
    /\ branch[OrderTask(w)] = [by |-> order[w].at, work |-> "partial"]
    /\ main' = Append(main, [by |-> order[w].at, trailer |-> 0,
                             work |-> "done"])
    /\ branch' = [branch EXCEPT ![OrderTask(w)] = [by |-> order[w].at,
                                                   work |-> "empty"]]
    /\ order' = [order EXCEPT ![w].pc = "finished"]
    /\ UNCHANGED <<durable, brief, ahead, requests, executor, volatile,
                   resolver, mgr, spent>>

WorkerDies(w) ==
    /\ Happens("worker_dies")
    /\ order[w].pc # "idle"
    /\ order' = [order EXCEPT ![w] = Idle]
    /\ UNCHANGED <<durable, disk, requests, executor, volatile, resolver, mgr,
                   spent>>

\* Mutant: the heartbeat is keyed on the worker, not on the attempt it runs.
HeartbeatByWorker(w) ==
    /\ Up
    /\ \E a \in late : /\ Live(a) /\ lease[a].worker = w
                      /\ late' = late \ {a}
    /\ UNCHANGED <<state, lease, row, pause, disk, requests, executor,
                   volatile, processes, mgr, spent>>

\* heartbeat_attempt: only a live attempt's deadline moves.
Heartbeat(w) ==
    /\ Up /\ order[w].pc # "idle"
    /\ order[w].at \in late /\ Live(order[w].at)
    /\ late' = late \ {order[w].at}
    /\ UNCHANGED <<state, lease, row, pause, disk, requests, executor,
                   volatile, processes, mgr, spent>>

\* What the worker may report: only a finished branch is landable, and an
\* order whose worktree was never set up fails on its environment.
Reportable(w, out) ==
    LET b == branch[OrderTask(w)] IN
    /\ out.landable => /\ order[w].pc = "finished" /\ out.status = "completed"
                       /\ b = [by |-> order[w].at, work |-> "done"]
    /\ out.status = "completed" /\ ~out.landable =>
         order[w].pc = "finished" /\ ~(b.by = order[w].at /\ HasCommits(b))
    /\ order[w].pc = "leased" =>
         out.status = "error" /\ out.kind \in EnvironmentKinds

-----------------------------------------------------------------------------
(* Submit: worker_submit                                                   *)

\* SubmitPolicy: what the handler reads before it decides.
SubmitPolicy(t) ==
    [counter |-> row[t].counter,
     wasRetry |-> brief[t].present /\ brief[t].failed,
     watch |-> watch, paused |-> pause # "none", evergreen |-> t \in Evergreen]

\* The advisory fence, the policy, and on_submit's decision.  The worker is
\* free once it has posted: its client gives up on a slow answer.
SubmitRead(w, out) ==
    /\ Up /\ order[w].pc # "idle"
    /\ Reportable(w, out)
    /\ LET a == order[w].at
           pol == SubmitPolicy(lease[a].task)
           phase == OnSubmitPhase(out, FALSE)
       IN  handler' =
             IF state[a] # "running" THEN handler
             ELSE [handler EXCEPT ![a] =
                     IF phase = "apply"
                     THEN [pc |-> "apply", tr |-> OnSubmit(out, pol)]
                     ELSE [pc |-> phase, out |-> out, pol |-> pol]]
    /\ order' = [order EXCEPT ![w] = Idle]
    /\ UNCHANGED <<durable, disk, polls, spawning, reports, sweep, executor,
                   volatile, resolver, mgr, spent>>

\* The worker's submit found the manager down: the outcome is lost.
SubmitLost(w) ==
    /\ ~Up /\ order[w].pc # "idle"
    /\ order' = [order EXCEPT ![w] = Idle]
    /\ UNCHANGED <<durable, disk, requests, executor, volatile, resolver, mgr,
                   spent>>

\* _finish's compare-and-swap from RUNNING; a stale submit writes nothing.
SubmitApply(a) ==
    /\ Up /\ handler[a].pc = "apply"
    /\ LET tr == handler[a].tr IN
         IF state[a] = "running"
         THEN /\ Commit(a, tr)
              /\ handler' = [handler EXCEPT ![a] =
                               Resume(AfterCommit(tr.eff), tr.eff)]
         ELSE handler' = [handler EXCEPT ![a] = Idle] /\ UNCHANGED <<state, row>>
    /\ UNCHANGED <<lease, late, pause, disk, polls, spawning, reports, sweep,
                   executor, volatile, processes, mgr, spent>>

\* adopt_or_nothing_locked on the repo executor.
SubmitAdopt(a) ==
    /\ Up /\ handler[a].pc = "adopt" /\ LockFree
    /\ LET t == lease[a].task
           adopts == MainAdvanced(a) /\ ~HasCommits(branch[t])
           land == [kind |-> IF adopts THEN "adopted" ELSE "no_changes",
                    retryable |-> FALSE]
       IN  /\ branch' = IF adopts THEN [branch EXCEPT ![t] = NoBranch]
                        ELSE branch
           /\ handler' = [handler EXCEPT ![a] =
                [pc |-> "apply",
                 tr |-> OnLandResult(handler[a].out, land, handler[a].pol)]]
    /\ UNCHANGED <<durable, brief, main, ahead, polls, spawning, reports,
                   sweep, executor, volatile, processes, mgr, spent>>

\* on_land_enqueued: RUNNING to LANDING, then the land job is queued.
EnqueueLand(a) ==
    /\ Up /\ handler[a].pc = "enqueue"
    /\ IF state[a] = "running"
       THEN /\ state' = [state EXCEPT ![a] = OnLandEnqueued.state]
            /\ jobs' = Append(jobs, a)
            /\ handler' = [handler EXCEPT ![a].pc = "landing"]
       ELSE handler' = [handler EXCEPT ![a] = Idle] /\ UNCHANGED <<state, jobs>>
    /\ UNCHANGED <<lease, late, row, pause, disk, polls, spawning, reports,
                   sweep, result, volatile, processes, mgr, spent>>

-----------------------------------------------------------------------------
(* The repo executor: land_locked, one job at a time                       *)

Adopts(a) == MainAdvanced(a) /\ ~HasCommits(branch[lease[a].task])

Squash(a) == [by |-> branch[lease[a].task].by, trailer |-> a,
              work |-> branch[lease[a].task].work]

Squashable(a) == /\ HasCommits(branch[lease[a].task])
                 /\ ~OnMain(branch[lease[a].task])

\* The job at the head of the queue, before it changed anything.
Starting(a) == jobs # <<>> /\ a = Head(jobs) /\ result[a] = NoResult

\* The task branch has nothing to squash and main moved: adopt main's tip.
\* This is decided on local main, before any sync.
LandAdopt(a) ==
    /\ Starting(a) /\ Adopts(a)
    /\ branch' = [branch EXCEPT ![lease[a].task] = NoBranch]
    /\ result' = [result EXCEPT ![a] = [kind |-> "adopted",
                                        retryable |-> FALSE]]
    /\ jobs' = Tail(jobs)
    /\ UNCHANGED <<durable, brief, main, ahead, requests, volatile, processes,
                   mgr, spent>>

\* The pipeline's first step pulls a squash that an earlier process pushed.
LandSync(a) ==
    /\ Starting(a) /\ ~Adopts(a) /\ PushMode
    /\ main' = main \o ahead
    /\ ahead' = <<>>
    /\ result' = [result EXCEPT ![a] = Synced]
    /\ UNCHANGED <<durable, brief, branch, requests, jobs, volatile, processes,
                   mgr, spent>>

\* The job is past the sync, and produces its commit on local main.
Producing(a) == /\ jobs # <<>> /\ a = Head(jobs)
                /\ IF PushMode THEN result[a] = Synced
                   ELSE result[a] = NoResult /\ ~Adopts(a)

\* PUSH: the squash reaches origin before local main moves.
LandPush(a) ==
    /\ Producing(a) /\ Squashable(a) /\ PushMode
    /\ ahead' = <<Squash(a)>>
    /\ result' = [result EXCEPT ![a] = Pushed]
    /\ UNCHANGED <<durable, brief, main, branch, requests, jobs, volatile,
                   processes, mgr, spent>>

\* Local main is swapped to the squash; the branch still exists.
LandSquash(a, land) ==
    /\ land.kind \in LandSuccessKinds \ {"adopted"}
    /\ jobs # <<>> /\ a = Head(jobs)
    /\ IF PushMode
       THEN result[a] = Pushed /\ main' = main \o ahead /\ ahead' = <<>>
       ELSE /\ Producing(a) /\ Squashable(a)
            /\ main' = Append(main, Squash(a)) /\ UNCHANGED ahead
    /\ result' = [result EXCEPT ![a] = land]
    /\ UNCHANGED <<durable, brief, branch, requests, jobs, volatile, processes,
                   mgr, spent>>

\* teardown_worktree after the squash; the job returns.
LandTeardown(a) ==
    /\ jobs # <<>> /\ a = Head(jobs) /\ result[a].kind \in LandSuccessKinds
    /\ branch' = [branch EXCEPT ![lease[a].task] = NoBranch]
    /\ jobs' = Tail(jobs)
    /\ UNCHANGED <<durable, brief, main, ahead, requests, result, volatile,
                   processes, mgr, spent>>

\* The pipeline refused (or the job raised): the branch is preserved.  With
\* nothing to squash the refusal is a conflict.
LandRefuse(a, land) ==
    /\ Producing(a)
    /\ land.kind \in LandRefusedKinds
    /\ Squashable(a) \/ land.kind = "conflict"
    /\ result' = [result EXCEPT ![a] = land]
    /\ jobs' = Tail(jobs)
    /\ UNCHANGED <<durable, disk, requests, volatile, processes, mgr, spent>>

Returned(a) == /\ result[a].kind \notin {"none", "synced", "pushed"}
               /\ \A i \in DOMAIN jobs : jobs[i] # a

\* _complete_land: compare-and-swap from LANDING, or discard the result.
CompleteLand(a) ==
    /\ Up /\ handler[a].pc = "landing" /\ Returned(a)
    /\ LET tr == OnLandResult(handler[a].out, result[a], handler[a].pol) IN
         IF state[a] = "landing"
         THEN /\ Commit(a, tr)
              /\ handler' = [handler EXCEPT ![a] =
                               Resume(AfterCommit(tr.eff), tr.eff)]
         ELSE handler' = [handler EXCEPT ![a] = Idle] /\ UNCHANGED <<state, row>>
    /\ result' = [result EXCEPT ![a] = NoResult]
    /\ UNCHANGED <<lease, late, pause, disk, polls, spawning, reports, sweep,
                   jobs, volatile, processes, mgr, spent>>

-----------------------------------------------------------------------------
(* Post-commit effects: the tail of _finish                                *)

\* Frontmatter flags; a missing brief raises and ends the handler here.
SetFlags(a) ==
    /\ Up /\ handler[a].pc = "flags"
    /\ LET t == lease[a].task
           eff == handler[a].eff
       IN  IF brief[t].present
           THEN /\ brief' = [brief EXCEPT ![t] = Flagged(@, eff.flags)]
                /\ handler' = [handler EXCEPT ![a] =
                                 Resume(AfterFlags(eff), eff)]
           ELSE handler' = [handler EXCEPT ![a] = Idle] /\ UNCHANGED brief
    /\ UNCHANGED <<durable, main, ahead, branch, polls, spawning, reports,
                   sweep, executor, volatile, processes, mgr, spent>>

\* The failure watch, the durable pause and the worker's cooldown.
SetQueue(a) ==
    /\ Up /\ handler[a].pc = "queue"
    /\ LET eff == handler[a].eff IN
         /\ watch' = IF eff.watch = "keep" THEN watch ELSE eff.watch = "arm"
         /\ pause' = IF eff.pause = "keep" THEN pause ELSE eff.pause
         /\ cooldown' = IF eff.cooldown THEN cooldown \cup {lease[a].worker}
                        ELSE cooldown
         /\ handler' = [handler EXCEPT ![a] = Resume(AfterQueue(eff), eff)]
    /\ UNCHANGED <<state, lease, late, row, disk, polls, spawning, reports,
                   sweep, executor, tracked, processes, mgr, spent>>

\* drop_completed_task.
DropBrief(a) ==
    /\ Up /\ handler[a].pc = "drop"
    /\ brief' = [brief EXCEPT ![lease[a].task] = NoBrief]
    /\ handler' = [handler EXCEPT ![a] =
                     Resume(AfterDrop(handler[a].eff), handler[a].eff)]
    /\ UNCHANGED <<durable, main, ahead, branch, polls, spawning, reports,
                   sweep, executor, volatile, processes, mgr, spent>>

-----------------------------------------------------------------------------
(* Resolves: _start_resolve, resolve_job, worker_resolve_result            *)

ActiveResolves == {c \in tracked : resolver[c] = "running"}

\* reap_finished_resolves and the per-repo cap, before the first await.
CheckCap(a) ==
    /\ tracked' = ActiveResolves
    /\ spawning' = IF Cardinality(ActiveResolves) >= MaxResolves
                   THEN spawning ELSE spawning \cup {a}

\* Auto-escalation of a refused land.
Escalate(a) ==
    /\ Up /\ Room /\ handler[a].pc = "resolve"
    /\ CheckCap(a)
    /\ handler' = [handler EXCEPT ![a] = Idle]
    /\ UNCHANGED <<durable, disk, polls, reports, sweep, executor, watch,
                   cooldown, processes, mgr, spent>>

\* The operator's Resolve on an attempt of the history.
Resolve(a) ==
    /\ Up /\ Room /\ Spend("resolve")
    /\ state[a] # "none" /\ a \notin spawning
    /\ CheckCap(a)
    /\ UNCHANGED <<durable, disk, polls, handler, reports, sweep, executor,
                   watch, cooldown, processes, mgr>>

\* The child attempt is created and the resolver process spawned.
SpawnResolve(a) ==
    /\ Up /\ a \in spawning
    /\ \E c \in Attempt :
         /\ NewAttempt(c, "resolving", lease[a].task, "resolve", 0, a)
         /\ resolver' = [resolver EXCEPT ![c] = "running"]
         /\ tracked' = tracked \cup {c}
    /\ spawning' = spawning \ {a}
    /\ UNCHANGED <<late, row, pause, disk, polls, handler, reports, sweep,
                   executor, watch, cooldown, order, mgr, spent>>

\* The process could not be launched: the child is stored as failed.
SpawnFails(a) ==
    /\ Happens("spawn_fails") /\ Up /\ a \in spawning
    /\ \E c \in Attempt :
         NewAttempt(c, ErrorStateFor("worker_launch"), lease[a].task,
                    "resolve", 0, a)
    /\ spawning' = spawning \ {a}
    /\ UNCHANGED <<late, row, pause, disk, polls, handler, reports, sweep,
                   executor, volatile, processes, mgr, spent>>

\* The resolver squashes the task branch to main itself, tears the branch
\* down and drops the brief.
ResolverLands(c) ==
    /\ resolver[c] = "running" /\ LockFree
    /\ LET t == lease[c].task IN
         /\ HasCommits(branch[t]) /\ ~OnMain(branch[t])
         /\ main' = Append(main, [by |-> branch[t].by, trailer |-> 0,
                                  work |-> branch[t].work])
         /\ branch' = [branch EXCEPT ![t] = NoBranch]
         /\ brief' = IF t \in Evergreen THEN brief
                     ELSE [brief EXCEPT ![t] = NoBrief]
    /\ resolver' = [resolver EXCEPT ![c] = "landed"]
    /\ UNCHANGED <<durable, ahead, requests, executor, volatile, order, mgr,
                   spent>>

ResolverFails(c) ==
    /\ resolver[c] = "running"
    /\ resolver' = [resolver EXCEPT ![c] = "failed"]
    /\ UNCHANGED <<durable, disk, requests, executor, volatile, order, mgr,
                   spent>>

\* The report is best effort: the process exits whether or not it arrived.
ReportLost(c) ==
    /\ Happens("lost_report") \/ ~Up
    /\ resolver[c] \in {"landed", "failed"} /\ c \notin reports
    /\ resolver' = [resolver EXCEPT ![c] = "exited"]
    /\ UNCHANGED <<durable, disk, requests, executor, volatile, order, mgr,
                   spent>>

\* The fence: the origin must still be resolvable.
ReportFence(c) ==
    /\ Up /\ resolver[c] \in {"landed", "failed"} /\ c \notin reports
    /\ IF state[lease[c].origin] \in ResolvableStates
       THEN reports' = reports \cup {c} /\ UNCHANGED resolver
       ELSE resolver' = [resolver EXCEPT ![c] = "exited"] /\ UNCHANGED reports
    /\ UNCHANGED <<durable, disk, polls, handler, spawning, sweep, executor,
                   volatile, order, mgr, spent>>

\* push_resolved_main_locked: a push-mode resolve is pushed by the manager, on
\* top of what origin has; the push may be refused.
PushResolved(c, kind, pushed) ==
    IF PushMode /\ resolver[c] = "landed"
    THEN /\ LockFree /\ (pushed \/ kind = "merge_conflict")
         /\ main' = main \o ahead /\ ahead' = <<>>
    ELSE pushed /\ UNCHANGED <<main, ahead>>

\* The report is recorded: unconditional updates of child and origin.
ReportApply(c, kind, pushed) ==
    /\ Up /\ c \in reports /\ PushResolved(c, kind, pushed)
    /\ LET t == lease[c].task IN
         IF resolver[c] = "landed" /\ pushed
         THEN /\ state' = [state EXCEPT ![c] = "landed",
                                        ![lease[c].origin] = "landed"]
              /\ row' = [row EXCEPT ![t] = NoRow]
              /\ brief' = IF t \in Evergreen THEN brief
                          ELSE [brief EXCEPT ![t] = NoBrief]
         ELSE /\ state' = [state EXCEPT ![c] = ErrorStateFor(kind)]
              /\ row' = [row EXCEPT ![t] = HoldRow(@)]
              /\ UNCHANGED brief
    /\ resolver' = [resolver EXCEPT ![c] = "exited"]
    /\ reports' = reports \ {c}
    /\ tracked' = tracked \ {c}
    /\ UNCHANGED <<lease, late, pause, branch, polls, handler, spawning, sweep,
                   executor, watch, cooldown, order, mgr, spent>>

-----------------------------------------------------------------------------
(* Time and the reconciler                                                 *)

\* No worker executes a any more.
Abandoned(a) == \A w \in Worker : order[w].pc # "idle" => order[w].at # a

\* deadline_at passes once the heartbeats stop: the worker is gone, or it is
\* cut off and goes on as a zombie.
DeadlinePasses(a) ==
    /\ Happens("deadline") /\ (Abandoned(a) \/ Happens("partition"))
    /\ Live(a) /\ a \notin late
    /\ late' = late \cup {a}
    /\ UNCHANGED <<state, lease, row, pause, disk, requests, executor,
                   volatile, processes, mgr, spent>>

\* Mutant: the sweep expires a land in progress too.
ExpireDeadlineLanding(a) ==
    /\ Up /\ Live(a) /\ a \in late
    /\ Commit(a, OnDeadline)
    /\ UNCHANGED <<lease, late, pause, disk, requests, executor, volatile,
                   processes, mgr, spent>>

\* _expire_deadlines: LANDING attempts are exempt.
ExpireDeadline(a) ==
    /\ Up /\ state[a] = "running" /\ a \in late
    /\ Commit(a, OnDeadline)
    /\ UNCHANGED <<lease, late, pause, disk, requests, executor, volatile,
                   processes, mgr, spent>>

BackoffElapses(t) ==
    /\ row[t].backoff = "pending"
    /\ row' = [row EXCEPT ![t].backoff = "elapsed"]
    /\ UNCHANGED <<state, lease, late, pause, disk, requests, executor,
                   volatile, processes, mgr, spent>>

CooldownEnds(w) ==
    /\ w \in cooldown
    /\ cooldown' = cooldown \ {w}
    /\ UNCHANGED <<durable, disk, requests, executor, watch, tracked,
                   processes, mgr, spent>>

\* _gc_terminal_artifacts: no lease, no brief, no hold.
GcBranch(t) ==
    /\ Up /\ LockFree /\ branch[t].work # "gone"
    /\ ~Leased(t) /\ ~brief[t].present /\ row[t].hold = "none"
    /\ branch' = [branch EXCEPT ![t] = NoBranch]
    /\ UNCHANGED <<durable, brief, main, ahead, requests, executor, volatile,
                   processes, mgr, spent>>

-----------------------------------------------------------------------------
(* The operator                                                            *)

Play ==
    /\ Up /\ Spend("play")
    /\ pause' = "none" /\ watch' = FALSE
    /\ LET released == {t \in Task : /\ brief[t].present /\ brief[t].failed
                                     /\ ~brief[t].quarantined}
       IN  /\ brief' = [t \in Task |-> IF t \in released
                          THEN [brief[t] EXCEPT !.failed = FALSE]
                          ELSE brief[t]]
           /\ row' = [t \in Task |-> IF t \in released
                        THEN ClearBackoff(row[t]) ELSE row[t]]
    /\ UNCHANGED <<state, lease, late, main, ahead, branch, requests,
                   executor, cooldown, tracked, processes, mgr>>

Pause ==
    /\ Up /\ Spend("pause")
    /\ pause' = "operator"
    /\ UNCHANGED <<state, lease, late, row, disk, requests, executor,
                   volatile, processes, mgr>>

\* Stop pauses, aborts what was live, and unpauses; skip only aborts.
SweepBegin(kind) ==
    /\ Up /\ sweep = Idle /\ Spend(kind)
    /\ sweep' = [pc |-> kind, todo |-> {a \in Attempt : Live(a)}]
    /\ pause' = IF kind = "stop" THEN "operator" ELSE pause
    /\ UNCHANGED <<state, lease, late, row, disk, polls, handler, spawning,
                   reports, executor, volatile, processes, mgr>>

\* Mutant: the abort trusts the snapshot and does not compare.
SweepAbortBlind(a) ==
    /\ Up /\ sweep # Idle /\ a \in sweep.todo
    /\ Commit(a, OnOperatorStop)
    /\ sweep' = [sweep EXCEPT !.todo = @ \ {a}]
    /\ UNCHANGED <<lease, late, pause, disk, polls, handler, spawning,
                   reports, executor, volatile, processes, mgr, spent>>

\* Compare-and-swap from RUNNING, then from LANDING.
SweepAbort(a) ==
    /\ Up /\ sweep # Idle /\ a \in sweep.todo
    /\ IF Live(a) THEN Commit(a, OnOperatorStop) ELSE UNCHANGED <<state, row>>
    /\ sweep' = [sweep EXCEPT !.todo = @ \ {a}]
    /\ UNCHANGED <<lease, late, pause, disk, polls, handler, spawning,
                   reports, executor, volatile, processes, mgr, spent>>

SweepEnd ==
    /\ Up /\ sweep # Idle /\ sweep.todo = {}
    /\ pause' = IF sweep.pc = "stop" THEN "none" ELSE pause
    /\ sweep' = Idle
    /\ UNCHANGED <<state, lease, late, row, disk, polls, handler, spawning,
                   reports, executor, volatile, processes, mgr, spent>>

\* Transport retry, and toggling a frontmatter flag off in the detail pane.
Unflag(t, flags) ==
    /\ brief[t].present
    /\ brief' = [brief EXCEPT ![t].failed = @ /\ "failed" \notin flags,
                              ![t].quarantined = @ /\ "quarantined" \notin flags]
    /\ watch' = FALSE
    /\ row' = [row EXCEPT ![t] = ClearBackoff(@)]
    /\ UNCHANGED <<state, lease, late, pause, main, ahead, branch, requests,
                   executor, cooldown, tracked, processes, mgr>>

Retry(t) == Up /\ Spend("retry") /\ brief[t].failed /\ Unflag(t, {"failed"})

Unquarantine(t) == /\ Up /\ Spend("unquarantine") /\ brief[t].quarantined
                   /\ Unflag(t, {"quarantined"})

\* reset_task: clear a hold; an orphan's row is deleted.
Release(t) ==
    /\ Up /\ Spend("release")
    /\ row[t].hold = "blocked"
    /\ row' = [row EXCEPT ![t] = IF brief[t].present THEN ReleaseRow(@)
                                 ELSE NoRow]
    /\ UNCHANGED <<state, lease, late, pause, disk, requests, executor,
                   volatile, processes, mgr>>

Delete(t) ==
    /\ Up /\ Spend("delete")
    /\ brief[t].present
    /\ brief' = [brief EXCEPT ![t] = NoBrief]
    /\ row' = [row EXCEPT ![t] = NoRow]
    /\ UNCHANGED <<state, lease, late, pause, main, ahead, branch, requests,
                   executor, volatile, processes, mgr>>

-----------------------------------------------------------------------------
(* Crash, and the startup recovery ladder of _recover_interrupted_lands    *)

Crash ==
    /\ mgr.pc # "down" /\ Spend("crash")
    /\ mgr' = [pc |-> "down"]
    /\ polls' = [w \in Worker |-> Idle]
    /\ handler' = [a \in Attempt |-> Idle]
    /\ jobs' = <<>> /\ result' = [a \in Attempt |-> NoResult]
    /\ spawning' = {} /\ reports' = {} /\ sweep' = Idle
    /\ watch' = FALSE /\ cooldown' = {} /\ tracked' = {}
    /\ UNCHANGED <<durable, disk, processes>>

Restart ==
    /\ mgr.pc = "down"
    /\ mgr' = [pc |-> "scan"]
    /\ UNCHANGED <<durable, disk, requests, executor, volatile, processes,
                   spent>>

\* Go on to the next interrupted land, by way of the brief's drop.
Recovered(a, drop) == mgr' = IF drop THEN [pc |-> "drop", at |-> a]
                             ELSE [pc |-> "scan"]

\* Rung 1: the trailer is on main.
RecoverLanded(a) ==
    /\ mgr.pc = "scan" /\ state[a] = "landing"
    /\ FindLandedAttempt(a)
    /\ Commit(a, OnLandRecovered)
    /\ Recovered(a, lease[a].task \notin Evergreen)
    /\ UNCHANGED <<lease, late, pause, disk, requests, executor, volatile,
                   processes, spent>>

\* Rung 2: the task branch survived, so the land job runs again.
RecoverReenqueue(a) ==
    /\ mgr.pc = "scan" /\ state[a] = "landing"
    /\ ~FindLandedAttempt(a)
    /\ branch[lease[a].task].work # "gone"
    /\ jobs' = <<a>>
    /\ mgr' = [pc |-> "land", at |-> a]
    /\ UNCHANGED <<durable, disk, requests, result, volatile, processes,
                   spent>>

RecoveryOutcome == [status |-> "completed", kind |-> "none",
                    landable |-> TRUE, quarantine |-> FALSE]

\* No watch, no pause, no retry, whatever the queue looked like.
RecoveryPolicy(t) == [counter |-> row[t].counter, wasRetry |-> FALSE,
                      watch |-> FALSE, paused |-> FALSE,
                      evergreen |-> t \in Evergreen]

\* Mutant: the re-run's conflict is believed without a second scan.
RecoveryTransitionOneScan(a) ==
    OnLandResult(RecoveryOutcome, result[a], RecoveryPolicy(lease[a].task))

\* Mutant: every conflict of the re-run is read as already landed.
RecoveryTransitionOptimist(a) ==
    IF result[a].kind = "conflict" THEN OnLandRecovered
    ELSE OnLandResult(RecoveryOutcome, result[a],
                      RecoveryPolicy(lease[a].task))

\* The re-run land's transition; a conflict gets a second trailer scan.
RecoveryTransition(a) ==
    IF result[a].kind = "conflict" /\ FindLandedAttempt(a)
    THEN OnLandRecovered
    ELSE OnLandResult(RecoveryOutcome, result[a],
                      RecoveryPolicy(lease[a].task))

RecoverReland(a) ==
    /\ mgr = [pc |-> "land", at |-> a] /\ Returned(a)
    /\ Commit(a, RecoveryTransition(a))
    /\ Recovered(a, /\ RecoveryTransition(a).state = "landed"
                    /\ lease[a].task \notin Evergreen)
    /\ result' = [result EXCEPT ![a] = NoResult]
    /\ UNCHANGED <<lease, late, pause, disk, requests, jobs, volatile,
                   processes, spent>>

\* Rung 3: neither provable nor re-runnable.
RecoverPark(a) ==
    /\ mgr.pc = "scan" /\ state[a] = "landing"
    /\ ~FindLandedAttempt(a)
    /\ branch[lease[a].task].work = "gone"
    /\ Commit(a, OnLandInterrupted)
    /\ UNCHANGED <<lease, late, pause, disk, requests, executor, volatile,
                   processes, mgr, spent>>

RecoverDrop ==
    /\ mgr.pc = "drop"
    /\ brief' = [brief EXCEPT ![lease[mgr.at].task] = NoBrief]
    /\ mgr' = [pc |-> "scan"]
    /\ UNCHANGED <<durable, main, ahead, branch, requests, executor, volatile,
                   processes, spent>>

\* Mutant: the API opens with interrupted lands left.
RecoveryDoneEarly ==
    /\ mgr.pc = "scan"
    /\ mgr' = [pc |-> "up"]
    /\ UNCHANGED <<durable, disk, requests, executor, volatile, processes,
                   spent>>

\* Recovery ran before the API opens.
RecoveryDone ==
    /\ mgr.pc = "scan"
    /\ \A a \in Attempt : state[a] # "landing"
    /\ mgr' = [pc |-> "up"]
    /\ UNCHANGED <<durable, disk, requests, executor, volatile, processes,
                   spent>>

-----------------------------------------------------------------------------
(* Specification                                                           *)

ResolveFailures == {"merge_conflict", "validation_error"}

WorkerStep(w) ==
    \/ PollPick(w) \/ \E synced \in BOOLEAN : LeaseClear(w, synced)
    \/ LeaseCreate(w) \/ LeaseLost(w) \/ LeaseDocsBlocked(w)
    \/ SetupWorktree(w) \/ AgentCommits(w) \/ AgentFinishes(w) \/ AgentLands(w)
    \/ WorkerDies(w) \/ Heartbeat(w) \/ SubmitLost(w) \/ CooldownEnds(w)
    \/ \E out \in Submits : SubmitRead(w, out)

AttemptStep(a) ==
    \/ SubmitApply(a) \/ SubmitAdopt(a) \/ EnqueueLand(a) \/ CompleteLand(a)
    \/ LandSync(a) \/ LandAdopt(a) \/ LandPush(a) \/ LandTeardown(a)
    \/ \E land \in LandReplies : LandSquash(a, land) \/ LandRefuse(a, land)
    \/ SetFlags(a) \/ SetQueue(a) \/ DropBrief(a)
    \/ DeadlinePasses(a) \/ ExpireDeadline(a) \/ SweepAbort(a)

ResolveStep(a) ==
    \/ Escalate(a) \/ Resolve(a) \/ SpawnResolve(a) \/ SpawnFails(a)
    \/ ResolverLands(a) \/ ResolverFails(a)
    \/ ReportLost(a) \/ ReportFence(a)
    \/ \E kind \in ResolveFailures, pushed \in BOOLEAN :
         ReportApply(a, kind, pushed)

RecoveryStep ==
    \/ Crash \/ Restart \/ RecoverDrop \/ RecoveryDone
    \/ \E a \in Attempt : \/ RecoverLanded(a) \/ RecoverReenqueue(a)
                          \/ RecoverReland(a) \/ RecoverPark(a)

OperatorStep ==
    \/ Play \/ Pause \/ SweepEnd
    \/ \E kind \in {"stop", "skip"} : SweepBegin(kind)
    \/ \E t \in Task : Retry(t) \/ Unquarantine(t) \/ Release(t) \/ Delete(t)

Next ==
    \/ \E w \in Worker : WorkerStep(w)
    \/ \E a \in Attempt : AttemptStep(a) \/ ResolveStep(a)
    \/ \E t \in Task : BackoffElapses(t) \/ GcBranch(t)
    \/ OperatorStep \/ RecoveryStep

Spec == Init /\ [][Next]_vars

\* The event loop resumes every suspended handler, the executor thread takes
\* its next job, the supervisor restarts the process, recovery runs to its
\* end and the reconciler ticks.  Nothing is assumed of workers, resolvers
\* and operators.
HandlerProgress(a) ==
    \/ SubmitApply(a) \/ SubmitAdopt(a) \/ EnqueueLand(a) \/ CompleteLand(a)
    \/ SetFlags(a) \/ SetQueue(a) \/ DropBrief(a)

LandProgress(a) ==
    \/ LandSync(a) \/ LandAdopt(a) \/ LandPush(a) \/ LandTeardown(a)
    \/ \E land \in LandReplies : LandSquash(a, land) \/ LandRefuse(a, land)

RecoveryProgress ==
    \/ Restart \/ RecoverDrop \/ RecoveryDone
    \/ \E a \in Attempt : \/ RecoverLanded(a) \/ RecoverReenqueue(a)
                          \/ RecoverReland(a) \/ RecoverPark(a)

Fairness ==
    /\ \A a \in Attempt : /\ WF_vars(HandlerProgress(a))
                          /\ WF_vars(LandProgress(a))
                          /\ WF_vars(DeadlinePasses(a))
                          /\ WF_vars(ExpireDeadline(a))
    /\ WF_vars(RecoveryProgress)

FairSpec == Spec /\ Fairness

-----------------------------------------------------------------------------
(* Properties                                                              *)

\* A task never has two live attempts (the partial unique index), however
\* many polls chose it from the same stale read.
OneLiveAttempt ==
    \A a, b \in Attempt :
      Live(a) /\ Live(b) /\ lease[a].task = lease[b].task => a = b

\* A stored verdict is never taken back: the only exit of a terminal state
\* is a landed resolve of a resolvable one.  This is what the compare-and-
\* swap of apply_transition is for, and update_attempt has none.
TerminalIsFinal ==
    [][\A a \in Attempt :
         state[a] \in TerminalStates =>
           \/ state'[a] = state[a]
           \/ state[a] \in ResolvableStates /\ state'[a] = "landed"]_vars

\* The tasks table's row-lifecycle invariant: a row exists iff it carries a
\* hold or retry state, and only a hold is retry-eligible.
RowLifecycle ==
    \A t \in Task :
      /\ row[t].present <=> \/ row[t].hold # "none" \/ row[t].counter > 0
                            \/ row[t].backoff # "null"
      /\ row[t].retry => row[t].hold # "none"

\* a's squash is on local main, or on origin and not yet pulled.
Squashed(a) == Carries(main, a) \/ Carries(ahead, a)

\* An expired attempt's work never reaches main: LANDING is exempt from the
\* deadline, and no land job is left behind by an expiry.
ExpiredNeverLands ==
    \A a \in Attempt : state[a] = "expired" =>
      ~Squashed(a) /\ \A i \in DOMAIN jobs : jobs[i] # a

\* A refusal is truthful across crashes: no attempt is stored as conflicted,
\* failed or without change while its own squash is on main.
TruthfulRefusal ==
    \A a \in Attempt :
      state[a] \in {"conflict", "failed", "blocked", "no_change"} =>
        ~Squashed(a)

\* "landed" means the task's finished work is on main.
LandedIsOnMain ==
    \A a \in Attempt : state[a] = "landed" =>
      \E i \in DOMAIN main : /\ main[i].work = "done"
                             /\ lease[main[i].by].task = lease[a].task

\* A landed regular task leaves the queue once its handler is through.
LandedLeavesQueue ==
    \A a \in Attempt :
      /\ state[a] = "landed" /\ handler[a].pc = "idle" /\ mgr.pc # "drop"
      /\ lease[a].task \notin Evergreen
      => ~brief[lease[a].task].present

\* A task whose failures reached the threshold is out of dispatch as soon as
\* the handler that counted the last one has written its flags.
StuckTaskHeld ==
    \A t \in Dispatchable :
      \/ QuarantineAfter = 0 \/ row[t].counter < QuarantineAfter
      \/ \E a \in Attempt : handler[a].pc = "flags" /\ lease[a].task = t

\* An attempt in LANDING is settled, by its job or by startup recovery.
LandingSettles ==
    \A a \in Attempt : state[a] = "landing" ~> state[a] # "landing"

\* A running attempt nobody executes any more is reclaimed.
OrphanReclaimed ==
    \A a \in Attempt :
      state[a] = "running" /\ Abandoned(a) ~> state[a] # "running"
=============================================================================
