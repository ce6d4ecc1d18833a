# Nightshift in TLA+

Nightshift runs coding agents through a queue of task briefs. A manager (FastAPI,
one event loop, a Postgres or SQLite store, a git content store of briefs)
leases tasks to workers; a worker runs an agent in a git worktree and submits an
outcome; the manager lands the task branch on the target repository's `main`. Tasks
also come in from Slack and from inboxes in the target repositories, and the CI
verdict on `main` gates what is dispatched. These modules model those parts, TLC
checks them on small instances, and TLAPS proves the safety properties of `Manager`,
`Workflow`, `Worker`, `Landing`, `CiGate`, `SlackIntake` and `Import` for every
instance, under the hypotheses named in [Proofs](#proofs). Paths below are under
`src/src/nightshift/`.

## The system

| Component | State | Operations | Hard behaviour |
|---|---|---|---|
| Lifecycle and transition table (`lifecycle.py`, `transitions.py`) | none (pure) | outcome or land result -> new attempt state and effects | many outcome kinds, one ladder shared by several of them |
| Store (`manager/store.py`, `store_sqlite.py`) | attempts, tasks rows, queue pauses, events | create_attempt, apply_transition (compare-and-swap), update_attempt, holds, counters, backoffs | the only fence between concurrent handlers |
| Worker API (`manager/api_worker.py`) | suspended requests, failure watch, worker cooldowns | poll, lease, heartbeat, submit, deferred land, resolve report | reads before an await are used after it |
| Repo executor and lock (`git/executor.py`, `git/locks.py`) | one FIFO of jobs per repository | submit, run, drain | serialisation with other processes |
| Landing (`manager/landing.py`, `git/landing.py`, `git/sync.py`) | `main`, origin's `main`, task branches | adopt, sync, squash, push, swap, tear down | crash between push and swap, lost races, refusals |
| Resolves (`manager/app.py`, `manager/resolve_job.py`, `resolve_runner.py`) | child attempts, processes | escalate, spawn, land, report | separate process, lossy report, cap |
| Reconciler (`manager/reconciler.py`) | none | deadline expiry, startup recovery, CI gate, auto-import, holds, clean-up | runs between any two awaits of any handler |
| Operator API (`manager/api_operator.py`) | none | play, pause, stop, skip, retry, reset, delete, resolve | multi-write sequences over live state |
| Scheduler (`manager/scheduler.py`) | round-robin cursor | candidates, filters, pick | dependencies, starvation |
| Content store (`task_files.py`) | briefs and their flags | create, edit, drop | written by the manager, operators and resolvers |
| Workflows (`workflows.py`) | step cursor, visits, artifacts | route, advance, reset | artifact and cursor are two writes |
| Worker (`worker/loop.py`, `worker/execute.py`, `worker/local_store.py`, `git/worktrees.py`) | current order, heartbeat thread, worktrees, sessions, local backoff | check in, poll, execute, submit, clean up, restart | dies, is cut off, submits once, may share its workspace |
| CI gate and fix tasks (`ci.py`, `manager/reconciler.py`) | repo_ci row, its marker, holds | refresh, spawn, re-file, retire, hold, release | external state, three writes per fix, restarts |
| Auto-import and inboxes (`repo_tasks.py`, `auto_import.py`) | the inboxes on `main`, the queue's briefs | scan, copy, remove sources | four awaits, publishers who correct, replays |
| Slack daemon (`slack/`) | pending captures, briefs, order file, git index | intake, confirm, enqueue | a pool of threads, double clicks |

`PROJECT.json` lists every component, with what is modelled of it, and every
hazard at its line.

Correct means: a task is executed by one attempt at a time; a verdict, once
stored, is not taken back; `landed` means that the finished work is on `main` and a
refusal means that it is not; a task that makes no progress leaves dispatch; the
tasks table carries no leftovers; every attempt is settled in the end, whatever
crashes; and a workflow enters each step within its budget, with the documents of
the steps before it.

## Modules

| Module | Models |
|---|---|
| `Lifecycle` | the vocabulary and the pure transition functions. A transition is a record `[state, eff]`; reasons, telemetry and events are left out. |
| `Manager` | one queue and one target repository: every handler, the land job, the resolver processes, the workers, the operator, crash and recovery. |
| `MCManager` | the outcomes, land results and task order of the small instances. |
| `Workflow` | one task that runs a workflow: dispatch of a step, its submit, the writes of artifact and cursor, chaining, split harvest, recovery. |
| `MCWorkflow` | the definitions and outcomes of the small instances of `Workflow`. |
| `LandLog` | abstract: a log that only grows by whole lands, and one true verdict per attempt. |
| `Landing` | the git side of a land with its recovery, and everybody the repo lock does not bind; implements `LandLog`. |
| `MCLanding` | which changes clash in the instances of `Landing`. |
| `Worker` | workers' loops, executions, worktrees and sessions; the manager is what a worker sees of it. |
| `MCWorker` | the briefs of the instances of `Worker`. |
| `CiGate`, `MCCiGate` | the CI gate of one repository, at the awaits of a reconciler tick. |
| `Import`, `MCImport` | inboxes, the operator's import and the reconciler's. |
| `SlackIntake`, `MCSlackIntake` | the inbound half of the Slack daemon on its pool of threads. |
| `LifecycleProofs` | lemmas about the transition functions. |
| `ManagerProofs`, `WorkflowProofs`, `WorkerProofs`, `LandingProofs`, `CiGateProofs`, `SlackIntakeProofs`, `ImportProofs` | the inductive invariants of these modules, and the theorems. |

How they compose: `Manager` and `Workflow` share `Lifecycle`. What is one land result
in `Manager` (`LandReplies`) is the outcome of a job of `Landing`; what is one worker
step in `Manager` is an execution of `Worker`; and the manager of `Worker`, the leases
of `Import` and the `live` of `CiGate` are `Manager`'s, reduced to what the other side
can tell. The state of all of them together is out of TLC's reach; each interface is a
nondeterministic choice on the side that does not model it.

### How `Manager` corresponds to the code

An action is the code between two awaits of a handler; a handler suspended at an
await is a value of a variable, and everything else may run before it resumes.

| Variable | In the code |
|---|---|
| `state`, `lease`, `late` | the attempts table; `late` is "deadline_at < now" |
| `row`, `pause` | the tasks table and queue_state |
| `brief` | the brief file with its `failed` and `quarantined` flags |
| `main`, `ahead`, `branch` | local `main` as a log of squashes, what origin has and local `main` lacks, the task branch |
| `watch`, `cooldown`, `tracked` | memory of the manager, lost in a crash |
| `polls`, `handler`, `spawning`, `reports`, `sweep` | suspended `worker_poll`, `worker_submit`, `_start_resolve`, `worker_resolve_result`, `post_transport` |
| `jobs`, `result` | the repo executor's queue, and how far the job at its head is |
| `order`, `resolver` | worker processes and resolver processes: they survive the manager |
| `mgr` | the manager process: up, down, or at a point of startup recovery |
| `spent` | counts the bounded events of an instance |

The submit handler goes through `apply` (or `adopt`, or `enqueue` then `landing`),
and after its commit through the post-commit effects in `_finish`'s order: flags,
queue (watch, pause, cooldown), drop, resolve. The land job is adoption, sync,
push, swap, teardown, each a crash point. Startup recovery is the three rungs of
`_recover_interrupted_lands` with the second trailer scan after a conflict; the API
is closed until it is through.

Abstractions, and why they are sound for the properties:

- A commit records whose branch it squashes, whose idempotency trailer it carries
  and whether the work was finished; contents are left out.
- Time is two facts, "the deadline passed" and "the backoff elapsed", that may
  become true whenever the code allows it.
- A poll may choose any dispatchable task: the scheduler's order is one of the
  choices.
- The land job finds local `main` where its push left it, origin is reachable when
  it syncs, and nobody else pushes to origin: `ahead` is only ever a squash of this
  manager. The pipeline's retry loop is for the other cases and is in `Landing`.
- The writes of `worker_resolve_result` after the fence are one action.
- Split tasks and workflows are not in this module: `OnSubmitPhase` is used with
  `split` false.

### How `Workflow` corresponds to the code

The module shares `Lifecycle` with `Manager`, and an action is again the code between
two awaits. A definition is the constants `Step`, `Kind`, `Signals`, `NextStep`,
`MaxVisits`, `Inputs` and `Output`; what `parse_workflow` guarantees of them is the
assumption `WorkflowConstants`. The parser puts no range on `max_visits`, so neither
does the assumption.

| Variable | In the code |
|---|---|
| `brief`, `artifacts`, `children` | the task file with `workflow_step` and `workflow_visits`, `<task>.artifacts/`, subtasks created by a split |
| `row`, `state` | the task's row and the attempts table |
| `order` | the attempt's worker, its persisted workflow block and the artifacts its order carried |
| `polls` | a suspended `_lease_and_build`: stamp the first step, build the order (cursor, then artifacts), create the attempt |
| `handler` | a suspended `worker_submit` with the step policy it computed on arrival, and where it is in `_finish` |
| `landed` | attempts whose squash is on `main` |
| `loaded`, `red` | the definition is in `app.state.workflows`; the CI gate's verdict |
| `mgr`, `spent` | the manager process; the bounded events |

The database commits a step first and the tasks-repo executor writes the artifact
and then the cursor; in between, any other handler may run and the process may die.
A land is one action here, since `Manager` has its crash points; queue-level effects
(watch, pause, cooldown) and the worker's process are `Manager`'s too. A definition
that is edited is modelled as one that disappears and returns.

### How `Landing` corresponds to the code

A history is the sequence of its commits, so that a prefix is an ancestor and a
sequence stands for a sha. A tree is a set of changes; `Clash` names pairs that edit
the same lines. Merge, cherry-pick and the divergence rescue are operators on these
(`Merged`, `Replay`, `Rescue`), with conflicts and redundant picks as git has them.

| Variable | In the code |
|---|---|
| `origin`, `local` | `main` on origin and in the manager's clone |
| `branch`, `wip`, `pr` | task branches, refs on the rendezvous remote, heads of pull requests |
| `base`, `head`, `verdict`, `resolved` | `base_ref`, `head_sha`, the stored outcome, and a resolver's commit |
| `job` | the one job under the `RepoLock`, with its program point, retry and what a rescue is about to install |
| `throttled` | the sync throttle's mark |
| `checkout`, `dirty` | the operator's HEAD, working tree and uncommitted changes |

A job advances from one git command or read to the next: sync (throttled or not), the
scan for its own trailer, squash, push, swap, checkout, teardown. Outsiders push, the
operator edits, commits and switches, and workers publish between any two of them; a
fetch or a push may fail, a push may be lost to a race, and the manager may crash,
after which recovery re-runs the land. `LandLog` is implemented with `origin` read as
one entry per commit (`ImplementsLog`).

### How `Worker` corresponds to the code

`loop[w]` is the thread of `run_forever`: its program point, the order at hand, the
`Outcome` under construction and the answer to its submit. `beat` is the heartbeat
thread, which is alive exactly while an execution runs. The points of an execution are
those of `execute_work_order` in their order (`setup`, `docs`, `preflight`, `run`,
`judge`, `validate`, `publish`); what the agent does is a choice at `run` and
`judge`. `tree[s][t]` is the worktree and branch of task `t` in workspace `s`: every
worker has its own where a rendezvous remote is configured, and the manager's
(`Home`) is shared by all workers otherwise, as `worktree_dir` says. `scratch` is the
directory next to it with the documents. `validated`, `rejected` and `cut` are history
variables.

The manager here is `task`, `paused` and `attempts`: it leases, chains, settles, holds
after a failure, lands, and sweeps deadlines. A lease may expire when no heartbeat
arrives for it, but not in the few steps between its answer and the first heartbeat
(`HandedOver`): the TTL is 120 s and the loop does nothing in between. An operator's
Restart! is shown as the two steps of `ui_app.py`: the page asks, and later finds no
run and ends the process, while the loop polls on.

### How `CiGate`, `Import` and `SlackIntake` correspond to the code

`CiGate`: a tick of the reconciler is `pass`, from the call of gh (`Answers` has every
answer the CLI can give: the head's runs, older runs, none, a failure) over the write of
`repo_ci`, the spawn of a fix with its three writes, retirement, and the hold
reconciler with its four reasons. GitHub, agents, the operator and leases act between
any two awaits.

`Import`: an import is `importer[i]` with what it read so far: started tasks, scan,
copy, removal. `"manual"` and `"auto"` are the operator's and the reconciler's. A text
carries the publisher's version, so that a corrected brief differs from a replayed
one. What an import scanned is a function from its sources to entries, copied in the
order of `Published`, which lists the inboxes as `_inboxes` does: `.tasks` before
`docs/tasks`, and of each the flat briefs before the queue's directory. A stem is a name with the number that a collision appends
(`repo_tasks.py:390` counts up until a name is free); `MaxNumber` bounds it.

`SlackIntake`: a handler thread is `thread[h]`; each read and write of the pending
map, the queue directory, `config.json`, the git index and HEAD is a step. An exception
in `_enqueue_and_ack` is answered in the capture's thread.

## Runs

An attempt id, a message or a fault that runs out is a bound, so deadlock checking is
off: the bounds of an instance (`Max...`) end its behaviours.

| Run | Shows |
|---|---|
| `ManagerFaults` | type correctness, `OneLiveAttempt`, `ExpiredNeverLands`, `TruthfulRefusal`, `TerminalIsFinal` under death, expiry, partition, stop and crash, push mode |
| `ManagerLadder` | `StuckTaskHeld` over four attempts of one task |
| `ManagerOutcomes` | `RowLifecycle`, `LandedLeavesQueue` over all outcomes and all land results, with racing resolves |
| `ManagerRecovery` | `LandedIsOnMain`, `LandingSettles`, `OrphanReclaimed` with two crashes, under fairness |
| `WorkflowLoop` | `WithinBudget`, `ArtifactBeforeCursor`, `OrderComplete`, `CursorCounted` and types of a definition with a cycle, a code step and a split, under two faults or operator actions |
| `LandingPush` | `VerifiedOnly`, `TrailerOnce` and the refinement `ImplementsLog` of two lands and a resolve in push mode, with an outsider, an operator, a failed transport and a crash |
| `LandingPr` | `WorkKept`, `DropsReported`, `CheckoutCoherent`, `LandSettles` in pull-request mode with agents that commit to main and an operator who edits, commits and switches |
| `Worker` | `OwnTree`, `LandsItsWork`, `LeftoversAreWork`, `HintsAreLive`, `TaskServed` of two workers, co-located or with a remote, under one fault |
| `CiGate` | `NoBlip`, `SpawnsAlone`, `GreenRetires`, `HoldsOpen` |
| `ImportDrain` | `NeverLost`, `NoTwin`, `RefusalFounded`, `InboxDrains` of two inboxes that share a file name |
| `SlackIntake` | `AckTruthful`, `OneBriefPerClick`, `ConfirmedIsAnswered`, `HandlersFinish` of two threads |
| `WorkerDocs` | refutes `EveryOrderReported`, which the design of task documents states: see below |

Between them the passing runs take every action of every module.

Why the bounds are enough for what they are to show. Two attempts of a task are what a
stale handler, a zombie and a re-dispatch need; the ladder needs four. `WorkflowLoop`
has three: its cycle is entered, left and entered again, and the third submit meets an
exhausted budget. In `LandingPush` two lands, one outsider and three retries let a push
lose its race, meet its own trailer and be rescued; in `LandingPr` the rescue meets
an agent's commit, an operator's commit and an outsider's. `Worker` needs three
attempts for an execution that is cut off, the one that replaces it and a third that
is chained to that, and a second worker for both. `ImportDrain` has two versions of one source:
one is corrected while the other was copied; with them no collision goes beyond
the third name, so that `MaxNumber` cuts nothing off. `CiGate` needs two commits for a fix that
is filed for one and met by the verdict of the next. Two threads in `SlackIntake` are
a capture in the middle of another's git commands.

Three switches mark an interleaving which the code does not prevent and under which
a property fails; they are off in the runs:

| Switch | When on |
|---|---|
| `SwitchAnyTime` (`Landing`) | the operator changes branches between the read of HEAD and the checkout of the new main: `CheckoutCoherent` fails (`git/landing.py:394`) |
| `Overlap` (`Import`) | a lease, a publisher or the other importer acts while an import is under way: a brief that runs is overwritten and `NeverLost` fails (`manager/reconciler.py:849`) |
| `Partition` (`Worker`) | heartbeats of a living worker get lost and its lease expires: its successor on the same box cuts the worktree under it, and `OwnTree` and `LandsItsWork` fail (`git/worktrees.py:96`) |

### The finding

`WorkerDocs`: the scratch copy of a document is written with mode 0444
(`task_files.py:627-629`) and stays; the next order of the task on the same box cannot
open it for writing. `PermissionError` is not `DocumentUnavailable`, so the order ends
without a submit, against `docs/specs/2026-07-18-task-documents.md:167-169`. The lease
has to expire, and the re-dispatch meets the same file.

### Known divergences

The models have these behaviours; no run reports them, because no property of the
runs' list is about them or because the instance leaves out what they need.

- `manager/landing.py:282`: the base is pinned at dispatch, so that another task's land
  in between makes a submit without changes "adopted". `LandedIsOnMain` passes where no
  two tasks share the repository.
- `manager/api_operator.py:905`: a stop aborts an attempt in LANDING but its job lands
  all the same; `transitions.py:665` says a stop cancels mid-land too.
- `manager/api_worker.py:855`: two failures that are submitted together both read a
  disarmed watch, and the queue is not paused.
- `manager/reconciler.py:345`: recovery settles a land in the middle of a workflow
  with the transitions of a plain task and drops its brief.
- `manager/api_worker.py:885`: a step leased again before its cursor was written
  advances the cursor twice and spends its successor's budget.
- `transitions.py:959`: empty splits count on a ladder that never quarantines them.
- `manager/api_worker.py:1192-1194`: a resolver's commit that a rescue drops is
  reported as landed; `push_resolved_main_locked` (`git/landing.py:415`) names no
  dropped commits, so `DropsReported` is checked where nothing is resolved.
- `git/landing.py:287`: the removal of an imported source deletes the path, whatever
  text is there by then; `repo_tasks.py:14-17` says no brief is lost.
- `manager/reconciler.py:599-624, 638-652`: a restart between the red row and the fix
  marker leaves main red with no fix filed, against the comment at line 615.
- `docs/user/setup-guide.md:176` and `docs/specs/codebase-management.md:324` give
  every worker worktrees of its own; co-located workers share them.
- A worker that is cut off and sets up late resets the branch of the attempt that
  replaced it, on a shared box.
- `slack/intake.py:338-346`: a free slug is chosen and written later, so that two
  captures with one title in one queue can choose the same one; the second overwrites
  the brief of the first, whose card keeps its check mark.
- `repo_tasks.py:242-276`: the guards against a second import look at exact texts and
  at names. A quarantined source of the host's inbox that the operator imports while
  another brief has its name goes to `x-2`; if its removal fails and its hold is
  cleared, the reconciler imports it again, over `x`.
- `worker/ui_app.py:113-114`: a restart can end the process with an order that it has
  just been leased; the lease expires.

Limits of what passes. `TruthfulRefusal` holds for conflicts; it does not hold if
origin rejects the pushes of a recovery re-run whose squash is already there, or if the
acknowledgement of a push is lost, because the second trailer scan is made for
conflicts only. `LandedLeavesQueue` passes without crashes: one between the commit of
LANDED and the drop of the brief leaves the brief in the queue, and recovery, which
looks at LANDING attempts only, does not drop it. `StuckTaskHeld` is about failures of
the ladder: a validation hold on a brief that is already flagged failed is handed out
again by phase B (`manager/api_worker.py:698-713`), and an operator who releases a hold
at the threshold gets the task dispatched again with its counter as it was. Phase B may
pick a quarantined task with a retry-eligible hold, which is no candidate; the failed
task behind it then waits for the operator. `ArtifactBeforeCursor` and `OrderComplete` are checked for tasks that
are not evergreen: the reset of an evergreen deletes artifacts under a handler that a
second lease of the same step left behind.

### Fairness

- `Manager`: weak fairness of each suspended submit (the event loop resumes it), each
  land job (the executor's thread), the passing of a deadline nobody extends and its
  sweep (the reconciler ticks), and restart with recovery (the supervisor restarts the
  manager; recovery is awaited before the API opens). Nothing is assumed of workers,
  resolvers or operators.
- `Landing`: weak fairness of the job's next step and of recovery; strong fairness of
  the start of a queued job, which competes with the poll's sync jobs for the executor:
  its queue is a FIFO.
- `Worker`: weak fairness of each loop (every request and every backend run has a time
  limit), and of the sweep and the land of a task. `TaskServed` exempts a queue that is
  paused, which only the operator ends.
- `CiGate`: weak fairness of the reconciler's pass.
- `Import`: weak fairness of an import that began, and strong fairness of the start of
  the reconciler's: where the model keeps the two importers apart, an operator who imports
  again and again does not keep the reconciler out.
- `SlackIntake`: weak fairness of each handler thread; none waits for another.

Faults, crashes and acts of the operator are bounded and never fair.

## Proofs

Seven modules hold the theorems about the components, `LifecycleProofs` the lemmas about
the transition functions. Each proof starts from the constants' assumptions of its
module; where a theorem needs more, its `ASSUME`, or an `[]`-hypothesis next to
`Spec`, says so, and the paragraph here says which behaviour of the code makes it
necessary. There is one lemma per part of an invariant, with one step per action that
can disturb it. Where a fact is by induction over numbers, the first-order lemmas
`Least` and `Induction` get it from the well-foundedness of `<`.

### `Manager`

From `ManagerConstants` and `LifecycleConstants`:

- `TypeCorrect`: `Spec => []TypeOK`
- `OneLiveAttemptHolds`: `Spec => []OneLiveAttempt`
- `RowLifecycleHolds`: `Spec => []RowLifecycle`
- `ExpiredNeverLandsHolds`: `Spec => []ExpiredNeverLands`
- `TerminalIsFinalHolds`: `Spec => TerminalIsFinal`
- `LandedLeavesQueueHolds`: `Spec /\ [](mgr.pc = "up") => []LandedLeavesQueue`
- `StuckTaskHeldHolds`: `Spec /\ [](mgr.pc = "up") => []StuckTaskHeld`, if `LadderOnly`
- `TruthfulRefusalHolds`: `Spec => []TruthfulRefusal`, if `Quiet`
- `LandedIsOnMainHolds`: `Spec => []LandedIsOnMain`, if `Quiet` and `NoAdoption`

None is inductive alone. The invariant `IInv` adds to types and `OneLiveAttempt`:

- what a suspended handler holds is well formed and belongs to an attempt that
  exists (`Known`, `HandlerInv`): a continuation writes the row of its lease's
  task;
- a job in the executor belongs to an attempt that is landing or aborted
  (`JobsInv`): so an expired attempt, which can only have been running, has none;
- a trailer on `main` or on origin is an attempt's that reached LANDING
  (`TrailerInv`);
- a report past its fence has an origin that is resolvable or landed
  (`ResolveInv`): `update_attempt` does not compare, so the fence read earlier must
  still mean something when the write happens.

`EdgesStep` gives the attempt-state edges of every step; `TerminalIsFinal` and the
invariants about jobs and trailers follow from it. The later theorems go on from `IInv`:

- `LandedLeavesQueue`: from the commit of `landed` to the drop of the brief its handler
  is on its way (`Leaves`), and a handler keeps to one task (`SameTask`). A crash in
  between leaves the brief in the queue: hence `[](mgr.pc = "up")`.
- `StuckTaskHeld`: the threshold is compared with the counter that the submit read; the
  counter in the row has not overtaken it while the attempt lives (`Counted`), and from
  the increment to the flag the quarantine is about to be written (`Held`).
  `LadderOnly` leaves out errors that count without climbing the ladder, and the
  operator's lifting of a hold.
- `TruthfulRefusal`: `Orderly` follows one land through its crash points. A squash is
  on `main` only while its attempt is landing or has landed (`Settled`); the branch,
  the trailer and the job agree with the stage (`Stages`, `Expected`), and what origin
  has and `main` lacks belongs to a land that recovery will find (`Logs`, `Owned`). It
  covers any number of crashes. `Quiet` leaves out stops, partitions and resolves. The
  case behind it: a crash after the push, a worker or a resolver of the old lease that
  touches the branch, and a second crash in recovery end in a stored conflict for work
  that is on `main`. The instances of `ManagerFaults` are too small for it.
- `LandedIsOnMain`: `Arrived` says it of the trailers. `NoAdoption`: an attempt that
  changes nothing adopts the `main` that another task moved (see the divergences).

### `Workflow`

From `WorkflowConstants` and `LifecycleConstants`:

- `TypeCorrect`: `Spec => []TypeOK`
- `WithinBudgetHolds`: `Spec => []WithinBudget`
- `CursorCountedHolds`: `Spec => []CursorCounted`
- `ArtifactBeforeCursorHolds`: `Spec => []ArtifactBeforeCursor`, if the task is not
  evergreen
- `OrderCompleteHolds`: `Spec => []OrderComplete`, if the task is not evergreen and
  `Provides(avail)` for some `avail`

A handler writes the cursor from the visits it read on arrival, so the budget of the
brief says nothing about the write to come. `IInv` therefore carries the verdict with
the handler: the policy it holds was within the budgets when it was taken
(`GoodPolicies`), its effects are those the policy allows (`Allowed`), and at the stage
of the cursor its document is on disk (`WrittenFirst`). The `Allowed` lemmas state what
each transition of a step returns.

`Provides(avail)` is the definition's side of `OrderComplete`: every path to a step has
written its inputs. `parse_workflow` compares the order in the file only
(`workflows.py:250-261`), so that a definition it accepts may route past the step
that writes an input; then an order lacks it. `Fed` says that whatever has a step in
mind (the brief, a poll, an order, a handler) finds the documents of `avail` on disk.
The reset of an evergreen deletes them between the read of the cursor and the read of the
artifacts of one poll.

### `Worker`

From `WorkerAssumption`, for any number of workers, tasks, attempts and faults,
co-located or not:

- `TypeCorrect`: `Spec => []TypeOK` (of `WorkerProofs`)
- `HintsAreLiveHolds`: `Spec => []HintsAreLive`
- `OwnTreeHolds`: `Spec => []OwnTree`, if `Partition` is off
- `LandsItsWorkHolds`: `Spec => []LandsItsWork`, if `Partition` is off
- `LeftoversAreWorkHolds`: `Spec => []LeftoversAreWork`

That a session is remembered for the order at hand only is not inductive: an execution
that is cut short leaves one, and the record of the cut has to be late enough to account
for it. `HintInv` orders the numbers: what a worker remembers of the task of its order is no
later than that order, which is no later than the task's last lease. `OwnInv` is the argument
of the lease: from the answer that brings an order to the end of its execution the
task is leased to this worker (`Owns`), so that two executions are never of one task;
heartbeats are for that lease, so it does not expire; and a worktree is removed
outside an execution only by a worker that published its branch, in a workspace
nobody shares. `TaskSafe`, `TreeSafe` and `WipSafe` state what a step of one worker may touch; one
lemma then keeps everybody else's part. `WorkInv` follows the work itself: an execution
sees no commits but its own, what it publishes was validated, and it stays in its
place from the publication to the submit, if the lease lasts that long, and from there to
the end of the land. That a submit with an old lease cannot pass for one with a new
lease needs the order of the numbers in `HintInv`. `LeftInv` accounts for a worktree
that nobody works in by the history of its last execution; it needs no lease.

### `Landing`

From `LandingConstants`, which keeps attempts, outsiders' changes and the operator's
apart, in every mode:

- `ShapeHolds`: `Spec => []Shape`
- `VerifiedOnlyHolds`: `Spec => []VerifiedOnly`
- `TrailerOnceHolds`: `Spec => []TrailerOnce`
- `WorkKeptHolds`: `Spec => [](Unresolved => WorkKept)`, and after a resolve a refused
  land whose branch is gone has its work in the resolver's commit
- `DropsReportedHolds`: `Spec => [](crashes = 0 /\ Unresolved => DropsReported)`
- `CheckoutCoherentHolds`: `Spec => [](crashes = 0 => CheckoutCoherent)`, if
  `SwitchAnyTime` is off
- `OriginOnlyGrows`: `Spec => [][IsAncestor(origin, origin')]_vars`
- `ImplementsLogHolds`: `Spec /\ [](crashes = 0) => ImplementsLog`, if `Mode = "push"` and
  agents do not commit to main

`Shape` says that histories begin at the root and their trees grow, that a job is where
its kind goes, and that a land past its fetch is at the `head_sha` that was submitted.
The lemmas on `Merged`, `Replay`, `Rescue` and `IsAncestor` say what git's operations
preserve. On them rest:

- `NoStray`: an unverified change is in no tree, job or rescue.
- `TrailersOnce`: a squash that a push left on origin and a squash of the re-run in
  local `main` would be two trailers. `TrailersPushed` and `TrailersLocal` say which
  history may have the trailer at which point of the job, so that the scan finds it.
- `Kept`: which branch is there at which phase and point of the job.
- `Drops`: what a rescue left behind is in the job until it reports; a crash loses
  it, and a resolver's push has nobody to tell.
- `Together`: HEAD, index and working tree move inside a job. A crash between two of
  its steps leaves them apart.
- `Agreed`, for the refinement: work enters a history by its own land only. Each step of
  `Landing` is then a push or a verdict of `LandLog`, or a stutter. A crash lets recovery
  choose a verdict that this invariant does not cover; TLC checks the refinement with
  crashes in `LandingPush`.

### `CiGate`

- `GateInvariant`: `Spec => []Inv`
- `SpawnsAloneHolds`: `Spec => SpawnsAlone`
- `NoBlipHolds`: `Spec => NoBlip`

`Inv` has the shape of the pass, what its reads still mean after an await (`Read`), and
that between the look for open fixes and the creation nothing else files one (`Alone`).

### `SlackIntake`

- `ConfirmedIsAnsweredHolds`: `Spec => []ConfirmedIsAnswered`
- `OneBriefPerClickHolds`: `Spec => []OneBriefPerClick`
- `AckTruthfulHolds`: `Spec /\ []SlugsApart => []AckTruthful`
- `AckTruthfulDistinct`: `Spec => []AckTruthful`, if no two captures share title and queue

`Answers` hands the duty to answer from the click to the thread that took the capture.
`Counted` compares briefs on disk and briefs about to be written with the clicks.
`Truthful` says what of a brief is in the queue, the index and HEAD at each step of the
commit. `SlugsApart` excludes the race for a slug, which the code has.

### `Import`

From `ImportConstants`, with any number of sources, shared names, versions, failed
removals and restarts; `Overlap` is off in all three:

- `NeverLostHolds`: `Spec => []NeverLost`
- `NoTwinHolds`: `Spec => []NoTwin`, if `HoldsFirst`
- `RefusalFoundedHolds`: `Spec => RefusalFounded`

`IInv` relates a batch that was scanned to main and queue (`Scanned`, `Removable`), says
where every version is (`NeverLost`), which copies have a number (`Numbered`) and
what a copy says (`Verbatim`). A batch is copied source after source, each one over the
queue the one before it left: that the whole copy keeps these is by induction over
`Published` (`Batch`, `BatchStep`, `BatchDone`). `HoldsFirst`: no quarantined source of
the host is published behind another of its name; the divergences have the
sequence that makes two tasks of one version otherwise.

### Model-checked only

- Liveness: `LandingSettles`, `OrphanReclaimed`, `LandSettles`, `TaskServed`,
  `GreenRetires`, `HoldsOpen`, `InboxDrains`, `HandlersFinish`. Fairness and ENABLED are
  out of the prover's reach.
- What a theorem's hypotheses leave out and a run has: `TruthfulRefusal` with stops,
  resolves and partitions (`ManagerFaults`), `ImplementsLog` with a crash
  (`LandingPush`).

## Not modelled

- `slack/notify.py` and `slack/threads.py`: nothing attaches them to the event hub.
- The scheduler's order, filters, dedication and `after:` dependencies: a poll of
  `Manager` may choose any dispatchable task, which contains every choice of the
  scheduler, but starvation and dependency cycles are not examined.
- `RepoLock` itself (a file lock with waits and stale owners): taken as a mutex.
- The editors of workflows, prompts and documents, queue CRUD, the local runner and the
  daily spawner: sequential file operations over the content store.
- The agent and its backends: a choice of outcome and of commits. `backends.py` is
  mapped only where a run is started, interrupted and its session read.
- Configuration, events, accounting, the dashboards: no state of their own that the
  core reads back, or constants of the models.

## Plan

1. `RepoLock`: executor threads, the file lock and other processes, refining an
   abstract mutual exclusion; proved.
2. Proofs: `TruthfulRefusal` with stops, resolves and partitions as long as the
   manager is up; `ImplementsLog` with crashes; `CheckoutCoherent` and `DropsReported`
   after a recovery.
3. `Scheduler`: filters, priorities, dependencies, round robin, as operators against a
   reference, and starvation as liveness.
4. `WorkflowEditor`: operator and shipped definitions, prompts and the reload with
   the last good set.
