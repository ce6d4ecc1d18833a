--------------------------- MODULE ManagerProofs ---------------------------
(***************************************************************************)
(* The safety of the manager for any number of tasks, workers and attempts.*)
(***************************************************************************)
EXTENDS Manager, LifecycleProofs, SequenceTheorems, TLAPS

-----------------------------------------------------------------------------
(* The inductive invariant, in parts                                       *)

\* A row exists iff it holds or counts, and a backoff needs a count: the
\* strengthening without which clearing a backoff would leave an empty row.
RowOK(r) ==
    /\ r.present <=> r.hold # "none" \/ r.counter > 0
    /\ r.backoff # "null" => r.counter > 0
    /\ r.retry => r.hold # "none"

GoodRows == {r \in Rows : RowOK(r)}

RowsInv == row \in [Task -> GoodRows]

StoreInv ==
    /\ state \in [Attempt -> AttemptStates \cup {"none"}]
    /\ lease \in [Attempt -> Leases \cup {NoLease}]
    /\ \A a \in Attempt : state[a] # "none" => lease[a] \in Leases
    /\ late \subseteq Attempt
    /\ pause \in {"none", "operator", "consecutive_failures", "retry_failed"}

\* A branch with commits was cut for an attempt.
GoodBranches == {b \in Branches : HasCommits(b) => b.by \in Attempt}

DiskInv ==
    /\ brief \in [Task -> Briefs]
    /\ main \in Seq(Commits) /\ ahead \in Seq(Commits)
    /\ branch \in [Task -> GoodBranches]

\* A pending verdict is one the transition functions produce.
GoodHandlers == {h \in Handlers : h.pc = "apply" => h.tr \in Verdicts}

HandlerInv == handler \in [Attempt -> GoodHandlers]

RequestInv ==
    /\ polls \in [Worker -> Polls]
    /\ spawning \subseteq Attempt
    /\ reports \subseteq Attempt
    /\ tracked \subseteq Attempt
    /\ sweep \in Sweeps
    /\ watch \in BOOLEAN
    /\ cooldown \subseteq Worker
    /\ spent \in Nat

ProcessInv ==
    /\ order \in [Worker -> Orders]
    /\ resolver \in [Attempt -> {"none", "running", "landed", "failed",
                                 "exited"}]
    /\ mgr \in Managers

LandInv ==
    /\ jobs \in Seq(Attempt)
    /\ result \in [Attempt -> LandResults \cup {NoResult, Synced, Pushed}]

\* Whatever names an attempt names one that exists; orders and submits name
\* attempts that a worker leased.
KnownOrders ==
    \A w \in Worker : order[w].pc # "idle" =>
      /\ state[order[w].at] # "none"
      /\ lease[order[w].at].worker \in Worker

KnownHandlers ==
    \A a \in Attempt : handler[a].pc # "idle" =>
      state[a] # "none" /\ lease[a].worker \in Worker

KnownSpawning == \A a \in spawning : state[a] # "none"

KnownResolvers ==
    \A c \in Attempt : resolver[c] # "none" =>
      state[c] # "none" /\ lease[c].origin \in Attempt

Known == KnownOrders /\ KnownHandlers /\ KnownSpawning /\ KnownResolvers

\* A queued land is of an attempt that is landing, or was aborted since; the
\* recovery ladder runs at most the land it has re-enqueued.
JobsInv ==
    /\ \A i \in DOMAIN jobs : state[jobs[i]] \in {"landing", "aborted"}
    /\ mgr.pc \in {"down", "scan", "drop"} => jobs = <<>>
    /\ mgr.pc = "land" => /\ state[mgr.at] = "landing"
                          /\ \A i \in DOMAIN jobs : jobs[i] = mgr.at

\* Only an attempt that was landing leaves its trailer on main or on origin.
TrailerInv ==
    \A a \in Attempt : Squashed(a) =>
      state[a] \notin {"none", "running", "resolving", "expired"}

\* A resolver that has not been heard of has a child in RESOLVING, and a
\* report past the fence is about an origin that can still be resolved, or
\* that another resolver landed.
ResolveInv ==
    /\ \A c \in Attempt : resolver[c] \in {"running", "landed", "failed"} =>
         state[c] = "resolving"
    /\ \A c \in reports :
         /\ resolver[c] \in {"landed", "failed"}
         /\ state[lease[c].origin] \in ResolvableStates \cup {"landed"}

\* The edges of an attempt's stored state; its lease never changes.
Edges ==
    \A a \in Attempt :
      /\ \/ state'[a] = state[a]
         \/ state[a] = "none" /\ state'[a] \in {"running", "resolving", "failed"}
         \/ state[a] = "running" /\ state'[a] \in TerminalStates \cup {"landing"}
         \/ state[a] = "landing" /\ state'[a] \in TerminalStates \ {"expired"}
         \/ state[a] = "resolving" /\ state'[a] \in {"landed", "conflict",
                                                    "failed"}
         \/ state[a] \in ResolvableStates /\ state'[a] = "landed"
      /\ state[a] # "none" => lease'[a] = lease[a]

Typed == /\ RowsInv /\ StoreInv /\ DiskInv /\ HandlerInv /\ RequestInv
         /\ ProcessInv /\ LandInv /\ Known

IInv == Typed /\ OneLiveAttempt /\ JobsInv /\ TrailerInv /\ ResolveInv

USE DEF durable, disk, requests, executor, volatile, processes

-----------------------------------------------------------------------------
(* Rows                                                                    *)

\* Releases, holds and cleared backoffs keep the row in order.
LEMMA RowWrites ==
    /\ NoRow \in GoodRows
    /\ \A r \in GoodRows : /\ ReleaseRow(r) \in GoodRows
                           /\ HoldRow(r) \in GoodRows
                           /\ ClearBackoff(r) \in GoodRows
                           /\ r.backoff = "pending" =>
                                [r EXCEPT !.backoff = "elapsed"] \in GoodRows
  BY DEF GoodRows, Rows, RowOK, NoRow, ReleaseRow, DemoteRow, HoldRow,
         ClearBackoff

\* A write of the tasks table is a row.
LEMMA WriteRowType ==
    ASSUME NEW r \in Rows, NEW eff \in Effects
    PROVE  WriteRow(r, eff) \in Rows
<1>1. WriteRow(r, eff).present \in BOOLEAN
  BY DEF WriteRow, Rows
<1>2. WriteRow(r, eff).hold \in {"none", "blocked"}
  BY DEF WriteRow, Rows, Effects
<1>3. WriteRow(r, eff).retry \in BOOLEAN
  BY DEF WriteRow, Rows, Effects
<1>4. WriteRow(r, eff).counter \in Nat
  BY DEF WriteRow, Rows
<1>5. WriteRow(r, eff).backoff \in {"null", "pending", "elapsed"}
  BY DEF WriteRow, Rows
<1> QED BY <1>1, <1>2, <1>3, <1>4, <1>5 DEF WriteRow, Rows

\* A write that does not reset keeps the row's invariant.
LEMMA WriteRowOK ==
    ASSUME NEW r \in GoodRows, NEW eff \in Effects, EffOK(eff),
           eff.progress # "reset"
    PROVE  RowOK(WriteRow(r, eff))
<1> DEFINE w == WriteRow(r, eff)
<1>1. w.present <=> w.hold # "none" \/ w.counter > 0
  <2>1. CASE eff.progress = "increment"
    <3>1. w.present
      BY <2>1, Zenon DEF WriteRow
    <3>2. w.counter = r.counter + 1
      BY <2>1 DEF WriteRow
    <3>3. r.counter \in Nat
      BY DEF GoodRows, Rows
    <3>4. w.counter > 0
      BY <3>2, <3>3
    <3> QED BY <3>1, <3>4
  <2>2. CASE eff.progress = "none" /\ eff.hold # "none"
    BY <2>2 DEF WriteRow
  <2>3. CASE eff.progress = "none" /\ eff.hold = "none"
    <3>1. w.hold = r.hold /\ w.counter = r.counter /\ (w.present <=> r.present)
      BY <2>3 DEF WriteRow
    <3> QED BY <3>1 DEF GoodRows, RowOK
  <2> QED BY <2>1, <2>2, <2>3 DEF Effects
<1>2. w.backoff # "null" => w.counter > 0
  BY DEF WriteRow, GoodRows, Rows, RowOK, Effects
<1>3. w.retry => w.hold # "none"
  BY DEF WriteRow, GoodRows, RowOK, Effects, EffOK
<1> QED BY <1>1, <1>2, <1>3 DEF RowOK

\* apply_transition leaves no empty row, whatever the verdict.
LEMMA ApplyRowGood ==
    ASSUME NEW r \in GoodRows, NEW eff \in Effects, EffOK(eff)
    PROVE  ApplyRow(r, eff) \in GoodRows
<1>1. CASE eff.progress = "reset"
  <2>1. eff.clear /\ eff.hold = "none"
    BY <1>1 DEF EffOK
  <2>2. WriteRow(r, eff).counter = 0 /\ WriteRow(r, eff).backoff = "null"
    BY <1>1 DEF WriteRow
  <2> QED BY <2>1, <2>2, RowWrites DEF ApplyRow
<1>2. CASE eff.progress # "reset"
  <2>1. WriteRow(r, eff) \in GoodRows
    BY <1>2, WriteRowType, WriteRowOK DEF GoodRows
  <2>2. \A w \in GoodRows : w.counter # 0 \/ w.backoff # "null" =>
          DemoteRow(w, w.backoff) \in GoodRows
    BY DEF GoodRows, Rows, RowOK, DemoteRow
  <2> QED BY <2>1, <2>2, RowWrites DEF ApplyRow
<1> QED BY <1>1, <1>2

-----------------------------------------------------------------------------
(* Handlers                                                                *)

\* What a suspended submit holds at each stage.
LEMMA HandlerFields ==
    ASSUME NEW h \in GoodHandlers
    PROVE  /\ h.pc = "apply" => h.tr \in Verdicts
           /\ h.pc \in {"adopt", "enqueue", "landing"} =>
                h.out \in Outcomes /\ h.pol \in Policies
           /\ h.pc \in {"flags", "queue", "drop", "resolve"} =>
                h.eff \in Effects
  BY DEF GoodHandlers, Handlers

\* The forms in which a submit is suspended.
LEMMA HandlerForms ==
    /\ Idle \in GoodHandlers
    /\ \A tr \in Verdicts : [pc |-> "apply", tr |-> tr] \in GoodHandlers
    /\ \A pc \in {"adopt", "enqueue", "landing"}, out \in Outcomes,
          pol \in Policies :
         [pc |-> pc, out |-> out, pol |-> pol] \in GoodHandlers
    /\ \A stage \in {"idle", "flags", "queue", "drop", "resolve"},
          eff \in Effects : Resume(stage, eff) \in GoodHandlers
  BY DEF GoodHandlers, Handlers, Idle, Resume, Verdicts

\* The stages of the post-commit effects follow their order.
LEMMA NextStages ==
    \A eff : /\ AfterCommit(eff) \in {"idle", "flags", "queue", "drop",
                                      "resolve"}
             /\ AfterFlags(eff) \in {"idle", "queue", "drop", "resolve"}
             /\ AfterQueue(eff) \in {"idle", "drop", "resolve"}
             /\ AfterDrop(eff) \in {"idle", "resolve"}
  BY DEF AfterCommit, AfterFlags, AfterQueue, AfterDrop

\* A policy read from a typed state is a policy.
LEMMA PolicyTypes ==
    ASSUME RowsInv, StoreInv, DiskInv, RequestInv, NEW t \in Task
    PROVE  SubmitPolicy(t) \in Policies /\ RecoveryPolicy(t) \in Policies
  BY DEF SubmitPolicy, RecoveryPolicy, Policies, RowsInv, DiskInv, RequestInv,
         GoodRows, Rows, Briefs

-----------------------------------------------------------------------------
(* Logs                                                                    *)

\* A new commit adds its own trailer and no other.
LEMMA CarriesAppend ==
    ASSUME NEW log \in Seq(Commits), NEW c, NEW a
    PROVE  Carries(Append(log, c), a) <=> Carries(log, a) \/ c.trailer = a
  BY DEF Carries

\* Pulling a log adds its trailers and no other.
LEMMA CarriesConcat ==
    ASSUME NEW s \in Seq(Commits), NEW u \in Seq(Commits), NEW a
    PROVE  Carries(s \o u, a) <=> Carries(s, a) \/ Carries(u, a)
<1>1. ASSUME Carries(s, a) PROVE Carries(s \o u, a)
  BY <1>1 DEF Carries
<1>2. ASSUME Carries(u, a) PROVE Carries(s \o u, a)
  <2>1. PICK i \in DOMAIN u : u[i].trailer = a
    BY <1>2 DEF Carries
  <2>2. i + Len(s) \in DOMAIN (s \o u) /\ (s \o u)[i + Len(s)] = u[i]
    OBVIOUS
  <2> QED BY <2>1, <2>2 DEF Carries
<1>3. ASSUME Carries(s \o u, a) PROVE Carries(s, a) \/ Carries(u, a)
  BY <1>3 DEF Carries
<1> QED BY <1>1, <1>2, <1>3

-----------------------------------------------------------------------------
(* Verdicts and commits                                                    *)

\* A returned land job's result is stored as a land's verdict.
LEMMA LandTransitionType ==
    ASSUME IInv, NEW a \in Attempt, handler[a].pc = "landing", Returned(a)
    PROVE  OnLandResult(handler[a].out, result[a], handler[a].pol)
             \in LandVerdicts
<1>1. handler[a].out \in Outcomes /\ handler[a].pol \in Policies
  BY HandlerFields DEF IInv, Typed, HandlerInv
<1>2. result[a] \in LandResults
  BY DEF IInv, Typed, LandInv, Returned, NoResult, Synced, Pushed
<1> QED BY <1>1, <1>2, OnLandResultType

\* So is the result of a land that startup recovery ran again.
LEMMA RecoveryTransitionType ==
    ASSUME IInv, NEW a \in Attempt, state[a] # "none", Returned(a)
    PROVE  RecoveryTransition(a) \in LandVerdicts
<1>1. lease[a].task \in Task
  BY DEF IInv, Typed, StoreInv, Leases
<1>2. RecoveryPolicy(lease[a].task) \in Policies
  BY <1>1, PolicyTypes DEF IInv, Typed
<1>3. result[a] \in LandResults
  BY DEF IInv, Typed, LandInv, Returned, NoResult, Synced, Pushed
<1>4. RecoveryOutcome \in Outcomes
  BY DEF RecoveryOutcome, Outcomes, RunStatuses, FailureKinds
<1>5. OnLandResult(RecoveryOutcome, result[a], RecoveryPolicy(lease[a].task))
        \in LandVerdicts
  BY <1>2, <1>3, <1>4, OnLandResultType
<1> QED BY <1>5, FixedTransitionTypes DEF RecoveryTransition

\* apply_transition keeps the rows in order.
LEMMA CommitRows ==
    ASSUME RowsInv, NEW a \in Attempt, NEW tr \in Verdicts, Commit(a, tr)
    PROVE  RowsInv'
<1>1. tr.eff \in Effects /\ EffOK(tr.eff)
  BY DEF Verdicts, Transitions
<1>2. \A r \in GoodRows : ApplyRow(r, tr.eff) \in GoodRows
  BY <1>1, ApplyRowGood
<1> QED BY <1>2 DEF Commit, RowsInv

\* apply_transition keeps the types of the database.
LEMMA CommitStore ==
    ASSUME StoreInv, NEW a \in Attempt, NEW tr \in Verdicts, Commit(a, tr),
           state[a] # "none", UNCHANGED <<lease, late, pause>>
    PROVE  StoreInv'
<1>1. tr.state \in AttemptStates /\ tr.state # "none"
  BY DEF Verdicts, Transitions, TerminalStates
<1> QED BY <1>1 DEF Commit, StoreInv

\* An attempt that settles: a verdict from RUNNING, or a land's from LANDING.
LEMMA CommitEdge ==
    ASSUME StoreInv, NEW a \in Attempt, NEW tr \in Verdicts, Commit(a, tr),
           \/ state[a] = "running"
           \/ state[a] = "landing" /\ tr.state # "expired",
           UNCHANGED lease
    PROVE  Edges
<1>1. tr.state \in TerminalStates
  BY DEF Verdicts
<1> QED BY <1>1 DEF Commit, StoreInv, Edges, TerminalStates

\* Every step leaves every row in order.
LEMMA RowsStep ==
    ASSUME IInv, Next
    PROVE  RowsInv'
<1>0. UNCHANGED <<row>> => RowsInv'
  BY DEF IInv, Typed, RowsInv
<1>1. ASSUME NEW w \in Worker, WorkerStep(w) PROVE RowsInv'
  <2>1. CASE \/ PollPick(w) \/ LeaseCreate(w) \/ LeaseLost(w)
             \/ SetupWorktree(w) \/ AgentCommits(w) \/ AgentFinishes(w)
             \/ AgentLands(w) \/ WorkerDies(w) \/ Heartbeat(w)
             \/ SubmitLost(w) \/ CooldownEnds(w)
             \/ (\E out \in Submits : SubmitRead(w, out))
    BY <2>1, <1>0 DEF AgentCommits, AgentFinishes, AgentLands, CooldownEnds,
       Heartbeat, LeaseCreate, LeaseLost, PollPick, SetupWorktree, SubmitLost,
       SubmitRead, WorkerDies
  <2>2. ASSUME NEW synced \in BOOLEAN, LeaseClear(w, synced)
       PROVE  RowsInv'
    BY <2>2, RowWrites DEF LeaseClear, IInv, Typed, RowsInv
  <2>3. CASE LeaseDocsBlocked(w)
    BY <2>3, RowWrites DEF LeaseDocsBlocked, IInv, Typed, RowsInv
  <2> QED BY <1>1, <2>1, <2>2, <2>3 DEF WorkerStep
<1>2. ASSUME NEW a \in Attempt, AttemptStep(a) PROVE RowsInv'
  <2>1. CASE \/ SubmitAdopt(a) \/ EnqueueLand(a) \/ LandSync(a)
             \/ LandAdopt(a) \/ LandPush(a) \/ LandTeardown(a)
             \/ (\E land \in LandReplies : LandSquash(a, land))
             \/ (\E land \in LandReplies : LandRefuse(a, land))
             \/ SetFlags(a) \/ SetQueue(a) \/ DropBrief(a)
             \/ DeadlinePasses(a)
    BY <2>1, <1>0 DEF DeadlinePasses, DropBrief, EnqueueLand, LandAdopt,
       LandPush, LandRefuse, LandSquash, LandSync, LandTeardown, SetFlags,
       SetQueue, SubmitAdopt
  <2>2. CASE SubmitApply(a)
    <3>1. CASE state[a] = "running"
      <4>1. handler[a].tr \in Verdicts
        BY <2>2, HandlerFields DEF SubmitApply, IInv, Typed, HandlerInv
      <4> QED BY <2>2, <3>1, <4>1, CommitRows DEF SubmitApply, IInv, Typed
    <3>2. CASE state[a] # "running"
      BY <2>2, <3>2, <1>0 DEF SubmitApply
    <3> QED BY <3>1, <3>2
  <2>3. CASE CompleteLand(a)
    <3>1. CASE state[a] = "landing"
      <4> DEFINE tr == OnLandResult(handler[a].out, result[a], handler[a].pol)
      <4>1. tr \in LandVerdicts
        BY <2>3, LandTransitionType DEF CompleteLand
      <4>2. tr \in Verdicts /\ tr.state # "expired"
        BY <4>1 DEF LandVerdicts
      <4>3. Commit(a, tr)
        BY <2>3, <3>1 DEF CompleteLand
      <4> HIDE DEF tr
      <4> QED BY <2>3, <3>1, <4>2, <4>3, CommitRows DEF CompleteLand, IInv,
              Typed
    <3>2. CASE state[a] # "landing"
      BY <2>3, <3>2, <1>0 DEF CompleteLand
    <3> QED BY <3>1, <3>2
  <2>4. CASE ExpireDeadline(a)
    BY <2>4, FixedTransitionTypes, CommitRows DEF ExpireDeadline, IInv, Typed
  <2>5. CASE SweepAbort(a)
    <3>1. CASE Live(a)
      <4>1. OnOperatorStop.state # "expired"
        BY DEF OnOperatorStop
      <4> QED BY <2>5, <3>1, <4>1, FixedTransitionTypes, CommitRows
              DEF SweepAbort, IInv, Typed, Live, LiveStates
    <3>2. CASE ~Live(a)
      BY <2>5, <3>2, <1>0 DEF SweepAbort
    <3> QED BY <3>1, <3>2
  <2> QED BY <1>2, <2>1, <2>2, <2>3, <2>4, <2>5 DEF AttemptStep
<1>3. ASSUME NEW a \in Attempt, ResolveStep(a) PROVE RowsInv'
  <2>1. CASE \/ Escalate(a) \/ Resolve(a) \/ SpawnResolve(a)
             \/ SpawnFails(a) \/ ResolverLands(a) \/ ResolverFails(a)
             \/ ReportLost(a) \/ ReportFence(a)
    BY <2>1, <1>0 DEF Escalate, ReportFence, ReportLost, Resolve,
       ResolverFails, ResolverLands, SpawnFails, SpawnResolve
  <2>2. ASSUME NEW kind \in ResolveFailures, NEW pushed \in BOOLEAN,
              ReportApply(a, kind, pushed)
       PROVE  RowsInv'
    <3>1. row' \in {[row EXCEPT ![lease[a].task] = NoRow],
                    [row EXCEPT ![lease[a].task] = HoldRow(@)]}
      BY <2>2 DEF ReportApply
    <3> QED BY <3>1, RowWrites DEF IInv, Typed, RowsInv
  <2> QED BY <1>3, <2>1, <2>2 DEF ResolveStep
<1>4. ASSUME NEW t \in Task, BackoffElapses(t) \/ GcBranch(t) PROVE RowsInv'
  <2>1. CASE GcBranch(t)
    BY <2>1, <1>0 DEF GcBranch
  <2>2. CASE BackoffElapses(t)
    BY <2>2, RowWrites DEF BackoffElapses, IInv, Typed, RowsInv
  <2> QED BY <1>4, <2>1, <2>2
<1>5. CASE OperatorStep
  <2>1. CASE \/ Pause \/ SweepEnd
             \/ (\E kind \in {"stop", "skip"} : SweepBegin(kind))
    BY <2>1, <1>0 DEF Pause, SweepBegin, SweepEnd
  <2>2. CASE Play
    BY <2>2, RowWrites DEF Play, IInv, Typed, RowsInv
  <2>3. ASSUME NEW t \in Task, Retry(t)
       PROVE  RowsInv'
    BY <2>3, RowWrites DEF Retry, Unflag, IInv, Typed, RowsInv
  <2>4. ASSUME NEW t \in Task, Unquarantine(t)
       PROVE  RowsInv'
    BY <2>4, RowWrites DEF Unquarantine, Unflag, IInv, Typed, RowsInv
  <2>5. ASSUME NEW t \in Task, Release(t)
       PROVE  RowsInv'
    BY <2>5, RowWrites DEF Release, IInv, Typed, RowsInv
  <2>6. ASSUME NEW t \in Task, Delete(t)
       PROVE  RowsInv'
    BY <2>6, RowWrites DEF Delete, IInv, Typed, RowsInv
  <2> QED BY <1>5, <2>1, <2>2, <2>3, <2>4, <2>5, <2>6 DEF OperatorStep
<1>6. CASE RecoveryStep
  <2>1. CASE \/ Crash \/ Restart \/ RecoverDrop \/ RecoveryDone
             \/ (\E a \in Attempt : RecoverReenqueue(a))
    BY <2>1, <1>0 DEF Crash, RecoverDrop, RecoverReenqueue, RecoveryDone,
       Restart
  <2>2. ASSUME NEW a \in Attempt, RecoverLanded(a)
       PROVE  RowsInv'
    <3>1. OnLandRecovered \in Verdicts /\ OnLandRecovered.state # "expired"
      BY FixedTransitionTypes DEF LandVerdicts
    <3> QED BY <2>2, <3>1, CommitRows DEF RecoverLanded, IInv, Typed
  <2>3. ASSUME NEW a \in Attempt, RecoverReland(a)
       PROVE  RowsInv'
    <3>1. state[a] = "landing"
      BY <2>3 DEF RecoverReland, IInv, JobsInv
    <3>2. RecoveryTransition(a) \in LandVerdicts
      BY <2>3, <3>1, RecoveryTransitionType DEF RecoverReland
    <3>3. RecoveryTransition(a) \in Verdicts
             /\ RecoveryTransition(a).state # "expired"
      BY <3>2 DEF LandVerdicts
    <3> QED BY <2>3, <3>1, <3>3, CommitRows DEF RecoverReland, IInv, Typed
  <2>4. ASSUME NEW a \in Attempt, RecoverPark(a)
       PROVE  RowsInv'
    <3>1. OnLandInterrupted \in Verdicts /\ OnLandInterrupted.state # "expired"
      BY FixedTransitionTypes DEF LandVerdicts
    <3> QED BY <2>4, <3>1, CommitRows DEF RecoverPark, IInv, Typed
  <2> QED BY <1>6, <2>1, <2>2, <2>3, <2>4 DEF RecoveryStep
<1> QED BY <1>0, <1>1, <1>2, <1>3, <1>4, <1>5, <1>6 DEF Next

\* Every step follows the edges.
LEMMA EdgesStep ==
    ASSUME IInv, Next
    PROVE  Edges
<1>0. UNCHANGED <<state, lease>> => Edges
  BY DEF Edges
<1>1. ASSUME NEW w \in Worker, WorkerStep(w) PROVE Edges
  <2>1. CASE \/ PollPick(w)
             \/ (\E synced \in BOOLEAN : LeaseClear(w, synced))
             \/ LeaseLost(w) \/ LeaseDocsBlocked(w) \/ SetupWorktree(w)
             \/ AgentCommits(w) \/ AgentFinishes(w) \/ AgentLands(w)
             \/ WorkerDies(w) \/ Heartbeat(w) \/ SubmitLost(w)
             \/ CooldownEnds(w) \/ (\E out \in Submits : SubmitRead(w, out))
    BY <2>1, <1>0 DEF AgentCommits, AgentFinishes, AgentLands, CooldownEnds,
       Heartbeat, LeaseClear, LeaseDocsBlocked, LeaseLost, PollPick,
       SetupWorktree, SubmitLost, SubmitRead, WorkerDies
  <2>2. CASE LeaseCreate(w)
    BY <2>2 DEF LeaseCreate, NewAttempt, Fresh, IInv, Typed, StoreInv, Edges
  <2> QED BY <1>1, <2>1, <2>2 DEF WorkerStep
<1>2. ASSUME NEW a \in Attempt, AttemptStep(a) PROVE Edges
  <2>1. CASE \/ SubmitAdopt(a) \/ LandSync(a) \/ LandAdopt(a) \/ LandPush(a)
             \/ LandTeardown(a)
             \/ (\E land \in LandReplies : LandSquash(a, land))
             \/ (\E land \in LandReplies : LandRefuse(a, land))
             \/ SetFlags(a) \/ SetQueue(a) \/ DropBrief(a)
             \/ DeadlinePasses(a)
    BY <2>1, <1>0 DEF DeadlinePasses, DropBrief, LandAdopt, LandPush,
       LandRefuse, LandSquash, LandSync, LandTeardown, SetFlags, SetQueue,
       SubmitAdopt
  <2>2. CASE SubmitApply(a)
    <3>1. CASE state[a] = "running"
      <4>1. handler[a].tr \in Verdicts
        BY <2>2, HandlerFields DEF SubmitApply, IInv, Typed, HandlerInv
      <4> QED BY <2>2, <3>1, <4>1, CommitEdge DEF SubmitApply, IInv, Typed
    <3>2. CASE state[a] # "running"
      BY <2>2, <3>2, <1>0 DEF SubmitApply
    <3> QED BY <3>1, <3>2
  <2>3. CASE EnqueueLand(a)
    BY <2>3 DEF EnqueueLand, OnLandEnqueued, IInv, Typed, StoreInv, Edges
  <2>4. CASE CompleteLand(a)
    <3>1. CASE state[a] = "landing"
      <4> DEFINE tr == OnLandResult(handler[a].out, result[a], handler[a].pol)
      <4>1. tr \in LandVerdicts
        BY <2>4, LandTransitionType DEF CompleteLand
      <4>2. tr \in Verdicts /\ tr.state # "expired"
        BY <4>1 DEF LandVerdicts
      <4>3. Commit(a, tr)
        BY <2>4, <3>1 DEF CompleteLand
      <4> HIDE DEF tr
      <4> QED BY <2>4, <3>1, <4>2, <4>3, CommitEdge DEF CompleteLand, IInv,
              Typed
    <3>2. CASE state[a] # "landing"
      BY <2>4, <3>2, <1>0 DEF CompleteLand
    <3> QED BY <3>1, <3>2
  <2>5. CASE ExpireDeadline(a)
    BY <2>5, FixedTransitionTypes, CommitEdge DEF ExpireDeadline, IInv, Typed
  <2>6. CASE SweepAbort(a)
    <3>1. CASE Live(a)
      <4>1. OnOperatorStop.state # "expired"
        BY DEF OnOperatorStop
      <4> QED BY <2>6, <3>1, <4>1, FixedTransitionTypes, CommitEdge
              DEF SweepAbort, IInv, Typed, Live, LiveStates
    <3>2. CASE ~Live(a)
      BY <2>6, <3>2, <1>0 DEF SweepAbort
    <3> QED BY <3>1, <3>2
  <2> QED BY <1>2, <2>1, <2>2, <2>3, <2>4, <2>5, <2>6 DEF AttemptStep
<1>3. ASSUME NEW a \in Attempt, ResolveStep(a) PROVE Edges
  <2>1. CASE \/ Escalate(a) \/ Resolve(a) \/ ResolverLands(a)
             \/ ResolverFails(a) \/ ReportLost(a) \/ ReportFence(a)
    BY <2>1, <1>0 DEF Escalate, ReportFence, ReportLost, Resolve,
       ResolverFails, ResolverLands
  <2>2. CASE SpawnResolve(a)
    BY <2>2 DEF SpawnResolve, NewAttempt, Fresh, IInv, Typed, StoreInv, Edges
  <2>3. CASE SpawnFails(a)
    BY <2>3 DEF SpawnFails, ErrorStateFor, MergeKinds, NewAttempt, Fresh,
       IInv, Typed, StoreInv, Edges
  <2>4. ASSUME NEW kind \in ResolveFailures, NEW pushed \in BOOLEAN,
              ReportApply(a, kind, pushed)
       PROVE  Edges
    <3>1. /\ state[a] = "resolving"
          /\ state[lease[a].origin] \in ResolvableStates \cup {"landed"}
      BY <2>4 DEF ReportApply, IInv, ResolveInv
    <3> QED BY <2>4, <3>1 DEF ReportApply, ErrorStateFor, IInv, Typed,
            StoreInv,
                            Edges, ResolvableStates
  <2> QED BY <1>3, <2>1, <2>2, <2>3, <2>4 DEF ResolveStep
<1>4. ASSUME NEW t \in Task, BackoffElapses(t) \/ GcBranch(t) PROVE Edges
  <2>1. CASE BackoffElapses(t) \/ GcBranch(t)
    BY <2>1, <1>0 DEF BackoffElapses, GcBranch
  <2> QED BY <1>4, <2>1
<1>5. CASE OperatorStep
  <2>1. CASE \/ Play \/ Pause \/ SweepEnd
             \/ (\E kind \in {"stop", "skip"} : SweepBegin(kind))
             \/ (\E t \in Task : Retry(t))
             \/ (\E t \in Task : Unquarantine(t))
             \/ (\E t \in Task : Release(t)) \/ (\E t \in Task : Delete(t))
    BY <2>1, <1>0 DEF Delete, Pause, Play, Release, Retry, SweepBegin,
       SweepEnd, Unflag, Unquarantine
  <2> QED BY <1>5, <2>1 DEF OperatorStep
<1>6. CASE RecoveryStep
  <2>1. CASE \/ Crash \/ Restart \/ RecoverDrop \/ RecoveryDone
             \/ (\E a \in Attempt : RecoverReenqueue(a))
    BY <2>1, <1>0 DEF Crash, RecoverDrop, RecoverReenqueue, RecoveryDone,
       Restart
  <2>2. ASSUME NEW a \in Attempt, RecoverLanded(a)
       PROVE  Edges
    <3>1. OnLandRecovered \in Verdicts /\ OnLandRecovered.state # "expired"
      BY FixedTransitionTypes DEF LandVerdicts
    <3> QED BY <2>2, <3>1, CommitEdge DEF RecoverLanded, IInv, Typed
  <2>3. ASSUME NEW a \in Attempt, RecoverReland(a)
       PROVE  Edges
    <3>1. state[a] = "landing"
      BY <2>3 DEF RecoverReland, IInv, JobsInv
    <3>2. RecoveryTransition(a) \in LandVerdicts
      BY <2>3, <3>1, RecoveryTransitionType DEF RecoverReland
    <3>3. RecoveryTransition(a) \in Verdicts
             /\ RecoveryTransition(a).state # "expired"
      BY <3>2 DEF LandVerdicts
    <3> QED BY <2>3, <3>1, <3>3, CommitEdge DEF RecoverReland, IInv, Typed
  <2>4. ASSUME NEW a \in Attempt, RecoverPark(a)
       PROVE  Edges
    <3>1. OnLandInterrupted \in Verdicts /\ OnLandInterrupted.state # "expired"
      BY FixedTransitionTypes DEF LandVerdicts
    <3> QED BY <2>4, <3>1, CommitEdge DEF RecoverPark, IInv, Typed
  <2> QED BY <1>6, <2>1, <2>2, <2>3, <2>4 DEF RecoveryStep
<1> QED BY <1>0, <1>1, <1>2, <1>3, <1>4, <1>5, <1>6 DEF Next

\* The database keeps its types, and a stored attempt its lease.
LEMMA StoreStep ==
    ASSUME IInv, Next
    PROVE  StoreInv'
<1>0. UNCHANGED <<state, lease, late, pause>> => StoreInv'
  BY DEF IInv, Typed, StoreInv
<1>1. ASSUME NEW w \in Worker, WorkerStep(w) PROVE StoreInv'
  <2>1. CASE \/ PollPick(w)
             \/ (\E synced \in BOOLEAN : LeaseClear(w, synced))
             \/ LeaseLost(w) \/ LeaseDocsBlocked(w) \/ SetupWorktree(w)
             \/ AgentCommits(w) \/ AgentFinishes(w) \/ AgentLands(w)
             \/ WorkerDies(w) \/ SubmitLost(w) \/ CooldownEnds(w)
             \/ (\E out \in Submits : SubmitRead(w, out))
    BY <2>1, <1>0 DEF AgentCommits, AgentFinishes, AgentLands, CooldownEnds,
       LeaseClear, LeaseDocsBlocked, LeaseLost, PollPick, SetupWorktree,
       SubmitLost, SubmitRead, WorkerDies
  <2>2. CASE LeaseCreate(w)
    BY <2>2, ManagerConstants DEF LeaseCreate, NewAttempt, Leases,
       AttemptStates, LiveStates, RequestInv, Polls, IInv, Typed, StoreInv
  <2>3. CASE Heartbeat(w)
    BY <2>3 DEF Heartbeat, IInv, Typed, StoreInv
  <2> QED BY <1>1, <2>1, <2>2, <2>3 DEF WorkerStep
<1>2. ASSUME NEW a \in Attempt, AttemptStep(a) PROVE StoreInv'
  <2>1. CASE \/ SubmitAdopt(a) \/ LandSync(a) \/ LandAdopt(a) \/ LandPush(a)
             \/ LandTeardown(a)
             \/ (\E land \in LandReplies : LandSquash(a, land))
             \/ (\E land \in LandReplies : LandRefuse(a, land))
             \/ SetFlags(a) \/ DropBrief(a)
    BY <2>1, <1>0 DEF DropBrief, LandAdopt, LandPush, LandRefuse, LandSquash,
       LandSync, LandTeardown, SetFlags, SubmitAdopt
  <2>2. CASE SubmitApply(a)
    <3>1. CASE state[a] = "running"
      <4>1. handler[a].tr \in Verdicts
        BY <2>2, HandlerFields DEF SubmitApply, IInv, Typed, HandlerInv
      <4> QED BY <2>2, <3>1, <4>1, CommitStore DEF SubmitApply, IInv, Typed
    <3>2. CASE state[a] # "running"
      BY <2>2, <3>2, <1>0 DEF SubmitApply
    <3> QED BY <3>1, <3>2
  <2>3. CASE EnqueueLand(a)
    BY <2>3 DEF EnqueueLand, OnLandEnqueued, AttemptStates, LiveStates, IInv,
       Typed, StoreInv
  <2>4. CASE CompleteLand(a)
    <3>1. CASE state[a] = "landing"
      <4> DEFINE tr == OnLandResult(handler[a].out, result[a], handler[a].pol)
      <4>1. tr \in LandVerdicts
        BY <2>4, LandTransitionType DEF CompleteLand
      <4>2. tr \in Verdicts /\ tr.state # "expired"
        BY <4>1 DEF LandVerdicts
      <4>3. Commit(a, tr)
        BY <2>4, <3>1 DEF CompleteLand
      <4> HIDE DEF tr
      <4> QED BY <2>4, <3>1, <4>2, <4>3, CommitStore DEF CompleteLand, IInv,
              Typed
    <3>2. CASE state[a] # "landing"
      BY <2>4, <3>2, <1>0 DEF CompleteLand
    <3> QED BY <3>1, <3>2
  <2>5. CASE SetQueue(a)
    <3>1. handler[a].eff \in Effects
      BY <2>5, HandlerFields DEF SetQueue, IInv, Typed, HandlerInv
    <3> QED BY <2>5, <3>1 DEF SetQueue, Effects, IInv, Typed, StoreInv
  <2>6. CASE DeadlinePasses(a)
    BY <2>6 DEF DeadlinePasses, IInv, Typed, StoreInv
  <2>7. CASE ExpireDeadline(a)
    BY <2>7, FixedTransitionTypes, CommitStore DEF ExpireDeadline, IInv, Typed
  <2>8. CASE SweepAbort(a)
    <3>1. CASE Live(a)
      <4>1. OnOperatorStop.state # "expired"
        BY DEF OnOperatorStop
      <4> QED BY <2>8, <3>1, <4>1, FixedTransitionTypes, CommitStore
              DEF SweepAbort, IInv, Typed, Live, LiveStates
    <3>2. CASE ~Live(a)
      BY <2>8, <3>2, <1>0 DEF SweepAbort
    <3> QED BY <3>1, <3>2
  <2> QED BY <1>2, <2>1, <2>2, <2>3, <2>4, <2>5, <2>6, <2>7, <2>8 DEF
   AttemptStep
<1>3. ASSUME NEW a \in Attempt, ResolveStep(a) PROVE StoreInv'
  <2>1. CASE \/ Escalate(a) \/ Resolve(a) \/ ResolverLands(a)
             \/ ResolverFails(a) \/ ReportLost(a) \/ ReportFence(a)
    BY <2>1, <1>0 DEF Escalate, ReportFence, ReportLost, Resolve,
       ResolverFails, ResolverLands
  <2>2. CASE SpawnResolve(a)
    BY <2>2 DEF SpawnResolve, NewAttempt, Leases, AttemptStates, Known,
       KnownSpawning, RequestInv, IInv, Typed, StoreInv
  <2>3. CASE SpawnFails(a)
    BY <2>3 DEF SpawnFails, NewAttempt, ErrorStateFor, Leases, AttemptStates,
       TerminalStates, Known, KnownSpawning, RequestInv, IInv, Typed, StoreInv
  <2>4. ASSUME NEW kind \in ResolveFailures, NEW pushed \in BOOLEAN,
              ReportApply(a, kind, pushed)
       PROVE  StoreInv'
    <3>1. /\ state[a] = "resolving"
          /\ state[lease[a].origin] \in ResolvableStates \cup {"landed"}
      BY <2>4 DEF ReportApply, IInv, ResolveInv
    <3> QED BY <2>4, <3>1 DEF ReportApply, ErrorStateFor, IInv, Typed,
            StoreInv,
                            AttemptStates, TerminalStates, ResolvableStates
  <2> QED BY <1>3, <2>1, <2>2, <2>3, <2>4 DEF ResolveStep
<1>4. ASSUME NEW t \in Task, BackoffElapses(t) \/ GcBranch(t) PROVE StoreInv'
  <2>1. CASE BackoffElapses(t) \/ GcBranch(t)
    BY <2>1, <1>0 DEF BackoffElapses, GcBranch
  <2> QED BY <1>4, <2>1
<1>5. CASE OperatorStep
  <2>1. CASE \/ (\E t \in Task : Retry(t))
             \/ (\E t \in Task : Unquarantine(t))
             \/ (\E t \in Task : Release(t)) \/ (\E t \in Task : Delete(t))
    BY <2>1, <1>0 DEF Delete, Release, Retry, Unflag, Unquarantine
  <2>2. CASE Play
    BY <2>2 DEF Play, IInv, Typed, StoreInv
  <2>3. CASE Pause
    BY <2>3 DEF Pause, IInv, Typed, StoreInv
  <2>4. CASE SweepEnd
    BY <2>4 DEF SweepEnd, IInv, Typed, StoreInv
  <2>5. ASSUME NEW kind \in {"stop", "skip"}, SweepBegin(kind)
       PROVE  StoreInv'
    BY <2>5 DEF SweepBegin, IInv, Typed, StoreInv
  <2> QED BY <1>5, <2>1, <2>2, <2>3, <2>4, <2>5 DEF OperatorStep
<1>6. CASE RecoveryStep
  <2>1. CASE \/ Crash \/ Restart \/ RecoverDrop \/ RecoveryDone
             \/ (\E a \in Attempt : RecoverReenqueue(a))
    BY <2>1, <1>0 DEF Crash, RecoverDrop, RecoverReenqueue, RecoveryDone,
       Restart
  <2>2. ASSUME NEW a \in Attempt, RecoverLanded(a)
       PROVE  StoreInv'
    <3>1. OnLandRecovered \in Verdicts /\ OnLandRecovered.state # "expired"
      BY FixedTransitionTypes DEF LandVerdicts
    <3> QED BY <2>2, <3>1, CommitStore DEF RecoverLanded, IInv, Typed
  <2>3. ASSUME NEW a \in Attempt, RecoverReland(a)
       PROVE  StoreInv'
    <3>1. state[a] = "landing"
      BY <2>3 DEF RecoverReland, IInv, JobsInv
    <3>2. RecoveryTransition(a) \in LandVerdicts
      BY <2>3, <3>1, RecoveryTransitionType DEF RecoverReland
    <3>3. RecoveryTransition(a) \in Verdicts
             /\ RecoveryTransition(a).state # "expired"
      BY <3>2 DEF LandVerdicts
    <3> QED BY <2>3, <3>1, <3>3, CommitStore DEF RecoverReland, IInv, Typed
  <2>4. ASSUME NEW a \in Attempt, RecoverPark(a)
       PROVE  StoreInv'
    <3>1. OnLandInterrupted \in Verdicts /\ OnLandInterrupted.state # "expired"
      BY FixedTransitionTypes DEF LandVerdicts
    <3> QED BY <2>4, <3>1, CommitStore DEF RecoverPark, IInv, Typed
  <2> QED BY <1>6, <2>1, <2>2, <2>3, <2>4 DEF RecoveryStep
<1> QED BY <1>0, <1>1, <1>2, <1>3, <1>4, <1>5, <1>6 DEF Next

\* The job at the head of the queue is of an attempt with a lease.
LEMMA HeadJob ==
    ASSUME IInv, NEW a \in Attempt, jobs # <<>>, a = Head(jobs)
    PROVE  /\ state[a] \in {"landing", "aborted"}
           /\ lease[a].task \in Task
<1>1. 1 \in DOMAIN jobs /\ jobs[1] = a
  BY DEF IInv, Typed, LandInv
<1>2. state[a] \in {"landing", "aborted"}
  BY <1>1 DEF IInv, JobsInv
<1> QED BY <1>2 DEF IInv, Typed, StoreInv, Leases

\* Setting frontmatter flags leaves a brief.
LEMMA FlaggedType ==
    ASSUME NEW b \in Briefs, NEW flags
    PROVE  Flagged(b, flags) \in Briefs
<1>1. /\ Flagged(b, flags).failed \in BOOLEAN
      /\ Flagged(b, flags).quarantined \in BOOLEAN
  BY Zenon DEF Flagged
<1>2. Flagged(b, flags).present \in BOOLEAN
  BY DEF Flagged, Briefs
<1> QED BY <1>1, <1>2 DEF Flagged, Briefs

\* The squash of a landable branch is a commit.
LEMMA SquashType ==
    ASSUME IInv, NEW a \in Attempt, jobs # <<>>, a = Head(jobs),
           Squashable(a)
    PROVE  Squash(a) \in Commits
<1>1. lease[a].task \in Task
  BY HeadJob
<1> QED BY <1>1 DEF Squash, Squashable, Commits, IInv, Typed, DiskInv,
                    GoodBranches, Branches, HasCommits

\* The push of a resolve leaves the logs alone or pulls what origin has.
LEMMA PushResolvedLogs ==
    ASSUME NEW a \in Attempt, NEW kind, NEW pushed \in BOOLEAN,
           PushResolved(a, kind, pushed)
    PROVE  \/ UNCHANGED <<main, ahead>>
           \/ main' = main \o ahead /\ ahead' = <<>>
BY DEF PushResolved

\* Briefs, branches and logs keep their types.
LEMMA DiskStep ==
    ASSUME IInv, Next
    PROVE  DiskInv'
<1>0. UNCHANGED <<brief, main, ahead, branch>> => DiskInv'
  BY DEF IInv, Typed, DiskInv
<1>1. ASSUME NEW w \in Worker, WorkerStep(w) PROVE DiskInv'
  <2>1. CASE \/ PollPick(w) \/ LeaseCreate(w) \/ LeaseLost(w)
             \/ LeaseDocsBlocked(w) \/ WorkerDies(w) \/ Heartbeat(w)
             \/ SubmitLost(w) \/ CooldownEnds(w)
             \/ (\E out \in Submits : SubmitRead(w, out))
    BY <2>1, <1>0 DEF CooldownEnds, Heartbeat, LeaseCreate, LeaseDocsBlocked,
       LeaseLost, PollPick, SubmitLost, SubmitRead, WorkerDies
  <2>2. ASSUME NEW synced \in BOOLEAN, LeaseClear(w, synced)
       PROVE  DiskInv'
    BY <2>2 DEF LeaseClear, IInv, Typed, DiskInv
  <2>3. CASE SetupWorktree(w)
    <3>1. order[w].at \in Attempt
      BY <2>3 DEF SetupWorktree, IInv, Typed, ProcessInv, Orders
    <3> QED BY <2>3, <3>1 DEF SetupWorktree, IInv, Typed, DiskInv,
            GoodBranches, Branches, HasCommits
  <2>4. CASE AgentCommits(w)
    <3>1. order[w].at \in Attempt
      BY <2>4 DEF AgentCommits, IInv, Typed, ProcessInv, Orders
    <3>2. [by |-> order[w].at, work |-> "partial"] \in GoodBranches
      BY <3>1 DEF GoodBranches, Branches
    <3> QED BY <2>4, <3>2 DEF AgentCommits, IInv, Typed, DiskInv
  <2>5. CASE AgentFinishes(w)
    <3>1. order[w].at \in Attempt
      BY <2>5 DEF AgentFinishes, IInv, Typed, ProcessInv, Orders
    <3> QED BY <2>5, <3>1 DEF AgentFinishes, IInv, Typed, DiskInv,
            GoodBranches, Branches, HasCommits
  <2>6. CASE AgentLands(w)
    <3>1. order[w].at \in Attempt
      BY <2>6 DEF AgentLands, IInv, Typed, ProcessInv, Orders
    <3>2. [by |-> order[w].at, work |-> "empty"] \in GoodBranches
      BY <3>1 DEF GoodBranches, Branches, HasCommits
    <3>3. main' \in Seq(Commits)
      BY <2>6, <3>1 DEF AgentLands, Commits, IInv, Typed, DiskInv
    <3> QED BY <2>6, <3>2, <3>3 DEF AgentLands, IInv, Typed, DiskInv
  <2> QED BY <1>1, <2>1, <2>2, <2>3, <2>4, <2>5, <2>6 DEF WorkerStep
<1>2. ASSUME NEW a \in Attempt, AttemptStep(a) PROVE DiskInv'
  <2>1. CASE \/ SubmitApply(a) \/ EnqueueLand(a) \/ CompleteLand(a)
             \/ (\E land \in LandReplies : LandRefuse(a, land))
             \/ SetQueue(a) \/ DeadlinePasses(a) \/ ExpireDeadline(a)
             \/ SweepAbort(a)
    BY <2>1, <1>0 DEF CompleteLand, DeadlinePasses, EnqueueLand,
       ExpireDeadline, LandRefuse, SetQueue, SubmitApply, SweepAbort
  <2>2. CASE SubmitAdopt(a)
    BY <2>2 DEF SubmitAdopt, NoBranch, IInv, Typed, DiskInv, GoodBranches,
       Branches, HasCommits
  <2>3. CASE LandSync(a)
    BY <2>3 DEF LandSync, IInv, Typed, DiskInv
  <2>4. CASE LandAdopt(a)
    BY <2>4 DEF LandAdopt, NoBranch, IInv, Typed, DiskInv, GoodBranches,
       Branches, HasCommits
  <2>5. CASE LandPush(a)
    <3>1. Squash(a) \in Commits
      BY <2>5, SquashType DEF LandPush, Producing
    <3> QED BY <2>5, <3>1 DEF LandPush, IInv, Typed, DiskInv
  <2>6. CASE LandTeardown(a)
    BY <2>6 DEF LandTeardown, NoBranch, IInv, Typed, DiskInv, GoodBranches,
       Branches, HasCommits
  <2>7. ASSUME NEW land \in LandReplies, LandSquash(a, land)
       PROVE  DiskInv'
    <3>1. CASE PushMode
      <4>1. main' = main \o ahead /\ ahead' = <<>>
        BY <2>7, <3>1 DEF LandSquash
      <4> QED BY <2>7, <4>1 DEF LandSquash, IInv, Typed, DiskInv
    <3>2. CASE ~PushMode
      <4>1. main' = Append(main, Squash(a)) /\ ahead' = ahead
        BY <2>7, <3>2 DEF LandSquash
      <4>2. Squash(a) \in Commits
        BY <2>7, <3>2, SquashType DEF LandSquash, Producing
      <4> QED BY <2>7, <4>1, <4>2 DEF LandSquash, IInv, Typed, DiskInv
    <3> QED BY <3>1, <3>2
  <2>8. CASE SetFlags(a)
    <3>1. brief' \in [Task -> Briefs]
      <4>1. brief' \in {brief, [brief EXCEPT ![lease[a].task] =
                               Flagged(@, handler[a].eff.flags)]}
        BY <2>8 DEF SetFlags
      <4> QED BY <4>1, FlaggedType DEF IInv, Typed, DiskInv
    <3> QED BY <2>8, <3>1 DEF SetFlags, IInv, Typed, DiskInv
  <2>9. CASE DropBrief(a)
    BY <2>9 DEF DropBrief, NoBrief, Briefs, IInv, Typed, DiskInv
  <2> QED BY <1>2, <2>1, <2>2, <2>3, <2>4, <2>5, <2>6, <2>7, <2>8, <2>9 DEF
   AttemptStep
<1>3. ASSUME NEW a \in Attempt, ResolveStep(a) PROVE DiskInv'
  <2>1. CASE \/ Escalate(a) \/ Resolve(a) \/ SpawnResolve(a)
             \/ SpawnFails(a) \/ ResolverFails(a) \/ ReportLost(a)
             \/ ReportFence(a)
    BY <2>1, <1>0 DEF Escalate, ReportFence, ReportLost, Resolve,
       ResolverFails, SpawnFails, SpawnResolve
  <2>2. CASE ResolverLands(a)
    <3>1. lease[a].task \in Task
      BY <2>2 DEF ResolverLands, IInv, Typed, Known, KnownOrders,
         KnownHandlers, KnownResolvers, StoreInv, Leases
    <3>2. [by |-> branch[lease[a].task].by, trailer |-> 0,
           work |-> branch[lease[a].task].work] \in Commits
      BY <2>2, <3>1 DEF ResolverLands, Commits, IInv, Typed, DiskInv,
                      GoodBranches, Branches, HasCommits
    <3>3. main' \in Seq(Commits)
      BY <2>2, <3>2 DEF ResolverLands, IInv, Typed, DiskInv
    <3>4. brief' \in [Task -> Briefs]
      BY <2>2 DEF ResolverLands, NoBrief, Briefs, IInv, Typed, DiskInv
    <3>5. branch' \in [Task -> GoodBranches]
      BY <2>2 DEF ResolverLands, NoBranch, IInv, Typed, DiskInv, GoodBranches,
                Branches, HasCommits
    <3> QED BY <2>2, <3>3, <3>4, <3>5 DEF ResolverLands, IInv, Typed, DiskInv
  <2>3. ASSUME NEW kind \in ResolveFailures, NEW pushed \in BOOLEAN,
              ReportApply(a, kind, pushed)
       PROVE  DiskInv'
    <3>1. NoBrief \in Briefs
      BY DEF NoBrief, Briefs
    <3>2. brief' \in {brief, [brief EXCEPT ![lease[a].task] = NoBrief]}
      BY <2>3 DEF ReportApply
    <3>3. brief' \in [Task -> Briefs]
      BY <3>1, <3>2 DEF IInv, Typed, DiskInv
    <3>4. main' \in Seq(Commits) /\ ahead' \in Seq(Commits)
      <4>1. CASE UNCHANGED <<main, ahead>>
        BY <4>1 DEF IInv, Typed, DiskInv
      <4>2. CASE main' = main \o ahead /\ ahead' = <<>>
        BY <4>2 DEF IInv, Typed, DiskInv
      <4> QED BY <2>3, <4>1, <4>2, PushResolvedLogs DEF ReportApply
    <3> QED BY <2>3, <3>3, <3>4 DEF ReportApply, IInv, Typed, DiskInv
  <2> QED BY <1>3, <2>1, <2>2, <2>3 DEF ResolveStep
<1>4. ASSUME NEW t \in Task, BackoffElapses(t) \/ GcBranch(t) PROVE DiskInv'
  <2>1. CASE BackoffElapses(t)
    BY <2>1, <1>0 DEF BackoffElapses
  <2>2. CASE GcBranch(t)
    BY <2>2 DEF GcBranch, NoBranch, IInv, Typed, DiskInv, GoodBranches,
       Branches, HasCommits
  <2> QED BY <1>4, <2>1, <2>2
<1>5. CASE OperatorStep
  <2>1. CASE \/ Pause \/ SweepEnd
             \/ (\E kind \in {"stop", "skip"} : SweepBegin(kind))
             \/ (\E t \in Task : Release(t))
    BY <2>1, <1>0 DEF Pause, Release, SweepBegin, SweepEnd
  <2>2. CASE Play
    BY <2>2 DEF Play, Briefs, IInv, Typed, DiskInv
  <2>3. ASSUME NEW t \in Task, Retry(t)
       PROVE  DiskInv'
    BY <2>3 DEF Retry, Unflag, Briefs, IInv, Typed, DiskInv
  <2>4. ASSUME NEW t \in Task, Unquarantine(t)
       PROVE  DiskInv'
    BY <2>4 DEF Unquarantine, Unflag, Briefs, IInv, Typed, DiskInv
  <2>5. ASSUME NEW t \in Task, Delete(t)
       PROVE  DiskInv'
    BY <2>5 DEF Delete, NoBrief, Briefs, IInv, Typed, DiskInv
  <2> QED BY <1>5, <2>1, <2>2, <2>3, <2>4, <2>5 DEF OperatorStep
<1>6. CASE RecoveryStep
  <2>1. CASE \/ Crash \/ Restart \/ RecoveryDone
             \/ (\E a \in Attempt : RecoverLanded(a))
             \/ (\E a \in Attempt : RecoverReenqueue(a))
             \/ (\E a \in Attempt : RecoverReland(a))
             \/ (\E a \in Attempt : RecoverPark(a))
    BY <2>1, <1>0 DEF Crash, RecoverLanded, RecoverPark, RecoverReenqueue,
       RecoverReland, RecoveryDone, Restart
  <2>2. CASE RecoverDrop
    BY <2>2 DEF RecoverDrop, NoBrief, Briefs, IInv, Typed, DiskInv
  <2> QED BY <1>6, <2>1, <2>2 DEF RecoveryStep
<1> QED BY <1>0, <1>1, <1>2, <1>3, <1>4, <1>5, <1>6 DEF Next

\* A suspended submit holds what its next stage needs.
LEMMA HandlerStep ==
    ASSUME IInv, Next
    PROVE  HandlerInv'
<1>0. UNCHANGED <<handler>> => HandlerInv'
  BY DEF IInv, Typed, HandlerInv
<1>1. ASSUME NEW w \in Worker, WorkerStep(w) PROVE HandlerInv'
  <2>1. CASE \/ PollPick(w)
             \/ (\E synced \in BOOLEAN : LeaseClear(w, synced))
             \/ LeaseCreate(w) \/ LeaseLost(w) \/ LeaseDocsBlocked(w)
             \/ SetupWorktree(w) \/ AgentCommits(w) \/ AgentFinishes(w)
             \/ AgentLands(w) \/ WorkerDies(w) \/ Heartbeat(w)
             \/ SubmitLost(w) \/ CooldownEnds(w)
    BY <2>1, <1>0 DEF AgentCommits, AgentFinishes, AgentLands, CooldownEnds,
       Heartbeat, LeaseClear, LeaseCreate, LeaseDocsBlocked, LeaseLost,
       PollPick, SetupWorktree, SubmitLost, WorkerDies
  <2>2. ASSUME NEW out \in Submits, SubmitRead(w, out)
       PROVE  HandlerInv'
    <3> DEFINE a == order[w].at
               pol == SubmitPolicy(lease[a].task)
    <3>1. a \in Attempt /\ lease[a].task \in Task
      BY <2>2 DEF SubmitRead, IInv, Typed, ProcessInv, Orders, Known,
         KnownOrders, KnownHandlers, KnownResolvers, StoreInv,
                Leases
    <3>2. out \in Outcomes
      BY ManagerConstants
    <3>3. pol \in Policies
      BY <3>1, PolicyTypes DEF IInv, Typed
    <3>4. [pc |-> "apply", tr |-> OnSubmit(out, pol)] \in GoodHandlers
      BY <3>2, <3>3, OnSubmitType, HandlerForms
    <3>5. OnSubmitPhase(out, FALSE) \in {"apply", "enqueue", "adopt"}
      BY DEF OnSubmitPhase
    <3>6. OnSubmitPhase(out, FALSE) # "apply" =>
            [pc |-> OnSubmitPhase(out, FALSE), out |-> out, pol |-> pol]
              \in GoodHandlers
      BY <3>2, <3>3, <3>5, HandlerForms
    <3> HIDE DEF a, pol
    <3> QED BY <2>2, <3>1, <3>4, <3>6
            DEF SubmitRead, IInv, Typed, HandlerInv, a, pol
  <2> QED BY <1>1, <2>1, <2>2 DEF WorkerStep
<1>2. ASSUME NEW a \in Attempt, AttemptStep(a) PROVE HandlerInv'
  <2>1. CASE \/ LandSync(a) \/ LandAdopt(a) \/ LandPush(a)
             \/ LandTeardown(a)
             \/ (\E land \in LandReplies : LandSquash(a, land))
             \/ (\E land \in LandReplies : LandRefuse(a, land))
             \/ DeadlinePasses(a) \/ ExpireDeadline(a) \/ SweepAbort(a)
    BY <2>1, <1>0 DEF DeadlinePasses, ExpireDeadline, LandAdopt, LandPush,
       LandRefuse, LandSquash, LandSync, LandTeardown, SweepAbort
  <2>2. CASE SubmitApply(a)
    <3>1. handler[a].tr \in Verdicts
      BY <2>2, HandlerFields DEF SubmitApply, IInv, Typed, HandlerInv
    <3>2. handler[a].tr.eff \in Effects
      BY <3>1 DEF Verdicts, Transitions
    <3>3. Resume(AfterCommit(handler[a].tr.eff), handler[a].tr.eff)
            \in GoodHandlers
      BY <3>2, HandlerForms, NextStages
    <3> QED BY <2>2, <3>3, HandlerForms DEF SubmitApply, IInv, Typed,
            HandlerInv
  <2>3. CASE SubmitAdopt(a)
    <3>1. handler[a].out \in Outcomes /\ handler[a].pol \in Policies
      BY <2>3, HandlerFields DEF SubmitAdopt, IInv, Typed, HandlerInv
    <3>2. PICK land \in LandResults :
            handler' = [handler EXCEPT ![a] =
              [pc |-> "apply",
               tr |-> OnLandResult(handler[a].out, land, handler[a].pol)]]
      <4> DEFINE kind == IF MainAdvanced(a)
                              /\ ~HasCommits(branch[lease[a].task])
                         THEN "adopted" ELSE "no_changes"
      <4>1. [kind |-> kind, retryable |-> FALSE] \in LandResults
        BY DEF LandResults, LandSuccessKinds
      <4> QED BY <2>3, <4>1 DEF SubmitAdopt
    <3>3. OnLandResult(handler[a].out, land, handler[a].pol) \in Verdicts
      BY <3>1, OnLandResultType DEF LandVerdicts
    <3>4. [pc |-> "apply",
           tr |-> OnLandResult(handler[a].out, land, handler[a].pol)]
             \in GoodHandlers
      BY <3>3, HandlerForms
    <3> QED BY <3>2, <3>4 DEF IInv, Typed, HandlerInv
  <2>4. CASE EnqueueLand(a)
    <3>1. [handler[a] EXCEPT !.pc = "landing"] \in GoodHandlers
      BY <2>4 DEF EnqueueLand, IInv, Typed, HandlerInv, GoodHandlers, Handlers
    <3> QED BY <2>4, <3>1, HandlerForms DEF EnqueueLand, IInv, Typed,
            HandlerInv
  <2>5. CASE CompleteLand(a)
    <3> DEFINE tr == OnLandResult(handler[a].out, result[a], handler[a].pol)
    <3>1. tr \in LandVerdicts
      BY <2>5, LandTransitionType DEF CompleteLand
    <3>2. tr.eff \in Effects
      BY <3>1 DEF LandVerdicts, Verdicts, Transitions
    <3>3. Resume(AfterCommit(tr.eff), tr.eff) \in GoodHandlers
      BY <3>2, HandlerForms, NextStages
    <3>4. handler' \in {[handler EXCEPT ![a] = Resume(AfterCommit(tr.eff), tr.eff)],
                        [handler EXCEPT ![a] = Idle]}
      BY <2>5 DEF CompleteLand
    <3> HIDE DEF tr
    <3> QED BY <3>3, <3>4, HandlerForms DEF IInv, Typed, HandlerInv
  <2>6. CASE SetFlags(a)
    <3>1. handler[a].eff \in Effects
      BY <2>6, HandlerFields DEF SetFlags, IInv, Typed, HandlerInv
    <3>2. Resume(AfterFlags(handler[a].eff), handler[a].eff) \in GoodHandlers
      BY <3>1, HandlerForms, NextStages
    <3> QED BY <2>6, <3>2, HandlerForms DEF SetFlags, IInv, Typed, HandlerInv
  <2>7. CASE SetQueue(a)
    <3>1. handler[a].eff \in Effects
      BY <2>7, HandlerFields DEF SetQueue, IInv, Typed, HandlerInv
    <3>2. Resume(AfterQueue(handler[a].eff), handler[a].eff) \in GoodHandlers
      BY <3>1, HandlerForms, NextStages
    <3> QED BY <2>7, <3>2, HandlerForms DEF SetQueue, IInv, Typed, HandlerInv
  <2>8. CASE DropBrief(a)
    <3>1. handler[a].eff \in Effects
      BY <2>8, HandlerFields DEF DropBrief, IInv, Typed, HandlerInv
    <3>2. Resume(AfterDrop(handler[a].eff), handler[a].eff) \in GoodHandlers
      BY <3>1, HandlerForms, NextStages
    <3> QED BY <2>8, <3>2, HandlerForms DEF DropBrief, IInv, Typed, HandlerInv
  <2> QED BY <1>2, <2>1, <2>2, <2>3, <2>4, <2>5, <2>6, <2>7, <2>8 DEF
   AttemptStep
<1>3. ASSUME NEW a \in Attempt, ResolveStep(a) PROVE HandlerInv'
  <2>1. CASE \/ Resolve(a) \/ SpawnResolve(a) \/ SpawnFails(a)
             \/ ResolverLands(a) \/ ResolverFails(a) \/ ReportLost(a)
             \/ ReportFence(a)
             \/ (\E kind \in ResolveFailures, pushed \in BOOLEAN :
                    ReportApply(a, kind, pushed))
    BY <2>1, <1>0 DEF ReportApply, ReportFence, ReportLost, Resolve,
       ResolverFails, ResolverLands, SpawnFails, SpawnResolve
  <2>2. CASE Escalate(a)
    BY <2>2, HandlerForms DEF Escalate, IInv, Typed, HandlerInv
  <2> QED BY <1>3, <2>1, <2>2 DEF ResolveStep
<1>4. ASSUME NEW t \in Task, BackoffElapses(t) \/ GcBranch(t) PROVE HandlerInv'
  <2>1. CASE BackoffElapses(t) \/ GcBranch(t)
    BY <2>1, <1>0 DEF BackoffElapses, GcBranch
  <2> QED BY <1>4, <2>1
<1>5. CASE OperatorStep
  <2>1. CASE \/ Play \/ Pause \/ SweepEnd
             \/ (\E kind \in {"stop", "skip"} : SweepBegin(kind))
             \/ (\E t \in Task : Retry(t))
             \/ (\E t \in Task : Unquarantine(t))
             \/ (\E t \in Task : Release(t)) \/ (\E t \in Task : Delete(t))
    BY <2>1, <1>0 DEF Delete, Pause, Play, Release, Retry, SweepBegin,
       SweepEnd, Unflag, Unquarantine
  <2> QED BY <1>5, <2>1 DEF OperatorStep
<1>6. CASE RecoveryStep
  <2>1. CASE \/ Restart \/ RecoverDrop \/ RecoveryDone
             \/ (\E a \in Attempt : RecoverLanded(a))
             \/ (\E a \in Attempt : RecoverReenqueue(a))
             \/ (\E a \in Attempt : RecoverReland(a))
             \/ (\E a \in Attempt : RecoverPark(a))
    BY <2>1, <1>0 DEF RecoverDrop, RecoverLanded, RecoverPark,
       RecoverReenqueue, RecoverReland, RecoveryDone, Restart
  <2>2. CASE Crash
    BY <2>2, HandlerForms DEF Crash, IInv, Typed, HandlerInv
  <2> QED BY <1>6, <2>1, <2>2 DEF RecoveryStep
<1> QED BY <1>0, <1>1, <1>2, <1>3, <1>4, <1>5, <1>6 DEF Next

\* Suspended requests and the volatile queue state keep their types.
LEMMA RequestStep ==
    ASSUME IInv, Next
    PROVE  RequestInv'
<1>0. UNCHANGED <<polls, spawning, reports, tracked, sweep, watch, cooldown,
                  spent>> => RequestInv'
  BY DEF IInv, Typed, RequestInv
<1>1. ASSUME NEW w \in Worker, WorkerStep(w) PROVE RequestInv'
  <2>1. CASE \/ SetupWorktree(w) \/ AgentCommits(w) \/ AgentFinishes(w)
             \/ AgentLands(w) \/ WorkerDies(w) \/ Heartbeat(w)
             \/ SubmitLost(w) \/ (\E out \in Submits : SubmitRead(w, out))
    BY <2>1, <1>0 DEF AgentCommits, AgentFinishes, AgentLands, Heartbeat,
       SetupWorktree, SubmitLost, SubmitRead, WorkerDies
  <2>2. CASE PollPick(w)
    <3>1. Dispatchable \subseteq Task
      BY DEF Dispatchable, Candidates
    <3> QED BY <2>2, <3>1 DEF PollPick, Polls, IInv, Typed, RequestInv
  <2>3. ASSUME NEW synced \in BOOLEAN, LeaseClear(w, synced)
       PROVE  RequestInv'
    <3>1. polls[w].task \in Task /\ Len(main') \in Nat
      BY <2>3, DiskStep DEF LeaseClear, IInv, Typed, RequestInv, Polls, DiskInv
    <3> QED BY <2>3, <3>1 DEF LeaseClear, Polls, IInv, Typed, RequestInv
  <2>4. CASE LeaseCreate(w)
    BY <2>4 DEF LeaseCreate, Polls, Idle, IInv, Typed, RequestInv
  <2>5. CASE LeaseLost(w)
    BY <2>5 DEF LeaseLost, Polls, Idle, IInv, Typed, RequestInv
  <2>6. CASE LeaseDocsBlocked(w)
    BY <2>6 DEF LeaseDocsBlocked, Polls, Idle, IInv, Typed, RequestInv
  <2>7. CASE CooldownEnds(w)
    BY <2>7 DEF CooldownEnds, IInv, Typed, RequestInv
  <2> QED BY <1>1, <2>1, <2>2, <2>3, <2>4, <2>5, <2>6, <2>7 DEF WorkerStep
<1>2. ASSUME NEW a \in Attempt, AttemptStep(a) PROVE RequestInv'
  <2>1. CASE \/ SubmitApply(a) \/ SubmitAdopt(a) \/ EnqueueLand(a)
             \/ CompleteLand(a) \/ LandSync(a) \/ LandAdopt(a)
             \/ LandPush(a) \/ LandTeardown(a)
             \/ (\E land \in LandReplies : LandSquash(a, land))
             \/ (\E land \in LandReplies : LandRefuse(a, land))
             \/ SetFlags(a) \/ DropBrief(a) \/ DeadlinePasses(a)
             \/ ExpireDeadline(a)
    BY <2>1, <1>0 DEF CompleteLand, DeadlinePasses, DropBrief, EnqueueLand,
       ExpireDeadline, LandAdopt, LandPush, LandRefuse, LandSquash, LandSync,
       LandTeardown, SetFlags, SubmitAdopt, SubmitApply
  <2>2. CASE SetQueue(a)
    BY <2>2 DEF SetQueue, Known, KnownHandlers, IInv, Typed, RequestInv
  <2>3. CASE SweepAbort(a)
    BY <2>3 DEF SweepAbort, Sweeps, Idle, IInv, Typed, RequestInv
  <2> QED BY <1>2, <2>1, <2>2, <2>3 DEF AttemptStep
<1>3. ASSUME NEW a \in Attempt, ResolveStep(a) PROVE RequestInv'
  <2>1. CASE ResolverLands(a) \/ ResolverFails(a) \/ ReportLost(a)
    BY <2>1, <1>0 DEF ReportLost, ResolverFails, ResolverLands
  <2>2. CASE Escalate(a)
    BY <2>2 DEF Escalate, CheckCap, ActiveResolves, IInv, Typed, RequestInv
  <2>3. CASE Resolve(a)
    BY <2>3 DEF Resolve, CheckCap, ActiveResolves, Spend, IInv, Typed,
       RequestInv
  <2>4. CASE SpawnResolve(a)
    BY <2>4 DEF SpawnResolve, IInv, Typed, RequestInv
  <2>5. CASE SpawnFails(a)
    BY <2>5 DEF SpawnFails, IInv, Typed, RequestInv
  <2>6. CASE ReportFence(a)
    BY <2>6 DEF ReportFence, IInv, Typed, RequestInv
  <2>7. ASSUME NEW kind \in ResolveFailures, NEW pushed \in BOOLEAN,
              ReportApply(a, kind, pushed)
       PROVE  RequestInv'
    BY <2>7 DEF ReportApply, IInv, Typed, RequestInv
  <2> QED BY <1>3, <2>1, <2>2, <2>3, <2>4, <2>5, <2>6, <2>7 DEF ResolveStep
<1>4. ASSUME NEW t \in Task, BackoffElapses(t) \/ GcBranch(t) PROVE RequestInv'
  <2>1. CASE BackoffElapses(t) \/ GcBranch(t)
    BY <2>1, <1>0 DEF BackoffElapses, GcBranch
  <2> QED BY <1>4, <2>1
<1>5. CASE OperatorStep
  <2>1. CASE Play
    <3>1. watch' \in BOOLEAN
      BY <2>1, Zenon DEF Play
    <3>2. spent' \in Nat
      BY <2>1 DEF Play, Spend, IInv, Typed, RequestInv
    <3> QED BY <2>1, <3>1, <3>2 DEF Play, IInv, Typed, RequestInv
  <2>2. CASE Pause
    BY <2>2 DEF Pause, Spend, IInv, Typed, RequestInv
  <2>3. CASE SweepEnd
    BY <2>3 DEF SweepEnd, Sweeps, Idle, IInv, Typed, RequestInv
  <2>4. ASSUME NEW kind \in {"stop", "skip"}, SweepBegin(kind)
       PROVE  RequestInv'
    BY <2>4 DEF SweepBegin, Spend, Sweeps, IInv, Typed, RequestInv
  <2>5. ASSUME NEW t \in Task, Retry(t)
       PROVE  RequestInv'
    <3>1. watch' \in BOOLEAN
      BY <2>5, Zenon DEF Retry, Unflag
    <3>2. spent' \in Nat
      BY <2>5 DEF Retry, Unflag, Spend, IInv, Typed, RequestInv
    <3> QED BY <2>5, <3>1, <3>2 DEF Retry, Unflag, IInv, Typed, RequestInv
  <2>6. ASSUME NEW t \in Task, Unquarantine(t)
       PROVE  RequestInv'
    <3>1. watch' \in BOOLEAN
      BY <2>6, Zenon DEF Unquarantine, Unflag
    <3>2. spent' \in Nat
      BY <2>6 DEF Unquarantine, Unflag, Spend, IInv, Typed, RequestInv
    <3> QED BY <2>6, <3>1, <3>2 DEF Unquarantine, Unflag, IInv, Typed,
            RequestInv
  <2>7. ASSUME NEW t \in Task, Release(t)
       PROVE  RequestInv'
    BY <2>7 DEF Release, Spend, IInv, Typed, RequestInv
  <2>8. ASSUME NEW t \in Task, Delete(t)
       PROVE  RequestInv'
    BY <2>8 DEF Delete, Spend, IInv, Typed, RequestInv
  <2> QED BY <1>5, <2>1, <2>2, <2>3, <2>4, <2>5, <2>6, <2>7, <2>8 DEF
   OperatorStep
<1>6. CASE RecoveryStep
  <2>1. CASE \/ Restart \/ RecoverDrop \/ RecoveryDone
             \/ (\E a \in Attempt : RecoverLanded(a))
             \/ (\E a \in Attempt : RecoverReenqueue(a))
             \/ (\E a \in Attempt : RecoverReland(a))
             \/ (\E a \in Attempt : RecoverPark(a))
    BY <2>1, <1>0 DEF RecoverDrop, RecoverLanded, RecoverPark,
       RecoverReenqueue, RecoverReland, RecoveryDone, Restart
  <2>2. CASE Crash
    <3>1. watch' \in BOOLEAN
      BY <2>2, Zenon DEF Crash
    <3>2. spent' \in Nat
      BY <2>2 DEF Crash, Spend, IInv, Typed, RequestInv
    <3>3. polls' \in [Worker -> Polls] /\ sweep' \in Sweeps
      BY <2>2 DEF Crash, Polls, Sweeps, Idle
    <3> QED BY <2>2, <3>1, <3>2, <3>3 DEF Crash, RequestInv
  <2> QED BY <1>6, <2>1, <2>2 DEF RecoveryStep
<1> QED BY <1>0, <1>1, <1>2, <1>3, <1>4, <1>5, <1>6 DEF Next

\* Workers, resolvers and the manager process keep their types.
LEMMA ProcessStep ==
    ASSUME IInv, Next
    PROVE  ProcessInv'
<1>0. UNCHANGED <<order, resolver, mgr>> => ProcessInv'
  BY DEF IInv, Typed, ProcessInv
<1>1. ASSUME NEW w \in Worker, WorkerStep(w) PROVE ProcessInv'
  <2>1. CASE \/ PollPick(w)
             \/ (\E synced \in BOOLEAN : LeaseClear(w, synced))
             \/ LeaseLost(w) \/ LeaseDocsBlocked(w) \/ AgentCommits(w)
             \/ Heartbeat(w) \/ CooldownEnds(w)
    BY <2>1, <1>0 DEF AgentCommits, CooldownEnds, Heartbeat, LeaseClear,
       LeaseDocsBlocked, LeaseLost, PollPick
  <2>2. CASE LeaseCreate(w)
    BY <2>2 DEF LeaseCreate, Orders, Idle, IInv, Typed, ProcessInv
  <2>3. CASE SetupWorktree(w)
    BY <2>3 DEF SetupWorktree, Orders, Idle, IInv, Typed, ProcessInv
  <2>4. CASE AgentFinishes(w)
    BY <2>4 DEF AgentFinishes, Orders, Idle, IInv, Typed, ProcessInv
  <2>5. CASE AgentLands(w)
    BY <2>5 DEF AgentLands, Orders, Idle, IInv, Typed, ProcessInv
  <2>6. CASE WorkerDies(w)
    BY <2>6 DEF WorkerDies, Orders, Idle, IInv, Typed, ProcessInv
  <2>7. CASE SubmitLost(w)
    BY <2>7 DEF SubmitLost, Orders, Idle, IInv, Typed, ProcessInv
  <2>8. ASSUME NEW out \in Submits, SubmitRead(w, out)
       PROVE  ProcessInv'
    BY <2>8 DEF SubmitRead, Orders, Idle, IInv, Typed, ProcessInv
  <2> QED BY <1>1, <2>1, <2>2, <2>3, <2>4, <2>5, <2>6, <2>7, <2>8 DEF
   WorkerStep
<1>2. ASSUME NEW a \in Attempt, AttemptStep(a) PROVE ProcessInv'
  <2>1. CASE \/ SubmitApply(a) \/ SubmitAdopt(a) \/ EnqueueLand(a)
             \/ CompleteLand(a) \/ LandSync(a) \/ LandAdopt(a)
             \/ LandPush(a) \/ LandTeardown(a)
             \/ (\E land \in LandReplies : LandSquash(a, land))
             \/ (\E land \in LandReplies : LandRefuse(a, land))
             \/ SetFlags(a) \/ SetQueue(a) \/ DropBrief(a)
             \/ DeadlinePasses(a) \/ ExpireDeadline(a) \/ SweepAbort(a)
    BY <2>1, <1>0 DEF CompleteLand, DeadlinePasses, DropBrief, EnqueueLand,
       ExpireDeadline, LandAdopt, LandPush, LandRefuse, LandSquash, LandSync,
       LandTeardown, SetFlags, SetQueue, SubmitAdopt, SubmitApply, SweepAbort
  <2> QED BY <1>2, <2>1 DEF AttemptStep
<1>3. ASSUME NEW a \in Attempt, ResolveStep(a) PROVE ProcessInv'
  <2>1. CASE Escalate(a) \/ Resolve(a) \/ SpawnFails(a)
    BY <2>1, <1>0 DEF Escalate, Resolve, SpawnFails
  <2>2. CASE SpawnResolve(a)
    BY <2>2 DEF SpawnResolve, IInv, Typed, ProcessInv
  <2>3. CASE ResolverLands(a)
    BY <2>3 DEF ResolverLands, IInv, Typed, ProcessInv
  <2>4. CASE ResolverFails(a)
    BY <2>4 DEF ResolverFails, IInv, Typed, ProcessInv
  <2>5. CASE ReportLost(a)
    BY <2>5 DEF ReportLost, IInv, Typed, ProcessInv
  <2>6. CASE ReportFence(a)
    BY <2>6 DEF ReportFence, IInv, Typed, ProcessInv
  <2>7. ASSUME NEW kind \in ResolveFailures, NEW pushed \in BOOLEAN,
              ReportApply(a, kind, pushed)
       PROVE  ProcessInv'
    BY <2>7 DEF ReportApply, IInv, Typed, ProcessInv
  <2> QED BY <1>3, <2>1, <2>2, <2>3, <2>4, <2>5, <2>6, <2>7 DEF ResolveStep
<1>4. ASSUME NEW t \in Task, BackoffElapses(t) \/ GcBranch(t) PROVE ProcessInv'
  <2>1. CASE BackoffElapses(t) \/ GcBranch(t)
    BY <2>1, <1>0 DEF BackoffElapses, GcBranch
  <2> QED BY <1>4, <2>1
<1>5. CASE OperatorStep
  <2>1. CASE \/ Play \/ Pause \/ SweepEnd
             \/ (\E kind \in {"stop", "skip"} : SweepBegin(kind))
             \/ (\E t \in Task : Retry(t))
             \/ (\E t \in Task : Unquarantine(t))
             \/ (\E t \in Task : Release(t)) \/ (\E t \in Task : Delete(t))
    BY <2>1, <1>0 DEF Delete, Pause, Play, Release, Retry, SweepBegin,
       SweepEnd, Unflag, Unquarantine
  <2> QED BY <1>5, <2>1 DEF OperatorStep
<1>6. CASE RecoveryStep
  <2>1. CASE (\E a \in Attempt : RecoverPark(a))
    BY <2>1, <1>0 DEF RecoverPark
  <2>2. CASE Crash
    BY <2>2 DEF Crash, Recovered, Managers, IInv, Typed, ProcessInv
  <2>3. CASE Restart
    BY <2>3 DEF Restart, Recovered, Managers, IInv, Typed, ProcessInv
  <2>4. CASE RecoverDrop
    BY <2>4 DEF RecoverDrop, Recovered, Managers, IInv, Typed, ProcessInv
  <2>5. CASE RecoveryDone
    BY <2>5 DEF RecoveryDone, Recovered, Managers, IInv, Typed, ProcessInv
  <2>6. ASSUME NEW a \in Attempt, RecoverLanded(a)
       PROVE  ProcessInv'
    BY <2>6 DEF RecoverLanded, Recovered, Managers, IInv, Typed, ProcessInv
  <2>7. ASSUME NEW a \in Attempt, RecoverReenqueue(a)
       PROVE  ProcessInv'
    BY <2>7 DEF RecoverReenqueue, Recovered, Managers, IInv, Typed, ProcessInv
  <2>8. ASSUME NEW a \in Attempt, RecoverReland(a)
       PROVE  ProcessInv'
    BY <2>8 DEF RecoverReland, Recovered, Managers, IInv, Typed, ProcessInv
  <2> QED BY <1>6, <2>1, <2>2, <2>3, <2>4, <2>5, <2>6, <2>7, <2>8 DEF
   RecoveryStep
<1> QED BY <1>0, <1>1, <1>2, <1>3, <1>4, <1>5, <1>6 DEF Next

\* The executor's queue and its results keep their types.
LEMMA LandStep ==
    ASSUME IInv, Next
    PROVE  LandInv'
<1>0. UNCHANGED <<jobs, result>> => LandInv'
  BY DEF IInv, Typed, LandInv
<1>1. ASSUME NEW w \in Worker, WorkerStep(w) PROVE LandInv'
  <2>1. CASE \/ PollPick(w)
             \/ (\E synced \in BOOLEAN : LeaseClear(w, synced))
             \/ LeaseCreate(w) \/ LeaseLost(w) \/ LeaseDocsBlocked(w)
             \/ SetupWorktree(w) \/ AgentCommits(w) \/ AgentFinishes(w)
             \/ AgentLands(w) \/ WorkerDies(w) \/ Heartbeat(w)
             \/ SubmitLost(w) \/ CooldownEnds(w)
             \/ (\E out \in Submits : SubmitRead(w, out))
    BY <2>1, <1>0 DEF AgentCommits, AgentFinishes, AgentLands, CooldownEnds,
       Heartbeat, LeaseClear, LeaseCreate, LeaseDocsBlocked, LeaseLost,
       PollPick, SetupWorktree, SubmitLost, SubmitRead, WorkerDies
  <2> QED BY <1>1, <2>1 DEF WorkerStep
<1>2. ASSUME NEW a \in Attempt, AttemptStep(a) PROVE LandInv'
  <2>1. CASE \/ SubmitApply(a) \/ SubmitAdopt(a) \/ SetFlags(a)
             \/ SetQueue(a) \/ DropBrief(a) \/ DeadlinePasses(a)
             \/ ExpireDeadline(a) \/ SweepAbort(a)
    BY <2>1, <1>0 DEF DeadlinePasses, DropBrief, ExpireDeadline, SetFlags,
       SetQueue, SubmitAdopt, SubmitApply, SweepAbort
  <2>2. CASE EnqueueLand(a)
    <3>1. jobs' = jobs \/ jobs' = Append(jobs, a)
      BY <2>2 DEF EnqueueLand
    <3>2. result' = result
      BY <2>2 DEF EnqueueLand
    <3>3. jobs \in Seq(Attempt)
      BY DEF IInv, Typed, LandInv
    <3>4. jobs' \in Seq(Attempt)
      BY <3>1, <3>3
    <3> QED BY <3>2, <3>4 DEF IInv, Typed, LandInv
  <2>3. CASE CompleteLand(a)
    BY <2>3 DEF CompleteLand, IInv, Typed, LandInv
  <2>4. CASE LandAdopt(a)
    BY <2>4 DEF LandAdopt, Starting, LandResults, LandSuccessKinds, IInv,
       Typed, LandInv
  <2>5. CASE LandSync(a) \/ LandPush(a)
    BY <2>5 DEF LandPush, LandSync, IInv, Typed, LandInv
  <2>6. CASE LandTeardown(a)
    BY <2>6 DEF LandTeardown, IInv, Typed, LandInv
  <2>7. ASSUME NEW land \in LandReplies, LandSquash(a, land)
       PROVE  LandInv'
    BY <2>7, ManagerConstants DEF LandSquash, IInv, Typed, LandInv
  <2>8. ASSUME NEW land \in LandReplies, LandRefuse(a, land)
       PROVE  LandInv'
    BY <2>8, ManagerConstants DEF LandRefuse, Producing, IInv, Typed, LandInv
  <2> QED BY <1>2, <2>1, <2>2, <2>3, <2>4, <2>5, <2>6, <2>7, <2>8 DEF
   AttemptStep
<1>3. ASSUME NEW a \in Attempt, ResolveStep(a) PROVE LandInv'
  <2>1. CASE \/ Escalate(a) \/ Resolve(a) \/ SpawnResolve(a)
             \/ SpawnFails(a) \/ ResolverLands(a) \/ ResolverFails(a)
             \/ ReportLost(a) \/ ReportFence(a)
             \/ (\E kind \in ResolveFailures, pushed \in BOOLEAN :
                    ReportApply(a, kind, pushed))
    BY <2>1, <1>0 DEF Escalate, ReportApply, ReportFence, ReportLost, Resolve,
       ResolverFails, ResolverLands, SpawnFails, SpawnResolve
  <2> QED BY <1>3, <2>1 DEF ResolveStep
<1>4. ASSUME NEW t \in Task, BackoffElapses(t) \/ GcBranch(t) PROVE LandInv'
  <2>1. CASE BackoffElapses(t) \/ GcBranch(t)
    BY <2>1, <1>0 DEF BackoffElapses, GcBranch
  <2> QED BY <1>4, <2>1
<1>5. CASE OperatorStep
  <2>1. CASE \/ Play \/ Pause \/ SweepEnd
             \/ (\E kind \in {"stop", "skip"} : SweepBegin(kind))
             \/ (\E t \in Task : Retry(t))
             \/ (\E t \in Task : Unquarantine(t))
             \/ (\E t \in Task : Release(t)) \/ (\E t \in Task : Delete(t))
    BY <2>1, <1>0 DEF Delete, Pause, Play, Release, Retry, SweepBegin,
       SweepEnd, Unflag, Unquarantine
  <2> QED BY <1>5, <2>1 DEF OperatorStep
<1>6. CASE RecoveryStep
  <2>1. CASE \/ Restart \/ RecoverDrop \/ RecoveryDone
             \/ (\E a \in Attempt : RecoverLanded(a))
             \/ (\E a \in Attempt : RecoverPark(a))
    BY <2>1, <1>0 DEF RecoverDrop, RecoverLanded, RecoverPark, RecoveryDone,
       Restart
  <2>2. CASE Crash
    BY <2>2 DEF Crash, IInv, Typed, LandInv
  <2>3. ASSUME NEW a \in Attempt, RecoverReenqueue(a)
       PROVE  LandInv'
    BY <2>3 DEF RecoverReenqueue, IInv, Typed, LandInv
  <2>4. ASSUME NEW a \in Attempt, RecoverReland(a)
       PROVE  LandInv'
    BY <2>4 DEF RecoverReland, IInv, Typed, LandInv
  <2> QED BY <1>6, <2>1, <2>2, <2>3, <2>4 DEF RecoveryStep
<1> QED BY <1>0, <1>1, <1>2, <1>3, <1>4, <1>5, <1>6 DEF Next

\* No step makes up an attempt.
LEMMA KnownStep ==
    ASSUME IInv, Next
    PROVE  Known'
<1>a. \A a \in Attempt : state[a] # "none" =>
        state'[a] # "none" /\ lease'[a] = lease[a]
  BY EdgesStep DEF Edges, TerminalStates
<1>b. \A w \in Worker : order[w].pc # "idle" => order[w].at \in Attempt
  BY DEF IInv, Typed, ProcessInv, Orders
<1>c. UNCHANGED handler => KnownHandlers'
  BY <1>a DEF IInv, Typed, Known, KnownHandlers
<1>d. UNCHANGED spawning => KnownSpawning'
  BY <1>a DEF IInv, Typed, Known, KnownSpawning, RequestInv
<1>e. UNCHANGED resolver => KnownResolvers'
  BY <1>a DEF IInv, Typed, Known, KnownResolvers
<1>f. UNCHANGED order => KnownOrders'
  BY <1>a, <1>b DEF IInv, Typed, Known, KnownOrders
<1>0. UNCHANGED <<order, handler, spawning, resolver>> => Known'
  BY <1>c, <1>d, <1>e, <1>f DEF Known
<1>1. ASSUME NEW w \in Worker, WorkerStep(w) PROVE Known'
  <2>1. CASE \/ PollPick(w)
             \/ (\E synced \in BOOLEAN : LeaseClear(w, synced))
             \/ LeaseLost(w) \/ LeaseDocsBlocked(w) \/ AgentCommits(w)
             \/ Heartbeat(w) \/ CooldownEnds(w)
    BY <2>1, <1>0 DEF AgentCommits, CooldownEnds, Heartbeat, LeaseClear,
       LeaseDocsBlocked, LeaseLost, PollPick
  <2>2. CASE LeaseCreate(w)
    <3>1. PICK a \in Attempt :
            /\ NewAttempt(a, "running", polls[w].task, w, polls[w].base, 0)
            /\ order' = [order EXCEPT ![w] = [pc |-> "leased", at |-> a]]
      BY <2>2 DEF LeaseCreate
    <3>2. state'[a] # "none" /\ lease'[a].worker \in Worker
      BY <3>1 DEF NewAttempt, IInv, Typed, StoreInv
    <3>3. KnownOrders'
      BY <3>1, <3>2, <1>a, <1>b DEF IInv, Typed, Known, KnownOrders, ProcessInv
    <3>4. UNCHANGED <<handler, spawning, resolver>>
      BY <2>2 DEF LeaseCreate
    <3> QED BY <3>3, <3>4, <1>c, <1>d, <1>e DEF Known
  <2>3. CASE SetupWorktree(w)
    <3>1. KnownOrders'
      BY <2>3, <1>a, <1>b DEF SetupWorktree, Idle, IInv, Typed, Known,
         KnownOrders,
                            ProcessInv
    <3>2. UNCHANGED <<handler, spawning, resolver>>
      BY <2>3 DEF SetupWorktree
    <3> QED BY <3>1, <3>2, <1>c, <1>d, <1>e DEF Known
  <2>4. CASE AgentFinishes(w)
    <3>1. KnownOrders'
      BY <2>4, <1>a, <1>b DEF AgentFinishes, Idle, IInv, Typed, Known,
         KnownOrders,
                            ProcessInv
    <3>2. UNCHANGED <<handler, spawning, resolver>>
      BY <2>4 DEF AgentFinishes
    <3> QED BY <3>1, <3>2, <1>c, <1>d, <1>e DEF Known
  <2>5. CASE AgentLands(w)
    <3>1. KnownOrders'
      BY <2>5, <1>a, <1>b DEF AgentLands, Idle, IInv, Typed, Known,
         KnownOrders,
                            ProcessInv
    <3>2. UNCHANGED <<handler, spawning, resolver>>
      BY <2>5 DEF AgentLands
    <3> QED BY <3>1, <3>2, <1>c, <1>d, <1>e DEF Known
  <2>6. CASE WorkerDies(w)
    <3>1. KnownOrders'
      BY <2>6, <1>a, <1>b DEF WorkerDies, Idle, IInv, Typed, Known,
         KnownOrders,
                            ProcessInv
    <3>2. UNCHANGED <<handler, spawning, resolver>>
      BY <2>6 DEF WorkerDies
    <3> QED BY <3>1, <3>2, <1>c, <1>d, <1>e DEF Known
  <2>7. CASE SubmitLost(w)
    <3>1. KnownOrders'
      BY <2>7, <1>a, <1>b DEF SubmitLost, Idle, IInv, Typed, Known,
         KnownOrders,
                            ProcessInv
    <3>2. UNCHANGED <<handler, spawning, resolver>>
      BY <2>7 DEF SubmitLost
    <3> QED BY <3>1, <3>2, <1>c, <1>d, <1>e DEF Known
  <2>8. ASSUME NEW out \in Submits, SubmitRead(w, out)
       PROVE  Known'
    <3>1. \A a \in Attempt : handler'[a] # handler[a] => a = order[w].at
      BY <2>8 DEF SubmitRead, IInv, Typed, HandlerInv
    <3>2. KnownHandlers'
      BY <2>8, <1>a, <3>1 DEF SubmitRead, IInv, Typed, Known, KnownOrders,
                            KnownHandlers
    <3>3. KnownOrders'
      BY <2>8, <1>a, <1>b DEF SubmitRead, Idle, IInv, Typed, Known,
         KnownOrders,
                            ProcessInv
    <3>4. UNCHANGED <<spawning, resolver>>
      BY <2>8 DEF SubmitRead
    <3> QED BY <3>2, <3>3, <3>4, <1>d, <1>e DEF Known
  <2> QED BY <1>1, <2>1, <2>2, <2>3, <2>4, <2>5, <2>6, <2>7, <2>8 DEF
   WorkerStep
<1>2. ASSUME NEW a \in Attempt, AttemptStep(a) PROVE Known'
  <2>1. CASE \/ LandSync(a) \/ LandAdopt(a) \/ LandPush(a)
             \/ LandTeardown(a)
             \/ (\E land \in LandReplies : LandSquash(a, land))
             \/ (\E land \in LandReplies : LandRefuse(a, land))
             \/ DeadlinePasses(a) \/ ExpireDeadline(a) \/ SweepAbort(a)
    BY <2>1, <1>0 DEF DeadlinePasses, ExpireDeadline, LandAdopt, LandPush,
       LandRefuse, LandSquash, LandSync, LandTeardown, SweepAbort
  <2>2. CASE SubmitApply(a)
    <3>1. /\ handler[a].pc # "idle"
          /\ \A b \in Attempt : b # a => handler'[b] = handler[b]
      BY <2>2 DEF SubmitApply, IInv, Typed, HandlerInv
    <3>2. UNCHANGED <<order, spawning, resolver>>
      BY <2>2 DEF SubmitApply
    <3>3. KnownHandlers'
      BY <3>1, <1>a DEF IInv, Typed, Known, KnownHandlers
    <3> QED BY <3>2, <3>3, <1>d, <1>e, <1>f DEF Known
  <2>3. CASE SubmitAdopt(a)
    <3>1. /\ handler[a].pc # "idle"
          /\ \A b \in Attempt : b # a => handler'[b] = handler[b]
      BY <2>3 DEF SubmitAdopt, IInv, Typed, HandlerInv
    <3>2. UNCHANGED <<order, spawning, resolver>>
      BY <2>3 DEF SubmitAdopt
    <3>3. KnownHandlers'
      BY <3>1, <1>a DEF IInv, Typed, Known, KnownHandlers
    <3> QED BY <3>2, <3>3, <1>d, <1>e, <1>f DEF Known
  <2>4. CASE EnqueueLand(a)
    <3>1. /\ handler[a].pc # "idle"
          /\ \A b \in Attempt : b # a => handler'[b] = handler[b]
      BY <2>4 DEF EnqueueLand, IInv, Typed, HandlerInv
    <3>2. UNCHANGED <<order, spawning, resolver>>
      BY <2>4 DEF EnqueueLand
    <3>3. KnownHandlers'
      BY <3>1, <1>a DEF IInv, Typed, Known, KnownHandlers
    <3> QED BY <3>2, <3>3, <1>d, <1>e, <1>f DEF Known
  <2>5. CASE CompleteLand(a)
    <3>1. /\ handler[a].pc # "idle"
          /\ \A b \in Attempt : b # a => handler'[b] = handler[b]
      BY <2>5 DEF CompleteLand, IInv, Typed, HandlerInv
    <3>2. UNCHANGED <<order, spawning, resolver>>
      BY <2>5 DEF CompleteLand
    <3>3. KnownHandlers'
      BY <3>1, <1>a DEF IInv, Typed, Known, KnownHandlers
    <3> QED BY <3>2, <3>3, <1>d, <1>e, <1>f DEF Known
  <2>6. CASE SetFlags(a)
    <3>1. /\ handler[a].pc # "idle"
          /\ \A b \in Attempt : b # a => handler'[b] = handler[b]
      BY <2>6 DEF SetFlags, IInv, Typed, HandlerInv
    <3>2. UNCHANGED <<order, spawning, resolver>>
      BY <2>6 DEF SetFlags
    <3>3. KnownHandlers'
      BY <3>1, <1>a DEF IInv, Typed, Known, KnownHandlers
    <3> QED BY <3>2, <3>3, <1>d, <1>e, <1>f DEF Known
  <2>7. CASE SetQueue(a)
    <3>1. /\ handler[a].pc # "idle"
          /\ \A b \in Attempt : b # a => handler'[b] = handler[b]
      BY <2>7 DEF SetQueue, IInv, Typed, HandlerInv
    <3>2. UNCHANGED <<order, spawning, resolver>>
      BY <2>7 DEF SetQueue
    <3>3. KnownHandlers'
      BY <3>1, <1>a DEF IInv, Typed, Known, KnownHandlers
    <3> QED BY <3>2, <3>3, <1>d, <1>e, <1>f DEF Known
  <2>8. CASE DropBrief(a)
    <3>1. /\ handler[a].pc # "idle"
          /\ \A b \in Attempt : b # a => handler'[b] = handler[b]
      BY <2>8 DEF DropBrief, IInv, Typed, HandlerInv
    <3>2. UNCHANGED <<order, spawning, resolver>>
      BY <2>8 DEF DropBrief
    <3>3. KnownHandlers'
      BY <3>1, <1>a DEF IInv, Typed, Known, KnownHandlers
    <3> QED BY <3>2, <3>3, <1>d, <1>e, <1>f DEF Known
  <2> QED BY <1>2, <2>1, <2>2, <2>3, <2>4, <2>5, <2>6, <2>7, <2>8 DEF
   AttemptStep
<1>3. ASSUME NEW a \in Attempt, ResolveStep(a) PROVE Known'
  <2>1. CASE Escalate(a)
    <3>1. KnownSpawning'
      BY <2>1, <1>a DEF Escalate, CheckCap, IInv, Typed, Known, KnownSpawning,
                      KnownHandlers, RequestInv
    <3>2. KnownHandlers'
      BY <2>1, <1>a DEF Escalate, Idle, IInv, Typed, Known, KnownHandlers,
                      HandlerInv
    <3>3. UNCHANGED <<order, resolver>>
      BY <2>1 DEF Escalate
    <3> QED BY <3>1, <3>2, <3>3, <1>f, <1>e DEF Known
  <2>2. CASE Resolve(a)
    <3>1. KnownSpawning'
      BY <2>2, <1>a DEF Resolve, CheckCap, IInv, Typed, Known, KnownSpawning,
                      RequestInv
    <3>2. UNCHANGED <<order, handler, resolver>>
      BY <2>2 DEF Resolve
    <3> QED BY <3>1, <3>2, <1>c, <1>e, <1>f DEF Known
  <2>3. CASE SpawnResolve(a)
    <3>1. PICK c \in Attempt :
            /\ NewAttempt(c, "resolving", lease[a].task, "resolve", 0, a)
            /\ resolver' = [resolver EXCEPT ![c] = "running"]
      BY <2>3 DEF SpawnResolve
    <3>2. state'[c] # "none" /\ lease'[c].origin \in Attempt
      BY <3>1 DEF NewAttempt, IInv, Typed, StoreInv
    <3>3. KnownResolvers'
      BY <1>a, <3>1, <3>2 DEF IInv, Typed, Known, KnownResolvers, ProcessInv
    <3>4. KnownSpawning'
      BY <2>3, <1>a DEF SpawnResolve, IInv, Typed, Known, KnownSpawning,
                      RequestInv
    <3>5. UNCHANGED <<order, handler>>
      BY <2>3 DEF SpawnResolve
    <3> QED BY <3>3, <3>4, <3>5, <1>c, <1>f DEF Known
  <2>4. CASE SpawnFails(a)
    <3>1. KnownSpawning'
      BY <2>4, <1>a DEF SpawnFails, IInv, Typed, Known, KnownSpawning,
         RequestInv
    <3>2. UNCHANGED <<order, handler, resolver>>
      BY <2>4 DEF SpawnFails
    <3> QED BY <3>1, <3>2, <1>c, <1>e, <1>f DEF Known
  <2>5. CASE ResolverLands(a)
    <3>1. \A c \in Attempt : resolver'[c] # "none" => resolver[c] # "none"
      BY <2>5 DEF ResolverLands, IInv, Typed, ProcessInv
    <3>2. UNCHANGED <<order, handler, spawning>>
      BY <2>5 DEF ResolverLands
    <3>3. KnownResolvers'
      BY <3>1, <1>a DEF IInv, Typed, Known, KnownResolvers
    <3> QED BY <3>2, <3>3, <1>c, <1>d, <1>f DEF Known
  <2>6. CASE ResolverFails(a)
    <3>1. \A c \in Attempt : resolver'[c] # "none" => resolver[c] # "none"
      BY <2>6 DEF ResolverFails, IInv, Typed, ProcessInv
    <3>2. UNCHANGED <<order, handler, spawning>>
      BY <2>6 DEF ResolverFails
    <3>3. KnownResolvers'
      BY <3>1, <1>a DEF IInv, Typed, Known, KnownResolvers
    <3> QED BY <3>2, <3>3, <1>c, <1>d, <1>f DEF Known
  <2>7. CASE ReportLost(a)
    <3>1. \A c \in Attempt : resolver'[c] # "none" => resolver[c] # "none"
      BY <2>7 DEF ReportLost, IInv, Typed, ProcessInv
    <3>2. UNCHANGED <<order, handler, spawning>>
      BY <2>7 DEF ReportLost
    <3>3. KnownResolvers'
      BY <3>1, <1>a DEF IInv, Typed, Known, KnownResolvers
    <3> QED BY <3>2, <3>3, <1>c, <1>d, <1>f DEF Known
  <2>8. CASE ReportFence(a)
    <3>1. \A c \in Attempt : resolver'[c] # "none" => resolver[c] # "none"
      BY <2>8 DEF ReportFence, IInv, Typed, ProcessInv
    <3>2. UNCHANGED <<order, handler, spawning>>
      BY <2>8 DEF ReportFence
    <3>3. KnownResolvers'
      BY <3>1, <1>a DEF IInv, Typed, Known, KnownResolvers
    <3> QED BY <3>2, <3>3, <1>c, <1>d, <1>f DEF Known
  <2>9. ASSUME NEW kind \in ResolveFailures, NEW pushed \in BOOLEAN,
              ReportApply(a, kind, pushed)
       PROVE  Known'
    <3>1. \A c \in Attempt : resolver'[c] # "none" => resolver[c] # "none"
      BY <2>9 DEF ReportApply, IInv, Typed, ProcessInv, ResolveInv
    <3>2. UNCHANGED <<order, handler, spawning>>
      BY <2>9 DEF ReportApply
    <3>3. KnownResolvers'
      BY <3>1, <1>a DEF IInv, Typed, Known, KnownResolvers
    <3> QED BY <3>2, <3>3, <1>c, <1>d, <1>f DEF Known
  <2> QED BY <1>3, <2>1, <2>2, <2>3, <2>4, <2>5, <2>6, <2>7, <2>8, <2>9 DEF
   ResolveStep
<1>4. ASSUME NEW t \in Task, BackoffElapses(t) \/ GcBranch(t) PROVE Known'
  <2>1. CASE BackoffElapses(t) \/ GcBranch(t)
    BY <2>1, <1>0 DEF BackoffElapses, GcBranch
  <2> QED BY <1>4, <2>1
<1>5. CASE OperatorStep
  <2>1. CASE \/ Play \/ Pause \/ SweepEnd
             \/ (\E kind \in {"stop", "skip"} : SweepBegin(kind))
             \/ (\E t \in Task : Retry(t))
             \/ (\E t \in Task : Unquarantine(t))
             \/ (\E t \in Task : Release(t)) \/ (\E t \in Task : Delete(t))
    BY <2>1, <1>0 DEF Delete, Pause, Play, Release, Retry, SweepBegin,
       SweepEnd, Unflag, Unquarantine
  <2> QED BY <1>5, <2>1 DEF OperatorStep
<1>6. CASE RecoveryStep
  <2>1. CASE \/ Restart \/ RecoverDrop \/ RecoveryDone
             \/ (\E a \in Attempt : RecoverLanded(a))
             \/ (\E a \in Attempt : RecoverReenqueue(a))
             \/ (\E a \in Attempt : RecoverReland(a))
             \/ (\E a \in Attempt : RecoverPark(a))
    BY <2>1, <1>0 DEF RecoverDrop, RecoverLanded, RecoverPark,
       RecoverReenqueue, RecoverReland, RecoveryDone, Restart
  <2>2. CASE Crash
    <3>1. KnownHandlers' /\ KnownSpawning'
      BY <2>2 DEF Crash, Idle, KnownHandlers, KnownSpawning
    <3>2. UNCHANGED <<order, resolver>>
      BY <2>2 DEF Crash
    <3> QED BY <3>1, <3>2, <1>f, <1>e DEF Known
  <2> QED BY <1>6, <2>1, <2>2 DEF RecoveryStep
<1> QED BY <1>0, <1>1, <1>2, <1>3, <1>4, <1>5, <1>6 DEF Next

\* Only LeaseCreate makes an attempt live, and only where none is.
LEMMA OneLiveStep ==
    ASSUME IInv, Next
    PROVE  OneLiveAttempt'
<1>a. \A a \in Attempt : state[a] # "none" /\ ~Live(a) => ~Live(a)'
  BY EdgesStep DEF Edges, Live, LiveStates, TerminalStates, ResolvableStates
<1>b. ASSUME lease' = lease,
             \A a \in Attempt : state[a] = "none" => ~Live(a)'
      PROVE  OneLiveAttempt'
  <2>1. \A a \in Attempt : Live(a)' => Live(a)
    BY <1>a, <1>b
  <2> QED BY <1>b, <2>1 DEF IInv, OneLiveAttempt
<1>0. UNCHANGED <<state, lease>> => OneLiveAttempt'
  BY DEF IInv, OneLiveAttempt, Live
<1>1. ASSUME NEW w \in Worker, WorkerStep(w) PROVE OneLiveAttempt'
  <2>1. CASE \/ PollPick(w)
             \/ (\E synced \in BOOLEAN : LeaseClear(w, synced))
             \/ LeaseLost(w) \/ LeaseDocsBlocked(w) \/ SetupWorktree(w)
             \/ AgentCommits(w) \/ AgentFinishes(w) \/ AgentLands(w)
             \/ WorkerDies(w) \/ Heartbeat(w) \/ SubmitLost(w)
             \/ CooldownEnds(w) \/ (\E out \in Submits : SubmitRead(w, out))
    BY <2>1, <1>0 DEF AgentCommits, AgentFinishes, AgentLands, CooldownEnds,
       Heartbeat, LeaseClear, LeaseDocsBlocked, LeaseLost, PollPick,
       SetupWorktree, SubmitLost, SubmitRead, WorkerDies
  <2>2. CASE LeaseCreate(w)
    <3>1. PICK a \in Attempt :
            NewAttempt(a, "running", polls[w].task, w, polls[w].base, 0)
      BY <2>2 DEF LeaseCreate
    <3>2. \A b \in Attempt : Live(b) => lease[b].task # polls[w].task
      BY <2>2 DEF LeaseCreate, Leased
    <3>3. /\ lease'[a].task = polls[w].task
          /\ \A b \in Attempt \ {a} : state'[b] = state[b] /\ lease'[b] = lease[b]
      BY <3>1 DEF NewAttempt, IInv, Typed, StoreInv
    <3> QED BY <3>2, <3>3 DEF OneLiveAttempt, Live, IInv
  <2> QED BY <1>1, <2>1, <2>2 DEF WorkerStep
<1>2. ASSUME NEW a \in Attempt, AttemptStep(a) PROVE OneLiveAttempt'
  <2>1. CASE \/ SubmitAdopt(a) \/ LandSync(a) \/ LandAdopt(a) \/ LandPush(a)
             \/ LandTeardown(a)
             \/ (\E land \in LandReplies : LandSquash(a, land))
             \/ (\E land \in LandReplies : LandRefuse(a, land))
             \/ SetFlags(a) \/ SetQueue(a) \/ DropBrief(a)
             \/ DeadlinePasses(a)
    BY <2>1, <1>0 DEF DeadlinePasses, DropBrief, LandAdopt, LandPush,
       LandRefuse, LandSquash, LandSync, LandTeardown, SetFlags, SetQueue,
       SubmitAdopt
  <2>2. CASE SubmitApply(a)
    <3>1. /\ lease' = lease
          /\ \A b \in Attempt : state[b] = "none" => ~Live(b)'
      BY <2>2 DEF SubmitApply, Commit, Live, LiveStates, IInv, Typed, StoreInv
    <3> QED BY <3>1, <1>a, <1>b
  <2>3. CASE EnqueueLand(a)
    BY <2>3, <1>b DEF EnqueueLand, OnLandEnqueued, Live, LiveStates, IInv,
       Typed, StoreInv
  <2>4. CASE CompleteLand(a)
    <3>1. /\ lease' = lease
          /\ \A b \in Attempt : state[b] = "none" => ~Live(b)'
      BY <2>4 DEF CompleteLand, Commit, Live, LiveStates, IInv, Typed, StoreInv
    <3> QED BY <3>1, <1>a, <1>b
  <2>5. CASE ExpireDeadline(a)
    <3>1. /\ lease' = lease
          /\ \A b \in Attempt : state[b] = "none" => ~Live(b)'
      BY <2>5 DEF ExpireDeadline, Commit, Live, LiveStates, IInv, Typed,
         StoreInv
    <3> QED BY <3>1, <1>a, <1>b
  <2>6. CASE SweepAbort(a)
    <3>1. /\ lease' = lease
          /\ \A b \in Attempt : state[b] = "none" => ~Live(b)'
      BY <2>6 DEF SweepAbort, Commit, Live, LiveStates, IInv, Typed, StoreInv
    <3> QED BY <3>1, <1>a, <1>b
  <2> QED BY <1>2, <2>1, <2>2, <2>3, <2>4, <2>5, <2>6 DEF AttemptStep
<1>3. ASSUME NEW a \in Attempt, ResolveStep(a) PROVE OneLiveAttempt'
  <2>1. CASE \/ Escalate(a) \/ Resolve(a) \/ ResolverLands(a)
             \/ ResolverFails(a) \/ ReportLost(a) \/ ReportFence(a)
    BY <2>1, <1>0 DEF Escalate, ReportFence, ReportLost, Resolve,
       ResolverFails, ResolverLands
  <2>2. CASE SpawnResolve(a)
    <3>1. PICK c \in Attempt :
            NewAttempt(c, "resolving", lease[a].task, "resolve", 0, a)
      BY <2>2 DEF SpawnResolve
    <3>2. /\ ~Live(c)'
          /\ \A b \in Attempt \ {c} : state'[b] = state[b] /\ lease'[b] = lease[b]
      BY <3>1 DEF NewAttempt, Live, LiveStates, ErrorStateFor, IInv, Typed,
                  StoreInv
    <3> QED BY <3>2 DEF OneLiveAttempt, Live, IInv
  <2>3. CASE SpawnFails(a)
    <3>1. PICK c \in Attempt :
            NewAttempt(c, ErrorStateFor("worker_launch"), lease[a].task, "resolve", 0, a)
      BY <2>3 DEF SpawnFails
    <3>2. /\ ~Live(c)'
          /\ \A b \in Attempt \ {c} : state'[b] = state[b] /\ lease'[b] = lease[b]
      BY <3>1 DEF NewAttempt, Live, LiveStates, ErrorStateFor, IInv, Typed,
                  StoreInv
    <3> QED BY <3>2 DEF OneLiveAttempt, Live, IInv
  <2>4. ASSUME NEW kind \in ResolveFailures, NEW pushed \in BOOLEAN,
              ReportApply(a, kind, pushed)
       PROVE  OneLiveAttempt'
    <3>1. /\ lease' = lease
          /\ \A b \in Attempt : state[b] = "none" => ~Live(b)'
      BY <2>4 DEF ReportApply, Commit, Live, LiveStates, IInv, Typed, StoreInv,
         ResolveInv, ResolvableStates
    <3> QED BY <3>1, <1>a, <1>b
  <2> QED BY <1>3, <2>1, <2>2, <2>3, <2>4 DEF ResolveStep
<1>4. ASSUME NEW t \in Task, BackoffElapses(t) \/ GcBranch(t) PROVE OneLiveAttempt'
  <2>1. CASE BackoffElapses(t) \/ GcBranch(t)
    BY <2>1, <1>0 DEF BackoffElapses, GcBranch
  <2> QED BY <1>4, <2>1
<1>5. CASE OperatorStep
  <2>1. CASE \/ Play \/ Pause \/ SweepEnd
             \/ (\E kind \in {"stop", "skip"} : SweepBegin(kind))
             \/ (\E t \in Task : Retry(t))
             \/ (\E t \in Task : Unquarantine(t))
             \/ (\E t \in Task : Release(t)) \/ (\E t \in Task : Delete(t))
    BY <2>1, <1>0 DEF Delete, Pause, Play, Release, Retry, SweepBegin,
       SweepEnd, Unflag, Unquarantine
  <2> QED BY <1>5, <2>1 DEF OperatorStep
<1>6. CASE RecoveryStep
  <2>1. CASE \/ Crash \/ Restart \/ RecoverDrop \/ RecoveryDone
             \/ (\E a \in Attempt : RecoverReenqueue(a))
    BY <2>1, <1>0 DEF Crash, RecoverDrop, RecoverReenqueue, RecoveryDone,
       Restart
  <2>2. ASSUME NEW a \in Attempt, RecoverLanded(a)
       PROVE  OneLiveAttempt'
    <3>1. /\ lease' = lease
          /\ \A b \in Attempt : state[b] = "none" => ~Live(b)'
      BY <2>2 DEF RecoverLanded, Commit, Live, LiveStates, IInv, Typed,
         StoreInv
    <3> QED BY <3>1, <1>a, <1>b
  <2>3. ASSUME NEW a \in Attempt, RecoverReland(a)
       PROVE  OneLiveAttempt'
    <3>1. /\ lease' = lease
          /\ \A b \in Attempt : state[b] = "none" => ~Live(b)'
      BY <2>3 DEF RecoverReland, Commit, Live, LiveStates, IInv, Typed,
         StoreInv, JobsInv
    <3> QED BY <3>1, <1>a, <1>b
  <2>4. ASSUME NEW a \in Attempt, RecoverPark(a)
       PROVE  OneLiveAttempt'
    <3>1. /\ lease' = lease
          /\ \A b \in Attempt : state[b] = "none" => ~Live(b)'
      BY <2>4 DEF RecoverPark, Commit, Live, LiveStates, IInv, Typed, StoreInv
    <3> QED BY <3>1, <1>a, <1>b
  <2> QED BY <1>6, <2>1, <2>2, <2>3, <2>4 DEF RecoveryStep
<1> QED BY <1>0, <1>1, <1>2, <1>3, <1>4, <1>5, <1>6 DEF Next

\* Nothing but its own result, or an abort, moves an attempt with a queued land.
LEMMA JobsStep ==
    ASSUME IInv, Next
    PROVE  JobsInv'
<1>b. \A i \in DOMAIN jobs : jobs[i] \in Attempt
  BY DEF IInv, Typed, LandInv
<1>0. UNCHANGED <<state, jobs, mgr>> => JobsInv'
  BY DEF IInv, JobsInv
<1>1. ASSUME NEW w \in Worker, WorkerStep(w) PROVE JobsInv'
  <2>1. CASE \/ PollPick(w)
             \/ (\E synced \in BOOLEAN : LeaseClear(w, synced))
             \/ LeaseLost(w) \/ LeaseDocsBlocked(w) \/ SetupWorktree(w)
             \/ AgentCommits(w) \/ AgentFinishes(w) \/ AgentLands(w)
             \/ WorkerDies(w) \/ Heartbeat(w) \/ SubmitLost(w)
             \/ CooldownEnds(w) \/ (\E out \in Submits : SubmitRead(w, out))
    BY <2>1, <1>0 DEF AgentCommits, AgentFinishes, AgentLands, CooldownEnds,
       Heartbeat, LeaseClear, LeaseDocsBlocked, LeaseLost, PollPick,
       SetupWorktree, SubmitLost, SubmitRead, WorkerDies
  <2>2. CASE LeaseCreate(w)
    <3>1. \A b \in Attempt : state[b] # "none" => state'[b] = state[b]
      BY <2>2 DEF LeaseCreate, NewAttempt, Fresh, IInv, Typed, StoreInv
    <3> QED BY <2>2, <3>1, <1>b DEF LeaseCreate, Up, JobsInv, IInv
  <2> QED BY <1>1, <2>1, <2>2 DEF WorkerStep
<1>2. ASSUME NEW a \in Attempt, AttemptStep(a) PROVE JobsInv'
  <2>1. CASE \/ SubmitAdopt(a) \/ LandSync(a) \/ LandPush(a)
             \/ (\E land \in LandReplies : LandSquash(a, land))
             \/ SetFlags(a) \/ SetQueue(a) \/ DropBrief(a)
             \/ DeadlinePasses(a)
    BY <2>1, <1>0 DEF DeadlinePasses, DropBrief, LandPush, LandSquash,
       LandSync, SetFlags, SetQueue, SubmitAdopt
  <2>2. CASE SubmitApply(a)
    <3>1. \A b \in Attempt : state[b] # "running" => state'[b] = state[b]
      BY <2>2 DEF SubmitApply, Commit, IInv, Typed, StoreInv
    <3> QED BY <2>2, <3>1, <1>b DEF SubmitApply, Up, JobsInv, IInv
  <2>3. CASE EnqueueLand(a)
    <3>1. CASE state[a] = "running"
      <4>1. /\ state'[a] = "landing"
            /\ \A b \in Attempt : state[b] # "running" => state'[b] = state[b]
        BY <2>3, <3>1 DEF EnqueueLand, OnLandEnqueued, IInv, Typed, StoreInv
      <4>2. jobs' = Append(jobs, a)
        BY <2>3, <3>1 DEF EnqueueLand
      <4>3. \A i \in DOMAIN jobs' : jobs'[i] = a \/ \E j \in DOMAIN jobs : jobs'[i] = jobs[j]
        BY <4>2 DEF IInv, Typed, LandInv
      <4> QED BY <2>3, <4>1, <4>3, <1>b DEF EnqueueLand, Up, JobsInv, IInv
    <3>2. CASE state[a] # "running"
      BY <2>3, <3>2, <1>0 DEF EnqueueLand
    <3> QED BY <3>1, <3>2
  <2>4. CASE CompleteLand(a)
    <3>1. \A b \in Attempt : b # a => state'[b] = state[b]
      BY <2>4 DEF CompleteLand, Commit, IInv, Typed, StoreInv
    <3>2. \A i \in DOMAIN jobs : jobs[i] # a
      BY <2>4 DEF CompleteLand, Returned
    <3> QED BY <2>4, <3>1, <3>2, <1>b DEF CompleteLand, Up, JobsInv, IInv
  <2>5. CASE LandAdopt(a)
    <3>1. jobs # <<>> /\ jobs' = Tail(jobs)
      BY <2>5 DEF LandAdopt, Starting
    <3>2. \A i \in DOMAIN jobs' : \E j \in DOMAIN jobs : jobs'[i] = jobs[j]
      BY <3>1 DEF IInv, Typed, LandInv
    <3> QED BY <2>5, <3>1, <3>2 DEF LandAdopt, JobsInv, IInv
  <2>6. CASE LandTeardown(a)
    <3>1. jobs # <<>> /\ jobs' = Tail(jobs)
      BY <2>6 DEF LandTeardown, Starting
    <3>2. \A i \in DOMAIN jobs' : \E j \in DOMAIN jobs : jobs'[i] = jobs[j]
      BY <3>1 DEF IInv, Typed, LandInv
    <3> QED BY <2>6, <3>1, <3>2 DEF LandTeardown, JobsInv, IInv
  <2>7. ASSUME NEW land \in LandReplies, LandRefuse(a, land)
       PROVE  JobsInv'
    <3>1. jobs # <<>> /\ jobs' = Tail(jobs)
      BY <2>7 DEF LandRefuse, Producing
    <3>2. \A i \in DOMAIN jobs' : \E j \in DOMAIN jobs : jobs'[i] = jobs[j]
      BY <3>1 DEF IInv, Typed, LandInv
    <3> QED BY <2>7, <3>1, <3>2 DEF LandRefuse, JobsInv, IInv
  <2>8. CASE ExpireDeadline(a)
    <3>1. \A b \in Attempt : state[b] # "running" => state'[b] = state[b]
      BY <2>8 DEF ExpireDeadline, Commit, IInv, Typed, StoreInv
    <3> QED BY <2>8, <3>1, <1>b DEF ExpireDeadline, Up, JobsInv, IInv
  <2>9. CASE SweepAbort(a)
    <3>1. \A b \in Attempt : state'[b] \in {state[b], "aborted"}
      BY <2>9 DEF SweepAbort, Commit, OnOperatorStop, IInv, Typed, StoreInv
    <3> QED BY <2>9, <3>1, <1>b DEF SweepAbort, Up, JobsInv, IInv
  <2> QED BY <1>2, <2>1, <2>2, <2>3, <2>4, <2>5, <2>6, <2>7, <2>8, <2>9 DEF
   AttemptStep
<1>3. ASSUME NEW a \in Attempt, ResolveStep(a) PROVE JobsInv'
  <2>1. CASE \/ Escalate(a) \/ Resolve(a) \/ ResolverLands(a)
             \/ ResolverFails(a) \/ ReportLost(a) \/ ReportFence(a)
    BY <2>1, <1>0 DEF Escalate, ReportFence, ReportLost, Resolve,
       ResolverFails, ResolverLands
  <2>2. CASE SpawnResolve(a)
    <3>1. \A b \in Attempt : state[b] # "none" => state'[b] = state[b]
      BY <2>2 DEF SpawnResolve, NewAttempt, Fresh, IInv, Typed, StoreInv
    <3> QED BY <2>2, <3>1, <1>b DEF SpawnResolve, Up, JobsInv, IInv
  <2>3. CASE SpawnFails(a)
    <3>1. \A b \in Attempt : state[b] # "none" => state'[b] = state[b]
      BY <2>3 DEF SpawnFails, NewAttempt, Fresh, IInv, Typed, StoreInv
    <3> QED BY <2>3, <3>1, <1>b DEF SpawnFails, Up, JobsInv, IInv
  <2>4. ASSUME NEW kind \in ResolveFailures, NEW pushed \in BOOLEAN,
              ReportApply(a, kind, pushed)
       PROVE  JobsInv'
    <3>1. /\ state[a] = "resolving"
          /\ state[lease[a].origin] \in ResolvableStates \cup {"landed"}
      BY <2>4 DEF ReportApply, IInv, ResolveInv
    <3>2. \A b \in Attempt : state[b] \in {"landing", "aborted"} => state'[b] = state[b]
      BY <2>4, <3>1 DEF ReportApply, ResolvableStates, IInv, Typed, StoreInv
    <3> QED BY <2>4, <3>2, <1>b DEF ReportApply, Up, JobsInv, IInv
  <2> QED BY <1>3, <2>1, <2>2, <2>3, <2>4 DEF ResolveStep
<1>4. ASSUME NEW t \in Task, BackoffElapses(t) \/ GcBranch(t) PROVE JobsInv'
  <2>1. CASE BackoffElapses(t) \/ GcBranch(t)
    BY <2>1, <1>0 DEF BackoffElapses, GcBranch
  <2> QED BY <1>4, <2>1
<1>5. CASE OperatorStep
  <2>1. CASE \/ Play \/ Pause \/ SweepEnd
             \/ (\E kind \in {"stop", "skip"} : SweepBegin(kind))
             \/ (\E t \in Task : Retry(t))
             \/ (\E t \in Task : Unquarantine(t))
             \/ (\E t \in Task : Release(t)) \/ (\E t \in Task : Delete(t))
    BY <2>1, <1>0 DEF Delete, Pause, Play, Release, Retry, SweepBegin,
       SweepEnd, Unflag, Unquarantine
  <2> QED BY <1>5, <2>1 DEF OperatorStep
<1>6. CASE RecoveryStep
  <2>1. CASE Crash
    BY <2>1 DEF Crash, JobsInv
  <2>2. CASE Restart
    BY <2>2 DEF Restart, JobsInv, IInv
  <2>3. CASE RecoverDrop
    BY <2>3 DEF RecoverDrop, JobsInv, IInv
  <2>4. CASE RecoveryDone
    BY <2>4 DEF RecoveryDone, JobsInv, IInv
  <2>5. ASSUME NEW a \in Attempt, RecoverLanded(a)
       PROVE  JobsInv'
    BY <2>5 DEF RecoverLanded, Recovered, JobsInv, IInv
  <2>6. ASSUME NEW a \in Attempt, RecoverReenqueue(a)
       PROVE  JobsInv'
    BY <2>6 DEF RecoverReenqueue, JobsInv, IInv
  <2>7. ASSUME NEW a \in Attempt, RecoverReland(a)
       PROVE  JobsInv'
    <3>1. \A i \in DOMAIN jobs : jobs[i] = a /\ jobs[i] # a
      BY <2>7 DEF RecoverReland, Returned, JobsInv, IInv
    <3>2. jobs # <<>> => 1 \in DOMAIN jobs
      BY DEF IInv, Typed, LandInv
    <3>3. jobs = <<>>
      BY <3>1, <3>2
    <3> QED BY <2>7, <3>3 DEF RecoverReland, Recovered, JobsInv
  <2>8. ASSUME NEW a \in Attempt, RecoverPark(a)
       PROVE  JobsInv'
    BY <2>8 DEF RecoverPark, Recovered, JobsInv, IInv
  <2> QED BY <1>6, <2>1, <2>2, <2>3, <2>4, <2>5, <2>6, <2>7, <2>8 DEF
   RecoveryStep
<1> QED BY <1>0, <1>1, <1>2, <1>3, <1>4, <1>5, <1>6 DEF Next

\* Only the job at the head of the queue writes a trailer.
LEMMA TrailerStep ==
    ASSUME IInv, Next
    PROVE  TrailerInv'
<1>a. ASSUME \A a \in Attempt : Squashed(a)' =>
                Squashed(a) \/ state[a] \in {"landing", "aborted"}
      PROVE  TrailerInv'
  <2>1. \A a \in Attempt :
          state[a] \notin {"none", "running", "resolving", "expired"} =>
            state'[a] \notin {"none", "running", "resolving", "expired"}
    BY EdgesStep DEF Edges, TerminalStates, ResolvableStates, IInv, Typed,
                     StoreInv, AttemptStates, LiveStates
  <2> QED BY <1>a, <2>1 DEF TrailerInv, IInv
<1>0. UNCHANGED <<main, ahead>> => TrailerInv'
  BY <1>a DEF Squashed
<1>1. ASSUME NEW w \in Worker, WorkerStep(w) PROVE TrailerInv'
  <2>1. CASE \/ PollPick(w) \/ LeaseCreate(w) \/ LeaseLost(w)
             \/ LeaseDocsBlocked(w) \/ SetupWorktree(w) \/ AgentCommits(w)
             \/ AgentFinishes(w) \/ WorkerDies(w) \/ Heartbeat(w)
             \/ SubmitLost(w) \/ CooldownEnds(w)
             \/ (\E out \in Submits : SubmitRead(w, out))
    BY <2>1, <1>0 DEF AgentCommits, AgentFinishes, CooldownEnds, Heartbeat,
       LeaseCreate, LeaseDocsBlocked, LeaseLost, PollPick, SetupWorktree,
       SubmitLost, SubmitRead, WorkerDies
  <2>2. ASSUME NEW synced \in BOOLEAN, LeaseClear(w, synced)
       PROVE  TrailerInv'
    <3>1. \A a \in Attempt : Squashed(a)' => Squashed(a)
      BY <2>2, CarriesConcat DEF LeaseClear, Squashed, Carries, IInv, Typed,
         DiskInv
    <3> QED BY <3>1, <1>a
  <2>3. CASE AgentLands(w)
    <3>1. \A a \in Attempt : Squashed(a)' => Squashed(a)
      BY <2>3, CarriesAppend DEF AgentLands, Squashed, Attempt, IInv, Typed,
         DiskInv
    <3> QED BY <3>1, <1>a
  <2> QED BY <1>1, <2>1, <2>2, <2>3 DEF WorkerStep
<1>2. ASSUME NEW a \in Attempt, AttemptStep(a) PROVE TrailerInv'
  <2>1. CASE \/ SubmitApply(a) \/ SubmitAdopt(a) \/ EnqueueLand(a)
             \/ CompleteLand(a) \/ LandAdopt(a) \/ LandTeardown(a)
             \/ (\E land \in LandReplies : LandRefuse(a, land))
             \/ SetFlags(a) \/ SetQueue(a) \/ DropBrief(a)
             \/ DeadlinePasses(a) \/ ExpireDeadline(a) \/ SweepAbort(a)
    BY <2>1, <1>0 DEF CompleteLand, DeadlinePasses, DropBrief, EnqueueLand,
       ExpireDeadline, LandAdopt, LandRefuse, LandTeardown, SetFlags,
       SetQueue, SubmitAdopt, SubmitApply, SweepAbort
  <2>2. CASE LandSync(a)
    <3>1. \A b \in Attempt : Squashed(b)' => Squashed(b)
      BY <2>2, CarriesConcat DEF LandSync, Squashed, Carries, IInv, Typed,
         DiskInv
    <3> QED BY <3>1, <1>a
  <2>3. CASE LandPush(a)
    <3>1. \A b \in Attempt : Squashed(b)' => Squashed(b) \/ b = a
      BY <2>3 DEF LandPush, Squash, Squashed, Carries
    <3>2. state[a] \in {"landing", "aborted"}
      BY <2>3, HeadJob DEF LandPush, Producing
    <3> QED BY <3>1, <3>2, <1>a
  <2>4. ASSUME NEW land \in LandReplies, LandSquash(a, land)
       PROVE  TrailerInv'
    <3>1. \A b \in Attempt : Squashed(b)' => Squashed(b) \/ b = a
      <4>1. CASE PushMode
        <5>1. main' = main \o ahead /\ ahead' = <<>>
          BY <2>4, <4>1 DEF LandSquash
        <5> QED BY <5>1, CarriesConcat
                DEF Squashed, Carries, IInv, Typed, DiskInv
      <4>2. CASE ~PushMode
        <5>1. main' = Append(main, Squash(a)) /\ ahead' = ahead
          BY <2>4, <4>2 DEF LandSquash
        <5> QED BY <5>1, CarriesAppend
                DEF Squash, Squashed, IInv, Typed, DiskInv
      <4> QED BY <4>1, <4>2
    <3>2. state[a] \in {"landing", "aborted"}
      BY <2>4, HeadJob DEF LandSquash
    <3> QED BY <3>1, <3>2, <1>a
  <2> QED BY <1>2, <2>1, <2>2, <2>3, <2>4 DEF AttemptStep
<1>3. ASSUME NEW a \in Attempt, ResolveStep(a) PROVE TrailerInv'
  <2>1. CASE \/ Escalate(a) \/ Resolve(a) \/ SpawnResolve(a)
             \/ SpawnFails(a) \/ ResolverFails(a) \/ ReportLost(a)
             \/ ReportFence(a)
    BY <2>1, <1>0 DEF Escalate, ReportFence, ReportLost, Resolve,
       ResolverFails, SpawnFails, SpawnResolve
  <2>2. CASE ResolverLands(a)
    <3>1. \A b \in Attempt : Squashed(b)' => Squashed(b)
      BY <2>2, CarriesAppend DEF ResolverLands, Squashed, Attempt, IInv, Typed,
         DiskInv
    <3> QED BY <3>1, <1>a
  <2>3. ASSUME NEW kind \in ResolveFailures, NEW pushed \in BOOLEAN,
              ReportApply(a, kind, pushed)
       PROVE  TrailerInv'
    <3>1. \A b \in Attempt : Squashed(b)' => Squashed(b)
      <4>1. CASE UNCHANGED <<main, ahead>>
        BY <4>1 DEF Squashed
      <4>2. CASE main' = main \o ahead /\ ahead' = <<>>
        BY <4>2, CarriesConcat DEF Squashed, Carries, IInv, Typed, DiskInv
      <4> QED BY <2>3, <4>1, <4>2, PushResolvedLogs DEF ReportApply
    <3> QED BY <3>1, <1>a
  <2> QED BY <1>3, <2>1, <2>2, <2>3 DEF ResolveStep
<1>4. ASSUME NEW t \in Task, BackoffElapses(t) \/ GcBranch(t) PROVE TrailerInv'
  <2>1. CASE BackoffElapses(t) \/ GcBranch(t)
    BY <2>1, <1>0 DEF BackoffElapses, GcBranch
  <2> QED BY <1>4, <2>1
<1>5. CASE OperatorStep
  <2>1. CASE \/ Play \/ Pause \/ SweepEnd
             \/ (\E kind \in {"stop", "skip"} : SweepBegin(kind))
             \/ (\E t \in Task : Retry(t))
             \/ (\E t \in Task : Unquarantine(t))
             \/ (\E t \in Task : Release(t)) \/ (\E t \in Task : Delete(t))
    BY <2>1, <1>0 DEF Delete, Pause, Play, Release, Retry, SweepBegin,
       SweepEnd, Unflag, Unquarantine
  <2> QED BY <1>5, <2>1 DEF OperatorStep
<1>6. CASE RecoveryStep
  <2>1. CASE \/ Crash \/ Restart \/ RecoverDrop \/ RecoveryDone
             \/ (\E a \in Attempt : RecoverLanded(a))
             \/ (\E a \in Attempt : RecoverReenqueue(a))
             \/ (\E a \in Attempt : RecoverReland(a))
             \/ (\E a \in Attempt : RecoverPark(a))
    BY <2>1, <1>0 DEF Crash, RecoverDrop, RecoverLanded, RecoverPark,
       RecoverReenqueue, RecoverReland, RecoveryDone, Restart
  <2> QED BY <1>6, <2>1 DEF RecoveryStep
<1> QED BY <1>0, <1>1, <1>2, <1>3, <1>4, <1>5, <1>6 DEF Next

\* The fence holds until the report is recorded.
LEMMA ResolveInvStep ==
    ASSUME IInv, Next
    PROVE  ResolveInv'
<1>c. \A c \in reports : c \in Attempt /\ state[c] # "none"
                           /\ lease[c].origin \in Attempt
  BY DEF IInv, ResolveInv, Typed, Known, KnownResolvers, RequestInv
<1>a. ASSUME UNCHANGED <<lease, resolver, reports>>,
             \A b \in Attempt : ~Live(b) => state'[b] = state[b]
      PROVE  ResolveInv'
  BY <1>a, <1>c DEF ResolveInv, IInv, Live, LiveStates, ResolvableStates
<1>b. ASSUME UNCHANGED <<resolver, reports>>,
             \A b \in Attempt : state[b] # "none" => state'[b] = state[b] /\ lease'[b] = lease[b]
      PROVE  ResolveInv'
  BY <1>b, <1>c DEF ResolveInv, IInv, Typed, Known, KnownResolvers,
     ResolvableStates
<1>0. UNCHANGED <<state, lease, resolver, reports>> => ResolveInv'
  BY DEF IInv, ResolveInv
<1>1. ASSUME NEW w \in Worker, WorkerStep(w) PROVE ResolveInv'
  <2>1. CASE \/ PollPick(w)
             \/ (\E synced \in BOOLEAN : LeaseClear(w, synced))
             \/ LeaseLost(w) \/ LeaseDocsBlocked(w) \/ SetupWorktree(w)
             \/ AgentCommits(w) \/ AgentFinishes(w) \/ AgentLands(w)
             \/ WorkerDies(w) \/ Heartbeat(w) \/ SubmitLost(w)
             \/ CooldownEnds(w) \/ (\E out \in Submits : SubmitRead(w, out))
    BY <2>1, <1>0 DEF AgentCommits, AgentFinishes, AgentLands, CooldownEnds,
       Heartbeat, LeaseClear, LeaseDocsBlocked, LeaseLost, PollPick,
       SetupWorktree, SubmitLost, SubmitRead, WorkerDies
  <2>2. CASE LeaseCreate(w)
    <3>1. \A b \in Attempt : state[b] # "none" => state'[b] = state[b] /\ lease'[b] = lease[b]
      BY <2>2 DEF LeaseCreate, NewAttempt, Fresh, IInv, Typed, StoreInv
    <3> QED BY <2>2, <3>1, <1>b DEF LeaseCreate
  <2> QED BY <1>1, <2>1, <2>2 DEF WorkerStep
<1>2. ASSUME NEW a \in Attempt, AttemptStep(a) PROVE ResolveInv'
  <2>1. CASE \/ SubmitAdopt(a) \/ LandSync(a) \/ LandAdopt(a) \/ LandPush(a)
             \/ LandTeardown(a)
             \/ (\E land \in LandReplies : LandSquash(a, land))
             \/ (\E land \in LandReplies : LandRefuse(a, land))
             \/ SetFlags(a) \/ SetQueue(a) \/ DropBrief(a)
             \/ DeadlinePasses(a)
    BY <2>1, <1>0 DEF DeadlinePasses, DropBrief, LandAdopt, LandPush,
       LandRefuse, LandSquash, LandSync, LandTeardown, SetFlags, SetQueue,
       SubmitAdopt
  <2>2. CASE SubmitApply(a)
    <3>1. \A b \in Attempt : ~Live(b) => state'[b] = state[b]
      BY <2>2 DEF SubmitApply, Commit, Live, LiveStates, JobsInv, IInv, Typed,
         StoreInv
    <3> QED BY <2>2, <3>1, <1>a DEF SubmitApply
  <2>3. CASE EnqueueLand(a)
    <3>1. \A b \in Attempt : ~Live(b) => state'[b] = state[b]
      BY <2>3 DEF EnqueueLand, Commit, Live, LiveStates, JobsInv, IInv, Typed,
         StoreInv
    <3> QED BY <2>3, <3>1, <1>a DEF EnqueueLand
  <2>4. CASE CompleteLand(a)
    <3>1. \A b \in Attempt : ~Live(b) => state'[b] = state[b]
      BY <2>4 DEF CompleteLand, Commit, Live, LiveStates, JobsInv, IInv, Typed,
         StoreInv
    <3> QED BY <2>4, <3>1, <1>a DEF CompleteLand
  <2>5. CASE ExpireDeadline(a)
    <3>1. \A b \in Attempt : ~Live(b) => state'[b] = state[b]
      BY <2>5 DEF ExpireDeadline, Commit, Live, LiveStates, JobsInv, IInv,
         Typed, StoreInv
    <3> QED BY <2>5, <3>1, <1>a DEF ExpireDeadline
  <2>6. CASE SweepAbort(a)
    <3>1. \A b \in Attempt : ~Live(b) => state'[b] = state[b]
      BY <2>6 DEF SweepAbort, Commit, Live, LiveStates, JobsInv, IInv, Typed,
         StoreInv
    <3> QED BY <2>6, <3>1, <1>a DEF SweepAbort
  <2> QED BY <1>2, <2>1, <2>2, <2>3, <2>4, <2>5, <2>6 DEF AttemptStep
<1>3. ASSUME NEW a \in Attempt, ResolveStep(a) PROVE ResolveInv'
  <2>1. CASE Escalate(a) \/ Resolve(a)
    BY <2>1, <1>0 DEF Escalate, Resolve
  <2>2. CASE SpawnResolve(a)
    <3>1. PICK c \in Attempt :
            /\ NewAttempt(c, "resolving", lease[a].task, "resolve", 0, a)
            /\ resolver' = [resolver EXCEPT ![c] = "running"]
      BY <2>2 DEF SpawnResolve
    <3>2. /\ state[c] = "none" /\ state'[c] = "resolving"
          /\ \A b \in Attempt \ {c} : /\ state'[b] = state[b] /\ lease'[b] = lease[b]
                                     /\ resolver'[b] = resolver[b]
      BY <3>1 DEF NewAttempt, Fresh, IInv, Typed, StoreInv, ProcessInv
    <3>3. c \notin reports
      BY <3>2, <1>c
    <3>4. reports' = reports
      BY <2>2 DEF SpawnResolve
    <3>5. \A b \in reports : /\ b # c /\ lease'[b] = lease[b]
                            /\ lease[b].origin # c
                            /\ state'[lease[b].origin] = state[lease[b].origin]
      BY <3>2, <3>3, <1>c DEF ResolveInv, IInv, ResolvableStates
    <3>6. \A b \in Attempt : resolver'[b] \in {"running", "landed", "failed"} =>
            state'[b] = "resolving"
      BY <3>2 DEF ResolveInv, IInv
    <3> QED BY <3>2, <3>4, <3>5, <3>6, <1>c DEF ResolveInv, IInv
  <2>3. CASE SpawnFails(a)
    <3>1. \A b \in Attempt : state[b] # "none" => state'[b] = state[b] /\ lease'[b] = lease[b]
      BY <2>3 DEF SpawnFails, NewAttempt, Fresh, IInv, Typed, StoreInv
    <3> QED BY <2>3, <3>1, <1>b DEF SpawnFails
  <2>4. CASE ResolverLands(a)
    BY <2>4 DEF ResolverLands, ResolveInv, IInv, Typed, ProcessInv, RequestInv
  <2>5. CASE ResolverFails(a)
    BY <2>5 DEF ResolverFails, ResolveInv, IInv, Typed, ProcessInv, RequestInv
  <2>6. CASE ReportLost(a)
    BY <2>6 DEF ReportLost, ResolveInv, IInv, Typed, ProcessInv, RequestInv
  <2>7. CASE ReportFence(a)
    BY <2>7 DEF ReportFence, ResolveInv, IInv, Typed, ProcessInv, RequestInv
  <2>8. ASSUME NEW kind \in ResolveFailures, NEW pushed \in BOOLEAN,
              ReportApply(a, kind, pushed)
       PROVE  ResolveInv'
    <3>1. /\ state[a] = "resolving"
          /\ state[lease[a].origin] \in ResolvableStates \cup {"landed"}
      BY <2>8 DEF ReportApply, IInv, ResolveInv
    <3>2. \A b \in Attempt \ {a} : \/ state'[b] = state[b]
                                 \/ /\ state[b] \in ResolvableStates \cup {"landed"}
                                    /\ state'[b] = "landed"
      BY <2>8, <3>1 DEF ReportApply, IInv, Typed, StoreInv
    <3>3. \A b \in Attempt \ {a} : resolver'[b] = resolver[b]
      BY <2>8 DEF ReportApply, IInv, Typed, ProcessInv
    <3>4. resolver'[a] = "exited" /\ a \notin reports' /\ reports' \subseteq reports /\ lease' = lease
      BY <2>8 DEF ReportApply, IInv, Typed, ProcessInv
    <3> QED BY <3>1, <3>2, <3>3, <3>4, <1>c DEF ResolveInv, IInv,
            ResolvableStates
  <2> QED BY <1>3, <2>1, <2>2, <2>3, <2>4, <2>5, <2>6, <2>7, <2>8 DEF
   ResolveStep
<1>4. ASSUME NEW t \in Task, BackoffElapses(t) \/ GcBranch(t) PROVE ResolveInv'
  <2>1. CASE BackoffElapses(t) \/ GcBranch(t)
    BY <2>1, <1>0 DEF BackoffElapses, GcBranch
  <2> QED BY <1>4, <2>1
<1>5. CASE OperatorStep
  <2>1. CASE \/ Play \/ Pause \/ SweepEnd
             \/ (\E kind \in {"stop", "skip"} : SweepBegin(kind))
             \/ (\E t \in Task : Retry(t))
             \/ (\E t \in Task : Unquarantine(t))
             \/ (\E t \in Task : Release(t)) \/ (\E t \in Task : Delete(t))
    BY <2>1, <1>0 DEF Delete, Pause, Play, Release, Retry, SweepBegin,
       SweepEnd, Unflag, Unquarantine
  <2> QED BY <1>5, <2>1 DEF OperatorStep
<1>6. CASE RecoveryStep
  <2>1. CASE \/ Restart \/ RecoverDrop \/ RecoveryDone
             \/ (\E a \in Attempt : RecoverReenqueue(a))
    BY <2>1, <1>0 DEF RecoverDrop, RecoverReenqueue, RecoveryDone, Restart
  <2>2. CASE Crash
    BY <2>2 DEF Crash, ResolveInv, IInv
  <2>3. ASSUME NEW a \in Attempt, RecoverLanded(a)
       PROVE  ResolveInv'
    <3>1. \A b \in Attempt : ~Live(b) => state'[b] = state[b]
      BY <2>3 DEF RecoverLanded, Commit, Live, LiveStates, JobsInv, IInv,
         Typed, StoreInv
    <3> QED BY <2>3, <3>1, <1>a DEF RecoverLanded
  <2>4. ASSUME NEW a \in Attempt, RecoverReland(a)
       PROVE  ResolveInv'
    <3>1. \A b \in Attempt : ~Live(b) => state'[b] = state[b]
      BY <2>4 DEF RecoverReland, Commit, Live, LiveStates, JobsInv, IInv,
         Typed, StoreInv
    <3> QED BY <2>4, <3>1, <1>a DEF RecoverReland
  <2>5. ASSUME NEW a \in Attempt, RecoverPark(a)
       PROVE  ResolveInv'
    <3>1. \A b \in Attempt : ~Live(b) => state'[b] = state[b]
      BY <2>5 DEF RecoverPark, Commit, Live, LiveStates, JobsInv, IInv, Typed,
         StoreInv
    <3> QED BY <2>5, <3>1, <1>a DEF RecoverPark
  <2> QED BY <1>6, <2>1, <2>2, <2>3, <2>4, <2>5 DEF RecoveryStep
<1> QED BY <1>0, <1>1, <1>2, <1>3, <1>4, <1>5, <1>6 DEF Next

-----------------------------------------------------------------------------
(* Theorems                                                                *)

\* The empty manager satisfies the inductive invariant.
LEMMA Initially ==
    Init => IInv
<1> SUFFICES ASSUME Init PROVE IInv
  OBVIOUS
<1> USE DEF Init
<1>1. RowsInv
  BY RowWrites DEF RowsInv
<1>2. StoreInv
  BY DEF StoreInv
<1>3. DiskInv
  BY DEF DiskInv, Briefs, GoodBranches, Branches, NoBranch, HasCommits
<1>4. HandlerInv
  BY HandlerForms DEF HandlerInv
<1>5. RequestInv
  <2>1. watch \in BOOLEAN
    BY Zenon
  <2>2. polls \in [Worker -> Polls] /\ sweep \in Sweeps
    BY DEF Polls, Sweeps, Idle
  <2> QED BY <2>1, <2>2 DEF RequestInv
<1>6. ProcessInv
  BY DEF ProcessInv, Orders, Managers, Idle
<1>7. LandInv
  BY DEF LandInv
<1>8. Known
  BY DEF Known, KnownOrders, KnownHandlers, KnownSpawning, KnownResolvers, Idle
<1>9. OneLiveAttempt /\ JobsInv /\ TrailerInv /\ ResolveInv
  BY DEF OneLiveAttempt, Live, LiveStates, JobsInv, TrailerInv, Squashed,
         Carries, ResolveInv
<1> QED BY <1>1, <1>2, <1>3, <1>4, <1>5, <1>6, <1>7, <1>8, <1>9
        DEF IInv, Typed

\* Every step keeps the inductive invariant.
LEMMA Inductive ==
    IInv /\ [Next]_vars => IInv'
<1> SUFFICES ASSUME IInv, [Next]_vars PROVE IInv'
  OBVIOUS
<1>1. CASE Next
  BY <1>1, RowsStep, StoreStep, DiskStep, HandlerStep, RequestStep,
     ProcessStep, LandStep, KnownStep, OneLiveStep, JobsStep, TrailerStep,
     ResolveInvStep DEF IInv, Typed
<1>2. CASE UNCHANGED vars
  <2> USE <1>2 DEF vars, IInv, Typed
  <2>1. RowsInv' /\ StoreInv' /\ DiskInv' /\ HandlerInv'
    BY DEF RowsInv, StoreInv, DiskInv, HandlerInv
  <2>2. RequestInv' /\ ProcessInv' /\ LandInv'
    BY DEF RequestInv, ProcessInv, LandInv
  <2>3. Known'
    BY DEF Known, KnownOrders, KnownHandlers, KnownSpawning, KnownResolvers
  <2>4. OneLiveAttempt' /\ JobsInv' /\ TrailerInv' /\ ResolveInv'
    BY DEF OneLiveAttempt, Live, JobsInv, TrailerInv, Squashed, Carries,
           ResolveInv
  <2> QED BY <2>1, <2>2, <2>3, <2>4
<1> QED BY <1>1, <1>2

\* The inductive invariant holds in every reachable state of the manager.
THEOREM Invariance == Spec => []IInv
  BY Initially, Inductive, PTL DEF Spec

\* Every variable of the manager keeps its type, and every stored attempt
\* has the lease create_attempt gave it.
THEOREM TypeCorrect == Spec => []TypeOK
<1>1. IInv => TypeOK
  <2> SUFFICES ASSUME IInv PROVE TypeOK
    OBVIOUS
  <2>1. row \in [Task -> Rows] /\ branch \in [Task -> Branches]
          /\ handler \in [Attempt -> Handlers]
    BY DEF IInv, Typed, RowsInv, GoodRows, DiskInv, GoodBranches, HandlerInv,
           GoodHandlers
  <2> QED BY <2>1 DEF IInv, Typed, TypeOK, StoreInv, DiskInv, RequestInv,
                      ProcessInv, LandInv
<1> QED BY <1>1, Invariance, PTL

\* A task never has two live attempts, whatever polls, stops, deadlines,
\* crashes and resolves interleave (create_attempt's partial unique index).
THEOREM OneLiveAttemptHolds == Spec => []OneLiveAttempt
<1>1. IInv => OneLiveAttempt
  BY DEF IInv
<1> QED BY <1>1, Invariance, PTL

\* The tasks table holds no empty row and loses no hold or counter.
THEOREM RowLifecycleHolds == Spec => []RowLifecycle
<1>1. IInv => RowLifecycle
  BY DEF IInv, Typed, RowsInv, GoodRows, Rows, RowOK, RowLifecycle
<1> QED BY <1>1, Invariance, PTL

\* An attempt that the deadline sweep expired never reaches main.
THEOREM ExpiredNeverLandsHolds == Spec => []ExpiredNeverLands
<1>1. IInv => ExpiredNeverLands
  BY DEF IInv, TrailerInv, JobsInv, ExpiredNeverLands
<1> QED BY <1>1, Invariance, PTL

\* No step takes back a stored verdict.
THEOREM TerminalIsFinalHolds == Spec => TerminalIsFinal
<1> DEFINE Final == \A a \in Attempt :
             state[a] \in TerminalStates =>
               \/ state'[a] = state[a]
               \/ state[a] \in ResolvableStates /\ state'[a] = "landed"
<1>1. IInv /\ [Next]_vars => [Final]_vars
  <2> SUFFICES ASSUME IInv, Next PROVE Final
    OBVIOUS
  <2> QED BY EdgesStep DEF Edges, TerminalStates
<1> QED BY <1>1, Invariance, PTL DEF Spec, TerminalIsFinal

-----------------------------------------------------------------------------
(* Briefs and counters                                                     *)

\* A brief that is gone stays gone, and only the operator lifts a quarantine.
BriefsFade ==
    \A t \in Task :
        brief'[t].present => /\ brief[t].present
                             /\ brief[t].quarantined /\ "unquarantine" \notin Events
                                => brief'[t].quarantined

\* Nothing brings a brief back.
LEMMA BriefStep ==
    ASSUME IInv, Next
    PROVE  BriefsFade
<1>0. UNCHANGED brief => BriefsFade
  BY DEF BriefsFade
<1>b. brief \in [Task -> Briefs] /\ \A b \in Attempt : state[b] # "none" => lease[b].task \in Task
  BY DEF IInv, Typed, DiskInv, StoreInv, Leases
<1>1. ASSUME NEW w \in Worker, WorkerStep(w) PROVE BriefsFade
  <2>1. CASE \/ PollPick(w)
             \/ (\E synced \in BOOLEAN : LeaseClear(w, synced))
             \/ LeaseCreate(w)
             \/ LeaseLost(w)
             \/ LeaseDocsBlocked(w)
             \/ SetupWorktree(w)
             \/ AgentCommits(w)
             \/ AgentFinishes(w)
             \/ AgentLands(w)
             \/ WorkerDies(w)
             \/ Heartbeat(w)
             \/ SubmitLost(w)
             \/ CooldownEnds(w)
             \/ (\E out \in Submits : SubmitRead(w, out))
    BY <2>1, <1>0 DEF AgentCommits, AgentFinishes, AgentLands, CooldownEnds,
       Heartbeat, LeaseClear, LeaseCreate, LeaseDocsBlocked, LeaseLost,
       PollPick, SetupWorktree, SubmitLost, SubmitRead, WorkerDies
  <2> QED
    BY <1>1, <2>1 DEF WorkerStep
<1>2. ASSUME NEW a \in Attempt, AttemptStep(a) PROVE BriefsFade
  <2>1. CASE \/ SubmitApply(a)
             \/ SubmitAdopt(a)
             \/ EnqueueLand(a)
             \/ CompleteLand(a)
             \/ LandSync(a)
             \/ LandAdopt(a)
             \/ LandPush(a)
             \/ LandTeardown(a)
             \/ (\E land \in LandReplies : LandSquash(a, land))
             \/ (\E land \in LandReplies : LandRefuse(a, land))
             \/ SetQueue(a)
             \/ DeadlinePasses(a)
             \/ ExpireDeadline(a)
             \/ SweepAbort(a)
    BY <2>1, <1>0 DEF CompleteLand, DeadlinePasses, EnqueueLand,
       ExpireDeadline, LandAdopt, LandPush, LandRefuse, LandSquash, LandSync,
       LandTeardown, SetQueue, SubmitAdopt, SubmitApply, SweepAbort
  <2>2. CASE SetFlags(a)
    <3>1. lease[a].task \in Task
      BY <2>2, <1>b DEF SetFlags, IInv, Typed, Known, KnownHandlers
    <3>2. \A t \in Task : brief'[t] = brief[t] \/ brief'[t] = Flagged(brief[t], handler[a].eff.flags)
      BY <2>2, <3>1, <1>b DEF SetFlags
    <3>3. \A u \in Task : \A f :
             /\ Flagged(brief[u], f).present = brief[u].present
             /\ brief[u].quarantined => Flagged(brief[u], f).quarantined
      BY Zenon DEF Flagged
    <3>4. ASSUME NEW u \in Task, brief'[u].present
          PROVE  brief[u].present /\ (brief[u].quarantined => brief'[u].quarantined)
      BY <3>2, <3>3, <3>4
    <3> QED BY <3>4 DEF BriefsFade
  <2>3. CASE DropBrief(a)
    <3>1. \A u \in Task : brief'[u] \in {brief[u], NoBrief}
      BY <2>3, <1>b DEF DropBrief
    <3> QED BY <3>1 DEF BriefsFade, NoBrief
  <2> QED
    BY <1>2, <2>1, <2>2, <2>3 DEF AttemptStep
<1>3. ASSUME NEW a \in Attempt, ResolveStep(a) PROVE BriefsFade
  <2>1. CASE \/ Escalate(a)
             \/ Resolve(a)
             \/ SpawnResolve(a)
             \/ SpawnFails(a)
             \/ ResolverFails(a)
             \/ ReportLost(a)
             \/ ReportFence(a)
    BY <2>1, <1>0 DEF Escalate, ReportFence, ReportLost, Resolve,
       ResolverFails, SpawnFails, SpawnResolve
  <2>2. CASE ResolverLands(a)
    <3>1. \A u \in Task : brief'[u] \in {brief[u], NoBrief}
      BY <2>2, <1>b DEF ResolverLands
    <3> QED BY <3>1 DEF BriefsFade, NoBrief
  <2>3. ASSUME NEW kind \in ResolveFailures, NEW pushed \in BOOLEAN, ReportApply(a, kind, pushed)
       PROVE  BriefsFade
    <3>1. \A u \in Task : brief'[u] \in {brief[u], NoBrief}
      BY <2>3, <1>b DEF ReportApply
    <3> QED BY <3>1 DEF BriefsFade, NoBrief
  <2> QED
    BY <1>3, <2>1, <2>2, <2>3 DEF ResolveStep
<1>4. ASSUME NEW t \in Task, BackoffElapses(t) \/ GcBranch(t) PROVE BriefsFade
  <2>1. CASE \/ BackoffElapses(t)
             \/ GcBranch(t)
    BY <2>1, <1>0 DEF BackoffElapses, GcBranch
  <2> QED
    BY <1>4, <2>1
<1>5. CASE OperatorStep
  <2>1. CASE \/ Pause
             \/ SweepEnd
             \/ (\E kind \in {"stop", "skip"} : SweepBegin(kind))
             \/ (\E t \in Task : Release(t))
    BY <2>1, <1>0 DEF Pause, Release, SweepBegin, SweepEnd
  <2>2. CASE Play
    <3>1. \A u \in Task : brief'[u] = brief[u] \/ brief'[u] = [brief[u] EXCEPT !.failed = FALSE]
      BY <2>2 DEF Play
    <3> QED BY <3>1, <1>b DEF BriefsFade, Briefs
  <2>3. ASSUME NEW t \in Task, Retry(t)
       PROVE  BriefsFade
    <3>1. brief' = [brief EXCEPT ![t].failed = @ /\ "failed" \notin {"failed"},
                                ![t].quarantined = @ /\ "quarantined" \notin {"failed"}]
      BY <2>3 DEF Retry, Unflag
    <3>2. \A u \in Task : /\ brief'[u].present = brief[u].present
                          /\ brief'[u].quarantined = brief[u].quarantined
      BY <3>1, <1>b DEF Briefs
    <3> QED BY <3>2 DEF BriefsFade
  <2>4. ASSUME NEW t \in Task, Unquarantine(t)
       PROVE  BriefsFade
    <3>1. brief' = [brief EXCEPT ![t].failed = @ /\ "failed" \notin {"quarantined"},
                                ![t].quarantined = @ /\ "quarantined" \notin {"quarantined"}]
      BY <2>4 DEF Unquarantine, Unflag
    <3>2. \A u \in Task : brief'[u].present = brief[u].present
      BY <3>1, <1>b DEF Briefs
    <3>3. "unquarantine" \in Events
      BY <2>4 DEF Unquarantine, Spend
    <3> QED BY <3>2, <3>3 DEF BriefsFade
  <2>5. ASSUME NEW t \in Task, Delete(t)
       PROVE  BriefsFade
    <3>1. \A u \in Task : brief'[u] \in {brief[u], NoBrief}
      BY <2>5, <1>b DEF Delete
    <3> QED BY <3>1 DEF BriefsFade, NoBrief
  <2> QED
    BY <1>5, <2>1, <2>2, <2>3, <2>4, <2>5 DEF OperatorStep
<1>6. CASE RecoveryStep
  <2>1. CASE \/ Crash
             \/ Restart
             \/ RecoveryDone
             \/ (\E a \in Attempt : RecoverLanded(a))
             \/ (\E a \in Attempt : RecoverReenqueue(a))
             \/ (\E a \in Attempt : RecoverReland(a))
             \/ (\E a \in Attempt : RecoverPark(a))
    BY <2>1, <1>0 DEF Crash, RecoverLanded, RecoverPark, RecoverReenqueue,
       RecoverReland, RecoveryDone, Restart
  <2>2. CASE RecoverDrop
    <3>1. \A u \in Task : brief'[u] \in {brief[u], NoBrief}
      BY <2>2, <1>b DEF RecoverDrop
    <3> QED BY <3>1 DEF BriefsFade, NoBrief
  <2> QED
    BY <1>6, <2>1, <2>2 DEF RecoveryStep
<1> QED
  BY <1>1, <1>2, <1>3, <1>4, <1>5, <1>6 DEF Next

\* While the manager stays up, nobody recovers.
LEMMA NoRecovery ==
    ASSUME Up, Up'
    PROVE  ~RecoveryStep
BY DEF Up, RecoveryStep, Crash, Restart, RecoverDrop, RecoveryDone, RecoverLanded,
       RecoverReenqueue, RecoverReland, RecoverPark, Recovered

\* What a write of the tasks table does to the counter.
LEMMA CounterWrites ==
    ASSUME NEW r \in GoodRows
    PROVE  /\ r.counter \in Nat
           /\ NoRow.counter = 0
           /\ ReleaseRow(r).counter = r.counter
           /\ HoldRow(r).counter = r.counter
           /\ ClearBackoff(r).counter = r.counter
           /\ [r EXCEPT !.backoff = "elapsed"].counter = r.counter
<1>1. r.counter \in Nat /\ r \in Rows
  BY DEF GoodRows, Rows
<1>2. HoldRow(r).counter = r.counter /\ NoRow.counter = 0
  BY DEF HoldRow, NoRow
<1>3. /\ ClearBackoff(r).counter = r.counter
      /\ [r EXCEPT !.backoff = "elapsed"].counter = r.counter
  BY <1>1 DEF ClearBackoff, Rows
<1>4. ReleaseRow(r).counter = r.counter
  BY <1>1 DEF ReleaseRow, DemoteRow, NoRow
<1> QED BY <1>1, <1>2, <1>3, <1>4

\* An attempt counts once, and only if its verdict says so.
LEMMA CounterApplied ==
    ASSUME NEW r \in GoodRows, NEW eff \in Effects
    PROVE  /\ ApplyRow(r, eff).counter \in Nat
           /\ \/ ApplyRow(r, eff).counter <= r.counter
              \/ /\ eff.progress = "increment"
                 /\ ApplyRow(r, eff).counter = r.counter + 1
<1>1. r.counter \in Nat
  BY DEF GoodRows, Rows
<1> DEFINE w == WriteRow(r, eff)
<1>2. /\ w.counter \in Nat
      /\ \/ w.counter <= r.counter
         \/ eff.progress = "increment" /\ w.counter = r.counter + 1
  BY <1>1 DEF WriteRow
<1>3. ApplyRow(r, eff).counter = w.counter
  <2> HIDE DEF w
  <2>1. DemoteRow(w, w.backoff).counter = w.counter /\ NoRow.counter = 0
    BY DEF DemoteRow, NoRow
  <2> QED BY <2>1 DEF ApplyRow, w
<1> QED BY <1>2, <1>3

\* The verdict of a goes to its row.
Counting(a) ==
    (SubmitApply(a) /\ state[a] = "running") \/ (CompleteLand(a) /\ state[a] = "landing")
CountersFall ==
    \A t \in Task : \/ row'[t].counter <= row[t].counter
                    \/ \E a \in Attempt : lease[a].task = t /\ Counting(a)

\* Between its verdicts a task's counter never grows.
LEMMA CounterStep ==
    ASSUME IInv, Next, Up, Up'
    PROVE  CountersFall
<1>r. row \in [Task -> GoodRows]
  BY DEF IInv, Typed, RowsInv
<1>c. \A u \in Task : /\ row[u].counter \in Nat
                      /\ ReleaseRow(row[u]).counter = row[u].counter
                      /\ HoldRow(row[u]).counter = row[u].counter
                      /\ ClearBackoff(row[u]).counter = row[u].counter
                      /\ [row[u] EXCEPT !.backoff = "elapsed"].counter = row[u].counter
                      /\ NoRow.counter = 0
  BY <1>r, CounterWrites
<1>n. \A u \in Task : ApplyRow(row[u], NoEffects).counter <= row[u].counter
  <2>1. NoEffects \in Effects /\ NoEffects.progress = "none"
    BY DEF NoEffects, Effects
  <2> QED BY <2>1, <1>r, CounterApplied
<1>0. UNCHANGED row => CountersFall
  BY <1>c DEF CountersFall
<1>1. ASSUME NEW w \in Worker, WorkerStep(w) PROVE CountersFall
  <2>1. CASE \/ PollPick(w)
             \/ LeaseCreate(w)
             \/ LeaseLost(w)
             \/ SetupWorktree(w)
             \/ AgentCommits(w)
             \/ AgentFinishes(w)
             \/ AgentLands(w)
             \/ WorkerDies(w)
             \/ Heartbeat(w)
             \/ SubmitLost(w)
             \/ CooldownEnds(w)
             \/ (\E out \in Submits : SubmitRead(w, out))
    BY <2>1, <1>0 DEF AgentCommits, AgentFinishes, AgentLands, CooldownEnds,
       Heartbeat, LeaseCreate, LeaseLost, PollPick, SetupWorktree, SubmitLost,
       SubmitRead, WorkerDies
  <2>2. ASSUME NEW synced \in BOOLEAN, LeaseClear(w, synced)
       PROVE  CountersFall
    <3>1. \A u \in Task : row'[u] \in {row[u], ReleaseRow(row[u])}
      BY <2>2, <1>r DEF LeaseClear
    <3> QED BY <3>1, <1>c, <1>n DEF CountersFall
  <2>3. CASE LeaseDocsBlocked(w)
    <3>1. \A u \in Task : row'[u] \in {row[u], HoldRow(row[u])}
      BY <2>3, <1>r DEF LeaseDocsBlocked
    <3> QED BY <3>1, <1>c, <1>n DEF CountersFall
  <2> QED
    BY <1>1, <2>1, <2>2, <2>3 DEF WorkerStep
<1>2. ASSUME NEW a \in Attempt, AttemptStep(a) PROVE CountersFall
  <2>1. CASE \/ SubmitAdopt(a)
             \/ EnqueueLand(a)
             \/ LandSync(a)
             \/ LandAdopt(a)
             \/ LandPush(a)
             \/ LandTeardown(a)
             \/ (\E land \in LandReplies : LandSquash(a, land))
             \/ (\E land \in LandReplies : LandRefuse(a, land))
             \/ SetFlags(a)
             \/ SetQueue(a)
             \/ DropBrief(a)
             \/ DeadlinePasses(a)
    BY <2>1, <1>0 DEF DeadlinePasses, DropBrief, EnqueueLand, LandAdopt,
       LandPush, LandRefuse, LandSquash, LandSync, LandTeardown, SetFlags,
       SetQueue, SubmitAdopt
  <2>2. CASE SubmitApply(a)
    <3>1. CASE state[a] = "running"
      <4>1. \A u \in Task : row'[u] = row[u] \/ lease[a].task = u
        BY <2>2, <3>1, <1>r DEF SubmitApply, Commit
      <4> QED BY <2>2, <3>1, <4>1, <1>c DEF CountersFall, Counting
    <3>2. CASE state[a] # "running"
      BY <2>2, <3>2, <1>0 DEF SubmitApply
    <3> QED BY <3>1, <3>2
  <2>3. CASE CompleteLand(a)
    <3>1. CASE state[a] = "landing"
      <4>1. \A u \in Task : row'[u] = row[u] \/ lease[a].task = u
        BY <2>3, <3>1, <1>r DEF CompleteLand, Commit
      <4> QED BY <2>3, <3>1, <4>1, <1>c DEF CountersFall, Counting
    <3>2. CASE state[a] # "landing"
      BY <2>3, <3>2, <1>0 DEF CompleteLand
    <3> QED BY <3>1, <3>2
  <2>4. CASE ExpireDeadline(a)
    <3>1. \A u \in Task : row'[u] \in {row[u], ApplyRow(row[u], NoEffects)}
      BY <2>4, <1>r DEF ExpireDeadline, Commit, OnDeadline
    <3> QED BY <3>1, <1>c, <1>n DEF CountersFall
  <2>5. CASE SweepAbort(a)
    <3>1. \A u \in Task : row'[u] \in {row[u], ApplyRow(row[u], NoEffects)}
      BY <2>5, <1>r DEF SweepAbort, Commit, OnOperatorStop
    <3> QED BY <3>1, <1>c, <1>n DEF CountersFall
  <2> QED
    BY <1>2, <2>1, <2>2, <2>3, <2>4, <2>5 DEF AttemptStep
<1>3. ASSUME NEW a \in Attempt, ResolveStep(a) PROVE CountersFall
  <2>1. CASE \/ Escalate(a)
             \/ Resolve(a)
             \/ SpawnResolve(a)
             \/ SpawnFails(a)
             \/ ResolverLands(a)
             \/ ResolverFails(a)
             \/ ReportLost(a)
             \/ ReportFence(a)
    BY <2>1, <1>0 DEF Escalate, ReportFence, ReportLost, Resolve,
       ResolverFails, ResolverLands, SpawnFails, SpawnResolve
  <2>2. ASSUME NEW kind \in ResolveFailures, NEW pushed \in BOOLEAN, ReportApply(a, kind, pushed)
       PROVE  CountersFall
    <3>1. \A u \in Task : row'[u] \in {row[u], NoRow, HoldRow(row[u])}
      BY <2>2, <1>r DEF ReportApply
    <3> QED BY <3>1, <1>c DEF CountersFall
  <2> QED
    BY <1>3, <2>1, <2>2 DEF ResolveStep
<1>4. ASSUME NEW t \in Task, BackoffElapses(t) \/ GcBranch(t) PROVE CountersFall
  <2>1. CASE GcBranch(t)
    BY <2>1, <1>0 DEF GcBranch
  <2>2. CASE BackoffElapses(t)
    <3>1. row' = [row EXCEPT ![t] = [row[t] EXCEPT !.backoff = "elapsed"]]
      BY <2>2 DEF BackoffElapses
    <3>2. \A u \in Task : row'[u].counter = row[u].counter
      BY <3>1, <1>r, <1>c
    <3> QED BY <3>2, <1>c DEF CountersFall
  <2> QED
    BY <1>4, <2>1, <2>2
<1>5. CASE OperatorStep
  <2>1. CASE \/ Pause
             \/ SweepEnd
             \/ (\E kind \in {"stop", "skip"} : SweepBegin(kind))
    BY <2>1, <1>0 DEF Pause, SweepBegin, SweepEnd
  <2>2. CASE Play
    <3>1. \A u \in Task : row'[u] \in {row[u], ClearBackoff(row[u])}
      BY <2>2, <1>r DEF Play
    <3> QED BY <3>1, <1>c, <1>n DEF CountersFall
  <2>3. ASSUME NEW t \in Task, Retry(t)
       PROVE  CountersFall
    <3>1. \A u \in Task : row'[u] \in {row[u], ClearBackoff(row[u])}
      BY <2>3, <1>r DEF Retry, Unflag
    <3> QED BY <3>1, <1>c, <1>n DEF CountersFall
  <2>4. ASSUME NEW t \in Task, Unquarantine(t)
       PROVE  CountersFall
    <3>1. \A u \in Task : row'[u] \in {row[u], ClearBackoff(row[u])}
      BY <2>4, <1>r DEF Unquarantine, Unflag
    <3> QED BY <3>1, <1>c, <1>n DEF CountersFall
  <2>5. ASSUME NEW t \in Task, Release(t)
       PROVE  CountersFall
    <3>1. \A u \in Task : row'[u] \in {row[u], NoRow, ReleaseRow(row[u])}
      BY <2>5, <1>r DEF Release
    <3> QED BY <3>1, <1>c DEF CountersFall
  <2>6. ASSUME NEW t \in Task, Delete(t)
       PROVE  CountersFall
    <3>1. \A u \in Task : row'[u] \in {row[u], NoRow}
      BY <2>6, <1>r DEF Delete
    <3> QED BY <3>1, <1>c, <1>n DEF CountersFall
  <2> QED
    BY <1>5, <2>1, <2>2, <2>3, <2>4, <2>5, <2>6 DEF OperatorStep
<1>6. ~RecoveryStep
  BY NoRecovery
<1> QED
  BY <1>1, <1>2, <1>3, <1>4, <1>5, <1>6 DEF Next

\* A suspended submit is moved by its own continuation only.
HandlersMove ==
    \A a \in Attempt :
        \/ handler'[a] = handler[a]
        \/ \E w \in Worker, out \in Submits :
               SubmitRead(w, out) /\ a = order[w].at /\ state[a] = "running"
        \/ SubmitApply(a) \/ SubmitAdopt(a) \/ EnqueueLand(a) \/ CompleteLand(a)
        \/ SetFlags(a) \/ SetQueue(a) \/ DropBrief(a) \/ Escalate(a)

\* Nobody but the submit itself moves it, short of a crash.
LEMMA HandlersStep ==
    ASSUME IInv, Next, ~RecoveryStep
    PROVE  HandlersMove
<1>h. handler = [b \in Attempt |-> handler[b]]
  BY DEF IInv, Typed, HandlerInv
<1>0. UNCHANGED handler => HandlersMove
  BY DEF HandlersMove
<1>1. ASSUME NEW w \in Worker, WorkerStep(w) PROVE HandlersMove
  <2>1. CASE \/ PollPick(w)
             \/ (\E synced \in BOOLEAN : LeaseClear(w, synced))
             \/ LeaseCreate(w)
             \/ LeaseLost(w)
             \/ LeaseDocsBlocked(w)
             \/ SetupWorktree(w)
             \/ AgentCommits(w)
             \/ AgentFinishes(w)
             \/ AgentLands(w)
             \/ WorkerDies(w)
             \/ Heartbeat(w)
             \/ SubmitLost(w)
             \/ CooldownEnds(w)
    BY <2>1, <1>0 DEF AgentCommits, AgentFinishes, AgentLands, CooldownEnds,
       Heartbeat, LeaseClear, LeaseCreate, LeaseDocsBlocked, LeaseLost,
       PollPick, SetupWorktree, SubmitLost, WorkerDies
  <2>2. ASSUME NEW out \in Submits, SubmitRead(w, out)
       PROVE  HandlersMove
    <3>1. handler' = handler \/ (\E h : /\ handler' = [handler EXCEPT ![order[w].at] = h]
                                        /\ state[order[w].at] = "running")
      BY <2>2 DEF SubmitRead
    <3>2. ASSUME NEW b \in Attempt
          PROVE  handler'[b] = handler[b] \/ (b = order[w].at /\ state[b] = "running")
      BY <3>1, <1>h
    <3> QED BY <2>2, <3>2 DEF HandlersMove
  <2> QED
    BY <1>1, <2>1, <2>2 DEF WorkerStep
<1>2. ASSUME NEW a \in Attempt, AttemptStep(a) PROVE HandlersMove
  <2>1. CASE \/ LandSync(a)
             \/ LandAdopt(a)
             \/ LandPush(a)
             \/ LandTeardown(a)
             \/ (\E land \in LandReplies : LandSquash(a, land))
             \/ (\E land \in LandReplies : LandRefuse(a, land))
             \/ DeadlinePasses(a)
             \/ ExpireDeadline(a)
             \/ SweepAbort(a)
    BY <2>1, <1>0 DEF DeadlinePasses, ExpireDeadline, LandAdopt, LandPush,
       LandRefuse, LandSquash, LandSync, LandTeardown, SweepAbort
  <2>2. CASE SubmitApply(a)
    <3>1. \A b \in Attempt \ {a} : handler'[b] = handler[b]
      BY <2>2, <1>h DEF SubmitApply
    <3> QED BY <2>2, <3>1 DEF HandlersMove
  <2>3. CASE SubmitAdopt(a)
    <3>1. \A b \in Attempt \ {a} : handler'[b] = handler[b]
      BY <2>3, <1>h DEF SubmitAdopt
    <3> QED BY <2>3, <3>1 DEF HandlersMove
  <2>4. CASE EnqueueLand(a)
    <3>1. \A b \in Attempt \ {a} : handler'[b] = handler[b]
      BY <2>4, <1>h DEF EnqueueLand
    <3> QED BY <2>4, <3>1 DEF HandlersMove
  <2>5. CASE CompleteLand(a)
    <3>1. \A b \in Attempt \ {a} : handler'[b] = handler[b]
      BY <2>5, <1>h DEF CompleteLand
    <3> QED BY <2>5, <3>1 DEF HandlersMove
  <2>6. CASE SetFlags(a)
    <3>1. \A b \in Attempt \ {a} : handler'[b] = handler[b]
      BY <2>6, <1>h DEF SetFlags
    <3> QED BY <2>6, <3>1 DEF HandlersMove
  <2>7. CASE SetQueue(a)
    <3>1. \A b \in Attempt \ {a} : handler'[b] = handler[b]
      BY <2>7, <1>h DEF SetQueue
    <3> QED BY <2>7, <3>1 DEF HandlersMove
  <2>8. CASE DropBrief(a)
    <3>1. \A b \in Attempt \ {a} : handler'[b] = handler[b]
      BY <2>8, <1>h DEF DropBrief
    <3> QED BY <2>8, <3>1 DEF HandlersMove
  <2> QED
    BY <1>2, <2>1, <2>2, <2>3, <2>4, <2>5, <2>6, <2>7, <2>8 DEF AttemptStep
<1>3. ASSUME NEW a \in Attempt, ResolveStep(a) PROVE HandlersMove
  <2>1. CASE \/ Resolve(a)
             \/ SpawnResolve(a)
             \/ SpawnFails(a)
             \/ ResolverLands(a)
             \/ ResolverFails(a)
             \/ ReportLost(a)
             \/ ReportFence(a)
             \/ (\E kind \in ResolveFailures, pushed \in BOOLEAN : ReportApply(a, kind, pushed))
    BY <2>1, <1>0 DEF ReportApply, ReportFence, ReportLost, Resolve,
       ResolverFails, ResolverLands, SpawnFails, SpawnResolve
  <2>2. CASE Escalate(a)
    <3>1. \A b \in Attempt \ {a} : handler'[b] = handler[b]
      BY <2>2, <1>h DEF Escalate
    <3> QED BY <2>2, <3>1 DEF HandlersMove
  <2> QED
    BY <1>3, <2>1, <2>2 DEF ResolveStep
<1>4. ASSUME NEW t \in Task, BackoffElapses(t) \/ GcBranch(t) PROVE HandlersMove
  <2>1. CASE \/ BackoffElapses(t)
             \/ GcBranch(t)
    BY <2>1, <1>0 DEF BackoffElapses, GcBranch
  <2> QED
    BY <1>4, <2>1
<1>5. CASE OperatorStep
  <2>1. CASE \/ Play
             \/ Pause
             \/ SweepEnd
             \/ (\E kind \in {"stop", "skip"} : SweepBegin(kind))
             \/ (\E t \in Task : Retry(t))
             \/ (\E t \in Task : Unquarantine(t))
             \/ (\E t \in Task : Release(t))
             \/ (\E t \in Task : Delete(t))
    BY <2>1, <1>0 DEF Delete, Pause, Play, Release, Retry, SweepBegin,
       SweepEnd, Unflag, Unquarantine
  <2> QED
    BY <1>5, <2>1 DEF OperatorStep
<1> QED
  BY <1>1, <1>2, <1>3, <1>4, <1>5 DEF Next

\* Who changes the stored state of an attempt.
StatesMove ==
    \A a \in Attempt :
        \/ state'[a] = state[a]
        \/ state[a] = "none" /\ state'[a] # "landed"
        \/ SubmitApply(a) \/ EnqueueLand(a) \/ CompleteLand(a)
        \/ state'[a] \in {"expired", "aborted"} /\ (ExpireDeadline(a) \/ SweepAbort(a))
        \/ \E c \in Attempt, kind \in ResolveFailures, pushed \in BOOLEAN :
               ReportApply(c, kind, pushed) /\ a \in {c, lease[c].origin}

\* A stored state is changed by a verdict, a sweep or a resolve's report.
LEMMA StatesStep ==
    ASSUME IInv, Next, ~RecoveryStep
    PROVE  StatesMove
<1>s. state = [b \in Attempt |-> state[b]]
  BY DEF IInv, Typed, StoreInv
<1>0. UNCHANGED state => StatesMove
  BY DEF StatesMove
<1>1. ASSUME NEW w \in Worker, WorkerStep(w) PROVE StatesMove
  <2>1. CASE \/ PollPick(w)
             \/ (\E synced \in BOOLEAN : LeaseClear(w, synced))
             \/ LeaseLost(w)
             \/ LeaseDocsBlocked(w)
             \/ SetupWorktree(w)
             \/ AgentCommits(w)
             \/ AgentFinishes(w)
             \/ AgentLands(w)
             \/ WorkerDies(w)
             \/ Heartbeat(w)
             \/ SubmitLost(w)
             \/ CooldownEnds(w)
             \/ (\E out \in Submits : SubmitRead(w, out))
    BY <2>1, <1>0 DEF AgentCommits, AgentFinishes, AgentLands, CooldownEnds,
       Heartbeat, LeaseClear, LeaseDocsBlocked, LeaseLost, PollPick,
       SetupWorktree, SubmitLost, SubmitRead, WorkerDies
  <2>2. CASE LeaseCreate(w)
    <3>1. PICK c \in Attempt : state[c] = "none" /\ state' = [state EXCEPT ![c] = "running"]
      BY <2>2 DEF LeaseCreate, NewAttempt, Fresh
    <3> QED BY <3>1, <1>s DEF StatesMove
  <2> QED
    BY <1>1, <2>1, <2>2 DEF WorkerStep
<1>2. ASSUME NEW a \in Attempt, AttemptStep(a) PROVE StatesMove
  <2>1. CASE \/ SubmitAdopt(a)
             \/ LandSync(a)
             \/ LandAdopt(a)
             \/ LandPush(a)
             \/ LandTeardown(a)
             \/ (\E land \in LandReplies : LandSquash(a, land))
             \/ (\E land \in LandReplies : LandRefuse(a, land))
             \/ SetFlags(a)
             \/ SetQueue(a)
             \/ DropBrief(a)
             \/ DeadlinePasses(a)
    BY <2>1, <1>0 DEF DeadlinePasses, DropBrief, LandAdopt, LandPush,
       LandRefuse, LandSquash, LandSync, LandTeardown, SetFlags, SetQueue,
       SubmitAdopt
  <2>2. CASE SubmitApply(a)
    <3>1. \A b \in Attempt \ {a} : state'[b] = state[b]
      BY <2>2, <1>s DEF SubmitApply, Commit
    <3> QED BY <2>2, <3>1 DEF StatesMove
  <2>3. CASE EnqueueLand(a)
    <3>1. \A b \in Attempt \ {a} : state'[b] = state[b]
      BY <2>3, <1>s DEF EnqueueLand, Commit
    <3> QED BY <2>3, <3>1 DEF StatesMove
  <2>4. CASE CompleteLand(a)
    <3>1. \A b \in Attempt \ {a} : state'[b] = state[b]
      BY <2>4, <1>s DEF CompleteLand, Commit
    <3> QED BY <2>4, <3>1 DEF StatesMove
  <2>5. CASE ExpireDeadline(a)
    <3>1. \A b \in Attempt : state'[b] = state[b] \/ (b = a /\ state'[b] = "expired")
      BY <2>5, <1>s DEF ExpireDeadline, Commit, OnDeadline
    <3> QED BY <2>5, <3>1 DEF StatesMove
  <2>6. CASE SweepAbort(a)
    <3>1. \A b \in Attempt : state'[b] = state[b] \/ (b = a /\ state'[b] = "aborted")
      BY <2>6, <1>s DEF SweepAbort, Commit, OnOperatorStop
    <3> QED BY <2>6, <3>1 DEF StatesMove
  <2> QED
    BY <1>2, <2>1, <2>2, <2>3, <2>4, <2>5, <2>6 DEF AttemptStep
<1>3. ASSUME NEW a \in Attempt, ResolveStep(a) PROVE StatesMove
  <2>1. CASE \/ Escalate(a)
             \/ Resolve(a)
             \/ ResolverLands(a)
             \/ ResolverFails(a)
             \/ ReportLost(a)
             \/ ReportFence(a)
    BY <2>1, <1>0 DEF Escalate, ReportFence, ReportLost, Resolve,
       ResolverFails, ResolverLands
  <2>2. CASE SpawnResolve(a)
    <3>1. PICK c \in Attempt : state[c] = "none" /\ state' = [state EXCEPT ![c] = "resolving"]
      BY <2>2 DEF SpawnResolve, NewAttempt, Fresh
    <3> QED BY <3>1, <1>s DEF StatesMove
  <2>3. CASE SpawnFails(a)
    <3>1. PICK c \in Attempt : /\ state[c] = "none"
                               /\ state' = [state EXCEPT ![c] = ErrorStateFor("worker_launch")]
      BY <2>3 DEF SpawnFails, NewAttempt, Fresh
    <3> QED BY <3>1, <1>s DEF StatesMove, ErrorStateFor
  <2>4. ASSUME NEW kind \in ResolveFailures, NEW pushed \in BOOLEAN, ReportApply(a, kind, pushed)
       PROVE  StatesMove
    <3>1. \A b \in Attempt : state'[b] = state[b] \/ b \in {a, lease[a].origin}
      BY <2>4, <1>s DEF ReportApply
    <3> QED BY <2>4, <3>1 DEF StatesMove
  <2> QED
    BY <1>3, <2>1, <2>2, <2>3, <2>4 DEF ResolveStep
<1>4. ASSUME NEW t \in Task, BackoffElapses(t) \/ GcBranch(t) PROVE StatesMove
  <2>1. CASE \/ BackoffElapses(t)
             \/ GcBranch(t)
    BY <2>1, <1>0 DEF BackoffElapses, GcBranch
  <2> QED
    BY <1>4, <2>1
<1>5. CASE OperatorStep
  <2>1. CASE \/ Play
             \/ Pause
             \/ SweepEnd
             \/ (\E kind \in {"stop", "skip"} : SweepBegin(kind))
             \/ (\E t \in Task : Retry(t))
             \/ (\E t \in Task : Unquarantine(t))
             \/ (\E t \in Task : Release(t))
             \/ (\E t \in Task : Delete(t))
    BY <2>1, <1>0 DEF Delete, Pause, Play, Release, Retry, SweepBegin,
       SweepEnd, Unflag, Unquarantine
  <2> QED
    BY <1>5, <2>1 DEF OperatorStep
<1> QED
  BY <1>1, <1>2, <1>3, <1>4, <1>5 DEF Next

-----------------------------------------------------------------------------
(* A landed task leaves the queue                                          *)

\* A resolve is of its origin's task.
SameTask ==
    \A c \in Attempt : state[c] # "none" /\ lease[c].origin \in Attempt =>
        /\ state[lease[c].origin] # "none"
        /\ lease[lease[c].origin].task = lease[c].task

\* The effects of a land that take the brief away: nothing comes before the queue's.
Drops(eff) == eff.drop /\ eff.flags = {} /\ eff.watch # "keep"

\* Until the handler of a landed task is through, its brief is about to be dropped.
Leaves(a) ==
    lease[a].task \notin Evergreen =>
        /\ handler[a].pc \in {"adopt", "enqueue", "landing"} => ~handler[a].pol.evergreen
        /\ handler[a].pc = "apply" /\ handler[a].tr.state = "landed"
             => Drops(handler[a].tr.eff)
        /\ state[a] = "landed" /\ brief[lease[a].task].present
             => \/ handler[a].pc = "drop"
                \/ handler[a].pc = "queue" /\ handler[a].eff.drop

Leaving == SameTask /\ \A a \in Attempt : Leaves(a)

\* A new attempt and what is stored of it.
LEMMA NewLease ==
    ASSUME IInv, NEW c \in Attempt, NEW st, NEW t, NEW w, NEW base, NEW orig,
           NewAttempt(c, st, t, w, base, orig)
    PROVE  /\ state[c] = "none" /\ lease'[c].task = t /\ lease'[c].origin = orig
           /\ \A b \in Attempt \ {c} : state'[b] = state[b] /\ lease'[b] = lease[b]
BY DEF NewAttempt, Fresh, IInv, Typed, StoreInv

\* Leases are written once.
LEMMA SameTaskStep ==
    ASSUME IInv, SameTask, Next, Up, Up'
    PROVE  SameTask'
<1>e. \A b \in Attempt : state[b] # "none" => state'[b] # "none" /\ lease'[b] = lease[b]
  BY EdgesStep DEF Edges, TerminalStates
<1>n. ASSUME NEW c \in Attempt, NEW a \in Attempt \cup {0}, state[c] = "none",
             a # 0 => state[a] # "none" /\ lease'[c].task = lease[a].task,
             lease'[c].origin = a,
             \A b \in Attempt \ {c} : state'[b] = state[b] /\ lease'[b] = lease[b]
      PROVE  SameTask'
  <2> SUFFICES ASSUME NEW b \in Attempt, state'[b] # "none", lease'[b].origin \in Attempt
               PROVE  /\ state'[lease'[b].origin] # "none"
                      /\ lease'[lease'[b].origin].task = lease'[b].task
    BY DEF SameTask
  <2>1. CASE b = c
    BY <1>n, <1>e, <2>1 DEF Attempt
  <2>2. CASE b # c
    BY <1>n, <1>e, <2>2 DEF SameTask
  <2> QED BY <2>1, <2>2
<1>a. (\A b \in Attempt : state[b] = "none" => state'[b] = "none") => SameTask'
  BY <1>e DEF SameTask
<1>0. UNCHANGED state => SameTask'
  BY <1>a
<1>1. ASSUME NEW w \in Worker, WorkerStep(w) PROVE SameTask'
  <2>1. CASE \/ PollPick(w)
             \/ (\E synced \in BOOLEAN : LeaseClear(w, synced))
             \/ LeaseLost(w)
             \/ LeaseDocsBlocked(w)
             \/ SetupWorktree(w)
             \/ AgentCommits(w)
             \/ AgentFinishes(w)
             \/ AgentLands(w)
             \/ WorkerDies(w)
             \/ Heartbeat(w)
             \/ SubmitLost(w)
             \/ CooldownEnds(w)
             \/ (\E out \in Submits : SubmitRead(w, out))
    BY <2>1, <1>0 DEF AgentCommits, AgentFinishes, AgentLands, CooldownEnds,
       Heartbeat, LeaseClear, LeaseDocsBlocked, LeaseLost, PollPick,
       SetupWorktree, SubmitLost, SubmitRead, WorkerDies
  <2>2. CASE LeaseCreate(w)
    <3>1. PICK c \in Attempt : NewAttempt(c, "running", polls[w].task, w, polls[w].base, 0)
      BY <2>2 DEF LeaseCreate
    <3> QED BY <3>1, NewLease, <1>n
  <2> QED
    BY <1>1, <2>1, <2>2 DEF WorkerStep
<1>2. ASSUME NEW a \in Attempt, AttemptStep(a) PROVE SameTask'
  <2>1. CASE \/ SubmitAdopt(a)
             \/ LandSync(a)
             \/ LandAdopt(a)
             \/ LandPush(a)
             \/ LandTeardown(a)
             \/ (\E land \in LandReplies : LandSquash(a, land))
             \/ (\E land \in LandReplies : LandRefuse(a, land))
             \/ SetFlags(a)
             \/ SetQueue(a)
             \/ DropBrief(a)
             \/ DeadlinePasses(a)
    BY <2>1, <1>0 DEF DeadlinePasses, DropBrief, LandAdopt, LandPush,
       LandRefuse, LandSquash, LandSync, LandTeardown, SetFlags, SetQueue,
       SubmitAdopt
  <2>2. CASE SubmitApply(a)
    <3>1. \A b \in Attempt : state[b] = "none" => state'[b] = "none"
      BY <2>2 DEF SubmitApply, Commit, IInv, Typed, StoreInv
    <3> QED BY <3>1, <1>a
  <2>3. CASE EnqueueLand(a)
    <3>1. \A b \in Attempt : state[b] = "none" => state'[b] = "none"
      BY <2>3 DEF EnqueueLand, IInv, Typed, StoreInv
    <3> QED BY <3>1, <1>a
  <2>4. CASE CompleteLand(a)
    <3>1. \A b \in Attempt : state[b] = "none" => state'[b] = "none"
      BY <2>4 DEF CompleteLand, Commit, IInv, Typed, StoreInv
    <3> QED BY <3>1, <1>a
  <2>5. CASE ExpireDeadline(a)
    <3>1. \A b \in Attempt : state[b] = "none" => state'[b] = "none"
      BY <2>5 DEF ExpireDeadline, Commit, IInv, Typed, StoreInv
    <3> QED BY <3>1, <1>a
  <2>6. CASE SweepAbort(a)
    <3>1. \A b \in Attempt : state[b] = "none" => state'[b] = "none"
      BY <2>6 DEF SweepAbort, Commit, Live, LiveStates, IInv, Typed, StoreInv
    <3> QED BY <3>1, <1>a
  <2> QED
    BY <1>2, <2>1, <2>2, <2>3, <2>4, <2>5, <2>6 DEF AttemptStep
<1>3. ASSUME NEW a \in Attempt, ResolveStep(a) PROVE SameTask'
  <2>1. CASE \/ Escalate(a)
             \/ Resolve(a)
             \/ ResolverLands(a)
             \/ ResolverFails(a)
             \/ ReportLost(a)
             \/ ReportFence(a)
    BY <2>1, <1>0 DEF Escalate, ReportFence, ReportLost, Resolve,
       ResolverFails, ResolverLands
  <2>2. CASE SpawnResolve(a)
    <3>1. PICK c \in Attempt : NewAttempt(c, "resolving", lease[a].task, "resolve", 0, a)
      BY <2>2 DEF SpawnResolve
    <3>2. state[a] # "none" /\ a # 0
      BY <2>2 DEF SpawnResolve, Attempt, IInv, Typed, Known, KnownSpawning
    <3> QED BY <3>1, <3>2, NewLease, <1>n
  <2>3. CASE SpawnFails(a)
    <3>1. PICK c \in Attempt : NewAttempt(c, ErrorStateFor("worker_launch"), lease[a].task,
                                         "resolve", 0, a)
      BY <2>3 DEF SpawnFails
    <3>2. state[a] # "none" /\ a # 0
      BY <2>3 DEF SpawnFails, Attempt, IInv, Typed, Known, KnownSpawning
    <3> QED BY <3>1, <3>2, NewLease, <1>n
  <2>4. ASSUME NEW kind \in ResolveFailures, NEW pushed \in BOOLEAN, ReportApply(a, kind, pushed)
       PROVE  SameTask'
    <3>1. state[a] # "none" /\ state[lease[a].origin] # "none"
      BY <2>4 DEF ReportApply, IInv, ResolveInv, ResolvableStates
    <3>2. \A b \in Attempt : state[b] = "none" => state'[b] = "none"
      BY <2>4, <3>1 DEF ReportApply, IInv, Typed, StoreInv
    <3> QED BY <3>2, <1>a
  <2> QED
    BY <1>3, <2>1, <2>2, <2>3, <2>4 DEF ResolveStep
<1>4. ASSUME NEW t \in Task, BackoffElapses(t) \/ GcBranch(t) PROVE SameTask'
  <2>1. CASE \/ BackoffElapses(t)
             \/ GcBranch(t)
    BY <2>1, <1>0 DEF BackoffElapses, GcBranch
  <2> QED
    BY <1>4, <2>1
<1>5. CASE OperatorStep
  <2>1. CASE \/ Play
             \/ Pause
             \/ SweepEnd
             \/ (\E kind \in {"stop", "skip"} : SweepBegin(kind))
             \/ (\E t \in Task : Retry(t))
             \/ (\E t \in Task : Unquarantine(t))
             \/ (\E t \in Task : Release(t))
             \/ (\E t \in Task : Delete(t))
    BY <2>1, <1>0 DEF Delete, Pause, Play, Release, Retry, SweepBegin,
       SweepEnd, Unflag, Unquarantine
  <2> QED
    BY <1>5, <2>1 DEF OperatorStep
<1>6. ~RecoveryStep
  BY NoRecovery
<1> QED
  BY <1>1, <1>2, <1>3, <1>4, <1>5, <1>6 DEF Next

\* Only a land stores "landed", and then it takes the brief of a regular task.
LEMMA LandedDrops ==
    /\ \A out, pol : OnSubmit(out, pol).state # "landed"
    /\ \A out, pol, land :
         OnLandResult(out, land, pol).state = "landed" /\ ~pol.evergreen
           => Drops(OnLandResult(out, land, pol).eff)
<1>1. ASSUME NEW out, NEW pol PROVE OnSubmit(out, pol).state # "landed"
  BY DEF OnSubmit, BlockedTransition, ErrorTransition, NeutralTransition, ErrorStateFor
<1>2. ASSUME NEW out, NEW pol, NEW land,
             OnLandResult(out, land, pol).state = "landed", ~pol.evergreen
      PROVE  Drops(OnLandResult(out, land, pol).eff)
  <2>1. NoChangeTransition(out, pol).state # "landed"
    BY DEF NoChangeTransition
  <2>2. LandFailedTransition(land, pol).state # "landed"
    BY DEF LandFailedTransition, ErrorStateFor
  <2>3. OnLandResult(out, land, pol) = LandedTransition(pol)
    BY <1>2, <2>1, <2>2 DEF OnLandResult
  <2> DEFINE eff == LandedTransition(pol).eff
  <2>4. eff.drop /\ eff.flags = {} /\ eff.watch = "disarm"
    BY <1>2 DEF LandedTransition, NoEffects
  <2> QED BY <2>3, <2>4 DEF Drops
<1> QED BY <1>1, <1>2

\* Where the post-commit effects of a land go on.
LEMMA DropsLater ==
    ASSUME NEW eff, Drops(eff)
    PROVE  Resume(AfterCommit(eff), eff) = [pc |-> "queue", eff |-> eff]
BY DEF Drops, AfterCommit, AfterFlags, Resume

\* A stage of the post-commit effects is not a stage before the commit.
LEMMA ResumedStage ==
    ASSUME NEW stage \in {"idle", "flags", "queue", "drop", "resolve"}, NEW eff
    PROVE  Resume(stage, eff).pc = stage
BY DEF Resume, Idle

\* While the manager is up, every step keeps Leaves.
LEMMA LeavesStep ==
    ASSUME IInv, Leaving, Next, Up, Up', NEW a \in Attempt
    PROVE  Leaves(a)'
<1> USE DEF Leaving
<1>0. /\ lease'[a] = lease[a] \/ (state[a] = "none" /\ handler[a].pc = "idle")
      /\ state[a] # "none" => lease[a].task \in Task /\ lease'[a] = lease[a]
      /\ handler[a].pc # "idle" => state[a] # "none"
  BY EdgesStep DEF Edges, IInv, Typed, Known, KnownHandlers, StoreInv, Leases
<1>b. \A t \in Task : brief'[t].present => brief[t].present
  BY BriefStep DEF BriefsFade
<1>h. handler = [b \in Attempt |-> handler[b]] /\ state = [b \in Attempt |-> state[b]]
  BY DEF IInv, Typed, HandlerInv, StoreInv
<1>1. ASSUME NEW w \in Worker, NEW out \in Submits, SubmitRead(w, out), a = order[w].at,
             state[a] = "running"
      PROVE  Leaves(a)'
  <2> DEFINE pol == SubmitPolicy(lease[a].task)
         phase == OnSubmitPhase(out, FALSE)
  <2>1. \/ handler'[a] = [pc |-> "apply", tr |-> OnSubmit(out, pol)]
        \/ handler'[a] = [pc |-> phase, out |-> out, pol |-> pol]
    BY <1>1, <1>h DEF SubmitRead
  <2>2. phase \in {"apply", "enqueue", "adopt"}
    BY DEF OnSubmitPhase
  <2>3. pol.evergreen <=> lease[a].task \in Evergreen
    BY DEF SubmitPolicy
  <2>4. state'[a] = "running" /\ lease'[a] = lease[a]
    BY <1>1, <1>0 DEF SubmitRead
  <2>5. phase = "apply" =>
          handler'[a] = [pc |-> "apply", tr |-> OnSubmit(out, pol)]
    BY <1>1, <1>h DEF SubmitRead
  <2>8. handler'[a] = [pc |-> phase, out |-> out, pol |-> pol]
        \/ phase = "apply"
    BY <1>1, <1>h DEF SubmitRead
  <2> HIDE DEF pol, phase
  <2>6. CASE phase = "apply"
    <3> DEFINE tr == OnSubmit(out, pol)
    <3>1. tr.state # "landed"
      BY LandedDrops
    <3>2. handler'[a] = [pc |-> "apply", tr |-> tr]
      BY <2>5, <2>6
    <3> HIDE DEF tr
    <3> QED BY <2>4, <3>1, <3>2 DEF Leaves
  <2>7. CASE handler'[a] = [pc |-> phase, out |-> out, pol |-> pol]
             /\ phase # "apply"
    <3>1. handler'[a].pc \in {"enqueue", "adopt"} /\ handler'[a].pol = pol
      BY <2>2, <2>7
    <3>2. lease[a].task \notin Evergreen => ~handler'[a].pol.evergreen
      BY <2>3, <3>1
    <3> QED BY <2>4, <3>1, <3>2 DEF Leaves
  <2> QED BY <2>6, <2>7, <2>8
<1>2. CASE SubmitApply(a)
  <2> DEFINE tr == handler[a].tr
  <2>1. handler[a].pc = "apply" /\ lease'[a] = lease[a]
    BY <1>2, <1>0 DEF SubmitApply
  <2>2. CASE state[a] = "running"
    <3>1. state'[a] = tr.state /\ handler'[a] = Resume(AfterCommit(tr.eff), tr.eff)
      BY <1>2, <2>2, <1>h DEF SubmitApply, Commit
    <3> HIDE DEF tr
    <3>2. handler'[a].pc \in {"idle", "flags", "queue", "drop", "resolve"}
      BY <3>1, NextStages, ResumedStage
    <3>3. lease[a].task \notin Evergreen /\ tr.state = "landed"
            => handler'[a].pc = "queue" /\ handler'[a].eff.drop
      <4> SUFFICES ASSUME lease[a].task \notin Evergreen, tr.state = "landed"
                   PROVE  handler'[a].pc = "queue" /\ handler'[a].eff.drop
        OBVIOUS
      <4>1. Drops(tr.eff)
        BY <2>1 DEF Leaves, tr
      <4> QED BY <3>1, <4>1, DropsLater DEF Drops
    <3> QED BY <2>1, <3>1, <3>2, <3>3 DEF Leaves
  <2>3. CASE state[a] # "running"
    <3>1. state' = state /\ handler'[a] = Idle /\ brief' = brief
      BY <1>2, <2>3, <1>h DEF SubmitApply
    <3> QED BY <2>1, <3>1 DEF Leaves, Idle
  <2> QED BY <2>2, <2>3
<1>3. CASE SubmitAdopt(a)
  <2>1. handler[a].pc = "adopt" /\ lease'[a] = lease[a] /\ state' = state /\ brief' = brief
    BY <1>3, <1>0 DEF SubmitAdopt
  <2>2. PICK land : handler'[a] =
          [pc |-> "apply", tr |-> OnLandResult(handler[a].out, land, handler[a].pol)]
    BY <1>3, <1>h DEF SubmitAdopt
  <2> QED BY <2>1, <2>2, LandedDrops DEF Leaves
<1>4. CASE EnqueueLand(a)
  <2>1. handler[a].pc = "enqueue" /\ lease'[a] = lease[a] /\ brief' = brief
    BY <1>4, <1>0 DEF EnqueueLand
  <2>2. CASE state[a] = "running"
    <3>1. state'[a] = "landing" /\ handler'[a] = [handler[a] EXCEPT !.pc = "landing"]
      BY <1>4, <2>2, <1>h DEF EnqueueLand, OnLandEnqueued
    <3>2. handler[a] \in GoodHandlers
      BY DEF IInv, Typed, HandlerInv
    <3>3. handler'[a].pc = "landing" /\ handler'[a].pol = handler[a].pol
      BY <2>1, <3>1, <3>2 DEF GoodHandlers, Handlers
    <3> QED BY <2>1, <3>1, <3>3 DEF Leaves
  <2>3. CASE state[a] # "running"
    <3>1. state' = state /\ handler'[a] = Idle
      BY <1>4, <2>3, <1>h DEF EnqueueLand
    <3> QED BY <2>1, <3>1 DEF Leaves, Idle
  <2> QED BY <2>2, <2>3
<1>5. CASE CompleteLand(a)
  <2> DEFINE tr == OnLandResult(handler[a].out, result[a], handler[a].pol)
  <2>1. handler[a].pc = "landing" /\ lease'[a] = lease[a] /\ brief' = brief
    BY <1>5, <1>0 DEF CompleteLand
  <2>2. CASE state[a] = "landing"
    <3>1. state'[a] = tr.state /\ handler'[a] = Resume(AfterCommit(tr.eff), tr.eff)
      BY <1>5, <2>2, <1>h DEF CompleteLand, Commit
    <3>2. lease[a].task \notin Evergreen /\ tr.state = "landed" => Drops(tr.eff)
      BY <2>1, LandedDrops DEF Leaves
    <3> HIDE DEF tr
    <3>3. handler'[a].pc \in {"idle", "flags", "queue", "drop", "resolve"}
      BY <3>1, NextStages, ResumedStage
    <3>4. lease[a].task \notin Evergreen /\ tr.state = "landed"
            => handler'[a].pc = "queue" /\ handler'[a].eff.drop
      BY <3>1, <3>2, DropsLater DEF Drops
    <3> QED BY <2>1, <3>1, <3>3, <3>4 DEF Leaves
  <2>3. CASE state[a] # "landing"
    <3>1. state' = state /\ handler'[a] = Idle
      BY <1>5, <2>3, <1>h DEF CompleteLand
    <3> QED BY <2>1, <3>1 DEF Leaves, Idle
  <2> QED BY <2>2, <2>3
<1>6. CASE SetFlags(a)
  <2>1. /\ handler[a].pc = "flags" /\ lease'[a] = lease[a] /\ state' = state
        /\ handler'[a] = Resume(AfterFlags(handler[a].eff), handler[a].eff)
           \/ handler'[a] = Idle
    BY <1>6, <1>0, <1>h DEF SetFlags
  <2>2. handler'[a].pc \in {"idle", "queue", "drop", "resolve"}
    BY <2>1, NextStages, ResumedStage DEF Idle
  <2> QED BY <1>0, <1>b, <2>1, <2>2 DEF Leaves
<1>7. CASE SetQueue(a)
  <2>1. /\ handler[a].pc = "queue" /\ lease'[a] = lease[a] /\ state' = state /\ brief' = brief
        /\ handler'[a] = Resume(AfterQueue(handler[a].eff), handler[a].eff)
    BY <1>7, <1>0, <1>h DEF SetQueue
  <2>2. handler'[a].pc = AfterQueue(handler[a].eff)
    BY <2>1, NextStages, ResumedStage
  <2>3. /\ AfterQueue(handler[a].eff) \in {"idle", "drop", "resolve"}
        /\ handler[a].eff.drop => AfterQueue(handler[a].eff) = "drop"
    BY NextStages DEF AfterQueue
  <2> QED BY <2>1, <2>2, <2>3 DEF Leaves
<1>8. CASE DropBrief(a)
  <2>1. /\ handler[a].pc = "drop" /\ lease'[a] = lease[a] /\ state' = state
        /\ handler'[a] = Resume(AfterDrop(handler[a].eff), handler[a].eff)
    BY <1>8, <1>0, <1>h DEF DropBrief
  <2>2. handler'[a].pc \in {"idle", "resolve"}
    BY <2>1, NextStages, ResumedStage
  <2>3. ~brief'[lease[a].task].present
    BY <1>8, <1>0, <2>1 DEF DropBrief, NoBrief, IInv, Typed, DiskInv
  <2> QED BY <2>1, <2>2, <2>3 DEF Leaves
<1>9. CASE Escalate(a)
  <2>1. /\ handler[a].pc = "resolve" /\ lease'[a] = lease[a] /\ state' = state
        /\ brief' = brief /\ handler'[a] = Idle
    BY <1>9, <1>0, <1>h DEF Escalate
  <2> QED BY <2>1 DEF Leaves, Idle
<1>10. ASSUME NEW c \in Attempt, NEW kind \in ResolveFailures, NEW pushed \in BOOLEAN,
              ReportApply(c, kind, pushed), a \in {c, lease[c].origin}
       PROVE  Leaves(a)'
  <2>1. handler' = handler /\ lease' = lease
    BY <1>10 DEF ReportApply
  <2>2. state[c] # "none" /\ lease[c].origin \in Attempt /\ lease[c].task \in Task
    BY <1>10 DEF ReportApply, IInv, ResolveInv, Typed, Known, KnownResolvers, StoreInv,
                 Leases
  <2>3. lease[a].task = lease[c].task
    BY <1>10, <2>2 DEF SameTask
  <2>4. CASE resolver[c] = "landed" /\ pushed
    <3>1. lease[c].task \notin Evergreen => ~brief'[lease[c].task].present
      BY <1>10, <2>2, <2>4 DEF ReportApply, NoBrief, IInv, Typed, DiskInv
    <3> QED BY <2>1, <2>3, <3>1 DEF Leaves
  <2>5. CASE ~(resolver[c] = "landed" /\ pushed)
    <3>1. brief' = brief /\ (state'[a] = state[a] \/ state'[a] # "landed")
      BY <1>10, <1>h, <2>5 DEF ReportApply, ErrorStateFor
    <3> QED BY <2>1, <3>1 DEF Leaves
  <2> QED BY <2>4, <2>5
<1>11. CASE handler'[a] = handler[a] /\ (state'[a] = state[a] \/ state'[a] # "landed")
  <2>1. CASE state[a] = "none"
    BY <1>11, <1>0, <2>1 DEF Leaves
  <2>2. CASE state[a] # "none"
    BY <1>11, <1>0, <1>b, <2>2 DEF Leaves
  <2> QED BY <2>1, <2>2
<1>12. CASE /\ handler'[a] = handler[a]
            /\ ~SubmitApply(a) /\ ~EnqueueLand(a) /\ ~CompleteLand(a)
  BY <1>10, <1>11, <1>12, StatesStep, NoRecovery DEF StatesMove
<1> QED BY <1>1, <1>2, <1>3, <1>4, <1>5, <1>6, <1>7, <1>8, <1>9, <1>12, HandlersStep, NoRecovery
        DEF HandlersMove

\* A task whose work landed is out of the queue when its submit is answered, unless the
\* manager dies in between: drop_completed_task comes after the commit.
THEOREM LandedLeavesQueueHolds ==
    Spec /\ [](mgr.pc = "up") => []LandedLeavesQueue
<1>1. Init => Leaving
  BY DEF Init, Leaving, SameTask, Leaves, Idle
<1>2. IInv /\ Up /\ Up' /\ Leaving /\ [Next]_vars => Leaving'
  <2> SUFFICES ASSUME IInv, Up, Up', Leaving, [Next]_vars PROVE Leaving'
    OBVIOUS
  <2>1. CASE Next
    BY <2>1, SameTaskStep, LeavesStep DEF Leaving
  <2>2. CASE UNCHANGED vars
    BY <2>2 DEF vars, Leaving, SameTask, Leaves
  <2> QED BY <2>1, <2>2
<1>3. Leaving => LandedLeavesQueue
  BY DEF Leaving, Leaves, LandedLeavesQueue
<1>4. Up <=> mgr.pc = "up"
  BY DEF Up
<1> QED BY <1>1, <1>2, <1>3, <1>4, Invariance, PTL DEF Spec

-----------------------------------------------------------------------------
(* A task whose failures reached the threshold is held                     *)

\* Every counted failure climbs the ladder, and nobody lifts a quarantine.
LadderOnly ==
    /\ "unquarantine" \notin Events
    /\ \A o \in Submits :
         o.status = "error" => o.kind \in EnvironmentKinds \cup {"worker_error", "none"}

\* Counted on top of n, these effects quarantine a task at the threshold.
Stops(eff, n) ==
    eff.progress = "increment" /\ QuarantineAfter > 0 /\ n + 1 >= QuarantineAfter
      => "quarantined" \in eff.flags

\* The counter a submit read is not behind: its task's row does not grow before it.
Counted(a) ==
    LET n == row[lease[a].task].counter IN
    /\ Live(a) /\ handler[a].pc \in {"adopt", "enqueue", "landing"} => n <= handler[a].pol.counter
    /\ Live(a) /\ handler[a].pc = "apply" => Stops(handler[a].tr.eff, n)
    /\ handler[a].pc = "flags" => ~Live(a)

\* The quarantine of a task is about to be written.
Quarantining(t) ==
    \E a \in Attempt : /\ handler[a].pc = "flags" /\ lease[a].task = t
                       /\ "quarantined" \in handler[a].eff.flags

Held(t) == \/ QuarantineAfter = 0 \/ row[t].counter < QuarantineAfter
           \/ ~brief[t].present \/ brief[t].quarantined
           \/ Quarantining(t)

Laddered == (\A a \in Attempt : Counted(a)) /\ (\A t \in Task : Held(t))

\* The ladder quarantines on the last rung, or at once when asked to.
LEMMA LadderStops ==
    ASSUME NEW pol \in Policies, NEW n \in Nat, n <= pol.counter, NEW now, NEW pauses
    PROVE  Stops(FailureLadder(pol, now, pauses), n)
<1>1. pol.counter \in Nat /\ QuarantineAfter \in Nat
  BY LifecycleConstants DEF Policies
<1> DEFINE eff == FailureLadder(pol, now, pauses)
<1>2. CASE now
  <2>1. "quarantined" \in eff.flags
    BY <1>2 DEF FailureLadder, NoEffects
  <2> QED BY <2>1 DEF Stops
<1>3. CASE ~now /\ QuarantineAfter > 0 /\ pol.counter + 1 >= QuarantineAfter
  <2>1. "quarantined" \in eff.flags
    BY <1>3 DEF FailureLadder, NoEffects
  <2> QED BY <2>1 DEF Stops
<1>4. CASE ~(QuarantineAfter > 0 /\ pol.counter + 1 >= QuarantineAfter)
  BY <1>1, <1>4 DEF Stops
<1> QED BY <1>2, <1>3, <1>4

\* Effects that count nothing stop nothing.
LEMMA UncountedStops ==
    ASSUME NEW eff, eff.progress # "increment", NEW n
    PROVE  Stops(eff, n)
BY DEF Stops

\* A smaller count is stopped as well.
LEMMA StopsEarlier ==
    ASSUME NEW eff, NEW n \in Nat, NEW m \in Nat, m <= n, Stops(eff, n)
    PROVE  Stops(eff, m)
<1>1. QuarantineAfter \in Nat
  BY LifecycleConstants
<1> QED BY <1>1 DEF Stops

\* A verdict that needs no git work stops a task that failed once too often.
LEMMA SubmitStops ==
    ASSUME LadderOnly, NEW o \in Submits, NEW pol \in Policies, NEW n \in Nat,
           n <= pol.counter
    PROVE  Stops(OnSubmit(o, pol).eff, n)
<1>1. Stops(BlockedTransition(pol).eff, n)
  <2>1. BlockedTransition(pol).eff.progress = "none"
    BY DEF BlockedTransition, NoEffects
  <2> QED BY <2>1, UncountedStops
<1>2. Stops(NeutralTransition(o).eff, n)
  <2>1. NeutralTransition(o).eff.progress = "none"
    BY DEF NeutralTransition, NoEffects
  <2> QED BY <2>1, UncountedStops
<1>3. ASSUME o.status = "error" PROVE Stops(ErrorTransition(o, pol).eff, n)
  <2> DEFINE kind == IF o.kind = "none" THEN "worker_error" ELSE o.kind
             action == OnFailure(kind, o.quarantine)
  <2>1. action \in {"retry_elsewhere", "retry", "quarantine"}
    BY <1>3 DEF LadderOnly, OnFailure, EnvironmentKinds
  <2>2. CASE action = "retry_elsewhere"
    <3>1. ErrorTransition(o, pol).eff.progress = "none"
      BY <2>2 DEF ErrorTransition, NoEffects
    <3> QED BY <3>1, UncountedStops
  <2>3. CASE action # "retry_elsewhere"
    <3>1. ErrorTransition(o, pol).eff = FailureLadder(pol, o.quarantine, TRUE)
      BY <2>1, <2>3 DEF ErrorTransition
    <3> QED BY <3>1, LadderStops
  <2> QED BY <2>2, <2>3
<1> QED BY <1>1, <1>2, <1>3 DEF OnSubmit

\* So does a land's.
LEMMA LandStops ==
    ASSUME NEW o, NEW pol \in Policies, NEW land, NEW n \in Nat, n <= pol.counter
    PROVE  Stops(OnLandResult(o, land, pol).eff, n)
<1>1. Stops(NoChangeTransition(o, pol).eff, n)
  BY LadderStops DEF NoChangeTransition
<1>2. Stops(LandedTransition(pol).eff, n)
  <2>1. LandedTransition(pol).eff.progress = "reset"
    BY DEF LandedTransition, NoEffects
  <2> QED BY <2>1, UncountedStops
<1>3. Stops(LandFailedTransition(land, pol).eff, n)
  <2>1. LandFailedTransition(land, pol).eff.progress = "none"
    BY DEF LandFailedTransition, NoEffects
  <2> QED BY <2>1, UncountedStops
<1> QED BY <1>1, <1>2, <1>3 DEF OnLandResult

\* What a verdict counts, and where its handler goes on.
LEMMA VerdictCounts ==
    ASSUME IInv, NEW a \in Attempt, state[a] # "none", NEW tr \in Verdicts, Commit(a, tr),
           handler' = [handler EXCEPT ![a] = Resume(AfterCommit(tr.eff), tr.eff)],
           Stops(tr.eff, row[lease[a].task].counter)
    PROVE  LET t == lease[a].task IN
           \/ row'[t].counter <= row[t].counter
           \/ QuarantineAfter = 0 \/ row'[t].counter < QuarantineAfter
           \/ handler'[a].pc = "flags" /\ "quarantined" \in handler'[a].eff.flags
<1> DEFINE t == lease[a].task
           eff == tr.eff
<1>1. t \in Task /\ row \in [Task -> GoodRows] /\ handler \in [Attempt -> GoodHandlers]
  BY DEF IInv, Typed, StoreInv, Leases, RowsInv, HandlerInv
<1>2. eff \in Effects
  BY DEF Verdicts, Transitions
<1>3. row'[t] = ApplyRow(row[t], eff)
  BY <1>1 DEF Commit
<1>4. handler'[a] = Resume(AfterCommit(eff), eff)
  BY <1>1
<1>5. row[t].counter \in Nat /\ QuarantineAfter \in Nat
  BY <1>1, CounterWrites, LifecycleConstants
<1> HIDE DEF t, eff
<1>6. \/ row'[t].counter <= row[t].counter
      \/ eff.progress = "increment" /\ row'[t].counter = row[t].counter + 1
  BY <1>1, <1>2, <1>3, CounterApplied
<1>7. ASSUME "quarantined" \in eff.flags
      PROVE  handler'[a].pc = "flags" /\ handler'[a].eff = eff
  BY <1>4, <1>7 DEF AfterCommit, Resume
<1>8. eff.progress = "increment" /\ QuarantineAfter > 0 /\ row[t].counter + 1 >= QuarantineAfter
        => "quarantined" \in eff.flags
  BY DEF Stops, t, eff
<1>9. \/ row'[t].counter <= row[t].counter
      \/ QuarantineAfter = 0 \/ row'[t].counter < QuarantineAfter
      \/ "quarantined" \in eff.flags
  BY <1>5, <1>6, <1>8
<1>10. \/ row'[t].counter <= row[t].counter
       \/ QuarantineAfter = 0 \/ row'[t].counter < QuarantineAfter
       \/ handler'[a].pc = "flags" /\ "quarantined" \in handler'[a].eff.flags
  BY <1>7, <1>9
<1> QED BY <1>10 DEF t

\* A commit of a live attempt's verdict on the ladder.
LEMMA CountingStep ==
    ASSUME IInv, Laddered, NEW a \in Attempt, Counting(a)
    PROVE  LET t == lease[a].task IN
           /\ ~Live(a)' /\ lease'[a] = lease[a] /\ Live(a)
           /\ \/ row'[t].counter <= row[t].counter
              \/ QuarantineAfter = 0 \/ row'[t].counter < QuarantineAfter
              \/ handler'[a].pc = "flags" /\ "quarantined" \in handler'[a].eff.flags
<1>1. Counted(a) /\ handler[a] \in GoodHandlers /\ state[a] \in LiveStates /\ state[a] # "none"
  BY DEF Laddered, Counting, IInv, Typed, HandlerInv, LiveStates
<1>2. row[lease[a].task].counter \in Nat
  BY <1>1, CounterWrites DEF IInv, Typed, RowsInv, StoreInv, Leases
<1>3. ASSUME NEW tr \in Verdicts, Commit(a, tr) PROVE ~Live(a)'
  <2>1. state'[a] = tr.state /\ tr.state \in TerminalStates
    BY <1>3 DEF Commit, Verdicts, IInv, Typed, StoreInv
  <2> QED BY <2>1 DEF Live, LiveStates, TerminalStates
<1>4. CASE SubmitApply(a) /\ state[a] = "running"
  <2> DEFINE tr == handler[a].tr
  <2>1. /\ Commit(a, tr) /\ UNCHANGED lease /\ handler[a].pc = "apply"
        /\ handler' = [handler EXCEPT ![a] = Resume(AfterCommit(tr.eff), tr.eff)]
    BY <1>4 DEF SubmitApply
  <2>2. tr \in Verdicts
    BY <1>1, <2>1 DEF GoodHandlers
  <2>3. Stops(tr.eff, row[lease[a].task].counter)
    BY <1>1, <2>1 DEF Counted, Live
  <2> HIDE DEF tr
  <2> QED BY <1>1, <1>3, <2>1, <2>2, <2>3, VerdictCounts DEF Live
<1>5. CASE CompleteLand(a) /\ state[a] = "landing"
  <2> DEFINE tr == OnLandResult(handler[a].out, result[a], handler[a].pol)
  <2>1. /\ Commit(a, tr) /\ UNCHANGED lease /\ handler[a].pc = "landing" /\ Returned(a)
        /\ handler' = [handler EXCEPT ![a] = Resume(AfterCommit(tr.eff), tr.eff)]
    BY <1>5 DEF CompleteLand
  <2>2. tr \in Verdicts
    BY <2>1, LandTransitionType DEF LandVerdicts
  <2>3. handler[a].pol \in Policies /\ row[lease[a].task].counter <= handler[a].pol.counter
    BY <1>1, <2>1, HandlerFields DEF Counted, Live
  <2>4. Stops(tr.eff, row[lease[a].task].counter)
    BY <1>2, <2>3, LandStops
  <2> HIDE DEF tr
  <2> QED BY <1>1, <1>3, <2>1, <2>2, <2>4, VerdictCounts DEF Live
<1> QED BY <1>4, <1>5 DEF Counting


\* While the manager is up, every step keeps Counted.
LEMMA CountedStep ==
    ASSUME IInv, LadderOnly, Laddered, Next, Up, Up', NEW a \in Attempt
    PROVE  Counted(a)'
<1> DEFINE t == lease[a].task
<1>1. Counted(a)
  BY DEF Laddered
<1>2. CASE state[a] = "none"
  <2>1. handler[a].pc = "idle"
    BY <1>2 DEF IInv, Typed, Known, KnownHandlers
  <2>2. handler'[a] = handler[a]
    BY <1>2, <2>1, HandlersStep, NoRecovery DEF HandlersMove, SubmitApply, SubmitAdopt, EnqueueLand,
       CompleteLand, SetFlags, SetQueue, DropBrief, Escalate
  <2> QED BY <2>1, <2>2 DEF Counted
<1>3. ASSUME state[a] # "none" PROVE Counted(a)'
  <2>1. /\ t \in Task /\ lease'[a] = lease[a] /\ row[t].counter \in Nat
        /\ handler[a] \in GoodHandlers
        /\ handler = [b \in Attempt |-> handler[b]] /\ state = [b \in Attempt |-> state[b]]
    BY <1>3, EdgesStep, CounterWrites DEF Edges, IInv, Typed, StoreInv, Leases, RowsInv,
       HandlerInv
  <2>2. /\ row' \in [Task -> GoodRows] /\ row'[t].counter \in Nat
    BY <2>1, RowsStep, CounterWrites DEF RowsInv, IInv, Typed
  <2>3. Live(a)' => Live(a)
    BY <1>3, EdgesStep DEF Edges, Live, LiveStates, TerminalStates, ResolvableStates
  <2> HIDE DEF t
  <2>4. ASSUME Live(a) PROVE row'[t].counter <= row[t].counter \/ Counting(a)
    <3>1. ASSUME NEW b \in Attempt, lease[b].task = t, Counting(b) PROVE Counting(a)
      <4>1. Live(b)
        BY <3>1 DEF Counting, Live, LiveStates
      <4>2. b = a
        BY <2>4, <3>1, <4>1 DEF IInv, OneLiveAttempt, t
      <4> QED BY <3>1, <4>2
    <3> QED BY <2>1, <3>1, CounterStep DEF CountersFall
  <2>5. CASE Counting(a)
    <3>1. ~Live(a)'
      BY <2>5, CountingStep
    <3> QED BY <3>1 DEF Counted
  <2>6. ASSUME NEW w \in Worker, NEW o \in Submits, SubmitRead(w, o), a = order[w].at,
               state[a] = "running"
        PROVE  Counted(a)'
    <3> DEFINE pol == SubmitPolicy(t)
               phase == OnSubmitPhase(o, FALSE)
    <3>1. /\ phase = "apply" => handler'[a] = [pc |-> "apply", tr |-> OnSubmit(o, pol)]
          /\ phase # "apply" => handler'[a] = [pc |-> phase, out |-> o, pol |-> pol]
          /\ row' = row
      BY <2>1, <2>6 DEF SubmitRead, t
    <3>2. phase \in {"apply", "enqueue", "adopt"}
      BY DEF OnSubmitPhase
    <3>3. pol \in Policies /\ pol.counter = row[t].counter
      BY <2>1, PolicyTypes DEF IInv, Typed, SubmitPolicy
    <3> HIDE DEF pol, phase
    <3>4. CASE phase = "apply"
      <4> DEFINE tr == OnSubmit(o, pol)
      <4>1. Stops(tr.eff, row[t].counter)
        BY <2>1, <3>3, SubmitStops
      <4>2. handler'[a] = [pc |-> "apply", tr |-> tr]
        BY <3>1, <3>4
      <4> HIDE DEF tr
      <4>3. handler'[a].pc = "apply" /\ handler'[a].tr = tr
        BY <4>2
      <4>4. Stops(handler'[a].tr.eff, row'[lease'[a].task].counter)
        BY <2>1, <3>1, <4>1, <4>3 DEF t
      <4> QED BY <4>3, <4>4 DEF Counted
    <3>5. CASE phase # "apply"
      <4>1. handler'[a].pc \in {"enqueue", "adopt"} /\ handler'[a].pol = pol
        BY <3>1, <3>2, <3>5
      <4>2. row'[lease'[a].task].counter <= handler'[a].pol.counter
        BY <2>1, <3>1, <3>3, <4>1 DEF t
      <4> QED BY <4>1, <4>2 DEF Counted
    <3> QED BY <3>4, <3>5
  <2>7. CASE SubmitApply(a) /\ state[a] # "running"
    <3>1. handler'[a].pc = "idle"
      BY <2>1, <2>7 DEF SubmitApply, Idle
    <3> QED BY <3>1 DEF Counted
  <2>8. CASE SubmitAdopt(a)
    <3>1. /\ handler[a].pc = "adopt" /\ row' = row /\ state' = state
          /\ \E land : handler'[a] =
               [pc |-> "apply", tr |-> OnLandResult(handler[a].out, land, handler[a].pol)]
      BY <2>1, <2>8 DEF SubmitAdopt
    <3>2. PICK land : handler'[a] =
            [pc |-> "apply", tr |-> OnLandResult(handler[a].out, land, handler[a].pol)]
      BY <3>1
    <3> DEFINE tr == OnLandResult(handler[a].out, land, handler[a].pol)
    <3>3. handler[a].pol \in Policies
      BY <2>1, <3>1, HandlerFields
    <3>4. Live(a) => Stops(tr.eff, row[t].counter)
      BY <1>1, <2>1, <3>1, <3>3, LandStops DEF Counted, t
    <3>5. handler'[a] = [pc |-> "apply", tr |-> tr]
      BY <3>2
    <3> HIDE DEF tr
    <3>6. handler'[a].pc = "apply" /\ handler'[a].tr = tr
      BY <3>5
    <3>7. Live(a)' => Stops(handler'[a].tr.eff, row'[lease'[a].task].counter)
      BY <2>1, <2>3, <3>1, <3>4, <3>6 DEF t
    <3> QED BY <3>6, <3>7 DEF Counted
  <2>9. CASE EnqueueLand(a)
    <3>1. handler[a].pc = "enqueue" /\ row' = row
      BY <2>9 DEF EnqueueLand
    <3>2. CASE state[a] = "running"
      <4>1. handler'[a] = [handler[a] EXCEPT !.pc = "landing"]
        BY <2>1, <2>9, <3>2 DEF EnqueueLand
      <4>2. handler'[a].pc = "landing" /\ handler'[a].pol = handler[a].pol
        BY <2>1, <3>1, <4>1 DEF GoodHandlers, Handlers
      <4>3. row[t].counter <= handler[a].pol.counter
        BY <1>1, <3>1, <3>2 DEF Counted, Live, LiveStates, t
      <4>4. row'[lease'[a].task].counter <= handler'[a].pol.counter
        BY <2>1, <3>1, <4>2, <4>3 DEF t
      <4> QED BY <4>2, <4>4 DEF Counted
    <3>3. CASE state[a] # "running"
      <4>1. handler'[a].pc = "idle"
        BY <2>1, <2>9, <3>3 DEF EnqueueLand, Idle
      <4> QED BY <4>1 DEF Counted
    <3> QED BY <3>2, <3>3
  <2>10. CASE CompleteLand(a) /\ state[a] # "landing"
    <3>1. handler'[a].pc = "idle"
      BY <2>1, <2>10 DEF CompleteLand, Idle
    <3> QED BY <3>1 DEF Counted
  <2>11. CASE SetFlags(a) \/ SetQueue(a) \/ DropBrief(a) \/ Escalate(a)
    <3>1. handler'[a].pc \in {"idle", "queue", "drop", "resolve"}
      <4>1. CASE SetFlags(a)
        BY <2>1, <4>1, NextStages, ResumedStage DEF SetFlags, Idle
      <4>2. CASE SetQueue(a)
        BY <2>1, <4>2, NextStages, ResumedStage DEF SetQueue
      <4>3. CASE DropBrief(a)
        BY <2>1, <4>3, NextStages, ResumedStage DEF DropBrief
      <4>4. CASE Escalate(a)
        BY <2>1, <4>4 DEF Escalate, Idle
      <4> QED BY <2>11, <4>1, <4>2, <4>3, <4>4
    <3> QED BY <3>1 DEF Counted
  <2>12. CASE handler'[a] = handler[a] /\ ~Counting(a)
    <3>1. Live(a)' => row'[t].counter <= row[t].counter
      BY <2>3, <2>4, <2>12
    <3>2. handler[a].pc = "flags" => ~Live(a)'
      BY <1>1, <2>3 DEF Counted
    <3>3. Live(a)' /\ handler[a].pc = "apply" => Stops(handler[a].tr.eff, row'[t].counter)
      BY <1>1, <2>1, <2>2, <2>3, <3>1, StopsEarlier DEF Counted, t
    <3>4. Live(a)' /\ handler[a].pc \in {"adopt", "enqueue", "landing"}
            => row'[t].counter <= handler[a].pol.counter
      <4>1. handler[a].pc \in {"adopt", "enqueue", "landing"} => handler[a].pol.counter \in Nat
        BY <2>1, HandlerFields DEF Policies
      <4>2. Live(a)' /\ handler[a].pc \in {"adopt", "enqueue", "landing"}
              => row[t].counter <= handler[a].pol.counter
        BY <1>1, <2>3 DEF Counted, t
      <4> QED BY <2>1, <2>2, <3>1, <4>1, <4>2
    <3> QED BY <2>1, <2>12, <3>2, <3>3, <3>4 DEF Counted, t
  <2> QED BY <2>5, <2>6, <2>7, <2>8, <2>9, <2>10, <2>11, <2>12, HandlersStep, NoRecovery
          DEF HandlersMove, Counting
<1> QED BY <1>2, <1>3

\* While the manager is up, every step keeps Held.
LEMMA HeldStep ==
    ASSUME IInv, LadderOnly, Laddered, Next, Up, Up', NEW t \in Task
    PROVE  Held(t)'
<1>1. /\ Held(t) /\ row[t].counter \in Nat /\ row'[t].counter \in Nat
      /\ QuarantineAfter \in Nat
  BY RowsStep, CounterWrites, LifecycleConstants DEF Laddered, IInv, Typed, RowsInv
<1>2. brief'[t].present => /\ brief[t].present
                           /\ brief[t].quarantined => brief'[t].quarantined
  BY BriefStep DEF BriefsFade, LadderOnly
<1>3. ASSUME Quarantining(t), brief'[t].present
      PROVE  Quarantining(t)' \/ brief'[t].quarantined
  <2>1. PICK a \in Attempt : /\ handler[a].pc = "flags" /\ lease[a].task = t
                             /\ "quarantined" \in handler[a].eff.flags
    BY <1>3 DEF Quarantining
  <2>2. state[a] # "none" /\ ~Live(a) /\ lease'[a] = lease[a]
    BY <2>1, EdgesStep DEF Edges, Laddered, Counted, IInv, Typed, Known, KnownHandlers
  <2>3. CASE handler'[a] = handler[a]
    BY <2>1, <2>2, <2>3 DEF Quarantining
  <2>4. CASE SetFlags(a)
    <3>1. brief'[t] = Flagged(brief[t], handler[a].eff.flags)
      BY <1>2, <1>3, <2>1, <2>4 DEF SetFlags, IInv, Typed, DiskInv
    <3> DEFINE flags == handler[a].eff.flags
    <3>2. "quarantined" \in flags
      BY <2>1
    <3> HIDE DEF flags
    <3>3. Flagged(brief[t], flags).quarantined
      BY <3>2 DEF Flagged
    <3> QED BY <3>1, <3>3 DEF flags
  <2> QED BY <2>1, <2>2, <2>3, <2>4, HandlersStep, NoRecovery
          DEF HandlersMove, SubmitApply, SubmitAdopt, EnqueueLand, CompleteLand, SetQueue,
              DropBrief, Escalate, Live, LiveStates
<1>4. CASE row'[t].counter <= row[t].counter
  BY <1>1, <1>2, <1>3, <1>4 DEF Held
<1>5. ASSUME NEW a \in Attempt, lease[a].task = t, Counting(a)
      PROVE  \/ row'[t].counter <= row[t].counter
             \/ Held(t)'
  <2>1. /\ lease'[a] = lease[a]
        /\ \/ row'[t].counter <= row[t].counter
           \/ QuarantineAfter = 0 \/ row'[t].counter < QuarantineAfter
           \/ handler'[a].pc = "flags" /\ "quarantined" \in handler'[a].eff.flags
    BY <1>5, CountingStep
  <2> QED BY <1>5, <2>1 DEF Held, Quarantining
<1> QED BY <1>4, <1>5, CounterStep DEF CountersFall

\* A task that failed QuarantineAfter times on the ladder is not handed out again before
\* an operator releases it: the threshold is checked against the counter the submit read,
\* and the increment is made by a later statement.
THEOREM StuckTaskHeldHolds ==
    ASSUME LadderOnly
    PROVE  Spec /\ [](mgr.pc = "up") => []StuckTaskHeld
<1>1. Init => Laddered
  <2> SUFFICES ASSUME Init PROVE Laddered
    OBVIOUS
  <2>1. QuarantineAfter \in Nat
    BY LifecycleConstants
  <2>2. ASSUME NEW a \in Attempt PROVE Counted(a)
    BY <2>2 DEF Init, Counted, Idle
  <2>3. ASSUME NEW t \in Task PROVE Held(t)
    BY <2>1, <2>3 DEF Init, Held, NoRow
  <2> QED BY <2>2, <2>3 DEF Laddered
<1>2. IInv /\ Up /\ Up' /\ Laddered /\ [Next]_vars => Laddered'
  <2> SUFFICES ASSUME IInv, Up, Up', Laddered, [Next]_vars PROVE Laddered'
    OBVIOUS
  <2>1. CASE Next
    <3>1. \A a \in Attempt : Counted(a)'
      BY <2>1, CountedStep
    <3>2. \A t \in Task : Held(t)'
      BY <2>1, HeldStep
    <3> QED BY <3>1, <3>2 DEF Laddered
  <2>2. CASE UNCHANGED vars
    BY <2>2 DEF vars, Laddered, Counted, Held, Quarantining, Live
  <2> QED BY <2>1, <2>2
<1>3. Laddered => StuckTaskHeld
  <2> SUFFICES ASSUME Laddered, NEW t \in Dispatchable
               PROVE  \/ QuarantineAfter = 0 \/ row[t].counter < QuarantineAfter
                      \/ \E a \in Attempt : handler[a].pc = "flags" /\ lease[a].task = t
    BY DEF StuckTaskHeld
  <2>1. t \in Task /\ brief[t].present /\ ~brief[t].quarantined
    BY DEF Dispatchable, Candidates
  <2> QED BY <2>1 DEF Laddered, Held, Quarantining
<1>4. Up <=> mgr.pc = "up"
  BY DEF Up
<1> QED BY <1>1, <1>2, <1>3, <1>4, Invariance, PTL DEF Spec

-----------------------------------------------------------------------------
(* Who writes the logs, the branches, the land jobs and the orders         *)

\* What the manager's clone pulls, pushes and appends.
LogsMove ==
    \/ UNCHANGED <<main, ahead>>
    \/ LockFree /\ main' = main \o ahead /\ ahead' = <<>>
    \/ \E a \in Attempt : \/ LandSync(a) \/ LandPush(a)
                          \/ \E land \in LandReplies : LandSquash(a, land)
    \/ \E c \in Commits : c.trailer = 0 /\ main' = Append(main, c) /\ ahead' = ahead

\* Only a land, a pull, an agent and a resolver write the logs.
LEMMA LogsStep ==
    ASSUME IInv, Next
    PROVE  LogsMove
<1>0. UNCHANGED <<main, ahead>> => LogsMove
  BY DEF LogsMove
<1>1. ASSUME NEW w \in Worker, WorkerStep(w) PROVE LogsMove
  <2>1. CASE \/ PollPick(w)
             \/ LeaseCreate(w)
             \/ LeaseLost(w)
             \/ LeaseDocsBlocked(w)
             \/ SetupWorktree(w)
             \/ AgentCommits(w)
             \/ AgentFinishes(w)
             \/ WorkerDies(w)
             \/ Heartbeat(w)
             \/ SubmitLost(w)
             \/ CooldownEnds(w)
             \/ (\E out \in Submits : SubmitRead(w, out))
    BY <2>1, <1>0 DEF AgentCommits, AgentFinishes, CooldownEnds, Heartbeat,
       LeaseCreate, LeaseDocsBlocked, LeaseLost, PollPick, SetupWorktree,
       SubmitLost, SubmitRead, WorkerDies
  <2>2. ASSUME NEW synced \in BOOLEAN, LeaseClear(w, synced)
       PROVE  LogsMove
    BY <2>2 DEF LeaseClear, LogsMove
  <2>3. CASE AgentLands(w)
    <3> DEFINE c == [by |-> order[w].at, trailer |-> 0, work |-> "done"]
    <3>1. main' = Append(main, c) /\ ahead' = ahead
      BY <2>3 DEF AgentLands
    <3>2. c \in Commits
      BY <2>3 DEF AgentLands, Commits, IInv, Typed, ProcessInv, Orders
    <3>3. c.trailer = 0
      OBVIOUS
    <3> HIDE DEF c
    <3> QED BY <3>1, <3>2, <3>3 DEF LogsMove
  <2> QED
    BY <1>1, <2>1, <2>2, <2>3 DEF WorkerStep
<1>2. ASSUME NEW a \in Attempt, AttemptStep(a) PROVE LogsMove
  <2>1. CASE \/ SubmitApply(a)
             \/ SubmitAdopt(a)
             \/ EnqueueLand(a)
             \/ CompleteLand(a)
             \/ LandAdopt(a)
             \/ LandTeardown(a)
             \/ (\E land \in LandReplies : LandRefuse(a, land))
             \/ SetFlags(a)
             \/ SetQueue(a)
             \/ DropBrief(a)
             \/ DeadlinePasses(a)
             \/ ExpireDeadline(a)
             \/ SweepAbort(a)
    BY <2>1, <1>0 DEF CompleteLand, DeadlinePasses, DropBrief, EnqueueLand,
       ExpireDeadline, LandAdopt, LandRefuse, LandTeardown, SetFlags,
       SetQueue, SubmitAdopt, SubmitApply, SweepAbort
  <2>2. CASE LandSync(a)
    BY <2>2 DEF LogsMove
  <2>3. CASE LandPush(a)
    BY <2>3 DEF LogsMove
  <2>4. ASSUME NEW land \in LandReplies, LandSquash(a, land)
       PROVE  LogsMove
    BY <2>4 DEF LogsMove
  <2> QED
    BY <1>2, <2>1, <2>2, <2>3, <2>4 DEF AttemptStep
<1>3. ASSUME NEW a \in Attempt, ResolveStep(a) PROVE LogsMove
  <2>1. CASE \/ Escalate(a)
             \/ Resolve(a)
             \/ SpawnResolve(a)
             \/ SpawnFails(a)
             \/ ResolverFails(a)
             \/ ReportLost(a)
             \/ ReportFence(a)
    BY <2>1, <1>0 DEF Escalate, ReportFence, ReportLost, Resolve,
       ResolverFails, SpawnFails, SpawnResolve
  <2>2. CASE ResolverLands(a)
    <3> DEFINE b == branch[lease[a].task]
               c == [by |-> b.by, trailer |-> 0, work |-> b.work]
    <3>1. main' = Append(main, c) /\ ahead' = ahead /\ HasCommits(b)
      BY <2>2 DEF ResolverLands
    <3>2. b \in GoodBranches
      BY <2>2 DEF ResolverLands, IInv, Typed, Known, KnownResolvers, StoreInv, Leases, DiskInv
    <3>3. c \in Commits
      BY <3>1, <3>2 DEF GoodBranches, Branches, HasCommits, Commits
    <3>4. c.trailer = 0
      OBVIOUS
    <3> HIDE DEF c
    <3> QED BY <3>1, <3>3, <3>4 DEF LogsMove
  <2>3. ASSUME NEW kind \in ResolveFailures, NEW pushed \in BOOLEAN, ReportApply(a, kind, pushed)
       PROVE  LogsMove
    BY <2>3 DEF ReportApply, PushResolved, LogsMove
  <2> QED
    BY <1>3, <2>1, <2>2, <2>3 DEF ResolveStep
<1>4. ASSUME NEW t \in Task, BackoffElapses(t) \/ GcBranch(t) PROVE LogsMove
  <2>1. CASE \/ BackoffElapses(t)
             \/ GcBranch(t)
    BY <2>1, <1>0 DEF BackoffElapses, GcBranch
  <2> QED
    BY <1>4, <2>1
<1>5. CASE OperatorStep
  <2>1. CASE \/ Play
             \/ Pause
             \/ SweepEnd
             \/ (\E kind \in {"stop", "skip"} : SweepBegin(kind))
             \/ (\E t \in Task : Retry(t))
             \/ (\E t \in Task : Unquarantine(t))
             \/ (\E t \in Task : Release(t))
             \/ (\E t \in Task : Delete(t))
    BY <2>1, <1>0 DEF Delete, Pause, Play, Release, Retry, SweepBegin,
       SweepEnd, Unflag, Unquarantine
  <2> QED
    BY <1>5, <2>1 DEF OperatorStep
<1>6. CASE RecoveryStep
  <2>1. CASE \/ Crash
             \/ Restart
             \/ RecoverDrop
             \/ RecoveryDone
             \/ (\E a \in Attempt : RecoverLanded(a))
             \/ (\E a \in Attempt : RecoverReenqueue(a))
             \/ (\E a \in Attempt : RecoverReland(a))
             \/ (\E a \in Attempt : RecoverPark(a))
    BY <2>1, <1>0 DEF Crash, RecoverDrop, RecoverLanded, RecoverPark,
       RecoverReenqueue, RecoverReland, RecoveryDone, Restart
  <2> QED
    BY <1>6, <2>1 DEF RecoveryStep
<1> QED
  BY <1>1, <1>2, <1>3, <1>4, <1>5, <1>6 DEF Next

\* A land's result is written by the job and taken by whoever waits for it.
ResultsMove ==
    \A a \in Attempt :
        \/ result'[a] = result[a]
        \/ LandAdopt(a) \/ LandSync(a) \/ LandPush(a)
        \/ \E land \in LandReplies : LandSquash(a, land) \/ LandRefuse(a, land)
        \/ result'[a] = NoResult /\ (CompleteLand(a) \/ RecoverReland(a) \/ Crash)

\* Nobody else touches a result.
LEMMA ResultsStep ==
    ASSUME IInv, Next
    PROVE  ResultsMove
<1>r. result = [b \in Attempt |-> result[b]]
  BY DEF IInv, Typed, LandInv
<1>0. UNCHANGED result => ResultsMove
  BY DEF ResultsMove
<1>1. ASSUME NEW w \in Worker, WorkerStep(w) PROVE ResultsMove
  <2>1. CASE \/ PollPick(w)
             \/ (\E synced \in BOOLEAN : LeaseClear(w, synced))
             \/ LeaseCreate(w)
             \/ LeaseLost(w)
             \/ LeaseDocsBlocked(w)
             \/ SetupWorktree(w)
             \/ AgentCommits(w)
             \/ AgentFinishes(w)
             \/ AgentLands(w)
             \/ WorkerDies(w)
             \/ Heartbeat(w)
             \/ SubmitLost(w)
             \/ CooldownEnds(w)
             \/ (\E out \in Submits : SubmitRead(w, out))
    BY <2>1, <1>0 DEF AgentCommits, AgentFinishes, AgentLands, CooldownEnds,
       Heartbeat, LeaseClear, LeaseCreate, LeaseDocsBlocked, LeaseLost,
       PollPick, SetupWorktree, SubmitLost, SubmitRead, WorkerDies
  <2> QED
    BY <1>1, <2>1 DEF WorkerStep
<1>2. ASSUME NEW a \in Attempt, AttemptStep(a) PROVE ResultsMove
  <2>1. CASE \/ SubmitApply(a)
             \/ SubmitAdopt(a)
             \/ EnqueueLand(a)
             \/ LandTeardown(a)
             \/ SetFlags(a)
             \/ SetQueue(a)
             \/ DropBrief(a)
             \/ DeadlinePasses(a)
             \/ ExpireDeadline(a)
             \/ SweepAbort(a)
    BY <2>1, <1>0 DEF DeadlinePasses, DropBrief, EnqueueLand, ExpireDeadline,
       LandTeardown, SetFlags, SetQueue, SubmitAdopt, SubmitApply, SweepAbort
  <2>2. CASE CompleteLand(a)
    <3>1. \A b \in Attempt \ {a} : result'[b] = result[b]
      BY <2>2, <1>r DEF CompleteLand
    <3>2. result'[a] = NoResult
      BY <2>2, <1>r DEF CompleteLand
    <3> QED BY <2>2, <3>1, <3>2 DEF ResultsMove
  <2>3. CASE LandSync(a)
    <3>1. \A b \in Attempt \ {a} : result'[b] = result[b]
      BY <2>3, <1>r DEF LandSync
    <3> QED BY <2>3, <3>1 DEF ResultsMove
  <2>4. CASE LandAdopt(a)
    <3>1. \A b \in Attempt \ {a} : result'[b] = result[b]
      BY <2>4, <1>r DEF LandAdopt
    <3> QED BY <2>4, <3>1 DEF ResultsMove
  <2>5. CASE LandPush(a)
    <3>1. \A b \in Attempt \ {a} : result'[b] = result[b]
      BY <2>5, <1>r DEF LandPush
    <3> QED BY <2>5, <3>1 DEF ResultsMove
  <2>6. ASSUME NEW land \in LandReplies, LandSquash(a, land)
       PROVE  ResultsMove
    <3>1. \A b \in Attempt \ {a} : result'[b] = result[b]
      BY <2>6, <1>r DEF LandSquash
    <3> QED BY <2>6, <3>1 DEF ResultsMove
  <2>7. ASSUME NEW land \in LandReplies, LandRefuse(a, land)
       PROVE  ResultsMove
    <3>1. \A b \in Attempt \ {a} : result'[b] = result[b]
      BY <2>7, <1>r DEF LandRefuse
    <3> QED BY <2>7, <3>1 DEF ResultsMove
  <2> QED
    BY <1>2, <2>1, <2>2, <2>3, <2>4, <2>5, <2>6, <2>7 DEF AttemptStep
<1>3. ASSUME NEW a \in Attempt, ResolveStep(a) PROVE ResultsMove
  <2>1. CASE \/ Escalate(a)
             \/ Resolve(a)
             \/ SpawnResolve(a)
             \/ SpawnFails(a)
             \/ ResolverLands(a)
             \/ ResolverFails(a)
             \/ ReportLost(a)
             \/ ReportFence(a)
             \/ (\E kind \in ResolveFailures, pushed \in BOOLEAN : ReportApply(a, kind, pushed))
    BY <2>1, <1>0 DEF Escalate, ReportApply, ReportFence, ReportLost, Resolve,
       ResolverFails, ResolverLands, SpawnFails, SpawnResolve
  <2> QED
    BY <1>3, <2>1 DEF ResolveStep
<1>4. ASSUME NEW t \in Task, BackoffElapses(t) \/ GcBranch(t) PROVE ResultsMove
  <2>1. CASE \/ BackoffElapses(t)
             \/ GcBranch(t)
    BY <2>1, <1>0 DEF BackoffElapses, GcBranch
  <2> QED
    BY <1>4, <2>1
<1>5. CASE OperatorStep
  <2>1. CASE \/ Play
             \/ Pause
             \/ SweepEnd
             \/ (\E kind \in {"stop", "skip"} : SweepBegin(kind))
             \/ (\E t \in Task : Retry(t))
             \/ (\E t \in Task : Unquarantine(t))
             \/ (\E t \in Task : Release(t))
             \/ (\E t \in Task : Delete(t))
    BY <2>1, <1>0 DEF Delete, Pause, Play, Release, Retry, SweepBegin,
       SweepEnd, Unflag, Unquarantine
  <2> QED
    BY <1>5, <2>1 DEF OperatorStep
<1>6. CASE RecoveryStep
  <2>1. CASE \/ Restart
             \/ RecoverDrop
             \/ RecoveryDone
             \/ (\E a \in Attempt : RecoverLanded(a))
             \/ (\E a \in Attempt : RecoverReenqueue(a))
             \/ (\E a \in Attempt : RecoverPark(a))
    BY <2>1, <1>0 DEF RecoverDrop, RecoverLanded, RecoverPark,
       RecoverReenqueue, RecoveryDone, Restart
  <2>2. CASE Crash
    BY <2>2 DEF Crash, ResultsMove
  <2>3. ASSUME NEW a \in Attempt, RecoverReland(a)
       PROVE  ResultsMove
    <3>1. \A b \in Attempt \ {a} : result'[b] = result[b]
      BY <2>3, <1>r DEF RecoverReland
    <3>2. result'[a] = NoResult
      BY <2>3, <1>r DEF RecoverReland
    <3> QED BY <2>3, <3>1, <3>2 DEF ResultsMove
  <2> QED
    BY <1>6, <2>1, <2>2, <2>3 DEF RecoveryStep
<1> QED
  BY <1>1, <1>2, <1>3, <1>4, <1>5, <1>6 DEF Next

\* A task's branch is cut and written by its worker, and taken away with the work.
BranchesMove ==
    \A t \in Task :
        \/ branch'[t] = branch[t]
        \/ \E w \in Worker : order[w].pc # "idle" /\ OrderTask(w) = t
        \/ \E a \in Attempt : /\ lease[a].task = t
                              /\ \/ SubmitAdopt(a) \/ LandAdopt(a) \/ LandTeardown(a)
                                 \/ ResolverLands(a)
        \/ GcBranch(t)

\* Nobody else touches a branch.
LEMMA BranchesStep ==
    ASSUME IInv, Next
    PROVE  BranchesMove
<1>b. branch = [t \in Task |-> branch[t]]
  BY DEF IInv, Typed, DiskInv
<1>0. UNCHANGED branch => BranchesMove
  BY DEF BranchesMove
<1>1. ASSUME NEW w \in Worker, WorkerStep(w) PROVE BranchesMove
  <2>1. CASE \/ PollPick(w)
             \/ (\E synced \in BOOLEAN : LeaseClear(w, synced))
             \/ LeaseCreate(w)
             \/ LeaseLost(w)
             \/ LeaseDocsBlocked(w)
             \/ WorkerDies(w)
             \/ Heartbeat(w)
             \/ SubmitLost(w)
             \/ CooldownEnds(w)
             \/ (\E out \in Submits : SubmitRead(w, out))
    BY <2>1, <1>0 DEF CooldownEnds, Heartbeat, LeaseClear, LeaseCreate,
       LeaseDocsBlocked, LeaseLost, PollPick, SubmitLost, SubmitRead,
       WorkerDies
  <2>2. CASE SetupWorktree(w)
    <3>1. order[w].pc # "idle" /\ \A t \in Task \ {OrderTask(w)} : branch'[t] = branch[t]
      BY <2>2, <1>b DEF SetupWorktree
    <3> QED BY <3>1 DEF BranchesMove
  <2>3. CASE AgentCommits(w)
    <3>1. order[w].pc # "idle" /\ \A t \in Task \ {OrderTask(w)} : branch'[t] = branch[t]
      BY <2>3, <1>b DEF AgentCommits
    <3> QED BY <3>1 DEF BranchesMove
  <2>4. CASE AgentFinishes(w)
    <3>1. order[w].pc # "idle" /\ \A t \in Task \ {OrderTask(w)} : branch'[t] = branch[t]
      BY <2>4, <1>b DEF AgentFinishes
    <3> QED BY <3>1 DEF BranchesMove
  <2>5. CASE AgentLands(w)
    <3>1. order[w].pc # "idle" /\ \A t \in Task \ {OrderTask(w)} : branch'[t] = branch[t]
      BY <2>5, <1>b DEF AgentLands
    <3> QED BY <3>1 DEF BranchesMove
  <2> QED
    BY <1>1, <2>1, <2>2, <2>3, <2>4, <2>5 DEF WorkerStep
<1>2. ASSUME NEW a \in Attempt, AttemptStep(a) PROVE BranchesMove
  <2>1. CASE \/ SubmitApply(a)
             \/ EnqueueLand(a)
             \/ CompleteLand(a)
             \/ LandSync(a)
             \/ LandPush(a)
             \/ (\E land \in LandReplies : LandSquash(a, land))
             \/ (\E land \in LandReplies : LandRefuse(a, land))
             \/ SetFlags(a)
             \/ SetQueue(a)
             \/ DropBrief(a)
             \/ DeadlinePasses(a)
             \/ ExpireDeadline(a)
             \/ SweepAbort(a)
    BY <2>1, <1>0 DEF CompleteLand, DeadlinePasses, DropBrief, EnqueueLand,
       ExpireDeadline, LandPush, LandRefuse, LandSquash, LandSync, SetFlags,
       SetQueue, SubmitApply, SweepAbort
  <2>2. CASE SubmitAdopt(a)
    <3>1. \A t \in Task \ {lease[a].task} : branch'[t] = branch[t]
      BY <2>2, <1>b DEF SubmitAdopt
    <3> QED BY <2>2, <3>1 DEF BranchesMove
  <2>3. CASE LandAdopt(a)
    <3>1. \A t \in Task \ {lease[a].task} : branch'[t] = branch[t]
      BY <2>3, <1>b DEF LandAdopt
    <3> QED BY <2>3, <3>1 DEF BranchesMove
  <2>4. CASE LandTeardown(a)
    <3>1. \A t \in Task \ {lease[a].task} : branch'[t] = branch[t]
      BY <2>4, <1>b DEF LandTeardown
    <3> QED BY <2>4, <3>1 DEF BranchesMove
  <2> QED
    BY <1>2, <2>1, <2>2, <2>3, <2>4 DEF AttemptStep
<1>3. ASSUME NEW a \in Attempt, ResolveStep(a) PROVE BranchesMove
  <2>1. CASE \/ Escalate(a)
             \/ Resolve(a)
             \/ SpawnResolve(a)
             \/ SpawnFails(a)
             \/ ResolverFails(a)
             \/ ReportLost(a)
             \/ ReportFence(a)
             \/ (\E kind \in ResolveFailures, pushed \in BOOLEAN : ReportApply(a, kind, pushed))
    BY <2>1, <1>0 DEF Escalate, ReportApply, ReportFence, ReportLost, Resolve,
       ResolverFails, SpawnFails, SpawnResolve
  <2>2. CASE ResolverLands(a)
    <3>1. \A t \in Task \ {lease[a].task} : branch'[t] = branch[t]
      BY <2>2, <1>b DEF ResolverLands
    <3> QED BY <2>2, <3>1 DEF BranchesMove
  <2> QED
    BY <1>3, <2>1, <2>2 DEF ResolveStep
<1>4. ASSUME NEW t \in Task, BackoffElapses(t) \/ GcBranch(t) PROVE BranchesMove
  <2>1. CASE BackoffElapses(t)
    BY <2>1, <1>0 DEF BackoffElapses
  <2>2. CASE GcBranch(t)
    <3>1. \A u \in Task \ {t} : branch'[u] = branch[u]
      BY <2>2, <1>b DEF GcBranch
    <3> QED BY <2>2, <3>1 DEF BranchesMove
  <2> QED
    BY <1>4, <2>1, <2>2
<1>5. CASE OperatorStep
  <2>1. CASE \/ Play
             \/ Pause
             \/ SweepEnd
             \/ (\E kind \in {"stop", "skip"} : SweepBegin(kind))
             \/ (\E t \in Task : Retry(t))
             \/ (\E t \in Task : Unquarantine(t))
             \/ (\E t \in Task : Release(t))
             \/ (\E t \in Task : Delete(t))
    BY <2>1, <1>0 DEF Delete, Pause, Play, Release, Retry, SweepBegin,
       SweepEnd, Unflag, Unquarantine
  <2> QED
    BY <1>5, <2>1 DEF OperatorStep
<1>6. CASE RecoveryStep
  <2>1. CASE \/ Crash
             \/ Restart
             \/ RecoverDrop
             \/ RecoveryDone
             \/ (\E a \in Attempt : RecoverLanded(a))
             \/ (\E a \in Attempt : RecoverReenqueue(a))
             \/ (\E a \in Attempt : RecoverReland(a))
             \/ (\E a \in Attempt : RecoverPark(a))
    BY <2>1, <1>0 DEF Crash, RecoverDrop, RecoverLanded, RecoverPark,
       RecoverReenqueue, RecoverReland, RecoveryDone, Restart
  <2> QED
    BY <1>6, <2>1 DEF RecoveryStep
<1> QED
  BY <1>1, <1>2, <1>3, <1>4, <1>5, <1>6 DEF Next

\* Land jobs are queued by a submit or by recovery, and leave at the head.
JobsMove ==
    \/ jobs' = jobs
    \/ \E a \in Attempt : /\ EnqueueLand(a) /\ state[a] = "running"
                          /\ jobs' = Append(jobs, a)
    \/ \E a \in Attempt :
         /\ jobs # <<>> /\ a = Head(jobs) /\ jobs' = Tail(jobs)
         /\ \/ LandAdopt(a) \/ LandTeardown(a)
            \/ \E land \in LandReplies : LandRefuse(a, land)
    \/ Crash /\ jobs' = <<>>
    \/ \E a \in Attempt : RecoverReenqueue(a) /\ jobs' = <<a>>

\* Nobody else touches the queue of jobs.
LEMMA QueueStep ==
    ASSUME IInv, Next
    PROVE  JobsMove
<1>0. UNCHANGED jobs => JobsMove
  BY DEF JobsMove
<1>1. ASSUME NEW w \in Worker, WorkerStep(w) PROVE JobsMove
  <2>1. CASE \/ PollPick(w)
             \/ (\E synced \in BOOLEAN : LeaseClear(w, synced))
             \/ LeaseCreate(w)
             \/ LeaseLost(w)
             \/ LeaseDocsBlocked(w)
             \/ SetupWorktree(w)
             \/ AgentCommits(w)
             \/ AgentFinishes(w)
             \/ AgentLands(w)
             \/ WorkerDies(w)
             \/ Heartbeat(w)
             \/ SubmitLost(w)
             \/ CooldownEnds(w)
             \/ (\E out \in Submits : SubmitRead(w, out))
    BY <2>1, <1>0 DEF AgentCommits, AgentFinishes, AgentLands, CooldownEnds,
       Heartbeat, LeaseClear, LeaseCreate, LeaseDocsBlocked, LeaseLost,
       PollPick, SetupWorktree, SubmitLost, SubmitRead, WorkerDies
  <2> QED
    BY <1>1, <2>1 DEF WorkerStep
<1>2. ASSUME NEW a \in Attempt, AttemptStep(a) PROVE JobsMove
  <2>1. CASE \/ SubmitApply(a)
             \/ SubmitAdopt(a)
             \/ CompleteLand(a)
             \/ LandSync(a)
             \/ LandPush(a)
             \/ (\E land \in LandReplies : LandSquash(a, land))
             \/ SetFlags(a)
             \/ SetQueue(a)
             \/ DropBrief(a)
             \/ DeadlinePasses(a)
             \/ ExpireDeadline(a)
             \/ SweepAbort(a)
    BY <2>1, <1>0 DEF CompleteLand, DeadlinePasses, DropBrief, ExpireDeadline,
       LandPush, LandSquash, LandSync, SetFlags, SetQueue, SubmitAdopt,
       SubmitApply, SweepAbort
  <2>2. CASE EnqueueLand(a)
    BY <2>2 DEF EnqueueLand, JobsMove
  <2>3. CASE LandAdopt(a)
    BY <2>3 DEF LandAdopt, Starting, JobsMove
  <2>4. CASE LandTeardown(a)
    BY <2>4 DEF LandTeardown, JobsMove
  <2>5. ASSUME NEW land \in LandReplies, LandRefuse(a, land)
       PROVE  JobsMove
    BY <2>5 DEF LandRefuse, Producing, JobsMove
  <2> QED
    BY <1>2, <2>1, <2>2, <2>3, <2>4, <2>5 DEF AttemptStep
<1>3. ASSUME NEW a \in Attempt, ResolveStep(a) PROVE JobsMove
  <2>1. CASE \/ Escalate(a)
             \/ Resolve(a)
             \/ SpawnResolve(a)
             \/ SpawnFails(a)
             \/ ResolverLands(a)
             \/ ResolverFails(a)
             \/ ReportLost(a)
             \/ ReportFence(a)
             \/ (\E kind \in ResolveFailures, pushed \in BOOLEAN : ReportApply(a, kind, pushed))
    BY <2>1, <1>0 DEF Escalate, ReportApply, ReportFence, ReportLost, Resolve,
       ResolverFails, ResolverLands, SpawnFails, SpawnResolve
  <2> QED
    BY <1>3, <2>1 DEF ResolveStep
<1>4. ASSUME NEW t \in Task, BackoffElapses(t) \/ GcBranch(t) PROVE JobsMove
  <2>1. CASE \/ BackoffElapses(t)
             \/ GcBranch(t)
    BY <2>1, <1>0 DEF BackoffElapses, GcBranch
  <2> QED
    BY <1>4, <2>1
<1>5. CASE OperatorStep
  <2>1. CASE \/ Play
             \/ Pause
             \/ SweepEnd
             \/ (\E kind \in {"stop", "skip"} : SweepBegin(kind))
             \/ (\E t \in Task : Retry(t))
             \/ (\E t \in Task : Unquarantine(t))
             \/ (\E t \in Task : Release(t))
             \/ (\E t \in Task : Delete(t))
    BY <2>1, <1>0 DEF Delete, Pause, Play, Release, Retry, SweepBegin,
       SweepEnd, Unflag, Unquarantine
  <2> QED
    BY <1>5, <2>1 DEF OperatorStep
<1>6. CASE RecoveryStep
  <2>1. CASE \/ Restart
             \/ RecoverDrop
             \/ RecoveryDone
             \/ (\E a \in Attempt : RecoverLanded(a))
             \/ (\E a \in Attempt : RecoverReland(a))
             \/ (\E a \in Attempt : RecoverPark(a))
    BY <2>1, <1>0 DEF RecoverDrop, RecoverLanded, RecoverPark, RecoverReland,
       RecoveryDone, Restart
  <2>2. CASE Crash
    BY <2>2 DEF Crash, JobsMove
  <2>3. ASSUME NEW a \in Attempt, RecoverReenqueue(a)
       PROVE  JobsMove
    BY <2>3 DEF RecoverReenqueue, JobsMove
  <2> QED
    BY <1>6, <2>1, <2>2, <2>3 DEF RecoveryStep
<1> QED
  BY <1>1, <1>2, <1>3, <1>4, <1>5, <1>6 DEF Next

\* A worker keeps its order or loses it; it gets one from LeaseCreate.
OrdersMove ==
    \A w \in Worker :
        \/ order'[w].pc = "idle"
        \/ order[w].pc # "idle" /\ order'[w].at = order[w].at
        \/ LeaseCreate(w)

\* Nobody else gets an order.
LEMMA OrdersStep ==
    ASSUME IInv, Next
    PROVE  OrdersMove
<1>o. order = [v \in Worker |-> order[v]] /\ order \in [Worker -> Orders]
  BY DEF IInv, Typed, ProcessInv
<1>0. UNCHANGED order => OrdersMove
  BY DEF OrdersMove
<1>1. ASSUME NEW w \in Worker, WorkerStep(w) PROVE OrdersMove
  <2>1. CASE \/ PollPick(w)
             \/ (\E synced \in BOOLEAN : LeaseClear(w, synced))
             \/ LeaseLost(w)
             \/ LeaseDocsBlocked(w)
             \/ AgentCommits(w)
             \/ Heartbeat(w)
             \/ CooldownEnds(w)
    BY <2>1, <1>0 DEF AgentCommits, CooldownEnds, Heartbeat, LeaseClear,
       LeaseDocsBlocked, LeaseLost, PollPick
  <2>2. CASE LeaseCreate(w)
    <3>1. \A v \in Worker \ {w} : order'[v] = order[v]
      BY <2>2, <1>o DEF LeaseCreate
    <3> QED BY <2>2, <3>1 DEF OrdersMove
  <2>3. CASE SetupWorktree(w)
    <3>1. order[w].pc # "idle" /\ order'[w].at = order[w].at
      BY <2>3, <1>o DEF SetupWorktree, Orders
    <3>2. \A v \in Worker \ {w} : order'[v] = order[v]
      BY <2>3, <1>o DEF SetupWorktree
    <3> QED BY <3>1, <3>2 DEF OrdersMove
  <2>4. CASE AgentFinishes(w)
    <3>1. order[w].pc # "idle" /\ order'[w].at = order[w].at
      BY <2>4, <1>o DEF AgentFinishes, Orders
    <3>2. \A v \in Worker \ {w} : order'[v] = order[v]
      BY <2>4, <1>o DEF AgentFinishes
    <3> QED BY <3>1, <3>2 DEF OrdersMove
  <2>5. CASE AgentLands(w)
    <3>1. order[w].pc # "idle" /\ order'[w].at = order[w].at
      BY <2>5, <1>o DEF AgentLands, Orders
    <3>2. \A v \in Worker \ {w} : order'[v] = order[v]
      BY <2>5, <1>o DEF AgentLands
    <3> QED BY <3>1, <3>2 DEF OrdersMove
  <2>6. CASE WorkerDies(w)
    <3>1. order'[w].pc = "idle"
      BY <2>6, <1>o DEF WorkerDies, Idle
    <3>2. \A v \in Worker \ {w} : order'[v] = order[v]
      BY <2>6, <1>o DEF WorkerDies
    <3> QED BY <3>1, <3>2 DEF OrdersMove
  <2>7. CASE SubmitLost(w)
    <3>1. order'[w].pc = "idle"
      BY <2>7, <1>o DEF SubmitLost, Idle
    <3>2. \A v \in Worker \ {w} : order'[v] = order[v]
      BY <2>7, <1>o DEF SubmitLost
    <3> QED BY <3>1, <3>2 DEF OrdersMove
  <2>8. ASSUME NEW out \in Submits, SubmitRead(w, out)
       PROVE  OrdersMove
    <3>1. order'[w].pc = "idle"
      BY <2>8, <1>o DEF SubmitRead, Idle
    <3>2. \A v \in Worker \ {w} : order'[v] = order[v]
      BY <2>8, <1>o DEF SubmitRead
    <3> QED BY <3>1, <3>2 DEF OrdersMove
  <2> QED
    BY <1>1, <2>1, <2>2, <2>3, <2>4, <2>5, <2>6, <2>7, <2>8 DEF WorkerStep
<1>2. ASSUME NEW a \in Attempt, AttemptStep(a) PROVE OrdersMove
  <2>1. CASE \/ SubmitApply(a)
             \/ SubmitAdopt(a)
             \/ EnqueueLand(a)
             \/ CompleteLand(a)
             \/ LandSync(a)
             \/ LandAdopt(a)
             \/ LandPush(a)
             \/ LandTeardown(a)
             \/ (\E land \in LandReplies : LandSquash(a, land))
             \/ (\E land \in LandReplies : LandRefuse(a, land))
             \/ SetFlags(a)
             \/ SetQueue(a)
             \/ DropBrief(a)
             \/ DeadlinePasses(a)
             \/ ExpireDeadline(a)
             \/ SweepAbort(a)
    BY <2>1, <1>0 DEF CompleteLand, DeadlinePasses, DropBrief, EnqueueLand,
       ExpireDeadline, LandAdopt, LandPush, LandRefuse, LandSquash, LandSync,
       LandTeardown, SetFlags, SetQueue, SubmitAdopt, SubmitApply, SweepAbort
  <2> QED
    BY <1>2, <2>1 DEF AttemptStep
<1>3. ASSUME NEW a \in Attempt, ResolveStep(a) PROVE OrdersMove
  <2>1. CASE \/ Escalate(a)
             \/ Resolve(a)
             \/ SpawnResolve(a)
             \/ SpawnFails(a)
             \/ ResolverLands(a)
             \/ ResolverFails(a)
             \/ ReportLost(a)
             \/ ReportFence(a)
             \/ (\E kind \in ResolveFailures, pushed \in BOOLEAN : ReportApply(a, kind, pushed))
    BY <2>1, <1>0 DEF Escalate, ReportApply, ReportFence, ReportLost, Resolve,
       ResolverFails, ResolverLands, SpawnFails, SpawnResolve
  <2> QED
    BY <1>3, <2>1 DEF ResolveStep
<1>4. ASSUME NEW t \in Task, BackoffElapses(t) \/ GcBranch(t) PROVE OrdersMove
  <2>1. CASE \/ BackoffElapses(t)
             \/ GcBranch(t)
    BY <2>1, <1>0 DEF BackoffElapses, GcBranch
  <2> QED
    BY <1>4, <2>1
<1>5. CASE OperatorStep
  <2>1. CASE \/ Play
             \/ Pause
             \/ SweepEnd
             \/ (\E kind \in {"stop", "skip"} : SweepBegin(kind))
             \/ (\E t \in Task : Retry(t))
             \/ (\E t \in Task : Unquarantine(t))
             \/ (\E t \in Task : Release(t))
             \/ (\E t \in Task : Delete(t))
    BY <2>1, <1>0 DEF Delete, Pause, Play, Release, Retry, SweepBegin,
       SweepEnd, Unflag, Unquarantine
  <2> QED
    BY <1>5, <2>1 DEF OperatorStep
<1>6. CASE RecoveryStep
  <2>1. CASE \/ Crash
             \/ Restart
             \/ RecoverDrop
             \/ RecoveryDone
             \/ (\E a \in Attempt : RecoverLanded(a))
             \/ (\E a \in Attempt : RecoverReenqueue(a))
             \/ (\E a \in Attempt : RecoverReland(a))
             \/ (\E a \in Attempt : RecoverPark(a))
    BY <2>1, <1>0 DEF Crash, RecoverDrop, RecoverLanded, RecoverPark,
       RecoverReenqueue, RecoverReland, RecoveryDone, Restart
  <2> QED
    BY <1>6, <2>1 DEF RecoveryStep
<1> QED
  BY <1>1, <1>2, <1>3, <1>4, <1>5, <1>6 DEF Next

\* A deadline passes for a live attempt.
LateMove == \A a \in Attempt : a \in late' => a \in late \/ DeadlinePasses(a)

\* Nothing else makes an attempt late.
LEMMA LateStep ==
    ASSUME IInv, Next
    PROVE  LateMove
<1>0. UNCHANGED late => LateMove
  BY DEF LateMove
<1>1. ASSUME NEW w \in Worker, WorkerStep(w) PROVE LateMove
  <2>1. CASE \/ PollPick(w)
             \/ (\E synced \in BOOLEAN : LeaseClear(w, synced))
             \/ LeaseCreate(w)
             \/ LeaseLost(w)
             \/ LeaseDocsBlocked(w)
             \/ SetupWorktree(w)
             \/ AgentCommits(w)
             \/ AgentFinishes(w)
             \/ AgentLands(w)
             \/ WorkerDies(w)
             \/ SubmitLost(w)
             \/ CooldownEnds(w)
             \/ (\E out \in Submits : SubmitRead(w, out))
    BY <2>1, <1>0 DEF AgentCommits, AgentFinishes, AgentLands, CooldownEnds,
       LeaseClear, LeaseCreate, LeaseDocsBlocked, LeaseLost, PollPick,
       SetupWorktree, SubmitLost, SubmitRead, WorkerDies
  <2>2. CASE Heartbeat(w)
    BY <2>2 DEF Heartbeat, LateMove
  <2> QED
    BY <1>1, <2>1, <2>2 DEF WorkerStep
<1>2. ASSUME NEW a \in Attempt, AttemptStep(a) PROVE LateMove
  <2>1. CASE \/ SubmitApply(a)
             \/ SubmitAdopt(a)
             \/ EnqueueLand(a)
             \/ CompleteLand(a)
             \/ LandSync(a)
             \/ LandAdopt(a)
             \/ LandPush(a)
             \/ LandTeardown(a)
             \/ (\E land \in LandReplies : LandSquash(a, land))
             \/ (\E land \in LandReplies : LandRefuse(a, land))
             \/ SetFlags(a)
             \/ SetQueue(a)
             \/ DropBrief(a)
             \/ ExpireDeadline(a)
             \/ SweepAbort(a)
    BY <2>1, <1>0 DEF CompleteLand, DropBrief, EnqueueLand, ExpireDeadline,
       LandAdopt, LandPush, LandRefuse, LandSquash, LandSync, LandTeardown,
       SetFlags, SetQueue, SubmitAdopt, SubmitApply, SweepAbort
  <2>2. CASE DeadlinePasses(a)
    BY <2>2 DEF DeadlinePasses, LateMove
  <2> QED
    BY <1>2, <2>1, <2>2 DEF AttemptStep
<1>3. ASSUME NEW a \in Attempt, ResolveStep(a) PROVE LateMove
  <2>1. CASE \/ Escalate(a)
             \/ Resolve(a)
             \/ SpawnResolve(a)
             \/ SpawnFails(a)
             \/ ResolverLands(a)
             \/ ResolverFails(a)
             \/ ReportLost(a)
             \/ ReportFence(a)
             \/ (\E kind \in ResolveFailures, pushed \in BOOLEAN : ReportApply(a, kind, pushed))
    BY <2>1, <1>0 DEF Escalate, ReportApply, ReportFence, ReportLost, Resolve,
       ResolverFails, ResolverLands, SpawnFails, SpawnResolve
  <2> QED
    BY <1>3, <2>1 DEF ResolveStep
<1>4. ASSUME NEW t \in Task, BackoffElapses(t) \/ GcBranch(t) PROVE LateMove
  <2>1. CASE \/ BackoffElapses(t)
             \/ GcBranch(t)
    BY <2>1, <1>0 DEF BackoffElapses, GcBranch
  <2> QED
    BY <1>4, <2>1
<1>5. CASE OperatorStep
  <2>1. CASE \/ Play
             \/ Pause
             \/ SweepEnd
             \/ (\E kind \in {"stop", "skip"} : SweepBegin(kind))
             \/ (\E t \in Task : Retry(t))
             \/ (\E t \in Task : Unquarantine(t))
             \/ (\E t \in Task : Release(t))
             \/ (\E t \in Task : Delete(t))
    BY <2>1, <1>0 DEF Delete, Pause, Play, Release, Retry, SweepBegin,
       SweepEnd, Unflag, Unquarantine
  <2> QED
    BY <1>5, <2>1 DEF OperatorStep
<1>6. CASE RecoveryStep
  <2>1. CASE \/ Crash
             \/ Restart
             \/ RecoverDrop
             \/ RecoveryDone
             \/ (\E a \in Attempt : RecoverLanded(a))
             \/ (\E a \in Attempt : RecoverReenqueue(a))
             \/ (\E a \in Attempt : RecoverReland(a))
             \/ (\E a \in Attempt : RecoverPark(a))
    BY <2>1, <1>0 DEF Crash, RecoverDrop, RecoverLanded, RecoverPark,
       RecoverReenqueue, RecoverReland, RecoveryDone, Restart
  <2> QED
    BY <1>6, <2>1 DEF RecoveryStep
<1> QED
  BY <1>1, <1>2, <1>3, <1>4, <1>5, <1>6 DEF Next

\* Only a crash, the restart and the recovery move the manager's phase.
LEMMA PhaseStep ==
    ASSUME IInv, Next, ~RecoveryStep
    PROVE  mgr' = mgr
<1>0. UNCHANGED mgr => mgr' = mgr
  OBVIOUS
<1>1. ASSUME NEW w \in Worker, WorkerStep(w) PROVE mgr' = mgr
  <2>1. CASE \/ PollPick(w)
             \/ (\E synced \in BOOLEAN : LeaseClear(w, synced))
             \/ LeaseCreate(w)
             \/ LeaseLost(w)
             \/ LeaseDocsBlocked(w)
             \/ SetupWorktree(w)
             \/ AgentCommits(w)
             \/ AgentFinishes(w)
             \/ AgentLands(w)
             \/ WorkerDies(w)
             \/ Heartbeat(w)
             \/ SubmitLost(w)
             \/ CooldownEnds(w)
             \/ (\E out \in Submits : SubmitRead(w, out))
    BY <2>1, <1>0 DEF AgentCommits, AgentFinishes, AgentLands, CooldownEnds,
       Heartbeat, LeaseClear, LeaseCreate, LeaseDocsBlocked, LeaseLost,
       PollPick, SetupWorktree, SubmitLost, SubmitRead, WorkerDies
  <2> QED
    BY <1>1, <2>1 DEF WorkerStep
<1>2. ASSUME NEW a \in Attempt, AttemptStep(a) PROVE mgr' = mgr
  <2>1. CASE \/ SubmitApply(a)
             \/ SubmitAdopt(a)
             \/ EnqueueLand(a)
             \/ CompleteLand(a)
             \/ LandSync(a)
             \/ LandAdopt(a)
             \/ LandPush(a)
             \/ LandTeardown(a)
             \/ (\E land \in LandReplies : LandSquash(a, land))
             \/ (\E land \in LandReplies : LandRefuse(a, land))
             \/ SetFlags(a)
             \/ SetQueue(a)
             \/ DropBrief(a)
             \/ DeadlinePasses(a)
             \/ ExpireDeadline(a)
             \/ SweepAbort(a)
    BY <2>1, <1>0 DEF CompleteLand, DeadlinePasses, DropBrief, EnqueueLand,
       ExpireDeadline, LandAdopt, LandPush, LandRefuse, LandSquash, LandSync,
       LandTeardown, SetFlags, SetQueue, SubmitAdopt, SubmitApply, SweepAbort
  <2> QED
    BY <1>2, <2>1 DEF AttemptStep
<1>3. ASSUME NEW a \in Attempt, ResolveStep(a) PROVE mgr' = mgr
  <2>1. CASE \/ Escalate(a)
             \/ Resolve(a)
             \/ SpawnResolve(a)
             \/ SpawnFails(a)
             \/ ResolverLands(a)
             \/ ResolverFails(a)
             \/ ReportLost(a)
             \/ ReportFence(a)
             \/ (\E kind \in ResolveFailures, pushed \in BOOLEAN : ReportApply(a, kind, pushed))
    BY <2>1, <1>0 DEF Escalate, ReportApply, ReportFence, ReportLost, Resolve,
       ResolverFails, ResolverLands, SpawnFails, SpawnResolve
  <2> QED
    BY <1>3, <2>1 DEF ResolveStep
<1>4. ASSUME NEW t \in Task, BackoffElapses(t) \/ GcBranch(t) PROVE mgr' = mgr
  <2>1. CASE \/ BackoffElapses(t)
             \/ GcBranch(t)
    BY <2>1, <1>0 DEF BackoffElapses, GcBranch
  <2> QED
    BY <1>4, <2>1
<1>5. CASE OperatorStep
  <2>1. CASE \/ Play
             \/ Pause
             \/ SweepEnd
             \/ (\E kind \in {"stop", "skip"} : SweepBegin(kind))
             \/ (\E t \in Task : Retry(t))
             \/ (\E t \in Task : Unquarantine(t))
             \/ (\E t \in Task : Release(t))
             \/ (\E t \in Task : Delete(t))
    BY <2>1, <1>0 DEF Delete, Pause, Play, Release, Retry, SweepBegin,
       SweepEnd, Unflag, Unquarantine
  <2> QED
    BY <1>5, <2>1 DEF OperatorStep
<1> QED
  BY <1>1, <1>2, <1>3, <1>4, <1>5 DEF Next

-----------------------------------------------------------------------------
(* Without zombies and resolvers                                           *)

\* Nobody stops an attempt under its worker or resolves one, and no worker is
\* cut off from the manager while it goes on.
Quiet ==
    /\ {"resolve", "stop", "skip", "partition"} \cap Events = {}
    /\ ~(AutoResolve /\ ~PrMode)

\* A submit that does not end in a resolve.
Plain(h) == /\ h.pc # "resolve"
            /\ h.pc = "apply" => ~h.tr.eff.resolve
            /\ h.pc \in {"flags", "queue", "drop"} => ~h.eff.resolve

Calm == /\ spawning = {} /\ reports = {} /\ sweep = Idle
        /\ \A a \in Attempt : resolver[a] = "none" /\ Plain(handler[a])

\* Whoever executes an order executes an attempt that runs and is not late.
Attended ==
    /\ \A a \in late : state[a] # "none"
    /\ \A w \in Worker : order[w].pc # "idle" =>
         /\ state[order[w].at] = "running" /\ order[w].at \notin late
         /\ handler[order[w].at].pc = "idle" /\ lease[order[w].at].worker = w

InJobs(a) == \E i \in DOMAIN jobs : jobs[i] = a

\* A land is queued once, and a result that is not final is the head's.
Queued ==
    /\ \A a \in Attempt : InJobs(a) => state[a] = "landing"
    /\ \A i, j \in DOMAIN jobs : jobs[i] = jobs[j] => i = j
    /\ \A a \in Attempt : result[a] \in {Synced, Pushed} => jobs # <<>> /\ a = Head(jobs)
    /\ mgr.pc \in {"down", "scan", "drop"} => \A a \in Attempt : result[a] = NoResult
    /\ mgr.pc = "land" => \A a \in Attempt \ {mgr.at} : result[a] = NoResult

\* The branch that a's worker reported is as it was.
Finished(a) == branch[lease[a].task] = [by |-> a, work |-> "done"]

\* From its report until it is squashed and torn down.
Owned(a) ==
    /\ state[a] = "running" /\ handler[a].pc = "enqueue" => Finished(a)
    /\ state[a] = "landing" => Finished(a) \/ (Carries(main, a) /\ ~InJobs(a))

\* A trailer names the attempt whose finished work the commit carries.
Signed(log) == \A i \in DOMAIN log : log[i].trailer # 0 =>
                 log[i].by = log[i].trailer /\ log[i].work = "done"

Logs == Signed(main) /\ Signed(ahead) /\ (~PushMode => ahead = <<>>)

\* What a land's result says of the logs.
Stages(a) ==
    /\ result[a].kind # "none" => state[a] = "landing"
    /\ result[a] = Synced => ahead = <<>>
    /\ result[a] = Pushed => Carries(ahead, a)
    /\ result[a].kind \in LandSuccessKinds => Carries(main, a)
    /\ result[a].kind # "no_changes"
    /\ result[a].kind \in LandRefusedKinds =>
         /\ ~Carries(ahead, a) /\ ~InJobs(a)
         /\ Carries(main, a) => result[a].kind = "conflict" /\ mgr = [pc |-> "land", at |-> a]

\* While the manager is up, an unsettled squash has its result.
Expected(a) ==
    mgr.pc = "up" /\ Squashed(a)
      => state[a] = "landed" \/ result[a].kind \in {"pushed"} \cup LandSuccessKinds

Settled(a) == Squashed(a) => state[a] \in {"landing", "landed"}

Orderly == /\ Calm /\ Attended /\ Queued /\ Logs
           /\ \A a \in Attempt : Owned(a) /\ Stages(a) /\ Expected(a) /\ Settled(a)

\* No verdict asks for a resolve.
LEMMA VerdictsPlain ==
    ASSUME Quiet
    PROVE  /\ \A o, pol : ~OnSubmit(o, pol).eff.resolve
           /\ \A o, land, pol : ~OnLandResult(o, land, pol).eff.resolve
<1>1. ASSUME NEW pol, NEW now, NEW pauses PROVE ~FailureLadder(pol, now, pauses).resolve
  BY DEF FailureLadder, NoEffects
<1>2. ASSUME NEW o, NEW pol PROVE ~OnSubmit(o, pol).eff.resolve
  <2>1. ~BlockedTransition(pol).eff.resolve
    BY DEF BlockedTransition, NoEffects
  <2>2. ~NeutralTransition(o).eff.resolve
    BY DEF NeutralTransition, NoEffects
  <2>3. ~ErrorTransition(o, pol).eff.resolve
    BY <1>1 DEF ErrorTransition, NoEffects
  <2> QED BY <2>1, <2>2, <2>3 DEF OnSubmit
<1>3. ASSUME NEW o, NEW land, NEW pol PROVE ~OnLandResult(o, land, pol).eff.resolve
  <2>1. ~NoChangeTransition(o, pol).eff.resolve
    BY <1>1 DEF NoChangeTransition
  <2>2. ~LandedTransition(pol).eff.resolve
    BY DEF LandedTransition, NoEffects
  <2>3. ~LandFailedTransition(land, pol).eff.resolve
    BY DEF Quiet, LandFailedTransition, NoEffects
  <2> QED BY <2>1, <2>2, <2>3 DEF OnLandResult
<1> QED BY <1>2, <1>3

\* Plain effects end without a resolve.
LEMMA PlainLater ==
    ASSUME NEW eff, ~eff.resolve
    PROVE  /\ Plain(Resume(AfterCommit(eff), eff)) /\ Plain(Resume(AfterFlags(eff), eff))
           /\ Plain(Resume(AfterQueue(eff), eff)) /\ Plain(Resume(AfterDrop(eff), eff))
<1>1. ASSUME NEW stage \in {"idle", "flags", "queue", "drop"}
      PROVE  Plain(Resume(stage, eff))
  BY DEF Plain, Resume, Idle
<1>2. /\ AfterDrop(eff) = "idle" /\ AfterQueue(eff) \in {"idle", "drop"}
      /\ AfterFlags(eff) \in {"idle", "queue", "drop"}
      /\ AfterCommit(eff) \in {"idle", "flags", "queue", "drop"}
  BY DEF AfterCommit, AfterFlags, AfterQueue, AfterDrop
<1> QED BY <1>1, <1>2

\* Every step leaves every submit plain.
LEMMA PlainStep ==
    ASSUME IInv, Quiet, Calm, Next, NEW a \in Attempt
    PROVE  Plain(handler'[a])
<1>1. /\ Plain(handler[a]) /\ Plain(Idle) /\ handler[a] \in GoodHandlers
      /\ handler = [b \in Attempt |-> handler[b]]
  BY DEF Calm, Plain, Idle, IInv, Typed, HandlerInv
<1>2. ASSUME NEW w \in Worker, NEW o \in Submits, SubmitRead(w, o), a = order[w].at,
             state[a] = "running"
      PROVE  Plain(handler'[a])
  <2> DEFINE pol == SubmitPolicy(lease[a].task)
             phase == OnSubmitPhase(o, FALSE)
             tr == OnSubmit(o, pol)
  <2>1. /\ phase = "apply" => handler'[a] = [pc |-> "apply", tr |-> tr]
        /\ phase # "apply" => handler'[a] = [pc |-> phase, out |-> o, pol |-> pol]
    BY <1>1, <1>2 DEF SubmitRead
  <2>2. phase \in {"apply", "enqueue", "adopt"} /\ ~tr.eff.resolve
    BY VerdictsPlain DEF OnSubmitPhase
  <2> HIDE DEF pol, phase, tr
  <2> QED BY <2>1, <2>2 DEF Plain
<1>3. CASE SubmitApply(a)
  <2> DEFINE eff == handler[a].tr.eff
  <2>1. ~eff.resolve
    BY <1>1, <1>3 DEF SubmitApply, Plain
  <2>2. handler'[a] \in {Resume(AfterCommit(eff), eff), Idle}
    BY <1>1, <1>3 DEF SubmitApply
  <2> HIDE DEF eff
  <2> QED BY <1>1, <2>1, <2>2, PlainLater
<1>4. CASE SubmitAdopt(a)
  <2>1. PICK land : handler'[a] =
          [pc |-> "apply", tr |-> OnLandResult(handler[a].out, land, handler[a].pol)]
    BY <1>1, <1>4 DEF SubmitAdopt
  <2> DEFINE tr == OnLandResult(handler[a].out, land, handler[a].pol)
  <2>2. ~tr.eff.resolve /\ handler'[a] = [pc |-> "apply", tr |-> tr]
    BY <2>1, VerdictsPlain
  <2> HIDE DEF tr
  <2> QED BY <2>2 DEF Plain
<1>5. CASE EnqueueLand(a)
  <2>1. handler[a].pc = "enqueue" /\ (\/ handler'[a] = [handler[a] EXCEPT !.pc = "landing"]
                                       \/ handler'[a] = Idle)
    BY <1>1, <1>5 DEF EnqueueLand
  <2>2. [handler[a] EXCEPT !.pc = "landing"].pc = "landing"
    BY <1>1, <2>1 DEF GoodHandlers, Handlers
  <2>3. CASE handler'[a] = [handler[a] EXCEPT !.pc = "landing"]
    <3>1. handler'[a].pc = "landing"
      BY <2>2, <2>3
    <3> QED BY <3>1 DEF Plain
  <2> QED BY <1>1, <2>1, <2>3
<1>6. CASE CompleteLand(a)
  <2> DEFINE eff == OnLandResult(handler[a].out, result[a], handler[a].pol).eff
  <2>1. ~eff.resolve
    BY VerdictsPlain
  <2>2. handler'[a] \in {Resume(AfterCommit(eff), eff), Idle}
    BY <1>1, <1>6 DEF CompleteLand
  <2> HIDE DEF eff
  <2> QED BY <1>1, <2>1, <2>2, PlainLater
<1>7. CASE SetFlags(a) \/ SetQueue(a) \/ DropBrief(a)
  <2> DEFINE eff == handler[a].eff
  <2>1. ~eff.resolve
    BY <1>1, <1>7 DEF SetFlags, SetQueue, DropBrief, Plain
  <2>2. handler'[a] \in {Resume(AfterFlags(eff), eff), Resume(AfterQueue(eff), eff),
                         Resume(AfterDrop(eff), eff), Idle}
    BY <1>1, <1>7 DEF SetFlags, SetQueue, DropBrief
  <2> HIDE DEF eff
  <2> QED BY <1>1, <2>1, <2>2, PlainLater
<1>8. CASE Escalate(a)
  BY <1>1, <1>8 DEF Escalate, Plain
<1>9. CASE ~RecoveryStep
  BY <1>1, <1>2, <1>3, <1>4, <1>5, <1>6, <1>7, <1>8, <1>9, HandlersStep DEF HandlersMove
<1>10. CASE RecoveryStep
  <2>1. handler'[a] \in {handler[a], Idle}
    BY <1>1, <1>10 DEF RecoveryStep, Crash, Restart, RecoverDrop, RecoveryDone, RecoverLanded,
       RecoverReenqueue, RecoverReland, RecoverPark
  <2> QED BY <1>1, <2>1
<1> QED BY <1>9, <1>10

\* Nobody starts a resolve or a sweep.
LEMMA CalmStep ==
    ASSUME IInv, Quiet, Calm, Next
    PROVE  Calm'
<1>p. \A a \in Attempt : Plain(handler'[a])
  BY PlainStep
<1>c. /\ spawning = {} /\ reports = {} /\ sweep = Idle
      /\ \A a \in Attempt : resolver[a] = "none" /\ handler[a].pc # "resolve"
  BY DEF Calm, Plain
<1>0. UNCHANGED <<spawning, reports, sweep, resolver>> => Calm'
  BY <1>p, <1>c DEF Calm
<1>1. ASSUME NEW w \in Worker, WorkerStep(w) PROVE Calm'
  <2>1. CASE \/ PollPick(w)
             \/ (\E synced \in BOOLEAN : LeaseClear(w, synced))
             \/ LeaseCreate(w)
             \/ LeaseLost(w)
             \/ LeaseDocsBlocked(w)
             \/ SetupWorktree(w)
             \/ AgentCommits(w)
             \/ AgentFinishes(w)
             \/ AgentLands(w)
             \/ WorkerDies(w)
             \/ Heartbeat(w)
             \/ SubmitLost(w)
             \/ CooldownEnds(w)
             \/ (\E out \in Submits : SubmitRead(w, out))
    BY <2>1, <1>0 DEF AgentCommits, AgentFinishes, AgentLands, CooldownEnds,
       Heartbeat, LeaseClear, LeaseCreate, LeaseDocsBlocked, LeaseLost,
       PollPick, SetupWorktree, SubmitLost, SubmitRead, WorkerDies
  <2> QED
    BY <1>1, <2>1 DEF WorkerStep
<1>2. ASSUME NEW a \in Attempt, AttemptStep(a) PROVE Calm'
  <2>1. CASE \/ SubmitApply(a)
             \/ SubmitAdopt(a)
             \/ EnqueueLand(a)
             \/ CompleteLand(a)
             \/ LandSync(a)
             \/ LandAdopt(a)
             \/ LandPush(a)
             \/ LandTeardown(a)
             \/ (\E land \in LandReplies : LandSquash(a, land))
             \/ (\E land \in LandReplies : LandRefuse(a, land))
             \/ SetFlags(a)
             \/ SetQueue(a)
             \/ DropBrief(a)
             \/ DeadlinePasses(a)
             \/ ExpireDeadline(a)
    BY <2>1, <1>0 DEF CompleteLand, DeadlinePasses, DropBrief, EnqueueLand,
       ExpireDeadline, LandAdopt, LandPush, LandRefuse, LandSquash, LandSync,
       LandTeardown, SetFlags, SetQueue, SubmitAdopt, SubmitApply
  <2>2. CASE SweepAbort(a)
    BY <2>2, <1>c DEF SweepAbort
  <2> QED
    BY <1>2, <2>1, <2>2 DEF AttemptStep
<1>3. ASSUME NEW a \in Attempt, ResolveStep(a) PROVE Calm'
  <2>1. CASE Escalate(a)
    BY <2>1, <1>c DEF Escalate
  <2>2. CASE Resolve(a)
    BY <2>2, <1>c DEF Resolve, Spend, Quiet
  <2>3. CASE SpawnResolve(a)
    BY <2>3, <1>c DEF SpawnResolve
  <2>4. CASE SpawnFails(a)
    BY <2>4, <1>c DEF SpawnFails
  <2>5. CASE ResolverLands(a)
    BY <2>5, <1>c DEF ResolverLands
  <2>6. CASE ResolverFails(a)
    BY <2>6, <1>c DEF ResolverFails
  <2>7. CASE ReportLost(a)
    BY <2>7, <1>c DEF ReportLost
  <2>8. CASE ReportFence(a)
    BY <2>8, <1>c DEF ReportFence
  <2>9. ASSUME NEW kind \in ResolveFailures, NEW pushed \in BOOLEAN, ReportApply(a, kind, pushed)
       PROVE  Calm'
    BY <2>9, <1>c DEF ReportApply
  <2> QED
    BY <1>3, <2>1, <2>2, <2>3, <2>4, <2>5, <2>6, <2>7, <2>8, <2>9 DEF ResolveStep
<1>4. ASSUME NEW t \in Task, BackoffElapses(t) \/ GcBranch(t) PROVE Calm'
  <2>1. CASE \/ BackoffElapses(t)
             \/ GcBranch(t)
    BY <2>1, <1>0 DEF BackoffElapses, GcBranch
  <2> QED
    BY <1>4, <2>1
<1>5. CASE OperatorStep
  <2>1. CASE \/ Play
             \/ Pause
             \/ (\E t \in Task : Retry(t))
             \/ (\E t \in Task : Unquarantine(t))
             \/ (\E t \in Task : Release(t))
             \/ (\E t \in Task : Delete(t))
    BY <2>1, <1>0 DEF Delete, Pause, Play, Release, Retry, Unflag,
       Unquarantine
  <2>2. CASE SweepEnd
    BY <2>2, <1>c DEF SweepEnd
  <2>3. ASSUME NEW kind \in {"stop", "skip"}, SweepBegin(kind)
       PROVE  Calm'
    BY <2>3, <1>c DEF SweepBegin, Spend, Quiet
  <2> QED
    BY <1>5, <2>1, <2>2, <2>3 DEF OperatorStep
<1>6. CASE RecoveryStep
  <2>1. CASE \/ Restart
             \/ RecoverDrop
             \/ RecoveryDone
             \/ (\E a \in Attempt : RecoverLanded(a))
             \/ (\E a \in Attempt : RecoverReenqueue(a))
             \/ (\E a \in Attempt : RecoverReland(a))
             \/ (\E a \in Attempt : RecoverPark(a))
    BY <2>1, <1>0 DEF RecoverDrop, RecoverLanded, RecoverPark,
       RecoverReenqueue, RecoverReland, RecoveryDone, Restart
  <2>2. CASE Crash
    BY <2>2, <1>c, <1>p DEF Crash, Calm
  <2> QED
    BY <1>6, <2>1, <2>2 DEF RecoveryStep
<1> QED
  BY <1>1, <1>2, <1>3, <1>4, <1>5, <1>6 DEF Next

\* The recovery settles the land that it ran again.
LEMMA RelandPhase ==
    ASSUME IInv, NEW a \in Attempt, RecoverReland(a)
    PROVE  /\ mgr.pc = "land" /\ mgr.at = a /\ state[a] = "landing"
           /\ result' = [result EXCEPT ![a] = NoResult] /\ result'[a] = NoResult
<1>1. mgr = [pc |-> "land", at |-> a] /\ result' = [result EXCEPT ![a] = NoResult]
  BY DEF RecoverReland
<1>2. mgr.pc = "land" /\ mgr.at = a
  BY <1>1
<1> QED BY <1>1, <1>2 DEF IInv, JobsInv, Typed, LandInv

\* In which phase of the manager each step of the recovery is taken.
LEMMA RecoveryPhases ==
    ASSUME IInv, RecoveryStep
    PROVE  \/ Crash
           \/ mgr.pc \in {"down", "scan", "drop"} /\ result' = result
           \/ \E a \in Attempt : RecoverReland(a)
BY DEF RecoveryStep, Restart, RecoverDrop, RecoveryDone, RecoverLanded, RecoverReenqueue,
   RecoverPark

\* What changes the stored state of an attempt.
LEMMA QuietStates ==
    ASSUME IInv, Quiet, Calm, Next, NEW a \in Attempt
    PROVE  \/ state'[a] = state[a]
           \/ state[a] = "none" /\ state'[a] # "landed"
           \/ SubmitApply(a) /\ state[a] = "running"
           \/ EnqueueLand(a) /\ state[a] = "running" /\ state'[a] = "landing"
           \/ CompleteLand(a) /\ state[a] = "landing"
           \/ ExpireDeadline(a) /\ state'[a] = "expired"
           \/ RecoverLanded(a) \/ RecoverReland(a) \/ RecoverPark(a)
<1>1. state = [b \in Attempt |-> state[b]]
  BY DEF IInv, Typed, StoreInv
<1>2. CASE ~RecoveryStep
  <2>1. ~SweepAbort(a)
    BY DEF Calm, SweepAbort
  <2>2. \A c \in Attempt, kind \in ResolveFailures, pushed \in BOOLEAN :
          ~ReportApply(c, kind, pushed)
    BY DEF Calm, ReportApply
  <2>3. SubmitApply(a) /\ state[a] # "running" => state'[a] = state[a]
    BY DEF SubmitApply
  <2>4. EnqueueLand(a) => state'[a] = state[a] \/ (state[a] = "running" /\ state'[a] = "landing")
    BY <1>1 DEF EnqueueLand, OnLandEnqueued
  <2>5. CompleteLand(a) /\ state[a] # "landing" => state'[a] = state[a]
    BY DEF CompleteLand
  <2>6. ExpireDeadline(a) => state'[a] = "expired"
    BY <1>1 DEF ExpireDeadline, Commit, OnDeadline
  <2> QED BY <1>2, <2>1, <2>2, <2>3, <2>4, <2>5, <2>6, StatesStep DEF StatesMove
<1>3. CASE RecoveryStep
  <2>1. ASSUME NEW b \in Attempt, RecoverLanded(b) PROVE b = a \/ state'[a] = state[a]
    BY <1>1, <2>1 DEF RecoverLanded, Commit
  <2>2. ASSUME NEW b \in Attempt, RecoverReland(b) PROVE b = a \/ state'[a] = state[a]
    BY <1>1, <2>2 DEF RecoverReland, Commit
  <2>3. ASSUME NEW b \in Attempt, RecoverPark(b) PROVE b = a \/ state'[a] = state[a]
    BY <1>1, <2>3 DEF RecoverPark, Commit
  <2>4. CASE \/ Crash \/ Restart \/ RecoverDrop \/ RecoveryDone
             \/ \E b \in Attempt : RecoverReenqueue(b)
    BY <2>4 DEF Crash, Restart, RecoverDrop, RecoveryDone, RecoverReenqueue
  <2> QED BY <1>3, <2>1, <2>2, <2>3, <2>4 DEF RecoveryStep
<1> QED BY <1>2, <1>3

\* Every step leaves the workers in charge.
LEMMA AttendedStep ==
    ASSUME IInv, Quiet, Calm, Attended, Next
    PROVE  Attended'
<1>1. ASSUME NEW a \in Attempt, a \in late' PROVE state'[a] # "none"
  <2>1. state[a] # "none"
    BY <1>1, LateStep DEF LateMove, DeadlinePasses, Live, LiveStates, Attended
  <2> QED BY <2>1, EdgesStep DEF Edges, TerminalStates
<1>2. ASSUME NEW w \in Worker, order[w].pc # "idle", order'[w].pc # "idle",
             order'[w].at = order[w].at
      PROVE  /\ state'[order'[w].at] = "running" /\ order'[w].at \notin late'
             /\ handler'[order'[w].at].pc = "idle" /\ lease'[order'[w].at].worker = w
  <2> DEFINE a == order[w].at
  <2>1. /\ a \in Attempt /\ state[a] = "running" /\ a \notin late
        /\ handler[a].pc = "idle" /\ lease[a].worker = w
    BY <1>2 DEF Attended, IInv, Typed, ProcessInv, Orders
  <2>0. order'[w].at = a
    BY <1>2
  <2>2. lease'[a].worker = w
    BY <2>1, EdgesStep DEF Edges
  <2>3. state'[a] = "running"
    <3>1. /\ ~SubmitApply(a) /\ ~EnqueueLand(a) /\ ~CompleteLand(a) /\ ~ExpireDeadline(a)
          /\ ~RecoverLanded(a) /\ ~RecoverPark(a)
      BY <2>1 DEF SubmitApply, EnqueueLand, CompleteLand, ExpireDeadline, RecoverLanded,
         RecoverPark
    <3>2. ~RecoverReland(a)
      BY <2>1, RelandPhase
    <3> HIDE DEF a
    <3> QED BY <2>1, <3>1, <3>2, QuietStates
  <2>4. a \notin late'
    <3>1. ~DeadlinePasses(a)
      BY <1>2 DEF DeadlinePasses, Abandoned, Happens, Quiet
    <3> QED BY <2>1, <3>1, LateStep DEF LateMove
  <2>5. ASSUME NEW v \in Worker, NEW o \in Submits, SubmitRead(v, o), order[v].at = a
        PROVE  FALSE
    <3>1. v = w
      BY <2>1, <2>5 DEF SubmitRead, Attended
    <3>2. order'[w].pc = "idle"
      BY <2>5, <3>1 DEF SubmitRead, Idle, IInv, Typed, ProcessInv
    <3> QED BY <1>2, <3>2
  <2>6. handler'[a].pc = "idle"
    <3>1. CASE ~RecoveryStep
      BY <2>1, <2>5, <3>1, HandlersStep DEF HandlersMove, SubmitApply, SubmitAdopt, EnqueueLand,
         CompleteLand, SetFlags, SetQueue, DropBrief, Escalate
    <3>2. CASE RecoveryStep
      <4>1. handler'[a] = handler[a] \/ handler'[a] = Idle
        BY <2>1, <3>2 DEF RecoveryStep, Crash, Restart, RecoverDrop, RecoveryDone, RecoverLanded,
           RecoverReenqueue, RecoverReland, RecoverPark
      <4> QED BY <2>1, <4>1 DEF Idle
    <3> QED BY <3>1, <3>2
  <2> HIDE DEF a
  <2> QED BY <2>0, <2>2, <2>3, <2>4, <2>6
<1>3. ASSUME NEW w \in Worker, LeaseCreate(w)
      PROVE  /\ state'[order'[w].at] = "running" /\ order'[w].at \notin late'
             /\ handler'[order'[w].at].pc = "idle" /\ lease'[order'[w].at].worker = w
  <2>1. PICK c \in Attempt :
          /\ NewAttempt(c, "running", polls[w].task, w, polls[w].base, 0)
          /\ order' = [order EXCEPT ![w] = [pc |-> "leased", at |-> c]]
    BY <1>3 DEF LeaseCreate
  <2>2. state[c] = "none" /\ handler[c].pc = "idle" /\ c \notin late
    BY <2>1 DEF NewAttempt, Fresh, Attended, IInv, Typed, Known, KnownHandlers
  <2>3. order'[w].at = c
    BY <2>1 DEF IInv, Typed, ProcessInv
  <2>4. state'[c] = "running" /\ lease'[c].worker = w
    BY <2>1 DEF NewAttempt, IInv, Typed, StoreInv
  <2>5. handler' = handler /\ late' = late
    BY <1>3 DEF LeaseCreate
  <2> QED BY <2>2, <2>3, <2>4, <2>5
<1>4. ASSUME NEW w \in Worker, order'[w].pc # "idle"
      PROVE  /\ state'[order'[w].at] = "running" /\ order'[w].at \notin late'
             /\ handler'[order'[w].at].pc = "idle" /\ lease'[order'[w].at].worker = w
  BY <1>2, <1>3, <1>4, OrdersStep DEF OrdersMove
<1>5. late' \subseteq Attempt
  BY StoreStep DEF StoreInv
<1> QED BY <1>1, <1>4, <1>5 DEF Attended

\* While a land is under way, its job is the only one that touches the result.
LEMMA QueuedStep ==
    ASSUME IInv, Quiet, Orderly, Next
    PROVE  Queued'
<1> USE DEF Orderly
<1>j. jobs \in Seq(Attempt) /\ jobs' \in Seq(Attempt)
  BY LandStep DEF LandInv, IInv, Typed
<1>1. ASSUME NEW a \in Attempt, InJobs(a) PROVE ~(\E b \in Attempt : b = a /\ Returned(a))
  BY <1>1 DEF Returned, InJobs
<1>2. ASSUME NEW a \in Attempt, InJobs(a) PROVE state[a] = "landing" /\ state'[a] = "landing"
  <2>1. state[a] = "landing" /\ ~Returned(a) /\ mgr.pc # "scan"
    BY <1>1, <1>2, <1>j DEF Queued, InJobs, IInv, JobsInv
  <2> QED BY <2>1, QuietStates DEF SubmitApply, EnqueueLand, CompleteLand, ExpireDeadline,
          RecoverLanded, RecoverReland, RecoverPark
<1>3. ASSUME NEW a \in Attempt, InJobs(a)'
      PROVE  /\ state'[a] = "landing"
             /\ InJobs(a) \/ (state[a] = "running" /\ jobs' = Append(jobs, a))
                \/ (mgr.pc = "scan" /\ jobs' = <<a>>)
  <2>1. CASE jobs' = jobs
    BY <1>2, <1>3, <2>1 DEF InJobs
  <2>2. ASSUME NEW b \in Attempt, EnqueueLand(b), state[b] = "running", jobs' = Append(jobs, b)
        PROVE  /\ state'[a] = "landing"
               /\ InJobs(a) \/ (state[a] = "running" /\ jobs' = Append(jobs, a))
    <3>1. state'[b] = "landing"
      BY <2>2 DEF EnqueueLand, OnLandEnqueued, IInv, Typed, StoreInv
    <3>2. a = b \/ InJobs(a)
      BY <1>3, <1>j, <2>2 DEF InJobs
    <3> QED BY <1>2, <2>2, <3>1, <3>2
  <2>3. CASE jobs # <<>> /\ jobs' = Tail(jobs)
    BY <1>2, <1>3, <1>j, <2>3 DEF InJobs
  <2>4. CASE jobs' = <<>>
    BY <1>3, <2>4 DEF InJobs
  <2>5. ASSUME NEW b \in Attempt, RecoverReenqueue(b), jobs' = <<b>>
        PROVE  state'[a] = "landing" /\ mgr.pc = "scan" /\ jobs' = <<a>>
    <3>1. a = b
      BY <1>3, <2>5 DEF InJobs
    <3> QED BY <2>5, <3>1 DEF RecoverReenqueue
  <2> QED BY <2>1, <2>2, <2>3, <2>4, <2>5, QueueStep DEF JobsMove
<1>4. \A i, j \in DOMAIN jobs' : jobs'[i] = jobs'[j] => i = j
  <2>0. \A i, j \in DOMAIN jobs : jobs[i] = jobs[j] => i = j
    BY DEF Queued
  <2>1. ASSUME NEW b \in Attempt, state[b] = "running", jobs' = Append(jobs, b)
        PROVE  \A i, j \in DOMAIN jobs' : jobs'[i] = jobs'[j] => i = j
    <3>1. \A i \in DOMAIN jobs : jobs[i] # b
      BY <1>j, <2>1 DEF Queued, InJobs
    <3> QED BY <1>j, <2>0, <2>1, <3>1
  <2>2. CASE jobs # <<>> /\ jobs' = Tail(jobs)
    BY <1>j, <2>0, <2>2
  <2>3. CASE jobs' = <<>> \/ \E b \in Attempt : jobs' = <<b>>
    BY <2>3
  <2> QED BY <2>0, <2>1, <2>2, <2>3, QueueStep DEF JobsMove
<1>5. ASSUME NEW a \in Attempt, result'[a] \in {Synced, Pushed}
      PROVE  jobs' # <<>> /\ a = Head(jobs')
  <2>1. Synced # NoResult /\ Pushed # NoResult /\ Synced # Pushed
    BY DEF Synced, Pushed, NoResult
  <2>2. CASE LandSync(a) \/ LandPush(a)
    BY <2>2 DEF LandSync, LandPush, Starting, Producing
  <2>3. ASSUME NEW land \in LandReplies, LandSquash(a, land) \/ LandRefuse(a, land)
        PROVE  FALSE
    <3>1. result'[a] = land
      BY <2>3 DEF LandSquash, LandRefuse, IInv, Typed, LandInv
    <3>2. land.kind \notin {"synced", "pushed"}
      BY <2>3 DEF LandSquash, LandRefuse, LandSuccessKinds, LandRefusedKinds
    <3> QED BY <1>5, <3>1, <3>2 DEF Synced, Pushed
  <2>4. ~LandAdopt(a)
    <3>1. LandAdopt(a) => result'[a].kind = "adopted"
      BY DEF LandAdopt, IInv, Typed, LandInv
    <3> QED BY <1>5, <3>1 DEF Synced, Pushed
  <2>5. CASE result'[a] = result[a]
    <3>1. jobs # <<>> /\ a = Head(jobs)
      BY <1>5, <2>5 DEF Queued
    <3>2. ASSUME NEW b \in Attempt, b = Head(jobs),
                 \/ LandAdopt(b) \/ LandTeardown(b)
                 \/ \E land \in LandReplies : LandRefuse(b, land)
          PROVE  FALSE
      <4>1. b = a
        BY <3>1, <3>2
      <4>2. ~LandTeardown(a)
        BY <1>5, <2>5 DEF LandTeardown, LandSuccessKinds, Synced, Pushed
      <4> QED BY <2>3, <2>4, <3>2, <4>1, <4>2
    <3>3. ~Crash /\ mgr.pc # "scan"
      BY <1>5, <2>1, <3>1 DEF Crash, IInv, JobsInv
    <3>4. jobs' = jobs \/ \E b \in Attempt : jobs' = Append(jobs, b)
      BY <3>2, <3>3, QueueStep DEF JobsMove, RecoverReenqueue
    <3> QED BY <1>j, <3>1, <3>4
  <2> QED BY <1>5, <2>1, <2>2, <2>3, <2>4, <2>5, ResultsStep DEF ResultsMove
<1>6. ASSUME NEW a \in Attempt, result'[a] # result[a], result'[a] # NoResult
      PROVE  jobs # <<>> /\ a = Head(jobs) /\ ~RecoveryStep
  <2>1. jobs # <<>> /\ a = Head(jobs)
    BY <1>6, ResultsStep DEF ResultsMove, LandAdopt, LandSync, LandPush, LandSquash, LandRefuse,
       Starting, Producing
  <2>2. result' = result \/ \E b \in Attempt : result' = [result EXCEPT ![b] = NoResult]
          \/ result' = [c \in Attempt |-> NoResult] \/ ~RecoveryStep
    BY DEF RecoveryStep, Crash, Restart, RecoverDrop, RecoveryDone, RecoverLanded,
       RecoverReenqueue, RecoverReland, RecoverPark
  <2> QED BY <1>6, <2>1, <2>2 DEF IInv, Typed, LandInv
<1>7. CASE ~RecoveryStep
  <2>1. mgr' = mgr
    BY <1>7, PhaseStep
  <2>2. ASSUME mgr.pc \in {"down", "scan", "drop"}
        PROVE  \A a \in Attempt : result'[a] = NoResult
    BY <1>6, <2>2 DEF Queued, IInv, JobsInv
  <2>3. ASSUME mgr.pc = "land" PROVE \A a \in Attempt \ {mgr.at} : result'[a] = NoResult
    <3>1. jobs # <<>> => Head(jobs) = mgr.at
      BY <1>j, <2>3 DEF IInv, JobsInv
    <3> QED BY <1>6, <2>3, <3>1 DEF Queued
  <2> QED BY <1>2, <1>3, <1>4, <1>5, <2>1, <2>2, <2>3 DEF Queued
<1>8. CASE RecoveryStep
  <2>1. \A a \in Attempt : result'[a] = result[a] \/ result'[a] = NoResult
    BY <1>6, <1>8
  <2>2. ASSUME mgr.pc \in {"down", "scan", "drop"}
        PROVE  \A a \in Attempt : result'[a] = NoResult
    BY <2>1, <2>2 DEF Queued
  <2>3. ASSUME mgr.pc = "land" PROVE \A a \in Attempt : result'[a] = NoResult
    <3>1. CASE Crash
      BY <3>1 DEF Crash
    <3>2. ASSUME NEW b \in Attempt, RecoverReland(b)
          PROVE  \A a \in Attempt : result'[a] = NoResult
      <4>1. result'[b] = NoResult /\ mgr.at = b
        BY <3>2, RelandPhase
      <4> QED BY <2>1, <2>3, <4>1 DEF Queued
    <3> QED BY <1>8, <2>3, <3>1, <3>2, RecoveryPhases
  <2>4. CASE mgr.pc = "up"
    <3>1. Crash
      BY <1>8, <2>4, RecoveryPhases, RelandPhase
    <3> QED BY <1>2, <1>3, <1>4, <1>5, <3>1 DEF Crash, Queued
  <2>5. mgr.pc \in {"up", "down", "scan", "drop", "land"}
    BY DEF IInv, Typed, ProcessInv, Managers
  <2> QED BY <1>2, <1>3, <1>4, <1>5, <2>2, <2>3, <2>4, <2>5 DEF Queued
<1> QED BY <1>7, <1>8


\* The job at the head lands the finished work of its own attempt.
LEMMA HeadOwned ==
    ASSUME IInv, Orderly, NEW a \in Attempt, jobs # <<>>, a = Head(jobs)
    PROVE  /\ state[a] = "landing" /\ InJobs(a) /\ Finished(a) /\ lease[a].task \in Task
           /\ ~LandAdopt(a)
           /\ Squash(a) = [by |-> a, trailer |-> a, work |-> "done"]
           /\ \A i \in DOMAIN Tail(jobs) : Tail(jobs)[i] # a
<1>1. 1 \in DOMAIN jobs /\ jobs[1] = a /\ jobs \in Seq(Attempt)
  BY DEF IInv, Typed, LandInv
<1>2. InJobs(a) /\ state[a] = "landing"
  BY <1>1 DEF InJobs, Orderly, Queued
<1>3. Finished(a) /\ lease[a].task \in Task
  BY <1>2, HeadJob DEF Orderly, Owned
<1>4. ~LandAdopt(a)
  BY <1>3 DEF LandAdopt, Adopts, HasCommits, Finished
<1>5. Squash(a) = [by |-> a, trailer |-> a, work |-> "done"]
  BY <1>3 DEF Squash, Finished
<1>6. \A i \in DOMAIN Tail(jobs) : Tail(jobs)[i] = jobs[i + 1] /\ i + 1 \in DOMAIN jobs
  BY <1>1
<1>7. \A i \in DOMAIN Tail(jobs) : i + 1 # 1
  BY <1>1
<1>8. \A i, j \in DOMAIN jobs : jobs[i] = jobs[j] => i = j
  BY DEF Orderly, Queued
<1> QED BY <1>1, <1>2, <1>3, <1>4, <1>5, <1>6, <1>7, <1>8

\* What becomes of the logs.
LEMMA QuietLogs ==
    ASSUME IInv, Quiet, Orderly, Next
    PROVE  \/ UNCHANGED <<main, ahead>>
           \/ /\ main' = main \o ahead /\ ahead' = <<>>
              /\ \/ LockFree
                 \/ \E a \in Attempt : LandSync(a) \/ (jobs # <<>> /\ a = Head(jobs) /\ result'[a] # Pushed)
           \/ \E a \in Attempt : /\ LandPush(a) /\ main' = main /\ ahead' = <<Squash(a)>>
           \/ \E a \in Attempt, land \in LandReplies :
                LandSquash(a, land) /\ ~PushMode /\ main' = Append(main, Squash(a)) /\ ahead' = ahead
           \/ \E c \in Commits : c.trailer = 0 /\ main' = Append(main, c) /\ ahead' = ahead
<1>1. ASSUME NEW a \in Attempt, NEW land \in LandReplies, LandSquash(a, land), PushMode
      PROVE  main' = main \o ahead /\ ahead' = <<>> /\ jobs # <<>> /\ a = Head(jobs) /\ result'[a] # Pushed
  <2>1. result'[a] = land /\ land.kind \in LandSuccessKinds
    BY <1>1 DEF LandSquash, IInv, Typed, LandInv
  <2>2. result'[a] # Pushed
    BY <2>1 DEF Pushed, LandSuccessKinds
  <2> QED BY <1>1, <2>2 DEF LandSquash
<1>2. ASSUME NEW a \in Attempt, NEW land \in LandReplies, LandSquash(a, land), ~PushMode
      PROVE  main' = Append(main, Squash(a)) /\ ahead' = ahead
  BY <1>2 DEF LandSquash
<1>3. ASSUME NEW a \in Attempt, LandSync(a) PROVE main' = main \o ahead /\ ahead' = <<>>
  BY <1>3 DEF LandSync
<1>4. ASSUME NEW a \in Attempt, LandPush(a) PROVE main' = main /\ ahead' = <<Squash(a)>>
  BY <1>4 DEF LandPush
<1> QED BY <1>1, <1>2, <1>3, <1>4, LogsStep DEF LogsMove

\* Nothing leaves main, and what origin has is pulled.
LEMMA CarriesStep ==
    ASSUME IInv, Quiet, Orderly, Next, NEW b \in Attempt
    PROVE  /\ Carries(main, b) => Carries(main, b)'
           /\ Squashed(b) => Squashed(b)'
           /\ Carries(ahead, b)' => Carries(ahead, b) \/ LandPush(b)
           /\ Carries(main, b)' => \/ Squashed(b)
                                   \/ \E land \in LandReplies : LandSquash(b, land) /\ ~PushMode
<1>1. main \in Seq(Commits) /\ ahead \in Seq(Commits) /\ b # 0
  BY DEF IInv, Typed, DiskInv, Attempt
<1>2. CASE UNCHANGED <<main, ahead>>
  BY <1>2 DEF Squashed
<1>3. CASE main' = main \o ahead /\ ahead' = <<>>
  <2>1. Carries(main', b) <=> Carries(main, b) \/ Carries(ahead, b)
    BY <1>1, <1>3, CarriesConcat
  <2>2. ~Carries(ahead', b)
    BY <1>3 DEF Carries
  <2>3. Carries(main, b)' <=> Carries(main', b)
    BY DEF Carries
  <2>4. Carries(ahead, b)' <=> Carries(ahead', b)
    BY DEF Carries
  <2> QED BY <2>1, <2>2, <2>3, <2>4 DEF Squashed
<1>4. ASSUME NEW a \in Attempt, LandPush(a), main' = main, ahead' = <<Squash(a)>>
      PROVE  /\ Carries(main, b)' <=> Carries(main, b)
             /\ Carries(ahead, b)' => LandPush(b)
             /\ ~Carries(ahead, b)
  <2>1. jobs # <<>> /\ a = Head(jobs) /\ result[a] = Synced
    BY <1>4 DEF LandPush, Producing
  <2>2. ahead = <<>>
    BY <2>1 DEF Orderly, Stages
  <2>3. Squash(a).trailer = a
    BY DEF Squash
  <2>4. Carries(ahead, b)' => b = a
    BY <1>4, <2>3 DEF Carries
  <2> QED BY <1>4, <2>2, <2>4 DEF Carries
<1>5. ASSUME NEW a \in Attempt, NEW land \in LandReplies, LandSquash(a, land), ~PushMode,
             main' = Append(main, Squash(a)), ahead' = ahead
      PROVE  /\ Carries(main, b)' <=> Carries(main, b) \/ a = b
             /\ Carries(ahead, b)' <=> Carries(ahead, b)
  <2>1. Squash(a).trailer = a
    BY DEF Squash
  <2>2. Carries(main', b) <=> Carries(main, b) \/ a = b
    BY <1>1, <1>5, <2>1, CarriesAppend
  <2>3. Carries(main, b)' <=> Carries(main', b)
    BY DEF Carries
  <2> QED BY <1>5, <2>2, <2>3 DEF Carries
<1>6. ASSUME NEW c \in Commits, c.trailer = 0, main' = Append(main, c), ahead' = ahead
      PROVE  /\ Carries(main, b)' <=> Carries(main, b)
             /\ Carries(ahead, b)' <=> Carries(ahead, b)
  <2>1. Carries(main', b) <=> Carries(main, b)
    BY <1>1, <1>6, CarriesAppend
  <2>2. Carries(main, b)' <=> Carries(main', b)
    BY DEF Carries
  <2> QED BY <1>6, <2>1, <2>2 DEF Carries
<1>7. \/ UNCHANGED <<main, ahead>>
      \/ main' = main \o ahead /\ ahead' = <<>>
      \/ \E a \in Attempt : LandPush(a) /\ main' = main /\ ahead' = <<Squash(a)>>
      \/ \E a \in Attempt, land \in LandReplies :
           LandSquash(a, land) /\ ~PushMode /\ main' = Append(main, Squash(a)) /\ ahead' = ahead
      \/ \E c \in Commits : c.trailer = 0 /\ main' = Append(main, c) /\ ahead' = ahead
  BY QuietLogs
<1>8. CASE \E a \in Attempt : LandPush(a) /\ main' = main /\ ahead' = <<Squash(a)>>
  BY <1>4, <1>8 DEF Squashed
<1>9. CASE \E a \in Attempt, land \in LandReplies :
             LandSquash(a, land) /\ ~PushMode /\ main' = Append(main, Squash(a)) /\ ahead' = ahead
  BY <1>5, <1>9 DEF Squashed
<1>10. CASE \E c \in Commits : c.trailer = 0 /\ main' = Append(main, c) /\ ahead' = ahead
  BY <1>6, <1>10 DEF Squashed
<1> QED BY <1>2, <1>3, <1>7, <1>8, <1>9, <1>10

\* Every squash is signed by the attempt whose work it is.
LEMMA LogsKept ==
    ASSUME IInv, Quiet, Orderly, Next
    PROVE  Logs'
<1>1. /\ main \in Seq(Commits) /\ ahead \in Seq(Commits)
      /\ Signed(main) /\ Signed(ahead) /\ (~PushMode => ahead = <<>>)
  BY DEF IInv, Typed, DiskInv, Orderly, Logs
<1>2. ASSUME NEW log \in Seq(Commits), NEW c \in Commits, Signed(log),
             c.trailer # 0 => c.by = c.trailer /\ c.work = "done"
      PROVE  Signed(Append(log, c))
  BY <1>2 DEF Signed
<1>3. CASE UNCHANGED <<main, ahead>>
  BY <1>1, <1>3 DEF Logs, Signed
<1>4. CASE main' = main \o ahead /\ ahead' = <<>>
  <2>1. Signed(main \o ahead)
    <3> SUFFICES ASSUME NEW i \in DOMAIN (main \o ahead), (main \o ahead)[i].trailer # 0
                 PROVE  /\ (main \o ahead)[i].by = (main \o ahead)[i].trailer
                        /\ (main \o ahead)[i].work = "done"
      BY DEF Signed
    <3>1. CASE i \in DOMAIN main
      <4>1. (main \o ahead)[i] = main[i]
        BY <1>1, <3>1
      <4> QED BY <1>1, <3>1, <4>1 DEF Signed
    <3>2. CASE i \notin DOMAIN main
      <4>1. i - Len(main) \in DOMAIN ahead /\ (main \o ahead)[i] = ahead[i - Len(main)]
        BY <1>1, <3>2
      <4> QED BY <1>1, <4>1 DEF Signed
    <3> QED BY <3>1, <3>2
  <2>2. Signed(<<>>)
    BY DEF Signed
  <2> QED BY <1>4, <2>1, <2>2 DEF Logs, Signed
<1>5. ASSUME NEW a \in Attempt, LandPush(a), main' = main, ahead' = <<Squash(a)>>
      PROVE  Logs'
  <2>1. jobs # <<>> /\ a = Head(jobs) /\ PushMode
    BY <1>5 DEF LandPush, Producing
  <2>2. Squash(a) = [by |-> a, trailer |-> a, work |-> "done"]
    BY <2>1, HeadOwned
  <2> QED BY <1>1, <1>5, <2>1, <2>2 DEF Logs, Signed
<1>6. ASSUME NEW a \in Attempt, NEW land \in LandReplies, LandSquash(a, land),
             main' = Append(main, Squash(a)), ahead' = ahead
      PROVE  Logs'
  <2>1. jobs # <<>> /\ a = Head(jobs)
    BY <1>6 DEF LandSquash
  <2>2. Squash(a) = [by |-> a, trailer |-> a, work |-> "done"]
    BY <2>1, HeadOwned
  <2>3. Squash(a) \in Commits
    BY <2>2 DEF Commits
  <2>4. Signed(Append(main, Squash(a)))
    BY <1>1, <1>2, <2>2, <2>3
  <2> QED BY <1>1, <1>6, <2>4 DEF Logs, Signed
<1>7. ASSUME NEW c \in Commits, c.trailer = 0, main' = Append(main, c), ahead' = ahead
      PROVE  Logs'
  <2>1. Signed(Append(main, c))
    BY <1>1, <1>2, <1>7
  <2> QED BY <1>1, <1>7, <2>1 DEF Logs, Signed
<1> QED BY <1>3, <1>4, <1>5, <1>6, <1>7, QuietLogs

\* A branch is as its worker left it until the land tears it down.
LEMMA OwnedStep ==
    ASSUME IInv, Quiet, Orderly, Next, NEW a \in Attempt
    PROVE  Owned(a)'
<1> DEFINE t == lease[a].task
<1>0. /\ Attended /\ Queued /\ Owned(a) /\ Stages(a)
      /\ jobs \in Seq(Attempt) /\ handler \in [Attempt -> GoodHandlers]
  BY DEF Orderly, IInv, Typed, LandInv, HandlerInv
<1>1. ASSUME state[a] # "none" PROVE t \in Task /\ lease'[a] = lease[a]
  BY <1>1, EdgesStep DEF Edges, IInv, Typed, StoreInv, Leases
\* Nobody else writes the branch of an attempt whose work is reported.
<1>2. ASSUME \/ state[a] = "running" /\ handler[a].pc = "enqueue"
             \/ state[a] = "landing", Finished(a)
      PROVE  \/ Finished(a)'
             \/ LandTeardown(a)
  <2>1. state[a] # "none" /\ t \in Task /\ lease'[a] = lease[a] /\ Live(a)
    BY <1>1, <1>2 DEF Live, LiveStates
  <2>2. branch[t] = [by |-> a, work |-> "done"] /\ HasCommits(branch[t])
    BY <1>2 DEF Finished, HasCommits
  <2>3. ASSUME NEW w \in Worker, order[w].pc # "idle", OrderTask(w) = t PROVE FALSE
    <3>1. /\ state[order[w].at] = "running" /\ handler[order[w].at].pc = "idle"
          /\ order[w].at \in Attempt /\ lease[order[w].at].task = t
      BY <1>0, <2>3 DEF Attended, IInv, Typed, ProcessInv, Orders, OrderTask
    <3>2. order[w].at = a
      BY <2>1, <3>1 DEF IInv, OneLiveAttempt, Live, LiveStates
    <3> QED BY <1>2, <3>1, <3>2
  <2>4. ASSUME NEW b \in Attempt, lease[b].task = t, SubmitAdopt(b) PROVE Finished(a)'
    BY <2>1, <2>2, <2>4 DEF SubmitAdopt, Finished
  <2>5. ASSUME NEW b \in Attempt, lease[b].task = t, LandAdopt(b) PROVE FALSE
    <3>1. jobs # <<>> /\ b = Head(jobs)
      BY <2>5 DEF LandAdopt, Starting
    <3> QED BY <2>5, <3>1, HeadOwned
  <2>6. ASSUME NEW b \in Attempt, lease[b].task = t, LandTeardown(b) PROVE b = a
    <3>1. jobs # <<>> /\ b = Head(jobs)
      BY <2>6 DEF LandTeardown
    <3>2. state[b] = "landing"
      BY <3>1, HeadOwned
    <3> QED BY <2>1, <2>6, <3>2 DEF IInv, OneLiveAttempt, Live, LiveStates
  <2>7. \A b \in Attempt : ~ResolverLands(b)
    BY DEF Orderly, Calm, ResolverLands
  <2>8. ~GcBranch(t)
    BY <2>1 DEF GcBranch, Leased
  <2>9. CASE branch'[t] = branch[t]
    BY <2>1, <2>2, <2>9 DEF Finished
  <2> QED BY <2>1, <2>3, <2>4, <2>5, <2>6, <2>7, <2>8, <2>9, BranchesStep DEF BranchesMove
\* A submit that goes on to its land reports a finished branch.
<1>3. ASSUME state'[a] = "running", handler'[a].pc = "enqueue" PROVE Finished(a)'
  <2>1. state[a] = "running"
    <3>1. state[a] # "none"
      <4>1. handler'[a].pc # "idle"
        BY <1>3
      <4>2. CASE ~RecoveryStep
        BY <4>1, <4>2, HandlersStep DEF HandlersMove, IInv, Typed, Known, KnownHandlers,
           SubmitApply, SubmitAdopt, EnqueueLand, CompleteLand, SetFlags, SetQueue, DropBrief, Escalate
      <4>3. CASE RecoveryStep
        <5>1. handler'[a] = handler[a] \/ handler'[a] = Idle
          BY <4>3 DEF RecoveryStep, Crash, Restart, RecoverDrop, RecoveryDone, RecoverLanded,
             RecoverReenqueue, RecoverReland, RecoverPark
        <5> QED BY <4>1, <5>1 DEF Idle, IInv, Typed, Known, KnownHandlers
      <4> QED BY <4>2, <4>3
    <3> QED BY <1>3, <3>1, EdgesStep DEF Edges, TerminalStates
  <2>2. ASSUME NEW w \in Worker, NEW o \in Submits, SubmitRead(w, o), a = order[w].at
        PROVE  Finished(a)'
    <3>1. OnSubmitPhase(o, FALSE) = "enqueue" => o.landable
      BY DEF OnSubmitPhase
    <3> DEFINE phase == OnSubmitPhase(o, FALSE)
               pol == SubmitPolicy(lease[a].task)
               tr == OnSubmit(o, pol)
    <3>2. /\ phase = "apply" => handler'[a] = [pc |-> "apply", tr |-> tr]
          /\ phase # "apply" => handler'[a] = [pc |-> phase, out |-> o, pol |-> pol]
      BY <1>0, <2>1, <2>2 DEF SubmitRead
    <3> HIDE DEF phase, pol, tr
    <3>3. phase = "enqueue"
      BY <1>3, <3>2
    <3>4. branch[t] = [by |-> a, work |-> "done"]
      BY <2>2, <3>1, <3>3 DEF SubmitRead, Reportable, OrderTask, phase
    <3>5. branch' = branch /\ lease'[a] = lease[a]
      BY <1>1, <2>1, <2>2 DEF SubmitRead
    <3> QED BY <3>4, <3>5 DEF Finished
  <2>3. CASE handler[a].pc = "enqueue"
    <3>1. ~LandTeardown(a)
      BY <2>1, HeadOwned DEF LandTeardown
    <3> QED BY <1>0, <1>2, <2>1, <2>3, <3>1 DEF Owned
  <2>4. CASE handler'[a] = handler[a]
    BY <1>3, <2>3, <2>4
  <2>5. CASE RecoveryStep
    <3>1. handler'[a] = handler[a] \/ handler'[a] = Idle
      BY <2>5 DEF RecoveryStep, Crash, Restart, RecoverDrop, RecoveryDone, RecoverLanded,
         RecoverReenqueue, RecoverReland, RecoverPark
    <3> QED BY <1>3, <2>4, <3>1 DEF Idle
  <2>6. CASE SubmitApply(a) \/ CompleteLand(a)
    <3>1. \E eff : handler'[a] = Idle \/ handler'[a] = Resume(AfterCommit(eff), eff)
      BY <1>0, <2>6 DEF SubmitApply, CompleteLand
    <3> QED BY <1>3, <3>1, NextStages, ResumedStage DEF Idle
  <2>7. CASE SubmitAdopt(a)
    <3>1. \E tr : handler'[a] = [pc |-> "apply", tr |-> tr]
      BY <1>0, <2>7 DEF SubmitAdopt
    <3> QED BY <1>3, <3>1
  <2>8. CASE EnqueueLand(a)
    <3>1. handler[a].pc = "enqueue"
      BY <2>8 DEF EnqueueLand
    <3> QED BY <2>3, <3>1
  <2>9. CASE SetFlags(a) \/ SetQueue(a) \/ DropBrief(a) \/ Escalate(a)
    <3>1. \E eff : \/ handler'[a] = Idle
                   \/ handler'[a] = Resume(AfterFlags(eff), eff)
                   \/ handler'[a] = Resume(AfterQueue(eff), eff)
                   \/ handler'[a] = Resume(AfterDrop(eff), eff)
      BY <1>0, <2>9 DEF SetFlags, SetQueue, DropBrief, Escalate
    <3> QED BY <1>3, <3>1, NextStages, ResumedStage DEF Idle
  <2> QED BY <2>2, <2>4, <2>5, <2>6, <2>7, <2>8, <2>9, HandlersStep DEF HandlersMove
<1>4. ASSUME state'[a] = "landing" PROVE Finished(a)' \/ (Carries(main, a)' /\ ~InJobs(a)')
  <2>1. CASE state[a] = "running"
    <3>1. EnqueueLand(a)
      <4>1. ~SubmitApply(a)
        <5>1. SubmitApply(a) => state'[a] = handler[a].tr.state /\ handler[a].tr \in Verdicts
          BY <1>0, <2>1, HandlerFields DEF SubmitApply, Commit, IInv, Typed, StoreInv
        <5> QED BY <1>4, <5>1 DEF Verdicts, TerminalStates
      <4>2. ~RecoverReland(a)
        BY <2>1, RelandPhase
      <4>3. ~CompleteLand(a) \/ state[a] # "landing"
        BY <2>1
      <4>4. ~RecoverLanded(a) /\ ~RecoverPark(a)
        BY <2>1 DEF RecoverLanded, RecoverPark
      <4> QED BY <1>4, <2>1, <4>1, <4>2, <4>3, <4>4, QuietStates DEF Orderly
    <3>2. Finished(a) /\ ~LandTeardown(a)
      BY <1>0, <2>1, <3>1, HeadOwned DEF Owned, EnqueueLand, LandTeardown
    <3>3. handler[a].pc = "enqueue"
      BY <3>1 DEF EnqueueLand
    <3> QED BY <1>2, <2>1, <3>2, <3>3
  <2>2. CASE state[a] = "landing"
    <3>1. CASE Finished(a)
      <4>1. CASE LandTeardown(a)
        <5>1. jobs' = Tail(jobs) /\ jobs # <<>> /\ a = Head(jobs) /\ result[a].kind \in LandSuccessKinds
              /\ main' = main
          BY <4>1 DEF LandTeardown
        <5>2. ~InJobs(a)'
          BY <5>1, HeadOwned DEF InJobs
        <5>3. Carries(main, a)'
          BY <1>0, <5>1 DEF Stages, Carries
        <5> QED BY <5>2, <5>3
      <4> QED BY <1>2, <2>2, <3>1, <4>1
    <3>2. CASE Carries(main, a) /\ ~InJobs(a)
      <4>1. Carries(main, a)'
        BY <3>2, CarriesStep
      <4>2. ~InJobs(a)'
        <5>1. ASSUME NEW b \in Attempt, RecoverReenqueue(b), jobs' = <<b>> PROVE ~InJobs(a)'
          <6>1. b # a
            BY <3>2, <5>1 DEF RecoverReenqueue, FindLandedAttempt
          <6> QED BY <5>1, <6>1 DEF InJobs
        <5>2. ASSUME NEW b \in Attempt, EnqueueLand(b), state[b] = "running", jobs' = Append(jobs, b)
              PROVE  ~InJobs(a)'
          <6>1. b # a
            BY <2>2, <5>2
          <6> QED BY <1>0, <3>2, <5>2, <6>1 DEF InJobs
        <5>3. CASE jobs # <<>> /\ jobs' = Tail(jobs)
          BY <1>0, <3>2, <5>3 DEF InJobs
        <5>4. CASE jobs' = jobs \/ jobs' = <<>>
          BY <3>2, <5>4 DEF InJobs
        <5> QED BY <5>1, <5>2, <5>3, <5>4, QueueStep DEF JobsMove
      <4> QED BY <4>1, <4>2
    <3> QED BY <1>0, <2>2, <3>1, <3>2 DEF Owned
  <2>3. state[a] \in {"running", "landing"}
    BY <1>4, EdgesStep DEF Edges, TerminalStates
  <2> QED BY <2>1, <2>2, <2>3
<1> QED BY <1>3, <1>4 DEF Owned

\* An attempt leaves LANDING when its result is taken.
LEMMA LandingStays ==
    ASSUME IInv, Quiet, Orderly, Next, NEW a \in Attempt, state[a] = "landing",
           result'[a].kind # "none"
    PROVE  state'[a] = "landing"
<1>1. ~SubmitApply(a) \/ state[a] # "running"
  OBVIOUS
<1>2. ~CompleteLand(a)
  <2>1. CompleteLand(a) => result'[a] = NoResult
    BY DEF CompleteLand, IInv, Typed, LandInv
  <2> QED BY <2>1 DEF NoResult
<1>3. ~ExpireDeadline(a)
  BY DEF ExpireDeadline
<1>4. ~RecoverReland(a)
  BY RelandPhase DEF NoResult
<1>5. ~RecoverLanded(a) /\ ~RecoverPark(a)
  BY DEF RecoverLanded, RecoverPark, Orderly, Queued, NoResult
<1> QED BY <1>1, <1>2, <1>3, <1>4, <1>5, QuietStates DEF Orderly

\* A land that is not at its head's last step keeps what its result says.
LEMMA StagesKept ==
    ASSUME IInv, Quiet, Orderly, Next, NEW a \in Attempt, result'[a] = result[a]
    PROVE  Stages(a)'
<1>0. /\ Queued /\ Logs /\ Stages(a) /\ jobs \in Seq(Attempt)
      /\ NoResult.kind = "none" /\ Synced.kind = "synced" /\ Pushed.kind = "pushed"
  BY DEF Orderly, IInv, Typed, LandInv, NoResult, Synced, Pushed
<1>1. ASSUME result[a].kind # "none"
      PROVE  state[a] = "landing" /\ state'[a] = "landing" /\ mgr.pc \notin {"down", "scan", "drop"}
  BY <1>0, <1>1, LandingStays DEF Stages, Queued
<1>2. ASSUME result[a] \in {Synced, Pushed} PROVE jobs # <<>> /\ a = Head(jobs)
  BY <1>0, <1>2 DEF Queued
<1>3. ASSUME NEW b \in Attempt, LandPush(b) PROVE b = Head(jobs) /\ result'[b] = Pushed /\ result[b] = Synced
  BY <1>3 DEF LandPush, Producing, IInv, Typed, LandInv
<1>4. ASSUME NEW b \in Attempt, LandSync(b) PROVE b = Head(jobs) /\ result[b] = NoResult
  BY <1>4 DEF LandSync, Starting
<1>5. ASSUME result[a] = Synced PROVE ahead' = <<>>
  <2>1. ahead = <<>> /\ a = Head(jobs) /\ Pushed # Synced
    BY <1>0, <1>2, <1>5 DEF Stages
  <2>2. \A b \in Attempt : ~LandPush(b)
    BY <1>3, <1>5, <2>1
  <2> QED BY <2>1, <2>2, QuietLogs
<1>6. ASSUME result[a] = Pushed PROVE Carries(ahead, a)'
  <2>1. Carries(ahead, a) /\ jobs # <<>> /\ a = Head(jobs) /\ Pushed # Synced /\ Pushed # NoResult
    BY <1>0, <1>2, <1>6 DEF Stages
  <2>2. ~LockFree /\ \A b \in Attempt : ~LandPush(b) /\ ~LandSync(b)
    BY <1>3, <1>4, <1>6, <2>1 DEF LockFree
  <2>3. ahead' = ahead
    BY <1>6, <2>1, <2>2, QuietLogs
  <2> QED BY <2>1, <2>3 DEF Carries
<1>7. ASSUME result[a].kind \in LandSuccessKinds PROVE Carries(main, a)'
  BY <1>0, <1>7, CarriesStep DEF Stages
<1>8. ASSUME result[a].kind \in LandRefusedKinds
      PROVE  /\ ~Carries(ahead, a)' /\ ~InJobs(a)'
             /\ Carries(main, a)' => result[a].kind = "conflict" /\ mgr' = [pc |-> "land", at |-> a]
  <2>0. /\ result[a].kind \notin {"none", "synced", "pushed"} /\ state[a] = "landing"
        /\ mgr.pc \notin {"down", "scan", "drop"} /\ ~Carries(ahead, a) /\ ~InJobs(a)
    BY <1>0, <1>1, <1>8 DEF LandRefusedKinds, Stages
  <2>1. ~LandPush(a)
    BY <1>0, <1>3, <2>0
  <2>2. ~Carries(ahead, a)'
    BY <2>0, <2>1, CarriesStep
  <2>3. ASSUME NEW b \in Attempt, EnqueueLand(b), state[b] = "running", jobs' = Append(jobs, b)
        PROVE  ~InJobs(a)'
    <3>1. b # a
      BY <2>0, <2>3
    <3> QED BY <1>0, <2>0, <2>3, <3>1 DEF InJobs
  <2>4. ASSUME jobs # <<>>, jobs' = Tail(jobs) PROVE ~InJobs(a)'
    BY <1>0, <2>0, <2>4 DEF InJobs
  <2>5. ASSUME jobs' = jobs \/ jobs' = <<>> PROVE ~InJobs(a)'
    BY <2>0, <2>5 DEF InJobs
  <2>6. ~InJobs(a)'
    BY <2>0, <2>3, <2>4, <2>5, QueueStep DEF JobsMove, RecoverReenqueue
  <2>7. ASSUME Carries(main, a)' PROVE result[a].kind = "conflict" /\ mgr' = [pc |-> "land", at |-> a]
    <3>1. ASSUME NEW land \in LandReplies, LandSquash(a, land) PROVE FALSE
      BY <2>0, <3>1, HeadOwned DEF LandSquash
    <3>2. Carries(main, a)
      BY <2>0, <2>7, <3>1, CarriesStep DEF Squashed
    <3>3. result[a].kind = "conflict" /\ mgr = [pc |-> "land", at |-> a]
      BY <1>0, <1>8, <3>2 DEF Stages
    <3>4. mgr.pc = "land" /\ mgr.at = a
      BY <3>3
    <3>5. ~RecoveryStep
      <4>1. ~Crash
        BY <1>0, <2>0 DEF Crash
      <4>2. \A b \in Attempt : ~RecoverReland(b)
        BY <1>0, <2>0, <3>4, RelandPhase
      <4> QED BY <2>0, <4>1, <4>2, RecoveryPhases
    <3> QED BY <3>3, <3>5, PhaseStep
  <2> QED BY <2>2, <2>6, <2>7
<1>9. result'[a].kind # "no_changes"
  BY <1>0 DEF Stages
<1> QED BY <1>1, <1>5, <1>6, <1>7, <1>8, <1>9 DEF Stages

\* The land at the head of the queue moves on.
LEMMA StagesMoved ==
    ASSUME IInv, Quiet, Orderly, Next, NEW a \in Attempt,
           \/ LandSync(a) \/ LandPush(a)
           \/ \E land \in LandReplies : LandSquash(a, land) \/ LandRefuse(a, land)
    PROVE  Stages(a)'
<1>0. /\ Queued /\ Logs /\ Stages(a) /\ Expected(a)
      /\ jobs # <<>> /\ a = Head(jobs) /\ jobs \in Seq(Attempt) /\ a # 0
      /\ main \in Seq(Commits) /\ ahead \in Seq(Commits)
      /\ result \in [Attempt -> LandResults \cup {NoResult, Synced, Pushed}]
      /\ NoResult.kind = "none" /\ Synced.kind = "synced" /\ Pushed.kind = "pushed"
  BY DEF Orderly, IInv, Typed, LandInv, DiskInv, NoResult, Synced, Pushed, LandSync, Starting,
     LandPush, Producing, LandSquash, LandRefuse, Attempt
<1>1. /\ state[a] = "landing" /\ Finished(a) /\ lease[a].task \in Task
      /\ Squash(a) = [by |-> a, trailer |-> a, work |-> "done"]
      /\ \A i \in DOMAIN Tail(jobs) : Tail(jobs)[i] # a
  BY <1>0, HeadOwned
<1>2. state'[a] = "landing"
  BY <1>1 DEF LandSync, LandPush, LandSquash, LandRefuse
<1>3. CASE LandSync(a)
  <2>1. result'[a] = Synced /\ ahead' = <<>>
    BY <1>0, <1>3 DEF LandSync
  <2> QED BY <1>0, <1>2, <2>1 DEF Stages, LandSuccessKinds, LandRefusedKinds
<1>4. CASE LandPush(a)
  <2>1. result'[a] = Pushed /\ ahead' = <<Squash(a)>>
    BY <1>0, <1>4 DEF LandPush
  <2>2. Carries(ahead, a)'
    <3>1. 1 \in DOMAIN ahead' /\ ahead'[1].trailer = a
      BY <1>1, <2>1
    <3> QED BY <3>1 DEF Carries
  <2> QED BY <1>0, <1>2, <2>1, <2>2 DEF Stages, LandSuccessKinds, LandRefusedKinds
<1>5. ASSUME NEW land \in LandReplies, LandSquash(a, land) PROVE Stages(a)'
  <2>1. result'[a] = land /\ land.kind \in LandSuccessKinds
    BY <1>0, <1>5 DEF LandSquash
  <2>2. Carries(main, a)'
    <3>1. CASE PushMode
      <4>1. main' = main \o ahead /\ Carries(ahead, a)
        BY <1>0, <1>5, <3>1 DEF LandSquash, Stages
      <4>2. Carries(main', a)
        BY <1>0, <4>1, CarriesConcat
      <4> QED BY <4>2 DEF Carries
    <3>2. CASE ~PushMode
      <4>1. main' = Append(main, Squash(a)) /\ Squash(a).trailer = a
        BY <1>1, <1>5, <3>2 DEF LandSquash
      <4>2. Carries(main', a)
        BY <1>0, <4>1, CarriesAppend
      <4> QED BY <4>2 DEF Carries
    <3> QED BY <3>1, <3>2
  <2> QED BY <1>0, <1>2, <2>1, <2>2 DEF Stages, LandSuccessKinds, LandRefusedKinds
<1>6. ASSUME NEW land \in LandReplies, LandRefuse(a, land) PROVE Stages(a)'
  <2>1. /\ result'[a] = land /\ land.kind \in LandRefusedKinds
        /\ jobs' = Tail(jobs) /\ UNCHANGED <<main, ahead, mgr>>
    BY <1>0, <1>6 DEF LandRefuse
  <2>2. ahead = <<>> /\ result[a].kind \in {"none", "synced"}
    BY <1>0, <1>6 DEF LandRefuse, Producing, Stages, Logs
  <2>3. ~Carries(ahead, a)'
    BY <2>1, <2>2 DEF Carries
  <2>4. ~InJobs(a)'
    BY <1>1, <2>1 DEF InJobs
  <2>5. ASSUME Carries(main, a) PROVE land.kind = "conflict" /\ mgr = [pc |-> "land", at |-> a]
    <3>1. PICK i \in DOMAIN main : main[i].trailer = a
      BY <2>5 DEF Carries
    <3>2. main[i].by = a /\ main[i].work = "done"
      BY <1>0, <3>1 DEF Logs, Signed
    <3>3. OnMain(branch[lease[a].task])
      BY <1>1, <3>2 DEF OnMain, Finished
    <3>4. land.kind = "conflict"
      BY <1>6, <3>3 DEF LandRefuse, Squashable
    <3>5. mgr.pc # "up"
      BY <1>0, <1>1, <2>2, <2>5 DEF Expected, Squashed, LandSuccessKinds
    <3>6. mgr.pc \notin {"down", "scan", "drop"}
      BY <1>0 DEF IInv, JobsInv
    <3>7. mgr.pc = "land" /\ mgr = [pc |-> "land", at |-> mgr.at]
      BY <3>5, <3>6 DEF IInv, Typed, ProcessInv, Managers
    <3>8. jobs[1] = a /\ 1 \in DOMAIN jobs
      BY <1>0
    <3>9. mgr.at = a
      BY <3>7, <3>8 DEF IInv, JobsInv
    <3> QED BY <3>4, <3>7, <3>9
  <2>6. Carries(main, a)' => Carries(main, a)
    BY <2>1 DEF Carries
  <2> QED BY <1>0, <1>2, <2>1, <2>3, <2>4, <2>5, <2>6 DEF Stages, LandSuccessKinds, LandRefusedKinds
<1> QED BY <1>3, <1>4, <1>5, <1>6

\* A land's result stays truthful of the logs.
LEMMA StagesStep ==
    ASSUME IInv, Quiet, Orderly, Next, NEW a \in Attempt
    PROVE  Stages(a)'
<1>1. ~LandAdopt(a)
  BY HeadOwned DEF LandAdopt, Starting
<1>2. CASE result'[a] = NoResult
  BY <1>2 DEF Stages, NoResult, Synced, Pushed, LandSuccessKinds, LandRefusedKinds
<1> QED BY <1>1, <1>2, StagesKept, StagesMoved, ResultsStep DEF ResultsMove

\* A squash is made by the land of its own attempt.
LEMMA SquashedStep ==
    ASSUME IInv, Quiet, Orderly, Next, NEW a \in Attempt, Squashed(a)', ~Squashed(a)
    PROVE  /\ state[a] = "landing" /\ state'[a] = "landing"
           /\ result'[a].kind \in {"pushed"} \cup LandSuccessKinds
<1>1. LandPush(a) \/ \E land \in LandReplies : LandSquash(a, land)
  BY CarriesStep DEF Squashed
<1>2. jobs # <<>> /\ a = Head(jobs)
  BY <1>1 DEF LandPush, Producing, LandSquash
<1>3. state[a] = "landing" /\ state' = state
  BY <1>1, <1>2, HeadOwned DEF LandPush, LandSquash
<1>4. CASE LandPush(a)
  <2>1. result'[a] = Pushed
    BY <1>4 DEF LandPush, IInv, Typed, LandInv
  <2> QED BY <1>3, <2>1 DEF Pushed
<1>5. ASSUME NEW land \in LandReplies, LandSquash(a, land)
      PROVE  result'[a].kind \in LandSuccessKinds
  <2>1. result'[a] = land /\ land.kind \in LandSuccessKinds
    BY <1>5 DEF LandSquash, IInv, Typed, LandInv
  <2> QED BY <2>1
<1> QED BY <1>1, <1>3, <1>4, <1>5

\* A successful land is stored as landed.
LEMMA LandedVerdict ==
    ASSUME NEW out, NEW land, NEW pol, land.kind \in LandSuccessKinds
    PROVE  OnLandResult(out, land, pol).state = "landed"
BY DEF OnLandResult, LandedTransition, LandSuccessKinds

\* What the land of a squashed attempt is stored as.
LEMMA LandedKept ==
    ASSUME IInv, Quiet, Orderly, Next, NEW a \in Attempt, Squashed(a)
    PROVE  /\ state[a] = "landed" => state'[a] = "landed"
           /\ CompleteLand(a) /\ state[a] = "landing" => state'[a] = "landed"
           /\ RecoverReland(a) => state'[a] = "landed"
<1>0. /\ Stages(a) /\ Expected(a) /\ state \in [Attempt -> AttemptStates \cup {"none"}]
      /\ result[a] \in LandResults \cup {NoResult, Synced, Pushed}
  BY DEF Orderly, IInv, Typed, StoreInv, LandInv
<1>1. state[a] = "landed" => state'[a] = "landed"
  BY EdgesStep DEF Edges, ResolvableStates
<1>2. ASSUME CompleteLand(a), state[a] = "landing" PROVE state'[a] = "landed"
  <2> DEFINE tr == OnLandResult(handler[a].out, result[a], handler[a].pol)
  <2>1. result[a].kind \in LandSuccessKinds
    BY <1>0, <1>2 DEF CompleteLand, Up, Returned, Expected
  <2>2. tr.state = "landed"
    BY <2>1, LandedVerdict
  <2>3. state' = [state EXCEPT ![a] = tr.state]
    BY <1>2 DEF CompleteLand, Commit
  <2> HIDE DEF tr
  <2> QED BY <1>0, <2>2, <2>3
<1>3. ASSUME RecoverReland(a) PROVE state'[a] = "landed"
  <2>1. state' = [state EXCEPT ![a] = RecoveryTransition(a).state] /\ Returned(a)
    BY <1>3 DEF RecoverReland, Commit
  <2>2. CASE result[a].kind \in LandSuccessKinds
    <3>1. RecoveryTransition(a) = OnLandResult(RecoveryOutcome, result[a], RecoveryPolicy(lease[a].task))
      BY <2>2 DEF RecoveryTransition, LandSuccessKinds
    <3>2. RecoveryTransition(a).state = "landed"
      BY <2>2, <3>1, LandedVerdict
    <3> QED BY <1>0, <2>1, <3>2
  <2>3. CASE result[a].kind \in LandRefusedKinds
    <3>1. result[a].kind = "conflict" /\ FindLandedAttempt(a)
      BY <1>0, <2>3 DEF Stages, Squashed, FindLandedAttempt
    <3>2. RecoveryTransition(a).state = "landed"
      BY <3>1 DEF RecoveryTransition, OnLandRecovered
    <3> QED BY <1>0, <2>1, <3>2
  <2>4. result[a].kind \in LandSuccessKinds \cup LandRefusedKinds
    <3>1. result[a].kind \notin {"none", "synced", "pushed", "no_changes"}
      BY <1>0, <2>1 DEF Returned, Stages
    <3>2. result[a] \in LandResults
      BY <1>0, <3>1 DEF NoResult, Synced, Pushed
    <3> QED BY <3>1, <3>2 DEF LandResults
  <2> QED BY <2>2, <2>3, <2>4
<1> QED BY <1>1, <1>2, <1>3

\* Whoever has a squash is being landed or landed.
LEMMA SettledStep ==
    ASSUME IInv, Quiet, Orderly, Next, NEW a \in Attempt
    PROVE  Settled(a)'
<1> SUFFICES ASSUME Squashed(a)' PROVE state'[a] \in {"landing", "landed"}
  BY DEF Settled
<1>1. CASE Squashed(a)
  <2>1. state[a] \in {"landing", "landed"}
    BY <1>1 DEF Orderly, Settled
  <2>2. CASE state[a] = "landing"
    <3>1. RecoverLanded(a) => state'[a] = "landed"
      BY DEF RecoverLanded, Commit, OnLandRecovered, IInv, Typed, StoreInv
    <3>2. ~RecoverPark(a)
      <4>1. Finished(a) \/ Carries(main, a)
        BY <2>2 DEF Orderly, Owned
      <4> QED BY <4>1 DEF RecoverPark, Finished, FindLandedAttempt
    <3>3. ~ExpireDeadline(a)
      BY <2>2 DEF ExpireDeadline
    <3> QED BY <1>1, <2>2, <3>1, <3>2, <3>3, LandedKept, QuietStates DEF Orderly
  <2> QED BY <1>1, <2>1, <2>2, LandedKept
<1>2. CASE ~Squashed(a)
  BY <1>2, SquashedStep
<1> QED BY <1>1, <1>2

\* A squash is answered for: by its result, or by the stored verdict.
LEMMA ExpectedStep ==
    ASSUME IInv, Quiet, Orderly, Next, NEW a \in Attempt
    PROVE  Expected(a)'
<1> SUFFICES ASSUME mgr'.pc = "up", Squashed(a)'
             PROVE  state'[a] = "landed" \/ result'[a].kind \in {"pushed"} \cup LandSuccessKinds
  BY DEF Expected
<1>1. CASE ~Squashed(a)
  BY <1>1, SquashedStep
<1>2. CASE Squashed(a) /\ RecoveryStep
  <2>1. ~Crash /\ ~Restart /\ ~RecoverDrop
    BY DEF Crash, Restart, RecoverDrop
  <2>2. ASSUME NEW b \in Attempt, RecoverLanded(b) \/ RecoverReland(b) PROVE FALSE
    BY <2>2 DEF RecoverLanded, RecoverReland, Recovered
  <2>3. ASSUME NEW b \in Attempt, RecoverReenqueue(b) \/ RecoverPark(b) PROVE FALSE
    BY <2>3 DEF RecoverReenqueue, RecoverPark
  <2>4. RecoveryDone
    BY <1>2, <2>1, <2>2, <2>3 DEF RecoveryStep
  <2>5. state[a] = "landed"
    BY <1>2, <2>4 DEF RecoveryDone, Orderly, Settled
  <2> QED BY <1>2, <2>5, LandedKept
<1>3. CASE Squashed(a) /\ ~RecoveryStep
  <2>1. mgr' = mgr
    BY <1>3, PhaseStep
  <2>2. CASE state[a] = "landed"
    BY <1>3, <2>2, LandedKept
  <2>3. CASE result[a].kind \in {"pushed"} \cup LandSuccessKinds
    <3>0. /\ result[a].kind \notin {"none", "synced"} /\ state[a] = "landing"
          /\ NoResult.kind = "none" /\ Synced.kind = "synced"
      BY <2>3 DEF LandSuccessKinds, Orderly, Stages, NoResult, Synced
    <3>1. ~LandAdopt(a) /\ ~LandSync(a) /\ ~LandPush(a) /\ \A land \in LandReplies : ~LandRefuse(a, land)
      BY <3>0 DEF LandAdopt, LandSync, LandPush, LandRefuse, Starting, Producing
    <3>2. ASSUME NEW land \in LandReplies, LandSquash(a, land)
          PROVE  result'[a].kind \in LandSuccessKinds
      <4>1. result'[a] = land /\ land.kind \in LandSuccessKinds
        BY <3>2 DEF LandSquash, IInv, Typed, LandInv
      <4> QED BY <4>1
    <3>3. ~RecoverReland(a) /\ ~Crash
      BY <1>3 DEF RecoveryStep
    <3>4. CASE CompleteLand(a)
      BY <1>3, <3>0, <3>4, LandedKept
    <3> QED BY <2>3, <3>1, <3>2, <3>3, <3>4, ResultsStep DEF ResultsMove
  <2> QED BY <1>3, <2>1, <2>2, <2>3 DEF Orderly, Expected
<1> QED BY <1>1, <1>2, <1>3

\* Every step keeps the land in order.
LEMMA OrderlyStep ==
    ASSUME IInv, Quiet, Orderly, [Next]_vars
    PROVE  Orderly'
<1>1. CASE Next
  <2>1. Calm' /\ Attended'
    BY <1>1, CalmStep, AttendedStep DEF Orderly
  <2>2. Queued' /\ Logs'
    BY <1>1, QueuedStep, LogsKept
  <2>3. \A a \in Attempt : Owned(a)' /\ Stages(a)' /\ Expected(a)' /\ Settled(a)'
    BY <1>1, OwnedStep, StagesStep, ExpectedStep, SettledStep
  <2> QED BY <2>1, <2>2, <2>3 DEF Orderly
<1>2. CASE UNCHANGED vars
  <2> USE <1>2 DEF vars, Orderly
  <2>1. Calm' /\ Attended' /\ Queued' /\ Logs'
    BY DEF Calm, Plain, Attended, Queued, InJobs, Logs, Signed
  <2>2. ASSUME NEW a \in Attempt PROVE Owned(a)' /\ Stages(a)' /\ Expected(a)' /\ Settled(a)'
    BY DEF Owned, Finished, InJobs, Carries, Stages, Expected, Settled, Squashed
  <2> QED BY <2>1, <2>2
<1> QED BY <1>1, <1>2

\* The empty manager is in order.
LEMMA InitOrderly ==
    Init => Orderly
<1> SUFFICES ASSUME Init PROVE Orderly
  OBVIOUS
<1> USE DEF Init
<1>1. Calm /\ Attended /\ Queued /\ Logs
  BY DEF Calm, Plain, Attended, Queued, InJobs, Logs, Signed, Idle, NoResult, Synced, Pushed
<1>2. ASSUME NEW a \in Attempt PROVE Owned(a) /\ Stages(a) /\ Expected(a) /\ Settled(a)
  BY DEF Owned, Stages, Expected, Settled, Squashed, Carries, Idle, NoResult, Synced, Pushed,
     LandSuccessKinds, LandRefusedKinds
<1> QED BY <1>1, <1>2 DEF Orderly

\* A refusal is truthful, across any number of crashes at any step of a land (the push,
\* the squash, the teardown, the commit, the recovery): the trailer that the recovery looks
\* for is never missed, and a verdict that refuses leaves no squash behind.
THEOREM TruthfulRefusalHolds ==
    ASSUME Quiet PROVE Spec => []TruthfulRefusal
<1>1. Orderly => TruthfulRefusal
  BY DEF Orderly, Settled, TruthfulRefusal
<1>2. Init => Orderly
  BY InitOrderly
<1>3. IInv /\ Orderly /\ [Next]_vars => Orderly'
  BY OrderlyStep
<1> QED BY <1>1, <1>2, <1>3, Invariance, PTL DEF Spec

-----------------------------------------------------------------------------
(* Landed work is on main                                                  *)

\* Every completed outcome reports a branch to land: nobody adopts the main that another
\* task's land moved.
NoAdoption == \A o \in Submits : o.status = "completed" => o.landable

\* A submit before its verdict has landed nothing.
Unlanded(h) == h.pc # "adopt" /\ (h.pc = "apply" => h.tr.state # "landed")

Arrived == /\ \A a \in Attempt : Unlanded(handler[a])
           /\ \A a \in Attempt : state[a] = "landed" => Carries(main, a)

\* Only a successful land is stored as landed.
LEMMA LandedBy ==
    ASSUME NEW out, NEW land, NEW pol, OnLandResult(out, land, pol).state = "landed"
    PROVE  land.kind \in LandSuccessKinds
BY DEF OnLandResult, NoChangeTransition, LandFailedTransition, LandFailureKind, ErrorStateFor,
   MergeKinds

\* Nor does an outcome without a land.
LEMMA SubmitNotLanded ==
    \A o, pol : OnSubmit(o, pol).state # "landed"
<1> TAKE o, pol
<1>1. BlockedTransition(pol).state = "blocked" /\ NeutralTransition(o).state # "landed"
  BY DEF BlockedTransition, NeutralTransition
<1>2. ErrorTransition(o, pol).state # "landed"
  BY DEF ErrorTransition, ErrorStateFor
<1> QED BY <1>1, <1>2 DEF OnSubmit

\* Every step leaves every submit without a land of another's.
LEMMA UnlandedStep ==
    ASSUME IInv, NoAdoption, Next, NEW a \in Attempt, Unlanded(handler[a])
    PROVE  Unlanded(handler'[a])
<1>1. /\ handler[a] \in GoodHandlers /\ handler = [b \in Attempt |-> handler[b]]
      /\ Idle.pc = "idle"
  BY DEF IInv, Typed, HandlerInv, Idle
<1>2. ASSUME NEW w \in Worker, NEW o \in Submits, SubmitRead(w, o), a = order[w].at,
             state[a] = "running"
      PROVE  Unlanded(handler'[a])
  <2> DEFINE pol == SubmitPolicy(lease[a].task)
             phase == OnSubmitPhase(o, FALSE)
             tr == OnSubmit(o, pol)
  <2>1. /\ phase = "apply" => handler'[a] = [pc |-> "apply", tr |-> tr]
        /\ phase # "apply" => handler'[a] = [pc |-> phase, out |-> o, pol |-> pol]
    BY <1>1, <1>2 DEF SubmitRead
  <2>2. phase \in {"apply", "enqueue"}
    BY DEF OnSubmitPhase, NoAdoption
  <2>3. tr.state # "landed"
    BY SubmitNotLanded
  <2> HIDE DEF pol, phase, tr
  <2> QED BY <2>1, <2>2, <2>3 DEF Unlanded
<1>3. ASSUME NEW stage, NEW eff, stage \in {"idle", "flags", "queue", "drop", "resolve"}
      PROVE  Unlanded(Resume(stage, eff))
  BY <1>1, <1>3 DEF Unlanded, Resume
<1>4. CASE SubmitApply(a) \/ CompleteLand(a)
  <2>1. \E eff : handler'[a] \in {Resume(AfterCommit(eff), eff), Idle}
    BY <1>1, <1>4 DEF SubmitApply, CompleteLand
  <2> QED BY <1>1, <1>3, <2>1, NextStages DEF Unlanded
<1>5. ~SubmitAdopt(a)
  BY DEF SubmitAdopt, Unlanded
<1>6. CASE EnqueueLand(a)
  <2>1. handler[a].pc = "enqueue" /\ (\/ handler'[a] = [handler[a] EXCEPT !.pc = "landing"]
                                       \/ handler'[a] = Idle)
    BY <1>1, <1>6 DEF EnqueueLand
  <2>2. [handler[a] EXCEPT !.pc = "landing"].pc = "landing"
    BY <1>1, <2>1 DEF GoodHandlers, Handlers
  <2>3. handler'[a].pc \in {"landing", "idle"}
    BY <1>1, <2>1, <2>2
  <2> QED BY <2>3 DEF Unlanded
<1>7. CASE SetFlags(a) \/ SetQueue(a) \/ DropBrief(a)
  <2>1. \E eff : handler'[a] \in {Resume(AfterFlags(eff), eff), Resume(AfterQueue(eff), eff),
                                  Resume(AfterDrop(eff), eff), Idle}
    BY <1>1, <1>7 DEF SetFlags, SetQueue, DropBrief
  <2> QED BY <1>1, <1>3, <2>1, NextStages DEF Unlanded
<1>8. CASE Escalate(a)
  BY <1>1, <1>8 DEF Escalate, Unlanded
<1>9. CASE ~RecoveryStep
  BY <1>1, <1>2, <1>4, <1>5, <1>6, <1>7, <1>8, <1>9, HandlersStep DEF HandlersMove
<1>10. CASE RecoveryStep
  <2>1. handler'[a] \in {handler[a], Idle}
    BY <1>1, <1>10 DEF RecoveryStep, Crash, Restart, RecoverDrop, RecoveryDone, RecoverLanded,
       RecoverReenqueue, RecoverReland, RecoverPark
  <2> QED BY <1>1, <2>1 DEF Unlanded
<1> QED BY <1>9, <1>10

\* Whoever is stored as landed has its squash on local main by then.
LEMMA ArrivedStep ==
    ASSUME IInv, Quiet, NoAdoption, Orderly, Arrived, [Next]_vars
    PROVE  Arrived'
<1>1. CASE UNCHANGED vars
  BY <1>1 DEF vars, Arrived, Unlanded, Carries
<1>2. ASSUME Next, NEW a \in Attempt, state'[a] = "landed" PROVE Carries(main, a)'
  <2>0. state \in [Attempt -> AttemptStates \cup {"none"}] /\ Unlanded(handler[a]) /\ Stages(a)
    BY DEF IInv, Typed, StoreInv, Arrived, Orderly
  <2>1. ~(SubmitApply(a) /\ state[a] = "running")
    <3>1. SubmitApply(a) /\ state[a] = "running" => state'[a] = handler[a].tr.state
      BY <2>0 DEF SubmitApply, Commit
    <3> QED BY <1>2, <2>0, <3>1 DEF SubmitApply, Unlanded
  <2>2. CASE CompleteLand(a) /\ state[a] = "landing"
    <3> DEFINE tr == OnLandResult(handler[a].out, result[a], handler[a].pol)
    <3>1. state' = [state EXCEPT ![a] = tr.state]
      BY <2>2 DEF CompleteLand, Commit
    <3>2. tr.state = "landed"
      BY <1>2, <2>0, <3>1
    <3>3. result[a].kind \in LandSuccessKinds
      BY <3>2, LandedBy
    <3> QED BY <1>2, <2>0, <3>3, CarriesStep DEF Stages
  <2>3. CASE RecoverReland(a)
    <3>1. state' = [state EXCEPT ![a] = RecoveryTransition(a).state]
      BY <2>3 DEF RecoverReland, Commit
    <3>2. RecoveryTransition(a).state = "landed"
      BY <1>2, <2>0, <3>1
    <3>3. FindLandedAttempt(a) \/ result[a].kind \in LandSuccessKinds
      BY <3>2, LandedBy DEF RecoveryTransition
    <3> QED BY <1>2, <2>0, <3>3, CarriesStep DEF Stages, FindLandedAttempt
  <2>4. CASE RecoverLanded(a)
    BY <1>2, <2>4, CarriesStep DEF RecoverLanded, FindLandedAttempt
  <2>5. ~RecoverPark(a)
    BY <1>2, <2>0 DEF RecoverPark, Commit, OnLandInterrupted
  <2>6. CASE state[a] = "landed"
    BY <1>2, <2>6, CarriesStep DEF Arrived
  <2> QED BY <1>2, <2>1, <2>2, <2>3, <2>4, <2>5, <2>6, QuietStates DEF Orderly
<1>3. ASSUME Next PROVE \A a \in Attempt : Unlanded(handler'[a])
  BY <1>3, UnlandedStep DEF Arrived
<1>4. CASE Next
  BY <1>2, <1>3, <1>4 DEF Arrived
<1> QED BY <1>1, <1>4

\* An attempt stored as landed has its own finished work on local main, whatever crashes,
\* expiries and dead workers the land went through.
THEOREM LandedIsOnMainHolds ==
    ASSUME Quiet, NoAdoption PROVE Spec => []LandedIsOnMain
<1>1. Orderly /\ Arrived => LandedIsOnMain
  <2> SUFFICES ASSUME Orderly, Arrived, NEW a \in Attempt, state[a] = "landed"
               PROVE  \E i \in DOMAIN main : /\ main[i].work = "done"
                                             /\ lease[main[i].by].task = lease[a].task
    BY DEF LandedIsOnMain
  <2>1. PICK i \in DOMAIN main : main[i].trailer = a
    BY DEF Arrived, Carries
  <2>2. main[i].by = a /\ main[i].work = "done"
    BY <2>1 DEF Orderly, Logs, Signed, Attempt
  <2> QED BY <2>2
<1>2. Init => Orderly /\ Arrived
  <2>1. Init => Arrived
    BY DEF Init, Arrived, Unlanded, Idle
  <2> QED BY <2>1, InitOrderly
<1>3. IInv /\ Orderly /\ Arrived /\ [Next]_vars => Orderly' /\ Arrived'
  BY OrderlyStep, ArrivedStep
<1> QED BY <1>1, <1>2, <1>3, Invariance, PTL DEF Spec
=============================================================================
