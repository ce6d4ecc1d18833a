----------------------------- MODULE Lifecycle -----------------------------
(***************************************************************************)
(* The typed vocabulary of an attempt and the pure transition functions:   *)
(* what an outcome means for the attempt, for the task's row, for its      *)
(* brief and for its queue (lifecycle.py, transitions.py).                 *)
(*                                                                         *)
(* A transition is a value, [state, eff]: the state the store compares and *)
(* swaps the attempt to, and the effects on the task.  Reasons, telemetry  *)
(* and events are left out: no effect depends on them.                     *)
(***************************************************************************)
EXTENDS Naturals

CONSTANTS
    QuarantineAfter,  \* cfg.quarantine_threshold, 0 disables the threshold
    AutoResolve,      \* cfg.auto_resolve
    PrMode            \* the effective landing mode is PR

ASSUME LifecycleConstants ==
    /\ QuarantineAfter \in Nat
    /\ AutoResolve \in BOOLEAN
    /\ PrMode \in BOOLEAN

-----------------------------------------------------------------------------
(* Vocabulary                                                              *)

TerminalStates == {"landed", "no_change", "blocked", "failed", "conflict",
                   "expired", "aborted", "skipped"}

LiveStates == {"running", "landing"}

ResolvableStates == {"failed", "conflict", "blocked"}

\* "claimed" and "submitted" exist in the enum and are never stored.
AttemptStates == TerminalStates \cup LiveStates \cup {"resolving"}

EnvironmentKinds == {"model_unavailable", "backend_unavailable",
                     "repo_unavailable", "preflight_failed",
                     "worktree_failed", "worker_launch", "publish_failed",
                     "document_unavailable"}

MergeKinds == {"merge_conflict", "merge_rejected"}

FailureKinds == EnvironmentKinds \cup MergeKinds
                  \cup {"worker_error", "validation_error", "blocked"}

RunStatuses == {"running", "completed", "blocked", "error", "skipped",
                "aborted"}

\* What a worker submits; kind is "none" when no failure kind was reported,
\* quarantine is the worker's quarantine mode (SubmitBody.quarantine).
Outcomes == [status : RunStatuses, kind : FailureKinds \cup {"none"},
             landable : BOOLEAN, quarantine : BOOLEAN]

LandSuccessKinds == {"landed", "checkout_behind", "adopted"}

LandRefusedKinds == {"conflict", "push_rejected", "transport_failed"}

\* A land's result; retryable refines transport_failed only.
LandResults == [kind : LandSuccessKinds \cup LandRefusedKinds
                         \cup {"no_changes"},
                retryable : BOOLEAN]

\* What the submit handler read of the task and its queue before it decided.
Policies == [counter : Nat, wasRetry : BOOLEAN, watch : BOOLEAN,
             paused : BOOLEAN, evergreen : BOOLEAN]

Flags == {"failed", "quarantined", "completed"}

Effects == [hold : {"none", "blocked"}, retry : BOOLEAN, clear : BOOLEAN,
            progress : {"none", "increment", "reset"}, backoff : BOOLEAN,
            flags : SUBSET Flags, watch : {"keep", "arm", "disarm"},
            pause : {"keep", "consecutive_failures", "retry_failed"},
            cooldown : BOOLEAN, drop : BOOLEAN, resolve : BOOLEAN,
            artifact : BOOLEAN, cursor : {"keep", "advance", "reset"}]

Transitions == [state : AttemptStates, eff : Effects]

NoEffects == [hold |-> "none", retry |-> FALSE, clear |-> FALSE,
              progress |-> "none", backoff |-> FALSE, flags |-> {},
              watch |-> "keep", pause |-> "keep", cooldown |-> FALSE,
              drop |-> FALSE, resolve |-> FALSE, artifact |-> FALSE,
              cursor |-> "keep"]

-----------------------------------------------------------------------------
(* Classification                                                          *)

\* Mutant: the failure kind itself is stored.
ErrorStateForKind(kind) == IF kind \in MergeKinds THEN kind ELSE "failed"

\* The stored state of an error outcome.
ErrorStateFor(kind) == IF kind \in MergeKinds THEN "conflict" ELSE "failed"

\* RetryPolicy.on_failure.
OnFailure(kind, immediate) ==
    CASE kind \in EnvironmentKinds -> "retry_elsewhere"
      [] kind = "worker_error" -> IF immediate THEN "quarantine" ELSE "retry"
      [] OTHER -> "hold"

LandFailureKind(landKind) ==
    IF landKind = "conflict" THEN "merge_conflict" ELSE "merge_rejected"

-----------------------------------------------------------------------------
(* Transitions                                                             *)

\* The phase-A watch: a second failure while armed pauses the queue.
WatchFailure(pol) ==
    IF pol.watch /\ ~pol.paused THEN "consecutive_failures" ELSE "keep"

\* The pause a failure records: a failed retry outranks the watch.
FailurePause(pol) == IF pol.wasRetry THEN "retry_failed" ELSE WatchFailure(pol)

RetryQuarantine(pol) == IF pol.wasRetry THEN {"quarantined"} ELSE {}

\* Mutant: the threshold is one attempt late.
FailureLadderLate(pol, immediate, retryPause) ==
    LET attempts == pol.counter + 1
        counted == [NoEffects EXCEPT !.progress = "increment"]
    IN  IF immediate \/ (QuarantineAfter > 0 /\ attempts > QuarantineAfter)
        THEN [counted EXCEPT !.flags = {"quarantined"}]
        ELSE [counted EXCEPT !.flags = {"failed"} \cup RetryQuarantine(pol),
                             !.pause = FailurePause(pol),
                             !.watch = "arm",
                             !.backoff = TRUE]

\* The no-progress ladder of worker errors and no-change completions.
FailureLadder(pol, immediate, retryPause) ==
    LET attempts == pol.counter + 1
        counted == [NoEffects EXCEPT !.progress = "increment"]
    IN  IF immediate THEN [counted EXCEPT !.flags = {"quarantined"}]
        ELSE IF QuarantineAfter > 0 /\ attempts >= QuarantineAfter
        THEN [counted EXCEPT !.flags = {"quarantined"},
                             !.pause = IF retryPause /\ pol.wasRetry
                                       THEN "retry_failed" ELSE "keep"]
        ELSE [counted EXCEPT !.flags = {"failed"} \cup RetryQuarantine(pol),
                             !.pause = FailurePause(pol),
                             !.watch = "arm",
                             !.backoff = TRUE]

BlockedTransition(pol) ==
    [state |-> "blocked",
     eff |-> [NoEffects EXCEPT !.hold = "blocked", !.retry = TRUE,
                               !.flags = RetryQuarantine(pol),
                               !.pause = FailurePause(pol),
                               !.watch = "arm"]]

ErrorTransition(out, pol) ==
    LET kind == IF out.kind = "none" THEN "worker_error" ELSE out.kind
        action == OnFailure(kind, out.quarantine)
    IN  [state |-> ErrorStateFor(kind),
         eff |-> CASE action = "retry_elsewhere" ->
                        [NoEffects EXCEPT !.cooldown = TRUE]
                   [] action = "hold" ->
                        [NoEffects EXCEPT !.hold = "blocked",
                                          !.progress = "increment"]
                   [] OTHER -> FailureLadder(pol, out.quarantine, TRUE)]

NeutralTransition(out) ==
    [state |-> IF out.status = "skipped" THEN "skipped" ELSE "aborted",
     eff |-> NoEffects]

\* Where on_submit sends an outcome: a transition to apply at once, or the
\* git phase to run first.
OnSubmitPhase(out, split) ==
    IF out.status # "completed" THEN "apply"
    ELSE IF split /\ ~out.landable THEN "harvest"
    ELSE IF out.landable THEN "enqueue"
    ELSE "adopt"

\* The transition of an outcome that needs no git work.
OnSubmit(out, pol) ==
    CASE out.status = "blocked" -> BlockedTransition(pol)
      [] out.status = "error" -> ErrorTransition(out, pol)
      [] OTHER -> NeutralTransition(out)

OnSplitResult ==
    [state |-> "no_change",
     eff |-> [NoEffects EXCEPT !.clear = TRUE, !.progress = "reset"]]

NoChangeTransition(out, pol) ==
    [state |-> "no_change", eff |-> FailureLadder(pol, out.quarantine, FALSE)]

LandedTransition(pol) ==
    [state |-> "landed",
     eff |-> [NoEffects EXCEPT !.clear = TRUE, !.progress = "reset",
                               !.watch = "disarm",
                               !.drop = ~pol.evergreen]]

LandFailedTransition(land, pol) ==
    LET resolvable == \/ land.kind \in {"conflict", "push_rejected"}
                      \/ land.kind = "transport_failed" /\ land.retryable
    IN  [state |-> ErrorStateFor(LandFailureKind(land.kind)),
         eff |-> IF resolvable
                 THEN [NoEffects EXCEPT !.hold = "blocked", !.watch = "arm",
                                        !.pause = WatchFailure(pol),
                                        !.resolve = AutoResolve /\ ~PrMode]
                 ELSE NoEffects]

OnLandResult(out, land, pol) ==
    CASE land.kind = "no_changes" -> NoChangeTransition(out, pol)
      [] land.kind \in LandSuccessKinds -> LandedTransition(pol)
      [] OTHER -> LandFailedTransition(land, pol)

OnLandInterrupted ==
    [state |-> "conflict", eff |-> [NoEffects EXCEPT !.hold = "blocked"]]

OnLandRecovered ==
    [state |-> "landed",
     eff |-> [NoEffects EXCEPT !.clear = TRUE, !.progress = "reset",
                               !.watch = "disarm"]]

OnLandEnqueued == [state |-> "landing", eff |-> NoEffects]

OnOperatorStop == [state |-> "aborted", eff |-> NoEffects]

OnDeadline == [state |-> "expired", eff |-> NoEffects]
=============================================================================
