------------------------------ MODULE Workflow ------------------------------
(***************************************************************************)
(* One task that runs a workflow: a definition's steps are executed by one *)
(* attempt each, and the brief's frontmatter holds the cursor and the      *)
(* visits (workflows.py, transitions.py, api_worker.py, task_files.py).    *)
(*                                                                         *)
(* As in Manager, an action is the code between two awaits.  The brief and *)
(* the artifacts are files written by jobs of the tasks-repo executor, the *)
(* attempts and the row are the database: a step is completed in the       *)
(* database first and on disk later, by the suspended handler.  The        *)
(* target repository is reduced to the set of attempts whose squash is on  *)
(* main; queue-level effects (watch, pause, cooldown) are Manager's.       *)
(***************************************************************************)
EXTENDS Lifecycle, Integers, FiniteSets

CONSTANTS
    Step,         \* ids of the definition's steps
    First,        \* the first one
    Kind,         \* step -> "doc", "code" or "split"
    Signals,      \* step -> its declared signals, each with a destination
    NextStep,     \* step -> where it goes without a declared signal
    MaxVisits,    \* step -> its budget, any integer: the parser has no range
    Output,       \* doc step -> the artifact it writes
    Inputs,       \* step -> the artifacts its order carries
    Evergreen,    \* the task is evergreen
    Worker,       \* worker ids
    Submits,      \* what workers may submit in this instance
    LandReplies,  \* results the git pipeline may give in this instance
    MaxAttempts,  \* bound: attempt ids
    Events,       \* faults and operator actions this instance has
    MaxEvents     \* bound: how many of them happen

End == "$end"
NoStep == "none"
NoSignal == "none"

\* Every place the cursor may go from a step.
Destinations(s) == {Signals[s][sig] : sig \in DOMAIN Signals[s]} \cup {NextStep[s]}

EventNames == {"deadline", "crash", "ci", "edit", "patch", "release", "delete"}

\* What parse_workflow has checked of a loaded definition.
ASSUME WorkflowConstants ==
    /\ First \in Step /\ End \notin Step /\ NoStep \notin Step
    /\ Kind \in [Step -> {"doc", "code", "split"}]
    /\ NextStep \in [Step -> Step \cup {End}]
    /\ \A s \in Step : \A sig \in DOMAIN Signals[s] :
         Signals[s][sig] \in Step \cup {End}
    /\ \A s \in Step : Kind[s] = "split" => Destinations(s) = {End}
    /\ MaxVisits \in [Step -> Int]
    /\ Evergreen \in BOOLEAN
    /\ LandReplies \subseteq LandResults
    /\ \A s \in Submits : s.out \in Outcomes /\ s.doc \in BOOLEAN
    /\ MaxAttempts \in Nat /\ MaxEvents \in Nat
    /\ Events \subseteq EventNames

Attempt == 1..MaxAttempts

VARIABLES
    brief,      \* the task file: its flags, its cursor and its visits
    artifacts,  \* names in <task>.artifacts/
    children,   \* a split step created subtasks
    row,        \* the task's row: hold and attempts_without_progress
    state,      \* attempt -> its stored state, "none" before it exists
    order,      \* attempt -> its worker, the step and the artifacts it got
    landed,     \* attempts whose squash is on main
    polls,      \* worker -> its suspended _lease_and_build
    handler,    \* attempt -> its suspended worker_submit
    loaded,     \* the definition is in app.state.workflows
    red,        \* the repository's main is red and a queue monitors it
    mgr,        \* the manager process
    spent       \* counted events so far

files == <<brief, artifacts, children>>
store == <<row, state, order>>
world == <<landed, loaded, red>>
vars == <<files, store, world, polls, handler, mgr, spent>>

-----------------------------------------------------------------------------
(* Types                                                                   *)

NoVisits == [s \in Step |-> 0]

Briefs == [present : BOOLEAN, flags : SUBSET Flags,
           step : Step \cup {NoStep}, visits : [Step -> Nat]]

NoBrief == [present |-> FALSE, flags |-> {}, step |-> NoStep,
            visits |-> NoVisits]

Rows == [hold : {"none", "blocked"}, retry : BOOLEAN, counter : Nat]

Artifact == {Output[s] : s \in {t \in Step : Kind[t] = "doc"}}

Orders == [worker : Worker, step : Step \cup {NoStep}, got : SUBSET Artifact]

NoOrder == [step |-> NoStep]

\* _build_workflow_step_policy; step is NoStep where it returns None.
StepPolicies == [step : Step \cup {NoStep}, route : Step \cup {End},
                 exhausted : BOOLEAN, visits : [Step -> Nat]]

Idle == [pc |-> "idle"]

Polls == [pc : {"idle", "build"}] \cup [pc : {"stamp"}, fresh : BOOLEAN]
           \cup [pc : {"fetch"}, step : Step \cup {NoStep}]
           \cup [pc : {"create"}, step : Step \cup {NoStep},
                 got : SUBSET Artifact]

Handlers == [pc : {"idle"}]
              \cup [pc : {"apply", "commit"}, tr : Transitions, sp : StepPolicies]
              \cup [pc : {"harvest"}, sp : StepPolicies]
              \cup [pc : {"adopt", "enqueue", "landing"}, out : Outcomes,
                    pol : Policies, sp : StepPolicies]
              \cup [pc : {"flags", "artifact", "cursor", "drop", "chain"},
                    eff : Effects, sp : StepPolicies]

Init ==
    /\ brief = [NoBrief EXCEPT !.present = TRUE]
    /\ artifacts = {}
    /\ children = FALSE
    /\ row = [hold |-> "none", retry |-> FALSE, counter |-> 0]
    /\ state = [a \in Attempt |-> "none"]
    /\ order = [a \in Attempt |-> NoOrder]
    /\ landed = {}
    /\ polls = [w \in Worker |-> Idle]
    /\ handler = [a \in Attempt |-> Idle]
    /\ loaded = TRUE
    /\ red = FALSE
    /\ mgr = "up"
    /\ spent = 0

TypeOK ==
    /\ brief \in Briefs
    /\ artifacts \subseteq Artifact
    /\ children \in BOOLEAN
    /\ row \in Rows
    /\ state \in [Attempt -> AttemptStates \cup {"none"}]
    /\ order \in [Attempt -> Orders \cup {NoOrder}]
    /\ landed \subseteq Attempt
    /\ polls \in [Worker -> Polls]
    /\ handler \in [Attempt -> Handlers]
    /\ loaded \in BOOLEAN /\ red \in BOOLEAN
    /\ mgr \in {"up", "down", "scan"}
    /\ spent \in Nat

-----------------------------------------------------------------------------
(* Routing and step transitions                                            *)

Route(s, signal) == IF signal \in DOMAIN Signals[s] THEN Signals[s][signal]
                    ELSE NextStep[s]

NoPolicy == [step |-> NoStep, route |-> End, exhausted |-> FALSE,
             visits |-> NoVisits]

\* Mutant: the entry that is about to happen is not counted.
StepPolicyLate(s, signal) ==
    LET to == Route(s, signal) IN
    IF ~loaded \/ s = NoStep THEN NoPolicy
    ELSE [step |-> s, route |-> to, visits |-> brief.visits,
          exhausted |-> to # End /\ brief.visits[to] > MaxVisits[to]]

\* The verdict on where an attempt's step goes, with the visits it read.  A
\* definition that is gone leaves the classic transitions in charge.
StepPolicy(s, signal) ==
    LET to == Route(s, signal) IN
    IF ~loaded \/ s = NoStep THEN NoPolicy
    ELSE [step |-> s, route |-> to, visits |-> brief.visits,
          exhausted |-> to # End /\ brief.visits[to] + 1 > MaxVisits[to]]

\* _advance_visits: the visits after the cursor has moved.
AdvanceVisits(sp) == [sp.visits EXCEPT ![sp.route] = @ + 1]

BudgetQuarantine ==
    [state |-> "no_change",
     eff |-> [NoEffects EXCEPT !.flags = {"quarantined"}, !.artifact = TRUE]]

WorkflowEnd ==
    [state |-> "no_change",
     eff |-> [NoEffects EXCEPT
                !.progress = "reset", !.artifact = TRUE,
                !.cursor = IF Evergreen THEN "reset" ELSE "keep",
                !.flags = IF Evergreen THEN {} ELSE {"completed"}]]

DocAdvance ==
    [state |-> "no_change",
     eff |-> [NoEffects EXCEPT !.progress = "reset", !.artifact = TRUE,
                               !.cursor = "advance"]]

\* The git phase an outcome needs first, or "apply".
WorkflowPhase(out, sp) ==
    IF sp.step = NoStep THEN OnSubmitPhase(out, FALSE)
    ELSE IF out.status # "completed" \/ Kind[sp.step] = "doc" THEN "apply"
    ELSE IF Kind[sp.step] = "split" THEN "harvest"
    ELSE IF out.landable THEN "enqueue"
    ELSE "adopt"

\* The transition of an outcome that needs no git work.  Failures never move
\* the cursor; a doc step without a document is one.
OnWorkflowStep(out, doc, pol, sp) ==
    IF sp.step = NoStep \/ out.status # "completed" THEN OnSubmit(out, pol)
    ELSE IF ~doc
    THEN ErrorTransition([out EXCEPT !.status = "error",
                                     !.kind = "worker_error"], pol)
    ELSE IF sp.route = End THEN WorkflowEnd
    ELSE IF sp.exhausted THEN BudgetQuarantine
    ELSE DocAdvance

LandedStep(sp) ==
    [state |-> "landed",
     eff |-> LET done == [NoEffects EXCEPT !.clear = TRUE, !.watch = "disarm",
                                           !.progress = "reset"]
             IN  IF sp.route = End
                 THEN [done EXCEPT !.drop = ~Evergreen,
                                   !.cursor = IF Evergreen THEN "reset"
                                              ELSE "keep"]
                 ELSE IF sp.exhausted
                 THEN [done EXCEPT !.flags = {"quarantined"}]
                 ELSE [done EXCEPT !.cursor = "advance"]]

OnWorkflowLand(out, land, pol, sp) ==
    IF sp.step = NoStep THEN OnLandResult(out, land, pol)
    ELSE CASE land.kind = "no_changes" -> NoChangeTransition(out, pol)
           [] land.kind \in LandSuccessKinds -> LandedStep(sp)
           [] OTHER -> LandFailedTransition(land, pol)

\* Mutant: an empty split moves the cursor as a doc step does.
OnWorkflowSplitAdvance(created) ==
    [state |-> "no_change",
     eff |-> [NoEffects EXCEPT !.progress = IF created THEN "reset"
                                            ELSE "increment",
                               !.cursor = "advance"]]

OnWorkflowSplit(created) ==
    [state |-> "no_change",
     eff |-> IF created
             THEN [NoEffects EXCEPT !.clear = TRUE, !.progress = "reset",
                                    !.cursor = IF Evergreen THEN "reset"
                                               ELSE "keep"]
             ELSE [NoEffects EXCEPT !.progress = "increment"]]

-----------------------------------------------------------------------------
(* Reads and writes                                                        *)

Up == mgr = "up"

Live(a) == state[a] \in LiveStates

Fresh(a) == state[a] = "none" /\ \A b \in 1..(a - 1) : state[b] # "none"

\* Bound: every suspended poll still finds an id.
Room == Cardinality({a \in Attempt : state[a] = "none"})
          > Cardinality({w \in Worker : polls[w].pc # "idle"})

\* live_ordered_queue: the brief is not held by a flag.
Listed == /\ brief.present
          /\ brief.flags \cap {"quarantined", "completed"} = {}

\* The resolver finds the definition.
Candidate == Listed /\ loaded

\* worker_poll of a queue whose only task this is: a failed brief and a
\* retry-eligible hold are its phase B.
Dispatchable == /\ Candidate /\ ~red
                /\ \A a \in Attempt : ~Live(a)
                /\ row.hold = "none" \/ row.retry \/ "failed" \in brief.flags

\* apply_transition's half of the task row.
ApplyRow(r, eff) ==
    [hold |-> IF eff.hold # "none" THEN eff.hold
              ELSE IF eff.clear THEN "none" ELSE r.hold,
     retry |-> IF eff.hold # "none" THEN eff.retry ELSE r.retry /\ ~eff.clear,
     counter |-> CASE eff.progress = "increment" -> r.counter + 1
                   [] eff.progress = "reset" -> 0
                   [] OTHER -> r.counter]

Commit(a, tr) ==
    /\ state' = [state EXCEPT ![a] = tr.state]
    /\ row' = ApplyRow(row, tr.eff)

\* The effects _finish still has to run after a stage, in its order.
AfterDrop(eff) == IF eff.cursor = "advance" /\ eff.artifact THEN "chain"
                  ELSE "idle"

AfterCursor(eff) == IF eff.drop THEN "drop" ELSE AfterDrop(eff)

AfterArtifact(eff) == IF eff.cursor # "keep" THEN "cursor"
                      ELSE AfterCursor(eff)

AfterFlags(eff) == IF eff.artifact THEN "artifact" ELSE AfterArtifact(eff)

AfterCommit(eff) == IF eff.flags # {} THEN "flags" ELSE AfterFlags(eff)

Resume(stage, eff, sp) ==
    IF stage = "idle" THEN Idle ELSE [pc |-> stage, eff |-> eff, sp |-> sp]

\* delete_task takes the artifacts with the brief.
DeleteTask == brief' = NoBrief /\ artifacts' = {}

Spend(e) == e \in Events /\ spent < MaxEvents /\ spent' = spent + 1

-----------------------------------------------------------------------------
(* Dispatch: _lease_and_build                                              *)

\* The frontmatter is read here, before the sync with origin is awaited.
LeaseBegin(w) ==
    /\ polls' = [polls EXCEPT ![w] = [pc |-> "stamp",
                                      fresh |-> brief.step = NoStep]]
    /\ row' = [row EXCEPT !.hold = "none", !.retry = FALSE]

PollPick(w) ==
    /\ Up /\ polls[w] = Idle /\ Dispatchable /\ Room
    /\ LeaseBegin(w)
    /\ UNCHANGED <<files, state, order, world, handler, mgr, spent>>

\* A task whose definition cannot be found is held until the operator
\* releases it, while an attempt of it runs too.
PollHolds(w) ==
    /\ Up /\ polls[w] = Idle /\ Listed /\ ~loaded
    /\ row' = [row EXCEPT !.hold = "blocked", !.retry = FALSE]
    /\ UNCHANGED <<files, state, order, world, polls, handler, mgr, spent>>

\* Mutant: the stamp counts no visit and forgets the old ones.
StampFree(w) ==
    /\ Up /\ polls[w].pc = "stamp"
    /\ brief' = IF polls[w].fresh /\ loaded /\ brief.present
                THEN [brief EXCEPT !.step = First, !.visits = NoVisits]
                ELSE brief
    /\ polls' = [polls EXCEPT ![w] = [pc |-> "build"]]
    /\ UNCHANGED <<artifacts, children, store, world, handler, mgr, spent>>

\* A brief that had no cursor when it was read gets the first step and its
\* first visit; an error of the job is suppressed.
Stamp(w) ==
    /\ Up /\ polls[w].pc = "stamp"
    /\ brief' = IF polls[w].fresh /\ loaded /\ brief.present
                THEN [brief EXCEPT !.step = First,
                                   !.visits = [NoVisits EXCEPT ![First] = 1]]
                ELSE brief
    /\ polls' = [polls EXCEPT ![w] = [pc |-> "build"]]
    /\ UNCHANGED <<artifacts, children, store, world, handler, mgr, spent>>

\* build_work_order reads the cursor, then the step's input artifacts.
BuildOrder(w) ==
    /\ Up /\ polls[w].pc = "build"
    /\ polls' = [polls EXCEPT ![w] =
                   [pc |-> "fetch",
                    step |-> IF ~brief.present \/ ~loaded THEN NoStep
                             ELSE IF brief.step = NoStep THEN First
                             ELSE brief.step]]
    /\ UNCHANGED <<files, store, world, handler, mgr, spent>>

\* Mutant: the inputs of the step a brief without a cursor starts at.
ReadArtifactsFirst(w) ==
    /\ Up /\ polls[w].pc = "fetch"
    /\ polls' = [polls EXCEPT ![w] =
                   [pc |-> "create", step |-> polls[w].step,
                    got |-> Inputs[First] \cap artifacts]]
    /\ UNCHANGED <<files, store, world, handler, mgr, spent>>

ReadArtifacts(w) ==
    /\ Up /\ polls[w].pc = "fetch"
    /\ polls' = [polls EXCEPT ![w] =
                   [pc |-> "create", step |-> polls[w].step,
                    got |-> IF polls[w].step = NoStep THEN {}
                            ELSE Inputs[polls[w].step] \cap artifacts]]
    /\ UNCHANGED <<files, store, world, handler, mgr, spent>>

\* create_attempt; the live-attempt index decides a race of polls.
CreateAttempt(w) ==
    /\ Up /\ polls[w].pc = "create"
    /\ IF \E a \in Attempt : Live(a) THEN UNCHANGED store
       ELSE \E a \in Attempt :
              /\ Fresh(a)
              /\ state' = [state EXCEPT ![a] = "running"]
              /\ order' = [order EXCEPT ![a] =
                             [worker |-> w, step |-> polls[w].step,
                              got |-> polls[w].got]]
              /\ UNCHANGED row
    /\ polls' = [polls EXCEPT ![w] = Idle]
    /\ UNCHANGED <<files, world, handler, mgr, spent>>

-----------------------------------------------------------------------------
(* Submit                                                                  *)

SubmitPolicy == [counter |-> row.counter, watch |-> FALSE, paused |-> FALSE,
                 wasRetry |-> "failed" \in brief.flags,
                 evergreen |-> Evergreen]

SubmitRead(a, s) ==
    /\ Up /\ state[a] = "running" /\ handler[a] = Idle
    /\ LET sp == StepPolicy(order[a].step, s.signal)
           phase == WorkflowPhase(s.out, sp)
       IN  handler' = [handler EXCEPT ![a] =
             CASE phase = "apply" ->
                    [pc |-> "apply", sp |-> sp,
                     tr |-> OnWorkflowStep(s.out, s.doc, SubmitPolicy, sp)]
               [] phase = "harvest" -> [pc |-> "harvest", sp |-> sp]
               [] OTHER -> [pc |-> phase, out |-> s.out,
                            pol |-> SubmitPolicy, sp |-> sp]]
    /\ UNCHANGED <<files, store, world, polls, mgr, spent>>

\* _finish: the compare-and-swap, then the post-commit effects.
Finish(a, tr, expected) ==
    IF state[a] = expected
    THEN /\ Commit(a, tr)
         /\ handler' = [handler EXCEPT ![a] =
                          Resume(AfterCommit(tr.eff), tr.eff, handler[a].sp)]
    ELSE /\ handler' = [handler EXCEPT ![a] = Idle]
         /\ UNCHANGED <<state, row>>

SubmitApply(a) ==
    /\ Up /\ handler[a].pc = "apply"
    /\ Finish(a, handler[a].tr, "running")
    /\ UNCHANGED <<files, order, world, polls, mgr, spent>>

\* harvest_split_output enqueues the subtasks and retires the parent before
\* the attempt is settled.
Harvest(a, created) ==
    /\ Up /\ handler[a].pc = "harvest"
    /\ children' = (children \/ created)
    /\ IF created /\ ~Evergreen THEN DeleteTask
       ELSE UNCHANGED <<brief, artifacts>>
    /\ handler' = [handler EXCEPT ![a] = [pc |-> "apply", sp |-> @.sp,
                                          tr |-> OnWorkflowSplit(created)]]
    /\ UNCHANGED <<store, world, polls, mgr, spent>>

\* adopt_or_nothing: main moved under the agent, or it did not.
AdoptCheck(a, kind) ==
    /\ Up /\ handler[a].pc = "adopt"
    /\ handler' = [handler EXCEPT ![a] =
                     [pc |-> "apply", sp |-> @.sp,
                      tr |-> OnWorkflowLand(@.out, [kind |-> kind,
                                                    retryable |-> FALSE],
                                            @.pol, @.sp)]]
    /\ UNCHANGED <<files, store, world, polls, mgr, spent>>

EnqueueLand(a) ==
    /\ Up /\ handler[a].pc = "enqueue"
    /\ IF state[a] = "running"
       THEN /\ state' = [state EXCEPT ![a] = OnLandEnqueued.state]
            /\ handler' = [handler EXCEPT ![a].pc = "landing"]
       ELSE handler' = [handler EXCEPT ![a] = Idle] /\ UNCHANGED state
    /\ UNCHANGED <<files, row, order, world, polls, mgr, spent>>

\* The land job, on the target repository's executor.
Land(a, land) ==
    /\ Up /\ handler[a].pc = "landing"
    /\ landed' = IF land.kind \in LandSuccessKinds THEN landed \cup {a}
                 ELSE landed
    /\ handler' = [handler EXCEPT ![a] =
                     [pc |-> "commit", sp |-> @.sp,
                      tr |-> OnWorkflowLand(@.out, land, @.pol, @.sp)]]
    /\ UNCHANGED <<files, store, loaded, red, polls, mgr, spent>>

CompleteLand(a) ==
    /\ Up /\ handler[a].pc = "commit"
    /\ Finish(a, handler[a].tr, "landing")
    /\ UNCHANGED <<files, order, world, polls, mgr, spent>>

-----------------------------------------------------------------------------
(* The post-commit effects, each a job of the tasks-repo executor          *)

\* set_task_meta raises when the brief is gone, which ends the handler.
SetFlags(a) ==
    /\ Up /\ handler[a].pc = "flags"
    /\ LET eff == handler[a].eff IN
       IF brief.present
       THEN /\ brief' = [brief EXCEPT !.flags = @ \cup eff.flags]
            /\ handler' = [handler EXCEPT ![a] =
                             Resume(AfterFlags(eff), eff, @.sp)]
       ELSE handler' = [handler EXCEPT ![a] = Idle] /\ UNCHANGED brief
    /\ UNCHANGED <<artifacts, children, store, world, polls, mgr, spent>>

\* Mutant: the artifact is left for the next tick, after the cursor.
WriteArtifactLost(a) ==
    /\ Up /\ handler[a].pc = "artifact"
    /\ handler' = [handler EXCEPT ![a] =
                     Resume(AfterArtifact(@.eff), @.eff, @.sp)]
    /\ UNCHANGED <<files, store, world, polls, mgr, spent>>

WriteArtifact(a) ==
    /\ Up /\ handler[a].pc = "artifact"
    /\ artifacts' = artifacts \cup {Output[handler[a].sp.step]}
    /\ handler' = [handler EXCEPT ![a] =
                     Resume(AfterArtifact(@.eff), @.eff, @.sp)]
    /\ UNCHANGED <<brief, children, store, world, polls, mgr, spent>>

\* set_engine_meta, or the evergreen reset; both raise without a brief.
MoveCursor(a) ==
    /\ Up /\ handler[a].pc = "cursor"
    /\ LET eff == handler[a].eff
           sp == handler[a].sp
       IN  IF brief.present
           THEN /\ brief' = IF eff.cursor = "reset"
                            THEN [brief EXCEPT !.step = NoStep,
                                               !.visits = NoVisits]
                            ELSE [brief EXCEPT !.step = sp.route,
                                               !.visits = AdvanceVisits(sp)]
                /\ artifacts' = IF eff.cursor = "reset" THEN {} ELSE artifacts
                /\ handler' = [handler EXCEPT ![a] =
                                 Resume(AfterCursor(eff), eff, sp)]
           ELSE /\ handler' = [handler EXCEPT ![a] = Idle]
                /\ UNCHANGED <<brief, artifacts>>
    /\ UNCHANGED <<children, store, world, polls, mgr, spent>>

DropBrief(a) ==
    /\ Up /\ handler[a].pc = "drop"
    /\ IF brief.present THEN DeleteTask ELSE UNCHANGED <<brief, artifacts>>
    /\ handler' = [handler EXCEPT ![a] =
                     Resume(AfterDrop(@.eff), @.eff, @.sp)]
    /\ UNCHANGED <<children, store, world, polls, mgr, spent>>

\* _maybe_chain: the next order rides the submit response.  It rebuilds the
\* candidate and looks at neither the live attempts, the holds nor the CI.
Chain(a) ==
    /\ Up /\ handler[a].pc = "chain" /\ Candidate
    /\ polls[order[a].worker] = Idle /\ Room
    /\ LeaseBegin(order[a].worker)
    /\ handler' = [handler EXCEPT ![a] = Idle]
    /\ UNCHANGED <<files, state, order, world, mgr, spent>>

\* A guard or the worker's capabilities refuse: normal polling goes on.
ChainMiss(a) ==
    /\ Up /\ handler[a].pc = "chain"
    /\ handler' = [handler EXCEPT ![a] = Idle]
    /\ UNCHANGED <<files, store, world, polls, mgr, spent>>

-----------------------------------------------------------------------------
(* Faults, the operator, crash and recovery                                *)

ExpireDeadline(a) ==
    /\ Up /\ state[a] = "running" /\ Spend("deadline")
    /\ Commit(a, OnDeadline)
    /\ UNCHANGED <<files, order, world, polls, handler, mgr>>

\* The gate's cached verdict on the repository's main changes.
CiChanges ==
    /\ Up /\ Spend("ci")
    /\ red' = ~red
    /\ UNCHANGED <<files, store, landed, loaded, polls, handler, mgr>>

\* The workflow editor removes the definition, or puts it back.
EditDefinition ==
    /\ Up /\ Spend("edit")
    /\ loaded' = ~loaded
    /\ UNCHANGED <<files, store, landed, red, polls, handler, mgr>>

\* The detail pane clears a flag.
Patch(flag) ==
    /\ Up /\ flag \in brief.flags /\ Spend("patch")
    /\ brief' = [brief EXCEPT !.flags = @ \ {flag}]
    /\ UNCHANGED <<artifacts, children, store, world, polls, handler, mgr>>

Release ==
    /\ Up /\ row.hold = "blocked" /\ Spend("release")
    /\ row' = [row EXCEPT !.hold = "none", !.retry = FALSE]
    /\ UNCHANGED <<files, state, order, world, polls, handler, mgr>>

Delete ==
    /\ Up /\ brief.present /\ Spend("delete")
    /\ DeleteTask
    /\ row' = [hold |-> "none", retry |-> FALSE, counter |-> 0]
    /\ UNCHANGED <<children, state, order, world, polls, handler, mgr>>

Crash ==
    /\ mgr # "down" /\ Spend("crash")
    /\ mgr' = "down"
    /\ polls' = [w \in Worker |-> Idle]
    /\ handler' = [a \in Attempt |-> Idle]
    /\ UNCHANGED <<files, store, world>>

Restart ==
    /\ mgr = "down"
    /\ mgr' = "scan"
    /\ UNCHANGED <<files, store, world, polls, handler, spent>>

\* _recover_landed: the commit and the drop of the brief.
RecoverLanded(a) ==
    /\ mgr = "scan" /\ state[a] = "landing" /\ a \in landed
    /\ Commit(a, OnLandRecovered)
    /\ IF ~Evergreen THEN DeleteTask ELSE UNCHANGED <<brief, artifacts>>
    /\ UNCHANGED <<children, order, world, polls, handler, mgr, spent>>

RecoveryOutcome == [status |-> "completed", kind |-> "none",
                    landable |-> TRUE, quarantine |-> FALSE]

RecoveryPolicy == [counter |-> row.counter, wasRetry |-> FALSE,
                   watch |-> FALSE, paused |-> FALSE, evergreen |-> Evergreen]

\* _reenqueue_land: the re-run is settled by the classic transition; of the
\* post-commit effects only the drop of the brief is run.
RecoverReland(a, land) ==
    /\ mgr = "scan" /\ state[a] = "landing" /\ a \notin landed
    /\ LET tr == OnLandResult(RecoveryOutcome, land, RecoveryPolicy) IN
       /\ Commit(a, tr)
       /\ IF tr.eff.drop THEN DeleteTask ELSE UNCHANGED <<brief, artifacts>>
    /\ landed' = IF land.kind \in LandSuccessKinds THEN landed \cup {a}
                 ELSE landed
    /\ UNCHANGED <<children, order, loaded, red, polls, handler, mgr, spent>>

RecoverPark(a) ==
    /\ mgr = "scan" /\ state[a] = "landing" /\ a \notin landed
    /\ Commit(a, OnLandInterrupted)
    /\ UNCHANGED <<files, order, world, polls, handler, mgr, spent>>

RecoveryDone ==
    /\ mgr = "scan" /\ \A a \in Attempt : state[a] # "landing"
    /\ mgr' = "up"
    /\ UNCHANGED <<files, store, world, polls, handler, spent>>

-----------------------------------------------------------------------------
(* Specification                                                           *)

PollStep(w) ==
    \/ PollPick(w) \/ PollHolds(w) \/ Stamp(w) \/ BuildOrder(w)
    \/ ReadArtifacts(w) \/ CreateAttempt(w)

SubmitStep(a) ==
    \/ SubmitApply(a) \/ EnqueueLand(a) \/ CompleteLand(a)
    \/ SetFlags(a) \/ WriteArtifact(a) \/ MoveCursor(a) \/ DropBrief(a)
    \/ Chain(a) \/ ChainMiss(a)
    \/ \E created \in BOOLEAN : Harvest(a, created)
    \/ \E kind \in {"no_changes", "adopted"} : AdoptCheck(a, kind)
    \/ \E land \in LandReplies : Land(a, land)

RecoveryStep ==
    \/ Crash \/ Restart \/ RecoveryDone
    \/ \E a \in Attempt :
         \/ RecoverLanded(a) \/ RecoverPark(a)
         \/ \E land \in LandReplies : RecoverReland(a, land)

OperatorStep ==
    \/ CiChanges \/ EditDefinition \/ Release \/ Delete
    \/ \E flag \in Flags : Patch(flag)

Next ==
    \/ \E w \in Worker : PollStep(w)
    \/ \E a \in Attempt : \/ SubmitStep(a) \/ ExpireDeadline(a)
                          \/ \E s \in Submits : SubmitRead(a, s)
    \/ OperatorStep \/ RecoveryStep

Spec == Init /\ [][Next]_vars

-----------------------------------------------------------------------------
(* Properties                                                              *)

\* A step is never entered more often than its budget allows, however the
\* submits, polls and resets interleave; the first entry of the first step
\* is the one that no budget is asked for.
WithinBudget ==
    \A s \in Step : \/ brief.visits[s] = 0
                    \/ brief.visits[s] <= MaxVisits[s]
                    \/ s = First /\ brief.visits[s] = 1

\* A crash between the artifact and the cursor re-runs the step instead of
\* skipping it: the cursor stands past a doc step only once its artifact is
\* committed.
ArtifactBeforeCursor ==
    brief.present /\ brief.step \notin {NoStep, First} =>
      \E p \in Step : /\ brief.step \in Destinations(p)
                      /\ Kind[p] = "doc" => Output[p] \in artifacts

\* An order never lacks an input artifact of its step, as long as the task
\* exists: read_artifacts omits a missing one silently.
OrderComplete ==
    brief.present =>
      \A a \in Attempt :
        state[a] # "none" /\ order[a].step # NoStep =>
          Inputs[order[a].step] \subseteq order[a].got

\* The cursor and the visits move together: the step under the cursor has
\* been entered.
CursorCounted == brief.step # NoStep => brief.visits[brief.step] > 0

=============================================================================
