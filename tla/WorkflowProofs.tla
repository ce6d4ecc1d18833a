--------------------------- MODULE WorkflowProofs ---------------------------
(***************************************************************************)
(* The cursor of a workflow for any definition the parser accepts, and for *)
(* any number of workers and attempts.                                     *)
(***************************************************************************)
EXTENDS Workflow, LifecycleProofs, TLAPS

-----------------------------------------------------------------------------
(* The inductive invariant, in parts                                       *)

\* Visits that no budget was exceeded for.
Budgeted(visits) ==
    \A s \in Step : \/ visits[s] = 0
                    \/ visits[s] <= MaxVisits[s]
                    \/ s = First /\ visits[s] = 1

\* A suspended handler's verdict stays good although the brief moves on: it
\* was taken on visits that were within the budget when they were read.
GoodPolicies ==
    {sp \in StepPolicies :
       /\ Budgeted(sp.visits)
       /\ sp.step # NoStep =>
            /\ sp.route \in Destinations(sp.step)
            /\ sp.route # End /\ ~sp.exhausted =>
                 sp.visits[sp.route] + 1 <= MaxVisits[sp.route]}

\* The route may be entered.
Moves(sp) == /\ sp.step \in Step /\ sp.route \in Step
             /\ sp.route \in Destinations(sp.step)
             /\ sp.visits[sp.route] + 1 <= MaxVisits[sp.route]

\* Effects the step policy allows: the cursor moves where the budget allows
\* it, a doc step's document goes with it, and only an evergreen restarts.
Allowed(eff, sp) ==
    /\ eff.cursor = "advance" =>
         Moves(sp) /\ (Kind[sp.step] = "doc" => eff.artifact)
    /\ eff.artifact => sp.step \in Step /\ Kind[sp.step] = "doc"
    /\ eff.cursor = "reset" => Evergreen

EffectStages == {"flags", "artifact", "cursor", "drop", "chain"}

GoodHandler(h) ==
    /\ h.pc # "idle" => h.sp \in GoodPolicies
    /\ h.pc \in {"apply", "commit"} => Allowed(h.tr.eff, h.sp)
    /\ h.pc \in EffectStages => Allowed(h.eff, h.sp)
    /\ h.pc \in {"adopt", "enqueue", "landing"} /\ h.sp.step # NoStep =>
         Kind[h.sp.step] # "doc"
    /\ h.pc = "artifact" => h.eff.artifact
    /\ h.pc = "cursor" => h.eff.cursor # "keep"

GoodHandlers == {h \in Handlers : GoodHandler(h)}

HandlerInv == handler \in [Attempt -> GoodHandlers]

BriefInv == brief \in Briefs /\ WithinBudget /\ CursorCounted

\* A document is on disk before its handler reaches the cursor.
WrittenFirst ==
    \A a \in Attempt :
      handler[a].pc = "cursor" /\ handler[a].eff.artifact /\ brief.present =>
        Output[handler[a].sp.step] \in artifacts

ArtifactInv == ~Evergreen => ArtifactBeforeCursor /\ WrittenFirst

StoreInv ==
    /\ row \in Rows
    /\ state \in [Attempt -> AttemptStates \cup {"none"}]
    /\ order \in [Attempt -> Orders \cup {NoOrder}]
    /\ polls \in [Worker -> Polls]
    /\ artifacts \subseteq Artifact

WorldInv ==
    /\ children \in BOOLEAN /\ landed \subseteq Attempt
    /\ loaded \in BOOLEAN /\ red \in BOOLEAN
    /\ mgr \in {"up", "down", "scan"}
    /\ spent \in Nat

IInv == BriefInv /\ HandlerInv /\ StoreInv /\ WorldInv /\ ArtifactInv

USE DEF files, store, world

-----------------------------------------------------------------------------
(* What the transitions return                                             *)

\* The transitions of a task without a workflow leave the cursor alone.
LEMMA ClassicKeeps ==
    ASSUME NEW out \in Outcomes, NEW pol \in Policies
    PROVE  /\ ErrorTransition(out, pol).eff.cursor = "keep"
           /\ ~ErrorTransition(out, pol).eff.artifact
           /\ OnSubmit(out, pol).eff.cursor = "keep"
           /\ ~OnSubmit(out, pol).eff.artifact
           /\ \A land \in LandResults :
                /\ OnLandResult(out, land, pol).eff.cursor = "keep"
                /\ ~OnLandResult(out, land, pol).eff.artifact
<1>1. \A i, r \in BOOLEAN : /\ FailureLadder(pol, i, r).cursor = "keep"
                            /\ ~FailureLadder(pol, i, r).artifact
  BY DEF FailureLadder, NoEffects
<1>2. out.quarantine \in BOOLEAN
  BY DEF Outcomes
<1>3. /\ ErrorTransition(out, pol).eff.cursor = "keep"
      /\ ~ErrorTransition(out, pol).eff.artifact
  BY <1>1, <1>2 DEF ErrorTransition, NoEffects
<1>4. /\ OnSubmit(out, pol).eff.cursor = "keep"
      /\ ~OnSubmit(out, pol).eff.artifact
  BY <1>3 DEF OnSubmit, BlockedTransition, NeutralTransition, NoEffects
<1>5. ASSUME NEW land \in LandResults
      PROVE  /\ OnLandResult(out, land, pol).eff.cursor = "keep"
             /\ ~OnLandResult(out, land, pol).eff.artifact
  BY <1>1, <1>2 DEF OnLandResult, NoChangeTransition, LandedTransition,
                    LandFailedTransition, NoEffects
<1> QED BY <1>3, <1>4, <1>5

\* The two halves of OnLandResult that a workflow's land shares with it.
LEMMA LandHalves ==
    ASSUME NEW out \in Outcomes, NEW pol \in Policies, NEW land \in LandResults
    PROVE  /\ NoChangeTransition(out, pol) \in Transitions
           /\ NoChangeTransition(out, pol).eff.cursor = "keep"
           /\ ~NoChangeTransition(out, pol).eff.artifact
           /\ LandFailedTransition(land, pol) \in Transitions
           /\ LandFailedTransition(land, pol).eff.cursor = "keep"
           /\ ~LandFailedTransition(land, pol).eff.artifact
<1>1. out.quarantine \in BOOLEAN
  BY DEF Outcomes
<1>2. /\ NoChangeTransition(out, pol) \in Transitions
      /\ NoChangeTransition(out, pol).eff.cursor = "keep"
      /\ ~NoChangeTransition(out, pol).eff.artifact
  BY <1>1, FailureLadderType
     DEF NoChangeTransition, FailureLadder, NoEffects, Transitions,
         AttemptStates, TerminalStates
<1>3. /\ LandFailedTransition(land, pol) \in Transitions
      /\ LandFailedTransition(land, pol).eff.cursor = "keep"
      /\ ~LandFailedTransition(land, pol).eff.artifact
  BY FailurePauseType, LifecycleConstants
     DEF LandFailedTransition, ErrorStateFor, Effects, NoEffects, LandResults,
         Transitions, AttemptStates, TerminalStates
<1> QED BY <1>2, <1>3

\* The verdict on a step is good whatever the signal, if the brief is.
LEMMA StepPolicyGood ==
    ASSUME BriefInv, NEW s \in Step \cup {NoStep}, NEW signal
    PROVE  StepPolicy(s, signal) \in GoodPolicies
<1>1. CASE ~loaded \/ s = NoStep
  BY <1>1, WorkflowConstants
     DEF StepPolicy, NoPolicy, NoVisits, GoodPolicies, StepPolicies, Budgeted
<1>2. CASE loaded /\ s # NoStep
  <2>1. s \in Step
    BY <1>2
  <2>2. Route(s, signal) \in Destinations(s)
    BY DEF Route, Destinations
  <2>3. Route(s, signal) \in Step \cup {End}
    BY <2>1, WorkflowConstants DEF Route
  <2>4. brief.visits \in [Step -> Nat] /\ Budgeted(brief.visits)
    BY DEF BriefInv, Briefs, WithinBudget, Budgeted
  <2> DEFINE sp == StepPolicy(s, signal)
             to == Route(s, signal)
  <2>5. sp = [step |-> s, route |-> to, visits |-> brief.visits,
              exhausted |-> to # End /\ brief.visits[to] + 1 > MaxVisits[to]]
    BY <1>2 DEF StepPolicy
  <2>6. sp \in StepPolicies
    BY <2>1, <2>3, <2>4, <2>5 DEF StepPolicies
  <2>7. /\ sp.step = s /\ sp.route = to /\ sp.visits = brief.visits
        /\ sp.exhausted = (to # End /\ brief.visits[to] + 1 > MaxVisits[to])
    <3> HIDE DEF sp, to
    <3> QED BY <2>5
  <2>8. to # End => brief.visits[to] \in Nat /\ MaxVisits[to] \in Int
    BY <2>3, <2>4, WorkflowConstants
  <2>9. to \in Destinations(s)
    BY <2>2
  <2> HIDE DEF sp, to
  <2>10. to # End /\ ~sp.exhausted => brief.visits[to] + 1 <= MaxVisits[to]
    <3>1. to # End /\ ~sp.exhausted => ~(brief.visits[to] + 1 > MaxVisits[to])
      BY <2>7, Zenon
    <3> QED BY <2>8, <3>1
  <2>11. Budgeted(sp.visits)
    BY <2>4, <2>7
  <2>12. sp.route \in Destinations(sp.step)
    BY <2>7, <2>9
  <2>13. sp \in GoodPolicies
    BY <2>6, <2>7, <2>10, <2>11, <2>12 DEF GoodPolicies
  <2> QED BY <2>13 DEF sp
<1> QED BY <1>1, <1>2

\* The transitions of a doc step, and what they do to the cursor.
LEMMA DocTransitions ==
    /\ WorkflowEnd \in Transitions /\ BudgetQuarantine \in Transitions
    /\ DocAdvance \in Transitions
    /\ WorkflowEnd.eff.cursor = (IF Evergreen THEN "reset" ELSE "keep")
    /\ BudgetQuarantine.eff.cursor = "keep"
    /\ DocAdvance.eff.cursor = "advance" /\ DocAdvance.eff.artifact
<1>1. Evergreen \in BOOLEAN
  BY WorkflowConstants
<1>2. WorkflowEnd \in Transitions
      /\ WorkflowEnd.eff.cursor = (IF Evergreen THEN "reset" ELSE "keep")
  <2>1. CASE Evergreen
    BY <2>1 DEF WorkflowEnd, Transitions, Effects, NoEffects, Flags,
                AttemptStates, TerminalStates
  <2>2. CASE ~Evergreen
    BY <2>2 DEF WorkflowEnd, Transitions, Effects, NoEffects, Flags,
                AttemptStates, TerminalStates
  <2> QED BY <1>1, <2>1, <2>2
<1>3. BudgetQuarantine \in Transitions /\ BudgetQuarantine.eff.cursor = "keep"
  BY DEF BudgetQuarantine, Transitions, Effects, NoEffects, Flags,
         AttemptStates, TerminalStates
<1>4. /\ DocAdvance \in Transitions
      /\ DocAdvance.eff.cursor = "advance" /\ DocAdvance.eff.artifact
  BY DEF DocAdvance, Transitions, Effects, NoEffects,
         AttemptStates, TerminalStates
<1> QED BY <1>2, <1>3, <1>4

\* The transition of a code step that landed.
LEMMA LandedStepType ==
    ASSUME NEW sp \in StepPolicies
    PROVE  /\ LandedStep(sp) \in Transitions /\ ~LandedStep(sp).eff.artifact
           /\ LandedStep(sp).eff.cursor =
                IF sp.route = End
                THEN IF Evergreen THEN "reset" ELSE "keep"
                ELSE IF sp.exhausted THEN "keep" ELSE "advance"
<1>1. Evergreen \in BOOLEAN /\ sp.exhausted \in BOOLEAN
  BY WorkflowConstants DEF StepPolicies
<1>2. CASE sp.route = End /\ Evergreen
  BY <1>2 DEF LandedStep, Transitions, Effects, NoEffects, AttemptStates,
              TerminalStates
<1>3. CASE sp.route = End /\ ~Evergreen
  BY <1>3 DEF LandedStep, Transitions, Effects, NoEffects, AttemptStates,
              TerminalStates
<1>4. CASE sp.route # End /\ sp.exhausted
  BY <1>4 DEF LandedStep, Transitions, Effects, NoEffects, Flags,
              AttemptStates, TerminalStates
<1>5. CASE sp.route # End /\ ~sp.exhausted
  BY <1>5 DEF LandedStep, Transitions, Effects, NoEffects, AttemptStates,
              TerminalStates
<1> QED BY <1>1, <1>2, <1>3, <1>4, <1>5

\* A step settled without git work gets effects its policy allows.
LEMMA OnWorkflowStepAllowed ==
    ASSUME NEW out \in Outcomes, NEW doc \in BOOLEAN, NEW pol \in Policies,
           NEW sp \in GoodPolicies, WorkflowPhase(out, sp) = "apply"
    PROVE  /\ OnWorkflowStep(out, doc, pol, sp) \in Transitions
           /\ Allowed(OnWorkflowStep(out, doc, pol, sp).eff, sp)
<1> DEFINE tr == OnWorkflowStep(out, doc, pol, sp)
           bad == [out EXCEPT !.status = "error", !.kind = "worker_error"]
<1>1. CASE sp.step = NoStep \/ out.status # "completed"
  <2>1. tr = OnSubmit(out, pol)
    BY <1>1 DEF OnWorkflowStep
  <2> QED BY <2>1, OnSubmitType, ClassicKeeps DEF Verdicts, Allowed
<1>2. CASE sp.step # NoStep /\ out.status = "completed"
  <2>1. /\ sp.step \in Step /\ Kind[sp.step] = "doc"
        /\ sp.route \in Step \cup {End}
    BY <1>2 DEF WorkflowPhase, GoodPolicies, StepPolicies
  <2>2. CASE ~doc
    <3>1. bad \in Outcomes
      BY DEF Outcomes, RunStatuses, FailureKinds
    <3>2. tr = ErrorTransition(bad, pol)
      BY <1>2, <2>2 DEF OnWorkflowStep
    <3>3. /\ tr \in Verdicts /\ tr.eff.cursor = "keep" /\ ~tr.eff.artifact
      BY <3>1, <3>2, ErrorTransitionType, ClassicKeeps
    <3> QED BY <3>3 DEF Verdicts, Allowed
  <2>3. CASE doc /\ sp.route = End
    <3>1. tr = WorkflowEnd
      BY <1>2, <2>3 DEF OnWorkflowStep
    <3> QED BY <3>1, <2>1, DocTransitions DEF Allowed
  <2>4. CASE doc /\ sp.route # End /\ sp.exhausted
    <3>1. tr = BudgetQuarantine
      BY <1>2, <2>4 DEF OnWorkflowStep
    <3> QED BY <3>1, <2>1, DocTransitions DEF Allowed
  <2>5. CASE doc /\ sp.route # End /\ ~sp.exhausted
    <3>1. tr = DocAdvance
      BY <1>2, <2>5 DEF OnWorkflowStep
    <3>2. Moves(sp)
      BY <1>2, <2>1, <2>5 DEF Moves, GoodPolicies
    <3> QED BY <3>1, <3>2, <2>1, DocTransitions DEF Allowed
  <2> QED BY <2>2, <2>3, <2>4, <2>5 DEF GoodPolicies, StepPolicies
<1> QED BY <1>1, <1>2

\* So does a step settled by the git pipeline.
LEMMA OnWorkflowLandAllowed ==
    ASSUME NEW out \in Outcomes, NEW land \in LandResults, NEW pol \in Policies,
           NEW sp \in GoodPolicies, sp.step # NoStep => Kind[sp.step] # "doc"
    PROVE  /\ OnWorkflowLand(out, land, pol, sp) \in Transitions
           /\ Allowed(OnWorkflowLand(out, land, pol, sp).eff, sp)
<1> DEFINE tr == OnWorkflowLand(out, land, pol, sp)
<1>1. CASE sp.step = NoStep
  <2>1. tr = OnLandResult(out, land, pol)
    BY <1>1 DEF OnWorkflowLand
  <2> QED BY <2>1, OnLandResultType, ClassicKeeps
           DEF LandVerdicts, Verdicts, Allowed
<1>2. CASE sp.step # NoStep /\ land.kind \notin LandSuccessKinds
  <2>1. \/ tr = NoChangeTransition(out, pol)
        \/ tr = LandFailedTransition(land, pol)
    BY <1>2 DEF OnWorkflowLand, LandSuccessKinds
  <2> QED BY <2>1, LandHalves DEF Allowed
<1>3. CASE sp.step # NoStep /\ land.kind \in LandSuccessKinds
  <2>1. tr = LandedStep(sp)
    BY <1>3 DEF OnWorkflowLand, LandSuccessKinds
  <2>2. sp.step \in Step /\ Kind[sp.step] # "doc"
        /\ sp.route \in Step \cup {End} /\ sp.exhausted \in BOOLEAN
    BY <1>3 DEF GoodPolicies, StepPolicies
  <2>3. sp.route # End /\ ~sp.exhausted => Moves(sp)
    BY <1>3, <2>2 DEF Moves, GoodPolicies
  <2> QED BY <2>1, <2>2, <2>3, LandedStepType DEF Allowed, GoodPolicies
<1> QED BY <1>1, <1>2, <1>3

\* And a harvested split.
LEMMA OnWorkflowSplitAllowed ==
    ASSUME NEW created \in BOOLEAN, NEW sp
    PROVE  /\ OnWorkflowSplit(created) \in Transitions
           /\ Allowed(OnWorkflowSplit(created).eff, sp)
  BY WorkflowConstants
     DEF OnWorkflowSplit, Transitions, Effects, NoEffects, AttemptStates,
         TerminalStates, Allowed

-----------------------------------------------------------------------------
(* Handlers                                                                *)

\* What a suspended handler holds at each stage.
LEMMA HandlerForms ==
    ASSUME NEW h \in GoodHandlers
    PROVE  /\ h.pc \in {"apply", "commit"} =>
                /\ h.tr \in Transitions /\ h.sp \in GoodPolicies
                /\ Allowed(h.tr.eff, h.sp)
           /\ h.pc = "harvest" => h.sp \in GoodPolicies
           /\ h.pc \in {"adopt", "enqueue", "landing"} =>
                /\ h = [pc |-> h.pc, out |-> h.out, pol |-> h.pol, sp |-> h.sp]
                /\ h.out \in Outcomes /\ h.pol \in Policies
                /\ h.sp \in GoodPolicies
                /\ h.sp.step # NoStep => Kind[h.sp.step] # "doc"
           /\ h.pc \in EffectStages =>
                /\ h.eff \in Effects /\ h.sp \in GoodPolicies
                /\ Allowed(h.eff, h.sp)
  BY DEF GoodHandlers, GoodHandler, Handlers, EffectStages

\* The ways to build one.
LEMMA HandlerBuilds ==
    ASSUME NEW sp \in GoodPolicies
    PROVE  /\ Idle \in GoodHandlers
           /\ [pc |-> "harvest", sp |-> sp] \in GoodHandlers
           /\ \A tr \in Transitions, pc \in {"apply", "commit"} :
                Allowed(tr.eff, sp) =>
                  [pc |-> pc, tr |-> tr, sp |-> sp] \in GoodHandlers
           /\ \A out \in Outcomes, pol \in Policies,
                 pc \in {"adopt", "enqueue", "landing"} :
                (sp.step # NoStep => Kind[sp.step] # "doc") =>
                  [pc |-> pc, out |-> out, pol |-> pol, sp |-> sp]
                    \in GoodHandlers
           /\ \A eff \in Effects, stage \in EffectStages \cup {"idle"} :
                /\ Allowed(eff, sp)
                /\ stage = "artifact" => eff.artifact
                /\ stage = "cursor" => eff.cursor # "keep"
                => Resume(stage, eff, sp) \in GoodHandlers
<1>0. sp \in StepPolicies
  BY DEF GoodPolicies
<1>1. /\ Idle \in GoodHandlers
      /\ [pc |-> "harvest", sp |-> sp] \in GoodHandlers
  BY <1>0 DEF Idle, GoodHandlers, GoodHandler, Handlers, EffectStages
<1>2. ASSUME NEW tr \in Transitions, NEW pc \in {"apply", "commit"},
             Allowed(tr.eff, sp)
      PROVE  [pc |-> pc, tr |-> tr, sp |-> sp] \in GoodHandlers
  BY <1>0, <1>2 DEF GoodHandlers, GoodHandler, Handlers, EffectStages
<1>3. ASSUME NEW out \in Outcomes, NEW pol \in Policies,
             NEW pc \in {"adopt", "enqueue", "landing"},
             sp.step # NoStep => Kind[sp.step] # "doc"
      PROVE  [pc |-> pc, out |-> out, pol |-> pol, sp |-> sp] \in GoodHandlers
  BY <1>0, <1>3 DEF GoodHandlers, GoodHandler, Handlers, EffectStages
<1>4. ASSUME NEW eff \in Effects, NEW stage \in EffectStages \cup {"idle"},
             Allowed(eff, sp), stage = "artifact" => eff.artifact,
             stage = "cursor" => eff.cursor # "keep"
      PROVE  Resume(stage, eff, sp) \in GoodHandlers
  BY <1>0, <1>1, <1>4
     DEF Resume, GoodHandlers, GoodHandler, Handlers, EffectStages
<1> QED BY <1>1, <1>2, <1>3, <1>4

\* The order of the post-commit effects.
LEMMA Stages ==
    ASSUME NEW eff \in Effects
    PROVE  \A next \in {AfterCommit(eff), AfterFlags(eff), AfterArtifact(eff),
                        AfterCursor(eff), AfterDrop(eff)} :
             /\ next \in EffectStages \cup {"idle"}
             /\ next = "artifact" => eff.artifact
             /\ next = "cursor" => eff.cursor # "keep"
  BY DEF AfterCommit, AfterFlags, AfterArtifact, AfterCursor, AfterDrop,
         EffectStages, Effects

\* Every step keeps the handlers' promises.
LEMMA HandlerStep ==
    ASSUME IInv, [Next]_vars
    PROVE  HandlerInv'
<1> USE DEF HandlerInv
<1>0. handler \in [Attempt -> GoodHandlers] /\ Idle \in GoodHandlers
  BY DEF IInv, Idle, GoodHandlers, GoodHandler, Handlers, EffectStages
<1>1. ASSUME NEW a \in Attempt, NEW h \in GoodHandlers,
             handler' = [handler EXCEPT ![a] = h]
      PROVE  HandlerInv'
  BY <1>0, <1>1
<1>2. ASSUME NEW a \in Attempt, NEW tr, NEW expected, Finish(a, tr, expected),
             tr = handler[a].tr, handler[a].pc \in {"apply", "commit"}
      PROVE  HandlerInv'
  <2>1. /\ tr.eff \in Effects /\ handler[a].sp \in GoodPolicies
        /\ Allowed(tr.eff, handler[a].sp)
    BY <1>0, <1>2, HandlerForms DEF Transitions
  <2>2. Resume(AfterCommit(tr.eff), tr.eff, handler[a].sp) \in GoodHandlers
    BY <2>1, Stages, HandlerBuilds
  <2> QED BY <1>0, <1>1, <1>2, <2>2 DEF Finish
<1>3. CASE UNCHANGED handler
  BY <1>0, <1>3
<1>4. ASSUME NEW a \in Attempt, NEW s \in Submits, SubmitRead(a, s)
      PROVE  HandlerInv'
  <2> DEFINE sp == StepPolicy(order[a].step, s.signal)
             phase == WorkflowPhase(s.out, sp)
  <2>1. order[a].step \in Step \cup {NoStep}
    BY DEF IInv, StoreInv, Orders, NoOrder
  <2>2. sp \in GoodPolicies
    BY <2>1, StepPolicyGood DEF IInv
  <2>3. s.out \in Outcomes /\ s.doc \in BOOLEAN /\ SubmitPolicy \in Policies
    BY WorkflowConstants DEF SubmitPolicy, Policies, IInv, StoreInv, Rows
  <2>4. phase \in {"apply", "harvest", "enqueue", "adopt"}
    BY DEF WorkflowPhase, OnSubmitPhase
  <2>5. phase \in {"enqueue", "adopt"} /\ sp.step # NoStep =>
          Kind[sp.step] # "doc"
    BY DEF WorkflowPhase
  <2> DEFINE tr == OnWorkflowStep(s.out, s.doc, SubmitPolicy, sp)
  <2>6. phase = "apply" => tr \in Transitions /\ Allowed(tr.eff, sp)
    BY <2>2, <2>3, OnWorkflowStepAllowed
  <2>7. handler' = [handler EXCEPT ![a] =
             CASE phase = "apply" -> [pc |-> "apply", sp |-> sp, tr |-> tr]
               [] phase = "harvest" -> [pc |-> "harvest", sp |-> sp]
               [] OTHER -> [pc |-> phase, out |-> s.out,
                            pol |-> SubmitPolicy, sp |-> sp]]
    BY <1>4 DEF SubmitRead
  <2> HIDE DEF sp, phase, tr
  <2>8. CASE phase = "apply"
    BY <1>1, <2>2, <2>6, <2>7, <2>8, HandlerBuilds
  <2>9. CASE phase = "harvest"
    BY <1>1, <2>2, <2>7, <2>9, HandlerBuilds
  <2>10. CASE phase \in {"enqueue", "adopt"}
    BY <1>1, <2>2, <2>3, <2>5, <2>7, <2>10, HandlerBuilds
  <2> QED BY <2>4, <2>8, <2>9, <2>10
<1>5. ASSUME NEW a \in Attempt, SubmitStep(a)
      PROVE  HandlerInv'
  <2>1. CASE SubmitApply(a)
    BY <1>2, <2>1 DEF SubmitApply
  <2>2. CASE CompleteLand(a)
    BY <1>2, <2>2 DEF CompleteLand
  <2>3. CASE EnqueueLand(a)
    <3>1. /\ handler[a] = [pc |-> handler[a].pc, out |-> handler[a].out,
                           pol |-> handler[a].pol, sp |-> handler[a].sp]
          /\ handler[a].out \in Outcomes /\ handler[a].pol \in Policies
          /\ handler[a].sp \in GoodPolicies
          /\ handler[a].sp.step # NoStep => Kind[handler[a].sp.step] # "doc"
      BY <1>0, <2>3, HandlerForms DEF EnqueueLand
    <3>2. [handler[a] EXCEPT !.pc = "landing"] =
            [pc |-> "landing", out |-> handler[a].out,
             pol |-> handler[a].pol, sp |-> handler[a].sp]
      BY <3>1
    <3>3. [pc |-> "landing", out |-> handler[a].out,
           pol |-> handler[a].pol, sp |-> handler[a].sp] \in GoodHandlers
      BY <3>1, HandlerBuilds
    <3>4. [handler[a] EXCEPT !.pc = "landing"] \in GoodHandlers
      BY <3>2, <3>3
    <3> QED BY <1>0, <1>1, <2>3, <3>4 DEF EnqueueLand
  <2>4. ASSUME NEW land \in LandReplies, Land(a, land)
        PROVE  HandlerInv'
    <3>1. /\ handler[a].out \in Outcomes /\ handler[a].pol \in Policies
          /\ handler[a].sp \in GoodPolicies
          /\ handler[a].sp.step # NoStep => Kind[handler[a].sp.step] # "doc"
      BY <1>0, <2>4, HandlerForms DEF Land
    <3>2. land \in LandResults
      BY WorkflowConstants
    <3> DEFINE tr == OnWorkflowLand(handler[a].out, land, handler[a].pol,
                                    handler[a].sp)
    <3>3. tr \in Transitions /\ Allowed(tr.eff, handler[a].sp)
      BY <3>1, <3>2, OnWorkflowLandAllowed
    <3>4. handler' = [handler EXCEPT ![a] = [pc |-> "commit",
                                             sp |-> handler[a].sp, tr |-> tr]]
      BY <2>4 DEF Land
    <3> HIDE DEF tr
    <3> QED BY <1>1, <3>1, <3>3, <3>4, HandlerBuilds
  <2>5. ASSUME NEW kind \in {"no_changes", "adopted"}, AdoptCheck(a, kind)
        PROVE  HandlerInv'
    <3>1. /\ handler[a].out \in Outcomes /\ handler[a].pol \in Policies
          /\ handler[a].sp \in GoodPolicies
          /\ handler[a].sp.step # NoStep => Kind[handler[a].sp.step] # "doc"
      BY <1>0, <2>5, HandlerForms DEF AdoptCheck
    <3> DEFINE land == [kind |-> kind, retryable |-> FALSE]
    <3>2. land \in LandResults
      BY DEF LandResults, LandSuccessKinds
    <3> DEFINE tr == OnWorkflowLand(handler[a].out, land, handler[a].pol,
                                    handler[a].sp)
    <3>3. tr \in Transitions /\ Allowed(tr.eff, handler[a].sp)
      BY <3>1, <3>2, OnWorkflowLandAllowed
    <3>4. handler' = [handler EXCEPT ![a] = [pc |-> "apply",
                                             sp |-> handler[a].sp, tr |-> tr]]
      BY <2>5 DEF AdoptCheck
    <3> HIDE DEF tr
    <3> QED BY <1>1, <3>1, <3>3, <3>4, HandlerBuilds
  <2>6. ASSUME NEW created \in BOOLEAN, Harvest(a, created)
        PROVE  HandlerInv'
    <3>1. handler[a].sp \in GoodPolicies
      BY <1>0, <2>6, HandlerForms DEF Harvest
    <3> DEFINE tr == OnWorkflowSplit(created)
    <3>2. tr \in Transitions /\ Allowed(tr.eff, handler[a].sp)
      BY OnWorkflowSplitAllowed
    <3>3. handler' = [handler EXCEPT ![a] = [pc |-> "apply",
                                             sp |-> handler[a].sp, tr |-> tr]]
      BY <2>6 DEF Harvest
    <3> HIDE DEF tr
    <3> QED BY <1>1, <3>1, <3>2, <3>3, HandlerBuilds
  <2>7. ASSUME handler[a].pc \in EffectStages
        PROVE  /\ handler[a].eff \in Effects /\ handler[a].sp \in GoodPolicies
               /\ \A next \in {AfterFlags(handler[a].eff),
                                AfterArtifact(handler[a].eff),
                                AfterCursor(handler[a].eff),
                                AfterDrop(handler[a].eff)} :
                    Resume(next, handler[a].eff, handler[a].sp)
                      \in GoodHandlers
    <3>1. /\ handler[a].eff \in Effects /\ handler[a].sp \in GoodPolicies
          /\ Allowed(handler[a].eff, handler[a].sp)
      BY <1>0, <2>7, HandlerForms
    <3> QED BY <3>1, Stages, HandlerBuilds
  <2>8. CASE SetFlags(a)
    BY <1>0, <1>1, <2>7, <2>8 DEF SetFlags, EffectStages
  <2>9. CASE WriteArtifact(a)
    BY <1>1, <2>7, <2>9 DEF WriteArtifact, EffectStages
  <2>10. CASE MoveCursor(a)
    BY <1>0, <1>1, <2>7, <2>10 DEF MoveCursor, EffectStages
  <2>11. CASE DropBrief(a)
    BY <1>1, <2>7, <2>11 DEF DropBrief, EffectStages
  <2>12. CASE Chain(a) \/ ChainMiss(a)
    BY <1>0, <1>1, <2>12 DEF Chain, ChainMiss
  <2> QED BY <1>5, <2>1, <2>2, <2>3, <2>4, <2>5, <2>6, <2>8, <2>9, <2>10,
             <2>11, <2>12 DEF SubmitStep
<1>6. CASE \E w \in Worker : PollStep(w)
  BY <1>3, <1>6 DEF PollStep, PollPick, PollHolds, Stamp, BuildOrder,
                    ReadArtifacts, CreateAttempt
<1>7. CASE OperatorStep \/ \E a \in Attempt : ExpireDeadline(a)
  BY <1>3, <1>7 DEF OperatorStep, ExpireDeadline, CiChanges, EditDefinition,
                    Release, Delete, Patch
<1>8. CASE RecoveryStep
  BY <1>0, <1>3, <1>8 DEF RecoveryStep, Crash, Restart, RecoveryDone,
                          RecoverLanded, RecoverPark, RecoverReland
<1>9. CASE UNCHANGED vars
  BY <1>3, <1>9 DEF vars
<1> QED BY <1>4, <1>5, <1>6, <1>7, <1>8, <1>9 DEF Next

-----------------------------------------------------------------------------
(* The brief                                                               *)

\* A deleted brief, a brief with other flags and a stamped one are good.
LEMMA BriefWrites ==
    /\ brief' = NoBrief => BriefInv'
    /\ \A flags \in SUBSET Flags :
         BriefInv /\ brief' = [brief EXCEPT !.flags = flags] => BriefInv'
    /\ /\ BriefInv
       /\ brief' = [brief EXCEPT !.step = First,
                                 !.visits = [NoVisits EXCEPT ![First] = 1]]
       => BriefInv'
<1>1. ASSUME brief' = NoBrief PROVE BriefInv'
  BY <1>1 DEF NoBrief, NoVisits, BriefInv, Briefs, WithinBudget, CursorCounted
<1>2. ASSUME BriefInv, NEW flags \in SUBSET Flags,
             brief' = [brief EXCEPT !.flags = flags]
      PROVE  BriefInv'
  BY <1>2 DEF BriefInv, Briefs, WithinBudget, CursorCounted
<1>3. ASSUME BriefInv,
             brief' = [brief EXCEPT !.step = First,
                                    !.visits = [NoVisits EXCEPT ![First] = 1]]
      PROVE  BriefInv'
  <2> DEFINE visits == [NoVisits EXCEPT ![First] = 1]
  <2>1. /\ First \in Step /\ visits \in [Step -> Nat] /\ visits[First] = 1
        /\ \A s \in Step : visits[s] = 0 \/ s = First
    BY WorkflowConstants DEF NoVisits
  <2> HIDE DEF visits
  <2>2. brief' \in Briefs /\ brief'.step = First /\ brief'.visits = visits
    BY <1>3, <2>1 DEF BriefInv, Briefs, visits
  <2> QED BY <2>1, <2>2 DEF BriefInv, WithinBudget, CursorCounted
<1> QED BY <1>1, <1>2, <1>3

\* Every step keeps the visits within their budgets.
LEMMA BriefStep ==
    ASSUME IInv, [Next]_vars
    PROVE  BriefInv'
<1>0. BriefInv /\ HandlerInv
  BY DEF IInv
<1>1. CASE UNCHANGED brief
  BY <1>0, <1>1 DEF BriefInv, WithinBudget, CursorCounted
<1>2. ASSUME DeleteTask PROVE BriefInv'
  BY <1>2, BriefWrites DEF DeleteTask
<1>3. ASSUME NEW w \in Worker, PollStep(w)
      PROVE  BriefInv'
  <2>1. CASE Stamp(w)
    BY <1>0, <1>1, <2>1, BriefWrites DEF Stamp
  <2> QED BY <1>1, <1>3, <2>1 DEF PollStep, PollPick, PollHolds, BuildOrder,
                                  ReadArtifacts, CreateAttempt
<1>4. ASSUME NEW a \in Attempt, MoveCursor(a)
      PROVE  BriefInv'
  <2> DEFINE eff == handler[a].eff
             sp == handler[a].sp
  <2>1. /\ eff \in Effects /\ sp \in GoodPolicies /\ Allowed(eff, sp)
    BY <1>0, <1>4, HandlerForms DEF HandlerInv, MoveCursor, EffectStages
  <2>2. CASE ~brief.present
    BY <1>1, <1>4, <2>2 DEF MoveCursor
  <2>3. CASE brief.present /\ eff.cursor = "reset"
    <3>1. brief' = [brief EXCEPT !.step = NoStep, !.visits = NoVisits]
      BY <1>4, <2>3 DEF MoveCursor
    <3> QED BY <1>0, <3>1 DEF BriefInv, Briefs, NoVisits, WithinBudget,
                              CursorCounted
  <2>4. CASE brief.present /\ eff.cursor # "reset"
    <3>1. handler[a] \in GoodHandlers /\ handler[a].pc = "cursor"
      BY <1>0, <1>4 DEF HandlerInv, MoveCursor
    <3>2. eff.cursor = "advance"
      BY <2>1, <2>4, <3>1 DEF GoodHandlers, GoodHandler, Effects
    <3>3. /\ sp.route \in Step /\ sp.visits \in [Step -> Nat]
          /\ sp.visits[sp.route] + 1 <= MaxVisits[sp.route]
          /\ Budgeted(sp.visits)
      BY <2>1, <3>2 DEF Allowed, Moves, GoodPolicies, StepPolicies
    <3>4. brief' = [brief EXCEPT !.step = sp.route,
                                 !.visits = AdvanceVisits(sp)]
      BY <1>4, <2>4 DEF MoveCursor
    <3> HIDE DEF sp, eff
    <3>5. /\ AdvanceVisits(sp) \in [Step -> Nat]
          /\ AdvanceVisits(sp)[sp.route] > 0
          /\ Budgeted(AdvanceVisits(sp))
      BY <3>3, WorkflowConstants DEF AdvanceVisits, Budgeted
    <3>6. brief \in Briefs
      BY <1>0 DEF BriefInv
    <3>7. /\ brief' \in Briefs /\ brief'.step = sp.route
          /\ brief'.visits = AdvanceVisits(sp)
      BY <3>3, <3>4, <3>5, <3>6 DEF Briefs
    <3> QED BY <3>5, <3>7 DEF BriefInv, WithinBudget, CursorCounted, Budgeted
  <2> QED BY <2>2, <2>3, <2>4
<1>5. ASSUME NEW a \in Attempt, SubmitStep(a)
      PROVE  BriefInv'
  <2>1. CASE SetFlags(a)
    <3>1. handler[a].eff \in Effects
      BY <1>0, <2>1, HandlerForms DEF HandlerInv, SetFlags, EffectStages
    <3>2. brief.flags \cup handler[a].eff.flags \in SUBSET Flags
      BY <1>0, <3>1 DEF BriefInv, Briefs, Effects
    <3> QED BY <1>0, <1>1, <2>1, <3>2, BriefWrites DEF SetFlags
  <2>2. CASE DropBrief(a)
    BY <1>1, <1>2, <2>2 DEF DropBrief
  <2>3. ASSUME NEW created \in BOOLEAN, Harvest(a, created)
        PROVE  BriefInv'
    BY <1>1, <1>2, <2>3 DEF Harvest
  <2>4. CASE SubmitApply(a) \/ CompleteLand(a)
    BY <1>1, <2>4 DEF SubmitApply, CompleteLand
  <2>5. CASE EnqueueLand(a) \/ WriteArtifact(a) \/ Chain(a) \/ ChainMiss(a)
    BY <1>1, <2>5 DEF EnqueueLand, WriteArtifact, Chain, ChainMiss
  <2>6. CASE \/ \E kind \in {"no_changes", "adopted"} : AdoptCheck(a, kind)
             \/ \E land \in LandReplies : Land(a, land)
    BY <1>1, <2>6 DEF AdoptCheck, Land
  <2> QED BY <1>4, <1>5, <2>1, <2>2, <2>3, <2>4, <2>5, <2>6 DEF SubmitStep
<1>6. ASSUME NEW a \in Attempt,
             ExpireDeadline(a) \/ \E s \in Submits : SubmitRead(a, s)
      PROVE  BriefInv'
  BY <1>1, <1>6 DEF ExpireDeadline, SubmitRead
<1>7. CASE OperatorStep
  <2>1. ASSUME NEW flag \in Flags, Patch(flag)
        PROVE  BriefInv'
    <3>1. brief.flags \ {flag} \in SUBSET Flags
      BY <1>0 DEF BriefInv, Briefs
    <3> QED BY <1>0, <2>1, <3>1, BriefWrites DEF Patch
  <2>2. CASE Delete
    BY <1>2, <2>2 DEF Delete
  <2> QED BY <1>1, <1>7, <2>1, <2>2
           DEF OperatorStep, CiChanges, EditDefinition, Release
<1>8. CASE RecoveryStep
  BY <1>1, <1>2, <1>8 DEF RecoveryStep, Crash, Restart, RecoveryDone,
                          RecoverLanded, RecoverPark, RecoverReland
<1>9. CASE UNCHANGED vars
  BY <1>1, <1>9 DEF vars
<1> QED BY <1>3, <1>5, <1>6, <1>7, <1>8, <1>9 DEF Next

-----------------------------------------------------------------------------
(* The store and the rest                                                  *)

\* A committed transition leaves a state and a row.
LEMMA CommitStore ==
    ASSUME StoreInv, NEW a \in Attempt, NEW tr \in Transitions, Commit(a, tr)
    PROVE  /\ state' \in [Attempt -> AttemptStates \cup {"none"}]
           /\ row' \in Rows
<1>1. tr.state \in AttemptStates /\ tr.eff \in Effects
  BY DEF Transitions
<1>2. state' \in [Attempt -> AttemptStates \cup {"none"}]
  BY <1>1 DEF Commit, StoreInv
<1>3. row' \in Rows
  <2>1. /\ row.hold \in {"none", "blocked"} /\ row.retry \in BOOLEAN
        /\ row.counter \in Nat
    BY DEF StoreInv, Rows
  <2>2. /\ tr.eff.hold \in {"none", "blocked"} /\ tr.eff.retry \in BOOLEAN
        /\ tr.eff.clear \in BOOLEAN
        /\ tr.eff.progress \in {"none", "increment", "reset"}
    BY <1>1 DEF Effects
  <2> DEFINE hold == IF tr.eff.hold # "none" THEN tr.eff.hold
                     ELSE IF tr.eff.clear THEN "none" ELSE row.hold
             retry == IF tr.eff.hold # "none" THEN tr.eff.retry
                      ELSE row.retry /\ ~tr.eff.clear
             counter == CASE tr.eff.progress = "increment" -> row.counter + 1
                          [] tr.eff.progress = "reset" -> 0
                          [] OTHER -> row.counter
  <2>3. hold \in {"none", "blocked"} /\ retry \in BOOLEAN /\ counter \in Nat
    <3>1. hold \in {"none", "blocked"} /\ counter \in Nat
      BY <2>1, <2>2
    <3>2. retry \in BOOLEAN
      BY <2>2, Zenon
    <3> QED BY <3>1, <3>2
  <2>4. row' = [hold |-> hold, retry |-> retry, counter |-> counter]
    BY DEF Commit, ApplyRow
  <2> HIDE DEF hold, retry, counter
  <2> QED BY <2>3, <2>4 DEF Rows
<1> QED BY <1>2, <1>3

\* Every step keeps the types of the store, the polls and the artifacts.
LEMMA StoreStep ==
    ASSUME IInv, [Next]_vars
    PROVE  StoreInv'
<1>0. StoreInv /\ HandlerInv /\ BriefInv
  BY DEF IInv
<1>1. CASE UNCHANGED <<row, state, order, polls, artifacts>>
  BY <1>0, <1>1 DEF StoreInv
<1>2. ASSUME NEW a \in Attempt, NEW tr \in Transitions, Commit(a, tr),
             UNCHANGED <<order, polls>>, artifacts' \subseteq Artifact
      PROVE  StoreInv'
  BY <1>0, <1>2, CommitStore DEF StoreInv
<1>3. artifacts \subseteq Artifact
  BY <1>0 DEF StoreInv
<1>4. ASSUME NEW w, LeaseBegin(w), UNCHANGED <<state, order, artifacts>>
      PROVE  StoreInv'
  <2>1. [pc |-> "stamp", fresh |-> brief.step = NoStep] \in Polls
    BY DEF Polls
  <2>2. polls' \in [Worker -> Polls]
    BY <1>0, <1>4, <2>1 DEF LeaseBegin, StoreInv
  <2>3. row' \in Rows
    BY <1>0, <1>4 DEF LeaseBegin, StoreInv, Rows
  <2> QED BY <1>0, <1>4, <2>2, <2>3 DEF StoreInv
<1>5. ASSUME NEW w \in Worker, PollStep(w)
      PROVE  StoreInv'
  <2>0. polls[w] \in Polls
    BY <1>0 DEF StoreInv
  <2>1. CASE PollPick(w)
    BY <1>4, <2>1 DEF PollPick
  <2>6. CASE PollHolds(w)
    <3>1. row' \in Rows
      BY <1>0, <2>6 DEF PollHolds, StoreInv, Rows
    <3> QED BY <1>0, <2>6, <3>1 DEF PollHolds, StoreInv
  <2>2. CASE Stamp(w)
    <3>1. [pc |-> "build"] \in Polls
      BY DEF Polls
    <3> QED BY <1>0, <2>2, <3>1 DEF Stamp, StoreInv
  <2>3. CASE BuildOrder(w)
    <3>1. brief.step \in Step \cup {NoStep} /\ First \in Step
      BY <1>0, WorkflowConstants DEF BriefInv, Briefs
    <3>2. \A s \in Step \cup {NoStep} : [pc |-> "fetch", step |-> s] \in Polls
      BY DEF Polls
    <3> QED BY <1>0, <2>3, <3>1, <3>2 DEF BuildOrder, StoreInv
  <2>4. CASE ReadArtifacts(w)
    <3>1. polls[w].step \in Step \cup {NoStep}
      BY <2>0, <2>4 DEF Polls, ReadArtifacts
    <3>2. \A got \in SUBSET Artifact :
            [pc |-> "create", step |-> polls[w].step, got |-> got] \in Polls
      BY <3>1 DEF Polls
    <3>3. PICK got \in SUBSET Artifact :
            polls' = [polls EXCEPT ![w] = [pc |-> "create",
                                           step |-> polls[w].step,
                                           got |-> got]]
      <4>1. {} \subseteq Artifact
            /\ Inputs[polls[w].step] \cap artifacts \subseteq Artifact
        BY <1>3
      <4> QED BY <2>4, <4>1 DEF ReadArtifacts
    <3> QED BY <1>0, <2>4, <3>2, <3>3 DEF ReadArtifacts, StoreInv
  <2>5. CASE CreateAttempt(w)
    <3>1. polls' \in [Worker -> Polls]
      BY <1>0, <2>5 DEF CreateAttempt, StoreInv, Polls, Idle
    <3>2. polls[w].step \in Step \cup {NoStep}
          /\ polls[w].got \in SUBSET Artifact
      BY <2>0, <2>5 DEF Polls, CreateAttempt
    <3>3. [worker |-> w, step |-> polls[w].step, got |-> polls[w].got]
            \in Orders
      BY <3>2 DEF Orders
    <3>4. /\ state' \in [Attempt -> AttemptStates \cup {"none"}]
          /\ order' \in [Attempt -> Orders \cup {NoOrder}]
          /\ row' = row
      BY <1>0, <2>5, <3>3
         DEF CreateAttempt, StoreInv, AttemptStates, LiveStates
    <3> QED BY <1>0, <2>5, <3>1, <3>4 DEF CreateAttempt, StoreInv
  <2> QED BY <1>5, <2>1, <2>2, <2>3, <2>4, <2>5, <2>6 DEF PollStep
<1>6. ASSUME NEW a \in Attempt, SubmitApply(a) \/ CompleteLand(a)
      PROVE  StoreInv'
  <2>1. handler[a].tr \in Transitions
    BY <1>0, <1>6, HandlerForms DEF HandlerInv, SubmitApply, CompleteLand
  <2> QED BY <1>1, <1>2, <1>3, <1>6, <2>1
           DEF SubmitApply, CompleteLand, Finish
<1>7. ASSUME NEW a \in Attempt, WriteArtifact(a)
      PROVE  StoreInv'
  <2>1. /\ handler[a].eff.artifact
        /\ Allowed(handler[a].eff, handler[a].sp)
    BY <1>0, <1>7
       DEF HandlerInv, WriteArtifact, GoodHandlers, GoodHandler, EffectStages
  <2>2. Output[handler[a].sp.step] \in Artifact
    BY <2>1 DEF Allowed, Artifact
  <2> QED BY <1>0, <1>7, <2>2 DEF WriteArtifact, StoreInv
<1>8. ASSUME NEW a \in Attempt, SubmitStep(a)
      PROVE  StoreInv'
  <2>1. CASE EnqueueLand(a)
    BY <1>0, <2>1 DEF EnqueueLand, OnLandEnqueued, StoreInv, AttemptStates,
                      LiveStates
  <2>2. CASE Chain(a)
    BY <1>4, <2>2 DEF Chain
  <2>3. CASE SetFlags(a) \/ ChainMiss(a)
    BY <1>1, <2>3 DEF SetFlags, ChainMiss
  <2>4. CASE MoveCursor(a) \/ DropBrief(a)
    BY <1>0, <2>4 DEF MoveCursor, DropBrief, DeleteTask, StoreInv
  <2>5. CASE \E created \in BOOLEAN : Harvest(a, created)
    BY <1>0, <2>5 DEF Harvest, DeleteTask, StoreInv
  <2>6. CASE \/ \E kind \in {"no_changes", "adopted"} : AdoptCheck(a, kind)
             \/ \E land \in LandReplies : Land(a, land)
    BY <1>1, <2>6 DEF AdoptCheck, Land
  <2> QED BY <1>6, <1>7, <1>8, <2>1, <2>2, <2>3, <2>4, <2>5, <2>6
           DEF SubmitStep
<1>9. ASSUME NEW a \in Attempt,
             ExpireDeadline(a) \/ \E s \in Submits : SubmitRead(a, s)
      PROVE  StoreInv'
  <2>1. OnDeadline \in Transitions
    BY FixedTransitionTypes DEF Verdicts
  <2> QED BY <1>1, <1>2, <1>3, <1>9, <2>1 DEF ExpireDeadline, SubmitRead
<1>10. CASE OperatorStep
  <2>1. CASE Release
    <3>1. row' \in Rows
      BY <1>0, <2>1 DEF Release, StoreInv, Rows
    <3> QED BY <1>0, <2>1, <3>1 DEF Release, StoreInv
  <2>2. CASE Delete
    <3>1. row' \in Rows
      BY <2>2 DEF Delete, Rows
    <3> QED BY <1>0, <2>2, <3>1 DEF Delete, DeleteTask, StoreInv
  <2> QED BY <1>1, <1>10, <2>1, <2>2
           DEF OperatorStep, CiChanges, EditDefinition, Patch
<1>11. CASE RecoveryStep
  <2>1. CASE Crash
    BY <1>0, <2>1 DEF Crash, StoreInv, Polls, Idle
  <2>2. CASE Restart \/ RecoveryDone
    BY <1>1, <2>2 DEF Restart, RecoveryDone
  <2>3. OnLandInterrupted \in Transitions /\ OnLandRecovered \in Transitions
    BY FixedTransitionTypes DEF LandVerdicts, Verdicts
  <2>4. ASSUME NEW a \in Attempt, RecoverLanded(a) \/ RecoverPark(a)
        PROVE  StoreInv'
    BY <1>2, <1>3, <2>3, <2>4 DEF RecoverLanded, RecoverPark, DeleteTask
  <2>5. ASSUME NEW a \in Attempt, NEW land \in LandReplies,
               RecoverReland(a, land)
        PROVE  StoreInv'
    <3>1. RecoveryOutcome \in Outcomes /\ RecoveryPolicy \in Policies
      BY <1>0, WorkflowConstants
         DEF RecoveryOutcome, RecoveryPolicy, Outcomes, RunStatuses, Policies,
             StoreInv, Rows
    <3>2. OnLandResult(RecoveryOutcome, land, RecoveryPolicy) \in Transitions
      BY <3>1, OnLandResultType, WorkflowConstants DEF LandVerdicts, Verdicts
    <3> QED BY <1>2, <1>3, <2>5, <3>2 DEF RecoverReland, DeleteTask
  <2> QED BY <1>11, <2>1, <2>2, <2>4, <2>5 DEF RecoveryStep
<1>12. CASE UNCHANGED vars
  BY <1>1, <1>12 DEF vars
<1> QED BY <1>5, <1>8, <1>9, <1>10, <1>11, <1>12 DEF Next

\* Every step keeps the remaining variables in their types.
LEMMA WorldStep ==
    ASSUME IInv, [Next]_vars
    PROVE  WorldInv'
<1>0. WorldInv
  BY DEF IInv
<1>1. CASE UNCHANGED <<children, landed, loaded, red, mgr, spent>>
  BY <1>0, <1>1 DEF WorldInv
<1>2. CASE \E w \in Worker : PollStep(w)
  BY <1>1, <1>2 DEF PollStep, PollPick, PollHolds, Stamp, BuildOrder,
                    ReadArtifacts, CreateAttempt
<1>3. ASSUME NEW a \in Attempt, SubmitStep(a)
      PROVE  WorldInv'
  <2>1. CASE \E created \in BOOLEAN : Harvest(a, created)
    BY <1>0, <2>1 DEF Harvest, WorldInv
  <2>2. CASE \E land \in LandReplies : Land(a, land)
    BY <1>0, <2>2 DEF Land, WorldInv
  <2> QED BY <1>1, <1>3, <2>1, <2>2
           DEF SubmitStep, SubmitApply, EnqueueLand, CompleteLand, SetFlags,
               WriteArtifact, MoveCursor, DropBrief, Chain, ChainMiss,
               AdoptCheck
<1>4. ASSUME NEW a \in Attempt,
             ExpireDeadline(a) \/ \E s \in Submits : SubmitRead(a, s)
      PROVE  WorldInv'
  BY <1>0, <1>4 DEF ExpireDeadline, SubmitRead, Spend, WorldInv
<1>5. CASE OperatorStep
  <2>1. spent' \in Nat /\ UNCHANGED <<children, landed, mgr>>
    BY <1>0, <1>5 DEF OperatorStep, CiChanges, EditDefinition, Release, Delete,
                      Patch, Spend, WorldInv
  <2>2. loaded' \in {loaded, ~loaded} /\ red' \in {red, ~red}
    BY <1>5 DEF OperatorStep, CiChanges, EditDefinition, Release, Delete,
                Patch
  <2>3. loaded' \in BOOLEAN /\ red' \in BOOLEAN
    BY <1>0, <2>2 DEF WorldInv
  <2> QED BY <1>0, <2>1, <2>3 DEF WorldInv
<1>6. CASE RecoveryStep
  BY <1>0, <1>6 DEF RecoveryStep, Crash, Restart, RecoveryDone, Spend,
                    RecoverLanded, RecoverPark, RecoverReland, WorldInv
<1>7. CASE UNCHANGED vars
  BY <1>1, <1>7 DEF vars
<1> QED BY <1>2, <1>3, <1>4, <1>5, <1>6, <1>7 DEF Next

-----------------------------------------------------------------------------
(* The artifacts                                                           *)

\* A handler reaches the cursor past its document, or without one.
LEMMA CursorAfterArtifact ==
    ASSUME NEW eff \in Effects
    PROVE  /\ AfterCommit(eff) = "cursor" => ~eff.artifact
           /\ AfterFlags(eff) = "cursor" => ~eff.artifact
           /\ AfterCursor(eff) # "cursor" /\ AfterDrop(eff) # "cursor"
  BY DEF AfterCommit, AfterFlags, AfterArtifact, AfterCursor, AfterDrop

\* Every step keeps the documents of the steps behind the cursor.
LEMMA ArtifactStep ==
    ASSUME IInv, [Next]_vars
    PROVE  ArtifactInv'
<1> SUFFICES ASSUME ~Evergreen
             PROVE  ArtifactBeforeCursor' /\ WrittenFirst'
  BY DEF ArtifactInv
<1>0. ArtifactBeforeCursor /\ WrittenFirst /\ HandlerInv /\ BriefInv
  BY DEF IInv, ArtifactInv
<1>1. ASSUME brief'.present => brief.present,
             brief'.step \in {brief.step, First}, artifacts \subseteq artifacts'
      PROVE  ArtifactBeforeCursor'
  BY <1>0, <1>1 DEF ArtifactBeforeCursor
<1>2. ASSUME brief'.present => brief.present, artifacts \subseteq artifacts',
             NEW a \in Attempt, NEW h, handler' = [handler EXCEPT ![a] = h],
             h.pc = "cursor" /\ h.eff.artifact =>
               Output[h.sp.step] \in artifacts'
      PROVE  WrittenFirst'
  <2>1. \A b \in Attempt : handler'[b] = IF b = a THEN h ELSE handler[b]
    BY <1>0, <1>2 DEF HandlerInv
  <2> QED BY <1>0, <1>2, <2>1 DEF WrittenFirst
<1>3. ASSUME brief' = NoBrief
      PROVE  ArtifactBeforeCursor' /\ WrittenFirst'
  BY <1>3 DEF NoBrief, ArtifactBeforeCursor, WrittenFirst
<1>4. ASSUME brief'.present => brief.present,
             brief'.step \in {brief.step, First},
             artifacts \subseteq artifacts', UNCHANGED handler
      PROVE  ArtifactBeforeCursor' /\ WrittenFirst'
  BY <1>0, <1>1, <1>4 DEF WrittenFirst
<1>5. ASSUME NEW a \in Attempt, NEW h, handler' = [handler EXCEPT ![a] = h],
             h.pc = "cursor" => ~h.eff.artifact, UNCHANGED <<brief, artifacts>>
      PROVE  ArtifactBeforeCursor' /\ WrittenFirst'
  BY <1>1, <1>2, <1>5
<1>6. ASSUME NEW stage, NEW eff, NEW sp,
             stage = "cursor" => ~eff.artifact
      PROVE  Resume(stage, eff, sp).pc = "cursor" =>
               ~Resume(stage, eff, sp).eff.artifact
  BY <1>6 DEF Resume, Idle
<1>7. Idle.pc # "cursor"
  BY DEF Idle
<1>8. ASSUME NEW w \in Worker, PollStep(w)
      PROVE  ArtifactBeforeCursor' /\ WrittenFirst'
  <2>1. CASE Stamp(w)
    <3>1. /\ brief'.present = brief.present
          /\ brief'.step \in {brief.step, First}
      BY <1>0, <2>1 DEF Stamp, BriefInv, Briefs
    <3> QED BY <1>4, <2>1, <3>1 DEF Stamp
  <2> QED BY <1>4, <1>8, <2>1 DEF PollStep, PollPick, PollHolds, BuildOrder,
                                  ReadArtifacts, CreateAttempt
<1>9. ASSUME NEW a \in Attempt, SubmitApply(a) \/ CompleteLand(a)
      PROVE  ArtifactBeforeCursor' /\ WrittenFirst'
  <2> DEFINE eff == handler[a].tr.eff
             h == Resume(AfterCommit(eff), eff, handler[a].sp)
  <2>1. eff \in Effects
    BY <1>0, <1>9, HandlerForms
       DEF HandlerInv, SubmitApply, CompleteLand, Transitions
  <2>2. h.pc = "cursor" => ~h.eff.artifact
    BY <1>6, <2>1, CursorAfterArtifact
  <2>3. /\ \/ handler' = [handler EXCEPT ![a] = h]
           \/ handler' = [handler EXCEPT ![a] = Idle]
        /\ UNCHANGED <<brief, artifacts>>
    BY <1>9 DEF SubmitApply, CompleteLand, Finish
  <2> HIDE DEF h
  <2> QED BY <1>5, <1>7, <2>2, <2>3
<1>10. ASSUME NEW a \in Attempt, SetFlags(a)
       PROVE  ArtifactBeforeCursor' /\ WrittenFirst'
  <2> DEFINE eff == handler[a].eff
             h == Resume(AfterFlags(eff), eff, handler[a].sp)
  <2>1. eff \in Effects
    BY <1>0, <1>10, HandlerForms DEF HandlerInv, SetFlags, EffectStages
  <2>2. h.pc = "cursor" => ~h.eff.artifact
    BY <1>6, <2>1, CursorAfterArtifact
  <2>3. /\ \/ handler' = [handler EXCEPT ![a] = h]
           \/ handler' = [handler EXCEPT ![a] = Idle]
        /\ brief'.present = brief.present /\ brief'.step = brief.step
        /\ artifacts' = artifacts
    BY <1>0, <1>10 DEF SetFlags, BriefInv, Briefs
  <2> HIDE DEF h
  <2> QED BY <1>1, <1>2, <1>7, <2>2, <2>3
<1>11. ASSUME NEW a \in Attempt, WriteArtifact(a)
       PROVE  ArtifactBeforeCursor' /\ WrittenFirst'
  <2> DEFINE h == Resume(AfterArtifact(handler[a].eff), handler[a].eff,
                         handler[a].sp)
  <2>1. /\ handler' = [handler EXCEPT ![a] = h] /\ brief' = brief
        /\ artifacts' = artifacts \cup {Output[handler[a].sp.step]}
    BY <1>11 DEF WriteArtifact
  <2>2. h.pc = "cursor" => h.sp = handler[a].sp
    BY DEF Resume, Idle
  <2> HIDE DEF h
  <2> QED BY <1>1, <1>2, <2>1, <2>2
<1>12. ASSUME NEW a \in Attempt, MoveCursor(a)
       PROVE  ArtifactBeforeCursor' /\ WrittenFirst'
  <2> DEFINE eff == handler[a].eff
             sp == handler[a].sp
             h == Resume(AfterCursor(eff), eff, sp)
  <2>1. /\ handler[a] \in GoodHandlers /\ handler[a].pc = "cursor"
        /\ eff \in Effects /\ Allowed(eff, sp)
    BY <1>0, <1>12, HandlerForms DEF HandlerInv, MoveCursor, EffectStages
  <2>2. eff.cursor = "advance"
    BY <2>1 DEF GoodHandlers, GoodHandler, Effects, Allowed
  <2>3. h.pc = "cursor" => ~h.eff.artifact
    BY <1>6, <2>1, CursorAfterArtifact
  <2>4. CASE ~brief.present
    BY <1>5, <1>7, <1>12, <2>4 DEF MoveCursor
  <2>5. CASE brief.present
    <3>1. /\ brief' = [brief EXCEPT !.step = sp.route,
                                    !.visits = AdvanceVisits(sp)]
          /\ artifacts' = artifacts /\ handler' = [handler EXCEPT ![a] = h]
      BY <1>12, <2>2, <2>5 DEF MoveCursor
    <3>2. brief'.step = sp.route /\ brief'.present
      BY <1>0, <2>5, <3>1 DEF BriefInv, Briefs
    <3>3. /\ sp.step \in Step /\ sp.route \in Destinations(sp.step)
          /\ Kind[sp.step] = "doc" => eff.artifact
      BY <2>1, <2>2 DEF Allowed, Moves
    <3>4. Kind[sp.step] = "doc" => Output[sp.step] \in artifacts
      BY <1>0, <2>1, <2>5, <3>3 DEF WrittenFirst
    <3>5. ArtifactBeforeCursor'
      BY <3>1, <3>2, <3>3, <3>4 DEF ArtifactBeforeCursor
    <3> HIDE DEF h
    <3>6. WrittenFirst'
      BY <1>2, <2>3, <2>5, <3>1
    <3> QED BY <3>5, <3>6
  <2> QED BY <2>4, <2>5
<1>13. ASSUME NEW a \in Attempt, SubmitStep(a)
       PROVE  ArtifactBeforeCursor' /\ WrittenFirst'
  <2>1. CASE DropBrief(a)
    <3> DEFINE h == Resume(AfterDrop(handler[a].eff), handler[a].eff,
                           handler[a].sp)
    <3>1. handler[a].eff \in Effects
      BY <1>0, <2>1, HandlerForms DEF HandlerInv, DropBrief, EffectStages
    <3>2. h.pc = "cursor" => ~h.eff.artifact
      BY <1>6, <3>1, CursorAfterArtifact
    <3>3. handler' = [handler EXCEPT ![a] = h]
          /\ (DeleteTask \/ UNCHANGED <<brief, artifacts>>)
      BY <2>1 DEF DropBrief
    <3> HIDE DEF h
    <3> QED BY <1>3, <1>5, <3>2, <3>3 DEF DeleteTask
  <2>2. ASSUME NEW created \in BOOLEAN, Harvest(a, created)
        PROVE  ArtifactBeforeCursor' /\ WrittenFirst'
    <3> DEFINE h == [pc |-> "apply", sp |-> handler[a].sp,
                     tr |-> OnWorkflowSplit(created)]
    <3>1. handler' = [handler EXCEPT ![a] = h]
          /\ (DeleteTask \/ UNCHANGED <<brief, artifacts>>)
      BY <2>2 DEF Harvest
    <3> QED BY <1>3, <1>5, <3>1 DEF DeleteTask
  <2>3. CASE EnqueueLand(a)
    <3>1. [handler[a] EXCEPT !.pc = "landing"].pc # "cursor"
      <4>1. handler[a] = [pc |-> handler[a].pc, out |-> handler[a].out,
                          pol |-> handler[a].pol, sp |-> handler[a].sp]
        BY <1>0, <2>3, HandlerForms DEF HandlerInv, EnqueueLand
      <4> QED BY <4>1
    <3> QED BY <1>5, <1>7, <2>3, <3>1 DEF EnqueueLand
  <2>4. CASE Chain(a) \/ ChainMiss(a)
    BY <1>5, <1>7, <2>4 DEF Chain, ChainMiss
  <2>5. ASSUME NEW kind \in {"no_changes", "adopted"}, AdoptCheck(a, kind)
        PROVE  ArtifactBeforeCursor' /\ WrittenFirst'
    BY <1>5, <2>5 DEF AdoptCheck
  <2>6. ASSUME NEW land \in LandReplies, Land(a, land)
        PROVE  ArtifactBeforeCursor' /\ WrittenFirst'
    BY <1>5, <2>6 DEF Land
  <2> QED BY <1>9, <1>10, <1>11, <1>12, <1>13, <2>1, <2>2, <2>3, <2>4, <2>5,
             <2>6 DEF SubmitStep
<1>14. ASSUME NEW a \in Attempt, NEW s \in Submits, SubmitRead(a, s)
       PROVE  ArtifactBeforeCursor' /\ WrittenFirst'
  <2> DEFINE sp == StepPolicy(order[a].step, s.signal)
             phase == WorkflowPhase(s.out, sp)
             tr == OnWorkflowStep(s.out, s.doc, SubmitPolicy, sp)
  <2>1. phase \in {"apply", "harvest", "enqueue", "adopt"}
    BY DEF WorkflowPhase, OnSubmitPhase
  <2>2. handler' = [handler EXCEPT ![a] =
           CASE phase = "apply" -> [pc |-> "apply", sp |-> sp, tr |-> tr]
             [] phase = "harvest" -> [pc |-> "harvest", sp |-> sp]
             [] OTHER -> [pc |-> phase, out |-> s.out,
                          pol |-> SubmitPolicy, sp |-> sp]]
        /\ UNCHANGED <<brief, artifacts>>
    BY <1>14 DEF SubmitRead
  <2> HIDE DEF phase, sp, tr
  <2>3. CASE phase = "apply"
    <3> DEFINE h == [pc |-> "apply", sp |-> sp, tr |-> tr]
    <3>1. h.pc # "cursor"
      OBVIOUS
    <3>2. handler' = [handler EXCEPT ![a] = h]
      BY <2>2, <2>3
    <3> HIDE DEF h
    <3> QED BY <1>5, <2>2, <3>1, <3>2
  <2>4. CASE phase = "harvest"
    <3> DEFINE h == [pc |-> "harvest", sp |-> sp]
    <3>1. h.pc # "cursor"
      OBVIOUS
    <3>2. handler' = [handler EXCEPT ![a] = h]
      BY <2>2, <2>4
    <3> HIDE DEF h
    <3> QED BY <1>5, <2>2, <3>1, <3>2
  <2>5. CASE phase \in {"enqueue", "adopt"}
    <3> DEFINE h == [pc |-> phase, out |-> s.out, pol |-> SubmitPolicy,
                     sp |-> sp]
    <3>1. h.pc # "cursor"
      BY <2>5
    <3>2. handler' = [handler EXCEPT ![a] = h]
      BY <2>2, <2>5
    <3> HIDE DEF h
    <3> QED BY <1>5, <2>2, <3>1, <3>2
  <2> QED BY <2>1, <2>3, <2>4, <2>5
<1>15. CASE OperatorStep \/ \E a \in Attempt : ExpireDeadline(a)
  <2>1. ASSUME NEW flag, Patch(flag)
        PROVE  ArtifactBeforeCursor' /\ WrittenFirst'
    <3>1. brief'.present = brief.present /\ brief'.step = brief.step
      BY <1>0, <2>1 DEF Patch, BriefInv, Briefs
    <3> QED BY <1>4, <2>1, <3>1 DEF Patch
  <2>2. CASE Delete
    BY <1>3, <2>2 DEF Delete, DeleteTask
  <2> QED BY <1>4, <1>15, <2>1, <2>2 DEF OperatorStep, CiChanges,
                                         EditDefinition, Release,
                                         ExpireDeadline
<1>16. CASE RecoveryStep
  <2>1. CASE Crash
    <3>1. \A a \in Attempt : handler'[a].pc # "cursor"
      BY <2>1 DEF Crash, Idle
    <3> QED BY <1>1, <2>1, <3>1 DEF Crash, WrittenFirst
  <2> QED BY <1>3, <1>4, <1>16, <2>1
           DEF RecoveryStep, Restart, RecoveryDone, RecoverLanded,
               RecoverPark, RecoverReland, DeleteTask
<1>17. CASE UNCHANGED vars
  BY <1>4, <1>17 DEF vars
<1> QED BY <1>8, <1>13, <1>14, <1>15, <1>16, <1>17 DEF Next

-----------------------------------------------------------------------------
(* Theorems                                                                *)

\* The invariant holds of the initial states.
LEMMA Initially == Init => IInv
<1> SUFFICES ASSUME Init PROVE IInv
  OBVIOUS
<1>1. BriefInv
  BY DEF Init, NoBrief, NoVisits, BriefInv, Briefs, WithinBudget,
         CursorCounted
<1>2. HandlerInv
  BY DEF Init, Idle, HandlerInv, GoodHandlers, GoodHandler, Handlers,
         EffectStages
<1>3. StoreInv
  BY DEF Init, Idle, StoreInv, Rows, Polls
<1>4. WorldInv
  BY DEF Init, WorldInv
<1>5. ArtifactInv
  BY DEF Init, NoBrief, Idle, ArtifactInv, ArtifactBeforeCursor, WrittenFirst
<1> QED BY <1>1, <1>2, <1>3, <1>4, <1>5 DEF IInv

\* The strengthened invariant: what each suspended handler has in mind stays
\* within the budgets although the brief moves on under it.
THEOREM Invariance == Spec => []IInv
<1>1. IInv /\ [Next]_vars => IInv'
  BY HandlerStep, BriefStep, StoreStep, WorldStep, ArtifactStep DEF IInv
<1> QED BY <1>1, Initially, PTL DEF Spec

\* Every variable of the workflow engine keeps its type.
THEOREM TypeCorrect == Spec => []TypeOK
<1>1. IInv => TypeOK
  BY DEF IInv, BriefInv, HandlerInv, GoodHandlers, StoreInv, WorldInv, TypeOK
<1> QED BY <1>1, Invariance, PTL

\* No definition, however cyclic, enters a step beyond its max_visits.
THEOREM WithinBudgetHolds == Spec => []WithinBudget
<1>1. IInv => WithinBudget
  BY DEF IInv, BriefInv
<1> QED BY <1>1, Invariance, PTL

\* The step under the cursor has been counted.
THEOREM CursorCountedHolds == Spec => []CursorCounted
<1>1. IInv => CursorCounted
  BY DEF IInv, BriefInv
<1> QED BY <1>1, Invariance, PTL

\* A task that is not evergreen never has its cursor past a doc step whose
\* document is not on disk, whatever crashes between the two writes.
THEOREM ArtifactBeforeCursorHolds ==
    ASSUME ~Evergreen
    PROVE  Spec => []ArtifactBeforeCursor
<1>1. IInv => ArtifactBeforeCursor
  BY DEF IInv, ArtifactInv
<1> QED BY <1>1, Invariance, PTL
-----------------------------------------------------------------------------
(* The inputs of an order                                                  *)

\* avail[s]: artifacts that every path of the definition to s has written.  The parser asks
\* only that an input is the output of a step that comes earlier in the file.
Provides(avail) ==
    /\ avail[First] = {}
    /\ \A s \in Step :
         /\ Inputs[s] \subseteq avail[s]
         /\ \A d \in Destinations(s) \ {End} :
              avail[d] \subseteq avail[s] \cup (IF Kind[s] = "doc" THEN {Output[s]} ELSE {})

\* Whoever has a step in mind, its artifacts are on disk as long as the task exists.
OnDisk(avail, s) == s # NoStep => avail[s] \subseteq artifacts

FedPoll(avail, p) ==
    p.pc \in {"fetch", "create"} =>
      /\ OnDisk(avail, p.step)
      /\ p.pc = "create" /\ p.step # NoStep => Inputs[p.step] \subseteq p.got

FedOrder(avail, a) ==
    state[a] # "none" =>
      /\ OnDisk(avail, order[a].step)
      /\ order[a].step # NoStep => Inputs[order[a].step] \subseteq order[a].got

Fed(avail) ==
    brief.present =>
      /\ OnDisk(avail, brief.step)
      /\ \A w \in Worker : FedPoll(avail, polls[w])
      /\ \A a \in Attempt : FedOrder(avail, a)
      /\ \A a \in Attempt : handler[a].pc # "idle" => OnDisk(avail, handler[a].sp.step)

\* The cursor of a task moves by the handlers of its attempts, or to the first step.
CursorMoves ==
    brief'.present =>
      /\ brief.present /\ artifacts \subseteq artifacts'
      /\ \/ brief'.step \in {brief.step, First}
         \/ \E a \in Attempt : /\ handler[a].pc = "cursor" /\ brief'.step = handler[a].sp.route
                               /\ handler[a].eff.cursor = "advance"

\* A brief that is deleted stays deleted, and no document is removed before.
LEMMA CursorStep ==
    ASSUME IInv, Next, ~Evergreen
    PROVE  CursorMoves
<1>0. brief \in Briefs /\ handler \in [Attempt -> GoodHandlers]
  BY DEF IInv, BriefInv, HandlerInv
<1>1. ASSUME DeleteTask PROVE CursorMoves
  BY <1>1 DEF DeleteTask, NoBrief, CursorMoves
<1>2. ASSUME UNCHANGED <<brief, artifacts>> PROVE CursorMoves
  BY <1>2 DEF CursorMoves
<1>3. ASSUME NEW w \in Worker, PollStep(w) PROVE CursorMoves
  <2>1. CASE Stamp(w)
    BY <1>0, <2>1 DEF Stamp, Briefs, CursorMoves
  <2> QED BY <1>2, <1>3, <2>1 DEF PollStep, PollPick, PollHolds, BuildOrder, ReadArtifacts,
          CreateAttempt
<1>4. ASSUME NEW a \in Attempt, SubmitStep(a) PROVE CursorMoves
  <2>1. CASE SetFlags(a)
    BY <1>0, <2>1 DEF SetFlags, Briefs, CursorMoves
  <2>2. CASE WriteArtifact(a)
    BY <2>2 DEF WriteArtifact, CursorMoves
  <2>3. CASE MoveCursor(a)
    <3>1. /\ handler[a] \in GoodHandlers /\ handler[a].pc = "cursor"
          /\ handler[a].eff \in Effects /\ Allowed(handler[a].eff, handler[a].sp)
      BY <1>0, <2>3, HandlerForms DEF MoveCursor, EffectStages
    <3>2. handler[a].eff.cursor = "advance"
      BY <3>1 DEF GoodHandlers, GoodHandler, Effects, Allowed
    <3>3. CASE ~brief.present
      BY <1>2, <2>3, <3>3 DEF MoveCursor
    <3>4. CASE brief.present
      BY <1>0, <2>3, <3>1, <3>2, <3>4 DEF MoveCursor, Briefs, CursorMoves
    <3> QED BY <3>3, <3>4
  <2>4. CASE DropBrief(a)
    BY <1>1, <1>2, <2>4 DEF DropBrief
  <2>5. ASSUME NEW created \in BOOLEAN, Harvest(a, created) PROVE CursorMoves
    BY <1>1, <1>2, <2>5 DEF Harvest
  <2> QED BY <1>2, <1>4, <2>1, <2>2, <2>3, <2>4, <2>5 DEF SubmitStep, SubmitApply, EnqueueLand,
          CompleteLand, Chain, ChainMiss, AdoptCheck, Land
<1>5. ASSUME NEW a \in Attempt, ExpireDeadline(a) \/ \E s \in Submits : SubmitRead(a, s)
      PROVE  CursorMoves
  BY <1>2, <1>5 DEF ExpireDeadline, SubmitRead
<1>6. CASE OperatorStep
  <2>1. ASSUME NEW flag, Patch(flag) PROVE CursorMoves
    BY <1>0, <2>1 DEF Patch, Briefs, CursorMoves
  <2> QED BY <1>1, <1>2, <1>6, <2>1 DEF OperatorStep, CiChanges, EditDefinition, Release, Delete
<1>7. CASE RecoveryStep
  <2>1. ASSUME NEW a \in Attempt,
               RecoverLanded(a) \/ \E land \in LandReplies : RecoverReland(a, land)
        PROVE  CursorMoves
    BY <1>1, <1>2, <2>1 DEF RecoverLanded, RecoverReland
  <2> QED BY <1>2, <1>7, <2>1 DEF RecoveryStep, Crash, Restart, RecoveryDone, RecoverPark
<1> QED BY <1>3, <1>4, <1>5, <1>6, <1>7 DEF Next

\* A handler keeps the step policy that its submit read.
PoliciesMove ==
    \A a \in Attempt :
      \/ handler'[a].pc = "idle"
      \/ handler[a].pc # "idle" /\ handler'[a].sp = handler[a].sp
      \/ state[a] # "none" /\ handler'[a].sp.step \in {order[a].step, NoStep}

\* Every continuation takes it along.
LEMMA PoliciesStep ==
    ASSUME IInv, Next
    PROVE  PoliciesMove
<1>0. handler \in [Attempt -> GoodHandlers]
  BY DEF IInv, HandlerInv
<1>1. ASSUME NEW a \in Attempt, NEW h, handler' = [handler EXCEPT ![a] = h],
             \/ h.pc = "idle"
             \/ handler[a].pc # "idle" /\ h.sp = handler[a].sp
             \/ state[a] # "none" /\ h.sp.step \in {order[a].step, NoStep}
      PROVE  PoliciesMove
  <2>1. handler'[a] = h /\ \A b \in Attempt \ {a} : handler'[b] = handler[b]
    BY <1>0, <1>1
  <2> QED BY <1>1, <2>1 DEF PoliciesMove
<1>2. ASSUME UNCHANGED handler PROVE PoliciesMove
  BY <1>2 DEF PoliciesMove
<1>3. ASSUME NEW stage, NEW eff, NEW sp
      PROVE  Resume(stage, eff, sp).pc = "idle" \/ Resume(stage, eff, sp).sp = sp
  BY DEF Resume, Idle
<1>4. Idle.pc = "idle"
  BY DEF Idle
<1>5. ASSUME NEW a \in Attempt, SubmitStep(a) PROVE PoliciesMove
  <2>1. CASE SubmitApply(a) \/ CompleteLand(a)
    <3>1. handler[a].pc # "idle"
      BY <2>1 DEF SubmitApply, CompleteLand
    <3>2. \E stage, eff : \/ handler' = [handler EXCEPT ![a] = Resume(stage, eff, handler[a].sp)]
                          \/ handler' = [handler EXCEPT ![a] = Idle]
      BY <2>1 DEF SubmitApply, CompleteLand, Finish
    <3> QED BY <1>1, <1>3, <1>4, <3>1, <3>2
  <2>2. CASE SetFlags(a) \/ WriteArtifact(a) \/ MoveCursor(a) \/ DropBrief(a)
    <3>1. handler[a].pc # "idle"
      BY <2>2 DEF SetFlags, WriteArtifact, MoveCursor, DropBrief
    <3>2. \E stage, eff : \/ handler' = [handler EXCEPT ![a] = Resume(stage, eff, handler[a].sp)]
                          \/ handler' = [handler EXCEPT ![a] = Idle]
      BY <2>2 DEF SetFlags, WriteArtifact, MoveCursor, DropBrief
    <3> QED BY <1>1, <1>3, <1>4, <3>1, <3>2
  <2>3. CASE Chain(a) \/ ChainMiss(a)
    BY <1>1, <1>4, <2>3 DEF Chain, ChainMiss
  <2>4. CASE EnqueueLand(a)
    <3>1. handler[a] = [pc |-> handler[a].pc, out |-> handler[a].out,
                        pol |-> handler[a].pol, sp |-> handler[a].sp]
      BY <1>0, <2>4, HandlerForms DEF EnqueueLand
    <3>2. [handler[a] EXCEPT !.pc = "landing"].sp = handler[a].sp
      BY <3>1
    <3>3. handler[a].pc # "idle"
      BY <2>4 DEF EnqueueLand
    <3> QED BY <1>1, <1>4, <2>4, <3>2, <3>3 DEF EnqueueLand
  <2>5. ASSUME NEW created \in BOOLEAN, Harvest(a, created) PROVE PoliciesMove
    BY <1>1, <2>5 DEF Harvest
  <2>6. ASSUME NEW kind \in {"no_changes", "adopted"}, AdoptCheck(a, kind) PROVE PoliciesMove
    BY <1>1, <2>6 DEF AdoptCheck
  <2>7. ASSUME NEW land \in LandReplies, Land(a, land) PROVE PoliciesMove
    BY <1>1, <2>7 DEF Land
  <2> QED BY <1>5, <2>1, <2>2, <2>3, <2>4, <2>5, <2>6, <2>7 DEF SubmitStep
<1>6. ASSUME NEW a \in Attempt, NEW s \in Submits, SubmitRead(a, s) PROVE PoliciesMove
  <2> DEFINE sp == StepPolicy(order[a].step, s.signal)
             phase == WorkflowPhase(s.out, sp)
             tr == OnWorkflowStep(s.out, s.doc, SubmitPolicy, sp)
             h == CASE phase = "apply" -> [pc |-> "apply", sp |-> sp, tr |-> tr]
                    [] phase = "harvest" -> [pc |-> "harvest", sp |-> sp]
                    [] OTHER -> [pc |-> phase, out |-> s.out, pol |-> SubmitPolicy, sp |-> sp]
  <2>1. handler' = [handler EXCEPT ![a] = h] /\ state[a] # "none"
    BY <1>6 DEF SubmitRead
  <2>2. sp.step \in {order[a].step, NoStep}
    BY DEF StepPolicy, NoPolicy
  <2>3. h.sp = sp
    <3> HIDE DEF sp, phase, tr
    <3> QED OBVIOUS
  <2> HIDE DEF h, sp
  <2> QED BY <1>1, <2>1, <2>2, <2>3
<1>7. ASSUME NEW w \in Worker, PollStep(w) PROVE PoliciesMove
  BY <1>2, <1>7 DEF PollStep, PollPick, PollHolds, Stamp, BuildOrder, ReadArtifacts, CreateAttempt
<1>8. CASE OperatorStep \/ \E a \in Attempt : ExpireDeadline(a)
  BY <1>2, <1>8 DEF OperatorStep, ExpireDeadline, CiChanges, EditDefinition, Release, Delete, Patch
<1>9. CASE RecoveryStep
  <2>1. CASE Crash
    BY <1>4, <2>1 DEF Crash, PoliciesMove
  <2> QED BY <1>2, <1>9, <2>1 DEF RecoveryStep, Restart, RecoveryDone, RecoverLanded, RecoverPark,
          RecoverReland
<1> QED BY <1>5, <1>6, <1>7, <1>8, <1>9 DEF Next

\* A poll reads the cursor, then the artifacts.
PollsMove ==
    \A w \in Worker : \/ polls'[w] = polls[w]
                      \/ polls'[w].pc \notin {"fetch", "create"}
                      \/ BuildOrder(w) \/ ReadArtifacts(w)

\* Nobody else builds an order.
LEMMA PollsStep ==
    ASSUME IInv, Next
    PROVE  PollsMove
<1>0. polls = [w \in Worker |-> polls[w]] /\ Idle.pc = "idle"
  BY DEF IInv, StoreInv, Idle
<1>1. ASSUME UNCHANGED polls PROVE PollsMove
  BY <1>1 DEF PollsMove
<1>2. ASSUME NEW w, NEW p, polls' = [polls EXCEPT ![w] = p], p.pc \notin {"fetch", "create"}
      PROVE  PollsMove
  BY <1>0, <1>2 DEF PollsMove
<1>8. ASSUME NEW w, LeaseBegin(w) PROVE PollsMove
  <2> DEFINE b == brief.step = NoStep
             p == [pc |-> "stamp", fresh |-> b]
  <2>1. polls' = [polls EXCEPT ![w] = p]
    BY <1>8, Zenon DEF LeaseBegin
  <2> HIDE DEF b
  <2>2. p.pc \notin {"fetch", "create"}
    OBVIOUS
  <2> HIDE DEF p
  <2> QED BY <1>2, <2>1, <2>2
<1>3. ASSUME NEW w \in Worker, PollStep(w) PROVE PollsMove
  <2>1. CASE PollPick(w)
    BY <1>8, <2>1 DEF PollPick
  <2>2. CASE Stamp(w)
    BY <1>2, <2>2 DEF Stamp
  <2>3. CASE CreateAttempt(w)
    BY <1>0, <1>2, <2>3 DEF CreateAttempt
  <2>4. CASE BuildOrder(w) \/ ReadArtifacts(w)
    <3>1. \A v \in Worker \ {w} : polls'[v] = polls[v]
      BY <1>0, <2>4 DEF BuildOrder, ReadArtifacts
    <3> QED BY <2>4, <3>1 DEF PollsMove
  <2>5. CASE PollHolds(w)
    BY <1>1, <2>5 DEF PollHolds
  <2> QED BY <1>3, <2>1, <2>2, <2>3, <2>4, <2>5 DEF PollStep
<1>4. ASSUME NEW a \in Attempt, SubmitStep(a) PROVE PollsMove
  <2>1. CASE Chain(a)
    BY <1>8, <2>1 DEF Chain
  <2> QED BY <1>1, <1>4, <2>1 DEF SubmitStep, SubmitApply, EnqueueLand, CompleteLand, SetFlags,
          WriteArtifact, MoveCursor, DropBrief, ChainMiss, Harvest, AdoptCheck, Land
<1>5. ASSUME NEW a \in Attempt, ExpireDeadline(a) \/ \E s \in Submits : SubmitRead(a, s)
      PROVE  PollsMove
  BY <1>1, <1>5 DEF ExpireDeadline, SubmitRead
<1>6. CASE OperatorStep
  BY <1>1, <1>6 DEF OperatorStep, CiChanges, EditDefinition, Release, Delete, Patch
<1>7. CASE RecoveryStep
  <2>1. CASE Crash
    BY <1>0, <2>1 DEF Crash, PollsMove
  <2> QED BY <1>1, <1>7, <2>1 DEF RecoveryStep, Restart, RecoveryDone, RecoverLanded, RecoverPark,
          RecoverReland
<1> QED BY <1>3, <1>4, <1>5, <1>6, <1>7 DEF Next

\* An attempt's order is what the poll that created it read.
OrdersMove ==
    \A a \in Attempt : state'[a] # "none" =>
      \/ state[a] # "none" /\ order'[a] = order[a]
      \/ \E w \in Worker : /\ polls[w].pc = "create" /\ order'[a].step = polls[w].step
                           /\ order'[a].got = polls[w].got

\* Nobody changes it.
LEMMA OrdersStep ==
    ASSUME IInv, Next
    PROVE  OrdersMove
<1>0. state = [a \in Attempt |-> state[a]] /\ order = [a \in Attempt |-> order[a]]
  BY DEF IInv, StoreInv
<1>1. ASSUME UNCHANGED <<state, order>> PROVE OrdersMove
  BY <1>1 DEF OrdersMove
<1>2. ASSUME NEW a \in Attempt, NEW tr, state[a] # "none", Commit(a, tr), UNCHANGED order
      PROVE  OrdersMove
  BY <1>0, <1>2 DEF Commit, OrdersMove
<1>3. ASSUME NEW w \in Worker, PollStep(w) PROVE OrdersMove
  <2>1. ASSUME CreateAttempt(w), ~(\E a \in Attempt : Live(a)) PROVE OrdersMove
    <3>1. PICK a \in Attempt :
            /\ state' = [state EXCEPT ![a] = "running"]
            /\ order' = [order EXCEPT ![a] = [worker |-> w, step |-> polls[w].step,
                                              got |-> polls[w].got]]
      BY <2>1 DEF CreateAttempt
    <3>2. /\ order'[a] = [worker |-> w, step |-> polls[w].step, got |-> polls[w].got]
          /\ \A b \in Attempt \ {a} : order'[b] = order[b] /\ state'[b] = state[b]
      BY <1>0, <3>1
    <3>3. polls[w].pc = "create"
      BY <2>1 DEF CreateAttempt
    <3> QED BY <3>2, <3>3 DEF OrdersMove
  <2> QED BY <1>1, <1>3, <2>1 DEF PollStep, PollPick, PollHolds, Stamp, BuildOrder, ReadArtifacts,
          CreateAttempt
<1>4. ASSUME NEW a \in Attempt, SubmitStep(a) PROVE OrdersMove
  <2>1. CASE SubmitApply(a) \/ CompleteLand(a)
    BY <1>1, <1>2, <2>1 DEF SubmitApply, CompleteLand, Finish
  <2>2. CASE EnqueueLand(a)
    BY <1>0, <1>1, <2>2 DEF EnqueueLand, OrdersMove
  <2> QED BY <1>1, <1>4, <2>1, <2>2 DEF SubmitStep, SetFlags, WriteArtifact, MoveCursor,
          DropBrief, Chain, ChainMiss, Harvest, AdoptCheck, Land
<1>5. ASSUME NEW a \in Attempt, ExpireDeadline(a) \/ \E s \in Submits : SubmitRead(a, s)
      PROVE  OrdersMove
  <2>1. CASE ExpireDeadline(a)
    BY <1>2, <2>1 DEF ExpireDeadline
  <2> QED BY <1>1, <1>5, <2>1 DEF SubmitRead
<1>6. CASE OperatorStep
  BY <1>1, <1>6 DEF OperatorStep, CiChanges, EditDefinition, Release, Delete, Patch
<1>7. CASE RecoveryStep
  <2>1. ASSUME NEW a \in Attempt, RecoverLanded(a) PROVE OrdersMove
    BY <1>2, <2>1 DEF RecoverLanded
  <2>2. ASSUME NEW a \in Attempt, NEW land \in LandReplies, RecoverReland(a, land)
        PROVE  OrdersMove
    BY <1>2, <2>2 DEF RecoverReland
  <2>3. ASSUME NEW a \in Attempt, RecoverPark(a) PROVE OrdersMove
    BY <1>2, <2>3 DEF RecoverPark
  <2> QED BY <1>1, <1>7, <2>1, <2>2, <2>3 DEF RecoveryStep, Crash, Restart, RecoveryDone
<1> QED BY <1>3, <1>4, <1>5, <1>6, <1>7 DEF Next

\* Every step leaves everybody with the inputs of the step they have in mind.
LEMMA FedStep ==
    ASSUME IInv, ~Evergreen, NEW avail, Provides(avail), Fed(avail), Next
    PROVE  Fed(avail)'
<1> SUFFICES ASSUME brief'.present
             PROVE  /\ OnDisk(avail, brief.step)'
                    /\ \A w \in Worker : FedPoll(avail, polls[w])'
                    /\ \A a \in Attempt : FedOrder(avail, a)'
                    /\ \A a \in Attempt : handler'[a].pc # "idle" => OnDisk(avail, handler[a].sp.step)'
  BY DEF Fed
<1>0. /\ brief.present /\ artifacts \subseteq artifacts'
      /\ brief \in Briefs /\ handler \in [Attempt -> GoodHandlers]
      /\ polls \in [Worker -> Polls]
  BY CursorStep DEF CursorMoves, IInv, BriefInv, HandlerInv, StoreInv
<1>1. /\ OnDisk(avail, brief.step)
      /\ \A w \in Worker : FedPoll(avail, polls[w])
      /\ \A a \in Attempt : FedOrder(avail, a)
      /\ \A a \in Attempt : handler[a].pc # "idle" => OnDisk(avail, handler[a].sp.step)
  BY <1>0 DEF Fed
<1>f. avail[First] = {}
  BY DEF Provides
<1>2. OnDisk(avail, brief.step)'
  <2>1. CASE brief'.step \in {brief.step, First}
    BY <1>0, <1>1, <1>f, <2>1 DEF OnDisk
  <2>2. ASSUME NEW a \in Attempt, handler[a].pc = "cursor", brief'.step = handler[a].sp.route,
               handler[a].eff.cursor = "advance"
        PROVE  OnDisk(avail, brief.step)'
    <3> DEFINE sp == handler[a].sp
    <3>1. handler[a].eff \in Effects /\ Allowed(handler[a].eff, sp)
      BY <1>0, <2>2, HandlerForms DEF EffectStages
    <3>2. /\ sp.step \in Step /\ sp.route \in Step /\ sp.route \in Destinations(sp.step)
          /\ Kind[sp.step] = "doc" => handler[a].eff.artifact
      BY <2>2, <3>1 DEF Allowed, Moves
    <3>3. sp.step # NoStep /\ sp.route # End
      BY <3>2, WorkflowConstants
    <3>4. avail[sp.step] \subseteq artifacts
      BY <1>1, <2>2, <3>3 DEF OnDisk
    <3>5. Kind[sp.step] = "doc" => Output[sp.step] \in artifacts
      BY <1>0, <2>2, <3>2 DEF IInv, ArtifactInv, WrittenFirst
    <3>6. avail[sp.route] \subseteq avail[sp.step]
              \cup (IF Kind[sp.step] = "doc" THEN {Output[sp.step]} ELSE {})
      BY <3>2, <3>3 DEF Provides
    <3>7. avail[sp.route] \subseteq artifacts'
      BY <1>0, <3>4, <3>5, <3>6
    <3> QED BY <2>2, <3>7 DEF OnDisk
  <2> QED BY <2>1, <2>2, CursorStep DEF CursorMoves
<1>3. ASSUME NEW w \in Worker PROVE FedPoll(avail, polls[w])'
  <2>1. CASE polls'[w] = polls[w]
    BY <1>0, <1>1, <2>1 DEF FedPoll, OnDisk
  <2>2. CASE polls'[w].pc \notin {"fetch", "create"}
    BY <2>2 DEF FedPoll
  <2>3. CASE BuildOrder(w)
    <3>1. /\ polls'[w].pc = "fetch" /\ polls'[w].step \in {NoStep, First, brief.step}
          /\ artifacts' = artifacts
      BY <1>0, <2>3 DEF BuildOrder
    <3> QED BY <1>1, <1>f, <3>1 DEF FedPoll, OnDisk
  <2>4. CASE ReadArtifacts(w)
    <3> DEFINE s == polls[w].step
    <3>1. /\ polls'[w] = [pc |-> "create", step |-> s,
                          got |-> IF s = NoStep THEN {} ELSE Inputs[s] \cap artifacts]
          /\ artifacts' = artifacts /\ polls[w].pc = "fetch"
      BY <1>0, <2>4 DEF ReadArtifacts
    <3>2. OnDisk(avail, s) /\ s \in Step \cup {NoStep}
      BY <1>0, <1>1, <3>1 DEF FedPoll, Polls
    <3>3. s # NoStep => Inputs[s] \subseteq avail[s]
      BY <3>2 DEF Provides
    <3> HIDE DEF s
    <3> QED BY <3>1, <3>2, <3>3 DEF FedPoll, OnDisk
  <2> QED BY <2>1, <2>2, <2>3, <2>4, PollsStep DEF PollsMove
<1>4. ASSUME NEW a \in Attempt PROVE FedOrder(avail, a)'
  <2>1. CASE state'[a] = "none"
    BY <2>1 DEF FedOrder
  <2>2. CASE state[a] # "none" /\ order'[a] = order[a]
    BY <1>0, <1>1, <2>2 DEF FedOrder, OnDisk
  <2>3. ASSUME NEW w \in Worker, polls[w].pc = "create", order'[a].step = polls[w].step,
               order'[a].got = polls[w].got
        PROVE  FedOrder(avail, a)'
    BY <1>0, <1>1, <2>3 DEF FedOrder, FedPoll, OnDisk
  <2> QED BY <2>1, <2>2, <2>3, OrdersStep DEF OrdersMove
<1>5. ASSUME NEW a \in Attempt, handler'[a].pc # "idle" PROVE OnDisk(avail, handler[a].sp.step)'
  <2>1. CASE handler[a].pc # "idle" /\ handler'[a].sp = handler[a].sp
    BY <1>0, <1>1, <2>1 DEF OnDisk
  <2>2. CASE state[a] # "none" /\ handler'[a].sp.step \in {order[a].step, NoStep}
    BY <1>0, <1>1, <2>2 DEF FedOrder, OnDisk
  <2> QED BY <1>5, <2>1, <2>2, PoliciesStep DEF PoliciesMove
<1> QED BY <1>2, <1>3, <1>4, <1>5

\* In a definition whose every path to a step writes the step's inputs, an order of a task
\* that is not evergreen carries all of them, although the cursor, the documents and the
\* polls are moved by different requests.
THEOREM OrderCompleteHolds ==
    ASSUME ~Evergreen, NEW avail, Provides(avail)
    PROVE  Spec => []OrderComplete
<1>1. Init => Fed(avail)
  BY DEF Init, NoBrief, NoOrder, Idle, Fed, FedPoll, FedOrder, OnDisk
<1>2. IInv /\ Fed(avail) /\ [Next]_vars => Fed(avail)'
  <2>1. CASE UNCHANGED vars
    BY <2>1 DEF vars, Fed, FedPoll, FedOrder, OnDisk
  <2> QED BY <2>1, FedStep
<1>3. Fed(avail) => OrderComplete
  BY DEF Fed, FedOrder, OrderComplete
<1> QED BY <1>1, <1>2, <1>3, Invariance, PTL DEF Spec
=============================================================================
