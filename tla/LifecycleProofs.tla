-------------------------- MODULE LifecycleProofs --------------------------
(***************************************************************************)
(* What every transition function returns: a terminal state, and effects   *)
(* the tasks table can apply without leaving an empty row behind.          *)
(***************************************************************************)
EXTENDS Lifecycle, TLAPS

\* A reset always clears the hold (so the row can be deleted), and only a
\* hold is retry-eligible.
EffOK(eff) ==
    /\ eff.progress = "reset" => eff.clear /\ eff.hold = "none"
    /\ eff.retry => eff.hold # "none"

Verdicts == {tr \in Transitions : tr.state \in TerminalStates /\ EffOK(tr.eff)}

\* What a land, a re-run land or a recovery may store.
LandVerdicts ==
    {tr \in Verdicts : tr.state \in {"landed", "no_change", "conflict",
                                     "failed"}}

\* The pause and the flags a failure may cause.
LEMMA FailurePauseType ==
    ASSUME NEW pol \in Policies
    PROVE  /\ WatchFailure(pol) \in {"keep", "consecutive_failures"}
           /\ FailurePause(pol) \in {"keep", "consecutive_failures",
                                     "retry_failed"}
           /\ RetryQuarantine(pol) \in SUBSET Flags
  BY DEF WatchFailure, FailurePause, RetryQuarantine, Flags, Policies

\* The ladder only counts: it places no hold and clears nothing.
LEMMA FailureLadderType ==
    ASSUME NEW pol \in Policies, NEW immediate \in BOOLEAN,
           NEW retryPause \in BOOLEAN
    PROVE  /\ FailureLadder(pol, immediate, retryPause) \in Effects
           /\ EffOK(FailureLadder(pol, immediate, retryPause))
  BY FailurePauseType DEF FailureLadder, Effects, EffOK, NoEffects, Flags

\* A failed or conflicted attempt with proper effects is a verdict.
LEMMA VerdictOf ==
    ASSUME NEW st \in {"conflict", "failed"}, NEW eff \in Effects, EffOK(eff)
    PROVE  [state |-> st, eff |-> eff] \in Verdicts
  BY DEF Verdicts, Transitions, AttemptStates, TerminalStates

\* Every error outcome is stored as a verdict.
LEMMA ErrorTransitionType ==
    ASSUME NEW out \in Outcomes, NEW pol \in Policies
    PROVE  ErrorTransition(out, pol) \in Verdicts
<1> DEFINE elsewhere == [NoEffects EXCEPT !.cooldown = TRUE]
           holds == [NoEffects EXCEPT !.hold = "blocked",
                                      !.progress = "increment"]
           ladder == FailureLadder(pol, out.quarantine, TRUE)
<1>1. PICK st \in {"conflict", "failed"}, eff \in {elsewhere, holds, ladder} :
         ErrorTransition(out, pol) = [state |-> st, eff |-> eff]
  BY DEF ErrorTransition, ErrorStateFor
<1>2. elsewhere \in Effects /\ EffOK(elsewhere)
  BY DEF Effects, EffOK, NoEffects
<1>3. holds \in Effects /\ EffOK(holds)
  BY DEF Effects, EffOK, NoEffects
<1>4. ladder \in Effects /\ EffOK(ladder)
  BY FailureLadderType DEF Outcomes
<1>5. eff \in Effects /\ EffOK(eff)
  BY <1>2, <1>3, <1>4
<1> QED BY <1>1, <1>5, VerdictOf

\* Every outcome that needs no git work is stored as a verdict.
LEMMA OnSubmitType ==
    ASSUME NEW out \in Outcomes, NEW pol \in Policies
    PROVE  OnSubmit(out, pol) \in Verdicts
<1>1. BlockedTransition(pol) \in Verdicts
  BY FailurePauseType
     DEF BlockedTransition, Effects, EffOK, NoEffects, Verdicts, Transitions,
         AttemptStates, TerminalStates
<1>2. NeutralTransition(out) \in Verdicts
  BY DEF NeutralTransition, Effects, EffOK, NoEffects, Verdicts, Transitions,
         AttemptStates, TerminalStates
<1> QED BY <1>1, <1>2, ErrorTransitionType DEF OnSubmit

\* Every result of the git pipeline is stored as a land's verdict; no land is
\* ever stored as expired, aborted or live.
LEMMA OnLandResultType ==
    ASSUME NEW out \in Outcomes, NEW land \in LandResults,
           NEW pol \in Policies
    PROVE  OnLandResult(out, land, pol) \in LandVerdicts
<1>1. NoChangeTransition(out, pol) \in LandVerdicts
  <2>1. out.quarantine \in BOOLEAN
    BY DEF Outcomes
  <2> QED BY <2>1, FailureLadderType
           DEF NoChangeTransition, LandVerdicts, Verdicts, Transitions,
               AttemptStates, TerminalStates
<1>2. LandedTransition(pol) \in LandVerdicts
  BY DEF LandedTransition, LandVerdicts, Effects, EffOK, NoEffects, Policies,
         Verdicts, Transitions, AttemptStates, TerminalStates
<1>3. LandFailedTransition(land, pol) \in LandVerdicts
  BY FailurePauseType, LifecycleConstants
     DEF LandFailedTransition, ErrorStateFor, LandVerdicts, Effects, EffOK,
         NoEffects, LandResults, Verdicts, Transitions, AttemptStates,
         TerminalStates
<1> QED BY <1>1, <1>2, <1>3 DEF OnLandResult

\* The transitions that depend on nothing are verdicts too.
LEMMA FixedTransitionTypes ==
    /\ OnLandInterrupted \in LandVerdicts
    /\ OnLandRecovered \in LandVerdicts
    /\ OnOperatorStop \in Verdicts
    /\ OnDeadline \in Verdicts
  BY DEF OnLandInterrupted, OnLandRecovered, OnOperatorStop, OnDeadline,
         LandVerdicts, Effects, EffOK, NoEffects, Verdicts, Transitions,
         AttemptStates, TerminalStates
=============================================================================
