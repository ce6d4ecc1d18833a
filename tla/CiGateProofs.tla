---------------------------- MODULE CiGateProofs ----------------------------
(***************************************************************************)
(* The CI gate for any queues, workflows, tolerance and number of commits. *)
(***************************************************************************)
EXTENDS CiGate, TLAPS

-----------------------------------------------------------------------------
(* The inductive invariant                                                 *)

Pcs == {"idle", "record", "holds", "retire", "drop", "spawn", "create", "tag",
        "mark", "hold"}

\* Where a pass is, and the queues it remembers.
PassShape ==
    /\ "pc" \in DOMAIN pass /\ pass.pc \in Pcs
    /\ pass.pc \in {"record", "retire", "spawn", "create"} =>
           "queues" \in DOMAIN pass /\ pass.queues \subseteq Queue

Shape ==
    /\ brief \in [Task -> {"absent", "bare", "open", "over"}]
    /\ misses \in 0..Tolerance
    /\ tip \in Commit
    /\ monitored \subseteq Queue
    /\ row = [state |-> row.state, sha |-> row.sha, fix |-> row.fix]
    /\ PassShape

\* What gh said of a head it knows: nothing, that its runs are not listed yet, or
\* the verdict of its runs.
Read ==
    pass.pc = "record" /\ pass.known =>
        \/ pass.status.transient
        \/ pass.status.noRuns /\ pass.status.sha = pass.head
        \/ pass.status.state = pass.truth
        \/ pass.truth # "red"

\* Between the look at the open fixes and the filing of one, none is opened.
Alone == pass.pc = "create" => OpenFixes(pass.queues) = {}

Inv == Shape /\ Read /\ Alone

-----------------------------------------------------------------------------
(* The answers of gh                                                       *)

LEMMA NoRunsNoRed == Verdict({}) # "red"
BY DEF Verdict

\* An answer about a head that is known.
LEMMA KnownAnswers ==
    ASSUME tip \in Commit, NEW s \in Answers(TRUE)
    PROVE  \/ s.transient
           \/ s.noRuns /\ s.sha = tip
           \/ s.state = Verdict(Outcomes(tip))
           \/ Verdict(Outcomes(tip)) # "red"
<1> DEFINE listed == {c \in Commit : Ran(c)}
           lagging == [state |-> "pending", sha |-> tip, transient |-> FALSE, noRuns |-> TRUE]
<1>1. CASE s = NoAnswer
  BY <1>1 DEF NoAnswer
<1>2. CASE s = lagging
  BY <1>2
<1>3. CASE s = StatusAt(tip)
  BY <1>3 DEF StatusAt
<1>4. CASE listed = {}
  <2>1. Outcomes(tip) = {}
    BY <1>4 DEF Ran
  <2>2. QED
    BY <2>1, NoRunsNoRed
<1>5. listed = {} \/ s \in {NoAnswer, StatusAt(tip), lagging}
  BY DEF Answers
<1>6. QED
  BY <1>1, <1>2, <1>3, <1>4, <1>5

-----------------------------------------------------------------------------
(* The invariant                                                           *)

LEMMA Initially == Init => Inv
<1> SUFFICES ASSUME Init
             PROVE  Inv
  OBVIOUS
<1>1. /\ brief \in [Task -> {"absent", "bare", "open", "over"}]
      /\ monitored \subseteq Queue
  BY DEF Init
<1>2. misses \in 0..Tolerance /\ tip \in Commit
  <2>1. misses = 0 /\ tip = 1
    BY DEF Init
  <2>2. QED
    BY <2>1, CiGateConstants DEF Commit
<1>3. row = [state |-> row.state, sha |-> row.sha, fix |-> row.fix]
  BY DEF Init
<1>4. pass = [pc |-> "idle"]
  BY DEF Init, Resting
<1>5. QED
  BY <1>1, <1>2, <1>3, <1>4 DEF Inv, Shape, PassShape, Pcs, Read, Alone

\* Steps of the others: GitHub, the operator, the workers, a restart.
LEMMA OthersKeep ==
    ASSUME Inv, UNCHANGED <<row, pass>>,
           misses' = misses, monitored' \subseteq Queue, tip' \in Commit,
           brief' \in [Task -> {"absent", "bare", "open", "over"}],
           \A t \in Task : brief'[t] = "open" => brief[t] = "open"
    PROVE  Inv'
<1>1. Shape' /\ Read'
  BY DEF Inv, Shape, PassShape, Read
<1>2. Alone'
  BY DEF Inv, Shape, PassShape, Alone, OpenFixes, Task, Commit
<1>3. QED
  BY <1>1, <1>2 DEF Inv

\* Steps of the reconciler that leave the briefs and look for none.
LEMMA PassGoes ==
    ASSUME Inv, UNCHANGED <<tip, monitored, brief>>, misses' \in 0..Tolerance,
           row' = [state |-> row'.state, sha |-> row'.sha, fix |-> row'.fix],
           PassShape', pass'.pc \notin {"record", "create"}
    PROVE  Inv'
BY DEF Inv, Shape, Read, Alone

LEMMA StepKeeps ==
    ASSUME Inv, [Next]_vars
    PROVE  Inv'
<1> USE DEF github, world, At
<1>0. /\ brief \in [Task -> {"absent", "bare", "open", "over"}]
      /\ misses \in 0..Tolerance /\ tip \in Commit /\ monitored \subseteq Queue
      /\ row = [state |-> row.state, sha |-> row.sha, fix |-> row.fix]
      /\ PassShape /\ Tolerance \in Nat \ {0} /\ MaxCommits \in Nat
  BY CiGateConstants DEF Inv, Shape
<1>1. CASE Check
  <2>1. CASE pass'.pc = "record"
    <3> DEFINE To(known, a) == [pc |-> "record", queues |-> monitored, status |-> a,
                                known |-> known, head |-> tip,
                                truth |-> Verdict(Outcomes(tip))]
    <3>1. PICK known \in BOOLEAN : \E a \in Answers(known) : pass' = To(known, a)
      BY <1>1, <2>1 DEF Check
    <3>2. PICK a \in Answers(known) : pass' = To(known, a)
      BY <3>1
    <3>3. PassShape'
      BY <1>0, <3>2 DEF PassShape, Pcs
    <3>4. Read'
      <4>1. CASE known
        <5>1. a \in Answers(TRUE)
          BY <3>2, <4>1
        <5>2. \/ a.transient
              \/ a.noRuns /\ a.sha = tip
              \/ a.state = Verdict(Outcomes(tip))
              \/ Verdict(Outcomes(tip)) # "red"
          BY <1>0, <5>1, KnownAnswers
        <5>3. QED
          BY <3>2, <5>2 DEF Read
      <4>2. CASE ~known
        BY <3>2, <4>2 DEF Read
      <4>3. QED
        BY <4>1, <4>2
    <3>5. UNCHANGED <<tip, monitored, brief, misses, row>>
      BY <1>1 DEF Check
    <3>6. QED
      BY <1>0, <2>1, <3>3, <3>4, <3>5 DEF Inv, Shape, Alone
  <2>2. CASE pass' = [pc |-> "holds"]
    <3>1. PassShape'
      BY <2>2 DEF PassShape, Pcs
    <3>2. QED
      BY <1>0, <1>1, <2>2, <3>1, PassGoes DEF Check
  <2>3. QED
    BY <1>1, <2>1, <2>2 DEF Check
<1>2. CASE Record
  <2>1. misses' \in 0..Tolerance
    BY <1>0, <1>2 DEF Record
  <2>2. row' = [state |-> row'.state, sha |-> row'.sha, fix |-> row'.fix]
    BY <1>0, <1>2 DEF Record, SetRepoCi
  <2>3. PassShape' /\ pass'.pc \notin {"record", "create"}
    <3>1. AfterRecord(pass.status) \in {"retire", "spawn", "holds"}
      BY DEF AfterRecord
    <3>2. pass.queues \subseteq Queue
      BY <1>0, <1>2 DEF Record, PassShape
    <3>3. \/ pass' = [pc |-> "holds"]
          \/ /\ AfterRecord(pass.status) # "holds"
             /\ pass' = [pc |-> AfterRecord(pass.status), queues |-> pass.queues,
                         sha |-> pass.status.sha]
      BY <1>2 DEF Record
    <3>4. QED
      BY <3>1, <3>2, <3>3 DEF PassShape, Pcs
  <2>4. QED
    BY <1>2, <2>1, <2>2, <2>3, PassGoes DEF Record
<1>3. CASE Retire
  <2>1. PassShape' /\ pass'.pc = "drop"
    BY <1>3 DEF Retire, PassShape, Pcs
  <2>2. QED
    BY <1>0, <1>3, <2>1, PassGoes DEF Retire
<1>4. CASE RetireDrop
  <2>1. PassShape' /\ pass'.pc \in {"drop", "holds"}
    BY <1>0, <1>4 DEF RetireDrop, PassShape, Pcs
  <2>2. brief' \in [Task -> {"absent", "bare", "open", "over"}]
    BY <1>0, <1>4 DEF RetireDrop
  <2>3. UNCHANGED <<tip, monitored, misses, row>>
    BY <1>4 DEF RetireDrop
  <2>4. QED
    BY <1>0, <2>1, <2>2, <2>3 DEF Inv, Shape, Read, Alone
<1>5. CASE SpawnScan
  <2> DEFINE open == OpenFixes(pass.queues)
             first == CHOOSE t \in open : \A u \in open :
                          t[1] < u[1] \/ (t[1] = u[1] /\ t[2] <= u[2])
             fix == first[2]
  <2>1. CASE open # {}
    <3>1. row' = [row EXCEPT !.fix = fix] /\ pass' = [pc |-> "holds"]
      BY <1>5, <2>1 DEF SpawnScan
    <3> HIDE DEF fix
    <3>2. PassShape' /\ row' = [state |-> row'.state, sha |-> row'.sha, fix |-> row'.fix]
      BY <1>0, <3>1 DEF PassShape, Pcs
    <3>3. QED
      BY <1>0, <1>5, <3>1, <3>2, PassGoes DEF SpawnScan
  <2>2. CASE open = {}
    <3>1. UNCHANGED <<tip, monitored, brief, misses, row>> /\ pass.pc = "spawn"
          /\ pass' = [pass EXCEPT !.pc = "create"]
      BY <1>5, <2>2 DEF SpawnScan
    <3>2. pass'.pc = "create" /\ pass'.queues = pass.queues /\ DOMAIN pass' = DOMAIN pass
      BY <1>0, <3>1 DEF PassShape
    <3>3. PassShape'
      BY <1>0, <3>1, <3>2 DEF PassShape, Pcs
    <3>4. OpenFixes(pass.queues)' = OpenFixes(pass.queues)
      BY <3>1, <3>2 DEF OpenFixes
    <3>5. QED
      BY <1>0, <2>2, <3>1, <3>2, <3>3, <3>4 DEF Inv, Shape, Read, Alone
  <2>3. QED
    BY <2>1, <2>2
<1>6. CASE SpawnCreate
  <2> DEFINE t == <<Target(pass.queues), pass.sha>>
             fix == t[2]
  <2>1. CASE OnDisk(t)
    <3>1. row' = [row EXCEPT !.fix = fix] /\ pass' = [pc |-> "holds"] /\ UNCHANGED brief
      BY <1>6, <2>1 DEF SpawnCreate
    <3> HIDE DEF fix
    <3>2. PassShape' /\ row' = [state |-> row'.state, sha |-> row'.sha, fix |-> row'.fix]
      BY <1>0, <3>1 DEF PassShape, Pcs
    <3>3. QED
      BY <1>0, <1>6, <3>1, <3>2, PassGoes DEF SpawnCreate
  <2>2. CASE ~OnDisk(t)
    <3>1. /\ brief' = [brief EXCEPT ![t] = "bare"] /\ pass' = [pc |-> "tag", task |-> t]
          /\ UNCHANGED <<tip, monitored, misses, row>>
      BY <1>6, <2>2 DEF SpawnCreate
    <3> HIDE DEF t
    <3>2. brief' \in [Task -> {"absent", "bare", "open", "over"}]
      BY <1>0, <3>1
    <3>3. PassShape' /\ pass'.pc = "tag"
      BY <3>1 DEF PassShape, Pcs
    <3>4. QED
      BY <1>0, <3>1, <3>2, <3>3 DEF Inv, Shape, Read, Alone
  <2>3. QED
    BY <2>1, <2>2
<1>7. CASE SpawnTag
  <2> DEFINE tagged == IF brief[pass.task] = "bare" THEN "open" ELSE brief[pass.task]
  <2>1. /\ UNCHANGED <<tip, monitored, misses, row>> /\ pass.pc = "tag"
        /\ brief' \in {brief, [brief EXCEPT ![pass.task] = tagged]}
        /\ pass' \in {[pass EXCEPT !.pc = "mark"], [pc |-> "holds"]}
    BY <1>7 DEF SpawnTag
  <2>2. PassShape' /\ pass'.pc \in {"mark", "holds"}
    BY <1>0, <2>1 DEF PassShape, Pcs
  <2>3. brief' \in [Task -> {"absent", "bare", "open", "over"}]
    BY <1>0, <2>1
  <2>4. QED
    BY <1>0, <2>1, <2>2, <2>3 DEF Inv, Shape, Read, Alone
<1>8. CASE SpawnMark
  <2> DEFINE fix == pass.task[2]
  <2>1. row' = [row EXCEPT !.fix = fix] /\ pass' = [pc |-> "holds"]
    BY <1>8 DEF SpawnMark
  <2> HIDE DEF fix
  <2>2. PassShape' /\ row' = [state |-> row'.state, sha |-> row'.sha, fix |-> row'.fix]
    BY <1>0, <2>1 DEF PassShape, Pcs
  <2>3. QED
    BY <1>0, <1>8, <2>1, <2>2, PassGoes DEF SpawnMark
<1>9. CASE HoldsBegin
  <2>1. PassShape' /\ pass'.pc = "hold"
    BY <1>9 DEF HoldsBegin, PassShape, Pcs
  <2>2. QED
    BY <1>0, <1>9, <2>1, PassGoes DEF HoldsBegin
<1>10. CASE HoldRead \/ HoldWrite \/ HoldsClear
  <2>1. PassShape' /\ pass'.pc \in {"hold", "idle"}
    <3>1. CASE HoldRead
      <4> DEFINE t == CHOOSE u \in pass.todo : TRUE
                 reads == {<<t, hold[t]>>}
                 todo == pass.todo \ {t}
      <4>1. pass' = [pass EXCEPT !.reads = reads, !.todo = todo] /\ pass.pc = "hold"
        BY <3>1 DEF HoldRead
      <4> HIDE DEF reads, todo
      <4>2. QED
        BY <1>0, <4>1 DEF PassShape
    <3>2. CASE HoldWrite
      <4>1. pass' = [pass EXCEPT !.reads = {}] /\ pass.pc = "hold"
        BY <3>2 DEF HoldWrite
      <4>2. QED
        BY <1>0, <4>1 DEF PassShape
    <3>3. CASE HoldsClear
      BY <3>3 DEF HoldsClear, Resting, PassShape, Pcs
    <3>4. QED
      BY <1>10, <3>1, <3>2, <3>3
  <2>2. UNCHANGED <<tip, monitored, brief, misses, row>>
    BY <1>10 DEF HoldRead, HoldWrite, HoldsClear
  <2>3. QED
    BY <1>0, <2>1, <2>2, PassGoes
<1>11. CASE Crash
  <2>1. PassShape' /\ pass'.pc = "idle" /\ misses' = 0
    BY <1>11 DEF Crash, Resting, PassShape, Pcs
  <2>2. QED
    BY <1>0, <1>11, <2>1, PassGoes DEF Crash
<1>12. CASE Push
  BY <1>0, <1>12, OthersKeep DEF Push, Commit
<1>13. CASE Settings
  <2>1. monitored' \subseteq Queue
    BY <1>0, <1>13 DEF Settings, Flip
  <2>2. QED
    BY <1>0, <1>13, <2>1, OthersKeep DEF Settings
<1>14. ASSUME NEW w \in Workflow, Rerun(w) \/ \E c \in Commit : RunOf(c, w)
       PROVE  Inv'
  BY <1>0, <1>14, OthersKeep DEF Rerun, RunOf
<1>15. ASSUME NEW t \in Task, Lease(t) \/ Ends(t) \/ Delete(t) \/ Reset(t)
       PROVE  Inv'
  <2>1. /\ UNCHANGED <<row, pass, misses, monitored>>
        /\ brief' = brief \/ \E v \in {"absent", "over", brief[t]} :
                                brief' = [brief EXCEPT ![t] = v]
    BY <1>15 DEF Lease, Ends, Delete, Reset
  <2>2. tip' \in Commit
    BY <1>0, <1>15 DEF Lease, Ends, Delete, Reset, Commit
  <2>3. /\ brief' \in [Task -> {"absent", "bare", "open", "over"}]
        /\ \A u \in Task : brief'[u] = "open" => brief[u] = "open"
    BY <1>0, <2>1
  <2>4. QED
    BY <1>0, <2>1, <2>2, <2>3, OthersKeep
<1>16. CASE UNCHANGED vars
  BY <1>0, <1>16, OthersKeep DEF vars
<1>17. QED
  BY <1>1, <1>2, <1>3, <1>4, <1>5, <1>6, <1>7, <1>8, <1>9, <1>10, <1>11, <1>12, <1>13,
     <1>14, <1>15, <1>16 DEF Next, Tick

\* The pass of the reconciler, what it remembers and the row it keeps have their
\* shape, and what it remembers of gh's answer fits the runs it was given for.
THEOREM GateInvariant == Spec => []Inv
BY Initially, StepKeeps, PTL DEF Spec

-----------------------------------------------------------------------------
(* The properties                                                          *)

\* A brief comes into being in one place.
LEMMA FiledAtCreate ==
    ASSUME Inv, [Next]_vars, NEW t \in Task, brief[t] = "absent", brief'[t] = "bare"
    PROVE  pass.pc = "create"
<1> USE DEF github, world, At
<1>0. brief \in [Task -> {"absent", "bare", "open", "over"}]
  BY DEF Inv, Shape
<1>1. ~ UNCHANGED brief
  OBVIOUS
<1>2. ~RetireDrop
  BY <1>0, <1>1 DEF RetireDrop
<1>3. ~SpawnTag
  BY <1>0, <1>1 DEF SpawnTag
<1>4. ASSUME NEW u \in Task, Ends(u) \/ Delete(u)
      PROVE  FALSE
  BY <1>0, <1>1, <1>4 DEF Ends, Delete
<1>5. SpawnCreate
  <2>1. ~(Check \/ Record \/ Retire \/ SpawnScan \/ SpawnMark \/ HoldsBegin
          \/ HoldRead \/ HoldWrite \/ HoldsClear)
    BY <1>1 DEF Check, Record, Retire, SpawnScan, SpawnMark, HoldsBegin, HoldRead,
                HoldWrite, HoldsClear
  <2>2. ~(\/ Push \/ Settings \/ Crash \/ UNCHANGED vars
          \/ \E w \in Workflow : Rerun(w) \/ \E c \in Commit : RunOf(c, w)
          \/ \E u \in Task : Lease(u) \/ Reset(u))
    BY <1>1 DEF Push, Settings, Crash, vars, Rerun, RunOf, Lease, Reset
  <2>3. CASE Tick
    BY <1>2, <1>3, <2>1, <2>3 DEF Tick
  <2>4. CASE \E u \in Task : Lease(u) \/ Ends(u) \/ Delete(u) \/ Reset(u)
    BY <1>4, <2>2, <2>4
  <2>5. QED
    BY <2>2, <2>3, <2>4 DEF Next
<1>6. QED
  BY <1>5 DEF SpawnCreate

\* One fix at a time: between the look for an open fix brief and create_task no
\* other task makes one (_spawn_ci_fix).
THEOREM SpawnsAloneHolds == Spec => SpawnsAlone
<1>1. Inv /\ [Next]_vars => [\A t \in Task : brief[t] = "absent" /\ brief'[t] = "bare" =>
                                  OpenFixes(pass.queues) = {}]_vars
  BY FiledAtCreate DEF Inv, Alone
<1>2. QED
  BY <1>1, GateInvariant, PTL DEF Spec, SpawnsAlone

\* The state of repo_ci is written in one place.
LEMMA WrittenAtRecord ==
    ASSUME Inv, [Next]_vars, row'.state # row.state
    PROVE  Record
<1> USE DEF github, world, At
<1>0. row = [state |-> row.state, sha |-> row.sha, fix |-> row.fix] /\ ~ UNCHANGED row
  BY DEF Inv, Shape
<1>1. ASSUME NEW f, row' = [row EXCEPT !.fix = f]
      PROVE  FALSE
  BY <1>0, <1>1
<1>2. ~ (SpawnScan \/ SpawnCreate \/ SpawnMark)
  BY <1>0, <1>1 DEF SpawnScan, SpawnCreate, SpawnMark
<1>3. ~(Check \/ Retire \/ RetireDrop \/ SpawnTag \/ HoldsBegin
        \/ HoldRead \/ HoldWrite \/ HoldsClear)
  BY <1>0 DEF Check, Retire, RetireDrop, SpawnTag, HoldsBegin, HoldRead, HoldWrite,
              HoldsClear
<1>4. ~(\/ Push \/ Settings \/ Crash \/ UNCHANGED vars
        \/ \E w \in Workflow : Rerun(w) \/ \E c \in Commit : RunOf(c, w)
        \/ \E t \in Task : Lease(t) \/ Ends(t) \/ Delete(t) \/ Reset(t))
  BY <1>0 DEF Push, Settings, Crash, vars, Rerun, RunOf, Lease, Ends, Delete, Reset
<1>5. QED
  BY <1>2, <1>3, <1>4 DEF Next, Tick

LEMMA BlipStep ==
    ASSUME Inv, [Next]_vars, row.state = "red", row'.state # "red", row.sha = pass.head
    PROVE  pass.truth # "red" \/ misses' = Tolerance \/ ~pass.known
<1> USE DEF At
<1> DEFINE s == pass.status
<1>1. Record
  BY WrittenAtRecord
<1>2. pass.pc = "record" /\ row' # row
  BY <1>1 DEF Record
<1>3. ~(Suspect(s) /\ misses + 1 < Tolerance)
  BY <1>1, <1>2 DEF Record
<1>4. misses \in 0..Tolerance /\ Tolerance \in Nat \ {0}
  BY CiGateConstants DEF Inv, Shape
<1>5. CASE Suspect(s)
  BY <1>1, <1>3, <1>4, <1>5 DEF Record
<1>6. CASE ~Suspect(s)
  <2>1. s.state # "red"
    <3>1. row' = SetRepoCi(s) \/ row' = [SetRepoCi(s) EXCEPT !.fix = 0]
      BY <1>1, <1>2 DEF Record
    <3>2. row'.state = s.state
      BY <3>1 DEF SetRepoCi
    <3>3. QED
      BY <3>2
  <2>2. ~s.transient /\ ~(s.noRuns /\ s.sha = pass.head)
    BY <1>6 DEF Suspect
  <2>3. QED
    BY <1>2, <2>1, <2>2 DEF Inv, Read
<1>7. QED
  BY <1>5, <1>6

\* One blip does not open the gate: a red commit stays red in repo_ci until gh has
\* another verdict for it, has failed _CI_TRANSIENT_TOLERANCE times, or cannot
\* say what the head is (_refresh_repo_ci).
THEOREM NoBlipHolds == Spec => NoBlip
<1>1. Inv /\ [Next]_vars =>
        [row.state = "red" /\ row'.state # "red" /\ row.sha = pass.head =>
             pass.truth # "red" \/ misses' = Tolerance \/ ~pass.known]_vars
  BY BlipStep
<1>2. QED
  BY <1>1, GateInvariant, PTL DEF Spec, NoBlip
=============================================================================
