------------------------------- MODULE CiGate -------------------------------
(***************************************************************************)
(* The CI gate of one target repository (ci.py, the duties                 *)
(* _refresh_repo_ci and _reconcile_holds of manager/reconciler.py, the     *)
(* gate in the worker poll): the reconciler reads the verdict of GitHub    *)
(* Actions on main, keeps it in the row repo_ci, holds the tasks of the    *)
(* repository while main is red and files one task to fix it.              *)
(*                                                                         *)
(* A commit of main is a number.  A task is a queue and a name: 0 stands   *)
(* for the ordinary tasks of the queue, n > 0 for the brief "fix ci: main  *)
(* is red at n".  A pass of the reconciler is cut where it awaits.         *)
(***************************************************************************)
EXTENDS Integers, FiniteSets, FiniteSetsExt

CONSTANTS
    Queue,        \* the queues bound to the repository, as numbers: main first
    Plain,        \* the queues with ordinary tasks
    Workflow,     \* workflows of GitHub Actions
    Conclusion,   \* how a run may end
    Tolerance,    \* _CI_TRANSIENT_TOLERANCE
    MaxCommits,   \* bound: commits of main
    MaxEvents     \* bound: acts of the operator, re-runs and manager restarts

ASSUME CiGateConstants ==
    /\ Conclusion \subseteq {"success", "failure", "cancelled"}
    /\ Queue \subseteq Nat /\ Plain \subseteq Queue /\ IsFiniteSet(Queue)
    /\ Tolerance \in Nat \ {0} /\ MaxCommits \in Nat \ {0}
    /\ MaxEvents \in Nat

Commit == 1..MaxCommits
Task == Queue \X (0..MaxCommits)

VARIABLES
    tip, runs,                   \* GitHub: head of main; commit -> workflow -> outcome
    row,                         \* repo_ci: state ("" before the first), sha, fix (0: no marker)
    misses,                      \* _ci_transient_misses, in memory
    brief,                       \* task -> absent, bare (no tag), open, over (cannot run)
    hold,                        \* task -> hold of its row
    live,                        \* tasks with a live attempt
    monitored, paused,           \* queues
    present, routable,           \* the clone is there; a worker can serve the tasks
    pass,                        \* where the reconciler is
    events

github == <<tip, runs>>
world == <<monitored, paused, present, routable>>
vars == <<github, row, misses, brief, hold, live, world, pass, events>>

Resting == [pc |-> "idle"]
At(pc) == pass.pc = pc

-----------------------------------------------------------------------------
\* The verdict.

\* status_from_runs on the runs of one commit: any failure is red, a run under
\* way comes before a success, anything else says nothing.
Verdict(outcomes) ==
    CASE "failure" \in outcomes   -> "red"
      [] "running" \in outcomes   -> "pending"
      [] "success" \in outcomes   -> "green"
      [] OTHER                    -> "unknown"

Outcomes(c) == {runs[c][w] : w \in Workflow} \ {"none"}
Ran(c) == Outcomes(c) # {}
NoAnswer == [state |-> "unknown", sha |-> 0, transient |-> TRUE, noRuns |-> FALSE]

\* status_from_runs for the commit c taken as the head.
StatusAt(c) ==
    IF Ran(c)
    THEN [state |-> Verdict(Outcomes(c)), sha |-> c, transient |-> FALSE, noRuns |-> FALSE]
    ELSE [state |-> "pending", sha |-> c, transient |-> FALSE, noRuns |-> TRUE]

\* check_repo_ci: gh may fail; the list may be empty, or not have the newest runs
\* yet; when the head is not known the newest run of the list stands for it.
Answers(headKnown) ==
    LET listed == {c \in Commit : Ran(c)}
        lagging == [state |-> "pending", sha |-> tip, transient |-> FALSE, noRuns |-> TRUE]
    IN {NoAnswer} \cup
       IF listed = {} THEN {[NoAnswer EXCEPT !.transient = FALSE]}
       ELSE IF headKnown
       THEN {StatusAt(tip)} \cup (IF listed \ {tip} # {} THEN {lagging} ELSE {})
       ELSE {StatusAt(c) : c \in listed}

-----------------------------------------------------------------------------
\* Duty "repo CI refresh".

\* _monitored_repos and the call of gh, off the event loop.  The pass remembers
\* the head and its verdict at the call, for the properties.
Check ==
    /\ At("idle")
    /\ \/ /\ monitored # {} /\ present
          /\ \E known \in BOOLEAN : \E a \in Answers(known) :
               pass' = [pc |-> "record", queues |-> monitored, status |-> a,
                        known |-> known, head |-> tip, truth |-> Verdict(Outcomes(tip))]
       \/ /\ monitored = {} \/ ~present
          /\ pass' = [pc |-> "holds"]
    /\ UNCHANGED <<github, row, misses, brief, hold, live, world, events>>

OnDisk(t) == brief[t] # "absent"
FixMissing(fix, queues) == fix # 0 /\ \A q \in queues : ~OnDisk(<<q, fix>>)

\* Mutant of Suspect: an empty list at a commit with a verdict is believed.
SuspectGhOnly(s) == s.transient

\* A non-answer: gh failed, or no runs where this row already has a verdict.
Suspect(s) ==
    s.transient \/ (s.noRuns /\ row.sha = s.sha /\ row.state \in {"red", "green"})

\* set_repo_ci: a change of state clears the marker.
SetRepoCi(s) ==
    [state |-> s.state, sha |-> s.sha, fix |-> IF row.state = s.state THEN row.fix ELSE 0]

\* What follows a write: retire on every green, file a fix on a turn to red or
\* when the one that is marked is gone.
Refiles(s) == row.state = "red" /\ FixMissing(row.fix, pass.queues)

\* Mutant of AfterRecord: only the turn to green retires.
AfterRecordEdge(s) ==
    CASE s.state = "green" /\ row.state # "green"     -> "retire"
      [] s.state = "red" /\ (row.state # "red" \/ Refiles(s)) -> "spawn"
      [] OTHER                                        -> "holds"

AfterRecord(s) ==
    CASE s.state = "green"                            -> "retire"
      [] s.state = "red" /\ (row.state # "red" \/ Refiles(s)) -> "spawn"
      [] OTHER                                        -> "holds"

\* The rest of _refresh_repo_ci up to the next await with an effect.
Record ==
    LET s == pass.status
        held == Suspect(s) /\ misses + 1 < Tolerance
    IN /\ At("record")
       /\ misses' = IF Suspect(s) THEN (IF misses < Tolerance THEN misses + 1 ELSE misses)
                    ELSE 0
       /\ IF held THEN row' = row /\ pass' = [pc |-> "holds"]
          ELSE /\ row' = IF s.state = "red" /\ Refiles(s)
                         THEN [SetRepoCi(s) EXCEPT !.fix = 0] ELSE SetRepoCi(s)
               /\ pass' = IF AfterRecord(s) = "holds" THEN [pc |-> "holds"]
                          ELSE [pc |-> AfterRecord(s), queues |-> pass.queues, sha |-> s.sha]
       /\ UNCHANGED <<github, brief, hold, live, world, events>>

\* open_ci_fix_briefs: tagged, and nothing in the brief keeps it from running.
OpenFixes(queues) == {t \in queues \X Commit : brief[t] = "open"}

\* _retire_ci_fixes: what is outstanding and not running when it looks.
Retire ==
    /\ At("retire")
    /\ pass' = [pc |-> "drop", todo |-> OpenFixes(pass.queues) \ live]
    /\ UNCHANGED <<github, row, misses, brief, hold, live, world, events>>
RetireDrop ==
    /\ At("drop")
    /\ \/ \E t \in pass.todo :
            /\ brief' = [brief EXCEPT ![t] = "absent"]
            /\ pass' = [pass EXCEPT !.todo = @ \ {t}]
       \/ pass.todo = {} /\ pass' = [pc |-> "holds"] /\ UNCHANGED brief
    /\ UNCHANGED <<github, row, misses, hold, live, world, events>>

\* Mutant of SpawnScan: only this commit's brief is looked for.
SpawnScanBySha ==
    /\ At("spawn")
    /\ pass' = [pass EXCEPT !.pc = "create"]
    /\ UNCHANGED <<github, row, misses, brief, hold, live, world, events>>

\* _spawn_ci_fix: an open brief is adopted, whatever commit it names.
SpawnScan ==
    LET open == OpenFixes(pass.queues)
        first == CHOOSE t \in open : \A u \in open :
                     t[1] < u[1] \/ (t[1] = u[1] /\ t[2] <= u[2])
    IN /\ At("spawn")
       /\ \/ /\ open # {}
             /\ row' = [row EXCEPT !.fix = first[2]]
             /\ pass' = [pc |-> "holds"]
          \/ /\ open = {}
             /\ pass' = [pass EXCEPT !.pc = "create"]
             /\ UNCHANGED row
       /\ UNCHANGED <<github, misses, brief, hold, live, world, events>>

\* The queue it goes to, and create_task, which refuses a name that is taken:
\* the brief of this commit is then adopted as it is.
Target(queues) ==
    LET unpaused == queues \ paused
    IN Min(IF unpaused # {} THEN unpaused ELSE queues)
SpawnCreate ==
    LET t == <<Target(pass.queues), pass.sha>>
    IN /\ At("create")
       /\ \/ /\ OnDisk(t)
             /\ row' = [row EXCEPT !.fix = t[2]]
             /\ pass' = [pc |-> "holds"]
             /\ UNCHANGED brief
          \/ /\ ~OnDisk(t)
             /\ brief' = [brief EXCEPT ![t] = "bare"]
             /\ pass' = [pc |-> "tag", task |-> t]
             /\ UNCHANGED row
       /\ UNCHANGED <<github, misses, hold, live, world, events>>

\* _tag_ci_resolution reads the brief it made; the marker is written after it.
SpawnTag ==
    /\ At("tag")
    /\ \/ /\ OnDisk(pass.task)
          /\ brief' = [brief EXCEPT ![pass.task] = IF @ = "bare" THEN "open" ELSE @]
          /\ pass' = [pass EXCEPT !.pc = "mark"]
       \/ /\ ~OnDisk(pass.task)          \* the duty ends with the exception
          /\ pass' = [pc |-> "holds"] /\ UNCHANGED brief
    /\ UNCHANGED <<github, row, misses, hold, live, world, events>>
SpawnMark ==
    /\ At("mark")
    /\ row' = [row EXCEPT !.fix = pass.task[2]]
    /\ pass' = [pc |-> "holds"]
    /\ UNCHANGED <<github, misses, brief, hold, live, world, events>>

-----------------------------------------------------------------------------
\* Duty "hold set/clear".

Candidates == {t \in Task : brief[t] \in {"bare", "open"} /\ t[1] \notin paused}

\* is_ci_fix_task: the marker names it and its own tag agrees.
IsCiFix(t, fix) == fix # 0 /\ t[2] = fix /\ brief[t] = "open"

HoldsBegin ==
    /\ At("holds")
    /\ pass' = [pc |-> "hold", todo |-> Candidates, cands |-> Candidates,
                red |-> row.state = "red" /\ monitored # {} /\ present,
                fix |-> row.fix, unroutable |-> ~routable, reads |-> {}]
    /\ UNCHANGED <<github, row, misses, brief, hold, live, world, events>>

\* The hold a candidate gets, given the one its row has: no worker, no clone, a
\* red main.  A red main takes over no hold.
Unrouted(h) == IF pass.unroutable /\ h \notin {"unroutable", "operator"}
               THEN "unroutable" ELSE h
NewHold(t, h) ==
    CASE ~present                               -> "repo_unavailable"
      [] present /\ pass.red /\ ~IsCiFix(t, pass.fix) /\ Unrouted(h) = "none" -> "ci_red"
      [] OTHER                                  -> Unrouted(h)

\* The read of a row, and the write it leads to, are two awaits.
HoldRead ==
    /\ At("hold") /\ pass.reads = {} /\ pass.todo # {}
    /\ LET t == CHOOSE u \in pass.todo : TRUE
       IN pass' = [pass EXCEPT !.reads = {<<t, hold[t]>>}, !.todo = @ \ {t}]
    /\ UNCHANGED <<github, row, misses, brief, hold, live, world, events>>
HoldWrite ==
    /\ At("hold")
    /\ \E r \in pass.reads :
         hold' = IF NewHold(r[1], r[2]) = r[2] THEN hold
                 ELSE [hold EXCEPT ![r[1]] = NewHold(r[1], r[2])]
    /\ pass' = [pass EXCEPT !.reads = {}]
    /\ UNCHANGED <<github, row, misses, brief, live, world, events>>

\* Mutant of Cleared: only this pass's candidates are looked at.
ClearedCandidates(t) ==
    CASE hold[t] = "ci_red" /\ ~pass.red /\ t \in pass.cands  -> "none"
      [] hold[t] = "repo_unavailable" /\ present              -> "none"
      [] OTHER                                                -> hold[t]

\* The holds this duty owns go when their reason is gone.
Cleared(t) ==
    CASE hold[t] = "ci_red" /\ ~pass.red                     -> "none"
      [] hold[t] = "repo_unavailable" /\ present             -> "none"
      [] hold[t] = "unroutable" /\ t \in pass.cands /\ ~pass.unroutable -> "none"
      [] OTHER                                               -> hold[t]

HoldsClear ==
    /\ At("hold") /\ pass.reads = {} /\ pass.todo = {}
    /\ hold' = [t \in Task |-> Cleared(t)]
    /\ pass' = Resting
    /\ UNCHANGED <<github, row, misses, brief, live, world, events>>

-----------------------------------------------------------------------------
\* The others.

\* A poll: the row of the repository excludes all but the fix task.
Gated(t) == row.state = "red" /\ monitored # {} /\ ~IsCiFix(t, row.fix)
Lease(t) ==
    /\ t \in Candidates \ live
    /\ present /\ routable
    /\ hold[t] \notin {"unroutable", "operator"}
    /\ ~Gated(t)
    /\ live' = live \cup {t}
    /\ hold' = [hold EXCEPT ![t] = IF @ = "repo_unavailable" THEN "none" ELSE @]
    /\ UNCHANGED <<github, row, misses, brief, world, pass, events>>

\* An attempt lands on main (its brief goes, unless it stands for many), fails,
\* or is blocked for the operator.
Ends(t) ==
    /\ t \in live
    /\ live' = live \ {t}
    /\ \/ /\ tip < MaxCommits /\ tip' = tip + 1
          /\ brief' = [brief EXCEPT ![t] = IF t[2] = 0 THEN @ ELSE "absent"]
          /\ UNCHANGED hold
       \/ /\ t[2] > 0 /\ OnDisk(t)
          /\ brief' = [brief EXCEPT ![t] = "over"]
          /\ UNCHANGED <<tip, hold>>
       \/ /\ hold' = [hold EXCEPT ![t] = "operator"]
          /\ UNCHANGED <<tip, brief>>
    /\ UNCHANGED <<runs, row, misses, world, pass, events>>

Acts == events < MaxEvents /\ events' = events + 1

\* A workflow starts on a commit, ends; a run is repeated; a commit is pushed.
\* Only Check looks at GitHub, so that its runs may as well move between passes.
RunOf(c, w) ==
    /\ At("idle") /\ c <= tip
    /\ \/ runs[c][w] = "none" /\ runs' = [runs EXCEPT ![c][w] = "running"]
       \/ /\ runs[c][w] = "running"
          /\ \E o \in Conclusion : runs' = [runs EXCEPT ![c][w] = o]
    /\ UNCHANGED <<tip, row, misses, brief, hold, live, world, pass, events>>
Rerun(w) ==
    /\ Acts /\ At("idle")
    /\ runs[tip][w] \notin {"none", "running"}
    /\ runs' = [runs EXCEPT ![tip][w] = "running"]
    /\ UNCHANGED <<tip, row, misses, brief, hold, live, world, pass>>
Push ==
    /\ Acts /\ At("idle") /\ tip < MaxCommits /\ tip' = tip + 1
    /\ UNCHANGED <<runs, row, misses, brief, hold, live, world, pass>>

\* remove_task and reset_task; put_queue_ci_monitoring, pause, the clone and the
\* workers come and go.
Delete(t) ==
    /\ Acts /\ t[2] > 0 /\ OnDisk(t)
    /\ brief' = [brief EXCEPT ![t] = "absent"]
    /\ hold' = [hold EXCEPT ![t] = "none"]
    /\ UNCHANGED <<github, row, misses, live, world, pass>>
Reset(t) ==
    /\ Acts /\ hold[t] # "none"
    /\ hold' = [hold EXCEPT ![t] = "none"]
    /\ UNCHANGED <<github, row, misses, brief, live, world, pass>>
Flip(set, q) == IF q \in set THEN set \ {q} ELSE set \cup {q}
Settings ==
    /\ Acts
    /\ \/ \E q \in Queue : monitored' = Flip(monitored, q) /\ UNCHANGED <<paused, present, routable>>
       \/ \E q \in Queue : paused' = Flip(paused, q) /\ UNCHANGED <<monitored, present, routable>>
       \/ present' = ~present /\ UNCHANGED <<monitored, paused, routable>>
       \/ routable' = ~routable /\ UNCHANGED <<monitored, paused, present>>
    /\ UNCHANGED <<github, row, misses, brief, hold, live, pass>>

\* A restart: the pass and what is in memory are gone.
Crash ==
    /\ Acts /\ ~At("idle")
    /\ pass' = Resting /\ misses' = 0
    /\ UNCHANGED <<github, row, brief, hold, live, world>>

-----------------------------------------------------------------------------
Init ==
    /\ tip = 1 /\ runs = [c \in Commit |-> [w \in Workflow |-> "none"]]
    /\ row = [state |-> "", sha |-> 0, fix |-> 0]
    /\ misses = 0
    /\ brief = [t \in Task |-> IF t[2] = 0 /\ t[1] \in Plain THEN "bare" ELSE "absent"]
    /\ hold = [t \in Task |-> "none"]
    /\ live = {}
    /\ monitored = Queue /\ paused = {} /\ present = TRUE /\ routable = TRUE
    /\ pass = Resting
    /\ events = 0

Tick ==
    \/ Check \/ Record \/ Retire \/ RetireDrop \/ SpawnScan \/ SpawnCreate
    \/ SpawnTag \/ SpawnMark \/ HoldsBegin \/ HoldRead \/ HoldWrite \/ HoldsClear

Next ==
    \/ Tick \/ Push \/ Settings \/ Crash
    \/ \E w \in Workflow : Rerun(w) \/ \E c \in Commit : RunOf(c, w)
    \/ \E t \in Task : Lease(t) \/ Ends(t) \/ Delete(t) \/ Reset(t)

Spec == Init /\ [][Next]_vars

\* run_forever: the passes follow one another, and each goes on to its end.
FairSpec == Spec /\ WF_vars(Tick)

-----------------------------------------------------------------------------
\* One blip does not open the gate: while the head is a commit known red it stays
\* so until it has another verdict, unless gh has kept failing or could not say
\* what the head is.
NoBlip ==
    [][row.state = "red" /\ row'.state # "red" /\ row.sha = pass.head =>
           pass.truth # "red" \/ misses' = Tolerance \/ ~pass.known]_vars

\* One fix at a time: a fix task is filed only when the queues of this pass have
\* none that could run, also when main has moved to another red commit.
SpawnsAlone ==
    [][\A t \in Task : brief[t] = "absent" /\ brief'[t] = "bare" =>
           OpenFixes(pass.queues) = {}]_vars

\* Green work is retired: main does not stay green beside a fix task that could
\* run and that nobody runs.
Outstanding == OpenFixes(monitored) \ live
GreenRetires ==
    row.state = "green" /\ present /\ Outstanding # {} ~>
        row.state # "green" \/ ~present \/ Outstanding = {}

\* The gate opens again: a hold for a red main does not outlive it.
HeldForRed == {t \in Task : hold[t] = "ci_red"}
HoldsOpen ==
    row.state # "red" /\ HeldForRed # {} ~> row.state = "red" \/ HeldForRed = {}
=============================================================================
