------------------------------ MODULE Landing ------------------------------
(***************************************************************************)
(* The git side of a land (git/landing.py, git/sync.py, git/refs.py,       *)
(* git/transport.py, manager/landing.py) and its startup recovery: one     *)
(* target repository with its origin, the repo executor that runs one job  *)
(* at a time under the RepoLock, and everybody the lock does not bind: the *)
(* operator in the checkout, other pushers, GitHub, workers on other boxes. *)
(*                                                                         *)
(* A history is the sequence of its commits from the root, so that a       *)
(* prefix is an ancestor and a whole sequence stands for a sha.  A tree is *)
(* the set of changes it contains; Clash says which changes edit the same  *)
(* lines.  `n' tells apart two commits built from the same input.          *)
(***************************************************************************)
EXTENDS Integers, Sequences, FiniteSets, SequencesExt

CONSTANTS
    Attempt,      \* attempts that are landed; each makes one change
    Remote,       \* those whose worker runs on another box
    Foreign,      \* changes others push to origin
    Local,        \* changes the operator makes in the checkout
    Stray,        \* what a superseded worker publishes to a WIP ref
    Clash,        \* sets of two changes that edit the same lines
    Resolvable,   \* attempts an operator resolves after a conflict
    Mode,         \* landing_mode: "none", "push" or "pr"
    Rendezvous,   \* a rendezvous remote is configured
    AgentsLand,   \* agents may commit to main themselves
    SwitchAnyTime,\* the operator changes branches while a job runs
    MaxRetries,   \* max_push_retries
    MaxFaults,    \* bound: fetches and pushes that fail
    MaxCrashes    \* bound: manager crashes

Nobody == "nobody"
NoRef == <<>>
Change == Attempt \cup Foreign \cup Local \cup {Stray}

ASSUME LandingConstants ==
    /\ Remote \subseteq Attempt /\ Resolvable \subseteq Attempt
    /\ Nobody \notin Attempt /\ Stray \notin Attempt \cup Foreign \cup Local
    /\ Attempt \cap (Foreign \cup Local) = {}
    /\ Mode \in {"none", "push", "pr"}
    /\ Rendezvous \in BOOLEAN /\ AgentsLand \in BOOLEAN
    /\ SwitchAnyTime \in BOOLEAN
    /\ MaxRetries \in Nat /\ MaxFaults \in Nat /\ MaxCrashes \in Nat

VARIABLES
    origin,     \* origin's main
    local,      \* refs/heads/main of the manager's clone
    branch,     \* attempt -> its task branch in that clone, or NoRef
    wip,        \* attempt -> its WIP ref on the rendezvous remote, or NoRef
    pr,         \* attempt -> the head of its pull request, or NoRef
    base,       \* attempt -> base_ref: main when it was leased, or NoRef
    head,       \* attempt -> head_sha it submitted, or NoRef
    phase,      \* attempt -> how far it is
    verdict,    \* attempt -> the kind of the LandOutcome stored for it
    resolved,   \* attempt -> the commit its resolver left on main, or NoRef
    job,        \* the job that holds the RepoLock
    throttled,  \* the sync throttle has a mark for this repository
    checkout,   \* the operator's checkout
    dirty,      \* changes the operator has not committed
    ever,       \* every change that was ever on local main
    reported,   \* changes named in the dropped_commits of some outcome
    mgr,        \* "up" or "recovering"
    faults, crashes

repo == <<origin, local, ever>>
refs == <<branch, wip, pr>>
rows == <<base, head, phase, verdict, resolved>>
oper == <<checkout, dirty>>
ends == <<faults, crashes>>
vars == <<repo, refs, rows, job, throttled, oper, reported, mgr, ends>>

Commit == [tree: SUBSET Change, att: Attempt \cup {Nobody}, n: Nat]
Root == << [tree |-> {}, att |-> Nobody, n |-> 0] >>

SuccessKinds == {"landed", "behind", "adopted"}

\* kind: "land", "adopt" (a submit without a branch), "cherry" (a resolve) or
\* "sync" (the poll's refresh).  tip and lose are what a divergence rescue is
\* about to install and to drop; lost is what this job has dropped.
Idle == [kind |-> "sync", att |-> Nobody, pc |-> "idle", try |-> 0,
         from |-> NoRef, tip |-> NoRef, lose |-> {}, lost |-> {},
         seen |-> [ref |-> "main", at |-> NoRef], rerun |-> FALSE,
         res |-> "landed"]

-----------------------------------------------------------------------------
\* Histories, merges and replays.

Tree(h) == Last(h).tree
IsAncestor(h, g) == IsPrefix(h, g)
MergeBase(h, g) == LongestCommonPrefix({h, g})

\* git merge-tree: the changes `theirs' makes since `mb' meet everything that
\* `ours' added or lacks.
Conflicting(mb, ours, theirs) ==
    \E c \in theirs \ mb, d \in (ours \ mb) \cup (mb \ ours) : {c, d} \in Clash
Merged(mb, ours, theirs) == ours \cup (theirs \ mb)

\* replay_commit: a cherry-pick of the last commit of h onto tip.  A redundant
\* one is tip itself, a conflicting one has no result.
ReplayConflicts(tip, h) == Conflicting(Tree(Front(h)), Tree(tip), Tree(h))
Replay(tip, h) ==
    LET tree == Merged(Tree(Front(h)), Tree(tip), Tree(h))
    IN IF tree = Tree(tip) THEN tip
       ELSE Append(tip, [Last(h) EXCEPT !.tree = tree])

\* _unpushed_commits: what head has and target has not, oldest first.
Unpushed(target, h) ==
    [i \in 1..(Len(h) - Len(MergeBase(h, target))) |->
        SubSeq(h, 1, Len(MergeBase(h, target)) + i)]

\* The divergence rescue: replay what is unpushed, drop what conflicts.
ReplayOne(acc, c) ==
    IF ReplayConflicts(acc.tip, c)
    THEN [acc EXCEPT !.lose = @ \cup (Tree(c) \ Tree(Front(c)))]
    ELSE [acc EXCEPT !.tip = Replay(acc.tip, c)]
Rescue(target, h) ==
    LET todo == Unpushed(target, h)
        done[i \in 0..Len(todo)] == IF i = 0 THEN [tip |-> target, lose |-> {}]
                                    ELSE ReplayOne(done[i - 1], todo[i])
    IN done[Len(todo)]

Trailers(h) == {h[i].att : i \in DOMAIN h}

\* find_landed_attempt: the idempotency trailer on local main.
FindLandedAttempt(a) == a \in Trailers(local)

\* Two productions of the same land are different commits.
Stamp == crashes * (MaxRetries + 1) + job.try

\* Mutant of SquashFails: an empty squash is committed.
SquashFailsNotEmpty(h, a) ==
    \/ branch[a] = NoRef
    \/ Conflicting(Tree(MergeBase(h, branch[a])), Tree(h), Tree(branch[a]))

\* squash_produce onto h: a missing branch, a conflict and an empty squash are
\* all refused as CONFLICT.
SquashFails(h, a) ==
    \/ branch[a] = NoRef
    \/ LET mb == Tree(MergeBase(h, branch[a]))
       IN \/ Conflicting(mb, Tree(h), Tree(branch[a]))
          \/ Merged(mb, Tree(h), Tree(branch[a])) = Tree(h)
Squash(h, a) ==
    Append(h, [tree |-> Merged(Tree(MergeBase(h, branch[a])), Tree(h),
                               Tree(branch[a])),
               att |-> a, n |-> Stamp])

\* cherry_produce onto h: the resolved commit itself, a redundant replay
\* (without a trailer) or the replay with the trailer.
CherryFails(h, a) == resolved[a] # h /\ ReplayConflicts(h, resolved[a])
Cherry(h, a) ==
    LET g == Replay(h, resolved[a])
    IN IF resolved[a] = h \/ g = h THEN h
       ELSE [g EXCEPT ![Len(g)].att = a]

ProduceFails(h) ==
    IF job.kind = "cherry" THEN CherryFails(h, job.att)
                           ELSE SquashFails(h, job.att)
Produced(h) ==
    IF job.kind = "cherry" THEN Cherry(h, job.att) ELSE Squash(h, job.att)

-----------------------------------------------------------------------------
\* The operator's checkout.

\* checkout_state, taken before the ref moves: an attached HEAD reads main.
CheckoutState ==
    [ref |-> checkout.ref,
     at |-> IF checkout.ref = "main" THEN local ELSE checkout.at]

\* read-tree -m -u refuses when it would overwrite uncommitted work.
Overlaps(old, new) ==
    \E c \in dirty, d \in (Tree(new) \ Tree(old)) \cup (Tree(old) \ Tree(new)) :
        {c, d} \in Clash

\* advance_checkout returns False: CHECKOUT_BEHIND.
LeftBehind(seen, new) ==
    /\ seen.at # new
    /\ \/ seen.ref = "detached"
       \/ seen.ref = "main" /\ Overlaps(seen.at, new)

\* Mutant of Advanced: a refused advance leaves HEAD attached.
AdvancedAttached(seen, new) ==
    IF seen.at = new \/ seen.ref # "main" \/ Overlaps(seen.at, new) THEN checkout
    ELSE IF checkout.ref # "main" THEN [checkout EXCEPT !.coherent = FALSE]
    ELSE [checkout EXCEPT !.at = new]

\* What advance_checkout does to the checkout.  It acts on what it saw before
\* the ref moved: a checkout that changed in between is written over.
Advanced(seen, new) ==
    IF seen.at = new \/ seen.ref # "main" THEN checkout
    ELSE IF checkout.ref # "main" THEN [checkout EXCEPT !.coherent = FALSE]
    ELSE IF Overlaps(seen.at, new)
         THEN [checkout EXCEPT !.ref = "detached", !.at = seen.at]
         ELSE [checkout EXCEPT !.at = new]

-----------------------------------------------------------------------------
\* The job of the repo executor.

At(pc) == job.pc = pc
Goto(pc) == job' = [job EXCEPT !.pc = pc]
End(res) == job' = [job EXCEPT !.pc = "report", !.res = res]
Fault == faults < MaxFaults /\ faults' = faults + 1

\* The loop syncs when a remote is configured and the mode uses it; a resolve
\* and the poll's refresh always do.
Syncs == Rendezvous /\ (Mode # "none" \/ job.kind # "land")
RescueDivergence == job.try > 0 \/ job.kind = "cherry"

\* land_locked: a branch from another box is fetched into the clone first.
LandStart(a, rerun) ==
    /\ At("idle") /\ phase[a] = "queued"
    /\ job' = [Idle EXCEPT !.kind = IF branch[a] = base[a] THEN "adopt" ELSE "land",
                           !.att = a, !.rerun = rerun,
                           !.pc = IF a \in Remote THEN "fetch" ELSE "adopt"]
    /\ UNCHANGED <<repo, refs, rows, throttled, oper, reported, mgr, ends>>

\* Mutant of LandFetch: the fetched tip is not compared with head_sha.
LandFetchTrusting ==
    /\ At("fetch") /\ Rendezvous /\ wip[job.att] # NoRef
    /\ branch' = [branch EXCEPT ![job.att] = wip[job.att]]
    /\ Goto("adopt")
    /\ UNCHANGED <<repo, wip, pr, rows, throttled, oper, reported, mgr, ends>>

LandFetch ==
    LET a == job.att
    IN /\ At("fetch")
       /\ \/ /\ ~Rendezvous \/ wip[a] = NoRef
             /\ End("transport")
             /\ UNCHANGED <<branch, faults>>
          \/ Rendezvous /\ Fault /\ End("transport") /\ UNCHANGED branch
          \/ /\ Rendezvous /\ wip[a] # NoRef
             /\ branch' = [branch EXCEPT ![a] = wip[a]]
             /\ IF wip[a] = head[a] THEN Goto("adopt") ELSE End("transport")
             /\ UNCHANGED faults
       /\ UNCHANGED <<repo, wip, pr, rows, throttled, oper, reported, mgr, crashes>>

\* A missing branch has no commits either: rev-list prints nothing.
HasCommits(a) == branch[a] # NoRef /\ ~IsAncestor(branch[a], local)
MainAdvanced(a) == local # base[a]

\* _adopt_agent_land_on_main with its best-effort push; a submit that brought
\* nothing to land ends here.
LandAdopt ==
    LET a == job.att
        adopts == MainAdvanced(a) /\ ~HasCommits(a)
    IN /\ At("adopt")
       /\ \/ /\ adopts
             /\ End("adopted")
             /\ branch' = [branch EXCEPT ![a] = NoRef]
             /\ \/ Mode = "push" /\ IsAncestor(origin, local) /\ origin' = local
                \/ UNCHANGED origin
             /\ pr' = IF Mode = "pr" THEN [pr EXCEPT ![a] = local] ELSE pr
          \/ /\ ~adopts
             /\ IF job.kind = "adopt" THEN End("no_changes") ELSE Goto("sync")
             /\ UNCHANGED <<origin, branch, pr>>
       /\ UNCHANGED <<local, ever, wip, rows, throttled, oper, reported, mgr, ends>>

\* sync_main_locked up to its ref move.  The first sync of a job may be skipped
\* by the throttle; a fetch that fails leaves main alone; a divergence is
\* rescued only on a retry and for a resolve.
Sync ==
    LET rescue == Rescue(origin, local)
        behind == IsAncestor(local, origin)
        after == IF job.kind = "sync" THEN Idle ELSE [job EXCEPT !.pc = "produce"]
    IN /\ At("sync")
       /\ \/ /\ ~Syncs \/ (job.try = 0 /\ throttled /\ job.kind # "cherry")
             /\ job' = after
             /\ UNCHANGED <<throttled, faults>>
          \/ Syncs /\ Fault /\ job' = after /\ throttled' = TRUE
          \/ /\ Syncs
             /\ IF local = origin \/ ~(behind \/ RescueDivergence)
                THEN job' = after
                ELSE job' = [job EXCEPT !.pc = "swap", !.from = local,
                                        !.tip = IF behind THEN origin ELSE rescue.tip,
                                        !.lose = IF behind THEN {} ELSE rescue.lose,
                                        !.seen = CheckoutState]
             /\ throttled' = TRUE
             /\ UNCHANGED faults
       /\ UNCHANGED <<repo, refs, rows, oper, reported, mgr, crashes>>

\* The compare-and-swap of the sync: a commit that raced it wins.
SyncSwap ==
    /\ At("swap")
    /\ IF local = job.from
       THEN /\ local' = job.tip
            /\ ever' = ever \cup Tree(job.tip)
            /\ job' = [job EXCEPT !.pc = "sync_advance", !.lost = @ \cup job.lose]
       ELSE /\ job' = IF job.kind = "sync" THEN Idle ELSE [job EXCEPT !.pc = "produce"]
            /\ UNCHANGED <<local, ever>>
    /\ UNCHANGED <<origin, refs, rows, throttled, oper, reported, mgr, ends>>

SyncAdvance ==
    /\ At("sync_advance")
    /\ checkout' = Advanced(job.seen, job.tip)
    /\ job' = IF job.kind = "sync" THEN Idle ELSE [job EXCEPT !.pc = "produce"]
    /\ UNCHANGED <<repo, refs, rows, throttled, dirty, reported, mgr, ends>>

\* Mutant of Produce: a conflict tears the branch down.
ProduceTearsDown ==
    /\ At("produce") /\ ProduceFails(local)
    /\ End("conflict")
    /\ branch' = [branch EXCEPT ![job.att] = NoRef]
    /\ UNCHANGED <<repo, wip, pr, rows, throttled, oper, reported, mgr, ends>>

\* produce(base) on the tip the sync left, and the checkout as seen now.
Produce ==
    /\ At("produce")
    /\ IF ProduceFails(local)
       THEN End("conflict")
       ELSE job' = [job EXCEPT !.pc = IF Mode = "push" THEN "push" ELSE "cas",
                               !.from = local, !.tip = Produced(local),
                               !.seen = CheckoutState]
    /\ UNCHANGED <<repo, refs, rows, throttled, oper, reported, mgr, ends>>

\* A refused push or swap re-syncs and produces again, a bounded number of times.
Retry ==
    IF (Syncs \/ Mode # "push") /\ job.try < MaxRetries
    THEN job' = [job EXCEPT !.pc = "sync", !.try = @ + 1]
    ELSE End("rejected")

\* push_main is not forced: origin takes only descendants of what it has.
Push ==
    /\ At("push")
    /\ \/ /\ IsAncestor(origin, job.tip)
          /\ origin' = job.tip
          /\ Goto("cas") /\ UNCHANGED faults
       \/ /\ \/ ~IsAncestor(origin, job.tip) /\ UNCHANGED faults
             \/ Fault
          /\ Retry
          /\ UNCHANGED origin
    /\ UNCHANGED <<local, ever, refs, rows, throttled, oper, reported, mgr, crashes>>

\* Mutant of Cas: a lost race is waited out.
CasWaits ==
    /\ At("cas") /\ local = job.from
    /\ local' = job.tip
    /\ ever' = ever \cup Tree(job.tip)
    /\ Goto("advance")
    /\ UNCHANGED <<origin, refs, rows, throttled, oper, reported, mgr, ends>>

\* The compare-and-swap of the land.  When a pushed land loses it, origin has
\* the commit and the land is reported all the same.
Cas ==
    /\ At("cas")
    /\ IF local = job.from
       THEN /\ local' = job.tip
            /\ ever' = ever \cup Tree(job.tip)
            /\ Goto("advance")
       ELSE /\ IF Mode = "push"
               THEN job' = [job EXCEPT !.pc = "teardown", !.res = "landed"]
               ELSE Retry
            /\ UNCHANGED <<local, ever>>
    /\ UNCHANGED <<origin, refs, rows, throttled, oper, reported, mgr, ends>>

Advance ==
    /\ At("advance")
    /\ checkout' = Advanced(job.seen, job.tip)
    /\ job' = [job EXCEPT !.pc = IF Mode = "pr" THEN "open_pr" ELSE "teardown",
                          !.res = IF LeftBehind(job.seen, job.tip) THEN "behind"
                                                                   ELSE "landed"]
    /\ UNCHANGED <<repo, refs, rows, throttled, dirty, reported, mgr, ends>>

\* open_pr is best effort: a failed push of the branch only costs the PR.
OpenPr ==
    /\ At("open_pr")
    /\ Goto("teardown")
    /\ \/ pr' = [pr EXCEPT ![job.att] = job.tip] /\ UNCHANGED faults
       \/ Fault /\ UNCHANGED pr
    /\ UNCHANGED <<repo, branch, wip, rows, throttled, oper, reported, mgr, crashes>>

\* Worktree and branch go, then the consumed WIP ref, best effort.  A resolve
\* has no branch left to tear down.
Teardown ==
    /\ At("teardown")
    /\ Goto("report")
    /\ branch' = IF job.kind = "cherry" THEN branch ELSE [branch EXCEPT ![job.att] = NoRef]
    /\ \/ wip' = IF job.att \in Remote THEN [wip EXCEPT ![job.att] = NoRef] ELSE wip
       \/ UNCHANGED wip
    /\ UNCHANGED <<repo, pr, rows, throttled, oper, reported, mgr, ends>>

\* Mutants of ReportLand: the conflict of a re-run is believed; the drops are
\* left out of the outcome.
ReportLandBelieving ==
    LET a == job.att
    IN /\ At("report") /\ job.kind \in {"land", "adopt"}
       /\ verdict' = [verdict EXCEPT ![a] = job.res]
       /\ reported' = reported \cup job.lost
       /\ phase' = [phase EXCEPT ![a] = "done"]
       /\ job' = Idle
       /\ UNCHANGED <<repo, refs, base, head, resolved, throttled, oper, mgr, ends>>
ReportLandSilent ==
    LET a == job.att
    IN /\ At("report") /\ job.kind \in {"land", "adopt"}
       /\ verdict' = [verdict EXCEPT ![a] = job.res]
       /\ phase' = [phase EXCEPT ![a] = "done"]
       /\ job' = Idle
       /\ UNCHANGED <<repo, refs, base, head, resolved, throttled, oper, reported,
                      mgr, ends>>

\* The outcome is stored, with the commits the job's rescues dropped.  A re-run
\* that ends in a conflict looks for the trailer once more before it is believed.
ReportLand ==
    LET a == job.att
        found == job.rerun /\ job.res = "conflict" /\ FindLandedAttempt(a)
    IN /\ At("report") /\ job.kind \in {"land", "adopt"}
       /\ verdict' = [verdict EXCEPT ![a] = IF found THEN "landed" ELSE job.res]
       /\ reported' = IF found THEN reported ELSE reported \cup job.lost
       /\ phase' = [phase EXCEPT ![a] = "done"]
       /\ job' = Idle
       /\ UNCHANGED <<repo, refs, base, head, resolved, throttled, oper, mgr, ends>>

\* push_resolved_main_locked returns the sha of a push, and the detail, drops
\* included, of a failure.
ReportResolve ==
    LET a == job.att
        ok == job.res \in SuccessKinds
    IN /\ At("report") /\ job.kind = "cherry"
       /\ verdict' = IF ok THEN [verdict EXCEPT ![a] = "landed"] ELSE verdict
       /\ reported' = IF ok THEN reported ELSE reported \cup job.lost
       /\ phase' = [phase EXCEPT ![a] = "done"]
       /\ job' = Idle
       /\ UNCHANGED <<repo, refs, base, head, resolved, throttled, oper, mgr, ends>>

JobStep ==
    \/ LandFetch \/ LandAdopt \/ Sync \/ SyncSwap \/ SyncAdvance \/ Produce
    \/ Push \/ Cas \/ Advance \/ OpenPr \/ Teardown \/ ReportLand \/ ReportResolve

-----------------------------------------------------------------------------
\* Leases, workers and the resolver.

\* The poll refreshes main, throttled and without a rescue.
PollSync ==
    /\ mgr = "up" /\ At("idle") /\ Rendezvous
    /\ job' = [Idle EXCEPT !.pc = "sync"]
    /\ UNCHANGED <<repo, refs, rows, throttled, oper, reported, mgr, ends>>

\* canonical_head is pinned as base_ref; a worker beside the manager cuts its
\* worktree from it.
Lease(a) ==
    /\ mgr = "up" /\ phase[a] = "ready"
    /\ phase' = [phase EXCEPT ![a] = "leased"]
    /\ base' = [base EXCEPT ![a] = local]
    /\ branch' = IF a \in Remote THEN branch ELSE [branch EXCEPT ![a] = local]
    /\ UNCHANGED <<repo, wip, pr, head, verdict, resolved, job, throttled, oper,
                   reported, mgr, ends>>

\* The worker commits, publishes its WIP ref from another box, and submits.
Submit(a) ==
    LET tip == Append(base[a], [tree |-> Tree(base[a]) \cup {a}, att |-> Nobody, n |-> 0])
    IN /\ mgr = "up" /\ phase[a] = "leased" /\ a \notin Tree(local)
       /\ phase' = [phase EXCEPT ![a] = "queued"]
       /\ head' = [head EXCEPT ![a] = tip]
       /\ IF a \in Remote
          THEN wip' = [wip EXCEPT ![a] = tip] /\ UNCHANGED branch
          ELSE branch' = [branch EXCEPT ![a] = tip] /\ UNCHANGED wip
       /\ UNCHANGED <<repo, pr, base, verdict, resolved, job, throttled, oper,
                      reported, mgr, ends>>

\* The agent commits to main itself, in the checkout.
AgentLands(a) ==
    /\ AgentsLand /\ a \notin Remote /\ phase[a] = "leased" /\ a \notin Tree(local)
    /\ checkout.ref = "main" /\ checkout.at = local
    /\ local' = Append(local, [tree |-> Tree(local) \cup {a}, att |-> Nobody, n |-> 0])
    /\ checkout' = [checkout EXCEPT !.at = local']
    /\ ever' = ever \cup {a}
    /\ UNCHANGED <<origin, refs, rows, job, throttled, dirty, reported, mgr, ends>>

SubmitNothing(a) ==
    /\ AgentsLand /\ mgr = "up" /\ a \notin Remote /\ phase[a] = "leased"
    /\ phase' = [phase EXCEPT ![a] = "queued"]
    /\ UNCHANGED <<repo, refs, base, head, verdict, resolved, job, throttled, oper,
                   reported, mgr, ends>>

\* A worker whose attempt was superseded publishes to the same ref: refs are
\* named after the task and the push is forced.
StalePublish(a) ==
    /\ a \in Remote /\ wip[a] # NoRef /\ wip[a] = head[a]
    /\ wip' = [wip EXCEPT ![a] =
                 Append(base[a], [tree |-> Tree(base[a]) \cup {Stray},
                                  att |-> Nobody, n |-> 0])]
    /\ UNCHANGED <<repo, branch, pr, rows, job, throttled, oper, reported, mgr, ends>>

\* squash_to_main by the resolver process, under the lock, without a remote: the
\* conflict is settled against local main and the branch is consumed.
ResolverLands(a) ==
    /\ a \in Resolvable /\ phase[a] = "done" /\ verdict[a] = "conflict"
    /\ Mode = "push" /\ Rendezvous /\ At("idle") /\ branch[a] # NoRef
    /\ a \notin Tree(local)
    /\ LET tip == Append(local, [tree |-> Tree(local) \cup {a}, att |-> Nobody, n |-> 0])
       IN /\ local' = tip
          /\ resolved' = [resolved EXCEPT ![a] = tip]
          /\ checkout' = Advanced(CheckoutState, tip)
    /\ ever' = ever \cup {a}
    /\ branch' = [branch EXCEPT ![a] = NoRef]
    /\ phase' = [phase EXCEPT ![a] = "resolving"]
    /\ UNCHANGED <<origin, wip, pr, base, head, verdict, job, throttled, dirty,
                   reported, mgr, ends>>

\* worker_resolve_result hands the commit to push_resolved_main_locked.
CherryStart(a) ==
    /\ mgr = "up" /\ At("idle") /\ phase[a] = "resolving"
    /\ job' = [Idle EXCEPT !.kind = "cherry", !.att = a, !.pc = "sync"]
    /\ UNCHANGED <<repo, refs, rows, throttled, oper, reported, mgr, ends>>

-----------------------------------------------------------------------------
\* Everybody the lock does not bind.

ForeignPush(c) ==
    /\ c \notin Tree(origin)
    /\ origin' = Append(origin, [tree |-> Tree(origin) \cup {c}, att |-> Nobody, n |-> 0])
    /\ UNCHANGED <<local, ever, refs, rows, job, throttled, oper, reported, mgr, ends>>

\* Auto-merge squashes the pull request onto origin's main.
GithubMerge(a) ==
    /\ pr[a] # NoRef
    /\ LET mb == Tree(MergeBase(origin, pr[a]))
       IN /\ ~Conflicting(mb, Tree(origin), Tree(pr[a]))
          /\ origin' = Append(origin, [tree |-> Merged(mb, Tree(origin), Tree(pr[a])),
                                       att |-> Nobody, n |-> 0])
    /\ pr' = [pr EXCEPT ![a] = NoRef]
    /\ UNCHANGED <<local, ever, branch, wip, rows, job, throttled, oper, reported,
                   mgr, ends>>

OperatorEdit(c) ==
    /\ c \notin dirty \cup ever
    /\ dirty' = dirty \cup {c}
    /\ UNCHANGED <<repo, refs, rows, job, throttled, checkout, reported, mgr, ends>>

OperatorCommit(c) ==
    /\ c \in dirty /\ checkout.ref = "main" /\ checkout.at = local
    /\ local' = Append(local, [tree |-> Tree(local) \cup {c}, att |-> Nobody, n |-> 0])
    /\ checkout' = [checkout EXCEPT !.at = local']
    /\ dirty' = dirty \ {c}
    /\ ever' = ever \cup {c}
    /\ UNCHANGED <<origin, refs, rows, job, throttled, reported, mgr, ends>>

\* git checkout: to some other branch, or back to main.
OperatorSwitch ==
    /\ At("idle") \/ SwitchAnyTime
    /\ \/ checkout.ref = "main" /\ checkout.at = local
          /\ checkout' = [checkout EXCEPT !.ref = "other"]
       \/ /\ checkout.ref # "main" /\ ~Overlaps(checkout.at, local)
          /\ checkout' = [checkout EXCEPT !.ref = "main", !.at = local]
    /\ UNCHANGED <<repo, refs, rows, job, throttled, dirty, reported, mgr, ends>>

-----------------------------------------------------------------------------
\* Crash and startup recovery.

\* The process dies.  Children of a resolve are reaped, so its commit stays
\* where it is and the task stays blocked.
Crash ==
    /\ crashes < MaxCrashes
    /\ crashes' = crashes + 1
    /\ job' = Idle /\ throttled' = FALSE /\ mgr' = "recovering"
    /\ phase' = [a \in Attempt |-> IF phase[a] = "resolving" THEN "done" ELSE phase[a]]
    /\ UNCHANGED <<repo, refs, base, head, verdict, resolved, oper, reported, faults>>

\* Rung 1: the trailer on local main proves the land.
RecoverLanded(a) ==
    /\ mgr = "recovering" /\ At("idle") /\ phase[a] = "queued" /\ FindLandedAttempt(a)
    /\ verdict' = [verdict EXCEPT ![a] = "landed"]
    /\ phase' = [phase EXCEPT ![a] = "done"]
    /\ UNCHANGED <<repo, refs, base, head, resolved, job, throttled, oper, reported,
                   mgr, ends>>

\* Rung 2: the branch, or a WIP ref to fetch it from, is still there.
Recoverable(a) == branch[a] # NoRef \/ (a \in Remote /\ Rendezvous)
RecoverReenqueue(a) ==
    mgr = "recovering" /\ ~FindLandedAttempt(a) /\ Recoverable(a) /\ LandStart(a, TRUE)

\* Rung 3: neither provable nor re-runnable.
RecoverPark(a) ==
    /\ mgr = "recovering" /\ At("idle") /\ phase[a] = "queued"
    /\ ~FindLandedAttempt(a) /\ ~Recoverable(a)
    /\ verdict' = [verdict EXCEPT ![a] = "interrupted"]
    /\ phase' = [phase EXCEPT ![a] = "done"]
    /\ UNCHANGED <<repo, refs, base, head, resolved, job, throttled, oper, reported,
                   mgr, ends>>

RecoveryDone ==
    /\ mgr = "recovering" /\ At("idle") /\ \A a \in Attempt : phase[a] # "queued"
    /\ mgr' = "up"
    /\ UNCHANGED <<repo, refs, rows, job, throttled, oper, reported, ends>>

-----------------------------------------------------------------------------
Init ==
    /\ origin = Root /\ local = Root /\ ever = {}
    /\ branch = [a \in Attempt |-> NoRef] /\ wip = branch /\ pr = branch
    /\ base = branch /\ head = branch /\ resolved = branch
    /\ phase = [a \in Attempt |-> "ready"]
    /\ verdict = [a \in Attempt |-> "none"]
    /\ job = Idle
    /\ throttled = FALSE
    /\ checkout = [ref |-> "main", at |-> Root, coherent |-> TRUE]
    /\ dirty = {} /\ reported = {}
    /\ mgr = "up"
    /\ faults = 0 /\ crashes = 0

Start(a) == mgr = "up" /\ LandStart(a, FALSE)

Recover == (\E a \in Attempt : RecoverLanded(a) \/ RecoverReenqueue(a)
                               \/ RecoverPark(a)) \/ RecoveryDone

Next ==
    \/ JobStep \/ PollSync \/ Recover \/ Crash
    \/ \E a \in Attempt : \/ Start(a) \/ Lease(a) \/ Submit(a) \/ AgentLands(a)
                          \/ SubmitNothing(a) \/ StalePublish(a)
                          \/ ResolverLands(a) \/ CherryStart(a) \/ GithubMerge(a)
    \/ \E c \in Foreign : ForeignPush(c)
    \/ \E c \in Local : OperatorEdit(c) \/ OperatorCommit(c)
    \/ OperatorSwitch

\* The executor's thread keeps running its job and takes the next one; startup
\* goes through its ladder.
Fairness ==
    /\ WF_vars(JobStep) /\ WF_vars(Recover)
    /\ \A a \in Attempt : SF_vars(Start(a))

Spec == Init /\ [][Next]_vars
FairSpec == Spec /\ Fairness

-----------------------------------------------------------------------------
\* Whatever becomes of an attempt's WIP ref, content that was not verified
\* against the submitted head_sha reaches neither main (land_locked re-fetches
\* and re-verifies on every run).
VerifiedOnly == Stray \notin ever \cup Tree(origin)

\* An idempotency trailer is on at most one commit of main, here and on origin,
\* however often a land is re-run, re-produced or replayed by a rescue.
TrailerOnce ==
    \A h \in {origin, local} : \A i, j \in DOMAIN h :
        h[i].att = h[j].att /\ h[i].att # Nobody => i = j

\* A refused land leaves the validated work where a resolve can find it: on its
\* branch, or on main (manager/landing.py, the docstring of the module).
WorkKept ==
    \A a \in Attempt : verdict[a] \in {"conflict", "rejected"} /\ branch[a] = NoRef =>
        a \in Tree(local) \cup Tree(origin)

\* No commit leaves local main silently: what a divergence rescue dropped is
\* named in the outcome of the job that dropped it (_noting_drops).
DropsReported == ever \subseteq Tree(local) \cup reported \cup job.lost

\* A ref move never changes what `git status' says in the checkout: an attached
\* HEAD and the index move together, except inside the job that moves them.
CheckoutCoherent ==
    /\ checkout.coherent
    /\ checkout.ref = "main" /\ checkout.at # local =>
         job.pc \in {"advance", "sync_advance"}

\* A land that is queued is settled, whatever others push or commit meanwhile.
LandSettles == \A a \in Attempt : phase[a] = "queued" ~> phase[a] = "done"

\* Origin's main and the verdicts implement the land log: main only grows, work
\* enters it once, "landed" and "refused" are true when they are stored.
Entry(h, i) == (h[i].tree \ (IF i = 1 THEN {} ELSE h[i - 1].tree)) \cap Attempt
Answer(v) == CASE v = "none" -> "open"
               [] v \in {"landed", "behind"} -> "landed"
               [] v \in {"conflict", "rejected"} -> "refused"
               [] OTHER -> "other"
Log == INSTANCE LandLog WITH
    log <- [i \in DOMAIN origin |-> Entry(origin, i)],
    verdict <- [a \in Attempt |-> Answer(verdict[a])]
ImplementsLog == Log!Spec
=============================================================================
