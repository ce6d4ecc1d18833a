------------------------------ MODULE LandLog ------------------------------
(***************************************************************************)
(* What landing promises, without git: a log that only grows, in which the *)
(* work of an attempt is entered at most once, and one verdict per attempt *)
(* that is true when it is given.  Landing implements this specification   *)
(* with origin's main as the log.                                          *)
(***************************************************************************)
EXTENDS Sequences, SequencesExt

CONSTANT Attempt

VARIABLES
    log,      \* one entry per commit: the attempts whose work it brings in
    verdict   \* attempt -> what its submit was told

vars == <<log, verdict>>

Verdict == {"open", "landed", "refused", "other"}

Logged == UNION Range(log)

TypeOK ==
    /\ log \in Seq(SUBSET Attempt)
    /\ verdict \in [Attempt -> Verdict]

Init ==
    /\ log = << {} >>
    /\ verdict = [a \in Attempt |-> "open"]

\* A push appends commits, the squash last; an outsider's push appends commits
\* without work of ours.  No entry repeats work that an entry already has.
Extend ==
    /\ log' # log
    /\ IsPrefix(log, log')
    /\ \A i, j \in DOMAIN log' : i # j => log'[i] \cap log'[j] = {}
    /\ UNCHANGED verdict

\* A land, or the resolve of a refused one, is reported as landed.
Accept(a) ==
    /\ verdict[a] \in {"open", "refused"}
    /\ a \in Logged
    /\ verdict' = [verdict EXCEPT ![a] = "landed"]
    /\ UNCHANGED log

\* A conflict, or a push that was rejected to the last retry.
Refuse(a) ==
    /\ verdict[a] = "open"
    /\ a \notin Logged
    /\ verdict' = [verdict EXCEPT ![a] = "refused"]
    /\ UNCHANGED log

\* No claim about the log: the branch could not be fetched, the land was
\* interrupted, there was nothing to land.
Settle(a) ==
    /\ verdict[a] = "open"
    /\ verdict' = [verdict EXCEPT ![a] = "other"]
    /\ UNCHANGED log

Next == Extend \/ \E a \in Attempt : Accept(a) \/ Refuse(a) \/ Settle(a)

Spec == Init /\ [][Next]_vars
=============================================================================
