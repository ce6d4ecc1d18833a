----------------------------- MODULE MCManager -----------------------------
(***************************************************************************)
(* Small instances of Manager for TLC.                                     *)
(***************************************************************************)
EXTENDS Manager, TLC

CONSTANTS t1, t2, w1, w2

OrderedOne == t1 :> 1

TwoWorkers == Permutations({w1, w2})

Completed == [status |-> "completed", kind |-> "none", landable |-> TRUE,
              quarantine |-> FALSE]
NoChange == [Completed EXCEPT !.landable = FALSE]
WorkerError == [NoChange EXCEPT !.status = "error"]
SaysBlocked == [NoChange EXCEPT !.status = "blocked"]
Invalid == [WorkerError EXCEPT !.kind = "validation_error"]
Unavailable == [WorkerError EXCEPT !.kind = "backend_unavailable"]
Skipped == [NoChange EXCEPT !.status = "skipped"]

Landed == [kind |-> "landed", retryable |-> FALSE]
Behind == [kind |-> "checkout_behind", retryable |-> FALSE]
Conflict == [kind |-> "conflict", retryable |-> FALSE]
Rejected == [kind |-> "push_rejected", retryable |-> FALSE]
Transport == [kind |-> "transport_failed", retryable |-> TRUE]
JobRaised == [kind |-> "transport_failed", retryable |-> FALSE]

Lands == {Completed, WorkerError}
Ladder == {Completed, NoChange, WorkerError}
AllOutcomes == {Completed, NoChange, WorkerError, SaysBlocked, Invalid,
                Unavailable, Skipped}

OnlyLanded == {Landed}
LandsOrConflicts == {Landed, Conflict}
AllLands == {Landed, Behind, Conflict, Rejected, Transport, JobRaised}
=============================================================================
