----------------------------- MODULE MCWorkflow -----------------------------
(***************************************************************************)
(* Small instances of Workflow for TLC: a definition with a cycle, a code  *)
(* step in its middle and a split at its end.                              *)
(***************************************************************************)
EXTENDS Workflow, TLC

CONSTANTS w1, w2

LoopKind == "plan" :> "doc" @@ "implement" :> "code" @@ "split" :> "split"
LoopSignals == "plan" :> ("clear" :> "split") @@ "implement" :> <<>>
                 @@ "split" :> <<>>
LoopNext == "plan" :> "implement" @@ "implement" :> "plan" @@ "split" :> End
LoopVisits == "plan" :> 2 @@ "implement" :> 1 @@ "split" :> 1
LoopInputs == "plan" :> {} @@ "implement" :> {"plan"} @@ "split" :> {"plan"}
LoopOutput == "plan" :> "plan"

TwoWorkers == Permutations({w1, w2})

Completed == [status |-> "completed", kind |-> "none", landable |-> TRUE,
              quarantine |-> FALSE]
Error == [Completed EXCEPT !.status = "error", !.landable = FALSE]

Done == [out |-> Completed, doc |-> TRUE, signal |-> NoSignal]
Idles == [Done EXCEPT !.out.landable = FALSE]
Mute == [Idles EXCEPT !.doc = FALSE]
Clear == [Done EXCEPT !.signal = "clear"]
Fails == [Mute EXCEPT !.out = Error]

AllSubmits == {Done, Idles, Mute, Fails, Clear}

Landed == [kind |-> "landed", retryable |-> FALSE]
Conflict == [kind |-> "conflict", retryable |-> FALSE]
OnlyLanded == {Landed}
LandsOrConflicts == {Landed, Conflict}
=============================================================================
