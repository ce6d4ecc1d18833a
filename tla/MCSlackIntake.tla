--------------------------- MODULE MCSlackIntake ---------------------------
(***************************************************************************)
(* Small instances of SlackIntake for TLC: two captures for a queue that   *)
(* does not exist yet and a message of somebody who may not capture.       *)
(***************************************************************************)
EXTENDS SlackIntake, TLC

CONSTANTS m1, m2, m3, h1, h2, ann, eve, main, side

Authors == m1 :> ann @@ m2 :> ann @@ m3 :> eve
Titles == m1 :> "fix" @@ m2 :> "port" @@ m3 :> "fix"
Queues == m1 :> side @@ m2 :> side @@ m3 :> main
BothModes == {[require_confirmation |-> TRUE, commit |-> TRUE],
              [require_confirmation |-> FALSE, commit |-> FALSE]}
=============================================================================
