------------------------------ MODULE MCWorker ------------------------------
(***************************************************************************)
(* Small instances of Worker for TLC: a task that asks for a doc step and  *)
(* a code step, or for a split, which is given a document.                 *)
(***************************************************************************)
EXTENDS Worker, TLC

CONSTANTS w1, w2, t1

Flow == [steps |-> <<"doc", "code">>, docs |-> FALSE]
Split == [steps |-> <<"split">>, docs |-> TRUE]

TwoBriefs == {Flow, Split}
WithDocs == {[Flow EXCEPT !.docs = TRUE]}
=============================================================================
