------------------------------ MODULE MCImport ------------------------------
(***************************************************************************)
(* Small instance of Import for TLC: two paths with the same task name in  *)
(* two inboxes, one of them drained by the reconciler.                     *)
(***************************************************************************)
EXTENDS Import, TLC

CONSTANTS s1, s2

Names == s1 :> "fix" @@ s2 :> "fix"
InOrder == <<s1, s2>>
TwoAndOne == s1 :> 2 @@ s2 :> 1
=============================================================================
