----------------------------- MODULE MCLanding -----------------------------
(***************************************************************************)
(* Small instances of Landing for TLC: two attempts, one on another box,   *)
(* an outsider who pushes a change that clashes with an attempt, and an    *)
(* operator whose change clashes with the outsider's.                      *)
(***************************************************************************)
EXTENDS Landing

CONSTANTS a1, a2, f1, f2, o1, o2, x1

\* The second attempt conflicts with the outsiders, who conflicts with the
\* operator.
MeetsForeign == {{a2, f1}, {a2, f2}, {o1, f1}}

\* The operator's uncommitted work overlaps the first attempt.
MeetsOperator == {{a1, o1}, {o1, f1}}
=============================================================================
