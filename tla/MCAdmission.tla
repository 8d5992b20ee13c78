----------------------------- MODULE MCAdmission -----------------------------
(***************************************************************************)
(* Instances of Admission for TLC: two callers share an account, a third   *)
(* has one of its own.                                                     *)
(***************************************************************************)
EXTENDS Admission, TLC

CONSTANTS c1, c2, c3, u1, u2

MCCallers == {c1, c2, c3}
MCUserOf == c1 :> u1 @@ c2 :> u1 @@ c3 :> u2
=============================================================================
