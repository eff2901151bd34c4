---------------------------- MODULE MCAuthSession ---------------------------
(* Model-checking instance of AuthSession: two users, so that a late login *)
(* answer can differ from what storage holds, and two login submissions,   *)
(* so that two calls can be pending across a route change.                *)
EXTENDS AuthSession, TLC

CONSTANTS u1, u2

MCUsers == {u1, u2}

\* User data is only compared for equality.
MCSymmetry == Permutations(MCUsers)
=============================================================================
