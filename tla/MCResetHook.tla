---------------------------- MODULE MCResetHook ----------------------------
(* Two calls of the hook pending at once are enough to overlap them; a     *)
(* third lets a call start and settle between two overlapping ones.        *)
EXTENDS ResetHook

MCCalls == {"call1", "call2", "call3"}
=============================================================================
