----------------------------- MODULE MCSession -----------------------------
(***************************************************************************)
(* Two tabs of one browser, for TLC.                                       *)
(***************************************************************************)
EXTENDS Session
CONSTANTS t1, t2, u1, u2, k1, k2, k3
=============================================================================
