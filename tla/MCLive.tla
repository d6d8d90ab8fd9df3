------------------------------- MODULE MCLive -------------------------------
(* A small instance of Live. *)
EXTENDS Live, TLC

CONSTANTS a, b, c1
=============================================================================
