------------------------------- MODULE MCMail -------------------------------
(* A small instance of Mail: one event, announced by a webhook. *)
EXTENDS Mail, TLC

CONSTANTS m1, f1
=============================================================================
