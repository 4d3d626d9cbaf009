------------------------------- MODULE MCLock -------------------------------
(* TLC instance of Lock. *)
EXTENDS Lock
=============================================================================
