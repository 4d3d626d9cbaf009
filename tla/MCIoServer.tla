----------------------------- MODULE MCIoServer -----------------------------
(* TLC instance of IoServer: the constants are given by the configuration. *)
EXTENDS IoServer
=============================================================================
