---------------------------- MODULE MCTimeServer ----------------------------
(* TLC instances of TimeServer.  A negative delay is in the past at once,   *)
(* except in the first ticks, where it wraps around.                        *)
EXTENDS TimeServer

MCTicks == {-1, 2}

\* The largest the assertion in Delay admits, and smaller ones.
MCWrapTicks == 0 .. Wrap - 2
=============================================================================
