------------------------------- MODULE MCRtx -------------------------------
(* The decoder at the highest priority and two processes below it.         *)
EXTENDS Rtx

CONSTANTS kcd, procA, procB, null

MCPriority == (kcd :> 0) @@ (procA :> 1) @@ (procB :> 1) @@ (null :> 2)
=============================================================================
