------------------------------ MODULE MCKernel ------------------------------
(* TLC instances of Kernel: the constants are given by the configurations. *)
EXTENDS Kernel
=============================================================================
