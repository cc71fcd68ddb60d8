---------------------------- MODULE MCTrapFrame ----------------------------
(* TrapFrame for TLC.  Context is the depth of the compiled kernel's call  *)
(* chain kernel_start, task_init; the stacks are cut to the words in use.  *)
EXTENDS TrapFrame
=============================================================================
