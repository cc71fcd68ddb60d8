--------------------------- MODULE IgnoredVector ---------------------------
(***************************************************************************)
(* TrapFrame with the vectors that init_interrupt leaves to the default    *)
(* gate that setup_IDT (arch/x86/boot/multiboot2.S) installed: ignore_int  *)
(* saves the registers and enters IRQ_nothing (kernel/irq/irq.c) by lretq. *)
(***************************************************************************)
EXTENDS TrapFrame

Lretq ==
  /\ At("lretq")
  /\ rip' = Stack[rsp[2]]
  /\ cs' = Stack[rsp[2] - 1]
  /\ Drop(2)
  /\ UNCHANGED <<regs, iflag, tss, ghosts>>

\* a vector without a handler of its own, such as an exception
Unexpected == Enter("ignore_int")

\* the empty function: its ret takes the top word of the stack
IRQ_nothing ==
  /\ In("IRQ_nothing")
  /\ Drop(1)
  /\ Return
  /\ UNCHANGED <<regs, cs, iflag, tss, ghosts>>

NextIgnored == Next \/ Unexpected \/ Lretq \/ IRQ_nothing

SpecIgnored == Init /\ [][NextIgnored]_vars
=============================================================================
