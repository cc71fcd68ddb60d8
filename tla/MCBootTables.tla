---------------------------- MODULE MCBootTables ----------------------------
(***************************************************************************)
(* Instance of BootTables for TLC: quads of 16 bits, tables of 8 entries,  *)
(* layouts with the handlers all over the mapped memory.                   *)
(***************************************************************************)
EXTENDS BootTables

MCLayouts ==
  {[ignore |-> 17 * k, idt |-> 15 * k, tss |-> 120 - 11 * k,
    irq |-> [i \in 0 .. Irqs - 1 |-> High + ((11 * k + 29 * i) % Reach)]] :
     k \in 0 .. 7}
=============================================================================
