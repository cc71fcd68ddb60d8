---------------------------- MODULE MCInterrupts ----------------------------
(***************************************************************************)
(* Instance of Interrupts for TLC: one printing key, one mute key, both    *)
(* disk lines.                                                             *)
(***************************************************************************)
EXTENDS Interrupts

MCPrinting == {"a"}
MCMute == {"f1"}
MCSlaveLines == {AtaWriteLine, AtaReadLine}
=============================================================================
