---------------------------- MODULE MCInterrupts ----------------------------
(* The timer, a keyboard and a disk; the timer's line is wired to interrupt 2
   as on most machines.  Firmware leaves the PICs open or masked. *)
EXTENDS Interrupts
MCOverrides == <<[irq |-> 9, gsi |-> 9], [irq |-> 0, gsi |-> 2]>>
MCGsiBases == <<0, 24>>
MCMasks == {{}, 0 .. 15}
=============================================================================
