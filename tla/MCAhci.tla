------------------------------- MODULE MCAhci ------------------------------
(* One port of three command slots, and two sectors. *)
EXTENDS Ahci
MCSlots == 0 .. 2
MCLbas == {0, 1}
=============================================================================
