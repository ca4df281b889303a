---------------------------- MODULE MCSmpBringup ----------------------------
(* Three listed APs, of which the first never answers, so that a broadcast is
   sent while the others still wait, and one unlisted.  Where there is x2APIC,
   one listed AP and the unlisted one are in that mode. *)
EXTENDS SmpBringup
MCUnlisted == {4}
MCDead == {1}
MCX2Aps == {2, 4}
MCProcessorId == <<3, 1, 2>>
=============================================================================
