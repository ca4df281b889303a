------------------------------- MODULE MCSlab -------------------------------
(* Three frames and two size classes: three small objects a page, or one. *)
EXTENDS Slab
MCSizes == <<1, 2>>
=============================================================================
