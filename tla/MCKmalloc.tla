----------------------------- MODULE MCKmalloc ------------------------------
(* The memory and boot tables of MCVmm.  The kernel ends at frame 9, the first
   one free, and the heap starts there. *)
EXTENDS Kmalloc, MCVmm
=============================================================================
