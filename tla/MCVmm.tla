------------------------------- MODULE MCVmm -------------------------------
(* Tables of three entries, a large page of three frames: eighteen frames, with
   the six boot tables in the kernel's image from frame 3 on, and one large page
   of the kernel's window. *)
EXTENDS Vmm

MCFrames == 0 .. 17
MCBootFree == {9, 10, 11, 12}

\* The device window past the end of the kernel's large pages.
MCClean == {<<2, 1, 1, 0>>, <<2, 1, 1, 1>>, <<2, 2, 0, 0>>}

\* These are addresses the theorems of Vmm_proofs are about.
ASSUME MCCleanAssumption == Clean(MCClean) /\ OwnRoots(MCClean)
=============================================================================
