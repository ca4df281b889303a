------------------------------- MODULE MCPmm -------------------------------
(* Small boots of the physical memory manager: 4-byte frames, a bitmap of two
   bytes, one frame of low memory and a kernel image in frames 2 and 3. *)
EXTENDS Pmm

MCEntry(a, l, v) == [addr |-> a, len |-> l, available |-> v]
MCModule(s, e) == [mod_start |-> s, mod_end |-> e]

\* Memory of 9 frames, the last but one of them reserved, a two-frame module.
MCPlain ==
  [mmap |-> {MCEntry(0, 4, TRUE), MCEntry(4, 24, TRUE), MCEntry(32, 4, TRUE)},
   modules |-> {MCModule(18, 21)}, mb_phys |-> 24, mb_size |-> 3]

\* Regions whose edges fall inside a frame, and an empty module.
MCRagged ==
  [mmap |-> {MCEntry(0, 6, TRUE), MCEntry(6, 4, FALSE), MCEntry(10, 13, TRUE),
             MCEntry(23, 2, FALSE), MCEntry(25, 8, TRUE)},
   modules |-> {MCModule(5, 5)}, mb_phys |-> 28, mb_size |-> 2]

\* Memory beyond what the bitmap can describe.
MCClipped ==
  [mmap |-> {MCEntry(36, 44, TRUE)}, modules |-> {MCModule(52, 57)},
   mb_phys |-> 60, mb_size |-> 4]

\* No available memory at all.
MCNone ==
  [mmap |-> {MCEntry(0, 40, FALSE)}, modules |-> {}, mb_phys |-> 8, mb_size |-> 4]

\* Five frames: the last byte of the bitmap is only partly in use.
MCSmall ==
  [mmap |-> {MCEntry(4, 16, TRUE)}, modules |-> {}, mb_phys |-> 4, mb_size |-> 4]

MCBootInfos == {MCPlain, MCRagged, MCClipped, MCNone, MCSmall}
MCStrayAddrs == {14, 512, 520}
MCAnyAddrs == 0 .. 40 \cup {512}
=============================================================================
