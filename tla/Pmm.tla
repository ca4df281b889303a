-------------------------------- MODULE Pmm --------------------------------
(***************************************************************************)
(* The physical memory manager (src/mem/pmm.c): a bitmap with one bit per  *)
(* 4 KiB frame, set when the frame is in use, a count of the free frames,  *)
(* and the first-fit search of pmm_alloc_frame.                            *)
(*                                                                         *)
(* Addresses are byte addresses; the page size, the bitmap's size and the  *)
(* low-memory limit are constants so that TLC can take small ones.  The    *)
(* bitmap is modelled by the set of frames whose bit is set.  held is a    *)
(* history variable: the frames handed out and not given back.             *)
(***************************************************************************)
EXTENDS Integers, FiniteSets, FiniteSetsExt

CONSTANTS
  PMM_PAGE_SIZE,      \* bytes in a frame
  PMM_BITMAP_BYTES,   \* bytes of pmm_bitmap
  LOW_LIMIT,          \* the 1 MiB mark, in bytes
  HHDM_BASE,          \* where boot.asm maps physical address 0
  KernelStart,        \* _kernel_phys_start
  KernelEnd,          \* _kernel_bss_end, a physical address
  BootInfos,          \* the Multiboot2 blocks a boot loader may pass
  StrayAddrs,         \* addresses outside physical memory that callers free
  AnyAddrs            \* addresses an undisciplined caller frees

Bits == 0 .. (8 * PMM_BITMAP_BYTES - 1)

\* A memory map entry, a module and a Multiboot2 information block.
\* A boot loader passes no empty region.
MmapEntry  == [addr : Nat, len : Nat \ {0}, available : BOOLEAN]
BootModule == [mod_start : Nat, mod_end : Nat]
BootInfo   == [mmap : SUBSET MmapEntry, modules : SUBSET BootModule,
               mb_phys : Nat, mb_size : Nat]

ASSUME PmmAssumption ==
  /\ PMM_PAGE_SIZE \in Nat \ {0}
  /\ PMM_BITMAP_BYTES \in Nat \ {0}
  /\ LOW_LIMIT \in Nat \ {0} /\ LOW_LIMIT % PMM_PAGE_SIZE = 0
  /\ HHDM_BASE \in Nat /\ HHDM_BASE >= 8 * PMM_BITMAP_BYTES * PMM_PAGE_SIZE
  /\ KernelStart \in Nat /\ KernelEnd \in Nat
  /\ BootInfos \subseteq BootInfo
  /\ \A b \in BootInfos : IsFiniteSet(b.mmap)
  /\ StrayAddrs \subseteq Nat
  /\ \A a \in StrayAddrs : a % PMM_PAGE_SIZE # 0 \/ a >= HHDM_BASE
  /\ AnyAddrs \subseteq Nat

VARIABLES
  boot,           \* the block this boot received; read by pmm_init
  initialised,    \* pmm_init has run
  pmm_bitmap,     \* the frames whose bit is set: in use
  total_frames,
  free_frames,
  held,           \* history: frames handed out and not given back
  ret             \* what the last pmm_alloc_frame returned

vars == <<boot, initialised, pmm_bitmap, total_frames, free_frames, held, ret>>

frame_is_free(f) == f \notin pmm_bitmap

\* The frames the allocator offers: below total_frames and not in use.
FreeFrames == {f \in 0 .. (total_frames - 1) : frame_is_free(f)}

----------------------------------------------------------------------------
(* pmm_init *)

RoundUp(x) == (x + PMM_PAGE_SIZE - 1) \div PMM_PAGE_SIZE

\* Mutant: the last frame of the range is lost when its end is not aligned.
FrameSpanRoundedDown(start, end) ==
  (start \div PMM_PAGE_SIZE) .. (end \div PMM_PAGE_SIZE - 1)

\* The frames touched by the bytes start .. end - 1.
FrameSpan(start, end) == (start \div PMM_PAGE_SIZE) .. (RoundUp(end) - 1)

RegionEnd(e) == e.addr + e.len

Available(b) == {e \in b.mmap : e.available}

\* First pass: the end of the highest available region.
MaxPhys(b) == Max({RegionEnd(e) : e \in Available(b)} \cup {0})

\* One bit per frame, clipped to what the bitmap can hold.
TotalFrames(b) ==
  LET frames == RoundUp(MaxPhys(b))
  IN  IF (frames + 7) \div 8 > PMM_BITMAP_BYTES
      THEN 8 * PMM_BITMAP_BYTES
      ELSE frames

\* Second pass: every frame an available region touches.
MappedFrames(b) ==
  UNION {FrameSpan(e.addr, Min({RegionEnd(e), MaxPhys(b)})) :
         e \in {a \in Available(b) : a.addr < MaxPhys(b)}}

\* boot.asm passes the block's address in the higher-half direct map, and
\* pmm_init uses it as it stands to reserve the block.
MbVirt(b) == b.mb_phys + HHDM_BASE

ReservedFrames(b) ==
  UNION {IF KernelStart < KernelEnd THEN FrameSpan(KernelStart, KernelEnd) ELSE {},
         0 .. (LOW_LIMIT \div PMM_PAGE_SIZE - 1),
         IF b.mb_size > 0 THEN FrameSpan(MbVirt(b), MbVirt(b) + b.mb_size) ELSE {},
         UNION {FrameSpan(m.mod_start, m.mod_end) :
                m \in {n \in b.modules : n.mod_start < n.mod_end}}}

InitialFree(b) ==
  {f \in 0 .. (TotalFrames(b) - 1) : f \in MappedFrames(b) /\ f \notin ReservedFrames(b)}

pmm_init ==
  /\ ~initialised
  /\ initialised' = TRUE
  /\ total_frames' = TotalFrames(boot)
  /\ pmm_bitmap' = Bits \ InitialFree(boot)
  /\ free_frames' = Cardinality(InitialFree(boot))
  /\ UNCHANGED <<boot, held, ret>>

----------------------------------------------------------------------------
(* pmm_alloc_frame *)

\* The scan goes over whole bytes of the bitmap.
Scanned == 0 .. (8 * ((total_frames + 7) \div 8) - 1)

Candidates == {f \in Scanned : frame_is_free(f)}

FirstFit == Min(Candidates)

\* Mutant: the last frame is never handed out.
AllocPossibleOffByOne ==
  /\ free_frames > 1
  /\ Candidates # {}
  /\ FirstFit < total_frames

\* The checks pmm_alloc_frame makes before it takes the frame it found.
AllocPossible ==
  /\ free_frames # 0
  /\ Candidates # {}
  /\ FirstFit < total_frames

\* Mutant: the bit of the frame is not set.
pmm_alloc_frame_unmarked ==
  /\ AllocPossible
  /\ free_frames' = free_frames - 1
  /\ ret' = FirstFit * PMM_PAGE_SIZE
  /\ held' = held \cup {FirstFit}
  /\ UNCHANGED <<boot, initialised, pmm_bitmap, total_frames>>

pmm_alloc_frame ==
  /\ AllocPossible
  /\ pmm_bitmap' = pmm_bitmap \cup {FirstFit}
  /\ free_frames' = free_frames - 1
  /\ ret' = FirstFit * PMM_PAGE_SIZE
  /\ held' = held \cup {FirstFit}
  /\ UNCHANGED <<boot, initialised, total_frames>>

pmm_alloc_frame_fails ==
  /\ ~AllocPossible
  /\ ret' = 0
  /\ UNCHANGED <<boot, initialised, pmm_bitmap, total_frames, free_frames, held>>

----------------------------------------------------------------------------
(* pmm_free_frame *)

FrameOf(phys) == phys \div PMM_PAGE_SIZE

\* Mutant: a frame that is already free is freed again.
FreeTakesEffectTwice(phys) ==
  /\ phys % PMM_PAGE_SIZE = 0
  /\ FrameOf(phys) < total_frames

\* Mutant: an unaligned address frees the frame around it.
FreeTakesEffectUnaligned(phys) ==
  /\ FrameOf(phys) < total_frames
  /\ ~frame_is_free(FrameOf(phys))

\* An unaligned address, one past the managed frames and a frame that is
\* already free are ignored.
FreeTakesEffect(phys) ==
  /\ phys % PMM_PAGE_SIZE = 0
  /\ FrameOf(phys) < total_frames
  /\ ~frame_is_free(FrameOf(phys))

pmm_free_frame(phys) ==
  /\ IF FreeTakesEffect(phys)
     THEN /\ pmm_bitmap' = pmm_bitmap \ {FrameOf(phys)}
          /\ free_frames' = free_frames + 1
          /\ held' = held \ {FrameOf(phys)}
     ELSE UNCHANGED <<pmm_bitmap, free_frames, held>>
  /\ UNCHANGED <<boot, initialised, total_frames, ret>>

HeldAddrs == {f * PMM_PAGE_SIZE : f \in held}
FreeAddrs == {f * PMM_PAGE_SIZE : f \in FreeFrames}

----------------------------------------------------------------------------
\* The bitmap is in .bss, so every bit is clear until pmm_init sets them.
Init ==
  /\ boot \in BootInfos
  /\ initialised = FALSE
  /\ pmm_bitmap = {}
  /\ total_frames = 0
  /\ free_frames = 0
  /\ held = {}
  /\ ret = 0

\* Callers free what they hold, a frame they have already given back, or an
\* address that is no frame of the bitmap.
Next ==
  \/ pmm_init
  \/ pmm_alloc_frame
  \/ pmm_alloc_frame_fails
  \/ \E phys \in HeldAddrs : pmm_free_frame(phys)
  \/ \E phys \in FreeAddrs : pmm_free_frame(phys)
  \/ \E phys \in StrayAddrs : pmm_free_frame(phys)

Spec == Init /\ [][Next]_vars

\* Callers free any address whatever: twice, never allocated, reserved.
AnyNext ==
  \/ pmm_init
  \/ pmm_alloc_frame
  \/ pmm_alloc_frame_fails
  \/ \E phys \in AnyAddrs : pmm_free_frame(phys)

AnySpec == Init /\ [][AnyNext]_vars

----------------------------------------------------------------------------
(* Properties *)

\* The types of the variables, and the bounds pmm.c relies on: no bit above
\* the bitmap's capacity, and no frame number past it.
TypeOK ==
  /\ boot \in BootInfos
  /\ initialised \in BOOLEAN
  /\ pmm_bitmap \subseteq Bits
  /\ total_frames \in 0 .. (8 * PMM_BITMAP_BYTES)
  /\ free_frames \in Nat
  /\ held \subseteq Bits
  /\ ret \in Nat

\* The counter pmm_alloc_frame trusts before it searches is the number of
\* clear bits below total_frames, whatever sequence of frees callers make.
FreeCountExact == free_frames = Cardinality(FreeFrames)

\* A frame is never both free and in a caller's hands, so it cannot be handed
\* out a second time.
Exclusive == FreeFrames \cap held = {}

\* Some byte of frame f lies in start .. end - 1.
Touches(f, start, end) ==
  /\ start < end
  /\ f * PMM_PAGE_SIZE < end
  /\ start < (f + 1) * PMM_PAGE_SIZE

Unreserved(f) ==
  /\ ~Touches(f, 0, LOW_LIMIT)
  /\ ~Touches(f, KernelStart, KernelEnd)
  /\ \A m \in boot.modules : ~Touches(f, m.mod_start, m.mod_end)
  /\ \E e \in Available(boot) : Touches(f, e.addr, RegionEnd(e))

\* No frame the allocator offers or has handed out holds a byte of the kernel
\* image, of low memory or of a boot module, and each lies on available memory;
\* in particular frame 0, whose address means failure, is never handed out.
ReservedNeverHandedOut ==
  initialised => \A f \in FreeFrames \cup held : Unreserved(f)

\* The frames of the boot are neither lost nor invented: what is free and what
\* is held together are the frames pmm_init found.
Conservation == initialised => FreeFrames \cup held = InitialFree(boot)

\* The inductive invariants: what holds whatever callers free, and what holds
\* when they free only what they hold.
CountInv ==
  /\ TypeOK
  /\ FreeCountExact
  /\ ~initialised => total_frames = 0

OwnershipInv ==
  /\ CountInv
  /\ Exclusive
  /\ Conservation
  /\ ~initialised => held = {} /\ ret = 0

NoFrame == -1

Abstract == INSTANCE FrameAllocator WITH
  Frames <- Bits,
  pool   <- FreeFrames,
  ret    <- IF ret = 0 THEN NoFrame ELSE FrameOf(ret)

\* The bitmap, counter and search implement the frame allocator callers assume;
\* above all an allocation fails only when no frame is free.
ImplementsFrameAllocator == Abstract!Spec

\* What the comment at src/mem/pmm.c:118 says of the information block: that it
\* is reserved, so its frames are not handed out.
MultibootInfoReserved ==
  initialised =>
    \A f \in FreeFrames : ~Touches(f, boot.mb_phys, boot.mb_phys + boot.mb_size)
=============================================================================
