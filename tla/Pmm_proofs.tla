----------------------------- MODULE Pmm_proofs -----------------------------
(***************************************************************************)
(* Theorems about the physical memory manager for every page size, bitmap  *)
(* size, memory map and sequence of calls.                                 *)
(***************************************************************************)
EXTENDS Pmm, FiniteSetTheorems, NaturalsInduction, WellFoundedInduction, TLAPS

----------------------------------------------------------------------------
(* Least and greatest elements, and division. *)

\* A non-empty set of naturals has a least element.
LEMMA LeastElement ==
  ASSUME NEW S \in SUBSET Nat, S # {}
  PROVE  \E x \in S : \A y \in S : x <= y
<1> DEFINE Less == {ss \in Nat \X Nat : ss[1] < ss[2]}
<1>1. IsWellFoundedOn(Less, Nat)
  BY NatLessThanWellFounded, Zenon DEF OpToRel
<1>2. PICK x \in S : \A y \in S : <<y, x>> \notin Less
  <2> HIDE DEF Less
  <2> QED BY <1>1, WFMin
<1>3. ASSUME NEW y \in S  PROVE x <= y
  <2>1. <<y, x>> \in Nat \X Nat /\ <<y, x>> \notin Less
    BY <1>2
  <2>2. <<y, x>>[1] = y /\ <<y, x>>[2] = x
    OBVIOUS
  <2>3. ~ (y < x)
    BY <2>1, <2>2
  <2> QED BY <2>3
<1> QED BY <1>3

\* Min picks that element.
LEMMA MinProperty ==
  ASSUME NEW S \in SUBSET Nat, S # {}
  PROVE  Min(S) \in S /\ \A y \in S : Min(S) <= y
BY LeastElement DEF Min

\* A finite non-empty set of naturals has a greatest element, and Max picks
\* it: among the sets of elements above x take one minimal for inclusion.
LEMMA MaxProperty ==
  ASSUME NEW S \in SUBSET Nat, IsFiniteSet(S), S # {}
  PROVE  Max(S) \in S /\ \A y \in S : Max(S) >= y
<1> DEFINE Above(x) == {y \in S : y > x}
           T == {Above(x) : x \in S}
<1>1. T \subseteq FiniteSubsetsOf(S) /\ T # {}
  <2>1. \A x \in S : Above(x) \in SUBSET S
    OBVIOUS
  <2>2. FiniteSubsetsOf(S) = SUBSET S
    BY FS_FiniteSubsetsOfFinite
  <2>3. T \subseteq SUBSET S
    BY <2>1
  <2>4. T # {}
    <3>1. PICK x \in S : TRUE
      OBVIOUS
    <3>2. Above(x) \in T
      BY <3>1
    <3> QED BY <3>2
  <2> HIDE DEF T
  <2> QED BY <2>2, <2>3, <2>4
<1>2. IsWellFoundedOn(StrictSubsetOrdering(S), FiniteSubsetsOf(S))
  BY FS_StrictSubsetOrderingWellFounded
<1>3. PICK U \in T : \A V \in T : <<V, U>> \notin StrictSubsetOrdering(S)
  <2> HIDE DEF T
  <2> QED BY <1>1, <1>2, WFMin
<1>4. PICK m \in S : U = Above(m)
  OBVIOUS
<1>5. ASSUME NEW y \in S  PROVE m >= y
  <2>1. SUFFICES ASSUME y > m PROVE FALSE
    OBVIOUS
  <2>2. Above(y) \in SUBSET S /\ Above(m) \in SUBSET S
    OBVIOUS
  <2>3. Above(y) \subseteq Above(m) /\ y \in Above(m) /\ y \notin Above(y)
    <3>1. m \in Nat /\ y \in Nat
      OBVIOUS
    <3>2. \A z \in S : z > y => z > m
      BY <2>1, <3>1
    <3>3. ~ (y > y)
      BY <3>1
    <3> QED BY <2>1, <3>2, <3>3
  <2>4. <<Above(y), Above(m)>> \in (SUBSET S) \X (SUBSET S)
    BY <2>2
  <2>5. Above(y) \in T
    OBVIOUS
  <2> DEFINE A == Above(y)
             B == Above(m)
  <2>6. <<A, B>>[1] = A /\ <<A, B>>[2] = B
    OBVIOUS
  <2> HIDE DEF A, B, T
  <2>7. <<A, B>> \in StrictSubsetOrdering(S)
    <3>1. A \subseteq B /\ A # B
      BY <2>3 DEF A, B
    <3>2. <<A, B>> \in (SUBSET S) \X (SUBSET S)
      BY <2>4 DEF A, B
    <3> QED BY <2>6, <3>1, <3>2 DEF StrictSubsetOrdering
  <2>8. A \in T /\ U = B
    BY <2>5, <1>4 DEF A, B
  <2> QED BY <1>3, <2>7, <2>8
<1> QED BY <1>5 DEF Max

\* The number of whole pages below an address, and the address of a frame.
LEMMA Paging ==
  ASSUME NEW f \in Nat
  PROVE  /\ f * PMM_PAGE_SIZE \in Nat
         /\ (f * PMM_PAGE_SIZE) \div PMM_PAGE_SIZE = f
         /\ (f * PMM_PAGE_SIZE) % PMM_PAGE_SIZE = 0
         /\ f \div PMM_PAGE_SIZE \in Nat
BY PmmAssumption

----------------------------------------------------------------------------
(* What pmm_init computes *)

\* The memory map has an end, and no available region lies past it.
LEMMA MaxPhysBounds ==
  ASSUME NEW b \in BootInfos
  PROVE  /\ MaxPhys(b) \in Nat
         /\ \A e \in Available(b) : RegionEnd(e) <= MaxPhys(b)
<1> DEFINE Ends == {RegionEnd(e) : e \in Available(b)}
<1>1. b.mmap \in SUBSET MmapEntry /\ IsFiniteSet(b.mmap)
  BY PmmAssumption DEF BootInfo
<1>2. Available(b) \in SUBSET b.mmap
  BY DEF Available
<1>3. IsFiniteSet(Available(b))
  BY <1>1, <1>2, FS_Subset
<1>4. \A e \in Available(b) : RegionEnd(e) \in Nat
  BY <1>1, <1>2 DEF RegionEnd, MmapEntry
<1>5. IsFiniteSet(Ends)
  <2> DEFINE g == [e \in Available(b) |-> RegionEnd(e)]
  <2>1. g \in Surjection(Available(b), Ends)
    BY DEF Surjection
  <2> QED BY <2>1, <1>3, FS_Surjection
<1>6. IsFiniteSet(Ends \cup {0})
  BY <1>5, FS_AddElement
<1>7. (Ends \cup {0}) \in SUBSET Nat
  BY <1>4
<1>8. /\ MaxPhys(b) \in Ends \cup {0}
      /\ \A y \in Ends \cup {0} : MaxPhys(b) >= y
  BY <1>6, <1>7, MaxProperty DEF MaxPhys
<1> QED BY <1>4, <1>7, <1>8

\* The end of memory is a natural number.
LEMMA MaxPhysType ==
  ASSUME NEW b \in BootInfos
  PROVE  MaxPhys(b) \in Nat
BY MaxPhysBounds

\* pmm_init manages no more frames than the bitmap has bits, and frees only
\* frames among those.
LEMMA TotalFramesType ==
  ASSUME NEW b \in BootInfos
  PROVE  /\ TotalFrames(b) \in 0 .. (8 * PMM_BITMAP_BYTES)
         /\ InitialFree(b) \subseteq 0 .. (TotalFrames(b) - 1)
         /\ InitialFree(b) \subseteq Bits
<1>1. RoundUp(MaxPhys(b)) \in Nat
  <2>1. MaxPhys(b) + PMM_PAGE_SIZE - 1 \in Nat
    BY MaxPhysType, PmmAssumption
  <2> QED BY <2>1, Paging DEF RoundUp
<1>2. TotalFrames(b) \in 0 .. (8 * PMM_BITMAP_BYTES)
  BY <1>1, PmmAssumption DEF TotalFrames
<1> QED BY <1>2, PmmAssumption DEF InitialFree, Bits

----------------------------------------------------------------------------
(* The counter *)

\* The frames on offer are finitely many.
LEMMA FreeFramesFinite ==
  ASSUME TypeOK
  PROVE  IsFiniteSet(FreeFrames) /\ FreeFrames \subseteq 0 .. (total_frames - 1)
<1>1. IsFiniteSet(0 .. (total_frames - 1))
  BY FS_Interval, PmmAssumption DEF TypeOK
<1>2. FreeFrames \in SUBSET (0 .. (total_frames - 1))
  BY DEF FreeFrames
<1> QED BY <1>1, <1>2, FS_Subset

\* The search succeeds exactly when some frame is free, and finds a free one.
LEMMA FirstFitFree ==
  ASSUME CountInv
  PROVE  /\ AllocPossible <=> FreeFrames # {}
         /\ AllocPossible => FirstFit \in FreeFrames
<1>1. /\ total_frames \in Nat
      /\ total_frames <= 8 * ((total_frames + 7) \div 8)
      /\ 8 * ((total_frames + 7) \div 8) \in Nat
  BY PmmAssumption DEF CountInv, TypeOK
<1>2. FreeFrames \subseteq Candidates /\ Candidates \in SUBSET Nat
  BY <1>1 DEF FreeFrames, Candidates, Scanned
<1>3. Candidates # {} =>
        FirstFit \in Candidates /\ \A f \in Candidates : FirstFit <= f
  BY <1>2, MinProperty DEF FirstFit
<1>4. AllocPossible => FirstFit \in FreeFrames
  BY <1>1, <1>2, <1>3 DEF AllocPossible, FreeFrames, Candidates
<1>5. ASSUME FreeFrames # {}  PROVE AllocPossible
  <2>1. PICK f \in FreeFrames : TRUE
    BY <1>5
  <2>2. free_frames # 0
    BY <1>5, FreeFramesFinite, FS_EmptySet DEF CountInv, FreeCountExact
  <2>3. f < total_frames /\ f \in Nat
    BY <1>1, <2>1 DEF FreeFrames
  <2>4. FirstFit \in Nat /\ FirstFit <= f
    BY <1>2, <1>3, <2>1
  <2> QED BY <1>1, <1>2, <2>1, <2>2, <2>3, <2>4 DEF AllocPossible
<1> QED BY <1>4, <1>5

\* Before pmm_init there is nothing to count.
LEMMA InitCount == Init => CountInv
<1> SUFFICES ASSUME Init PROVE CountInv
  OBVIOUS
<1>1. TypeOK
  <2>1. 0 \in 0 .. (8 * PMM_BITMAP_BYTES)
    BY PmmAssumption
  <2> QED BY <2>1 DEF Init, TypeOK
<1>2. FreeFrames = {}
  BY DEF Init, FreeFrames
<1>3. FreeCountExact
  BY <1>2, FS_EmptySet DEF Init, FreeCountExact
<1> QED BY <1>1, <1>3 DEF CountInv, Init

\* pmm_init counts the frames it leaves clear.
LEMMA InitStepCount ==
  ASSUME CountInv, pmm_init
  PROVE  CountInv' /\ FreeFrames' = InitialFree(boot)
<1>1. boot \in BootInfos /\ boot' = boot
  BY DEF CountInv, TypeOK, pmm_init
<1>2. /\ TotalFrames(boot) \in 0 .. (8 * PMM_BITMAP_BYTES)
      /\ InitialFree(boot) \subseteq 0 .. (TotalFrames(boot) - 1)
      /\ InitialFree(boot) \subseteq Bits
  BY <1>1, TotalFramesType
<1>3. FreeFrames' = InitialFree(boot)
  BY <1>2, PmmAssumption DEF pmm_init, FreeFrames, frame_is_free, Bits
<1>4. Cardinality(InitialFree(boot)) \in Nat
  <2>1. IsFiniteSet(0 .. (TotalFrames(boot) - 1))
    BY <1>2, FS_Interval, PmmAssumption
  <2> QED BY <1>2, <2>1, FS_Subset, FS_CardinalityType
<1>5. TypeOK'
  BY <1>1, <1>2, <1>4 DEF CountInv, TypeOK, pmm_init
<1> QED BY <1>3, <1>5 DEF CountInv, FreeCountExact, pmm_init

\* A successful allocation takes one free frame and counts it.
LEMMA AllocStepCount ==
  ASSUME CountInv, pmm_alloc_frame
  PROVE  /\ CountInv'
         /\ FirstFit \in FreeFrames
         /\ FreeFrames' = FreeFrames \ {FirstFit}
<1>1. FirstFit \in FreeFrames
  BY FirstFitFree DEF pmm_alloc_frame
<1>2. FirstFit \in Nat /\ FirstFit \in Bits
  BY <1>1, PmmAssumption DEF FreeFrames, CountInv, TypeOK, Bits
<1>3. FreeFrames' = FreeFrames \ {FirstFit}
  BY DEF pmm_alloc_frame, FreeFrames, frame_is_free
<1>4. Cardinality(FreeFrames') = free_frames - 1
  BY <1>1, <1>3, FreeFramesFinite, FS_RemoveElement DEF CountInv, FreeCountExact
<1>5. TypeOK'
  BY <1>2, Paging DEF CountInv, TypeOK, pmm_alloc_frame, AllocPossible
<1> QED BY <1>1, <1>3, <1>4, <1>5 DEF CountInv, FreeCountExact, pmm_alloc_frame

\* A refused allocation changes neither bitmap nor counter.
LEMMA AllocFailsStepCount ==
  ASSUME CountInv, pmm_alloc_frame_fails
  PROVE  CountInv' /\ FreeFrames = {} /\ FreeFrames' = FreeFrames
<1>1. FreeFrames = {}
  BY FirstFitFree DEF pmm_alloc_frame_fails
<1>2. FreeFrames' = FreeFrames
  BY DEF pmm_alloc_frame_fails, FreeFrames, frame_is_free
<1> QED BY <1>1, <1>2
        DEF CountInv, TypeOK, FreeCountExact, pmm_alloc_frame_fails

\* A free that takes effect adds one frame and counts it; any other changes
\* nothing.
LEMMA FreeStepCount ==
  ASSUME CountInv, NEW phys \in Nat, pmm_free_frame(phys)
  PROVE  /\ CountInv'
         /\ FreeTakesEffect(phys) =>
              FrameOf(phys) \in Bits /\ FreeFrames' = FreeFrames \cup {FrameOf(phys)}
         /\ ~FreeTakesEffect(phys) => FreeFrames' = FreeFrames
<1>1. CASE FreeTakesEffect(phys)
  <2>1. FrameOf(phys) \in Nat /\ FrameOf(phys) < total_frames
    BY <1>1, Paging DEF FrameOf, FreeTakesEffect
  <2>2. FrameOf(phys) \in Bits /\ FrameOf(phys) \in 0 .. (total_frames - 1)
    BY <2>1, PmmAssumption DEF CountInv, TypeOK, Bits
  <2>3. FreeFrames' = FreeFrames \cup {FrameOf(phys)}
    BY <1>1, <2>2 DEF pmm_free_frame, FreeFrames, frame_is_free
  <2>4. FrameOf(phys) \notin FreeFrames
    BY <1>1 DEF FreeTakesEffect, FreeFrames
  <2>5. Cardinality(FreeFrames') = free_frames + 1
    BY <2>3, <2>4, FreeFramesFinite, FS_AddElement DEF CountInv, FreeCountExact
  <2>6. TypeOK'
    BY <1>1 DEF CountInv, TypeOK, pmm_free_frame
  <2> QED BY <1>1, <2>2, <2>3, <2>5, <2>6
          DEF CountInv, FreeCountExact, pmm_free_frame
<1>2. CASE ~FreeTakesEffect(phys)
  <2>1. FreeFrames' = FreeFrames
    BY <1>2 DEF pmm_free_frame, FreeFrames, frame_is_free
  <2> QED BY <1>2, <2>1 DEF CountInv, TypeOK, FreeCountExact, pmm_free_frame
<1> QED BY <1>1, <1>2

\* The two facts above hold of every call sequence, so of every behaviour of
\* AnySpec: the counter is the number of clear bits whatever callers free.
THEOREM CountInvariant == AnySpec => []CountInv
<1>1. CountInv /\ [AnyNext]_vars => CountInv'
  <2> SUFFICES ASSUME CountInv, [AnyNext]_vars PROVE CountInv'
    OBVIOUS
  <2>1. CASE pmm_init
    BY <2>1, InitStepCount
  <2>2. CASE pmm_alloc_frame
    BY <2>2, AllocStepCount
  <2>3. CASE pmm_alloc_frame_fails
    BY <2>3, AllocFailsStepCount
  <2>4. ASSUME NEW phys \in AnyAddrs, pmm_free_frame(phys) PROVE CountInv'
    BY <2>4, FreeStepCount, PmmAssumption
  <2>5. CASE UNCHANGED vars
    BY <2>5 DEF vars, CountInv, TypeOK, FreeCountExact, FreeFrames, frame_is_free
  <2> QED BY <2>1, <2>2, <2>3, <2>4, <2>5 DEF AnyNext
<1> QED BY <1>1, InitCount, PTL DEF AnySpec

\* pmm_free_count answers the number of free frames.
THEOREM FreeCount == AnySpec => []FreeCountExact
BY CountInvariant, PTL DEF CountInv

----------------------------------------------------------------------------
(* Ownership: what disciplined callers are promised *)

\* Quotients: the frame an address lies in.
LEMMA Quotient ==
  ASSUME NEW x \in Nat
  PROVE  /\ x \div PMM_PAGE_SIZE \in Nat
         /\ (x \div PMM_PAGE_SIZE) * PMM_PAGE_SIZE <= x
         /\ x < (x \div PMM_PAGE_SIZE + 1) * PMM_PAGE_SIZE
BY PmmAssumption

\* Multiplying by the page size keeps the order.
LEMMA PageOrder ==
  ASSUME NEW m \in Nat, NEW n \in Nat, m * PMM_PAGE_SIZE < n * PMM_PAGE_SIZE
  PROVE  m < n
<1>1. SUFFICES ASSUME n <= m PROVE n * PMM_PAGE_SIZE <= m * PMM_PAGE_SIZE
  BY PmmAssumption
<1>2. PICK d \in Nat : m = n + d
  BY <1>1
<1>3. m * PMM_PAGE_SIZE = n * PMM_PAGE_SIZE + d * PMM_PAGE_SIZE
  BY <1>2, PmmAssumption
<1>4. d * PMM_PAGE_SIZE \in Nat /\ n * PMM_PAGE_SIZE \in Nat
  BY PmmAssumption
<1> QED BY <1>3, <1>4

\* The rounded-out span of frames pmm_init computes from a range of bytes is
\* the set of frames the range touches.
LEMMA SpanTouches ==
  ASSUME NEW start \in Nat, NEW end \in Nat, start < end, NEW f \in Nat
  PROVE  f \in FrameSpan(start, end) <=> Touches(f, start, end)
<1> DEFINE P == PMM_PAGE_SIZE
           q == start \div P
           r == (end + P - 1) \div P
<1>1. /\ P \in Nat \ {0} /\ q \in Nat /\ r \in Nat
      /\ q * P <= start /\ start < (q + 1) * P
      /\ r * P <= end + P - 1 /\ end + P - 1 < (r + 1) * P
  BY Quotient, PmmAssumption
<1>2. f \in FrameSpan(start, end) <=> q <= f /\ f < r
  BY <1>1 DEF FrameSpan, RoundUp
<1> HIDE DEF P, q, r
<1>3. (q + 1) * P = q * P + P /\ (r + 1) * P = r * P + P /\ (f + 1) * P = f * P + P
  BY <1>1
<1>4. q * P \in Nat /\ r * P \in Nat /\ f * P \in Nat
  BY <1>1
<1>5. q <= f <=> start < (f + 1) * P
  <2>1. ASSUME q <= f  PROVE start < (f + 1) * P
    <3>1. ~ ((f + 1) * P < (q + 1) * P)
      BY <1>1, <2>1, PageOrder DEF P
    <3> QED BY <3>1, <1>1, <1>3, <1>4
  <2>2. ASSUME start < (f + 1) * P  PROVE q <= f
    <3>1. q * P < (f + 1) * P
      BY <1>1, <2>2, <1>3, <1>4
    <3>2. q < f + 1
      BY <3>1, <1>1, PageOrder DEF P
    <3> QED BY <3>2, <1>1
  <2> QED BY <2>1, <2>2
<1>6. f < r <=> f * P < end
  <2>1. ASSUME f < r  PROVE f * P < end
    <3>1. ~ (r * P < (f + 1) * P)
      BY <1>1, <2>1, PageOrder DEF P
    <3> QED BY <3>1, <1>1, <1>3, <1>4
  <2>2. ASSUME f * P < end  PROVE f < r
    <3>1. (f + 1) * P < (r + 1) * P
      BY <1>1, <2>2, <1>3, <1>4
    <3>2. f + 1 < r + 1
      BY <3>1, <1>1, PageOrder DEF P
    <3> QED BY <3>2, <1>1
  <2> QED BY <2>1, <2>2
<1> QED BY <1>2, <1>5, <1>6 DEF Touches, P

\* No frame pmm_init leaves clear holds a reserved byte, and each lies on
\* available memory.
LEMMA InitialFreeUnreserved ==
  ASSUME boot \in BootInfos, NEW f \in InitialFree(boot)
  PROVE  Unreserved(f) /\ f # 0
<1>1. /\ f \in Nat /\ f \in MappedFrames(boot) /\ f \notin ReservedFrames(boot)
  BY TotalFramesType, PmmAssumption DEF InitialFree
<1>2. boot.mmap \in SUBSET MmapEntry /\ boot.modules \in SUBSET BootModule
  BY PmmAssumption DEF BootInfo
<1>3. ~Touches(f, KernelStart, KernelEnd)
  <2>1. KernelStart < KernelEnd => f \notin FrameSpan(KernelStart, KernelEnd)
    BY <1>1 DEF ReservedFrames
  <2> QED BY <2>1, <1>1, SpanTouches, PmmAssumption DEF Touches
<1>4. ASSUME NEW m \in boot.modules  PROVE ~Touches(f, m.mod_start, m.mod_end)
  <2>1. m.mod_start \in Nat /\ m.mod_end \in Nat
    BY <1>2 DEF BootModule
  <2>2. m.mod_start < m.mod_end => f \notin FrameSpan(m.mod_start, m.mod_end)
    BY <1>1 DEF ReservedFrames
  <2> QED BY <2>1, <2>2, <1>1, SpanTouches DEF Touches
<1>5. ~Touches(f, 0, LOW_LIMIT) /\ f # 0
  <2> DEFINE k == LOW_LIMIT \div PMM_PAGE_SIZE
  <2>1. k \in Nat /\ k * PMM_PAGE_SIZE = LOW_LIMIT /\ k # 0
    BY PmmAssumption
  <2>2. f \notin 0 .. (k - 1)
    BY <1>1 DEF ReservedFrames
  <2> HIDE DEF k
  <2>3. k <= f
    BY <1>1, <2>1, <2>2
  <2>4. ~ (f * PMM_PAGE_SIZE < k * PMM_PAGE_SIZE)
    BY <1>1, <2>1, <2>3, PageOrder
  <2> QED BY <2>1, <2>3, <2>4 DEF Touches
<1>6. \E e \in Available(boot) : Touches(f, e.addr, RegionEnd(e))
  <2>1. PICK e \in Available(boot) :
          f \in FrameSpan(e.addr, Min({RegionEnd(e), MaxPhys(boot)}))
    BY <1>1 DEF MappedFrames
  <2>2. e.addr \in Nat /\ RegionEnd(e) \in Nat /\ e.addr < RegionEnd(e)
    BY <1>2, <2>1 DEF Available, MmapEntry, RegionEnd
  <2>3. RegionEnd(e) <= MaxPhys(boot)
    BY <2>1, MaxPhysBounds
  <2>4. Min({RegionEnd(e), MaxPhys(boot)}) = RegionEnd(e)
    <3> DEFINE S == {RegionEnd(e), MaxPhys(boot)}
    <3>1. S \in SUBSET Nat /\ S # {}
      BY <2>2, MaxPhysType
    <3>2. Min(S) \in S /\ \A y \in S : Min(S) <= y
      BY <3>1, MinProperty
    <3> QED BY <3>2, <2>2, <2>3, MaxPhysType
  <2> QED BY <2>1, <2>2, <2>4, <1>1, SpanTouches
<1> QED BY <1>3, <1>4, <1>5, <1>6 DEF Unreserved

\* An address no frame of the bitmap has is ignored.
LEMMA StrayIgnored ==
  ASSUME CountInv, NEW phys \in StrayAddrs
  PROVE  ~FreeTakesEffect(phys)
<1> DEFINE n == 8 * PMM_BITMAP_BYTES
<1>1. SUFFICES ASSUME phys \div PMM_PAGE_SIZE < total_frames, phys >= HHDM_BASE
               PROVE  FALSE
  BY PmmAssumption DEF FreeTakesEffect, FrameOf
<1>2. n \in Nat /\ n * PMM_PAGE_SIZE <= phys /\ phys \in Nat /\ total_frames <= n
  <2>1. HHDM_BASE >= n * PMM_PAGE_SIZE /\ n \in Nat /\ HHDM_BASE \in Nat
    BY PmmAssumption
  <2>2. phys \in Nat /\ n * PMM_PAGE_SIZE \in Nat
    BY PmmAssumption
  <2>3. total_frames <= n
    BY PmmAssumption DEF CountInv, TypeOK
  <2> QED BY <1>1, <2>1, <2>2, <2>3
<1> DEFINE q == phys \div PMM_PAGE_SIZE
<1>3. q \in Nat /\ phys < (q + 1) * PMM_PAGE_SIZE
  BY <1>2, Quotient
<1>4. q + 1 <= n
  BY <1>1, <1>2, <1>3 DEF CountInv, TypeOK
<1> HIDE DEF n, q
<1>5. ~ (n * PMM_PAGE_SIZE < (q + 1) * PMM_PAGE_SIZE)
  BY <1>2, <1>3, <1>4, PageOrder
<1>6. n * PMM_PAGE_SIZE \in Nat /\ (q + 1) * PMM_PAGE_SIZE \in Nat
  BY <1>2, <1>3, PmmAssumption
<1> QED BY <1>2, <1>3, <1>5, <1>6

\* Before pmm_init nothing is free and nothing is held.
LEMMA InitOwnership == Init => OwnershipInv
<1> SUFFICES ASSUME Init PROVE OwnershipInv
  OBVIOUS
<1>1. Exclusive
  BY DEF Init, Exclusive
<1>2. Conservation
  BY DEF Init, Conservation
<1> QED BY <1>1, <1>2, InitCount DEF OwnershipInv, Init

\* After pmm_init every frame it found is free and none is held.
LEMMA InitStepOwnership ==
  ASSUME OwnershipInv, pmm_init
  PROVE  OwnershipInv'
<1>1. CountInv' /\ FreeFrames' = InitialFree(boot) /\ boot' = boot
  BY InitStepCount DEF OwnershipInv, pmm_init
<1>2. held' = {} /\ initialised' = TRUE
  BY DEF OwnershipInv, pmm_init
<1>3. Exclusive'
  BY <1>2 DEF Exclusive
<1>4. Conservation'
  BY <1>1, <1>2 DEF Conservation, InitialFree
<1> QED BY <1>1, <1>2, <1>3, <1>4 DEF OwnershipInv

\* An allocation moves one frame from the pool to the caller; the frame is not
\* frame 0, so the address returned is not the failure value.
LEMMA AllocStepOwnership ==
  ASSUME OwnershipInv, pmm_alloc_frame
  PROVE  /\ OwnershipInv'
         /\ FirstFit \in Bits /\ FrameOf(ret') = FirstFit /\ ret' # 0
<1>1. /\ CountInv'
      /\ FirstFit \in FreeFrames
      /\ FreeFrames' = FreeFrames \ {FirstFit}
  BY AllocStepCount DEF OwnershipInv
<1>2. held' = held \cup {FirstFit} /\ boot' = boot /\ initialised' = initialised
  BY DEF pmm_alloc_frame
<1>3. initialised /\ boot \in BootInfos
  BY <1>1 DEF OwnershipInv, CountInv, TypeOK, FreeFrames
<1>4. FirstFit \in InitialFree(boot)
  BY <1>1, <1>3 DEF OwnershipInv, Conservation
<1>5. FirstFit # 0 /\ FirstFit \in Bits /\ FirstFit \in Nat
  BY <1>3, <1>4, InitialFreeUnreserved, TotalFramesType, PmmAssumption DEF Bits
<1>6. Exclusive'
  BY <1>1, <1>2 DEF OwnershipInv, Exclusive
<1>7. Conservation'
  <2>1. FreeFrames' \cup held' = InitialFree(boot)
    BY <1>1, <1>2, <1>3 DEF OwnershipInv, Conservation
  <2> QED BY <2>1, <1>2 DEF Conservation, InitialFree
<1>8. ret' = FirstFit * PMM_PAGE_SIZE
  BY DEF pmm_alloc_frame
<1>9. FrameOf(ret') = FirstFit /\ ret' # 0
  BY <1>5, <1>8, Paging, PmmAssumption DEF FrameOf
<1> QED BY <1>1, <1>2, <1>3, <1>5, <1>6, <1>7, <1>9 DEF OwnershipInv

\* A refused allocation moves no frame.
LEMMA AllocFailsStepOwnership ==
  ASSUME OwnershipInv, pmm_alloc_frame_fails
  PROVE  OwnershipInv'
<1>1. CountInv' /\ FreeFrames' = FreeFrames
  BY AllocFailsStepCount DEF OwnershipInv
<1> QED BY <1>1 DEF OwnershipInv, Exclusive, Conservation, InitialFree,
                    pmm_alloc_frame_fails

\* Freeing a held frame moves it back to the pool.
LEMMA FreeHeldStepOwnership ==
  ASSUME OwnershipInv, NEW f \in held, pmm_free_frame(f * PMM_PAGE_SIZE)
  PROVE  /\ OwnershipInv'
         /\ \/ FreeFrames' = FreeFrames \cup {f} /\ held' = held \ {f}
            \/ FreeFrames' = FreeFrames /\ held' = held
         /\ f \in Bits /\ ret' = ret
<1> DEFINE phys == f * PMM_PAGE_SIZE
<1>1. f \in Bits /\ f \in Nat
  BY PmmAssumption DEF OwnershipInv, CountInv, TypeOK, Bits
<1>2. phys \in Nat /\ FrameOf(phys) = f
  BY <1>1, Paging DEF FrameOf
<1> HIDE DEF phys
<1>3. pmm_free_frame(phys)
  BY DEF phys
<1>4. CountInv'
  BY <1>2, <1>3, FreeStepCount DEF OwnershipInv
<1>5. boot' = boot /\ initialised' = initialised /\ ret' = ret
  BY <1>3 DEF pmm_free_frame
<1>6. initialised /\ FreeFrames \cup held = InitialFree(boot)
  BY DEF OwnershipInv, Conservation
<1>7. \/ FreeFrames' = FreeFrames \cup {f} /\ held' = held \ {f}
      \/ FreeFrames' = FreeFrames /\ held' = held
  BY <1>2, <1>3, FreeStepCount DEF pmm_free_frame, OwnershipInv
<1>8. Exclusive'
  BY <1>7 DEF OwnershipInv, Exclusive
<1>9. Conservation'
  <2>1. FreeFrames' \cup held' = InitialFree(boot)
    BY <1>6, <1>7
  <2> QED BY <2>1, <1>5 DEF Conservation, InitialFree
<1> QED BY <1>1, <1>4, <1>5, <1>6, <1>7, <1>8, <1>9 DEF OwnershipInv

\* Freeing a stray address changes nothing.
LEMMA FreeStrayStep ==
  ASSUME OwnershipInv, NEW phys \in StrayAddrs, pmm_free_frame(phys)
  PROVE  UNCHANGED vars
BY StrayIgnored DEF OwnershipInv, pmm_free_frame, vars

\* Freeing a frame that is free already changes nothing.
LEMMA FreeTwiceStep ==
  ASSUME OwnershipInv, NEW phys \in FreeAddrs, pmm_free_frame(phys)
  PROVE  UNCHANGED vars
<1>1. PICK f \in FreeFrames : phys = f * PMM_PAGE_SIZE
  BY DEF FreeAddrs
<1>2. f \in Nat /\ frame_is_free(f)
  BY PmmAssumption DEF OwnershipInv, CountInv, TypeOK, FreeFrames
<1>3. FrameOf(phys) = f
  BY <1>1, <1>2, Paging DEF FrameOf
<1> QED BY <1>2, <1>3 DEF pmm_free_frame, FreeTakesEffect, vars

\* A step that changes no variable keeps the invariant.
LEMMA StutterOwnership ==
  ASSUME OwnershipInv, UNCHANGED vars
  PROVE  OwnershipInv' /\ FreeFrames' = FreeFrames
BY DEF vars, OwnershipInv, CountInv, TypeOK, FreeCountExact, FreeFrames, frame_is_free,
       Exclusive, Conservation, InitialFree

\* Every step of disciplined callers keeps the ownership invariant.
LEMMA NextOwnership == OwnershipInv /\ [Next]_vars => OwnershipInv'
<1> SUFFICES ASSUME OwnershipInv, [Next]_vars PROVE OwnershipInv'
  OBVIOUS
<1>1. CASE pmm_init
  BY <1>1, InitStepOwnership
<1>2. CASE pmm_alloc_frame
  BY <1>2, AllocStepOwnership
<1>3. CASE pmm_alloc_frame_fails
  BY <1>3, AllocFailsStepOwnership
<1>4. ASSUME NEW phys \in HeldAddrs, pmm_free_frame(phys) PROVE OwnershipInv'
  BY <1>4, FreeHeldStepOwnership DEF HeldAddrs
<1>5. ASSUME NEW phys \in StrayAddrs, pmm_free_frame(phys) PROVE OwnershipInv'
  BY <1>5, FreeStrayStep, StutterOwnership
<1>6. ASSUME NEW phys \in FreeAddrs, pmm_free_frame(phys) PROVE OwnershipInv'
  BY <1>6, FreeTwiceStep, StutterOwnership
<1>7. CASE UNCHANGED vars
  BY <1>7, StutterOwnership
<1> QED BY <1>1, <1>2, <1>3, <1>4, <1>5, <1>6, <1>7 DEF Next

\* Every frame of the boot is at every moment either free or held by one
\* caller, when callers free no frame they do not hold but free ones.
THEOREM OwnershipInvariant == Spec => []OwnershipInv
BY InitOwnership, NextOwnership, PTL DEF Spec

\* The types, bounds and capacity of the bitmap hold in every state of pmm.c.
THEOREM TypeCorrect == Spec => []TypeOK
BY OwnershipInvariant, PTL DEF OwnershipInv, CountInv

\* pmm_alloc_frame never hands out a frame that some caller holds.
THEOREM ExclusiveOwnership == Spec => []Exclusive
BY OwnershipInvariant, PTL DEF OwnershipInv

\* The frames pmm_init found are, at any time, the free and the held ones.
THEOREM FramesConserved == Spec => []Conservation
BY OwnershipInvariant, PTL DEF OwnershipInv

\* The kernel image, low memory and the boot modules are never handed out.
THEOREM ReservedSafe == Spec => []ReservedNeverHandedOut
<1>1. OwnershipInv => ReservedNeverHandedOut
  BY InitialFreeUnreserved
     DEF OwnershipInv, CountInv, TypeOK, Conservation, ReservedNeverHandedOut
<1> QED BY <1>1, OwnershipInvariant, PTL

----------------------------------------------------------------------------
(* Refinement *)

\* Every behaviour of the bitmap allocator, seen through its free set, is a
\* behaviour of FrameAllocator.
THEOREM Refinement == Spec => ImplementsFrameAllocator
<1>1. Init => Abstract!Init
  BY DEF Init, Abstract!Init, FreeFrames
<1>2. OwnershipInv /\ OwnershipInv' /\ [Next]_vars => [Abstract!Next]_(Abstract!vars)
  <2> SUFFICES ASSUME OwnershipInv, OwnershipInv', [Next]_vars
               PROVE  Abstract!Next \/ UNCHANGED Abstract!vars
    BY DEF Abstract!vars
  <2> USE DEF Abstract!Next, Abstract!vars
  <2>1. CASE pmm_init
    <3>1. FreeFrames' \in SUBSET Bits
      BY <2>1, InitStepCount, TotalFramesType DEF OwnershipInv, CountInv, TypeOK
    <3>2. FreeFrames = {} /\ held = {} /\ held' = held /\ ret' = ret
      BY <2>1 DEF OwnershipInv, CountInv, FreeFrames, pmm_init
    <3> QED BY <3>1, <3>2 DEF Abstract!Provide
  <2>2. CASE pmm_alloc_frame
    <3>1. /\ FirstFit \in FreeFrames /\ FirstFit \in Bits
          /\ FreeFrames' = FreeFrames \ {FirstFit}
          /\ held' = held \cup {FirstFit}
          /\ FrameOf(ret') = FirstFit /\ ret' # 0
      BY <2>2, AllocStepCount, AllocStepOwnership DEF OwnershipInv, pmm_alloc_frame
    <3> QED BY <3>1 DEF Abstract!Allocate
  <2>3. CASE pmm_alloc_frame_fails
    <3>1. FreeFrames = {} /\ FreeFrames' = FreeFrames /\ ret' = 0 /\ held' = held
      BY <2>3, AllocFailsStepCount DEF OwnershipInv, pmm_alloc_frame_fails
    <3> QED BY <3>1 DEF Abstract!Refuse
  <2>4. ASSUME NEW phys \in HeldAddrs, pmm_free_frame(phys)
        PROVE  Abstract!Next \/ UNCHANGED Abstract!vars
    <3>1. PICK f \in held : phys = f * PMM_PAGE_SIZE
      BY DEF HeldAddrs
    <3>2. /\ \/ FreeFrames' = FreeFrames \cup {f} /\ held' = held \ {f}
             \/ FreeFrames' = FreeFrames /\ held' = held
          /\ f \in Bits /\ ret' = ret
      BY <2>4, <3>1, FreeHeldStepOwnership
    <3> QED BY <3>1, <3>2 DEF Abstract!Release
  <2>5. ASSUME NEW phys \in StrayAddrs, pmm_free_frame(phys)
        PROVE  Abstract!Next \/ UNCHANGED Abstract!vars
    <3>1. UNCHANGED vars
      BY <2>5, FreeStrayStep
    <3> QED BY <3>1, StutterOwnership DEF vars, FrameOf
  <2>6. ASSUME NEW phys \in FreeAddrs, pmm_free_frame(phys)
        PROVE  Abstract!Next \/ UNCHANGED Abstract!vars
    <3>1. UNCHANGED vars
      BY <2>6, FreeTwiceStep
    <3> QED BY <3>1, StutterOwnership DEF vars, FrameOf
  <2>7. CASE UNCHANGED vars
    BY <2>7, StutterOwnership DEF vars, FrameOf
  <2> QED BY <2>1, <2>2, <2>3, <2>4, <2>5, <2>6, <2>7 DEF Next
<1> QED BY <1>1, <1>2, OwnershipInvariant, PTL
        DEF Spec, ImplementsFrameAllocator, Abstract!Spec

=============================================================================
