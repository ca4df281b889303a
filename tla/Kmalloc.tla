------------------------------ MODULE Kmalloc -------------------------------
(***************************************************************************)
(* Large blocks of the kernel heap (src/lib/alloc.c) over the virtual      *)
(* memory manager.  The heap starts at the physical end of the kernel,     *)
(* _kernel_bss_end, so its addresses lie in the identity map, which        *)
(* boot.asm makes of large pages; page p of the heap is frame p.           *)
(*                                                                         *)
(* A header is eight bytes at the start of a block, where a page table has *)
(* its first entry; the magic number reads as an entry that is not         *)
(* present.  Small blocks go to the slab allocator, module Slab; here it   *)
(* is one of those that take frames.                                       *)
(***************************************************************************)
EXTENDS Vmm, Sequences, SequencesExt

CONSTANTS
  HeapStart,      \* _kernel_bss_end, as a page
  Pages           \* pages of the large blocks callers ask for

VARIABLES
  heap_cur,       \* the page the next block starts at
  blocks,         \* history: first pages of the blocks callers have
  failed          \* history: the last operation was a kmalloc that failed

kvars == <<vars, heap_cur, blocks, failed>>

\* The identity map's address of a page.
VA(p) == <<p \div (N * N * N), (p \div (N * N)) % N, (p \div N) % N, p % N>>

Header(n) == [present |-> FALSE, ps |-> FALSE, frame |-> n]

\* The two words at the start of a page: pages, if the magic number is there.
HeaderAt(m, p) == m[Translate(m, VA(p))][0]
IsHeader(e) == ~e.present /\ e.frame # 0
HeaderPages(e) == IF IsHeader(e) THEN e.frame ELSE 0

PagesFrom(p, n) == [k \in 1 .. n |-> p + k - 1]

\* A frame that is not free becomes free, whoever has it.
Freed(free, f) == IF f \in Frames THEN free \cup {f} ELSE free

\* Unmap a page and free what it leads to, as unwinding and kfree do.
UnmapFree(s, p) ==
  LET phys == Translate(s.mem, VA(p))
  IN  IF phys = 0 THEN s
      ELSE [mem |-> UnmapPage(s.mem, VA(p)), pool |-> Freed(s.pool, phys)]

\* The loop over the pages of a block; it ends at the first that fails.
Mapping(s, n) ==
  FoldLeft(LAMBDA r, p : IF ~r.ok THEN r
                         ELSE LET x == MapAlloc(r.s, VA(p))
                              IN  IF x.phys = 0 THEN [r EXCEPT !.s = x.s, !.ok = FALSE]
                                  ELSE [r EXCEPT !.s = x.s, !.mapped = @ + 1],
           [s |-> s, mapped |-> 0, ok |-> TRUE], PagesFrom(heap_cur, n))

Unwound(r) == FoldLeft(UnmapFree, r.s, PagesFrom(heap_cur, r.mapped))

Becomes(s) == mem' = s.mem /\ pool' = s.pool

----------------------------------------------------------------------------
kmalloc(n) ==
  /\ \E r \in {Mapping(State, n)} :
       /\ r.mapped = n
       /\ pool' = r.s.pool
       /\ mem' = [r.s.mem EXCEPT ![Translate(r.s.mem, VA(heap_cur))][0] = Header(n)]
  /\ heap_cur' = heap_cur + n
  /\ blocks' = blocks \cup {heap_cur}
  /\ failed' = FALSE
  /\ UNCHANGED <<data, last>>

kmalloc_fails(n) ==
  /\ \E r \in {Mapping(State, n)} :
       /\ r.mapped # n
       /\ Becomes(Unwound(r))
  /\ failed' = TRUE
  /\ UNCHANGED <<data, last, heap_cur, blocks>>

\* The header is read again for each page, after the pages before are freed.
kfree(p) ==
  /\ p \in blocks
  /\ IsHeader(HeaderAt(mem, p))
  /\ Becomes(FoldLeft(LAMBDA s, k : IF k < HeaderPages(HeaderAt(s.mem, p))
                                    THEN UnmapFree(s, p + k) ELSE s,
                      State, [k \in 1 .. Max(Pages) |-> k - 1]))
  /\ blocks' = blocks \ {p}
  /\ failed' = FALSE
  /\ UNCHANGED <<data, last, heap_cur>>

\* The slab allocator and the drivers take frames.
pmm_alloc_frame ==
  /\ pool # {}
  /\ pool' = pool \ {Min(pool)}
  /\ data' = data \cup {Min(pool)}
  /\ failed' = FALSE
  /\ UNCHANGED <<mem, last, heap_cur, blocks>>

KInit == Init /\ heap_cur = HeapStart /\ blocks = {} /\ failed = FALSE

KNext ==
  \/ \E n \in Pages : kmalloc(n) \/ kmalloc_fails(n)
  \/ \E p \in blocks : kfree(p)
  \/ pmm_alloc_frame

KSpec == KInit /\ [][KNext]_kvars

----------------------------------------------------------------------------
\* The comment at src/lib/alloc.c:49-51 says that a kmalloc that fails unmaps
\* each page it mapped and frees its frame: the free frames are those it found.
UnwindFreesFrames == [][failed' => pool' = pool]_kvars
=============================================================================
