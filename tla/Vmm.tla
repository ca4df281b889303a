-------------------------------- MODULE Vmm --------------------------------
(***************************************************************************)
(* The virtual memory manager (src/mem/vmm.c): four-level page tables      *)
(* built in frames of the physical memory manager and walked through the   *)
(* higher-half direct map.                                                 *)
(*                                                                         *)
(* mem is physical memory, one table of N entries per frame, so that an    *)
(* entry written through a wrong walk lands where it would on the machine. *)
(* An address is the tuple of its four indexes <<i4, i3, i2, i1>>; offsets *)
(* inside a page and the flag bits other than P and PS are left out.       *)
(* data is a history variable: the frames vmm_map_alloc_page handed out.   *)
(***************************************************************************)
EXTENDS Integers, FiniteSets, FiniteSetsExt

CONSTANTS
  N,              \* entries in a table (512)
  MapVAs,         \* addresses callers map and unmap
  DevicePages,    \* physical pages outside memory, mapped for devices
  Frames,         \* the frames of physical memory
  BootFree,       \* frames the physical memory manager offers when vmm_init runs
  pml4_phys,      \* CR3: the first of the tables of boot.asm
  LOW_PDS,        \* page directories that map memory from its start (4)
  KERNEL_PHYS_BASE, \* the frame where the kernel's window starts (512)
  KERNEL_MAP      \* large pages of that window (64)

Index == 0 .. (N - 1)
VAs == Index \X Index \X Index \X Index

Entry == [present : BOOLEAN, ps : BOOLEAN, frame : Nat]
Absent == [present |-> FALSE, ps |-> FALSE, frame |-> 0]
Small(f) == [present |-> TRUE, ps |-> FALSE, frame |-> f]
Large(f) == [present |-> TRUE, ps |-> TRUE, frame |-> f]

ZeroTable == [i \in Index |-> Absent]

ASSUME VmmAssumption ==
  /\ N \in Nat \ {0}
  /\ Frames \subseteq Nat /\ BootFree \subseteq Frames \ {0}
  /\ LOW_PDS \in 1 .. N /\ KERNEL_MAP \in 1 .. N /\ KERNEL_PHYS_BASE \in Nat
  /\ pml4_phys \in Nat \ {0}
  /\ pml4_phys .. pml4_phys + LOW_PDS + 3 \subseteq Frames \ BootFree
  /\ MapVAs \subseteq VAs
  /\ DevicePages \subseteq Nat \ {0} /\ DevicePages \cap Frames = {}

VARIABLES
  mem,      \* physical memory
  pool,     \* the frames pmm_alloc_frame can hand out
  data,     \* history: frames handed to callers and not given back
  last      \* history: the last operation and what it reported

vars == <<mem, pool, data, last>>

----------------------------------------------------------------------------
(* The tables of boot.asm, one behind the other.  One PDPT is entered twice, for
   the identity map and for the direct map. *)

pdpt_low == pml4_phys + 1
pd_low(k) == pml4_phys + 2 + k
pdpt_kern == pml4_phys + 2 + LOW_PDS
pd_kern_0 == pml4_phys + 3 + LOW_PDS

fill_pd(k) == [i \in Index |-> Large((k * N + i) * N)]
fill_kern ==
  [i \in Index |-> IF i < KERNEL_MAP THEN Large(KERNEL_PHYS_BASE + i * N) ELSE Absent]

setup_page_tables ==
  [f \in Frames |->
    CASE f = pml4_phys -> [ZeroTable EXCEPT ![0] = Small(pdpt_low), ![N \div 2] = Small(pdpt_low),
                                            ![N - 1] = Small(pdpt_kern)]
      [] f = pdpt_low  -> [i \in Index |-> IF i < LOW_PDS THEN Small(pd_low(i)) ELSE Absent]
      [] f \in pd_low(0) .. pd_low(LOW_PDS - 1) -> fill_pd(f - pd_low(0))
      [] f = pdpt_kern -> [ZeroTable EXCEPT ![N - 2] = Small(pd_kern_0)]
      [] f = pd_kern_0 -> fill_kern
      [] OTHER -> ZeroTable]

----------------------------------------------------------------------------
(* The walk.  A step of the code that may change memory and the pool maps a
   state [mem, pool] to a state. *)

\* Mutant: the frame taken for a table stays in the pool.
ensure_table_untaken(s, table, i) ==
  LET e == s.mem[table][i]
      f == Min(s.pool)
  IN  IF e.present
      THEN [s |-> s, table |-> e.frame]
      ELSE IF s.pool = {}
           THEN [s |-> s, table |-> 0]
           ELSE [s |-> [s EXCEPT !.mem = [@ EXCEPT ![f] = ZeroTable,
                                                   ![table] = [@ EXCEPT ![i] = Small(f)]]],
                 table |-> f]

\* Mutant: a new table is not cleared.
ensure_table_dirty(s, table, i) ==
  LET e == s.mem[table][i]
      f == Min(s.pool)
  IN  IF e.present
      THEN [s |-> s, table |-> e.frame]
      ELSE IF s.pool = {}
           THEN [s |-> s, table |-> 0]
           ELSE [s |-> [mem  |-> [s.mem EXCEPT ![table] = [@ EXCEPT ![i] = Small(f)]],
                        pool |-> s.pool \ {f}],
                 table |-> f]

\* The table an entry leads to, made if the entry is not present: first fit,
\* as pmm_alloc_frame searches.  0 when no frame is left.
ensure_table(s, table, i) ==
  LET e == s.mem[table][i]
      f == Min(s.pool)
  IN  IF e.present
      THEN [s |-> s, table |-> e.frame]
      ELSE IF s.pool = {}
           THEN [s |-> s, table |-> 0]
           ELSE [s |-> [mem  |-> [s.mem EXCEPT ![f] = ZeroTable,
                                               ![table] = [@ EXCEPT ![i] = Small(f)]],
                        pool |-> s.pool \ {f}],
                 table |-> f]

\* The next level down, unless a level above failed.
Descend(r, i) == IF r.table = 0 THEN r ELSE ensure_table(r.s, r.table, i)

MapPage(s, va, phys) ==
  LET pdpt == ensure_table(s, pml4_phys, va[1])
      pd   == Descend(pdpt, va[2])
      pt   == Descend(pd, va[3])
  IN  IF pt.table = 0
      THEN [s |-> pt.s, result |-> -1]
      ELSE [s |-> [pt.s EXCEPT !.mem[pt.table] = [@ EXCEPT ![va[4]] = Small(phys)]],
            result |-> 0]

\* The levels vmm_unmap_page finds present, and the table the last leads to; the
\* PS bit is not looked at.
HasPt(m, va) ==
  LET e4 == m[pml4_phys][va[1]]
      e3 == m[e4.frame][va[2]]
      e2 == m[e3.frame][va[3]]
  IN  e4.present /\ e3.present /\ e2.present

PtOf(m, va) == m[m[m[pml4_phys][va[1]].frame][va[2]].frame][va[3]].frame

\* vmm_translate: the physical page of an address, or 0.  A large page covers
\* N or N * N small ones.
Translate(m, va) ==
  LET e4 == m[pml4_phys][va[1]]
      e3 == m[e4.frame][va[2]]
      e2 == m[e3.frame][va[3]]
      e1 == m[e2.frame][va[4]]
  IN  IF ~e4.present THEN 0
      ELSE IF ~e3.present THEN 0
      ELSE IF e3.ps THEN e3.frame + va[3] * N + va[4]
      ELSE IF ~e2.present THEN 0
      ELSE IF e2.ps THEN e2.frame + va[4]
      ELSE IF ~e1.present THEN 0
      ELSE e1.frame

----------------------------------------------------------------------------
(* Operations *)

State == [mem |-> mem, pool |-> pool]

Report(op, va, phys, result) ==
  last' = [op |-> op, va |-> va, phys |-> phys, result |-> result]

\* vmm_map_page, called for the pages of a device.
vmm_map_page(va, phys) ==
  LET r == MapPage(State, va, phys)
  IN  /\ mem' = r.s.mem
      /\ pool' = r.s.pool
      /\ Report("map", va, phys, r.result)
      /\ UNCHANGED data

\* Mutant: the frame is lost when mapping fails.
GiveBackNothing(p, f, va) == p

\* The pool after a failed mapping of frame f at va.
GiveBack(p, f, va) == p \cup {f}

\* The frame comes first, and goes back if mapping fails; 0 is failure.
MapAlloc(s, va) ==
  LET f == Min(s.pool)
      r == MapPage([s EXCEPT !.pool = @ \ {f}], va, f)
  IN  IF s.pool = {} THEN [s |-> s, phys |-> 0]
      ELSE IF r.result = 0 THEN [s |-> r.s, phys |-> f]
      ELSE [s |-> [r.s EXCEPT !.pool = GiveBack(@, f, va)], phys |-> 0]

vmm_map_alloc_page(va) ==
  /\ pool # {}
  /\ \E r \in {MapAlloc(State, va)} :
       /\ mem' = r.s.mem
       /\ pool' = r.s.pool
       /\ data' = data \cup ({r.phys} \ {0})
       /\ Report("map", va, Min(pool), IF r.phys = 0 THEN -1 ELSE 0)

vmm_map_alloc_page_no_frame(va) ==
  /\ pool = {}
  /\ UNCHANGED vars

UnmapPage(m, va) ==
  IF HasPt(m, va) THEN [m EXCEPT ![PtOf(m, va)] = [@ EXCEPT ![va[4]] = Absent]] ELSE m

vmm_unmap_page(va) ==
  /\ HasPt(mem, va)
  /\ mem' = UnmapPage(mem, va)
  /\ Report("unmap", va, 0, 0)
  /\ UNCHANGED <<pool, data>>

vmm_unmap_page_fails(va) ==
  /\ ~HasPt(mem, va)
  /\ Report("unmap", va, 0, -1)
  /\ UNCHANGED <<mem, pool, data>>

\* What a caller may have written to a frame, read as a table.
Dirt == [i \in Index |-> Large(1)]

\* A caller gives back a frame once it has unmapped it, with its data in it.
pmm_free_frame(f) ==
  /\ \A va \in MapVAs : Translate(mem, va) # f
  /\ data' = data \ {f}
  /\ pool' = pool \cup {f}
  /\ mem' = [mem EXCEPT ![f] = Dirt]
  /\ UNCHANGED last

Init ==
  /\ mem = setup_page_tables
  /\ pool = BootFree
  /\ data = {}
  /\ last = [op |-> "none"]

\* Callers do not map an address that leads somewhere already; Kmalloc does.
Next ==
  \/ \E va \in {v \in MapVAs : Translate(mem, v) = 0} :
       \/ \E p \in DevicePages : vmm_map_page(va, p)
       \/ vmm_map_alloc_page(va)
       \/ vmm_map_alloc_page_no_frame(va)
  \/ \E va \in MapVAs : vmm_unmap_page(va) \/ vmm_unmap_page_fails(va)
  \/ \E f \in data : pmm_free_frame(f)

Spec == Init /\ [][Next]_vars

----------------------------------------------------------------------------
(* Properties *)

\* Addresses at which the boot tables have neither a page table nor a large page,
\* and that do not go through the PDPT of both the identity and the direct map.
Clean(vas) == \A va \in vas : ~HasPt(setup_page_tables, va)
OwnRoots(vas) == \A va \in vas : va[1] \notin {0, N \div 2}

\* The types of the variables.
TypeOK ==
  /\ mem \in [Frames -> [Index -> Entry]]
  /\ pool \subseteq BootFree
  /\ data \subseteq BootFree

\* The entries of tables T that lead to tables, and the tables they lead to.
Links(T) == {x \in T \X Index : mem[x[1]][x[2]].present /\ ~mem[x[1]][x[2]].ps}
Children(T) == {mem[x[1]][x[2]].frame : x \in Links(T)}

\* The tables of the walk by level, from the root down to the page tables.
Levels ==
  LET pdpts == Children({pml4_phys})
      pds   == Children(pdpts)
  IN  <<{pml4_phys}, pdpts, pds, Children(pds)>>

Tables == LET L == Levels IN L[1] \cup L[2] \cup L[3] \cup L[4]

\* The tables made since boot form trees: none serves at two levels or is
\* reached through two entries, and none is entered as a page; only the boot's
\* low tables are shared, by the identity map and the direct map.  Otherwise a
\* change below one address would show at another.
TablesFormTree ==
  LET L == Levels
      links == Links(L[1] \cup L[2] \cup L[3])
  IN  /\ \A i, j \in 1 .. 4 : i < j => L[i] \cap L[j] = {}
      /\ \A f \in Tables \cap BootFree :
           Cardinality({x \in links : mem[x[1]][x[2]].frame = f}) = 1
      /\ \A x \in L[4] \X Index : mem[x[1]][x[2]].present => mem[x[1]][x[2]].frame \notin Tables

\* Every frame the boot left free is in the pool, with a caller, or is a page
\* table reached from the root; and in only one of these.  A failed mapping
\* leaks nothing: the tables made on the way stay reachable.
FramesAccounted ==
  LET tables == Tables \cap BootFree
  IN  /\ BootFree = pool \cup data \cup tables
      /\ pool \cap data = {} /\ pool \cap tables = {} /\ data \cap tables = {}

\* The address space is what AddressSpace promises: an operation that reports
\* success changes one translation, one that fails changes none.
Abstract == INSTANCE AddressSpace WITH
  VAs     <- VAs,
  Targets <- DevicePages \cup BootFree,
  space   <- [va \in VAs |-> Translate(mem, va)]

ImplementsAddressSpace == Abstract!Spec
=============================================================================
