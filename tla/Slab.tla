-------------------------------- MODULE Slab --------------------------------
(***************************************************************************)
(* The slab allocator for small objects (src/mem/slab.c): size classes,    *)
(* each with a list of one-frame slab pages and a magazine of recently     *)
(* freed objects.  Frames come from the frame allocator, of which only     *)
(* what FrameAllocator promises is used.                                   *)
(*                                                                         *)
(* An object is its page's frame and its slot.  get_cpu_id() is a stub     *)
(* that answers 0, so a cache has one magazine in use.  Addresses are in   *)
(* units of a page.  owned is a history variable.                          *)
(***************************************************************************)
EXTENDS Integers, Sequences, FiniteSets, SequencesExt

CONSTANTS
  Frames,               \* frame numbers the frame allocator manages
  NoFrame,
  HHDM_BASE,            \* PHYS_TO_VIRT adds it
  slab_sizes,           \* the size classes, increasing
  USABLE,               \* bytes of a page after the slab header
  SLAB_MAGAZINE_SIZE,
  Sizes                 \* the sizes callers ask for

Classes == DOMAIN slab_sizes

ASSUME SlabAssumption ==
  /\ Frames \subseteq Nat /\ NoFrame \notin Frames
  /\ HHDM_BASE \in Nat /\ \A f \in Frames : f < HHDM_BASE
  /\ slab_sizes \in Seq(Nat \ {0})
  /\ \A i, j \in Classes : i < j => slab_sizes[i] < slab_sizes[j]
  /\ USABLE \in Nat /\ \A i \in Classes : slab_sizes[i] <= USABLE
  /\ SLAB_MAGAZINE_SIZE \in Nat \ {0}
  /\ Sizes \subseteq Nat \ {0}

VARIABLES
  pool, held, frame,    \* the frame allocator
  obj_size,             \* frame -> obj_size of its slab header, 0 when none
  free_list,            \* frame -> stack of free slots, first free one first
  free_count,           \* frame -> free_count of its slab header
  partial,              \* class -> the list of its slab pages
  mags,                 \* class -> stack of objects, top last
  owned                 \* history: object -> size asked for, in callers' hands

fvars == <<pool, held, frame>>
pvars == <<obj_size, free_list, free_count, partial>>
vars  == <<fvars, pvars, mags, owned>>

PMM == INSTANCE FrameAllocator WITH ret <- frame

PHYS_TO_VIRT(f) == f + HHDM_BASE

Object(f, s) == [page |-> f, slot |-> s]

objs_per_page(idx) == USABLE \div slab_sizes[idx]

\* Mutant: an object one byte too big is let in.
size_to_index_off_by_one(sz) ==
  IF \E i \in Classes : sz <= slab_sizes[i] + 1
  THEN CHOOSE i \in Classes :
         sz <= slab_sizes[i] + 1 /\ \A j \in Classes : sz <= slab_sizes[j] + 1 => i <= j
  ELSE 0

\* The first class an object of sz bytes fits in, or 0.
size_to_index(sz) ==
  IF \E i \in Classes : sz <= slab_sizes[i]
  THEN CHOOSE i \in Classes :
         sz <= slab_sizes[i] /\ \A j \in Classes : sz <= slab_sizes[j] => i <= j
  ELSE 0

----------------------------------------------------------------------------
(* slab_alloc *)

Hand(o, sz) ==
  owned' = [p \in DOMAIN owned \cup {o} |-> IF p = o THEN sz ELSE owned[p]]

\* Mutant: the magazine's count is not decremented.
PopForgotten(mag) == mag

Pop(mag) == Front(mag)

\* The magazine is tried first.
slab_alloc_from_magazine(sz) ==
  LET idx == size_to_index(sz)
  IN  /\ idx # 0
      /\ mags[idx] # <<>>
      /\ mags' = [mags EXCEPT ![idx] = Pop(@)]
      /\ Hand(Last(mags[idx]), sz)
      /\ UNCHANGED <<fvars, pvars>>

\* Only the first page of the list is looked at.
HeadHasFree(idx) == partial[idx] # <<>> /\ free_count[Head(partial[idx])] # 0

slab_alloc_from_page(sz) ==
  LET idx == size_to_index(sz)
      sp  == Head(partial[idx])
  IN  /\ idx # 0
      /\ mags[idx] = <<>>
      /\ HeadHasFree(idx)
      /\ free_list' = [free_list EXCEPT ![sp] = Tail(@)]
      /\ free_count' = [free_count EXCEPT ![sp] = @ - 1]
      /\ Hand(Object(sp, Head(free_list[sp])), sz)
      /\ UNCHANGED <<fvars, obj_size, partial, mags>>

\* create_slab_page threads the slots so that the last one is first.
NewFreeList(idx) == [i \in 1 .. objs_per_page(idx) |-> objs_per_page(idx) - i]

\* The count of a new page once the first object is taken.
FreshCount(idx) == objs_per_page(idx) - 1

slab_alloc_from_new_page(sz) ==
  LET idx == size_to_index(sz)
      fl  == NewFreeList(idx)
  IN  /\ idx # 0
      /\ mags[idx] = <<>>
      /\ ~HeadHasFree(idx)
      /\ \E sp \in Frames :
           /\ PMM!Allocate(sp)
           /\ obj_size' = [obj_size EXCEPT ![sp] = slab_sizes[idx]]
           /\ partial' = [partial EXCEPT ![idx] = <<sp>> \o @]
           /\ free_list' = [free_list EXCEPT ![sp] = Tail(fl)]
           /\ free_count' = [free_count EXCEPT ![sp] = FreshCount(idx)]
           /\ Hand(Object(sp, Head(fl)), sz)
      /\ UNCHANGED mags

\* NULL: the size has no class, or no frame is left for a new page.
slab_alloc_fails(sz) ==
  LET idx == size_to_index(sz)
  IN  \/ idx = 0 /\ UNCHANGED vars
      \/ /\ idx # 0
         /\ mags[idx] = <<>>
         /\ ~HeadHasFree(idx)
         /\ PMM!Refuse
         /\ UNCHANGED <<pvars, mags, owned>>

----------------------------------------------------------------------------
(* slab_free *)

Release(o) == owned' = [p \in DOMAIN owned \ {o} |-> owned[p]]

\* The class comes from the header of the object's page.
CacheOf(o) == size_to_index(obj_size[o.page])

MagazineHasRoom(idx) == Len(mags[idx]) < SLAB_MAGAZINE_SIZE

slab_free_to_magazine(o) ==
  /\ MagazineHasRoom(CacheOf(o))
  /\ mags' = [mags EXCEPT ![CacheOf(o)] = Append(@, o)]
  /\ Release(o)
  /\ UNCHANGED <<fvars, pvars>>

\* pmm_free_frame of a page address: one that is no held frame is ignored.
pmm_free_frame(page) ==
  IF page \in held THEN PMM!Release(page) ELSE UNCHANGED fvars

\* Mutant: the page is retired one object too early.
FullyFreeEarly(sp, idx) == free_count[sp] + 2 >= objs_per_page(idx)

\* The object about to be put back is the last one missing from its page.
FullyFree(sp, idx) == free_count[sp] + 1 = objs_per_page(idx)

\* A page whose objects are all on its free list leaves the cache; what is
\* given to the frame allocator is page_base, the page's virtual address.
slab_free_to_page(o) ==
  LET idx == CacheOf(o)
      sp  == o.page
  IN  /\ ~MagazineHasRoom(idx)
      /\ free_list' = [free_list EXCEPT ![sp] = <<o.slot>> \o @]
      /\ free_count' = [free_count EXCEPT ![sp] = @ + 1]
      /\ IF FullyFree(sp, idx)
         THEN /\ partial' = [partial EXCEPT ![idx] = RemoveFirst(@, sp)]
              /\ pmm_free_frame(PHYS_TO_VIRT(sp))
         ELSE UNCHANGED <<partial, fvars>>
      /\ Release(o)
      /\ UNCHANGED <<obj_size, mags>>

----------------------------------------------------------------------------
\* The state slab_init leaves, with every managed frame in the pool.
Init ==
  /\ pool = Frames /\ held = {} /\ frame = NoFrame
  /\ obj_size = [f \in Frames |-> 0]
  /\ free_list = [f \in Frames |-> <<>>]
  /\ free_count = [f \in Frames |-> 0]
  /\ partial = [c \in Classes |-> <<>>]
  /\ mags = [c \in Classes |-> <<>>]
  /\ owned = <<>>

\* A caller frees only an object it owns.
Next ==
  \/ \E sz \in Sizes :
       \/ slab_alloc_from_magazine(sz)
       \/ slab_alloc_from_page(sz)
       \/ slab_alloc_from_new_page(sz)
       \/ slab_alloc_fails(sz)
  \/ \E o \in DOMAIN owned : slab_free_to_magazine(o) \/ slab_free_to_page(o)

Spec == Init /\ [][Next]_vars

----------------------------------------------------------------------------
(* Properties *)

Pages == {f \in Frames : obj_size[f] # 0}

Slots(f) == 0 .. (objs_per_page(size_to_index(obj_size[f])) - 1)

\* The types of the variables.
TypeOK ==
  /\ PMM!TypeOK
  /\ obj_size \in [Frames -> {0} \cup {slab_sizes[i] : i \in Classes}]
  /\ \A f \in Frames : ToSet(free_list[f]) \subseteq 0 .. USABLE
  /\ free_count \in [Frames -> 0 .. USABLE]
  /\ \A c \in Classes : ToSet(partial[c]) \subseteq Frames
  /\ \A c \in Classes : Len(mags[c]) <= SLAB_MAGAZINE_SIZE
  /\ \A o \in DOMAIN owned : o.page \in Frames /\ owned[o] \in Sizes

InMagazine(o) == \E c \in Classes : Contains(mags[c], o)
OnPage(o) == Contains(free_list[o.page], o.slot)
Owned(o) == o \in DOMAIN owned

\* Every object of every slab page is in exactly one place: in a caller's
\* hands, in a magazine or on its page's free list, and at one position there.
ObjectsInOnePlace ==
  /\ \A f \in Pages : \A s \in Slots(f) :
       LET o == Object(f, s)
       IN  Cardinality({p \in {"owned", "magazine", "page"} :
                          \/ p = "owned" /\ Owned(o)
                          \/ p = "magazine" /\ InMagazine(o)
                          \/ p = "page" /\ OnPage(o)}) = 1
  /\ \A f \in Pages : IsInjective(free_list[f])
  /\ \A c \in Classes : IsInjective(mags[c])

\* An object in a caller's hands is big enough for what the caller asked, and
\* objects wait in the magazine of the class they were made for.
ObjectsFit ==
  /\ \A o \in DOMAIN owned : owned[o] <= obj_size[o.page]
  /\ \A c \in Classes : \A o \in ToSet(mags[c]) : obj_size[o.page] = slab_sizes[c]

\* A page that no list of its cache has any more.
Retired == {f \in Pages : \A c \in Classes : ~Contains(partial[c], f)}

\* The count that decides whether a page is retired is the length of its free
\* list, and no magazine is filled past its end: so a page leaves its cache only
\* when none of its objects is in a caller's hands or in a magazine, and a page in
\* a cache is a frame the cache still holds.
PagesAccounted ==
  /\ \A f \in Pages : free_count[f] = Len(free_list[f])
  /\ \A c \in Classes : Len(mags[c]) <= SLAB_MAGAZINE_SIZE
  /\ \A f \in Retired : \A s \in Slots(f) : OnPage(Object(f, s))
  /\ \A f \in Pages \ Retired : f \in held
=============================================================================
