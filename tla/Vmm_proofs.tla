----------------------------- MODULE Vmm_proofs -----------------------------
(***************************************************************************)
(* Theorems about the virtual memory manager, for tables of any size, any  *)
(* frames and boot tables: that its tables form a tree, that no frame is   *)
(* lost or used twice, and that it implements a plain map from addresses   *)
(* to pages.                                                               *)
(*                                                                         *)
(* They hold for callers that keep away from what boot.asm maps with large *)
(* pages; Kmalloc shows what happens otherwise.                            *)
(***************************************************************************)
EXTENDS Vmm, FiniteSetTheorems, NaturalsInduction, WellFoundedInduction, TLAPS

----------------------------------------------------------------------------
(* Walks *)

\* The entries a walk reads, from the root down.
E4(m, va) == m[pml4_phys][va[1]]
E3(m, va) == m[E4(m, va).frame][va[2]]
E2(m, va) == m[E3(m, va).frame][va[3]]
E1(m, va) == m[E2(m, va).frame][va[4]]

\* The entries of tables T of memory m that lead to tables, and these tables.
LinksOf(m, T) == {x \in T \X Index : m[x[1]][x[2]].present /\ ~m[x[1]][x[2]].ps}
ChildrenOf(m, T) == {m[x[1]][x[2]].frame : x \in LinksOf(m, T)}

\* Entry i of table t leads to table f.
Leads(m, t, i, f) == m[t][i].present /\ ~m[t][i].ps /\ m[t][i].frame = f

\* The tables of a memory by level: the root, PDPTs, page directories and page
\* tables.
Pdpts(m) == ChildrenOf(m, {pml4_phys})
Pds(m) == ChildrenOf(m, Pdpts(m))
Pts(m) == ChildrenOf(m, Pds(m))

Level(m, k) ==
  CASE k = 1 -> {pml4_phys} [] k = 2 -> Pdpts(m) [] k = 3 -> Pds(m) [] k = 4 -> Pts(m)

Inner(m) == {pml4_phys} \cup Pdpts(m) \cup Pds(m)

----------------------------------------------------------------------------
(* The inductive invariant, of a memory m, a pool p and the frames d with
   callers: inside an operation a frame may be with neither of pool and data. *)

Types(m, p, d) ==
  /\ m \in [Frames -> [Index -> Entry]]
  /\ p \subseteq BootFree /\ d \subseteq BootFree /\ p \cap d = {}

\* Tables lie in memory, and none in a frame that is free or a caller's.
Apart(m, p, d) ==
  \A k \in 1 .. 4 : \A t \in Level(m, k) : t \in Frames /\ t # 0 /\ t \notin p /\ t \notin d

\* No table serves at two levels.
Disjoint(m) ==
  \A j, k \in 1 .. 4 : \A t : t \in Level(m, j) /\ t \in Level(m, k) => j = k

\* A table is reached through one entry, the PDPT of low memory excepted.
Unique(m) ==
  \A t, u \in Inner(m) : \A i, h \in Index : \A f :
    Leads(m, t, i, f) /\ Leads(m, u, h, f) /\ f # pdpt_low => t = u /\ i = h

\* That one is a PDPT, entered for the identity map and for the direct map.
Shared(m) ==
  /\ pdpt_low \notin Pds(m) /\ pdpt_low \notin Pts(m)
  /\ \A i \in Index :
       m[pml4_phys][i].present /\ m[pml4_phys][i].frame = pdpt_low => i \in {0, N \div 2}

\* Large pages are of 2 MiB only, and callers' addresses have none.
NoneLarge(m) ==
  /\ \A k \in 1 .. 2 : \A t \in Level(m, k) : \A i \in Index : m[t][i].present => ~m[t][i].ps
  /\ \A va \in MapVAs : HasPt(m, va) => ~E2(m, va).ps

\* What a page table's entry leads to is a device's or a caller's, and the
\* entry is that of one of the callers' addresses.
Entered(m, d) ==
  \A t \in Pts(m) : \A i \in Index :
    m[t][i].present =>
      /\ m[t][i].frame \in DevicePages \cup d
      /\ \E va \in MapVAs : HasPt(m, va) /\ PtOf(m, va) = t /\ va[4] = i

Reached(m, p, d) ==
  \A f \in BootFree : f \in p \/ f \in d \/ f \in Pdpts(m) \/ f \in Pds(m) \/ f \in Pts(m)

Good(m, p, d) ==
  /\ Types(m, p, d) /\ Apart(m, p, d) /\ Disjoint(m) /\ Unique(m) /\ Shared(m)
  /\ NoneLarge(m) /\ Entered(m, d) /\ Reached(m, p, d)

IInv == Good(mem, pool, data)

----------------------------------------------------------------------------
(* Levels and walks *)

\* The four levels of tables, spelled out.
LEMMA Levels4 ==
  ASSUME NEW m
  PROVE  /\ Level(m, 1) = {pml4_phys} /\ Level(m, 2) = Pdpts(m)
         /\ Level(m, 3) = Pds(m) /\ Level(m, 4) = Pts(m)
BY DEF Level

\* A table at the next level is one that an entry leads to.
LEMMA ChildOf ==
  ASSUME NEW m, NEW T, NEW f
  PROVE  f \in ChildrenOf(m, T) <=> \E t \in T : \E i \in Index : Leads(m, t, i, f)
<1>1. ASSUME NEW t \in T, NEW i \in Index, Leads(m, t, i, f)  PROVE f \in ChildrenOf(m, T)
  <2>1. <<t, i>> \in LinksOf(m, T) /\ m[<<t, i>>[1]][<<t, i>>[2]].frame = f
    BY <1>1 DEF Leads, LinksOf
  <2> QED BY <2>1 DEF ChildrenOf
<1>2. ASSUME f \in ChildrenOf(m, T)  PROVE \E t \in T : \E i \in Index : Leads(m, t, i, f)
  <2>1. PICK x \in LinksOf(m, T) : f = m[x[1]][x[2]].frame
    BY <1>2 DEF ChildrenOf
  <2>2. x[1] \in T /\ x[2] \in Index /\ Leads(m, x[1], x[2], f)
    BY <2>1 DEF LinksOf, Leads
  <2> QED BY <2>2
<1> QED BY <1>1, <1>2

\* The tables of a level are the children of the one above.
LEMMA NextLevel ==
  ASSUME NEW m, NEW k \in 1 .. 3
  PROVE  Level(m, k + 1) = ChildrenOf(m, Level(m, k)) /\ k + 1 \in 1 .. 4
<1>1. k = 1 \/ k = 2 \/ k = 3
  OBVIOUS
<1>2. 1 + 1 = 2 /\ 2 + 1 = 3 /\ 3 + 1 = 4
  OBVIOUS
<1> QED BY <1>1, <1>2, Levels4 DEF Pdpts, Pds, Pts

\* Inner tables are those of the first three levels.
LEMMA InnerLevels ==
  ASSUME NEW m, NEW t
  PROVE  t \in Inner(m) <=> \E k \in 1 .. 3 : t \in Level(m, k)
<1>1. 1 \in 1 .. 3 /\ 2 \in 1 .. 3 /\ 3 \in 1 .. 3 /\ \A k \in 1 .. 3 : k = 1 \/ k = 2 \/ k = 3
  OBVIOUS
<1> QED BY <1>1, Levels4 DEF Inner

\* The parts of an address are indexes of a table.
LEMMA Indexes ==
  ASSUME NEW va \in VAs
  PROVE  va[1] \in Index /\ va[2] \in Index /\ va[3] \in Index /\ va[4] \in Index
BY DEF VAs

\* Absent entries and entries of small pages are entries.
LEMMA Entries ==
  /\ Absent \in Entry /\ ~Absent.present /\ Absent.frame = 0
  /\ \A f \in Nat : /\ Small(f) \in Entry /\ Small(f).present
                    /\ ~Small(f).ps /\ Small(f).frame = f
  /\ \A i \in Index : ZeroTable[i] = Absent
  /\ ZeroTable \in [Index -> Entry]
BY DEF Entry, Absent, Small, ZeroTable

\* What a walk meets: entries as far as the one before is present, and tables
\* one level further down.
LEMMA Walk ==
  ASSUME NEW m, NEW p, NEW d, Good(m, p, d), NEW va \in VAs
  PROVE  /\ E4(m, va) \in Entry
         /\ E4(m, va).present =>
              /\ ~E4(m, va).ps /\ E4(m, va).frame \in Pdpts(m) /\ E3(m, va) \in Entry
              /\ Leads(m, pml4_phys, va[1], E4(m, va).frame)
              /\ E3(m, va).present =>
                   /\ ~E3(m, va).ps /\ E3(m, va).frame \in Pds(m) /\ E2(m, va) \in Entry
                   /\ Leads(m, E4(m, va).frame, va[2], E3(m, va).frame)
                   /\ E2(m, va).present /\ ~E2(m, va).ps =>
                        /\ E2(m, va).frame \in Pts(m) /\ E1(m, va) \in Entry
                        /\ Leads(m, E3(m, va).frame, va[3], E2(m, va).frame)
<1>1. m \in [Frames -> [Index -> Entry]]
  BY DEF Good, Types
<1>2. /\ pml4_phys \in Frames
      /\ \A t : t \in Pdpts(m) \/ t \in Pds(m) \/ t \in Pts(m) => t \in Frames
  BY Levels4 DEF Good, Apart
<1>3. /\ \A i \in Index : m[pml4_phys][i].present => ~m[pml4_phys][i].ps
      /\ \A t \in Pdpts(m) : \A i \in Index : m[t][i].present => ~m[t][i].ps
  BY Levels4 DEF Good, NoneLarge
<1>4. va[1] \in Index /\ va[2] \in Index /\ va[3] \in Index /\ va[4] \in Index
  BY Indexes
<1>5. E4(m, va) \in Entry
  BY <1>1, <1>2, <1>4 DEF E4
<1>6. ASSUME E4(m, va).present
      PROVE  /\ ~E4(m, va).ps /\ E4(m, va).frame \in Pdpts(m) /\ E3(m, va) \in Entry
             /\ Leads(m, pml4_phys, va[1], E4(m, va).frame)
  <2>1. ~E4(m, va).ps
    BY <1>3, <1>4, <1>6 DEF E4
  <2>2. Leads(m, pml4_phys, va[1], E4(m, va).frame)
    BY <1>6, <2>1 DEF Leads, E4
  <2>3. E4(m, va).frame \in Pdpts(m)
    BY <1>4, <2>2, ChildOf DEF Pdpts
  <2> QED BY <1>1, <1>2, <1>4, <2>1, <2>2, <2>3 DEF E3
<1>7. ASSUME E4(m, va).present, E3(m, va).present
      PROVE  /\ ~E3(m, va).ps /\ E3(m, va).frame \in Pds(m) /\ E2(m, va) \in Entry
             /\ Leads(m, E4(m, va).frame, va[2], E3(m, va).frame)
  <2>1. ~E3(m, va).ps
    BY <1>3, <1>4, <1>6, <1>7 DEF E3
  <2>2. Leads(m, E4(m, va).frame, va[2], E3(m, va).frame)
    BY <1>7, <2>1 DEF Leads, E3
  <2>3. E3(m, va).frame \in Pds(m)
    BY <1>4, <1>6, <1>7, <2>2, ChildOf DEF Pds
  <2> QED BY <1>1, <1>2, <1>4, <2>1, <2>2, <2>3 DEF E2
<1>8. ASSUME E4(m, va).present, E3(m, va).present, E2(m, va).present, ~E2(m, va).ps
      PROVE  /\ E2(m, va).frame \in Pts(m) /\ E1(m, va) \in Entry
             /\ Leads(m, E3(m, va).frame, va[3], E2(m, va).frame)
  <2>1. Leads(m, E3(m, va).frame, va[3], E2(m, va).frame)
    BY <1>8 DEF Leads, E2
  <2>2. E2(m, va).frame \in Pts(m)
    BY <1>4, <1>7, <1>8, <2>1, ChildOf DEF Pts
  <2> QED BY <1>1, <1>2, <1>4, <2>1, <2>2 DEF E1
<1> QED BY <1>5, <1>6, <1>7, <1>8

\* HasPt, PtOf and Translate in these terms.
LEMMA ByEntries ==
  ASSUME NEW m, NEW va
  PROVE  /\ HasPt(m, va) <=> E4(m, va).present /\ E3(m, va).present /\ E2(m, va).present
         /\ PtOf(m, va) = E2(m, va).frame
         /\ Translate(m, va) =
              IF ~E4(m, va).present THEN 0
              ELSE IF ~E3(m, va).present THEN 0
              ELSE IF E3(m, va).ps THEN E3(m, va).frame + va[3] * N + va[4]
              ELSE IF ~E2(m, va).present THEN 0
              ELSE IF E2(m, va).ps THEN E2(m, va).frame + va[4]
              ELSE IF ~E1(m, va).present THEN 0
              ELSE E1(m, va).frame
<1> USE DEF E4, E3, E2, E1
<1>1. HasPt(m, va) <=> E4(m, va).present /\ E3(m, va).present /\ E2(m, va).present
  BY Zenon DEF HasPt
<1>2. PtOf(m, va) = E2(m, va).frame
  BY Zenon DEF PtOf
<1>3. Translate(m, va) =
              IF ~E4(m, va).present THEN 0
              ELSE IF ~E3(m, va).present THEN 0
              ELSE IF E3(m, va).ps THEN E3(m, va).frame + va[3] * N + va[4]
              ELSE IF ~E2(m, va).present THEN 0
              ELSE IF E2(m, va).ps THEN E2(m, va).frame + va[4]
              ELSE IF ~E1(m, va).present THEN 0
              ELSE E1(m, va).frame
  BY Zenon DEF Translate
<1> QED BY <1>1, <1>2, <1>3

----------------------------------------------------------------------------
(* A new table *)

\* Memory n is m with a cleared table in frame f, entered at entry i of table t.
Linked(m, n, t, i, f) == n = [m EXCEPT ![f] = ZeroTable, ![t] = [@ EXCEPT ![i] = Small(f)]]

\* A table at any level is in Frames and neither free nor a caller's.
LEMMA TableFrames ==
  ASSUME NEW m, NEW p, NEW d, Good(m, p, d), NEW k \in 1 .. 4, NEW t \in Level(m, k)
  PROVE  t \in Frames /\ t # 0 /\ t \notin p /\ t \notin d
BY DEF Good, Apart

\* A table linked in is a frame of the pool that is none of the tables there.
LEMMA LinkedEntries ==
  ASSUME NEW m, NEW p, NEW d, Good(m, p, d), NEW k \in 1 .. 3, NEW t \in Level(m, k),
         NEW i \in Index, NEW f \in p, NEW n, Linked(m, n, t, i, f)
  PROVE  /\ t \in Frames /\ f \in Frames /\ f \in Nat /\ f # 0 /\ t # f /\ f \in BootFree
         /\ n \in [Frames -> [Index -> Entry]]
         /\ n[f] = ZeroTable /\ n[t][i] = Small(f)
         /\ \A h \in Index \ {i} : n[t][h] = m[t][h]
         /\ \A u \in Frames \ {f, t} : n[u] = m[u]
<1>1. m \in [Frames -> [Index -> Entry]] /\ p \subseteq BootFree
  BY DEF Good, Types
<1>2. t \in Frames /\ t \notin p
  <2>1. k \in 1 .. 4
    OBVIOUS
  <2> QED BY <2>1, TableFrames
<1>3. f \in Frames /\ f \in Nat /\ f # 0 /\ t # f /\ f \in BootFree
  BY <1>1, <1>2, VmmAssumption
<1>4. ZeroTable \in [Index -> Entry] /\ Small(f) \in Entry
  BY <1>3, Entries
<1>5. [m[t] EXCEPT ![i] = Small(f)] \in [Index -> Entry]
  BY <1>1, <1>2, <1>4
<1>6. n = [m EXCEPT ![f] = ZeroTable, ![t] = [m[t] EXCEPT ![i] = Small(f)]]
  BY <1>1, <1>2, <1>3 DEF Linked
<1>7. n[t] = [m[t] EXCEPT ![i] = Small(f)] /\ n[f] = ZeroTable
  BY <1>1, <1>2, <1>3, <1>6
<1>8. n \in [Frames -> [Index -> Entry]]
  BY <1>1, <1>4, <1>5, <1>6
<1>9. \A u \in Frames \ {f, t} : n[u] = m[u]
  BY <1>1, <1>6
<1>10. n[t][i] = Small(f) /\ \A h \in Index \ {i} : n[t][h] = m[t][h]
  BY <1>1, <1>2, <1>7
<1> QED BY <1>2, <1>3, <1>7, <1>8, <1>9, <1>10

\* The levels gain the new table, and nothing else.
LEMMA LinkedLevels ==
  ASSUME NEW m, NEW p, NEW d, Good(m, p, d), NEW k \in 1 .. 3, NEW t \in Level(m, k),
         NEW i \in Index, ~m[t][i].present, NEW f \in p, NEW n, Linked(m, n, t, i, f)
  PROVE  /\ \A u \in Frames \ {f} : \A h \in Index : \A g :
              Leads(n, u, h, g) <=> Leads(m, u, h, g) \/ (u = t /\ h = i /\ g = f)
         /\ \A h \in Index : ~n[f][h].present
         /\ \A j \in 1 .. 4 : Level(n, j) = IF j = k + 1 THEN Level(m, j) \cup {f} ELSE Level(m, j)
<1>1. /\ t \in Frames /\ f \in Frames /\ f \in Nat /\ t # f
      /\ n[f] = ZeroTable /\ n[t][i] = Small(f)
      /\ \A h \in Index \ {i} : n[t][h] = m[t][h]
      /\ \A u \in Frames \ {f, t} : n[u] = m[u]
  BY LinkedEntries
<1>2. \A h \in Index : ~n[f][h].present
  BY <1>1, Entries
<1>3. ASSUME NEW u \in Frames \ {f}, NEW h \in Index, NEW g
      PROVE  Leads(n, u, h, g) <=> Leads(m, u, h, g) \/ (u = t /\ h = i /\ g = f)
  <2>1. CASE u = t /\ h = i
    BY <1>1, <2>1, Entries DEF Leads
  <2>2. CASE u # t \/ h # i
    <3>1. n[u][h] = m[u][h]
      BY <1>1, <2>2
    <3> QED BY <2>2, <3>1 DEF Leads
  <2> QED BY <2>1, <2>2
<1>4. \A h \in Index : \A g : ~Leads(n, f, h, g)
  BY <1>2 DEF Leads
<1>5. ASSUME NEW T \in SUBSET Frames, f \notin T
      PROVE  /\ t \notin T => ChildrenOf(n, T) = ChildrenOf(m, T)
             /\ t \in T => ChildrenOf(n, T) = ChildrenOf(m, T) \cup {f}
             /\ ChildrenOf(n, T \cup {f}) = ChildrenOf(n, T)
  <2>1. ASSUME NEW g
        PROVE  g \in ChildrenOf(n, T) <=> g \in ChildrenOf(m, T) \/ (t \in T /\ g = f)
    <3>1. g \in ChildrenOf(n, T) <=> \E u \in T : \E h \in Index : Leads(n, u, h, g)
      BY ChildOf
    <3>2. g \in ChildrenOf(m, T) <=> \E u \in T : \E h \in Index : Leads(m, u, h, g)
      BY ChildOf
    <3>3. T \subseteq Frames \ {f}
      BY <1>5
    <3> QED BY <1>3, <3>1, <3>2, <3>3
  <2>2. ASSUME NEW g
        PROVE  g \in ChildrenOf(n, T \cup {f}) <=> g \in ChildrenOf(n, T)
    <3>1. g \in ChildrenOf(n, T) <=> \E u \in T : \E h \in Index : Leads(n, u, h, g)
      BY ChildOf
    <3>2. g \in ChildrenOf(n, T \cup {f}) <=>
            \E u \in T \cup {f} : \E h \in Index : Leads(n, u, h, g)
      BY ChildOf
    <3> QED BY <1>4, <3>1, <3>2
  <2> QED BY <2>1, <2>2
<1>6. ASSUME NEW j \in 1 .. 4
      PROVE  /\ Level(m, j) \in SUBSET Frames /\ f \notin Level(m, j)
             /\ t \in Level(m, j) <=> j = k
  <2>1. k \in 1 .. 4
    OBVIOUS
  <2>2. Level(m, j) \in SUBSET Frames /\ f \notin Level(m, j)
    BY TableFrames
  <2>3. t \in Level(m, j) <=> j = k
    BY <2>1 DEF Good, Disjoint
  <2> QED BY <2>2, <2>3
<1>7. /\ 1 \in 1 .. 4 /\ 2 \in 1 .. 4 /\ 3 \in 1 .. 4 /\ 4 \in 1 .. 4
      /\ 1 \in 1 .. 3 /\ 2 \in 1 .. 3 /\ 3 \in 1 .. 3
      /\ 1 + 1 = 2 /\ 2 + 1 = 3 /\ 3 + 1 = 4 /\ (k = 1 \/ k = 2 \/ k = 3)
  OBVIOUS
<1>8. Level(n, 1) = Level(m, 1)
  BY Levels4
<1>9. Level(n, 2) = IF k = 1 THEN Level(m, 2) \cup {f} ELSE Level(m, 2)
  <2>1. Level(n, 2) = ChildrenOf(n, Level(m, 1)) /\ Level(m, 2) = ChildrenOf(m, Level(m, 1))
    BY <1>7, <1>8, NextLevel
  <2> QED BY <1>5, <1>6, <1>7, <2>1
<1>10. Level(n, 3) = IF k = 2 THEN Level(m, 3) \cup {f} ELSE Level(m, 3)
  <2>1. Level(n, 3) = ChildrenOf(n, Level(n, 2)) /\ Level(m, 3) = ChildrenOf(m, Level(m, 2))
    BY <1>7, NextLevel
  <2>2. ChildrenOf(n, Level(n, 2)) = ChildrenOf(n, Level(m, 2))
    BY <1>5, <1>6, <1>7, <1>9
  <2> QED BY <1>5, <1>6, <1>7, <2>1, <2>2
<1>11. Level(n, 4) = IF k = 3 THEN Level(m, 4) \cup {f} ELSE Level(m, 4)
  <2>1. Level(n, 4) = ChildrenOf(n, Level(n, 3)) /\ Level(m, 4) = ChildrenOf(m, Level(m, 3))
    BY <1>7, NextLevel
  <2>2. ChildrenOf(n, Level(n, 3)) = ChildrenOf(n, Level(m, 3))
    BY <1>5, <1>6, <1>7, <1>10
  <2> QED BY <1>5, <1>6, <1>7, <2>1, <2>2
<1>12. ASSUME NEW j \in 1 .. 4
       PROVE  Level(n, j) = IF j = k + 1 THEN Level(m, j) \cup {f} ELSE Level(m, j)
  <2>1. j = 1 \/ j = 2 \/ j = 3 \/ j = 4
    OBVIOUS
  <2>2. k + 1 # 1 /\ (k + 1 = 2 <=> k = 1) /\ (k + 1 = 3 <=> k = 2) /\ (k + 1 = 4 <=> k = 3)
    OBVIOUS
  <2> QED BY <1>8, <1>9, <1>10, <1>11, <2>1, <2>2
<1> QED BY <1>2, <1>3, <1>12

\* Walks go as before, or end at the new table's entries, which are clear.
LEMMA LinkedWalks ==
  ASSUME NEW m, NEW p, NEW d, Good(m, p, d), NEW k \in 1 .. 3, NEW t \in Level(m, k),
         NEW i \in Index, ~m[t][i].present, NEW f \in p, NEW n, Linked(m, n, t, i, f),
         NEW va \in VAs
  PROVE  /\ Translate(n, va) = Translate(m, va)
         /\ HasPt(m, va) => HasPt(n, va) /\ PtOf(n, va) = PtOf(m, va) /\ E2(n, va) = E2(m, va)
         /\ HasPt(n, va) => HasPt(m, va) \/ ~E2(n, va).ps
<1>1. /\ t \in Frames /\ f \in Frames /\ f \in Nat /\ t # f
      /\ n[f] = ZeroTable /\ n[t][i] = Small(f)
      /\ \A h \in Index \ {i} : n[t][h] = m[t][h]
      /\ \A u \in Frames \ {f, t} : n[u] = m[u]
  BY LinkedEntries
<1>2. va[1] \in Index /\ va[2] \in Index /\ va[3] \in Index /\ va[4] \in Index
  BY Indexes
<1>3. Small(f).frame = f /\ ~Small(f).ps /\ Small(f).present /\ \A h \in Index : ~n[f][h].present
  BY <1>1, Entries
<1>4. ASSUME NEW u, NEW h \in Index,
             u \in {pml4_phys} \cup Pdpts(m) \cup Pds(m) \cup Pts(m)
      PROVE  n[u][h] = m[u][h] \/ (~m[u][h].present /\ n[u][h] = Small(f))
  <2>1. u \in Frames /\ u # f
    <3>1. \E j \in 1 .. 4 : u \in Level(m, j)
      <4>1. 1 \in 1 .. 4 /\ 2 \in 1 .. 4 /\ 3 \in 1 .. 4 /\ 4 \in 1 .. 4
        OBVIOUS
      <4> QED BY <1>4, <4>1, Levels4
    <3> QED BY <3>1, TableFrames
  <2> QED BY <1>1, <2>1
<1>5. \/ E4(n, va) = E4(m, va)
      \/ ~E4(m, va).present /\ E4(n, va) = Small(f) /\ ~E3(n, va).present
  <2>1. \/ E4(n, va) = E4(m, va)
        \/ ~E4(m, va).present /\ E4(n, va) = Small(f)
    BY <1>2, <1>4 DEF E4
  <2>2. E4(n, va) = Small(f) => ~E3(n, va).present
    BY <1>2, <1>3 DEF E3
  <2> QED BY <2>1, <2>2
<1>6. ASSUME E4(m, va).present
      PROVE  /\ E4(n, va) = E4(m, va)
             /\ \/ E3(n, va) = E3(m, va)
                \/ ~E3(m, va).present /\ E3(n, va) = Small(f) /\ ~E2(n, va).present
  <2>1. E4(n, va) = E4(m, va) /\ E4(m, va).frame \in Pdpts(m)
    BY <1>5, <1>6, Walk
  <2>2. \/ E3(n, va) = E3(m, va)
        \/ ~E3(m, va).present /\ E3(n, va) = Small(f)
    BY <1>2, <1>4, <2>1 DEF E3
  <2>3. E3(n, va) = Small(f) => ~E2(n, va).present
    BY <1>2, <1>3 DEF E2
  <2> QED BY <2>1, <2>2, <2>3
<1>7. ASSUME E4(m, va).present, E3(m, va).present
      PROVE  /\ E3(n, va) = E3(m, va)
             /\ \/ E2(n, va) = E2(m, va)
                \/ ~E2(m, va).present /\ E2(n, va) = Small(f) /\ ~E1(n, va).present
  <2>1. E3(n, va) = E3(m, va) /\ E3(m, va).frame \in Pds(m)
    BY <1>6, <1>7, Walk
  <2>2. \/ E2(n, va) = E2(m, va)
        \/ ~E2(m, va).present /\ E2(n, va) = Small(f)
    BY <1>2, <1>4, <2>1 DEF E2
  <2>3. E2(n, va) = Small(f) => ~E1(n, va).present
    BY <1>2, <1>3 DEF E1
  <2> QED BY <2>1, <2>2, <2>3
<1>8. ASSUME E4(m, va).present, E3(m, va).present, E2(m, va).present
      PROVE  /\ E2(n, va) = E2(m, va)
             /\ E2(m, va).ps \/ E1(n, va) = E1(m, va)
  <2>1. E2(n, va) = E2(m, va)
    BY <1>7, <1>8
  <2>2. ASSUME ~E2(m, va).ps  PROVE E1(n, va) = E1(m, va)
    <3>1. E2(m, va).frame \in Pts(m)
      BY <1>8, <2>2, Walk
    <3>2. E2(m, va).frame \in Frames /\ E2(m, va).frame # f /\ E2(m, va).frame # t
      <4>1. 4 \in 1 .. 4 /\ k \in 1 .. 4 /\ k # 4
        OBVIOUS
      <4>2. E2(m, va).frame \in Level(m, 4)
        BY <3>1, Levels4
      <4>3. E2(m, va).frame # t
        BY <4>1, <4>2 DEF Good, Disjoint
      <4> QED BY <4>1, <4>2, <4>3, TableFrames
    <3> QED BY <1>1, <2>1, <3>2 DEF E1
  <2> QED BY <2>1, <2>2
<1>9. ASSUME ~E4(m, va).present
      PROVE  ~E4(n, va).present \/ ~E3(n, va).present
  BY <1>5, <1>9
<1>10. ASSUME E4(m, va).present, ~E3(m, va).present
       PROVE  /\ ~E3(n, va).present \/ (~E3(n, va).ps /\ ~E2(n, va).present)
              /\ E4(n, va).present
  BY <1>3, <1>6, <1>10
<1>11. ASSUME E4(m, va).present, E3(m, va).present, ~E2(m, va).present
       PROVE  /\ ~E2(n, va).present \/ (~E2(n, va).ps /\ ~E1(n, va).present)
              /\ E4(n, va).present /\ E3(n, va) = E3(m, va)
  BY <1>3, <1>6, <1>7, <1>11
<1>12. Translate(n, va) = Translate(m, va)
  <2>1. CASE ~E4(m, va).present
    BY <1>9, <2>1, ByEntries
  <2>2. CASE E4(m, va).present /\ ~E3(m, va).present
    BY <1>10, <2>2, ByEntries
  <2>3. CASE E4(m, va).present /\ E3(m, va).present /\ ~E2(m, va).present
    BY <1>11, <2>3, ByEntries
  <2>4. CASE E4(m, va).present /\ E3(m, va).present /\ E2(m, va).present
    BY <1>6, <1>7, <1>8, <2>4, ByEntries
  <2> QED BY <2>1, <2>2, <2>3, <2>4
<1>13. ASSUME HasPt(m, va)
       PROVE  HasPt(n, va) /\ PtOf(n, va) = PtOf(m, va) /\ E2(n, va) = E2(m, va)
  BY <1>6, <1>7, <1>8, <1>13, ByEntries
<1>14. ASSUME HasPt(n, va), ~HasPt(m, va)  PROVE ~E2(n, va).ps
  BY <1>9, <1>10, <1>11, <1>14, ByEntries
<1> QED BY <1>12, <1>13, <1>14

\* The boot's low PDPT is none of the frames left free.
LEMMA BootTables ==
  /\ pdpt_low \notin BootFree /\ pml4_phys \notin BootFree /\ pml4_phys \in Frames
  /\ pml4_phys \in Nat \ {0} /\ BootFree \subseteq Frames /\ 0 \notin BootFree
  /\ Frames \subseteq Nat /\ DevicePages \cap Frames = {}
<1>1. LOW_PDS \in Nat /\ pml4_phys \in Nat
  BY VmmAssumption
<1>2. /\ pml4_phys \in pml4_phys .. pml4_phys + LOW_PDS + 3
      /\ pml4_phys + 1 \in pml4_phys .. pml4_phys + LOW_PDS + 3
  BY <1>1
<1> QED BY <1>2, VmmAssumption DEF pdpt_low

\* Adding a table keeps the invariant.
LEMMA LinkedGood ==
  ASSUME NEW m, NEW p, NEW d, Good(m, p, d), NEW k \in 1 .. 3, NEW t \in Level(m, k),
         NEW i \in Index, ~m[t][i].present, NEW f \in p, NEW n, Linked(m, n, t, i, f)
  PROVE  Good(n, p \ {f}, d)
<1>1. /\ t \in Frames /\ f \in Frames /\ f \in Nat /\ f # 0 /\ t # f /\ f \in BootFree
      /\ n \in [Frames -> [Index -> Entry]]
      /\ n[f] = ZeroTable /\ n[t][i] = Small(f)
      /\ \A h \in Index \ {i} : n[t][h] = m[t][h]
      /\ \A u \in Frames \ {f, t} : n[u] = m[u]
  BY LinkedEntries
<1>2. /\ \A u \in Frames \ {f} : \A h \in Index : \A g :
              Leads(n, u, h, g) <=> Leads(m, u, h, g) \/ (u = t /\ h = i /\ g = f)
      /\ \A h \in Index : ~n[f][h].present
      /\ \A j \in 1 .. 4 : Level(n, j) = IF j = k + 1 THEN Level(m, j) \cup {f} ELSE Level(m, j)
  BY LinkedLevels
<1>3. /\ Small(f).frame = f /\ ~Small(f).ps /\ Small(f).present
      /\ f # pdpt_low /\ f # pml4_phys
  BY <1>1, Entries, BootTables
<1>4. \A j \in 1 .. 4 : \A u \in Level(m, j) : u \in Frames /\ u # 0 /\ u \notin p /\ u \notin d
  BY TableFrames
<1>5. /\ 1 \in 1 .. 4 /\ 2 \in 1 .. 4 /\ 3 \in 1 .. 4 /\ 4 \in 1 .. 4
      /\ 1 \in 1 .. 3 /\ 2 \in 1 .. 3 /\ 3 \in 1 .. 3
      /\ k \in 1 .. 4 /\ k # 4 /\ k + 1 \in 1 .. 4 /\ (k + 1 = 2 \/ k + 1 = 3 \/ k + 1 = 4)
      /\ \A j \in 1 .. 3 : j \in 1 .. 4
  OBVIOUS
<1>6. Types(n, p \ {f}, d)
  BY <1>1 DEF Good, Types
<1>7. Apart(n, p \ {f}, d)
  <2>1. f \notin d
    BY DEF Good, Types
  <2> QED BY <1>1, <1>2, <1>4, <2>1 DEF Apart
<1>8. Disjoint(n)
  BY <1>2, <1>4 DEF Good, Disjoint
<1>9. \A u : u \in Inner(n) => u \in Inner(m) \/ u = f
  BY <1>2, <1>5, InnerLevels
<1>10. \A u \in Inner(m) : u \in Frames /\ u # f /\ \A h \in Index : ~Leads(m, u, h, f)
  <2> SUFFICES ASSUME NEW j \in 1 .. 3, NEW u \in Level(m, j)
               PROVE  u \in Frames /\ u # f /\ \A h \in Index : ~Leads(m, u, h, f)
    BY InnerLevels
  <2>1. f \notin Level(m, j + 1) /\ j + 1 \in 1 .. 4
    BY <1>4, NextLevel
  <2>2. \A h \in Index : ~Leads(m, u, h, f)
    BY <2>1, NextLevel, ChildOf
  <2> QED BY <1>4, <1>5, <2>2
<1>11. Unique(n)
  <2> SUFFICES ASSUME NEW u \in Inner(n), NEW v \in Inner(n), NEW h \in Index, NEW l \in Index,
                      NEW g, Leads(n, u, h, g), Leads(n, v, l, g), g # pdpt_low
               PROVE  u = v /\ h = l
    BY DEF Unique
  <2>1. u \in Inner(m) /\ v \in Inner(m)
    BY <1>2, <1>9 DEF Leads
  <2>2. /\ Leads(m, u, h, g) \/ (u = t /\ h = i /\ g = f)
        /\ Leads(m, v, l, g) \/ (v = t /\ l = i /\ g = f)
    BY <1>2, <1>10, <2>1
  <2>3. CASE g = f
    BY <1>10, <2>1, <2>2, <2>3
  <2>4. CASE g # f
    BY <2>1, <2>2, <2>4 DEF Good, Unique
  <2> QED BY <2>3, <2>4
<1>12. Shared(n)
  <2>1. pdpt_low \notin Pds(n) /\ pdpt_low \notin Pts(n)
    BY <1>2, <1>3, <1>5, Levels4 DEF Good, Shared
  <2>2. ASSUME NEW h \in Index, n[pml4_phys][h].present, n[pml4_phys][h].frame = pdpt_low
        PROVE  h \in {0, N \div 2}
    <3>1. n[pml4_phys][h] = m[pml4_phys][h] \/ n[pml4_phys][h] = Small(f)
      BY <1>1, <1>3, BootTables
    <3> QED BY <1>3, <2>2, <3>1 DEF Good, Shared
  <2> QED BY <2>1, <2>2 DEF Shared
<1>13. NoneLarge(n)
  <2>1. ASSUME NEW j \in 1 .. 2, NEW u \in Level(n, j), NEW h \in Index, n[u][h].present
        PROVE  ~n[u][h].ps
    <3>1. j \in 1 .. 4
      OBVIOUS
    <3>2. u \in Level(m, j) /\ u # f
      BY <1>2, <2>1, <3>1
    <3>3. n[u][h] = m[u][h] \/ n[u][h] = Small(f)
      BY <1>1, <1>4, <3>1, <3>2
    <3> QED BY <1>3, <2>1, <3>2, <3>3 DEF Good, NoneLarge
  <2>2. ASSUME NEW va \in MapVAs, HasPt(n, va)  PROVE ~E2(n, va).ps
    BY <2>2, LinkedWalks, VmmAssumption DEF Good, NoneLarge
  <2> QED BY <2>1, <2>2 DEF NoneLarge
<1>14. Entered(n, d)
  <2> SUFFICES ASSUME NEW u \in Pts(n), NEW h \in Index, n[u][h].present
               PROVE  /\ n[u][h].frame \in DevicePages \cup d
                      /\ \E va \in MapVAs : HasPt(n, va) /\ PtOf(n, va) = u /\ va[4] = h
    BY DEF Entered
  <2>1. u # f /\ u \in Level(m, 4)
    BY <1>2, <1>5, Levels4
  <2>2. u # t /\ u \in Frames
    BY <1>4, <1>5, <2>1 DEF Good, Disjoint
  <2>3. n[u] = m[u] /\ u \in Pts(m)
    BY <1>1, <2>1, <2>2, Levels4
  <2>4. PICK va \in MapVAs : HasPt(m, va) /\ PtOf(m, va) = u /\ va[4] = h
    BY <2>3 DEF Good, Entered
  <2>5. HasPt(n, va) /\ PtOf(n, va) = u
    BY <2>4, LinkedWalks, VmmAssumption
  <2> QED BY <2>3, <2>4, <2>5 DEF Good, Entered
<1>15. Reached(n, p \ {f}, d)
  <2> SUFFICES ASSUME NEW g \in BootFree
               PROVE  \/ g \in p \ {f} \/ g \in d
                      \/ g \in Pdpts(n) \/ g \in Pds(n) \/ g \in Pts(n)
    BY DEF Reached
  <2>1. Pdpts(m) \subseteq Pdpts(n) /\ Pds(m) \subseteq Pds(n) /\ Pts(m) \subseteq Pts(n)
    BY <1>2, <1>5, Levels4
  <2>2. f \in Pdpts(n) \/ f \in Pds(n) \/ f \in Pts(n)
    BY <1>2, <1>5, Levels4
  <2> QED BY <2>1, <2>2 DEF Good, Reached
<1> QED BY <1>6, <1>7, <1>8, <1>11, <1>12, <1>13, <1>14, <1>15 DEF Good

----------------------------------------------------------------------------
(* Going down a walk *)

\* A set of naturals that is not empty has a least element.
LEMMA LeastExists ==
  ASSUME NEW S \in SUBSET Nat, S # {}
  PROVE  \E x \in S : \A y \in S : x <= y
<1> DEFINE Less == {ss \in Nat \X Nat : ss[1] < ss[2]}
<1>1. IsWellFoundedOn(Less, Nat)
  BY NatLessThanWellFounded, Zenon DEF OpToRel
<1>2. PICK x \in S : \A y \in S : <<y, x>> \notin Less
  <2> HIDE DEF Less
  <2> QED BY <1>1, WFMin
<1>3. \A y \in S : x <= y
  <2> SUFFICES ASSUME NEW y \in S  PROVE x <= y
    OBVIOUS
  <2>1. <<y, x>> \in Nat \X Nat /\ <<y, x>> \notin Less
    BY <1>2
  <2>2. <<y, x>>[1] = y /\ <<y, x>>[2] = x
    OBVIOUS
  <2>3. ~ (y < x) /\ y \in Nat /\ x \in Nat
    BY <2>1, <2>2
  <2> QED BY <2>3
<1> QED BY <1>3

\* The frame first fit finds is one of the pool.
LEMMA FirstFit ==
  ASSUME NEW p \in SUBSET BootFree, p # {}
  PROVE  Min(p) \in p
<1>1. p \in SUBSET Nat
  BY BootTables
<1>2. \E x \in p : \A y \in p : x <= y
  BY <1>1, LeastExists
<1> QED BY <1>2 DEF Min

\* What making tables leaves alone: translations, and the links there are.
Kept(m, n) ==
  /\ \A va \in VAs : Translate(n, va) = Translate(m, va)
  /\ \A u \in Inner(m) : u \in Inner(n)
  /\ \A u \in Inner(m) : \A h \in Index : \A g : Leads(m, u, h, g) => Leads(n, u, h, g)

\* Tables kept twice are kept.
LEMMA KeptTransitive ==
  ASSUME NEW l, NEW m, NEW n, Kept(l, m), Kept(m, n)
  PROVE  Kept(l, n)
BY DEF Kept

\* Memory keeps its own tables.
LEMMA KeptReflexive == \A m : Kept(m, m)
BY DEF Kept

\* Linking a new table keeps the tables there, and leads to the new one.
LEMMA LinkedKept ==
  ASSUME NEW m, NEW p, NEW d, Good(m, p, d), NEW k \in 1 .. 3, NEW t \in Level(m, k),
         NEW i \in Index, ~m[t][i].present, NEW f \in p, NEW n, Linked(m, n, t, i, f)
  PROVE  Kept(m, n) /\ f \in Level(n, k + 1) /\ Leads(n, t, i, f)
<1>1. /\ \A u \in Frames \ {f} : \A h \in Index : \A g :
              Leads(n, u, h, g) <=> Leads(m, u, h, g) \/ (u = t /\ h = i /\ g = f)
      /\ \A j \in 1 .. 4 : Level(n, j) = IF j = k + 1 THEN Level(m, j) \cup {f} ELSE Level(m, j)
  BY LinkedLevels
<1>2. k + 1 \in 1 .. 4 /\ \A j \in 1 .. 3 : j \in 1 .. 4
  OBVIOUS
<1>3. \A j \in 1 .. 4 : \A u \in Level(m, j) : u \in Frames /\ u # f
  BY TableFrames
<1>4. \A u \in Inner(m) : u \in Inner(n) /\ u \in Frames \ {f}
  BY <1>1, <1>2, <1>3, InnerLevels
<1>5. \A va \in VAs : Translate(n, va) = Translate(m, va)
  BY LinkedWalks
<1>6. t \in Frames \ {f}
  BY <1>2, <1>3
<1> QED BY <1>1, <1>2, <1>4, <1>5, <1>6 DEF Kept

\* ensure_table leads to a table of the next level, or there was no frame.
LEMMA EnsureTable ==
  ASSUME NEW m, NEW p, NEW d, Good(m, p, d), NEW k \in 1 .. 3, NEW t \in Level(m, k),
         NEW i \in Index, m[t][i].present => ~m[t][i].ps,
         NEW l, l = k + 1
  PROVE  \E n, q, u :
           /\ ensure_table([mem |-> m, pool |-> p], t, i)
                = [s |-> [mem |-> n, pool |-> q], table |-> u]
           /\ Good(n, q, d) /\ q \subseteq p /\ Kept(m, n)
           /\ u = 0 \/ (u # 0 /\ u \in Level(n, l) /\ Leads(n, t, i, u))
<1> DEFINE s == [mem |-> m, pool |-> p]
           f == Min(p)
           n == [m EXCEPT ![f] = ZeroTable, ![t] = [@ EXCEPT ![i] = Small(f)]]
<1>1. CASE m[t][i].present
  <2>1. ensure_table(s, t, i) = [s |-> s, table |-> m[t][i].frame]
    BY <1>1 DEF ensure_table
  <2>2. Leads(m, t, i, m[t][i].frame)
    BY <1>1 DEF Leads
  <2>3. m[t][i].frame \in Level(m, k + 1) /\ k + 1 \in 1 .. 4
    BY <2>2, NextLevel, ChildOf
  <2>4. m[t][i].frame # 0
    BY <2>3, TableFrames
  <2>5. Kept(m, m)
    BY KeptReflexive
  <2> QED BY <2>1, <2>2, <2>3, <2>4, <2>5
<1>2. CASE ~m[t][i].present /\ p = {}
  <2>1. ensure_table(s, t, i) = [s |-> s, table |-> 0]
    BY <1>2 DEF ensure_table
  <2>2. Kept(m, m)
    BY KeptReflexive
  <2> QED BY <2>1, <2>2
<1>3. CASE ~m[t][i].present /\ p # {}
  <2>1. ensure_table(s, t, i) = [s |-> [mem |-> n, pool |-> p \ {f}], table |-> f]
    BY <1>3 DEF ensure_table
  <2>2. f \in p
    BY <1>3, FirstFit DEF Good, Types
  <2>3. Linked(m, n, t, i, f)
    BY DEF Linked
  <2> HIDE DEF f, n
  <2>4. Good(n, p \ {f}, d)
    BY <1>3, <2>2, <2>3, LinkedGood
  <2>5. Kept(m, n) /\ f \in Level(n, k + 1) /\ Leads(n, t, i, f)
    BY <1>3, <2>2, <2>3, LinkedKept
  <2>6. f # 0
    BY <2>2, <2>3, LinkedEntries
  <2> QED BY <2>1, <2>4, <2>5, <2>6
<1> QED BY <1>1, <1>2, <1>3

\* Entry va[4] of the page table of va becomes e.
Written(m, n, va, e) == n = [m EXCEPT ![PtOf(m, va)] = [@ EXCEPT ![va[4]] = e]]

\* What vmm_map_page leaves, x being its result: memory n with the tables it
\* made, and then the entry in w.
MapOutcome(n, w, va, phys, x) ==
  \/ x = -1 /\ w = n
  \/ x = 0 /\ HasPt(n, va) /\ Written(n, w, va, Small(phys))

\* vmm_map_page finds or makes the tables down to a page table, whose entry it
\* then writes; or fails, and leaves the tables it made.
MapPageMade(m, p, d, va, phys, n, q, w, x) ==
  /\ Good(n, q, d) /\ q \subseteq p /\ Kept(m, n) /\ MapOutcome(n, w, va, phys, x)
  /\ MapPage([mem |-> m, pool |-> p], va, phys)
       = [s |-> [mem |-> w, pool |-> q], result |-> x]

\* vmm_map_page does one of the things MapPageMade lists, for every memory.
LEMMA MapPageStep ==
  \A m, p, d : Good(m, p, d) => \A va \in MapVAs : \A phys :
    \E n, q, w, x : MapPageMade(m, p, d, va, phys, n, q, w, x)
<1> SUFFICES ASSUME NEW m, NEW p, NEW d, Good(m, p, d), NEW va \in MapVAs, NEW phys
             PROVE  \E n, q, w, x : MapPageMade(m, p, d, va, phys, n, q, w, x)
  OBVIOUS
<1> DEFINE r1 == ensure_table([mem |-> m, pool |-> p], pml4_phys, va[1])
           r2 == Descend(r1, va[2])
           r3 == Descend(r2, va[3])
           R  == MapPage([mem |-> m, pool |-> p], va, phys)
<1>1. va \in VAs /\ va[1] \in Index /\ va[2] \in Index /\ va[3] \in Index /\ va[4] \in Index
  <2>1. va \in VAs
    BY VmmAssumption
  <2> QED BY <2>1, Indexes
<1>2. /\ 1 \in 1 .. 3 /\ 2 \in 1 .. 3 /\ 3 \in 1 .. 3 /\ 1 \in 1 .. 2 /\ 2 \in 1 .. 2
      /\ 1 + 1 = 2 /\ 2 + 1 = 3 /\ 3 + 1 = 4
  OBVIOUS
<1>3. R = IF r3.table = 0
          THEN [s |-> r3.s, result |-> -1]
          ELSE [s |-> [r3.s EXCEPT !.mem[r3.table] = [@ EXCEPT ![va[4]] = Small(phys)]],
                result |-> 0]
  BY DEF MapPage
<1>4. PICK n1, q1, u1 :
        /\ r1 = [s |-> [mem |-> n1, pool |-> q1], table |-> u1]
        /\ Good(n1, q1, d) /\ q1 \subseteq p /\ Kept(m, n1)
        /\ u1 = 0 \/ (u1 # 0 /\ u1 \in Level(n1, 2) /\ Leads(n1, pml4_phys, va[1], u1))
  <2>1. pml4_phys \in Level(m, 1)
    BY Levels4
  <2>2. m[pml4_phys][va[1]].present => ~m[pml4_phys][va[1]].ps
    BY <1>1, <1>2, <2>1 DEF Good, NoneLarge
  <2>3. 1 \in 1 .. 3 /\ 2 = 1 + 1
    OBVIOUS
  <2> HIDE DEF r1
  <2>4. r1 = ensure_table([mem |-> m, pool |-> p], pml4_phys, va[1])
    BY DEF r1
  <2> HIDE DEF r2, r3, R
  <2>5. va[1] \in Index
    BY <1>1
  <2> QED BY <2>1, <2>2, <2>3, <2>4, <2>5, EnsureTable, ZenonT(60)
<1>5. PICK n2, q2, u2 :
        /\ r2 = [s |-> [mem |-> n2, pool |-> q2], table |-> u2]
        /\ Good(n2, q2, d) /\ q2 \subseteq p /\ Kept(m, n2)
        /\ \/ u2 = 0
           \/ /\ u2 # 0 /\ u2 \in Level(n2, 3) /\ Leads(n2, u1, va[2], u2)
              /\ Leads(n2, pml4_phys, va[1], u1)
  <2>1. CASE u1 = 0
    <3>1. r2 = [s |-> [mem |-> n1, pool |-> q1], table |-> 0]
      BY <1>4, <2>1 DEF Descend
    <3> QED BY <1>4, <3>1
  <2>2. CASE u1 # 0
    <3>1. r2 = ensure_table([mem |-> n1, pool |-> q1], u1, va[2])
      BY <1>4, <2>2 DEF Descend
    <3>2. n1[u1][va[2]].present => ~n1[u1][va[2]].ps
      BY <1>1, <1>2, <1>4, <2>2 DEF Good, NoneLarge
    <3>3. PICK n, q, u :
            /\ r2 = [s |-> [mem |-> n, pool |-> q], table |-> u]
            /\ Good(n, q, d) /\ q \subseteq q1 /\ Kept(n1, n)
            /\ u = 0 \/ (u # 0 /\ u \in Level(n, 3) /\ Leads(n, u1, va[2], u))
      <4>1. 2 \in 1 .. 3 /\ 3 = 2 + 1
        OBVIOUS
      <4>2. Good(n1, q1, d) /\ u1 \in Level(n1, 2) /\ va[2] \in Index
        BY <1>1, <1>4, <2>2
      <4> HIDE DEF r1, r2, r3, R
      <4> QED BY <3>1, <3>2, <4>1, <4>2, EnsureTable, ZenonT(60)
    <3>4. Kept(m, n)
      BY <1>4, <3>3, KeptTransitive
    <3>5. Leads(n, pml4_phys, va[1], u1)
      BY <1>1, <1>4, <2>2, <3>3 DEF Kept, Inner
    <3> QED BY <1>4, <3>3, <3>4, <3>5
  <2> QED BY <2>1, <2>2
<1>6. PICK n, q, u :
        /\ r3 = [s |-> [mem |-> n, pool |-> q], table |-> u]
        /\ Good(n, q, d) /\ q \subseteq p /\ Kept(m, n)
        /\ u = 0 \/ (u # 0 /\ HasPt(n, va) /\ PtOf(n, va) = u)
  <2>1. CASE u2 = 0
    <3>1. r3 = [s |-> [mem |-> n2, pool |-> q2], table |-> 0]
      BY <1>5, <2>1 DEF Descend
    <3> QED BY <1>5, <3>1
  <2>2. CASE u2 # 0
    <3>1. r3 = ensure_table([mem |-> n2, pool |-> q2], u2, va[3])
      BY <1>5, <2>2 DEF Descend
    <3>2. /\ E4(n2, va).present /\ E4(n2, va).frame = u1
          /\ E3(n2, va).present /\ E3(n2, va).frame = u2
          /\ E2(n2, va) = n2[u2][va[3]]
      BY <1>5, <2>2 DEF Leads, E4, E3, E2
    <3>3. n2[u2][va[3]].present => ~n2[u2][va[3]].ps
      BY <1>5, <3>2, ByEntries DEF Good, NoneLarge
    <3>4. PICK n, q, u :
            /\ r3 = [s |-> [mem |-> n, pool |-> q], table |-> u]
            /\ Good(n, q, d) /\ q \subseteq q2 /\ Kept(n2, n)
            /\ u = 0 \/ (u # 0 /\ u \in Level(n, 4) /\ Leads(n, u2, va[3], u))
      <4> HIDE DEF r3
      <4> QED BY <1>1, <1>2, <1>5, <2>2, <3>1, <3>3, EnsureTable
    <3>5. Kept(m, n)
      BY <1>5, <3>4, KeptTransitive
    <3>6. CASE u = 0
      BY <1>5, <3>4, <3>5, <3>6
    <3>7. CASE u # 0
      <4>1. pml4_phys \in Inner(n2) /\ u1 \in Inner(n2)
        <5>1. u1 \in Level(n2, 2)
          BY <1>1, <1>2, <1>5, <2>2, Levels4, NextLevel, ChildOf
        <5> QED BY <5>1, Levels4 DEF Inner
      <4>2. Leads(n, pml4_phys, va[1], u1) /\ Leads(n, u1, va[2], u2) /\ Leads(n, u2, va[3], u)
        BY <1>1, <1>5, <2>2, <3>4, <3>7, <4>1 DEF Kept
      <4>3. /\ E4(n, va).present /\ E4(n, va).frame = u1
            /\ E3(n, va).present /\ E3(n, va).frame = u2
            /\ E2(n, va).present /\ E2(n, va).frame = u
        BY <4>2 DEF Leads, E4, E3, E2
      <4>4. HasPt(n, va) /\ PtOf(n, va) = u
        BY <4>3, ByEntries
      <4> QED BY <1>5, <3>4, <3>5, <3>7, <4>4
    <3> QED BY <3>6, <3>7
  <2> QED BY <2>1, <2>2
<1> HIDE DEF R, r3
<1>7. CASE u = 0
  <2>1. R = [s |-> [mem |-> n, pool |-> q], result |-> -1]
    BY <1>3, <1>6, <1>7
  <2>2. MapOutcome(n, n, va, phys, -1)
    BY DEF MapOutcome
  <2>3. MapPageMade(m, p, d, va, phys, n, q, n, -1)
    BY <1>6, <2>1, <2>2 DEF R, MapPageMade
  <2> QED BY <2>3
<1>8. CASE u # 0
  <2> DEFINE w == [n EXCEPT ![u] = [@ EXCEPT ![va[4]] = Small(phys)]]
  <2>1. R = [s |-> [mem |-> w, pool |-> q], result |-> 0]
    BY <1>3, <1>6, <1>8
  <2>2. MapOutcome(n, w, va, phys, 0)
    BY <1>6, <1>8 DEF MapOutcome, Written
  <2> HIDE DEF w
  <2>3. MapPageMade(m, p, d, va, phys, n, q, w, 0)
    BY <1>6, <2>1, <2>2 DEF R, MapPageMade
  <2> QED BY <2>3
<1> QED BY <1>7, <1>8

----------------------------------------------------------------------------
(* Writing where no walk turns: a page table's entry, or a frame that is no
   table *)

\* Memories that agree on the inner tables have the same levels.
LEMMA SameInner ==
  ASSUME NEW m, NEW p, NEW d, Good(m, p, d), NEW n \in [Frames -> [Index -> Entry]],
         \A u \in Inner(m) : n[u] = m[u]
  PROVE  /\ \A j \in 1 .. 4 : Level(n, j) = Level(m, j)
         /\ Inner(n) = Inner(m)
         /\ \A u \in Inner(m) : \A h \in Index : \A g : Leads(n, u, h, g) <=> Leads(m, u, h, g)
         /\ \A va \in VAs :
              /\ E4(n, va) = E4(m, va)
              /\ E4(m, va).present => E3(n, va) = E3(m, va)
              /\ E4(m, va).present /\ E3(m, va).present => E2(n, va) = E2(m, va)
              /\ HasPt(n, va) <=> HasPt(m, va)
              /\ HasPt(m, va) => PtOf(n, va) = PtOf(m, va)
         /\ Entered(n, d) => Good(n, p, d)
<1>1. \A u \in Inner(m) : \A h \in Index : \A g : Leads(n, u, h, g) <=> Leads(m, u, h, g)
  BY DEF Leads
<1>2. ASSUME NEW T \in SUBSET Inner(m)  PROVE ChildrenOf(n, T) = ChildrenOf(m, T)
  <2>1. ASSUME NEW g  PROVE g \in ChildrenOf(n, T) <=> g \in ChildrenOf(m, T)
    <3>1. g \in ChildrenOf(n, T) <=> \E u \in T : \E h \in Index : Leads(n, u, h, g)
      BY ChildOf
    <3>2. g \in ChildrenOf(m, T) <=> \E u \in T : \E h \in Index : Leads(m, u, h, g)
      BY ChildOf
    <3> QED BY <1>1, <3>1, <3>2
  <2> QED BY <2>1
<1>3. Pdpts(n) = Pdpts(m) /\ Pds(n) = Pds(m) /\ Pts(n) = Pts(m)
  <2>1. /\ {pml4_phys} \in SUBSET Inner(m) /\ Pdpts(m) \in SUBSET Inner(m)
        /\ Pds(m) \in SUBSET Inner(m)
    BY DEF Inner
  <2>2. Pdpts(n) = Pdpts(m)
    BY <1>2, <2>1 DEF Pdpts
  <2>3. Pds(n) = Pds(m)
    BY <1>2, <2>1, <2>2 DEF Pds
  <2>4. Pts(n) = Pts(m)
    BY <1>2, <2>1, <2>3 DEF Pts
  <2> QED BY <2>2, <2>3, <2>4
<1>4. \A j \in 1 .. 4 : Level(n, j) = Level(m, j)
  <2> SUFFICES ASSUME NEW j \in 1 .. 4  PROVE Level(n, j) = Level(m, j)
    OBVIOUS
  <2>1. j = 1 \/ j = 2 \/ j = 3 \/ j = 4
    OBVIOUS
  <2> QED BY <1>3, <2>1, Levels4
<1>5. Inner(n) = Inner(m)
  BY <1>3 DEF Inner
<1>6. ASSUME NEW va \in VAs
      PROVE  /\ E4(n, va) = E4(m, va)
             /\ E4(m, va).present => E3(n, va) = E3(m, va)
             /\ E4(m, va).present /\ E3(m, va).present => E2(n, va) = E2(m, va)
             /\ HasPt(n, va) <=> HasPt(m, va)
             /\ HasPt(m, va) => PtOf(n, va) = PtOf(m, va)
  <2>1. E4(n, va) = E4(m, va)
    BY DEF E4, Inner
  <2>2. ASSUME E4(m, va).present  PROVE E3(n, va) = E3(m, va)
    <3>1. E4(m, va).frame \in Inner(m)
      BY <2>2, Walk DEF Inner
    <3> QED BY <2>1, <3>1 DEF E3
  <2>3. ASSUME E4(m, va).present, E3(m, va).present  PROVE E2(n, va) = E2(m, va)
    <3>1. E3(m, va).frame \in Inner(m)
      BY <2>3, Walk DEF Inner
    <3> QED BY <2>2, <2>3, <3>1 DEF E2
  <2> QED BY <2>1, <2>2, <2>3, ByEntries
<1>7. ASSUME Entered(n, d)  PROVE Good(n, p, d)
  <2>1. Types(n, p, d)
    BY DEF Good, Types
  <2>2. Apart(n, p, d) /\ Disjoint(n)
    BY <1>4 DEF Good, Apart, Disjoint
  <2>3. Unique(n)
    BY <1>1, <1>5 DEF Good, Unique
  <2>4. Shared(n)
    <3>1. n[pml4_phys] = m[pml4_phys]
      BY DEF Inner
    <3> QED BY <1>3, <3>1 DEF Good, Shared
  <2>5. NoneLarge(n)
    <3>1. ASSUME NEW j \in 1 .. 2, NEW t \in Level(n, j), NEW i \in Index, n[t][i].present
          PROVE  ~n[t][i].ps
      <4>1. j \in 1 .. 4 /\ j \in 1 .. 3
        OBVIOUS
      <4>2. t \in Level(m, j) /\ n[t] = m[t]
        BY <1>4, <4>1, <3>1, InnerLevels
      <4> QED BY <3>1, <4>2 DEF Good, NoneLarge
    <3>2. ASSUME NEW va \in MapVAs, HasPt(n, va)  PROVE ~E2(n, va).ps
      <4>1. va \in VAs
        BY VmmAssumption
      <4>2. HasPt(m, va) /\ E2(n, va) = E2(m, va)
        BY <1>6, <3>2, <4>1, ByEntries
      <4> QED BY <4>2 DEF Good, NoneLarge
    <3> QED BY <3>1, <3>2 DEF NoneLarge
  <2>6. Reached(n, p, d)
    BY <1>3 DEF Good, Reached
  <2> QED BY <1>7, <2>1, <2>2, <2>3, <2>4, <2>5, <2>6 DEF Good
<1> QED BY <1>1, <1>4, <1>5, <1>6, <1>7

\* The page table of a caller's address.
LEMMA PageTable ==
  ASSUME NEW m, NEW p, NEW d, Good(m, p, d), NEW va \in MapVAs, HasPt(m, va)
  PROVE  /\ PtOf(m, va) \in Pts(m) /\ PtOf(m, va) \in Frames /\ PtOf(m, va) \notin Inner(m)
         /\ va \in VAs /\ va[4] \in Index
<1>1. va \in VAs /\ va[4] \in Index
  BY Indexes, VmmAssumption
<1>2. PtOf(m, va) \in Pts(m)
  BY <1>1, Walk, ByEntries DEF Good, NoneLarge
<1>3. 4 \in 1 .. 4 /\ \A j \in 1 .. 3 : j \in 1 .. 4 /\ j # 4
  OBVIOUS
<1>4. PtOf(m, va) \in Level(m, 4)
  BY <1>2, Levels4
<1>5. PtOf(m, va) \in Frames
  BY <1>3, <1>4, TableFrames
<1>6. PtOf(m, va) \notin Inner(m)
  BY <1>3, <1>4, InnerLevels DEF Good, Disjoint
<1> QED BY <1>1, <1>2, <1>5, <1>6

\* Writing a last-level entry changes that one entry only.
LEMMA WrittenEntries ==
  ASSUME NEW m, NEW p, NEW d, Good(m, p, d), NEW va \in MapVAs, HasPt(m, va),
         NEW e \in Entry, NEW n, Written(m, n, va, e)
  PROVE  /\ n \in [Frames -> [Index -> Entry]]
         /\ \A u \in Inner(m) : n[u] = m[u]
         /\ n[PtOf(m, va)][va[4]] = e
         /\ \A u \in Frames : \A h \in Index : u # PtOf(m, va) \/ h # va[4] => n[u][h] = m[u][h]
<1> DEFINE t == PtOf(m, va)
<1>1. t \in Frames /\ t \notin Inner(m) /\ va[4] \in Index
  BY PageTable
<1>2. m \in [Frames -> [Index -> Entry]]
  BY DEF Good, Types
<1>3. n = [m EXCEPT ![t] = [m[t] EXCEPT ![va[4]] = e]]
  BY <1>1, <1>2 DEF Written
<1> HIDE DEF t
<1>4. [m[t] EXCEPT ![va[4]] = e] \in [Index -> Entry]
  BY <1>1, <1>2
<1>5. n \in [Frames -> [Index -> Entry]]
  BY <1>2, <1>3, <1>4
<1>6. n[t] = [m[t] EXCEPT ![va[4]] = e] /\ \A u \in Frames : u # t => n[u] = m[u]
  BY <1>1, <1>2, <1>3
<1>7. n[t][va[4]] = e /\ \A h \in Index : h # va[4] => n[t][h] = m[t][h]
  BY <1>1, <1>2, <1>6
<1>8. Inner(m) \subseteq Frames
  <2>1. \A j \in 1 .. 3 : j \in 1 .. 4
    OBVIOUS
  <2> QED BY <2>1, InnerLevels, TableFrames
<1> QED BY <1>1, <1>5, <1>6, <1>7, <1>8 DEF t

\* Writing a last-level entry for a page of its own keeps the tree.
LEMMA WrittenGood ==
  ASSUME NEW m, NEW p, NEW d, Good(m, p, d), NEW va \in MapVAs, HasPt(m, va),
         NEW e \in Entry, e.present => e.frame \in DevicePages \cup d,
         NEW n, Written(m, n, va, e)
  PROVE  Good(n, p, d)
<1>1. /\ n \in [Frames -> [Index -> Entry]]
      /\ \A u \in Inner(m) : n[u] = m[u]
      /\ n[PtOf(m, va)][va[4]] = e
      /\ \A u \in Frames : \A h \in Index : u # PtOf(m, va) \/ h # va[4] => n[u][h] = m[u][h]
  BY WrittenEntries
<1>2. /\ \A j \in 1 .. 4 : Level(n, j) = Level(m, j)
      /\ \A v \in VAs : /\ HasPt(n, v) <=> HasPt(m, v)
                        /\ HasPt(m, v) => PtOf(n, v) = PtOf(m, v)
      /\ Entered(n, d) => Good(n, p, d)
  BY <1>1, SameInner
<1>3. 4 \in 1 .. 4
  OBVIOUS
<1>4. ASSUME NEW u \in Pts(n), NEW h \in Index, n[u][h].present
      PROVE  /\ n[u][h].frame \in DevicePages \cup d
             /\ \E v \in MapVAs : HasPt(n, v) /\ PtOf(n, v) = u /\ v[4] = h
  <2>1. u \in Pts(m) /\ u \in Frames
    BY <1>2, <1>3, Levels4, TableFrames
  <2>2. CASE u = PtOf(m, va) /\ h = va[4]
    <3>1. HasPt(n, va) /\ PtOf(n, va) = u
      BY <1>2, <2>2, VmmAssumption
    <3> QED BY <1>1, <1>4, <2>2, <3>1
  <2>3. CASE u # PtOf(m, va) \/ h # va[4]
    <3>1. n[u][h] = m[u][h]
      BY <1>1, <2>1, <2>3
    <3>2. PICK v \in MapVAs : HasPt(m, v) /\ PtOf(m, v) = u /\ v[4] = h
      BY <1>4, <2>1, <3>1 DEF Good, Entered
    <3>3. HasPt(n, v) /\ PtOf(n, v) = u
      BY <1>2, <3>2, VmmAssumption
    <3> QED BY <1>4, <2>1, <3>1, <3>2, <3>3 DEF Good, Entered
  <2> QED BY <2>2, <2>3
<1> QED BY <1>2, <1>4 DEF Entered

\* What a caller writes to a frame of its own, or what is left in a free one.
Overwritten(m, n, f) == \E X \in [Index -> Entry] : n = [m EXCEPT ![f] = X]

\* What is written into a frame of the pool or of data changes no translation.
LEMMA DirtGood ==
  ASSUME NEW m, NEW p, NEW d, Good(m, p, d), NEW f \in p \cup d, NEW n, Overwritten(m, n, f)
  PROVE  /\ Good(n, p, d)
         /\ \A va \in VAs : Translate(n, va) = Translate(m, va)
<1> PICK X \in [Index -> Entry] : n = [m EXCEPT ![f] = X]
  BY DEF Overwritten
<1>1. m \in [Frames -> [Index -> Entry]] /\ f \in Frames
  BY BootTables DEF Good, Types
<1>2. n \in [Frames -> [Index -> Entry]] /\ \A u \in Frames : u # f => n[u] = m[u]
  BY <1>1
<1>3. \A j \in 1 .. 4 : \A u \in Level(m, j) : u \in Frames /\ u # f
  BY TableFrames
<1>4. \A u \in Inner(m) : n[u] = m[u]
  <2>1. \A j \in 1 .. 3 : j \in 1 .. 4
    OBVIOUS
  <2> QED BY <1>2, <1>3, <2>1, InnerLevels
<1>5. \A u \in Pts(m) : n[u] = m[u]
  <2>1. 4 \in 1 .. 4
    OBVIOUS
  <2> QED BY <1>2, <1>3, <2>1, Levels4
<1>6. /\ \A j \in 1 .. 4 : Level(n, j) = Level(m, j)
      /\ \A v \in VAs :
           /\ E4(n, v) = E4(m, v)
           /\ E4(m, v).present => E3(n, v) = E3(m, v)
           /\ E4(m, v).present /\ E3(m, v).present => E2(n, v) = E2(m, v)
           /\ HasPt(n, v) <=> HasPt(m, v)
           /\ HasPt(m, v) => PtOf(n, v) = PtOf(m, v)
      /\ Entered(n, d) => Good(n, p, d)
  BY <1>2, <1>4, SameInner
<1>7. Entered(n, d)
  <2>1. Pts(n) = Pts(m)
    <3>1. 4 \in 1 .. 4
      OBVIOUS
    <3> QED BY <1>6, <3>1, Levels4
  <2> SUFFICES ASSUME NEW t \in Pts(n), NEW i \in Index, n[t][i].present
               PROVE  /\ n[t][i].frame \in DevicePages \cup d
                      /\ \E va \in MapVAs : HasPt(n, va) /\ PtOf(n, va) = t /\ va[4] = i
    BY DEF Entered
  <2>2. t \in Pts(m) /\ n[t] = m[t]
    BY <1>5, <2>1
  <2>3. PICK va \in MapVAs : HasPt(m, va) /\ PtOf(m, va) = t /\ va[4] = i
    BY <2>2 DEF Good, Entered
  <2>4. HasPt(n, va) /\ PtOf(n, va) = t
    BY <1>6, <2>3, VmmAssumption
  <2> QED BY <2>2, <2>3, <2>4 DEF Good, Entered
<1>8. ASSUME NEW va \in VAs  PROVE Translate(n, va) = Translate(m, va)
  <2>1. ASSUME E4(m, va).present, E3(m, va).present, E2(m, va).present, ~E2(m, va).ps
        PROVE  E1(n, va) = E1(m, va)
    <3>1. E2(m, va).frame \in Pts(m)
      BY <2>1, Walk
    <3> QED BY <1>5, <1>6, <2>1, <3>1 DEF E1
  <2>2. /\ E4(n, va) = E4(m, va)
        /\ E4(m, va).present => E3(n, va) = E3(m, va)
        /\ E4(m, va).present /\ E3(m, va).present => E2(n, va) = E2(m, va)
    BY <1>6
  <2>3. CASE ~E4(m, va).present \/ ~E3(m, va).present
    BY <2>2, <2>3, ByEntries
  <2>4. CASE E4(m, va).present /\ E3(m, va).present
    BY <2>1, <2>2, <2>4, ByEntries
  <2> QED BY <2>3, <2>4
<1> QED BY <1>6, <1>7, <1>8

----------------------------------------------------------------------------
(* Frames that change hands *)

\* A caller's address leads to a device or to a caller's frame, if anywhere.
LEMMA CallersTargets ==
  ASSUME NEW m, NEW p, NEW d, Good(m, p, d), NEW va \in MapVAs, Translate(m, va) # 0
  PROVE  Translate(m, va) \in DevicePages \cup d
<1>1. va \in VAs /\ va[4] \in Index
  BY Indexes, VmmAssumption
<1>2. /\ E4(m, va).present /\ E3(m, va).present /\ ~E3(m, va).ps
      /\ E2(m, va).present
  BY <1>1, Walk, ByEntries
<1>3. ~E2(m, va).ps
  BY <1>2, ByEntries DEF Good, NoneLarge
<1>4. E1(m, va).present /\ Translate(m, va) = E1(m, va).frame
  BY <1>2, <1>3, ByEntries
<1>5. E2(m, va).frame \in Pts(m)
  BY <1>1, <1>2, <1>3, Walk
<1> QED BY <1>1, <1>4, <1>5 DEF Good, Entered, E1

\* Taking a frame of the pool as data keeps the tree.
LEMMA TakeGood ==
  ASSUME NEW m, NEW p, NEW d, Good(m, p, d), NEW f \in p
  PROVE  Good(m, p \ {f}, d \cup {f})
<1>1. Types(m, p \ {f}, d \cup {f})
  BY DEF Good, Types
<1>2. Apart(m, p \ {f}, d \cup {f})
  BY DEF Good, Apart
<1>3. Entered(m, d \cup {f})
  BY DEF Good, Entered
<1>4. Reached(m, p \ {f}, d \cup {f})
  BY DEF Good, Reached
<1> QED BY <1>1, <1>2, <1>3, <1>4 DEF Good

\* Giving back a data frame that nothing maps keeps the tree.
LEMMA GiveBackGood ==
  ASSUME NEW m, NEW p, NEW d, Good(m, p, d), NEW f \in d, f # 0,
         \A va \in MapVAs : Translate(m, va) # f
  PROVE  Good(m, p \cup {f}, d \ {f})
<1>1. Types(m, p \cup {f}, d \ {f})
  BY DEF Good, Types
<1>2. Apart(m, p \cup {f}, d \ {f})
  BY DEF Good, Apart
<1>3. Entered(m, d \ {f})
  <2> SUFFICES ASSUME NEW t \in Pts(m), NEW i \in Index, m[t][i].present
               PROVE  /\ m[t][i].frame \in DevicePages \cup (d \ {f})
                      /\ \E va \in MapVAs : HasPt(m, va) /\ PtOf(m, va) = t /\ va[4] = i
    BY DEF Entered
  <2>1. PICK va \in MapVAs : HasPt(m, va) /\ PtOf(m, va) = t /\ va[4] = i
    BY DEF Good, Entered
  <2>2. va \in VAs
    BY VmmAssumption
  <2>3. ~E2(m, va).ps
    BY <2>1 DEF Good, NoneLarge
  <2>4. ~E3(m, va).ps /\ E3(m, va).present /\ E4(m, va).present /\ E2(m, va).present
    BY <2>1, <2>2, Walk, ByEntries
  <2>5. E1(m, va) = m[t][i]
    BY <2>1, ByEntries DEF E1
  <2>6. Translate(m, va) = m[t][i].frame
    BY <2>3, <2>4, <2>5, ByEntries
  <2>7. m[t][i].frame # f
    BY <2>6
  <2> QED BY <2>1, <2>7 DEF Good, Entered
<1>4. Reached(m, p \cup {f}, d \ {f})
  BY DEF Good, Reached
<1> QED BY <1>1, <1>2, <1>3, <1>4 DEF Good

----------------------------------------------------------------------------
(* What boot.asm builds *)

\* What the tables built by boot.asm lead to.
LEMMA BootMemory ==
  /\ setup_page_tables \in [Frames -> [Index -> Entry]]
  /\ \A i \in Index : \A f :
       /\ Leads(setup_page_tables, pml4_phys, i, f) =>
            \/ f = pdpt_low /\ i \in {0, N \div 2}
            \/ f = pdpt_kern /\ i = N - 1
       /\ Leads(setup_page_tables, pdpt_low, i, f) => i < LOW_PDS /\ f = pd_low(i)
       /\ Leads(setup_page_tables, pdpt_kern, i, f) => i = N - 2 /\ f = pd_kern_0
       /\ \A k \in 0 .. LOW_PDS - 1 : ~Leads(setup_page_tables, pd_low(k), i, f)
       /\ ~Leads(setup_page_tables, pd_kern_0, i, f)
  /\ \A i \in Index : /\ ~setup_page_tables[pml4_phys][i].ps
                      /\ ~setup_page_tables[pdpt_low][i].ps
                      /\ ~setup_page_tables[pdpt_kern][i].ps
<1> DEFINE m == setup_page_tables
           B == pml4_phys .. pml4_phys + LOW_PDS + 3
<1>1. /\ LOW_PDS \in Nat /\ LOW_PDS # 0 /\ LOW_PDS <= N /\ pml4_phys \in Nat /\ N \in Nat
      /\ KERNEL_PHYS_BASE \in Nat /\ pml4_phys # 0 /\ N # 0
  BY VmmAssumption
<1>2. /\ pml4_phys \in B /\ pdpt_low \in B /\ pdpt_kern \in B /\ pd_kern_0 \in B
      /\ \A k \in 0 .. LOW_PDS - 1 : pd_low(k) \in B
      /\ pd_low(0) .. pd_low(LOW_PDS - 1) \subseteq B
      /\ \A k \in 0 .. LOW_PDS - 1 : /\ pd_low(k) \in pd_low(0) .. pd_low(LOW_PDS - 1)
                                     /\ pd_low(k) - pd_low(0) = k
      /\ B \subseteq Nat
  BY <1>1 DEF pdpt_low, pd_low, pdpt_kern, pd_kern_0
<1>3. B \subseteq Frames
  BY VmmAssumption
<1>4. /\ pdpt_low # pml4_phys /\ pdpt_kern # pml4_phys /\ pd_kern_0 # pml4_phys
      /\ pdpt_kern # pdpt_low /\ pd_kern_0 # pdpt_low /\ pd_kern_0 # pdpt_kern
      /\ \A x \in pd_low(0) .. pd_low(LOW_PDS - 1) :
           /\ x # pml4_phys /\ x # pdpt_low /\ x # pdpt_kern /\ x # pd_kern_0
           /\ x - pd_low(0) \in 0 .. LOW_PDS - 1 /\ x = pd_low(x - pd_low(0))
  BY <1>1 DEF pdpt_low, pd_low, pdpt_kern, pd_kern_0
<1> DEFINE Root == [ZeroTable EXCEPT ![0] = Small(pdpt_low), ![N \div 2] = Small(pdpt_low),
                                     ![N - 1] = Small(pdpt_kern)]
           Low == [i \in Index |-> IF i < LOW_PDS THEN Small(pd_low(i)) ELSE Absent]
           Kern == [ZeroTable EXCEPT ![N - 2] = Small(pd_kern_0)]
<1>5. /\ m[pml4_phys] = Root /\ m[pdpt_low] = Low /\ m[pdpt_kern] = Kern
      /\ m[pd_kern_0] = fill_kern
      /\ \A x \in pd_low(0) .. pd_low(LOW_PDS - 1) : m[x] = fill_pd(x - pd_low(0))
      /\ \A x \in Frames \ B : m[x] = ZeroTable
      /\ m = [x \in Frames |-> m[x]]
  <2> DEFINE P(x) == x \in pd_low(0) .. pd_low(LOW_PDS - 1)
             V(x) == CASE x = pml4_phys -> Root [] x = pdpt_low  -> Low
                       [] P(x) -> fill_pd(x - pd_low(0))
                       [] x = pdpt_kern -> Kern [] x = pd_kern_0 -> fill_kern
                       [] OTHER -> ZeroTable
  <2>1. m = [x \in Frames |-> V(x)]
    BY DEF setup_page_tables
  <2>2. /\ ~P(pml4_phys) /\ ~P(pdpt_low) /\ ~P(pdpt_kern) /\ ~P(pd_kern_0)
        /\ \A x : P(x) => x # pml4_phys /\ x # pdpt_low /\ x # pdpt_kern /\ x # pd_kern_0
        /\ \A x \in Frames \ B : /\ ~P(x) /\ x # pml4_phys /\ x # pdpt_low
                                 /\ x # pdpt_kern /\ x # pd_kern_0
        /\ \A x : P(x) => x \in Frames
    BY <1>2, <1>3, <1>4
  <2> HIDE DEF P, Root, Low, Kern, m
  <2>3. /\ V(pml4_phys) = Root /\ V(pdpt_low) = Low /\ V(pdpt_kern) = Kern
        /\ V(pd_kern_0) = fill_kern
    BY <1>4, <2>2
  <2>4. \A x : P(x) => V(x) = fill_pd(x - pd_low(0))
    BY <2>2
  <2>5. \A x \in Frames \ B : V(x) = ZeroTable
    BY <2>2
  <2> HIDE DEF V
  <2>6. \A x \in Frames : m[x] = V(x)
    BY <2>1
  <2>7. m = [x \in Frames |-> m[x]]
    BY <2>1
  <2> QED BY <1>2, <1>3, <2>2, <2>3, <2>4, <2>5, <2>6, <2>7 DEF P
<1>6. /\ 0 \in Index /\ N \div 2 \in Index /\ N - 1 \in Index /\ Index \subseteq Nat
  BY <1>1 DEF Index
<1>7. /\ Small(pdpt_low) \in Entry /\ Small(pdpt_kern) \in Entry /\ Small(pd_kern_0) \in Entry
      /\ \A k \in 0 .. LOW_PDS - 1 : Small(pd_low(k)) \in Entry /\ Small(pd_low(k)).frame = pd_low(k)
                                     /\ ~Small(pd_low(k)).ps
      /\ ~Small(pdpt_low).ps /\ ~Small(pdpt_kern).ps /\ ~Small(pd_kern_0).ps
      /\ Small(pdpt_low).frame = pdpt_low /\ Small(pdpt_kern).frame = pdpt_kern
      /\ Small(pd_kern_0).frame = pd_kern_0
      /\ Absent \in Entry /\ ~Absent.present /\ ~Absent.ps
      /\ ZeroTable \in [Index -> Entry] /\ \A i \in Index : ZeroTable[i] = Absent
  BY <1>2, Entries DEF Absent
<1>8. \A x \in Nat : Large(x) \in Entry /\ Large(x).ps
  BY DEF Large, Entry
\* Products of naturals are naturals.
<1>9. ASSUME NEW k \in Nat, NEW i \in Nat
      PROVE  (k * N + i) * N \in Nat /\ KERNEL_PHYS_BASE + i * N \in Nat
  <2>1. \A x, y \in Nat : x * y \in Nat
    BY SMTT(30)
  <2>2. k * N \in Nat /\ i * N \in Nat
    BY <1>1, <2>1
  <2>3. k * N + i \in Nat
    BY <2>2
  <2>4. (k * N + i) * N \in Nat
    BY <1>1, <2>1, <2>3
  <2> QED BY <1>1, <2>2, <2>4
<1>10. ASSUME NEW k \in Nat
       PROVE  fill_pd(k) \in [Index -> Entry] /\ \A i \in Index : fill_pd(k)[i].ps
  <2>1. \A i \in Index : Large((k * N + i) * N) \in Entry /\ Large((k * N + i) * N).ps
    BY <1>6, <1>8, <1>9
  <2> QED BY <2>1 DEF fill_pd
<1>11. /\ fill_kern \in [Index -> Entry]
       /\ \A i \in Index : fill_kern[i].ps \/ ~fill_kern[i].present
  <2>1. \A i \in Index : /\ Large(KERNEL_PHYS_BASE + i * N) \in Entry
                         /\ Large(KERNEL_PHYS_BASE + i * N).ps
    BY <1>6, <1>8, <1>9
  <2> QED BY <1>7, <2>1 DEF fill_kern
<1>12. /\ Root \in [Index -> Entry]
       /\ \A i \in Index : \/ Root[i] = Small(pdpt_kern) /\ i = N - 1
                           \/ Root[i] = Small(pdpt_low) /\ i \in {0, N \div 2}
                           \/ Root[i] = Absent
  BY <1>6, <1>7
<1>13. /\ Low \in [Index -> Entry]
       /\ \A i \in Index : \/ i < LOW_PDS /\ i \in 0 .. LOW_PDS - 1 /\ Low[i] = Small(pd_low(i))
                           \/ Low[i] = Absent
  <2>1. \A i \in Index : i < LOW_PDS => i \in 0 .. LOW_PDS - 1
    BY <1>1, <1>6
  <2> QED BY <1>7, <2>1
<1>14. /\ Kern \in [Index -> Entry]
       /\ \A i \in Index : \/ Kern[i] = Small(pd_kern_0) /\ i = N - 2
                           \/ Kern[i] = Absent
  BY <1>7
<1> HIDE DEF m, Root, Low, Kern
<1>15. m \in [Frames -> [Index -> Entry]]
  <2>1. ASSUME NEW x \in Frames  PROVE m[x] \in [Index -> Entry]
    <3>1. CASE x \notin B
      BY <1>5, <1>7, <3>1
    <3>2. CASE x \in B
      <4>1. \/ x = pml4_phys \/ x = pdpt_low \/ x = pdpt_kern \/ x = pd_kern_0
            \/ x \in pd_low(0) .. pd_low(LOW_PDS - 1)
            \/ x = pml4_phys + LOW_PDS + 3
        BY <1>1, <3>2 DEF pdpt_low, pd_low, pdpt_kern, pd_kern_0
      <4>2. pml4_phys + LOW_PDS + 3 = pd_kern_0
        BY <1>1 DEF pd_kern_0
      <4>3. ASSUME x \in pd_low(0) .. pd_low(LOW_PDS - 1)
            PROVE  x - pd_low(0) \in Nat
        BY <1>4, <4>3
      <4> QED BY <1>5, <1>10, <1>11, <1>12, <1>13, <1>14, <4>1, <4>2, <4>3
    <3> QED BY <3>1, <3>2
  <2> QED BY <1>5, <2>1
<1>16. ASSUME NEW i \in Index, NEW f
       PROVE  /\ Leads(m, pml4_phys, i, f) =>
                   \/ f = pdpt_low /\ i \in {0, N \div 2}
                   \/ f = pdpt_kern /\ i = N - 1
              /\ Leads(m, pdpt_low, i, f) => i < LOW_PDS /\ f = pd_low(i)
              /\ Leads(m, pdpt_kern, i, f) => i = N - 2 /\ f = pd_kern_0
              /\ \A k \in 0 .. LOW_PDS - 1 : ~Leads(m, pd_low(k), i, f)
              /\ ~Leads(m, pd_kern_0, i, f)
  <2>1. Leads(m, pml4_phys, i, f) =>
                   \/ f = pdpt_low /\ i \in {0, N \div 2}
                   \/ f = pdpt_kern /\ i = N - 1
    BY <1>5, <1>7, <1>12 DEF Leads
  <2>2. Leads(m, pdpt_low, i, f) => i < LOW_PDS /\ f = pd_low(i)
    BY <1>5, <1>7, <1>13 DEF Leads
  <2>3. Leads(m, pdpt_kern, i, f) => i = N - 2 /\ f = pd_kern_0
    BY <1>5, <1>7, <1>14 DEF Leads
  <2>4. ASSUME NEW k \in 0 .. LOW_PDS - 1  PROVE ~Leads(m, pd_low(k), i, f)
    <3>1. m[pd_low(k)] = fill_pd(k) /\ k \in Nat
      BY <1>2, <1>5
    <3> QED BY <1>10, <3>1 DEF Leads
  <2>5. ~Leads(m, pd_kern_0, i, f)
    BY <1>5, <1>11 DEF Leads
  <2> QED BY <2>1, <2>2, <2>3, <2>4, <2>5
<1>17. \A i \in Index : ~m[pml4_phys][i].ps /\ ~m[pdpt_low][i].ps /\ ~m[pdpt_kern][i].ps
  BY <1>5, <1>7, <1>12, <1>13, <1>14
<1> QED BY <1>15, <1>16, <1>17 DEF m

\* The levels of the boot tables.
LEMMA BootLevels ==
  /\ Pdpts(setup_page_tables) \subseteq {pdpt_low, pdpt_kern}
  /\ Pds(setup_page_tables) \subseteq {pd_low(k) : k \in 0 .. LOW_PDS - 1} \cup {pd_kern_0}
  /\ Pts(setup_page_tables) = {}
<1> DEFINE m == setup_page_tables
           D == {pd_low(k) : k \in 0 .. LOW_PDS - 1} \cup {pd_kern_0}
<1>1. Index \subseteq Nat /\ LOW_PDS \in Nat
  BY VmmAssumption DEF Index
<1>2. ASSUME NEW f \in Pdpts(m)  PROVE f \in {pdpt_low, pdpt_kern}
  <2>1. PICK i \in Index : Leads(m, pml4_phys, i, f)
    BY ChildOf DEF Pdpts
  <2> QED BY <2>1, BootMemory
<1>3. ASSUME NEW f \in Pds(m)  PROVE f \in D
  <2>1. PICK t \in Pdpts(m), i \in Index : Leads(m, t, i, f)
    BY ChildOf DEF Pds
  <2>2. CASE t = pdpt_low
    <3>1. i < LOW_PDS /\ f = pd_low(i)
      BY <2>1, <2>2, BootMemory
    <3>2. i \in 0 .. LOW_PDS - 1
      BY <1>1, <3>1
    <3> QED BY <3>1, <3>2
  <2>3. CASE t = pdpt_kern
    BY <2>1, <2>3, BootMemory
  <2> QED BY <1>2, <2>2, <2>3
<1>4. ASSUME NEW f \in Pts(m)  PROVE FALSE
  <2>1. PICK t \in Pds(m), i \in Index : Leads(m, t, i, f)
    BY ChildOf DEF Pts
  <2>2. t \in D
    BY <1>3
  <2> QED BY <2>1, <2>2, BootMemory
<1> QED BY <1>2, <1>3, <1>4

\* The tables of boot.asm form a tree, and their frames are not in the pool.
LEMMA InitGood ==
  ASSUME Clean(MapVAs)
  PROVE  Good(setup_page_tables, BootFree, {})
<1> DEFINE m == setup_page_tables
           B == pml4_phys .. pml4_phys + LOW_PDS + 3
           D == {pd_low(k) : k \in 0 .. LOW_PDS - 1} \cup {pd_kern_0}
           G == {pdpt_low, pdpt_kern}
<1>1. LOW_PDS \in Nat /\ LOW_PDS # 0 /\ pml4_phys \in Nat /\ N \in Nat /\ pml4_phys # 0
  BY VmmAssumption
<1>2. B \subseteq Frames /\ B \cap BootFree = {} /\ 0 \notin B
  BY <1>1, VmmAssumption
<1>3. /\ pml4_phys \in B /\ G \subseteq B /\ D \subseteq B
      /\ pml4_phys \notin G /\ pml4_phys \notin D /\ G \cap D = {}
      /\ pdpt_low # pdpt_kern /\ \A k \in 0 .. LOW_PDS - 1 : pd_low(k) # pd_kern_0
      /\ \A j, k \in Int : pd_low(j) = pd_low(k) => j = k
  BY <1>1 DEF pdpt_low, pd_low, pdpt_kern, pd_kern_0
<1>4. Pdpts(m) \subseteq G /\ Pds(m) \subseteq D /\ Pts(m) = {}
  BY BootLevels
<1> HIDE DEF B, G, D
<1>5. \A j \in 1 .. 4 : j = 1 \/ j = 2 \/ j = 3 \/ j = 4
  OBVIOUS
<1>6. Types(m, BootFree, {})
  BY BootMemory DEF Types
<1>7. Apart(m, BootFree, {})
  <2> SUFFICES ASSUME NEW j \in 1 .. 4, NEW t \in Level(m, j)
               PROVE  t \in Frames /\ t # 0 /\ t \notin BootFree
    BY DEF Apart
  <2>1. t \in B
    BY <1>3, <1>4, <1>5, Levels4
  <2> QED BY <1>2, <2>1
<1>8. Disjoint(m)
  <2> SUFFICES ASSUME NEW j \in 1 .. 4, NEW k \in 1 .. 4, NEW t,
                      t \in Level(m, j), t \in Level(m, k)
               PROVE  j = k
    BY DEF Disjoint
  <2> QED BY <1>3, <1>4, <1>5, Levels4
<1>9. Unique(m)
  <2> SUFFICES ASSUME NEW t \in Inner(m), NEW u \in Inner(m), NEW i \in Index, NEW h \in Index,
                      NEW f, Leads(m, t, i, f), Leads(m, u, h, f), f # pdpt_low
               PROVE  t = u /\ i = h
    BY DEF Unique
  <2>1. ASSUME NEW v \in Inner(m), NEW l \in Index, Leads(m, v, l, f)
        PROVE  \/ v = pml4_phys /\ f = pdpt_kern /\ l = N - 1
               \/ v = pdpt_low /\ l \in 0 .. LOW_PDS - 1 /\ f = pd_low(l)
               \/ v = pdpt_kern /\ f = pd_kern_0 /\ l = N - 2
    <3>1. v = pml4_phys \/ v \in G \/ v \in D
      BY <1>4 DEF Inner
    <3>2. Index \subseteq Nat
      BY DEF Index
    <3>3. CASE v = pml4_phys
      BY <2>1, <3>3, BootMemory
    <3>4. CASE v = pdpt_low
      <4>1. l < LOW_PDS /\ f = pd_low(l)
        BY <2>1, <3>4, BootMemory
      <4> QED BY <1>1, <3>2, <3>4, <4>1
    <3>5. CASE v = pdpt_kern
      BY <2>1, <3>5, BootMemory
    <3>6. CASE v \in D
      BY <2>1, <3>6, BootMemory DEF D
    <3> QED BY <3>1, <3>3, <3>4, <3>5, <3>6 DEF G
  <2>2. /\ pdpt_kern # pd_kern_0
        /\ \A k \in 0 .. LOW_PDS - 1 : pd_low(k) # pdpt_kern /\ k \in Int
    BY <1>3 DEF D, G
  <2>3. /\ \/ t = pml4_phys /\ f = pdpt_kern /\ i = N - 1
           \/ t = pdpt_low /\ i \in 0 .. LOW_PDS - 1 /\ f = pd_low(i)
           \/ t = pdpt_kern /\ f = pd_kern_0 /\ i = N - 2
        /\ \/ u = pml4_phys /\ f = pdpt_kern /\ h = N - 1
           \/ u = pdpt_low /\ h \in 0 .. LOW_PDS - 1 /\ f = pd_low(h)
           \/ u = pdpt_kern /\ f = pd_kern_0 /\ h = N - 2
    BY <2>1
  <2> QED BY <1>3, <2>2, <2>3
<1>10. Shared(m)
  <2>1. pdpt_low \notin Pds(m) /\ pdpt_low \notin Pts(m)
    BY <1>3, <1>4 DEF G
  <2>2. ASSUME NEW i \in Index, m[pml4_phys][i].present, m[pml4_phys][i].frame = pdpt_low
        PROVE  i \in {0, N \div 2}
    <3>1. Leads(m, pml4_phys, i, pdpt_low)
      BY <2>2, BootMemory DEF Leads
    <3>2. pdpt_low # pdpt_kern
      BY <1>3
    <3> QED BY <3>1, <3>2, BootMemory
  <2> QED BY <2>1, <2>2 DEF Shared
<1>11. NoneLarge(m)
  <2>1. ASSUME NEW k \in 1 .. 2, NEW t \in Level(m, k), NEW i \in Index  PROVE ~m[t][i].ps
    <3>1. t = pml4_phys \/ t = pdpt_low \/ t = pdpt_kern
      <4>1. k = 1 \/ k = 2
        OBVIOUS
      <4> QED BY <1>4, <4>1, Levels4 DEF G
    <3> QED BY <3>1, BootMemory
  <2> QED BY <2>1 DEF NoneLarge, Clean
<1>12. Entered(m, {}) /\ Reached(m, BootFree, {})
  BY <1>4 DEF Entered, Reached
<1> QED BY <1>6, <1>7, <1>8, <1>9, <1>10, <1>11, <1>12 DEF Good

----------------------------------------------------------------------------
(* Every operation keeps the invariant *)

\* Absent entries and entries of small pages are entries, for any frame.
LEMMA AbsentEntry == Absent \in Entry /\ \A f \in Nat : Small(f) \in Entry
BY Entries

\* vmm_map_page keeps the invariant.
LEMMA StepMap ==
  ASSUME IInv, NEW va \in MapVAs, NEW phys \in DevicePages, vmm_map_page(va, phys)
  PROVE  IInv'
<1>1. Good(mem, pool, data)
  BY DEF IInv
<1>2. PICK n, q, w, x :
        /\ Good(n, q, data) /\ q \subseteq pool /\ Kept(mem, n) /\ MapOutcome(n, w, va, phys, x)
        /\ MapPage([mem |-> mem, pool |-> pool], va, phys)
             = [s |-> [mem |-> w, pool |-> q], result |-> x]
  <2>1. PICK n, q, w, x : MapPageMade(mem, pool, data, va, phys, n, q, w, x)
    BY <1>1, MapPageStep
  <2> QED BY <2>1 DEF MapPageMade
<1>3. mem' = w /\ pool' = q /\ data' = data
  BY <1>2 DEF vmm_map_page, State
<1>4. CASE w = n
  BY <1>2, <1>3, <1>4 DEF IInv
<1>5. CASE HasPt(n, va) /\ Written(n, w, va, Small(phys))
  <2>1. Small(phys) \in Entry /\ Small(phys).frame \in DevicePages \cup data
    BY VmmAssumption, Entries
  <2>2. Good(w, q, data)
    BY <1>2, <1>5, <2>1, WrittenGood
  <2> QED BY <1>3, <2>2 DEF IInv
<1> QED BY <1>2, <1>4, <1>5 DEF MapOutcome

\* What vmm_map_alloc_page does: the frame that first fit finds goes to the
\* caller, or comes back.
LEMMA MapAllocStep ==
  ASSUME IInv, NEW va \in MapVAs, vmm_map_alloc_page(va)
  PROVE  \E n, q :
           LET f == Min(pool)
           IN  /\ f \in pool /\ f # 0 /\ f \in BootFree
               /\ Good(n, q, data \cup {f}) /\ Kept(mem, n) /\ pool' \in {q, q \cup {f}}
               /\ \A v \in MapVAs : Translate(n, v) # f
               /\ \/ /\ mem' = n /\ pool' = q \cup {f} /\ data' = data
                     /\ Report("map", va, f, -1)
                  \/ /\ HasPt(n, va) /\ Written(n, mem', va, Small(f))
                     /\ pool' = q /\ data' = data \cup {f}
                     /\ Report("map", va, f, 0)
<1> DEFINE f == Min(pool)
           s == [mem |-> mem, pool |-> pool \ {f}]
           R == MapPage(s, va, f)
           A == MapAlloc(State, va)
<1>1. Good(mem, pool, data) /\ pool # {}
  BY DEF IInv, vmm_map_alloc_page
<1>2. f \in pool /\ f # 0 /\ f \in BootFree /\ f \notin data
  <2>1. pool \in SUBSET BootFree /\ pool \cap data = {}
    BY <1>1 DEF Good, Types
  <2> QED BY <1>1, <2>1, FirstFit, BootTables
<1>3. Good(mem, pool \ {f}, data \cup {f})
  BY <1>1, <1>2, TakeGood
<1>4. A = IF R.result = 0 THEN [s |-> R.s, phys |-> f]
          ELSE [s |-> [R.s EXCEPT !.pool = @ \cup {f}], phys |-> 0]
  <2>1. [State EXCEPT !.pool = @ \ {Min(State.pool)}] = s /\ State.pool = pool
    BY DEF State
  <2> HIDE DEF s
  <2> QED BY <1>1, <2>1 DEF MapAlloc, GiveBack
<1>5. /\ mem' = A.s.mem /\ pool' = A.s.pool /\ data' = data \cup ({A.phys} \ {0})
      /\ Report("map", va, f, IF A.phys = 0 THEN -1 ELSE 0)
  BY DEF vmm_map_alloc_page
<1> HIDE DEF A, f
<1>6. PICK n, q, w, x :
        /\ Good(n, q, data \cup {f}) /\ q \subseteq pool \ {f} /\ Kept(mem, n)
        /\ MapOutcome(n, w, va, f, x)
        /\ R = [s |-> [mem |-> w, pool |-> q], result |-> x]
  <2>1. PICK n, q, w, x :
          MapPageMade(mem, pool \ {f}, data \cup {f}, va, f, n, q, w, x)
    BY <1>3, MapPageStep
  <2> QED BY <2>1 DEF MapPageMade
<1>7. \A v \in MapVAs : Translate(n, v) # f
  <2> SUFFICES ASSUME NEW v \in MapVAs  PROVE Translate(n, v) # f
    OBVIOUS
  <2>1. Translate(n, v) = Translate(mem, v)
    BY <1>6, VmmAssumption DEF Kept
  <2>2. Translate(mem, v) = 0 \/ Translate(mem, v) \in DevicePages \cup data
    BY <1>1, CallersTargets
  <2>3. f \notin DevicePages
    BY <1>2, BootTables
  <2> QED BY <1>2, <2>1, <2>2, <2>3
<1> HIDE DEF R
<1>8. CASE x = -1 /\ w = n
  <2>1. A = [s |-> [mem |-> n, pool |-> q \cup {f}], phys |-> 0]
    BY <1>4, <1>6, <1>8
  <2>2. mem' = n /\ pool' = q \cup {f} /\ data' = data /\ Report("map", va, f, -1)
    BY <1>5, <2>1
  <2> QED BY <1>2, <1>6, <1>7, <2>2 DEF f
<1>9. CASE x = 0 /\ HasPt(n, va) /\ Written(n, w, va, Small(f))
  <2>1. A = [s |-> [mem |-> w, pool |-> q], phys |-> f]
    BY <1>4, <1>6, <1>9
  <2>2. mem' = w /\ pool' = q /\ data' = data \cup {f} /\ Report("map", va, f, 0)
    BY <1>2, <1>5, <2>1
  <2> QED BY <1>2, <1>6, <1>7, <1>9, <2>2 DEF f
<1> QED BY <1>6, <1>8, <1>9 DEF MapOutcome

\* Mapping with a frame allocated for it keeps the invariant.
LEMMA StepMapAlloc ==
  ASSUME IInv, NEW va \in MapVAs, vmm_map_alloc_page(va)
  PROVE  IInv'
<1> DEFINE f == Min(pool)
<1>1. PICK n, q :
        /\ f \in pool /\ f # 0 /\ f \in BootFree
        /\ Good(n, q, data \cup {f})
        /\ \A v \in MapVAs : Translate(n, v) # f
        /\ \/ /\ mem' = n /\ pool' = q \cup {f} /\ data' = data
           \/ /\ HasPt(n, va) /\ Written(n, mem', va, Small(f))
              /\ pool' = q /\ data' = data \cup {f}
  BY MapAllocStep
<1> HIDE DEF f
<1>2. CASE mem' = n /\ pool' = q \cup {f} /\ data' = data
  <2>1. Good(n, q \cup {f}, (data \cup {f}) \ {f})
    BY <1>1, GiveBackGood
  <2>2. (data \cup {f}) \ {f} = data
    BY <1>1 DEF IInv, Good, Types
  <2> QED BY <1>2, <2>1, <2>2 DEF IInv
<1>3. CASE /\ HasPt(n, va) /\ Written(n, mem', va, Small(f))
           /\ pool' = q /\ data' = data \cup {f}
  <2>1. Small(f) \in Entry /\ Small(f).frame \in DevicePages \cup (data \cup {f})
    BY <1>1, Entries, BootTables
  <2>2. Good(mem', q, data \cup {f})
    BY <1>1, <1>3, <2>1, WrittenGood
  <2> QED BY <1>3, <2>2 DEF IInv
<1> QED BY <1>1, <1>2, <1>3

\* vmm_unmap_page keeps the invariant, and clears one entry.
LEMMA StepUnmap ==
  ASSUME IInv, NEW va \in MapVAs, vmm_unmap_page(va)
  PROVE  IInv' /\ Written(mem, mem', va, Absent)
<1>1. HasPt(mem, va) /\ Written(mem, mem', va, Absent) /\ UNCHANGED <<pool, data>>
  BY DEF vmm_unmap_page, UnmapPage, Written
<1>2. Absent \in Entry /\ ~Absent.present
  BY Entries
<1>3. Good(mem', pool, data)
  BY <1>1, <1>2, WrittenGood DEF IInv
<1> QED BY <1>1, <1>3 DEF IInv

\* A caller that frees a frame it no longer maps changes no translation.
LEMMA StepFree ==
  ASSUME IInv, NEW f \in data, pmm_free_frame(f)
  PROVE  IInv' /\ \A va \in VAs : Translate(mem', va) = Translate(mem, va)
<1>1. /\ Good(mem, pool, data) /\ \A va \in MapVAs : Translate(mem, va) # f
      /\ data' = data \ {f} /\ pool' = pool \cup {f} /\ mem' = [mem EXCEPT ![f] = Dirt]
  BY DEF IInv, pmm_free_frame
<1>2. f # 0
  BY <1>1, BootTables DEF Good, Types
<1>3. Good(mem, pool \cup {f}, data \ {f})
  BY <1>1, <1>2, GiveBackGood
<1>4. Dirt \in [Index -> Entry]
  BY DEF Dirt, Large, Entry
<1>5. /\ Good(mem', pool \cup {f}, data \ {f})
      /\ \A va \in VAs : Translate(mem', va) = Translate(mem, va)
  <2> DEFINE p == pool \cup {f}
             d == data \ {f}
  <2>1. f \in p \cup d /\ Good(mem, p, d)
    BY <1>3
  <2> HIDE DEF p, d
  <2>2. Good(mem', p, d) /\ \A va \in VAs : Translate(mem', va) = Translate(mem, va)
    <3>1. Overwritten(mem, mem', f)
      BY <1>1, <1>4 DEF Overwritten
    <3> QED BY <2>1, <3>1, DirtGood
  <2> QED BY <2>2 DEF p, d
<1> QED BY <1>1, <1>5 DEF IInv

\* The invariant holds when boot.asm has set up its tables.
LEMMA InitHolds == ASSUME Clean(MapVAs)  PROVE Init => IInv
BY InitGood DEF Init, IInv

\* The invariant is inductive.
LEMMA StepHolds == IInv /\ [Next]_vars => IInv'
<1> SUFFICES ASSUME IInv, [Next]_vars  PROVE IInv'
  OBVIOUS
<1>1. ASSUME NEW va \in MapVAs, NEW phys \in DevicePages, vmm_map_page(va, phys)  PROVE IInv'
  BY <1>1, StepMap
<1>2. ASSUME NEW va \in MapVAs, vmm_map_alloc_page(va)  PROVE IInv'
  BY <1>2, StepMapAlloc
<1>3. ASSUME NEW va \in MapVAs, vmm_unmap_page(va)  PROVE IInv'
  BY <1>3, StepUnmap
<1>4. ASSUME NEW f \in data, pmm_free_frame(f)  PROVE IInv'
  BY <1>4, StepFree
<1>5. CASE UNCHANGED <<mem, pool, data>>
  BY <1>5 DEF IInv
<1>6. ASSUME NEW va \in MapVAs, vmm_map_alloc_page_no_frame(va) \/ vmm_unmap_page_fails(va)
      PROVE  IInv'
  BY <1>5, <1>6 DEF vmm_map_alloc_page_no_frame, vmm_unmap_page_fails, vars
<1>7. CASE UNCHANGED vars
  BY <1>5, <1>7 DEF vars
<1> QED BY <1>1, <1>2, <1>3, <1>4, <1>6, <1>7 DEF Next

----------------------------------------------------------------------------
(* The theorems, for callers' addresses the boot tables do not map *)

\* Tables, free frames and callers' frames are apart, every table is cleared
\* before it is entered and entered once, and page tables lead only to callers'
\* frames and devices' pages, after any mappings, failures, unmappings and frees.
THEOREM TreeInvariant == ASSUME Clean(MapVAs)  PROVE Spec => []IInv
BY InitHolds, StepHolds, PTL DEF Spec

\* The variables keep their types.
THEOREM TypeCorrect == ASSUME Clean(MapVAs)  PROVE Spec => []TypeOK
<1>1. IInv => TypeOK
  BY DEF IInv, Good, Types, TypeOK
<1> QED BY <1>1, TreeInvariant, PTL

\* The walk of the code, in the terms of the properties.
LEMMA SameLevels ==
  /\ Levels = <<{pml4_phys}, Pdpts(mem), Pds(mem), Pts(mem)>>
  /\ Tables = {pml4_phys} \cup Pdpts(mem) \cup Pds(mem) \cup Pts(mem)
  /\ \A T : Links(T) = LinksOf(mem, T)
<1>1. \A T : Links(T) = LinksOf(mem, T)
  BY DEF Links, LinksOf
<1>2. \A T : Children(T) = ChildrenOf(mem, T)
  BY <1>1 DEF Children, ChildrenOf
<1>3. Levels = <<{pml4_phys}, Pdpts(mem), Pds(mem), Pts(mem)>>
  BY <1>2, Zenon DEF Levels, Pdpts, Pds, Pts
<1>4. Tables = {pml4_phys} \cup Pdpts(mem) \cup Pds(mem) \cup Pts(mem)
  BY <1>3 DEF Tables
<1> QED BY <1>1, <1>3, <1>4

\* The tables vmm_map_page makes form a tree under the boot tables: so a change
\* below one address does not show at another (src/mem/vmm.c:26).
THEOREM TreeKept == ASSUME Clean(MapVAs)  PROVE Spec => []TablesFormTree
<1>1. IInv => TablesFormTree
  <2> SUFFICES ASSUME IInv  PROVE TablesFormTree
    OBVIOUS
  <2>1. Good(mem, pool, data)
    BY DEF IInv
  <2> DEFINE L == Levels
             links == Links(L[1] \cup L[2] \cup L[3])
  <2>2. /\ L[1] = {pml4_phys} /\ L[2] = Pdpts(mem) /\ L[3] = Pds(mem) /\ L[4] = Pts(mem)
        /\ links = LinksOf(mem, Inner(mem))
        /\ Tables = Inner(mem) \cup Pts(mem)
    BY SameLevels DEF Inner
  <2>3. \A i, j \in 1 .. 4 : i < j => L[i] \cap L[j] = {}
    <3> SUFFICES ASSUME NEW i \in 1 .. 4, NEW j \in 1 .. 4, i < j, NEW t, t \in L[i], t \in L[j]
                 PROVE  FALSE
      BY Zenon
    <3>1. L[i] = Level(mem, i) /\ L[j] = Level(mem, j)
      <4>1. \A k \in 1 .. 4 : k = 1 \/ k = 2 \/ k = 3 \/ k = 4
        OBVIOUS
      <4> HIDE DEF L
      <4> QED BY <2>2, <4>1, Levels4
    <3>2. i = j
      <4> HIDE DEF L
      <4> QED BY <2>1, <3>1 DEF Good, Disjoint
    <3> QED BY <3>2
  <2> HIDE DEF L, links
  <2>4. ASSUME NEW f \in Tables \cap BootFree
        PROVE  Cardinality({x \in links : mem[x[1]][x[2]].frame = f}) = 1
    <3>1. f # pml4_phys /\ f # pdpt_low
      BY BootTables
    <3>2. \E t \in Inner(mem) : \E i \in Index : Leads(mem, t, i, f)
      <4>1. f \in Pdpts(mem) \/ f \in Pds(mem) \/ f \in Pts(mem)
        BY <2>2, <3>1 DEF Inner
      <4>2. /\ {pml4_phys} \subseteq Inner(mem) /\ Pdpts(mem) \subseteq Inner(mem)
            /\ Pds(mem) \subseteq Inner(mem)
        BY DEF Inner
      <4>3. CASE f \in Pdpts(mem)
        BY <4>2, <4>3, ChildOf DEF Pdpts
      <4>4. CASE f \in Pds(mem)
        BY <4>2, <4>4, ChildOf DEF Pds
      <4>5. CASE f \in Pts(mem)
        BY <4>2, <4>5, ChildOf DEF Pts
      <4> QED BY <4>1, <4>3, <4>4, <4>5
    <3>3. PICK t \in Inner(mem), i \in Index : Leads(mem, t, i, f)
      BY <3>2
    <3>4. <<t, i>> \in links /\ mem[<<t, i>>[1]][<<t, i>>[2]].frame = f
      BY <2>2, <3>3 DEF LinksOf, Leads
    <3>5. ASSUME NEW x \in links, mem[x[1]][x[2]].frame = f  PROVE x = <<t, i>>
      <4>1. x[1] \in Inner(mem) /\ x[2] \in Index /\ x = <<x[1], x[2]>>
        BY <2>2 DEF LinksOf
      <4>2. Leads(mem, x[1], x[2], f)
        BY <2>2, <3>5 DEF LinksOf, Leads
      <4>3. x[1] = t /\ x[2] = i
        BY <2>1, <3>1, <3>3, <4>1, <4>2 DEF Good, Unique
      <4> QED BY <4>1, <4>3
    <3>6. {x \in links : mem[x[1]][x[2]].frame = f} = {<<t, i>>}
      BY <3>4, <3>5
    <3> QED BY <3>6, FS_Singleton
  <2>5. ASSUME NEW x \in L[4] \X Index, mem[x[1]][x[2]].present
        PROVE  mem[x[1]][x[2]].frame \notin Tables
    <3>1. x[1] \in Pts(mem) /\ x[2] \in Index
      BY <2>2
    <3>2. mem[x[1]][x[2]].frame \in DevicePages \cup data
      BY <2>1, <2>5, <3>1 DEF Good, Entered
    <3>3. ASSUME NEW t \in Tables  PROVE t \in Frames /\ t \notin data
      <4>1. \E k \in 1 .. 4 : t \in Level(mem, k)
        <5>1. 1 \in 1 .. 4 /\ 2 \in 1 .. 4 /\ 3 \in 1 .. 4 /\ 4 \in 1 .. 4
          OBVIOUS
        <5> QED BY <2>2, <5>1, Levels4 DEF Inner
      <4> QED BY <2>1, <4>1, TableFrames
    <3> QED BY <3>2, <3>3, BootTables
  <2> QED BY <2>3, <2>4, <2>5 DEF TablesFormTree, L, links
<1> QED BY <1>1, TreeInvariant, PTL

\* No frame the boot left free is ever lost or in two places, also when a mapping
\* fails half way (src/mem/vmm.c:73).
THEOREM Accounted == ASSUME Clean(MapVAs)  PROVE Spec => []FramesAccounted
<1>1. IInv => FramesAccounted
  <2> SUFFICES ASSUME IInv  PROVE FramesAccounted
    OBVIOUS
  <2>1. Good(mem, pool, data)
    BY DEF IInv
  <2>2. ASSUME NEW t \in Tables  PROVE t \notin pool /\ t \notin data
    <3>1. \E k \in 1 .. 4 : t \in Level(mem, k)
      <4>1. 1 \in 1 .. 4 /\ 2 \in 1 .. 4 /\ 3 \in 1 .. 4 /\ 4 \in 1 .. 4
        OBVIOUS
      <4> QED BY <4>1, SameLevels, Levels4
    <3> QED BY <2>1, <3>1, TableFrames
  <2>3. \A f \in BootFree : f \in pool \/ f \in data \/ f \in Tables
    BY <2>1, SameLevels DEF Good, Reached
  <2>4. pool \subseteq BootFree /\ data \subseteq BootFree /\ pool \cap data = {}
    BY <2>1 DEF Good, Types
  <2> QED BY <2>2, <2>3, <2>4 DEF FramesAccounted
<1> QED BY <1>1, TreeInvariant, PTL

----------------------------------------------------------------------------
(* Refinement, for callers' addresses that do not go through the shared PDPT *)

\* One path leads to an entry of a callers' page table.
LEMMA OnePath ==
  ASSUME NEW m, NEW p, NEW d, Good(m, p, d), NEW va \in VAs, va[1] \notin {0, N \div 2},
         HasPt(m, va), ~E2(m, va).ps,
         NEW v \in VAs, HasPt(m, v), ~E2(m, v).ps,
         PtOf(m, v) = PtOf(m, va), v[4] = va[4]
  PROVE  v = va
<1>1. /\ va[1] \in Index /\ va[2] \in Index /\ va[3] \in Index /\ va[4] \in Index
      /\ v[1] \in Index /\ v[2] \in Index /\ v[3] \in Index /\ v[4] \in Index
  BY Indexes
<1>2. /\ E4(m, va).present /\ E3(m, va).present /\ E2(m, va).present
      /\ E4(m, v).present /\ E3(m, v).present /\ E2(m, v).present
      /\ E2(m, v).frame = E2(m, va).frame
  BY ByEntries
<1>3. /\ E4(m, va).frame \in Pdpts(m) /\ E3(m, va).frame \in Pds(m) /\ E2(m, va).frame \in Pts(m)
      /\ Leads(m, pml4_phys, va[1], E4(m, va).frame)
      /\ Leads(m, E4(m, va).frame, va[2], E3(m, va).frame)
      /\ Leads(m, E3(m, va).frame, va[3], E2(m, va).frame)
  BY <1>2, Walk
<1>4. /\ E4(m, v).frame \in Pdpts(m) /\ E3(m, v).frame \in Pds(m)
      /\ Leads(m, pml4_phys, v[1], E4(m, v).frame)
      /\ Leads(m, E4(m, v).frame, v[2], E3(m, v).frame)
      /\ Leads(m, E3(m, v).frame, v[3], E2(m, va).frame)
  BY <1>2, Walk
<1>5. /\ E2(m, va).frame # pdpt_low /\ E3(m, va).frame # pdpt_low
      /\ E4(m, va).frame # pdpt_low
  <2>1. E2(m, va).frame # pdpt_low /\ E3(m, va).frame # pdpt_low
    BY <1>3 DEF Good, Shared
  <2>2. E4(m, va).frame # pdpt_low
    BY <1>1, <1>3 DEF Good, Shared, Leads
  <2> QED BY <2>1, <2>2
<1>6. pml4_phys \in Inner(m) /\ Pdpts(m) \subseteq Inner(m) /\ Pds(m) \subseteq Inner(m)
  BY DEF Inner
<1>7. E3(m, v).frame = E3(m, va).frame /\ v[3] = va[3]
  BY <1>1, <1>3, <1>4, <1>5, <1>6 DEF Good, Unique
<1>8. E4(m, v).frame = E4(m, va).frame /\ v[2] = va[2]
  BY <1>1, <1>3, <1>4, <1>5, <1>6, <1>7 DEF Good, Unique
<1>9. v[1] = va[1]
  BY <1>1, <1>3, <1>4, <1>5, <1>6, <1>8 DEF Good, Unique
<1> QED BY <1>7, <1>8, <1>9 DEF VAs

\* Writing an entry changes the translation of its own address, and no other.
LEMMA WrittenTranslation ==
  ASSUME NEW m, NEW p, NEW d, Good(m, p, d), NEW va \in MapVAs, va[1] \notin {0, N \div 2},
         HasPt(m, va), NEW e \in Entry, NEW n, Written(m, n, va, e), NEW v \in VAs
  PROVE  Translate(n, v) = IF v = va THEN (IF e.present THEN e.frame ELSE 0) ELSE Translate(m, v)
<1>1. /\ n \in [Frames -> [Index -> Entry]]
      /\ \A u \in Inner(m) : n[u] = m[u]
      /\ n[PtOf(m, va)][va[4]] = e
      /\ \A u \in Frames : \A h \in Index : u # PtOf(m, va) \/ h # va[4] => n[u][h] = m[u][h]
  BY WrittenEntries
<1>2. /\ E4(n, v) = E4(m, v)
      /\ E4(m, v).present => E3(n, v) = E3(m, v)
      /\ E4(m, v).present /\ E3(m, v).present => E2(n, v) = E2(m, v)
  BY <1>1, SameInner
<1>3. va \in VAs /\ ~E2(m, va).ps
  BY VmmAssumption DEF Good, NoneLarge
<1>4. CASE ~E4(m, v).present \/ ~E3(m, v).present \/ ~E2(m, v).present \/ E2(m, v).ps
  <2>1. v # va
    BY <1>3, <1>4, ByEntries
  <2>2. E4(m, v).present => ~E3(m, v).present \/ ~E3(m, v).ps
    BY Walk
  <2>3. Translate(n, v) = Translate(m, v)
    <3>1. CASE ~E4(m, v).present
      BY <1>2, <3>1, ByEntries
    <3>2. CASE E4(m, v).present /\ ~E3(m, v).present
      BY <1>2, <3>2, ByEntries
    <3>3. CASE E4(m, v).present /\ E3(m, v).present
      BY <1>2, <1>4, <2>2, <3>3, ByEntries
    <3> QED BY <3>1, <3>2, <3>3
  <2> QED BY <2>1, <2>3
<1>5. CASE E4(m, v).present /\ E3(m, v).present /\ E2(m, v).present /\ ~E2(m, v).ps
  <2>1. HasPt(m, v) /\ PtOf(m, v) = E2(m, v).frame
    BY <1>5, ByEntries
  <2>2. /\ ~E3(m, v).ps /\ E2(m, v).frame \in Pts(m)
    BY <1>5, Walk
  <2>3. E2(m, v).frame \in Frames /\ v[4] \in Index
    <3>1. E2(m, v).frame \in Level(m, 4) /\ 4 \in 1 .. 4
      BY <2>2, Levels4
    <3> QED BY <3>1, TableFrames, Indexes
  <2>4. /\ Translate(m, v) = IF E1(m, v).present THEN E1(m, v).frame ELSE 0
        /\ Translate(n, v) = IF E1(n, v).present THEN E1(n, v).frame ELSE 0
    BY <1>2, <1>5, <2>2, ByEntries
  <2>5. E1(n, v) = n[E2(m, v).frame][v[4]] /\ E1(m, v) = m[E2(m, v).frame][v[4]]
    BY <1>2, <1>5 DEF E1
  <2>6. CASE v = va
    BY <1>1, <2>1, <2>4, <2>5, <2>6
  <2>7. CASE v # va
    <3>1. PtOf(m, v) # PtOf(m, va) \/ v[4] # va[4]
      BY <1>3, <1>5, <2>1, <2>7, OnePath
    <3>2. E1(n, v) = E1(m, v)
      BY <1>1, <2>1, <2>3, <2>5, <3>1
    <3> QED BY <2>4, <2>7, <3>2
  <2> QED BY <2>6, <2>7
<1> QED BY <1>4, <1>5

\* A translation is a number, 0 when there is none.
LEMMA TranslationType ==
  ASSUME NEW m, NEW p, NEW d, Good(m, p, d), NEW va \in VAs
  PROVE  Translate(m, va) \in Nat
<1>1. \A x \in Entry : x.frame \in Nat
  BY DEF Entry
<1>2. /\ E4(m, va) \in Entry
      /\ E4(m, va).present =>
           /\ E3(m, va) \in Entry
           /\ E3(m, va).present =>
                /\ ~E3(m, va).ps /\ E2(m, va) \in Entry
                /\ E2(m, va).present /\ ~E2(m, va).ps => E1(m, va) \in Entry
  BY Walk
<1>3. va[4] \in Nat
  BY Indexes DEF Index
<1> QED BY <1>1, <1>2, <1>3, ByEntries

\* The space that Abstract is instantiated with.
space == [va \in VAs |-> Translate(mem, va)]

\* Every behaviour of the page tables, seen through their translations, is one of
\* AddressSpace: an operation that reports success changes one address, any other
\* none (src/mem/vmm.c:22).
THEOREM Refinement ==
  ASSUME Clean(MapVAs), OwnRoots(MapVAs)
  PROVE  Spec => ImplementsAddressSpace
<1>1. Init => Abstract!Init
  <2> SUFFICES ASSUME Init  PROVE Abstract!Init
    OBVIOUS
  <2>1. Good(mem, pool, data)
    BY InitHolds DEF IInv
  <2>2. \A va \in VAs : Translate(mem, va) \in Nat
    BY <2>1, TranslationType
  <2> QED BY <2>2 DEF Abstract!Init, Init
<1>2. IInv /\ [Next]_vars => [Abstract!Next]_(Abstract!vars)
  <2> SUFFICES ASSUME IInv, [Next]_vars
               PROVE  Abstract!Next \/ UNCHANGED Abstract!vars
    OBVIOUS
  <2>a. Good(mem, pool, data)
    BY DEF IInv
  <2>b. \A va \in MapVAs : va \in VAs /\ va[1] \notin {0, N \div 2}
    BY VmmAssumption DEF OwnRoots
  <2>c. ASSUME NEW va \in MapVAs, NEW phys \in DevicePages \cup BootFree,
               NEW n, NEW q, NEW d, Good(n, q, d), Kept(mem, n), HasPt(n, va),
               Written(n, mem', va, Small(phys)), Report("map", va, phys, 0)
        PROVE  Abstract!Next
    <3>1. Small(phys) \in Entry /\ Small(phys).present /\ Small(phys).frame = phys
      BY VmmAssumption, Entries
    <3>2. \A v \in VAs : Translate(mem', v) = IF v = va THEN phys ELSE Translate(n, v)
      BY <2>b, <2>c, <3>1, WrittenTranslation
    <3>3. \A v \in VAs : Translate(n, v) = Translate(mem, v)
      BY <2>c DEF Kept
    <3>4. space' = [space EXCEPT ![va] = phys]
      BY <3>2, <3>3 DEF space
    <3>5. Abstract!Map(va, phys)
      BY <2>c, <3>4 DEF Abstract!Map, Abstract!Report, Report, space
    <3> QED BY <2>b, <3>5 DEF Abstract!Next
  <2>d. ASSUME NEW va \in MapVAs, NEW phys \in DevicePages \cup BootFree,
               Kept(mem, mem'), Report("map", va, phys, -1)
        PROVE  Abstract!Next
    <3>1. space' = space
      BY <2>d DEF Kept, space
    <3>2. Abstract!MapFails(va, phys)
      BY <2>d, <3>1 DEF Abstract!MapFails, Abstract!Report, Report, space
    <3> QED BY <2>b, <3>2 DEF Abstract!Next
  <2>1. ASSUME NEW va \in MapVAs, NEW phys \in DevicePages, vmm_map_page(va, phys)
        PROVE  Abstract!Next
    <3>1. PICK n, q, w, x : MapPageMade(mem, pool, data, va, phys, n, q, w, x)
      BY <2>a, MapPageStep
    <3>2. /\ Good(n, q, data) /\ Kept(mem, n) /\ MapOutcome(n, w, va, phys, x)
          /\ mem' = w /\ Report("map", va, phys, x)
      BY <2>1, <3>1 DEF MapPageMade, vmm_map_page, State
    <3>3. CASE x = -1 /\ w = n
      BY <2>d, <3>2, <3>3
    <3>4. CASE x = 0 /\ HasPt(n, va) /\ Written(n, w, va, Small(phys))
      BY <2>c, <3>2, <3>4
    <3> QED BY <3>2, <3>3, <3>4 DEF MapOutcome
  <2>2. ASSUME NEW va \in MapVAs, vmm_map_alloc_page(va)
        PROVE  Abstract!Next
    <3> DEFINE f == Min(pool)
    <3>1. PICK n, q :
            /\ f \in BootFree /\ Good(n, q, data \cup {f}) /\ Kept(mem, n)
            /\ \/ mem' = n /\ Report("map", va, f, -1)
               \/ /\ HasPt(n, va) /\ Written(n, mem', va, Small(f))
                  /\ Report("map", va, f, 0)
      BY <2>2, MapAllocStep
    <3> HIDE DEF f
    <3>2. CASE mem' = n /\ Report("map", va, f, -1)
      BY <2>d, <3>1, <3>2
    <3>3. CASE /\ HasPt(n, va) /\ Written(n, mem', va, Small(f))
               /\ Report("map", va, f, 0)
      BY <2>c, <3>1, <3>3
    <3> QED BY <3>1, <3>2, <3>3
  <2>3. ASSUME NEW va \in MapVAs, vmm_unmap_page(va)
        PROVE  Abstract!Next
    <3>1. HasPt(mem, va) /\ Written(mem, mem', va, Absent) /\ Report("unmap", va, 0, 0)
      BY <2>3, StepUnmap DEF vmm_unmap_page
    <3>2. Absent \in Entry /\ ~Absent.present
      BY Entries
    <3>3. \A v \in VAs : Translate(mem', v) = IF v = va THEN 0 ELSE Translate(mem, v)
      BY <2>a, <2>b, <3>1, <3>2, WrittenTranslation
    <3>4. space' = [space EXCEPT ![va] = 0]
      BY <3>3 DEF space
    <3>5. Abstract!Unmap(va)
      BY <3>1, <3>4 DEF Abstract!Unmap, Abstract!Unmapped, Abstract!Report, Report, space
    <3> QED BY <2>b, <3>5 DEF Abstract!Next
  <2>4. ASSUME NEW va \in MapVAs, vmm_unmap_page_fails(va)
        PROVE  Abstract!Next
    <3>1. ~HasPt(mem, va) /\ Report("unmap", va, 0, -1) /\ mem' = mem
      BY <2>4 DEF vmm_unmap_page_fails
    <3>2. Translate(mem, va) = 0
      BY <2>a, <2>b, <3>1, Walk, ByEntries
    <3>3. space' = space /\ space[va] = 0
      BY <2>b, <3>1, <3>2 DEF space
    <3>4. Abstract!UnmapFails(va)
      BY <3>1, <3>3 DEF Abstract!UnmapFails, Abstract!Unmapped, Abstract!Report, Report, space
    <3> QED BY <2>b, <3>4 DEF Abstract!Next
  <2>5. ASSUME NEW f \in data, pmm_free_frame(f)
        PROVE  UNCHANGED Abstract!vars
    <3>1. \A va \in VAs : Translate(mem', va) = Translate(mem, va)
      BY <2>5, StepFree
    <3>2. space' = space /\ last' = last
      BY <2>5, <3>1 DEF pmm_free_frame, space
    <3> QED BY <3>2 DEF Abstract!vars, space
  <2>6. ASSUME UNCHANGED vars  PROVE UNCHANGED Abstract!vars
    BY <2>6 DEF vars, Abstract!vars
  <2> QED BY <2>1, <2>2, <2>3, <2>4, <2>5, <2>6 DEF Next, vmm_map_alloc_page_no_frame
<1> QED BY <1>1, <1>2, TreeInvariant, PTL DEF Spec, ImplementsAddressSpace, Abstract!Spec
=============================================================================
