----------------------------- MODULE Vfs_proofs -----------------------------
(***************************************************************************)
(* The virtual file system, and under it the block layer and the registry  *)
(* of devices, for any number of slots, disks, mounts and descriptors, any *)
(* archive and fstab, and whatever reads and allocations fail.             *)
(*                                                                         *)
(* The loops of the code are recursive functions over the numbers of their *)
(* passes; LoopExists and LoopStays, by induction over a set of numbers,   *)
(* give what such a function computes.                                     *)
(***************************************************************************)
EXTENDS Vfs, FiniteSetTheorems, NaturalsInduction, WellFoundedInduction, TLAPS

----------------------------------------------------------------------------
(* Sets of naturals, and what a loop computes *)

\* A set of naturals that is not empty has a least element.
LEMMA LeastExists ==
  ASSUME NEW S \in SUBSET Nat, S # {}
  PROVE  \E x \in S : \A y \in S : x <= y
<1> DEFINE Less == {ss \in Nat \X Nat : ss[1] < ss[2]}
<1>1. IsWellFoundedOn(Less, Nat)
  BY NatLessThanWellFounded, Zenon DEF OpToRel
<1>2. PICK x \in S : \A y \in S : <<y, x>> \notin Less
  <2> HIDE DEF Less
  <2> QED BY <1>1, WFMin
<1>3. \A y \in S : x <= y
  <2> SUFFICES ASSUME NEW y \in S  PROVE x <= y
    OBVIOUS
  <2>1. <<y, x>> \in Nat \X Nat /\ <<y, x>> \notin Less
    BY <1>2
  <2>2. <<y, x>>[1] = y /\ <<y, x>>[2] = x
    OBVIOUS
  <2>3. ~ (y < x) /\ y \in Nat /\ x \in Nat
    BY <2>1, <2>2
  <2> QED BY <2>3
<1> QED BY <1>3

\* The first element of such a set.
LEMMA FirstOf ==
  ASSUME NEW S \in SUBSET Nat, S # {}
  PROVE  First(S) \in S /\ \A j \in S : First(S) <= j
  BY LeastExists DEF First

\* Induction up to a bound, over the set of numbers for which a fact holds.
LEMMA UpToBound ==
  ASSUME NEW n \in Nat, NEW True, 0 \in True, \A k \in 0 .. n - 1 : k \in True => k + 1 \in True
  PROVE  0 .. n \subseteq True
<1> DEFINE Bad == {k \in 0 .. n : k \notin True}
<1> SUFFICES ASSUME Bad # {}
             PROVE  FALSE
  OBVIOUS
<1>1. PICK k \in Bad : \A j \in Bad : k <= j
  <2>1. Bad \in SUBSET Nat
    OBVIOUS
  <2> HIDE DEF Bad
  <2> QED BY <2>1, LeastExists
<1>2. k # 0 /\ k - 1 \in 0 .. n - 1 /\ k - 1 \in 0 .. n
  OBVIOUS
<1>3. k - 1 \notin Bad
  BY <1>1, <1>2
<1>4. k - 1 \in True /\ (k - 1) + 1 = k
  BY <1>2, <1>3
<1> QED BY <1>1, <1>2, <1>4

\* g has what a loop over 1 .. n computes that begins with x0 and takes x to Step[k][x].
Computes(g, n, X, x0, Step) ==
  g \in [0 .. n -> X] /\ g[0] = x0 /\ \A k \in 1 .. n : g[k] = Step[k][g[k - 1]]

\* There is such a function.
LEMMA LoopExists ==
  ASSUME NEW n \in Nat, NEW X, NEW x0 \in X, NEW Step \in [1 .. n -> [X -> X]]
  PROVE  \E g : Computes(g, n, X, x0, Step)
<1> DEFINE Loop(m, g) == g[0] = x0 /\ \A k \in 1 .. m : g[k] = Step[k][g[k - 1]]
           Done == {m \in 0 .. n : \E g \in [0 .. n -> X] : Loop(m, g)}
<1>1. 0 \in Done
  <2> DEFINE g == [k \in 0 .. n |-> x0]
  <2>1. g \in [0 .. n -> X] /\ g[0] = x0 /\ 1 .. 0 = {} /\ 0 \in 0 .. n
    OBVIOUS
  <2> HIDE DEF g
  <2>2. Loop(0, g)
    BY <2>1
  <2> QED BY <2>1, <2>2
<1>2. ASSUME NEW m \in 0 .. n - 1, m \in Done
      PROVE  m + 1 \in Done
  <2>1. PICK g \in [0 .. n -> X] : Loop(m, g)
    BY <1>2
  <2> DEFINE h == [g EXCEPT ![m + 1] = Step[m + 1][g[m]]]
  <2>2. m + 1 \in 0 .. n /\ m \in 0 .. n /\ m + 1 \in 1 .. n /\ (m + 1) - 1 = m
    OBVIOUS
  <2>3. Step[m + 1][g[m]] \in X
    BY <2>2
  <2>4. h \in [0 .. n -> X] /\ h[m + 1] = Step[m + 1][g[m]] /\ \A k \in 0 .. n : k # m + 1 => h[k] = g[k]
    BY <2>2, <2>3
  <2> HIDE DEF h
  <2>5. h[0] = x0 /\ h[m] = g[m]
    BY <2>1, <2>2, <2>4
  <2>6. ASSUME NEW k \in 1 .. m + 1
        PROVE  h[k] = Step[k][h[k - 1]]
    <3>1. CASE k = m + 1
      BY <2>2, <2>4, <2>5, <3>1
    <3>2. CASE k # m + 1
      <4>1. k \in 1 .. m /\ k \in 0 .. n /\ k - 1 \in 0 .. n /\ k - 1 # m + 1
        BY <3>2
      <4> QED BY <2>1, <2>4, <4>1
    <3> QED BY <3>1, <3>2
  <2> QED BY <2>2, <2>4, <2>5, <2>6
<1>3. n \in Done
  <2> HIDE DEF Done
  <2>1. 0 .. n \subseteq Done
    BY <1>1, <1>2, UpToBound
  <2> QED BY <2>1
<1> QED BY <1>3 DEF Computes

\* What holds before a loop and is kept by each step holds after it.
LEMMA LoopStays ==
  ASSUME NEW n \in Nat, NEW X, NEW g, g[0] \in X, \A k \in 1 .. n : g[k - 1] \in X => g[k] \in X
  PROVE  g[n] \in X
<1> DEFINE True == {k \in 0 .. n : g[k] \in X}
<1>1. 0 \in True
  OBVIOUS
<1>2. ASSUME NEW k \in 0 .. n - 1, k \in True
      PROVE  k + 1 \in True
  <2>1. k + 1 \in 1 .. n /\ k + 1 \in 0 .. n /\ (k + 1) - 1 = k
    OBVIOUS
  <2> QED BY <1>2, <2>1
<1> HIDE DEF True
<1>3. 0 .. n \subseteq True
  BY <1>1, <1>2, UpToBound
<1> QED BY <1>3 DEF True

----------------------------------------------------------------------------
(* Slots and names. *)

\* The first slot of a non-empty set of slots is one of them.
LEMMA FirstProperty ==
  ASSUME NEW S \in SUBSET Slots, S # {}
  PROVE  First(S) \in S /\ \A j \in S : First(S) <= j
<1>1. S \in SUBSET Nat
  BY BlockAssumption DEF Slots
<1> QED BY <1>1, FirstOf

\* The names of disks and partitions are names, and none is the empty one.
LEMMA NameOfPair ==
  ASSUME NEW k \in Nat, NEW p \in 0 .. 4
  PROVE  /\ <<k, p>> \in Names
         /\ <<k, p>> # NoName
         /\ <<k, p>>[1] = k /\ <<k, p>>[2] = p
<1>1. Len(<<k, p>>) = 2 /\ Len(NoName) = 0
  BY DEF NoName
<1> QED BY <1>1 DEF Names

\* A name is empty or that pair.
LEMMA PairOfName ==
  ASSUME NEW n \in Names, n # NoName
  PROVE  n[1] \in Nat /\ n[2] \in 0 .. 4 /\ n = <<n[1], n[2]>>
BY DEF Names

\* The elements of a sequence.
LEMMA ElementOf ==
  ASSUME NEW S, NEW s \in Seq(S), NEW i \in 1 .. Len(s)
  PROVE  s[i] \in S /\ i \in Nat
OBVIOUS

\* The name of a disk is a name, with its number and no partition.
LEMMA DiskName ==
  ASSUME NEW k \in Nat
  PROVE  Disk(k) \in Names /\ Disk(k) # NoName /\ Disk(k)[1] = k /\ Disk(k)[2] = 0
<1>1. 0 \in 0 .. 4
  OBVIOUS
<1> QED BY <1>1, NameOfPair DEF Disk

\* The name of a partition is a name, with the numbers it is made of.
LEMMA PartitionName ==
  ASSUME NEW k \in Nat, NEW p \in 1 .. 4
  PROVE  /\ Partition(k, p) \in Names /\ Partition(k, p) # NoName
         /\ Partition(k, p)[1] = k /\ Partition(k, p)[2] = p
<1>1. p \in 0 .. 4
  OBVIOUS
<1> QED BY <1>1, NameOfPair DEF Partition

----------------------------------------------------------------------------
(* A table that is true of the disks found, with no partition of disk k    *)
(* past the p-th, and with that disk unless the table is full.             *)

GoodTable(t, found) ==
  /\ t \in [Slots -> Entry]
  /\ \A i \in Slots : t[i].name # NoName => NameTrue(t[i], found)
  /\ \A i, j \in Slots : t[i].name = t[j].name /\ i # j => t[i].name = NoName

UpTo(t, found, k, p) ==
  /\ GoodTable(t, found)
  /\ \A i \in Slots : t[i].name # NoName /\ t[i].name[1] = k => t[i].name[2] <= p
  /\ FreeSlots(t) = {} \/ \E i \in Slots : t[i].name = Disk(k)

Found == Seq([port : Nat, mbr : MBRs])

\* Putting a new, true entry in the first free slot keeps the table good.
LEMMA EntryAdded ==
  ASSUME NEW t, NEW found, NEW e \in Entry, GoodTable(t, found), FreeSlots(t) # {},
         e.name # NoName, NameTrue(e, found), \A i \in Slots : t[i].name # e.name
  PROVE  LET u == [t EXCEPT ![First(FreeSlots(t))] = e]
         IN  /\ GoodTable(u, found)
             /\ \A i \in Slots : u[i] = t[i] \/ u[i] = e
             /\ \A i \in Slots : t[i].name # NoName => u[i] = t[i]
             /\ \E i \in Slots : u[i] = e
<1> DEFINE f == First(FreeSlots(t))
           u == [t EXCEPT ![f] = e]
<1>1. f \in Slots /\ t[f].name = NoName
  BY FirstProperty DEF FreeSlots
<1>2. t \in [Slots -> Entry]
  BY DEF GoodTable
<1> HIDE DEF f
<1>3. u \in [Slots -> Entry] /\ \A i \in Slots : u[i] = IF i = f THEN e ELSE t[i]
  BY <1>1, <1>2
<1> HIDE DEF u
<1>4. \A i \in Slots : u[i].name # NoName => NameTrue(u[i], found)
  BY <1>3 DEF GoodTable
<1>5. \A i, j \in Slots : u[i].name = u[j].name /\ i # j => u[i].name = NoName
  BY <1>3 DEF GoodTable
<1>6. GoodTable(u, found)
  BY <1>3, <1>4, <1>5 DEF GoodTable
<1>7. /\ \A i \in Slots : u[i] = t[i] \/ u[i] = e
      /\ \A i \in Slots : t[i].name # NoName => u[i] = t[i]
      /\ \E i \in Slots : u[i] = e
  BY <1>1, <1>3
<1> QED BY <1>6, <1>7 DEF f, u

\* Registering disk k, of which the table knows nothing yet.
LEMMA DiskAdded ==
  ASSUME NEW t, NEW found \in Found, NEW k \in 1 .. Len(found),
         GoodTable(t, found),
         \A i \in Slots : t[i].name # NoName => t[i].name[1] # k
  PROVE  UpTo(block_register_disk(t, Disk(k), found[k].port), found, k, 0)
<1> DEFINE e == [name |-> Disk(k), port |-> found[k].port, start |-> 0,
                 is_partition |-> FALSE]
<1>1. found[k] \in [port : Nat, mbr : MBRs] /\ k \in Nat
  BY ElementOf DEF Found
<1>2. Disk(k) \in Names /\ Disk(k) # NoName /\ Disk(k)[1] = k /\ Disk(k)[2] = 0
  BY <1>1, DiskName
<1>3. CASE FreeSlots(t) = {}
  BY <1>3 DEF UpTo, block_register_disk
<1>4. CASE FreeSlots(t) # {}
  <2>1. e \in Entry /\ e.name # NoName /\ NameTrue(e, found)
    BY <1>1, <1>2 DEF Entry, NameTrue
  <2>2. \A i \in Slots : t[i].name # e.name
    BY <1>2
  <2> DEFINE u == [t EXCEPT ![First(FreeSlots(t))] = e]
  <2>3. /\ GoodTable(u, found)
        /\ \A i \in Slots : u[i] = t[i] \/ u[i] = e
        /\ \E i \in Slots : u[i] = e
    <3> HIDE DEF e
    <3> QED BY <1>4, <2>1, <2>2, EntryAdded
  <2>4. block_register_disk(t, Disk(k), found[k].port) = u
    BY <1>4 DEF block_register_disk
  <2>5. e.name = Disk(k)
    OBVIOUS
  <2> HIDE DEF u, e
  <2>6. \A i \in Slots : u[i].name # NoName /\ u[i].name[1] = k => u[i].name[2] <= 0
    BY <1>2, <2>3, <2>5
  <2> QED BY <2>3, <2>4, <2>5, <2>6 DEF UpTo
<1> QED BY <1>3, <1>4

\* Having no partition past p - 1 is having none past p.
LEMMA UpToNext ==
  ASSUME NEW t, NEW found, NEW k, NEW p \in 1 .. 4, UpTo(t, found, k, p - 1)
  PROVE  UpTo(t, found, k, p)
<1>1. SUFFICES ASSUME NEW i \in Slots, t[i].name # NoName, t[i].name[1] = k
               PROVE  t[i].name[2] <= p
  BY DEF UpTo
<1>2. t[i].name \in Names
  BY DEF UpTo, GoodTable, Entry
<1>3. t[i].name[2] \in 0 .. 4 /\ t[i].name[2] <= p - 1
  BY <1>1, <1>2, PairOfName DEF UpTo
<1> QED BY <1>3

\* Registering the p-th partition of disk k after those before it.
LEMMA PartitionAdded ==
  ASSUME NEW t, NEW found \in Found, NEW k \in 1 .. Len(found), NEW p \in 1 .. 4,
         UpTo(t, found, k, p - 1), found[k].mbr[p] # NoPartition
  PROVE  UpTo(block_register_partition(t, k, p, found[k].mbr[p]), found, k, p)
<1> DEFINE f == First(FreeSlots(t))
           e == [name |-> Partition(k, p), port |-> ParentPort(t, f, Disk(k)),
                 start |-> found[k].mbr[p], is_partition |-> TRUE]
<1>1. /\ found[k] \in [port : Nat, mbr : MBRs] /\ k \in Nat
      /\ found[k].mbr \in [1 .. 4 -> Nat \cup {NoPartition}]
  <2>1. found[k] \in [port : Nat, mbr : MBRs] /\ k \in Nat
    BY ElementOf DEF Found
  <2> QED BY <2>1, BlockAssumption
<1>2. /\ Partition(k, p) \in Names /\ Partition(k, p) # NoName
      /\ Partition(k, p)[1] = k /\ Partition(k, p)[2] = p
  BY <1>1, PartitionName
<1>3. Disk(k) # NoName /\ Disk(k)[1] = k /\ Disk(k)[2] = 0
  BY <1>1, DiskName
<1>4. CASE FreeSlots(t) = {}
  <2>1. block_register_partition(t, k, p, found[k].mbr[p]) = t
    BY <1>4 DEF block_register_partition
  <2> QED BY <2>1, UpToNext
<1>5. CASE FreeSlots(t) # {}
  <2>1. PICK d \in Slots : t[d].name = Disk(k)
    BY <1>5 DEF UpTo
  <2>2. \A q \in Slots : t[q].name = Disk(k) => q = d
    BY <2>1, <1>3 DEF UpTo, GoodTable
  <2>3. ParentPort(t, f, Disk(k)) = t[d].port
    <3> DEFINE parents == {q \in Slots : t[q].name = Disk(k)}
    <3>1. parents = {d}
      BY <2>1, <2>2
    <3>2. (CHOOSE q \in parents : \A r \in parents : r <= q) = d
      <4>1. d \in Nat
        BY DEF Slots, BlockAssumption
      <4> HIDE DEF parents
      <4> QED BY <3>1, <4>1
    <3> QED BY <3>1, <3>2 DEF ParentPort
  <2>4. t[d].port = found[k].port
    BY <2>1, <1>3 DEF UpTo, GoodTable, NameTrue
  <2>5. e \in Entry /\ e.name # NoName /\ e.name = Partition(k, p)
    BY <1>1, <1>2, <2>3, <2>4 DEF Entry
  <2>6. NameTrue(e, found)
    BY <1>2, <2>3, <2>4 DEF NameTrue
  <2>7. \A i \in Slots : t[i].name # e.name
    BY <1>2, <2>5 DEF UpTo
  <2> DEFINE u == [t EXCEPT ![f] = e]
  <2>8. /\ GoodTable(u, found)
        /\ \A i \in Slots : u[i] = t[i] \/ u[i] = e
        /\ \A i \in Slots : t[i].name # NoName => u[i] = t[i]
    <3>1. GoodTable(t, found)
      BY DEF UpTo
    <3> HIDE DEF e
    <3> QED BY <1>5, <2>5, <2>6, <2>7, <3>1, EntryAdded
  <2>9. block_register_partition(t, k, p, found[k].mbr[p]) = u
    BY <1>5 DEF block_register_partition
  <2> HIDE DEF u, e, f
  <2>10. \A i \in Slots : u[i].name # NoName /\ u[i].name[1] = k => u[i].name[2] <= p
    <3>1. SUFFICES ASSUME NEW i \in Slots, u[i].name # NoName, u[i].name[1] = k
                   PROVE  u[i].name[2] <= p
      OBVIOUS
    <3>2. CASE u[i] = e
      BY <3>2, <1>2, <2>5
    <3>3. CASE u[i] = t[i]
      <4>1. t[i].name \in Names
        BY DEF UpTo, GoodTable, Entry
      <4>2. t[i].name[2] \in 0 .. 4 /\ t[i].name[2] <= p - 1
        BY <3>1, <3>3, <4>1, PairOfName DEF UpTo
      <4> QED BY <3>3, <4>2
    <3> QED BY <2>8, <3>2, <3>3
  <2>11. \E i \in Slots : u[i].name = Disk(k)
    BY <1>3, <2>1, <2>8
  <2> QED BY <2>8, <2>9, <2>10, <2>11 DEF UpTo
<1> QED BY <1>4, <1>5

\* Names registered are blocks taken from the heap, which is not overdrawn.
Counted(r, u) ==
  room \in Nat /\ r.heap <= room
    => u.heap <= room /\ r.heap <= u.heap /\ u.heap = r.heap + (Len(u.devs) - Len(r.devs))

Registry == [blocks : [Slots -> Entry], devs : Seq(Names), heap : Nat]

\* Registering a node touches no block device, whether it succeeds or not.
LEMMA NodeAdded ==
  ASSUME NEW r \in Registry, NEW n \in Names
  PROVE  /\ dev_register(r, n) \in Registry /\ dev_register(r, n).blocks = r.blocks
         /\ Counted(r, dev_register(r, n))
<1> DEFINE u == dev_register(r, n)
<1>1. /\ Append(r.devs, n) \in Seq(Names) /\ r.heap + 1 \in Nat
      /\ Len(Append(r.devs, n)) = Len(r.devs) + 1 /\ Len(r.devs) \in Nat /\ r.heap \in Nat
  BY DEF Registry
<1>2. CASE u = r
  BY <1>1, <1>2 DEF Counted
<1>3. CASE u # r
  <2>1. r.heap < room /\ u = [r EXCEPT !.devs = Append(@, n), !.heap = @ + 1]
    BY <1>3 DEF dev_register
  <2> HIDE DEF u
  <2>2. u = [blocks |-> r.blocks, devs |-> Append(r.devs, n), heap |-> r.heap + 1]
    BY <2>1 DEF Registry
  <2>3. u \in Registry /\ u.blocks = r.blocks
    BY <1>1, <2>2 DEF Registry
  <2>4. u.heap = r.heap + 1 /\ Len(u.devs) = Len(r.devs) + 1
    BY <1>1, <2>2
  <2>5. Counted(r, u)
    BY <1>1, <2>1, <2>4 DEF Counted
  <2> QED BY <2>3, <2>5 DEF u
<1> QED BY <1>2, <1>3

\* Two registrations after each other count their blocks like one.
LEMMA CountedTwice ==
  ASSUME NEW r \in Registry, NEW u \in Registry, NEW v \in Registry, Counted(r, u), Counted(u, v)
  PROVE  Counted(r, v)
<1>1. /\ Len(r.devs) \in Nat /\ r.heap \in Nat /\ Len(u.devs) \in Nat /\ u.heap \in Nat
      /\ Len(v.devs) \in Nat /\ v.heap \in Nat
  BY DEF Registry
<1> DEFINE a == r.heap
           b == u.heap
           c == v.heap
           l == Len(r.devs)
           m == Len(u.devs)
           n == Len(v.devs)
<1>2. SUFFICES ASSUME room \in Nat, a <= room
               PROVE  c <= room /\ a <= c /\ c = a + (n - l)
  BY DEF Counted
<1>3. b <= room /\ a <= b /\ b = a + (m - l)
  BY <1>2 DEF Counted
<1>4. c <= room /\ b <= c /\ c = b + (n - m)
  BY <1>2, <1>3 DEF Counted
<1>5. a \in Nat /\ b \in Nat /\ c \in Nat /\ l \in Nat /\ m \in Nat /\ n \in Nat
  BY <1>1
<1> HIDE DEF a, b, c, l, m, n
<1> QED BY <1>3, <1>4, <1>5

\* One entry of a partition table, empty or not.
LEMMA EntryRegistered ==
  ASSUME NEW r \in Registry, NEW found \in Found, NEW k \in 1 .. Len(found),
         NEW p \in 1 .. 4, UpTo(r.blocks, found, k, p - 1)
  PROVE  LET u == AddPartition(r, k, found[k].mbr, p)
         IN  u \in Registry /\ UpTo(u.blocks, found, k, p) /\ Counted(r, u)
<1> DEFINE mbr == found[k].mbr
           u == AddPartition(r, k, mbr, p)
           b == block_register_partition(r.blocks, k, p, mbr[p])
           q == [r EXCEPT !.blocks = b]
<1>1. CASE mbr[p] = NoPartition
  <2>1. Len(r.devs) \in Nat /\ r.heap \in Nat
    BY DEF Registry
  <2>2. Counted(r, r)
    BY <2>1 DEF Counted
  <2>3. u = r
    BY <1>1 DEF AddPartition
  <2> QED BY <2>2, <2>3, UpToNext
<1>2. CASE mbr[p] # NoPartition
  <2>1. UpTo(b, found, k, p)
    BY <1>2, PartitionAdded
  <2>2. q \in Registry /\ q.blocks = b /\ q.devs = r.devs /\ q.heap = r.heap
    <3>1. b \in [Slots -> Entry]
      BY <2>1 DEF UpTo, GoodTable
    <3> HIDE DEF b
    <3> QED BY <3>1 DEF Registry
  <2>3. Partition(k, p) \in Names
    BY ElementOf, PartitionName DEF Found
  <2>4. u = dev_register(q, Partition(k, p))
    BY <1>2 DEF AddPartition
  <2> HIDE DEF u, q, b
  <2>5. u \in Registry /\ u.blocks = b /\ Counted(q, u)
    BY <2>2, <2>3, <2>4, NodeAdded
  <2>6. Counted(r, u)
    BY <2>2, <2>5 DEF Counted
  <2> QED BY <2>1, <2>5, <2>6 DEF u
<1> QED BY <1>1, <1>2

\* All four entries.
LEMMA TableRegistered ==
  ASSUME NEW r \in Registry, NEW found \in Found, NEW k \in 1 .. Len(found),
         UpTo(r.blocks, found, k, 0)
  PROVE  LET u == AddPartitions(r, k, found[k].mbr)
         IN  u \in Registry /\ GoodTable(u.blocks, found) /\ Counted(r, u)
<1> DEFINE mbr == found[k].mbr
           r1 == AddPartition(r, k, mbr, 1)
           r2 == AddPartition(r1, k, mbr, 2)
           r3 == AddPartition(r2, k, mbr, 3)
           r4 == AddPartition(r3, k, mbr, 4)
<1>0. /\ 1 \in 1 .. 4 /\ 2 \in 1 .. 4 /\ 3 \in 1 .. 4 /\ 4 \in 1 .. 4
      /\ 1 - 1 = 0 /\ 2 - 1 = 1 /\ 3 - 1 = 2 /\ 4 - 1 = 3
  OBVIOUS
<1>1. r1 \in Registry /\ UpTo(r1.blocks, found, k, 1) /\ Counted(r, r1)
  BY <1>0, EntryRegistered
<1> HIDE DEF r1
<1>2. r2 \in Registry /\ UpTo(r2.blocks, found, k, 2) /\ Counted(r1, r2)
  BY <1>0, <1>1, EntryRegistered
<1> HIDE DEF r2
<1>3. r3 \in Registry /\ UpTo(r3.blocks, found, k, 3) /\ Counted(r2, r3)
  BY <1>0, <1>2, EntryRegistered
<1> HIDE DEF r3
<1>4. r4 \in Registry /\ UpTo(r4.blocks, found, k, 4) /\ Counted(r3, r4)
  BY <1>0, <1>3, EntryRegistered
<1>5. r4 = AddPartitions(r, k, mbr)
  BY DEF r1, r2, r3, AddPartitions
<1> HIDE DEF r4
<1>6. Counted(r, r2)
  BY <1>1, <1>2, CountedTwice
<1>7. Counted(r, r3)
  BY <1>1, <1>2, <1>3, <1>6, CountedTwice
<1>8. Counted(r, r4)
  BY <1>1, <1>3, <1>4, <1>7, CountedTwice
<1> QED BY <1>4, <1>5, <1>8 DEF UpTo

----------------------------------------------------------------------------
(* The invariant. *)

\* What was true of the disks found so far is true when one more is found.
LEMMA TableStaysGood ==
  ASSUME NEW t, NEW found \in Found, NEW d \in [port : Nat, mbr : MBRs],
         GoodTable(t, found)
  PROVE  /\ GoodTable(t, Append(found, d))
         /\ \A i \in Slots : t[i].name # NoName => t[i].name[1] # Len(found) + 1
<1>1. /\ Append(found, d) \in Found /\ Len(Append(found, d)) = Len(found) + 1
      /\ Len(found) \in Nat
      /\ \A k \in 1 .. Len(found) : Append(found, d)[k] = found[k]
  BY DEF Found
<1>2. ASSUME NEW i \in Slots, t[i].name # NoName
      PROVE  NameTrue(t[i], Append(found, d)) /\ t[i].name[1] # Len(found) + 1
  <2>1. NameTrue(t[i], found)
    BY <1>2 DEF GoodTable
  <2>2. t[i].name[1] \in 1 .. Len(found)
    BY <2>1 DEF NameTrue
  <2> QED BY <1>1, <2>1, <2>2 DEF NameTrue
<1> QED BY <1>2 DEF GoodTable

\* A disk found with room in the table or without.
LEMMA FoundStep ==
  ASSUME BlockInv, NEW mbr \in MBRs, ahci_identify_port(mbr)
  PROVE  BlockInv' /\ Counted([heap |-> heap, devs |-> devs], [heap |-> heap', devs |-> devs'])
<1> DEFINE port == Ports[probed + 1]
           d == [port |-> port, mbr |-> mbr]
           found == Append(attached, d)
           k == DiskNumber
           r0 == [blocks |-> block_register_disk(blocks, Disk(k), port),
                  devs |-> devs, heap |-> heap]
           r == AddPartitions(r0, k, mbr)
<1>1. probed < Len(Ports) /\ probed + 1 \in 1 .. Len(Ports) /\ probed' = probed + 1
      /\ probed' \in 0 .. Len(Ports)
  BY BlockAssumption DEF BlockInv, BlockTypeOK, ahci_identify_port
<1>2. d \in [port : Nat, mbr : MBRs]
  BY <1>1, BlockAssumption, ElementOf
<1>3. attached \in Found /\ GoodTable(blocks, attached)
  BY DEF BlockInv, BlockTypeOK, DevicesTrue, NamesUnique, Found, GoodTable
<1>4. /\ found \in Found /\ k \in 1 .. Len(found) /\ found[k] = d
      /\ k = Len(attached) + 1
  BY <1>2, <1>3 DEF Found, DiskNumber
<1>5. /\ GoodTable(blocks, found)
      /\ \A i \in Slots : blocks[i].name # NoName => blocks[i].name[1] # k
  BY <1>2, <1>3, <1>4, TableStaysGood
<1>6. found[k].port = port /\ found[k].mbr = mbr
  BY <1>4
<1>7. blocks' = r.blocks /\ devs' = r.devs /\ heap' = r.heap /\ attached' = found
      /\ room' = room
  BY DEF ahci_identify_port
<1> HIDE DEF found, k, d, port
<1>8. UpTo(r0.blocks, found, k, 0)
  BY <1>4, <1>5, <1>6, DiskAdded
<1>9. r0 \in Registry /\ r0.heap = heap /\ r0.devs = devs
  BY <1>8 DEF UpTo, GoodTable, Registry, BlockInv, BlockTypeOK
<1> HIDE DEF r0
<1>10. r \in Registry /\ GoodTable(r.blocks, found) /\ Counted(r0, r)
  BY <1>4, <1>6, <1>8, <1>9, TableRegistered
<1> HIDE DEF r
<1>11. BlockTypeOK'
  BY <1>1, <1>4, <1>7, <1>10 DEF BlockInv, BlockTypeOK, Registry, Found
<1>12. DevicesTrue' /\ NamesUnique'
  BY <1>7, <1>10 DEF DevicesTrue, NamesUnique, GoodTable
<1>13. Counted([heap |-> heap, devs |-> devs], [heap |-> heap', devs |-> devs'])
  BY <1>7, <1>9, <1>10 DEF Counted
<1> QED BY <1>11, <1>12, <1>13 DEF BlockInv

\* The block layer's table is an inductive invariant: the types, the truth of
\* every name and that names are unique.  The truth of a name alone would not
\* be inductive: that a partition copies the port of its own disk rests on the
\* uniqueness of that disk's name (src/block/block.c:55).
THEOREM TableInvariant == BlockSpec => []BlockInv
<1>1. BlockInit => BlockInv
  <2> SUFFICES ASSUME BlockInit PROVE BlockInv
    OBVIOUS
  <2>1. NoName \in Names
    BY DEF Names
  <2> QED BY <2>1, BlockAssumption
       DEF BlockInit, BlockInv, BlockTypeOK, DevicesTrue, NamesUnique, Entry
<1>2. BlockInv /\ [BlockNext]_bvars => BlockInv'
  <2> SUFFICES ASSUME BlockInv, [BlockNext]_bvars PROVE BlockInv'
    OBVIOUS
  <2>1. ASSUME NEW mbr \in MBRs, ahci_identify_port(mbr) PROVE BlockInv'
    BY <2>1, FoundStep
  <2>2. CASE ahci_identify_port_fails
    BY <2>2, BlockAssumption DEF ahci_identify_port_fails, BlockInv, BlockTypeOK,
       DevicesTrue, NamesUnique, NameTrue
  <2>3. CASE UNCHANGED bvars
    BY <2>3 DEF bvars, BlockInv, BlockTypeOK, DevicesTrue, NamesUnique, NameTrue
  <2> QED BY <2>1, <2>2, <2>3 DEF BlockNext
<1> QED BY <1>1, <1>2, PTL DEF BlockSpec

\* Every name in the table leads to the disk, and the part of it, that had the
\* name when the disk was found, however many disks fit (src/block/block.c:71).
THEOREM NamesLead == BlockSpec => []DevicesTrue
<1>1. BlockInv => DevicesTrue
  BY DEF BlockInv
<1> QED BY <1>1, TableInvariant, PTL

\* No two devices share a name (src/block/block.c:73 takes the first match).
THEOREM NamesDiffer == BlockSpec => []NamesUnique
<1>1. BlockInv => NamesUnique
  BY DEF BlockInv
<1> QED BY <1>1, TableInvariant, PTL

----------------------------------------------------------------------------
(* Mounts *)

\* What the search for a mount has come to at each slot.
LEMMA MountLoop ==
  ASSUME NEW s, NEW path
  PROVE  \E best : /\ best[0] = 0 /\ find_mount(s, path) = best[MAX_MOUNTS]
                   /\ \A k \in 1 .. MAX_MOUNTS : best[k] = Longer(s, path, best[k - 1], k)
<1> DEFINE X == {0} \cup {i \in MountSlots : s.mounts[i].ops # None}
           n == MAX_MOUNTS
           Step == [k \in 1 .. n |-> [x \in X |-> Longer(s, path, x, k)]]
           best == CHOOSE g : g = [i \in 0 .. n |-> IF i = 0 THEN 0 ELSE Longer(s, path, g[i - 1], i)]
<1>1. n \in Nat /\ 0 \in X
  BY VfsAssumption
<1>2. \A k \in 1 .. n : \A x \in X : Longer(s, path, x, k) \in X
  BY DEF Longer, MountSlots
<1>3. Step \in [1 .. n -> [X -> X]] /\ \A k \in 1 .. n : \A x \in X : Step[k][x] = Longer(s, path, x, k)
  BY <1>2
<1> HIDE DEF X, Step, n
<1>4. PICK g : Computes(g, n, X, 0, Step)
  BY <1>1, <1>3, LoopExists
<1>5. g = [k \in 0 .. n |-> IF k = 0 THEN 0 ELSE Longer(s, path, g[k - 1], k)]
  <2>1. ASSUME NEW k \in 0 .. n
        PROVE  g[k] = IF k = 0 THEN 0 ELSE Longer(s, path, g[k - 1], k)
    <3>1. CASE k # 0
      <4>1. k \in 1 .. n /\ k - 1 \in 0 .. n
        BY <1>1, <3>1
      <4>2. g[k] = Step[k][g[k - 1]] /\ g[k - 1] \in X
        BY <1>4, <4>1 DEF Computes
      <4> QED BY <1>3, <3>1, <4>1, <4>2
    <3> QED BY <1>4, <3>1 DEF Computes
  <2> QED BY <1>4, <2>1 DEF Computes
<1>6. best = [i \in 0 .. n |-> IF i = 0 THEN 0 ELSE Longer(s, path, best[i - 1], i)]
  BY <1>5
<1> HIDE DEF best
<1>7. best[0] = 0
  BY <1>1, <1>6
<1>8. ASSUME NEW k \in 1 .. n
      PROVE  best[k] = Longer(s, path, best[k - 1], k)
  <2>1. k \in 0 .. n /\ k # 0
    BY <1>1
  <2> QED BY <1>6, <2>1
<1>9. find_mount(s, path) = best[n]
  BY DEF find_mount, best, n
<1> QED BY <1>7, <1>8, <1>9 DEF n

\* The search for a mount ends at 0 or at a slot in use.
LEMMA FoundMount ==
  ASSUME NEW s, NEW path
  PROVE  find_mount(s, path) = 0 \/ (find_mount(s, path) \in MountSlots /\ s.mounts[find_mount(s, path)].ops # None)
<1> DEFINE X == {0} \cup {i \in MountSlots : s.mounts[i].ops # None}
           n == MAX_MOUNTS
<1>1. n \in Nat /\ 0 \in X
  BY VfsAssumption
<1>2. \A k \in 1 .. n : \A x \in X : Longer(s, path, x, k) \in X
  BY DEF Longer, MountSlots
<1> HIDE DEF X, n
<1>3. PICK best : /\ best[0] = 0 /\ find_mount(s, path) = best[n]
                  /\ \A k \in 1 .. n : best[k] = Longer(s, path, best[k - 1], k)
  BY MountLoop DEF n
<1>4. best[n] \in X
  BY <1>1, <1>2, <1>3, LoopStays
<1> QED BY <1>3, <1>4 DEF X

----------------------------------------------------------------------------
(* Counting blocks *)

\* Owners that are finitely many have finitely many blocks.
LEMMA NumberedFinite ==
  ASSUME NEW I, IsFiniteSet(I), NEW n \in [I -> Nat]
  PROVE  IsFiniteSet(Numbered(n)) /\ Cardinality(Numbered(n)) \in Nat
<1> DEFINE Owned == {{i} \X (1 .. n[i]) : i \in I}
           f == [i \in I |-> {i} \X (1 .. n[i])]
<1>1. f \in Surjection(I, Owned)
  BY DEF Surjection
<1>2. IsFiniteSet(Owned)
  <2> HIDE DEF f, Owned
  <2> QED BY <1>1, FS_Surjection
<1>3. \A B \in Owned : IsFiniteSet(B)
  <2> SUFFICES ASSUME NEW i \in I
               PROVE  IsFiniteSet({i} \X (1 .. n[i]))
    OBVIOUS
  <2>1. n[i] \in Int /\ 1 \in Int
    OBVIOUS
  <2>2. IsFiniteSet({i})
    BY FS_Singleton
  <2>3. IsFiniteSet(1 .. n[i])
    BY <2>1, FS_Interval
  <2> QED BY <2>2, <2>3, FS_Product
<1>4. Numbered(n) = UNION Owned
  BY DEF Numbered
<1> HIDE DEF Owned
<1>5. IsFiniteSet(Numbered(n))
  BY <1>2, <1>3, <1>4, FS_UNION
<1> QED BY <1>5, FS_CardinalityType

\* One owner's blocks beside those of the others.
LEMMA NumberedSplit ==
  ASSUME NEW I, IsFiniteSet(I), NEW n \in [I -> Nat], NEW i \in I
  PROVE  /\ Cardinality(Numbered([j \in I \ {i} |-> n[j]])) \in Nat
         /\ Cardinality(Numbered(n)) = Cardinality(Numbered([j \in I \ {i} |-> n[j]])) + n[i]
<1> DEFINE others == [j \in I \ {i} |-> n[j]]
           A == Numbered(others)
           B == {i} \X (1 .. n[i])
<1>1. IsFiniteSet(I \ {i})
  BY FS_RemoveElement
<1>2. others \in [I \ {i} -> Nat]
  OBVIOUS
<1>3. Numbered(n) = A \cup B /\ A \cap B = {}
  BY DEF Numbered
<1>4. IsFiniteSet(A) /\ Cardinality(A) \in Nat
  <2> HIDE DEF others
  <2> QED BY <1>1, <1>2, NumberedFinite
<1>5. IsFiniteSet(B) /\ Cardinality(B) = n[i]
  <2>1. IsFiniteSet({i}) /\ Cardinality({i}) = 1
    BY FS_Singleton
  <2>2. n[i] \in Nat /\ n[i] \in Int /\ 1 \in Int /\ n[i] - 1 + 1 = n[i]
    OBVIOUS
  <2>3. IsFiniteSet(1 .. n[i]) /\ Cardinality(1 .. n[i]) = n[i]
    BY <2>2, FS_Interval
  <2>4. IsFiniteSet(B) /\ Cardinality(B) = Cardinality({i}) * Cardinality(1 .. n[i])
    BY <2>1, <2>3, FS_Product, Zenon
  <2>5. 1 * n[i] = n[i]
    BY <2>2
  <2> QED BY <2>1, <2>3, <2>4, <2>5
<1> HIDE DEF A, B
<1>6. Cardinality(A \cup B) = Cardinality(A) + Cardinality(B) - Cardinality({})
  BY <1>3, <1>4, <1>5, FS_Union
<1>7. Cardinality({}) = 0
  BY FS_EmptySet
<1> QED BY <1>3, <1>4, <1>5, <1>6, <1>7 DEF A

\* One owner's blocks become others.
LEMMA NumberedChanged ==
  ASSUME NEW I, IsFiniteSet(I), NEW n \in [I -> Nat], NEW i \in I, NEW k \in [I -> Nat],
         \A j \in I : j # i => k[j] = n[j]
  PROVE  Cardinality(Numbered(k)) = Cardinality(Numbered(n)) - n[i] + k[i]
<1>1. [j \in I \ {i} |-> k[j]] = [j \in I \ {i} |-> n[j]]
  OBVIOUS
<1>2. Cardinality(Numbered(k)) = Cardinality(Numbered([j \in I \ {i} |-> k[j]])) + k[i]
  BY NumberedSplit
<1>3. /\ Cardinality(Numbered(n)) = Cardinality(Numbered([j \in I \ {i} |-> n[j]])) + n[i]
      /\ Cardinality(Numbered([j \in I \ {i} |-> n[j]])) \in Nat
  BY NumberedSplit
<1>4. n[i] \in Nat /\ k[i] \in Nat
  OBVIOUS
<1> QED BY <1>1, <1>2, <1>3, <1>4

\* Owners without blocks.
LEMMA NumberedNone ==
  ASSUME NEW I, NEW n, DOMAIN n = I, \A i \in I : n[i] = 0
  PROVE  Cardinality(Numbered(n)) = 0
<1>1. Numbered(n) = {}
  BY DEF Numbered
<1> QED BY <1>1, FS_EmptySet

----------------------------------------------------------------------------
(* States *)

Texts == {Normalised(Archive[k].name) : k \in DOMAIN Archive}
Listing == Seq([name : Texts, data : DOMAIN Archive])

\* A list of the regular members up to the k-th, the last one first, under their
\* names; it has every one of them that is not before its last entry's.
AsArchived(l, k) ==
  /\ \A i \in DOMAIN l : /\ l[i].data <= k /\ Archive[l[i].data].regular
                        /\ l[i].name = Normalised(Archive[l[i].data].name)
  /\ \A i, j \in DOMAIN l : i < j => l[j].data < l[i].data
  /\ \A i \in DOMAIN l : \A j \in DOMAIN Archive :
       Archive[j].regular /\ l[i].data <= j /\ j <= k => \E e \in DOMAIN l : l[e].data = j

\* The devices that can be mounted, and what a device has that is.
MountedDevs == MountDevs \cup {FstabLines[k].dev : k \in DOMAIN FstabLines} \cup (Roots \ {NoRoot})

HasVolume(dev) == find_block(dev) # 0 /\ Area(dev) \in DOMAIN Volumes

FsTrue(x) ==
  \/ x = NoFs
  \/ \E l \in Listing : AsArchived(l, Len(Archive)) /\ x = [ops |-> "ustar", files |-> l]
  \/ \E dev \in MountedDevs : HasVolume(dev) /\ x = [ops |-> "ext2", dev |-> dev]

MountTrue(m) ==
  /\ DOMAIN m = {"point", "ops", "fs"} /\ Len(m.point) \in Nat
  /\ m.ops \in {None, "ustar", "ext2"} /\ m.fs \in 0 .. MAX_MOUNTS

IsHandle(h) == h = NoFile \/ (h.ops \in {"ustar", "ext2"} /\ h.fs \in MountSlots)

IsState(s) ==
  /\ s = [devs |-> s.devs, heap |-> s.heap, mounts |-> s.mounts, fss |-> s.fss, fds |-> s.fds,
          lost |-> s.lost]
  /\ s.devs \in Seq(Names) /\ s.heap \in Nat /\ s.lost \in Nat
  /\ DOMAIN s.mounts = MountSlots /\ \A i \in MountSlots : MountTrue(s.mounts[i])
  /\ DOMAIN s.fss = MountSlots /\ \A f \in MountSlots : FsTrue(s.fss[f])
  /\ DOMAIN s.fds = Fds /\ s.fds = [fd \in Fds |-> s.fds[fd]]
  /\ \A fd \in Fds : IsHandle(s.fds[fd])

FsSum(s) == Cardinality(Numbered([f \in MountSlots |-> FsBlocks(s.fss[f])]))
FdSum(s) == Cardinality(Numbered([fd \in Fds |-> HandleBlocks(s.fds[fd])]))

Accounted(s) == s.heap <= room /\ s.heap = Len(s.devs) + s.lost + FsSum(s) + FdSum(s)

InUse(s) == {i \in MountSlots : s.mounts[i].ops # None}

OwnMounts(s) ==
  /\ {f \in MountSlots : s.fss[f] # NoFs} = {s.mounts[i].fs : i \in InUse(s)}
  /\ \A i, j \in InUse(s) : i # j => s.mounts[i].fs # s.mounts[j].fs
  /\ \A i \in InUse(s) : s.fss[s.mounts[i].fs].ops = s.mounts[i].ops

Good(s) == IsState(s) /\ Accounted(s) /\ OwnMounts(s)

\* What a handle leads to is there.
HandleTrue(s, h) ==
  \/ h = NoFile
  \/ /\ h.ops \in {"ustar", "ext2"} /\ h.fs \in MountSlots /\ s.fss[h.fs].ops = h.ops
     /\ h.ops = "ustar" => h.file \in DOMAIN s.fss[h.fs].files

\* The tables of mounts and descriptors are finite.
LEMMA SlotsFinite ==
  IsFiniteSet(MountSlots) /\ Cardinality(MountSlots) = MAX_MOUNTS /\ IsFiniteSet(Fds)
<1>1. MAX_MOUNTS \in Nat /\ MAX_MOUNTS > 0 /\ MAX_FDS - 1 \in Int
  BY VfsAssumption
<1> QED BY <1>1, FS_Interval DEF MountSlots, Fds

\* A file system has a number of blocks.
LEMMA FsBlocksNat == ASSUME NEW x, FsTrue(x)  PROVE FsBlocks(x) \in Nat
  BY DEF FsTrue, FsBlocks, NoFs, None, Listing

\* A handle has a number of blocks.
LEMMA HandleBlocksNat == ASSUME NEW h, IsHandle(h)  PROVE HandleBlocks(h) \in Nat
  BY DEF IsHandle, HandleBlocks, NoFile, None

\* A state with n blocks more taken.
LEMMA TakenIs ==
  ASSUME NEW s, IsState(s), NEW n \in Nat
  PROVE  /\ Taken(s, n) = [devs |-> s.devs, heap |-> s.heap + n, mounts |-> s.mounts,
                           fss |-> s.fss, fds |-> s.fds, lost |-> s.lost]
         /\ IsState(Taken(s, n))
<1> DEFINE t == Taken(s, n)
<1>1. t = [devs |-> s.devs, heap |-> s.heap + n, mounts |-> s.mounts,
           fss |-> s.fss, fds |-> s.fds, lost |-> s.lost]
  BY DEF IsState, Taken
<1>2. s.heap + n \in Nat
  BY DEF IsState
<1> HIDE DEF t
<1>3. IsState(t)
  BY <1>1, <1>2 DEF IsState
<1> QED BY <1>1, <1>3 DEF t

\* A state with n blocks given back.
LEMMA FreedIs ==
  ASSUME NEW s, IsState(s), NEW n \in Nat, n <= s.heap
  PROVE  /\ Freed(s, n) = [devs |-> s.devs, heap |-> s.heap - n, mounts |-> s.mounts,
                           fss |-> s.fss, fds |-> s.fds, lost |-> s.lost]
         /\ IsState(Freed(s, n))
<1> DEFINE t == Freed(s, n)
<1>1. t = [devs |-> s.devs, heap |-> s.heap - n, mounts |-> s.mounts,
           fss |-> s.fss, fds |-> s.fds, lost |-> s.lost]
  BY DEF IsState, Freed
<1>2. s.heap - n \in Nat
  BY DEF IsState
<1> HIDE DEF t
<1>3. IsState(t)
  BY <1>1, <1>2 DEF IsState
<1> QED BY <1>1, <1>3 DEF t

\* What is taken and given back again.
LEMMA TakenFreed ==
  ASSUME NEW s, IsState(s), NEW n \in Nat
  PROVE  Freed(Taken(s, n), n) = s
<1> DEFINE t == Taken(s, n)
           f == Freed(t, n)
<1>1. /\ t = [devs |-> s.devs, heap |-> s.heap + n, mounts |-> s.mounts,
              fss |-> s.fss, fds |-> s.fds, lost |-> s.lost]
      /\ IsState(t)
  BY TakenIs
<1> HIDE DEF t
<1>2. t.heap = s.heap + n /\ n <= t.heap /\ t.heap - n = s.heap
  BY <1>1 DEF IsState
<1>3. f = [devs |-> t.devs, heap |-> t.heap - n, mounts |-> t.mounts,
           fss |-> t.fss, fds |-> t.fds, lost |-> t.lost]
  BY <1>1, <1>2, FreedIs
<1> HIDE DEF f
<1>4. f = s
  BY <1>1, <1>2, <1>3 DEF IsState
<1> QED BY <1>4 DEF t, f

----------------------------------------------------------------------------
(* Opening and closing *)

Fits(s) == IsState(s) /\ room \in Nat /\ s.heap <= room

\* An attempt to open a file takes the blocks of its handle and nothing else.
Opened(s, o) ==
  /\ IsHandle(o.r) /\ HandleTrue(s, o.r) /\ HandleBlocks(o.r) \in Nat
  /\ o.s = Taken(s, HandleBlocks(o.r)) /\ s.heap + HandleBlocks(o.r) <= room

\* To take nothing changes nothing.
LEMMA TakenNone ==
  ASSUME NEW s, IsState(s)
  PROVE  Taken(s, 0) = s
<1> DEFINE t == Taken(s, 0)
<1>1. t = [devs |-> s.devs, heap |-> s.heap + 0, mounts |-> s.mounts,
           fss |-> s.fss, fds |-> s.fds, lost |-> s.lost]
  BY TakenIs
<1>2. s.heap + 0 = s.heap
  BY DEF IsState
<1> HIDE DEF t
<1>3. t = s
  BY <1>1, <1>2 DEF IsState
<1> QED BY <1>3 DEF t

\* A block taken twice is two blocks taken.
LEMMA TakenTwice ==
  ASSUME NEW s, IsState(s)
  PROVE  Taken(Taken(s, 1), 1) = Taken(s, 2)
<1> DEFINE t == Taken(s, 1)
           u == Taken(t, 1)
           v == Taken(s, 2)
<1>1. /\ t = [devs |-> s.devs, heap |-> s.heap + 1, mounts |-> s.mounts,
              fss |-> s.fss, fds |-> s.fds, lost |-> s.lost]
      /\ IsState(t)
  BY TakenIs
<1>2. v = [devs |-> s.devs, heap |-> s.heap + 2, mounts |-> s.mounts,
           fss |-> s.fss, fds |-> s.fds, lost |-> s.lost]
  BY TakenIs
<1> HIDE DEF t, v
<1>3. u = [devs |-> t.devs, heap |-> t.heap + 1, mounts |-> t.mounts,
           fss |-> t.fss, fds |-> t.fds, lost |-> t.lost]
  BY <1>1, TakenIs
<1>4. t.heap + 1 = s.heap + 2
  BY <1>1 DEF IsState
<1> HIDE DEF u
<1>5. u = v
  BY <1>1, <1>2, <1>3, <1>4
<1> QED BY <1>5 DEF t, u, v

\* A failure that takes nothing is an attempt to open.
LEMMA NothingOpened ==
  ASSUME NEW s, Fits(s)
  PROVE  Opened(s, Result(s, NoFile))
<1>1. Taken(s, 0) = s
  BY TakenNone DEF Fits
<1>2. HandleBlocks(NoFile) = 0 /\ s.heap + 0 = s.heap
  BY DEF HandleBlocks, NoFile, None, Fits, IsState
<1> QED BY <1>1, <1>2 DEF Opened, Result, IsHandle, HandleTrue, Fits

\* A ustar file system is the list of its entries.
LEMMA UstarFiles ==
  ASSUME NEW x, FsTrue(x), x.ops = "ustar"
  PROVE  x.files \in Listing /\ AsArchived(x.files, Len(Archive)) /\ x = [ops |-> "ustar", files |-> x.files]
<1>1. ASSUME NEW dev, x = [ops |-> "ext2", dev |-> dev]
      PROVE  FALSE
  BY <1>1
<1>2. x # NoFs
  BY DEF NoFs, None
<1>3. PICK l \in Listing : AsArchived(l, Len(Archive)) /\ x = [ops |-> "ustar", files |-> l]
  BY <1>1, <1>2 DEF FsTrue
<1> QED BY <1>3

\* ustar_open takes one block, for a handle that leads to an entry.
LEMMA UstarOpened ==
  ASSUME NEW s, Fits(s), NEW f \in MountSlots, s.fss[f].ops = "ustar", NEW path
  PROVE  Opened(s, ustar_open(s, f, path))
<1> DEFINE files == s.fss[f].files
           i == Lookup(files, DropSlash(path))
           h == [ops |-> "ustar", fs |-> f, file |-> i]
<1>1. files \in Listing
  BY UstarFiles DEF Fits, IsState
<1>2. i = 0 \/ i \in DOMAIN files
  <2> DEFINE S == {j \in DOMAIN files : files[j].name = DropSlash(path)}
  <2>1. S \in SUBSET Nat
    BY <1>1 DEF Listing
  <2>2. S # {} => First(S) \in S
    <3> HIDE DEF S
    <3> QED BY <2>1, FirstOf
  <2>3. i = IF S = {} THEN 0 ELSE First(S)
    BY DEF Lookup
  <2> HIDE DEF i
  <2> QED BY <2>2, <2>3
<1>3. CASE i = 0 \/ ~HasRoom(s)
  BY <1>3, NothingOpened DEF ustar_open
<1>4. CASE ~(i = 0 \/ ~HasRoom(s))
  <2>1. ustar_open(s, f, path) = [s |-> Taken(s, 1), r |-> h]
    BY <1>4 DEF ustar_open, Result
  <2>2. h.ops = "ustar" /\ h.fs = f /\ h.file = i /\ h # NoFile
    BY DEF NoFile, None
  <2>3. i \in DOMAIN files
    BY <1>2, <1>4
  <2>4. s.heap + 1 <= room
    BY <1>4 DEF HasRoom, Fits, IsState
  <2> HIDE DEF h
  <2>5. HandleBlocks(h) = 1 /\ IsHandle(h) /\ HandleTrue(s, h)
    BY <2>2, <2>3 DEF HandleBlocks, IsHandle, HandleTrue
  <2> QED BY <2>1, <2>4, <2>5 DEF Opened
<1> QED BY <1>3, <1>4

\* ext2_open takes handle and context, or gives back what it took.
LEMMA Ext2Opened ==
  ASSUME NEW s, Fits(s), NEW f \in MountSlots, s.fss[f].ops = "ext2", NEW path, NEW fails
  PROVE  Opened(s, ext2_open(s, f, path, fails))
<1> DEFINE dev == s.fss[f].dev
           ino == Walk(Volumes[Area(dev)], DropSlash(path))
           h == [ops |-> "ext2", fs |-> f, file |-> ino]
           stops == ~Answers(dev, "walk", fails) \/ ino = 0 \/ ~HasRoom(s)
<1>1. ext2_open(s, f, path, fails) =
        IF stops THEN Result(s, NoFile)
        ELSE IF ~HasRoom(Taken(s, 1)) THEN Result(Freed(Taken(s, 1), 1), NoFile)
        ELSE Result(Taken(Taken(s, 1), 1), h)
  BY DEF ext2_open
<1>2. h.ops = "ext2" /\ h.fs = f /\ h # NoFile
  BY DEF NoFile, None
<1> HIDE DEF stops, h
<1>3. Freed(Taken(s, 1), 1) = s /\ Taken(Taken(s, 1), 1) = Taken(s, 2)
  BY TakenFreed, TakenTwice DEF Fits
<1>4. Taken(s, 1).heap = s.heap + 1
  BY TakenIs DEF Fits
<1>5. CASE stops \/ ~HasRoom(Taken(s, 1))
  BY <1>1, <1>3, <1>5, NothingOpened
<1>6. CASE ~stops /\ HasRoom(Taken(s, 1))
  <2>1. ext2_open(s, f, path, fails) = [s |-> Taken(s, 2), r |-> h]
    BY <1>1, <1>3, <1>6 DEF Result
  <2>2. s.heap + 2 <= room
    BY <1>4, <1>6 DEF HasRoom, Fits, IsState
  <2>3. HandleBlocks(h) = 2 /\ IsHandle(h) /\ HandleTrue(s, h)
    BY <1>2 DEF HandleBlocks, IsHandle, HandleTrue
  <2> QED BY <2>1, <2>2, <2>3 DEF Opened
<1> QED BY <1>5, <1>6

\* A mount in use has a file system of its kind.
LEMMA MountServes ==
  ASSUME NEW s, IsState(s), OwnMounts(s), NEW m \in MountSlots, s.mounts[m].ops # None
  PROVE  /\ s.mounts[m].fs \in MountSlots /\ s.fss[s.mounts[m].fs].ops = s.mounts[m].ops
         /\ s.mounts[m].ops \in {"ustar", "ext2"} /\ s.fss[s.mounts[m].fs] # NoFs
<1>1. m \in InUse(s)
  BY DEF InUse
<1>2. s.mounts[m].fs \in {f \in MountSlots : s.fss[f] # NoFs}
  BY <1>1 DEF OwnMounts
<1>3. s.mounts[m].ops \in {"ustar", "ext2"}
  BY DEF IsState, MountTrue
<1> QED BY <1>1, <1>2, <1>3 DEF OwnMounts

\* vfs_open does at whatever mount it finds what the mount's operation does.
LEMMA OpensOpened ==
  ASSUME NEW s, Fits(s), OwnMounts(s), NEW path, NEW fails
  PROVE  Opened(s, vfs_open(s, path, fails))
<1> DEFINE m == find_mount(s, path)
           f == s.mounts[m].fs
           rel == DropSlash(SubSeq(path, Len(s.mounts[m].point) + 1, Len(path)))
<1>1. vfs_open(s, path, fails) =
        IF m = 0 THEN Result(s, NoFile)
        ELSE IF s.mounts[m].ops = "ustar" THEN ustar_open(s, f, rel) ELSE ext2_open(s, f, rel, fails)
  BY DEF vfs_open, OpenAt
<1>2. m = 0 \/ (m \in MountSlots /\ s.mounts[m].ops # None)
  BY FoundMount
<1> HIDE DEF m, rel
<1>3. CASE m = 0
  BY <1>1, <1>3, NothingOpened
<1>4. CASE m # 0
  <2>1. f \in MountSlots /\ s.fss[f].ops = s.mounts[m].ops /\ s.mounts[m].ops \in {"ustar", "ext2"}
    BY <1>2, <1>4, MountServes DEF Fits
  <2> HIDE DEF f
  <2> QED BY <1>1, <1>4, <2>1, UstarOpened, Ext2Opened
<1> QED BY <1>3, <1>4

\* Closing what was opened gives everything back.
LEMMA ClosedAgain ==
  ASSUME NEW s, Fits(s), NEW o, Opened(s, o), o.r # NoFile
  PROVE  vfs_close(o.s, o.r) = s
<1>1. HandleBlocks(o.r) = IF o.r.ops = "ext2" THEN 2 ELSE 1
  BY DEF Opened, IsHandle, HandleBlocks
<1>2. Freed(Taken(s, HandleBlocks(o.r)), HandleBlocks(o.r)) = s
  BY TakenFreed DEF Opened, Fits
<1> QED BY <1>1, <1>2 DEF vfs_close, Opened

\* An open that fails leaves no trace.
LEMMA NotOpened ==
  ASSUME NEW s, Fits(s), NEW o, Opened(s, o), o.r = NoFile
  PROVE  o.s = s
<1>1. HandleBlocks(o.r) = 0
  BY DEF HandleBlocks, NoFile, None
<1> QED BY <1>1, TakenNone DEF Opened, Fits

\* What only looks leaves the state as it was.
LEMMA LooksKeep ==
  ASSUME NEW s, Fits(s), OwnMounts(s), NEW path, NEW fails
  PROVE  vfs_list_dir(s, path, fails) = s /\ vfs_read_all(s, path, fails).s = s
<1> DEFINE o == vfs_open(s, path, fails)
<1>1. Opened(s, o)
  BY OpensOpened
<1>2. vfs_list_dir(s, path, fails) = Listed(o) /\ vfs_read_all(s, path, fails) = ReadWhole(o, fails)
  BY DEF vfs_list_dir, vfs_read_all
<1> HIDE DEF o
<1>3. IsState(o.s)
  BY <1>1, TakenIs DEF Opened, Fits
<1>4. Freed(Taken(o.s, 1), 1) = o.s
  BY <1>3, TakenFreed
<1>5. CASE o.r = NoFile
  BY <1>1, <1>2, <1>5, NotOpened DEF Listed, ReadWhole, Result
<1>6. CASE o.r # NoFile
  <2>1. vfs_close(o.s, o.r) = s
    BY <1>1, <1>6, ClosedAgain
  <2>2. Listed(o) = s
    BY <1>4, <1>6, <2>1 DEF Listed
  <2>3. ReadWhole(o, fails).s = s
    BY <1>6, <2>1 DEF ReadWhole, Result
  <2> QED BY <1>2, <2>2, <2>3
<1> QED BY <1>5, <1>6

----------------------------------------------------------------------------
(* The heap and its owners *)

\* When one descriptor changes, so does the sum of blocks, by the difference.
LEMMA FdSumChanged ==
  ASSUME NEW s, IsState(s), NEW fd \in Fds, NEW h, IsHandle(h),
         NEW t, t.fds = [s.fds EXCEPT ![fd] = h]
  PROVE  /\ FdSum(s) \in Nat /\ FdSum(t) \in Nat
         /\ FdSum(t) = FdSum(s) - HandleBlocks(s.fds[fd]) + HandleBlocks(h)
         /\ HandleBlocks(s.fds[fd]) <= FdSum(s)
<1> DEFINE n == [e \in Fds |-> HandleBlocks(s.fds[e])]
           k == [e \in Fds |-> HandleBlocks(t.fds[e])]
<1>1. DOMAIN s.fds = Fds /\ (\A e \in Fds : IsHandle(s.fds[e])) /\ IsHandle(t.fds[fd]) /\ t.fds[fd] = h
  BY DEF IsState
<1>2. \A e \in Fds : IsHandle(t.fds[e]) /\ (e # fd => t.fds[e] = s.fds[e])
  BY <1>1
<1>3. n \in [Fds -> Nat] /\ k \in [Fds -> Nat] /\ HandleBlocks(h) \in Nat
  BY <1>1, <1>2, HandleBlocksNat
<1>4. k = [n EXCEPT ![fd] = HandleBlocks(h)]
  BY <1>1, <1>2
<1>5. FdSum(s) = Cardinality(Numbered(n)) /\ FdSum(t) = Cardinality(Numbered(k))
       /\ n[fd] = HandleBlocks(s.fds[fd])
  BY DEF FdSum
<1> HIDE DEF n, k
<1>6. Cardinality(Numbered(k)) = Cardinality(Numbered(n)) - n[fd] + HandleBlocks(h)
  <2>1. k[fd] = HandleBlocks(h) /\ \A j \in Fds : j # fd => k[j] = n[j]
    BY <1>3, <1>4
  <2>2. Cardinality(Numbered(k)) = Cardinality(Numbered(n)) - n[fd] + k[fd]
    BY <1>3, <2>1, NumberedChanged, SlotsFinite
  <2> QED BY <2>1, <2>2
<1>7. /\ Cardinality(Numbered([j \in Fds \ {fd} |-> n[j]])) \in Nat
      /\ Cardinality(Numbered(n)) = Cardinality(Numbered([j \in Fds \ {fd} |-> n[j]])) + n[fd]
  BY <1>3, NumberedSplit, SlotsFinite
<1>8. n[fd] \in Nat
  BY <1>3
<1> QED BY <1>3, <1>5, <1>6, <1>7, <1>8

\* When one file system changes, so does the sum of blocks, by the difference.
LEMMA FsSumChanged ==
  ASSUME NEW s, IsState(s), NEW f \in MountSlots, NEW x, FsTrue(x),
         NEW t, t.fss = [s.fss EXCEPT ![f] = x]
  PROVE  /\ FsSum(s) \in Nat /\ FsSum(t) \in Nat
         /\ FsSum(t) = FsSum(s) - FsBlocks(s.fss[f]) + FsBlocks(x)
         /\ FsBlocks(s.fss[f]) <= FsSum(s)
<1> DEFINE n == [e \in MountSlots |-> FsBlocks(s.fss[e])]
           k == [e \in MountSlots |-> FsBlocks(t.fss[e])]
<1>1. DOMAIN s.fss = MountSlots /\ (\A e \in MountSlots : FsTrue(s.fss[e])) /\ t.fss[f] = x
  BY DEF IsState
<1>2. \A e \in MountSlots : FsTrue(t.fss[e]) /\ (e # f => t.fss[e] = s.fss[e])
  BY <1>1
<1>3. n \in [MountSlots -> Nat] /\ k \in [MountSlots -> Nat] /\ FsBlocks(x) \in Nat
  BY <1>1, <1>2, FsBlocksNat
<1>4. k = [n EXCEPT ![f] = FsBlocks(x)]
  BY <1>1, <1>2
<1>5. FsSum(s) = Cardinality(Numbered(n)) /\ FsSum(t) = Cardinality(Numbered(k))
       /\ n[f] = FsBlocks(s.fss[f])
  BY DEF FsSum
<1> HIDE DEF n, k
<1>6. Cardinality(Numbered(k)) = Cardinality(Numbered(n)) - n[f] + FsBlocks(x)
  <2>1. k[f] = FsBlocks(x) /\ \A j \in MountSlots : j # f => k[j] = n[j]
    BY <1>3, <1>4
  <2>2. Cardinality(Numbered(k)) = Cardinality(Numbered(n)) - n[f] + k[f]
    BY <1>3, <2>1, NumberedChanged, SlotsFinite
  <2> QED BY <2>1, <2>2
<1>7. /\ Cardinality(Numbered([j \in MountSlots \ {f} |-> n[j]])) \in Nat
      /\ Cardinality(Numbered(n)) = Cardinality(Numbered([j \in MountSlots \ {f} |-> n[j]])) + n[f]
  BY <1>3, NumberedSplit, SlotsFinite
<1>8. n[f] \in Nat
  BY <1>3
<1> QED BY <1>3, <1>5, <1>6, <1>7, <1>8

\* Sums that are natural.
LEMMA SumsNat ==
  ASSUME NEW s, IsState(s)
  PROVE  FdSum(s) \in Nat /\ FsSum(s) \in Nat
<1>1. (\A fd \in Fds : HandleBlocks(s.fds[fd]) \in Nat) /\ \A f \in MountSlots : FsBlocks(s.fss[f]) \in Nat
  BY HandleBlocksNat, FsBlocksNat DEF IsState
<1>2. /\ [fd \in Fds |-> HandleBlocks(s.fds[fd])] \in [Fds -> Nat]
      /\ [f \in MountSlots |-> FsBlocks(s.fss[f])] \in [MountSlots -> Nat]
  BY <1>1
<1> QED BY <1>2, NumberedFinite, SlotsFinite DEF FdSum, FsSum

----------------------------------------------------------------------------
(* Descriptors *)

\* An open gives no descriptor and changes nothing, or fills a free one.
FdOpened(s, q) ==
  \/ q.r = -1 /\ q.s = s
  \/ \E h : /\ q.r \in FreeFds(s) /\ h # NoFile /\ IsHandle(h) /\ HandleTrue(s, h)
            /\ HandleBlocks(h) \in Nat /\ s.heap + HandleBlocks(h) <= room
            /\ q.s = [devs |-> s.devs, heap |-> s.heap + HandleBlocks(h), mounts |-> s.mounts,
                      fss |-> s.fss, fds |-> [s.fds EXCEPT ![q.r] = h], lost |-> s.lost]

\* vfs_fd_open gives a free descriptor a handle, or leaves no trace.
LEMMA FdOpens ==
  ASSUME NEW s, Fits(s), OwnMounts(s), NEW path, NEW fails
  PROVE  LET q == vfs_fd_open(s, path, fails)
             h == vfs_open(s, path, fails).r
         IN  FdOpened(s, q) /\ (q.r # -1 => h # NoFile /\ q.s.fds[q.r] = h)
<1> DEFINE o == vfs_open(s, path, fails)
           fd == First(FreeFds(o.s))
           q == vfs_fd_open(s, path, fails)
           n == HandleBlocks(o.r)
<1>1. Opened(s, o)
  BY OpensOpened
<1>2. q = IF o.r = NoFile THEN Result(o.s, -1)
          ELSE IF FreeFds(o.s) = {} THEN Result(vfs_close(o.s, o.r), -1)
          ELSE Result([o.s EXCEPT !.fds[fd] = o.r], fd)
  BY DEF vfs_fd_open, Installed
<1> HIDE DEF o, q
<1>3. n \in Nat /\ o.s = Taken(s, n) /\ s.heap + n <= room
  BY <1>1 DEF Opened
<1>4. o.s = [devs |-> s.devs, heap |-> s.heap + n, mounts |-> s.mounts,
             fss |-> s.fss, fds |-> s.fds, lost |-> s.lost]
  BY <1>3, TakenIs DEF Fits
<1>5. FreeFds(o.s) = FreeFds(s) /\ FreeFds(s) \in SUBSET Nat
  BY <1>4, VfsAssumption DEF FreeFds, Fds
<1>6. ASSUME o.r = NoFile
      PROVE  FdOpened(s, q) /\ (q.r # -1 => o.r # NoFile /\ q.s.fds[q.r] = o.r)
  <2>1. o.s = s
    BY <1>1, <1>6, NotOpened
  <2>2. q.r = -1 /\ q.s = s
    BY <1>2, <1>6, <2>1 DEF Result
  <2> QED BY <2>2 DEF FdOpened
<1>7. ASSUME o.r # NoFile /\ FreeFds(s) = {}
      PROVE  FdOpened(s, q) /\ (q.r # -1 => o.r # NoFile /\ q.s.fds[q.r] = o.r)
  <2>1. vfs_close(o.s, o.r) = s
    BY <1>1, <1>7, ClosedAgain
  <2>2. q.r = -1 /\ q.s = s
    BY <1>2, <1>5, <1>7, <2>1 DEF Result
  <2> QED BY <2>2 DEF FdOpened
<1>8. ASSUME o.r # NoFile /\ FreeFds(s) # {}
      PROVE  FdOpened(s, q) /\ (q.r # -1 => o.r # NoFile /\ q.s.fds[q.r] = o.r)
  <2>1. q = Result([o.s EXCEPT !.fds[fd] = o.r], fd)
    BY <1>2, <1>5, <1>8
  <2>2. fd \in FreeFds(s)
    BY <1>5, <1>8, FirstOf
  <2> HIDE DEF fd
  <2>3. [o.s EXCEPT !.fds[fd] = o.r] =
          [devs |-> s.devs, heap |-> s.heap + n, mounts |-> s.mounts,
           fss |-> s.fss, fds |-> [s.fds EXCEPT ![fd] = o.r], lost |-> s.lost]
    BY <1>4
  <2>4. q.r = fd /\ q.s = [devs |-> s.devs, heap |-> s.heap + n, mounts |-> s.mounts,
           fss |-> s.fss, fds |-> [s.fds EXCEPT ![fd] = o.r], lost |-> s.lost]
    BY <2>1, <2>3 DEF Result
  <2>5. IsHandle(o.r) /\ HandleTrue(s, o.r) /\ o.r # NoFile
    BY <1>1, <1>8 DEF Opened
  <2>6. q.r \in FreeFds(s)
        /\ q.s = [devs |-> s.devs, heap |-> s.heap + n, mounts |-> s.mounts,
                  fss |-> s.fss, fds |-> [s.fds EXCEPT ![q.r] = o.r], lost |-> s.lost]
    BY <2>2, <2>4
  <2>7. n \in Nat /\ s.heap + n <= room
    BY <1>3
  <2>8. q.s.fds[q.r] = o.r
    <3>1. q.r \in DOMAIN s.fds
      BY <2>6 DEF FreeFds, Fits, IsState
    <3>2. q.s.fds = [s.fds EXCEPT ![q.r] = o.r]
      BY <2>6
    <3> QED BY <3>1, <3>2
  <2> QED BY <2>5, <2>6, <2>7, <2>8 DEF FdOpened
<1> QED BY <1>6, <1>7, <1>8 DEF q, o

\* vfs_fd_close empties the descriptor and gives back the blocks of its handle.
LEMMA FdCloses ==
  ASSUME NEW s, IsState(s), NEW fd \in Fds, s.fds[fd] # NoFile, HandleBlocks(s.fds[fd]) <= s.heap
  PROVE  vfs_fd_close(s, fd) =
           [devs |-> s.devs, heap |-> s.heap - HandleBlocks(s.fds[fd]), mounts |-> s.mounts,
            fss |-> s.fss, fds |-> [s.fds EXCEPT ![fd] = NoFile], lost |-> s.lost]
<1> DEFINE n == HandleBlocks(s.fds[fd])
           t == Freed(s, n)
<1>1. IsHandle(s.fds[fd])
  BY DEF IsState
<1>2. n \in Nat
  BY <1>1, HandleBlocksNat
<1>3. n = IF s.fds[fd].ops = "ext2" THEN 2 ELSE 1
  BY <1>1 DEF IsHandle, HandleBlocks
<1>4. vfs_fd_close(s, fd) = [t EXCEPT !.fds[fd] = NoFile]
  BY <1>3 DEF vfs_fd_close, vfs_close
<1> HIDE DEF n
<1>5. t = [devs |-> s.devs, heap |-> s.heap - n, mounts |-> s.mounts,
           fss |-> s.fss, fds |-> s.fds, lost |-> s.lost]
  BY <1>2, FreedIs DEF n
<1> HIDE DEF t
<1>6. [t EXCEPT !.fds[fd] = NoFile] =
          [devs |-> s.devs, heap |-> s.heap - n, mounts |-> s.mounts,
           fss |-> s.fss, fds |-> [s.fds EXCEPT ![fd] = NoFile], lost |-> s.lost]
  BY <1>5
<1> QED BY <1>4, <1>6 DEF n

\* What an owner has more of the heap, the heap has less.
LEMMA Balance ==
  ASSUME NEW s, Good(s), NEW old \in Nat, NEW new \in Nat
  PROVE  /\ s.heap - old + new = Len(s.devs) + s.lost + FsSum(s) + (FdSum(s) - old + new)
         /\ s.heap - old + new = Len(s.devs) + s.lost + (FsSum(s) - old + new) + FdSum(s)
         /\ (old <= FdSum(s) => old <= s.heap) /\ (old <= FsSum(s) => old <= s.heap)
<1> DEFINE h == s.heap
           l == Len(s.devs)
           x == s.lost
           a == FsSum(s)
           b == FdSum(s)
<1>1. h \in Nat /\ l \in Nat /\ x \in Nat /\ a \in Nat /\ b \in Nat /\ h = l + x + a + b
  BY SumsNat DEF Good, IsState, Accounted
<1> HIDE DEF h, l, x, a, b
<1>2. /\ h - old + new = l + x + a + (b - old + new) /\ (old <= b => old <= h)
      /\ h - old + new = l + x + (a - old + new) + b /\ (old <= a => old <= h)
  BY <1>1
<1> QED BY <1>2 DEF h, l, x, a, b

\* A descriptor filled, or emptied, leaves a good state.
LEMMA FdGood ==
  ASSUME NEW s, Good(s), room \in Nat, NEW fd \in Fds, NEW h, IsHandle(h), NEW n \in Nat, n <= room,
         n = s.heap - HandleBlocks(s.fds[fd]) + HandleBlocks(h), NEW t,
         t = [devs |-> s.devs, heap |-> n, mounts |-> s.mounts,
              fss |-> s.fss, fds |-> [s.fds EXCEPT ![fd] = h], lost |-> s.lost]
  PROVE  Good(t)
<1>1. IsState(s) /\ Accounted(s) /\ OwnMounts(s)
  BY DEF Good
<1>2. t.devs = s.devs /\ t.heap = n /\ t.mounts = s.mounts /\ t.fss = s.fss
      /\ t.fds = [s.fds EXCEPT ![fd] = h] /\ t.lost = s.lost
  OBVIOUS
<1>3. t = [devs |-> t.devs, heap |-> t.heap, mounts |-> t.mounts, fss |-> t.fss, fds |-> t.fds,
           lost |-> t.lost]
  BY <1>2
<1>4. DOMAIN t.fds = Fds /\ t.fds = [e \in Fds |-> t.fds[e]] /\ \A e \in Fds : IsHandle(t.fds[e])
  <2>1. DOMAIN s.fds = Fds /\ \A e \in Fds : IsHandle(s.fds[e])
    BY <1>1 DEF IsState
  <2> QED BY <1>2, <2>1
<1>5. IsState(t)
  BY <1>1, <1>2, <1>3, <1>4 DEF IsState
<1>6. FsSum(t) = FsSum(s) /\ OwnMounts(t)
  BY <1>1, <1>2 DEF FsSum, OwnMounts, InUse
<1>7. FdSum(s) \in Nat /\ FsSum(s) \in Nat
       /\ FdSum(t) = FdSum(s) - HandleBlocks(s.fds[fd]) + HandleBlocks(h)
  BY <1>1, <1>2, FdSumChanged, SumsNat
<1>8. HandleBlocks(h) \in Nat /\ HandleBlocks(s.fds[fd]) \in Nat /\ Len(s.devs) \in Nat /\ s.lost \in Nat
       /\ s.heap \in Nat
  BY <1>1, HandleBlocksNat DEF IsState
<1>9. n = Len(s.devs) + s.lost + FsSum(s) + FdSum(t)
  <2>1. n = Len(s.devs) + s.lost + FsSum(s) + (FdSum(s) - HandleBlocks(s.fds[fd]) + HandleBlocks(h))
    BY <1>8, Balance
  <2> QED BY <1>7, <2>1
<1>10. Accounted(t)
  BY <1>2, <1>6, <1>9 DEF Accounted
<1> QED BY <1>5, <1>6, <1>10 DEF Good

\* Opening a descriptor keeps the heap accounted.
LEMMA FdOpenGood ==
  ASSUME NEW s, Good(s), room \in Nat, NEW q, FdOpened(s, q)
  PROVE  Good(q.s)
<1>1. CASE q.s = s
  BY <1>1
<1>2. ASSUME NEW h, q.r \in FreeFds(s), IsHandle(h),
             HandleBlocks(h) \in Nat, s.heap + HandleBlocks(h) <= room,
             q.s = [devs |-> s.devs, heap |-> s.heap + HandleBlocks(h), mounts |-> s.mounts,
                    fss |-> s.fss, fds |-> [s.fds EXCEPT ![q.r] = h], lost |-> s.lost]
      PROVE  Good(q.s)
  <2>1. q.r \in Fds /\ s.fds[q.r] = NoFile
    BY <1>2 DEF FreeFds
  <2>2. HandleBlocks(s.fds[q.r]) = 0 /\ s.heap \in Nat
    BY <2>1 DEF HandleBlocks, NoFile, None, Good, IsState
  <2>3. s.heap + HandleBlocks(h) \in Nat
        /\ s.heap + HandleBlocks(h) = s.heap - HandleBlocks(s.fds[q.r]) + HandleBlocks(h)
    BY <1>2, <2>2
  <2> QED BY <1>2, <2>1, <2>3, FdGood
<1> QED BY <1>1, <1>2 DEF FdOpened

\* Closing a descriptor keeps the heap accounted.
LEMMA FdCloseGood ==
  ASSUME NEW s, Good(s), room \in Nat, NEW fd \in Fds
  PROVE  /\ Good(vfs_fd_close(s, fd))
         /\ vfs_fd_close(s, fd).fds = [s.fds EXCEPT ![fd] = NoFile]
         /\ vfs_fd_close(s, fd).fss = s.fss /\ vfs_fd_close(s, fd).mounts = s.mounts
<1>1. CASE s.fds[fd] = NoFile
  <2>1. vfs_fd_close(s, fd) = s
    BY <1>1 DEF vfs_fd_close
  <2>2. s.fds = [s.fds EXCEPT ![fd] = NoFile]
    BY <1>1 DEF Good, IsState
  <2> QED BY <2>1, <2>2
<1>2. CASE s.fds[fd] # NoFile
  <2> DEFINE t == vfs_fd_close(s, fd)
             n == HandleBlocks(s.fds[fd])
  <2>1. n \in Nat /\ s.heap \in Nat /\ IsState(s) /\ IsHandle(NoFile) /\ HandleBlocks(NoFile) = 0
    BY HandleBlocksNat DEF Good, IsState, IsHandle, HandleBlocks, NoFile, None
  <2>2. n <= FdSum(s) /\ FdSum(s) \in Nat /\ FsSum(s) \in Nat
    <3> DEFINE u == [s EXCEPT !.fds = [s.fds EXCEPT ![fd] = NoFile]]
    <3>1. u.fds = [s.fds EXCEPT ![fd] = NoFile]
      BY <2>1 DEF IsState
    <3> HIDE DEF u
    <3> QED BY <2>1, <3>1, FdSumChanged, SumsNat
  <2>3. n <= s.heap /\ s.heap <= room
    <3>1. s.heap <= room
      BY DEF Good, Accounted
    <3> HIDE DEF n
    <3> QED BY <2>1, <2>2, <3>1, Balance
  <2>4. t = [devs |-> s.devs, heap |-> s.heap - n, mounts |-> s.mounts,
             fss |-> s.fss, fds |-> [s.fds EXCEPT ![fd] = NoFile], lost |-> s.lost]
    BY <1>2, <2>1, <2>3, FdCloses
  <2> HIDE DEF t
  <2>5. s.heap - n \in Nat /\ s.heap - n <= room /\ s.heap - n = s.heap - n + HandleBlocks(NoFile)
    BY <2>1, <2>3
  <2>6. Good(t)
    BY <2>1, <2>4, <2>5, FdGood
  <2> QED BY <2>4, <2>6 DEF t
<1> QED BY <1>1, <1>2

\* The descriptors tried at boot are closed again.
LEMMA TryKeeps ==
  ASSUME NEW s, Fits(s), NEW q, FdOpened(s, q)
  PROVE  TryDescriptors(q) = s
<1>1. CASE q.r = -1 /\ q.s = s
  BY <1>1 DEF TryDescriptors
<1>2. ASSUME NEW h, q.r \in FreeFds(s), IsHandle(h), h # NoFile,
             HandleBlocks(h) \in Nat, s.heap + HandleBlocks(h) <= room,
             q.s = [devs |-> s.devs, heap |-> s.heap + HandleBlocks(h), mounts |-> s.mounts,
                    fss |-> s.fss, fds |-> [s.fds EXCEPT ![q.r] = h], lost |-> s.lost]
      PROVE  TryDescriptors(q) = s
  <2> DEFINE fd == q.r
             t == q.s
  <2>1. fd \in Fds /\ s.fds[fd] = NoFile /\ IsState(s) /\ fd # -1 /\ DOMAIN s.fds = Fds
    BY SMTT(30), <1>2, VfsAssumption DEF FreeFds, Fits, IsState, Fds
  <2>2. t.fds = [s.fds EXCEPT ![fd] = h] /\ t.devs = s.devs /\ t.heap = s.heap + HandleBlocks(h)
        /\ t.mounts = s.mounts /\ t.fss = s.fss /\ t.lost = s.lost
    BY <1>2
  <2>3. t = [devs |-> t.devs, heap |-> t.heap, mounts |-> t.mounts, fss |-> t.fss, fds |-> t.fds,
             lost |-> t.lost]
    BY <1>2, <2>2
  <2>4. /\ t.fds[fd] = h /\ DOMAIN t.fds = Fds /\ t.fds = [e \in Fds |-> t.fds[e]]
        /\ (\A e \in Fds : IsHandle(t.fds[e])) /\ [t.fds EXCEPT ![fd] = NoFile] = s.fds
    <3>1. s.fds = [e \in Fds |-> s.fds[e]] /\ \A e \in Fds : IsHandle(s.fds[e])
      BY <2>1 DEF IsState
    <3> QED BY <1>2, <2>1, <2>2, <3>1
  <2>5. t.heap \in Nat
    BY <1>2, <2>1, <2>2 DEF IsState
  <2> HIDE DEF t
  <2>6. IsState(t)
    BY <2>1, <2>2, <2>3, <2>4, <2>5 DEF IsState
  <2>7. HandleBlocks(t.fds[fd]) <= t.heap /\ t.heap - HandleBlocks(h) = s.heap
    BY <1>2, <2>1, <2>2, <2>4 DEF IsState
  <2>8. vfs_fd_close(t, fd) =
           [devs |-> t.devs, heap |-> t.heap - HandleBlocks(h), mounts |-> t.mounts,
            fss |-> t.fss, fds |-> [t.fds EXCEPT ![fd] = NoFile], lost |-> t.lost]
    BY <1>2, <2>1, <2>4, <2>6, <2>7, FdCloses
  <2>9. vfs_fd_close(t, fd) = s
    BY <2>1, <2>2, <2>4, <2>7, <2>8 DEF IsState
  <2> QED BY <2>1, <2>9 DEF TryDescriptors, t
<1> QED BY <1>1, <1>2 DEF FdOpened

----------------------------------------------------------------------------
(* The archive *)

\* Where parsing the archive from h0 blocks of heap and l0 lost ones may be.
Parsing(h0, l0) ==
  {m \in [heap : Nat, lost : Nat, files : Listing] :
     m.heap <= room /\ l0 <= m.lost /\ m.heap = h0 + (m.lost - l0) + 2 * Len(m.files)}

\* A member parsed takes blocks for its entry, or loses the list and its blocks.
LEMMA MemberParsed ==
  ASSUME room \in Nat, NEW h0 \in Nat, NEW l0 \in Nat, NEW m \in Parsing(h0, l0), NEW k \in DOMAIN Archive
  PROVE  AddMember(k, m) \in Parsing(h0, l0)
<1>1. /\ m.heap \in Nat /\ m.lost \in Nat /\ m.files \in Listing /\ Len(m.files) \in Nat
      /\ m.heap <= room /\ l0 <= m.lost /\ m.heap = h0 + (m.lost - l0) + 2 * Len(m.files)
      /\ m = [heap |-> m.heap, lost |-> m.lost, files |-> m.files]
  BY DEF Parsing, Listing
<1> DEFINE name == IF m.heap < room THEN 1 ELSE 0
           e == [name |-> Normalised(Archive[k].name), data |-> k]
           files == <<e>> \o m.files
<1>2. CASE ~Archive[k].regular
  BY <1>2 DEF AddMember
<1>3. CASE Archive[k].regular /\ m.heap + 1 < room
  <2>1. e \in [name : Texts, data : DOMAIN Archive]
    BY DEF Texts
  <2> HIDE DEF e
  <2>2. files \in Listing /\ Len(files) = Len(m.files) + 1
    BY <1>1, <2>1 DEF Listing
  <2>3. AddMember(k, m) = [m EXCEPT !.heap = @ + 2, !.files = files]
    BY <1>3 DEF AddMember, e
  <2> HIDE DEF files
  <2>4. AddMember(k, m) = [heap |-> m.heap + 2, lost |-> m.lost, files |-> files]
    BY <1>1, <2>3
  <2>5. m.heap + 2 = h0 + (m.lost - l0) + 2 * Len(files) /\ m.heap + 2 \in Nat /\ m.heap + 2 <= room
    <3> DEFINE a == m.heap
               b == m.lost
               c == Len(m.files)
               d == Len(files)
    <3>1. a \in Nat /\ b \in Nat /\ c \in Nat /\ a + 1 < room /\ d = c + 1 /\ a = h0 + (b - l0) + 2 * c
      BY <1>1, <1>3, <2>2
    <3> HIDE DEF a, b, c, d
    <3>2. a + 2 = h0 + (b - l0) + 2 * d /\ a + 2 \in Nat /\ a + 2 <= room
      BY <3>1
    <3> QED BY <3>2 DEF a, b, d
  <2> QED BY SMTT(30), <1>1, <2>2, <2>4, <2>5 DEF Parsing
<1>4. CASE Archive[k].regular /\ ~(m.heap + 1 < room)
  <2> DEFINE l == m.lost + 2 * Len(m.files) + name
  <2>1. AddMember(k, m) = [heap |-> m.heap + name, lost |-> l, files |-> <<>>]
    BY <1>4 DEF AddMember
  <2>2. m.heap + name \in Nat /\ m.heap + name <= room /\ l \in Nat /\ l0 <= l
        /\ m.heap + name = h0 + (l - l0) + 2 * 0
    <3> DEFINE a == m.heap
               b == m.lost
               c == Len(m.files)
    <3>1. a \in Nat /\ b \in Nat /\ c \in Nat /\ a <= room /\ l0 <= b /\ a = h0 + (b - l0) + 2 * c
          /\ name = (IF a < room THEN 1 ELSE 0) /\ l = b + 2 * c + name
      BY <1>1
    <3> HIDE DEF a, b, c, l, name
    <3>2. /\ a + name \in Nat /\ a + name <= room /\ l \in Nat /\ l0 <= l
          /\ a + name = h0 + (l - l0) + 2 * 0
      BY <3>1
    <3> QED BY <3>2 DEF a
  <2>3. <<>> \in Listing /\ Len(<<>>) = 0
    BY DEF Listing
  <2> HIDE DEF l, name
  <2> QED BY <2>1, <2>2, <2>3 DEF Parsing
<1> QED BY <1>2, <1>3, <1>4

\* A member parsed is listed in front of the ones before it.
LEMMA MemberArchived ==
  ASSUME NEW h0, NEW l0, NEW m \in Parsing(h0, l0), NEW k \in DOMAIN Archive, AsArchived(m.files, k - 1)
  PROVE  AsArchived(AddMember(k, m).files, k)
<1> DEFINE l == m.files
           e == [name |-> Normalised(Archive[k].name), data |-> k]
           u == <<e>> \o l
<1>1. /\ l \in Seq([name : Texts, data : DOMAIN Archive]) /\ k \in Nat /\ DOMAIN Archive \subseteq Nat
      /\ DOMAIN l = 1 .. Len(l) /\ Len(l) \in Nat
      /\ m = [heap |-> m.heap, lost |-> m.lost, files |-> l]
  BY VfsAssumption DEF Parsing, Listing
<1>2. ASSUME NEW i \in DOMAIN l
      PROVE  l[i].data \in Nat /\ l[i].data < k /\ l[i].data <= k - 1 /\ l[i].data <= k
  <2>1. l[i].data \in Nat
    <3> HIDE DEF l
    <3>1. l[i] \in [name : Texts, data : DOMAIN Archive]
      BY <1>1, ElementOf
    <3> QED BY <1>1, <3>1
  <2>2. l[i].data <= k - 1
    BY DEF AsArchived
  <2> HIDE DEF l
  <2> QED BY <1>1, <2>1, <2>2
<1>3. CASE ~Archive[k].regular
  <2>1. AddMember(k, m).files = l
    BY <1>3 DEF AddMember
  <2>2. \A j \in DOMAIN Archive : Archive[j].regular /\ j <= k => j <= k - 1
    BY <1>1, <1>3
  <2>3. AsArchived(l, k - 1)
    OBVIOUS
  <2> HIDE DEF l
  <2>4. AsArchived(l, k)
    BY <1>2, <2>2, <2>3 DEF AsArchived
  <2> QED BY <2>1, <2>4
<1>4. CASE Archive[k].regular /\ ~(m.heap + 1 < room)
  <2>1. AddMember(k, m).files = <<>> /\ DOMAIN <<>> = {}
    BY <1>4 DEF AddMember
  <2> QED BY <2>1 DEF AsArchived
<1>5. CASE Archive[k].regular /\ m.heap + 1 < room
  <2>1. AddMember(k, m).files = u
    <3>1. AddMember(k, m) = [m EXCEPT !.heap = @ + 2, !.files = u]
      BY <1>5 DEF AddMember
    <3> HIDE DEF u, l
    <3> QED BY <1>1, <3>1
  <2>2. e \in [name : Texts, data : DOMAIN Archive] /\ e.data = k /\ e.name = Normalised(Archive[k].name)
    BY DEF Texts
  <2> HIDE DEF e
  <2>3. u[1] = e /\ \A i \in DOMAIN u : i # 1 => i - 1 \in DOMAIN l /\ u[i] = l[i - 1]
    BY <1>1, <2>2
  <2>4. DOMAIN u \subseteq Nat /\ 1 \in DOMAIN u /\ \A i \in DOMAIN u : i >= 1
    BY <1>1, <2>2
  <2>5. \A i \in DOMAIN l : i + 1 \in DOMAIN u /\ u[i + 1] = l[i]
    BY <1>1, <2>2
  <2> HIDE DEF u
  <2>6. \A i \in DOMAIN u : /\ u[i].data <= k /\ Archive[u[i].data].regular
                           /\ u[i].name = Normalised(Archive[u[i].data].name)
    <3> SUFFICES ASSUME NEW i \in DOMAIN u
                 PROVE  /\ u[i].data <= k /\ Archive[u[i].data].regular
                        /\ u[i].name = Normalised(Archive[u[i].data].name)
      OBVIOUS
    <3>1. CASE i = 1
      BY <1>1, <1>5, <2>2, <2>3, <3>1
    <3>2. CASE i # 1
      <4>1. i - 1 \in DOMAIN l /\ u[i] = l[i - 1]
        BY <2>3, <3>2
      <4> HIDE DEF l
      <4>2. l[i - 1].data <= k
        BY <1>1, <1>2, <4>1
      <4> QED BY <4>1, <4>2 DEF AsArchived, l
    <3> QED BY <3>1, <3>2
  <2>7. \A i, j \in DOMAIN u : i < j => u[j].data < u[i].data
    <3> SUFFICES ASSUME NEW i \in DOMAIN u, NEW j \in DOMAIN u, i < j
                 PROVE  u[j].data < u[i].data
      OBVIOUS
    <3>1. i \in Nat /\ j \in Nat /\ i >= 1 /\ j # 1
      BY <2>4
    <3>2. j - 1 \in DOMAIN l /\ u[j] = l[j - 1]
      BY <2>3, <3>1
    <3>3. CASE i = 1
      BY <1>2, <2>2, <2>3, <3>2, <3>3
    <3>4. CASE i # 1
      <4>1. i - 1 \in DOMAIN l /\ u[i] = l[i - 1] /\ i - 1 < j - 1
        BY <2>3, <3>1, <3>4
      <4> QED BY <3>2, <4>1 DEF AsArchived
    <3> QED BY <3>3, <3>4
  <2>8. \A i \in DOMAIN u : \A j \in DOMAIN Archive :
          Archive[j].regular /\ u[i].data <= j /\ j <= k => \E d \in DOMAIN u : u[d].data = j
    <3> SUFFICES ASSUME NEW i \in DOMAIN u, NEW j \in DOMAIN Archive,
                        Archive[j].regular, u[i].data <= j, j <= k
                 PROVE  \E d \in DOMAIN u : u[d].data = j
      OBVIOUS
    <3>1. CASE j = k
      BY <2>2, <2>3, <2>4, <3>1
    <3>2. CASE j # k
      <4>1. i # 1 /\ j <= k - 1
        BY <1>1, <2>2, <2>3, <3>2
      <4>2. i - 1 \in DOMAIN l /\ l[i - 1].data <= j
        BY <2>3, <4>1
      <4>3. PICK d \in DOMAIN l : l[d].data = j
        BY <4>1, <4>2 DEF AsArchived
      <4> QED BY <2>5, <4>3
    <3> QED BY <3>1, <3>2
  <2>9. AsArchived(u, k)
    BY <2>6, <2>7, <2>8 DEF AsArchived
  <2> QED BY <2>1, <2>9
<1> QED BY <1>3, <1>4, <1>5

\* After all members every block taken is an entry's or lost.
LEMMA ArchiveParsed ==
  ASSUME room \in Nat, NEW h0 \in Nat, h0 <= room, NEW l0 \in Nat
  PROVE  Parsed(h0, l0) \in Parsing(h0, l0) /\ AsArchived(Parsed(h0, l0).files, Len(Archive))
<1> DEFINE X == Parsing(h0, l0)
           n == Len(Archive)
           x0 == [heap |-> h0, lost |-> l0, files |-> <<>>]
           Step == [k \in 1 .. n |-> [x \in X |-> AddMember(k, x)]]
           p == CHOOSE g : g = [k \in 0 .. n |-> IF k = 0 THEN x0 ELSE AddMember(k, g[k - 1])]
<1>1. n \in Nat /\ DOMAIN Archive = 1 .. n
  BY VfsAssumption
<1>2. x0 \in X
  <2>1. <<>> \in Listing /\ Len(<<>>) = 0 /\ h0 = h0 + (l0 - l0) + 2 * 0
    BY DEF Listing
  <2> QED BY <2>1 DEF Parsing
<1> HIDE DEF x0
<1>3. \A k \in 1 .. n : \A x \in X : AddMember(k, x) \in X
  BY <1>1, MemberParsed
<1> HIDE DEF X, n
<1>4. Step \in [1 .. n -> [X -> X]] /\ \A k \in 1 .. n : \A x \in X : Step[k][x] = AddMember(k, x)
  BY <1>3
<1> HIDE DEF Step
<1>5. PICK g : Computes(g, n, X, x0, Step)
  BY <1>1, <1>2, <1>4, LoopExists
<1>6. g = [k \in 0 .. n |-> IF k = 0 THEN x0 ELSE AddMember(k, g[k - 1])]
  <2>1. ASSUME NEW k \in 0 .. n
        PROVE  g[k] = IF k = 0 THEN x0 ELSE AddMember(k, g[k - 1])
    <3>1. CASE k # 0
      <4>1. k \in 1 .. n /\ k - 1 \in 0 .. n
        BY <1>1, <3>1
      <4>2. g[k] = Step[k][g[k - 1]] /\ g[k - 1] \in X
        BY <1>5, <4>1 DEF Computes
      <4> QED BY <1>4, <3>1, <4>1, <4>2
    <3> QED BY <1>5, <3>1 DEF Computes
  <2> QED BY <1>5, <2>1 DEF Computes
<1>7. p = [k \in 0 .. n |-> IF k = 0 THEN x0 ELSE AddMember(k, p[k - 1])]
  BY <1>6
<1> HIDE DEF p
<1>8. p[0] \in X
  BY <1>1, <1>2, <1>7
<1>9. 0 .. n \subseteq {k \in 0 .. n : p[k] \in X /\ AsArchived(p[k].files, k)}
  <2> DEFINE True == {k \in 0 .. n : p[k] \in X /\ AsArchived(p[k].files, k)}
  <2>1. 0 \in True
    <3>1. p[0].files = <<>> /\ DOMAIN <<>> = {} /\ 0 \in 0 .. n
      BY <1>1, <1>7 DEF x0
    <3> QED BY <1>8, <3>1 DEF AsArchived
  <2>2. ASSUME NEW k \in 0 .. n - 1, k \in True
        PROVE  k + 1 \in True
    <3>1. k + 1 \in 0 .. n /\ k + 1 # 0 /\ k + 1 \in 1 .. n /\ (k + 1) - 1 = k
      BY <1>1
    <3>2. p[k + 1] = AddMember(k + 1, p[k])
      BY <1>7, <3>1
    <3>3. p[k] \in X /\ AsArchived(p[k].files, k)
      BY <2>2
    <3>4. p[k + 1] \in X
      BY <1>3, <3>1, <3>2, <3>3
    <3>5. AsArchived(AddMember(k + 1, p[k]).files, k + 1)
      <4> DEFINE e == k + 1
                 m == p[k]
      <4>1. e \in DOMAIN Archive /\ e - 1 = k /\ m \in Parsing(h0, l0)
        BY <1>1, <3>1, <3>3 DEF X
      <4>2. AsArchived(m.files, e - 1)
        BY <3>3, <4>1
      <4> HIDE DEF e, m
      <4>3. AsArchived(AddMember(e, m).files, e)
        BY <4>1, <4>2, MemberArchived
      <4> QED BY <4>3 DEF e, m
    <3> QED BY <3>1, <3>2, <3>4, <3>5
  <2> HIDE DEF True
  <2>3. 0 .. n \subseteq True
    BY <1>1, <2>1, <2>2, UpToBound
  <2> QED BY <2>3 DEF True
<1>10. Parsed(h0, l0) = p[n]
  BY DEF Parsed, p, n, x0
<1> QED BY <1>1, <1>9, <1>10 DEF X, n

----------------------------------------------------------------------------
(* Mounting *)

\* t is s with more mounted and registered; what was there is as it was.
Grown(s, t) ==
  /\ Good(t) /\ t.fds = s.fds /\ s.heap <= t.heap
  /\ \A f \in MountSlots : s.fss[f] # NoFs => t.fss[f] = s.fss[f]
  /\ \A i \in InUse(s) : t.mounts[i] = s.mounts[i]

\* A state has grown out of itself.
LEMMA GrownSame ==
  ASSUME NEW s, Good(s)
  PROVE  Grown(s, s)
<1>1. s.heap \in Nat
  BY DEF Good, IsState
<1> QED BY <1>1 DEF Grown

\* What has grown twice has grown.
LEMMA GrownTwice ==
  ASSUME NEW s, NEW t, NEW u, Good(s), Grown(s, t), Grown(t, u)
  PROVE  Grown(s, u)
<1>1. s.heap \in Nat /\ t.heap \in Nat /\ u.heap \in Nat
  BY DEF Grown, Good, IsState
<1>2. s.heap <= t.heap /\ t.heap <= u.heap
  BY DEF Grown
<1>3. s.heap <= u.heap
  BY <1>1, <1>2
<1>4. \A i \in InUse(s) : i \in InUse(t)
  BY DEF Grown, InUse
<1> QED BY <1>3, <1>4 DEF Grown

\* A state whose owners of heap are as before, but for the names of devices.
LEMMA GoodLike ==
  ASSUME NEW s, Good(s), NEW t,
         t = [devs |-> t.devs, heap |-> t.heap, mounts |-> t.mounts, fss |-> t.fss, fds |-> t.fds,
              lost |-> t.lost],
         t.devs \in Seq(Names), t.heap \in Nat, t.heap <= room, t.lost = s.lost, t.fss = s.fss, t.fds = s.fds,
         t.heap = s.heap + (Len(t.devs) - Len(s.devs)), s.heap <= t.heap,
         DOMAIN t.mounts = MountSlots,
         \A i \in MountSlots : /\ MountTrue(t.mounts[i])
                               /\ t.mounts[i].ops = s.mounts[i].ops /\ t.mounts[i].fs = s.mounts[i].fs
                               /\ s.mounts[i].ops # None => t.mounts[i] = s.mounts[i]
  PROVE  Grown(s, t) /\ InUse(t) = InUse(s)
<1>1. IsState(t)
  BY DEF IsState, Good
<1>2. FsSum(t) = FsSum(s) /\ FdSum(t) = FdSum(s)
  BY DEF FsSum, FdSum
<1>3. FsSum(s) \in Nat /\ FdSum(s) \in Nat
  BY SumsNat DEF Good
<1>4. Len(s.devs) \in Nat /\ Len(t.devs) \in Nat /\ s.lost \in Nat /\ s.heap \in Nat
       /\ s.heap = Len(s.devs) + s.lost + FsSum(s) + FdSum(s)
  BY DEF Good, IsState, Accounted
<1>5. t.heap = Len(t.devs) + t.lost + FsSum(t) + FdSum(t)
  <2> DEFINE a == FsSum(s)
             b == FdSum(s)
             c == Len(s.devs)
             d == Len(t.devs)
             h == s.heap
             l == s.lost
  <2>1. a \in Nat /\ b \in Nat /\ c \in Nat /\ d \in Nat /\ h \in Nat /\ l \in Nat /\ h = c + l + a + b
    BY <1>3, <1>4
  <2>2. t.heap = h + (d - c)
    OBVIOUS
  <2>3. t.lost = l /\ FsSum(t) = a /\ FdSum(t) = b
    BY <1>2
  <2> HIDE DEF a, b, c, d, h, l
  <2>4. t.heap = d + t.lost + FsSum(t) + FdSum(t)
    BY <2>1, <2>2, <2>3
  <2> QED BY <2>4 DEF d
<1>6. InUse(t) = InUse(s)
  BY DEF InUse
<1>7. OwnMounts(t)
  <2>1. \A i \in InUse(s) : i \in MountSlots
    BY DEF InUse
  <2>2. \A i \in InUse(s) : t.mounts[i].fs = s.mounts[i].fs /\ t.mounts[i].ops = s.mounts[i].ops
    BY <2>1
  <2>3. OwnMounts(s)
    BY DEF Good
  <2>4. {t.mounts[i].fs : i \in InUse(s)} = {s.mounts[i].fs : i \in InUse(s)}
    BY <2>2
  <2> QED BY <1>6, <2>2, <2>3, <2>4 DEF OwnMounts
<1>8. Good(t)
  BY <1>1, <1>5, <1>7 DEF Good, Accounted
<1>9. \A i \in InUse(s) : t.mounts[i] = s.mounts[i]
  BY DEF InUse
<1> QED BY <1>6, <1>8, <1>9 DEF Grown

\* A file system x in the free place f, mounted in the free slot i.
LEMMA FsMounted ==
  ASSUME NEW s, Good(s), room \in Nat, NEW i \in MountSlots, s.mounts[i].ops = None,
         NEW f \in MountSlots, s.fss[f] = NoFs, NEW x, FsTrue(x), x # NoFs, NEW t,
         t = [devs |-> t.devs, heap |-> t.heap, mounts |-> t.mounts, fss |-> t.fss, fds |-> t.fds,
              lost |-> t.lost],
         t.devs = s.devs, t.fds = s.fds, t.fss = [s.fss EXCEPT ![f] = x],
         t.heap \in Nat, t.lost \in Nat, t.heap <= room, s.heap <= t.heap,
         t.heap = s.heap + (t.lost - s.lost) + FsBlocks(x),
         DOMAIN t.mounts = MountSlots, MountTrue(t.mounts[i]),
         t.mounts[i].ops = x.ops, t.mounts[i].fs = f,
         \A j \in MountSlots : j # i => t.mounts[j] = s.mounts[j]
  PROVE  Grown(s, t) /\ InUse(t) = InUse(s) \cup {i}
<1>1. IsState(s) /\ OwnMounts(s) /\ DOMAIN s.fss = MountSlots
  BY DEF Good, IsState
<1>2. DOMAIN t.fss = MountSlots /\ t.fss[f] = x /\ \A e \in MountSlots : e # f => t.fss[e] = s.fss[e]
  BY <1>1
<1>3. \A e \in MountSlots : FsTrue(t.fss[e])
  BY <1>1, <1>2 DEF IsState
<1>4. \A j \in MountSlots : MountTrue(t.mounts[j])
  BY <1>1 DEF IsState
<1>5. IsState(t)
  BY <1>1, <1>2, <1>3, <1>4 DEF IsState
<1>6. FsBlocks(s.fss[f]) = 0
  BY DEF FsBlocks, NoFs, None
<1>7. /\ FsSum(s) \in Nat /\ FsSum(t) \in Nat /\ FsBlocks(x) \in Nat
      /\ FsSum(t) = FsSum(s) - FsBlocks(s.fss[f]) + FsBlocks(x)
  BY <1>1, FsSumChanged, FsBlocksNat
<1>8. FdSum(t) = FdSum(s) /\ FdSum(s) \in Nat
  BY <1>1, SumsNat DEF FdSum
<1>9. Len(s.devs) \in Nat /\ s.lost \in Nat /\ s.heap \in Nat
       /\ s.heap = Len(s.devs) + s.lost + FsSum(s) + FdSum(s)
  BY DEF Good, IsState, Accounted
<1>10. t.heap = Len(t.devs) + t.lost + FsSum(t) + FdSum(t)
  <2> DEFINE a == FsSum(s)
             b == FdSum(s)
             d == Len(s.devs)
             h == s.heap
             l == s.lost
             m == FsBlocks(x)
             e == t.lost
             k == t.heap
  <2>1. a \in Nat /\ b \in Nat /\ d \in Nat /\ h \in Nat /\ l \in Nat /\ m \in Nat /\ h = d + l + a + b
    BY <1>7, <1>8, <1>9
  <2>2. k = h + (e - l) + m /\ e \in Nat /\ k \in Nat
    OBVIOUS
  <2>3. FsSum(t) = a + m /\ FdSum(t) = b /\ Len(t.devs) = d
    BY <1>6, <1>7, <1>8
  <2> HIDE DEF a, b, d, h, l, m, e, k
  <2>4. k = d + e + (a + m) + b
    BY <2>1, <2>2
  <2> QED BY <2>3, <2>4 DEF k, e
<1>11. x.ops # None
  BY DEF FsTrue, NoFs, None
<1>12. InUse(t) = InUse(s) \cup {i} /\ i \notin InUse(s)
  BY <1>11 DEF InUse
<1>13. \A j \in InUse(s) : /\ j \in MountSlots /\ j # i /\ t.mounts[j] = s.mounts[j]
                           /\ s.mounts[j].fs \in MountSlots /\ s.fss[s.mounts[j].fs] # NoFs
                           /\ s.mounts[j].fs # f /\ t.fss[s.mounts[j].fs] = s.fss[s.mounts[j].fs]
  <2> SUFFICES ASSUME NEW j \in InUse(s)
               PROVE  /\ j \in MountSlots /\ j # i /\ t.mounts[j] = s.mounts[j]
                      /\ s.mounts[j].fs \in MountSlots /\ s.fss[s.mounts[j].fs] # NoFs
                      /\ s.mounts[j].fs # f /\ t.fss[s.mounts[j].fs] = s.fss[s.mounts[j].fs]
    OBVIOUS
  <2>1. j \in MountSlots /\ s.mounts[j].ops # None /\ j # i
    BY <1>12 DEF InUse
  <2>2. s.mounts[j].fs \in MountSlots /\ s.fss[s.mounts[j].fs] # NoFs
    BY <1>1, <2>1, MountServes
  <2> QED BY <1>2, <2>1, <2>2
<1>14. OwnMounts(t)
  <2>1. {e \in MountSlots : t.fss[e] # NoFs} = {e \in MountSlots : s.fss[e] # NoFs} \cup {f}
    BY <1>2
  <2>2. {t.mounts[j].fs : j \in InUse(t)} = {s.mounts[j].fs : j \in InUse(s)} \cup {f}
    BY <1>12, <1>13
  <2>3. \A j, k \in InUse(t) : j # k => t.mounts[j].fs # t.mounts[k].fs
    BY <1>1, <1>12, <1>13 DEF OwnMounts
  <2>4. \A j \in InUse(t) : t.fss[t.mounts[j].fs].ops = t.mounts[j].ops
    BY <1>1, <1>2, <1>12, <1>13 DEF OwnMounts
  <2> QED BY <1>1, <2>1, <2>2, <2>3, <2>4 DEF OwnMounts
<1>15. Good(t)
  BY <1>5, <1>10, <1>14 DEF Good, Accounted
<1> QED BY <1>2, <1>12, <1>13, <1>15 DEF Grown

\* While a slot is free there is a place for a file system.
LEMMA PlaceFree ==
  ASSUME NEW s, IsState(s), OwnMounts(s), FreeMounts(s) # {}
  PROVE  FreeFs(s) \in MountSlots /\ s.fss[FreeFs(s)] = NoFs
<1> DEFINE S == {f \in MountSlots : s.fss[f] = NoFs}
           g == [i \in InUse(s) |-> s.mounts[i].fs]
<1>1. S # {}
  <2> SUFFICES ASSUME S = {}
               PROVE  FALSE
    OBVIOUS
  <2>1. MountSlots = {s.mounts[i].fs : i \in InUse(s)}
    BY DEF OwnMounts
  <2>2. g \in Surjection(InUse(s), MountSlots)
    BY <2>1 DEF Surjection
  <2>3. InUse(s) \subseteq MountSlots /\ InUse(s) # MountSlots
    BY DEF InUse, FreeMounts
  <2>4. IsFiniteSet(InUse(s)) /\ Cardinality(InUse(s)) < Cardinality(MountSlots)
        /\ Cardinality(InUse(s)) \in Nat /\ Cardinality(MountSlots) \in Nat
    BY <2>3, SlotsFinite, FS_Subset, FS_CardinalityType
  <2> HIDE DEF g
  <2>5. Cardinality(MountSlots) <= Cardinality(InUse(s))
    BY <2>2, <2>4, FS_Surjection
  <2> QED BY <2>4, <2>5
<1>2. S \in SUBSET Nat
  BY VfsAssumption DEF MountSlots
<1>3. FreeFs(s) = First(S)
  BY DEF FreeFs
<1> HIDE DEF S
<1>4. FreeFs(s) \in S
  BY <1>1, <1>2, <1>3, FirstOf
<1> QED BY <1>4 DEF S

\* An attempt to make a file system changes nothing, or fills the place m.r.
FsMade(s, m, ops) ==
  \/ m.r = 0 /\ m.s = s
  \/ \E x : /\ m.r \in MountSlots /\ s.fss[m.r] = NoFs /\ FsTrue(x) /\ x.ops = ops /\ x # NoFs
            /\ m.s = [devs |-> s.devs, heap |-> m.s.heap, mounts |-> s.mounts,
                      fss |-> [s.fss EXCEPT ![m.r] = x], fds |-> s.fds, lost |-> m.s.lost]
            /\ m.s.heap \in Nat /\ m.s.lost \in Nat /\ m.s.heap <= room /\ s.heap <= m.s.heap
            /\ m.s.heap = s.heap + (m.s.lost - s.lost) + FsBlocks(x)

\* ustar_mount makes a file system in a free place, whenever its first block is had.
LEMMA UstarMade ==
  ASSUME NEW s, Fits(s), FreeFs(s) \in MountSlots, s.fss[FreeFs(s)] = NoFs
  PROVE  FsMade(s, ustar_mount(s), "ustar") /\ (HasRoom(s) => ustar_mount(s).r # 0)
<1> DEFINE q == ustar_mount(s)
           m == Parsed(s.heap + 1, s.lost)
           f == FreeFs(s)
           x == [ops |-> "ustar", files |-> m.files]
<1>1. CASE ~HasRoom(s)
  BY <1>1 DEF ustar_mount, FsMade, Result
<1>2. CASE HasRoom(s)
  <2>1. s.heap + 1 \in Nat /\ s.heap + 1 <= room /\ s.lost \in Nat /\ s.heap \in Nat
    BY <1>2 DEF HasRoom, Fits, IsState
  <2>2. m \in Parsing(s.heap + 1, s.lost) /\ AsArchived(m.files, Len(Archive))
    BY <2>1, ArchiveParsed DEF Fits
  <2>3. q = Result([s EXCEPT !.heap = m.heap, !.lost = m.lost, !.fss[f] = x], f)
    BY <1>2 DEF ustar_mount
  <2> HIDE DEF q, m, f
  <2>4. [s EXCEPT !.heap = m.heap, !.lost = m.lost, !.fss[f] = x] =
          [devs |-> s.devs, heap |-> m.heap, mounts |-> s.mounts,
           fss |-> [s.fss EXCEPT ![f] = x], fds |-> s.fds, lost |-> m.lost]
    <3> DEFINE a == [s EXCEPT !.heap = m.heap]
               b == [a EXCEPT !.lost = m.lost]
               c == [b EXCEPT !.fss = [b.fss EXCEPT ![f] = x]]
    <3>1. a = [devs |-> s.devs, heap |-> m.heap, mounts |-> s.mounts,
               fss |-> s.fss, fds |-> s.fds, lost |-> s.lost]
      BY DEF Fits, IsState
    <3> HIDE DEF a, x
    <3>2. b = [devs |-> s.devs, heap |-> m.heap, mounts |-> s.mounts,
               fss |-> s.fss, fds |-> s.fds, lost |-> m.lost]
      BY <3>1
    <3> HIDE DEF b
    <3>3. c = [devs |-> s.devs, heap |-> m.heap, mounts |-> s.mounts,
               fss |-> [s.fss EXCEPT ![f] = x], fds |-> s.fds, lost |-> m.lost]
      BY <3>2
    <3> QED BY <3>3 DEF a, b, x
  <2>5. m.files \in Listing /\ m.heap \in Nat /\ m.lost \in Nat /\ m.heap <= room /\ s.lost <= m.lost
        /\ m.heap = s.heap + 1 + (m.lost - s.lost) + 2 * Len(m.files)
    BY <2>2 DEF Parsing
  <2>6. FsTrue(x) /\ x.ops = "ustar" /\ x # NoFs /\ FsBlocks(x) = 1 + 2 * Len(m.files)
    BY <2>2, <2>5 DEF FsTrue, NoFs, None, FsBlocks
  <2> HIDE DEF x
  <2>7. q.r = f /\ q.s = [devs |-> s.devs, heap |-> m.heap, mounts |-> s.mounts,
                          fss |-> [s.fss EXCEPT ![q.r] = x], fds |-> s.fds, lost |-> m.lost]
    BY <2>3, <2>4 DEF Result
  <2>8. q.s.heap = m.heap /\ q.s.lost = m.lost
    BY <2>7
  <2>9. m.heap = s.heap + (m.lost - s.lost) + FsBlocks(x) /\ s.heap <= m.heap
    <3> DEFINE a == m.heap
               b == m.lost
               c == Len(m.files)
               h == s.heap
               l == s.lost
    <3>1. /\ a \in Nat /\ b \in Nat /\ c \in Nat /\ h \in Nat /\ l \in Nat /\ l <= b
          /\ a = h + 1 + (b - l) + 2 * c /\ FsBlocks(x) = 1 + 2 * c
      BY <2>1, <2>5, <2>6 DEF Listing
    <3> HIDE DEF a, b, c, h, l
    <3>2. a = h + (b - l) + FsBlocks(x) /\ h <= a
      BY <3>1
    <3> QED BY <3>2 DEF a, b, h, l
  <2>10. q.r \in MountSlots /\ s.fss[q.r] = NoFs /\ q.r # 0
    BY <2>7 DEF f, MountSlots
  <2>11. q.s = [devs |-> s.devs, heap |-> q.s.heap, mounts |-> s.mounts,
                fss |-> [s.fss EXCEPT ![q.r] = x], fds |-> s.fds, lost |-> q.s.lost]
    BY <2>7, <2>8
  <2>12. q.s.heap \in Nat /\ q.s.lost \in Nat /\ q.s.heap <= room /\ s.heap <= q.s.heap
         /\ q.s.heap = s.heap + (q.s.lost - s.lost) + FsBlocks(x)
    BY <2>5, <2>8, <2>9
  <2>13. FsMade(s, q, "ustar")
    BY <2>6, <2>10, <2>11, <2>12 DEF FsMade
  <2> QED BY <2>10, <2>13 DEF q
<1> QED BY <1>1, <1>2

\* ext2_mount makes a file system in a free place, or gives back every block.
LEMMA Ext2Made ==
  ASSUME NEW s, Fits(s), FreeFs(s) \in MountSlots, s.fss[FreeFs(s)] = NoFs, NEW dev \in MountedDevs, NEW fails
  PROVE  FsMade(s, ext2_mount(s, dev, fails), "ext2")
<1> DEFINE q == ext2_mount(s, dev, fails)
           s1 == Taken(s, 1)
           s2 == Taken(s1, 1)
           f == FreeFs(s)
           x == [ops |-> "ext2", dev |-> dev]
           unread == ~Answers(dev, "super", fails) \/ Area(dev) \notin DOMAIN Volumes
<1>1. q = IF ~HasRoom(s) THEN Result(s, 0)
          ELSE IF unread THEN Result(Freed(s1, 1), 0)
          ELSE IF ~HasRoom(s1) THEN Result(Freed(s1, 1), 0)
          ELSE IF ~Answers(dev, "group", fails) THEN Result(Freed(s2, 2), 0)
          ELSE Result([Freed(s2, 1) EXCEPT !.fss[f] = x], f)
  BY DEF ext2_mount, GroupUnread
<1>2. IsState(s) /\ IsState(s1) /\ s1.heap = s.heap + 1
  BY TakenIs DEF Fits
<1>3. Freed(s1, 1) = s /\ Freed(s2, 2) = s /\ Freed(s2, 1) = s1
  BY <1>2, TakenFreed, TakenTwice
<1>4. s1 = [devs |-> s.devs, heap |-> s.heap + 1, mounts |-> s.mounts,
            fss |-> s.fss, fds |-> s.fds, lost |-> s.lost]
  BY <1>2, TakenIs
<1> HIDE DEF q, s1, s2, unread, f
<1>5. CASE q = Result(s, 0)
  BY <1>5 DEF FsMade, Result, q
<1>6. CASE q = Result([s1 EXCEPT !.fss[f] = x], f) /\ HasRoom(s) /\ ~unread
  <2>1. [s1 EXCEPT !.fss[f] = x] =
          [devs |-> s.devs, heap |-> s.heap + 1, mounts |-> s.mounts,
           fss |-> [s.fss EXCEPT ![f] = x], fds |-> s.fds, lost |-> s.lost]
    BY <1>4
  <2>2. FsTrue(x) /\ x.ops = "ext2" /\ x # NoFs /\ FsBlocks(x) = 1
    BY <1>6 DEF FsTrue, NoFs, None, FsBlocks, HasVolume, Answers, unread
  <2> HIDE DEF x
  <2>3. q.r = f /\ q.s = [devs |-> s.devs, heap |-> s.heap + 1, mounts |-> s.mounts,
                          fss |-> [s.fss EXCEPT ![q.r] = x], fds |-> s.fds, lost |-> s.lost]
    BY <1>6, <2>1 DEF Result
  <2>4. q.s.heap = s.heap + 1 /\ q.s.lost = s.lost
    BY <2>3
  <2>5. s.heap \in Nat /\ s.lost \in Nat /\ s.heap + 1 <= room
    BY <1>6 DEF HasRoom, Fits, IsState
  <2>6. q.s.heap \in Nat /\ q.s.lost \in Nat /\ q.s.heap <= room /\ s.heap <= q.s.heap
        /\ q.s.heap = s.heap + (q.s.lost - s.lost) + FsBlocks(x)
    BY <2>2, <2>4, <2>5
  <2>7. q.r \in MountSlots /\ s.fss[q.r] = NoFs
    BY <2>3 DEF f
  <2>8. q.s = [devs |-> s.devs, heap |-> q.s.heap, mounts |-> s.mounts,
               fss |-> [s.fss EXCEPT ![q.r] = x], fds |-> s.fds, lost |-> q.s.lost]
    BY <2>3, <2>4
  <2>9. FsMade(s, q, "ext2")
    BY <2>2, <2>6, <2>7, <2>8 DEF FsMade
  <2> QED BY <2>9 DEF q
<1> QED BY <1>1, <1>3, <1>5, <1>6

\* What an attempt to mount leaves: nothing mounted, or the slot i.
MountDone(s, q, path, i) ==
  /\ Grown(s, q.s) /\ q.s.devs = s.devs /\ q.r \in BOOLEAN
  /\ ~q.r => InUse(q.s) = InUse(s)
  /\ q.r => /\ InUse(q.s) = InUse(s) \cup {i} /\ i \in MountSlots
            /\ q.s.mounts[i].point = PointOf(path)

\* A sequence of something.
IsText(path) == \E S : path \in Seq(S)

\* What is kept of a mount point has a length.
LEMMA PointLength ==
  ASSUME NEW path, IsText(path)
  PROVE  Len(PointOf(path)) \in Nat
<1>1. PICK S : path \in Seq(S)
  BY DEF IsText
<1> DEFINE n == IF Len(path) < POINT_LEN THEN Len(path) ELSE POINT_LEN
<1>2. n \in Nat /\ n <= Len(path)
  BY <1>1, VfsAssumption
<1> HIDE DEF n
<1>3. SubSeq(path, 1, n) \in Seq(S)
  BY <1>1, <1>2
<1> QED BY <1>3 DEF PointOf, n

\* The mount points of the kernel are sequences.
LEMMA PointsAreTexts == IsText(RootPoint) /\ IsText(InitrdPoint)
<1>1. RootPoint \in Seq({"/"}) /\ InitrdPoint \in Seq({"/", "initrd"})
  BY DEF RootPoint, InitrdPoint
<1> QED BY <1>1 DEF IsText

\* vfs_mount fills the first free slot, or leaves the mounts in use alone.
LEMMA MountDoes ==
  ASSUME NEW s, Good(s), room \in Nat, NEW path, IsText(path), NEW ops \in {"ustar", "ext2"},
         NEW dev, ops = "ext2" => dev \in MountedDevs, NEW fails
  PROVE  /\ MountDone(s, vfs_mount(s, path, ops, dev, fails), path, First(FreeMounts(s)))
         /\ ops = "ustar" /\ FreeMounts(s) # {} /\ HasRoom(s) => vfs_mount(s, path, ops, dev, fails).r
<1> DEFINE i == First(FreeMounts(s))
           q == vfs_mount(s, path, ops, dev, fails)
           p == PointOf(path)
           s1 == [s EXCEPT !.mounts[i].point = p]
           m == IF ops = "ustar" THEN ustar_mount(s1) ELSE ext2_mount(s1, dev, fails)
<1>1. q = IF FreeMounts(s) = {} THEN Result(s, FALSE) ELSE Attempted(m, i, ops)
  BY DEF vfs_mount
<1>2. CASE FreeMounts(s) = {}
  <2>1. q.s = s /\ q.r = FALSE
    BY <1>1, <1>2 DEF Result
  <2> HIDE DEF q, i
  <2>2. MountDone(s, q, path, i)
    BY <2>1, GrownSame DEF MountDone
  <2> QED BY <1>2, <2>2 DEF q, i
<1>3. CASE FreeMounts(s) # {}
  <2>1. i \in FreeMounts(s) /\ i \in MountSlots /\ s.mounts[i].ops = None
    <3>1. FreeMounts(s) \in SUBSET Nat
      BY VfsAssumption DEF FreeMounts, MountSlots
    <3>2. i \in FreeMounts(s)
      BY <1>3, <3>1, FirstOf
    <3> QED BY <3>2 DEF FreeMounts
  <2>0. Len(p) \in Nat
    BY PointLength
  <2> HIDE DEF i, p
  <2>2. IsState(s) /\ OwnMounts(s) /\ DOMAIN s.mounts = MountSlots /\ \A j \in MountSlots : MountTrue(s.mounts[j])
    BY DEF Good, IsState
  <2>3. s1 = [devs |-> s.devs, heap |-> s.heap, mounts |-> [s.mounts EXCEPT ![i].point = p],
              fss |-> s.fss, fds |-> s.fds, lost |-> s.lost]
    <3>1. PICK d, h, mts, fs, fd, l :
            s = [devs |-> d, heap |-> h, mounts |-> mts, fss |-> fs, fds |-> fd, lost |-> l]
      BY <2>2 DEF IsState
    <3> QED BY ONLY <3>1
  <2>4. s1.devs = s.devs /\ s1.heap = s.heap /\ s1.fss = s.fss /\ s1.fds = s.fds /\ s1.lost = s.lost
        /\ s1.mounts = [s.mounts EXCEPT ![i].point = p]
        /\ s1 = [devs |-> s1.devs, heap |-> s1.heap, mounts |-> s1.mounts, fss |-> s1.fss,
                 fds |-> s1.fds, lost |-> s1.lost]
    BY <2>3
  <2> DEFINE ms == s1.mounts
  <2>5. DOMAIN ms = MountSlots /\ ms[i].point = p /\ ms[i].ops = None /\ ms[i].fs = s.mounts[i].fs
        /\ MountTrue(ms[i]) /\ \A j \in MountSlots : j # i => ms[j] = s.mounts[j]
    BY <2>0, <2>1, <2>2, <2>4 DEF MountTrue
  <2>6. s1.devs \in Seq(Names) /\ s1.heap \in Nat /\ s1.heap <= room
        /\ s1.heap = s.heap + (Len(s1.devs) - Len(s.devs)) /\ s.heap <= s1.heap
    BY <2>4 DEF Good, IsState, Accounted
  <2> HIDE DEF s1
  <2>7. \A j \in MountSlots : /\ MountTrue(s1.mounts[j])
                              /\ s1.mounts[j].ops = s.mounts[j].ops /\ s1.mounts[j].fs = s.mounts[j].fs
                              /\ s.mounts[j].ops # None => s1.mounts[j] = s.mounts[j]
    BY <2>1, <2>2, <2>5
  <2>8. Grown(s, s1) /\ InUse(s1) = InUse(s)
    BY <2>4, <2>5, <2>6, <2>7, GoodLike
  <2>9. Good(s1) /\ Fits(s1) /\ IsState(s1) /\ OwnMounts(s1)
    BY <2>8 DEF Grown, Good, Fits, Accounted
  <2>10. FreeFs(s1) \in MountSlots /\ s1.fss[FreeFs(s1)] = NoFs
    <3>1. FreeMounts(s1) # {}
      BY <2>1, <2>5 DEF FreeMounts
    <3> QED BY <2>9, <3>1, PlaceFree
  <2>11. FsMade(s1, m, ops) /\ (ops = "ustar" /\ HasRoom(s1) => m.r # 0)
    BY <2>9, <2>10, UstarMade, Ext2Made
  <2>12. q = IF m.r = 0 THEN Result(m.s, FALSE)
             ELSE Result([m.s EXCEPT !.mounts[i] = [@ EXCEPT !.ops = ops, !.fs = m.r]], TRUE)
    BY <1>1, <1>3 DEF Attempted
  <2>13. HasRoom(s1) <=> HasRoom(s)
    BY <2>4 DEF HasRoom
  <2> HIDE DEF q, m
  <2>14. ASSUME m.r = 0 /\ m.s = s1
         PROVE  MountDone(s, q, path, i)
    <3>1. q.s = s1 /\ q.r = FALSE
      BY <2>12, <2>14 DEF Result
    <3> QED BY <2>4, <2>8, <3>1 DEF MountDone
  <2>15. ASSUME NEW x,
                m.r \in MountSlots, s1.fss[m.r] = NoFs, FsTrue(x), x.ops = ops, x # NoFs,
                m.s = [devs |-> s1.devs, heap |-> m.s.heap, mounts |-> s1.mounts,
                       fss |-> [s1.fss EXCEPT ![m.r] = x], fds |-> s1.fds, lost |-> m.s.lost],
                m.s.heap \in Nat, m.s.lost \in Nat, m.s.heap <= room, s1.heap <= m.s.heap,
                m.s.heap = s1.heap + (m.s.lost - s1.lost) + FsBlocks(x)
         PROVE  MountDone(s, q, path, i) /\ q.r = TRUE
    <3> DEFINE t == [m.s EXCEPT !.mounts[i] = [@ EXCEPT !.ops = ops, !.fs = m.r]]
               mt == [ms EXCEPT ![i] = [@ EXCEPT !.ops = ops, !.fs = m.r]]
    <3>1. m.r # 0 /\ m.r \in 0 .. MAX_MOUNTS
      BY <2>15 DEF MountSlots
    <3>2. q.s = t /\ q.r = TRUE
      BY <2>12, <3>1 DEF Result
    <3>3. t = [devs |-> s1.devs, heap |-> m.s.heap, mounts |-> mt,
               fss |-> [s1.fss EXCEPT ![m.r] = x], fds |-> s1.fds, lost |-> m.s.lost]
      <4>1. t = [m.s EXCEPT !.mounts = mt]
        <5>1. m.s.mounts = s1.mounts
          BY <2>15
        <5> QED BY ONLY <5>1, Zenon
      <4> HIDE DEF mt
      <4> QED BY <2>15, <4>1
    <3>4. /\ DOMAIN mt = MountSlots /\ MountTrue(mt[i]) /\ mt[i].ops = ops /\ mt[i].fs = m.r /\ mt[i].point = p
          /\ \A j \in MountSlots : j # i => mt[j] = ms[j]
      BY <2>0, <2>1, <2>5, <3>1 DEF MountTrue
    <3> HIDE DEF t, mt, ms
    <3>5. t.devs = s1.devs /\ t.heap = m.s.heap /\ t.mounts = mt /\ t.fss = [s1.fss EXCEPT ![m.r] = x]
          /\ t.fds = s1.fds /\ t.lost = m.s.lost
          /\ t = [devs |-> t.devs, heap |-> t.heap, mounts |-> t.mounts, fss |-> t.fss, fds |-> t.fds,
                  lost |-> t.lost]
      BY <3>3
    <3>6. Grown(s1, t) /\ InUse(t) = InUse(s1) \cup {i}
      <4>1. s1.mounts[i].ops = None /\ \A j \in MountSlots : j # i => t.mounts[j] = s1.mounts[j]
        BY <2>5, <3>4, <3>5 DEF ms
      <4>2. t.heap \in Nat /\ t.lost \in Nat /\ t.heap <= room /\ s1.heap <= t.heap
            /\ t.heap = s1.heap + (t.lost - s1.lost) + FsBlocks(x)
        BY <2>15, <3>5
      <4>3. DOMAIN t.mounts = MountSlots /\ MountTrue(t.mounts[i]) /\ t.mounts[i].ops = x.ops
            /\ t.mounts[i].fs = m.r
        BY <2>15, <3>4, <3>5
      <4> HIDE DEF t
      <4> QED BY <2>1, <2>9, <2>15, <3>5, <4>1, <4>2, <4>3, FsMounted
    <3>7. Grown(s, t)
      BY <2>8, <3>6, GrownTwice
    <3> QED BY <2>1, <2>4, <2>8, <3>2, <3>4, <3>5, <3>6, <3>7 DEF MountDone, p
  <2>16. MountDone(s, q, path, i)
    BY <2>11, <2>14, <2>15 DEF FsMade
  <2>17. ops = "ustar" /\ HasRoom(s) => q.r
    BY <2>11, <2>13, <2>15 DEF FsMade
  <2> QED BY <2>16, <2>17 DEF q, i
<1> QED BY <1>2, <1>3

----------------------------------------------------------------------------
(* The boot *)

\* What the boot does to a state: more is mounted, no name is registered.
Mounts(s, t) == Grown(s, t) /\ t.devs = s.devs

RootMounted(t) == \E i \in InUse(t) : t.mounts[i].point = RootPoint

\* To mount nothing is a sequence of mounts.
LEMMA MountsSame == ASSUME NEW s, Good(s)  PROVE Mounts(s, s)
  BY GrownSame DEF Mounts

\* Mounts after mounts are mounts.
LEMMA MountsTwice ==
  ASSUME NEW s, NEW t, NEW u, Good(s), Mounts(s, t), Mounts(t, u)
  PROVE  Mounts(s, u)
  BY GrownTwice DEF Mounts

\* A good state has its types and its mounts apart.
LEMMA GoodFits == ASSUME NEW s, Good(s), room \in Nat  PROVE Fits(s) /\ OwnMounts(s)
  BY DEF Good, Fits, Accounted

\* Nothing mounted later takes the mount of / away.
LEMMA RootStays ==
  ASSUME NEW s, NEW t, Grown(s, t), RootMounted(s)
  PROVE  RootMounted(t)
<1>1. PICK i \in InUse(s) : s.mounts[i].point = RootPoint
  BY DEF RootMounted
<1>2. i \in InUse(t) /\ t.mounts[i].point = RootPoint
  BY <1>1 DEF Grown, InUse
<1> QED BY <1>2 DEF RootMounted

\* The node of the initrd is registered from the heap, and mounts nothing.
LEMMA Registers ==
  ASSUME NEW s, Good(s), room \in Nat
  PROVE  /\ Grown(s, dev_register(s, InitrdNode)) /\ InUse(dev_register(s, InitrdNode)) = InUse(s)
<1> DEFINE t == dev_register(s, InitrdNode)
<1>1. CASE t = s
  BY <1>1, GrownSame
<1>2. CASE t # s
  <2>1. t = [s EXCEPT !.devs = Append(@, InitrdNode), !.heap = @ + 1] /\ s.heap < room
    BY <1>2 DEF dev_register
  <2>2. /\ s = [devs |-> s.devs, heap |-> s.heap, mounts |-> s.mounts, fss |-> s.fss,
                fds |-> s.fds, lost |-> s.lost]
        /\ s.devs \in Seq(Names) /\ s.heap \in Nat /\ DOMAIN s.mounts = MountSlots
        /\ \A i \in MountSlots : MountTrue(s.mounts[i])
    BY DEF Good, IsState
  <2> DEFINE d == Append(s.devs, InitrdNode)
             a == [s EXCEPT !.devs = d]
  <2>3. InitrdNode \in Names
    BY DEF InitrdNode, Names
  <2>4. d \in Seq(Names) /\ Len(d) = Len(s.devs) + 1 /\ Len(s.devs) \in Nat
    BY <2>2, <2>3
  <2> HIDE DEF d
  <2>5. a = [devs |-> d, heap |-> s.heap, mounts |-> s.mounts, fss |-> s.fss,
             fds |-> s.fds, lost |-> s.lost]
    BY <2>2
  <2>6. t = [a EXCEPT !.heap = @ + 1] /\ s.heap < room
    BY <2>1 DEF d
  <2> HIDE DEF a, t
  <2>7. t = [devs |-> d, heap |-> s.heap + 1, mounts |-> s.mounts, fss |-> s.fss,
             fds |-> s.fds, lost |-> s.lost]
    BY <2>5, <2>6
  <2>8. t.devs = d /\ t.heap = s.heap + 1 /\ t.mounts = s.mounts /\ t.fss = s.fss /\ t.fds = s.fds
        /\ t.lost = s.lost
        /\ t = [devs |-> t.devs, heap |-> t.heap, mounts |-> t.mounts, fss |-> t.fss, fds |-> t.fds,
                lost |-> t.lost]
    BY <2>7
  <2>9. t.heap \in Nat /\ t.heap <= room /\ s.heap <= t.heap
        /\ t.heap = s.heap + (Len(t.devs) - Len(s.devs))
    BY <2>2, <2>4, <2>6, <2>8
  <2>10. Grown(s, t) /\ InUse(t) = InUse(s)
    BY <2>2, <2>4, <2>8, <2>9, GoodLike
  <2> QED BY <2>10 DEF t
<1> QED BY <1>1, <1>2

\* A line of fstab mounts at most one file system.
LEMMA LineMounts ==
  ASSUME NEW s, Good(s), room \in Nat, NEW k \in DOMAIN FstabLines, NEW fails
  PROVE  Mounts(s, MountLine(s, FstabLines[k], fails))
<1>1. CASE FstabLines[k].ext2
  <2> DEFINE m == vfs_mount(s, FstabLines[k].point, "ext2", FstabLines[k].dev, fails)
             p == FstabLines[k].point
             dev == FstabLines[k].dev
  <2>1. MountLine(s, FstabLines[k], fails) = m.s
    BY <1>1 DEF MountLine
  <2>0. IsText(p) /\ dev \in MountedDevs
    BY VfsAssumption DEF IsText, MountedDevs
  <2> HIDE DEF p, dev
  <2>2. MountDone(s, vfs_mount(s, p, "ext2", dev, fails), p, First(FreeMounts(s)))
    BY <2>0, MountDoes
  <2>3. Mounts(s, m.s)
    BY <2>2 DEF MountDone, Mounts, p, dev
  <2> QED BY <2>1, <2>3
<1>2. CASE ~FstabLines[k].ext2
  BY <1>2, MountsSame DEF MountLine
<1> QED BY <1>1, <1>2

\* The lines of fstab mount one after the other.
LEMMA LinesMount ==
  ASSUME NEW a, Good(a.s), room \in Nat, NEW fails
  PROVE  Mounts(a.s, MountLines(a, fails))
<1> DEFINE n == Len(FstabLines)
           Loop(m, g) == g[0] = a.s /\ \A k \in 1 .. m : g[k] = MountLine(g[k - 1], FstabLines[k], fails)
           IsLoop(g) == g = [k \in 0 .. n |-> g[k]]
           Done == {m \in 0 .. n : \E g : IsLoop(g) /\ Loop(m, g)}
           p == CHOOSE g : g = [k \in 0 .. n |->
                  IF k = 0 THEN a.s ELSE MountLine(g[k - 1], FstabLines[k], fails)]
<1>1. n \in Nat
  BY VfsAssumption
<1>2. 0 \in Done
  <2> DEFINE g == [k \in 0 .. n |-> a.s]
  <2>1. g = [k \in 0 .. n |-> g[k]] /\ g[0] = a.s /\ 1 .. 0 = {} /\ 0 \in 0 .. n
    BY <1>1
  <2> HIDE DEF g, n
  <2>2. Loop(0, g) /\ IsLoop(g)
    BY <2>1
  <2> QED BY <2>1, <2>2
<1>3. ASSUME NEW m \in 0 .. n - 1, m \in Done
      PROVE  m + 1 \in Done
  <2>1. PICK g : IsLoop(g) /\ Loop(m, g)
    BY <1>3
  <2> HIDE DEF n
  <2> DEFINE v == MountLine(g[m], FstabLines[m + 1], fails)
             h == [k \in 0 .. n |-> IF k = m + 1 THEN v ELSE g[k]]
  <2>2. m + 1 \in 0 .. n /\ m \in 0 .. n /\ m + 1 \in 1 .. n /\ (m + 1) - 1 = m
    BY <1>1
  <2> HIDE DEF v
  <2>3. IsLoop(h) /\ h[m + 1] = v /\ \A k \in 0 .. n : k # m + 1 => h[k] = g[k]
    BY <2>2
  <2> HIDE DEF h
  <2>4. h[0] = a.s /\ h[m] = g[m]
    BY <1>1, <2>1, <2>2, <2>3
  <2>5. ASSUME NEW k \in 1 .. m + 1
        PROVE  h[k] = MountLine(h[k - 1], FstabLines[k], fails)
    <3>1. CASE k = m + 1
      BY <2>2, <2>3, <2>4, <3>1 DEF v
    <3>2. CASE k # m + 1
      <4>1. k \in 1 .. m /\ k \in 0 .. n /\ k - 1 \in 0 .. n /\ k - 1 # m + 1
        BY <1>1, <3>2
      <4>2. h[k] = g[k] /\ h[k - 1] = g[k - 1]
        BY <2>3, <3>2, <4>1
      <4> QED BY <2>1, <4>1, <4>2
    <3> QED BY <3>1, <3>2
  <2> HIDE DEF IsLoop
  <2> QED BY <2>2, <2>3, <2>4, <2>5
<1>4. n \in Done
  <2> HIDE DEF Done, n
  <2>1. 0 .. n \subseteq Done
    BY <1>1, <1>2, <1>3, UpToBound
  <2> QED BY <1>1, <2>1
<1>5. PICK g : IsLoop(g) /\ Loop(n, g)
  BY <1>4
<1> HIDE DEF n
<1>6. g = [k \in 0 .. n |-> IF k = 0 THEN a.s ELSE MountLine(g[k - 1], FstabLines[k], fails)]
  <2>1. \A k \in 0 .. n : g[k] = IF k = 0 THEN a.s ELSE MountLine(g[k - 1], FstabLines[k], fails)
    <3> SUFFICES ASSUME NEW k \in 0 .. n
                 PROVE  g[k] = IF k = 0 THEN a.s ELSE MountLine(g[k - 1], FstabLines[k], fails)
      OBVIOUS
    <3>1. k = 0 \/ k \in 1 .. n
      BY <1>1
    <3> QED BY <1>5, <3>1
  <2> QED BY <1>5, <2>1
<1>7. p = [k \in 0 .. n |-> IF k = 0 THEN a.s ELSE MountLine(p[k - 1], FstabLines[k], fails)]
  BY <1>6
<1> HIDE DEF p
<1>8. \A k \in 1 .. n : p[k] = MountLine(p[k - 1], FstabLines[k], fails)
  <2> SUFFICES ASSUME NEW k \in 1 .. n
               PROVE  p[k] = MountLine(p[k - 1], FstabLines[k], fails)
    OBVIOUS
  <2>1. k \in 0 .. n /\ k # 0
    BY <1>1
  <2> QED BY <1>7, <2>1
<1>9. 0 .. n \subseteq {k \in 0 .. n : Mounts(a.s, p[k])}
  <2> DEFINE True == {k \in 0 .. n : Mounts(a.s, p[k])}
  <2>1. 0 \in True
    BY <1>1, <1>7, MountsSame
  <2>2. ASSUME NEW k \in 0 .. n - 1, k \in True
        PROVE  k + 1 \in True
    <3>1. k + 1 \in 1 .. n /\ k + 1 \in 0 .. n /\ (k + 1) - 1 = k
      BY <1>1
    <3>2. p[k + 1] = MountLine(p[k], FstabLines[k + 1], fails)
      BY <1>8, <3>1
    <3>0. k + 1 \in DOMAIN FstabLines
      BY <3>1, VfsAssumption DEF n
    <3>3. Mounts(a.s, p[k]) /\ Good(p[k])
      BY <2>2 DEF Mounts, Grown
    <3>4. Mounts(p[k], p[k + 1])
      BY <3>0, <3>2, <3>3, LineMounts
    <3> QED BY <3>1, <3>3, <3>4, MountsTwice
  <2> HIDE DEF True
  <2>3. 0 .. n \subseteq True
    BY <1>1, <2>1, <2>2, UpToBound
  <2> QED BY <2>3 DEF True
<1>10. Mounts(a.s, p[n])
  BY <1>1, <1>9
<1>11. MountLines(a, fails) = IF a.r THEN p[n] ELSE a.s
  BY DEF MountLines, p, n
<1>12. CASE a.r
  BY <1>10, <1>11, <1>12
<1>13. CASE ~a.r
  BY <1>11, <1>13, MountsSame
<1> QED BY <1>12, <1>13

\* Reading fstab leaves no trace but what its lines mount.
LEMMA FstabMounts ==
  ASSUME NEW s, Good(s), room \in Nat, NEW fails
  PROVE  Mounts(s, fstab_parse_and_mount(s, fails))
<1> DEFINE o == vfs_open(s, Fstab, fails)
           a == ReadWhole(o, fails)
<1>1. Fits(s) /\ OwnMounts(s)
  BY GoodFits
<1>2. Opened(s, o)
  BY <1>1, OpensOpened
<1>3. a.s = s
  BY <1>1, LooksKeep DEF vfs_read_all
<1>4. fstab_parse_and_mount(s, fails) =
        IF o.r = NoFile THEN vfs_read_all(o.s, EtcDir, fails).s ELSE MountLines(a, fails)
  BY DEF fstab_parse_and_mount, FstabFrom, vfs_read_all
<1> HIDE DEF o, a
<1>5. CASE o.r = NoFile
  <2>1. o.s = s
    BY <1>1, <1>2, <1>5, NotOpened
  <2>2. fstab_parse_and_mount(s, fails) = s
    BY <1>1, <1>4, <1>5, <2>1, LooksKeep
  <2> QED BY <2>2, MountsSame
<1>6. CASE o.r # NoFile
  <2>1. Mounts(a.s, MountLines(a, fails))
    BY <1>3, LinesMount
  <2> QED BY <1>3, <1>4, <1>6, <2>1
<1> QED BY <1>5, <1>6

\* UseRoot, the listing, the test file and fstab, mounts file systems only.
LEMMA UseMounts ==
  ASSUME NEW s, Good(s), room \in Nat, NEW fails
  PROVE  Mounts(s, UseRoot(s, fails))
<1> DEFINE a == vfs_read_all(s, TestFile, fails).s
           b == fstab_parse_and_mount(a, fails)
<1>1. a = s
  BY GoodFits, LooksKeep
<1>2. Mounts(s, b)
  BY <1>1, FstabMounts
<1>3. UseRoot(s, fails) = vfs_list_dir(b, DataDir, fails)
  BY DEF UseRoot
<1> HIDE DEF b
<1>4. vfs_list_dir(b, DataDir, fails) = b
  BY <1>2, GoodFits, LooksKeep DEF Mounts, Grown
<1> QED BY <1>2, <1>3, <1>4

\* The point / is never cut.
LEMMA RootPointKept == PointOf(RootPoint) = RootPoint
<1>1. POINT_LEN \in Nat /\ POINT_LEN >= 1
  BY VfsAssumption
<1>2. Len(RootPoint) = 1 /\ RootPoint = <<"/">>
  BY DEF RootPoint
<1>3. (IF Len(RootPoint) < POINT_LEN THEN Len(RootPoint) ELSE POINT_LEN) = 1
  BY <1>1, <1>2
<1>4. SubSeq(<<"/">>, 1, 1) = <<"/">>
  <2> DEFINE r == <<"/">>
             t == SubSeq(r, 1, 1)
  <2>1. r \in Seq({"/"}) /\ Len(r) = 1 /\ r[1] = "/"
    OBVIOUS
  <2> HIDE DEF r
  <2>2. t \in Seq({"/"}) /\ Len(t) = 1 /\ t[1] = "/"
    BY <2>1
  <2> HIDE DEF t
  <2>3. t = <<"/">>
    BY <2>2
  <2> QED BY <2>3 DEF t, r
<1> QED BY <1>2, <1>3, <1>4 DEF PointOf

\* The point /initrd is not cut down to /.
LEMMA InitrdPointKept == PointOf(InitrdPoint) # RootPoint
<1>1. POINT_LEN \in Nat /\ POINT_LEN >= 2
  BY VfsAssumption
<1>2. Len(InitrdPoint) = 2 /\ InitrdPoint \in Seq({"/", "initrd"})
  BY DEF InitrdPoint
<1> DEFINE n == IF Len(InitrdPoint) < POINT_LEN THEN Len(InitrdPoint) ELSE POINT_LEN
<1>3. n = 2
  BY <1>1, <1>2
<1> HIDE DEF n
<1> DEFINE q == SubSeq(InitrdPoint, 1, n)
<1>4. Len(q) = 2
  BY <1>2, <1>3
<1>6. PointOf(InitrdPoint) = q
  BY DEF PointOf, n
<1> HIDE DEF q
<1>5. Len(RootPoint) = 1
  BY DEF RootPoint
<1> QED BY <1>4, <1>5, <1>6

\* The root mounted on the initrd, when there is a slot and room.
LEMMA InitrdRootMounts ==
  ASSUME NEW s, Good(s), room \in Nat, NEW fails
  PROVE  /\ Mounts(s, MountInitrdRoot(s, fails))
         /\ FreeMounts(s) # {} /\ HasRoom(s) => RootMounted(MountInitrdRoot(s, fails))
<1> DEFINE m == vfs_mount(s, RootPoint, "ustar", NoName, fails)
           i == First(FreeMounts(s))
<1>1. /\ MountDone(s, m, RootPoint, i)
      /\ FreeMounts(s) # {} /\ HasRoom(s) => m.r
  BY MountDoes, PointsAreTexts
<1>2. MountInitrdRoot(s, fails) = IF m.r THEN UseRoot(m.s, fails) ELSE m.s
  BY DEF MountInitrdRoot, Rooted
<1> HIDE DEF m, i
<1>3. Mounts(s, m.s) /\ Good(m.s)
  BY <1>1 DEF MountDone, Mounts, Grown
<1>4. Mounts(m.s, UseRoot(m.s, fails))
  BY <1>3, UseMounts
<1>5. Mounts(s, UseRoot(m.s, fails))
  BY <1>3, <1>4, MountsTwice
<1>6. CASE m.r
  <2>1. RootMounted(m.s)
    BY <1>1, <1>6, RootPointKept DEF MountDone, RootMounted
  <2>2. RootMounted(UseRoot(m.s, fails))
    BY <1>4, <2>1, RootStays DEF Mounts
  <2> QED BY <1>2, <1>5, <1>6, <2>2
<1>7. CASE ~m.r
  BY <1>1, <1>2, <1>3, <1>7
<1> QED BY <1>6, <1>7

\* The initrd is mounted in at most one slot, and not at /.
LEMMA InitrdGrows ==
  ASSUME NEW s, Good(s), room \in Nat, NEW fails
  PROVE  /\ Grown(s, MountInitrd(s, fails))
         /\ \E i : InUse(MountInitrd(s, fails)) \subseteq InUse(s) \cup {i}
         /\ InUse(s) = {} => ~RootMounted(MountInitrd(s, fails))
<1> DEFINE r == dev_register(s, InitrdNode)
           m == vfs_mount(r, InitrdPoint, "ustar", NoName, fails)
           t == MountInitrd(s, fails)
           i == First(FreeMounts(r))
<1>1. Grown(s, r) /\ InUse(r) = InUse(s) /\ Good(r)
  BY Registers DEF Grown
<1>2. t = IF ~module \/ r = s THEN s ELSE TryInitrd(m, fails)
  BY DEF MountInitrd
<1> HIDE DEF r
<1>3. MountDone(r, m, InitrdPoint, i)
  BY <1>1, MountDoes, PointsAreTexts
<1> HIDE DEF m, t, i
<1>4. Grown(r, m.s) /\ Good(m.s) /\ InUse(m.s) \subseteq InUse(s) \cup {i}
  BY <1>1, <1>3 DEF MountDone, Grown
<1>9. InUse(s) = {} => ~RootMounted(m.s)
  <2> SUFFICES ASSUME InUse(s) = {}, NEW j \in InUse(m.s)
               PROVE  m.s.mounts[j].point # RootPoint
    BY DEF RootMounted
  <2>1. j = i /\ m.s.mounts[i].point = PointOf(InitrdPoint)
    BY <1>1, <1>3 DEF MountDone
  <2> QED BY <2>1, InitrdPointKept
<1>5. TryInitrd(m, fails) = m.s
  BY <1>4, GoodFits, LooksKeep DEF TryInitrd
<1>6. Grown(s, m.s)
  BY <1>1, <1>4, GrownTwice
<1>7. CASE t = s
  BY <1>7, GrownSame DEF t, RootMounted
<1>8. CASE t = m.s
  BY <1>4, <1>6, <1>8, <1>9 DEF t
<1> QED BY <1>2, <1>5, <1>7, <1>8

\* The root of a disk, with the fallback, leaves / mounted whenever it can; a
\* partition that is not there is not mounted, nor anything in its place.
LEMMA DiskRootGrows ==
  ASSUME NEW s, Good(s), room \in Nat, root \in Roots \ {NoRoot}, NEW fails
  PROVE  /\ Grown(s, MountDiskRoot(s, fails))
         /\ /\ FreeMounts(s) # {} /\ module /\ block_get_partition(root)
            /\ MountDiskRoot(s, fails).heap < room
            /\ InitrdNode \in ToSet(MountDiskRoot(s, fails).devs)
            => RootMounted(MountDiskRoot(s, fails))
         /\ ~block_get_partition(root) => MountDiskRoot(s, fails) = s
<1> DEFINE m == vfs_mount(s, RootPoint, "ext2", root, fails)
           i == First(FreeMounts(s))
           t == MountDiskRoot(s, fails)
           a == vfs_read_all(m.s, TestFile, fails).s
           q == vfs_fd_open(a, TestFile, fails)
           r == dev_register(m.s, InitrdNode)
<1>1. MountDone(s, m, RootPoint, i)
  BY MountDoes, PointsAreTexts DEF MountedDevs
<1>2. t = IF block_get_partition(root)
          THEN IF m.r THEN UseRoot(TryDescriptors(q), fails)
               ELSE IF module THEN FallBack(r, fails)
               ELSE m.s
          ELSE s
  BY DEF MountDiskRoot, OnDisk
<1> HIDE DEF m, i
<1>3. Grown(s, m.s) /\ Good(m.s)
  BY <1>1 DEF MountDone, Grown
<1>4. a = m.s
  BY <1>3, GoodFits, LooksKeep
<1> HIDE DEF a, t
<1>5. TryDescriptors(q) = m.s
  <2>1. Fits(m.s) /\ OwnMounts(m.s)
    BY <1>3, GoodFits
  <2>2. FdOpened(m.s, q)
    BY <1>4, <2>1, FdOpens
  <2> HIDE DEF q
  <2> QED BY <2>1, <2>2, TryKeeps
<1>6. Mounts(m.s, UseRoot(m.s, fails))
  BY <1>3, UseMounts
<1>7. Grown(m.s, r) /\ InUse(r) = InUse(m.s) /\ Good(r)
  BY <1>3, Registers DEF Grown
<1>8. /\ Mounts(r, MountInitrdRoot(r, fails))
      /\ FreeMounts(r) # {} /\ HasRoom(r) => RootMounted(MountInitrdRoot(r, fails))
  BY <1>7, InitrdRootMounts
<1> HIDE DEF r, q
<1>13. ~block_get_partition(root) => t = s
  BY <1>2
<1>9. CASE t = s /\ ~block_get_partition(root)
  BY <1>9, <1>13, GrownSame DEF t
<1>10. CASE m.r /\ t = UseRoot(m.s, fails)
  <2>1. Grown(s, t)
    BY <1>3, <1>6, <1>10, GrownTwice DEF Mounts
  <2>2. RootMounted(m.s)
    BY <1>1, <1>10, RootPointKept DEF MountDone, RootMounted
  <2>3. RootMounted(t)
    BY <1>6, <1>10, <2>2, RootStays DEF Mounts
  <2> QED BY <1>13, <2>1, <2>3 DEF t
<1>11. CASE ~m.r /\ t = FallBack(r, fails)
  <2>1. Grown(s, r)
    BY <1>3, <1>7, GrownTwice
  <2>2. CASE InitrdNode \in ToSet(r.devs)
    <3>1. t = MountInitrdRoot(r, fails)
      BY <1>11, <2>2 DEF FallBack
    <3>2. Grown(s, t) /\ Grown(r, t)
      BY <1>8, <2>1, <3>1, GrownTwice DEF Mounts
    <3>3. ASSUME FreeMounts(s) # {}, t.heap < room
          PROVE  RootMounted(t)
      <4>1. InUse(r) = InUse(s)
        BY <1>1, <1>7, <1>11 DEF MountDone
      <4>2. FreeMounts(r) # {}
        BY <3>3, <4>1 DEF FreeMounts, InUse
      <4>3. r.heap \in Nat /\ t.heap \in Nat /\ r.heap <= t.heap
        BY <1>7, <3>2 DEF Grown, Good, IsState
      <4>4. HasRoom(r)
        BY <3>3, <4>3 DEF HasRoom
      <4> QED BY <1>8, <3>1, <4>2, <4>4
    <3> QED BY <1>13, <3>2, <3>3 DEF t
  <2>3. CASE ~ (InitrdNode \in ToSet(r.devs))
    <3>1. t = r
      BY <1>11, <2>3 DEF FallBack
    <3> QED BY <1>13, <2>1, <2>3, <3>1 DEF t
  <2> QED BY <2>2, <2>3
<1>12. CASE ~module /\ t = m.s
  BY <1>3, <1>12, <1>13 DEF t
<1> QED BY <1>2, <1>5, <1>9, <1>10, <1>11, <1>12

\* The boot's mounting from a state without mounts.
LEMMA BootServes ==
  ASSUME NEW s, Good(s), room \in Nat, InUse(s) = {}, root \in Roots, NEW fails, NEW t,
         t = MountRoot(MountInitrd(s, fails), fails)
  PROVE  /\ Grown(s, t)
         /\ /\ module /\ t.heap < room /\ InitrdNode \in ToSet(t.devs)
            /\ RootKnown
            => RootMounted(t)
         /\ ~RootKnown => ~RootMounted(t)
<1> DEFINE a == MountInitrd(s, fails)
<1>1. Grown(s, a) /\ Good(a)
  BY InitrdGrows DEF Grown
<1>2. PICK i : InUse(a) \subseteq {i}
  BY InitrdGrows
<1>8. ~RootMounted(a)
  BY InitrdGrows
<1>3. FreeMounts(a) # {}
  <2>1. 1 \in MountSlots /\ 2 \in MountSlots
    BY VfsAssumption DEF MountSlots
  <2>2. 1 \notin InUse(a) \/ 2 \notin InUse(a)
    BY <1>2
  <2> QED BY <2>1, <2>2 DEF InUse, FreeMounts
<1>4. t = IF root \in {NoRoot, InitrdRoot}
          THEN IF module THEN MountInitrdRoot(a, fails) ELSE a
          ELSE MountDiskRoot(a, fails)
  BY DEF MountRoot
<1> HIDE DEF a
<1>5. CASE t = MountInitrdRoot(a, fails)
  <2>1. Grown(a, t) /\ (HasRoom(a) => RootMounted(t))
    BY <1>1, <1>3, <1>5, InitrdRootMounts DEF Mounts
  <2>2. t.heap < room => HasRoom(a)
    <3>1. a.heap \in Nat /\ t.heap \in Nat /\ a.heap <= t.heap
      BY <1>1, <2>1 DEF Grown, Good, IsState
    <3> QED BY <3>1 DEF HasRoom
  <2>3. CASE RootKnown
    BY <1>1, <2>1, <2>2, <2>3, GrownTwice
  <2>4. CASE ~RootKnown
    <3>1. t = MountDiskRoot(a, fails) /\ root \in Roots \ {NoRoot} /\ ~block_get_partition(root)
      BY <1>4, <2>4 DEF RootKnown
    <3>2. t = a
      BY <1>1, <3>1, DiskRootGrows
    <3> QED BY <1>1, <1>8, <2>4, <3>2
  <2> QED BY <2>3, <2>4
<1>6. CASE t = MountDiskRoot(a, fails) /\ root \notin {NoRoot, InitrdRoot}
  <2>1. Grown(a, t)
    BY <1>1, <1>6, DiskRootGrows
  <2>2. module /\ t.heap < room /\ InitrdNode \in ToSet(t.devs) /\ block_get_partition(root)
        => RootMounted(t)
    BY <1>1, <1>3, <1>6, DiskRootGrows
  <2>3. Grown(s, t)
    BY <1>1, <2>1, GrownTwice
  <2>4. ~RootKnown => t = a
    BY <1>1, <1>6, DiskRootGrows DEF RootKnown
  <2> QED BY <1>6, <1>8, <2>2, <2>3, <2>4 DEF RootKnown
<1>7. CASE t = a /\ ~module
  BY <1>1, <1>7, <1>8
<1> QED BY <1>4, <1>5, <1>6, <1>7

----------------------------------------------------------------------------
(* Unmounting *)

\* The state without the file system f of slot i.
Unmounted(s, i, f) ==
  [Freed(s, FsBlocks(s.fss[f])) EXCEPT !.mounts[i] = Cleared(@), !.fss[f] = NoFs]

\* Unmounting gives back the blocks and the place of one file system.
LEMMA UnmountedGood ==
  ASSUME NEW s, Good(s), room \in Nat, NEW i \in MountSlots, s.mounts[i].ops # None
  PROVE  LET f == s.mounts[i].fs
             t == Unmounted(s, i, f)
         IN  /\ Good(t) /\ t.fds = s.fds
             /\ \A e \in MountSlots : e # f => t.fss[e] = s.fss[e]
<1> DEFINE f == s.mounts[i].fs
           n == FsBlocks(s.fss[f])
           a == Freed(s, n)
           t == Unmounted(s, i, f)
<1>1. IsState(s) /\ OwnMounts(s) /\ DOMAIN s.fss = MountSlots /\ DOMAIN s.mounts = MountSlots
  BY DEF Good, IsState
<1>2. f \in MountSlots /\ s.fss[f] # NoFs
  BY <1>1, MountServes
<1> HIDE DEF f
<1>3. FsTrue(NoFs) /\ FsBlocks(NoFs) = 0 /\ FsTrue(s.fss[f])
  BY <1>1, <1>2 DEF FsTrue, FsBlocks, NoFs, None, IsState
<1>4. /\ FsSum(s) \in Nat /\ n <= FsSum(s) /\ n \in Nat
      /\ \A u : u.fss = [s.fss EXCEPT ![f] = NoFs] => FsSum(u) = FsSum(s) - n + 0
  <2>1. n \in Nat
    BY <1>3, FsBlocksNat
  <2>2. \A u : u.fss = [s.fss EXCEPT ![f] = NoFs] =>
               FsSum(u) = FsSum(s) - n + 0 /\ n <= FsSum(s) /\ FsSum(s) \in Nat
    BY <1>1, <1>2, <1>3, FsSumChanged
  <2> DEFINE v == [fss |-> [s.fss EXCEPT ![f] = NoFs]]
  <2>3. v.fss = [s.fss EXCEPT ![f] = NoFs]
    OBVIOUS
  <2> HIDE DEF v, n
  <2> QED BY <2>1, <2>2, <2>3
<1>5. n <= s.heap /\ s.heap \in Nat /\ s.heap <= room
  BY <1>1, <1>4, Balance DEF Good, IsState, Accounted
<1> HIDE DEF n
<1>6. a = [devs |-> s.devs, heap |-> s.heap - n, mounts |-> s.mounts, fss |-> s.fss,
           fds |-> s.fds, lost |-> s.lost]
  BY <1>1, <1>4, <1>5, FreedIs
<1> DEFINE mt == [s.mounts EXCEPT ![i] = Cleared(@)]
           ft == [s.fss EXCEPT ![f] = NoFs]
           b == [a EXCEPT !.mounts = mt]
           c == [b EXCEPT !.fss = ft]
<1>7. t = c
  <2>1. a.mounts = s.mounts /\ b.fss = s.fss
    BY <1>6
  <2>2. t = [b EXCEPT !.fss = [b.fss EXCEPT ![f] = NoFs]]
    BY <2>1 DEF Unmounted, n
  <2> QED BY <2>1, <2>2
<1> HIDE DEF a, t, mt, ft
<1>8. b = [devs |-> s.devs, heap |-> s.heap - n, mounts |-> mt, fss |-> s.fss,
           fds |-> s.fds, lost |-> s.lost]
  BY <1>6
<1> HIDE DEF b
<1>9. c = [devs |-> s.devs, heap |-> s.heap - n, mounts |-> mt, fss |-> ft,
           fds |-> s.fds, lost |-> s.lost]
  BY <1>8
<1> HIDE DEF c
<1>10. t.devs = s.devs /\ t.heap = s.heap - n /\ t.mounts = mt /\ t.fss = ft /\ t.fds = s.fds
       /\ t.lost = s.lost
       /\ t = [devs |-> t.devs, heap |-> t.heap, mounts |-> t.mounts, fss |-> t.fss, fds |-> t.fds,
               lost |-> t.lost]
  BY <1>7, <1>9
<1>11. /\ DOMAIN mt = MountSlots /\ mt[i].ops = None /\ MountTrue(mt[i])
       /\ \A j \in MountSlots : j # i => mt[j] = s.mounts[j]
  <2>1. 0 \in 0 .. MAX_MOUNTS
    BY VfsAssumption
  <2> QED BY <1>1, <2>1 DEF mt, Cleared, MountTrue
<1>12. DOMAIN ft = MountSlots /\ ft[f] = NoFs /\ \A e \in MountSlots : e # f => ft[e] = s.fss[e]
  BY <1>1, <1>2 DEF ft
<1>13. (\A j \in MountSlots : MountTrue(mt[j])) /\ \A e \in MountSlots : FsTrue(ft[e])
  BY <1>1, <1>3, <1>11, <1>12 DEF IsState
<1>14. s.heap - n \in Nat /\ s.heap - n <= room
  BY <1>4, <1>5
<1>15. IsState(t)
  BY <1>1, <1>10, <1>11, <1>12, <1>13, <1>14 DEF IsState
<1>16. Accounted(t)
  <2>1. FsSum(t) = FsSum(s) - n + 0 /\ FdSum(t) = FdSum(s)
    BY <1>4, <1>10 DEF FdSum, ft
  <2>2. s.heap - n + 0 = Len(s.devs) + s.lost + (FsSum(s) - n + 0) + FdSum(s)
    <3> DEFINE z == 0
    <3>1. z \in Nat
      OBVIOUS
    <3> HIDE DEF z
    <3>2. s.heap - n + z = Len(s.devs) + s.lost + (FsSum(s) - n + z) + FdSum(s)
      BY <1>4, <3>1, Balance
    <3> QED BY <3>2 DEF z
  <2>3. s.heap - n + 0 = s.heap - n
    BY <1>4, <1>5
  <2> QED BY <1>10, <1>14, <2>1, <2>2, <2>3 DEF Accounted
<1>17. InUse(t) = InUse(s) \ {i} /\ i \in InUse(s)
  BY <1>10, <1>11 DEF InUse
<1>18. OwnMounts(t)
  <2>1. \A j \in InUse(s) \ {i} : /\ j \in MountSlots /\ mt[j] = s.mounts[j] /\ s.mounts[j].fs # f
                                  /\ s.mounts[j].fs \in MountSlots
    <3> SUFFICES ASSUME NEW j \in InUse(s) \ {i}
                 PROVE  /\ j \in MountSlots /\ mt[j] = s.mounts[j] /\ s.mounts[j].fs # f
                        /\ s.mounts[j].fs \in MountSlots
      OBVIOUS
    <3>1. j \in MountSlots /\ s.mounts[j].ops # None
      BY DEF InUse
    <3>2. s.mounts[j].fs # f
      BY <1>1, <1>17 DEF OwnMounts, f
    <3> QED BY <1>1, <1>11, <3>1, <3>2, MountServes
  <2>2. {e \in MountSlots : t.fss[e] # NoFs} = {e \in MountSlots : s.fss[e] # NoFs} \ {f}
    BY <1>10, <1>12
  <2>3. {s.mounts[j].fs : j \in InUse(s)} \ {f} = {mt[j].fs : j \in InUse(s) \ {i}}
    BY <2>1 DEF f
  <2>4. \A j, k \in InUse(t) : j # k => t.mounts[j].fs # t.mounts[k].fs
    BY <1>1, <1>10, <1>17, <2>1 DEF OwnMounts
  <2>5. \A j \in InUse(t) : t.fss[t.mounts[j].fs].ops = t.mounts[j].ops
    BY <1>1, <1>10, <1>12, <1>17, <2>1 DEF OwnMounts
  <2>6. {t.mounts[j].fs : j \in InUse(t)} = {mt[j].fs : j \in InUse(s) \ {i}}
    BY <1>10, <1>17
  <2>7. {e \in MountSlots : s.fss[e] # NoFs} = {s.mounts[j].fs : j \in InUse(s)}
    BY <1>1 DEF OwnMounts
  <2>8. {e \in MountSlots : t.fss[e] # NoFs} = {t.mounts[j].fs : j \in InUse(t)}
    BY <2>2, <2>3, <2>6, <2>7
  <2> QED BY <2>4, <2>5, <2>8 DEF OwnMounts
<1>19. Good(t)
  BY <1>15, <1>16, <1>18 DEF Good
<1> QED BY <1>10, <1>12, <1>19 DEF f, t

----------------------------------------------------------------------------
(* The mount of a path *)

\* Slot i is before slot j in the order of MountOf.
Ahead(i, j) ==
  \/ Len(mounts[i].point) > Len(mounts[j].point)
  \/ Len(mounts[i].point) = Len(mounts[j].point) /\ i <= j

Candidates(p) ==
  {i \in MountSlots :
     /\ mounts[i].ops # None
     /\ Len(mounts[i].point) > 0 /\ IsPrefix(mounts[i].point, p)}

\* The mount found is the one with the longest point.
LEMMA FoundLongest ==
  ASSUME NEW p, \A i \in MountSlots : Len(mounts[i].point) \in Nat, find_mount(State, p) # 0
  PROVE  /\ find_mount(State, p) = MountOf(p) /\ MountOf(p) \in MountSlots
         /\ mounts[MountOf(p)].ops # None
<1> DEFINE n == MAX_MOUNTS
           C == Candidates(p)
           Best(b, k) == \/ b = 0 /\ \A j \in C : ~(j <= k)
                         \/ b \in C /\ b <= k /\ \A j \in C : j <= k => Ahead(b, j)
<1>1. n \in Nat /\ MountSlots = 1 .. n
  BY VfsAssumption DEF MountSlots
<1>2. State.mounts = mounts
  BY DEF State
<1>3. PICK best : /\ best[0] = 0 /\ find_mount(State, p) = best[n]
                  /\ \A k \in 1 .. n : best[k] = Longer(State, p, best[k - 1], k)
  BY MountLoop
<1>4. ASSUME NEW b, NEW k \in 1 .. n, Best(b, k - 1)
      PROVE  Best(Longer(State, p, b, k), k)
  <2> DEFINE L(i) == Len(mounts[i].point)
  <2>1. \A i \in MountSlots : L(i) \in Nat
    OBVIOUS
  <2>2. \A i \in MountSlots : i \in C <=> mounts[i].ops # None /\ L(i) > 0 /\ IsPrefix(mounts[i].point, p)
    BY DEF Candidates
  <2>3. C \subseteq MountSlots
    BY DEF Candidates
  <2>4. \A i, j : Ahead(i, j) <=> (L(i) > L(j) \/ (L(i) = L(j) /\ i <= j))
    BY DEF Ahead
  <2>5. Longer(State, p, b, k) =
          IF mounts[k].ops # None /\ L(k) > (IF b = 0 THEN 0 ELSE L(b)) /\ IsPrefix(mounts[k].point, p)
          THEN k ELSE b
    BY <1>2 DEF Longer, Better
  <2>6. k \in MountSlots /\ k # 0 /\ 0 \notin C /\ k <= k
    BY <1>1, <2>3
  <2> HIDE DEF C, L
  <2>7. CASE b = 0 /\ \A j \in C : ~(j <= k - 1)
    <3>1. \A j \in C : j <= k => j = k
      BY <1>1, <2>3, <2>7
    <3>2. CASE k \in C
      <4>1. Longer(State, p, b, k) = k
        BY <2>2, <2>5, <2>6, <2>7, <3>2
      <4> QED BY <2>4, <2>6, <3>1, <3>2, <4>1
    <3>3. CASE k \notin C
      <4>1. Longer(State, p, b, k) = b
        BY <2>2, <2>5, <2>6, <2>7, <3>3
      <4> QED BY <2>7, <3>1, <3>3, <4>1
    <3> QED BY <3>2, <3>3
  <2>8. CASE b \in C /\ b <= k - 1 /\ \A j \in C : j <= k - 1 => Ahead(b, j)
    <3>1. b \in 1 .. n /\ b \in MountSlots /\ b # 0 /\ b <= k /\ L(b) \in Nat /\ L(b) > 0 /\ L(k) \in Nat
      BY <1>1, <2>1, <2>2, <2>3, <2>6, <2>8
    <3>2. \A j \in C : j <= k => (j = k \/ (j <= k - 1 /\ Ahead(b, j)))
      BY <1>1, <2>3, <2>8
    <3>3. CASE k \in C /\ L(k) > L(b)
      <4>1. Longer(State, p, b, k) = k
        BY <2>2, <2>5, <2>6, <3>1, <3>3
      <4>2. \A j \in C : j <= k => Ahead(k, j)
        BY <2>1, <2>3, <2>4, <2>6, <3>1, <3>2, <3>3
      <4> QED BY <2>6, <3>3, <4>1, <4>2
    <3>4. CASE ~(k \in C /\ L(k) > L(b))
      <4>1. Longer(State, p, b, k) = b
        BY <2>2, <2>5, <2>6, <3>1, <3>4
      <4>2. \A j \in C : j <= k => Ahead(b, j)
        BY <2>4, <3>1, <3>2, <3>4
      <4> QED BY <2>8, <3>1, <4>1, <4>2
    <3> QED BY <3>3, <3>4
  <2> QED BY <1>4, <2>7, <2>8
<1> DEFINE True == {k \in 0 .. n : Best(best[k], k)}
<1>5. 0 \in True
  BY <1>1, <1>3 DEF Candidates
<1>6. ASSUME NEW k \in 0 .. n - 1, k \in True
      PROVE  k + 1 \in True
  <2>1. k + 1 \in 1 .. n /\ k + 1 \in 0 .. n /\ (k + 1) - 1 = k
    BY <1>1
  <2>2. best[k + 1] = Longer(State, p, best[k], k + 1) /\ Best(best[k], (k + 1) - 1)
    BY <1>3, <1>6, <2>1
  <2> HIDE DEF Best
  <2>3. Best(best[k + 1], k + 1)
    BY <1>4, <2>1, <2>2
  <2> QED BY <2>1, <2>3
<1>7. Best(best[n], n)
  <2> HIDE DEF True
  <2>1. 0 .. n \subseteq True
    BY <1>1, <1>5, <1>6, UpToBound
  <2>2. n \in True
    BY <1>1, <2>1
  <2> QED BY <2>2 DEF True
<1> DEFINE b == best[n]
<1>8. b \in C /\ \A j \in C : Ahead(b, j)
  BY <1>1, <1>3, <1>7 DEF Candidates
<1> HIDE DEF b
<1>9. \A i \in C : (\A j \in C : Ahead(i, j)) => i = b
  <2> SUFFICES ASSUME NEW i \in C, \A j \in C : Ahead(i, j)
               PROVE  i = b
    OBVIOUS
  <2>1. Ahead(i, b) /\ Ahead(b, i)
    BY <1>8
  <2>2. /\ i \in Nat /\ b \in Nat
        /\ Len(mounts[i].point) \in Nat /\ Len(mounts[b].point) \in Nat
    BY <1>1, <1>8 DEF Candidates
  <2> QED BY <2>1, <2>2 DEF Ahead
<1>10. MountOf(p) = CHOOSE i \in C : \A j \in C : Ahead(i, j)
  BY DEF MountOf, Candidates, Ahead
<1>11. MountOf(p) = b
  BY <1>8, <1>9, <1>10
<1> QED BY <1>3, <1>8, <1>11 DEF b, Candidates

----------------------------------------------------------------------------
(* The member of a name *)

\* A path that begins with one piece, or with two.
LEMMA PrefixOf ==
  ASSUME NEW S, NEW p \in Seq(S), NEW a \in S, NEW b \in S
  PROVE  /\ IsPrefix(<<a>>, p) <=> Len(p) >= 1 /\ p[1] = a
         /\ IsPrefix(<<a, b>>, p) <=> Len(p) >= 2 /\ p[1] = a /\ p[2] = b
<1>1. ASSUME NEW q \in Seq(S), Len(p) >= Len(q)
      PROVE  SubSeq(q, 1, Len(q)) = SubSeq(p, 1, Len(q)) <=> \A i \in 1 .. Len(q) : p[i] = q[i]
  <2> DEFINE x == SubSeq(q, 1, Len(q))
             y == SubSeq(p, 1, Len(q))
  <2>1. /\ x \in Seq(S) /\ Len(x) = Len(q) /\ \A i \in 1 .. Len(q) : x[i] = q[i]
        /\ y \in Seq(S) /\ Len(y) = Len(q) /\ \A i \in 1 .. Len(q) : y[i] = p[i]
    BY <1>1
  <2> HIDE DEF x, y
  <2>2. x = y <=> \A i \in 1 .. Len(q) : x[i] = y[i]
    BY <2>1
  <2> QED BY <2>1, <2>2 DEF x, y
<1>2. ASSUME NEW q \in Seq(S)
      PROVE  IsPrefix(q, p) <=> Len(p) >= Len(q) /\ \A i \in 1 .. Len(q) : p[i] = q[i]
  BY <1>1 DEF IsPrefix
<1>3. <<a>> \in Seq(S) /\ Len(<<a>>) = 1 /\ <<a>>[1] = a
  OBVIOUS
<1>4. <<a, b>> \in Seq(S) /\ Len(<<a, b>>) = 2 /\ <<a, b>>[1] = a /\ <<a, b>>[2] = b
  OBVIOUS
<1>5. IsPrefix(<<a>>, p) <=> Len(p) >= 1 /\ p[1] = a
  <2> DEFINE q == <<a>>
  <2>1. q \in Seq(S) /\ Len(q) = 1 /\ q[1] = a
    BY <1>3
  <2> HIDE DEF q
  <2>2. IsPrefix(q, p) <=> Len(p) >= 1 /\ p[1] = a
    BY <1>2, <2>1
  <2> QED BY <2>2 DEF q
<1>6. IsPrefix(<<a, b>>, p) <=> Len(p) >= 2 /\ p[1] = a /\ p[2] = b
  <2> DEFINE q == <<a, b>>
  <2>1. q \in Seq(S) /\ Len(q) = 2 /\ q[1] = a /\ q[2] = b
    BY <1>4
  <2> HIDE DEF q
  <2>2. IsPrefix(q, p) <=> Len(p) >= 2 /\ p[1] = a /\ p[2] = b
    BY <1>2, <2>1
  <2> QED BY <2>2 DEF q
<1> QED BY <1>5, <1>6

\* A sequence put together again from its first piece and its tail.
LEMMA HeadAndTail ==
  ASSUME NEW S, NEW a \in S, NEW r \in Seq(S), NEW p \in Seq(S)
  PROVE  p = <<a>> \o r <=> p # <<>> /\ Head(p) = a /\ Tail(p) = r
<1>1. ASSUME p = <<a>> \o r
      PROVE  p # <<>> /\ Head(p) = a /\ Tail(p) = r
  <2> DEFINE x == <<a>> \o r
             t == Tail(x)
  <2>1. x \in Seq(S) /\ Len(x) = Len(r) + 1 /\ x[1] = a /\ \A i \in 1 .. Len(r) : x[i + 1] = r[i]
    OBVIOUS
  <2> HIDE DEF x
  <2>2. x # <<>> /\ Head(x) = a
    BY <2>1
  <2>3. t \in Seq(S) /\ Len(t) = Len(r) /\ \A i \in 1 .. Len(r) : t[i] = r[i]
    BY <2>1, <2>2
  <2> HIDE DEF t
  <2>4. t = r
    BY <2>3
  <2> QED BY <1>1, <2>2, <2>4 DEF x, t
<1>2. ASSUME p # <<>>, Head(p) = a, Tail(p) = r
      PROVE  p = <<a>> \o r
  <2> DEFINE x == <<a>> \o r
  <2>1. x \in Seq(S) /\ Len(x) = Len(r) + 1 /\ x[1] = a /\ \A i \in 1 .. Len(r) : x[i + 1] = r[i]
    OBVIOUS
  <2>2. Len(p) = Len(r) + 1 /\ p[1] = a /\ \A i \in 1 .. Len(r) : p[i + 1] = r[i]
    BY <1>2
  <2> HIDE DEF x
  <2>3. \A i \in 1 .. Len(p) : i = 1 \/ (i - 1 \in 1 .. Len(r) /\ (i - 1) + 1 = i)
    BY <2>2
  <2>4. \A i \in 1 .. Len(p) : p[i] = x[i]
    BY <2>1, <2>2, <2>3
  <2>5. p = x
    BY <2>1, <2>2, <2>4
  <2> QED BY <2>5 DEF x
<1> QED BY <1>1, <1>2

\* The same with two pieces.
LEMMA TwoAndRest ==
  ASSUME NEW S, NEW a \in S, NEW b \in S, NEW r \in Seq(S), NEW p \in Seq(S)
  PROVE  p = <<a, b>> \o r <=> Len(p) >= 2 /\ p[1] = a /\ p[2] = b /\ SubSeq(p, 3, Len(p)) = r
<1> DEFINE x == <<a, b>> \o r
           t == SubSeq(p, 3, Len(p))
<1>1. x \in Seq(S) /\ Len(x) = Len(r) + 2 /\ x[1] = a /\ x[2] = b
  OBVIOUS
<1>2. \A i \in 1 .. Len(r) : x[i + 2] = r[i]
  OBVIOUS
<1>3. ASSUME Len(p) >= 2
      PROVE  t \in Seq(S) /\ Len(t) = Len(p) - 2 /\ \A i \in 1 .. Len(p) - 2 : t[i] = p[i + 2]
  <2>1. t \in Seq(S)
    BY <1>3
  <2>2. Len(t) = Len(p) - 2
    <3>1. CASE Len(p) = 2
      BY <3>1
    <3>2. CASE Len(p) >= 3
      BY <3>2
    <3>3. ASSUME NEW n \in Nat, n >= 2
          PROVE  n = 2 \/ n >= 3
      BY <3>3
    <3>4. Len(p) = 2 \/ Len(p) >= 3
      <4>1. Len(p) \in Nat
        OBVIOUS
      <4> QED BY ONLY <1>3, <3>3, <4>1, Zenon
    <3> HIDE DEF t
    <3> QED BY <3>1, <3>2, <3>4
  <2>3. ASSUME NEW i \in 1 .. Len(p) - 2
        PROVE  t[i] = p[i + 2]
    <3>1. t[i] = p[(i - 1) + 3] /\ (i - 1) + 3 = i + 2
      BY <1>3
    <3> QED BY <3>1
  <2> QED BY <2>1, <2>2, <2>3
<1> HIDE DEF x, t
<1>4. ASSUME p = x
      PROVE  Len(p) >= 2 /\ p[1] = a /\ p[2] = b /\ t = r
  <2>1. Len(p) >= 2 /\ Len(p) - 2 = Len(r)
    BY <1>1, <1>4
  <2>2. \A i \in 1 .. Len(r) : t[i] = r[i]
    BY <1>2, <1>3, <1>4, <2>1
  <2>3. t = r
    BY <1>3, <2>1, <2>2
  <2> QED BY <1>1, <1>4, <2>1, <2>3
<1>5. ASSUME Len(p) >= 2, p[1] = a, p[2] = b, t = r
      PROVE  p = x
  <2>1. Len(p) = Len(x) /\ Len(p) \in Nat /\ Len(r) = Len(p) - 2
    BY <1>1, <1>3, <1>5
  <2>2. \A i \in 1 .. Len(p) : i = 1 \/ i = 2 \/ (i - 2 \in 1 .. Len(r) /\ (i - 2) + 2 = i)
    BY <2>1
  <2>3. \A i \in 1 .. Len(r) : p[i + 2] = r[i]
    BY <1>3, <1>5, <2>1
  <2>4. \A i \in 1 .. Len(p) : p[i] = x[i]
    BY <1>1, <1>2, <1>5, <2>2, <2>3
  <2> QED BY <1>1, <2>1, <2>4
<1> QED BY <1>4, <1>5 DEF x, t

\* The names that become rel are those of Member.
LEMMA NormalisedIs ==
  ASSUME NEW p \in Seq(Pieces), NEW rel \in Seq(Pieces)
  PROVE  Normalised(p) = rel <=>
           \/ p \in {<<"/">> \o rel, <<".", "/">> \o rel}
           \/ p = rel /\ ~ IsPrefix(<<"/">>, rel) /\ ~ IsPrefix(<<".", "/">>, rel)
<1>1. "/" \in Pieces /\ "." \in Pieces /\ "/" # "."
  BY VfsAssumption
<1>2. p = <<"/">> \o rel <=> p # <<>> /\ Head(p) = "/" /\ Tail(p) = rel
  BY <1>1, HeadAndTail
<1>3. p = <<".", "/">> \o rel <=> Len(p) >= 2 /\ p[1] = "." /\ p[2] = "/" /\ SubSeq(p, 3, Len(p)) = rel
  BY <1>1, TwoAndRest
<1>4. IsPrefix(<<"/">>, rel) <=> Len(rel) >= 1 /\ rel[1] = "/"
  BY <1>1, PrefixOf
<1>5. IsPrefix(<<".", "/">>, rel) <=> Len(rel) >= 2 /\ rel[1] = "." /\ rel[2] = "/"
  BY <1>1, PrefixOf
<1>6. /\ (p # <<>> <=> Len(p) >= 1) /\ (p # <<>> => Head(p) = p[1]) /\ Len(p) \in Nat
  OBVIOUS
<1>7. CASE Len(p) >= 2 /\ p[1] = "." /\ p[2] = "/"
  <2>1. Normalised(p) = SubSeq(p, 3, Len(p))
    BY <1>7 DEF Normalised
  <2>2. ~(p = <<"/">> \o rel)
    BY <1>1, <1>2, <1>6, <1>7
  <2> QED BY <1>3, <1>5, <1>7, <2>1, <2>2
<1>8. CASE ~(Len(p) >= 2 /\ p[1] = "." /\ p[2] = "/") /\ Len(p) >= 1 /\ p[1] = "/"
  <2>1. Normalised(p) = Tail(p)
    BY <1>6, <1>8 DEF Normalised, DropSlash
  <2> QED BY <1>2, <1>3, <1>4, <1>6, <1>8, <2>1
<1>9. CASE ~(Len(p) >= 2 /\ p[1] = "." /\ p[2] = "/") /\ ~(Len(p) >= 1 /\ p[1] = "/")
  <2>1. Normalised(p) = p
    BY <1>6, <1>9 DEF Normalised, DropSlash
  <2> QED BY <1>2, <1>3, <1>4, <1>5, <1>6, <1>9, <2>1
<1> QED BY <1>7, <1>8, <1>9

\* The entry found in the list of an archive is the last member of the name.
LEMMA MemberFound ==
  ASSUME NEW l \in Listing, AsArchived(l, Len(Archive)), NEW rel \in Seq(Pieces), Lookup(l, rel) # 0
  PROVE  l[Lookup(l, rel)].data = CHOOSE k \in Member(rel) : \A j \in Member(rel) : j <= k
<1> DEFINE S == {i \in DOMAIN l : l[i].name = rel}
           i == Lookup(l, rel)
<1>1. l \in Seq([name : Texts, data : DOMAIN Archive]) /\ DOMAIN l = 1 .. Len(l) /\ Len(l) \in Nat
  BY DEF Listing
<1>2. DOMAIN Archive = 1 .. Len(Archive) /\ Len(Archive) \in Nat
      /\ \A k \in DOMAIN Archive : Archive[k].name \in Seq(Pieces)
  BY VfsAssumption
<1>3. S \in SUBSET Nat
  BY <1>1
<1>4. i \in S /\ \A j \in S : i <= j
  <2>1. i = IF S = {} THEN 0 ELSE First(S)
    BY DEF Lookup
  <2> HIDE DEF S, i
  <2>2. S # {} /\ i = First(S)
    BY <2>1 DEF i
  <2> QED BY <1>3, <2>2, FirstOf
<1> HIDE DEF i
<1>5. \A k \in DOMAIN Archive : k \in Member(rel) <=> Archive[k].regular /\ Normalised(Archive[k].name) = rel
  BY <1>2, NormalisedIs DEF Member
<1>6. \A j \in DOMAIN l : l[j].data \in DOMAIN Archive /\ l[j].data \in Nat
  <2> SUFFICES ASSUME NEW j \in DOMAIN l
               PROVE  l[j].data \in DOMAIN Archive /\ l[j].data \in Nat
    OBVIOUS
  <2>1. l[j] \in [name : Texts, data : DOMAIN Archive]
    BY <1>1, ElementOf
  <2> QED BY <1>2, <2>1
<1> DEFINE k == l[i].data
<1>7. k \in DOMAIN Archive /\ k \in Nat /\ Archive[k].regular /\ Normalised(Archive[k].name) = rel
  BY <1>4, <1>6 DEF AsArchived
<1>8. ASSUME NEW j \in Member(rel)
      PROVE  j <= k
  <2>1. j \in DOMAIN Archive /\ j \in Nat /\ j <= Len(Archive)
    BY <1>2 DEF Member
  <2>2. Archive[j].regular /\ Normalised(Archive[j].name) = rel
    BY <1>5, <2>1
  <2>3. SUFFICES ASSUME ~(j <= k)
                 PROVE  FALSE
    OBVIOUS
  <2>4. k <= j
    BY <1>7, <2>1, <2>3
  <2>5. PICK e \in DOMAIN l : l[e].data = j
    BY <1>4, <2>1, <2>2, <2>4 DEF AsArchived
  <2>6. e \in S
    BY <2>2, <2>5 DEF AsArchived
  <2>7. i <= e /\ i \in Nat /\ e \in Nat
    BY <1>3, <1>4, <2>6
  <2>8. i = e \/ i < e
    BY <2>7
  <2>9. i < e => l[e].data < l[i].data
    BY <1>4, <2>5 DEF AsArchived
  <2> QED BY <1>7, <2>1, <2>3, <2>5, <2>8, <2>9
<1>9. k \in Member(rel)
  BY <1>5, <1>7
<1> HIDE DEF k
<1>10. \A m \in Member(rel) : (\A j \in Member(rel) : j <= m) => m = k
  <2> SUFFICES ASSUME NEW m \in Member(rel), \A j \in Member(rel) : j <= m
               PROVE  m = k
    OBVIOUS
  <2>1. m \in Nat /\ k \in Nat /\ k <= m /\ m <= k
    <3>1. m \in DOMAIN Archive
      BY DEF Member
    <3>2. m \in Nat
      BY <1>2, <3>1
    <3> QED BY <1>7, <1>8, <1>9, <3>2
  <2> QED BY <2>1
<1>11. (CHOOSE m \in Member(rel) : \A j \in Member(rel) : j <= m) = k
  BY <1>8, <1>9, <1>10
<1> QED BY <1>11 DEF i, k

----------------------------------------------------------------------------
(* The inode of a path *)

\* Step makes its k-th value of the values before.
UsesPast(Step, n, X) ==
  \A k \in 1 .. n : \A g, h \in [0 .. n -> X] :
    (\A j \in 0 .. k - 1 : g[j] = h[j]) => Step[k][g] = Step[k][h]

\* g begins with x0, and has the values that Step makes.
IsHistory(g, n, X, x0, Step) == g \in [0 .. n -> X] /\ g[0] = x0 /\ \A k \in 1 .. n : g[k] = Step[k][g]

\* There is a function each of whose values is what Step makes of those before it.
LEMMA HistoryExists ==
  ASSUME NEW n \in Nat, NEW X, NEW x0 \in X, NEW Step \in [1 .. n -> [[0 .. n -> X] -> X]], UsesPast(Step, n, X)
  PROVE  \E g : IsHistory(g, n, X, x0, Step)
<1> DEFINE Y == [0 .. n -> X]
           y0 == [k \in 0 .. n |-> x0]
           Next2 == [k \in 1 .. n |-> [y \in Y |-> [y EXCEPT ![k] = Step[k][y]]]]
<1>1. y0 \in Y /\ y0[0] = x0
  OBVIOUS
<1>2. \A k \in 1 .. n : \A y \in Y : Step[k][y] \in X /\ [y EXCEPT ![k] = Step[k][y]] \in Y
  OBVIOUS
<1>3. Next2 \in [1 .. n -> [Y -> Y]]
      /\ \A k \in 1 .. n : \A y \in Y : Next2[k][y] = [y EXCEPT ![k] = Step[k][y]]
  BY <1>2
<1> HIDE DEF Y, y0, Next2
<1>4. PICK G : Computes(G, n, Y, y0, Next2)
  BY <1>1, <1>3, LoopExists
<1>5. G \in [0 .. n -> Y] /\ G[0] = y0 /\ \A k \in 1 .. n : G[k] = Next2[k][G[k - 1]]
  BY <1>4 DEF Computes
<1> DEFINE Right(y, m) == y[0] = x0 /\ \A k \in 1 .. m : y[k] = Step[k][y]
           True == {m \in 0 .. n : Right(G[m], m)}
<1>6. 0 \in True
  BY <1>1, <1>5
<1>7. ASSUME NEW m \in 0 .. n - 1, m \in True
      PROVE  m + 1 \in True
  <2>1. m + 1 \in 1 .. n /\ m + 1 \in 0 .. n /\ m \in 0 .. n /\ (m + 1) - 1 = m
    OBVIOUS
  <2> DEFINE y == G[m]
             z == G[m + 1]
  <2>2. y \in Y /\ z \in Y /\ Right(y, m)
    BY <1>5, <1>7, <2>1
  <2>3. z = Next2[m + 1][y]
    BY <1>5, <2>1
  <2> HIDE DEF y, z
  <2>4. z = [y EXCEPT ![m + 1] = Step[m + 1][y]]
    BY <1>3, <2>1, <2>2, <2>3
  <2>5. z[m + 1] = Step[m + 1][y] /\ \A j \in 0 .. n : j # m + 1 => z[j] = y[j]
    BY <2>1, <2>2, <2>4 DEF Y
  <2>6. \A k \in 1 .. m + 1 : Step[k][z] = Step[k][y]
    <3> SUFFICES ASSUME NEW k \in 1 .. m + 1
                 PROVE  Step[k][z] = Step[k][y]
      OBVIOUS
    <3>1. k \in 1 .. n /\ \A j \in 0 .. k - 1 : j \in 0 .. n /\ j # m + 1
      BY <2>1
    <3>2. \A j \in 0 .. k - 1 : z[j] = y[j]
      BY <2>5, <3>1
    <3> QED BY <2>2, <3>1, <3>2 DEF Y, UsesPast
  <2>7. \A k \in 1 .. m + 1 : z[k] = Step[k][z]
    <3> SUFFICES ASSUME NEW k \in 1 .. m + 1
                 PROVE  z[k] = Step[k][z]
      OBVIOUS
    <3>1. CASE k = m + 1
      BY <2>5, <2>6, <3>1
    <3>2. CASE k # m + 1
      <4>1. k \in 1 .. m /\ k \in 0 .. n
        BY <2>1, <3>2
      <4> QED BY <2>2, <2>5, <2>6, <3>2, <4>1
    <3> QED BY <3>1, <3>2
  <2>8. z[0] = x0
    BY <2>1, <2>2, <2>5
  <2> QED BY <2>1, <2>7, <2>8 DEF z
<1>8. n \in True
  <2> HIDE DEF True
  <2>1. 0 .. n \subseteq True
    BY <1>6, <1>7, UpToBound
  <2> QED BY <2>1
<1> QED BY <1>5, <1>8 DEF Y, IsHistory

\* Where the component that reaches up to the k-th piece begins, with the k-th
\* piece itself or without it.
LEMMA SlashIs ==
  ASSUME NEW p, NEW k \in Nat \ {0}
  PROVE  /\ Slash(p, k) \in 0 .. k - 1 /\ (Slash(p, k) = 0 \/ p[Slash(p, k)] = "/")
         /\ \A j \in Slash(p, k) + 1 .. k - 1 : p[j] # "/"
<1> DEFINE D == {d \in 0 .. k - 1 : (k - 1) - d = 0 \/ p[(k - 1) - d] = "/"}
<1>1. D \in SUBSET Nat /\ k - 1 \in D
  OBVIOUS
<1>2. PICK d \in D : \A e \in D : d <= e
  <2> HIDE DEF D
  <2> QED BY <1>1, LeastExists
<1> DEFINE b == (k - 1) - d
<1>3. b \in 0 .. k - 1 /\ (b = 0 \/ p[b] = "/")
  OBVIOUS
<1>4. \A j \in b + 1 .. k - 1 : p[j] # "/"
  <2> SUFFICES ASSUME NEW j \in b + 1 .. k - 1, p[j] = "/"
               PROVE  FALSE
    OBVIOUS
  <2>1. (k - 1) - j \in 0 .. k - 1 /\ (k - 1) - ((k - 1) - j) = j /\ ~(d <= (k - 1) - j)
    OBVIOUS
  <2>2. (k - 1) - j \in D
    BY <2>1
  <2> QED BY <1>2, <2>1, <2>2
<1> HIDE DEF b
<1>5. \E c \in 0 .. k - 1 : (c = 0 \/ p[c] = "/") /\ \A j \in c + 1 .. k - 1 : p[j] # "/"
  BY <1>3, <1>4
<1> QED BY <1>5 DEF Slash

\* There is one such place.
LEMMA SlashOnly ==
  ASSUME NEW p, NEW k \in Nat \ {0}, NEW b \in 0 .. k - 1, b = 0 \/ p[b] = "/",
         \A j \in b + 1 .. k - 1 : p[j] # "/"
  PROVE  Slash(p, k) = b
<1> DEFINE c == Slash(p, k)
<1>1. c \in 0 .. k - 1 /\ (c = 0 \/ p[c] = "/") /\ \A j \in c + 1 .. k - 1 : p[j] # "/"
  BY SlashIs
<1> HIDE DEF c
<1>2. ~(b < c) /\ ~(c < b)
  BY <1>1
<1>3. b = c
  BY <1>1, <1>2
<1> QED BY <1>3 DEF c

\* A volume as VolumesAssumption has it.
IsVolume(volume) ==
  /\ ROOT_INO \in DOMAIN volume
  /\ \A ino \in DOMAIN volume :
       LET dir == volume[ino]
       IN  /\ dir \in Seq(ToSet(dir))
           /\ \A i \in DOMAIN dir : dir[i].ino \in DOMAIN volume
           /\ \A i, j \in DOMAIN dir : dir[i].name = dir[j].name => i = j

\* The first entry of a name is its only one.
LEMMA EntryOnly ==
  ASSUME NEW volume, IsVolume(volume), NEW ino \in DOMAIN volume, ino # 0, NEW name
  PROVE  /\ ext2_find_in_dir(volume[ino], name) = InodeOf(volume, ino, name)
         /\ InodeOf(volume, ino, name) \in DOMAIN volume \cup {0}
<1> DEFINE dir == volume[ino]
           S == {i \in DOMAIN dir : dir[i].name = name}
           E == {e \in ToSet(dir) : e.name = name}
<1>1. /\ dir \in Seq(ToSet(dir)) /\ \A i \in DOMAIN dir : dir[i].ino \in DOMAIN volume
      /\ \A i, j \in DOMAIN dir : dir[i].name = dir[j].name => i = j
  BY DEF IsVolume
<1>2. ext2_find_in_dir(dir, name) = IF S = {} THEN 0 ELSE dir[First(S)].ino
  BY DEF ext2_find_in_dir
<1>3. InodeOf(volume, ino, name) = IF E = {} THEN 0 ELSE (CHOOSE e \in E : TRUE).ino
  BY DEF InodeOf
<1>4. ToSet(dir) = {dir[i] : i \in DOMAIN dir}
  BY DEF ToSet
<1>5. E = {dir[i] : i \in S}
  BY <1>4
<1>6. S \in SUBSET Nat
  <2>1. DOMAIN dir \subseteq Nat
    <3> DEFINE X == ToSet(dir)
    <3>1. dir \in Seq(X)
      BY <1>1
    <3> HIDE DEF X, dir
    <3> QED BY <3>1
  <2> QED BY <2>1
<1>7. CASE S = {}
  <2>1. E = {}
    BY <1>5, <1>7
  <2> QED BY <1>2, <1>3, <1>7, <2>1
<1>8. CASE S # {}
  <2> HIDE DEF E
  <2>1. First(S) \in S
    <3> HIDE DEF S
    <3> QED BY <1>6, <1>8, FirstOf
  <2> DEFINE f == First(S)
  <2>2. f \in DOMAIN dir /\ dir[f].name = name
    BY <2>1
  <2> HIDE DEF f
  <2>3. \A i \in S : i = f
    BY <1>1, <2>2
  <2>4. f \in S
    BY <2>2
  <2> HIDE DEF S, dir
  <2>5. E = {dir[f]}
    BY <1>5, <2>3, <2>4
  <2>6. (CHOOSE e \in E : TRUE) = dir[f]
    BY <2>5
  <2>7. InodeOf(volume, ino, name) = dir[f].ino
    BY <1>3, <2>5, <2>6
  <2> QED BY <1>1, <1>2, <1>8, <2>2, <2>7 DEF f, dir
<1> QED BY <1>7, <1>8

\* The inodes at the beginnings of a path.
IsTrail(at, volume, p) ==
  /\ at[0] = ROOT_INO
  /\ \A k \in 1 .. Len(p) :
       at[k] = IF p[k] = "/" THEN at[k - 1]
               ELSE InodeOf(volume, at[Slash(p, k)], SubSeq(p, Slash(p, k) + 1, k))

\* InodeAt is the last of them.
LEMMA TrailExists ==
  ASSUME NEW volume, IsVolume(volume), NEW S, NEW p \in Seq(S)
  PROVE  \E at : IsTrail(at, volume, p) /\ InodeAt(volume, p) = at[Len(p)]
<1> DEFINE n == Len(p)
           X == DOMAIN volume \cup {0}
           Of(g, k) == IF p[k] = "/" THEN g[k - 1]
                       ELSE InodeOf(volume, g[Slash(p, k)], SubSeq(p, Slash(p, k) + 1, k))
           Step == [k \in 1 .. n |-> [g \in [0 .. n -> X] |-> Of(g, k)]]
           at == CHOOSE g : g = [k \in 0 .. n |-> IF k = 0 THEN ROOT_INO ELSE Of(g, k)]
<1>1. n \in Nat /\ ROOT_INO \in X
  BY DEF IsVolume
<1> HIDE DEF n
<1>2. \A k \in 1 .. n : k - 1 \in 0 .. n /\ Slash(p, k) \in 0 .. k - 1 /\ Slash(p, k) \in 0 .. n
  <2> SUFFICES ASSUME NEW k \in 1 .. n
               PROVE  k - 1 \in 0 .. n /\ Slash(p, k) \in 0 .. k - 1 /\ Slash(p, k) \in 0 .. n
    OBVIOUS
  <2>1. k \in Nat \ {0} /\ k <= n
    BY <1>1
  <2>2. Slash(p, k) \in 0 .. k - 1
    BY <2>1, SlashIs
  <2> HIDE DEF Of, at, Step
  <2> QED BY <1>1, <2>1, <2>2
<1>3. ASSUME NEW ino \in X, NEW name
      PROVE  InodeOf(volume, ino, name) \in X
  <2>1. CASE ino = 0
    BY <2>1 DEF InodeOf
  <2>2. CASE ino # 0
    BY <2>2, EntryOnly
  <2> QED BY <2>1, <2>2
<1>4. ASSUME NEW k \in 1 .. n, NEW g \in [0 .. n -> X]
      PROVE  Of(g, k) \in X
  <2>1. g[k - 1] \in X /\ g[Slash(p, k)] \in X
    BY <1>2
  <2> HIDE DEF X
  <2> QED BY <1>3, <2>1
<1>5. ASSUME NEW k \in 1 .. n, NEW g \in [0 .. n -> X], NEW h \in [0 .. n -> X],
             \A j \in 0 .. k - 1 : g[j] = h[j]
      PROVE  Of(g, k) = Of(h, k)
  <2>1. k - 1 \in 0 .. k - 1 /\ Slash(p, k) \in 0 .. k - 1
    BY <1>1, <1>2
  <2>2. g[k - 1] = h[k - 1] /\ g[Slash(p, k)] = h[Slash(p, k)]
    BY <1>5, <2>1
  <2> QED BY <2>2
<1> HIDE DEF X, Of, at
<1>6. Step \in [1 .. n -> [[0 .. n -> X] -> X]]
      /\ \A k \in 1 .. n : \A g \in [0 .. n -> X] : Step[k][g] = Of(g, k)
  BY <1>4
<1> HIDE DEF Step
<1>7. PICK g : IsHistory(g, n, X, ROOT_INO, Step)
  <2>1. UsesPast(Step, n, X)
    <3> SUFFICES ASSUME NEW k \in 1 .. n, NEW g \in [0 .. n -> X], NEW h \in [0 .. n -> X],
                        \A j \in 0 .. k - 1 : g[j] = h[j]
                 PROVE  Step[k][g] = Step[k][h]
      BY DEF UsesPast
    <3>1. Of(g, k) = Of(h, k)
      BY <1>5
    <3> QED BY <1>6, <3>1
  <2> QED BY <1>1, <1>6, <2>1, HistoryExists
<1>8. g = [k \in 0 .. n |-> IF k = 0 THEN ROOT_INO ELSE Of(g, k)]
  <2>1. \A k \in 0 .. n : g[k] = IF k = 0 THEN ROOT_INO ELSE Of(g, k)
    <3> SUFFICES ASSUME NEW k \in 0 .. n
                 PROVE  g[k] = IF k = 0 THEN ROOT_INO ELSE Of(g, k)
      OBVIOUS
    <3>1. k = 0 \/ k \in 1 .. n
      BY <1>1
    <3> QED BY <1>6, <1>7, <3>1 DEF IsHistory
  <2> QED BY <1>7, <2>1 DEF IsHistory
<1>9. at = [k \in 0 .. n |-> IF k = 0 THEN ROOT_INO ELSE Of(at, k)]
  BY <1>8 DEF at
<1>10. at[0] = ROOT_INO
  BY <1>1, <1>9
<1>11. ASSUME NEW k \in 1 .. n
       PROVE  at[k] = Of(at, k)
  <2>1. k \in 0 .. n /\ k # 0
    BY <1>1
  <2> QED BY <1>9, <2>1
<1>12. InodeAt(volume, p) = at[n]
  BY DEF InodeAt, at, Of, n
<1>13. IsTrail(at, volume, p)
  BY <1>10, <1>11 DEF IsTrail, Of, n
<1> QED BY <1>12, <1>13 DEF n

\* Where the walk of a path begins.
WalkStart == [ino |-> ROOT_INO, comp |-> <<>>, done |-> FALSE]

\* What the walk of a path has come to at each piece, the "/" put at its end included.
LEMMA WalkLoop ==
  ASSUME NEW volume, IsVolume(volume), NEW p \in Seq(Pieces)
  PROVE  \E w : /\ w[0] = WalkStart /\ Walk(volume, p) = w[Len(p) + 1].ino
                /\ \A k \in 1 .. Len(p) : w[k] = WalkPiece(volume, w[k - 1], p[k])
                /\ w[Len(p) + 1] = WalkPiece(volume, w[Len(p)], "/")
<1> DEFINE Places == [ino : DOMAIN volume \cup {0}, comp : Seq(Pieces), done : BOOLEAN]
           X == {x \in Places : x.done \/ (x.ino \in DOMAIN volume /\ x.ino # 0)}
           q == Append(p, "/")
           n == Len(q)
           Step == [k \in 1 .. n |-> [x \in X |-> WalkPiece(volume, x, q[k])]]
           w == CHOOSE g : g = [k \in 0 .. n |-> IF k = 0 THEN WalkStart ELSE WalkPiece(volume, g[k - 1], q[k])]
<1>1. "/" \in Pieces
  BY VfsAssumption
<1>2. /\ n = Len(p) + 1 /\ n \in Nat /\ q \in Seq(Pieces) /\ Len(p) \in Nat
      /\ q[n] = "/" /\ \A k \in 1 .. Len(p) : q[k] = p[k]
  BY <1>1
<1> HIDE DEF q, n
<1>3. WalkStart \in X
  BY DEF WalkStart, ROOT_INO, IsVolume
<1>4. ASSUME NEW x \in X, NEW c \in Pieces
      PROVE  WalkPiece(volume, x, c) \in X
  <2> DEFINE y == WalkPiece(volume, x, c)
  <2>1. x \in Places /\ x.comp \in Seq(Pieces)
    OBVIOUS
  <2>2. CASE x.done
    BY <2>2 DEF WalkPiece
  <2>3. CASE ~x.done /\ c # "/"
    <3>1. y = [x EXCEPT !.comp = Append(@, c)]
      BY <2>3 DEF WalkPiece
    <3>2. Append(x.comp, c) \in Seq(Pieces)
      BY <2>1
    <3> HIDE DEF y
    <3> QED BY <2>1, <3>1, <3>2 DEF y
  <2>4. CASE ~x.done /\ c = "/" /\ x.comp = <<>>
    <3>1. y = [x EXCEPT !.done = TRUE]
      BY <2>4 DEF WalkPiece
    <3> HIDE DEF y
    <3> QED BY <2>1, <3>1 DEF y
  <2>5. CASE ~x.done /\ c = "/" /\ x.comp # <<>>
    <3> DEFINE ino == ext2_find_in_dir(volume[x.ino], x.comp)
    <3>1. y = [ino |-> ino, comp |-> <<>>, done |-> ino = 0]
      BY <2>5 DEF WalkPiece
    <3>2. ino \in DOMAIN volume \cup {0}
      <4>1. x.ino \in DOMAIN volume /\ x.ino # 0
        BY <2>5
      <4> QED BY <4>1, EntryOnly
    <3>3. <<>> \in Seq(Pieces)
      OBVIOUS
    <3> HIDE DEF y, ino
    <3>4. y \in Places
      <4>1. (ino = 0) \in BOOLEAN
        OBVIOUS
      <4> QED BY <3>1, <3>2, <3>3, <4>1
    <3>5. y.ino = ino /\ (y.done <=> ino = 0)
      BY <3>1
    <3>6. y.done \/ (y.ino \in DOMAIN volume /\ y.ino # 0)
      BY <3>2, <3>5
    <3> QED BY <3>4, <3>6 DEF y
  <2> QED BY <2>2, <2>3, <2>4, <2>5
<1>5. \A k \in 1 .. n : q[k] \in Pieces
  BY <1>2, ElementOf DEF n
<1> HIDE DEF X
<1>6. Step \in [1 .. n -> [X -> X]]
      /\ \A k \in 1 .. n : \A x \in X : Step[k][x] = WalkPiece(volume, x, q[k])
  BY <1>4, <1>5
<1> HIDE DEF Step, w
<1>7. PICK g : Computes(g, n, X, WalkStart, Step)
  BY <1>2, <1>3, <1>6, LoopExists
<1>8. g = [k \in 0 .. n |-> IF k = 0 THEN WalkStart ELSE WalkPiece(volume, g[k - 1], q[k])]
  <2>1. ASSUME NEW k \in 0 .. n
        PROVE  g[k] = IF k = 0 THEN WalkStart ELSE WalkPiece(volume, g[k - 1], q[k])
    <3>1. CASE k # 0
      <4>1. k \in 1 .. n /\ k - 1 \in 0 .. n
        BY <1>2, <3>1
      <4>2. g[k] = Step[k][g[k - 1]] /\ g[k - 1] \in X
        BY <1>7, <4>1 DEF Computes
      <4> QED BY <1>6, <3>1, <4>1, <4>2
    <3> QED BY <1>7, <3>1 DEF Computes
  <2> QED BY <1>7, <2>1 DEF Computes
<1>9. w = [k \in 0 .. n |-> IF k = 0 THEN WalkStart ELSE WalkPiece(volume, w[k - 1], q[k])]
  BY <1>8 DEF w
<1>10. w[0] = WalkStart
  BY <1>2, <1>9
<1>11. ASSUME NEW k \in 1 .. n
       PROVE  w[k] = WalkPiece(volume, w[k - 1], q[k])
  <2>1. k \in 0 .. n /\ k # 0
    BY <1>2
  <2> QED BY <1>9, <2>1
<1>12. Walk(volume, p) = w[n].ino
  BY DEF Walk, w, n, q, WalkStart
<1>13. \A k \in 1 .. Len(p) : w[k] = WalkPiece(volume, w[k - 1], p[k])
  <2> SUFFICES ASSUME NEW k \in 1 .. Len(p)
               PROVE  w[k] = WalkPiece(volume, w[k - 1], p[k])
    OBVIOUS
  <2>1. k \in 1 .. n
    BY <1>2
  <2> QED BY <1>2, <1>11, <2>1
<1>14. w[Len(p) + 1] = WalkPiece(volume, w[Len(p)], "/")
  <2>1. n \in 1 .. n /\ n - 1 = Len(p)
    BY <1>2
  <2> QED BY <1>2, <1>11, <2>1
<1> QED BY <1>2, <1>10, <1>12, <1>13, <1>14

\* No two separators of p are next to each other.
NoEmptyName(p) == \A k \in 2 .. Len(p) : p[k] # "/" \/ p[k - 1] # "/"

\* A path from the root of a volume, without the separator before it.
IsPath(p) == p \in Seq(Pieces) /\ (p = <<>> \/ p[1] # "/") /\ NoEmptyName(p)

\* The walk has ended at nothing, or it has come by the trail to the directory
\* before the k-th piece and holds the component that reaches up to it.
OnTrail(x, at, volume, p, k) ==
  \/ x.done /\ x.ino = 0
  \/ /\ x.ino = at[Slash(p, k + 1)] /\ x.ino \in DOMAIN volume /\ x.ino # 0
     /\ x = [ino |-> x.ino, comp |-> SubSeq(p, Slash(p, k + 1) + 1, k), done |-> FALSE]

\* The parts of a path that a component grows by, and those that are empty.
LEMMA Components ==
  ASSUME NEW S, NEW p \in Seq(S), NEW k \in 0 .. Len(p), NEW b \in 0 .. k
  PROVE  /\ (SubSeq(p, b + 1, k) = <<>>) <=> b = k
         /\ k < Len(p) => SubSeq(p, b + 1, k + 1) = Append(SubSeq(p, b + 1, k), p[k + 1])
<1>1. CASE b = k
  <2>1. SubSeq(p, b + 1, k) = <<>>
    BY <1>1
  <2>2. ASSUME k < Len(p)
        PROVE  SubSeq(p, b + 1, k + 1) = Append(SubSeq(p, b + 1, k), p[k + 1])
    <3> DEFINE x == SubSeq(p, k + 1, k + 1)
               y == Append(<<>>, p[k + 1])
    <3>1. x \in Seq(S) /\ Len(x) = 1 /\ x[1] = p[k + 1]
      BY <2>2
    <3>2. p[k + 1] \in S
      BY <2>2
    <3>3. y \in Seq(S) /\ Len(y) = 1 /\ y[1] = p[k + 1]
      BY <3>2
    <3> HIDE DEF x, y
    <3>4. x = y
      BY <3>1, <3>3
    <3> QED BY <1>1, <2>1, <3>4 DEF x, y
  <2> QED BY <1>1, <2>1, <2>2
<1>2. CASE b < k
  <2> DEFINE x == SubSeq(p, b + 1, k)
  <2>1. x \in Seq(S) /\ Len(x) = k - b /\ \A i \in 1 .. k - b : x[i] = p[i + b]
    <3>1. x \in Seq(S) /\ Len(x) = k - b
      BY <1>2
    <3>2. ASSUME NEW i \in 1 .. k - b
          PROVE  x[i] = p[i + b]
      <4>1. x[i] = p[(i - 1) + (b + 1)] /\ (i - 1) + (b + 1) = i + b
        BY <1>2
      <4> QED BY <4>1
    <3> QED BY <3>1, <3>2
  <2> HIDE DEF x
  <2>2. x # <<>>
    BY <1>2, <2>1
  <2>3. ASSUME k < Len(p)
        PROVE  SubSeq(p, b + 1, k + 1) = Append(x, p[k + 1])
    <3> DEFINE y == SubSeq(p, b + 1, k + 1)
               z == Append(x, p[k + 1])
    <3>1. y \in Seq(S) /\ Len(y) = (k - b) + 1
      BY <1>2, <2>3
    <3>2. ASSUME NEW i \in 1 .. (k - b) + 1
          PROVE  y[i] = p[i + b]
      <4>1. y[i] = p[(i - 1) + (b + 1)] /\ (i - 1) + (b + 1) = i + b
        BY <1>2, <2>3
      <4> QED BY <4>1
    <3>3. p[k + 1] \in S
      BY <2>3
    <3>4. z \in Seq(S) /\ Len(z) = (k - b) + 1 /\ z[(k - b) + 1] = p[k + 1]
          /\ \A i \in 1 .. k - b : z[i] = x[i]
      <4> DEFINE e == p[k + 1]
      <4>1. e \in S
        BY <3>3
      <4> HIDE DEF e
      <4>2. Append(x, e) \in Seq(S) /\ Len(Append(x, e)) = Len(x) + 1 /\ Append(x, e)[Len(x) + 1] = e
            /\ \A i \in 1 .. Len(x) : Append(x, e)[i] = x[i]
        BY <2>1, <4>1
      <4> QED BY <2>1, <4>2 DEF e
    <3> HIDE DEF y, z
    <3>5. \A i \in 1 .. (k - b) + 1 : y[i] = z[i]
      <4> SUFFICES ASSUME NEW i \in 1 .. (k - b) + 1
                   PROVE  y[i] = z[i]
        OBVIOUS
      <4>1. CASE i = (k - b) + 1
        <5>1. i + b = k + 1
          BY <4>1
        <5> QED BY <3>2, <3>4, <4>1, <5>1
      <4>2. CASE i # (k - b) + 1
        <5>1. i \in 1 .. k - b
          BY <4>2
        <5> QED BY <2>1, <3>2, <3>4, <5>1
      <4> QED BY <4>1, <4>2
    <3>6. y = z
      BY <3>1, <3>4, <3>5
    <3> QED BY <3>6 DEF y, z
  <2> QED BY <1>2, <2>2, <2>3 DEF x
<1> QED BY <1>1, <1>2

\* A piece of a path leaves the walk on its trail.
LEMMA PieceOnTrail ==
  ASSUME NEW volume, IsVolume(volume), NEW p, IsPath(p), NEW at, IsTrail(at, volume, p),
         NEW k \in 0 .. Len(p) - 1, NEW x, OnTrail(x, at, volume, p, k)
  PROVE  OnTrail(WalkPiece(volume, x, p[k + 1]), at, volume, p, k + 1)
<1> DEFINE b == Slash(p, k + 1)
           comp == SubSeq(p, b + 1, k)
           y == WalkPiece(volume, x, p[k + 1])
<1>1. p \in Seq(Pieces) /\ Len(p) \in Nat /\ k \in Nat /\ k + 1 \in Nat \ {0} /\ k + 1 \in 1 .. Len(p)
      /\ k \in 0 .. Len(p)
  BY DEF IsPath
<1>2. /\ b \in 0 .. k /\ (b = 0 \/ p[b] = "/") /\ \A j \in b + 1 .. k : p[j] # "/"
  <2>1. (k + 1) - 1 = k
    BY <1>1
  <2> QED BY <1>1, <2>1, SlashIs
<1> HIDE DEF b
<1>3. CASE x.done /\ x.ino = 0
  <2>1. y = x
    BY <1>3 DEF WalkPiece
  <2> QED BY <1>3, <2>1 DEF OnTrail
<1>4. CASE ~(x.done /\ x.ino = 0)
  <2>1. /\ x.ino = at[b] /\ x.ino \in DOMAIN volume /\ x.ino # 0
        /\ x = [ino |-> x.ino, comp |-> comp, done |-> FALSE]
    BY <1>4 DEF OnTrail, b
  <2>2. x.comp = comp /\ x.done = FALSE
    BY <2>1
  <2>3. CASE p[k + 1] # "/"
    <3>1. Slash(p, (k + 1) + 1) = b
      <4>1. (k + 1) + 1 \in Nat \ {0} /\ b \in 0 .. ((k + 1) + 1) - 1
        BY <1>1, <1>2
      <4>2. \A j \in b + 1 .. ((k + 1) + 1) - 1 : p[j] # "/"
        <5> SUFFICES ASSUME NEW j \in b + 1 .. ((k + 1) + 1) - 1
                     PROVE  p[j] # "/"
          OBVIOUS
        <5>1. j = k + 1 \/ j \in b + 1 .. k
          BY <1>1, <1>2
        <5> QED BY <1>2, <2>3, <5>1
      <4> QED BY <1>2, <4>1, <4>2, SlashOnly
    <3>2. y = [x EXCEPT !.comp = Append(comp, p[k + 1])]
      BY <2>2, <2>3 DEF WalkPiece
    <3>3. Append(comp, p[k + 1]) = SubSeq(p, b + 1, k + 1)
      BY <1>1, <1>2, Components
    <3> HIDE DEF comp, y
    <3>4. y = [ino |-> x.ino, comp |-> SubSeq(p, b + 1, k + 1), done |-> FALSE]
      <4> DEFINE c == SubSeq(p, b + 1, k + 1)
                 i == x.ino
      <4>1. y = [x EXCEPT !.comp = c] /\ x = [ino |-> i, comp |-> comp, done |-> FALSE]
        BY <2>1, <3>2, <3>3
      <4> HIDE DEF c, i
      <4>2. y = [ino |-> i, comp |-> c, done |-> FALSE]
        BY <4>1
      <4> QED BY <4>2 DEF c, i
    <3>5. y.ino = x.ino
      BY <3>4
    <3> QED BY <2>1, <3>1, <3>4, <3>5 DEF OnTrail, y
  <2>4. CASE p[k + 1] = "/"
    <3>1. k \in 1 .. Len(p) /\ p[k] # "/"
      <4>1. k # 0
        <5>1. k = 0 => p[1] # "/"
          <6>1. p # <<>>
            BY <1>1
          <6> QED BY <6>1 DEF IsPath
        <5>2. k = 0 => k + 1 = 1
          OBVIOUS
        <5> QED BY <2>4, <5>1, <5>2
      <4>2. k + 1 \in 2 .. Len(p) /\ (k + 1) - 1 = k
        BY <1>1, <4>1
      <4>3. p[k] # "/"
        BY <2>4, <4>2 DEF IsPath, NoEmptyName
      <4> QED BY <1>1, <4>1, <4>3
    <3>2. b # k /\ b \in 0 .. k - 1
      BY <1>1, <1>2, <3>1
    <3>3. comp # <<>>
      BY <1>1, <1>2, <3>2, Components
    <3>4. Slash(p, k) = b
      <4>1. \A j \in b + 1 .. k - 1 : p[j] # "/"
        BY <1>1, <1>2
      <4>2. k \in Nat \ {0}
        BY <3>1
      <4> QED BY <1>2, <3>2, <4>1, <4>2, SlashOnly
    <3>5. at[k] = InodeOf(volume, at[b], comp)
      BY <3>1, <3>4 DEF IsTrail
    <3>6. at[k + 1] = at[k]
      <4>1. (k + 1) - 1 = k
        BY <1>1
      <4> QED BY <1>1, <2>4, <4>1 DEF IsTrail
    <3>7. Slash(p, (k + 1) + 1) = k + 1
      <4>1. (k + 1) + 1 \in Nat \ {0} /\ k + 1 \in 0 .. ((k + 1) + 1) - 1
            /\ \A j \in (k + 1) + 1 .. ((k + 1) + 1) - 1 : FALSE
        BY <1>1
      <4> QED BY <2>4, <4>1, SlashOnly
    <3> DEFINE ino == ext2_find_in_dir(volume[x.ino], comp)
    <3> HIDE DEF comp
    <3>8. ino = at[k + 1] /\ ino \in DOMAIN volume \cup {0}
      <4>1. ino = InodeOf(volume, x.ino, comp) /\ InodeOf(volume, x.ino, comp) \in DOMAIN volume \cup {0}
        BY <2>1, EntryOnly
      <4> QED BY <2>1, <3>5, <3>6, <4>1
    <3>9. y = [ino |-> ino, comp |-> <<>>, done |-> ino = 0]
      BY <2>2, <2>4, <3>3 DEF WalkPiece
    <3>10. SubSeq(p, (k + 1) + 1, k + 1) = <<>>
      <4>1. k + 1 \in 0 .. Len(p) /\ k + 1 \in 0 .. k + 1
        BY <1>1
      <4> QED BY <1>1, <4>1, Components
    <3> HIDE DEF ino, y
    <3>11. y.ino = ino /\ y.done = (ino = 0)
      BY <3>9
    <3>12. CASE ino = 0
      BY <3>11, <3>12 DEF OnTrail, y
    <3>13. CASE ino # 0
      <4>1. y = [ino |-> y.ino, comp |-> SubSeq(p, Slash(p, (k + 1) + 1) + 1, k + 1), done |-> FALSE]
        BY <3>7, <3>9, <3>10, <3>11, <3>13
      <4>2. y.ino = at[Slash(p, (k + 1) + 1)] /\ y.ino \in DOMAIN volume /\ y.ino # 0
        BY <3>7, <3>8, <3>11, <3>13
      <4> QED BY <4>1, <4>2 DEF OnTrail, y
    <3> QED BY <3>12, <3>13
  <2> QED BY <2>3, <2>4
<1> QED BY <1>3, <1>4

\* The walk of a path comes to the inode at it, or to none.
LEMMA WalkIs ==
  ASSUME NEW volume, IsVolume(volume), NEW p, IsPath(p), Walk(volume, p) # 0
  PROVE  Walk(volume, p) = InodeAt(volume, p)
<1> DEFINE n == Len(p)
<1>1. p \in Seq(Pieces) /\ n \in Nat
  BY DEF IsPath
<1>2. PICK at : IsTrail(at, volume, p) /\ InodeAt(volume, p) = at[n]
  BY <1>1, TrailExists
<1>3. PICK w : /\ w[0] = WalkStart /\ Walk(volume, p) = w[n + 1].ino
               /\ \A k \in 1 .. n : w[k] = WalkPiece(volume, w[k - 1], p[k])
               /\ w[n + 1] = WalkPiece(volume, w[n], "/")
  BY <1>1, WalkLoop
<1> DEFINE True == {k \in 0 .. n : OnTrail(w[k], at, volume, p, k)}
<1>4. 0 \in True
  <2>1. Slash(p, 0 + 1) = 0
    <3>1. 0 + 1 \in Nat \ {0} /\ 0 \in 0 .. (0 + 1) - 1 /\ \A j \in 0 + 1 .. (0 + 1) - 1 : FALSE
      OBVIOUS
    <3> QED BY <3>1, SlashOnly
  <2>2. SubSeq(p, 0 + 1, 0) = <<>>
    <3>1. 0 \in 0 .. Len(p) /\ 0 \in 0 .. 0
      BY <1>1
    <3> QED BY <1>1, <3>1, Components
  <2>3. at[0] = ROOT_INO /\ ROOT_INO \in DOMAIN volume /\ ROOT_INO # 0
    BY <1>2 DEF IsTrail, IsVolume, ROOT_INO
  <2>4. WalkStart.ino = ROOT_INO
    BY DEF WalkStart
  <2>5. OnTrail(WalkStart, at, volume, p, 0)
    BY <2>1, <2>2, <2>3, <2>4 DEF OnTrail, WalkStart
  <2> QED BY <1>1, <1>3, <2>5
<1>5. ASSUME NEW k \in 0 .. n - 1, k \in True
      PROVE  k + 1 \in True
  <2>1. k + 1 \in 1 .. n /\ k + 1 \in 0 .. n /\ (k + 1) - 1 = k
    BY <1>1
  <2>2. w[k + 1] = WalkPiece(volume, w[k], p[k + 1])
    BY <1>3, <2>1
  <2>3. OnTrail(w[k], at, volume, p, k)
    BY <1>5
  <2>4. OnTrail(WalkPiece(volume, w[k], p[k + 1]), at, volume, p, k + 1)
    BY <1>2, <2>3, PieceOnTrail
  <2> QED BY <2>1, <2>2, <2>4
<1>6. OnTrail(w[n], at, volume, p, n)
  <2> HIDE DEF True
  <2>1. 0 .. n \subseteq True
    BY <1>1, <1>4, <1>5, UpToBound
  <2>2. n \in True
    BY <1>1, <2>1
  <2> QED BY <2>2 DEF True
<1> DEFINE x == w[n]
           b == Slash(p, n + 1)
           comp == SubSeq(p, b + 1, n)
<1>7. /\ b \in 0 .. n /\ (b = 0 \/ p[b] = "/") /\ \A j \in b + 1 .. n : p[j] # "/"
  <2>1. n + 1 \in Nat \ {0} /\ (n + 1) - 1 = n
    BY <1>1
  <2> QED BY <2>1, SlashIs
<1> HIDE DEF x, b
<1>8. ~x.done
  <2>1. x.done /\ x.ino = 0 => w[n + 1] = x
    BY <1>3 DEF x, WalkPiece
  <2>2. x.done => x.ino = 0
    BY <1>6 DEF OnTrail, x
  <2> QED BY <1>3, <2>1, <2>2
<1>9. x.ino = at[b] /\ x.ino \in DOMAIN volume /\ x.ino # 0 /\ x.comp = comp
  <2>1. /\ x.ino = at[b] /\ x.ino \in DOMAIN volume /\ x.ino # 0
        /\ x = [ino |-> x.ino, comp |-> comp, done |-> FALSE]
    BY <1>6, <1>8 DEF OnTrail, x, b
  <2> QED BY <2>1
<1>10. comp = <<>> <=> b = n
  <2>1. n \in 0 .. Len(p)
    BY <1>1
  <2> QED BY <1>1, <1>7, <2>1, Components
<1> HIDE DEF comp
<1>11. CASE comp = <<>>
  <2>1. w[n + 1] = [x EXCEPT !.done = TRUE]
    BY <1>3, <1>8, <1>9, <1>11 DEF WalkPiece, x
  <2>2. w[n + 1].ino = x.ino
    <3>1. OnTrail(x, at, volume, p, n)
      BY <1>6 DEF x
    <3> DEFINE y == w[n + 1]
    <3>2. y = [x EXCEPT !.done = TRUE]
      BY <2>1
    <3> HIDE DEF y
    <3>3. PICK i, c : x = [ino |-> i, comp |-> c, done |-> FALSE]
      BY <1>8, <3>1 DEF OnTrail
    <3>4. y.ino = x.ino
      BY <3>2, <3>3
    <3> QED BY <3>4 DEF y
  <2> QED BY <1>2, <1>3, <1>9, <1>10, <1>11, <2>2
<1>12. CASE comp # <<>>
  <2>1. b \in 0 .. n - 1 /\ n \in Nat \ {0} /\ n \in 1 .. n
    BY <1>1, <1>7, <1>10, <1>12
  <2>2. Slash(p, n) = b
    <3>1. \A j \in b + 1 .. n - 1 : p[j] # "/"
      BY <1>1, <1>7
    <3> QED BY <1>7, <2>1, <3>1, SlashOnly
  <2>3. p[n] # "/"
    BY <1>7, <2>1
  <2>4. at[n] = InodeOf(volume, at[b], comp)
    BY <1>2, <2>1, <2>2, <2>3 DEF IsTrail, comp
  <2> DEFINE ino == ext2_find_in_dir(volume[x.ino], comp)
  <2>5. ino = InodeOf(volume, x.ino, comp)
    BY <1>9, EntryOnly
  <2>6. w[n + 1] = [ino |-> ino, comp |-> <<>>, done |-> ino = 0]
    BY <1>3, <1>8, <1>9, <1>12 DEF WalkPiece, x
  <2> HIDE DEF ino
  <2>7. w[n + 1].ino = ino
    BY <2>6
  <2> QED BY <1>2, <1>3, <1>9, <2>4, <2>5, <2>7
<1> QED BY <1>11, <1>12

----------------------------------------------------------------------------
(* What an open finds *)

\* Without the separator it begins with such a path has no empty component, and
\* does not change when another one is asked to be dropped.
LEMMA DropSlashIsPath ==
  ASSUME NEW p \in Seq(Pieces), NoEmptyName(p)
  PROVE  IsPath(DropSlash(p)) /\ DropSlash(DropSlash(p)) = DropSlash(p)
<1>1. CASE p # <<>> /\ Head(p) = "/"
  <2> DEFINE q == Tail(p)
  <2>1. q \in Seq(Pieces) /\ Len(q) = Len(p) - 1 /\ \A i \in 1 .. Len(p) - 1 : q[i] = p[i + 1]
    BY <1>1
  <2>2. DropSlash(p) = q
    BY <1>1 DEF DropSlash
  <2>3. p[1] = "/" /\ Len(p) \in Nat
    BY <1>1
  <2> HIDE DEF q
  <2>4. q = <<>> \/ q[1] # "/"
    <3>1. CASE Len(p) >= 2
      <4>1. 2 \in 2 .. Len(p) /\ 2 - 1 = 1 /\ 1 \in 1 .. Len(p) - 1 /\ 1 + 1 = 2
        BY <2>3, <3>1
      <4> QED BY <2>1, <2>3, <4>1 DEF NoEmptyName
    <3>2. CASE ~(Len(p) >= 2)
      BY <2>1, <2>3, <3>2
    <3> QED BY <3>1, <3>2
  <2>5. \A k \in 2 .. Len(q) : q[k] # "/" \/ q[k - 1] # "/"
    <3> SUFFICES ASSUME NEW k \in 2 .. Len(q)
                 PROVE  q[k] # "/" \/ q[k - 1] # "/"
      OBVIOUS
    <3>1. /\ k + 1 \in 2 .. Len(p) /\ (k + 1) - 1 = k /\ k \in 1 .. Len(p) - 1
          /\ k - 1 \in 1 .. Len(p) - 1 /\ (k - 1) + 1 = k
      BY <2>1, <2>3
    <3>2. q[k] = p[k + 1] /\ q[k - 1] = p[k]
      BY <2>1, <3>1
    <3>3. p[k + 1] # "/" \/ p[k] # "/"
      BY <3>1 DEF NoEmptyName
    <3> QED BY <3>2, <3>3
  <2>6. IsPath(q)
    BY <2>1, <2>4, <2>5 DEF IsPath, NoEmptyName
  <2>7. DropSlash(q) = q
    BY <2>1, <2>4 DEF DropSlash
  <2> QED BY <2>2, <2>6, <2>7
<1>2. CASE ~(p # <<>> /\ Head(p) = "/")
  <2>1. DropSlash(p) = p
    BY <1>2 DEF DropSlash
  <2>2. p = <<>> \/ p[1] # "/"
    BY <1>2
  <2> QED BY <2>1, <2>2 DEF IsPath
<1> QED BY <1>1, <1>2

\* What is left of a path after its first n pieces has no empty component.
LEMMA RestHasNames ==
  ASSUME NEW p \in Seq(Pieces), NoEmptyName(p), NEW n \in Nat
  PROVE  LET q == SubSeq(p, n + 1, Len(p)) IN q \in Seq(Pieces) /\ NoEmptyName(q)
<1> DEFINE q == SubSeq(p, n + 1, Len(p))
<1>1. Len(p) \in Nat
  OBVIOUS
<1>2. CASE n < Len(p)
  <2>1. q \in Seq(Pieces) /\ Len(q) = Len(p) - n
    BY <1>2
  <2>2. ASSUME NEW i \in 1 .. Len(p) - n
        PROVE  q[i] = p[i + n]
    <3>1. q[i] = p[(i - 1) + (n + 1)] /\ (i - 1) + (n + 1) = i + n
      BY <1>2
    <3> QED BY <3>1
  <2> HIDE DEF q
  <2>3. ASSUME NEW k \in 2 .. Len(q)
        PROVE  q[k] # "/" \/ q[k - 1] # "/"
    <3>1. /\ k \in 1 .. Len(p) - n /\ k - 1 \in 1 .. Len(p) - n
          /\ k + n \in 2 .. Len(p) /\ (k - 1) + n = (k + n) - 1
      BY <1>1, <2>1
    <3>2. q[k] = p[k + n] /\ q[k - 1] = p[(k + n) - 1]
      BY <2>2, <3>1
    <3> QED BY <3>1, <3>2 DEF NoEmptyName
  <2> QED BY <2>1, <2>3 DEF NoEmptyName, q
<1>3. CASE ~(n < Len(p))
  <2>1. q = <<>>
    BY <1>1, <1>3
  <2> QED BY <2>1 DEF NoEmptyName
<1> QED BY <1>2, <1>3

\* The area in the block layer of a device with a name is the disk's, or that of
\* the partition its table has.
LEMMA AreaIs ==
  ASSUME BlockInv, NEW dev, dev # NoName, find_block(dev) # 0
  PROVE  Area(dev) = <<attached[dev[1]].port, IF dev[2] = 0 THEN 0 ELSE attached[dev[1]].mbr[dev[2]]>>
<1> DEFINE S == {i \in Slots : blocks[i].name = dev}
           b == find_block(dev)
<1>1. S \in SUBSET Slots
  OBVIOUS
<1>2. b = IF S = {} THEN 0 ELSE First(S)
  BY DEF find_block
<1> HIDE DEF b
<1>3. b \in S
  <2> HIDE DEF S
  <2>1. b # 0
    BY DEF b
  <2> QED BY <1>1, <1>2, <2>1, FirstProperty
<1>4. b \in Slots /\ blocks[b].name = dev
  BY <1>3
<1>5. NameTrue(blocks[b], attached)
  BY <1>4 DEF BlockInv, DevicesTrue
<1> QED BY <1>4, <1>5 DEF NameTrue, Area, b

\* A file system on a device.
LEMMA Ext2Device ==
  ASSUME NEW x, FsTrue(x), x.ops = "ext2"
  PROVE  x.dev \in MountedDevs /\ HasVolume(x.dev)
<1>1. ASSUME NEW l, x = [ops |-> "ustar", files |-> l]
      PROVE  FALSE
  BY <1>1
<1>2. x # NoFs
  BY DEF NoFs, None
<1>3. PICK dev \in MountedDevs : HasVolume(dev) /\ x = [ops |-> "ext2", dev |-> dev]
  BY <1>1, <1>2 DEF FsTrue
<1> QED BY <1>3

\* A handle that ustar_open gives is for the entry found.
LEMMA UstarOpenedIs ==
  ASSUME NEW s, NEW f, NEW path, ustar_open(s, f, path).r # NoFile
  PROVE  /\ Lookup(s.fss[f].files, DropSlash(path)) # 0
         /\ ustar_open(s, f, path).r =
              [ops |-> "ustar", fs |-> f, file |-> Lookup(s.fss[f].files, DropSlash(path))]
<1> DEFINE i == Lookup(s.fss[f].files, DropSlash(path))
           h == [ops |-> "ustar", fs |-> f, file |-> i]
<1>1. ustar_open(s, f, path) = IF i = 0 \/ ~HasRoom(s) THEN Result(s, NoFile) ELSE Result(Taken(s, 1), h)
  BY DEF ustar_open
<1> HIDE DEF i, h
<1>2. \A t, r : Result(t, r).r = r
  BY DEF Result
<1>3. ~(i = 0 \/ ~HasRoom(s))
  BY <1>1, <1>2
<1> QED BY <1>1, <1>2, <1>3 DEF i, h

\* One that ext2_open gives is for the inode its walk comes to.
LEMMA Ext2OpenedIs ==
  ASSUME NEW s, NEW f, NEW path, NEW fails, ext2_open(s, f, path, fails).r # NoFile
  PROVE  /\ Walk(Volumes[Area(s.fss[f].dev)], DropSlash(path)) # 0
         /\ ext2_open(s, f, path, fails).r =
              [ops |-> "ext2", fs |-> f, file |-> Walk(Volumes[Area(s.fss[f].dev)], DropSlash(path))]
<1> DEFINE dev == s.fss[f].dev
           ino == Walk(Volumes[Area(dev)], DropSlash(path))
           h == [ops |-> "ext2", fs |-> f, file |-> ino]
           stops == ~Answers(dev, "walk", fails) \/ ino = 0 \/ ~HasRoom(s)
<1>1. ext2_open(s, f, path, fails) =
        IF stops THEN Result(s, NoFile)
        ELSE IF ~HasRoom(Taken(s, 1)) THEN Result(Freed(Taken(s, 1), 1), NoFile)
        ELSE Result(Taken(Taken(s, 1), 1), h)
  BY DEF ext2_open
<1>2. stops <=> ~Answers(dev, "walk", fails) \/ ino = 0 \/ ~HasRoom(s)
  OBVIOUS
<1> HIDE DEF ino, h, stops
<1>3. \A t, r : Result(t, r).r = r
  BY DEF Result
<1>4. ~stops /\ HasRoom(Taken(s, 1))
  BY <1>1, <1>3
<1> QED BY <1>1, <1>2, <1>3, <1>4 DEF ino, h

----------------------------------------------------------------------------
(* The invariant *)

\* The state after a step to t.
LEMMA StepTo ==
  ASSUME NEW t, Good(t), Becomes(t), room' = room,
         blocks' = blocks \/ \A f \in MountSlots : t.fss[f] = NoFs
  PROVE  State' = t /\ Good(State)' /\ mounts' = t.mounts /\ fss' = t.fss /\ fds' = t.fds
         /\ devs' = t.devs /\ heap' = t.heap /\ lost' = t.lost
<1>1. mounts' = t.mounts /\ fss' = t.fss /\ fds' = t.fds
      /\ devs' = t.devs /\ heap' = t.heap /\ lost' = t.lost
  BY DEF Becomes
<1>2. t = [devs |-> t.devs, heap |-> t.heap, mounts |-> t.mounts, fss |-> t.fss, fds |-> t.fds,
           lost |-> t.lost]
  BY DEF Good, IsState
<1>3. State' = t
  BY <1>1, <1>2 DEF State
<1>4. IsState(State)' /\ OwnMounts(State')
  <2>1. \A f \in MountSlots : FsTrue(t.fss[f])'
    <3>1. \A f \in MountSlots : FsTrue(t.fss[f])
      BY DEF Good, IsState
    <3>2. CASE blocks' = blocks
      <4>1. ASSUME NEW x, FsTrue(x)
            PROVE  FsTrue(x)'
        BY <3>2, <4>1 DEF FsTrue, HasVolume, Area, find_block
      <4> QED BY <3>1, <4>1
    <3>3. CASE \A f \in MountSlots : t.fss[f] = NoFs
      BY <3>3 DEF FsTrue
    <3> QED BY <3>2, <3>3
  <2>2. IsState(t)'
    BY <2>1 DEF Good, IsState
  <2> QED BY <1>3, <2>2 DEF Good
<1>5. t.heap <= room' /\ t.heap = Len(t.devs) + t.lost + FsSum(t) + FdSum(t)
  BY DEF Good, Accounted
<1>6. Accounted(State)'
  BY <1>3, <1>5 DEF Accounted
<1> QED BY <1>1, <1>3, <1>4, <1>6 DEF Good

\* What descriptors lead to: those whose file system is mounted, to a file.
FdsTrue ==
  /\ stale \subseteq Used
  /\ \A fd \in Used \ stale : HandleTrue(State, fds[fd])

VfsInv ==
  /\ BlockInv /\ module \in BOOLEAN /\ root \in Roots /\ running \in BOOLEAN
  /\ Good(State)
  /\ FdsTrue
  /\ ~running => InUse(State) = {} /\ Used = {}

\* What a step does to descriptors: one in use stays or is closed, one that is
\* stale stays so until then, and one that is not keeps its file system.
FdsKept ==
  /\ \A fd \in Used : fds'[fd] \in {fds[fd], NoFile}
  /\ \A fd \in stale : fd \in stale' \/ fds'[fd] = NoFile
  /\ \A fd \in Used \ stale : fd \notin stale' /\ fds'[fd] = fds[fd] => fss'[fds[fd].fs] = fss[fds[fd].fs]
  /\ running => blocks' = blocks

\* What a step does to them that opens none: what the paths named stays known.
NamesKept ==
  DOMAIN named = Fds => /\ DOMAIN named' = Fds /\ Used' \subseteq Used
                        /\ \A fd \in Used' : named'[fd] = named[fd]

StateFields ==
  /\ State.devs = devs /\ State.heap = heap /\ State.mounts = mounts
  /\ State.fss = fss /\ State.fds = fds /\ State.lost = lost

\* The fields of the record of the state are the variables.
LEMMA FieldsOfState == StateFields
  BY DEF StateFields, State

\* The heap has a natural number of blocks.
LEMMA RoomNat == ASSUME VfsInv  PROVE room \in Nat
  BY BlockAssumption DEF VfsInv, BlockInv, BlockTypeOK

\* Steps of callers leave the table of devices alone.
LEMMA BlockStays ==
  ASSUME VfsInv, UNCHANGED <<blocks, room, probed, attached>>, devs' \in Seq(Names), heap' \in Nat
  PROVE  BlockInv'
<1>1. BlockTypeOK'
  BY DEF VfsInv, BlockInv, BlockTypeOK
<1>2. DevicesTrue' /\ NamesUnique'
  BY DEF VfsInv, BlockInv, DevicesTrue, NamesUnique, NameTrue
<1> QED BY <1>1, <1>2 DEF BlockInv

\* A step that only mounts.
LEMMA GrownStep ==
  ASSUME VfsInv, NEW t, Grown(State, t), Becomes(t), UNCHANGED <<room, stale>>,
         blocks' = blocks \/ \A f \in MountSlots : t.fss[f] = NoFs
  PROVE  Good(State)' /\ FdsTrue' /\ fds' = fds /\ \A fd \in Used \ stale : fss'[fds[fd].fs] = fss[fds[fd].fs]
<1>1. Good(State)' /\ fss' = t.fss /\ fds' = t.fds
  BY StepTo DEF Grown
<1>2. fds' = fds
  BY <1>1, FieldsOfState DEF Grown, StateFields
<1>3. Used' = Used /\ stale' = stale
  BY <1>2 DEF Used
<1>4. ASSUME NEW fd \in Used \ stale
      PROVE  fss'[fds[fd].fs] = fss[fds[fd].fs] /\ HandleTrue(State, fds[fd])'
  <2> DEFINE h == fds[fd]
             f == h.fs
  <2>1. h # NoFile /\ HandleTrue(State, h)
    BY DEF VfsInv, FdsTrue, Used
  <2>2. /\ h.ops \in {"ustar", "ext2"} /\ f \in MountSlots /\ fss[f].ops = h.ops
        /\ h.ops = "ustar" => h.file \in DOMAIN fss[f].files
    BY <2>1, FieldsOfState DEF HandleTrue, StateFields
  <2>3. fss[f] # NoFs
    BY <2>2 DEF NoFs, None
  <2>4. t.fss[f] = fss[f]
    BY <2>2, <2>3, FieldsOfState DEF Grown, StateFields
  <2>5. fss'[f] = fss[f] /\ fds'[fd] = h
    BY <1>1, <1>2, <2>4
  <2>6. State'.fss = fss'
    BY DEF State
  <2> HIDE DEF h
  <2>7. HandleTrue(State', h)
    BY <2>2, <2>5, <2>6 DEF HandleTrue
  <2> QED BY <2>5, <2>7 DEF h
<1>5. FdsTrue'
  BY <1>3, <1>4 DEF FdsTrue, VfsInv
<1> QED BY <1>1, <1>2, <1>4, <1>5

\* Finding a disk registers devices, and changes no mount or descriptor.
LEMMA ProbeStep ==
  ASSUME VfsInv, Probe
  PROVE  VfsInv' /\ FdsKept /\ NamesKept
<1> DEFINE t == [devs |-> devs', heap |-> heap', mounts |-> mounts, fss |-> fss, fds |-> fds, lost |-> lost]
           s == State
<1>1. ~running /\ BlockNext /\ UNCHANGED vvars
  BY DEF Probe
<1>2. BlockInv' /\ Counted([heap |-> heap, devs |-> devs], [heap |-> heap', devs |-> devs']) /\ room' = room
  <2>1. ASSUME NEW mbr \in MBRs, ahci_identify_port(mbr)
        PROVE  BlockInv' /\ Counted([heap |-> heap, devs |-> devs], [heap |-> heap', devs |-> devs'])
               /\ room' = room
    BY <2>1, FoundStep DEF VfsInv, ahci_identify_port
  <2>2. CASE ahci_identify_port_fails
    <3>1. UNCHANGED <<blocks, devs, heap, room, attached>> /\ probed < Len(Ports) /\ probed' = probed + 1
      BY <2>2 DEF ahci_identify_port_fails
    <3>2. BlockInv'
      BY <3>1, BlockAssumption DEF VfsInv, BlockInv, BlockTypeOK, DevicesTrue, NamesUnique, NameTrue
    <3>3. heap \in Nat /\ Len(devs) \in Nat
      BY DEF VfsInv, BlockInv, BlockTypeOK
    <3>4. Counted([heap |-> heap, devs |-> devs], [heap |-> heap', devs |-> devs'])
      BY <3>1, <3>3 DEF Counted
    <3> QED BY <3>1, <3>2, <3>4
  <2> QED BY <1>1, <2>1, <2>2 DEF BlockNext
<1>3. room \in Nat /\ heap <= room /\ Good(s)
  BY RoomNat DEF VfsInv, Good, Accounted, State
<1>4. heap' <= room /\ heap <= heap' /\ heap' = heap + (Len(devs') - Len(devs))
  BY <1>2, <1>3 DEF Counted
<1>5. devs' \in Seq(Names) /\ heap' \in Nat
  BY <1>2 DEF BlockInv, BlockTypeOK
<1>6. s.devs = devs /\ s.heap = heap /\ s.mounts = mounts /\ s.fss = fss /\ s.fds = fds /\ s.lost = lost
  BY DEF State
<1>7. t.devs = devs' /\ t.heap = heap' /\ t.mounts = mounts /\ t.fss = fss /\ t.fds = fds /\ t.lost = lost
      /\ t = [devs |-> t.devs, heap |-> t.heap, mounts |-> t.mounts, fss |-> t.fss, fds |-> t.fds,
              lost |-> t.lost]
  OBVIOUS
<1>8. Becomes(t)
  BY <1>1 DEF Becomes, vvars
<1> HIDE DEF t, s
<1>9. DOMAIN mounts = MountSlots /\ \A i \in MountSlots : MountTrue(mounts[i])
  BY <1>3, <1>6 DEF Good, IsState
<1>10. Grown(s, t) /\ InUse(t) = InUse(s)
  BY <1>3, <1>4, <1>5, <1>6, <1>7, <1>9, GoodLike
<1>15. \A f \in MountSlots : t.fss[f] = NoFs
  BY <1>3, <1>6, <1>7, <1>10, <1>1 DEF VfsInv, s, Good, OwnMounts
<1>11. /\ Good(State)' /\ FdsTrue' /\ fds' = fds
       /\ \A fd \in Used \ stale : fss'[fds[fd].fs] = fss[fds[fd].fs]
  BY <1>1, <1>2, <1>8, <1>10, <1>15, GrownStep DEF s, vvars
<1>12. State' = t
  BY <1>2, <1>8, <1>10, <1>15, StepTo DEF Grown
<1>13. InUse(State') = {} /\ Used' = {}
  BY <1>1, <1>10, <1>11, <1>12 DEF VfsInv, s, Used
<1>14. VfsInv'
  BY <1>1, <1>2, <1>11, <1>13 DEF VfsInv, vvars
<1> QED BY <1>1, <1>11, <1>14 DEF FdsKept, NamesKept, Used, vvars

\* What RootServed says of the step that ends the boot.
RootDone ==
  IF RootKnown
  THEN (module /\ heap' < room /\ InitrdNode \in ToSet(devs') => Served')
  ELSE ~Served'

\* The boot's mounting keeps the invariant, and ends with / served if the root is
\* known and it can.
LEMMA BootStep ==
  ASSUME VfsInv, NEW fails, kernel_main(fails)
  PROVE  /\ VfsInv' /\ FdsKept /\ NamesKept
         /\ RootDone
<1> DEFINE t == MountRoot(MountInitrd(State, fails), fails)
<1>1. /\ ~running /\ running' = TRUE /\ Becomes(t)
      /\ UNCHANGED <<blocks, room, probed, attached, module, root, stale, named>>
  BY DEF kernel_main
<1>2. Good(State) /\ InUse(State) = {} /\ room \in Nat /\ Used = {} /\ root \in Roots
  BY <1>1, RoomNat DEF VfsInv
<1>3. Grown(State, t)
      /\ (/\ module /\ t.heap < room /\ InitrdNode \in ToSet(t.devs)
          /\ RootKnown
          => RootMounted(t))
      /\ (~RootKnown => ~RootMounted(t))
  BY <1>2, BootServes
<1> HIDE DEF t
<1>4. Good(State)' /\ FdsTrue' /\ fds' = fds
  BY <1>1, <1>3, GrownStep
<1>5. State' = t /\ mounts' = t.mounts /\ devs' = t.devs /\ heap' = t.heap
  BY <1>1, <1>3, StepTo DEF Grown
<1>6. devs' \in Seq(Names) /\ heap' \in Nat
  BY <1>3, <1>5 DEF Grown, Good, IsState
<1>7. BlockInv'
  BY <1>1, <1>6, BlockStays
<1>8. VfsInv'
  BY <1>1, <1>4, <1>7 DEF VfsInv
<1>9. FdsKept /\ NamesKept
  BY <1>1, <1>2, <1>4 DEF FdsKept, NamesKept, Used
<1>10. Served' <=> RootMounted(t)
  BY <1>5 DEF Served, RootMounted, InUse
<1>11. RootDone
  BY <1>3, <1>5, <1>10 DEF RootDone
<1> QED BY <1>8, <1>9, <1>11

\* What callers do, once the state and the descriptors are known to be right.
LEMMA RunStep ==
  ASSUME VfsInv, Running, Good(State)', FdsTrue'
  PROVE  VfsInv'
<1>1. /\ running /\ running' = running
      /\ UNCHANGED <<blocks, room, probed, attached, module, root>>
  BY DEF Running
<1>2. devs' \in Seq(Names) /\ heap' \in Nat
  BY DEF Good, IsState, State
<1>3. BlockInv'
  BY <1>1, <1>2, BlockStays
<1> QED BY <1>1, <1>3 DEF VfsInv

\* fd_open keeps the invariant and every descriptor in use.
LEMMA OpenStep ==
  ASSUME VfsInv, NEW path, NEW fails, fd_open(path, fails)
  PROVE  VfsInv' /\ FdsKept
<1> DEFINE q == vfs_fd_open(State, path, fails)
           t == q.s
<1>1. Running /\ Becomes(t) /\ UNCHANGED stale
  BY DEF fd_open
<1>2. room' = room /\ blocks' = blocks
  BY <1>1 DEF Running
<1>3. room \in Nat /\ Good(State)
  BY RoomNat DEF VfsInv
<1>4. FdOpened(State, q)
  BY <1>3, GoodFits, FdOpens
<1> HIDE DEF q
<1>5. Good(t)
  BY <1>3, <1>4, FdOpenGood
<1>6. Good(State)' /\ State' = t /\ fds' = t.fds /\ fss' = t.fss
  BY <1>1, <1>2, <1>5, StepTo
<1>7. State.fds = fds /\ State.fss = fss /\ State'.fss = fss' /\ DOMAIN fds = Fds
  BY <1>3, FieldsOfState DEF StateFields, State, Good, IsState
<1>8. CASE t = State
  <2>1. fds' = fds /\ fss' = fss /\ stale' = stale /\ Used' = Used
    BY <1>1, <1>6, <1>7, <1>8 DEF Used
  <2>2. FdsTrue'
    BY <1>6, <1>8, <2>1 DEF FdsTrue, VfsInv
  <2> QED BY <1>1, <1>2, <1>6, <2>1, <2>2, RunStep DEF FdsKept
<1>9. ASSUME NEW h, q.r \in FreeFds(State), h # NoFile, HandleTrue(State, h),
             t.fss = fss, t.fds = [fds EXCEPT ![q.r] = h]
      PROVE  VfsInv' /\ FdsKept
  <2>1. q.r \in Fds /\ fds[q.r] = NoFile
    BY <1>7, <1>9 DEF FreeFds
  <2>2. fds'[q.r] = h /\ fss' = fss /\ \A fd \in Fds : fd # q.r => fds'[fd] = fds[fd]
    BY <1>6, <1>7, <1>9, <2>1
  <2>3. q.r \notin Used /\ Used' = Used \cup {q.r} /\ stale' = stale /\ stale \subseteq Used
    BY <1>1, <1>9, <2>1, <2>2 DEF Used, VfsInv, FdsTrue
  <2>4. \A g : HandleTrue(State', g) <=> HandleTrue(State, g)
    BY <1>7, <2>2 DEF HandleTrue
  <2>5. \A fd \in Used' \ stale' : HandleTrue(State', fds'[fd])
    BY <1>9, <2>2, <2>3, <2>4 DEF VfsInv, FdsTrue, Used
  <2>6. FdsTrue'
    BY <2>3, <2>5 DEF FdsTrue
  <2>7. FdsKept
    BY <1>2, <2>2, <2>3 DEF FdsKept, Used
  <2> QED BY <1>1, <1>6, <2>6, <2>7, RunStep
<1>10. t = State \/ \E h : q.r \in FreeFds(State) /\ h # NoFile /\ HandleTrue(State, h)
                           /\ t.fss = fss /\ t.fds = [fds EXCEPT ![q.r] = h]
  <2>1. ASSUME NEW h,
               t = [devs |-> State.devs, heap |-> State.heap + HandleBlocks(h), mounts |-> State.mounts,
                    fss |-> State.fss, fds |-> [State.fds EXCEPT ![q.r] = h], lost |-> State.lost]
        PROVE  t.fss = fss /\ t.fds = [fds EXCEPT ![q.r] = h]
    BY <1>7, <2>1
  <2> QED BY <1>4, <2>1 DEF FdOpened
<1> QED BY <1>8, <1>9, <1>10

\* fd_close keeps the invariant and every other descriptor.
LEMMA CloseStep ==
  ASSUME VfsInv, NEW fd \in Fds, fd_close(fd)
  PROVE  VfsInv' /\ FdsKept /\ NamesKept
<1> DEFINE t == vfs_fd_close(State, fd)
<1>1. Running /\ Becomes(t) /\ stale' = stale \ {fd} /\ named' = [named EXCEPT ![fd] = <<>>]
  BY DEF fd_close
<1>2. room' = room /\ blocks' = blocks
  BY <1>1 DEF Running
<1>3. room \in Nat /\ Good(State)
  BY RoomNat DEF VfsInv
<1>4. Good(t) /\ t.fds = [State.fds EXCEPT ![fd] = NoFile] /\ t.fss = State.fss
  BY <1>3, FdCloseGood
<1> HIDE DEF t
<1>5. Good(State)' /\ State' = t /\ fds' = t.fds /\ fss' = t.fss
  BY <1>1, <1>2, <1>4, StepTo
<1>6. State.fds = fds /\ State.fss = fss /\ State'.fss = fss' /\ DOMAIN fds = Fds
  BY <1>3, FieldsOfState DEF StateFields, State, Good, IsState
<1>7. fds'[fd] = NoFile /\ fss' = fss /\ \A e \in Fds : e # fd => fds'[e] = fds[e]
  BY <1>4, <1>5, <1>6
<1>8. Used' = Used \ {fd}
  BY <1>7 DEF Used
<1>9. \A g : HandleTrue(State', g) <=> HandleTrue(State, g)
  BY <1>6, <1>7 DEF HandleTrue
<1>10. \A e \in Used' \ stale' : HandleTrue(State', fds'[e])
  BY <1>1, <1>7, <1>8, <1>9 DEF VfsInv, FdsTrue, Used
<1>11. FdsTrue'
  BY <1>1, <1>8, <1>10 DEF FdsTrue, VfsInv
<1>12. FdsKept
  BY <1>1, <1>2, <1>7 DEF FdsKept, Used
<1>13. NamesKept
  BY <1>1, <1>8 DEF NamesKept, Used
<1> QED BY <1>1, <1>5, <1>11, <1>12, <1>13, RunStep

\* A listing or a whole-file read keeps the invariant: it changes nothing.
LEMMA LookStep ==
  ASSUME VfsInv, NEW path, NEW fails, look(path, fails)
  PROVE  VfsInv' /\ FdsKept /\ NamesKept
<1>1. Running /\ Becomes(State) /\ UNCHANGED <<stale, named>> /\ room' = room /\ blocks' = blocks
  <2>1. vfs_list_dir(State, path, fails) = State /\ vfs_read_all(State, path, fails).s = State
    BY RoomNat, GoodFits, LooksKeep DEF VfsInv
  <2> QED BY <2>1 DEF look, Running
<1>2. Grown(State, State)
  BY GrownSame DEF VfsInv
<1>3. /\ Good(State)' /\ FdsTrue' /\ fds' = fds
      /\ \A fd \in Used \ stale : fss'[fds[fd].fs] = fss[fds[fd].fs]
  BY <1>1, <1>2, GrownStep
<1> QED BY <1>1, <1>3, RunStep DEF FdsKept, NamesKept, Used

\* A mount keeps the invariant and every descriptor.
LEMMA MountStep ==
  ASSUME VfsInv, NEW path \in Points, NEW ops \in {"ustar", "ext2"}, NEW dev,
         ops = "ext2" => dev \in MountDevs, NEW fails, mount(path, ops, dev, fails)
  PROVE  VfsInv' /\ FdsKept /\ NamesKept
<1> DEFINE t == vfs_mount(State, path, ops, dev, fails).s
<1>1. Running /\ Becomes(t) /\ UNCHANGED <<stale, named>> /\ room' = room /\ blocks' = blocks
  BY DEF mount, Running
<1>2. Grown(State, t)
  <2>1. IsText(path) /\ (ops = "ext2" => dev \in MountedDevs)
    BY VfsAssumption DEF IsText, MountedDevs
  <2> QED BY <2>1, RoomNat, MountDoes DEF VfsInv, MountDone
<1> HIDE DEF t
<1>3. /\ Good(State)' /\ FdsTrue' /\ fds' = fds
      /\ \A fd \in Used \ stale : fss'[fds[fd].fs] = fss[fds[fd].fs]
  BY <1>1, <1>2, GrownStep
<1> QED BY <1>1, <1>3, RunStep DEF FdsKept, NamesKept, Used

\* Unmounting keeps the invariant: only its own descriptors become stale.
LEMMA UnmountStep ==
  ASSUME VfsInv, NEW path, vfs_unmount(path)
  PROVE  VfsInv' /\ FdsKept /\ NamesKept
<1> DEFINE i == First(MountedAt(State, path))
           f == mounts[i].fs
           t == Unmounted(State, i, f)
<1>1. State.fds = fds /\ State.fss = fss /\ State.mounts = mounts /\ State'.fss = fss'
  BY DEF State
<1>2. /\ Running /\ MountedAt(State, path) # {} /\ Becomes(t) /\ room' = room /\ blocks' = blocks
      /\ named' = named
      /\ stale' = stale \cup {fd \in Fds : fds[fd].ops # None /\ fds[fd].fs = f}
  BY <1>1 DEF vfs_unmount, Running, Unmounted
<1>3. i \in MountSlots /\ mounts[i].ops # None
  <2>1. MountedAt(State, path) \in SUBSET Nat
    BY VfsAssumption DEF MountedAt, MountSlots
  <2>2. i \in MountedAt(State, path)
    BY <1>2, <2>1, FirstOf
  <2> QED BY <1>1, <2>2 DEF MountedAt
<1>4. room \in Nat /\ Good(State)
  BY RoomNat DEF VfsInv
<1> HIDE DEF i
<1>5. Good(t) /\ t.fds = fds /\ \A e \in MountSlots : e # f => t.fss[e] = fss[e]
  BY <1>1, <1>3, <1>4, UnmountedGood
<1> HIDE DEF f, t
<1>6. Good(State)' /\ State' = t /\ fds' = t.fds /\ fss' = t.fss
  BY <1>2, <1>5, StepTo
<1>7. fds' = fds /\ Used' = Used /\ \A e \in MountSlots : e # f => fss'[e] = fss[e]
  BY <1>5, <1>6 DEF Used
<1>8. \A fd \in Used : fds[fd].ops # None
  <2>1. \A fd \in Fds : IsHandle(fds[fd])
    BY <1>1, <1>4 DEF Good, IsState
  <2> QED BY <2>1 DEF Used, IsHandle, None
<1>9. stale' \subseteq Used'
  <2>1. \A fd \in Fds : fds[fd].ops # None => fds[fd] # NoFile
    BY DEF NoFile
  <2> QED BY <1>2, <1>7, <2>1 DEF VfsInv, FdsTrue, Used
<1>10. ASSUME NEW fd \in Used, fd \notin stale'
       PROVE  HandleTrue(State', fds'[fd]) /\ fss'[fds[fd].fs] = fss[fds[fd].fs]
  <2>1. fd \in Fds /\ fd \notin stale /\ fds[fd].fs # f /\ fds[fd] # NoFile
    BY <1>2, <1>8, <1>10 DEF Used
  <2> DEFINE h == fds[fd]
  <2>2. HandleTrue(State, h)
    BY <2>1 DEF VfsInv, FdsTrue
  <2>3. h.fs \in MountSlots /\ fss'[h.fs] = fss[h.fs]
    BY <1>7, <2>1, <2>2 DEF HandleTrue
  <2> HIDE DEF h
  <2>4. HandleTrue(State', h)
    BY <1>1, <2>2, <2>3 DEF HandleTrue
  <2> QED BY <1>7, <2>3, <2>4 DEF h
<1>11. FdsTrue'
  BY <1>7, <1>9, <1>10 DEF FdsTrue
<1>12. FdsKept
  BY <1>2, <1>7, <1>10 DEF FdsKept
<1>13. NamesKept
  BY <1>2, <1>7 DEF NamesKept
<1> QED BY <1>2, <1>6, <1>11, <1>12, <1>13, RunStep

\* The invariant holds before any device is found.
LEMMA VfsStarts == Init => VfsInv
<1> SUFFICES ASSUME Init
             PROVE  VfsInv
  OBVIOUS
<1>1. BlockInv /\ room \in Nat
  <2>1. NoName \in Names
    BY DEF Names
  <2>2. BlockInv
    BY <2>1, BlockAssumption
       DEF Init, BlockInit, BlockInv, BlockTypeOK, DevicesTrue, NamesUnique, Entry
  <2> QED BY <2>2, BlockAssumption DEF BlockInv, BlockTypeOK
<1>2. /\ devs = <<>> /\ heap = 0 /\ lost = 0 /\ stale = {}
      /\ mounts = [i \in MountSlots |-> [point |-> <<>>, ops |-> None, fs |-> 0]]
      /\ fss = [f \in MountSlots |-> NoFs] /\ fds = [fd \in Fds |-> NoFile]
      /\ module \in BOOLEAN /\ root \in Roots /\ running = FALSE
  BY DEF Init, BlockInit
<1>3. IsState(State)
  <2>1. devs \in Seq(Names) /\ heap \in Nat /\ lost \in Nat
    BY <1>2
  <2>2. DOMAIN mounts = MountSlots /\ \A i \in MountSlots : MountTrue(mounts[i])
    <3>1. 0 \in 0 .. MAX_MOUNTS
      BY VfsAssumption
    <3> QED BY <1>2, <3>1 DEF MountTrue
  <2>3. DOMAIN fss = MountSlots /\ \A f \in MountSlots : FsTrue(fss[f])
    BY <1>2 DEF FsTrue
  <2>4. DOMAIN fds = Fds /\ fds = [fd \in Fds |-> fds[fd]] /\ \A fd \in Fds : IsHandle(fds[fd])
    BY <1>2 DEF IsHandle
  <2> QED BY <2>1, <2>2, <2>3, <2>4 DEF IsState, State
<1>4. Accounted(State)
  <2>1. FsSum(State) = 0
    <3> DEFINE n == [f \in MountSlots |-> FsBlocks(State.fss[f])]
    <3>1. DOMAIN n = MountSlots /\ \A f \in MountSlots : n[f] = 0
      BY <1>2 DEF State, FsBlocks, NoFs, None
    <3> HIDE DEF n
    <3>2. Cardinality(Numbered(n)) = 0
      BY <3>1, NumberedNone
    <3> QED BY <3>2 DEF FsSum, n
  <2>2. FdSum(State) = 0
    <3> DEFINE n == [fd \in Fds |-> HandleBlocks(State.fds[fd])]
    <3>1. DOMAIN n = Fds /\ \A fd \in Fds : n[fd] = 0
      BY <1>2 DEF State, HandleBlocks, NoFile, None
    <3> HIDE DEF n
    <3>2. Cardinality(Numbered(n)) = 0
      BY <3>1, NumberedNone
    <3> QED BY <3>2 DEF FdSum, n
  <2>3. State.heap = 0 /\ State.devs = <<>> /\ State.lost = 0 /\ Len(<<>>) = 0
    BY <1>2 DEF State
  <2> QED BY <1>1, <2>1, <2>2, <2>3 DEF Accounted
<1>5. InUse(State) = {} /\ OwnMounts(State)
  BY <1>2 DEF State, InUse, OwnMounts
<1>6. Used = {}
  BY <1>2 DEF Used
<1> QED BY <1>1, <1>2, <1>3, <1>4, <1>5, <1>6 DEF VfsInv, Good, FdsTrue

\* What every step keeps, and what the boot's leaves.
LEMMA VfsSteps ==
  ASSUME VfsInv, [Next]_vars
  PROVE  /\ VfsInv' /\ FdsKept
         /\ NamesKept \/ \E fails \in FailSets, p \in Paths : fd_open(p, fails)
         /\ running' /\ ~running => RootDone
<1>1. CASE Probe
  BY <1>1, ProbeStep DEF Probe, vvars
<1>2. ASSUME NEW fails \in FailSets, kernel_main(fails)
      PROVE  /\ VfsInv' /\ FdsKept /\ NamesKept
             /\ RootDone
  BY <1>2, BootStep
<1>3. ASSUME NEW fails \in FailSets, NEW p \in Paths, fd_open(p, fails)
      PROVE  VfsInv' /\ FdsKept /\ Running
  BY <1>3, OpenStep DEF fd_open
<1>4. ASSUME NEW fails \in FailSets, NEW p \in Paths, look(p, fails)
      PROVE  VfsInv' /\ FdsKept /\ NamesKept /\ Running
  BY <1>4, LookStep DEF look
<1>5. ASSUME NEW fails \in FailSets, NEW p \in Points, mount(p, "ustar", NoName, fails)
      PROVE  VfsInv' /\ FdsKept /\ NamesKept /\ Running
  BY <1>5, MountStep DEF mount
<1>6. ASSUME NEW fails \in FailSets, NEW p \in Points, NEW dev \in MountDevs, mount(p, "ext2", dev, fails)
      PROVE  VfsInv' /\ FdsKept /\ NamesKept /\ Running
  BY <1>6, MountStep DEF mount
<1>7. ASSUME NEW fd \in Fds, fd_close(fd)
      PROVE  VfsInv' /\ FdsKept /\ NamesKept /\ Running
  BY <1>7, CloseStep DEF fd_close
<1>8. ASSUME NEW p \in Points, vfs_unmount(p)
      PROVE  VfsInv' /\ FdsKept /\ NamesKept /\ Running
  <2>1. Running
    BY <1>8 DEF vfs_unmount
  <2> QED BY <1>8, <2>1, UnmountStep
<1>9. CASE UNCHANGED vars
  <2>1. UNCHANGED <<blocks, devs, heap, room, probed, attached>>
        /\ UNCHANGED <<module, root, running, mounts, fss, fds, lost, stale, named>>
    BY <1>9 DEF vars, bvars, vvars
  <2>2. BlockInv'
    BY <2>1, BlockStays DEF VfsInv, BlockInv, BlockTypeOK
  <2>3. State' = State /\ Used' = Used
    BY <2>1 DEF State, Used
  <2>4. Becomes(State) /\ Good(State)
    BY <2>1 DEF Becomes, State, VfsInv
  <2>5. Good(State)'
    BY <2>1, <2>4, StepTo
  <2>6. FdsTrue'
    BY <2>1, <2>3 DEF FdsTrue, VfsInv
  <2>7. VfsInv'
    BY <2>1, <2>2, <2>3, <2>5, <2>6 DEF VfsInv
  <2>8. NamesKept
    BY <2>1, <2>3 DEF NamesKept
  <2> QED BY <2>1, <2>7, <2>8 DEF FdsKept
<1> QED BY <1>1, <1>2, <1>3, <1>4, <1>5, <1>6, <1>7, <1>8, <1>9 DEF Next, Running

----------------------------------------------------------------------------
(* What descriptors read *)

\* A file that vfs_open opens is the one its path denotes.
LEMMA OpensDenoted ==
  ASSUME VfsInv, NEW path \in Paths, NEW fails, vfs_open(State, path, fails).r # NoFile
  PROVE  vfs_read(vfs_open(State, path, fails).r) = Denoted(path)
<1> DEFINE o == vfs_open(State, path, fails)
           i == find_mount(State, path)
           m == mounts[i]
           f == m.fs
           sub == SubSeq(path, Len(m.point) + 1, Len(path))
           rel == DropSlash(sub)
<1>1. /\ Good(State) /\ BlockInv /\ State.mounts = mounts /\ State.fss = fss
      /\ IsState(State) /\ OwnMounts(State)
  BY DEF VfsInv, Good, State
<1>2. \A k \in MountSlots : Len(mounts[k].point) \in Nat
  BY <1>1 DEF IsState, MountTrue
<1>3. o = IF i = 0 THEN Result(State, NoFile)
          ELSE IF m.ops = "ustar" THEN ustar_open(State, f, rel) ELSE ext2_open(State, f, rel, fails)
  BY <1>1 DEF vfs_open, OpenAt
<1> HIDE DEF i
<1>4. i # 0
  BY <1>3 DEF Result
<1>5. i = MountOf(path) /\ i \in MountSlots /\ m.ops # None
  BY <1>2, <1>4, FoundLongest DEF i
<1>6. f \in MountSlots /\ fss[f].ops = m.ops /\ m.ops \in {"ustar", "ext2"}
  BY <1>1, <1>5, MountServes
<1>7. FsTrue(fss[f])
  BY <1>1, <1>6 DEF IsState
<1>8. IsPath(rel) /\ DropSlash(rel) = rel
  <2>1. path \in Seq(Pieces) /\ NoEmptyName(path) /\ Len(m.point) \in Nat
    BY <1>2, <1>5, VfsAssumption, NamesAssumption DEF NoEmptyName
  <2>2. sub \in Seq(Pieces) /\ NoEmptyName(sub)
    BY <2>1, RestHasNames
  <2> HIDE DEF sub
  <2> QED BY <2>2, DropSlashIsPath
<1> DEFINE dev == fss[f].dev
           area == <<attached[dev[1]].port, IF dev[2] = 0 THEN 0 ELSE attached[dev[1]].mbr[dev[2]]>>
<1>9. Denoted(path) =
        IF m.ops = "ustar"
        THEN <<"member", CHOOSE k \in Member(rel) : \A j \in Member(rel) : j <= k>>
        ELSE <<"inode", area, InodeAt(Volumes[area], rel)>>
  <2>1. Denoted(path) =
          IF m.ops = "ustar"
          THEN <<"member", CHOOSE k \in Member(DropSlash(rel)) : \A j \in Member(DropSlash(rel)) : j <= k>>
          ELSE <<"inode", area, InodeAt(Volumes[area], DropSlash(rel))>>
    BY <1>5 DEF Denoted
  <2> HIDE DEF rel, m, area
  <2> QED BY <1>8, <2>1
<1>10. rel \in Seq(Pieces)
  BY <1>8 DEF IsPath
<1> HIDE DEF rel, o
<1>11. CASE m.ops = "ustar"
  <2> DEFINE files == fss[f].files
  <2>1. files \in Listing /\ AsArchived(files, Len(Archive))
    BY <1>6, <1>7, <1>11, UstarFiles
  <2>2. o = ustar_open(State, f, rel)
    BY <1>3, <1>4, <1>11
  <2>3. Lookup(files, rel) # 0 /\ o.r = [ops |-> "ustar", fs |-> f, file |-> Lookup(files, rel)]
    <3>1. ustar_open(State, f, rel).r # NoFile
      BY <2>2 DEF o
    <3>2. /\ Lookup(State.fss[f].files, DropSlash(rel)) # 0
          /\ ustar_open(State, f, rel).r =
               [ops |-> "ustar", fs |-> f, file |-> Lookup(State.fss[f].files, DropSlash(rel))]
      BY <3>1, UstarOpenedIs
    <3> QED BY <1>1, <1>8, <2>2, <3>2
  <2> HIDE DEF files
  <2>4. files[Lookup(files, rel)].data = CHOOSE k \in Member(rel) : \A j \in Member(rel) : j <= k
    BY <1>10, <2>1, <2>3, MemberFound
  <2>5. vfs_read(o.r) = <<"member", files[Lookup(files, rel)].data>>
    BY <2>3 DEF vfs_read, ustar_file_read, files
  <2> QED BY <1>9, <1>11, <2>4, <2>5 DEF o
<1>12. CASE m.ops = "ext2"
  <2>1. dev \in MountedDevs /\ HasVolume(dev)
    BY <1>6, <1>7, <1>12, Ext2Device
  <2>2. dev # NoName
    BY <2>1, NamesAssumption DEF MountedDevs, NoRoot
  <2>3. Area(dev) = area /\ area \in DOMAIN Volumes
    BY <1>1, <2>1, <2>2, AreaIs DEF HasVolume
  <2>4. IsVolume(Volumes[area])
    <3>1. ASSUME NEW v \in DOMAIN Volumes
          PROVE  IsVolume(Volumes[v])
      BY VfsAssumption, VolumesAssumption DEF IsVolume
    <3> HIDE DEF area
    <3> QED BY <2>3, <3>1
  <2>5. o = ext2_open(State, f, rel, fails)
    BY <1>3, <1>4, <1>12
  <2> DEFINE ino == Walk(Volumes[area], rel)
  <2>6. ino # 0 /\ o.r = [ops |-> "ext2", fs |-> f, file |-> ino]
    <3>1. ext2_open(State, f, rel, fails).r # NoFile
      BY <2>5 DEF o
    <3>2. /\ Walk(Volumes[Area(State.fss[f].dev)], DropSlash(rel)) # 0
          /\ ext2_open(State, f, rel, fails).r =
               [ops |-> "ext2", fs |-> f, file |-> Walk(Volumes[Area(State.fss[f].dev)], DropSlash(rel))]
      BY <3>1, Ext2OpenedIs
    <3> HIDE DEF area
    <3> QED BY <1>1, <1>8, <2>3, <2>5, <3>2
  <2> HIDE DEF area, dev
  <2>7. ino = InodeAt(Volumes[area], rel)
    BY <1>8, <2>4, <2>6, WalkIs
  <2> HIDE DEF ino
  <2>8. vfs_read(o.r) = <<"inode", Area(dev), ino>>
    BY <2>6 DEF vfs_read, ext2_file_read, dev
  <2>9. Denoted(path) = <<"inode", area, InodeAt(Volumes[area], rel)>>
    BY <1>9, <1>12 DEF area, dev
  <2> QED BY <2>3, <2>7, <2>8, <2>9 DEF o
<1> QED BY <1>6, <1>11, <1>12

\* A descriptor that stays in use, and its file system mounted, reads the same.
LEMMA ReadSame ==
  ASSUME VfsInv, FdsKept, NEW fd \in Used \ stale, fd \in Used' \ stale'
  PROVE  vfs_fd_read(fd)' = vfs_fd_read(fd)
<1>1. running
  BY DEF VfsInv
<1>2. fds'[fd] = fds[fd] /\ fds[fd] # NoFile
  BY DEF FdsKept, Used
<1>3. fss'[fds[fd].fs] = fss[fds[fd].fs] /\ blocks' = blocks
  BY <1>1, <1>2 DEF FdsKept
<1> QED BY <1>2, <1>3 DEF vfs_fd_read, vfs_read, ustar_file_read, ext2_file_read, Area, find_block

\* Every descriptor reads what its path named, and that is known of each.
NamedTrue == DOMAIN named = Fds /\ DescriptorsReadTheirFile

\* A step that opens no descriptor leaves each to read what its path named.
LEMMA NamesStay ==
  ASSUME VfsInv, FdsKept, NamesKept, NamedTrue
  PROVE  NamedTrue'
<1>1. DOMAIN named' = Fds /\ Used' \subseteq Used /\ \A fd \in Used' : named'[fd] = named[fd]
  BY DEF NamesKept, NamedTrue
<1>2. ASSUME NEW fd \in Used' \ stale'
      PROVE  vfs_fd_read(fd)' = named'[fd]
  <2>1. fd \in Used \ stale
    BY <1>1 DEF FdsKept, Used
  <2>2. vfs_fd_read(fd)' = vfs_fd_read(fd)
    BY <2>1, ReadSame
  <2> QED BY <1>1, <2>1, <2>2 DEF NamedTrue, DescriptorsReadTheirFile
<1> QED BY <1>1, <1>2 DEF NamedTrue, DescriptorsReadTheirFile

\* An open leaves the new descriptor to read what its path names, and the others
\* to read what they did.
LEMMA OpenNames ==
  ASSUME VfsInv, FdsKept, NamedTrue, NEW path \in Paths, NEW fails, fd_open(path, fails)
  PROVE  NamedTrue'
<1> DEFINE q == vfs_fd_open(State, path, fails)
           h == vfs_open(State, path, fails).r
<1>1. /\ Running /\ Becomes(q.s) /\ UNCHANGED stale
      /\ named' = IF q.r = -1 THEN named ELSE [named EXCEPT ![q.r] = Denoted(path)]
  BY DEF fd_open
<1>2. FdOpened(State, q) /\ (q.r # -1 => h # NoFile /\ q.s.fds[q.r] = h)
  BY RoomNat, GoodFits, FdOpens DEF VfsInv
<1>3. h # NoFile => vfs_read(h) = Denoted(path)
  BY OpensDenoted
<1> HIDE DEF q, h
<1>4. fds' = q.s.fds /\ fss' = q.s.fss /\ blocks' = blocks /\ State.fds = fds /\ State.fss = fss
  BY <1>1 DEF Becomes, Running, State
<1>5. CASE q.r = -1
  <2>1. ~(q.r \in FreeFds(State))
    BY <1>5, VfsAssumption DEF FreeFds, Fds
  <2>2. q.s = State
    BY <1>2, <2>1 DEF FdOpened
  <2>3. NamesKept
    BY <1>1, <1>4, <1>5, <2>2 DEF NamesKept, Used
  <2> QED BY <2>3, NamesStay
<1>6. CASE q.r # -1
  <2>1. PICK g : /\ q.r \in FreeFds(State)
                 /\ q.s = [devs |-> State.devs, heap |-> State.heap + HandleBlocks(g),
                           mounts |-> State.mounts, fss |-> State.fss,
                           fds |-> [State.fds EXCEPT ![q.r] = g], lost |-> State.lost]
    BY <1>2, <1>6 DEF FdOpened
  <2>2. q.s.fss = fss /\ q.s.fds = [fds EXCEPT ![q.r] = g]
    BY <1>4, <2>1
  <2>3. fss' = fss /\ fds' = [fds EXCEPT ![q.r] = g] /\ fds'[q.r] = h /\ h # NoFile
    BY <1>2, <1>4, <1>6, <2>2
  <2>4. DOMAIN fds = Fds
    BY <1>4 DEF VfsInv, Good, IsState
  <2>5. \A fd \in Fds : fd # q.r => fds'[fd] = fds[fd]
    BY <2>3, <2>4
  <2>6. PICK r : r = q.r
    OBVIOUS
  <2>7. PICK e : e = h
    OBVIOUS
  <2>8. DOMAIN named' = Fds /\ r \in Fds
    BY <1>1, <1>6, <2>1, <2>6 DEF NamedTrue, FreeFds
  <2>9. named'[r] = Denoted(path) /\ \A fd \in Fds : fd # r => named'[fd] = named[fd]
    BY <1>1, <1>6, <2>6, <2>8 DEF NamedTrue
  <2>10. vfs_fd_read(r)' = named'[r]
    <3>1. vfs_read(e) = Denoted(path)
      BY <1>3, <2>3, <2>7
    <3>2. vfs_read(e)' = vfs_read(e)
      BY <1>4, <2>3 DEF vfs_read, ustar_file_read, ext2_file_read, Area, find_block
    <3>3. fds'[r] = e /\ e # NoFile
      BY <2>3, <2>6, <2>7
    <3>4. vfs_fd_read(r)' = vfs_read(e)'
      BY <3>3 DEF vfs_fd_read, vfs_read, ustar_file_read, ext2_file_read
    <3> QED BY <2>9, <3>1, <3>2, <3>4
  <2>11. ASSUME NEW fd \in Used' \ stale', fd # r
         PROVE  vfs_fd_read(fd)' = named'[fd]
    <3>1. fd \in Used \ stale
      BY <1>1, <2>5, <2>6, <2>11 DEF Used
    <3>2. vfs_fd_read(fd)' = vfs_fd_read(fd)
      BY <3>1, ReadSame
    <3> QED BY <2>9, <2>11, <3>1, <3>2 DEF NamedTrue, DescriptorsReadTheirFile, Used
  <2>12. ASSUME NEW fd \in Used' \ stale'
         PROVE  vfs_fd_read(fd)' = named'[fd]
    <3>1. CASE fd = r
      BY <2>10, <3>1
    <3> QED BY <2>11, <3>1
  <2> QED BY <2>8, <2>12 DEF NamedTrue, DescriptorsReadTheirFile
<1> QED BY <1>5, <1>6

----------------------------------------------------------------------------
(* Theorems *)

\* The inductive invariant: the table of devices, the heap's owners and the
\* mounts are right, what descriptors lead to is there, and nothing is mounted or
\* open before kernel_main mounts it.
THEOREM VfsInvariant == Spec => []VfsInv
<1>1. VfsInv /\ [Next]_vars => VfsInv'
  BY VfsSteps
<1> QED BY VfsStarts, <1>1, PTL DEF Spec

\* The variables keep their types, the heap is never overdrawn, and every handle
\* in a descriptor names a place for a file system.
THEOREM VfsTypeCorrect == Spec => []TypeOK
<1>1. VfsInv => TypeOK
  <2> SUFFICES ASSUME VfsInv
               PROVE  TypeOK
    OBVIOUS
  <2>1. /\ BlockTypeOK /\ module \in BOOLEAN /\ root \in Roots /\ running \in BOOLEAN
        /\ stale \subseteq Used /\ Good(State)
    BY DEF VfsInv, BlockInv, FdsTrue
  <2>2. /\ heap <= room /\ lost \in Nat
        /\ \A i \in MountSlots : MountTrue(mounts[i])
        /\ \A f \in MountSlots : FsTrue(fss[f])
        /\ \A fd \in Fds : IsHandle(fds[fd])
    BY <2>1 DEF Good, IsState, Accounted, State
  <2>3. \A f \in MountSlots : fss[f].ops \in {None, "ustar", "ext2"}
    <3>1. ASSUME NEW x, FsTrue(x)
          PROVE  x.ops \in {None, "ustar", "ext2"}
      <4>1. ASSUME NEW dev, x = [ops |-> "ext2", dev |-> dev]
            PROVE  x.ops = "ext2"
        BY <4>1
      <4>2. ASSUME NEW l, x = [ops |-> "ustar", files |-> l]
            PROVE  x.ops = "ustar"
        BY <4>2
      <4> QED BY <3>1, <4>1, <4>2 DEF FsTrue, NoFs
    <3> QED BY <2>2, <3>1
  <2>4. \A fd \in Fds : fds[fd].fs \in 0 .. MAX_MOUNTS
    BY <2>2, VfsAssumption DEF IsHandle, NoFile, MountSlots
  <2> QED BY <2>1, <2>2, <2>3, <2>4 DEF TypeOK, MountTrue
<1> QED BY VfsInvariant, <1>1, PTL

\* Whatever fails at whatever point, every block taken from the heap is a name,
\* part of a mounted file system or of an open handle, or a dropped ustar entry:
\* vfs_open, vfs_list_dir, vfs_read_all and the mounts give back what they do not
\* keep (src/fs/vfs.c, ustar.c, ext2.c, fstab.c).
THEOREM HeapKept == Spec => []HeapAccounted
<1>1. VfsInv => HeapAccounted
  <2> SUFFICES ASSUME VfsInv
               PROVE  HeapAccounted
    OBVIOUS
  <2>1. Accounted(State)
    BY DEF VfsInv, Good
  <2> QED BY <2>1 DEF Accounted, FsSum, FdSum, State, HeapAccounted
<1> QED BY VfsInvariant, <1>1, PTL

\* Each file system is mounted in one slot and each slot in use has one of its
\* kind, so vfs_unmount frees nothing that another mount uses.
THEOREM MountsApart == Spec => []MountsOwnFileSystems
<1>1. VfsInv => MountsOwnFileSystems
  <2> SUFFICES ASSUME VfsInv
               PROVE  MountsOwnFileSystems
    OBVIOUS
  <2>1. OwnMounts(State)
    BY DEF VfsInv, Good
  <2> QED BY <2>1 DEF OwnMounts, InUse, State, MountsOwnFileSystems, Live
<1> QED BY VfsInvariant, <1>1, PTL

\* The table of devices stays true, and its names unique, also while file
\* systems are mounted and files opened.
THEOREM DevicesStay == Spec => [](DevicesTrue /\ NamesUnique)
<1>1. VfsInv => DevicesTrue /\ NamesUnique
  BY DEF VfsInv, BlockInv
<1> QED BY VfsInvariant, <1>1, PTL

\* A descriptor in use changes only by being closed (src/fs/vfs.c, the search
\* of vfs_fd_open for a free one).
THEOREM DescriptorsStay == Spec => DescriptorsKept
<1>1. VfsInv /\ [Next]_vars => [\A fd \in Used : fds'[fd] \in {fds[fd], NoFile}]_vars
  BY VfsSteps DEF FdsKept
<1> QED BY VfsInvariant, <1>1, PTL DEF Spec, DescriptorsKept

\* With an initrd, its node and heap left, the kernel has a root when it runs,
\* also when the partition asked for did not mount, which takes two slots for
\* mounts; and it has none when it does not know the root asked for, as then it
\* mounts neither that nor the initrd at / (src/core/kernel.c:147, :173).
THEOREM RootIsServed == Spec => RootServed
<1>1. VfsInv /\ [Next]_vars => [running' /\ ~running => RootDone]_vars
  BY VfsSteps
<1> QED BY VfsInvariant, <1>1, PTL DEF Spec, RootServed, RootDone

\* A descriptor that stays in use, and its file system mounted, reads the file it
\* read before.
ReadsSteady ==
  [][\A fd \in Used \ stale :
        fd \in Used' \ stale' => vfs_fd_read(fd)' = vfs_fd_read(fd)]_vars

\* While the file system of a descriptor stays mounted, the descriptor reads the
\* same file: no mount, unmount or open changes what it leads to.
THEOREM ReadsStay == Spec => ReadsSteady
<1>1. VfsInv /\ [Next]_vars =>
        [\A fd \in Used \ stale : fd \in Used' \ stale' => vfs_fd_read(fd)' = vfs_fd_read(fd)]_vars
  <2> SUFFICES ASSUME VfsInv, [Next]_vars, NEW fd \in Used \ stale, fd \in Used' \ stale'
               PROVE  vfs_fd_read(fd)' = vfs_fd_read(fd)
    OBVIOUS
  <2> QED BY VfsSteps, ReadSame
<1> QED BY VfsInvariant, <1>1, PTL DEF Spec, ReadsSteady

\* A descriptor whose file system is mounted reads the file its path named when it
\* was opened: the last member of that name in the archive, by the list that the
\* boot made of it, or the inode at that path on the partition the device's name
\* stands for, by the walk over its directories (vfs_fd_open and vfs_fd_read of
\* src/fs/vfs.c, ustar_open of ustar.c, ext2_open of ext2.c).
THEOREM ReadTheirFile == Spec => []DescriptorsReadTheirFile
<1>1. Init => NamedTrue
  <2> SUFFICES ASSUME Init
               PROVE  NamedTrue
    OBVIOUS
  <2>1. named = [fd \in Fds |-> <<>>] /\ Used = {}
    BY DEF Init, Used
  <2> QED BY <2>1 DEF NamedTrue, DescriptorsReadTheirFile
<1>2. VfsInv /\ NamedTrue /\ [Next]_vars => NamedTrue'
  <2> SUFFICES ASSUME VfsInv, NamedTrue, [Next]_vars
               PROVE  NamedTrue'
    OBVIOUS
  <2>1. FdsKept /\ (NamesKept \/ \E fails \in FailSets, p \in Paths : fd_open(p, fails))
    BY VfsSteps
  <2> QED BY <2>1, NamesStay, OpenNames
<1>3. NamedTrue => DescriptorsReadTheirFile
  BY DEF NamedTrue
<1> QED BY VfsInvariant, <1>1, <1>2, <1>3, PTL DEF Spec
=============================================================================
