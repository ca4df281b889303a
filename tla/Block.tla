-------------------------------- MODULE Block --------------------------------
(***************************************************************************)
(* The block layer (src/block/block.c) and the device registry             *)
(* (src/dev/dev.c), filled while the AHCI driver attaches its ports        *)
(* (src/drivers/ahci.c).                                                   *)
(*                                                                         *)
(* A name is the pair of a disk's number (sda is 1, sdb is 2) and the      *)
(* number of a partition on it, 0 for the disk itself.  The kernel heap is *)
(* the number of blocks taken from it and the room it has.  attached is a  *)
(* history variable.                                                       *)
(***************************************************************************)
EXTENDS Integers, Sequences, FiniteSets

CONSTANTS
  MAX_BLOCKS,           \* slots of the table of block devices
  MAX_DEVICES,          \* slots of the device registry
  Ports,                \* the ports with a disk, in the order they are probed
  MBRs,                 \* partition tables a disk may have
  NoPartition,          \* an entry of type 0
  Rooms                 \* how many blocks the heap may have left

NoName == <<>>
Disk(k) == <<k, 0>>
Partition(k, i) == <<k, i>>
InitrdNode == <<0, 0>>  \* the node /dev/initrd
Names == {NoName} \cup (Nat \X (0 .. 4))

ASSUME BlockAssumption ==
  /\ MAX_BLOCKS \in Nat \ {0} /\ MAX_DEVICES \in Nat
  /\ Ports \in Seq(Nat)
  /\ NoPartition \notin Nat
  /\ MBRs \subseteq [1 .. 4 -> Nat \cup {NoPartition}]
  /\ Rooms \subseteq Nat

VARIABLES
  blocks,               \* the table of block devices
  devs,                 \* the names registered, in the order of their slots
  heap,                 \* blocks of kernel heap taken and not given back
  room,                 \* blocks the kernel heap has
  probed,               \* ports the driver has been through
  attached              \* history: the disks found, with port and table

bvars == <<blocks, devs, heap, room, probed, attached>>

Slots == 1 .. MAX_BLOCKS

Entry == [name : Names, port : Nat, start : Nat, is_partition : BOOLEAN]

FreeSlots(t) == {i \in Slots : t[i].name = NoName}

\* The first slot of a set, as the loops over the table find it.
First(S) == CHOOSE i \in S : \A j \in S : i <= j

\* A disk that finds no room is dropped.
block_register_disk(t, name, port) ==
  IF FreeSlots(t) = {} THEN t
  ELSE [t EXCEPT ![First(FreeSlots(t))] =
          [name |-> name, port |-> port, start |-> 0, is_partition |-> FALSE]]

\* Mutant: the port is the one the free slot was left with.
ParentPortForgotten(t, i, disk) == t[i].port

\* The port of the disk a partition is on; a slot keeps its own without one.
ParentPort(t, i, disk) ==
  LET parents == {p \in Slots : t[p].name = disk}
  IN  IF parents = {} THEN t[i].port
      ELSE t[CHOOSE p \in parents : \A q \in parents : q <= p].port

block_register_partition(t, k, idx, start) ==
  LET i == First(FreeSlots(t))
  IN  IF FreeSlots(t) = {} THEN t
      ELSE [t EXCEPT ![i] = [name |-> Partition(k, idx),
                             port |-> ParentPort(t, i, Disk(k)),
                             start |-> start, is_partition |-> TRUE]]

\* The slot that read and mount look a name up in, 0 when there is none.
find_block(name) ==
  LET S == {i \in Slots : blocks[i].name = name}
  IN  IF S = {} THEN 0 ELSE First(S)

block_get_partition(name) ==
  find_block(name) # 0 /\ blocks[find_block(name)].is_partition

\* The registry keeps a copy of the name, from the heap.
dev_register(r, name) ==
  IF Len(r.devs) < MAX_DEVICES /\ r.heap < room
  THEN [r EXCEPT !.devs = Append(@, name), !.heap = @ + 1]
  ELSE r

\* One entry of a partition table: the device and its node are registered, and
\* what either registration answers is ignored.
AddPartition(r, k, mbr, i) ==
  IF mbr[i] = NoPartition THEN r
  ELSE dev_register(
         [r EXCEPT !.blocks = block_register_partition(@, k, i, mbr[i])],
         Partition(k, i))

AddPartitions(r, k, mbr) ==
  AddPartition(AddPartition(AddPartition(AddPartition(
    r, k, mbr, 1), k, mbr, 2), k, mbr, 3), k, mbr, 4)

\* Mutant: the letter in a disk's name is not moved on.
DiskNumberStuck == 1

DiskNumber == Len(attached) + 1

----------------------------------------------------------------------------
BlockInit ==
  /\ blocks = [i \in Slots |->
       [name |-> NoName, port |-> 0, start |-> 0, is_partition |-> FALSE]]
  /\ devs = <<>>
  /\ heap = 0
  /\ room \in Rooms
  /\ probed = 0
  /\ attached = <<>>

\* The next port is identified and both reads of its first sector succeed: the
\* disk takes the next name and its partitions are registered.
ahci_identify_port(mbr) ==
  LET k    == DiskNumber
      port == Ports[probed + 1]
      r    == AddPartitions(
                [blocks |-> block_register_disk(blocks, Disk(k), port),
                 devs |-> devs, heap |-> heap], k, mbr)
  IN  /\ probed < Len(Ports)
      /\ blocks' = r.blocks
      /\ devs' = r.devs
      /\ heap' = r.heap
      /\ probed' = probed + 1
      /\ attached' = Append(attached, [port |-> port, mbr |-> mbr])
      /\ UNCHANGED room

\* A port whose device cannot be identified or read leaves no name behind.
ahci_identify_port_fails ==
  /\ probed < Len(Ports)
  /\ probed' = probed + 1
  /\ UNCHANGED <<blocks, devs, heap, room, attached>>

BlockNext ==
  \/ \E mbr \in MBRs : ahci_identify_port(mbr)
  \/ ahci_identify_port_fails

BlockSpec == BlockInit /\ [][BlockNext]_bvars

----------------------------------------------------------------------------
(* Properties *)

\* The types of the variables.
BlockTypeOK ==
  /\ blocks \in [Slots -> Entry]
  /\ devs \in Seq(Names)
  /\ heap \in Nat
  /\ room \in Rooms
  /\ probed \in 0 .. Len(Ports)
  /\ attached \in Seq([port : Nat, mbr : MBRs])

\* A name in the table stands for the disk, and on it for the partition, that
\* had the name when the disk was found, also when the table filled up in the
\* middle: no partition inherits another disk's port.
NameTrue(e, found) ==
  LET k == e.name[1]
      p == e.name[2]
  IN  /\ k \in 1 .. Len(found)
      /\ e.port = found[k].port
      /\ e.is_partition <=> p # 0
      /\ e.start = IF p = 0 THEN 0 ELSE found[k].mbr[p]

DevicesTrue == \A i \in Slots : blocks[i].name # NoName => NameTrue(blocks[i], attached)

\* No two slots have the same name, so the first match is the only one.
NamesUnique ==
  \A i, j \in Slots : blocks[i].name = blocks[j].name /\ i # j => blocks[i].name = NoName

\* The inductive invariant.
BlockInv == BlockTypeOK /\ DevicesTrue /\ NamesUnique
=============================================================================
