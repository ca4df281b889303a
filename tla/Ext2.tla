-------------------------------- MODULE Ext2 --------------------------------
(***************************************************************************)
(* How the ext2 driver (src/fs/ext2.c) finds a file of a mounted volume    *)
(* and reads from it, down to the sectors of the disk (src/block/block.c). *)
(*                                                                         *)
(* A block is what it reads as: group descriptors, inodes and directory    *)
(* entries by their offset in it.  The data of a file is known by where it *)
(* lies: a run of bytes has a block, the offset in it, and a length.       *)
(***************************************************************************)
EXTENDS Integers, Sequences, FiniteSetsExt

SECTOR == 512
GD_SIZE == 32
ROOT_INO == 2
DIRECT == 12          \* direct blocks of an inode
AHCI_SECTORS == 8     \* sectors a read may have

VARIABLES
  vol,        \* [start, count, block_size, inode_size, first_data_block,
              \*  inodes_per_group, disk, bad, ...]; disk: sector -> the block that
              \*  starts there; bad: sectors that cannot be read
  request,    \* [path, offset, len]: the file and the bytes asked for
  ext_pc,     \* what the driver does
  components, \* names of the path still to be looked up
  inode_no, inode, \* the inode it has come to, its number first
  copied,     \* bytes read so far
  got,        \* history: runs of bytes read, [block, off, len, at]: at, the place in
              \* the buffer
  sectors     \* history: sectors read

evars == <<vol, request, ext_pc, components, inode_no, inode, copied, got, sectors>>

\* Blocks and inodes that are not there.
NoBlock == [at |-> <<>>]
ContentAt(b, o, none) == IF o \in DOMAIN b.at THEN b.at[o] ELSE none
NoInode == [size |-> 0, block |-> [i \in 0 .. DIRECT - 1 |-> 0]]
NoEntry == [inode |-> 0, rec_len |-> 0, name |-> ""]

----------------------------------------------------------------------------
(* Reading blocks.  The volume is v; a read that fails gives no block. *)

\* Mutant: the partition's first sector is not added.
FinalOfDisk(v, lba) == lba

\* block_read: from a sector of the partition to one of the disk.  Nothing
\* compares it with the partition's count.
Final(v, lba) == lba + v.start

SectorsOf(v) == v.block_size \div SECTOR
SectorOf(v, block_no) == Final(v, block_no * SectorsOf(v))

Readable(v, block_no) == SectorsOf(v) <= AHCI_SECTORS /\ SectorOf(v, block_no) \notin v.bad

ext2_read_block(v, block_no) ==
  IF SectorOf(v, block_no) \in DOMAIN v.disk THEN v.disk[SectorOf(v, block_no)] ELSE NoBlock

----------------------------------------------------------------------------
(* Where an inode lies *)

Index(v, ino) == ino - 1
Group(v, ino) == Index(v, ino) \div v.inodes_per_group

\* Mutant: there is one group.
LocalIndexOfOneGroup(v, ino) == Index(v, ino)

LocalIndex(v, ino) == Index(v, ino) % v.inodes_per_group

GdBlock(v, ino) == v.first_data_block + 1 + (Group(v, ino) * GD_SIZE) \div v.block_size
GdOffset(v, ino) == (Group(v, ino) * GD_SIZE) % v.block_size
InodeTable(v, ino) == ContentAt(ext2_read_block(v, GdBlock(v, ino)), GdOffset(v, ino), 0)

InodesPerBlock(v) == v.block_size \div v.inode_size
InodeBlock(v, ino) == InodeTable(v, ino) + LocalIndex(v, ino) \div InodesPerBlock(v)
InodeOffset(v, ino) == (LocalIndex(v, ino) % InodesPerBlock(v)) * v.inode_size

\* Two reads: the group's descriptor and the block of its table.
ext2_read_inode ==
  LET gd == GdBlock(vol, inode_no)
      block == InodeBlock(vol, inode_no)
  IN  IF ~Readable(vol, gd)
      THEN ext_pc' = "failed" /\ UNCHANGED <<inode, sectors>>
      ELSE IF ~Readable(vol, block)
      THEN ext_pc' = "failed" /\ sectors' = sectors \cup {SectorOf(vol, gd)} /\ UNCHANGED inode
      ELSE /\ inode' = ContentAt(ext2_read_block(vol, block), InodeOffset(vol, inode_no), NoInode)
           /\ sectors' = sectors \cup {SectorOf(vol, gd), SectorOf(vol, block)}
           /\ ext_pc' = "open"

----------------------------------------------------------------------------
(* Looking up a name.  The entries of a block are looked at one after the   *)
(* other, to the first that is unused or has an impossible length.          *)

ScanBlock(v, b, name) ==
  LET from[o \in Nat] ==
        LET e == ContentAt(b, o, NoEntry)
        IN  IF o >= v.block_size \/ e.inode = 0 \/ e.rec_len \notin 1 .. v.block_size THEN 0
            ELSE IF e.name = name THEN e.inode ELSE from[o + e.rec_len]
  IN  from[0]

\* Direct blocks only; a block that is a hole or cannot be read is passed over.
Scanned(v, dir) == {i \in 0 .. DIRECT - 1 : dir.block[i] # 0 /\ Readable(v, dir.block[i])}

\* The inode of the first entry found, or 0, and the blocks read up to it.
ext2_find_in_dir(v, dir, name) ==
  LET ino(i) == ScanBlock(v, ext2_read_block(v, dir.block[i]), name)
      hits == {i \in Scanned(v, dir) : ino(i) # 0}
      scanned == IF hits = {} THEN Scanned(v, dir) ELSE {i \in Scanned(v, dir) : i <= Min(hits)}
  IN  [ino |-> IF hits = {} THEN 0 ELSE ino(Min(hits)), read |-> {dir.block[i] : i \in scanned}]

open_component ==
  /\ ext_pc = "open" /\ components # <<>>
  /\ \E r \in {ext2_find_in_dir(vol, inode, Head(components))} :
       /\ ext_pc' = IF r.ino = 0 THEN "failed" ELSE "inode"
       /\ inode_no' = r.ino
       /\ sectors' = sectors \cup {SectorOf(vol, b) : b \in r.read}
  /\ components' = Tail(components)
  /\ UNCHANGED <<vol, request, inode, copied, got>>

\* The root's inode, and that of a name found.
open_inode ==
  /\ ext_pc = "inode"
  /\ ext2_read_inode
  /\ UNCHANGED <<vol, request, components, inode_no, copied, got>>

----------------------------------------------------------------------------
(* ext2_file_read *)

Here_off == request.offset + copied

Len_of(size) ==
  IF request.offset >= size THEN 0 ELSE Min({request.len, size - request.offset})

BlockIndex == Here_off \div vol.block_size
BlockOff == Here_off % vol.block_size

\* There is a direct block to read from.
HasBlock == BlockIndex < DIRECT /\ inode.block[BlockIndex] # 0

Reading == ext_pc = "open" /\ components = <<>>

copy_block ==
  /\ Reading /\ copied < Len_of(inode.size)
  /\ HasBlock /\ Readable(vol, inode.block[BlockIndex])
  /\ \E to_copy \in {Min({vol.block_size - BlockOff, Len_of(inode.size) - copied})} :
       /\ got' = Append(got, [block |-> inode.block[BlockIndex], off |-> BlockOff, len |-> to_copy,
                              at |-> copied])
       /\ copied' = copied + to_copy
  /\ sectors' = sectors \cup {SectorOf(vol, inode.block[BlockIndex])}
  /\ UNCHANGED <<vol, request, ext_pc, components, inode_no, inode>>

\* What has been copied so far is the result.
file_read_ends ==
  /\ Reading
  /\ \/ copied >= Len_of(inode.size)
     \/ ~HasBlock
     \/ HasBlock /\ ~Readable(vol, inode.block[BlockIndex])
  /\ ext_pc' = "read"
  /\ UNCHANGED <<vol, request, components, inode_no, inode, copied, got, sectors>>

Ext2Init(v, r) ==
  /\ vol = v /\ request = r
  /\ ext_pc = "inode" /\ components = r.path
  /\ inode_no = ROOT_INO /\ inode = NoInode /\ copied = 0 /\ got = <<>> /\ sectors = {}

Ext2Next == open_component \/ open_inode \/ copy_block \/ file_read_ends

----------------------------------------------------------------------------
(* A volume as it is formatted.  v.inodes and v.names are what was stored:  *)
(* inode number -> inode, and -> names in it if it is a directory.          *)

\* A block of the partition, and where it is stored.
BlockThere(v, b) == b \in Nat /\ (b + 1) * (v.block_size \div SECTOR) <= v.count
OnDisk(v, b) == v.start + b * (v.block_size \div SECTOR)

\* Inodes are numbered from 1 and divided into groups, of which the descriptors
\* lie one after the other; in the table of its group an inode has its place.
InodeStored(v, ino) ==
  LET group == (ino - 1) \div v.inodes_per_group
      k == ino - 1 - group * v.inodes_per_group
      gd == v.first_data_block + 1 + (group * GD_SIZE) \div v.block_size
      descriptors == v.disk[OnDisk(v, gd)].at
      b == descriptors[(group * GD_SIZE) % v.block_size] + (k * v.inode_size) \div v.block_size
      inodes == v.disk[OnDisk(v, b)].at
      f == v.inodes[ino]
  IN  /\ BlockThere(v, gd) /\ OnDisk(v, gd) \in DOMAIN v.disk
      /\ (group * GD_SIZE) % v.block_size \in DOMAIN descriptors
      /\ descriptors[(group * GD_SIZE) % v.block_size] \in Nat
      /\ BlockThere(v, b) /\ OnDisk(v, b) \in DOMAIN v.disk
      /\ (k * v.inode_size) % v.block_size \in DOMAIN inodes
      /\ inodes[(k * v.inode_size) % v.block_size] = f
      /\ f.size \in Nat
      /\ \A i \in 0 .. DIRECT - 1 : f.block[i] \in Nat /\ (f.block[i] # 0 => BlockThere(v, f.block[i]))

\* The entries of a block of a directory fill it.
EntriesFill(v, at) ==
  /\ 0 \in DOMAIN at
  /\ \A o \in DOMAIN at :
       /\ o \in Nat /\ o < v.block_size /\ at[o].rec_len \in 1 .. v.block_size
       /\ o + at[o].rec_len = v.block_size \/ o + at[o].rec_len \in DOMAIN at
       /\ \A p \in DOMAIN at : p > o => p >= o + at[o].rec_len

\* A directory has no more than twelve blocks; what is not unused in them are its
\* names.
DirectoryStored(v, d) ==
  LET blocks == {v.inodes[d].block[i] : i \in 0 .. DIRECT - 1} \ {0}
      at(b) == v.disk[OnDisk(v, b)].at
  IN  /\ \A b \in blocks :
           /\ OnDisk(v, b) \in DOMAIN v.disk /\ EntriesFill(v, at(b))
           /\ \A o \in DOMAIN at(b) :
                IF at(b)[o].inode = 0 THEN v.unused
                ELSE at(b)[o].name \in DOMAIN v.names[d] /\ v.names[d][at(b)[o].name] = at(b)[o].inode
      /\ \A name \in DOMAIN v.names[d] :
           /\ v.names[d][name] \in DOMAIN v.inodes
           /\ \E b \in blocks : \E o \in DOMAIN at(b) :
                at(b)[o].name = name /\ at(b)[o].inode = v.names[d][name]

Formatted(v) ==
  /\ v.start \in Nat /\ v.count \in Nat /\ v.first_data_block \in Nat
  /\ v.block_size \in Nat \ {0} /\ v.inode_size \in Nat \ {0} /\ v.inodes_per_group \in Nat \ {0}
  /\ v.block_size % v.inode_size = 0
  /\ ROOT_INO \in DOMAIN v.inodes
  /\ \A ino \in DOMAIN v.inodes : ino \in Nat \ {0} /\ InodeStored(v, ino)
  /\ \A d \in DOMAIN v.names : d \in DOMAIN v.inodes /\ DirectoryStored(v, d)

Asks(r) == r.path \in Seq(STRING) /\ r.offset \in Nat /\ r.len \in Nat

----------------------------------------------------------------------------
(* Properties *)

\* No inode is named; a path goes on through what is no directory.
Nothing == 0
Astray == -1
Numbers_of(v) == DOMAIN v.inodes \cup {Nothing, Astray}

Child(v, ino, name) ==
  IF ino \in {Nothing, Astray} THEN ino
  ELSE IF ino \notin DOMAIN v.names THEN Astray
  ELSE IF name \in DOMAIN v.names[ino] THEN v.names[ino][name] ELSE Nothing

\* What a path names, from its k-th name and an inode on.
NamedFrom(v, path) ==
  LET from[k \in Nat] ==
        IF k \in DOMAIN path
        THEN [ino \in Numbers_of(v) |-> from[k + 1][Child(v, ino, path[k])]]
        ELSE [ino \in Numbers_of(v) |-> ino]
  IN  from
Named(path) == NamedFrom(vol, path)[1][ROOT_INO]

\* A name can be missed for a read that failed and behind an unused entry.
Excused == vol.bad # {} \/ SectorsOf(vol) > AHCI_SECTORS \/ vol.unused

\* The file read is the one its path names, whatever group and block its inode
\* lies in, and the runs of bytes follow each other in the buffer, each the file's
\* at that position; together they are all that was asked for up to the end of
\* the file, the first hole, the last direct block or a block that cannot be read.
\* Nothing looks whether what a path goes through is a directory.
FileReadTrue ==
  Named(request.path) # Astray =>
  /\ ext_pc = "read" =>
       LET f == vol.inodes[Named(request.path)]
           end == request.offset + copied
       IN  /\ Named(request.path) # Nothing
           /\ \A k \in DOMAIN got :
                LET pos == request.offset + got[k].at
                    next == got[k].at + got[k].len
                IN  /\ got[k].at = IF k = 1 THEN 0 ELSE got[k - 1].at + got[k - 1].len
                    /\ got[k].block = f.block[pos \div vol.block_size]
                    /\ got[k].off = pos % vol.block_size
                    /\ got[k].off + got[k].len <= vol.block_size
                    /\ next <= copied
           /\ copied = IF got = <<>> THEN 0 ELSE got[Len(got)].at + got[Len(got)].len
           /\ copied <= request.len /\ (copied # 0 => end <= f.size)
           /\ end < Min({f.size, request.offset + request.len}) =>
                LET i == end \div vol.block_size
                IN  i >= DIRECT \/ f.block[i] = 0 \/ ~Readable(vol, f.block[i])
  /\ ext_pc = "failed" => Named(request.path) = Nothing \/ Excused

\* No read leaves the partition of a volume whose blocks lie in it, though the
\* block layer does not look.
SectorsInside ==
  Named(request.path) # Astray =>
    \A s \in sectors : s >= vol.start /\ s + SectorsOf(vol) <= vol.start + vol.count
=============================================================================
