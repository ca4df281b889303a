--------------------------------- MODULE Vfs ---------------------------------
(***************************************************************************)
(* The virtual file system (src/fs/vfs.c) with its two file systems, ustar *)
(* and ext2 (src/fs/ustar.c, ext2.c), fstab (src/fs/fstab.c), and the part *)
(* of kernel_main that mounts them (src/core/kernel.c), over the block     *)
(* layer of module Block.                                                  *)
(*                                                                         *)
(* A path is a sequence of pieces of text, of which "/" is one; a piece    *)
(* may be the beginning of a name that the next one continues.  What a     *)
(* disk holds is a volume: for each inode, the directory entries its       *)
(* blocks parse as.  A device may fail to answer any of the four kinds of  *)
(* read a call makes of it.                                                *)
(*                                                                         *)
(* The operators on a state s are the functions of the code; s is a record *)
(* of the variables they change, and those that return something answer a  *)
(* record of the state and the result.                                     *)
(***************************************************************************)
EXTENDS Block, SequencesExt

CONSTANTS
  MAX_MOUNTS, MAX_FDS,
  POINT_LEN,            \* pieces of a mount point that are kept (/initrd is not cut)
  Pieces,               \* the pieces of text that names and paths are made of
  Archive,              \* members of the boot module: name, regular or not
  Volumes,              \* <<port, start>> of a formatted area -> its inodes
  FstabLines,           \* lines of /etc/fstab: device, mount point, ext2 or not
  Roots,                \* values of root= on the command line
  Paths,                \* paths callers open
  Points, MountDevs,    \* where callers mount and unmount, and which devices
  FailSets              \* sets of <<device, kind of read>> that fail in a call

None == "none"
NoRoot == NoName
InitrdRoot == <<0, 1>>
NoFs == [ops |-> None]
NoFile == [ops |-> None, fs |-> 0, file |-> 0]
ROOT_INO == 2
ReadKinds == {"super", "group", "walk", "data"}

ASSUME VfsAssumption ==
  /\ MAX_MOUNTS \in Nat \ {0, 1} /\ MAX_FDS \in Nat \ {0} /\ POINT_LEN \in Nat \ {0, 1}
  /\ Archive \in Seq(ToSet(Archive)) /\ FstabLines \in Seq(ToSet(FstabLines))
  /\ {"/", "."} \subseteq Pieces /\ Paths \cup Points \subseteq Seq(Pieces)
  /\ \A k \in DOMAIN Archive : Archive[k].regular \in BOOLEAN /\ Archive[k].name \in Seq(Pieces)
  /\ \A k \in DOMAIN FstabLines : FstabLines[k].point \in Seq(Pieces)
  /\ \A v \in DOMAIN Volumes : ROOT_INO \in DOMAIN Volumes[v]

\* No path has an empty component, at which the walk of ext2 would end, and no
\* device an empty name, which a free slot of the table of devices has too.
ASSUME NamesAssumption ==
  /\ \A p \in Paths : \A k \in 2 .. Len(p) : p[k] # "/" \/ p[k - 1] # "/"
  /\ NoName \notin MountDevs /\ \A k \in DOMAIN FstabLines : FstabLines[k].dev # NoName

\* What a directory's blocks parse as has each name once, and names inodes.
ASSUME VolumesAssumption ==
  \A v \in DOMAIN Volumes : \A ino \in DOMAIN Volumes[v] :
    LET dir == Volumes[v][ino]
    IN  /\ dir \in Seq(ToSet(dir))
        /\ \A i \in DOMAIN dir : dir[i].ino \in DOMAIN Volumes[v]
        /\ \A i, j \in DOMAIN dir : dir[i].name = dir[j].name => i = j

VARIABLES
  module,               \* the boot loader passed an initrd
  root,                 \* the value of root=: a device, the initrd or none
  running,              \* the boot's mounting is over
  mounts,               \* slot -> mount point, operations, file system
  fss,                  \* file systems: ustar's list of files, ext2's device
  fds,                  \* the descriptor table
  lost,                 \* history: ustar entries dropped from their list
  stale,                \* history: descriptors whose file system is unmounted
  named                 \* history: descriptor -> what its path named

vvars == <<module, root, running, mounts, fss, fds, lost, stale, named>>
vars == <<bvars, vvars>>

MountSlots == 1 .. MAX_MOUNTS
Fds == 0 .. MAX_FDS - 1

State == [devs |-> devs, heap |-> heap, mounts |-> mounts, fss |-> fss,
          fds |-> fds, lost |-> lost]

Result(s, r) == [s |-> s, r |-> r]

HasRoom(s) == s.heap < room
Taken(s, n) == [s EXCEPT !.heap = @ + n]
Freed(s, n) == [s EXCEPT !.heap = @ - n]

DropSlash(p) == IF p # <<>> /\ Head(p) = "/" THEN Tail(p) ELSE p

\* The device is in the table and answers reads of a kind.
Answers(dev, kind, fails) == find_block(dev) # 0 /\ <<dev, kind>> \notin fails

\* The area a name stands for in the block layer.
Area(dev) == LET b == blocks[find_block(dev)] IN <<b.port, b.start>>

----------------------------------------------------------------------------
(* ustar *)

\* A leading "/", or else a leading "./", is dropped from a member's name.
Normalised(name) ==
  IF Len(name) >= 2 /\ name[1] = "." /\ name[2] = "/"
  THEN SubSeq(name, 3, Len(name)) ELSE DropSlash(name)

\* A member becomes an entry at the head of the list; its name and its entry
\* are taken from the heap.  Without room for the entry the list is lost:
\* kmalloc's answer is not looked at, and the list's head becomes NULL.
AddMember(k, m) ==
  LET name == IF m.heap < room THEN 1 ELSE 0
  IN  IF ~Archive[k].regular THEN m
      ELSE IF m.heap + 1 < room
      THEN [m EXCEPT !.heap = @ + 2,
                     !.files = <<[name |-> Normalised(Archive[k].name), data |-> k]>> \o @]
      ELSE [heap |-> m.heap + name, lost |-> m.lost + 2 * Len(m.files) + name, files |-> <<>>]

\* The archive is parsed member by member.
Parsed(heap0, lost0) ==
  LET m[k \in 0 .. Len(Archive)] ==
        IF k = 0 THEN [heap |-> heap0, lost |-> lost0, files |-> <<>>] ELSE AddMember(k, m[k - 1])
  IN  m[Len(Archive)]

\* A place in memory for a new file system; one given back is used again.
FreeFs(s) == First({f \in MountSlots : s.fss[f] = NoFs})

ustar_mount(s) ==
  IF ~HasRoom(s) THEN Result(s, 0)
  ELSE LET m == Parsed(s.heap + 1, s.lost)
           f == FreeFs(s)
       IN  Result([s EXCEPT !.heap = m.heap, !.lost = m.lost,
                            !.fss[f] = [ops |-> "ustar", files |-> m.files]], f)

\* Mutant: the oldest entry of a name wins.
LookupOldest(files, name) ==
  LET S == {i \in DOMAIN files : files[i].name = name}
  IN  IF S = {} THEN 0 ELSE CHOOSE i \in S : \A j \in S : j <= i

\* The first entry of the list with the name, 0 when there is none.
Lookup(files, name) ==
  LET S == {i \in DOMAIN files : files[i].name = name}
  IN  IF S = {} THEN 0 ELSE First(S)

\* A handle for the entry.
ustar_open(s, f, path) ==
  LET i == Lookup(s.fss[f].files, DropSlash(path))
  IN  IF i = 0 \/ ~HasRoom(s) THEN Result(s, NoFile)
      ELSE Result(Taken(s, 1), [ops |-> "ustar", fs |-> f, file |-> i])

----------------------------------------------------------------------------
(* ext2 *)

\* Mutant: the file system is kept when its group descriptor cannot be read.
GroupUnreadLeak(s) == Freed(s, 1)

\* The group descriptor's buffer and the file system are given back.
GroupUnread(s) == Freed(s, 2)

\* The superblock is read, then the group descriptor into a buffer of its own.
ext2_mount(s, dev, fails) ==
  LET s1 == Taken(s, 1)
      s2 == Taken(s1, 1)
      f  == FreeFs(s)
  IN  IF ~HasRoom(s) THEN Result(s, 0)
      ELSE IF ~Answers(dev, "super", fails) \/ Area(dev) \notin DOMAIN Volumes
      THEN Result(Freed(s1, 1), 0)
      ELSE IF ~HasRoom(s1) THEN Result(Freed(s1, 1), 0)
      ELSE IF ~Answers(dev, "group", fails) THEN Result(GroupUnread(s2), 0)
      ELSE Result([Freed(s2, 1) EXCEPT !.fss[f] = [ops |-> "ext2", dev |-> dev]], f)

\* The inode of a name in a directory, 0 when it is not there.
ext2_find_in_dir(dir, name) ==
  LET S == {i \in DOMAIN dir : dir[i].name = name}
  IN  IF S = {} THEN 0 ELSE dir[First(S)].ino

\* One piece of a path: a component ends at "/" or at the end of the path, and
\* an empty one ends the walk at the inode it has come to.
WalkPiece(volume, w, c) ==
  IF w.done THEN w
  ELSE IF c # "/" THEN [w EXCEPT !.comp = Append(@, c)]
  ELSE IF w.comp = <<>> THEN [w EXCEPT !.done = TRUE]
  ELSE LET ino == ext2_find_in_dir(volume[w.ino], w.comp)
       IN  [ino |-> ino, comp |-> <<>>, done |-> ino = 0]

\* The inode at the end of the walk of a path.
Walk(volume, path) ==
  LET pieces == Append(path, "/")
      w[k \in 0 .. Len(pieces)] ==
        IF k = 0 THEN [ino |-> ROOT_INO, comp |-> <<>>, done |-> FALSE]
        ELSE WalkPiece(volume, w[k - 1], pieces[k])
  IN  w[Len(pieces)].ino

\* A handle, and a context that holds the inode.
ext2_open(s, f, path, fails) ==
  LET dev == s.fss[f].dev
      ino == Walk(Volumes[Area(dev)], DropSlash(path))
      s1  == Taken(s, 1)
  IN  IF ~Answers(dev, "walk", fails) \/ ino = 0 \/ ~HasRoom(s) THEN Result(s, NoFile)
      ELSE IF ~HasRoom(s1) THEN Result(Freed(s1, 1), NoFile)
      ELSE Result(Taken(s1, 1), [ops |-> "ext2", fs |-> f, file |-> ino])

----------------------------------------------------------------------------
(* vfs: mounts and handles *)

FreeMounts(s) == {i \in MountSlots : s.mounts[i].ops = None}

\* A mount point that is too long is cut.
PointOf(path) == SubSeq(path, 1, IF Len(path) < POINT_LEN THEN Len(path) ELSE POINT_LEN)

\* After the attempt m to mount a file system: without one the slot stays free,
\* with its mount point written.
Attempted(m, i, ops) ==
  IF m.r = 0 THEN Result(m.s, FALSE)
  ELSE Result([m.s EXCEPT !.mounts[i] = [@ EXCEPT !.ops = ops, !.fs = m.r]], TRUE)

vfs_mount(s, path, ops, dev, fails) ==
  LET i  == First(FreeMounts(s))
      s1 == [s EXCEPT !.mounts[i].point = PointOf(path)]
  IN  IF FreeMounts(s) = {} THEN Result(s, FALSE)
      ELSE Attempted(IF ops = "ustar" THEN ustar_mount(s1) ELSE ext2_mount(s1, dev, fails),
                     i, ops)

Better(mount, best_len) == Len(mount.point) > best_len

\* Mount i, if it is better than the best one so far (0 before the first).
Longer(s, path, best, i) ==
  IF /\ s.mounts[i].ops # None
     /\ Better(s.mounts[i], IF best = 0 THEN 0 ELSE Len(s.mounts[best].point))
     /\ IsPrefix(s.mounts[i].point, path)
  THEN i ELSE best

\* The slot of the longest mount point the path begins with, 0 without one.
find_mount(s, path) ==
  LET best[i \in 0 .. MAX_MOUNTS] == IF i = 0 THEN 0 ELSE Longer(s, path, best[i - 1], i)
  IN  best[MAX_MOUNTS]

\* Opens a path at mount m, by what follows the mount point.
OpenAt(s, m, path, fails) ==
  LET rel == DropSlash(SubSeq(path, Len(s.mounts[m].point) + 1, Len(path)))
      f   == s.mounts[m].fs
  IN  IF m = 0 THEN Result(s, NoFile)
      ELSE IF s.mounts[m].ops = "ustar" THEN ustar_open(s, f, rel)
      ELSE ext2_open(s, f, rel, fails)

vfs_open(s, path, fails) == OpenAt(s, find_mount(s, path), path, fails)

\* Closing gives back the handle, and the context of an ext2 one.
vfs_close(s, fh) == Freed(s, IF fh.ops = "ext2" THEN 2 ELSE 1)

\* Mutant: the slot of an unmounted file system keeps its operations.
ClearedButOps(mount) == [mount EXCEPT !.fs = 0, !.point = <<>>]

Cleared(mount) == [ops |-> None, fs |-> 0, point |-> <<>>]

MountedAt(s, path) == {i \in MountSlots : s.mounts[i].ops # None /\ s.mounts[i].point = path}

\* Blocks of heap a mounted file system has.
FsBlocks(fs) ==
  CASE fs.ops = "ustar" -> 1 + 2 * Len(fs.files)
    [] fs.ops = "ext2"  -> 1
    [] OTHER            -> 0

HandleBlocks(fh) == CASE fh.ops = "ustar" -> 1 [] fh.ops = "ext2" -> 2 [] OTHER -> 0

\* What follows the attempt o to open a file: a buffer is taken, and both are
\* given back; or the file is read, and whether data came is the result.
Listed(o) ==
  LET b == IF HasRoom(o.s) THEN Freed(Taken(o.s, 1), 1) ELSE o.s
  IN  IF o.r = NoFile THEN o.s ELSE vfs_close(b, o.r)

ReadWhole(o, fails) ==
  IF o.r = NoFile THEN Result(o.s, FALSE)
  ELSE Result(vfs_close(o.s, o.r),
              o.r.ops = "ustar" \/ Answers(o.s.fss[o.r.fs].dev, "data", fails))

vfs_list_dir(s, path, fails) == Listed(vfs_open(s, path, fails))
vfs_read_all(s, path, fails) == ReadWhole(vfs_open(s, path, fails), fails)

----------------------------------------------------------------------------
(* vfs: descriptors *)

\* Mutant: the search for a descriptor does not ask whether it is used.
FreeFdsUnchecked(s) == Fds

FreeFds(s) == {fd \in Fds : s.fds[fd] = NoFile}

\* The descriptor, or -1; a handle that finds no descriptor is closed again.
Installed(o) ==
  LET fd == First(FreeFds(o.s))
  IN  IF o.r = NoFile THEN Result(o.s, -1)
      ELSE IF FreeFds(o.s) = {} THEN Result(vfs_close(o.s, o.r), -1)
      ELSE Result([o.s EXCEPT !.fds[fd] = o.r], fd)

vfs_fd_open(s, path, fails) == Installed(vfs_open(s, path, fails))

vfs_fd_close(s, fd) ==
  IF fd \notin Fds \/ s.fds[fd] = NoFile THEN s
  ELSE [vfs_close(s, s.fds[fd]) EXCEPT !.fds[fd] = NoFile]

----------------------------------------------------------------------------
(* What kernel_main mounts *)

RootPoint == <<"/">>
InitrdPoint == <<"/", "initrd">>
TestFile == <<"/", "test.txt">>
EtcDir == <<"/", "etc">>
Fstab == <<"/", "etc", "/", "fstab">>
DataDir == <<"/", "mnt", "/", "data">>

\* Lines with a device under /dev and type ext2 are mounted, whatever becomes
\* of the ones before.
MountLine(s, line, fails) ==
  IF line.ext2 THEN vfs_mount(s, line.point, "ext2", line.dev, fails).s ELSE s

MountLines(a, fails) ==
  LET after[k \in 0 .. Len(FstabLines)] ==
        IF k = 0 THEN a.s ELSE MountLine(after[k - 1], FstabLines[k], fails)
  IN  IF a.r THEN after[Len(FstabLines)] ELSE a.s

\* Without the file its directory is opened, looked at and closed.
FstabFrom(o, fails) ==
  IF o.r = NoFile THEN ReadWhole(vfs_open(o.s, EtcDir, fails), fails).s
  ELSE MountLines(ReadWhole(o, fails), fails)

fstab_parse_and_mount(s, fails) == FstabFrom(vfs_open(s, Fstab, fails), fails)

\* With a root, a file is tried, then fstab, then a listing.
UseRoot(s, fails) ==
  vfs_list_dir(fstab_parse_and_mount(vfs_read_all(s, TestFile, fails).s, fails),
               DataDir, fails)

Rooted(m, fails) == IF m.r THEN UseRoot(m.s, fails) ELSE m.s

MountInitrdRoot(s, fails) ==
  Rooted(vfs_mount(s, RootPoint, "ustar", NoName, fails), fails)

\* The module is registered and mounted at /initrd, where a file is tried.
TryInitrd(m, fails) ==
  IF m.r THEN vfs_read_all(m.s, InitrdPoint \o TestFile, fails).s ELSE m.s

MountInitrd(s, fails) ==
  LET r == dev_register(s, InitrdNode)
  IN  IF ~module \/ r = s THEN s
      ELSE TryInitrd(vfs_mount(r, InitrdPoint, "ustar", NoName, fails), fails)

\* The descriptor interface is tried on the disk's root.
TryDescriptors(o) == IF o.r = -1 THEN o.s ELSE vfs_fd_close(o.s, o.r)

\* Mutant: an initrd that is mounted already is not mounted as root.
FallBackUnlessMounted(r, fails) ==
  IF MountedAt(r, InitrdPoint) = {} THEN MountInitrdRoot(r, fails) ELSE r

\* The initrd takes the place of a disk that did not mount, if it is known.
FallBack(r, fails) ==
  IF InitrdNode \in ToSet(r.devs) THEN MountInitrdRoot(r, fails) ELSE r

OnDisk(m, fails) ==
  IF m.r
  THEN UseRoot(TryDescriptors(vfs_fd_open(vfs_read_all(m.s, TestFile, fails).s,
                                          TestFile, fails)), fails)
  ELSE IF module THEN FallBack(dev_register(m.s, InitrdNode), fails)
  ELSE m.s

MountDiskRoot(s, fails) ==
  IF block_get_partition(root)
  THEN OnDisk(vfs_mount(s, RootPoint, "ext2", root, fails), fails)
  ELSE s

MountRoot(s, fails) ==
  IF root \in {NoRoot, InitrdRoot}
  THEN IF module THEN MountInitrdRoot(s, fails) ELSE s
  ELSE MountDiskRoot(s, fails)

----------------------------------------------------------------------------
(* The state machine *)

Init ==
  /\ BlockInit
  /\ module \in BOOLEAN
  /\ root \in Roots
  /\ running = FALSE
  /\ mounts = [i \in MountSlots |-> [point |-> <<>>, ops |-> None, fs |-> 0]]
  /\ fss = [f \in MountSlots |-> NoFs]
  /\ fds = [fd \in Fds |-> NoFile]
  /\ lost = 0
  /\ stale = {}
  /\ named = [fd \in Fds |-> <<>>]

Becomes(t) == \E s \in {t} :
  /\ devs' = s.devs
  /\ heap' = s.heap
  /\ mounts' = s.mounts
  /\ fss' = s.fss
  /\ fds' = s.fds
  /\ lost' = s.lost

\* Drivers attach while the bus is probed.
Probe ==
  /\ ~running
  /\ BlockNext
  /\ UNCHANGED vvars

kernel_main(fails) ==
  /\ ~running
  /\ probed = Len(Ports)
  /\ running' = TRUE
  /\ Becomes(MountRoot(MountInitrd(State, fails), fails))
  /\ UNCHANGED <<blocks, room, probed, attached, module, root, stale, named>>

----------------------------------------------------------------------------
(* What a path names, by what is mounted where and what the disks hold *)

\* The mount whose point is the longest that p begins with; of two mounts on
\* one point the older slot.
MountOf(p) ==
  LET C == {i \in MountSlots :
              /\ mounts[i].ops # None
              /\ Len(mounts[i].point) > 0 /\ IsPrefix(mounts[i].point, p)}
      ahead(i, j) == LET li == Len(mounts[i].point)
                         lj == Len(mounts[j].point)
                     IN  li > lj \/ (li = lj /\ i <= j)
  IN  CHOOSE i \in C : \A j \in C : ahead(i, j)

\* Where the component of a path that reaches up to its k-th piece begins: after
\* the last "/" before, if there is one.
Slash(path, k) ==
  CHOOSE b \in 0 .. k - 1 : /\ b = 0 \/ path[b] = "/"
                            /\ \A j \in b + 1 .. k - 1 : path[j] # "/"

\* The inode a directory gives a name, 0 for none.
InodeOf(volume, ino, name) ==
  LET E == {e \in ToSet(volume[ino]) : e.name = name}
  IN  IF ino = 0 \/ E = {} THEN 0 ELSE (CHOOSE e \in E : TRUE).ino

\* The inode at a path of a volume: the one the path's last name has in the
\* directory at the path before it.
InodeAt(volume, path) ==
  LET at[k \in 0 .. Len(path)] ==
        IF k = 0 THEN ROOT_INO
        ELSE IF path[k] = "/" THEN at[k - 1]
        ELSE InodeOf(volume, at[Slash(path, k)], SubSeq(path, Slash(path, k) + 1, k))
  IN  at[Len(path)]

\* The members of a name: with "/" or "./" before it, or as it is when it does
\* not begin with one of them itself.
Member(rel) ==
  {k \in DOMAIN Archive :
     /\ Archive[k].regular
     /\ \/ Archive[k].name \in {<<"/">> \o rel, <<".", "/">> \o rel}
        \/ /\ Archive[k].name = rel
           /\ ~ IsPrefix(<<"/">>, rel) /\ ~ IsPrefix(<<".", "/">>, rel)}

\* The file p names: the last member of that name in the archive, or the inode
\* at that path on the partition the device's name stands for.
Denoted(p) ==
  LET m   == mounts[MountOf(p)]
      rel == DropSlash(DropSlash(SubSeq(p, Len(m.point) + 1, Len(p))))
      dev == fss[m.fs].dev
      at  == attached[dev[1]]
      area == <<at.port, IF dev[2] = 0 THEN 0 ELSE at.mbr[dev[2]]>>
  IN  IF m.ops = "ustar"
      THEN <<"member", CHOOSE k \in Member(rel) : \A j \in Member(rel) : j <= k>>
      ELSE <<"inode", area, InodeAt(Volumes[area], rel)>>

\* Each file system's read, by the file whose data it returns.
ustar_file_read(fh) == <<"member", fss[fh.fs].files[fh.file].data>>
ext2_file_read(fh) == <<"inode", Area(fss[fh.fs].dev), fh.file>>

vfs_read(fh) == IF fh.ops = "ustar" THEN ustar_file_read(fh) ELSE ext2_file_read(fh)

\* A descriptor not in use reads nothing.
vfs_fd_read(fd) == IF fds[fd] = NoFile THEN <<>> ELSE vfs_read(fds[fd])

----------------------------------------------------------------------------
(* What callers do once the kernel runs *)

Running == running /\ UNCHANGED <<blocks, room, probed, attached, module, root, running>>

fd_open(path, fails) ==
  \E o \in {vfs_fd_open(State, path, fails)} :
    /\ Running
    /\ Becomes(o.s)
    /\ named' = IF o.r = -1 THEN named ELSE [named EXCEPT ![o.r] = Denoted(path)]
    /\ UNCHANGED stale

fd_close(fd) ==
  /\ Running
  /\ Becomes(vfs_fd_close(State, fd))
  /\ stale' = stale \ {fd}
  /\ named' = [named EXCEPT ![fd] = <<>>]

\* Directory listings and whole-file reads leave nothing behind.
look(path, fails) ==
  /\ Running
  /\ \/ Becomes(vfs_list_dir(State, path, fails))
     \/ Becomes(vfs_read_all(State, path, fails).s)
  /\ UNCHANGED <<stale, named>>

mount(path, ops, dev, fails) ==
  /\ Running
  /\ Becomes(vfs_mount(State, path, ops, dev, fails).s)
  /\ UNCHANGED <<stale, named>>

\* The first mount on the point goes, and its file system's memory with it,
\* whatever descriptors there are.
vfs_unmount(path) ==
  LET i == First(MountedAt(State, path))
      f == mounts[i].fs
  IN  /\ Running
      /\ MountedAt(State, path) # {}
      /\ Becomes([Freed(State, FsBlocks(fss[f])) EXCEPT
                    !.mounts[i] = Cleared(@), !.fss[f] = NoFs])
      /\ stale' = stale \cup {fd \in Fds : fds[fd].ops # None /\ fds[fd].fs = f}
      /\ UNCHANGED named

Next ==
  \/ Probe
  \/ \E fails \in FailSets :
       \/ kernel_main(fails)
       \/ \E p \in Paths : fd_open(p, fails) \/ look(p, fails)
       \/ \E p \in Points :
            \/ mount(p, "ustar", NoName, fails)
            \/ \E dev \in MountDevs : mount(p, "ext2", dev, fails)
  \/ \E fd \in Fds : fd_close(fd)
  \/ \E p \in Points : vfs_unmount(p)

Spec == Init /\ [][Next]_vars

----------------------------------------------------------------------------
(* Properties *)

Live == {f \in MountSlots : fss[f] # NoFs}
Used == {fd \in Fds : fds[fd] # NoFile}

\* The blocks of owners that have n[i] each, every one with its owner.
Numbered(n) == UNION {{i} \X (1 .. n[i]) : i \in DOMAIN n}

\* The types of the variables; the heap is never overdrawn.
TypeOK ==
  /\ BlockTypeOK
  /\ heap <= room
  /\ module \in BOOLEAN /\ root \in Roots /\ running \in BOOLEAN
  /\ \A i \in MountSlots : mounts[i].ops \in {None, "ustar", "ext2"}
                           /\ mounts[i].fs \in 0 .. MAX_MOUNTS
  /\ \A f \in MountSlots : fss[f].ops \in {None, "ustar", "ext2"}
  /\ \A fd \in Fds : fds[fd].fs \in 0 .. MAX_MOUNTS
  /\ lost \in Nat /\ stale \subseteq Used

\* Every block taken from the heap is a registered name, part of a mounted file
\* system or of an open handle, or an entry the ustar code has lost: no failure
\* of any call, at any point, leaks memory or gives it back twice.
HeapAccounted ==
  heap = Len(devs) + lost + Cardinality(Numbered([f \in MountSlots |-> FsBlocks(fss[f])]))
                          + Cardinality(Numbered([fd \in Fds |-> HandleBlocks(fds[fd])]))

\* A file system is mounted in exactly one slot and a slot in use has one, so
\* unmounting frees nothing another mount needs.
MountsOwnFileSystems ==
  LET InUse == {i \in MountSlots : mounts[i].ops # None}
  IN  /\ Live = {mounts[i].fs : i \in InUse}
      /\ \A i, j \in InUse : i # j => mounts[i].fs # mounts[j].fs
      /\ \A i \in InUse : fss[mounts[i].fs].ops = mounts[i].ops

\* A descriptor whose file system is still mounted reads the file its path
\* named when it was opened, whatever was mounted, unmounted or opened since
\* and whatever memory was used again.
DescriptorsReadTheirFile ==
  \A fd \in Used \ stale : vfs_fd_read(fd) = named[fd]

\* A descriptor in use changes only by being closed: no other open takes it.
DescriptorsKept ==
  [][\A fd \in Used : fds'[fd] \in {fds[fd], NoFile}]_vars

\* A root that kernel_main looks for: none asked for, the initrd, or a partition
\* that is in the table of devices.
RootKnown == root \in {NoRoot, InitrdRoot} \/ block_get_partition(root)

Served == \E i \in MountSlots : mounts[i].ops # None /\ mounts[i].point = RootPoint

\* With an initrd, and heap left, the kernel has a root when it runs, also when
\* the partition that was asked for does not mount (src/core/kernel.c:148 and
\* :199).  That holds of a root it knows only: root= with a partition that is not
\* there, or any other word, leaves / without a file system whatever else there
\* is to mount (:173 and :176).
RootServed ==
  [][running' /\ ~running =>
       IF RootKnown
       THEN (module /\ heap' < room /\ InitrdNode \in ToSet(devs') => Served')
       ELSE ~Served']_vars
=============================================================================
