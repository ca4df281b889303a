-------------------------------- MODULE MCVfs --------------------------------
(***************************************************************************)
(* Two disks and five slots for their names; a disk may have two           *)
(* partitions, and those of the first have one volume each.  "initrd" and  *)
(* "x" are two pieces of one name, of which the first is a mount point.    *)
(***************************************************************************)
EXTENDS Vfs
MCPorts == <<3, 5>>
MCMBRs == {[i \in 1 .. 4 |-> CASE i = 1 -> 10 [] i = 3 -> 20 [] OTHER -> NoPartition]}

MCArchive == <<
  [name |-> <<".">>, regular |-> FALSE],
  [name |-> <<".", "/", "test.txt">>, regular |-> TRUE],
  [name |-> <<"etc", "/", "fstab">>, regular |-> TRUE],
  [name |-> <<"/", "test.txt">>, regular |-> TRUE] >>

Self == [name |-> <<".">>, ino |-> 2]
MCVolumes ==
  (<<3, 10>> :> (2 :> <<Self, [name |-> <<"etc">>, ino |-> 4],
                        [name |-> <<"initrd", "x">>, ino |-> 7]>>
              @@ 4 :> <<[name |-> <<"fstab">>, ino |-> 6]>>
              @@ 6 :> <<>> @@ 7 :> <<>>))
  @@ (<<3, 20>> :> (2 :> <<Self, [name |-> <<"test.txt">>, ino |-> 5]>> @@ 5 :> <<>>))

MCFstabLines == <<
  [dev |-> <<2, 1>>, point |-> <<"/", "bad">>, ext2 |-> TRUE],
  [dev |-> <<1, 1>>, point |-> <<"/", "swap">>, ext2 |-> FALSE],
  [dev |-> <<1, 3>>, point |-> <<"/", "mnt", "/", "data", "/", "deep">>, ext2 |-> TRUE] >>

MCPieces == {"/", ".", "test.txt", "etc", "fstab", "initrd", "x", "mnt", "data", "deep", "bad", "swap"}
MCRoots == {NoRoot, <<1, 1>>}
MCPaths == {<<"/", "test.txt">>, <<"/", "initrd", "x">>, <<"/", "mnt", "/", "data", "/">>}
MCPoints == {<<"/">>}
MCMountDevs == {<<1, 3>>}
MCFailSets == {{}, {<<1, 1>>} \X {"group", "data"} \cup {<<1, 3>>} \X {"walk"}}
=============================================================================
