------------------------------- MODULE MCBoot -------------------------------
(* Machines in which one part varies and the others are the plainest there
   are: boot blocks, MADTs, buses with bridges, BARs and drivers, IDE drives,
   and ext2 volumes. *)
EXTENDS Boot

----------------------------------------------------------------------------
(* MADTs: up to three entries of nine kinds, well and badly formed, cut short by
   two bytes; a processor's entry has five bytes here. *)

EntryKinds == {
  <<0, 5, 1, 7, 1>>, <<0, 5, 2, 8, 3>>, <<0, 5, 3, 9, 2>>,   \* processors, the last off
  <<0, 3, 1>>, <<1, 3, 4>>, <<2, 3, 4>>, <<5, 2>>,
  <<0, 1>>, <<3, 7>> }                                       \* no entry, too long

Memory(es) == FlattenSeq(es) \o <<3, 3, 3, 3, 3, 3>>
Size(es) == Len(FlattenSeq(es))
AllTables == {[bytes |-> Memory(es), size |-> Size(es) - cut] :
                es \in UNION {[1 .. n -> EntryKinds] : n \in 1 .. 3}, cut \in {0, 2}}
MCTables == {t \in AllTables : t.size >= 0 /\ WalksEnd(t)}
ATable == [bytes |-> Memory(<< <<0, 5, 1, 7, 1>> >>), size |-> 5]

----------------------------------------------------------------------------
(* Boot blocks: tags of types and sizes, also with what looks like a tag inside
   or behind the end. *)

Tables(s) == [i \in DOMAIN s |-> [sign |-> s[i], table |-> ATable]]
Rsdt == [len |-> 36 + 4, entries |-> Tables(<<"APIC", "FACP">>)]
Rsdp(rev, len, signs) ==
  [rev |-> rev, rsdt |-> Rsdt, xsdt |-> [len |-> len, entries |-> Tables(signs)]]
RootPointers ==
  {Rsdp(0, 36, <<"FACP">>)} \cup
  {Rsdp(2, len, signs) : len \in {35, 44, 52, 56}, signs \in {<<"FACP", "APIC">>, <<"APIC", "APIC">>,
                                                            <<"FACP", "FACP", "APIC">>}}

TagOf(t, size, r) == [type |-> t, size |-> size, rsdp |-> r]
ARoot == Rsdp(0, 36, <<"FACP">>)
End == TagOf("end", 8, ARoot)
Garbage == TagOf("module", 8, ARoot)
\* The tags one after the other, what is between them reading as a tag as well.
BlockOf(tags, total, junk) ==
  LET start(k) == 8 + FoldLeft(LAMBDA n, t : n + ((t.size + 7) \div 8) * 8, 0, SubSeq(tags, 1, k - 1))
      starts == {start(k) : k \in DOMAIN tags}
      offsets == {8 * n : n \in 1 .. (start(Len(tags) + 1) + 8) \div 8}
  IN  [total_size |-> IF total = 0 THEN start(Len(tags) + 1) ELSE start(Len(tags) + 1) - total,
       tag |-> [o \in offsets |-> IF \E k \in DOMAIN tags : start(k) = o
                                  THEN tags[CHOOSE k \in DOMAIN tags : start(k) = o] ELSE junk]]
ABlock == BlockOf(<<TagOf("acpi_old", 28, ARoot), End>>, 0, End)
TagChoices == {TagOf("module", 20, ARoot), TagOf("framebuffer", 33, ARoot), TagOf("acpi_new", 44, ARoot),
               TagOf("cmdline", 9, ARoot), TagOf("other", 8, ARoot), End}
MCBlocks ==
  {BlockOf(ts \o <<TagOf("acpi_old", 28, ARoot), End, TagOf("cmdline", 16, ARoot)>>, cut, junk) :
     ts \in UNION {[1 .. n -> TagChoices] : n \in 0 .. 3}, cut \in {0, 20}, junk \in {Garbage}}
  \cup {BlockOf(<<TagOf("acpi_new", 44, r), End>>, 0, End) : r \in RootPointers}

----------------------------------------------------------------------------
(* Machines.  A function's parts are these unless it says otherwise. *)

Flat(x) == [b \in Registers |-> x]
NoBars == [hw |-> [unit |-> Flat(REG), flags |-> Flat(0)], regs |-> Flat(0)]
NoCaps == [first |-> 0, next |-> <<0>>, pm |-> 1]
Fn == [multi |-> FALSE, sec |-> -1, prim |-> 0, hw |-> NoBars.hw, regs |-> NoBars.regs,
       id |-> "other", class |-> "other", command |-> {}, power |-> 0, caps |-> NoCaps,
       forgets |-> FALSE, phy |-> -1]

Slots == {<<0, 0, 0>>, <<0, 1, 0>>, <<0, 1, 1>>, <<1, 0, 0>>, <<1, 1, 0>>, <<2, 0, 0>>, <<2, 1, 1>>}
\* Where the bridge at f leads: one of two buses, or it is no bridge.
Sec(f, up) ==
  CASE f[3] = 1 -> IF up THEN 0 ELSE -1
    [] f[2] = 0 -> IF up THEN 2 ELSE (f[1] + 1) % 3
    [] OTHER    -> IF up THEN 1 ELSE -1
\* The primary bus: its own, the one it leads to, or so that two bridges cross.
Prim(f, up, set) ==
  CASE Sec(f, up) \notin {1, 2} -> 0
    [] set = "own"   -> f[1]
    [] set = "sec"   -> Sec(f, up)
    [] set = "cross" -> 3 - Sec(f, up)
Machine(S, up, set) ==
  [f \in S |-> [Fn EXCEPT !.multi = f[2] = 1, !.sec = Sec(f, up[f]), !.prim = Prim(f, up[f], set),
                          !.id = IF f \in {<<1, 1, 0>>, <<2, 1, 1>>} THEN "168c:002e" ELSE "other"]]
Bridged == UNION {{Machine(S, up, set) : up \in [S -> BOOLEAN], set \in {"own", "sec", "cross"}} :
                  S \in {Slots \ T : T \in {{}, {<<0, 1, 0>>}, {<<1, 0, 0>>}, {<<2, 0, 0>>}}}}

\* BARs: register b with its unit, flags and address; hi is an upper half.
Reg(f, b, unit, flags, addr) ==
  [f EXCEPT !.hw.unit[b] = unit, !.hw.flags[b] = flags, !.regs[b] = addr + flags]
Bar64(f, b, unit, hi, lo) == [Reg(f, b, unit, 12, lo) EXCEPT !.hw.unit[b + 1] = 1, !.regs[b + 1] = hi]

\* 14 is the page of a device below 4 GiB (page 16); one above starts at 16.  The
\* windows of two cards, one mapped twice, fit behind the kernel.
Low(f, b) == Reg(f, b, PAGE, 0, 14 * PAGE)
High(f, b, pages, page) == Bar64(f, b, pages * PAGE, page \div 16, (page % 16) * PAGE)
Cards ==
  {Low(Fn, 0), Reg(Low(Fn, 0), 2, 16, 1, 64), Reg(Low(Fn, 0), 1, 16, 8, 15 * PAGE + 16),
   High(Fn, 0, 1, 16), High(Low(Fn, 2), 0, 2, 18), High(High(Fn, 0, 2, 20), 2, 4, 24),
   High(High(Fn, 0, 4, 24), 4, 2, 16), Bar64(Fn, 0, 16, 1, 48)}
\* Two cards, of which the second is for a driver.
Drivers == {"168c:002e", "1969:1090"}
Plugged(a, b) == (<<0, 0, 0>> :> a) @@ (<<0, 1, 0>> :> b)
Carded == {Plugged(a, [b EXCEPT !.id = id, !.phy = phy]) :
             a \in Cards, b \in Cards \cup {Fn, Reg(Fn, 0, 16, 1, 32)}, id \in Drivers, phy \in {-1, 3, -2}}

\* Lists of capabilities: straight, and in a circle.
Lists == {NoCaps, [first |-> 1, next |-> <<0>>, pm |-> 1], [first |-> 1, next |-> <<2, 3, 0>>, pm |-> 3],
          [first |-> 2, next |-> <<2, 1, 1>>, pm |-> 1], [first |-> 1, next |-> <<2, 1, 1>>, pm |-> 3]}
Asleep_cards == {Plugged(Fn, [Low(Fn, 0) EXCEPT !.id = "168c:002e", !.caps = l, !.power = p,
                                               !.forgets = r, !.command = c]) :
                  l \in Lists, p \in {0, 1, 3}, r \in BOOLEAN, c \in {{}, {"mem"}}}
\* Two network cards, for which one place of a PHY is kept.
TwoAth == {Plugged([Low(Fn, 0) EXCEPT !.id = "1969:1090", !.phy = p],
                   [Low(Fn, 0) EXCEPT !.id = "1969:1090", !.phy = q]) : p, q \in {-1, 3, 4}}
Disks == {Plugged([Fn EXCEPT !.class = "ahci"], [Fn EXCEPT !.class = "ide"])}

APci == <<0, 0, 0>> :> Fn
IdePci == <<0, 0, 0>> :> [Fn EXCEPT !.class = "ide"]
MCMachines == Bridged \cup Carded \cup Asleep_cards \cup TwoAth \cup Disks

----------------------------------------------------------------------------
(* Tables of four entries: the direct map of 16 pages, and three large pages of
   the kernel's window.  The kernel's image are its first six pages, with the boot
   tables in it. *)

MCFrames == 0 .. 15
MCBootFree == {10, 11, 12}

----------------------------------------------------------------------------
(* IDE controllers: two drives of any kind on one channel, one on the other. *)

AnIde == [kind |-> [d \in Drives |-> "none"], native |-> {}, bar_io |-> {}, command |-> {}]
MCIde == {[kind |-> [d \in Drives |-> IF d[1] = 0 THEN k[d[2]] ELSE IF d[2] = 1 THEN "atapi" ELSE "none"],
           native |-> n, bar_io |-> n \cup io, command |-> {}] :
            k \in [{0, 1} -> Kinds], n \in {{}, {0}}, io \in {{}, {1}}}

----------------------------------------------------------------------------
(* Volumes: a root directory with a file and a directory, and a file in that.
   An inode is put into its group's table, a table into the block its
   descriptor names. *)

Ino(size, bs) == [size |-> size, block |-> [i \in 0 .. 11 |-> IF i + 1 \in DOMAIN bs THEN bs[i + 1] ELSE 0]]
InodesOf(s, a, b) == (2 :> Ino(s, <<20>>)) @@ (9 :> Ino(0, <<>>)) @@ (a :> Ino(3 * s - 7, <<21, 22, 23>>))
                     @@ (b :> Ino(s, <<0, 24>>))
FileIn(c, s) == c :> Ino(3 * s, <<25, 0, 26>>)
Names(a, b, c, unused) ==
  (2 :> (("." :> 2) @@ ("f" :> a) @@ ("d" :> b) @@ (IF unused THEN <<>> ELSE ("x" :> 9))))
  @@ (b :> (("." :> b) @@ ("g" :> c)))
Dir(es) == [at |-> es]
DirRoot(a, b, bs, unused) ==
  Dir((0 :> [inode |-> 2, rec_len |-> 12, name |-> "."])
      @@ (12 :> [inode |-> IF unused THEN 0 ELSE 9, rec_len |-> 16, name |-> "x"])
      @@ (28 :> [inode |-> a, rec_len |-> 12, name |-> "f"])
      @@ (40 :> [inode |-> b, rec_len |-> bs - 40, name |-> "d"]))
DirSub(b, c, bs) ==
  Dir((0 :> [inode |-> b, rec_len |-> 12, name |-> "."])
      @@ (12 :> [inode |-> c, rec_len |-> bs - 12, name |-> "g"]))
\* g: block size, inode size, first data block, inodes of a group, first sector.
TableAt(group) == 30 + 4 * group
GdsIn(g, k, groups) ==
  [at |-> [o \in {32 * j : j \in 0 .. g.bs \div 32 - 1} |->
             TableAt(k * (g.bs \div 32) + o \div 32)]]
InodesIn(g, group, t, inodes) ==
  LET per == g.bs \div g.isz
      no(j) == group * g.ipg + t * per + j + 1
  IN  [at |-> [o \in {g.isz * j : j \in {x \in 0 .. per - 1 : no(x) \in DOMAIN inodes}} |->
                 inodes[no(o \div g.isz)]]]
Blocks(g, inodes, a, b, c, unused) ==
  LET groups == {(i - 1) \div g.ipg : i \in DOMAIN inodes}
      spb == g.bs \div 512
  IN  (g.start + spb * 20 :> DirRoot(a, b, g.bs, unused))
      @@ (g.start + spb * 24 :> DirSub(b, c, g.bs))
      @@ [s \in {g.start + spb * (g.fdb + 1 + k) : k \in {(gr * 32) \div g.bs : gr \in groups}} |->
            GdsIn(g, (s - g.start) \div spb - g.fdb - 1, groups)]
      @@ [s \in {g.start + spb * (TableAt(gr) + t) : gr \in groups, t \in 0 .. (g.ipg * g.isz) \div g.bs - 1} |->
            LET blk == (s - g.start) \div spb - 30
            IN  InodesIn(g, blk \div 4, blk % 4, inodes)]
Volume(g, a, b, c, bad, unused) ==
  LET inodes == InodesOf(g.bs, a, b) @@ FileIn(c, g.bs)
  IN  [start |-> g.start, count |-> (g.bs \div 512) * 400, block_size |-> g.bs, inode_size |-> g.isz,
       first_data_block |-> g.fdb, inodes_per_group |-> g.ipg, disk |-> Blocks(g, inodes, a, b, c, unused),
       bad |-> {g.start + (g.bs \div 512) * x : x \in bad}, inodes |-> inodes, names |-> Names(a, b, c, unused),
       unused |-> unused]
Geometries == {[bs |-> 1024, isz |-> 128, fdb |-> 1, ipg |-> 16, start |-> 63],
               [bs |-> 1024, isz |-> 256, fdb |-> 1, ipg |-> 16, start |-> 2048],
               [bs |-> 4096, isz |-> 128, fdb |-> 0, ipg |-> 64, start |-> 63],
               [bs |-> 8192, isz |-> 256, fdb |-> 0, ipg |-> 128, start |-> 63]}
Numbers == {<<11, 12, 13>>, <<16, 17, 33>>, <<40, 530, 1060>>}
Paths == {<<"f">>, <<"d", "g">>, <<"d", "f">>, <<"h">>, <<"x">>, <<"f", "g">>}
Asked == {<<0, 9000>>, <<3000, 4096>>, <<13000, 100>>}
MCVolumes ==
  {Volume(g, n[1], n[2], n[3], bad, unused) :
     g \in Geometries, n \in Numbers, bad \in {{}, {22}, {24}, {30}}, unused \in BOOLEAN}
MCRequests == {[path |-> p, offset |-> q[1], len |-> q[2]] : p \in Paths, q \in Asked}
\* The plainest volume: an empty root directory, and a descriptor that cannot be read.
AVol == [start |-> 0, count |-> 10, block_size |-> 1024, inode_size |-> 128, first_data_block |-> 1,
         inodes_per_group |-> 8, bad |-> {4}, unused |-> FALSE,
         disk |-> (4 :> [at |-> 0 :> 3]) @@ (6 :> [at |-> 128 :> Ino(1024, <<4>>)])
                  @@ (8 :> Dir(0 :> [inode |-> 2, rec_len |-> 1024, name |-> "."])),
         inodes |-> 2 :> Ino(1024, <<4>>), names |-> 2 :> ("." :> 2)]
ARequest == [path |-> <<"f">>, offset |-> 0, len |-> 1]

----------------------------------------------------------------------------
Plain == [block |-> ABlock, tables |-> {ATable}, pci |-> APci, ide |-> AnIde, vol |-> AVol,
          request |-> ARequest]
WithTable(t) ==
  [Plain EXCEPT !.block = BlockOf(<<TagOf("acpi_old", 28,
                                          [ARoot EXCEPT !.rsdt.entries[1].table = t]), End>>, 0, End),
                !.tables = {t}]
MCFirmware == {
  {WithTable(t) : t \in MCTables},
  {[Plain EXCEPT !.block = b] : b \in MCBlocks},
  {[Plain EXCEPT !.pci = m] : m \in MCMachines},
  {[Plain EXCEPT !.pci = IdePci, !.ide = i] : i \in MCIde},
  {[Plain EXCEPT !.vol = v, !.request = r] : v \in MCVolumes, r \in MCRequests}}
=============================================================================
