---------------------------- MODULE Boot_proofs ----------------------------
(***************************************************************************)
(* Theorems about what the boot processor finds out, for any machine: the  *)
(* boot loader's tags, the walks of the MADT, the scan of the PCI buses    *)
(* and of the BARs, the windows through which BARs are reached, the        *)
(* registers of a card, the identification of IDE drives, and the file     *)
(* read from the root volume.  Each walk follows a recursive function of   *)
(* the model, which is shown to exist by induction on the offsets before   *)
(* its end.  Every part has an invariant of its own; BootInvariant puts    *)
(* them together, but for WindowsInv, which rests on it.                   *)
(***************************************************************************)
EXTENDS Boot, NaturalsInduction, FiniteSetTheorems, SequenceTheorems, TLAPS

----------------------------------------------------------------------------
(* What a walk from an offset on gathers *)

\* A set of naturals that is not empty has a least element.
LEMMA LeastExists ==
  ASSUME NEW S \in SUBSET Nat, S # {}
  PROVE  \E x \in S : \A y \in S : x <= y
<1> DEFINE Less == {ss \in Nat \X Nat : ss[1] < ss[2]}
<1>1. IsWellFoundedOn(Less, Nat)
  BY NatLessThanWellFounded, Zenon DEF OpToRel
<1>2. PICK x \in S : \A y \in S : <<y, x>> \notin Less
  <2> HIDE DEF Less
  <2> QED BY <1>1, WFMin, Zenon
<1>3. \A y \in S : x <= y
  <2> SUFFICES ASSUME NEW y \in S  PROVE x <= y
    OBVIOUS
  <2>1. <<y, x>> \in Nat \X Nat /\ <<y, x>> \notin Less
    BY <1>2
  <2>2. <<y, x>>[1] = y /\ <<y, x>>[2] = x
    OBVIOUS
  <2>3. ~ (y < x) /\ y \in Nat /\ x \in Nat
    BY <2>1, <2>2
  <2> QED BY <2>3
<1> QED BY <1>3

\* Induction up to a bound, over the set of numbers for which a fact holds.
LEMMA UpToBound ==
  ASSUME NEW n \in Nat, NEW True, 0 \in True, \A k \in 0 .. n - 1 : k \in True => k + 1 \in True
  PROVE  0 .. n \subseteq True
<1> DEFINE Bad == {k \in 0 .. n : k \notin True}
<1> SUFFICES ASSUME Bad # {}
             PROVE  FALSE
  OBVIOUS
<1>1. PICK k \in Bad : \A j \in Bad : k <= j
  <2>1. Bad \in SUBSET Nat
    OBVIOUS
  <2> HIDE DEF Bad
  <2> QED BY <2>1, LeastExists
<1>2. k # 0 /\ k - 1 \in 0 .. n - 1 /\ k - 1 \in 0 .. n
  OBVIOUS
<1>3. k - 1 \notin Bad
  BY <1>1, <1>2
<1>4. k - 1 \in True /\ (k - 1) + 1 = k
  BY <1>2, <1>3
<1> QED BY <1>1, <1>2, <1>4

\* Things of C lie at offsets up to n, each before the one the walk goes on to.
Forward(n, C, Goto) ==
  /\ n \in Nat /\ C \subseteq 0 .. n
  /\ Goto \in [C -> Nat] /\ \A o \in C : o < Goto[o]

\* g has what the walk from each offset gathers.
Gathers(g, C, Goto, x0, Step) ==
  \A o \in Nat : g[o] = IF o \in C THEN Step[o][g[Goto[o]]] ELSE x0

\* There is such a function.
LEMMA WalkExists ==
  ASSUME NEW n, NEW C, NEW Goto, Forward(n, C, Goto), NEW X, NEW x0 \in X, NEW Step \in [C -> [X -> X]]
  PROVE  \E g \in [Nat -> X] : Gathers(g, C, Goto, x0, Step)
<1> DEFINE Value(g, o) == IF o \in C THEN Step[o][g[Goto[o]]] ELSE x0
           From(g, m) == \A o \in Nat : o + m > n => g[o] = Value(g, o)
           Done == {m \in 0 .. n + 1 : \E g \in [Nat -> X] : From(g, m)}
<1>1. n \in Nat /\ n + 1 \in Nat /\ C \subseteq Nat /\ \A o \in C : o <= n /\ Goto[o] \in Nat /\ o < Goto[o]
  BY DEF Forward
<1>2. 0 \in Done
  <2> DEFINE g == [o \in Nat |-> x0]
  <2>1. g \in [Nat -> X] /\ \A o \in Nat : g[o] = x0
    OBVIOUS
  <2>2. \A o \in Nat : o + 0 > n => o \notin C
    BY <1>1
  <2> HIDE DEF g
  <2>3. From(g, 0)
    BY <2>1, <2>2
  <2> QED BY <1>1, <2>1, <2>3
<1>3. ASSUME NEW m \in 0 .. (n + 1) - 1, m \in Done
      PROVE  m + 1 \in Done
  <2>1. PICK g \in [Nat -> X] : From(g, m)
    BY <1>3
  <2> DEFINE p == n - m
             h == [g EXCEPT ![p] = Value(g, p)]
  <2>2. p \in Nat /\ m \in Nat /\ m + 1 \in 0 .. n + 1
    BY <1>1
  <2>3. Value(g, p) \in X
    BY <1>1
  <2>4. h \in [Nat -> X] /\ h[p] = Value(g, p) /\ \A o \in Nat : o # p => h[o] = g[o]
    BY <2>2, <2>3
  <2>5. \A o \in Nat : o + (m + 1) > n => o = p \/ (o + m > n /\ o > p)
    BY <1>1, <2>2
  <2>6. ASSUME NEW o \in Nat, o >= p  PROVE Value(h, o) = Value(g, o)
    <3>1. o \in C => Goto[o] \in Nat /\ Goto[o] # p
      BY <1>1, <2>2, <2>6
    <3> HIDE DEF h
    <3> QED BY <2>4, <3>1
  <2> HIDE DEF h
  <2>7. ASSUME NEW o \in Nat, o + (m + 1) > n  PROVE h[o] = Value(h, o)
    <3>1. o >= p
      BY <2>2, <2>5, <2>7
    <3>2. Value(h, o) = Value(g, o)
      BY <2>6, <3>1
    <3>3. CASE o = p
      BY <2>4, <3>2, <3>3
    <3>4. CASE o # p
      BY <2>1, <2>4, <2>5, <2>7, <3>2, <3>4
    <3> QED BY <3>3, <3>4
  <2> HIDE DEF p
  <2>8. From(h, m + 1)
    BY <2>7
  <2> QED BY <2>2, <2>4, <2>8
<1>4. n + 1 \in Done
  <2> HIDE DEF Done
  <2>1. 0 .. n + 1 \subseteq Done
    BY <1>1, <1>2, <1>3, UpToBound
  <2> QED BY <1>1, <2>1
<1>5. PICK g \in [Nat -> X] : From(g, n + 1)
  BY <1>4
<1>6. \A o \in Nat : o + (n + 1) > n
  BY <1>1
<1>7. \A o \in Nat : g[o] = Value(g, o)
  BY <1>5, <1>6
<1> QED BY <1>5, <1>7 DEF Gathers

\* What a walk gathers is of a kind, if every step keeps it so.
LEMMA WalkTyped ==
  ASSUME NEW n, NEW C, NEW Goto, Forward(n, C, Goto), NEW X, NEW g,
         \A o \in Nat \ C : g[o] \in X,
         \A o \in C : g[Goto[o]] \in X => g[o] \in X
  PROVE  \A o \in Nat : g[o] \in X
<1> DEFINE Done == {m \in 0 .. n + 1 : \A o \in Nat : o + m > n => g[o] \in X}
<1>1. n \in Nat /\ n + 1 \in Nat /\ C \subseteq Nat /\ \A o \in C : o <= n /\ Goto[o] \in Nat /\ o < Goto[o]
  BY DEF Forward
<1>2. 0 \in Done
  <2>1. \A o \in Nat : o + 0 > n => o \notin C
    BY <1>1
  <2> QED BY <1>1, <2>1
<1>3. ASSUME NEW m \in 0 .. (n + 1) - 1, m \in Done
      PROVE  m + 1 \in Done
  <2>1. m \in Nat /\ m + 1 \in 0 .. n + 1 /\ \A o \in Nat : o + m > n => g[o] \in X
    BY <1>1, <1>3
  <2>2. ASSUME NEW o \in Nat, o + (m + 1) > n  PROVE g[o] \in X
    <3>1. CASE o \in C
      <4>1. Goto[o] \in Nat /\ Goto[o] + m > n
        BY <1>1, <2>1, <2>2, <3>1
      <4>2. g[Goto[o]] \in X
        BY <2>1, <4>1
      <4> QED BY <3>1, <4>2
    <3> QED BY <3>1
  <2> QED BY <2>1, <2>2
<1>4. n + 1 \in Done
  <2> HIDE DEF Done
  <2>1. 0 .. n + 1 \subseteq Done
    BY <1>1, <1>2, <1>3, UpToBound
  <2> QED BY <1>1, <2>1
<1>5. \A o \in Nat : o + (n + 1) > n
  BY <1>1
<1> QED BY <1>4, <1>5

----------------------------------------------------------------------------
(* The tags, and the search for the MADT *)

Acpi(o) == o \in DOMAIN block.tag /\ Type(block, o) \in Wanted.acpi_ptr

BootInfoInv ==
  /\ \E T : BlockReadable(block, T) /\ \A t \in T : TableReadable(t)
  /\ tag \in Nat \ {0} /\ tag % 8 = 0
  /\ boot_info \in [framebuffer : Nat, acpi_ptr : Nat, modules : Seq(Nat), cmdline : Nat]
  /\ boot_info.acpi_ptr # NULL => Acpi(boot_info.acpi_ptr)
  /\ IF tag_walk = "found" THEN TableReadable(madt[1]) ELSE madt = <<>>

\* The table found is among those the root table lists.
LEMMA Table ==
  ASSUME NEW sdt, NEW use_xsdt \in BOOLEAN, NEW sign, NEW T,
         \A i \in 1 .. EntryCount(sdt, use_xsdt) : sdt.entries[i].table \in T,
         acpi_find_table(sdt, use_xsdt, sign) # <<>>
  PROVE  acpi_find_table(sdt, use_xsdt, sign)[1] \in T
<1> DEFINE listed == {i \in 1 .. EntryCount(sdt, use_xsdt) : sdt.entries[i].sign = sign}
<1>1. listed # {} /\ acpi_find_table(sdt, use_xsdt, sign)[1] = sdt.entries[Min(listed)].table
  BY DEF acpi_find_table
<1>2. listed \in SUBSET Nat
  OBVIOUS
<1>3. Min(listed) \in listed
  <2> HIDE DEF listed
  <2>1. \E x \in listed : \A y \in listed : x <= y
    BY <1>1, <1>2, LeastExists
  <2> QED BY <2>1 DEF Min
<1> QED BY <1>1, <1>3, Zenon

\* A tag that is looked at is in the block, and has a size.
LEMMA TagRead ==
  ASSUME BootInfoInv, TagThere(block, tag)
  PROVE  tag \in DOMAIN block.tag /\ block.tag[tag].size \in Nat \ {0}
<1> PICK T : BlockReadable(block, T)
  BY DEF BootInfoInv
<1> DEFINE n == tag \div 8
<1>1. n \in Nat /\ tag = 8 * n /\ n >= 1
  BY DEF BootInfoInv
<1>2. block.total_size \in Nat /\ tag + 8 <= block.total_size
  BY DEF BlockReadable, TagThere, HeaderSize
<1>3. n \in 1 .. block.total_size \div 8 - 1
  <2> HIDE DEF n
  <2> QED BY <1>1, <1>2
<1> QED BY <1>1, <1>3 DEF BlockReadable

\* The next tag is at a multiple of 8 bytes.
LEMMA TagAfter ==
  ASSUME BootInfoInv, TagThere(block, tag)
  PROVE  NextTag(block, tag) \in Nat \ {0} /\ NextTag(block, tag) % 8 = 0
<1> DEFINE n == (block.tag[tag].size + 7) \div 8
<1>1. n \in Nat
  BY TagRead
<1>2. tag \in Nat \ {0} /\ tag % 8 = 0
  BY DEF BootInfoInv
<1>3. NextTag(block, tag) = tag + n * 8
  BY DEF NextTag
<1> HIDE DEF n
<1> QED BY <1>1, <1>2, <1>3

\* The walks of the tags and the search for the MADT keep what is known of them.
LEMMA BootInfoStep ==
  ASSUME BootInfoInv, BootInfoNext
  PROVE  BootInfoInv'
<1>1. CASE take_tag
  <2> USE <1>1 DEF take_tag
  <2>1. block' = block /\ madt' = madt /\ TagThere(block, tag) /\ tag_walk \in DOMAIN Wanted
    OBVIOUS
  <2>2. tag' \in Nat \ {0} /\ tag' % 8 = 0
    BY TagAfter DEF WalkOn, WalkDone, HeaderSize
  <2>3. tag \in Nat \ {0} /\ tag \in DOMAIN block.tag
    BY TagRead DEF BootInfoInv
  <2>4. tag_walk \in {"framebuffer", "acpi_ptr", "modules", "cmdline"}
    BY DEF Wanted
  <2>5. boot_info' \in [framebuffer : Nat, acpi_ptr : Nat, modules : Seq(Nat), cmdline : Nat]
    <3>1. boot_info \in [framebuffer : Nat, acpi_ptr : Nat, modules : Seq(Nat), cmdline : Nat]
      BY DEF BootInfoInv
    <3>2. Append(boot_info.modules, tag) \in Seq(Nat)
      BY <2>3, <3>1
    <3>3. CASE tag_walk = "modules"
      BY <3>1, <3>2, <3>3, Zenon DEF Take
    <3>4. CASE tag_walk \in {"framebuffer", "acpi_ptr", "cmdline"}
      BY <2>3, <3>1, <3>4, Zenon DEF Take
    <3> QED BY <2>4, <3>3, <3>4
  <2>6. boot_info'.acpi_ptr # NULL => Acpi(boot_info'.acpi_ptr)
    BY <2>3, <2>4 DEF Take, BootInfoInv, Acpi
  <2>7. tag_walk' # "found" /\ tag_walk # "found"
    BY <2>4 DEF WalkOn, WalkDone, WalkAfter, Walks
  <2> QED BY <2>1, <2>2, <2>5, <2>6, <2>7, Zenon DEF BootInfoInv, Acpi
<1>2. CASE pass_tag
  <2> USE <1>2 DEF pass_tag
  <2>1. UNCHANGED <<block, boot_info, madt, tag_walk>>
    BY DEF WalkOn
  <2>2. tag' \in Nat \ {0} /\ tag' % 8 = 0
    BY TagAfter DEF WalkOn
  <2> QED BY <2>1, <2>2, Zenon DEF BootInfoInv, Acpi
<1>3. CASE no_more_tags
  <2> USE <1>3 DEF no_more_tags
  <2>1. UNCHANGED <<block, boot_info, madt>> /\ tag' = 8
    BY DEF WalkDone, HeaderSize
  <2>2. tag_walk \in {"framebuffer", "acpi_ptr", "modules", "cmdline"}
    BY DEF Wanted
  <2>3. tag_walk' # "found" /\ tag_walk # "found"
    BY <2>2 DEF WalkDone, WalkAfter, Walks
  <2> QED BY <2>1, <2>3 DEF BootInfoInv, Acpi
<1>4. CASE acpi_init
  <2> USE <1>4 DEF acpi_init
  <2>1. UNCHANGED <<block, boot_info, tag>>
    OBVIOUS
  <2>2. ASSUME madt' # <<>>
        PROVE  TableReadable(madt'[1])
    <3>1. madt = <<>>
      BY DEF BootInfoInv
    <3>2. boot_info.acpi_ptr # NULL
      BY <2>2, <3>1
    <3> DEFINE rsdp == block.tag[boot_info.acpi_ptr].rsdp
               x == rsdp.rev = 2
               sdt == IF x THEN rsdp.xsdt ELSE rsdp.rsdt
    <3>3. madt' = acpi_find_table(sdt, x, "APIC")
      BY <3>2
    <3>4. PICK T : BlockReadable(block, T) /\ \A t \in T : TableReadable(t)
      BY DEF BootInfoInv
    <3>5. boot_info.acpi_ptr \in DOMAIN block.tag /\ Type(block, boot_info.acpi_ptr) \in Wanted.acpi_ptr
      BY <3>2 DEF BootInfoInv, Acpi
    <3>6. \A i \in 1 .. EntryCount(sdt, x) : sdt.entries[i].table \in T
      BY <3>4, <3>5, Zenon DEF BlockReadable
    <3> HIDE DEF sdt, x
    <3>7. x \in BOOLEAN
      BY DEF x
    <3> QED BY <2>2, <3>3, <3>4, <3>6, <3>7, Table
  <2>3. IF tag_walk' = "found" THEN TableReadable(madt'[1]) ELSE madt' = <<>>
    BY <2>2
  <2> QED BY <2>1, <2>3 DEF BootInfoInv, Acpi
<1> QED BY <1>1, <1>2, <1>3, <1>4 DEF BootInfoNext
\* At the beginning nothing is found.
LEMMA BootInfoFirst ==
  ASSUME NEW b, NEW T, BlockReadable(b, T), \A t \in T : TableReadable(t), BootInfoInit(b)
  PROVE  BootInfoInv
  BY DEF BootInfoInit, BootInfoInv, HeaderSize, NULL

----------------------------------------------------------------------------
(* What the walks over the tags are to find *)

\* There is a tag that a walk may come to.
Tag(b, o) ==
  /\ o \in DOMAIN b.tag /\ o + HeaderSize <= b.total_size
  /\ Type(b, o) # "end" /\ o + b.tag[o].size <= b.total_size

\* The list from an offset on is the tag there, if it is wanted, and the list
\* from the next tag on.
LEMMA TagsListed ==
  ASSUME NEW b, NEW T, BlockReadable(b, T), NEW w
  PROVE  /\ \A o \in Nat : TagsFrom(b, w)[o] \in Seq(Nat)
         /\ \A o \in Nat : TagsFrom(b, w)[o] =
              IF Tag(b, o)
              THEN (IF Type(b, o) \in Wanted[w] THEN <<o>> ELSE <<>>) \o TagsFrom(b, w)[NextTag(b, o)]
              ELSE <<>>
<1> DEFINE n == b.total_size
           C == {o \in Nat : Tag(b, o)}
           Goto == [o \in C |-> NextTag(b, o)]
           Own(o) == IF Type(b, o) \in Wanted[w] THEN <<o>> ELSE <<>>
           X == Seq(Nat)
           Step == [o \in C |-> [x \in X |-> Own(o) \o x]]
           Is(g) == g = [o \in Nat |-> IF Tag(b, o) THEN Own(o) \o g[NextTag(b, o)] ELSE <<>>]
           from == CHOOSE g : Is(g)
<1>1. n \in Nat /\ \A o \in DOMAIN b.tag : b.tag[o].size \in Nat \ {0}
  BY DEF BlockReadable
<1>2. \A o \in C : o \in 0 .. n /\ NextTag(b, o) \in Nat /\ o < NextTag(b, o)
  <2> SUFFICES ASSUME NEW o \in C  PROVE o \in 0 .. n /\ NextTag(b, o) \in Nat /\ o < NextTag(b, o)
    OBVIOUS
  <2> DEFINE s == b.tag[o].size
             k == (s + 7) \div 8
  <2>1. o \in Nat /\ s \in Nat \ {0} /\ o + 8 <= n
    BY <1>1 DEF Tag, HeaderSize
  <2>2. NextTag(b, o) = o + k * 8
    BY DEF NextTag
  <2> HIDE DEF s
  <2>3. k \in Nat /\ k >= 1
    BY <2>1
  <2> HIDE DEF k
  <2>4. o + k * 8 \in Nat /\ o < o + k * 8
    BY <2>1, <2>3
  <2> QED BY <1>1, <2>1, <2>2, <2>4
<1>3. Forward(n, C, Goto)
  BY <1>1, <1>2 DEF Forward
<1>4. <<>> \in X /\ \A o \in Nat : Own(o) \in X
  OBVIOUS
<1>5. \A o \in C : \A x \in X : Own(o) \o x \in X
  BY <1>4
<1>6. Step \in [C -> [X -> X]] /\ \A o \in C : \A x \in X : Step[o][x] = Own(o) \o x
  BY <1>5
<1>7. \A o \in C : Goto[o] = NextTag(b, o) /\ Goto[o] \in Nat
  BY <1>2
<1> HIDE DEF Own, Step, X, Goto, n
<1>8. PICK g \in [Nat -> X] : Gathers(g, C, Goto, <<>>, Step)
  BY <1>3, <1>4, <1>6, WalkExists, Zenon
<1>9. Is(g)
  <2>1. ASSUME NEW o \in Nat
        PROVE  g[o] = IF Tag(b, o) THEN Own(o) \o g[NextTag(b, o)] ELSE <<>>
    <3>1. CASE Tag(b, o)
      <4>1. o \in C /\ Goto[o] = NextTag(b, o) /\ g[Goto[o]] \in X
        BY <1>7, <1>8, <3>1
      <4>2. g[o] = Step[o][g[Goto[o]]]
        BY <1>8, <4>1 DEF Gathers
      <4>3. Step[o][g[Goto[o]]] = Own(o) \o g[Goto[o]]
        BY <1>6, <4>1
      <4> QED BY <3>1, <4>1, <4>2, <4>3, Zenon
    <3>2. CASE ~Tag(b, o)
      BY <1>8, <3>2 DEF Gathers
    <3> QED BY <3>1, <3>2
  <2> QED BY <2>1
<1>10. Is(from)
  BY <1>9, Zenon
<1>11. from = TagsFrom(b, w)
  BY DEF TagsFrom, Own, Tag
<1> HIDE DEF from
<1>12. \A o \in Nat : from[o] = IF Tag(b, o) THEN Own(o) \o from[NextTag(b, o)] ELSE <<>>
  BY <1>10, Zenon
<1>13. \A o \in C : from[o] = Own(o) \o from[Goto[o]] /\ Own(o) \in X
  BY <1>4, <1>7, <1>12, Zenon
<1>14. \A o \in Nat \ C : from[o] = <<>>
  BY <1>12
<1>15. \A o \in Nat : from[o] \in X
  <2> HIDE DEF C
  <2> DEFINE joined(x, y) == x \o y
  <2>3. \A x, y \in X : joined(x, y) \in X
    BY DEF X
  <2>4. \A o \in C : from[o] = joined(Own(o), from[Goto[o]])
    BY <1>13
  <2> HIDE DEF joined
  <2>1. \A o \in C : from[Goto[o]] \in X => from[o] \in X
    BY <1>13, <2>3, <2>4
  <2>2. \A o \in Nat \ C : from[o] \in X
    BY <1>4, <1>14
  <2> QED BY <1>3, <2>1, <2>2, WalkTyped
<1> QED BY <1>11, <1>12, <1>15 DEF Own, X

Single == {"framebuffer", "acpi_ptr", "cmdline"}
AllWalks == {"framebuffer", "acpi_ptr", "modules", "cmdline"}
Ended == {"acpi_init", "found", "stopped"}

\* The stages in which a walk is over.
After == [framebuffer |-> {"acpi_ptr", "modules", "cmdline"} \cup Ended,
          acpi_ptr |-> {"modules", "cmdline"} \cup Ended,
          modules |-> {"cmdline"} \cup Ended, cmdline |-> Ended]

\* What a walk that is not over has yet to come to.
Left(w) == TagsFrom(block, w)[IF tag_walk = w THEN tag ELSE HeaderSize]

\* A list, up to its m-th element.
UpTo(s, m) == SubSeq(s, 1, Min({Len(s), m}))

\* As many modules as there is room for.
Roomed(s) == UpTo(s, MAX_BOOT_MODULES)

\* The MADT found is listed in the root table.
Listed_madt ==
  madt # <<>> =>
    LET rsdp == block.tag[boot_info.acpi_ptr].rsdp
        sdt == IF rsdp.rev = 2 THEN rsdp.xsdt ELSE rsdp.rsdt
    IN  \E i \in DOMAIN sdt.entries :
          /\ sdt.entries[i].sign = "APIC" /\ sdt.entries[i].table = madt[1]
          /\ SdtHeader + i * (IF rsdp.rev = 2 THEN 8 ELSE 4) <= sdt.len

\* What the kernel has been told is what the walks were to find, and a walk that
\* is not over has passed nothing it wants but the modules told.
TagsInv ==
  /\ tag_walk \in AllWalks \cup Ended
  /\ \A w \in Single :
       IF tag_walk \in After[w] THEN boot_info[w] = FirstOf(TagsOf(w))
       ELSE boot_info[w] = NULL /\ Left(w) = TagsOf(w)
  /\ Len(boot_info.modules) <= MAX_BOOT_MODULES
  /\ IF tag_walk \in After.modules THEN boot_info.modules = Roomed(TagsOf("modules"))
     ELSE Roomed(boot_info.modules \o Left("modules")) = Roomed(TagsOf("modules"))
  /\ Listed_madt

\* The smaller of two numbers.
LEMMA MinTwo ==
  ASSUME NEW a \in Nat, NEW b \in Nat
  PROVE  Min({a, b}) = IF a <= b THEN a ELSE b
<1>1. {a, b} \in SUBSET Nat /\ {a, b} # {}
  OBVIOUS
<1>2. PICK x \in {a, b} : \A y \in {a, b} : x <= y
  BY <1>1, LeastExists
<1>3. Min({a, b}) \in {a, b} /\ \A y \in {a, b} : Min({a, b}) <= y
  BY <1>2 DEF Min
<1> QED BY <1>3

\* A list that has room for all is told whole; one that has not is not told more.
LEMMA UpToTold ==
  ASSUME NEW m \in Nat, NEW s \in Seq(Nat), Len(s) <= m, NEW x \in Seq(Nat), NEW o \in Nat
  PROVE  /\ UpTo(s \o <<>>, m) = s
         /\ Len(s) < m => Append(s, o) \o x = s \o (<<o>> \o x)
         /\ ~(Len(s) < m) => UpTo(s \o (<<o>> \o x), m) = UpTo(s \o x, m)
<1>1. m \in Nat /\ Len(s) \in Nat
  OBVIOUS
<1>2. \A y \in Seq(Nat) : s \o y \in Seq(Nat) /\ Len(s \o y) = Len(s) + Len(y) /\ Len(y) \in Nat
  OBVIOUS
<1>3. UpTo(s \o <<>>, m) = s
  <2>1. s \o <<>> = s
    OBVIOUS
  <2>2. Min({Len(s), m}) = Len(s)
    BY <1>1, MinTwo, Zenon
  <2>3. SubSeq(s, 1, Len(s)) = s
    BY <1>1
  <2> QED BY <2>1, <2>2, <2>3 DEF UpTo
<1>4. Append(s, o) \o x = s \o (<<o>> \o x)
  OBVIOUS
<1>5. ASSUME ~(Len(s) < m), NEW y \in Seq(Nat)
      PROVE  UpTo(s \o y, m) = s
  <2>1. Len(s) = m
    BY <1>1, <1>5
  <2>2. Min({Len(s \o y), m}) = Len(s)
    BY <1>1, <1>2, <2>1, MinTwo
  <2>3. SubSeq(s \o y, 1, Len(s)) = s
    BY <1>1, <1>2
  <2> QED BY <2>2, <2>3, Zenon DEF UpTo
<1>6. <<o>> \o x \in Seq(Nat)
  OBVIOUS
<1> QED BY <1>3, <1>4, <1>5, <1>6, Zenon

\* So it is with the modules.
LEMMA RoomedTold ==
  ASSUME NEW s \in Seq(Nat), Len(s) <= MAX_BOOT_MODULES, NEW x \in Seq(Nat), NEW o \in Nat
  PROVE  /\ Roomed(s \o <<>>) = s
         /\ Len(s) < MAX_BOOT_MODULES => Append(s, o) \o x = s \o (<<o>> \o x)
         /\ ~(Len(s) < MAX_BOOT_MODULES) => Roomed(s \o (<<o>> \o x)) = Roomed(s \o x)
<1>1. MAX_BOOT_MODULES \in Nat
  BY BootInfoAssumption
<1> QED BY <1>1, UpToTold DEF Roomed

\* What a walk has left at the tag it has come to.
LEMMA LeftHere ==
  ASSUME BootInfoInv, NEW w
  PROVE  /\ \A o \in Nat : TagsFrom(block, w)[o] \in Seq(Nat)
         /\ ~TagThere(block, tag) => TagsFrom(block, w)[tag] = <<>>
         /\ TagThere(block, tag) =>
              TagsFrom(block, w)[tag] = (IF Type(block, tag) \in Wanted[w] THEN <<tag>> ELSE <<>>)
                                        \o TagsFrom(block, w)[NextTag(block, tag)]
<1>1. PICK T : BlockReadable(block, T)
  BY DEF BootInfoInv
<1>2. tag \in Nat /\ (TagThere(block, tag) <=> Tag(block, tag))
  BY TagRead DEF BootInfoInv, TagThere, Tag
<1> QED BY <1>1, <1>2, TagsListed, Zenon

\* The walks in their order.
LEMMA InOrder ==
  /\ WalkAfter("framebuffer") = "acpi_ptr" /\ WalkAfter("acpi_ptr") = "modules"
  /\ WalkAfter("modules") = "cmdline" /\ WalkAfter("cmdline") = "acpi_init"
<1>1. /\ Walks[1] = "framebuffer" /\ Walks[2] = "acpi_ptr" /\ Walks[3] = "modules"
      /\ Walks[4] = "cmdline" /\ Walks[5] = "acpi_init" /\ 1 .. 4 = {1, 2, 3, 4}
  BY DEF Walks
<1>2. /\ (CHOOSE k \in 1 .. 4 : Walks[k] = "framebuffer") = 1
      /\ (CHOOSE k \in 1 .. 4 : Walks[k] = "acpi_ptr") = 2
      /\ (CHOOSE k \in 1 .. 4 : Walks[k] = "modules") = 3
      /\ (CHOOSE k \in 1 .. 4 : Walks[k] = "cmdline") = 4
  BY <1>1
<1> QED BY <1>1, <1>2 DEF WalkAfter

\* When a walk is over the next one begins at the first tag.
LEMMA WalkOver ==
  ASSUME BootInfoInv, TagsInv, tag_walk \in AllWalks, WalkDone, UNCHANGED <<block, madt>>,
         \A w \in Single \ {tag_walk} : boot_info'[w] = boot_info[w],
         tag_walk \in Single => /\ boot_info'[tag_walk] = FirstOf(TagsOf(tag_walk))
                                /\ boot_info'.modules = boot_info.modules,
         tag_walk = "modules" => /\ boot_info'.modules = Roomed(TagsOf("modules"))
                                 /\ Len(boot_info'.modules) <= MAX_BOOT_MODULES
  PROVE  TagsInv'
<1>1. tag_walk' = WalkAfter(tag_walk) /\ tag' = HeaderSize /\ madt' = <<>>
  BY DEF WalkDone, BootInfoInv, AllWalks
<1>2. tag_walk' \in AllWalks \cup Ended /\ tag_walk' \in After[tag_walk] /\ tag_walk' # tag_walk
  BY <1>1, InOrder DEF AllWalks, After, Ended
<1>3. \A w \in AllWalks \ {tag_walk} : tag_walk' \in After[w] <=> tag_walk \in After[w]
  BY <1>1, InOrder DEF AllWalks, After, Ended
<1>4. \A w : TagsOf(w)' = TagsOf(w) /\ Left(w)' = TagsOf(w)
  BY <1>1 DEF TagsOf, Left
<1>5. \A w \in AllWalks \ {tag_walk} : Left(w) = TagsOf(w)
  BY DEF Left, TagsOf
<1>6. ASSUME NEW w \in Single
      PROVE  IF tag_walk' \in After[w] THEN boot_info'[w] = FirstOf(TagsOf(w)')
             ELSE boot_info'[w] = NULL /\ Left(w)' = TagsOf(w)'
  <2>1. w \in AllWalks
    BY DEF Single, AllWalks
  <2>2. CASE w = tag_walk
    BY <1>2, <1>4, <2>2
  <2>3. CASE w # tag_walk
    BY <1>3, <1>4, <2>1, <2>3 DEF TagsInv
  <2> QED BY <2>2, <2>3
<1>7. /\ Len(boot_info'.modules) <= MAX_BOOT_MODULES
      /\ IF tag_walk' \in After.modules THEN boot_info'.modules = Roomed(TagsOf("modules")')
         ELSE Roomed(boot_info'.modules \o Left("modules")') = Roomed(TagsOf("modules")')
  <2>1. CASE tag_walk = "modules"
    BY <1>2, <1>4, <2>1 DEF After
  <2>2. CASE tag_walk # "modules"
    <3>1. tag_walk \in Single /\ "modules" \in AllWalks
      BY <2>2 DEF Single, AllWalks
    <3>2. tag_walk' \in After.modules <=> tag_walk \in After.modules
      BY <1>3, <2>2, <3>1 DEF After
    <3>3. Left("modules") = TagsOf("modules")
      BY <1>5, <2>2, <3>1
    <3>4. CASE tag_walk \in After.modules
      BY <1>4, <3>1, <3>2, <3>4 DEF TagsInv
    <3>5. CASE tag_walk \notin After.modules
      <4>1. Roomed(boot_info.modules \o TagsOf("modules")) = Roomed(TagsOf("modules"))
        BY <3>3, <3>5 DEF TagsInv
      <4> QED BY <1>4, <3>1, <3>2, <3>5, <4>1 DEF TagsInv
    <3> QED BY <3>4, <3>5
  <2> QED BY <2>1, <2>2
<1> QED BY <1>1, <1>2, <1>6, <1>7, Zenon DEF TagsInv, Listed_madt, Roomed, UpTo

\* A walk goes on from a tag that it does not want, or from a module it has told.
LEMMA WalkGoesOn ==
  ASSUME BootInfoInv, TagsInv, tag_walk \in AllWalks, TagThere(block, tag), WalkOn, UNCHANGED <<block, madt>>,
         \/ Type(block, tag) \notin Wanted[tag_walk] /\ UNCHANGED boot_info
         \/ tag_walk = "modules" /\ Type(block, tag) \in Wanted[tag_walk] /\ Take("modules", tag)
  PROVE  TagsInv'
<1>1. tag_walk' = tag_walk /\ tag' = NextTag(block, tag) /\ madt' = <<>> /\ tag \in Nat /\ tag' \in Nat
  BY TagAfter DEF WalkOn, BootInfoInv, AllWalks
<1>2. \A w : TagsOf(w)' = TagsOf(w)
  BY DEF TagsOf
<1>3. \A w : w # tag_walk => Left(w)' = Left(w)
  BY <1>1 DEF Left
<1> PICK v : v = tag_walk
  OBVIOUS
<1>4. /\ Left(v) = (IF Type(block, tag) \in Wanted[v] THEN <<tag>> ELSE <<>>) \o Left(v)'
      /\ Left(v)' \in Seq(Nat)
  <2>1. Left(v) = TagsFrom(block, v)[tag] /\ Left(v)' = TagsFrom(block, v)[NextTag(block, tag)]
    BY <1>1 DEF Left
  <2> QED BY <1>1, <2>1, LeftHere, Zenon
<1>5. Type(block, tag) \notin Wanted[v] => Left(v)' = Left(v)
  BY <1>4
<1>6. CASE Type(block, tag) \notin Wanted[tag_walk] /\ UNCHANGED boot_info
  <2>1. \A w : Left(w)' = Left(w)
    <3> SUFFICES ASSUME NEW w  PROVE Left(w)' = Left(w)
      OBVIOUS
    <3>1. CASE w = v
      BY <1>5, <1>6, <3>1
    <3>2. CASE w # v
      BY <1>3, <3>2
    <3> QED BY <3>1, <3>2
  <2> QED BY <1>1, <1>2, <1>6, <2>1, Zenon DEF TagsInv, Listed_madt, Roomed, UpTo
<1>7. CASE tag_walk = "modules" /\ Type(block, tag) \in Wanted[tag_walk] /\ Take("modules", tag)
  <2> DEFINE s == boot_info.modules
             x == Left("modules")'
  <2>1. s \in Seq(Nat) /\ x \in Seq(Nat) /\ Left("modules") = <<tag>> \o x
    <3>1. v = "modules" /\ Type(block, tag) \in Wanted[v]
      BY <1>7
    <3> QED BY <1>4, <3>1 DEF BootInfoInv
  <2>2. Len(s) <= MAX_BOOT_MODULES /\ Roomed(s \o (<<tag>> \o x)) = Roomed(TagsOf("modules"))
    BY <1>7, <2>1, Zenon DEF TagsInv, After, Ended
  <2>3. /\ \A w \in Single : boot_info'[w] = boot_info[w]
        /\ boot_info'.modules = IF Len(s) < MAX_BOOT_MODULES THEN Append(s, tag) ELSE s
    BY <1>7 DEF Take, Single, BootInfoInv
  <2> HIDE DEF s, x
  <2>4. Roomed(boot_info'.modules \o x) = Roomed(TagsOf("modules"))
    <3>1. CASE Len(s) < MAX_BOOT_MODULES
      <4>1. Append(s, tag) \o x = s \o (<<tag>> \o x)
        BY <1>1, <2>1, <2>2, <3>1, RoomedTold, Zenon
      <4> QED BY <2>2, <2>3, <3>1, <4>1, Zenon
    <3>2. CASE ~(Len(s) < MAX_BOOT_MODULES)
      <4>1. Roomed(s \o (<<tag>> \o x)) = Roomed(s \o x)
        BY <1>1, <2>1, <2>2, <3>2, RoomedTold
      <4> QED BY <2>2, <2>3, <3>2, <4>1
    <3> QED BY <3>1, <3>2
  <2>5. Len(boot_info'.modules) <= MAX_BOOT_MODULES
    BY <1>1, <2>1, <2>2, <2>3, BootInfoAssumption
  <2>6. \A w \in Single : Left(w)' = Left(w)
    BY <1>3, <1>7 DEF Single
  <2>7. tag_walk' \notin After.modules /\ tag_walk' \in AllWalks \cup Ended
    BY <1>1, <1>7 DEF After, Ended, AllWalks
  <2>8. ASSUME NEW w \in Single
        PROVE  IF tag_walk' \in After[w] THEN boot_info'[w] = FirstOf(TagsOf(w)')
               ELSE boot_info'[w] = NULL /\ Left(w)' = TagsOf(w)'
    BY <1>1, <1>2, <2>3, <2>6 DEF TagsInv
  <2>9. Roomed(boot_info'.modules \o Left("modules")') = Roomed(TagsOf("modules")')
    BY <1>2, <2>4 DEF x
  <2>10. Listed_madt'
    BY <1>1 DEF Listed_madt
  <2> QED BY <2>5, <2>7, <2>8, <2>9, <2>10, Zenon DEF TagsInv, Roomed, UpTo
<1> QED BY <1>6, <1>7

\* An entry of a root table, by its number, ends within the table.
LEMMA EntryWithin ==
  ASSUME NEW l \in Nat, NEW k \in {4, 8}, NEW n, n = IF l < 36 THEN 0 ELSE (l - 36) \div k, NEW i \in 1 .. n
  PROVE  36 + i * k <= l
<1> DEFINE d == l - 36
<1>1. l >= 36
  OBVIOUS
<1>2. d \in Nat /\ l = d + 36 /\ n = d \div k
  BY <1>1
<1> HIDE DEF d
<1>3. CASE k = 4
  <2>1. d \div 4 \in Nat /\ (d \div 4) * 4 <= d
    BY <1>2
  <2>2. i \in Nat /\ i <= d \div 4
    BY <1>2, <1>3, <2>1
  <2> QED BY <1>2, <1>3, <2>1, <2>2
<1>4. CASE k = 8
  <2>1. d \div 8 \in Nat /\ (d \div 8) * 8 <= d
    BY <1>2
  <2>2. i \in Nat /\ i <= d \div 8
    BY <1>2, <1>4, <2>1
  <2> QED BY <1>2, <1>4, <2>1, <2>2
<1> QED BY <1>3, <1>4

\* Every step of the walks and of the search keeps what is told true.
LEMMA TagsStep ==
  ASSUME BootInfoInv, TagsInv, BootInfoNext
  PROVE  TagsInv'
<1>1. tag_walk \in DOMAIN Wanted => tag_walk \in AllWalks
  BY DEF Wanted, AllWalks
<1> PICK v : v = tag_walk
  OBVIOUS
<1>2. v \in AllWalks => Left(v) = TagsFrom(block, v)[tag]
  BY DEF Left
<1>3. CASE take_tag
  <2>1. tag_walk \in AllWalks /\ TagThere(block, tag) /\ UNCHANGED <<block, madt>> /\ Type(block, tag) \in Wanted[tag_walk]
    BY <1>1, <1>3 DEF take_tag
  <2>2. CASE tag_walk = "modules"
    BY <1>3, <2>1, <2>2, WalkGoesOn DEF take_tag
  <2>3. CASE tag_walk # "modules"
    <3>1. v \in Single /\ v \in AllWalks /\ WalkDone /\ boot_info' = [boot_info EXCEPT ![v] = tag]
      BY <1>3, <2>1, <2>3 DEF take_tag, Single, AllWalks, Take
    <3>2. boot_info \in [framebuffer : Nat, acpi_ptr : Nat, modules : Seq(Nat), cmdline : Nat] /\ tag \in Nat
      BY DEF BootInfoInv
    <3>3. boot_info'[v] = tag /\ boot_info'.modules = boot_info.modules
          /\ \A w \in Single \ {v} : boot_info'[w] = boot_info[w]
      BY <3>1, <3>2 DEF Single
    <3>4. TagsOf(v) = <<tag>> \o TagsFrom(block, v)[NextTag(block, tag)]
      <4>1. v \notin After[v]
        BY <3>1 DEF Single, After, Ended
      <4>2. TagsOf(v) = TagsFrom(block, v)[tag]
        BY <1>2, <3>1, <4>1 DEF TagsInv
      <4> QED BY <2>1, <4>2, LeftHere, Zenon
    <3>5. TagsFrom(block, v)[NextTag(block, tag)] \in Seq(Nat)
      BY <2>1, TagAfter, LeftHere, Zenon
    <3>6. FirstOf(TagsOf(v)) = tag
      <4> DEFINE x == TagsFrom(block, v)[NextTag(block, tag)]
      <4>1. <<tag>> \o x # <<>> /\ (<<tag>> \o x)[1] = tag
        <5> HIDE DEF x
        <5> QED BY <3>2, <3>5 DEF x
      <4> QED BY <3>4, <4>1 DEF FirstOf
    <3> QED BY <2>1, <2>3, <3>1, <3>3, <3>6, WalkOver
  <2> QED BY <2>2, <2>3
<1>4. CASE pass_tag
  BY <1>1, <1>4, WalkGoesOn DEF pass_tag
<1>5. CASE no_more_tags
  <2>1. /\ v \in AllWalks /\ ~TagThere(block, tag) /\ UNCHANGED <<block, madt, boot_info>> /\ WalkDone
    BY <1>1, <1>5 DEF no_more_tags
  <2>2. Left(v) = <<>> /\ tag_walk \notin After[v]
    <3>1. Left(v) = <<>>
      BY <1>2, <2>1, LeftHere, Zenon
    <3>2. v \notin After[v]
      BY <2>1 DEF After, AllWalks, Ended
    <3> QED BY <3>1, <3>2
  <2>3. v \in Single => boot_info'[v] = FirstOf(TagsOf(v))
    BY <2>1, <2>2 DEF TagsInv, FirstOf
  <2>4. v = "modules" => /\ boot_info'.modules = Roomed(TagsOf("modules"))
                         /\ Len(boot_info'.modules) <= MAX_BOOT_MODULES
    <3> SUFFICES ASSUME v = "modules"  PROVE /\ boot_info'.modules = Roomed(TagsOf("modules"))
                                             /\ Len(boot_info'.modules) <= MAX_BOOT_MODULES
      OBVIOUS
    <3>1. Roomed(boot_info.modules \o <<>>) = Roomed(TagsOf("modules")) /\ Len(boot_info.modules) <= MAX_BOOT_MODULES
      BY <2>2, Zenon DEF TagsInv
    <3>2. boot_info.modules \in Seq(Nat) /\ 0 \in Nat /\ <<>> \in Seq(Nat)
      BY DEF BootInfoInv
    <3>3. Roomed(boot_info.modules \o <<>>) = boot_info.modules
      BY <3>1, <3>2, RoomedTold, Zenon
    <3> QED BY <2>1, <3>1, <3>3
  <2> QED BY <2>1, <2>3, <2>4, WalkOver
<1>6. CASE acpi_init
  <2>1. tag_walk = "acpi_init" /\ UNCHANGED <<block, tag, boot_info>> /\ tag_walk' \in {"stopped", "found"}
    BY <1>6 DEF acpi_init
  <2>2. \A w \in AllWalks : tag_walk \in After[w] /\ tag_walk' \in After[w]
    BY <2>1 DEF AllWalks, After, Ended
  <2>3. \A w : TagsOf(w)' = TagsOf(w)
    BY <2>1 DEF TagsOf
  <2>4. Listed_madt'
    <3> SUFFICES ASSUME madt' # <<>>  PROVE Listed_madt'
      BY Zenon DEF Listed_madt
    <3> DEFINE p == boot_info.acpi_ptr
               rsdp == block.tag[p].rsdp
               x == rsdp.rev = 2
               sdt == IF x THEN rsdp.xsdt ELSE rsdp.rsdt
               n == EntryCount(sdt, x)
               S == {i \in 1 .. n : sdt.entries[i].sign = "APIC"}
    <3>1. madt = <<>>
      BY <2>1 DEF BootInfoInv
    <3>2. p # NULL /\ madt' = acpi_find_table(sdt, x, "APIC")
      BY <1>6, <3>1 DEF acpi_init
    <3>3. S # {} /\ madt' = <<sdt.entries[Min(S)].table>>
      BY <3>2, Zenon DEF acpi_find_table
    <3>4. Min(S) \in S
      <4>1. S \in SUBSET Nat
        OBVIOUS
      <4> HIDE DEF S
      <4>2. \E y \in S : \A z \in S : y <= z
        BY <3>3, <4>1, LeastExists
      <4> QED BY <4>2 DEF Min
    <3>5. PICK T : BlockReadable(block, T)
      BY DEF BootInfoInv
    <3>6. p \in DOMAIN block.tag /\ Type(block, p) \in Wanted.acpi_ptr /\ x \in BOOLEAN
      BY <3>2 DEF BootInfoInv, Acpi
    <3>7. sdt.len \in Nat /\ 1 .. n \subseteq DOMAIN sdt.entries
      BY <3>5, <3>6, Zenon DEF BlockReadable
    <3> PICK i : i = Min(S)
      OBVIOUS
    <3>8. i \in 1 .. n /\ sdt.entries[i].sign = "APIC" /\ madt' = <<sdt.entries[i].table>>
      BY <3>3, <3>4, Zenon
    <3>9. SdtHeader + i * (IF x THEN 8 ELSE 4) <= sdt.len
      <4> DEFINE l == sdt.len
                 k == IF x THEN 8 ELSE 4
      <4>1. n = IF l < 36 THEN 0 ELSE (l - 36) \div k
        BY Zenon DEF EntryCount, SdtHeader
      <4>2. l \in Nat /\ i \in 1 .. n /\ k \in {4, 8}
        BY <3>7, <3>8, Zenon
      <4> HIDE DEF l, k, n
      <4>3. 36 + i * k <= l
        BY <4>1, <4>2, EntryWithin, Zenon
      <4> QED BY <4>3, Zenon DEF l, k, SdtHeader
    <3> QED BY <2>1, <3>7, <3>8, <3>9, Zenon DEF Listed_madt
  <2>5. TagsInv' <=>
          /\ tag_walk' \in AllWalks \cup Ended
          /\ \A w \in Single :
               IF tag_walk' \in After[w] THEN boot_info'[w] = FirstOf(TagsOf(w)')
               ELSE boot_info'[w] = NULL /\ Left(w)' = TagsOf(w)'
          /\ Len(boot_info'.modules) <= MAX_BOOT_MODULES
          /\ IF tag_walk' \in After.modules THEN boot_info'.modules = Roomed(TagsOf("modules")')
             ELSE Roomed(boot_info'.modules \o Left("modules")') = Roomed(TagsOf("modules")')
          /\ Listed_madt'
    BY DEF TagsInv, Roomed, UpTo
  <2>6. \A w \in Single : w \in AllWalks
    BY DEF Single, AllWalks
  <2>7. tag_walk \in After.modules /\ tag_walk' \in After.modules /\ tag_walk' \in Ended
    BY <2>1 DEF After, Ended
  <2> QED BY <2>1, <2>2, <2>3, <2>4, <2>5, <2>6, <2>7, Zenon DEF TagsInv
<1> QED BY <1>3, <1>4, <1>5, <1>6 DEF BootInfoNext

\* Nothing is passed or told at the first tag.
LEMMA TagsFirst ==
  ASSUME NEW b, NEW T, BlockReadable(b, T), BootInfoInit(b)
  PROVE  TagsInv
<1>1. /\ tag_walk = "framebuffer" /\ tag = HeaderSize /\ madt = <<>>
      /\ boot_info = [framebuffer |-> 0, acpi_ptr |-> 0, modules |-> <<>>, cmdline |-> 0]
  BY DEF BootInfoInit, NULL
<1>2. \A w : Left(w) = TagsOf(w)
  BY <1>1 DEF Left, TagsOf
<1>3. \A w \in AllWalks : tag_walk \notin After[w]
  BY <1>1 DEF AllWalks, After, Ended
<1>4. 0 <= MAX_BOOT_MODULES /\ Len(boot_info.modules) = 0
  BY <1>1, BootInfoAssumption
<1>5. Roomed(boot_info.modules \o Left("modules")) = Roomed(TagsOf("modules"))
  <2>1. TagsOf("modules") \in Seq(Nat)
    <3>1. block = b /\ HeaderSize \in Nat
      BY DEF BootInfoInit, HeaderSize
    <3> QED BY <3>1, TagsListed DEF TagsOf
  <2>2. <<>> \o TagsOf("modules") = TagsOf("modules")
    <3> DEFINE x == TagsOf("modules")
    <3> HIDE DEF x
    <3>1. x \in Seq(Nat)
      BY <2>1 DEF x
    <3> QED BY <3>1 DEF x
  <2> QED BY <1>1, <1>2, <2>2
<1>6. \A w \in Single : boot_info[w] = NULL /\ w \in AllWalks
  BY <1>1 DEF Single, AllWalks, NULL
<1> QED BY <1>1, <1>2, <1>3, <1>4, <1>5, <1>6 DEF TagsInv, Listed_madt, AllWalks, After

\* What holds when the walks are over.
LEMMA TagsKnown == TagsInv => BootInfoTrue
<1> SUFFICES ASSUME TagsInv, tag_walk \in {"found", "stopped"}  PROVE BootInfoTrue
  BY Zenon DEF BootInfoTrue
<1>1. \A w \in Single : tag_walk \in After[w]
  BY DEF Single, After, Ended
<1>2. tag_walk \in After.modules
  BY DEF After, Ended
<1> QED BY <1>1, <1>2, Zenon DEF TagsInv, BootInfoTrue, Single, Roomed, UpTo, Listed_madt

----------------------------------------------------------------------------
(* The walks of the MADT *)

MadtInv ==
  /\ offset \in Nat
  /\ IF walk = "off" THEN touched = {} ELSE TableReadable(table)
  /\ PopulateInside

\* The length of an entry inside of the table is one of its bytes.
LEMMA EntryRead ==
  ASSUME NEW t, TableReadable(t), NEW o \in Nat, o < t.size
  PROVE  LenAt(t, o) \in Nat /\ NextOffset(t, o) \in Nat
<1>1. o + 2 \in 1 .. Len(t.bytes) /\ t.bytes \in Seq(Nat)
  BY DEF TableReadable
<1>2. t.bytes[o + 2] \in Nat
  BY <1>1
<1> QED BY <1>2 DEF LenAt, NextOffset

\* Each walk of the MADT keeps to entries, and the third reads inside of the
\* table.
LEMMA MadtStep ==
  ASSUME MadtInv, MadtNext
  PROVE  MadtInv'
<1>1. TableReadable(table) /\ table.size \in Nat /\ offset \in Nat
  BY DEF MadtInv, MadtNext, madt_init_entry, madt_init_end, find_smp_cores_entry,
         find_smp_cores_end, populate_entry, populate_end, smp_build_mp_info, TableReadable
<1>2. offset < table.size => LenAt(table, offset) \in Nat /\ NextOffset(table, offset) \in Nat
  BY <1>1, EntryRead
<1>3. CASE madt_init_entry
  BY <1>1, <1>2, <1>3 DEF madt_init_entry, Goes, MadtInv, PopulateInside
<1>4. CASE madt_init_end
  BY <1>1, <1>4 DEF madt_init_end, Then, MadtInv, PopulateInside
<1>5. CASE find_smp_cores_entry
  BY <1>1, <1>2, <1>5 DEF find_smp_cores_entry, Goes, MadtInv, PopulateInside
<1>6. CASE find_smp_cores_end
  BY <1>1, <1>6 DEF find_smp_cores_end, Then, MadtInv, PopulateInside
<1>7. CASE populate_entry
  <2> USE <1>7 DEF populate_entry
  <2>1. offset < table.size /\ table' = table /\ walk' = walk
    BY <1>1 DEF Goes
  <2>2. LenAt(table, offset) \in Nat /\ offset' \in Nat
    BY <1>2, <2>1 DEF Goes
  <2>3. \A o \in touched' : o < table.size
    <3> SUFFICES ASSUME NEW o \in touched'  PROVE o < table.size
      OBVIOUS
    <3>1. CASE o \in touched
      BY <3>1 DEF MadtInv, PopulateInside
    <3>2. CASE o \in {offset, offset + 1}
      BY <3>2, <1>1
    <3>3. CASE IsProcessor(table, offset) /\ o \in offset + 2 .. offset + LAPIC_LEN - 1
      BY <3>3, <1>1, <2>2, MadtAssumption DEF IsProcessor, EntryInside
    <3> QED BY <3>1, <3>2, <3>3
  <2> QED BY <1>1, <2>1, <2>2, <2>3 DEF MadtInv, PopulateInside
<1>8. CASE populate_end
  BY <1>1, <1>8 DEF populate_end, Then, MadtInv, PopulateInside
<1>9. CASE smp_build_mp_info
  BY <1>1, <1>9 DEF smp_build_mp_info, Then, MadtInv, PopulateInside
<1> QED BY <1>3, <1>4, <1>5, <1>6, <1>7, <1>8, <1>9 DEF MadtNext

\* The walks begin at the first entry of the table found.
LEMMA MadtStart ==
  ASSUME NEW t, TableReadable(t), MadtInv, MadtFound(t)
  PROVE  MadtInv'
  BY DEF MadtInv, MadtFound, Then, PopulateInside

\* No walk has begun.
LEMMA MadtFirst == MadtInit => MadtInv
  BY DEF MadtInit, MadtInv, PopulateInside

----------------------------------------------------------------------------
(* What the walks of the MADT are to find *)

\* The checked walk goes on from an entry that is inside the table.
Inside(t, o) == o + 2 <= t.size /\ o + LenAt(t, o) \in o + 2 .. t.size

Enabled(t, o) == TypeAt(t, o) = LAPIC /\ LenAt(t, o) >= LAPIC_LEN /\ t.bytes[o + 5] % 2 = 1

\* The number of processors' entries an unchecked walk comes to from an offset on.
LapicsFrom(t) ==
  LET from[o \in Nat] == IF o < t.size /\ LenAt(t, o) # 0
                         THEN (IF TypeAt(t, o) = LAPIC THEN 1 ELSE 0) + from[NextOffset(t, o)]
                         ELSE 0
  IN  from

\* A walk over entries that have a length goes forward.
LEMMA EntriesForward ==
  ASSUME NEW t, TableReadable(t), NEW C, C \subseteq {o \in Nat : o < t.size /\ LenAt(t, o) # 0}
  PROVE  /\ Forward(t.size, C, [o \in C |-> NextOffset(t, o)])
         /\ \A o \in C : NextOffset(t, o) \in Nat
<1>1. t.size \in Nat
  BY DEF TableReadable
<1>2. \A o \in C : o \in 0 .. t.size /\ NextOffset(t, o) \in Nat /\ o < NextOffset(t, o)
  <2> SUFFICES ASSUME NEW o \in C
               PROVE  o \in 0 .. t.size /\ NextOffset(t, o) \in Nat /\ o < NextOffset(t, o)
    OBVIOUS
  <2>1. o \in Nat /\ o < t.size /\ LenAt(t, o) # 0
    OBVIOUS
  <2>2. LenAt(t, o) \in Nat
    BY <2>1, EntryRead
  <2> QED BY <1>1, <2>1, <2>2 DEF NextOffset
<1> QED BY <1>1, <1>2 DEF Forward

\* The processors from an offset on are the one there, if it is enabled, and
\* those from the next entry on.
LEMMA ProcessorsListed ==
  ASSUME NEW t, TableReadable(t)
  PROVE  /\ \A o \in Nat : EnabledFrom(t)[o] \in Seq(Nat)
         /\ \A o \in Nat : EnabledFrom(t)[o] =
              IF Inside(t, o)
              THEN (IF Enabled(t, o) THEN <<o>> ELSE <<>>) \o EnabledFrom(t)[NextOffset(t, o)]
              ELSE <<>>
<1> DEFINE C == {o \in Nat : Inside(t, o)}
           Goto == [o \in C |-> NextOffset(t, o)]
           Own(o) == IF Enabled(t, o) THEN <<o>> ELSE <<>>
           X == Seq(Nat)
           Step == [o \in C |-> [x \in X |-> Own(o) \o x]]
           Is(g) == g = [o \in Nat |-> IF Inside(t, o) THEN Own(o) \o g[NextOffset(t, o)] ELSE <<>>]
           from == CHOOSE g : Is(g)
           joined(x, y) == x \o y
<1>1. C \subseteq {o \in Nat : o < t.size /\ LenAt(t, o) # 0}
  <2> SUFFICES ASSUME NEW o \in Nat, Inside(t, o)  PROVE o < t.size /\ LenAt(t, o) # 0
    OBVIOUS
  <2>1. t.size \in Nat /\ o < t.size
    BY DEF Inside, TableReadable
  <2>2. LenAt(t, o) \in Nat
    BY <2>1, EntryRead
  <2> QED BY <2>1, <2>2 DEF Inside
<1>2. /\ Forward(t.size, C, Goto)
      /\ \A o \in C : Goto[o] = NextOffset(t, o) /\ NextOffset(t, o) \in Nat
  <2> HIDE DEF C
  <2>1. Forward(t.size, C, [o \in C |-> NextOffset(t, o)]) /\ \A o \in C : NextOffset(t, o) \in Nat
    BY <1>1, EntriesForward, Zenon
  <2> QED BY <2>1
<1>3. <<>> \in X /\ \A o \in Nat : Own(o) \in X
  OBVIOUS
<1>4. \A x, y \in X : joined(x, y) \in X
  OBVIOUS
<1>5. Step \in [C -> [X -> X]] /\ \A o \in C : \A x \in X : Step[o][x] = joined(Own(o), x)
  BY <1>3, <1>4
<1> HIDE DEF Own, Step, X, Goto
<1>6. PICK g \in [Nat -> X] : Gathers(g, C, Goto, <<>>, Step)
  BY <1>2, <1>3, <1>5, WalkExists, Zenon
<1>7. Is(g)
  <2>1. ASSUME NEW o \in Nat
        PROVE  g[o] = IF Inside(t, o) THEN Own(o) \o g[NextOffset(t, o)] ELSE <<>>
    <3>1. CASE Inside(t, o)
      <4>1. o \in C /\ Goto[o] = NextOffset(t, o) /\ g[Goto[o]] \in X
        BY <1>2, <1>6, <3>1
      <4>2. g[o] = Step[o][g[Goto[o]]]
        BY <1>6, <4>1 DEF Gathers
      <4>3. Step[o][g[Goto[o]]] = Own(o) \o g[Goto[o]]
        BY <1>5, <4>1, Zenon
      <4> QED BY <3>1, <4>1, <4>2, <4>3, Zenon
    <3>2. CASE ~Inside(t, o)
      BY <1>6, <3>2 DEF Gathers
    <3> QED BY <3>1, <3>2
  <2> QED BY <2>1
<1>8. Is(from)
  BY <1>7, Zenon
<1>9. from = EnabledFrom(t)
  BY DEF EnabledFrom, Own, Enabled, Inside, NextOffset
<1> HIDE DEF from
<1>10. \A o \in Nat : from[o] = IF Inside(t, o) THEN Own(o) \o from[NextOffset(t, o)] ELSE <<>>
  BY <1>8, Zenon
<1>11. \A o \in C : from[o] = joined(Own(o), from[Goto[o]]) /\ Own(o) \in X
  BY <1>2, <1>3, <1>10, Zenon
<1>12. \A o \in Nat \ C : from[o] \in X
  BY <1>3, <1>10
<1>13. \A o \in Nat : from[o] \in X
  <2> HIDE DEF C, joined
  <2>1. \A o \in C : from[Goto[o]] \in X => from[o] \in X
    BY <1>4, <1>11
  <2> QED BY <1>2, <1>12, <2>1, WalkTyped
<1> QED BY <1>9, <1>10, <1>13 DEF Own, X

\* So are the entries counted.
LEMMA LapicsCounted ==
  ASSUME NEW t, TableReadable(t)
  PROVE  /\ \A o \in Nat : LapicsFrom(t)[o] \in Nat
         /\ \A o \in Nat : LapicsFrom(t)[o] =
              IF o < t.size /\ LenAt(t, o) # 0
              THEN (IF TypeAt(t, o) = LAPIC THEN 1 ELSE 0) + LapicsFrom(t)[NextOffset(t, o)]
              ELSE 0
<1> DEFINE There(o) == o < t.size /\ LenAt(t, o) # 0
           C == {o \in Nat : There(o)}
           Goto == [o \in C |-> NextOffset(t, o)]
           Own(o) == IF TypeAt(t, o) = LAPIC THEN 1 ELSE 0
           Step == [o \in C |-> [x \in Nat |-> Own(o) + x]]
           Is(g) == g = [o \in Nat |-> IF There(o) THEN Own(o) + g[NextOffset(t, o)] ELSE 0]
           from == CHOOSE g : Is(g)
<1>1. /\ Forward(t.size, C, Goto)
      /\ \A o \in C : Goto[o] = NextOffset(t, o) /\ NextOffset(t, o) \in Nat
  <2>1. C \subseteq {o \in Nat : o < t.size /\ LenAt(t, o) # 0}
    OBVIOUS
  <2> HIDE DEF C
  <2>2. Forward(t.size, C, [o \in C |-> NextOffset(t, o)]) /\ \A o \in C : NextOffset(t, o) \in Nat
    BY <2>1, EntriesForward, Zenon
  <2> QED BY <2>2
<1>2. \A o \in Nat : Own(o) \in Nat
  OBVIOUS
<1>3. Step \in [C -> [Nat -> Nat]] /\ \A o \in C : \A x \in Nat : Step[o][x] = Own(o) + x
  BY <1>2
<1> HIDE DEF Own, Step, Goto, There
<1>4. PICK g \in [Nat -> Nat] : Gathers(g, C, Goto, 0, Step)
  BY <1>1, <1>3, WalkExists, Zenon
<1>5. Is(g)
  <2>1. ASSUME NEW o \in Nat
        PROVE  g[o] = IF There(o) THEN Own(o) + g[NextOffset(t, o)] ELSE 0
    <3>1. CASE There(o)
      <4>1. o \in C /\ Goto[o] = NextOffset(t, o) /\ g[Goto[o]] \in Nat
        BY <1>1, <1>4, <3>1
      <4>2. g[o] = Step[o][g[Goto[o]]]
        BY <1>4, <4>1 DEF Gathers
      <4>3. Step[o][g[Goto[o]]] = Own(o) + g[Goto[o]]
        BY <1>3, <4>1
      <4> QED BY <3>1, <4>1, <4>2, <4>3
    <3>2. CASE ~There(o)
      BY <1>4, <3>2 DEF Gathers
    <3> QED BY <3>1, <3>2
  <2> QED BY <2>1
<1>6. Is(from)
  BY <1>5
<1>7. from = LapicsFrom(t)
  BY DEF LapicsFrom, Own, There
<1> HIDE DEF from
<1>8. \A o \in Nat : from[o] = IF There(o) THEN Own(o) + from[NextOffset(t, o)] ELSE 0
  BY <1>6
<1>9. \A o \in Nat : from[o] \in Nat
  <2> DEFINE X == Nat
  <2>1. \A o \in C : from[Goto[o]] \in X => from[o] \in X
    BY <1>1, <1>2, <1>8
  <2>2. \A o \in Nat \ C : from[o] \in X
    BY <1>8
  <2> HIDE DEF C, X
  <2>3. \A o \in Nat : from[o] \in X
    BY <1>1, <2>1, <2>2, WalkTyped
  <2> QED BY <2>3 DEF X
<1> QED BY <1>7, <1>8, <1>9 DEF Own, There

\* The slots filled from the entries at some offsets, and the boot processor's marked.
Slots(s) == [k \in DOMAIN s |-> Processor(table, s[k])]
SlotsMarked(s) == [k \in DOMAIN s |-> [Processor(table, s[k]) EXCEPT
                                    !.is_bsp = Processor(table, s[k]).apic_id = BspId]]

\* The entries of the processors there is room for.
Kept == UpTo(EnabledFrom(table)[0], MAX_CPUS)

\* What a walk that has come to the offset has registered and counted, and what
\* it has yet to come to, is together what is in the table.
ProcsInv ==
  /\ walk \in {"off", "madt_init", "find_smp_cores", "populate", "smp_build_mp_info", "done"}
  /\ cores \in Nat
  /\ walk \in {"off", "madt_init", "find_smp_cores"} => smp_cpus = <<>>
  /\ walk = "find_smp_cores" => cores + LapicsFrom(table)[offset] >= LapicsFrom(table)[0]
  /\ walk \in {"populate", "smp_build_mp_info", "done"} => cores >= LapicsFrom(table)[0]
  /\ walk = "populate" =>
       \E s \in Seq(Nat) :
         /\ Len(s) <= MAX_CPUS /\ smp_cpus = Slots(s)
         /\ UpTo(s \o EnabledFrom(table)[offset], MAX_CPUS) = Kept
         /\ Len(s) + LapicsFrom(table)[offset] <= LapicsFrom(table)[0]
  /\ walk \in {"smp_build_mp_info", "done"} =>
       smp_cpus = SlotsMarked(Kept) /\ Kept \in Seq(Nat) /\ Len(Kept) <= LapicsFrom(table)[0]
  /\ walk = "done" =>
       \A k \in DOMAIN mp_info : mp_info[k].lapic_id # BspId <=> mp_info[k].goto = "smp_cpu_entry"

\* The checked walk goes on where populate_entry does, and never past an entry
\* that the unchecked walks do not count.
LEMMA InsideThere ==
  ASSUME NEW t, TableReadable(t), NEW o \in Nat
  PROVE  /\ Inside(t, o) <=> o + 2 <= t.size /\ EntryInside(t, o)
         /\ Inside(t, o) => o < t.size /\ LenAt(t, o) # 0
         /\ Enabled(t, o) <=> IsProcessor(t, o) /\ CpuEnabled(t, o)
<1>1. t.size \in Nat
  BY DEF TableReadable
<1>2. o + 2 <= t.size => o < t.size /\ LenAt(t, o) \in Nat
  BY <1>1, EntryRead
<1>3. Inside(t, o) => o < t.size /\ LenAt(t, o) # 0
  BY <1>1, <1>2 DEF Inside
<1>4. Inside(t, o) <=> o + 2 <= t.size /\ EntryInside(t, o)
  BY <1>1, <1>2 DEF Inside, EntryInside
<1>5. Enabled(t, o) <=> IsProcessor(t, o) /\ CpuEnabled(t, o)
  BY DEF Enabled, IsProcessor, CpuEnabled
<1> QED BY <1>3, <1>4, <1>5

\* Registering one more processor.
LEMMA SlotsMore ==
  ASSUME NEW s \in Seq(Nat), NEW o \in Nat
  PROVE  /\ Len(Slots(s)) = Len(s)
         /\ Append(Slots(s), Processor(table, o)) = Slots(Append(s, o))
<1> DEFINE R(x) == Processor(table, x)
           X == {R(x) : x \in Nat}
           f == [k \in DOMAIN s |-> R(s[k])]
           g == [k \in DOMAIN Append(s, o) |-> R(Append(s, o)[k])]
<1>1. \A x \in Nat : R(x) \in X
  OBVIOUS
<1> HIDE DEF R, X
<1>2. /\ Len(s) \in Nat /\ DOMAIN s = 1 .. Len(s) /\ \A k \in 1 .. Len(s) : s[k] \in Nat
      /\ DOMAIN Append(s, o) = 1 .. Len(s) + 1
      /\ \A k \in 1 .. Len(s) + 1 : Append(s, o)[k] = IF k = Len(s) + 1 THEN o ELSE s[k]
  OBVIOUS
<1>3. f \in [1 .. Len(s) -> X] /\ g \in [1 .. Len(s) + 1 -> X]
  BY <1>1, <1>2
<1>4. f \in Seq(X) /\ g \in Seq(X)
  BY <1>2, <1>3, SeqDef
<1>5. Len(f) = Len(s) /\ Len(g) = Len(s) + 1
  BY <1>2, <1>3, <1>4, LenProperties
<1>6. \A k \in 1 .. Len(s) : f[k] = R(s[k])
  BY <1>2
<1>7. \A k \in 1 .. Len(s) + 1 : g[k] = R(Append(s, o)[k])
  BY <1>2
<1> HIDE DEF f, g
<1>8. /\ Append(f, R(o)) \in Seq(X) /\ Len(Append(f, R(o))) = Len(s) + 1
      /\ \A k \in 1 .. Len(s) + 1 : Append(f, R(o))[k] = IF k = Len(s) + 1 THEN R(o) ELSE f[k]
  BY <1>1, <1>2, <1>4, <1>5
<1>9. \A k \in 1 .. Len(s) + 1 : Append(f, R(o))[k] = g[k]
  BY <1>2, <1>6, <1>7, <1>8
<1>10. Append(f, R(o)) = g
  BY <1>2, <1>4, <1>5, <1>8, <1>9, SeqEqual, Zenon
<1> QED BY <1>5, <1>10 DEF f, g, R, Slots

\* An entry that the checked walk goes on from keeps what is registered and left
\* together.
LEMMA EntryRegistered ==
  ASSUME MadtInv, ProcsInv, populate_entry
  PROVE  ProcsInv'
<1>1. /\ walk = "populate" /\ walk' = "populate" /\ table' = table /\ cores' = cores
      /\ offset' = NextOffset(table, offset) /\ TableReadable(table) /\ offset \in Nat
      /\ offset + 2 <= table.size /\ EntryInside(table, offset)
  BY DEF populate_entry, Goes, MadtInv
<1>2. Inside(table, offset) /\ offset < table.size /\ LenAt(table, offset) # 0
  BY <1>1, InsideThere
<1>3. NextOffset(table, offset) \in Nat
  BY <1>1, <1>2, EntryRead
<1> DEFINE o == offset
           m == MAX_CPUS
           x == EnabledFrom(table)[NextOffset(table, o)]
           n == LapicsFrom(table)[NextOffset(table, o)]
           all == LapicsFrom(table)[0]
           here == Enabled(table, o)
<1>4. PICK s \in Seq(Nat) :
         /\ Len(s) <= m /\ smp_cpus = Slots(s)
         /\ UpTo(s \o EnabledFrom(table)[o], m) = Kept
         /\ Len(s) + LapicsFrom(table)[o] <= all
  BY <1>1 DEF ProcsInv
<1>5. /\ x \in Seq(Nat) /\ EnabledFrom(table)[o] = (IF here THEN <<o>> ELSE <<>>) \o x
  BY <1>1, <1>2, <1>3, ProcessorsListed, Zenon
<1>6. n \in Nat /\ all \in Nat /\ LapicsFrom(table)[o] = (IF TypeAt(table, o) = LAPIC THEN 1 ELSE 0) + n
  BY <1>1, <1>2, <1>3, LapicsCounted
<1>7. smp_cpus' = IF here /\ Len(s) < m THEN Append(smp_cpus, Processor(table, o)) ELSE smp_cpus
  BY <1>1, <1>4, InsideThere, SlotsMore DEF populate_entry
<1>8. here => TypeAt(table, o) = LAPIC
  BY DEF Enabled
<1>9. o \in Nat /\ m \in Nat /\ Len(s) \in Nat
  BY <1>1, MadtAssumption
<1>10. Slots(s)' = Slots(s) /\ Slots(Append(s, o)) = Append(Slots(s), Processor(table, o))
  BY <1>1, SlotsMore DEF Slots
<1> HIDE DEF o, m, x, n, all, here
<1>11. \E v \in Seq(Nat) :
         /\ Len(v) <= m /\ smp_cpus' = Slots(v)
         /\ UpTo(v \o x, m) = Kept
         /\ Len(v) + n <= all
  <2>1. CASE here /\ Len(s) < m
    <3>1. Append(s, o) \in Seq(Nat) /\ Len(Append(s, o)) = Len(s) + 1
      BY <1>9
    <3>2. Append(s, o) \o x = s \o (<<o>> \o x)
      BY <1>5, <1>9, <2>1, <1>4, UpToTold
    <3>3. Len(s) + 1 + n <= all /\ Len(s) + 1 <= m
      BY <1>4, <1>6, <1>8, <1>9, <2>1
    <3>4. smp_cpus' = Slots(Append(s, o))
      BY <1>4, <1>7, <1>10, <2>1
    <3> QED BY <1>4, <1>5, <2>1, <3>1, <3>2, <3>3, <3>4, Zenon
  <2>2. CASE here /\ ~(Len(s) < m)
    <3>1. UpTo(s \o (<<o>> \o x), m) = UpTo(s \o x, m)
      BY <1>4, <1>5, <1>9, <2>2, UpToTold
    <3>2. Len(s) + n <= all
      BY <1>4, <1>6, <1>9
    <3> QED BY <1>4, <1>5, <1>7, <2>2, <3>1, <3>2
  <2>3. CASE ~here
    <3>1. <<>> \o x = x
      BY <1>5
    <3>2. Len(s) + n <= all
      BY <1>4, <1>6, <1>9
    <3> QED BY <1>4, <1>5, <1>7, <2>3, <3>1, <3>2
  <2> QED BY <2>1, <2>2, <2>3
<1>12. PICK v \in Seq(Nat) :
         /\ Len(v) <= m /\ smp_cpus' = Slots(v)
         /\ UpTo(v \o x, m) = Kept
         /\ Len(v) + n <= all
  BY <1>11
<1>13. Slots(v)' = Slots(v) /\ Kept' = Kept
  BY <1>1 DEF Slots, Kept
<1> QED BY <1>1, <1>12, <1>13 DEF ProcsInv, m, x, n, all, o

\* The walk ends where no entry is inside the table; what it has registered is
\* all there is room for.
LEMMA AllRegistered ==
  ASSUME MadtInv, ProcsInv, populate_end
  PROVE  ProcsInv'
<1>1. /\ walk = "populate" /\ walk' = "smp_build_mp_info" /\ table' = table /\ cores' = cores
      /\ TableReadable(table) /\ offset \in Nat
      /\ ~(offset + 2 <= table.size /\ EntryInside(table, offset))
  BY DEF populate_end, Then, MadtInv
<1>2. EnabledFrom(table)[offset] = <<>>
  BY <1>1, InsideThere, ProcessorsListed, Zenon
<1>3. LapicsFrom(table)[offset] \in Nat /\ LapicsFrom(table)[0] \in Nat
  BY <1>1, LapicsCounted
<1>4. PICK s \in Seq(Nat) :
         /\ Len(s) <= MAX_CPUS /\ smp_cpus = Slots(s)
         /\ UpTo(s \o EnabledFrom(table)[offset], MAX_CPUS) = Kept
         /\ Len(s) + LapicsFrom(table)[offset] <= LapicsFrom(table)[0]
  BY <1>1 DEF ProcsInv
<1>5. Kept = s
  <2>1. MAX_CPUS \in Nat /\ 0 \in Nat /\ <<>> \in Seq(Nat)
    BY MadtAssumption
  <2> QED BY <1>2, <1>4, <2>1, UpToTold, Zenon
<1>6. Len(s) <= LapicsFrom(table)[0]
  <2> DEFINE a == LapicsFrom(table)[0]
             b == LapicsFrom(table)[offset]
             l == Len(s)
  <2>1. a \in Nat /\ b \in Nat /\ l \in Nat /\ l + b <= a
    BY <1>3, <1>4
  <2> HIDE DEF a, b, l
  <2> QED BY <2>1 DEF a, l
<1>7. smp_cpus' = SlotsMarked(s)
  <2>1. smp_cpus' = [k \in DOMAIN smp_cpus |->
                       [smp_cpus[k] EXCEPT !.is_bsp = smp_cpus[k].apic_id = BspId]]
    BY DEF populate_end
  <2>2. DOMAIN smp_cpus = DOMAIN s /\ \A k \in DOMAIN s : smp_cpus[k] = Processor(table, s[k])
    BY <1>4 DEF Slots
  <2> QED BY <2>1, <2>2, Zenon DEF SlotsMarked
<1>8. SlotsMarked(s)' = SlotsMarked(s) /\ Kept' = Kept
  BY <1>1 DEF SlotsMarked, Kept
<1>9. cores' \in Nat /\ cores' >= LapicsFrom(table)[0]
  BY <1>1 DEF ProcsInv
<1>10. smp_cpus' = SlotsMarked(Kept)' /\ Kept' \in Seq(Nat) /\ Len(Kept)' <= LapicsFrom(table)[0]
  BY <1>1, <1>5, <1>6, <1>7, <1>8 DEF SlotsMarked
<1> QED BY <1>1, <1>9, <1>10 DEF ProcsInv

\* Every step of the walks keeps what they have found true.
LEMMA ProcsStep ==
  ASSUME MadtInv, ProcsInv, MadtNext
  PROVE  ProcsInv'
<1>1. CASE madt_init_entry
  BY <1>1 DEF madt_init_entry, Goes, ProcsInv
<1>2. CASE madt_init_end
  <2>1. table' = table /\ TableReadable(table) /\ walk = "madt_init" /\ offset' = 0
    BY <1>2 DEF madt_init_end, Then, MadtInv
  <2>2. cores \in Nat /\ LapicsFrom(table)[0] \in Nat
    BY <2>1, LapicsCounted DEF ProcsInv
  <2>3. cores + LapicsFrom(table)[0] >= LapicsFrom(table)[0]
    <3> DEFINE a == LapicsFrom(table)[0]
    <3>1. a \in Nat
      BY <2>2
    <3> HIDE DEF a
    <3>2. cores + a >= a
      BY <2>2, <3>1
    <3> QED BY <3>2 DEF a
  <2> QED BY <1>2, <2>1, <2>3 DEF madt_init_end, Then, ProcsInv
<1>3. CASE find_smp_cores_entry
  <2>1. /\ table' = table /\ TableReadable(table) /\ walk = "find_smp_cores" /\ walk' = walk
        /\ offset \in Nat /\ offset < table.size /\ offset' = NextOffset(table, offset)
        /\ cores' = IF TypeAt(table, offset) = LAPIC THEN cores + 1 ELSE cores
        /\ smp_cpus' = smp_cpus
    BY <1>3 DEF find_smp_cores_entry, Goes, MadtInv, Entry
  <2> DEFINE a == LapicsFrom(table)[0]
             b == LapicsFrom(table)[offset]
             c == LapicsFrom(table)[NextOffset(table, offset)]
             one == IF TypeAt(table, offset) = LAPIC THEN 1 ELSE 0
             goes == LenAt(table, offset) # 0
  <2>2. NextOffset(table, offset) \in Nat /\ LenAt(table, offset) \in Nat
    BY <2>1, EntryRead
  <2>3. a \in Nat /\ b \in Nat /\ c \in Nat /\ b = IF goes THEN one + c ELSE 0
    BY <2>1, <2>2, LapicsCounted
  <2>4. ~goes => c = b
    <3> SUFFICES ASSUME ~goes  PROVE c = b
      OBVIOUS
    <3>1. NextOffset(table, offset) = offset
      BY <2>1 DEF NextOffset
    <3> QED BY <3>1
  <2>5. cores' = cores + one /\ one \in {0, 1} /\ cores \in Nat /\ cores + b >= a
    BY <2>1 DEF ProcsInv
  <2>6. cores' \in Nat /\ cores' + c >= a
    <3> HIDE DEF a, b, c, one, goes
    <3> QED BY <2>3, <2>4, <2>5
  <2> QED BY <2>1, <2>6 DEF ProcsInv
<1>4. CASE find_smp_cores_end
  <2>1. /\ table' = table /\ TableReadable(table) /\ walk = "find_smp_cores" /\ walk' = "populate"
        /\ offset \in Nat /\ ~(offset < table.size) /\ offset' = 0
        /\ cores' = cores /\ smp_cpus' = <<>>
    <3>1. offset \in Nat /\ TableReadable(table) /\ smp_cpus = <<>>
      BY <1>4 DEF find_smp_cores_end, MadtInv, ProcsInv
    <3>2. table.size \in Nat
      BY <3>1 DEF TableReadable
    <3> QED BY <1>4, <3>1, <3>2 DEF find_smp_cores_end, Then
  <2> DEFINE a == LapicsFrom(table)[0]
  <2>2. LapicsFrom(table)[offset] = 0 /\ a \in Nat
    BY <2>1, LapicsCounted
  <2>3. cores \in Nat /\ cores + LapicsFrom(table)[offset] >= a
    BY <2>1 DEF ProcsInv
  <2>4. cores >= a
    <3> HIDE DEF a
    <3> QED BY <2>2, <2>3
  <2> DEFINE x == EnabledFrom(table)[0]
  <2>5. x \in Seq(Nat)
    BY <2>1, ProcessorsListed
  <2>6. \E s \in Seq(Nat) :
          /\ Len(s) <= MAX_CPUS /\ smp_cpus' = Slots(s)
          /\ UpTo(s \o x, MAX_CPUS) = Kept
          /\ Len(s) + a <= a
    <3>1. <<>> \in Seq(Nat) /\ Len(<<>>) = 0 /\ 0 <= MAX_CPUS
      BY MadtAssumption
    <3>2. <<>> \o x = x
      <4> HIDE DEF x
      <4> QED BY <2>5
    <3>3. 0 + a <= a
      <4> HIDE DEF a
      <4> QED BY <2>2
    <3>4. Slots(<<>>) = <<>>
      BY DEF Slots
    <3>5. UpTo(<<>> \o x, MAX_CPUS) = Kept
      BY <3>2 DEF Kept
    <3> HIDE DEF a, x
    <3> QED BY <2>1, <3>1, <3>3, <3>4, <3>5, Zenon
  <2>7. PICK s \in Seq(Nat) :
          /\ Len(s) <= MAX_CPUS /\ smp_cpus' = Slots(s)
          /\ UpTo(s \o x, MAX_CPUS) = Kept
          /\ Len(s) + a <= a
    BY <2>6
  <2>8. Slots(s)' = Slots(s) /\ Kept' = Kept
    BY <2>1 DEF Slots, Kept
  <2> QED BY <2>1, <2>3, <2>4, <2>7, <2>8 DEF ProcsInv
<1>5. CASE populate_entry
  BY <1>5, EntryRegistered
<1>6. CASE populate_end
  BY <1>6, AllRegistered
<1>7. CASE smp_build_mp_info
  <2>1. /\ table' = table /\ walk = "smp_build_mp_info" /\ walk' = "done" /\ cores' = cores
        /\ smp_cpus' = smp_cpus
        /\ mp_info' = [k \in DOMAIN smp_cpus |->
             [lapic_id |-> smp_cpus[k].apic_id,
              goto |-> IF smp_cpus[k].is_bsp THEN "none" ELSE "smp_cpu_entry"]]
    BY <1>7 DEF smp_build_mp_info, Then
  <2>2. smp_cpus = SlotsMarked(Kept) /\ SlotsMarked(Kept)' = SlotsMarked(Kept) /\ Kept' = Kept
    BY <2>1 DEF ProcsInv, SlotsMarked, Kept
  <2>3. \A k \in DOMAIN smp_cpus : smp_cpus[k].is_bsp = (smp_cpus[k].apic_id = BspId)
    BY <2>2 DEF SlotsMarked, Processor
  <2>4. \A k \in DOMAIN mp_info' : mp_info'[k].lapic_id # BspId <=> mp_info'[k].goto = "smp_cpu_entry"
    BY <2>1, <2>3, Zenon
  <2> QED BY <2>1, <2>2, <2>4 DEF ProcsInv
<1> QED BY <1>1, <1>2, <1>3, <1>4, <1>5, <1>6, <1>7 DEF MadtNext

\* The walks begin with nothing registered.
LEMMA ProcsStart ==
  ASSUME NEW t, ProcsInv, MadtFound(t)
  PROVE  ProcsInv'
  BY DEF ProcsInv, MadtFound, Then

\* Nothing is registered before.
LEMMA ProcsFirst == MadtInit => ProcsInv
  BY DEF MadtInit, ProcsInv

\* What holds when the walks are over.
LEMMA ProcsKnown == MadtInv /\ ProcsInv => ProcessorsTrue
<1> SUFFICES ASSUME MadtInv, ProcsInv, walk = "done"  PROVE ProcessorsTrue
  BY Zenon DEF ProcessorsTrue
<1>1. /\ smp_cpus = SlotsMarked(Kept) /\ Kept \in Seq(Nat) /\ Len(Kept) <= LapicsFrom(table)[0]
      /\ cores \in Nat /\ cores >= LapicsFrom(table)[0]
  BY DEF ProcsInv
<1>2. DOMAIN smp_cpus = DOMAIN Kept
  BY <1>1 DEF SlotsMarked
<1>3. [k \in DOMAIN smp_cpus |-> <<smp_cpus[k].processor_id, smp_cpus[k].apic_id>>]
        = [k \in DOMAIN Kept |-> <<table.bytes[Kept[k] + 3], table.bytes[Kept[k] + 4]>>]
  <2>1. \A k \in DOMAIN Kept : /\ smp_cpus[k].processor_id = table.bytes[Kept[k] + 3]
                               /\ smp_cpus[k].apic_id = table.bytes[Kept[k] + 4]
    BY <1>1, Zenon DEF SlotsMarked, Processor
  <2> QED BY <1>2, <2>1
<1>4. Len(smp_cpus) <= cores
  <2> DEFINE X == {smp_cpus[k] : k \in DOMAIN Kept}
             a == LapicsFrom(table)[0]
  <2>1. DOMAIN Kept = 1 .. Len(Kept) /\ Len(Kept) \in Nat
    BY <1>1
  <2>2. smp_cpus \in [1 .. Len(Kept) -> X]
    BY <1>1, <1>2, <2>1, Zenon DEF SlotsMarked
  <2>3. smp_cpus \in Seq(X)
    <3> HIDE DEF X
    <3> QED BY <2>1, <2>2, SeqDef
  <2>4. Len(smp_cpus) \in Nat /\ DOMAIN smp_cpus = 1 .. Len(smp_cpus)
    <3> HIDE DEF X
    <3> QED BY <2>3, LenProperties
  <2>5. Len(smp_cpus) = Len(Kept)
    BY <1>2, <2>1, <2>4
  <2>6. a \in Nat
    BY LapicsCounted DEF MadtInv
  <2>7. Len(Kept) <= a /\ cores >= a
    BY <1>1
  <2> HIDE DEF a
  <2> QED BY <1>1, <2>1, <2>5, <2>6, <2>7
<1> QED BY <1>3, <1>4, Zenon DEF ProcessorsTrue, ProcsInv, Kept, UpTo

----------------------------------------------------------------------------
(* The scan of the buses *)

CallRecord == [bus : Nat, dev : Nat, fn : Nat]

\* The function lies before what a call has come to.
Before(f, c) == f[2] < c.dev \/ (f[2] = c.dev /\ f[3] < c.fn)

\* Every call on the function's bus has left it behind.
Passed(f) == \A i \in DOMAIN calls : calls[i].bus = f[1] => Before(f, calls[i])

\* A call that is past function 0 of a device saw it, and that it has more.
SawFirst(c) ==
  c.fn > 0 => <<c.bus, c.dev, 0>> \in DOMAIN machine /\ machine[<<c.bus, c.dev, 0>>].multi

CallsTrue ==
  /\ calls \in Seq(CallRecord)
  /\ \A i, j \in DOMAIN calls : calls[i].bus = calls[j].bus => i = j
  /\ \A i \in DOMAIN calls : calls[i].bus \in scanned_buses /\ SawFirst(calls[i])

BusesTrue ==
  /\ 0 \in scanned_buses
  /\ scanned_buses \subseteq Reached

TableTrue ==
  /\ devices \in Seq(DOMAIN machine) /\ Len(devices) <= PCI_MAX_DEVICES
  /\ IsInjective(devices)
  /\ \A f \in Range(devices) : f[1] \in scanned_buses /\ f \in OnBus(f[1]) /\ Passed(f)

TableComplete ==
  ~Full => \A b \in scanned_buses : \A f \in OnBus(b) :
             Passed(f) => f \in Range(devices) /\ machine[f].sec \in {-1} \cup scanned_buses

ScanInv ==
  PciMachine(machine) /\ CallsTrue /\ BusesTrue /\ TableTrue /\ TableComplete

\* The call on top, and the calls below it.
LEMMA TopCall ==
  ASSUME CallsTrue, calls # <<>>
  PROVE  /\ Len(calls) \in Nat \ {0} /\ DOMAIN calls = 1 .. Len(calls)
         /\ Top = calls[Len(calls)] /\ Top \in CallRecord
         /\ Front(calls) \in Seq(CallRecord) /\ DOMAIN Front(calls) = 1 .. Len(calls) - 1
         /\ Len(Front(calls)) = Len(calls) - 1
         /\ \A i \in 1 .. Len(calls) - 1 : Front(calls)[i] = calls[i]
         /\ Top.bus \in scanned_buses /\ SawFirst(Top)
         /\ \A i \in 1 .. Len(calls) - 1 : calls[i].bus # Top.bus
<1>1. calls \in Seq(CallRecord) /\ Len(calls) \in Nat \ {0} /\ DOMAIN calls = 1 .. Len(calls)
  BY DEF CallsTrue
<1>2. Top = calls[Len(calls)] /\ Top \in CallRecord
  BY <1>1 DEF Top, Last
<1>3. /\ Front(calls) \in Seq(CallRecord) /\ DOMAIN Front(calls) = 1 .. Len(calls) - 1
      /\ Len(Front(calls)) = Len(calls) - 1
      /\ \A i \in 1 .. Len(calls) - 1 : Front(calls)[i] = calls[i]
  BY <1>1 DEF Front
<1>4. /\ Top.bus \in scanned_buses /\ SawFirst(Top)
      /\ \A i \in 1 .. Len(calls) - 1 : calls[i].bus # Top.bus
  BY <1>1, <1>2 DEF CallsTrue
<1> QED BY <1>1, <1>2, <1>3, <1>4

\* A function is the place a call has come to, or lies before or behind it.
LEMMA FunctionTyped ==
  ASSUME PciMachine(machine), NEW f \in DOMAIN machine
  PROVE  /\ f[1] \in Nat /\ f[2] \in 0 .. DEVICES - 1 /\ f[3] \in 0 .. FUNCTIONS - 1
         /\ f = <<f[1], f[2], f[3]>>
         /\ machine[f].multi \in BOOLEAN /\ machine[f].sec \in Nat \cup {-1}
  BY DEF PciMachine

\* The next function is behind the one the call has come to, and none between.
LEMMA NextFunction ==
  ASSUME PciMachine(machine), NEW c \in CallRecord, SawFirst(c),
         <<c.bus, c.dev, 0>> \in DOMAIN machine, c = Top
  PROVE  /\ NextFn(c) \in CallRecord /\ NextFn(c).bus = c.bus /\ SawFirst(NextFn(c))
         /\ \A f \in OnBus(c.bus) :
              Before(f, NextFn(c)) <=> Before(f, c) \/ f = <<c.bus, c.dev, c.fn>>
<1> DEFINE zero == <<c.bus, c.dev, 0>>
<1>1. c.bus \in Nat /\ c.dev \in Nat /\ c.fn \in Nat
  BY DEF CallRecord
<1>2. MaxFunc = IF machine[zero].multi THEN FUNCTIONS ELSE 1
  BY DEF MaxFunc
<1>3. c.fn > 0 => machine[zero].multi
  BY DEF SawFirst
<1>4. FUNCTIONS \in Nat /\ FUNCTIONS > 0
  BY PciAssumption
<1>5. CASE c.fn + 1 < MaxFunc
  <2>1. NextFn(c) = [c EXCEPT !.fn = @ + 1] /\ machine[zero].multi
    BY <1>1, <1>2, <1>5 DEF NextFn
  <2>2. NextFn(c) \in CallRecord /\ NextFn(c).bus = c.bus /\ NextFn(c).dev = c.dev /\ NextFn(c).fn = c.fn + 1
    BY <1>1, <2>1 DEF CallRecord
  <2>3. SawFirst(NextFn(c))
    BY <2>1, <2>2 DEF SawFirst
  <2>4. ASSUME NEW f \in OnBus(c.bus)
        PROVE  Before(f, NextFn(c)) <=> Before(f, c) \/ f = <<c.bus, c.dev, c.fn>>
    <3>1. f \in DOMAIN machine /\ f[1] = c.bus
      BY DEF OnBus
    <3>2. f[2] \in Nat /\ f[3] \in Nat /\ f = <<c.bus, f[2], f[3]>>
      BY <3>1, FunctionTyped
    <3>3. f = <<c.bus, c.dev, c.fn>> <=> f[2] = c.dev /\ f[3] = c.fn
      BY <3>2
    <3>4. Before(f, NextFn(c)) <=> f[2] < c.dev \/ (f[2] = c.dev /\ f[3] < c.fn + 1)
      BY <2>2 DEF Before
    <3>5. Before(f, c) <=> f[2] < c.dev \/ (f[2] = c.dev /\ f[3] < c.fn)
      BY DEF Before
    <3>6. f[3] < c.fn + 1 <=> f[3] < c.fn \/ f[3] = c.fn
      BY <1>1, <3>2
    <3> QED BY <3>3, <3>4, <3>5, <3>6
  <2> QED BY <2>2, <2>3, <2>4
<1>6. CASE ~ (c.fn + 1 < MaxFunc)
  <2>1. NextFn(c) = [c EXCEPT !.dev = @ + 1, !.fn = 0]
    BY <1>6 DEF NextFn
  <2>2. NextFn(c) \in CallRecord /\ NextFn(c).bus = c.bus /\ NextFn(c).dev = c.dev + 1 /\ NextFn(c).fn = 0
    <3>1. c = [bus |-> c.bus, dev |-> c.dev, fn |-> c.fn]
      BY DEF CallRecord
    <3>2. NextFn(c) = [bus |-> c.bus, dev |-> c.dev + 1, fn |-> 0]
      BY <2>1, <3>1, Zenon
    <3> QED BY <1>1, <3>2 DEF CallRecord
  <2>3. SawFirst(NextFn(c))
    BY <2>2 DEF SawFirst
  <2>4. ASSUME NEW f \in OnBus(c.bus)
        PROVE  Before(f, NextFn(c)) <=> Before(f, c) \/ f = <<c.bus, c.dev, c.fn>>
    <3>1. f \in DOMAIN machine /\ f[1] = c.bus
      BY DEF OnBus
    <3>2. f[2] \in Nat /\ f[3] \in 0 .. FUNCTIONS - 1 /\ f = <<c.bus, f[2], f[3]>>
      BY <3>1, FunctionTyped
    <3>3. f = <<c.bus, c.dev, c.fn>> <=> f[2] = c.dev /\ f[3] = c.fn
      BY <3>2
    <3>4. f[2] = c.dev => f[3] <= c.fn
      <4>1. CASE machine[zero].multi
        BY <1>1, <1>2, <1>4, <1>6, <3>2, <4>1
      <4>2. CASE ~machine[zero].multi
        BY <1>1, <1>3, <3>2, <4>2 DEF OnBus
      <4> QED BY <4>1, <4>2
    <3>5. Before(f, NextFn(c)) <=> f[2] < c.dev + 1
      BY <2>2, <3>2 DEF Before
    <3>6. Before(f, c) <=> f[2] < c.dev \/ (f[2] = c.dev /\ f[3] < c.fn)
      BY DEF Before
    <3>7. f[2] < c.dev + 1 <=> f[2] < c.dev \/ f[2] = c.dev
      BY <1>1, <3>2
    <3>8. f[3] <= c.fn <=> f[3] < c.fn \/ f[3] = c.fn
      BY <1>1, <3>2
    <3> QED BY <3>3, <3>4, <3>5, <3>6, <3>7, <3>8
  <2> QED BY <2>2, <2>3, <2>4
<1> QED BY <1>5, <1>6

\* The call on top goes on past what is no function.
LEMMA ScanPasses ==
  ASSUME ScanInv, calls # <<>>, NEW c \in CallRecord, c.bus = Top.bus, SawFirst(c),
         \A f \in OnBus(c.bus) : Before(f, c) <=> Before(f, Top),
         Moved(c), UNCHANGED <<machine, devices, scanned_buses>>
  PROVE  ScanInv'
<1>1. /\ Len(calls) \in Nat \ {0} /\ DOMAIN calls = 1 .. Len(calls) /\ calls \in Seq(CallRecord)
      /\ Top = calls[Len(calls)]
  BY TopCall DEF ScanInv, CallsTrue
<1>2. /\ calls' \in Seq(CallRecord) /\ DOMAIN calls' = DOMAIN calls /\ calls'[Len(calls)] = c
      /\ \A i \in DOMAIN calls : i # Len(calls) => calls'[i] = calls[i]
  BY <1>1 DEF Moved
<1>3. \A i \in DOMAIN calls : calls'[i].bus = calls[i].bus
  BY <1>1, <1>2
<1>4. \A i \in DOMAIN calls : SawFirst(calls'[i])
  BY <1>2 DEF ScanInv, CallsTrue
<1>5. CallsTrue'
  BY <1>2, <1>3, <1>4, Zenon DEF ScanInv, CallsTrue, SawFirst
<1>6. \A b : \A f \in OnBus(b) : f[1] = b
  BY DEF OnBus
<1>7. \A b : \A f \in OnBus(b) : Passed(f)' <=> Passed(f)
  <2> SUFFICES ASSUME NEW b, NEW f \in OnBus(b)
               PROVE  Passed(f)' <=> Passed(f)
    OBVIOUS
  <2>1. ASSUME NEW i \in DOMAIN calls
        PROVE  (calls'[i].bus = f[1] => Before(f, calls'[i])) <=> (calls[i].bus = f[1] => Before(f, calls[i]))
    BY <1>1, <1>2, <1>6
  <2> QED BY <1>2, <2>1 DEF Passed, Before
<1>8. BusesTrue' /\ PciMachine(machine)'
  BY DEF ScanInv, BusesTrue, Reached, Buses, LeadsNowhereElse, OnBus, PciMachine
<1>9. TableTrue'
  BY <1>7 DEF ScanInv, TableTrue, OnBus
<1>10. TableComplete'
  BY <1>7 DEF ScanInv, TableComplete, OnBus, Full
<1> QED BY <1>5, <1>8, <1>9, <1>10 DEF ScanInv

\* The bus a function's bridge leads to is reached when the function's bus is.
LEMMA ReachedThrough ==
  ASSUME NEW b \in Reached, NEW f \in OnBus(b), machine[f].sec # -1
  PROVE  machine[f].sec \in Reached
  BY DEF Reached, LeadsNowhereElse, OnBus, Buses

\* A call has returned.
LEMMA ScanReturns ==
  ASSUME ScanInv, calls # <<>>, calls' = Front(calls), UNCHANGED <<machine, scanned_buses>>,
         TableTrue', TableComplete'
  PROVE  ScanInv'
<1>1. /\ DOMAIN calls' = 1 .. Len(calls) - 1 /\ calls' \in Seq(CallRecord)
      /\ \A i \in 1 .. Len(calls) - 1 : calls'[i] = calls[i]
      /\ Len(calls) \in Nat \ {0} /\ DOMAIN calls = 1 .. Len(calls)
  BY TopCall DEF ScanInv
<1>2. DOMAIN calls' \subseteq DOMAIN calls /\ \A i \in DOMAIN calls' : calls'[i] = calls[i]
  BY <1>1
<1>3. CallsTrue'
  BY <1>1, <1>2 DEF ScanInv, CallsTrue, SawFirst
<1>4. BusesTrue' /\ PciMachine(machine)'
  BY DEF ScanInv, BusesTrue, Reached, Buses, LeadsNowhereElse, OnBus, PciMachine
<1> QED BY <1>3, <1>4 DEF ScanInv

\* What the calls have passed stays passed when the one on top returns, and only
\* the rest of its bus is new.
LEMMA PassedReturn ==
  ASSUME CallsTrue, calls # <<>>, calls' = Front(calls), UNCHANGED machine
  PROVE  /\ \A f : Passed(f) => Passed(f)'
         /\ \A f : f[1] # Top.bus \/ Before(f, Top) => (Passed(f)' => Passed(f))
<1>1. /\ DOMAIN calls' = 1 .. Len(calls) - 1
      /\ \A i \in 1 .. Len(calls) - 1 : calls'[i] = calls[i]
      /\ Len(calls) \in Nat \ {0} /\ DOMAIN calls = 1 .. Len(calls)
      /\ Top = calls[Len(calls)]
  BY TopCall
<1>2. \A f : Passed(f) => Passed(f)'
  BY <1>1 DEF Passed, Before
<1>3. ASSUME NEW f, f[1] # Top.bus \/ Before(f, Top), Passed(f)'
      PROVE  Passed(f)
  <2>1. \A i \in 1 .. Len(calls) - 1 : calls[i].bus = f[1] => Before(f, calls[i])
    BY <1>1, <1>3 DEF Passed, Before
  <2>2. calls[Len(calls)].bus = f[1] => Before(f, calls[Len(calls)])
    BY <1>1, <1>3
  <2> QED BY <1>1, <2>1, <2>2 DEF Passed
<1> QED BY <1>2, <1>3

\* A call returns after its bus: all it could find is in the table.
LEMMA StepReturn ==
  ASSUME ScanInv, scan_return
  PROVE  ScanInv'
<1> USE DEF scan_return
<1>1. \A f : Passed(f) => Passed(f)'
  BY PassedReturn DEF ScanInv
<1>2. TableTrue'
  BY <1>1 DEF ScanInv, TableTrue, OnBus
<1>3. TableComplete'
  <2> SUFFICES ASSUME ~Full, NEW b \in scanned_buses, NEW f \in OnBus(b), Passed(f)'
               PROVE  f \in Range(devices) /\ machine[f].sec \in {-1} \cup scanned_buses
    BY DEF TableComplete, Full, OnBus
  <2>1. Top.dev >= DEVICES /\ Top.dev \in Nat
    BY TopCall DEF ScanInv, CallRecord
  <2>2. f[2] \in 0 .. DEVICES - 1
    BY FunctionTyped DEF ScanInv, OnBus
  <2>3. Before(f, Top)
    BY <2>1, <2>2, PciAssumption DEF Before
  <2>4. Passed(f)
    BY <2>3, PassedReturn DEF ScanInv
  <2> QED BY <2>4 DEF ScanInv, TableComplete
<1> QED BY <1>2, <1>3, ScanReturns

\* No function lies at a device whose function 0 is not there.
LEMMA StepNoDevice ==
  ASSUME ScanInv, scan_no_device
  PROVE  ScanInv'
<1> USE DEF scan_no_device
<1> DEFINE c == [Top EXCEPT !.dev = @ + 1]
<1>1. Top \in CallRecord /\ Top.fn = 0 /\ calls # <<>>
  BY TopCall DEF ScanInv, Goes_on
<1>2. Top = [bus |-> Top.bus, dev |-> Top.dev, fn |-> 0] /\ Top.bus \in Nat /\ Top.dev \in Nat
  BY <1>1 DEF CallRecord
<1>3. c = [bus |-> Top.bus, dev |-> Top.dev + 1, fn |-> 0]
  BY <1>2
<1>4. c \in CallRecord /\ c.bus = Top.bus /\ c.dev = Top.dev + 1 /\ c.fn = 0
  BY <1>2, <1>3 DEF CallRecord
<1>5. <<Top.bus, Top.dev, 0>> \notin DOMAIN machine
  BY <1>1 DEF Present, Here
<1>6. ASSUME NEW f \in OnBus(c.bus)
      PROVE  Before(f, c) <=> Before(f, Top)
  <2>1. f[2] # Top.dev
    BY <1>4, <1>5 DEF OnBus
  <2>2. f[2] \in Nat /\ f[3] \in Nat
    BY FunctionTyped DEF ScanInv, OnBus
  <2>3. Before(f, c) <=> f[2] < Top.dev + 1
    BY <1>4, <2>2 DEF Before
  <2>4. Before(f, Top) <=> f[2] < Top.dev
    BY <2>1 DEF Before
  <2> QED BY <1>2, <2>1, <2>2, <2>3, <2>4
<1>7. SawFirst(c) /\ Moved(c)
  BY <1>4 DEF SawFirst
<1> HIDE DEF c
<1> QED BY <1>1, <1>4, <1>6, <1>7, ScanPasses

\* The call on top, when there is a function 0 where it has come to.
LEMMA OnTop ==
  ASSUME ScanInv, calls # <<>>, \/ Top.fn > 0
                                \/ Present(Here)
  PROVE  /\ Top \in CallRecord /\ Top.bus \in scanned_buses
         /\ NextFn(Top) \in CallRecord /\ NextFn(Top).bus = Top.bus /\ SawFirst(NextFn(Top))
         /\ \A f \in OnBus(Top.bus) : Before(f, NextFn(Top)) <=> Before(f, Top) \/ f = Here
<1>1. Top \in CallRecord /\ SawFirst(Top) /\ Top.bus \in scanned_buses
  BY TopCall DEF ScanInv
<1>2. Top.fn \in Nat
  BY <1>1 DEF CallRecord
<1>3. <<Top.bus, Top.dev, 0>> \in DOMAIN machine
  BY <1>1, <1>2 DEF SawFirst, Present, Here
<1> QED BY <1>1, <1>3, NextFunction DEF ScanInv, Here

\* A function that is not there is passed.
LEMMA StepNoFunction ==
  ASSUME ScanInv, scan_no_function
  PROVE  ScanInv'
<1> USE DEF scan_no_function
<1>1. calls # <<>> /\ Here \notin DOMAIN machine
  BY DEF Goes_on, Present
<1>2. /\ NextFn(Top) \in CallRecord /\ NextFn(Top).bus = Top.bus /\ SawFirst(NextFn(Top))
      /\ \A f \in OnBus(Top.bus) : Before(f, NextFn(Top)) <=> Before(f, Top) \/ f = Here
  BY <1>1, OnTop
<1>3. \A f \in OnBus(NextFn(Top).bus) : Before(f, NextFn(Top)) <=> Before(f, Top)
  BY <1>1, <1>2 DEF OnBus
<1> QED BY <1>1, <1>2, <1>3, ScanPasses

\* A function is entered in the table: it was not there, and every other is
\* passed by the calls as it was.
LEMMA Entered ==
  ASSUME ScanInv, scan_function
  PROVE  /\ calls # <<>> /\ Here \in OnBus(Top.bus) /\ Top.bus \in scanned_buses
         /\ Here[1] = Top.bus /\ ~Passed(Here) /\ Here \notin Range(devices)
         /\ devices' \in Seq(DOMAIN machine) /\ IsInjective(devices')
         /\ Len(devices') = Len(devices) + 1 /\ Len(devices) < PCI_MAX_DEVICES
         /\ Range(devices') = Range(devices) \cup {Here}
<1> USE DEF scan_function
<1>1. calls # <<>> /\ Here \in DOMAIN machine /\ ~Full
  BY DEF Goes_on, Present
<1>2. /\ Len(calls) \in Nat \ {0} /\ DOMAIN calls = 1 .. Len(calls)
      /\ Top = calls[Len(calls)] /\ Top \in CallRecord
      /\ Top.bus \in scanned_buses /\ SawFirst(Top)
  BY <1>1, TopCall DEF ScanInv
<1>3. Here = <<Top.bus, Top.dev, Top.fn>> /\ Top.fn \in Nat /\ Top.dev \in Nat
  BY <1>2 DEF Here, CallRecord
<1>4. Here \in OnBus(Top.bus)
  <2>1. Here[1] = Top.bus /\ Here[2] = Top.dev /\ Here[3] = Top.fn
    BY <1>3
  <2>2. CASE Top.fn = 0
    BY <1>1, <1>3, <2>1, <2>2, Zenon DEF OnBus
  <2>3. CASE Top.fn > 0
    BY <1>1, <1>2, <2>1, <2>3, Zenon DEF OnBus, SawFirst
  <2>4. Top.fn = 0 \/ Top.fn > 0
    BY <1>3
  <2> QED BY <2>2, <2>3, <2>4
<1>5. ~Passed(Here) /\ Here[1] = Top.bus
  BY <1>2, <1>3 DEF Passed, Before
<1>6. Here \notin Range(devices)
  BY <1>5 DEF ScanInv, TableTrue
<1>7. devices \in Seq(DOMAIN machine) /\ Len(devices) \in Nat
  BY DEF ScanInv, TableTrue
<1>8. /\ devices' \in Seq(DOMAIN machine) /\ Len(devices') = Len(devices) + 1
      /\ \A i \in 1 .. Len(devices) : devices'[i] = devices[i]
      /\ devices'[Len(devices) + 1] = Here
      /\ DOMAIN devices' = 1 .. Len(devices) + 1 /\ DOMAIN devices = 1 .. Len(devices)
  BY <1>1, <1>7
<1>9. \A i \in 1 .. Len(devices) : devices[i] # Here
  BY <1>6, <1>8 DEF Range
<1>10. IsInjective(devices')
  <2> SUFFICES ASSUME NEW i \in 1 .. Len(devices) + 1, NEW j \in 1 .. Len(devices) + 1,
                      devices'[i] = devices'[j]
               PROVE  i = j
    BY <1>8 DEF IsInjective
  <2>1. \A k \in 1 .. Len(devices) + 1 : k = Len(devices) + 1 \/ k \in 1 .. Len(devices)
    BY <1>7
  <2>2. \A k, l \in 1 .. Len(devices) : devices[k] = devices[l] => k = l
    BY <1>8, Zenon DEF ScanInv, TableTrue, IsInjective
  <2> QED BY <1>8, <1>9, <2>1, <2>2
<1>11. Range(devices') = Range(devices) \cup {Here}
  <2>1. 1 .. Len(devices) + 1 = (1 .. Len(devices)) \cup {Len(devices) + 1}
    BY <1>7
  <2> QED BY <1>8, <2>1 DEF Range
<1>12. Len(devices) < PCI_MAX_DEVICES
  BY <1>1, <1>7, PciAssumption DEF Full
<1> QED BY <1>1, <1>2, <1>4, <1>5, <1>6, <1>8, <1>10, <1>11, <1>12

\* The scan goes on behind the function entered.
LEMMA FunctionEntered ==
  ASSUME ScanInv, scan_function, CallsTrue',
         scanned_buses \subseteq scanned_buses', scanned_buses' \subseteq Reached,
         machine[Here].sec \in {-1} \cup scanned_buses',
         \A b \in scanned_buses : \A f \in OnBus(b) : Passed(f)' <=> Passed(f) \/ f = Here,
         \A b \in scanned_buses' \ scanned_buses : \A f \in OnBus(b) : ~Passed(f)'
  PROVE  ScanInv'
<1>1. /\ Here \in OnBus(Top.bus) /\ Top.bus \in scanned_buses
      /\ Here[1] = Top.bus
      /\ devices' \in Seq(DOMAIN machine) /\ IsInjective(devices')
      /\ Len(devices') = Len(devices) + 1 /\ Len(devices) < PCI_MAX_DEVICES
      /\ Range(devices') = Range(devices) \cup {Here}
  BY Entered
<1>2. machine' = machine /\ ~Full
  BY DEF scan_function, Goes_on
<1>3. Len(devices) \in Nat /\ Len(devices') <= PCI_MAX_DEVICES
  BY <1>1, PciAssumption DEF ScanInv, TableTrue
<1>4. PciMachine(machine)' /\ BusesTrue'
  BY <1>2 DEF ScanInv, PciMachine, BusesTrue, Reached, Buses, LeadsNowhereElse, OnBus
<1>5. \A f \in Range(devices') : f[1] \in scanned_buses' /\ f \in OnBus(f[1]) /\ Passed(f)'
  BY <1>1 DEF ScanInv, TableTrue
<1>6. TableTrue'
  BY <1>1, <1>2, <1>3, <1>5 DEF TableTrue, OnBus
<1>7. ASSUME NEW b \in scanned_buses', NEW f \in OnBus(b), Passed(f)'
      PROVE  f \in Range(devices') /\ machine[f].sec \in {-1} \cup scanned_buses'
  <2>1. b \in scanned_buses /\ (Passed(f) \/ f = Here)
    BY <1>7
  <2> QED BY <1>1, <1>2, <2>1 DEF ScanInv, TableComplete
<1>8. TableComplete'
  BY <1>2, <1>7 DEF TableComplete, OnBus
<1> QED BY <1>4, <1>6, <1>8 DEF ScanInv

\* The table is full.
LEMMA StepLast ==
  ASSUME ScanInv, scan_function, Len(devices) + 1 >= PCI_MAX_DEVICES
  PROVE  ScanInv'
<1>1. /\ calls # <<>> /\ Here \in OnBus(Top.bus) /\ Top.bus \in scanned_buses
      /\ Here[1] = Top.bus
      /\ devices' \in Seq(DOMAIN machine) /\ IsInjective(devices')
      /\ Len(devices') = Len(devices) + 1 /\ Len(devices) < PCI_MAX_DEVICES
      /\ Range(devices') = Range(devices) \cup {Here}
  BY Entered
<1>2. machine' = machine /\ scanned_buses' = scanned_buses /\ calls' = Front(calls)
  BY DEF scan_function
<1>3. Len(devices) \in Nat /\ Len(devices') <= PCI_MAX_DEVICES /\ Full'
  BY <1>1, PciAssumption DEF ScanInv, TableTrue, Full
<1>4. \A f : Passed(f) => Passed(f)'
  BY <1>1, <1>2, PassedReturn DEF ScanInv
<1>5. ASSUME NEW h, h = Here
      PROVE  Passed(h)'
  <2>1. /\ DOMAIN Front(calls) = 1 .. Len(calls) - 1
        /\ \A i \in 1 .. Len(calls) - 1 : Front(calls)[i] = calls[i]
        /\ \A i \in 1 .. Len(calls) - 1 : calls[i].bus # Top.bus
    BY <1>1, TopCall DEF ScanInv
  <2> QED BY <1>1, <1>2, <1>5, <2>1 DEF Passed
<1>6. TableTrue'
  BY <1>1, <1>2, <1>3, <1>4, <1>5, Zenon DEF ScanInv, TableTrue, OnBus
<1>7. TableComplete'
  BY <1>3 DEF TableComplete
<1> QED BY <1>1, <1>2, <1>6, <1>7, ScanReturns

\* The call on top goes on, and the function is no bridge to a new bus.
LEMMA StepNoBridge ==
  ASSUME ScanInv, scan_function, Moved(NextFn(Top)), scanned_buses' = scanned_buses,
         machine[Here].sec = -1 \/ ~NewBus(machine[Here].sec)
  PROVE  ScanInv'
<1> DEFINE n == Len(calls)
           c == NextFn(Top)
<1>1. calls # <<>> /\ Present(Here) /\ Here \in OnBus(Top.bus) /\ machine' = machine
  BY Entered DEF scan_function
<1>2. /\ n \in Nat \ {0} /\ DOMAIN calls = 1 .. n /\ calls \in Seq(CallRecord)
      /\ Top = calls[n]
      /\ \A i \in 1 .. n - 1 : calls[i].bus # Top.bus
  BY <1>1, TopCall DEF ScanInv, CallsTrue
<1>3. /\ Top.bus \in scanned_buses
      /\ c \in CallRecord /\ c.bus = Top.bus /\ SawFirst(c)
      /\ \A f \in OnBus(Top.bus) : Before(f, c) <=> Before(f, Top) \/ f = Here
  BY <1>1, OnTop
<1>m. calls' = [calls EXCEPT ![n] = c]
  BY DEF Moved
<1> HIDE DEF c, n
<1>4. /\ calls' \in Seq(CallRecord) /\ DOMAIN calls' = 1 .. n /\ calls'[n] = c
      /\ \A i \in 1 .. n - 1 : calls'[i] = calls[i]
  BY <1>m, <1>2, <1>3
<1>5. \A i \in 1 .. n : i = n \/ i \in 1 .. n - 1
  BY <1>2
<1>6. \A i \in 1 .. n : calls'[i].bus = calls[i].bus /\ SawFirst(calls'[i])
  BY <1>2, <1>3, <1>4, <1>5 DEF ScanInv, CallsTrue
<1>7. CallsTrue'
  BY <1>1, <1>2, <1>4, <1>6, Zenon DEF ScanInv, CallsTrue, SawFirst
<1>8. ASSUME NEW b \in scanned_buses, NEW f \in OnBus(b)
      PROVE  Passed(f)' <=> Passed(f) \/ f = Here
  <2>1. f[1] = b /\ Here[1] = Top.bus
    BY <1>1, <1>8 DEF OnBus
  <2>2. Passed(f) <=> /\ \A i \in 1 .. n - 1 : calls[i].bus = f[1] => Before(f, calls[i])
                      /\ Top.bus = f[1] => Before(f, Top)
    BY <1>2, <1>5 DEF Passed
  <2>3. Passed(f)' <=> /\ \A i \in 1 .. n - 1 : calls[i].bus = f[1] => Before(f, calls[i])
                       /\ Top.bus = f[1] => Before(f, c)
    BY SMTT(30), <1>2, <1>3, <1>4, <1>5 DEF Passed, Before
  <2>4. CASE b = Top.bus
    BY <1>2, <1>3, <2>1, <2>2, <2>3, <2>4
  <2>5. CASE b # Top.bus
    BY <2>1, <2>2, <2>3, <2>5
  <2> QED BY <2>4, <2>5
<1>9. machine[Here].sec \in {-1} \cup scanned_buses'
  BY <1>3 DEF NewBus, ScanInv, BusesTrue
<1>10. scanned_buses' \subseteq Reached
  BY DEF ScanInv, BusesTrue
<1> QED BY <1>7, <1>8, <1>9, <1>10, FunctionEntered

\* The function is a bridge, and the bus behind it is scanned first.
LEMMA StepBridge ==
  ASSUME ScanInv, scan_function, NEW sec, sec = machine[Here].sec, sec # -1, NewBus(sec),
         Descends(NextFn(Top), sec),
         scanned_buses' = scanned_buses \cup {sec}
  PROVE  ScanInv'
<1> DEFINE n == Len(calls)
           c == NextFn(Top)
<1>1. calls # <<>> /\ Present(Here) /\ Here \in OnBus(Top.bus) /\ machine' = machine
  BY Entered DEF scan_function
<1>2. /\ n \in Nat \ {0} /\ DOMAIN calls = 1 .. n /\ calls \in Seq(CallRecord)
      /\ Top = calls[n]
      /\ \A i \in 1 .. n - 1 : calls[i].bus # Top.bus
      /\ Front(calls) \in Seq(CallRecord) /\ DOMAIN Front(calls) = 1 .. n - 1
      /\ Len(Front(calls)) = n - 1
      /\ \A i \in 1 .. n - 1 : Front(calls)[i] = calls[i]
  BY <1>1, TopCall DEF ScanInv, CallsTrue
<1>3. /\ Top.bus \in scanned_buses
      /\ c \in CallRecord /\ c.bus = Top.bus /\ SawFirst(c)
      /\ \A f \in OnBus(Top.bus) : Before(f, c) <=> Before(f, Top) \/ f = Here
  BY <1>1, OnTop
<1>4. sec \in Nat /\ sec \notin scanned_buses /\ sec \in Reached
  <2>1. Here \in DOMAIN machine /\ Top.bus \in Reached
    BY <1>1, <1>3 DEF Present, ScanInv, BusesTrue
  <2> QED BY <1>1, <2>1, FunctionTyped, ReachedThrough DEF NewBus, ScanInv
<1> HIDE DEF c
<1>5. Call(sec) \in CallRecord /\ Call(sec).bus = sec /\ Call(sec).dev = 0 /\ Call(sec).fn = 0
  BY <1>4 DEF Call, CallRecord
<1>6. /\ calls' \in Seq(CallRecord) /\ DOMAIN calls' = 1 .. n + 1
      /\ calls'[n] = c /\ calls'[n + 1] = Call(sec)
      /\ \A i \in 1 .. n - 1 : calls'[i] = calls[i]
  <2> DEFINE F == Front(calls)
  <2>1. F \in Seq(CallRecord) /\ Len(F) = n - 1
    BY <1>2
  <2> HIDE DEF F, n
  <2>2. /\ Append(F, c) \in Seq(CallRecord) /\ Len(Append(F, c)) = n
        /\ Append(F, c)[n] = c
        /\ \A i \in 1 .. n - 1 : Append(F, c)[i] = F[i]
    BY <1>2, <1>3, <2>1
  <2> DEFINE G == Append(F, c)
  <2> HIDE DEF G
  <2>3. G \in Seq(CallRecord) /\ Len(G) = n /\ G[n] = c /\ \A i \in 1 .. n - 1 : G[i] = F[i]
    BY <2>2 DEF G
  <2>4. <<Call(sec)>> \in Seq(CallRecord) /\ Len(<<Call(sec)>>) = 1
    BY <1>5
  <2>5. calls' = G \o <<Call(sec)>>
    BY DEF G, F, c, Descends
  <2>6. /\ calls' \in Seq(CallRecord) /\ Len(calls') = n + 1
        /\ \A i \in 1 .. n : calls'[i] = G[i]
        /\ calls'[n + 1] = Call(sec)
    <3> DEFINE t == <<Call(sec)>>
    <3>1. t[1] = Call(sec)
      OBVIOUS
    <3> HIDE DEF t
    <3>2. t \in Seq(CallRecord) /\ Len(t) = 1 /\ calls' = G \o t
      BY <2>4, <2>5 DEF t
    <3>a. /\ G \o t \in Seq(CallRecord) /\ Len(G \o t) = Len(G) + Len(t)
          /\ \A i \in 1 .. Len(G) + Len(t) : (G \o t)[i] = IF i <= Len(G) THEN G[i] ELSE t[i - Len(G)]
      BY <2>3, <3>2, ConcatProperties, Zenon
    <3>3. /\ G \o t \in Seq(CallRecord) /\ Len(G \o t) = n + 1
          /\ \A i \in 1 .. n + 1 : (G \o t)[i] = IF i <= n THEN G[i] ELSE t[i - n]
      BY <2>3, <3>2, <3>a
    <3> QED BY <1>2, <3>1, <3>2, <3>3
  <2> QED BY <1>2, <2>3, <2>6 DEF F
<1> HIDE DEF n
<1>7. \A i \in 1 .. n + 1 : i = n + 1 \/ i = n \/ i \in 1 .. n - 1
  BY <1>2
<1>8. \A i \in 1 .. n : i = n \/ i \in 1 .. n - 1
  BY <1>2
<1>9. \A i \in 1 .. n : calls'[i].bus = calls[i].bus /\ SawFirst(calls'[i])
  BY <1>2, <1>3, <1>6, <1>8, Zenon DEF ScanInv, CallsTrue
<1>10. SawFirst(calls'[n + 1]) /\ calls'[n + 1].bus = sec
  BY <1>5, <1>6 DEF SawFirst
<1>11. \A i \in 1 .. n + 1 : i = n + 1 \/ i \in 1 .. n
  BY <1>2
<1>12. \A i \in 1 .. n : calls'[i].bus \in scanned_buses
  BY <1>2, <1>9 DEF ScanInv, CallsTrue
<1>13. \A i, j \in 1 .. n + 1 : calls'[i].bus = calls'[j].bus => i = j
  <2>1. \A i, j \in 1 .. n : calls'[i].bus = calls'[j].bus => i = j
    BY <1>2, <1>9, Zenon DEF ScanInv, CallsTrue
  <2>2. \A i \in 1 .. n : calls'[i].bus # calls'[n + 1].bus
    BY <1>4, <1>10, <1>12
  <2> QED BY <1>11, <2>1, <2>2
<1>14. CallsTrue'
  BY <1>1, <1>6, <1>9, <1>10, <1>11, <1>12, <1>13 DEF CallsTrue, SawFirst
<1>15. ASSUME NEW b \in scanned_buses, NEW f \in OnBus(b)
       PROVE  Passed(f)' <=> Passed(f) \/ f = Here
  <2>1. f[1] = b /\ Here[1] = Top.bus /\ sec # b
    BY <1>1, <1>4, <1>15 DEF OnBus
  <2>2. Passed(f) <=> /\ \A i \in 1 .. n - 1 : calls[i].bus = f[1] => Before(f, calls[i])
                      /\ Top.bus = f[1] => Before(f, Top)
    BY <1>2, <1>8 DEF Passed
  <2>3. Passed(f)' <=> /\ \A i \in 1 .. n - 1 : calls[i].bus = f[1] => Before(f, calls[i])
                       /\ Top.bus = f[1] => Before(f, c)
    <3>1. \A i \in 1 .. n - 1 : i \in 1 .. n + 1
      BY <1>2
    <3>2. n \in 1 .. n + 1
      BY <1>2
    <3>3. Passed(f)' <=> \A i \in 1 .. n + 1 : calls'[i].bus = f[1] => Before(f, calls'[i])
      BY <1>6 DEF Passed, Before
    <3>4. calls'[n + 1].bus # f[1]
      BY <1>10, <2>1
    <3>5. Passed(f)' <=> /\ \A i \in 1 .. n - 1 : calls'[i].bus = f[1] => Before(f, calls'[i])
                         /\ calls'[n].bus = f[1] => Before(f, calls'[n])
      BY <1>7, <3>1, <3>2, <3>3, <3>4
    <3> QED BY <1>3, <1>6, <3>5
  <2>4. CASE b = Top.bus
    BY <1>2, <1>3, <2>1, <2>2, <2>3, <2>4
  <2>5. CASE b # Top.bus
    BY <2>1, <2>2, <2>3, <2>5
  <2> QED BY <2>4, <2>5
<1>16. ASSUME NEW b \in scanned_buses' \ scanned_buses, NEW f \in OnBus(b)
       PROVE  ~Passed(f)'
  <2>1. f[1] = sec /\ f[2] \in Nat /\ f[3] \in Nat
    BY <1>16, FunctionTyped DEF OnBus, ScanInv
  <2>2. n + 1 \in 1 .. n + 1
    BY <1>2
  <2>3. ~Before(f, Call(sec))
    BY <1>5, <2>1 DEF Before
  <2> QED BY <1>5, <1>6, <2>1, <2>2, <2>3 DEF Passed, Before
<1>17. scanned_buses' \subseteq Reached /\ sec \in scanned_buses'
  BY <1>4, Zenon DEF ScanInv, BusesTrue
<1> QED BY <1>14, <1>15, <1>16, <1>17, FunctionEntered

\* Other parts leave what the scan knows alone.
LEMMA ScanStays ==
  ASSUME ScanInv, UNCHANGED <<machine, devices, scanned_buses, calls>>
  PROVE  ScanInv'
<1>1. \A b : OnBus(b)' = OnBus(b)
  BY DEF OnBus
<1>2. \A f : Passed(f)' <=> Passed(f)
  BY DEF Passed, Before
<1>3. CallsTrue'
  BY DEF ScanInv, CallsTrue, SawFirst
<1>4. BusesTrue' /\ PciMachine(machine)'
  BY DEF ScanInv, BusesTrue, Reached, Buses, LeadsNowhereElse, OnBus, PciMachine
<1>5. TableTrue'
  BY <1>2 DEF ScanInv, TableTrue, OnBus
<1>6. TableComplete'
  BY <1>2 DEF ScanInv, TableComplete, OnBus, Full
<1> QED BY <1>3, <1>4, <1>5, <1>6 DEF ScanInv

\* Every step of the scan keeps what it knows.
LEMMA ScanStep ==
  ASSUME ScanInv, PciNext
  PROVE  ScanInv'
<1>1. CASE probe_next_bar
  <2>1. UNCHANGED <<machine, devices, scanned_buses, calls>>
    BY <1>1 DEF probe_next_bar
  <2> QED BY <2>1, ScanStays
<1>2. CASE scan_function
  <2> DEFINE sec == machine[Here].sec
  <2>1. CASE Len(devices) + 1 >= PCI_MAX_DEVICES
    BY <1>2, <2>1, StepLast
  <2>2. CASE ~(Len(devices) + 1 >= PCI_MAX_DEVICES) /\ sec # -1 /\ NewBus(sec)
    BY <1>2, <2>2, StepBridge DEF scan_function
  <2>3. CASE ~(Len(devices) + 1 >= PCI_MAX_DEVICES) /\ ~(sec # -1 /\ NewBus(sec))
    BY <1>2, <2>3, StepNoBridge DEF scan_function
  <2> QED BY <2>1, <2>2, <2>3
<1> QED BY <1>1, <1>2, StepNoDevice, StepNoFunction, StepReturn DEF PciNext

\* The scan begins with bus 0, and has passed nothing.
LEMMA ScanFirst ==
  ASSUME NEW m, PciMachine(m), pci_init(m)
  PROVE  ScanInv
<1> USE DEF pci_init
<1>1. calls = <<[bus |-> 0, dev |-> 0, fn |-> 0]>> /\ devices = <<>> /\ scanned_buses = {0}
  BY DEF Call
<1>2. CallsTrue
  BY <1>1 DEF CallsTrue, CallRecord, SawFirst
<1>3. BusesTrue
  BY <1>1 DEF BusesTrue, Reached, Buses, LeadsNowhereElse
<1>4. Len(devices) = 0 /\ Range(devices) = {} /\ DOMAIN devices = {}
  BY <1>1 DEF Range
<1>5. TableTrue
  BY <1>1, <1>4, PciAssumption DEF TableTrue, IsInjective
<1>6. TableComplete
  <2> SUFFICES ASSUME NEW f \in OnBus(0)
               PROVE  ~Passed(f)
    BY <1>1 DEF TableComplete
  <2>1. f[1] = 0 /\ f[2] \in Nat /\ f[3] \in Nat
    BY FunctionTyped DEF OnBus
  <2> QED BY <1>1, <2>1 DEF Passed, Before
<1> QED BY <1>2, <1>3, <1>5, <1>6 DEF ScanInv

\* What the invariant says of the table when the scan is over.
LEMMA ScanFinds == ScanInv => FunctionsFoundOnce
<1> SUFFICES ASSUME ScanInv
             PROVE  FunctionsFoundOnce
  OBVIOUS
<1>1. Range(devices) \subseteq Reachable
  BY DEF ScanInv, TableTrue, BusesTrue, Reachable
<1>2. ASSUME calls = <<>>, Len(devices) < PCI_MAX_DEVICES
      PROVE  Reachable \subseteq Range(devices)
  <2>1. ~Full
    BY <1>2, PciAssumption DEF Full, ScanInv, TableTrue
  <2>2. \A f : Passed(f)
    BY <1>2 DEF Passed
  <2>3. scanned_buses \in SUBSET Buses
    BY DEF ScanInv, BusesTrue, Reached
  <2>4. LeadsNowhereElse(scanned_buses)
    BY <2>1, <2>2 DEF ScanInv, TableComplete, BusesTrue, LeadsNowhereElse
  <2>5. Reached \subseteq scanned_buses
    BY <2>3, <2>4 DEF Reached
  <2> QED BY <2>1, <2>2, <2>5 DEF ScanInv, TableComplete, Reachable
<1> QED BY <1>1, <1>2, Zenon DEF FunctionsFoundOnce, ScanInv, TableTrue
----------------------------------------------------------------------------
(* The probing of the BARs *)

\* All ones, taken down to a multiple of what divides the number of values.
LEMMA OnesDown ==
  ASSUME NEW u \in Nat \ {0}, REG % u = 0
  PROVE  AllOnes % u = u - 1
<1> DEFINE k == REG \div u
           q == AllOnes \div u
           r == AllOnes % u
<1>1. REG \in Nat /\ REG > 0 /\ AllOnes = REG - 1
  BY RegAssumption DEF AllOnes
<1>2. k \in Int /\ REG = u * k
  BY <1>1
<1>3. q \in Int /\ r \in 0 .. u - 1 /\ AllOnes = u * q + r
  BY <1>1
<1> HIDE DEF k, q, r
<1> DEFINE d == k - q
<1>4. d \in Int /\ u * d = r + 1
  <2>1. u * (k - q) = u * k - u * q
    BY <1>2, <1>3, SMTT(30)
  <2> QED BY <1>1, <1>2, <1>3, <2>1
<1> HIDE DEF d
<1>5. d <= 0 => u * d <= 0
  BY <1>4, SMTT(30)
<1>6. d >= 2 => u * d >= 2 * u
  BY <1>4, SMTT(30)
<1>7. d = 1
  <2> DEFINE m == u * d
  <2>1. m \in Int /\ m = r + 1 /\ (d <= 0 => m <= 0) /\ (d >= 2 => m >= 2 * u)
    BY <1>4, <1>5, <1>6
  <2> HIDE DEF m
  <2> QED BY <1>3, <1>4, <2>1
<1>8. u * 1 = r + 1
  BY <1>4, <1>7
<1> QED BY <1>3, <1>8 DEF r

\* A mask of 64 bits gives the size.
LEMMA SizeOfMask ==
  ASSUME NEW u \in Nat, u < REG
  PROVE  SizeOf(Wide(AllOnes, REG - u)) = u
<1> DEFINE m == REG * REG
<1>1. REG \in Nat /\ REG > 0 /\ AllOnes = REG - 1
  BY RegAssumption DEF AllOnes
<1>2. m \in Nat /\ m >= REG
  BY <1>1, SMTT(30)
<1>3. (REG - 1) * REG = m - REG
  BY <1>1, SMTT(30)
<1>4. Wide(AllOnes, REG - u) = (REG - 1) * REG + (REG - u)
  BY <1>1 DEF Wide
<1>5. SizeOf(Wide(AllOnes, REG - u)) = (m - ((REG - 1) * REG + (REG - u))) % m
  BY <1>4 DEF SizeOf
<1> HIDE DEF m
<1>6. Wide(AllOnes, REG - u) = m - u
  BY <1>1, <1>2, <1>3, <1>4
<1>7. m - (m - u) = u
  BY <1>2
<1>8. u % m = u
  BY <1>1, <1>2
<1> QED BY <1>1, <1>2, <1>3, <1>5, <1>7, <1>8

\* Every probe leaves the registers as they were.
LEMMA ProbeRestores ==
  ASSUME NEW hw, NEW regs, BarHardware(hw, regs), NEW b \in BARS
  PROVE  pci_probe_bar(hw, regs, b).regs = regs
<1>1. regs \in [Registers -> 0 .. AllOnes] /\ b \in Registers /\ b + 1 \in Registers
  BY DEF BarHardware, BARS, Registers
<1>2. Stored(hw, b, regs[b]) = regs[b] /\ Stored(hw, b + 1, regs[b + 1]) = regs[b + 1]
  BY <1>1 DEF BarHardware
<1> DEFINE ones == Written(hw, regs, b, AllOnes)
           ones2 == Written(hw, ones, b + 1, AllOnes)
<1>3. Written(hw, ones, b, regs[b]) = regs
  BY <1>1, <1>2, Zenon DEF Written
<1>4. Restored(hw, ones2, b, regs[b], regs[b + 1]) = regs
  BY <1>1, <1>2, Zenon DEF Written, Restored
<1>5. CASE regs[b] = 0
  BY <1>5 DEF pci_probe_bar
<1>6. CASE regs[b] # 0 /\ ~IsIo(regs[b]) /\ Is64(regs[b])
  BY <1>4, <1>6 DEF pci_probe_bar, Probe64
<1>7. CASE regs[b] # 0 /\ (IsIo(regs[b]) \/ ~Is64(regs[b]))
  BY <1>3, <1>7 DEF pci_probe_bar, Probe32
<1> QED BY <1>5, <1>6, <1>7

\* A BAR that is there, and no upper half, is found where it lies.
ProbedTrue(hw, regs, b, bar) ==
  LET low == regs[b] - hw.flags[b]
  IN  /\ bar.addr = IF hw.flags[b] \in {4, 12} THEN Wide(regs[b + 1], low) ELSE low
      /\ bar.io = (hw.flags[b] = 1)
      /\ hw.flags[b] \in {4, 12} => bar.size = hw.unit[b]

\* What a probe gives for a BAR, from its address and its kind.
LEMMA ProbedIs ==
  ASSUME NEW hw, NEW regs, NEW b, NEW bar,
         \/ /\ bar.io = TRUE /\ hw.flags[b] = 1
            /\ bar.addr = regs[b] - hw.flags[b]
         \/ /\ bar.io = FALSE /\ hw.flags[b] \in {0, 8}
            /\ bar.addr = regs[b] - hw.flags[b]
         \/ /\ bar.io = FALSE /\ hw.flags[b] \in {4, 12}
            /\ bar.addr = Wide(regs[b + 1], regs[b] - hw.flags[b])
            /\ bar.size = hw.unit[b]
  PROVE  ProbedTrue(hw, regs, b, bar)
<1> DEFINE fl == hw.flags[b]
<1>1. bar.io = (fl = 1)
  <2>1. CASE fl = 1
    <3>1. bar.io = TRUE
      BY <2>1
    <3>2. (fl = 1) = TRUE
      BY <2>1
    <3> QED BY <3>1, <3>2, Zenon
  <2>2. CASE fl # 1
    BY <2>2, Zenon
  <2> QED BY <2>1, <2>2
<1>2. CASE fl \in {0, 1, 8}
  BY <1>1, <1>2 DEF ProbedTrue
<1>3. CASE fl \in {4, 12}
  BY <1>1, <1>3 DEF ProbedTrue
<1> QED BY <1>2, <1>3

\* A probe finds the address of a BAR, and the size of one with 64 bits.
LEMMA ProbeTrue ==
  ASSUME NEW hw, NEW regs, BarHardware(hw, regs), NEW b \in BARS,
         hw.unit[b] < REG, ~UpperHalf(hw, b)
  PROVE  ProbedTrue(hw, regs, b, pci_probe_bar(hw, regs, b).bar)
<1> DEFINE r == regs[b]
           flags == hw.flags[b]
           ones == Written(hw, regs, b, AllOnes)
           ones2 == Written(hw, ones, b + 1, AllOnes)
           p == pci_probe_bar(hw, regs, b)
<1>1. regs \in [Registers -> 0 .. AllOnes] /\ b \in Registers /\ b + 1 \in Registers /\ b \in 0 .. 5
  BY DEF BarHardware, BARS, Registers
<1>2. r \in Nat /\ flags \in {0, 1, 4, 8, 12} /\ r % (IF flags = 1 THEN 4 ELSE 16) = flags
  BY <1>1, RegAssumption DEF BarHardware, AllOnes
<1>3. IsIo(r) <=> flags = 1
  <2> HIDE DEF r, flags
  <2> QED BY <1>2 DEF IsIo
<1>4. flags # 1 => (Is64(r) <=> flags \in {4, 12})
  <2> HIDE DEF r, flags
  <2> QED BY <1>2 DEF Is64
<1>5. r = 0 => flags = 0
  <2> HIDE DEF r, flags
  <2> QED BY <1>2
<1>6. CASE r = 0
  <2>1. p.bar = NoBar
    BY <1>6 DEF pci_probe_bar
  <2>2. p.bar.addr = r - flags /\ p.bar.io = FALSE /\ flags = 0
    BY <1>5, <1>6, <2>1 DEF NoBar
  <2> QED BY <2>2, ProbedIs, Zenon
<1>7. CASE r # 0 /\ flags = 1
  <2>1. p.bar.addr = r - (r % 4) /\ p.bar.io = TRUE
    BY <1>3, <1>7 DEF pci_probe_bar, Probe32
  <2>2. p.bar.addr = r - flags
    BY <1>2, <1>7, <2>1
  <2> QED BY <1>7, <2>1, <2>2, ProbedIs, Zenon
<1>8. CASE r # 0 /\ flags \in {0, 8}
  <2>1. p.bar.addr = r - (r % 16) /\ p.bar.io = FALSE
    BY <1>3, <1>4, <1>8 DEF pci_probe_bar, Probe32
  <2>2. p.bar.addr = r - flags
    BY <1>2, <1>8, <2>1
  <2> QED BY <1>8, <2>1, <2>2, ProbedIs, Zenon
<1>9. CASE r # 0 /\ flags \in {4, 12}
  <2>1. /\ p.bar.addr = Wide(regs[b + 1], r - (r % 16)) /\ p.bar.io = FALSE
        /\ p.bar.size = SizeOf(Wide(ones2[b + 1], ones2[b] - (ones2[b] % 16)))
    BY <1>3, <1>4, <1>9 DEF pci_probe_bar, Probe64
  <2> DEFINE u == hw.unit[b]
  <2>2. /\ u \in Nat \ {0} /\ u % 16 = 0 /\ REG % u = 0
        /\ hw.unit[b + 1] = 1 /\ hw.flags[b + 1] = 0
    BY <1>1, <1>9 DEF BarHardware
  <2>3. ones2[b + 1] = AllOnes
    <3>1. ones2[b + 1] = AllOnes - (AllOnes % 1) + 0
      BY <1>1, <2>2 DEF Written, Stored
    <3> QED BY <3>1, RegAssumption DEF AllOnes
  <2>4. ones2[b] = AllOnes - (AllOnes % u) + flags
    BY <1>1 DEF Written, Stored
  <2>5. AllOnes % u = u - 1
    BY <2>2, OnesDown
  <2>6. ones2[b] - (ones2[b] % 16) = REG - u
    <3> HIDE DEF ones2, flags, u
    <3> QED BY <1>9, <2>2, <2>4, <2>5, RegAssumption DEF AllOnes
  <2>7. p.bar.size = u
    <3> HIDE DEF ones2, p
    <3> QED BY <2>1, <2>2, <2>3, <2>6, SizeOfMask
  <2>8. p.bar.addr = Wide(regs[b + 1], r - flags)
    BY <1>2, <1>9, <2>1
  <2> QED BY <1>9, <2>1, <2>7, <2>8, ProbedIs, Zenon
<1> QED BY <1>2, <1>6, <1>7, <1>8, <1>9

\* The registers are as firmware set them whenever a probe is over, and what is
\* kept of a BAR is what its probe gave.
ProbeOf(f, k) == pci_probe_bar(machine[f].hw, machine[f].regs, k - 1).bar

BarsInv ==
  /\ config = [f \in DOMAIN machine |-> machine[f].regs]
  /\ Len(probed) \in 0 .. 6 /\ DOMAIN probed = 1 .. Len(probed)
  /\ probed # <<>> => Goes_on /\ Present(Here)
  /\ \A k \in DOMAIN probed : probed[k] = ProbeOf(Here, k)
  /\ Range(devices) \subseteq DOMAIN bars
  /\ \A f \in Range(devices) : \A k \in 1 .. 6 : bars[f][k] = ProbeOf(f, k)

\* Between two probes, what the table holds is kept with the registers.
LEMMA BarsStay ==
  ASSUME BarsInv, UNCHANGED <<machine, config, devices, probed, bars>>, probed = <<>>
  PROVE  BarsInv'
  BY DEF BarsInv, ProbeOf

\* Every step of the scan leaves registers as they were once a probe is over.
LEMMA BarsStep ==
  ASSUME ScanInv, BarsInv, PciNext
  PROVE  BarsInv'
<1>1. CASE scan_no_device \/ scan_no_function \/ scan_return
  <2>1. UNCHANGED <<machine, config, devices, probed, bars>>
    BY <1>1 DEF scan_no_device, scan_no_function, scan_return
  <2>2. probed = <<>>
    <3> SUFFICES ASSUME probed # <<>>
                 PROVE  FALSE
      OBVIOUS
    <3>1. Goes_on /\ Present(Here)
      BY DEF BarsInv
    <3>2. Top.dev \in Nat
      BY <3>1, TopCall DEF Goes_on, ScanInv, CallRecord
    <3> QED BY <1>1, <3>1, <3>2, PciAssumption
            DEF scan_no_device, scan_no_function, scan_return, Goes_on
  <2> QED BY <2>1, <2>2, BarsStay
<1>2. CASE probe_next_bar
  <2> USE <1>2 DEF probe_next_bar
  <2> DEFINE n == Len(probed)
             p == pci_probe_bar(machine[Here].hw, config[Here], n)
  <2>1. Goes_on /\ Here \in DOMAIN machine /\ n < 6 /\ n \in BARS
    BY DEF Present, BarsInv, BARS
  <2>2. UNCHANGED <<machine, devices, bars, calls, scanned_buses>>
    OBVIOUS
  <2>3. config[Here] = machine[Here].regs
    BY <2>1 DEF BarsInv
  <2>4. p.regs = machine[Here].regs /\ p.bar = ProbeOf(Here, n + 1)
    <3>1. BarHardware(machine[Here].hw, machine[Here].regs)
      BY <2>1 DEF ScanInv, PciMachine
    <3>2. n + 1 - 1 = n
      BY <2>1 DEF BARS
    <3> QED BY <2>1, <2>3, <3>1, <3>2, ProbeRestores DEF ProbeOf
  <2>5. config' = [config EXCEPT ![Here] = p.regs] /\ probed' = Append(probed, p.bar)
    OBVIOUS
  <2> HIDE DEF p, n
  <2>6. config' = [f \in DOMAIN machine |-> machine[f].regs]
    BY <2>1, <2>4, <2>5 DEF BarsInv
  <2>7. /\ Len(probed') = n + 1 /\ DOMAIN probed' = 1 .. n + 1
        /\ \A k \in 1 .. n : probed'[k] = probed[k]
        /\ probed'[n + 1] = p.bar
    BY <2>1, <2>5 DEF BarsInv, n, BARS
  <2>8. Here' = Here /\ Goes_on' /\ Present(Here)'
    BY <2>1, <2>2 DEF Here, Top, Goes_on, Present, Full
  <2>9. \A f : \A k : ProbeOf(f, k)' = ProbeOf(f, k)
    BY <2>2 DEF ProbeOf
  <2>10. \A k \in 1 .. n + 1 : k = n + 1 \/ k \in 1 .. n
    BY <2>1 DEF BARS
  <2>11. \A k \in 1 .. n + 1 : probed'[k] = ProbeOf(Here, k)
    BY <2>4, <2>7, <2>10 DEF BarsInv, n
  <2>12. \A k \in DOMAIN probed' : probed'[k] = ProbeOf(Here, k)'
    BY <2>7, <2>8, <2>11 DEF ProbeOf
  <2>13. Len(probed') \in 0 .. 6
    BY <2>1, <2>7 DEF BARS
  <2> QED BY <2>2, <2>6, <2>7, <2>8, <2>9, <2>12, <2>13 DEF BarsInv
<1>3. CASE scan_function
  <2> USE <1>3 DEF scan_function
  <2>1. UNCHANGED <<machine, config>> /\ probed' = <<>> /\ bars' = [f \in DOMAIN bars \cup {Here} |-> IF f = Here THEN probed ELSE bars[f]]
    OBVIOUS
  <2>2. Range(devices') = Range(devices) \cup {Here}
    BY Entered
  <2>3. \A k \in 1 .. 6 : probed[k] = ProbeOf(Here, k)
    BY DEF BarsInv
  <2>4. DOMAIN bars' = {Here} \cup DOMAIN bars
    BY <2>1
  <2>5. \A f \in DOMAIN bars' : bars'[f] = IF f = Here THEN probed ELSE bars[f]
    BY <2>1
  <2>6. Range(devices') \subseteq DOMAIN bars'
    BY <2>2, <2>4 DEF BarsInv
  <2>7. ASSUME NEW f \in Range(devices'), NEW k \in 1 .. 6
        PROVE  bars'[f][k] = ProbeOf(f, k)
    <3>1. CASE f = Here
      BY <2>3, <2>5, <2>6, <3>1
    <3>2. CASE f # Here
      BY <2>2, <2>5, <2>6, <3>2 DEF BarsInv
    <3> QED BY <3>1, <3>2
  <2>9. config' = [f \in DOMAIN machine' |-> machine'[f].regs]
    BY <2>1 DEF BarsInv
  <2>10. Len(probed') = 0 /\ DOMAIN probed' = {}
    BY <2>1
  <2>11. \A f \in Range(devices') : \A k \in 1 .. 6 : bars'[f][k] = ProbeOf(f, k)'
    BY ZenonT(30), <2>1, <2>7 DEF ProbeOf
  <2>12. probed' = <<>> /\ Len(probed') \in 0 .. 6 /\ DOMAIN probed' = 1 .. Len(probed')
    BY <2>1, <2>10
  <2>13. \A k \in DOMAIN probed' : probed'[k] = ProbeOf(Here, k)'
    BY <2>10
  <2> HIDE <1>3
  <2> QED BY <2>6, <2>9, <2>11, <2>12, <2>13 DEF BarsInv
<1> QED BY <1>1, <1>2, <1>3 DEF PciNext

\* No BAR has been probed.
LEMMA BarsFirst == ASSUME NEW m, pci_init(m)  PROVE BarsInv
  BY DEF pci_init, BarsInv, Range

\* The BARs of the functions found are those hardware has.
LEMMA BarsKnown == ScanInv /\ BarsInv => BarsTrue
<1> SUFFICES ASSUME ScanInv, BarsInv
             PROVE  BarsTrue
  OBVIOUS
<1>1. \A f \in DOMAIN machine : config[f] = machine[f].regs
  BY DEF BarsInv
<1>2. ASSUME NEW f \in Range(devices), NEW b \in Bars(f)
      PROVE  /\ bars[f][b + 1].addr = TrueAddr(f, b)
             /\ bars[f][b + 1].io = (machine[f].hw.flags[b] = 1)
             /\ Upper(f, b + 1) => bars[f][b + 1].size = machine[f].hw.unit[b]
  <2> DEFINE hw == machine[f].hw
             regs == machine[f].regs
             bar == bars[f][b + 1]
  <2>1. b \in BARS /\ hw.unit[b] < REG /\ ~UpperHalf(hw, b)
    BY DEF Bars, Upper
  <2>2. BarHardware(hw, regs)
    BY Zenon DEF ScanInv, TableTrue, PciMachine, OnBus
  <2>3. bar = pci_probe_bar(hw, regs, b).bar
    <3>1. b + 1 \in 1 .. 6 /\ (b + 1) - 1 = b
      BY <2>1 DEF BARS
    <3> QED BY <3>1 DEF BarsInv, ProbeOf
  <2> HIDE DEF hw, regs, bar
  <2>4. ProbedTrue(hw, regs, b, bar)
    BY <2>1, <2>2, <2>3, ProbeTrue
  <2>5. bar.addr = TrueAddr(f, b)
    BY <2>4 DEF ProbedTrue, TrueAddr, hw, regs
  <2>6. bar.io = (hw.flags[b] = 1)
    BY <2>4 DEF ProbedTrue
  <2>7. Upper(f, b + 1) => bar.size = hw.unit[b]
    <3>1. Upper(f, b + 1) => hw.flags[b] \in {4, 12}
      BY <2>1 DEF Upper, UpperHalf, BARS, hw
    <3> QED BY <2>4, <3>1 DEF ProbedTrue
  <2> QED BY <2>5, <2>6, <2>7 DEF hw, bar
<1> QED BY <1>1, <1>2 DEF BarsTrue

----------------------------------------------------------------------------
(* The registers of a card *)

\* A device whose capabilities have been looked at is awake.
Woken(f) == machine[f].caps.pm \in Seen(f) => power[f] = 0
Decodes(f) == machine[f].forgets \/ "mem" \in command[f]

\* The walks of iter places have been taken, and one more place is cap.
CapsWalked ==
  /\ iter \in 0 .. CAPABILITIES
  /\ \A n \in 1 .. iter : \A s \in WalkOf(Cur, n) : s[n] = machine[Cur].caps.pm => power[Cur] = 0
  /\ \A s \in WalkOf(Cur, iter + 1) : s[iter + 1] = cap

ReadInv ==
  /\ DOMAIN command = DOMAIN machine /\ DOMAIN power = DOMAIN machine
  /\ dumped \subseteq DOMAIN machine /\ nth \in Nat
  /\ IF probes = <<>> THEN probe_pc = "start"
     ELSE calls = <<>> /\ pci_stage = "probe" /\ nth \in DOMAIN devices
  /\ probe_pc \in {"capabilities", "remap"} => Decodes(Cur)
  /\ probe_pc = "capabilities" => CapsWalked
  /\ probe_pc = "remap" => Woken(Cur)
  /\ \A f \in dumped : Decodes(f) /\ Woken(f)

\* The beginning of a walk is a walk.
LEMMA WalkBegins ==
  ASSUME NEW f, NEW n \in Nat, NEW k \in 1 .. n, NEW s \in WalkOf(f, n)
  PROVE  \E t \in WalkOf(f, k) : t[k] = s[k]
<1> DEFINE t == [i \in 1 .. k |-> s[i]]
<1>1. k \in 1 .. k /\ 1 \in 1 .. k /\ \A i \in 1 .. k - 1 : i \in 1 .. n - 1 /\ i \in 1 .. k /\ i + 1 \in 1 .. k
  OBVIOUS
<1>2. t \in WalkOf(f, k)
  BY <1>1 DEF WalkOf
<1>3. t[k] = s[k]
  BY <1>1
<1> QED BY <1>2, <1>3

\* The end of the list, or of the walk, leaves no capability out.
LEMMA AllSeen ==
  ASSUME CapsWalked, cap = 0 \/ iter = CAPABILITIES
  PROVE  Woken(Cur)
<1> SUFFICES ASSUME NEW n \in 1 .. CAPABILITIES, NEW s \in WalkOf(Cur, n),
                    s[n] = machine[Cur].caps.pm
             PROVE  power[Cur] = 0
  BY DEF Woken, Seen
<1>1. iter \in 0 .. CAPABILITIES /\ CAPABILITIES \in Nat
  BY CapabilitiesAssumption DEF CapsWalked
<1>2. CASE n <= iter
  <2>1. n \in 1 .. iter
    BY <1>1, <1>2
  <2> QED BY <2>1 DEF CapsWalked
<1>3. CASE n > iter
  <2>1. cap = 0 /\ iter + 1 \in 1 .. n /\ n \in Nat
    BY <1>1, <1>3
  <2>2. PICK t \in WalkOf(Cur, iter + 1) : t[iter + 1] = s[iter + 1]
    BY <2>1, WalkBegins, Zenon
  <2>3. s[iter + 1] = 0 /\ s[iter + 1] \in Places(Cur)
    BY <2>1, <2>2, Zenon DEF CapsWalked, WalkOf
  <2> QED BY <2>3 DEF Places
<1> QED BY <1>1, <1>2, <1>3

\* Steps that leave registers, probes and the record alone.
LEMMA ReadStays ==
  ASSUME ReadInv, UNCHANGED <<machine, devices, calls, probes, pci_stage, command, power, dumped>>,
         probes = <<>> => UNCHANGED probe_pc /\ nth' \in Nat,
         probes # <<>> => UNCHANGED nth,
         \/ UNCHANGED <<probe_pc, cap, iter>>
         \/ probe_pc' \notin {"capabilities", "remap"}
  PROVE  ReadInv'
<1>1. ASSUME probes # <<>>
      PROVE  Cur' = Cur
  BY <1>1 DEF Cur
<1>2. \A f : Seen(f)' = Seen(f)
  BY DEF Seen, Places, WalkOf
<1>3. \A f : Woken(f)' <=> Woken(f)
  BY <1>2 DEF Woken
<1>4. \A f : Decodes(f)' <=> Decodes(f)
  BY DEF Decodes
<1>5. CASE probes = <<>>
  BY <1>2, <1>3, <1>4, <1>5 DEF ReadInv
<1>6. CASE probes # <<>> /\ probe_pc' \notin {"capabilities", "remap"}
  BY <1>2, <1>3, <1>4, <1>6 DEF ReadInv
<1>7. CASE probes # <<>> /\ UNCHANGED <<probe_pc, cap, iter>>
  <2>1. CapsWalked' <=> CapsWalked
    BY <1>1, <1>7 DEF CapsWalked, WalkOf, Places
  <2>2. probe_pc \in {"capabilities", "remap"} => Decodes(Cur)'
    BY <1>1, <1>4, <1>7 DEF ReadInv, Decodes
  <2>3. probe_pc = "remap" => Woken(Cur)'
    BY <1>1, <1>2, <1>7 DEF ReadInv, Woken
  <2> QED BY <1>3, <1>4, <1>7, <2>1, <2>2, <2>3 DEF ReadInv
<1> QED BY <1>5, <1>6, <1>7

\* A probe that is on call is called for a function there is.
LEMMA OnCall ==
  ASSUME ScanInv, ReadInv, probes # <<>>
  PROVE  Cur \in DOMAIN machine
  BY DEF ScanInv, TableTrue, ReadInv, Cur

\* A probe has returned.
LEMMA ReadReturns ==
  ASSUME ScanInv, ReadInv, probes # <<>>, probe_pc' = "start",
         UNCHANGED <<machine, devices, calls, pci_stage, nth, command, power>>,
         \/ dumped' = dumped
         \/ dumped' = dumped \cup {Cur} /\ Decodes(Cur) /\ Woken(Cur)
  PROVE  ReadInv'
<1>1. \A f : Seen(f)' = Seen(f)
  BY DEF Seen, Places, WalkOf
<1>2. \A f : (Woken(f)' <=> Woken(f)) /\ (Decodes(f)' <=> Decodes(f))
  BY <1>1 DEF Woken, Decodes
<1>3. \A f \in dumped' : Decodes(f)' /\ Woken(f)'
  BY <1>2 DEF ReadInv
<1>4. dumped' \subseteq DOMAIN machine'
  BY OnCall DEF ReadInv
<1> QED BY <1>3, <1>4 DEF ReadInv

\* The first walk is the first place.
LEMMA StepEnable ==
  ASSUME ScanInv, ReadInv, enable_device, UNCHANGED pvars
  PROVE  ReadInv'
<1> USE DEF enable_device, pvars
<1>1. UNCHANGED <<machine, devices, calls, pci_stage, nth, probes, power, dumped>>
  BY DEF Stay
<1>2. probes # <<>> /\ Cur \in DOMAIN machine /\ Cur' = Cur
  BY OnCall DEF At, Calling, Cur, Stay
<1>3. DOMAIN command' = DOMAIN machine /\ \A f \in DOMAIN machine : command[f] \subseteq command'[f]
  BY DEF ReadInv
<1>4. "mem" \in command'[Cur]
  BY <1>2 DEF ReadInv
<1>5. iter' = 0 /\ cap' = machine[Cur].caps.first /\ probe_pc' = "capabilities"
  OBVIOUS
<1>6. CapsWalked'
  <2>1. 1 .. 0 = {} /\ 0 + 1 = 1
    OBVIOUS
  <2> QED BY <1>1, <1>2, <1>5, <2>1, CapabilitiesAssumption DEF CapsWalked, WalkOf, Places
<1>7. Decodes(Cur)'
  BY <1>2, <1>4 DEF Decodes
<1>8. \A f : Woken(f)' <=> Woken(f)
  BY <1>1 DEF Woken, Seen, WalkOf, Places
<1>9. \A f \in dumped' : Decodes(f)' /\ Woken(f)'
  BY <1>1, <1>3, <1>8 DEF ReadInv, Decodes
<1> QED BY <1>1, <1>2, <1>3, <1>5, <1>6, <1>7, <1>9 DEF ReadInv

\* One more place has been looked at.
LEMMA StepCapability ==
  ASSUME ScanInv, ReadInv, capability, UNCHANGED pvars
  PROVE  ReadInv'
<1> USE DEF capability, pvars
<1> DEFINE pm == machine[Cur].caps.pm
<1>1. UNCHANGED <<machine, devices, calls, pci_stage, nth, probes, dumped, probe_pc>>
  BY DEF Stay
<1>2. /\ probes # <<>> /\ Cur \in DOMAIN machine /\ Cur' = Cur
      /\ probe_pc = "capabilities" /\ Decodes(Cur) /\ CapsWalked
  BY <1>1, OnCall DEF At, Calling, Cur, ReadInv
<1>3. /\ DOMAIN command' = DOMAIN machine /\ DOMAIN power' = DOMAIN machine
      /\ \A f \in DOMAIN machine : power[f] = 0 => power'[f] = 0
      /\ cap = pm => power'[Cur] = 0
  BY <1>2 DEF ReadInv, device_regs, Asleep
<1>4. \A f \in DOMAIN machine : Decodes(f) => Decodes(f)'
  BY <1>1, <1>2 DEF Decodes, device_regs, ReadInv
<1>5. \A f \in DOMAIN machine : Woken(f) => Woken(f)'
  BY <1>1, <1>3 DEF Woken, Seen, WalkOf, Places
<1>6. /\ iter \in Nat /\ iter' = iter + 1 /\ iter' \in 0 .. CAPABILITIES
      /\ cap' = machine[Cur].caps.next[cap] /\ cap # 0
  BY <1>2, CapabilitiesAssumption DEF CapsWalked
<1>7. \A n : WalkOf(Cur, n)' = WalkOf(Cur, n)
  BY <1>1, <1>2 DEF WalkOf, Places
<1>8. ASSUME NEW n \in 1 .. iter + 1, NEW s \in WalkOf(Cur, n), s[n] = pm
      PROVE  power'[Cur] = 0
  <2>1. CASE n \in 1 .. iter
    BY <1>2, <1>3, <1>8, <2>1 DEF CapsWalked
  <2>2. CASE n = iter + 1
    BY <1>2, <1>3, <1>8, <2>2 DEF CapsWalked
  <2> QED BY <1>6, <2>1, <2>2
<1>9. ASSUME NEW s \in WalkOf(Cur, iter + 2)
      PROVE  s[iter + 2] = machine[Cur].caps.next[cap]
  <2>1. iter + 1 \in 1 .. iter + 2 /\ iter + 2 \in Nat /\ iter + 1 \in 1 .. (iter + 2) - 1
        /\ (iter + 1) + 1 = iter + 2
    BY <1>6
  <2>2. s[iter + 1] = cap
    <3>1. PICK t \in WalkOf(Cur, iter + 1) : t[iter + 1] = s[iter + 1]
      BY <2>1, WalkBegins
    <3> QED BY <1>2, <3>1 DEF CapsWalked
  <2> QED BY <2>1, <2>2 DEF WalkOf
<1>10. CapsWalked'
  <2>1. \A n \in 1 .. iter' : \A s \in WalkOf(Cur, n)' : s[n] = machine'[Cur'].caps.pm => power'[Cur'] = 0
    BY <1>1, <1>2, <1>6, <1>7, <1>8
  <2>3. iter' + 1 = iter + 2
    BY <1>6
  <2>4. \A s \in WalkOf(Cur, iter + 2) : s[iter' + 1] = cap'
    BY <1>6, <1>9, <2>3
  <2>5. \A s \in WalkOf(Cur, iter + 1)' : s[iter' + 1] = cap'
    <3>1. WalkOf(Cur, iter + 1)' = WalkOf(Cur, iter' + 1)
      BY <1>1, <1>2 DEF WalkOf, Places
    <3> QED BY <2>3, <2>4, <3>1
  <2> QED BY <1>6, <2>1, <2>5 DEF CapsWalked
<1>11. Decodes(Cur)'
  BY <1>2, <1>4 DEF Decodes
<1>12. \A f \in dumped' : Decodes(f)' /\ Woken(f)'
  BY <1>1, <1>4, <1>5 DEF ReadInv
<1> QED BY <1>1, <1>2, <1>3, <1>10, <1>11, <1>12 DEF ReadInv

\* The last place has been looked at, and the device's BAR is tried once more.
LEMMA StepRemap ==
  ASSUME ScanInv, ReadInv, remap_168c, UNCHANGED pvars
  PROVE  ReadInv'
<1> USE DEF remap_168c, pvars
<1>1. UNCHANGED <<machine, devices, calls, pci_stage, nth, probes, dumped, command, power>>
  BY DEF Stay, device_regs
<1>2. /\ probes # <<>> /\ Cur' = Cur /\ probe_pc = "capabilities"
      /\ cap = 0 \/ iter = CAPABILITIES
  BY <1>1 DEF CapabilitiesSeen, At, Calling, Cur
<1>3. Woken(Cur) /\ Decodes(Cur)
  BY <1>2, AllSeen DEF ReadInv
<1>4. \A f : (Woken(f)' <=> Woken(f)) /\ (Decodes(f)' <=> Decodes(f))
  BY <1>1 DEF Woken, Decodes, Seen, WalkOf, Places
<1>5. Woken(Cur)' /\ Decodes(Cur)'
  <2>1. Woken(Cur)' <=> Woken(Cur)
    BY <1>1, <1>2 DEF Woken, Seen, WalkOf, Places
  <2>2. Decodes(Cur)' <=> Decodes(Cur)
    BY <1>1, <1>2 DEF Decodes
  <2> QED BY <1>3, <2>1, <2>2
<1> QED BY <1>1, <1>2, <1>4, <1>5 DEF ReadInv

\* Registers are read of a device that decodes and is awake.
LEMMA StepDump ==
  ASSUME ScanInv, ReadInv, dump_168c, UNCHANGED pvars
  PROVE  ReadInv'
<1> USE DEF dump_168c, pvars
<1>1. UNCHANGED <<machine, devices, calls, pci_stage, nth, command, power>>
      /\ dumped' = dumped \cup {Cur} /\ probe_pc' = "start"
  BY DEF Stay, device_regs, Returns
<1>2. probes # <<>>
  BY DEF CapabilitiesSeen, Remapped, At, Calling
<1>3. Decodes(Cur) /\ Woken(Cur)
  <2>1. CASE CapabilitiesSeen
    BY <2>1, AllSeen DEF CapabilitiesSeen, At, ReadInv
  <2>2. CASE Remapped
    BY <2>2 DEF Remapped, At, ReadInv
  <2> QED BY <2>1, <2>2
<1> QED BY <1>1, <1>2, <1>3, ReadReturns

\* The next function is probed, or none is left.
LEMMA StepProbeNext ==
  ASSUME ScanInv, ReadInv, probe_next_device, calls = <<>>, UNCHANGED pvars
  PROVE  ReadInv'
<1> USE DEF probe_next_device, pvars
<1>1. UNCHANGED <<machine, devices, calls, dumped, command, power, probe_pc>>
  BY DEF device_regs
<1>2. probe_pc = "start"
  BY DEF ReadInv
<1>3. nth' \in Nat /\ (nth < Len(devices) => nth' \in DOMAIN devices)
  BY DEF ReadInv, ScanInv, TableTrue
<1>4. \A f : (Woken(f)' <=> Woken(f)) /\ (Decodes(f)' <=> Decodes(f))
  BY <1>1 DEF Woken, Decodes, Seen, WalkOf, Places
<1>5. IF probes' = <<>> THEN probe_pc' = "start"
      ELSE calls' = <<>> /\ pci_stage' = "probe" /\ nth' \in DOMAIN devices'
  BY <1>1, <1>2, <1>3
<1> QED BY <1>1, <1>2, <1>3, <1>4, <1>5 DEF ReadInv

\* The drivers are registered before any is called.
LEMMA StepRegister ==
  ASSUME ReadInv, register_drivers, UNCHANGED pvars
  PROVE  ReadInv'
<1> USE DEF register_drivers, pvars
<1>1. UNCHANGED <<machine, devices, calls, dumped, command, power, probe_pc, probes>>
  BY DEF device_regs
<1>2. probes = <<>> /\ nth' = 0 /\ probe_pc = "start"
  BY DEF ReadInv
<1>3. \A f : (Woken(f)' <=> Woken(f)) /\ (Decodes(f)' <=> Decodes(f))
  BY <1>1 DEF Woken, Decodes, Seen, WalkOf, Places
<1> QED BY <1>1, <1>2, <1>3 DEF ReadInv

\* Every step of the drivers keeps what is known of the device on call.
LEMMA ReadStep ==
  ASSUME ScanInv, ReadInv, DriversNext \/ ide_probe_returns, calls = <<>>, UNCHANGED pvars
  PROVE  ReadInv'
<1> USE DEF pvars
<1>1. CASE pass_bar \/ map_mmio \/ vmm_map_page
  BY <1>1, ReadStays DEF pass_bar, map_mmio, vmm_map_page, StayMapping, device_regs, walkvars, ReadInv
<1>2. CASE map_next_device
  BY <1>2, ReadStays DEF map_next_device, device_regs, walkvars, ReadInv
<1>3. CASE start_168c \/ walk_upstream
  BY <1>3, ReadStays DEF start_168c, walk_upstream, At, Calling, Stay, device_regs
<1>4. CASE probe_ath_maps \/ ath_eeprom_read
  BY <1>4, ReadStays DEF probe_ath_maps, ath_eeprom_read, At, Calling, Stay, device_regs, walkvars
<1>5. CASE probe_ath_mapped
  <2>1. CASE bar_virt[Cur][1] = 0
    BY <1>5, <2>1, ReadReturns DEF probe_ath_mapped, At, Calling, Stay, device_regs, Returns
  <2>2. CASE bar_virt[Cur][1] # 0
    BY <1>5, <2>2, ReadStays DEF probe_ath_mapped, At, Calling, Stay, device_regs, walkvars
  <2> QED BY <2>1, <2>2
<1>6. CASE probe_ath_ends \/ ahci_probe \/ ide_probe_returns
  BY <1>6, ReadReturns
  DEF probe_ath_ends, ahci_probe, ide_probe_returns, At, Calling, Stay, device_regs, Returns
<1>7. CASE give_up_168c
  BY <1>7, ReadReturns
  DEF give_up_168c, CapabilitiesSeen, Remapped, At, Calling, Stay, device_regs, Returns
<1> QED BY <1>1, <1>2, <1>3, <1>4, <1>5, <1>6, <1>7, StepRegister, StepProbeNext, StepEnable,
           StepCapability, StepRemap, StepDump DEF DriversNext

\* No probe is on call at the beginning.
LEMMA ReadFirst == DriversInit => ReadInv
  BY DEF DriversInit, ReadInv

\* The scan is over when a probe is on call.
LEMMA ReadScan ==
  ASSUME ReadInv, PciNext, UNCHANGED dvars
  PROVE  ReadInv'
<1>1. UNCHANGED machine /\ calls # <<>>
  BY DEF PciNext, scan_no_device, scan_no_function, probe_next_bar, scan_function, scan_return,
         Goes_on
<1>2. probes = <<>> /\ probe_pc = "start"
  BY <1>1 DEF ReadInv
<1>3. UNCHANGED <<probes, probe_pc, nth, command, power, dumped>>
  BY DEF dvars, device_regs
<1>4. \A f : (Woken(f)' <=> Woken(f)) /\ (Decodes(f)' <=> Decodes(f))
  BY <1>1, <1>3 DEF Woken, Decodes, Seen, WalkOf, Places
<1> QED BY <1>1, <1>2, <1>3, <1>4 DEF ReadInv

----------------------------------------------------------------------------
(* The identification of the drives *)

Commands == {"IDENTIFY", "IDENTIFY_PACKET"}
DriveRecord ==
  [busy : BOOLEAN, err : BOOLEAN, drq : BOOLEAN, sig : {"ata", "atapi", "other"},
   cmd : {"none", "reset"} \cup Commands]

\* The places the driver has done with.
Past ==
  IF ide_pc = "done" THEN Drives
  ELSE {d \in Drives : d[1] < at[1] \/ (d[1] = at[1] /\ d[2] < at[2])}

\* What a drive shows is its answer to its command.
Answered(d) ==
  /\ drive[d].busy => ~drive[d].err /\ ~drive[d].drq
  /\ drive[d].drq => Understands(d, drive[d].cmd)
  /\ drive[d].err => ~Understands(d, drive[d].cmd)

\* How far the driver is with the place it looks at.
AtPlace ==
  /\ at \in Drives
  /\ ide_pc = "attach" => at = <<0, 0>>
  /\ ide_pc # "attach" =>
       "io" \in ide_command /\ \A c \in Channels : ports[c] = IF c \in native THEN "bar" ELSE "legacy"
  /\ ide_pc \in {"select", "issued", "retried", "drq"} => sel[at[1]] = at[2] /\ Present_at(at)
  /\ ide_pc \in {"select", "issued", "retried"} => cmd \in Commands
  /\ ide_pc \in {"issued", "retried"} => drive[at].cmd = cmd
  /\ ide_pc = "retried" => (Sound_drive(at) => Understands(at, cmd))

Identified(d) == Sound_drive(d) => \E r \in found : r.place = d

IdentifyInv ==
  /\ native \subseteq bar_io
  /\ drive \in [Drives -> DriveRecord] /\ sel \in [Channels -> {0, 1}]
  /\ ide_pc \in {"attach", "probe", "select", "issued", "retried", "drq", "done"}
  /\ AtPlace
  /\ \A d \in Drives : Answered(d)
  /\ \A r \in found : r.from = r.place /\ Understands(r.place, r.by)
  /\ \A d \in Past \ missed : Identified(d)

\* The four places, each given by its channel and its number.
LEMMA Places4 ==
  /\ Drives = {<<0, 0>>, <<0, 1>>, <<1, 0>>, <<1, 1>>}
  /\ \A d \in Drives : d[1] \in Channels /\ d[2] \in {0, 1} /\ d = <<d[1], d[2]>>
  BY DEF Drives, Channels

\* The driver goes on to the next place, done with this one.
LEMMA NextPlaceDone ==
  ASSUME at \in Drives, NextPlace, ide_pc # "done"
  PROVE  /\ ide_pc' \in {"probe", "done"} /\ at' \in Drives
         /\ Past' = Past \cup {at}
<1>1. at \in {<<0, 0>>, <<0, 1>>, <<1, 0>>, <<1, 1>>}
  BY Places4
<1>2. CASE at = <<1, 1>>
  <2>1. ide_pc' = "done" /\ at' = at
    BY <1>2 DEF NextPlace
  <2>2. Past' = Drives
    BY <2>1 DEF Past
  <2>3. Past \cup {at} = Drives
    BY <1>2, Places4 DEF Past
  <2> QED BY <2>1, <2>2, <2>3
<1>3. CASE at = <<0, 0>>
  <2>1. ide_pc' = "probe" /\ at' = <<0, 1>>
    BY <1>3 DEF NextPlace
  <2>2. Past' = {<<0, 0>>} /\ Past = {}
    BY <1>3, <2>1, Places4 DEF Past
  <2> QED BY <1>3, <2>1, <2>2, Places4
<1>4. CASE at = <<0, 1>>
  <2>1. ide_pc' = "probe" /\ at' = <<1, 0>>
    BY <1>4 DEF NextPlace
  <2>2. Past' = {<<0, 0>>, <<0, 1>>} /\ Past = {<<0, 0>>}
    BY <1>4, <2>1, Places4 DEF Past
  <2> QED BY <1>4, <2>1, <2>2, Places4
<1>5. CASE at = <<1, 0>>
  <2>1. ide_pc' = "probe" /\ at' = <<1, 1>>
    BY <1>5 DEF NextPlace
  <2>2. Past' = {<<0, 0>>, <<0, 1>>, <<1, 0>>} /\ Past = {<<0, 0>>, <<0, 1>>}
    BY <1>5, <2>1, Places4 DEF Past
  <2> QED BY <1>5, <2>1, <2>2, Places4
<1> QED BY <1>1, <1>2, <1>3, <1>4, <1>5

\* The driver has done with a place: its drive is identified or was missed.
LEMMA PlaceDone ==
  ASSUME IdentifyInv, NextPlace, ide_pc \notin {"attach", "done"},
         UNCHANGED <<kind, native, bar_io, ide_command, ports>>,
         drive' \in [Drives -> DriveRecord], sel' \in [Channels -> {0, 1}],
         \A d \in Drives : Answered(d)',
         found \subseteq found', missed \subseteq missed',
         \A r \in found' : r.from = r.place /\ Understands(r.place, r.by),
         at \in missed' \/ ~Sound_drive(at) \/ \E r \in found' : r.place = at
  PROVE  IdentifyInv'
<1>1. /\ ide_pc' \in {"probe", "done"} /\ at' \in Drives
      /\ Past' = Past \cup {at}
  BY NextPlaceDone DEF IdentifyInv, AtPlace
<1>2. AtPlace'
  BY <1>1 DEF IdentifyInv, AtPlace
<1>3. \A d : Sound_drive(d)' <=> Sound_drive(d)
  BY DEF Sound_drive
<1>4. ASSUME NEW d \in Past' \ missed'
      PROVE  Identified(d)'
  <2>1. CASE d = at
    BY <1>3, <2>1 DEF Identified
  <2>2. CASE d # at
    BY <1>1, <1>3, <2>2 DEF IdentifyInv, Identified
  <2> QED BY <2>1, <2>2
<1>5. \A r \in found' : r.from = r.place /\ Understands(r.place, r.by)'
  BY DEF Understands, Packet
<1> QED BY <1>1, <1>2, <1>4, <1>5 DEF IdentifyInv

\* Steps that stay at the place and leave the record alone.
LEMMA PlaceKept ==
  ASSUME IdentifyInv, UNCHANGED <<kind, native, bar_io, ide_command, ports, at, found, missed>>,
         drive' \in [Drives -> DriveRecord], sel' \in [Channels -> {0, 1}],
         \A d \in Drives : Answered(d)',
         ide_pc # "attach", ide_pc # "done",
         ide_pc' \in {"select", "issued", "retried", "drq"},
         sel'[at[1]] = at[2] /\ Present_at(at),
         ide_pc' # "drq" => cmd' \in Commands,
         ide_pc' \in {"issued", "retried"} => drive'[at].cmd = cmd',
         ide_pc' = "retried" => (Sound_drive(at) => Understands(at, cmd'))
  PROVE  IdentifyInv'
<1>1. \A d : Sound_drive(d)' <=> Sound_drive(d)
  BY DEF Sound_drive
<1>2. \A d, c : /\ (kind' = kind) => (Packet(d)' <=> Packet(d))
                /\ Present_at(d)' <=> Present_at(d)
  BY DEF Packet, Present_at
<1>3. AtPlace'
  BY DEF IdentifyInv, AtPlace, Present_at, Sound_drive, Understands, Packet
<1>4. Past' = Past
  BY DEF Past
<1>5. \A d \in Past' \ missed' : Identified(d)'
  BY <1>1, <1>4 DEF IdentifyInv, Identified
<1>6. \A r \in found' : r.from = r.place /\ Understands(r.place, r.by)'
  BY DEF IdentifyInv, Understands, Packet
<1> QED BY <1>3, <1>5, <1>6 DEF IdentifyInv

\* A drive does what it is told on its own.
LEMMA StepAnswer ==
  ASSUME IdentifyInv, NEW d \in Drives, Answer(d)
  PROVE  IdentifyInv'
<1> DEFINE s == Command_done(d, drive[d])
<1>1. UNCHANGED <<kind, native, bar_io, ide_command, ports, sel, ide_pc, at, cmd, found, missed>>
  BY DEF Answer
<1>2. drive[d] \in DriveRecord /\ drive[d].busy /\ Answered(d)
  BY DEF IdentifyInv, Answer
<1>3. drive' = [drive EXCEPT ![d] = s]
  BY DEF Answer
<1>4. /\ s \in DriveRecord /\ drive[d].cmd \in Commands => s.cmd = drive[d].cmd
      /\ s.drq => Understands(d, s.cmd)
      /\ s.err => ~Understands(d, s.cmd)
      /\ s.busy = FALSE
  BY <1>2 DEF DriveRecord, Answered, Commands, Command_done
<1>5. s \in DriveRecord
  BY <1>2, Zenon DEF DriveRecord, Answered, Commands, Command_done
<1> HIDE DEF s
<1>6. /\ drive' \in [Drives -> DriveRecord] /\ drive'[d] = s
      /\ \A e \in Drives : e # d => drive'[e] = drive[e]
  BY <1>3, <1>5 DEF IdentifyInv
<1>7. ASSUME NEW e \in Drives
      PROVE  Answered(e)'
  <2>1. CASE e = d
    BY <1>1, <1>4, <1>6, <2>1 DEF Answered, Understands, Packet
  <2>2. CASE e # d
    BY <1>1, <1>6, <2>2 DEF IdentifyInv, Answered, Understands, Packet
  <2> QED BY <2>1, <2>2
<1>8. ide_pc \in {"issued", "retried"} => drive'[at].cmd = cmd
  BY <1>4, <1>5, <1>6 DEF IdentifyInv, AtPlace
<1>9. AtPlace'
  BY <1>1, <1>8 DEF IdentifyInv, AtPlace, Present_at, Sound_drive, Understands, Packet
<1>10. Past' = Past
  BY <1>1 DEF Past
<1>11. \A e \in Past' \ missed' : Identified(e)'
  BY <1>1, <1>10 DEF IdentifyInv, Identified, Sound_drive
<1>12. \A f \in found' : f.from = f.place /\ Understands(f.place, f.by)'
  BY <1>1 DEF IdentifyInv, Understands, Packet
<1> QED BY <1>1, <1>6, <1>7, <1>9, <1>11, <1>12 DEF IdentifyInv

\* What the driver sees of the drive it has selected is that drive's.
LEMMA SeesDrive ==
  ASSUME IdentifyInv, ide_pc \in {"select", "issued", "retried", "drq"}
  PROVE  /\ Selected = at /\ Present_at(at) /\ at \in Drives
         /\ BSY <=> ~Floating /\ drive[at].busy
         /\ DRQ <=> ~Floating /\ drive[at].drq
         /\ ERR <=> ~Floating /\ drive[at].err
<1>1. at \in Drives /\ sel[at[1]] = at[2] /\ Present_at(at)
  BY DEF IdentifyInv, AtPlace
<1>2. Selected = at
  BY <1>1, Places4 DEF Selected
<1> QED BY <1>1, <1>2 DEF BSY, DRQ, ERR, Zero

\* A command reaches the selected drive, which is not busy.
LEMMA IssueReaches ==
  ASSUME IdentifyInv, NEW c \in Commands, NEW clears \in BOOLEAN, Issue(c, clears), UNCHANGED kind,
         Selected = at, at \in Drives, ~drive[at].busy
  PROVE  /\ drive' \in [Drives -> DriveRecord] /\ drive'[at].cmd = c
         /\ \A d \in Drives : Answered(d)'
<1>1. ASSUME NEW d \in Drives
      PROVE  drive'[d] \in DriveRecord /\ Answered(d)' /\ (d = at => drive'[d].cmd = c)
  <2>1. drive[d] \in DriveRecord /\ Answered(d)
    BY DEF IdentifyInv
  <2>2. \A e : Understands(d, e)' <=> Understands(d, e)
    BY DEF Understands, Packet
  <2>3. CASE d[1] # at[1] \/ drive[d].busy
    <3>1. drive'[d] = drive[d] /\ d # at
      BY <2>3 DEF Issue
    <3> QED BY <2>1, <3>1 DEF Answered, Understands, Packet
  <2>4. CASE ~(d[1] # at[1] \/ drive[d].busy)
    <3>1. drive'[d] = [busy |-> d = at \/ drive[d].busy,
                       err  |-> drive[d].err /\ d # at,
                       drq  |-> drive[d].drq /\ d # at,
                       sig  |-> IF clears THEN "ata" ELSE drive[d].sig,
                       cmd  |-> IF d = at THEN c ELSE drive[d].cmd]
      BY <2>4 DEF Issue
    <3> QED BY <2>1, <2>4, <3>1 DEF Answered, Understands, Packet, DriveRecord
  <2> QED BY <2>3, <2>4
<1>2. drive' = [d \in Drives |-> drive'[d]]
  BY DEF Issue
<1> QED BY <1>1, <1>2

\* The driver looks at the ports the controller decodes, and lets it decode them.
LEMMA StepAttach ==
  ASSUME IdentifyInv, ide_attach
  PROVE  IdentifyInv'
<1> USE DEF ide_attach
<1>1. UNCHANGED <<kind, native, bar_io, sel, drive, found, missed, at>>
  BY DEF IdentifyInv, AtPlace
<1>2. ide_pc = "attach" /\ ide_pc' = "probe"
  OBVIOUS
<1>3. "io" \in ide_command' /\ \A c \in Channels : ports'[c] = IF c \in native THEN "bar" ELSE "legacy"
  BY DEF IdentifyInv, Ports
<1>4. AtPlace'
  BY <1>1, <1>2, <1>3 DEF IdentifyInv, AtPlace
<1>5. Past' = Past
  BY <1>1, <1>2 DEF Past
<1>6. \A d \in Past' \ missed' : Identified(d)'
  BY <1>1, <1>5 DEF IdentifyInv, Identified, Sound_drive
<1>7. \A d \in Drives : Answered(d)'
  BY <1>1 DEF IdentifyInv, Answered, Understands, Packet
<1>8. \A r \in found' : r.from = r.place /\ Understands(r.place, r.by)'
  BY <1>1 DEF IdentifyInv, Understands, Packet
<1> QED BY <1>1, <1>2, <1>4, <1>6, <1>7, <1>8 DEF IdentifyInv

\* A sound drive that is not busy has a signature to show.
LEMMA StepPresent ==
  ASSUME IdentifyInv, ide_check_device_present
  PROVE  IdentifyInv'
<1> USE DEF ide_check_device_present
<1>1. UNCHANGED <<kind, native, bar_io, ide_command, ports, drive, found>> /\ ide_pc = "probe"
  OBVIOUS
<1>2. at \in Drives /\ at[1] \in Channels /\ at[2] \in {0, 1} /\ at = <<at[1], at[2]>>
  BY Places4 DEF IdentifyInv, AtPlace
<1>3. sel' \in [Channels -> {0, 1}] /\ sel'[at[1]] = at[2]
  BY <1>2 DEF IdentifyInv, Select
<1>4. <<at[1], sel'[at[1]]>> = at
  BY <1>2, <1>3
<1>5. \A d \in Drives : Answered(d)'
  BY <1>1 DEF IdentifyInv, Answered, Understands, Packet
<1>6. drive' \in [Drives -> DriveRecord]
  BY <1>1 DEF IdentifyInv
<1>7. CASE Device_type(at) = 0
  <2>1. NextPlace /\ missed' = IF drive[at].busy THEN missed \cup {at} ELSE missed
    BY <1>4, <1>7
  <2>2. at \in missed' \/ ~Sound_drive(at)
    <3>1. SUFFICES ASSUME ~drive[at].busy, Sound_drive(at)
                   PROVE  FALSE
      BY <2>1
    <3>2. Present_at(at)
      BY <3>1 DEF Sound_drive, Present_at
    <3>3. Present_at(<<at[1], 0>>) \/ Present_at(<<at[1], 1>>)
      BY <1>2, <3>2
    <3>4. Answers(at[1])
      BY <1>1, <1>2, <3>3 DEF Answers, IdentifyInv, AtPlace
    <3>5. Device_type(at) \in {1, 2, 3}
      BY <3>1, <3>2, <3>4 DEF Device_type
    <3> QED BY <1>7, <3>5
  <2>3. \A r \in found' : r.from = r.place /\ Understands(r.place, r.by)
    BY <1>1 DEF IdentifyInv
  <2> QED BY <1>1, <1>3, <1>5, <1>6, <2>1, <2>2, <2>3, PlaceDone
<1>8. CASE Device_type(at) # 0
  <2>1. /\ cmd' = IF Device_type(at) = 2 THEN "IDENTIFY_PACKET" ELSE "IDENTIFY"
        /\ ide_pc' = "select" /\ UNCHANGED <<at, missed>>
    BY <1>4, <1>8
  <2>2. Present_at(at)
    BY <1>8 DEF Device_type
  <2>3. cmd' \in Commands
    BY <2>1 DEF Commands
  <2> QED BY <1>1, <1>3, <1>5, <1>6, <2>1, <2>2, <2>3, PlaceKept
<1> QED BY <1>7, <1>8

\* The first command is issued to the drive of the place.
LEMMA StepIssue ==
  ASSUME IdentifyInv, issue_command
  PROVE  IdentifyInv'
<1> USE DEF issue_command
<1>1. UNCHANGED <<kind, native, bar_io, ide_command, ports, sel, at, cmd, found, missed>>
      /\ ide_pc = "select" /\ ide_pc' = "issued"
  OBVIOUS
<1>2. Selected = at /\ Present_at(at) /\ at \in Drives /\ ~drive[at].busy
  BY SeesDrive
<1>3. cmd \in Commands /\ sel[at[1]] = at[2] /\ sel \in [Channels -> {0, 1}]
  BY <1>1 DEF IdentifyInv, AtPlace
<1>4. /\ drive' \in [Drives -> DriveRecord] /\ drive'[at].cmd = cmd
      /\ \A d \in Drives : Answered(d)'
  BY <1>1, <1>2, <1>3, IssueReaches, Zenon
<1> QED BY <1>1, <1>2, <1>3, <1>4, PlaceKept

\* A sound drive that aborts one command understands the other.
LEMMA StepAlternate ==
  ASSUME IdentifyInv, try_alternate
  PROVE  IdentifyInv'
<1> USE DEF try_alternate
<1>1. UNCHANGED <<kind, native, bar_io, ide_command, ports, sel, at, found, missed>>
      /\ ide_pc = "issued" /\ ide_pc' = "retried" /\ cmd' = OtherCommand(cmd)
  OBVIOUS
<1>2. Selected = at /\ Present_at(at) /\ at \in Drives /\ ~drive[at].busy /\ drive[at].err
  BY SeesDrive
<1>3. /\ cmd \in Commands /\ sel[at[1]] = at[2] /\ sel \in [Channels -> {0, 1}]
      /\ drive[at].cmd = cmd /\ Answered(at)
  BY <1>1, <1>2 DEF IdentifyInv, AtPlace
<1>4. cmd' \in Commands
  BY <1>1 DEF Commands, OtherCommand
<1>5. /\ drive' \in [Drives -> DriveRecord] /\ drive'[at].cmd = cmd'
      /\ \A d \in Drives : Answered(d)'
  BY <1>1, <1>2, <1>4, IssueReaches, Zenon
<1>6. ~Understands(at, cmd)
  BY <1>2, <1>3 DEF Answered
<1>7. Sound_drive(at) => Understands(at, cmd')
  BY <1>1, <1>3, <1>6 DEF Sound_drive, Understands, Packet, OtherCommand, Commands
<1> QED BY <1>1, <1>2, <1>3, <1>4, <1>5, <1>7, PlaceKept

\* A drive that aborts both commands is not sound.
LEMMA StepAborted ==
  ASSUME IdentifyInv, both_aborted
  PROVE  IdentifyInv'
<1> USE DEF both_aborted, Fails
<1>1. UNCHANGED <<kind, native, bar_io, ide_command, ports, sel, drive, found, missed>>
      /\ ide_pc = "retried" /\ NextPlace
  OBVIOUS
<1>2. at \in Drives /\ drive[at].err
  BY SeesDrive
<1>3. ~Sound_drive(at)
  BY <1>1, <1>2 DEF IdentifyInv, AtPlace, Answered
<1>4. \A d \in Drives : Answered(d)'
  BY <1>1 DEF IdentifyInv, Answered, Understands, Packet
<1>5. drive' \in [Drives -> DriveRecord] /\ sel' \in [Channels -> {0, 1}]
      /\ \A r \in found' : r.from = r.place /\ Understands(r.place, r.by)
  BY <1>1 DEF IdentifyInv
<1> QED BY <1>1, <1>3, <1>4, <1>5, PlaceDone

\* The driver waits for the data of the drive of the place.
LEMMA StepNotAborted ==
  ASSUME IdentifyInv, not_aborted
  PROVE  IdentifyInv'
<1> USE DEF not_aborted
<1>1. UNCHANGED <<kind, native, bar_io, ide_command, ports, sel, drive, at, cmd, found, missed>>
      /\ ide_pc \in {"issued", "retried"} /\ ide_pc' = "drq"
  OBVIOUS
<1>2. Present_at(at) /\ sel[at[1]] = at[2]
  BY <1>1 DEF IdentifyInv, AtPlace
<1>4. \A d \in Drives : Answered(d)'
  BY <1>1 DEF IdentifyInv, Answered, Understands, Packet
<1>5. drive' \in [Drives -> DriveRecord] /\ sel' \in [Channels -> {0, 1}]
  BY <1>1 DEF IdentifyInv
<1> QED BY <1>1, <1>2, <1>4, <1>5, PlaceKept

\* The data is the answer of the drive to a command it understands.
LEMMA StepRead ==
  ASSUME IdentifyInv, read_data
  PROVE  IdentifyInv'
<1>1. UNCHANGED <<kind, native, bar_io, ide_command, ports, sel, missed>>
      /\ ide_pc = "drq" /\ NextPlace
  BY DEF read_data
<1>2. Selected = at /\ at \in Drives /\ drive[at].drq
  BY SeesDrive DEF read_data
<1>3. Understands(at, drive[at].cmd) /\ drive[at] \in DriveRecord
  BY <1>2 DEF IdentifyInv, Answered
<1>4. /\ drive' = [drive EXCEPT ![at].drq = FALSE]
      /\ found' = IF kind[at] = "blank" THEN found
                  ELSE found \cup {[place |-> at, from |-> at, by |-> drive[at].cmd]}
  BY <1>2 DEF read_data
<1>5. /\ drive' \in [Drives -> DriveRecord]
      /\ \A d \in Drives : Answered(d)'
  <2>1. drive'[at] = [drive[at] EXCEPT !.drq = FALSE] /\ \A d \in Drives : d # at => drive'[d] = drive[d]
    BY <1>2, <1>4 DEF IdentifyInv
  <2>2. drive'[at] \in DriveRecord /\ drive'[at].cmd = drive[at].cmd /\ drive'[at].busy = drive[at].busy
        /\ drive'[at].err = drive[at].err /\ drive'[at].drq = FALSE
    BY <1>3, <2>1, Zenon DEF DriveRecord
  <2>3. ASSUME NEW d \in Drives
        PROVE  Answered(d)'
    <3>1. Answered(d) /\ \A e : Understands(d, e)' <=> Understands(d, e)
      BY <1>1 DEF IdentifyInv, Understands, Packet
    <3>2. CASE d = at
      BY <1>3, <2>2, <3>1, <3>2 DEF Answered, DriveRecord
    <3>3. CASE d # at
      <4>1. drive'[d] = drive[d]
        BY <2>1, <3>3
      <4> QED BY <1>1, <3>1, <4>1 DEF Answered, Understands, Packet
    <3> QED BY <3>2, <3>3
  <2> QED BY <1>2, <1>4, <2>2, <2>3 DEF IdentifyInv
<1>6. found \subseteq found' /\ \A r \in found' : r.from = r.place /\ Understands(r.place, r.by)
  BY <1>3, <1>4 DEF IdentifyInv
<1>7. ~Sound_drive(at) \/ \E r \in found' : r.place = at
  <2>1. CASE kind[at] = "blank"
    BY <2>1 DEF Sound_drive
  <2>2. CASE kind[at] # "blank"
    <3> DEFINE r == [place |-> at, from |-> at, by |-> drive[at].cmd]
    <3>1. r \in found' /\ r.place = at
      BY <1>4, <2>2
    <3> QED BY <3>1
  <2> QED BY <2>1, <2>2
<1> QED BY <1>1, <1>5, <1>6, <1>7, PlaceDone DEF IdentifyInv

\* A drive that is given up counts as missed.
LEMMA StepGiveUp ==
  ASSUME IdentifyInv, give_up
  PROVE  IdentifyInv'
<1> USE DEF give_up, Fails
<1>1. UNCHANGED <<kind, native, bar_io, ide_command, ports, sel, drive, found>>
      /\ ide_pc \in {"select", "issued", "retried", "drq"} /\ NextPlace /\ missed' = missed \cup {at}
  OBVIOUS
<1>4. \A d \in Drives : Answered(d)'
  BY <1>1 DEF IdentifyInv, Answered, Understands, Packet
<1>5. drive' \in [Drives -> DriveRecord] /\ sel' \in [Channels -> {0, 1}]
      /\ \A r \in found' : r.from = r.place /\ Understands(r.place, r.by)
  BY <1>1 DEF IdentifyInv
<1> QED BY <1>1, <1>4, <1>5, PlaceDone

\* Every step of the driver or of a drive keeps what is known of the
\* identification.
LEMMA IdentifyStep == IdentifyInv /\ IdeNext => IdentifyInv'
  BY StepAnswer, StepAttach, StepPresent, StepIssue, StepAlternate, StepAborted, StepNotAborted,
     StepRead, StepGiveUp
  DEF IdeNext, IdeDriver

\* At the beginning no drive shows an answer, and no place is done with.
LEMMA IdentifyFirst ==
  ASSUME NEW m, IdeMachine(m), IdeInit(m)
  PROVE  IdentifyInv
<1> USE DEF IdeInit
<1>1. native \subseteq bar_io
  BY DEF IdeMachine
<1>2. drive \in [Drives -> DriveRecord] /\ sel \in [Channels -> {0, 1}]
  BY DEF DriveRecord, OwnSignature
<1>3. \A d \in Drives : Answered(d)
  BY DEF Answered
<1>4. Past = {}
  BY Places4 DEF Past
<1>5. AtPlace
  BY Places4 DEF AtPlace
<1> QED BY <1>1, <1>2, <1>3, <1>4, <1>5 DEF IdentifyInv

\* When the last place is done with, every sound drive is identified or was
\* missed.
LEMMA IdentifyTrue == IdentifyInv => DrivesIdentified
  BY DEF IdentifyInv, DrivesIdentified, Past, Identified

----------------------------------------------------------------------------
(* Finding a file of a volume, and reading it *)

\* The entry at an offset, and that a scan goes on from there.
EntryAt(b, o) == ContentAt(b, o, NoEntry)
GoesOn(v, b, o) == o < v.block_size /\ EntryAt(b, o).inode # 0 /\ EntryAt(b, o).rec_len \in 1 .. v.block_size

\* The scan of a block is a function of the offset it has come to.
LEMMA ScanListed ==
  ASSUME NEW v, v.block_size \in Nat, NEW b, NEW name
  PROVE  \E from :
           /\ ScanBlock(v, b, name) = from[0]
           /\ \A o \in Nat : from[o] = IF GoesOn(v, b, o)
                                       THEN IF EntryAt(b, o).name = name THEN EntryAt(b, o).inode
                                            ELSE from[o + EntryAt(b, o).rec_len]
                                       ELSE 0
<1> DEFINE There(o) == GoesOn(v, b, o)
           C == {o \in Nat : There(o)}
           After_it(o) == o + EntryAt(b, o).rec_len
           Goto == [o \in C |-> After_it(o)]
           ino(o) == EntryAt(b, o).inode
           is(o) == EntryAt(b, o).name = name
           X == {0} \cup {ino(o) : o \in Nat}
           Step == [o \in C |-> [x \in X |-> IF is(o) THEN ino(o) ELSE x]]
           Is(g) == g = [o \in Nat |->
                           LET e == ContentAt(b, o, NoEntry)
                           IN  IF o >= v.block_size \/ e.inode = 0 \/ e.rec_len \notin 1 .. v.block_size THEN 0
                               ELSE IF e.name = name THEN e.inode ELSE g[o + e.rec_len]]
           Has(g) == \A o \in Nat : g[o] = IF There(o) THEN IF is(o) THEN ino(o) ELSE g[After_it(o)] ELSE 0
           from == CHOOSE g : Is(g)
<1>1. \A o \in C : o \in Nat /\ o < v.block_size /\ After_it(o) \in Nat /\ o < After_it(o)
  <2> SUFFICES ASSUME NEW o \in Nat, There(o)
               PROVE  o < v.block_size /\ After_it(o) \in Nat /\ o < After_it(o)
    OBVIOUS
  <2>1. EntryAt(b, o).rec_len \in Nat \ {0} /\ o < v.block_size
    BY DEF GoesOn
  <2> QED BY <2>1
<1>2. 0 \in X /\ \A o \in Nat : ino(o) \in X
  OBVIOUS
<1>3. \A g : Is(g) => Has(g)
  <2> SUFFICES ASSUME NEW g, Is(g), NEW o \in Nat
               PROVE  g[o] = IF There(o) THEN IF is(o) THEN ino(o) ELSE g[After_it(o)] ELSE 0
    OBVIOUS
  <2>1. o >= v.block_size <=> ~(o < v.block_size)
    OBVIOUS
  <2> QED BY <2>1 DEF GoesOn, EntryAt
<1>4. \A g \in [Nat -> X] : Has(g) => Is(g)
  <2> SUFFICES ASSUME NEW g \in [Nat -> X], Has(g)  PROVE Is(g)
    OBVIOUS
  <2>1. \A o \in Nat : o >= v.block_size <=> ~(o < v.block_size)
    OBVIOUS
  <2>2. ASSUME NEW o \in Nat
        PROVE  g[o] = LET e == ContentAt(b, o, NoEntry)
                      IN  IF o >= v.block_size \/ e.inode = 0 \/ e.rec_len \notin 1 .. v.block_size THEN 0
                          ELSE IF e.name = name THEN e.inode ELSE g[o + e.rec_len]
    BY <2>1 DEF GoesOn, EntryAt
  <2> QED BY <2>2
<1>5. ScanBlock(v, b, name) = from[0]
  BY DEF ScanBlock
<1> HIDE DEF There, After_it, ino, is, X, Is, from
<1>6. Forward(v.block_size, C, Goto) /\ \A o \in C : Goto[o] = After_it(o)
  BY <1>1 DEF Forward
<1>7. Step \in [C -> [X -> X]] /\ \A o \in C : \A x \in X : Step[o][x] = IF is(o) THEN ino(o) ELSE x
  BY <1>2
<1> HIDE DEF Step, Goto
<1>8. PICK g \in [Nat -> X] : Gathers(g, C, Goto, 0, Step)
  BY <1>2, <1>6, <1>7, WalkExists, Zenon
<1>9. Has(g)
  <2> SUFFICES ASSUME NEW o \in Nat
               PROVE  g[o] = IF There(o) THEN IF is(o) THEN ino(o) ELSE g[After_it(o)] ELSE 0
    OBVIOUS
  <2>1. CASE There(o)
    <3>1. o \in C /\ Goto[o] = After_it(o) /\ After_it(o) \in Nat /\ g[Goto[o]] \in X
      BY <1>1, <1>6, <1>8, <2>1
    <3>2. g[o] = Step[o][g[Goto[o]]]
      BY <1>8, <3>1 DEF Gathers
    <3> QED BY <1>7, <2>1, <3>1, <3>2
  <2>2. CASE ~There(o)
    BY <1>8, <2>2 DEF Gathers
  <2> QED BY <2>1, <2>2
<1>10. Is(g)
  BY <1>4, <1>9
<1>11. Is(from)
  BY <1>10 DEF from
<1>12. Has(from)
  BY <1>3, <1>11
<1> QED BY <1>5, <1>12 DEF There, After_it, ino, is

\* What a scan finds is an entry of the name.
LEMMA ScanHits ==
  ASSUME NEW v, v.block_size \in Nat, NEW b, NEW name, ScanBlock(v, b, name) # 0
  PROVE  \E o \in DOMAIN b.at : /\ b.at[o].name = name /\ b.at[o].inode # 0
                                /\ b.at[o].inode = ScanBlock(v, b, name)
<1> DEFINE C == {o \in Nat : GoesOn(v, b, o)}
           Goto == [o \in C |-> o + EntryAt(b, o).rec_len]
           X == {0} \cup {b.at[o].inode : o \in {p \in DOMAIN b.at : b.at[p].name = name /\ b.at[p].inode # 0}}
<1>1. PICK from :
        /\ ScanBlock(v, b, name) = from[0]
        /\ \A o \in Nat : from[o] = IF GoesOn(v, b, o)
                                    THEN IF EntryAt(b, o).name = name THEN EntryAt(b, o).inode
                                         ELSE from[o + EntryAt(b, o).rec_len]
                                    ELSE 0
  BY ScanListed
<1>2. Forward(v.block_size, C, Goto)
  <2>1. \A o \in C : /\ o \in 0 .. v.block_size /\ o + EntryAt(b, o).rec_len \in Nat
                     /\ o < o + EntryAt(b, o).rec_len
    <3> SUFFICES ASSUME NEW o \in Nat, GoesOn(v, b, o)
                 PROVE  /\ o \in 0 .. v.block_size /\ o + EntryAt(b, o).rec_len \in Nat
                        /\ o < o + EntryAt(b, o).rec_len
      OBVIOUS
    <3>1. EntryAt(b, o).rec_len \in Nat \ {0} /\ o < v.block_size
      BY DEF GoesOn
    <3> QED BY <3>1
  <2> QED BY <2>1 DEF Forward
<1>3. \A o \in C : EntryAt(b, o).name = name => EntryAt(b, o).inode \in X
  <2> SUFFICES ASSUME NEW o \in C, EntryAt(b, o).name = name  PROVE EntryAt(b, o).inode \in X
    OBVIOUS
  <2>1. EntryAt(b, o).inode # 0
    BY DEF GoesOn
  <2>2. o \in DOMAIN b.at /\ EntryAt(b, o) = b.at[o]
    BY <2>1, Zenon DEF EntryAt, ContentAt, NoEntry
  <2> QED BY <2>1, <2>2
<1>4. \A o \in C : Goto[o] = o + EntryAt(b, o).rec_len /\ o \in Nat
  OBVIOUS
<1>5. 0 \in X
  OBVIOUS
<1> HIDE DEF X
<1>6. \A o \in C : from[Goto[o]] \in X => from[o] \in X
  BY <1>1, <1>3, <1>4
<1>7. \A o \in Nat \ C : from[o] \in X
  BY <1>1, <1>5
<1>8. \A o \in Nat : from[o] \in X
  <2> HIDE DEF C, Goto
  <2> QED BY <1>2, <1>6, <1>7, WalkTyped
<1> QED BY <1>1, <1>8 DEF X

\* No name of a block whose entries are all in use is missed.
LEMMA ScanComplete ==
  ASSUME NEW v, v.block_size \in Nat, NEW b, EntriesFill(v, b.at), \A o \in DOMAIN b.at : b.at[o].inode # 0,
         NEW p \in DOMAIN b.at
  PROVE  ScanBlock(v, b, b.at[p].name) # 0
<1> DEFINE name == b.at[p].name
           C == {o \in DOMAIN b.at : o <= p}
           After_it(o) == o + b.at[o].rec_len
           Goto == [o \in C |-> After_it(o)]
           X == {TRUE}
<1>1. PICK from :
        /\ ScanBlock(v, b, name) = from[0]
        /\ \A o \in Nat : from[o] = IF GoesOn(v, b, o)
                                    THEN IF EntryAt(b, o).name = name THEN EntryAt(b, o).inode
                                         ELSE from[o + EntryAt(b, o).rec_len]
                                    ELSE 0
  BY ScanListed
<1> DEFINE g == [o \in Nat |-> (o \in C => from[o] # 0)]
<1>2. \A o \in DOMAIN b.at : /\ o \in Nat /\ o < v.block_size /\ b.at[o].rec_len \in 1 .. v.block_size
                             /\ After_it(o) \in Nat /\ o < After_it(o) /\ GoesOn(v, b, o)
                             /\ EntryAt(b, o) = b.at[o]
  <2> SUFFICES ASSUME NEW o \in DOMAIN b.at
               PROVE  /\ o \in Nat /\ o < v.block_size /\ b.at[o].rec_len \in 1 .. v.block_size
                      /\ After_it(o) \in Nat /\ o < After_it(o) /\ GoesOn(v, b, o)
                      /\ EntryAt(b, o) = b.at[o]
    OBVIOUS
  <2>1. o \in Nat /\ o < v.block_size /\ b.at[o].rec_len \in 1 .. v.block_size
    BY DEF EntriesFill
  <2>2. EntryAt(b, o) = b.at[o]
    BY DEF EntryAt, ContentAt
  <2>3. After_it(o) \in Nat /\ o < After_it(o)
    BY <2>1
  <2> QED BY <2>1, <2>2, <2>3 DEF GoesOn
<1>3. Forward(v.block_size, C, Goto) /\ \A o \in C : Goto[o] = After_it(o)
  <2>1. \A o \in C : o \in 0 .. v.block_size /\ After_it(o) \in Nat /\ o < After_it(o)
    BY <1>2
  <2> HIDE DEF After_it
  <2> QED BY <2>1 DEF Forward
<1>4. \A o \in Nat \ C : g[o] \in X
  OBVIOUS
<1>5. ASSUME NEW o \in C, g[Goto[o]] \in X  PROVE g[o] \in X
  <2>1. from[o] = IF b.at[o].name = name THEN b.at[o].inode ELSE from[After_it(o)]
    BY <1>1, <1>2
  <2>2. CASE b.at[o].name = name
    BY <1>2, <2>1, <2>2, Zenon
  <2>3. CASE b.at[o].name # name
    <3>1. o < p /\ p \in Nat /\ o \in Nat
      BY <1>2, <2>3
    <3>2. After_it(o) <= p
      BY <3>1 DEF EntriesFill
    <3>3. After_it(o) # v.block_size
      BY <1>2, <3>2
    <3>4. After_it(o) \in C
      BY <3>2, <3>3 DEF EntriesFill
    <3>5. from[After_it(o)] # 0
      BY <1>2, <1>3, <1>5, <3>4, Zenon
    <3> QED BY <2>1, <2>3, <3>1, <3>5, Zenon
  <2> QED BY <2>2, <2>3, Zenon
<1>6. \A o \in Nat : g[o] \in X
  <2> HIDE DEF C, Goto, g, X
  <2> QED BY <1>3, <1>4, <1>5, WalkTyped
<1>7. 0 \in C
  BY <1>2 DEF EntriesFill
<1> QED BY <1>1, <1>6, <1>7, Zenon

\* The blocks of a directory that are scanned are stored, and each has the names
\* of the directory.
LEMMA ScannedStored ==
  ASSUME NEW v, Formatted(v), NEW d \in DOMAIN v.names, NEW i \in Scanned(v, v.inodes[d])
  PROVE  /\ i \in 0 .. DIRECT - 1 /\ BlockThere(v, v.inodes[d].block[i])
         /\ ext2_read_block(v, v.inodes[d].block[i]) = v.disk[OnDisk(v, v.inodes[d].block[i])]
         /\ v.inodes[d].block[i] \in {v.inodes[d].block[j] : j \in 0 .. DIRECT - 1} \ {0}
<1> DEFINE b == v.inodes[d].block[i]
           blocks == {v.inodes[d].block[j] : j \in 0 .. DIRECT - 1} \ {0}
<1>1. d \in DOMAIN v.inodes /\ DirectoryStored(v, d) /\ InodeStored(v, d)
  BY DEF Formatted
<1>2. i \in 0 .. DIRECT - 1 /\ b # 0 /\ b \in blocks
  BY DEF Scanned
<1>3. BlockThere(v, b) /\ b \in Nat
  BY <1>1, <1>2, Zenon DEF InodeStored, BlockThere
<1>4. OnDisk(v, b) \in DOMAIN v.disk
  BY <1>1, <1>2 DEF DirectoryStored
<1>5. SectorOf(v, b) = OnDisk(v, b)
  <2>1. b * (v.block_size \div SECTOR) \in Nat /\ v.start \in Nat
    BY <1>3 DEF Formatted, SECTOR
  <2> QED BY <2>1 DEF SectorOf, Final, SectorsOf, OnDisk
<1> QED BY <1>2, <1>3, <1>4, <1>5 DEF ext2_read_block

\* What is known of the result of a look-up.
Sought(v, d, name, r) ==
  /\ r.ino # 0 => name \in DOMAIN v.names[d] /\ v.names[d][name] = r.ino
  /\ r.ino = 0 => \/ name \notin DOMAIN v.names[d]
                  \/ v.bad # {} \/ SectorsOf(v) > AHCI_SECTORS \/ v.unused
  /\ \A b \in r.read : BlockThere(v, b)

\* Looking up a name in a directory finds what it names, unless it is not there
\* or there is an excuse.
LEMMA LookUp ==
  ASSUME NEW v, Formatted(v), NEW d \in DOMAIN v.names, NEW name,
         NEW r, r = ext2_find_in_dir(v, v.inodes[d], name)
  PROVE  Sought(v, d, name, r)
<1> DEFINE f == v.inodes[d]
           S == Scanned(v, f)
           blk(i) == ext2_read_block(v, f.block[i])
           ino(i) == ScanBlock(v, blk(i), name)
           hits == {i \in S : ino(i) # 0}
           scanned == IF hits = {} THEN S ELSE {i \in S : i <= Min(hits)}
<1>1. r = [ino |-> IF hits = {} THEN 0 ELSE ino(Min(hits)), read |-> {f.block[i] : i \in scanned}]
  BY DEF ext2_find_in_dir
<1>2. v.block_size \in Nat /\ DirectoryStored(v, d) /\ d \in DOMAIN v.inodes
  BY DEF Formatted
<1>3. ASSUME NEW b \in r.read  PROVE BlockThere(v, b)
  <2>1. PICK i \in S : b = f.block[i]
    BY <1>1
  <2> QED BY <2>1, ScannedStored
<1>4. ASSUME r.ino # 0  PROVE name \in DOMAIN v.names[d] /\ v.names[d][name] = r.ino
  <2>1. hits # {} /\ r.ino = ino(Min(hits))
    BY <1>1, <1>4
  <2>2. Min(hits) \in hits
    <3>1. hits \in SUBSET Nat
      BY DEF Scanned
    <3> HIDE DEF hits
    <3>2. \E y \in hits : \A z \in hits : y <= z
      BY <2>1, <3>1, LeastExists
    <3> QED BY <3>2 DEF Min
  <2>3. PICK i \in S : r.ino = ino(i) /\ ino(i) # 0
    <3> DEFINE first == Min(hits)
    <3>1. first \in hits /\ r.ino = ino(first)
      BY <2>1, <2>2
    <3> HIDE DEF first, S, ino
    <3> QED BY <3>1
  <2>4. PICK o \in DOMAIN blk(i).at : /\ blk(i).at[o].name = name /\ blk(i).at[o].inode # 0
                                        /\ blk(i).at[o].inode = ino(i)
    <3> DEFINE scanned_block == blk(i)
    <3> HIDE DEF scanned_block
    <3>1. ScanBlock(v, scanned_block, name) # 0 /\ ScanBlock(v, scanned_block, name) = ino(i)
      BY <2>3 DEF scanned_block
    <3>2. \E o \in DOMAIN scanned_block.at :
            /\ scanned_block.at[o].name = name /\ scanned_block.at[o].inode # 0
            /\ scanned_block.at[o].inode = ScanBlock(v, scanned_block, name)
      BY <1>2, <3>1, ScanHits
    <3> QED BY <3>1, <3>2, Zenon DEF scanned_block
  <2>5. /\ blk(i) = v.disk[OnDisk(v, f.block[i])]
        /\ f.block[i] \in {f.block[j] : j \in 0 .. DIRECT - 1} \ {0}
    BY ScannedStored
  <2> DEFINE stored == v.disk[OnDisk(v, f.block[i])]
  <2>6. \A p \in DOMAIN stored.at : stored.at[p].inode # 0 =>
          stored.at[p].name \in DOMAIN v.names[d] /\ v.names[d][stored.at[p].name] = stored.at[p].inode
    <3>1. \A b \in {f.block[j] : j \in 0 .. DIRECT - 1} \ {0} :
            \A p \in DOMAIN v.disk[OnDisk(v, b)].at :
              IF v.disk[OnDisk(v, b)].at[p].inode = 0 THEN v.unused
              ELSE /\ v.disk[OnDisk(v, b)].at[p].name \in DOMAIN v.names[d]
                   /\ v.names[d][v.disk[OnDisk(v, b)].at[p].name] = v.disk[OnDisk(v, b)].at[p].inode
      BY <1>2 DEF DirectoryStored
    <3> DEFINE b == f.block[i]
    <3> HIDE DEF f
    <3>2. b \in {f.block[j] : j \in 0 .. DIRECT - 1} \ {0}
      BY <2>5
    <3> HIDE DEF b
    <3> QED BY <3>1, <3>2 DEF b
  <2> HIDE DEF blk, ino, f, stored
  <2>7. blk(i) = stored
    BY <2>5 DEF stored
  <2> QED BY <2>3, <2>4, <2>6, <2>7
<1>5. ASSUME r.ino = 0, name \in DOMAIN v.names[d], v.bad = {}, ~(SectorsOf(v) > AHCI_SECTORS), ~v.unused
      PROVE  FALSE
  <2> DEFINE blocks == {f.block[j] : j \in 0 .. DIRECT - 1} \ {0}
             held(b) == v.disk[OnDisk(v, b)].at
  <2>1. PICK b \in blocks : \E o \in DOMAIN held(b) : held(b)[o].name = name
    BY <1>2, <1>5 DEF DirectoryStored
  <2>2. PICK o \in DOMAIN held(b) : held(b)[o].name = name
    BY <2>1
  <2>3. PICK i \in 0 .. DIRECT - 1 : b = f.block[i] /\ b # 0
    BY <2>1
  <2>4. Readable(v, b)
    <3>1. SectorsOf(v) \in Nat
      BY <1>2 DEF SectorsOf, SECTOR
    <3> QED BY <1>5, <3>1 DEF Readable, AHCI_SECTORS
  <2>5. i \in S
    BY <2>3, <2>4 DEF Scanned
  <2>6. blk(i) = v.disk[OnDisk(v, b)]
    BY <2>3, <2>5, ScannedStored
  <2>7. EntriesFill(v, held(b)) /\ \A p \in DOMAIN held(b) : held(b)[p].inode # 0
    BY <1>2, <1>5, <2>1 DEF DirectoryStored
  <2>8. ScanBlock(v, v.disk[OnDisk(v, b)], name) # 0
    BY <1>2, <2>2, <2>7, ScanComplete
  <2>9. i \in hits
    BY <2>5, <2>6, <2>8
  <2>10. hits # {} /\ r.ino = ino(Min(hits))
    BY <1>1, <2>9
  <2>11. Min(hits) \in hits
    <3>1. hits \in SUBSET Nat
      BY DEF Scanned
    <3> HIDE DEF hits
    <3>2. \E y \in hits : \A z \in hits : y <= z
      BY <2>10, <3>1, LeastExists
    <3> QED BY <3>2 DEF Min
  <2> QED BY <1>5, <2>10, <2>11
<1> QED BY <1>3, <1>4, <1>5 DEF Sought

\* Division with remainder, by any number.
LEMMA DivMod ==
  ASSUME NEW a \in Nat, NEW b \in Nat \ {0}
  PROVE  /\ a \div b \in Nat /\ a % b \in Nat /\ a % b < b
         /\ a = (a \div b) * b + (a % b)
<1>1. a \div b \in Nat
  OBVIOUS
<1>2. a % b \in 0 .. b - 1
  OBVIOUS
<1>3. a = (a \div b) * b + (a % b)
  OBVIOUS
<1> QED BY <1>1, <1>2, <1>3

\* It has one result.
LEMMA OneQuotient ==
  ASSUME NEW b \in Nat \ {0}, NEW q \in Nat, NEW r \in Nat, NEW s \in Nat, NEW t \in Nat,
         r < b, t < b, q * b + r = s * b + t
  PROVE  q = s /\ r = t
<1>1. CASE q < s
  <2>1. PICK d \in Nat : s = q + 1 + d
    <3>1. s - q - 1 \in Nat /\ s = q + 1 + (s - q - 1)
      BY <1>1
    <3> QED BY <3>1
  <2>2. s * b = q * b + b + d * b /\ d * b \in Nat /\ q * b \in Nat
    BY <2>1
  <2> QED BY <2>2
<1>2. CASE s < q
  <2>1. PICK d \in Nat : q = s + 1 + d
    <3>1. q - s - 1 \in Nat /\ q = s + 1 + (q - s - 1)
      BY <1>2
    <3> QED BY <3>1
  <2>2. q * b = s * b + b + d * b /\ d * b \in Nat /\ s * b \in Nat
    BY <2>1
  <2> QED BY <2>2
<1>3. CASE q = s
  <2>1. q * b \in Nat /\ q * b = s * b
    BY <1>3
  <2> QED BY <1>3, <2>1
<1> QED BY <1>1, <1>2, <1>3

\* Where the k-th inode of a table lies, as a byte and as the driver finds it.
LEMMA PlaceOfInode ==
  ASSUME NEW all \in Nat \ {0}, NEW each \in Nat \ {0}, all % each = 0, NEW nth_one \in Nat
  PROVE  /\ (nth_one * each) \div all = nth_one \div (all \div each)
         /\ (nth_one * each) % all = (nth_one % (all \div each)) * each
         /\ nth_one \div (all \div each) \in Nat
<1> DEFINE n == all \div each
           q == nth_one \div n
           m == nth_one % n
           a == nth_one * each
<1>1. n \in Nat /\ all = n * each
  BY DivMod
<1>2. n # 0
  BY <1>1
<1> HIDE DEF n
<1>3. q \in Nat /\ m \in Nat /\ m < n /\ nth_one = q * n + m
  BY <1>1, <1>2, DivMod
<1> HIDE DEF q, m
<1>4. a \in Nat /\ a = q * all + m * each
  <2>1. a = (q * n + m) * each
    BY <1>3
  <2>2. (q * n + m) * each = q * (n * each) + m * each
    <3> HIDE DEF a
    <3> QED BY <1>1, <1>3
  <2> QED BY <1>1, <2>1, <2>2
<1>5. m * each \in Nat /\ m * each < all
  <2>1. PICK d \in Nat : n = m + 1 + d
    <3>1. n - m - 1 \in Nat /\ n = m + 1 + (n - m - 1)
      BY <1>1, <1>3
    <3> QED BY <3>1
  <2>2. n * each = m * each + each + d * each /\ m * each \in Nat /\ d * each \in Nat
    BY <1>3, <2>1
  <2> QED BY <1>1, <2>2
<1> DEFINE x == m * each
<1> HIDE DEF a, x
<1>6. a \div all \in Nat /\ a % all \in Nat /\ a % all < all /\ a = (a \div all) * all + (a % all)
  BY <1>4, DivMod, Zenon
<1> DEFINE c == a \div all
           e == a % all
<1>7. c \in Nat /\ e \in Nat /\ e < all /\ c * all + e = q * all + x
  BY <1>4, <1>6 DEF x
<1> HIDE DEF c, e
<1>8. c = q /\ e = x
  <2>1. all \in Nat \ {0} /\ q \in Nat /\ x \in Nat /\ x < all
    BY <1>3, <1>5 DEF x
  <2> QED BY <1>7, <2>1, OneQuotient
<1> QED BY <1>3, <1>8 DEF a, c, e, q, m, n, x

\* The driver finds the inode of every number at its place, and reads inside the
\* partition.
LEMMA InodeFound ==
  ASSUME NEW v, Formatted(v), NEW no \in DOMAIN v.inodes
  PROVE  /\ ContentAt(ext2_read_block(v, InodeBlock(v, no)), InodeOffset(v, no), NoInode) = v.inodes[no]
         /\ BlockThere(v, GdBlock(v, no)) /\ BlockThere(v, InodeBlock(v, no))
<1> DEFINE bs == v.block_size
           isz == v.inode_size
           ipg == v.inodes_per_group
           group == (no - 1) \div ipg
           k == no - 1 - group * ipg
           gd == v.first_data_block + 1 + (group * GD_SIZE) \div bs
           descriptors == v.disk[OnDisk(v, gd)].at
           t == descriptors[(group * GD_SIZE) % bs]
           b == t + (k * isz) \div bs
           inodes == v.disk[OnDisk(v, b)].at
<1>1. /\ bs \in Nat \ {0} /\ isz \in Nat \ {0} /\ ipg \in Nat \ {0} /\ bs % isz = 0
      /\ v.start \in Nat /\ v.first_data_block \in Nat /\ no - 1 \in Nat
  BY DEF Formatted
<1>2. /\ BlockThere(v, gd) /\ OnDisk(v, gd) \in DOMAIN v.disk
      /\ (group * GD_SIZE) % bs \in DOMAIN descriptors /\ t \in Nat
      /\ BlockThere(v, b) /\ OnDisk(v, b) \in DOMAIN v.disk
      /\ (k * isz) % bs \in DOMAIN inodes
      /\ inodes[(k * isz) % bs] = v.inodes[no]
  BY Zenon DEF Formatted, InodeStored
<1>3. ASSUME NEW c, BlockThere(v, c), OnDisk(v, c) \in DOMAIN v.disk
      PROVE  ext2_read_block(v, c) = v.disk[OnDisk(v, c)]
  <2>1. c \in Nat
    BY <1>3 DEF BlockThere
  <2>2. c * (bs \div SECTOR) \in Nat
    BY <1>1, <2>1 DEF SECTOR
  <2>3. SectorOf(v, c) = OnDisk(v, c)
    BY <1>1, <2>2 DEF SectorOf, Final, SectorsOf, OnDisk
  <2> QED BY <1>3, <2>3 DEF ext2_read_block
<1>4. GdBlock(v, no) = gd /\ GdOffset(v, no) = (group * GD_SIZE) % bs
  BY DEF GdBlock, GdOffset, Group, Index
<1>5. InodeTable(v, no) = t
  BY <1>2, <1>3, <1>4, Zenon DEF InodeTable, ContentAt
<1>6. LocalIndex(v, no) = k /\ k \in Nat
  <2> DEFINE a == no - 1
             q == a \div ipg
             m == a % ipg
  <2>1. q \in Nat /\ m \in Nat /\ a = q * ipg + m
    BY <1>1, DivMod, Zenon
  <2>2. q * ipg \in Nat
    BY <1>1, <2>1
  <2>3. k = a - q * ipg /\ LocalIndex(v, no) = m
    BY DEF LocalIndex, Index
  <2> HIDE DEF a, q, m, k
  <2> QED BY <2>1, <2>2, <2>3
<1>7. InodeBlock(v, no) = b /\ InodeOffset(v, no) = (k * isz) % bs
  <2> HIDE DEF k, t
  <2>1. /\ (k * isz) \div bs = k \div (bs \div isz)
        /\ (k * isz) % bs = (k % (bs \div isz)) * isz
    <3>1. bs \in Nat \ {0} /\ isz \in Nat \ {0} /\ bs % isz = 0 /\ k \in Nat
      BY <1>1, <1>6
    <3>2. \A x \in Nat \ {0}, y \in Nat \ {0}, z \in Nat :
            x % y = 0 => /\ (z * y) \div x = z \div (x \div y)
                         /\ (z * y) % x = (z % (x \div y)) * y
      BY PlaceOfInode, Zenon
    <3> HIDE DEF bs, isz
    <3> QED BY <3>1, <3>2, Zenon
  <2> QED BY <1>5, <1>6, <2>1 DEF InodeBlock, InodeOffset, InodesPerBlock
<1> QED BY <1>2, <1>3, <1>4, <1>7, Zenon DEF ContentAt

\* What a child of an inode is, is an inode, nothing, or astray.
LEMMA ChildTyped ==
  ASSUME NEW v, Formatted(v), NEW ino \in Numbers_of(v), NEW name
  PROVE  Child(v, ino, name) \in Numbers_of(v)
<1>1. CASE ino \in DOMAIN v.names /\ name \in DOMAIN v.names[ino]
  <2>1. v.names[ino][name] \in DOMAIN v.inodes
    BY <1>1 DEF Formatted, DirectoryStored
  <2> QED BY <2>1 DEF Child, Numbers_of
<1>2. CASE ~(ino \in DOMAIN v.names /\ name \in DOMAIN v.names[ino])
  BY <1>2 DEF Child, Numbers_of
<1> QED BY <1>1, <1>2

\* What a path names from a name on is what it names from the next on, of the
\* child; there is no way back from where nothing is.
LEMMA NamesListed ==
  ASSUME NEW v, Formatted(v), NEW path \in Seq(STRING)
  PROVE  /\ \A k \in Nat : \A ino \in Numbers_of(v) :
              NamedFrom(v, path)[k][ino] = IF k \in DOMAIN path
                                           THEN NamedFrom(v, path)[k + 1][Child(v, ino, path[k])]
                                           ELSE ino
         /\ \A k \in Nat : /\ NamedFrom(v, path)[k][Nothing] = Nothing
                           /\ NamedFrom(v, path)[k][Astray] = Astray
<1> DEFINE I == Numbers_of(v)
           n == Len(path)
           child(k, ino) == Child(v, ino, path[k])
           C == {k \in Nat : k \in DOMAIN path}
           Goto == [k \in C |-> k + 1]
           same == [ino \in I |-> ino]
           X == [I -> I]
           Step == [k \in C |-> [x \in X |-> [ino \in I |-> x[child(k, ino)]]]]
           Is(g) == g = [k \in Nat |-> IF k \in DOMAIN path
                                       THEN [ino \in I |-> g[k + 1][child(k, ino)]] ELSE same]
           from == CHOOSE g : Is(g)
<1>1. n \in Nat /\ \A k \in C : k \in 0 .. n /\ k + 1 \in Nat /\ k < k + 1
  OBVIOUS
<1>2. \A k \in C : \A ino \in I : child(k, ino) \in I
  BY ChildTyped
<1>3. Nothing \in I /\ Astray \in I /\ \A k : child(k, Nothing) = Nothing /\ child(k, Astray) = Astray
  BY DEF Numbers_of, Child
<1>4. from = NamedFrom(v, path)
  BY DEF NamedFrom
<1>5. Forward(n, C, Goto) /\ \A k \in C : Goto[k] = k + 1
  <2> HIDE DEF C, n
  <2> QED BY <1>1 DEF Forward
<1> HIDE DEF child, I, n
<1>6. same \in X
  OBVIOUS
<1>7. \A k \in C : \A x \in X : [ino \in I |-> x[child(k, ino)]] \in X
  BY <1>2
<1>8. Step \in [C -> [X -> X]] /\ \A k \in C : \A x \in X : Step[k][x] = [ino \in I |-> x[child(k, ino)]]
  <2> HIDE DEF C, X
  <2> QED BY <1>7
<1> HIDE DEF Step, X, same, Goto
<1>9. PICK g \in [Nat -> X] : Gathers(g, C, Goto, same, Step)
  BY <1>5, <1>6, <1>8, WalkExists, Zenon
<1>10. Is(g)
  <2>1. ASSUME NEW k \in Nat
        PROVE  g[k] = IF k \in DOMAIN path THEN [ino \in I |-> g[k + 1][child(k, ino)]] ELSE same
    <3>1. CASE k \in DOMAIN path
      <4>1. k \in C /\ Goto[k] = k + 1 /\ g[Goto[k]] \in X
        BY <1>5, <1>9, <3>1
      <4>2. g[k] = Step[k][g[Goto[k]]]
        BY <1>9, <4>1 DEF Gathers
      <4> QED BY <1>8, <3>1, <4>1, <4>2
    <3>2. CASE k \notin DOMAIN path
      BY <1>9, <3>2 DEF Gathers
    <3> QED BY <3>1, <3>2
  <2> QED BY <2>1
<1>11. Is(from)
  BY <1>10, Zenon
<1> HIDE DEF from
<1>12. \A k \in Nat : from[k] = IF k \in DOMAIN path THEN [ino \in I |-> from[k + 1][child(k, ino)]] ELSE same
  BY <1>11, Zenon
<1>13. \A k \in Nat : \A ino \in I :
         from[k][ino] = IF k \in DOMAIN path THEN from[k + 1][child(k, ino)] ELSE ino
  BY <1>12, Zenon DEF same
<1> DEFINE Y == {x \in {from[k] : k \in Nat} : x[Nothing] = Nothing /\ x[Astray] = Astray}
<1>14. \A k \in Nat \ C : from[k] \in Y
  BY <1>3, <1>13
<1>15. \A k \in C : from[Goto[k]] \in Y => from[k] \in Y
  BY <1>3, <1>5, <1>13
<1>16. \A k \in Nat : from[k] \in Y
  <2> HIDE DEF Y, C
  <2> QED BY <1>5, <1>14, <1>15, WalkTyped
<1> QED BY <1>4, <1>13, <1>16 DEF I, child

\* The sectors of a block that is there are the volume's.
LEMMA InsideVolume ==
  ASSUME NEW v, Formatted(v), NEW b, BlockThere(v, b)
  PROVE  SectorOf(v, b) >= v.start /\ SectorOf(v, b) + SectorsOf(v) <= v.start + v.count
<1> DEFINE n == v.block_size \div SECTOR
           m == b * n
<1>1. v.start \in Nat /\ v.count \in Nat /\ n \in Nat /\ b \in Nat
  BY DEF Formatted, BlockThere, SECTOR
<1>2. m \in Nat /\ (b + 1) * n = m + n
  BY <1>1
<1>3. (b + 1) * n <= v.count
  BY DEF BlockThere
<1>4. SectorOf(v, b) = m + v.start /\ SectorsOf(v) = n
  BY DEF SectorOf, Final, SectorsOf
<1> HIDE DEF m, n
<1>5. m + v.start >= v.start /\ m + v.start + n <= v.start + v.count
  BY <1>1, <1>2, <1>3
<1> QED BY <1>4, <1>5

\* A run of bytes that was read, and its place in the buffer.
Run == [block : Nat, off : Nat, len : Nat, at : Nat]

\* The inode has been read, and all names have been looked up.
Opened == ext_pc \in {"open", "read"} /\ components = <<>>

\* What the path names from the name and the inode on that the driver has come to.
NamedHere == NamedFrom(vol, request.path)[Len(request.path) - Len(components) + 1][inode_no]

\* The runs of bytes are the inode's, and follow each other.
RunsTrue ==
  /\ \A k \in DOMAIN got :
       LET pos == request.offset + got[k].at
       IN  /\ got[k].at = IF k = 1 THEN 0 ELSE got[k - 1].at + got[k - 1].len
           /\ got[k].block = inode.block[pos \div vol.block_size]
           /\ got[k].off = pos % vol.block_size
           /\ got[k].off + got[k].len <= vol.block_size
           /\ got[k].at + got[k].len <= copied
  /\ copied = IF got = <<>> THEN 0 ELSE got[Len(got)].at + got[Len(got)].len
  /\ copied <= Len_of(inode.size)

\* Nothing more can be read.
AllRead ==
  LET end == request.offset + copied
      i == end \div vol.block_size
  IN  end < Min({inode.size, request.offset + request.len}) =>
        i >= DIRECT \/ inode.block[i] = 0 \/ ~Readable(vol, inode.block[i])

\* The names still to be looked up are the last of the path.
LastOfPath ==
  /\ components \in Seq(STRING) /\ Len(components) <= Len(request.path)
  /\ \A i \in 1 .. Len(components) :
       components[i] = request.path[Len(request.path) - Len(components) + i]

\* What is known of a path that goes through directories only.
FoundSoFar ==
  /\ ext_pc # "failed" =>
       /\ inode_no \in DOMAIN vol.inodes /\ LastOfPath /\ NamedHere = Named(request.path)
       /\ ext_pc # "inode" => inode = vol.inodes[inode_no]
       /\ copied \in Nat /\ got \in Seq(Run)
       /\ IF Opened THEN RunsTrue ELSE copied = 0 /\ got = <<>>
  /\ ext_pc = "read" => components = <<>> /\ AllRead
  /\ ext_pc = "failed" => Named(request.path) = Nothing \/ Excused
  /\ \A s \in sectors : s >= vol.start /\ s + SectorsOf(vol) <= vol.start + vol.count

FileInv ==
  /\ Formatted(vol) /\ Asks(request)
  /\ ext_pc \in {"inode", "open", "read", "failed"}
  /\ Named(request.path) # Astray => FoundSoFar

\* The walk begins at the root.
LEMMA FileFirst ==
  ASSUME NEW v, NEW r, Formatted(v), Asks(r), Ext2Init(v, r)
  PROVE  FileInv
<1>1. /\ vol = v /\ request = r /\ ext_pc = "inode" /\ components = r.path /\ inode_no = ROOT_INO
      /\ copied = 0 /\ got = <<>> /\ sectors = {}
  BY DEF Ext2Init
<1>2. r.path \in Seq(STRING) /\ Len(r.path) \in Nat
  BY DEF Asks
<1>3. Len(r.path) - Len(r.path) + 1 = 1 /\ \A i \in 1 .. Len(r.path) : Len(r.path) - Len(r.path) + i = i
  BY <1>2
<1>4. NamedHere = Named(request.path)
  BY <1>1, <1>3 DEF NamedHere, Named
<1>5. LastOfPath
  BY <1>1, <1>2, <1>3 DEF LastOfPath
<1>6. inode_no \in DOMAIN vol.inodes
  BY <1>1 DEF Formatted
<1>7. FoundSoFar
  BY <1>1, <1>4, <1>5, <1>6 DEF FoundSoFar, Opened
<1> QED BY <1>1, <1>7 DEF FileInv

\* Looking up a name goes from the inode to its child.
LEMMA StepComponent ==
  ASSUME FileInv, Named(request.path) # Astray, open_component
  PROVE  FoundSoFar'
<1> DEFINE d == inode_no
           n == Len(request.path)
           c == Len(components)
           k == n - c + 1
           name == Head(components)
           named(j, ino) == NamedFrom(vol, request.path)[j][ino]
<1>1. /\ ext_pc = "open" /\ components # <<>> /\ components' = Tail(components)
      /\ UNCHANGED <<vol, request, inode, copied, got>>
  BY DEF open_component
<1>2. PICK r : /\ r = ext2_find_in_dir(vol, inode, name)
               /\ ext_pc' = IF r.ino = 0 THEN "failed" ELSE "inode"
               /\ inode_no' = r.ino
               /\ sectors' = sectors \cup {SectorOf(vol, b) : b \in r.read}
  BY DEF open_component
<1>3. /\ Formatted(vol) /\ request.path \in Seq(STRING) /\ FoundSoFar
  BY DEF FileInv, Asks
<1>4. /\ d \in DOMAIN vol.inodes /\ LastOfPath /\ named(k, d) = Named(request.path)
      /\ inode = vol.inodes[d] /\ copied = 0 /\ got = <<>>
  BY <1>1, <1>3 DEF FoundSoFar, Opened, NamedHere
<1>5. /\ components \in Seq(STRING) /\ n \in Nat /\ c \in Nat /\ c <= n /\ c >= 1
      /\ \A i \in 1 .. c : components[i] = request.path[n - c + i]
      /\ k \in DOMAIN request.path /\ k \in Nat /\ name = request.path[k]
  <2>1. /\ components \in Seq(STRING) /\ n \in Nat /\ c \in Nat /\ c <= n /\ c >= 1
        /\ \A i \in 1 .. c : components[i] = request.path[n - c + i]
    BY <1>1, <1>3, <1>4 DEF LastOfPath
  <2>2. name = components[1] /\ DOMAIN request.path = 1 .. n
    BY <1>1, <1>3, <2>1
  <2> HIDE DEF n, c
  <2>3. 1 \in 1 .. c /\ k \in Nat /\ k \in 1 .. n
    BY <2>1
  <2> HIDE DEF name
  <2> QED BY <2>1, <2>2, <2>3
<1>6. d \in Numbers_of(vol) /\ named(k, d) = named(k + 1, Child(vol, d, name))
  <2>1. d \in Numbers_of(vol)
    BY <1>4 DEF Numbers_of
  <2>2. \A j \in Nat : \A ino \in Numbers_of(vol) :
          named(j, ino) = IF j \in DOMAIN request.path
                          THEN named(j + 1, Child(vol, ino, request.path[j])) ELSE ino
    BY <1>3, NamesListed
  <2> HIDE DEF d, k, name, named
  <2> QED BY <1>5, <2>1, <2>2
<1>7. k + 1 \in Nat /\ named(k + 1, Nothing) = Nothing /\ named(k + 1, Astray) = Astray
  <2>1. k + 1 \in Nat
    BY <1>5
  <2> QED BY <1>3, <2>1, NamesListed
<1>8. d \notin {Nothing, Astray}
  BY <1>3, <1>4 DEF Formatted, Nothing, Astray
<1>9. d \in DOMAIN vol.names
  BY <1>4, <1>6, <1>7, <1>8 DEF Child
<1>10. /\ r.ino # 0 => name \in DOMAIN vol.names[d] /\ vol.names[d][name] = r.ino
       /\ r.ino = 0 => \/ name \notin DOMAIN vol.names[d]
                       \/ vol.bad # {} \/ SectorsOf(vol) > AHCI_SECTORS \/ vol.unused
       /\ \A b \in r.read : BlockThere(vol, b)
  <2> HIDE DEF d, name
  <2>1. r = ext2_find_in_dir(vol, vol.inodes[d], name)
    BY <1>2, <1>4
  <2>2. Formatted(vol) /\ d \in DOMAIN vol.names
    BY <1>3, <1>9
  <2>3. Sought(vol, d, name, r)
    BY <2>1, <2>2, LookUp
  <2> QED BY <2>3 DEF Sought
<1>11. \A s \in sectors' : s >= vol.start /\ s + SectorsOf(vol) <= vol.start + vol.count
  <2> SUFFICES ASSUME NEW s \in sectors'
               PROVE  s >= vol.start /\ s + SectorsOf(vol) <= vol.start + vol.count
    OBVIOUS
  <2>1. CASE s \in sectors
    BY <1>3, <2>1 DEF FoundSoFar
  <2>2. CASE s \in {SectorOf(vol, b) : b \in r.read}
    BY <1>3, <1>10, <2>2, InsideVolume
  <2> QED BY <1>2, <2>1, <2>2
<1>12. CASE r.ino = 0
  <2>1. Named(request.path) = Nothing \/ Excused
    <3>1. name \notin DOMAIN vol.names[d] => Child(vol, d, name) = Nothing
      BY <1>8, <1>9 DEF Child
    <3> QED BY <1>4, <1>6, <1>7, <1>10, <1>12, <3>1 DEF Excused
  <2>2. Named(request.path)' = Named(request.path) /\ Excused' = Excused
    <3>1. Named(request.path)' = Named(request.path)
      BY <1>1 DEF Named
    <3>2. Excused' = Excused
      BY <1>1 DEF Excused
    <3> QED BY <3>1, <3>2
  <2> QED BY <1>1, <1>2, <1>11, <1>12, <2>1, <2>2 DEF FoundSoFar
<1>13. CASE r.ino # 0
  <2>1. Child(vol, d, name) = r.ino /\ r.ino \in DOMAIN vol.inodes
    <3>1. Child(vol, d, name) = r.ino
      BY <1>8, <1>9, <1>10, <1>13 DEF Child
    <3>2. DirectoryStored(vol, d)
      BY <1>3, <1>9 DEF Formatted
    <3>3. r.ino \in DOMAIN vol.inodes
      BY <1>10, <1>13, <3>2 DEF DirectoryStored
    <3> QED BY <3>1, <3>3
  <2>2. named(k + 1, r.ino) = Named(request.path)
    BY <1>4, <1>6, <2>1
  <2>3. /\ components' \in Seq(STRING) /\ Len(components') = c - 1
        /\ \A i \in 1 .. c - 1 : components'[i] = components[i + 1]
    BY <1>1, <1>5
  <2>4. n - (c - 1) + 1 = k + 1 /\ c - 1 <= n
    BY <1>5
  <2>5. LastOfPath'
    <3>1. \A i \in 1 .. c - 1 : i + 1 \in 1 .. c /\ n - c + (i + 1) = n - (c - 1) + i
      <4>1. n \in Nat /\ c \in Nat
        BY <1>5
      <4> HIDE DEF n, c
      <4> QED BY ONLY <4>1
    <3>2. \A i \in 1 .. c - 1 : components'[i] = request.path[n - (c - 1) + i]
      <4> HIDE DEF n, c
      <4> QED BY <1>5, <2>3, <3>1, Zenon
    <3> QED BY <1>1, <2>3, <2>4, <3>2 DEF LastOfPath
  <2>6. NamedHere' = named(k + 1, r.ino)
    <3>1. NamedHere' = NamedFrom(vol, request.path)[Len(request.path) - Len(components') + 1][inode_no']
      BY <1>1 DEF NamedHere
    <3> QED BY <1>2, <2>3, <2>4, <3>1
  <2>7. Named(request.path)' = Named(request.path) /\ ext_pc' = "inode"
    BY <1>1, <1>2, <1>13 DEF Named
  <2>8. copied' = 0 /\ got' = <<>> /\ ~Opened'
    BY <1>1, <1>4, <2>7 DEF Opened
  <2> QED BY <1>1, <1>2, <1>11, <2>1, <2>2, <2>5, <2>6, <2>7, <2>8 DEF FoundSoFar
<1> QED BY <1>12, <1>13

\* The file and the volume stay, and with them what the path names.
LEMMA SameFile ==
  ASSUME UNCHANGED <<vol, request>>
  PROVE  Named(request.path)' = Named(request.path) /\ Excused' = Excused
<1>1. Named(request.path)' = Named(request.path)
  BY DEF Named
<1>2. Excused' = Excused
  BY DEF Excused
<1> QED BY <1>1, <1>2

\* As many bytes are read as are asked for and there.
LEMMA BytesToRead ==
  ASSUME Asks(request), NEW size \in Nat
  PROVE  /\ Len_of(size) \in Nat /\ Len_of(size) <= request.len
         /\ Len_of(size) # 0 => request.offset + Len_of(size) <= size
         /\ Min({size, request.offset + request.len}) <= request.offset + Len_of(size)
<1> DEFINE o == request.offset
           l == request.len
<1>1. o \in Nat /\ l \in Nat
  BY DEF Asks
<1> HIDE DEF o, l
<1>2. Min({size, o + l}) \in {size, o + l} /\ Min({size, o + l}) <= size /\ Min({size, o + l}) <= o + l
  BY <1>1, MinTwo
<1>3. CASE o >= size
  <2>1. Len_of(size) = 0
    BY <1>3 DEF Len_of, o
  <2> QED BY <1>1, <1>2, <1>3, <2>1 DEF o, l
<1>4. CASE ~(o >= size)
  <2> DEFINE rest == size - o
             m == Min({l, rest})
  <2>1. Len_of(size) = m
    BY <1>4 DEF Len_of, o, l
  <2>2. rest \in Nat /\ o + rest = size
    BY <1>1, <1>4
  <2> HIDE DEF rest
  <2>3. m \in {l, rest} /\ m <= l /\ m <= rest
    BY <1>1, <2>2, MinTwo
  <2> HIDE DEF m
  <2>4. m \in Nat /\ m <= l /\ o + m <= size /\ Min({size, o + l}) <= o + m
    BY <1>1, <1>2, <2>2, <2>3
  <2> QED BY <2>1, <2>4 DEF o, l
<1> QED BY <1>3, <1>4

\* Reading the inode finds the one stored, or there is an excuse.
LEMMA StepInode ==
  ASSUME FileInv, Named(request.path) # Astray, open_inode
  PROVE  FoundSoFar'
<1> DEFINE gd == GdBlock(vol, inode_no)
           blk == InodeBlock(vol, inode_no)
<1>1. /\ ext_pc = "inode" /\ ext2_read_inode
      /\ UNCHANGED <<vol, request, components, inode_no, copied, got>>
  BY DEF open_inode
<1>2. Formatted(vol) /\ Asks(request) /\ FoundSoFar
  BY DEF FileInv
<1>3. /\ inode_no \in DOMAIN vol.inodes /\ LastOfPath /\ NamedHere = Named(request.path)
      /\ copied = 0 /\ got = <<>>
      /\ \A s \in sectors : s >= vol.start /\ s + SectorsOf(vol) <= vol.start + vol.count
  BY <1>1, <1>2 DEF FoundSoFar, Opened
<1>4. /\ ContentAt(ext2_read_block(vol, blk), InodeOffset(vol, inode_no), NoInode) = vol.inodes[inode_no]
      /\ BlockThere(vol, gd) /\ BlockThere(vol, blk)
  BY <1>2, <1>3, InodeFound
<1>5. Named(request.path)' = Named(request.path) /\ Excused' = Excused
  BY <1>1, SameFile
<1>6. LastOfPath' /\ NamedHere' = Named(request.path)
  <2>1. LastOfPath'
    BY <1>1, <1>3 DEF LastOfPath
  <2>2. NamedHere' = NamedHere
    BY <1>1 DEF NamedHere
  <2> QED BY <1>3, <2>1, <2>2
<1>7. sectors' \in SUBSET (sectors \cup {SectorOf(vol, gd), SectorOf(vol, blk)})
  BY <1>1 DEF ext2_read_inode
<1>8. /\ SectorOf(vol, gd) >= vol.start /\ SectorOf(vol, gd) + SectorsOf(vol) <= vol.start + vol.count
      /\ SectorOf(vol, blk) >= vol.start /\ SectorOf(vol, blk) + SectorsOf(vol) <= vol.start + vol.count
  BY <1>2, <1>4, InsideVolume
<1> HIDE DEF gd, blk
<1>9. (\A s \in sectors : s >= vol.start /\ s + SectorsOf(vol) <= vol.start + vol.count)'
  <2>1. \A s \in sectors' : s >= vol.start /\ s + SectorsOf(vol) <= vol.start + vol.count
    BY <1>3, <1>7, <1>8
  <2>2. SectorsOf(vol)' = SectorsOf(vol)
    BY <1>1 DEF SectorsOf
  <2> QED BY <1>1, <2>1, <2>2
<1>10. CASE ext_pc' = "failed"
  <2>1. ~Readable(vol, gd) \/ ~Readable(vol, blk)
    BY <1>1, <1>10 DEF ext2_read_inode, gd, blk
  <2>2. SectorsOf(vol) \in Nat
    BY <1>2 DEF Formatted, SectorsOf, SECTOR
  <2>3. Excused
    BY <2>1, <2>2 DEF Readable, Excused, AHCI_SECTORS
  <2> QED BY <1>5, <1>9, <1>10, <2>3 DEF FoundSoFar
<1>11. CASE ext_pc' # "failed"
  <2>1. ext_pc' = "open" /\ inode' = vol.inodes[inode_no]
    BY <1>1, <1>4, <1>11 DEF ext2_read_inode, gd, blk
  <2>2. inode'.size \in Nat
    BY <1>2, <1>3, <2>1, Zenon DEF Formatted, InodeStored
  <2>3. 0 <= Len_of(inode.size)'
    <3>1. Len_of(inode.size)' = Len_of(inode'.size)
      BY <1>1 DEF Len_of
    <3>2. \A size \in Nat : Len_of(size) \in Nat
      BY <1>2, BytesToRead, Zenon
    <3> DEFINE s == inode'.size
    <3>3. Len_of(s) \in Nat
      BY <2>2, <3>2
    <3> QED BY <3>1, <3>3
  <2>4. copied' = 0 /\ got' = <<>>
    BY <1>1, <1>3
  <2>5. RunsTrue'
    BY <2>3, <2>4 DEF RunsTrue
  <2>6. copied' \in Nat /\ got' \in Seq(Run)
    BY <2>4
  <2>7. inode_no' \in DOMAIN vol'.inodes /\ inode' = vol'.inodes[inode_no']
    BY <1>1, <1>3, <2>1
  <2> QED BY <1>5, <1>6, <1>9, <2>1, <2>4, <2>5, <2>6, <2>7 DEF FoundSoFar
<1> QED BY <1>10, <1>11

\* A piece to be copied ends with its block or with what is to be read.
LEMMA PieceToCopy ==
  ASSUME NEW bs \in Nat \ {0}, NEW off \in Nat, NEW done \in Nat, NEW all \in Nat, done < all,
         NEW place, place = (off + done) % bs,
         NEW piece, piece = Min({bs - place, all - done})
  PROVE  place \in Nat /\ piece \in Nat /\ place + piece <= bs /\ done + piece <= all
<1>1. place \in Nat /\ place < bs
  <2>1. off + done \in Nat
    OBVIOUS
  <2> QED BY <2>1, DivMod
<1> DEFINE x == bs - place
           y == all - done
<1>2. x \in Nat /\ y \in Nat /\ place + x = bs /\ done + y = all
  BY <1>1
<1> HIDE DEF x, y
<1>3. piece = Min({x, y})
  BY DEF x, y
<1>4. piece \in Nat /\ piece <= x /\ piece <= y
  BY <1>2, <1>3, MinTwo
<1> QED BY <1>1, <1>2, <1>4

\* A copy appends a run that goes on where the one before ends.
LEMMA StepCopy ==
  ASSUME FileInv, Named(request.path) # Astray, copy_block
  PROVE  FoundSoFar'
<1> DEFINE bs == vol.block_size
           L == Len_of(inode.size)
           pos == request.offset + copied
           f == vol.inodes[inode_no]
           n == Len(got)
<1>1. /\ ext_pc = "open" /\ components = <<>> /\ copied < L /\ HasBlock
      /\ UNCHANGED <<vol, request, ext_pc, components, inode_no, inode>>
      /\ sectors' = sectors \cup {SectorOf(vol, inode.block[BlockIndex])}
  BY DEF copy_block, Reading
<1>2. PICK piece : /\ piece = Min({bs - BlockOff, L - copied})
                   /\ got' = Append(got, [block |-> inode.block[BlockIndex], off |-> BlockOff, len |-> piece,
                                          at |-> copied])
                   /\ copied' = copied + piece
  BY Zenon DEF copy_block
<1>3. Formatted(vol) /\ Asks(request) /\ FoundSoFar
  BY DEF FileInv
<1>4. /\ inode_no \in DOMAIN vol.inodes /\ LastOfPath /\ NamedHere = Named(request.path)
      /\ inode = f /\ copied \in Nat /\ got \in Seq(Run) /\ RunsTrue
      /\ \A s \in sectors : s >= vol.start /\ s + SectorsOf(vol) <= vol.start + vol.count
  BY <1>1, <1>3 DEF FoundSoFar, Opened
<1>5. /\ bs \in Nat \ {0} /\ request.offset \in Nat /\ inode.size \in Nat
      /\ \A i \in 0 .. DIRECT - 1 : inode.block[i] \in Nat /\ (inode.block[i] # 0 => BlockThere(vol, inode.block[i]))
  BY <1>3, <1>4, Zenon DEF Formatted, InodeStored, Asks
<1>6. L \in Nat
  BY <1>3, <1>5, BytesToRead, Zenon
<1>7. BlockIndex = pos \div bs /\ BlockOff = pos % bs /\ pos \in Nat
  BY <1>4, <1>5 DEF BlockIndex, BlockOff, Here_off
<1>8. BlockOff \in Nat /\ piece \in Nat /\ BlockOff + piece <= bs /\ copied + piece <= L
  <2> HIDE DEF bs, L
  <2>1. BlockOff = (request.offset + copied) % bs
    BY <1>7
  <2> QED BY <1>1, <1>2, <1>4, <1>5, <1>6, <2>1, PieceToCopy, Zenon
<1>9. /\ inode.block[BlockIndex] \in Nat /\ BlockThere(vol, inode.block[BlockIndex])
  <2>1. pos \div bs \in Nat
    <3> HIDE DEF pos, bs
    <3> QED BY <1>5, <1>7, DivMod
  <2>2. BlockIndex \in 0 .. DIRECT - 1
    <3>1. BlockIndex \in Nat /\ BlockIndex < DIRECT
      BY <1>1, <1>7, <2>1 DEF HasBlock
    <3> QED BY <3>1 DEF DIRECT
  <2> QED BY <1>1, <1>5, <2>2 DEF HasBlock
<1> DEFINE run == [block |-> inode.block[BlockIndex], off |-> BlockOff, len |-> piece, at |-> copied]
<1>10. run \in Run /\ run.block = inode.block[BlockIndex] /\ run.off = BlockOff /\ run.len = piece /\ run.at = copied
  BY <1>4, <1>8, <1>9 DEF Run
<1>11. got' = Append(got, run)
  BY <1>2
<1> HIDE DEF run
<1>12. /\ got' \in Seq(Run) /\ Len(got') = n + 1 /\ got'[n + 1] = run /\ n \in Nat
       /\ DOMAIN got = 1 .. n /\ DOMAIN got' = 1 .. n + 1 /\ \A k \in 1 .. n : got'[k] = got[k] /\ got[k] \in Run
       /\ got' # <<>> /\ (got = <<>> <=> n = 0)
  BY <1>4, <1>10, <1>11
<1>13. copied' = copied + piece /\ copied' \in Nat
  BY <1>2, <1>4, <1>8
<1> HIDE DEF n, L, bs
<1>14. ASSUME NEW k \in DOMAIN got'
       PROVE  LET p == request.offset + got'[k].at
              IN  /\ got'[k].at = IF k = 1 THEN 0 ELSE got'[k - 1].at + got'[k - 1].len
                  /\ got'[k].block = inode.block[p \div bs]
                  /\ got'[k].off = p % bs
                  /\ got'[k].off + got'[k].len <= bs
                  /\ got'[k].at + got'[k].len <= copied'
  <2>1. CASE k = n + 1
    <3>1. got'[k] = run
      BY <1>12, <2>1
    <3>2. run.at = IF k = 1 THEN 0 ELSE got'[k - 1].at + got'[k - 1].len
      <4>1. CASE n = 0
        BY <1>4, <1>10, <1>12, <2>1, <4>1 DEF RunsTrue
      <4>2. CASE n # 0
        <5>1. n \in 1 .. n /\ k - 1 = n /\ k # 1
          BY <1>12, <2>1, <4>2
        <5>2. copied = got[n].at + got[n].len
          BY <1>4, <1>12, <4>2 DEF RunsTrue, n
        <5> QED BY <1>10, <1>12, <5>1, <5>2
      <4> QED BY <4>1, <4>2
    <3> QED BY <1>7, <1>8, <1>10, <1>13, <3>1, <3>2
  <2>2. CASE k # n + 1
    <3>1. k \in 1 .. n /\ (k # 1 => k - 1 \in 1 .. n)
      BY <1>12, <2>2
    <3>2. got'[k] = got[k] /\ (k # 1 => got'[k - 1] = got[k - 1]) /\ got[k] \in Run
      BY <1>12, <3>1
    <3>3. LET p == request.offset + got[k].at
          IN  /\ got[k].at = IF k = 1 THEN 0 ELSE got[k - 1].at + got[k - 1].len
              /\ got[k].block = inode.block[p \div bs]
              /\ got[k].off = p % bs
              /\ got[k].off + got[k].len <= bs
              /\ got[k].at + got[k].len <= copied
      BY <1>4, <1>12, <3>1 DEF RunsTrue, bs
    <3>4. got[k].at + got[k].len \in Nat
      BY <3>2 DEF Run
    <3>5. got[k].at + got[k].len <= copied'
      BY <1>4, <1>8, <1>13, <3>3, <3>4
    <3> QED BY <3>2, <3>3, <3>5
  <2> QED BY <2>1, <2>2
<1>15. copied' = got'[Len(got')].at + got'[Len(got')].len /\ copied' <= L
  BY <1>8, <1>10, <1>12, <1>13
<1>16. RunsTrue'
  <2>1. Len_of(inode.size)' = L
    BY <1>1 DEF Len_of, L
  <2>2. vol'.block_size = bs /\ inode' = inode /\ request' = request
    BY <1>1 DEF bs
  <2> QED BY <1>12, <1>14, <1>15, <2>1, <2>2 DEF RunsTrue
<1>17. (\A s \in sectors : s >= vol.start /\ s + SectorsOf(vol) <= vol.start + vol.count)'
  <2>1. \A s \in sectors' : s >= vol.start /\ s + SectorsOf(vol) <= vol.start + vol.count
    BY <1>1, <1>3, <1>4, <1>9, InsideVolume
  <2>2. SectorsOf(vol)' = SectorsOf(vol)
    BY <1>1 DEF SectorsOf
  <2> QED BY <1>1, <2>1, <2>2
<1>18. LastOfPath' /\ NamedHere' = Named(request.path)'
  <2>1. LastOfPath'
    BY <1>1, <1>4 DEF LastOfPath
  <2>2. NamedHere' = NamedHere
    BY <1>1 DEF NamedHere
  <2> QED BY <1>1, <1>4, <2>1, <2>2, SameFile
<1>19. inode_no' \in DOMAIN vol'.inodes /\ inode' = vol'.inodes[inode_no']
  BY <1>1, <1>4
<1>20. ext_pc' = "open" /\ components' = <<>> /\ Opened'
  BY <1>1 DEF Opened
<1> QED BY <1>12, <1>13, <1>16, <1>17, <1>18, <1>19, <1>20 DEF FoundSoFar

\* Reading ends when there is no more to read.
LEMMA StepEnd ==
  ASSUME FileInv, Named(request.path) # Astray, file_read_ends
  PROVE  FoundSoFar'
<1> DEFINE L == Len_of(inode.size)
           end == request.offset + copied
           i == end \div vol.block_size
<1>1. /\ ext_pc = "open" /\ components = <<>> /\ ext_pc' = "read"
      /\ copied >= L \/ ~HasBlock \/ (HasBlock /\ ~Readable(vol, inode.block[BlockIndex]))
      /\ UNCHANGED <<vol, request, components, inode_no, inode, copied, got, sectors>>
  BY DEF file_read_ends, Reading
<1>2. Formatted(vol) /\ Asks(request) /\ FoundSoFar
  BY DEF FileInv
<1>3. /\ inode_no \in DOMAIN vol.inodes /\ LastOfPath /\ NamedHere = Named(request.path)
      /\ inode = vol.inodes[inode_no] /\ copied \in Nat /\ got \in Seq(Run) /\ RunsTrue
      /\ \A s \in sectors : s >= vol.start /\ s + SectorsOf(vol) <= vol.start + vol.count
  BY <1>1, <1>2 DEF FoundSoFar, Opened
<1>4. BlockIndex = i /\ i \in Nat
  <2>1. end \in Nat /\ vol.block_size \in Nat \ {0}
    <3>1. request.offset \in Nat
      BY <1>2 DEF Asks
    <3>2. end \in Nat
      BY <1>3, <3>1
    <3>3. vol.block_size \in Nat \ {0}
      BY <1>2 DEF Formatted
    <3> QED BY <3>2, <3>3
  <2>2. BlockIndex = i
    BY DEF BlockIndex, Here_off
  <2> HIDE DEF end
  <2> QED BY <2>1, <2>2, DivMod
<1>5. AllRead
  <2> SUFFICES ASSUME end < Min({inode.size, request.offset + request.len})
               PROVE  i >= DIRECT \/ inode.block[i] = 0 \/ ~Readable(vol, inode.block[i])
    BY DEF AllRead
  <2>1. CASE copied >= L
    <3> DEFINE m == Min({inode.size, request.offset + request.len})
               size == inode.size
    <3>1. size \in Nat /\ request.offset \in Nat /\ request.len \in Nat
      BY <1>2, <1>3, Zenon DEF Formatted, InodeStored, Asks
    <3>2. L \in Nat /\ m <= request.offset + L
      BY <1>2, <3>1, BytesToRead
    <3>3. m \in Nat
      <4> DEFINE e == request.offset + request.len
      <4>1. e \in Nat
        BY <3>1
      <4> HIDE DEF e, size
      <4>2. Min({size, e}) \in Nat
        BY <3>1, <4>1, MinTwo
      <4> QED BY <4>2 DEF e, size
    <3> HIDE DEF L, m
    <3>4. end < m
      BY DEF m
    <3> QED BY <1>3, <2>1, <3>1, <3>2, <3>3, <3>4
  <2>2. CASE ~HasBlock
    <3>1. i < DIRECT \/ i >= DIRECT
      BY <1>4 DEF DIRECT
    <3> HIDE DEF i
    <3> QED BY <1>4, <2>2, <3>1 DEF HasBlock
  <2>3. CASE ~Readable(vol, inode.block[BlockIndex])
    BY <1>4, <2>3
  <2> QED BY <1>1, <2>1, <2>2, <2>3
<1>6. AllRead' /\ RunsTrue' /\ LastOfPath' /\ NamedHere' = NamedHere
  <2>1. AllRead'
    BY <1>1, <1>5 DEF AllRead, Readable, SectorsOf, SectorOf, Final
  <2>2. RunsTrue'
    BY <1>1, <1>3 DEF RunsTrue, Len_of
  <2>3. LastOfPath'
    BY <1>1, <1>3 DEF LastOfPath
  <2>4. NamedHere' = NamedHere
    BY <1>1 DEF NamedHere
  <2> QED BY <2>1, <2>2, <2>3, <2>4
<1>7. (\A s \in sectors : s >= vol.start /\ s + SectorsOf(vol) <= vol.start + vol.count)'
  <2>1. SectorsOf(vol)' = SectorsOf(vol)
    BY <1>1 DEF SectorsOf
  <2> QED BY <1>1, <1>3, <2>1
<1>8. NamedHere' = Named(request.path)'
  BY <1>1, <1>3, <1>6, SameFile
<1>9. ext_pc' = "read" /\ components' = <<>> /\ Opened'
  BY <1>1 DEF Opened
<1>10. /\ inode_no' \in DOMAIN vol'.inodes /\ inode' = vol'.inodes[inode_no']
       /\ copied' \in Nat /\ got' \in Seq(Run)
  BY <1>1, <1>3
<1> QED BY <1>6, <1>7, <1>8, <1>9, <1>10 DEF FoundSoFar

\* The driver keeps to the file its path names.
LEMMA FileStep == FileInv /\ Ext2Next => FileInv'
<1> SUFFICES ASSUME FileInv, Ext2Next  PROVE FileInv'
  OBVIOUS
<1>1. vol' = vol /\ request' = request /\ ext_pc' \in {"inode", "open", "read", "failed"}
  BY DEF FileInv, Ext2Next, open_component, open_inode, ext2_read_inode, copy_block, file_read_ends
<1>2. Formatted(vol)' /\ Asks(request)'
  <2>1. Formatted(vol) /\ Asks(request)
    BY DEF FileInv
  <2> QED BY <1>1, <2>1
<1>3. Named(request.path)' = Named(request.path)
  BY <1>1, SameFile
<1>4. ASSUME Named(request.path) # Astray  PROVE FoundSoFar'
  BY <1>4, StepComponent, StepInode, StepCopy, StepEnd DEF Ext2Next
<1> QED BY <1>1, <1>2, <1>3, <1>4 DEF FileInv, Astray

\* Nothing else disturbs it.
LEMMA FileKept == FileInv /\ UNCHANGED evars => FileInv'
<1> SUFFICES ASSUME FileInv, UNCHANGED evars  PROVE FileInv'
  OBVIOUS
<1>1. UNCHANGED <<vol, request, ext_pc, components, inode_no, inode, copied, got, sectors>>
  BY DEF evars
<1>2. Named(request.path)' = Named(request.path) /\ Excused' = Excused
  BY <1>1, SameFile
<1>3. /\ NamedHere' = NamedHere /\ (LastOfPath' <=> LastOfPath) /\ (AllRead' <=> AllRead)
      /\ (RunsTrue' <=> RunsTrue) /\ SectorsOf(vol)' = SectorsOf(vol) /\ (Opened' <=> Opened)
  <2>1. NamedHere' = NamedHere
    BY <1>1 DEF NamedHere
  <2>2. LastOfPath' <=> LastOfPath
    BY <1>1 DEF LastOfPath
  <2>3. AllRead' <=> AllRead
    BY <1>1 DEF AllRead, Readable, SectorsOf, SectorOf, Final
  <2>4. RunsTrue' <=> RunsTrue
    BY <1>1 DEF RunsTrue, Len_of
  <2>5. SectorsOf(vol)' = SectorsOf(vol) /\ (Opened' <=> Opened)
    BY <1>1 DEF SectorsOf, Opened
  <2> QED BY <2>1, <2>2, <2>3, <2>4, <2>5
<1>4. FoundSoFar => FoundSoFar'
  BY <1>1, <1>2, <1>3 DEF FoundSoFar
<1>5. Formatted(vol)' /\ Asks(request)'
  <2>1. Formatted(vol) /\ Asks(request)
    BY DEF FileInv
  <2> QED BY <1>1, <2>1
<1> QED BY <1>1, <1>2, <1>4, <1>5 DEF FileInv, Astray

\* What is known of a walk that has ended is what is promised of it.
LEMMA FileKnown == FileInv => FileReadTrue /\ SectorsInside
<1> SUFFICES ASSUME FileInv, Named(request.path) # Astray
             PROVE  /\ ext_pc = "read" =>
                         LET f == vol.inodes[Named(request.path)]
                             end == request.offset + copied
                         IN  /\ Named(request.path) # Nothing
                             /\ \A k \in DOMAIN got :
                                  LET pos == request.offset + got[k].at
                                      next == got[k].at + got[k].len
                                  IN  /\ got[k].at = IF k = 1 THEN 0 ELSE got[k - 1].at + got[k - 1].len
                                      /\ got[k].block = f.block[pos \div vol.block_size]
                                      /\ got[k].off = pos % vol.block_size
                                      /\ got[k].off + got[k].len <= vol.block_size
                                      /\ next <= copied
                             /\ copied = IF got = <<>> THEN 0 ELSE got[Len(got)].at + got[Len(got)].len
                             /\ copied <= request.len /\ (copied # 0 => end <= f.size)
                             /\ end < Min({f.size, request.offset + request.len}) =>
                                  LET i == end \div vol.block_size
                                  IN  i >= DIRECT \/ f.block[i] = 0 \/ ~Readable(vol, f.block[i])
                    /\ ext_pc = "failed" => Named(request.path) = Nothing \/ Excused
                    /\ \A s \in sectors : s >= vol.start /\ s + SectorsOf(vol) <= vol.start + vol.count
  BY DEF FileReadTrue, SectorsInside
<1>1. Formatted(vol) /\ Asks(request) /\ FoundSoFar
  BY DEF FileInv
<1>2. /\ ext_pc = "failed" => Named(request.path) = Nothing \/ Excused
      /\ \A s \in sectors : s >= vol.start /\ s + SectorsOf(vol) <= vol.start + vol.count
  BY <1>1 DEF FoundSoFar
<1>3. ASSUME ext_pc = "read"
      PROVE  /\ Named(request.path) = inode_no /\ inode_no # Nothing /\ inode = vol.inodes[inode_no]
             /\ RunsTrue /\ AllRead /\ copied <= request.len
             /\ copied # 0 => request.offset + copied <= inode.size
  <2>1. /\ inode_no \in DOMAIN vol.inodes /\ NamedHere = Named(request.path) /\ components = <<>>
        /\ inode = vol.inodes[inode_no] /\ copied \in Nat /\ RunsTrue /\ AllRead
    BY <1>1, <1>3 DEF FoundSoFar, Opened
  <2>2. /\ inode.size \in Nat /\ request.path \in Seq(STRING) /\ request.offset \in Nat /\ request.len \in Nat
        /\ inode_no \in Nat \ {0}
    BY <1>1, <2>1, Zenon DEF Formatted, InodeStored, Asks
  <2>3. Named(request.path) = inode_no
    <3> DEFINE n == Len(request.path)
    <3>1. n \in Nat /\ n - 0 + 1 = n + 1 /\ n + 1 \in Nat /\ n + 1 \notin DOMAIN request.path /\ Len(components) = 0
      BY <2>1, <2>2
    <3>2. NamedHere = NamedFrom(vol, request.path)[n + 1][inode_no]
      BY <3>1 DEF NamedHere
    <3>3. inode_no \in Numbers_of(vol)
      BY <2>1 DEF Numbers_of
    <3> QED BY <1>1, <2>1, <2>2, <3>1, <3>2, <3>3, NamesListed
  <2>4. copied <= request.len /\ (copied # 0 => request.offset + copied <= inode.size)
    <3> DEFINE L == Len_of(inode.size)
               size == inode.size
    <3>1. size \in Nat /\ L \in Nat /\ L <= request.len /\ (L # 0 => request.offset + L <= size)
      BY <1>1, <2>2, BytesToRead, Zenon
    <3>2. copied <= L
      BY <2>1 DEF RunsTrue
    <3> HIDE DEF L, size
    <3>3. copied <= request.len /\ (copied # 0 => request.offset + copied <= size)
      BY <2>1, <2>2, <3>1, <3>2
    <3> QED BY <3>3 DEF size
  <2> QED BY <2>1, <2>2, <2>3, <2>4 DEF Nothing
<1>4. CASE ext_pc = "read"
  BY <1>2, <1>3, <1>4, Zenon DEF RunsTrue, AllRead
<1>5. CASE ext_pc # "read"
  BY <1>2, <1>5
<1> QED BY <1>4, <1>5

----------------------------------------------------------------------------
(* The windows of BARs *)

\* Addresses of the direct map and of the windows' region, which is the kernel's two
\* page directories.
DirectPages == HHDM .. HHDM + LOW_PDS * N * N - 1
WindowPages == ((N - 1) * N + N - 2) * N * N .. N * N * N * N - 1
KnownPages == DirectPages \cup WindowPages

\* An entry in which a table made for a window may stand: that of the second
\* directory, those of the kernel's behind its large pages, those of the second.
Slot(m, t, i) ==
  \/ t = V!pdpt_kern /\ i = N - 1
  \/ t = V!pd_kern_0 /\ i \in KERNEL_MAP .. N - 1
  \/ m[V!pdpt_kern][N - 1].present /\ t = m[V!pdpt_kern][N - 1].frame /\ i \in V!Index

\* What boot.asm made is as it was.
BootTables(m) ==
  /\ m[pml4_phys][N - 1] = V!Small(V!pdpt_kern) /\ m[pml4_phys][N \div 2] = V!Small(V!pdpt_low)
  /\ \A k \in 0 .. LOW_PDS - 1 : /\ m[V!pdpt_low][k] = V!Small(V!pd_low(k))
                                 /\ m[V!pd_low(k)] = V!fill_pd(k)
  /\ m[V!pdpt_kern][N - 2] = V!Small(V!pd_kern_0)
  /\ \A i \in 0 .. KERNEL_MAP - 1 : m[V!pd_kern_0][i] = V!Large(KERNEL_PHYS_BASE + i * N)

\* Tables made lie in frames taken from the pool, each entered once.
TablesMade(m, p) ==
  \A t \in Frames : \A i \in V!Index :
    Slot(m, t, i) /\ m[t][i].present => ~m[t][i].ps /\ m[t][i].frame \in BootFree \ p
EnteredOnce(m) ==
  \A t, u \in Frames : \A i, h \in V!Index :
    /\ Slot(m, t, i) /\ Slot(m, u, h) /\ m[t][i].present /\ m[u][h].present
    /\ m[t][i].frame = m[u][h].frame
    => t = u /\ i = h

TablesInv(m, p) ==
  /\ m \in [Frames -> [V!Index -> V!Entry]] /\ p \subseteq BootFree
  /\ BootTables(m) /\ TablesMade(m, p) /\ EnteredOnce(m)

\* The page that is mapped next.
NextPage == IF mapping.pages > 0 THEN mapping.first + mapping.done ELSE Window

\* Page v of a window leads to page p of a device, unless it is misplaced.
Leads_to(v, p) == InLargePage(v) \/ V!Translate(pmem, VA(v)) = p

PageOfBar(f, b, p) == bar_virt[f][b] \div PAGE + p

\* A BAR that has an address is reached there.
BarMapped(f, b) ==
  \A p \in PagesOf(f, b) :
    /\ PageOfBar(f, b, p) \in DirectPages \cup (MmioStart .. (NextPage - 1))
    /\ Leads_to(PageOfBar(f, b, p), bars[f][b].addr \div PAGE + p)
BarsMapped == \A x \in Mapped : BarMapped(x[1], x[2])

\* The window that is being mapped is that of a BAR, with the pages it has.
WindowTrue ==
  /\ calls = <<>> /\ nth \in DOMAIN devices /\ mapping.bar \in 1 .. 6 /\ mapping.done < mapping.pages
  /\ mapping.first \in MmioStart .. N * N * N * N - 1
  /\ Window = mapping.first + mapping.pages
  /\ IsMemory /\ bar_virt[Cur][mapping.bar] = 0
  /\ mapping.pages = AlignUp(Bar.size + (Bar.addr % PAGE), PAGE) \div PAGE
  /\ \A d \in 0 .. mapping.done - 1 : Leads_to(mapping.first + d, Bar.addr \div PAGE + d)

\* BARs are mapped at the start and by a probe that waits for it.
MappingCalled ==
  /\ mapping.pages = 0 => mapping.done = 0
  /\ mapping.bar > 0 => \/ pci_stage = "map"
                        \/ probes # <<>> /\ probe_pc \in {"remap", "map"}

NothingMapped == \A f \in DOMAIN machine : \A b \in 1 .. 6 : bar_virt[f][b] = 0

WindowsInv ==
  /\ TablesInv(pmem, ppool)
  /\ mmio_alloc_ptr \in {0} \cup MmioStart .. N * N * N * N - 1
  /\ bar_virt \in [DOMAIN machine -> [1 .. 6 -> Nat]]
  /\ mapping \in [bar : 0 .. 7, first : Nat, pages : Nat, done : Nat]
  /\ MappingCalled
  /\ mapping.pages > 0 => WindowTrue
  /\ calls # <<>> => NothingMapped
  /\ InLargePage(NextPage) => ppool = BootFree
  /\ BarsMapped


\* A page's address is read from its number digit by digit.
LEMMA AddressDigits ==
  ASSUME NEW a \in V!Index, NEW b \in V!Index, NEW c \in V!Index, NEW d \in V!Index
  PROVE  VA(((a * N + b) * N + c) * N + d) = <<a, b, c, d>>
<1>1. N \in Nat \ {0} /\ a \in 0 .. N - 1 /\ b \in 0 .. N - 1 /\ c \in 0 .. N - 1 /\ d \in 0 .. N - 1
  BY DriversAssumption DEF V!Index
<1> DEFINE x == a * N + b
           y == x * N + c
           p == y * N + d
           m == N * N
           e == c * N + d
<1>2. a \in Nat /\ b \in Nat /\ c \in Nat /\ d \in Nat /\ a < N /\ b < N /\ c < N /\ d < N
  BY <1>1
<1>3. x \in Nat /\ m \in Nat \ {0} /\ e \in Nat
  BY <1>1, <1>2, SMTT(30)
<1>4. y \in Nat
  BY <1>1, <1>2, <1>3, SMTT(30)
<1>5. p \in Nat
  BY <1>1, <1>2, <1>4, SMTT(30)
<1>6. ASSUME NEW k \in Nat, NEW q \in Nat, k < N
      PROVE  (q * N + k) % N = k /\ (q * N + k) \div N = q
  <2> DEFINE z == q * N + k
  <2>1. z \in Nat
    BY <1>1, <1>6, SMTT(30)
  <2>2. z \div N \in Nat /\ z % N \in Nat /\ z % N < N /\ z = (z \div N) * N + (z % N)
    BY <1>1, <2>1, DivMod
  <2>3. (z \div N) * N + (z % N) = q * N + k
    BY <2>2
  <2> HIDE DEF z
  <2>4. z \div N = q /\ z % N = k
    BY <1>1, <1>6, <2>2, <2>3, OneQuotient, Zenon
  <2> QED BY <2>4 DEF z
<1>7. e < m /\ p = x * m + e
  <2>1. c * N + N <= N * N
    <3>1. PICK g \in Nat : N = c + 1 + g
      <4>1. N - c - 1 \in Nat /\ N = c + 1 + (N - c - 1)
        BY <1>1, <1>2
      <4> QED BY <4>1
    <3>2. N * N = c * N + N + g * N /\ g * N \in Nat /\ c * N \in Nat
      BY <1>1, <1>2, <3>1, SMTT(30)
    <3> QED BY <1>1, <3>2
  <2>2. y * N = x * m + c * N /\ c * N \in Nat
    BY <1>1, <1>2, <1>3, SMTT(30)
  <2> HIDE DEF x, y
  <2> QED BY <1>1, <1>2, <1>3, <2>1, <2>2, SMTT(30)
<1>8. p \div m = x
  <2> HIDE DEF x, m, e, p
  <2>1. p \div m \in Nat /\ p % m \in Nat /\ p % m < m /\ p = (p \div m) * m + (p % m)
    BY <1>3, <1>5, DivMod
  <2> QED BY <1>3, <1>7, <2>1, OneQuotient
<1>9. p \div N = y
  <2>1. (y * N + d) \div N = y
    BY <1>2, <1>4, <1>6
  <2> QED BY <2>1
<1>10. p \div (N * N * N) = a
  <2> DEFINE c3 == N * N * N
             r == b * m + e
  <2>1. c3 \in Nat \ {0} /\ r \in Nat /\ c3 = N * m
    BY <1>1, <1>2, <1>3, SMTT(30)
  <2>2. x * m = a * c3 + b * m
    BY <1>1, <1>2, <1>3, SMTT(30)
  <2>3. b * m + m <= c3
    <3>1. PICK g \in Nat : N = b + 1 + g
      <4>1. N - b - 1 \in Nat /\ N = b + 1 + (N - b - 1)
        BY <1>1, <1>2
      <4> QED BY <4>1
    <3> HIDE DEF m, c3
    <3>2. N * m = b * m + m + g * m /\ g * m \in Nat /\ b * m \in Nat
      BY <1>2, <1>3, <3>1, SMTT(30)
    <3> QED BY <1>3, <2>1, <3>2
  <2> HIDE DEF x, y, m, e, p, c3
  <2>4. a * c3 \in Nat /\ b * m \in Nat
    BY <1>2, <1>3, <2>1, SMTT(30)
  <2>5. p = a * c3 + r /\ r < c3
    BY <1>3, <1>5, <1>7, <2>1, <2>2, <2>3, <2>4
  <2>6. p \div c3 \in Nat /\ p % c3 \in Nat /\ p % c3 < c3 /\ p = (p \div c3) * c3 + (p % c3)
    BY <1>5, <2>1, DivMod, Zenon
  <2> HIDE DEF r
  <2>7. p \div c3 = a
    <3> DEFINE s == p \div c3
               t == p % c3
    <3>1. s \in Nat /\ t \in Nat /\ t < c3 /\ s * c3 + t = a * c3 + r
      BY <2>5, <2>6
    <3> HIDE DEF s, t
    <3>2. s = a
      BY <1>2, <2>1, <2>5, <3>1, OneQuotient
    <3> QED BY <3>2 DEF s
  <2> QED BY <2>7 DEF c3
<1>11. x % N = b /\ y % N = c /\ p % N = d
  BY <1>2, <1>3, <1>4, <1>6
<1>12. a % N = a
  BY <1>1
<1>13. VA(p) = <<(p \div (N * N * N)) % N, (p \div (N * N)) % N, (p \div N) % N, p % N>>
  BY DEF VA
<1> HIDE DEF x, y, p
<1>14. VA(p) = <<a, b, c, d>>
  BY <1>8, <1>9, <1>10, <1>11, <1>12, <1>13 DEF m
<1> QED BY <1>14 DEF x, y, p

\* A page of the windows' region lies in one of the last two directories.
LEMMA WindowDigits ==
  ASSUME NEW p \in WindowPages
  PROVE  \E j \in {N - 2, N - 1} : \E c, d \in V!Index :
           p = (((N - 1) * N + j) * N + c) * N + d /\ VA(p) = <<N - 1, j, c, d>>
<1>1. N \in Nat \ {0} /\ N > 2
  BY DriversAssumption
<1> DEFINE g == (N - 1) * N + N - 2
           m == N * N
           q == p - g * m
           x == q \div N
           d == q % N
           b == x \div N
           c == x % N
<1>2. g \in Nat /\ m \in Nat \ {0} /\ g + 2 = m
  BY <1>1, SMTT(30)
<1>3. g * N * N = g * m /\ N * N * N * N = g * m + 2 * m /\ g * m \in Nat
  <2>1. N * N * N * N = m * m
    BY <1>1, SMTT(30)
  <2>2. m * m = g * m + 2 * m /\ g * m \in Nat
    <3> HIDE DEF g, m
    <3> QED BY <1>2, SMTT(30)
  <2>3. g * N * N = g * m
    <3> HIDE DEF g
    <3> QED BY <1>1, <1>2, SMTT(30) DEF m
  <2> QED BY <2>1, <2>2, <2>3
<1>4. q \in Nat /\ q < 2 * m /\ p = g * m + q /\ p \in Nat
  <2>1. p \in g * N * N .. N * N * N * N - 1
    BY DEF WindowPages
  <2> HIDE DEF g, m
  <2> QED BY <1>2, <1>3, <2>1
<1>5. x \in Nat /\ d \in Nat /\ d < N /\ q = x * N + d
  <2> HIDE DEF q
  <2> QED BY <1>1, <1>4, DivMod
<1>6. b \in Nat /\ c \in Nat /\ c < N /\ x = b * N + c
  <2> HIDE DEF x
  <2> QED BY <1>1, <1>5, DivMod, Zenon
<1> HIDE DEF g, m, q, x, d, b, c
<1>7. b < 2
  <2>1. (b * N + c) * N = b * m + c * N /\ c * N \in Nat
    BY <1>1, <1>6, SMTT(30) DEF m
  <2>2. b * m <= q
    BY <1>1, <1>2, <1>4, <1>5, <1>6, <2>1, SMTT(30)
  <2>3. b >= 2 => b * m >= 2 * m
    BY <1>2, <1>6, SMTT(30)
  <2>4. b * m \in Nat
    BY <1>2, <1>6, SMTT(30)
  <2> QED BY <1>2, <1>4, <1>6, <2>2, <2>3, <2>4
<1> DEFINE j == N - 2 + b
<1>8. j \in {N - 2, N - 1} /\ j \in V!Index /\ N - 1 \in V!Index /\ c \in V!Index /\ d \in V!Index
  BY <1>1, <1>5, <1>6, <1>7 DEF V!Index
<1>9. p = (((N - 1) * N + j) * N + c) * N + d
  <2>1. (N - 1) * N + j = g + b
    BY <1>1, <1>6 DEF g
  <2>2. ((g + b) * N + c) * N = g * m + (b * N + c) * N
    BY <1>1, <1>2, <1>6, SMTT(30) DEF m
  <2>3. q = (b * N + c) * N + d
    BY <1>5, <1>6
  <2>4. (((N - 1) * N + j) * N + c) * N = g * m + (b * N + c) * N
    BY <2>1, <2>2
  <2>5. g * m \in Nat /\ (b * N + c) * N \in Nat
    BY <1>1, <1>2, <1>6, SMTT(30)
  <2> HIDE DEF j
  <2> QED BY <1>4, <1>5, <2>3, <2>4, <2>5
<1>10. VA(p) = <<N - 1, j, c, d>>
  <2> HIDE DEF j
  <2> QED BY <1>8, <1>9, AddressDigits, Zenon
<1> QED BY <1>8, <1>9, <1>10

\* A page of the direct map is that of the memory it stands for.
LEMMA DirectDigits ==
  ASSUME NEW a \in 0 .. LOW_PDS * N * N - 1
  PROVE  \E k \in 0 .. LOW_PDS - 1 : \E c, d \in V!Index :
           /\ VA(HHDM + a) = <<N \div 2, k, c, d>> /\ a = (k * N + c) * N + d
           /\ HHDM + a = (((N \div 2) * N + k) * N + c) * N + d
<1>1. N \in Nat \ {0} /\ N > 2 /\ LOW_PDS \in 1 .. N
  BY DriversAssumption
<1> DEFINE h == N \div 2
           m == N * N
           x == a \div N
           d == a % N
           k == x \div N
           c == x % N
<1>2. h \in Nat /\ h \in V!Index
  BY <1>1 DEF V!Index
<1>3. m \in Nat \ {0} /\ LOW_PDS * N * N = LOW_PDS * m /\ a \in Nat /\ LOW_PDS * m \in Nat
  BY <1>1, SMTT(30)
<1>4. x \in Nat /\ d \in Nat /\ d < N /\ a = x * N + d
  BY <1>1, <1>3, DivMod
<1>5. k \in Nat /\ c \in Nat /\ c < N /\ x = k * N + c
  <2> HIDE DEF x
  <2> QED BY <1>1, <1>4, DivMod
<1> HIDE DEF h, x, d, k, c
<1>6. k < LOW_PDS
  <2>1. (k * N + c) * N = k * m + c * N /\ c * N \in Nat
    BY <1>1, <1>5, SMTT(30)
  <2> HIDE DEF m
  <2>2. k * m <= a
    BY <1>1, <1>3, <1>4, <1>5, <2>1, SMTT(30)
  <2>3. k >= LOW_PDS => k * m >= LOW_PDS * m
    BY <1>1, <1>3, <1>5, SMTT(30)
  <2>4. k * m \in Nat /\ a < LOW_PDS * m
    BY <1>1, <1>3, <1>5, SMTT(30)
  <2> QED BY <1>1, <1>3, <1>5, <2>2, <2>3, <2>4
<1>7. k \in 0 .. LOW_PDS - 1 /\ k \in V!Index /\ c \in V!Index /\ d \in V!Index
  BY <1>1, <1>4, <1>5, <1>6 DEF V!Index
<1>8. HHDM + a = ((h * N + k) * N + c) * N + d /\ a = (k * N + c) * N + d
  <2>1. a = (k * N + c) * N + d
    BY <1>4, <1>5
  <2>2. HHDM = h * N * N * N
    BY DEF HHDM, h
  <2>3. ((h * N + k) * N + c) * N = h * N * N * N + (k * N + c) * N
    BY <1>1, <1>2, <1>5, SMTT(30)
  <2>4. h * N * N * N \in Nat /\ (k * N + c) * N \in Nat
    BY <1>1, <1>2, <1>5, SMTT(30)
  <2> QED BY <1>4, <2>1, <2>2, <2>3, <2>4
<1>9. VA(HHDM + a) = <<h, k, c, d>>
  BY <1>2, <1>7, <1>8, AddressDigits
<1> QED BY <1>7, <1>8, <1>9 DEF h

\* No two pages of these have the same address.
LEMMA AddressesDiffer ==
  ASSUME NEW p \in KnownPages, NEW q \in WindowPages, VA(p) = VA(q)
  PROVE  p = q
<1>1. N \in Nat /\ N > 2
  BY DriversAssumption
<1>2. PICK j \in {N - 2, N - 1} : \E c, d \in V!Index :
           q = (((N - 1) * N + j) * N + c) * N + d /\ VA(q) = <<N - 1, j, c, d>>
  BY WindowDigits
<1>3. CASE p \in WindowPages
  <2>1. PICK i \in {N - 2, N - 1} : \E c, d \in V!Index :
             p = (((N - 1) * N + i) * N + c) * N + d /\ VA(p) = <<N - 1, i, c, d>>
    BY <1>3, WindowDigits
  <2> QED BY <1>2, <2>1
<1>4. CASE p \in DirectPages
  <2>1. p - HHDM \in 0 .. LOW_PDS * N * N - 1 /\ HHDM + (p - HHDM) = p
    <3>1. HHDM \in Nat /\ LOW_PDS * N * N \in Nat
      <4>1. N \div 2 \in Nat /\ LOW_PDS \in Nat
        BY <1>1, DriversAssumption
      <4> QED BY <1>1, <4>1, SMTT(30) DEF HHDM
    <3> QED BY <1>4, <3>1 DEF DirectPages
  <2>2. VA(p)[1] = N \div 2
    BY <2>1, DirectDigits
  <2>3. VA(q)[1] = N - 1 /\ N \div 2 # N - 1
    BY <1>1, <1>2
  <2> QED BY <2>2, <2>3
<1> QED BY <1>3, <1>4 DEF KnownPages

\* Windows begin behind the kernel, and before a misplaced page all are misplaced; the
\* large page of such a one begins behind the kernel's image.
LEMMA BehindKernel ==
  /\ MmioStart \in Nat /\ MmioStart > 0
  /\ \A p \in Nat : MmioStart <= p /\ p < N * N * N * N => p \in WindowPages
  /\ \A q \in WindowPages : MmioStart <= q /\ InLargePage(q) =>
       /\ VA(q)[3] * N > KERNEL_SIZE
       /\ \A p \in WindowPages : p <= q => InLargePage(p)
<1>1. N \in Nat /\ N > 2 /\ KERNEL_SIZE \in Nat /\ KERNEL_MAP \in 1 .. N
  BY DriversAssumption
<1> DEFINE g == (N - 1) * N + N - 2
<1>2. g \in Nat /\ g > 0 /\ g * N * N \in Nat /\ MmioStart = g * N * N + KERNEL_SIZE + N
  <2>1. g \in Nat /\ g > 0
    BY <1>1, SMTT(30)
  <2>2. g * N * N \in Nat
    <3> HIDE DEF g
    <3> QED BY <1>1, <2>1, SMTT(30)
  <2> QED BY <2>1, <2>2 DEF MmioStart
<1>3. MmioStart \in Nat /\ MmioStart > 0
  <2> HIDE DEF g
  <2> QED BY <1>1, <1>2
<1>4. ASSUME NEW p \in Nat, MmioStart <= p, p < N * N * N * N
      PROVE  p \in WindowPages
  <2>1. N * N * N * N \in Nat
    BY <1>1, SMTT(30)
  <2>2. WindowPages = g * N * N .. N * N * N * N - 1
    BY DEF WindowPages
  <2> HIDE DEF g
  <2> QED BY <1>1, <1>2, <1>4, <2>1, <2>2
<1>5. ASSUME NEW q \in WindowPages, MmioStart <= q, InLargePage(q)
      PROVE  /\ VA(q)[3] * N > KERNEL_SIZE
             /\ \A p \in WindowPages : p <= q => InLargePage(p)
  <2>1. PICK j \in {N - 2, N - 1}, c \in V!Index, d \in V!Index :
             q = (((N - 1) * N + j) * N + c) * N + d /\ VA(q) = <<N - 1, j, c, d>>
    BY WindowDigits
  <2>2. j = N - 2 /\ c < KERNEL_MAP /\ c \in Nat /\ d \in Nat /\ d < N /\ VA(q)[3] = c
    BY <1>1, <1>5, <2>1 DEF InLargePage, V!Index
  <2>3. q = g * N * N + c * N + d /\ c * N \in Nat
    <3>1. (N - 1) * N + j = g
      BY <1>1, <2>2
    <3> HIDE DEF g
    <3>2. (g * N + c) * N = g * N * N + c * N /\ c * N \in Nat
      BY <1>1, <1>2, <2>2, SMTT(30)
    <3> QED BY <2>1, <3>1, <3>2
  <2>4. c * N > KERNEL_SIZE
    <3> HIDE DEF g
    <3> QED BY <1>1, <1>2, <1>5, <2>2, <2>3
  <2>5. ASSUME NEW p \in WindowPages, p <= q
        PROVE  InLargePage(p)
    <3>1. PICK i \in {N - 2, N - 1}, e \in V!Index, f \in V!Index :
               p = (((N - 1) * N + i) * N + e) * N + f /\ VA(p) = <<N - 1, i, e, f>>
      BY WindowDigits
    <3>2. e \in Nat /\ f \in Nat /\ e < N /\ f < N
      BY <1>1, <3>1 DEF V!Index
    <3> DEFINE i0 == i - (N - 2)
    <3>3. i0 \in {0, 1} /\ i = N - 2 + i0
      BY <1>1
    <3>4. p = g * N * N + i0 * (N * N) + e * N + f /\ e * N \in Nat /\ i0 * (N * N) \in Nat
      <4>1. (N - 1) * N + i = g + i0
        BY <1>1, <3>3
      <4> HIDE DEF g, i0
      <4>2. ((g + i0) * N + e) * N = g * N * N + i0 * (N * N) + e * N /\ e * N \in Nat
            /\ i0 * (N * N) \in Nat
        BY <1>1, <1>2, <3>2, <3>3, SMTT(30)
      <4> QED BY <3>1, <4>1, <4>2
    <3> HIDE DEF g, i0
    <3>5. i0 * (N * N) + e * N + f <= c * N + d
      BY <1>2, <2>2, <2>3, <2>5, <3>2, <3>4
    <3>6. c * N + N <= N * N
      <4>1. PICK z \in Nat : N = c + 1 + z
        <5>1. c < N
          BY <1>1, <2>1 DEF V!Index
        <5>2. N - c - 1 \in Nat /\ N = c + 1 + (N - c - 1)
          BY <1>1, <2>2, <5>1
        <5> QED BY <5>2
      <4>2. N * N = c * N + N + z * N /\ z * N \in Nat
        BY <1>1, <2>2, <4>1, SMTT(30)
      <4> QED BY <1>1, <2>3, <4>2
    <3>7. i0 = 0
      <4>1. i0 = 1 => i0 * (N * N) = N * N /\ N * N \in Nat
        BY <1>1, SMTT(30)
      <4> HIDE DEF i0
      <4> QED BY <1>1, <2>2, <2>3, <3>2, <3>3, <3>4, <3>5, <3>6, <4>1
    <3>8. e * N + f <= c * N + d
      BY <1>1, <2>2, <2>3, <3>2, <3>4, <3>5, <3>7, SMTT(30)
    <3>9. e <= c
      <4>1. CASE e > c
        <5>1. PICK z \in Nat : e = c + 1 + z
          <6>1. e - c - 1 \in Nat /\ e = c + 1 + (e - c - 1)
            BY <2>2, <3>2, <4>1
          <6> QED BY <6>1
        <5>2. e * N = c * N + N + z * N /\ z * N \in Nat
          BY <1>1, <2>2, <5>1, SMTT(30)
        <5> QED BY <1>1, <2>2, <2>3, <3>2, <3>8, <5>2
      <4> QED BY <2>2, <3>2, <4>1
    <3> QED BY <1>1, <2>2, <3>1, <3>2, <3>3, <3>7, <3>9 DEF InLargePage
  <2> QED BY <2>2, <2>4, <2>5
<1> QED BY <1>3, <1>4, <1>5

\* The tables of boot.asm, which are in memory and not free.
BootFrames == pml4_phys .. pml4_phys + LOW_PDS + 3

\* The walks of known pages go through tables that are no others' frames.
LEMMA BootPlaces ==
  /\ {pml4_phys, V!pdpt_low, V!pdpt_kern, V!pd_kern_0} \subseteq BootFrames
  /\ \A k \in 0 .. LOW_PDS - 1 : V!pd_low(k) \in BootFrames /\ V!pd_low(k) \notin {V!pdpt_kern, V!pd_kern_0}
  /\ pml4_phys \notin {V!pdpt_kern, V!pd_kern_0} /\ V!pdpt_low \notin {V!pdpt_kern, V!pd_kern_0}
  /\ V!pdpt_kern # V!pd_kern_0 /\ V!pdpt_low # pml4_phys
  /\ \A k \in 0 .. LOW_PDS - 1 : V!pd_low(k) \notin {pml4_phys, V!pdpt_low}
  /\ BootFrames \subseteq Frames /\ BootFrames \cap BootFree = {} /\ Frames \subseteq Nat
  /\ BootFree \subseteq Frames \ {0}
  BY DriversAssumption DEF BootFrames, V!pdpt_low, V!pdpt_kern, V!pd_kern_0, V!pd_low

\* The entries there are.
LEMMA EntryKinds4 ==
  /\ V!Absent \in V!Entry /\ ~V!Absent.present
  /\ \A f \in Nat : /\ V!Small(f) \in V!Entry /\ V!Small(f).present
                    /\ ~V!Small(f).ps /\ V!Small(f).frame = f
                    /\ V!Large(f) \in V!Entry /\ V!Large(f).present
                    /\ V!Large(f).ps /\ V!Large(f).frame = f
  /\ V!ZeroTable \in [V!Index -> V!Entry] /\ \A i \in V!Index : V!ZeroTable[i] = V!Absent
  BY DEF V!Entry, V!Absent, V!Small, V!Large, V!ZeroTable

\* The first frame of the pool is in it.
LEMMA FirstFrame ==
  ASSUME NEW p, p \subseteq BootFree, p # {}
  PROVE  V!Min(p) \in p
<1>1. p \in SUBSET Nat
  BY BootPlaces
<1>2. \E x \in p : \A y \in p : x <= y
  BY <1>1, LeastExists
<1> QED BY <1>2 DEF V!Min

\* What an address of a window leads to, from the entries on the way.
LedTo(e3, e2, e1, d) ==
  IF ~e3.present THEN 0
  ELSE IF ~e2.present THEN 0
  ELSE IF e2.ps THEN e2.frame + d
  ELSE IF ~e1.present THEN 0
  ELSE e1.frame

WindowWalk(m, j, c, d) ==
  LET e3 == m[V!pdpt_kern][j]
      e2 == m[e3.frame][c]
  IN  LedTo(e3, e2, m[e2.frame][d], d)

\* The translation of an address of a window walks the kernel's tables.
LEMMA WindowTranslated ==
  ASSUME NEW m, NEW p, TablesInv(m, p), NEW j \in {N - 2, N - 1}, NEW c \in V!Index, NEW d \in V!Index
  PROVE  V!Translate(m, <<N - 1, j, c, d>>) = WindowWalk(m, j, c, d)
<1>1. V!pdpt_kern \in Nat /\ V!pd_kern_0 \in Nat
  BY BootPlaces, Zenon
<1>2. m[pml4_phys][N - 1] = V!Small(V!pdpt_kern) /\ m[V!pdpt_kern][N - 2] = V!Small(V!pd_kern_0)
  BY DEF TablesInv, BootTables
<1>3. N - 1 \in V!Index /\ V!pdpt_kern \in Frames
  <2>1. N \in Nat /\ N > 2
    BY DriversAssumption
  <2>2. N - 1 \in V!Index
    BY <2>1 DEF V!Index
  <2> QED BY <2>2, BootPlaces, Zenon
<1>4. m[V!pdpt_kern][j].present => ~m[V!pdpt_kern][j].ps
  <2>1. CASE j = N - 2
    BY <1>1, <1>2, <2>1, EntryKinds4
  <2>2. CASE j = N - 1
    BY <1>3, <2>2 DEF TablesInv, TablesMade, Slot
  <2> QED BY <2>1, <2>2
<1>5. m[pml4_phys][N - 1].present /\ m[pml4_phys][N - 1].frame = V!pdpt_kern
  BY <1>1, <1>2, EntryKinds4
<1> DEFINE va == <<N - 1, j, c, d>>
<1>6. va[1] = N - 1 /\ va[2] = j /\ va[3] = c /\ va[4] = d
  OBVIOUS
<1> HIDE DEF va
<1>7. V!Translate(m, va) = WindowWalk(m, j, c, d)
  BY <1>4, <1>5, <1>6, Zenon DEF V!Translate, WindowWalk, LedTo
<1> QED BY <1>7 DEF va

\* The direct map stays: an address of it leads to the memory it stands for.
LEMMA DirectTranslated ==
  ASSUME NEW m, NEW p, TablesInv(m, p), NEW a \in 0 .. LOW_PDS * N * N - 1
  PROVE  V!Translate(m, VA(HHDM + a)) = a
<1>1. PICK k \in 0 .. LOW_PDS - 1, c \in V!Index, d \in V!Index :
           VA(HHDM + a) = <<N \div 2, k, c, d>> /\ a = (k * N + c) * N + d
  BY DirectDigits
<1>2. /\ m[pml4_phys][N \div 2] = V!Small(V!pdpt_low)
      /\ m[V!pdpt_low][k] = V!Small(V!pd_low(k)) /\ m[V!pd_low(k)] = V!fill_pd(k)
  BY DEF TablesInv, BootTables
<1>3. V!pdpt_low \in Nat /\ V!pd_low(k) \in Nat
  BY BootPlaces, Zenon
<1>4. (k * N + c) * N \in Nat
  <2>1. k \in Nat /\ c \in Nat /\ N \in Nat
    BY DriversAssumption DEF V!Index
  <2> QED BY <2>1, SMTT(30)
<1>5. V!fill_pd(k)[c] = V!Large((k * N + c) * N)
  BY DEF V!fill_pd
<1>6. V!Translate(m, <<N \div 2, k, c, d>>) = (k * N + c) * N + d
  <2>1. /\ m[pml4_phys][N \div 2].present /\ m[pml4_phys][N \div 2].frame = V!pdpt_low
        /\ m[V!pdpt_low][k].present /\ ~m[V!pdpt_low][k].ps /\ m[V!pdpt_low][k].frame = V!pd_low(k)
        /\ m[V!pd_low(k)][c].present /\ m[V!pd_low(k)][c].ps
        /\ m[V!pd_low(k)][c].frame = (k * N + c) * N
    BY <1>2, <1>3, <1>4, <1>5, EntryKinds4
  <2> DEFINE z == (k * N + c) * N
  <2> HIDE DEF z
  <2> DEFINE va == <<N \div 2, k, c, d>>
  <2>2. va[1] = N \div 2 /\ va[2] = k /\ va[3] = c /\ va[4] = d
    OBVIOUS
  <2> HIDE DEF va
  <2>3. V!Translate(m, va) = z + d
    BY <2>1, <2>2, Zenon DEF V!Translate, z
  <2> QED BY <2>3 DEF va, z
<1> QED BY <1>1, <1>6

\* Tables made for windows are neither the boot's nor free, the second directory
\* leads to page tables alone, and no page table is entered twice.
LEMMA MadeApart ==
  ASSUME NEW m, NEW p, TablesInv(m, p), NEW t \in Frames, NEW i \in V!Index,
         Slot(m, t, i), m[t][i].present
  PROVE  /\ ~m[t][i].ps /\ m[t][i].frame \in BootFree \ p /\ m[t][i].frame \in Frames
         /\ m[t][i].frame \notin BootFrames
<1>1. ~m[t][i].ps /\ m[t][i].frame \in BootFree \ p
  BY DEF TablesInv, TablesMade
<1> QED BY <1>1, BootPlaces, Zenon

\* Memory m has become n and the pool q: entry i of table t leads to table f, the
\* tables have kept their form, and all addresses lead where they led.
KeptAs(m, n, q) ==
  /\ TablesInv(n, q)
  /\ \A u, h : Slot(m, u, h) => Slot(n, u, h)
  /\ \A u \in Frames : \A h \in V!Index : Slot(m, u, h) /\ m[u][h].present => n[u][h] = m[u][h]
  /\ \A j \in {N - 2, N - 1} : \A c, d \in V!Index : WindowWalk(n, j, c, d) = WindowWalk(m, j, c, d)
MadeAs(m, n, q, t, i, f) ==
  KeptAs(m, n, q) /\ n[t][i].present /\ ~n[t][i].ps /\ n[t][i].frame = f

\* A table is made for an entry that has none.
LEMMA TableMade ==
  ASSUME NEW m, NEW p, TablesInv(m, p), NEW t \in Frames, NEW i \in V!Index,
         Slot(m, t, i), ~m[t][i].present, NEW f \in p, NEW n,
         n = [m EXCEPT ![f] = V!ZeroTable, ![t] = [@ EXCEPT ![i] = V!Small(f)]]
  PROVE  MadeAs(m, n, p \ {f}, t, i, f)
<1> USE DEF MadeAs, KeptAs
<1> DEFINE K == V!pdpt_kern
           D == V!pd_kern_0
<1>1. N \in Nat /\ N > 2 /\ N - 1 \in V!Index /\ N - 2 \in V!Index /\ KERNEL_MAP \in 1 .. N
      /\ V!Index = 0 .. N - 1 /\ (N \div 2) \in V!Index
  <2>1. N \in Nat /\ N > 2 /\ KERNEL_MAP \in 1 .. N
    BY DriversAssumption
  <2> QED BY <2>1 DEF V!Index
<1>2. /\ m \in [Frames -> [V!Index -> V!Entry]] /\ p \subseteq BootFree /\ BootTables(m)
      /\ TablesMade(m, p) /\ EnteredOnce(m)
  BY DEF TablesInv
<1>3. f \in BootFree /\ f \in Frames /\ f \in Nat /\ f # 0 /\ f \notin BootFrames
  BY <1>2, BootPlaces
<1>4. K \in BootFrames /\ D \in BootFrames /\ K # D /\ K \in Frames /\ D \in Frames /\ K \in Nat /\ D \in Nat
  BY BootPlaces
<1>5. Slot(m, K, N - 1) /\ \A h \in KERNEL_MAP .. N - 1 : Slot(m, D, h) /\ h \in V!Index
  BY <1>1 DEF Slot
<1>6. \/ t = K /\ i = N - 1
      \/ t = D /\ i \in KERNEL_MAP .. N - 1
      \/ (t \notin BootFrames /\ t \in BootFree \ p /\ m[K][N - 1].present /\ t = m[K][N - 1].frame)
  <2>1. m[K][N - 1].present => m[K][N - 1].frame \in BootFree \ p /\ m[K][N - 1].frame \notin BootFrames
    BY <1>1, <1>4, <1>5, MadeApart
  <2> QED BY <2>1 DEF Slot
<1>7. f # t
  BY <1>3, <1>4, <1>6
<1>8. /\ n \in [Frames -> [V!Index -> V!Entry]]
      /\ n[f] = V!ZeroTable /\ n[t][i] = V!Small(f)
      /\ \A h \in V!Index : h # i => n[t][h] = m[t][h]
      /\ \A u \in Frames : u # t /\ u # f => n[u] = m[u]
  <2>1. V!ZeroTable \in [V!Index -> V!Entry] /\ V!Small(f) \in V!Entry
    BY <1>3, EntryKinds4
  <2> QED BY <1>2, <1>3, <1>7, <2>1
<1>9. n[t][i].present /\ ~n[t][i].ps /\ n[t][i].frame = f
  BY <1>3, <1>8, EntryKinds4
<1>10. \A h \in V!Index : ~n[f][h].present
  <2>1. \A h \in V!Index : V!ZeroTable[h] = V!Absent
    BY EntryKinds4
  <2>2. ~V!Absent.present
    BY EntryKinds4
  <2> SUFFICES ASSUME NEW h \in V!Index  PROVE ~n[f][h].present
    OBVIOUS
  <2>3. n[f][h] = V!Absent
    BY <1>8, <2>1, Zenon
  <2> QED BY <2>2, <2>3
<1>11. n[K][N - 2] = m[K][N - 2] /\ (t # K => n[K] = m[K])
  <2>1. t = K => i = N - 1
    BY <1>4, <1>6
  <2> QED BY <1>1, <1>3, <1>4, <1>8, <2>1
<1>20. n[K][N - 1].present => n[K][N - 1].frame \notin BootFrames
  <2>1. CASE t = K
    BY <1>3, <1>4, <1>6, <1>9, <2>1
  <2>2. CASE t # K
    BY <1>1, <1>4, <1>5, <1>11, <2>2, MadeApart
  <2> QED BY <2>1, <2>2
<1>12. BootTables(n)
  <2>1. pml4_phys \in Frames \ {t, f} /\ V!pdpt_low \in Frames \ {t, f}
    BY <1>3, <1>6, BootPlaces
  <2>2. \A k \in 0 .. LOW_PDS - 1 : V!pd_low(k) \in Frames \ {t, f}
    BY <1>3, <1>6, BootPlaces
  <2>3. \A h \in 0 .. KERNEL_MAP - 1 : n[D][h] = m[D][h]
    <3>1. t = D => i \in KERNEL_MAP .. N - 1
      BY <1>4, <1>6
    <3>2. \A h \in 0 .. KERNEL_MAP - 1 : h \in V!Index /\ (t = D => h # i)
      BY <1>1, <3>1
    <3>3. D # f
      BY <1>3, <1>4
    <3> QED BY <1>4, <1>8, <3>2, <3>3
  <2> QED BY <1>2, <1>8, <1>11, <2>1, <2>2, <2>3, Zenon DEF BootTables
<1>13. ASSUME NEW u \in Frames, NEW h \in V!Index, Slot(n, u, h)
       PROVE  u = f \/ (Slot(m, u, h) /\ u # f)
  <2>1. CASE u = K \/ u = D
    <3>1. ~(n[K][N - 1].present /\ u = n[K][N - 1].frame)
      BY <1>4, <1>20, <2>1
    <3>2. Slot(m, u, h)
      BY <1>13, <3>1 DEF Slot
    <3> QED BY <1>3, <1>4, <2>1, <3>2
  <2>2. CASE u # K /\ u # D
    <3>1. n[K][N - 1].present /\ u = n[K][N - 1].frame
      BY <1>13, <2>2 DEF Slot
    <3>2. CASE t = K
      <4>1. i = N - 1
        BY <1>4, <1>6, <3>2
      <4> QED BY <1>9, <3>1, <3>2, <4>1
    <3>3. CASE t # K
      <4>1. m[K][N - 1].present /\ u = m[K][N - 1].frame
        BY <1>11, <3>1, <3>3
      <4>2. u \notin p
        BY <1>1, <1>4, <1>5, <4>1, MadeApart
      <4> QED BY <4>1, <4>2 DEF Slot
    <3> QED BY <3>2, <3>3
  <2> QED BY <2>1, <2>2
<1>14. ASSUME NEW u \in Frames, NEW h \in V!Index, Slot(n, u, h), n[u][h].present
       PROVE  \/ u = t /\ h = i
              \/ Slot(m, u, h) /\ n[u][h] = m[u][h] /\ n[u][h].frame # f
  <2>1. u # f
    BY <1>10, <1>14
  <2>2. Slot(m, u, h)
    BY <1>13, <1>14, <2>1
  <2>3. ~(u = t /\ h = i) => n[u][h] = m[u][h]
    BY <1>8, <2>1
  <2>4. m[u][h].present => m[u][h].frame \notin p
    BY <2>2, MadeApart
  <2> QED BY <1>14, <2>2, <2>3, <2>4
<1>15. TablesMade(n, p \ {f})
  <2> SUFFICES ASSUME NEW u \in Frames, NEW h \in V!Index, Slot(n, u, h), n[u][h].present
               PROVE  ~n[u][h].ps /\ n[u][h].frame \in BootFree \ (p \ {f})
    BY Zenon DEF TablesMade
  <2>1. CASE u = t /\ h = i
    BY <1>3, <1>9, <2>1
  <2>2. CASE Slot(m, u, h) /\ n[u][h] = m[u][h]
    BY <2>2, MadeApart
  <2> QED BY <1>14, <2>1, <2>2, Zenon
<1>16. EnteredOnce(n)
  <2> SUFFICES ASSUME NEW u \in Frames, NEW w \in Frames, NEW h \in V!Index, NEW g \in V!Index,
                      Slot(n, u, h), Slot(n, w, g), n[u][h].present, n[w][g].present,
                      n[u][h].frame = n[w][g].frame
               PROVE  u = w /\ h = g
    BY DEF EnteredOnce
  <2>1. (u = t /\ h = i) \/ (Slot(m, u, h) /\ n[u][h] = m[u][h] /\ n[u][h].frame # f)
    BY <1>14, Zenon
  <2>2. (w = t /\ g = i) \/ (Slot(m, w, g) /\ n[w][g] = m[w][g] /\ n[w][g].frame # f)
    BY <1>14, Zenon
  <2>3. CASE (u = t /\ h = i) \/ (w = t /\ g = i)
    BY <1>9, <2>1, <2>2, <2>3
  <2>4. CASE /\ Slot(m, u, h) /\ n[u][h] = m[u][h]
             /\ Slot(m, w, g) /\ n[w][g] = m[w][g]
    BY <1>2, <2>4 DEF EnteredOnce
  <2> QED BY <2>1, <2>2, <2>3, <2>4
<1>17. TablesInv(n, p \ {f})
  BY <1>2, <1>8, <1>12, <1>15, <1>16 DEF TablesInv
<1>18. ASSUME NEW u, NEW h, Slot(m, u, h)  PROVE Slot(n, u, h)
  <2>1. m[K][N - 1].present => n[K][N - 1] = m[K][N - 1]
    <3>1. m[K][N - 1].present => t # K \/ i # N - 1
      OBVIOUS
    <3> QED BY <1>1, <1>4, <1>8, <1>11, <3>1
  <2> QED BY <1>18, <2>1 DEF Slot
<1>19. ASSUME NEW j \in {N - 2, N - 1}, NEW c \in V!Index, NEW d \in V!Index
       PROVE  WindowWalk(n, j, c, d) = WindowWalk(m, j, c, d)
  <2> DEFINE e3 == m[K][j]
             e2 == m[e3.frame][c]
  <2>1. CASE ~e3.present
    <3>1. CASE t = K /\ i = j
      <4>1. n[K][j].present /\ n[K][j].frame = f /\ ~n[f][c].present
        BY <1>9, <1>10, <3>1, Zenon
      <4> QED BY <2>1, <4>1, Zenon DEF WindowWalk, LedTo
    <3>2. CASE ~(t = K /\ i = j)
      <4>1. n[K][j] = m[K][j]
        BY <1>1, <1>3, <1>4, <1>8, <3>2
      <4> QED BY <2>1, <4>1, Zenon DEF WindowWalk, LedTo
    <3> QED BY <3>1, <3>2
  <2>2. CASE e3.present
    <3>1. n[K][j] = m[K][j]
      <4>1. j = N - 2 \/ (j = N - 1 /\ ~(t = K /\ i = j))
        BY <2>2
      <4> QED BY <1>1, <1>3, <1>4, <1>8, <1>11, <4>1
    <3>2. e3.frame \in Frames /\ e3.frame # f /\ e3.frame # K
          /\ (e3.frame = D \/ (j = N - 1 /\ e3.frame \notin BootFrames))
      <4>1. CASE j = N - 2
        <5>1. e3 = V!Small(D)
          BY <1>2, <4>1 DEF BootTables
        <5>2. e3.frame = D
          BY <1>4, <5>1, EntryKinds4
        <5> QED BY <1>3, <1>4, <5>2
      <4>2. CASE j = N - 1
        <5>1. e3.frame \in BootFree \ p /\ e3.frame \in Frames /\ e3.frame \notin BootFrames
          BY <1>1, <1>4, <1>5, <2>2, <4>2, MadeApart
        <5> QED BY <1>4, <4>2, <5>1
      <4> QED BY <4>1, <4>2
    <3>3. CASE ~e2.present
      <4>1. ~n[e3.frame][c].present \/ (n[e3.frame][c].present /\ n[e3.frame][c].frame = f /\ ~n[e3.frame][c].ps)
        <5>1. CASE e3.frame = t /\ c = i
          BY <1>9, <5>1
        <5>2. CASE ~(e3.frame = t /\ c = i)
          <6>1. n[e3.frame][c] = m[e3.frame][c]
            BY <1>8, <3>2, <5>2
          <6> QED BY <3>3, <6>1
        <5> QED BY <5>1, <5>2
      <4>2. ~n[f][d].present
        BY <1>10, Zenon
      <4>3. WindowWalk(n, j, c, d) = 0
        BY <2>2, <3>1, <4>1, <4>2, Zenon DEF WindowWalk, LedTo
      <4>4. WindowWalk(m, j, c, d) = 0
        BY <2>2, <3>3 DEF WindowWalk, LedTo
      <4> QED BY <4>3, <4>4
    <3>4. CASE e2.present /\ e2.ps
      <4>1. n[e3.frame][c] = m[e3.frame][c]
        BY <1>8, <3>2, <3>4
      <4>2. n[n[K][j].frame][c] = m[m[K][j].frame][c]
        BY <3>1, <4>1
      <4>3. WindowWalk(m, j, c, d) = m[m[K][j].frame][c].frame + d
        BY <2>2, <3>4 DEF WindowWalk, LedTo
      <4>4. WindowWalk(n, j, c, d) = n[n[K][j].frame][c].frame + d
        BY <2>2, <3>1, <3>4, <4>2, Zenon DEF WindowWalk, LedTo
      <4> QED BY <4>2, <4>3, <4>4
    <3>5. CASE e2.present /\ ~e2.ps
      <4>1. n[e3.frame][c] = m[e3.frame][c]
        BY <1>8, <3>2, <3>5
      <4>2. Slot(m, e3.frame, c)
        <5>1. CASE e3.frame = D
          <6>1. c \in 0 .. KERNEL_MAP - 1 => m[D][c] = V!Large(KERNEL_PHYS_BASE + c * N)
            BY <1>2 DEF BootTables
          <6>2. c \in 0 .. KERNEL_MAP - 1 => m[D][c].ps
            <7>1. c \in 0 .. KERNEL_MAP - 1 => KERNEL_PHYS_BASE + c * N \in Nat
              <8>1. c \in 0 .. KERNEL_MAP - 1 => c * N \in Nat
                BY <1>1, SMTT(30)
              <8> QED BY <8>1, DriversAssumption
            <7> QED BY <6>1, <7>1, EntryKinds4
          <6>3. c \in KERNEL_MAP .. N - 1
            BY <1>1, <3>5, <5>1, <6>2
          <6> QED BY <5>1, <6>3 DEF Slot
        <5>2. CASE j = N - 1
          BY <2>2, <5>2 DEF Slot
        <5> QED BY <3>2, <5>1, <5>2
      <4>3. e2.frame \in BootFree \ p /\ e2.frame \in Frames /\ e2.frame \notin BootFrames
        BY <3>2, <3>5, <4>2, MadeApart
      <4>4. e2.frame # t
        <5>1. CASE t = K \/ t = D
          BY <1>4, <4>3, <5>1
        <5>2. CASE m[K][N - 1].present /\ t = m[K][N - 1].frame
          <6>1. e2.frame = t => e3.frame = K
            BY <1>1, <1>2, <1>4, <1>5, <3>2, <3>5, <4>2, <5>2 DEF EnteredOnce
          <6> QED BY <3>2, <6>1
        <5> QED BY <1>6, <5>1, <5>2
      <4>5. n[e2.frame] = m[e2.frame]
        BY <1>8, <4>3, <4>4
      <4>6. n[n[K][j].frame][c] = m[m[K][j].frame][c]
        BY <3>1, <4>1
      <4>7. n[n[n[K][j].frame][c].frame][d] = m[m[m[K][j].frame][c].frame][d]
        BY <4>5, <4>6, Zenon
      <4> QED BY <3>1, <4>6, <4>7, Zenon DEF WindowWalk
    <3> QED BY <3>3, <3>4, <3>5
  <2> QED BY <2>1, <2>2
<1>21. ASSUME NEW u \in Frames, NEW h \in V!Index, Slot(m, u, h), m[u][h].present
       PROVE  n[u][h] = m[u][h]
  <2>1. u \in BootFrames \/ u \in BootFree \ p
    BY <1>1, <1>4, <1>5, <1>21, MadeApart DEF Slot
  <2>2. u # f
    BY <1>3, <2>1
  <2> QED BY <1>8, <1>21, <2>2
<1> QED BY <1>9, <1>17, <1>18, <1>19, <1>21, Zenon

\* The result of ensure_table for entry i of table t.
Ensured(m, t, i, r) ==
  \E n, q : /\ r.s = [mem |-> n, pool |-> q] /\ KeptAs(m, n, q)
            /\ \/ r.table = 0
               \/ /\ r.table # 0 /\ r.table \in Frames /\ r.table \in BootFree \ q
                  /\ MadeAs(m, n, q, t, i, r.table)

\* The table behind an entry is there, or made, unless no frame is left.
LEMMA TableEnsured ==
  ASSUME NEW m, NEW p, TablesInv(m, p), NEW t \in Frames, NEW i \in V!Index, Slot(m, t, i), NEW r,
         r = V!ensure_table([mem |-> m, pool |-> p], t, i)
  PROVE  Ensured(m, t, i, r)
<1> USE DEF Ensured
<1> DEFINE s == [mem |-> m, pool |-> p]
           f == V!Min(p)
           made == [m EXCEPT ![f] = V!ZeroTable, ![t] = [@ EXCEPT ![i] = V!Small(f)]]
<1>1. s.mem = m /\ s.pool = p
  OBVIOUS
<1>2. r = IF m[t][i].present
          THEN [s |-> s, table |-> m[t][i].frame]
          ELSE IF p = {} THEN [s |-> s, table |-> 0]
               ELSE [s |-> [mem |-> made, pool |-> p \ {f}], table |-> f]
  BY <1>1 DEF V!ensure_table
<1> HIDE DEF f, made
<1>3. CASE m[t][i].present
  <2>1. r.s = s /\ r.table = m[t][i].frame
    BY <1>2, <1>3
  <2>2. ~m[t][i].ps /\ r.table \in BootFree \ p /\ r.table \in Frames /\ r.table # 0
    BY <1>3, <2>1, MadeApart, BootPlaces
  <2>3. MadeAs(m, m, p, t, i, r.table)
    BY <1>3, <2>1, <2>2 DEF MadeAs, KeptAs
  <2> QED BY <2>1, <2>2, <2>3 DEF MadeAs
<1>4. CASE ~m[t][i].present /\ p = {}
  <2>1. r.s = s /\ r.table = 0
    BY <1>2, <1>4
  <2>2. KeptAs(m, m, p)
    BY DEF KeptAs
  <2> QED BY <2>1, <2>2
<1>5. CASE ~m[t][i].present /\ p # {}
  <2>1. r.s = [mem |-> made, pool |-> p \ {f}] /\ r.table = f
    BY <1>2, <1>5
  <2>2. f \in p /\ f \in BootFree /\ f \in Frames /\ f # 0
    BY <1>5, FirstFrame, BootPlaces, Zenon DEF TablesInv, f
  <2>3. MadeAs(m, made, p \ {f}, t, i, f)
    <3>1. made = [m EXCEPT ![f] = V!ZeroTable, ![t] = [@ EXCEPT ![i] = V!Small(f)]]
      BY DEF made
    <3> QED BY <1>5, <2>2, <3>1, TableMade, Zenon
  <2>4. r.table \in BootFree \ (p \ {f}) /\ r.table # 0 /\ r.table \in Frames
    BY <2>1, <2>2
  <2> QED BY <2>1, <2>3, <2>4, Zenon DEF MadeAs
<1> QED BY <1>3, <1>4, <1>5, Zenon

\* The walk of an address of a window comes to page table t.
Via(m, j, c, t) ==
  LET u == m[V!pdpt_kern][j].frame
  IN  m[V!pdpt_kern][j].present /\ m[u][c].present /\ ~m[u][c].ps /\ m[u][c].frame = t

\* A walk that comes to a page table does so through an entry made for a window.
LEMMA ViaSlot ==
  ASSUME NEW m, NEW p, TablesInv(m, p), NEW j \in {N - 2, N - 1}, NEW c \in V!Index,
         m[V!pdpt_kern][j].present
  PROVE  LET u == m[V!pdpt_kern][j].frame
         IN  /\ u \in Frames /\ u # V!pdpt_kern
             /\ ((j = N - 2 /\ u = V!pd_kern_0) \/ (j = N - 1 /\ u \notin BootFrames))
             /\ \/ Slot(m, u, c)
                \/ /\ u = V!pd_kern_0 /\ c < KERNEL_MAP
                   /\ m[u][c] = V!Large(KERNEL_PHYS_BASE + c * N) /\ m[u][c].ps
             /\ (m[u][c].present /\ ~m[u][c].ps => Slot(m, u, c))
<1> DEFINE K == V!pdpt_kern
           D == V!pd_kern_0
           u == m[K][j].frame
<1>1. N \in Nat /\ N > 2 /\ N - 1 \in V!Index /\ KERNEL_MAP \in 1 .. N /\ V!Index = 0 .. N - 1
  <2>1. N \in Nat /\ N > 2 /\ KERNEL_MAP \in 1 .. N
    BY DriversAssumption
  <2> QED BY <2>1 DEF V!Index
<1>2. K \in BootFrames /\ D \in BootFrames /\ K # D /\ K \in Frames /\ D \in Frames /\ K \in Nat /\ D \in Nat
  BY BootPlaces, Zenon
<1>3. c \in 0 .. KERNEL_MAP - 1 => m[D][c] = V!Large(KERNEL_PHYS_BASE + c * N) /\ m[D][c].ps
  <2>1. c \in 0 .. KERNEL_MAP - 1 => m[D][c] = V!Large(KERNEL_PHYS_BASE + c * N)
    BY DEF TablesInv, BootTables
  <2>2. KERNEL_PHYS_BASE + c * N \in Nat
    <3>1. c * N \in Nat
      BY <1>1, SMTT(30)
    <3> QED BY <3>1, DriversAssumption
  <2> QED BY <2>1, <2>2, EntryKinds4
<1>4. CASE j = N - 2
  <2>1. u = D
    <3>1. m[K][j] = V!Small(D)
      BY <1>4 DEF TablesInv, BootTables
    <3> QED BY <1>2, <3>1, EntryKinds4
  <2>2. CASE c \in KERNEL_MAP .. N - 1
    BY <1>2, <1>4, <2>1, <2>2 DEF Slot
  <2>3. CASE c \in 0 .. KERNEL_MAP - 1
    <3>1. c < KERNEL_MAP
      BY <1>1, <2>3
    <3> QED BY <1>2, <1>3, <1>4, <2>1, <2>3, <3>1
  <2> QED BY <1>1, <2>2, <2>3
<1>5. CASE j = N - 1
  <2>1. Slot(m, K, N - 1) /\ Slot(m, u, c)
    BY <1>1, <1>5 DEF Slot
  <2>2. u \in Frames /\ u \notin BootFrames
    BY <1>1, <1>2, <1>5, <2>1, MadeApart
  <2> QED BY <1>2, <1>5, <2>1, <2>2
<1> QED BY <1>4, <1>5

\* All addresses but one lead where they led; that one to page phys.
OthersKept(m, n, k, h, e) ==
  \A j \in {N - 2, N - 1} : \A c, d \in V!Index :
    <<j, c, d>> # <<k, h, e>> => WindowWalk(n, j, c, d) = WindowWalk(m, j, c, d)
PageAs(m, n, q, k, h, e, phys) ==
  TablesInv(n, q) /\ WindowWalk(n, k, h, e) = phys /\ OthersKept(m, n, k, h, e)

\* An entry of a page table is written: the address it is for leads to its page, and
\* no other address leads elsewhere than it led.
LEMMA PageEntered ==
  ASSUME NEW m, NEW p, TablesInv(m, p), NEW k \in {N - 2, N - 1}, NEW h \in V!Index, NEW t \in Frames,
         Via(m, k, h, t), NEW e \in V!Index, NEW phys \in Nat, NEW n,
         n = [m EXCEPT ![t] = [@ EXCEPT ![e] = V!Small(phys)]]
  PROVE  PageAs(m, n, p, k, h, e, phys)
<1> DEFINE K == V!pdpt_kern
           D == V!pd_kern_0
           u == m[K][k].frame
<1>1. N \in Nat /\ N > 2 /\ N - 1 \in V!Index /\ N - 2 \in V!Index /\ KERNEL_MAP \in 1 .. N
      /\ V!Index = 0 .. N - 1
  <2>1. N \in Nat /\ N > 2 /\ KERNEL_MAP \in 1 .. N
    BY DriversAssumption
  <2> QED BY <2>1 DEF V!Index
<1>2. K \in BootFrames /\ D \in BootFrames /\ K # D /\ K \in Frames /\ D \in Frames
  BY BootPlaces
<1>3. /\ m \in [Frames -> [V!Index -> V!Entry]] /\ p \subseteq BootFree /\ BootTables(m)
      /\ TablesMade(m, p) /\ EnteredOnce(m)
  BY DEF TablesInv
<1>4. /\ m[K][k].present /\ m[u][h].present /\ ~m[u][h].ps /\ m[u][h].frame = t
      /\ u \in Frames /\ u # K /\ Slot(m, u, h)
  BY ViaSlot DEF Via
<1>5. t \in BootFree \ p /\ t \notin BootFrames
  BY <1>4, MadeApart
<1>6. m[K][N - 1].present => m[K][N - 1].frame # t
  <2>1. Slot(m, K, N - 1)
    BY DEF Slot
  <2> QED BY <1>1, <1>2, <1>3, <1>4, <2>1 DEF EnteredOnce
<1>7. /\ n \in [Frames -> [V!Index -> V!Entry]]
      /\ n[t][e] = V!Small(phys)
      /\ \A d \in V!Index : d # e => n[t][d] = m[t][d]
      /\ \A x \in Frames : x # t => n[x] = m[x]
  <2>1. V!Small(phys) \in V!Entry
    BY EntryKinds4
  <2> QED BY <1>3, <2>1
<1>8. n[K] = m[K] /\ n[D] = m[D]
  BY <1>2, <1>5, <1>7
<1>9. \A x, i : Slot(n, x, i) <=> Slot(m, x, i)
  BY <1>8 DEF Slot
<1>10. \A x \in Frames, i \in V!Index : Slot(m, x, i) => n[x] = m[x]
  BY <1>2, <1>5, <1>6, <1>7 DEF Slot
<1>11. BootTables(n)
  <2>1. n[pml4_phys] = m[pml4_phys] /\ n[V!pdpt_low] = m[V!pdpt_low]
    BY <1>5, <1>7, BootPlaces
  <2>2. \A x \in 0 .. LOW_PDS - 1 : n[V!pd_low(x)] = m[V!pd_low(x)]
    BY <1>5, <1>7, BootPlaces
  <2> QED BY <1>3, <1>8, <2>1, <2>2 DEF BootTables
<1>12. TablesMade(n, p)
  BY <1>3, <1>9, <1>10 DEF TablesMade
<1>13. EnteredOnce(n)
  <2> SUFFICES ASSUME NEW x \in Frames, NEW w \in Frames, NEW i \in V!Index, NEW g \in V!Index,
                      Slot(n, x, i), Slot(n, w, g), n[x][i].present, n[w][g].present,
                      n[x][i].frame = n[w][g].frame
               PROVE  x = w /\ i = g
    BY DEF EnteredOnce
  <2>1. Slot(m, x, i) /\ Slot(m, w, g) /\ n[x] = m[x] /\ n[w] = m[w]
    BY <1>9, <1>10, Zenon
  <2> QED BY <1>3, <2>1 DEF EnteredOnce
<1>14. TablesInv(n, p)
  BY <1>3, <1>7, <1>11, <1>12, <1>13 DEF TablesInv
<1>15. u # t
  <2>1. n[u] = m[u]
    BY <1>4, <1>10
  <2>2. k = N - 2 => u \in BootFrames
    <3>1. (k = N - 2 /\ u = D) \/ (k = N - 1 /\ u \notin BootFrames)
      BY <1>4, ViaSlot
    <3> QED BY <1>1, <1>2, <3>1
  <2>3. k = N - 1 => u # t
    BY <1>4, <1>6
  <2> QED BY <1>5, <2>2, <2>3
<1>16. WindowWalk(n, k, h, e) = phys
  <2>1. n[K][k] = m[K][k] /\ n[u][h] = m[u][h]
    BY <1>4, <1>7, <1>8, <1>15
  <2>2. n[t][e].present /\ n[t][e].frame = phys
    BY <1>7, EntryKinds4
  <2>3. WindowWalk(n, k, h, e) = LedTo(m[K][k], m[u][h], n[t][e], e)
    BY <1>4, <2>1 DEF WindowWalk
  <2> QED BY <1>4, <2>2, <2>3 DEF LedTo
<1>17. ASSUME NEW j \in {N - 2, N - 1}, NEW c \in V!Index, NEW d \in V!Index, <<j, c, d>> # <<k, h, e>>
       PROVE  WindowWalk(n, j, c, d) = WindowWalk(m, j, c, d)
  <2> DEFINE x == m[K][j].frame
             y == m[x][c].frame
  <2>1. CASE ~m[K][j].present
    BY <1>8, <2>1, Zenon DEF WindowWalk, LedTo
  <2>2. CASE m[K][j].present
    <3>1. /\ x \in Frames /\ ((j = N - 2 /\ x = D) \/ (j = N - 1 /\ x \notin BootFrames))
          /\ (m[x][c].present /\ ~m[x][c].ps => Slot(m, x, c))
      BY <2>2, ViaSlot
    <3>2. n[x] = m[x]
      <4>1. j = N - 1 => x # t
        BY <1>6, <2>2
      <4> QED BY <1>7, <1>8, <3>1, <4>1
    <3>3. WindowWalk(n, j, c, d) = LedTo(m[K][j], m[x][c], n[y][d], d)
      BY <1>8, <3>2 DEF WindowWalk
    <3>4. WindowWalk(m, j, c, d) = LedTo(m[K][j], m[x][c], m[y][d], d)
      BY DEF WindowWalk
    <3>5. CASE m[x][c].present /\ ~m[x][c].ps
      <4>1. Slot(m, x, c) /\ y \in Frames
        <5>1. Slot(m, x, c)
          BY <3>1, <3>5
        <5> HIDE DEF x
        <5>2. m[x][c].frame \in Frames
          BY <3>1, <3>5, <5>1, MadeApart
        <5> QED BY <5>1, <5>2
      <4>2. CASE y # t
        BY <1>7, <3>3, <3>4, <4>1, <4>2, Zenon
      <4>3. CASE y = t
        <5>1. x = u /\ c = h
          <6>1. Slot(m, u, h) /\ m[u][h].present /\ m[u][h].frame = t /\ u \in Frames
            BY <1>4
          <6> HIDE DEF x, u
          <6> QED BY <1>3, <3>1, <3>5, <4>1, <4>3, <6>1 DEF EnteredOnce
        <5>2. j = k
          <6>1. (k = N - 2 /\ u = D) \/ (k = N - 1 /\ u \notin BootFrames)
            BY <1>4, ViaSlot
          <6> QED BY <1>2, <3>1, <5>1, <6>1
        <5>3. d # e
          BY <1>17, <5>1, <5>2
        <5> QED BY <1>7, <3>3, <3>4, <4>3, <5>3
      <4> QED BY <4>2, <4>3
    <3>6. CASE ~(m[x][c].present /\ ~m[x][c].ps)
      <4> HIDE DEF x, y
      <4> QED BY <3>3, <3>4, <3>6, Zenon DEF LedTo
    <3> QED BY <3>5, <3>6
  <2> QED BY <2>1, <2>2
<1> QED BY <1>14, <1>16, <1>17, Zenon DEF PageAs, OthersKept

\* A page of a window that lies in a large page: what is written is the memory of that
\* page, and no table; all addresses lead where they led.
LEMMA LargePageWritten ==
  ASSUME NEW m, TablesInv(m, BootFree), NEW c \in V!Index, c * N > KERNEL_SIZE,
         NEW e \in V!Index, NEW phys \in Nat, NEW n, NEW base, base = KERNEL_PHYS_BASE + c * N,
         n = [m EXCEPT ![base] = [@ EXCEPT ![e] = V!Small(phys)]]
  PROVE  KeptAs(m, n, BootFree)
<1> DEFINE K == V!pdpt_kern
           D == V!pd_kern_0
<1>1. N \in Nat /\ N > 2 /\ N - 1 \in V!Index /\ KERNEL_MAP \in 1 .. N /\ V!Index = 0 .. N - 1
  <2>1. N \in Nat /\ N > 2 /\ KERNEL_MAP \in 1 .. N
    BY DriversAssumption
  <2> QED BY <2>1 DEF V!Index
<1>2. K \in BootFrames /\ D \in BootFrames /\ K # D /\ K \in Frames /\ D \in Frames /\ D \in Nat
  BY BootPlaces
<1>3. /\ m \in [Frames -> [V!Index -> V!Entry]] /\ BootTables(m)
      /\ TablesMade(m, BootFree) /\ EnteredOnce(m)
  BY DEF TablesInv
<1>4. base \notin BootFrames
  <2>1. c * N \in Nat
    BY <1>1, SMTT(30)
  <2> DEFINE z == c * N
  <2> HIDE DEF z
  <2>2. z \in Nat /\ z > KERNEL_SIZE /\ base = KERNEL_PHYS_BASE + z
    BY <2>1 DEF z
  <2>3. \A x \in BootFrames : x \in Int /\ x < KERNEL_PHYS_BASE + KERNEL_SIZE
    BY DriversAssumption DEF BootFrames
  <2>4. KERNEL_PHYS_BASE \in Nat /\ KERNEL_SIZE \in Nat
    BY DriversAssumption
  <2> QED BY <2>2, <2>3, <2>4
<1>5. /\ n \in [Frames -> [V!Index -> V!Entry]]
      /\ \A x \in Frames : x # base => n[x] = m[x]
  <2>1. V!Small(phys) \in V!Entry
    BY EntryKinds4
  <2> QED BY <1>3, <2>1, Zenon
<1>6. n[K] = m[K] /\ n[D] = m[D]
  BY <1>2, <1>4, <1>5
<1>7. \A x \in Frames, i \in V!Index : Slot(m, x, i) => ~m[x][i].present
  BY MadeApart
<1>8. ~m[K][N - 1].present
  <2>1. Slot(m, K, N - 1)
    BY DEF Slot
  <2> QED BY <1>1, <1>2, <1>7, <2>1
<1>9. \A x, i : Slot(n, x, i) <=> Slot(m, x, i)
  BY <1>6 DEF Slot
<1>10. \A x \in Frames, i \in V!Index : Slot(m, x, i) => n[x] = m[x]
  BY <1>6, <1>8 DEF Slot
<1>11. BootTables(n)
  <2>1. n[pml4_phys] = m[pml4_phys] /\ n[V!pdpt_low] = m[V!pdpt_low]
    BY <1>4, <1>5, BootPlaces
  <2>2. \A x \in 0 .. LOW_PDS - 1 : n[V!pd_low(x)] = m[V!pd_low(x)]
    BY <1>4, <1>5, BootPlaces
  <2> QED BY <1>3, <1>6, <2>1, <2>2 DEF BootTables
<1>12. TablesMade(n, BootFree) /\ EnteredOnce(n)
  BY <1>7, <1>9, <1>10, Zenon DEF TablesMade, EnteredOnce
<1>13. TablesInv(n, BootFree)
  BY <1>5, <1>11, <1>12 DEF TablesInv
<1>14. ASSUME NEW j \in {N - 2, N - 1}, NEW i \in V!Index, NEW d \in V!Index
       PROVE  WindowWalk(n, j, i, d) = WindowWalk(m, j, i, d)
  <2> DEFINE x == m[K][j].frame
  <2>1. CASE ~m[K][j].present
    BY <1>6, <2>1, Zenon DEF WindowWalk, LedTo
  <2>2. CASE m[K][j].present
    <3>1. x = D /\ ~(m[x][i].present /\ ~m[x][i].ps)
      <4>1. /\ x \in Frames /\ ((j = N - 2 /\ x = D) \/ (j = N - 1 /\ x \notin BootFrames))
            /\ (m[x][i].present /\ ~m[x][i].ps => Slot(m, x, i))
        BY <2>2, ViaSlot
      <4>2. j # N - 1
        BY <1>8, <2>2
      <4> QED BY <1>7, <4>1, <4>2
    <3>2. WindowWalk(n, j, i, d) = LedTo(m[K][j], m[x][i], n[m[x][i].frame][d], d)
      BY <1>6, <3>1 DEF WindowWalk
    <3>3. WindowWalk(m, j, i, d) = LedTo(m[K][j], m[x][i], m[m[x][i].frame][d], d)
      BY DEF WindowWalk
    <3> HIDE DEF x
    <3> QED BY <3>1, <3>2, <3>3, Zenon DEF LedTo
  <2> QED BY <2>1, <2>2
<1>15. \A x, i : Slot(m, x, i) => Slot(n, x, i)
  BY <1>9, Zenon
<1>16. \A x \in Frames, i \in V!Index : Slot(m, x, i) /\ m[x][i].present => n[x][i] = m[x][i]
  BY <1>7
<1> QED BY <1>13, <1>14, <1>15, <1>16, Zenon DEF KeptAs

LargeAt(k, h) == k = N - 2 /\ h < KERNEL_MAP

\* A page of a window is mapped, or a frame for a table could not be had.  An address
\* in a large page is passed over, and no table is made for it.
LEMMA PageMapped ==
  ASSUME NEW m, NEW p, TablesInv(m, p), NEW k \in {N - 2, N - 1}, NEW h \in V!Index, NEW e \in V!Index,
         NEW phys \in Nat, NEW r, r = V!MapPage([mem |-> m, pool |-> p], <<N - 1, k, h, e>>, phys),
         LargeAt(k, h) => p = BootFree /\ h * N > KERNEL_SIZE
  PROVE  /\ TablesInv(r.s.mem, r.s.pool)
         /\ LargeAt(k, h) => r.s.pool = p
         /\ r.result = 0 => LargeAt(k, h) \/ WindowWalk(r.s.mem, k, h, e) = phys
         /\ OthersKept(m, r.s.mem, k, h, e)
<1> USE DEF LargeAt, OthersKept
<1> DEFINE K == V!pdpt_kern
           D == V!pd_kern_0
           va == <<N - 1, k, h, e>>
           s == [mem |-> m, pool |-> p]
           pdpt == V!ensure_table(s, pml4_phys, N - 1)
           pd == V!Descend(pdpt, k)
           pt == V!Descend(pd, h)
<1>1. N \in Nat /\ N > 2 /\ N - 1 \in V!Index /\ N - 2 \in V!Index /\ KERNEL_MAP \in 1 .. N
      /\ V!Index = 0 .. N - 1
  <2>1. N \in Nat /\ N > 2 /\ KERNEL_MAP \in 1 .. N
    BY DriversAssumption
  <2> QED BY <2>1 DEF V!Index
<1>2. /\ K \in BootFrames /\ D \in BootFrames /\ K # D /\ K \in Frames /\ D \in Frames
      /\ K \in Nat \ {0} /\ D \in Nat \ {0}
  <2>1. \A x \in BootFrames : x \in Nat \ {0}
    BY DriversAssumption DEF BootFrames
  <2> QED BY <2>1, BootPlaces, Zenon
<1>3. r = IF pt.table = 0
          THEN [s |-> pt.s, result |-> -1]
          ELSE [s |-> [pt.s EXCEPT !.mem[pt.table] = [@ EXCEPT ![e] = V!Small(phys)]], result |-> 0]
  <2>1. va[1] = N - 1 /\ va[2] = k /\ va[3] = h /\ va[4] = e
    OBVIOUS
  <2> HIDE DEF va
  <2> QED BY <2>1 DEF V!MapPage, va
<1>4. pdpt = [s |-> s, table |-> K]
  <2>1. m[pml4_phys][N - 1].present /\ m[pml4_phys][N - 1].frame = K
    BY <1>2, EntryKinds4 DEF TablesInv, BootTables
  <2> QED BY <2>1 DEF V!ensure_table
<1> HIDE DEF va
<1>5. pd = V!ensure_table(s, K, k)
  BY <1>2, <1>4 DEF V!Descend
<1> HIDE DEF pdpt, pd, pt
\* The directory.
<1>6. PICK n, q : /\ pd.s = [mem |-> n, pool |-> q] /\ KeptAs(m, n, q)
                  /\ k = N - 2 => q = p
                  /\ \/ pd.table = 0
                     \/ pd.table \in Nat \ {0} /\ n[K][k].present /\ n[K][k].frame = pd.table
  <2>1. CASE k = N - 2
    <3>1. m[K][k].present /\ m[K][k].frame = D
      BY <1>2, <2>1, EntryKinds4 DEF TablesInv, BootTables
    <3>2. pd = [s |-> s, table |-> D]
      BY <1>5, <3>1 DEF V!ensure_table
    <3>3. KeptAs(m, m, p)
      BY DEF KeptAs
    <3> QED BY <1>2, <3>1, <3>2, <3>3
  <2>2. CASE k = N - 1
    <3>1. Slot(m, K, k)
      BY <2>2 DEF Slot
    <3>2. k \in V!Index /\ k # N - 2
      BY <1>1, <2>2
    <3>5. Ensured(m, K, k, pd)
      BY <1>2, <1>5, <3>1, <3>2, TableEnsured
    <3>3. PICK n, q :
             /\ pd.s = [mem |-> n, pool |-> q] /\ KeptAs(m, n, q)
             /\ \/ pd.table = 0
                \/ /\ pd.table # 0 /\ pd.table \in Frames /\ pd.table \in BootFree \ q
                   /\ MadeAs(m, n, q, K, k, pd.table)
      BY <3>5 DEF Ensured
    <3>4. pd.table \in Frames => pd.table \in Nat
      BY BootPlaces, Zenon
    <3> QED BY <3>2, <3>3, <3>4 DEF MadeAs
  <2> QED BY <2>1, <2>2, Zenon
<1>7. TablesInv(n, q) /\ \A j \in {N - 2, N - 1} : \A c, d \in V!Index : WindowWalk(n, j, c, d) = WindowWalk(m, j, c, d)
  BY <1>6 DEF KeptAs
<1>8. CASE pd.table = 0
  <2>1. pt = pd
    BY <1>8 DEF V!Descend, pt
  <2>2. k = N - 1
    <3>1. k = N - 2 => pd.table = D
      <4>1. k = N - 2 => m[K][k].present /\ m[K][k].frame = D
        BY <1>2, EntryKinds4 DEF TablesInv, BootTables
      <4> QED BY <1>5, <4>1 DEF V!ensure_table
    <3> QED BY <1>2, <1>8, <3>1
  <2>3. r.s = pd.s /\ r.result = -1
    BY <1>3, <1>8, <2>1
  <2>4. r.s.mem = n /\ r.s.pool = q /\ ~LargeAt(k, h)
    BY <1>1, <1>6, <2>2, <2>3
  <2> QED BY <1>7, <2>3, <2>4
<1>9. CASE pd.table # 0
  <2> DEFINE u == pd.table
  <2>1. n[K][k].present /\ n[K][k].frame = u /\ u \in Nat \ {0}
    BY <1>6, <1>9
  <2>2. pt = V!ensure_table([mem |-> n, pool |-> q], u, h)
    BY <1>6, <1>9 DEF V!Descend, pt
  <2>3. /\ u \in Frames /\ u # K
        /\ ((k = N - 2 /\ u = D) \/ (k = N - 1 /\ u \notin BootFrames))
        /\ \/ Slot(n, u, h)
           \/ u = D /\ h < KERNEL_MAP /\ n[u][h] = V!Large(KERNEL_PHYS_BASE + h * N) /\ n[u][h].ps
    <3>1. LET uu == n[K][k].frame
          IN  /\ uu \in Frames /\ uu # K
              /\ ((k = N - 2 /\ uu = D) \/ (k = N - 1 /\ uu \notin BootFrames))
              /\ \/ Slot(n, uu, h)
                 \/ uu = D /\ h < KERNEL_MAP /\ n[uu][h] = V!Large(KERNEL_PHYS_BASE + h * N) /\ n[uu][h].ps
      BY <1>7, <2>1, ViaSlot
    <3> QED BY <2>1, <3>1
  <2> HIDE DEF u
  \* The page table of a small page.
  <2>4. CASE ~LargeAt(k, h)
    <3>1. Slot(n, u, h)
      BY <1>1, <1>2, <2>3, <2>4
    <3>2. PICK n2, q2 :
             /\ pt.s = [mem |-> n2, pool |-> q2] /\ KeptAs(n, n2, q2)
             /\ \/ pt.table = 0
                \/ /\ pt.table # 0 /\ pt.table \in Frames /\ pt.table \in BootFree \ q2
                   /\ MadeAs(n, n2, q2, u, h, pt.table)
      <4>1. Ensured(n, u, h, pt)
        BY <1>7, <2>2, <2>3, <3>1, TableEnsured
      <4> QED BY <4>1 DEF Ensured
    <3>3. /\ TablesInv(n2, q2)
          /\ \A j \in {N - 2, N - 1} : \A c, d \in V!Index : WindowWalk(n2, j, c, d) = WindowWalk(m, j, c, d)
      BY <1>7, <3>2 DEF KeptAs
    <3>4. CASE pt.table = 0
      <4>1. r.s.mem = n2 /\ r.s.pool = q2 /\ r.result = -1
        BY <1>3, <3>2, <3>4
      <4> QED BY <2>4, <3>3, <4>1
    <3>5. CASE pt.table # 0
      <4> DEFINE t == pt.table
                 n3 == [n2 EXCEPT ![t] = [@ EXCEPT ![e] = V!Small(phys)]]
      <4>1. r.s.mem = n3 /\ r.s.pool = q2
        <5> DEFINE s2 == [mem |-> n2, pool |-> q2]
        <5>1. r.s = [s2 EXCEPT !.mem[t] = [@ EXCEPT ![e] = V!Small(phys)]]
          BY <1>3, <3>2, <3>5
        <5>2. s2.mem = n2 /\ s2.pool = q2
          OBVIOUS
        <5> QED BY <5>1, <5>2, Zenon
      <4>2. n2[K][k] = n[K][k]
        <5>1. CASE k = N - 1
          <6>1. Slot(n, K, k)
            BY <5>1 DEF Slot
          <6> QED BY <1>1, <1>2, <2>1, <3>2, <5>1, <6>1, Zenon DEF KeptAs
        <5>2. CASE k = N - 2
          BY <1>7, <3>3, <5>2 DEF TablesInv, BootTables
        <5> QED BY <5>1, <5>2
      <4>3. t \in Frames /\ n2[u][h].present /\ ~n2[u][h].ps /\ n2[u][h].frame = t
        BY <3>2, <3>5 DEF MadeAs
      <4>4. Via(n2, k, h, t)
        BY <2>1, <4>2, <4>3 DEF Via
      <4>5. n3 = [n2 EXCEPT ![t] = [@ EXCEPT ![e] = V!Small(phys)]]
        BY DEF n3
      <4> HIDE DEF n3, t
      <4>6. PageAs(n2, n3, q2, k, h, e, phys)
        BY <3>3, <4>3, <4>4, <4>5, PageEntered, Zenon
      <4> QED BY <2>4, <3>3, <4>1, <4>6 DEF PageAs
    <3> QED BY <3>4, <3>5
  \* A large page.
  <2>5. CASE LargeAt(k, h)
    <3>1. u = D /\ k = N - 2 /\ h < KERNEL_MAP /\ q = BootFree /\ p = BootFree /\ h * N > KERNEL_SIZE
      <4>1. k = N - 2 /\ h < KERNEL_MAP /\ p = BootFree /\ h * N > KERNEL_SIZE
        BY <2>5
      <4>2. q = p
        BY <1>6, <4>1
      <4>3. u = D
        BY <1>1, <1>2, <2>3, <4>1
      <4> QED BY <4>1, <4>2, <4>3
    <3> DEFINE base == KERNEL_PHYS_BASE + h * N
               n3 == [n EXCEPT ![base] = [@ EXCEPT ![e] = V!Small(phys)]]
    <3>2. base \in Nat \ {0}
      <4>1. h \in Nat /\ h * N \in Nat
        <5>1. h \in Nat
          BY <1>1
        <5> QED BY <1>1, <5>1, SMTT(30)
      <4>2. KERNEL_SIZE \in Nat /\ KERNEL_PHYS_BASE \in Nat
        BY DriversAssumption
      <4> DEFINE z == h * N
      <4> HIDE DEF z
      <4>3. z \in Nat /\ z > KERNEL_SIZE
        BY <3>1, <4>1 DEF z
      <4> QED BY <4>2, <4>3 DEF z
    <3>3. n[u][h] = V!Large(base)
      <4>1. h \in 0 .. KERNEL_MAP - 1
        BY <1>1, <3>1
      <4> QED BY <1>7, <3>1, <4>1 DEF TablesInv, BootTables
    <3>4. pt = [s |-> [mem |-> n, pool |-> q], table |-> base]
      <4>1. n[u][h].present /\ n[u][h].frame = base
        BY <3>2, <3>3, EntryKinds4
      <4> HIDE DEF base
      <4> QED BY <2>2, <4>1 DEF V!ensure_table
    <3>5. r.s.mem = n3 /\ r.s.pool = q
      <4> HIDE DEF base
      <4> QED BY <1>3, <3>2, <3>4
    <3>6. base = KERNEL_PHYS_BASE + h * N /\ n3 = [n EXCEPT ![base] = [@ EXCEPT ![e] = V!Small(phys)]]
      BY DEF n3
    <3> HIDE DEF n3, base
    <3>7. KeptAs(n, n3, BootFree)
      BY <1>7, <3>1, <3>6, LargePageWritten, Zenon
    <3> QED BY <1>7, <2>5, <3>1, <3>5, <3>7 DEF KeptAs
  <2> QED BY <2>4, <2>5
<1> QED BY <1>8, <1>9

\* A multiple leaves no remainder.
LEMMA Multiple ==
  ASSUME NEW u \in Nat \ {0}, NEW q \in Nat
  PROVE  (q * u) % u = 0
<1> DEFINE x == q * u
           s == x \div u
           t == x % u
<1>1. x \in Nat
  BY SMTT(30)
<1>2. s \in Nat /\ t \in Nat /\ t < u /\ x = s * u + t
  <2> HIDE DEF x
  <2> QED BY <1>1, DivMod
<1> HIDE DEF s, t
<1>3. \A z \in Nat : z < u /\ x + z = s * u + t => z = t
  <2> SUFFICES ASSUME NEW z \in Nat, z < u, q * u + z = s * u + t
               PROVE  z = t
    OBVIOUS
  <2> QED BY <1>2, OneQuotient
<1>4. t = 0
  <2> HIDE DEF x
  <2> QED BY <1>1, <1>2, <1>3
<1> QED BY <1>4 DEF t

\* A multiple of what divides the number of values has room for one more.
LEMMA RoomBelow ==
  ASSUME NEW u \in Nat \ {0}, REG % u = 0, NEW a \in Nat, a % u = 0, a < REG
  PROVE  a + u <= REG
<1> DEFINE k == REG \div u
           q == a \div u
<1>1. REG \in Nat
  BY RegAssumption
<1>2. k \in Nat /\ q \in Nat /\ REG = k * u /\ a = q * u
  BY <1>1, DivMod
<1> HIDE DEF k, q
<1>3. q < k
  <2>1. CASE k <= q
    <3>1. PICK z \in Nat : q = k + z
      <4>1. q - k \in Nat /\ q = k + (q - k)
        BY <1>2, <2>1
      <4> QED BY <4>1
    <3>2. q * u = k * u + z * u /\ z * u \in Nat
      BY <1>2, <3>1, SMTT(30)
    <3> QED BY <1>1, <1>2, <3>2
  <2> QED BY <1>2, <2>1
<1>4. PICK z \in Nat : k = q + 1 + z
  <2>1. k - q - 1 \in Nat /\ k = q + 1 + (k - q - 1)
    BY <1>2, <1>3
  <2> QED BY <2>1
<1>5. k * u = q * u + u + z * u /\ z * u \in Nat
  BY <1>2, <1>4, SMTT(30)
<1> QED BY <1>1, <1>2, <1>5

\* What is kept of a BAR are numbers, also of an upper half.
LEMMA ProbeTyped ==
  ASSUME NEW hw, NEW regs, BarHardware(hw, regs), NEW b \in BARS
  PROVE  LET bar == pci_probe_bar(hw, regs, b).bar
         IN  bar.addr \in Nat /\ bar.size \in Nat
<1> DEFINE r == regs[b]
           hi == regs[b + 1]
           ones == Written(hw, regs, b, AllOnes)
           ones2 == Written(hw, ones, b + 1, AllOnes)
           p == pci_probe_bar(hw, regs, b)
<1>1. /\ regs \in [Registers -> 0 .. AllOnes] /\ b \in Registers /\ b + 1 \in Registers
      /\ hw.unit[b] \in 1 .. REG /\ hw.flags[b] \in Nat
      /\ hw.unit[b + 1] \in 1 .. REG /\ hw.flags[b + 1] \in Nat
  BY DEF BarHardware, BARS, Registers
<1>2. REG \in Nat /\ REG > 0 /\ AllOnes \in Nat /\ AllOnes = REG - 1
  BY RegAssumption DEF AllOnes
<1>3. r \in Nat /\ hi \in Nat
  BY <1>1, <1>2
<1>4. \A u \in 1 .. REG, fl \in Nat : AllOnes - (AllOnes % u) + fl \in Int
  BY <1>2
<1>5. ones[b] \in Int /\ ones2[b] \in Int /\ ones2[b + 1] \in Int
  <2>1. ones[b] = Stored(hw, b, AllOnes) /\ ones2[b] = Stored(hw, b, AllOnes)
        /\ ones2[b + 1] = Stored(hw, b + 1, AllOnes)
    BY <1>1 DEF Written, BARS
  <2> QED BY <1>1, <1>4, <2>1 DEF Stored
<1>6. \A x \in Int : SizeOf(x) \in Nat
  <2> DEFINE m == REG * REG
  <2>1. m \in Nat /\ m > 0
    BY <1>2, SMTT(30)
  <2> HIDE DEF m
  <2>2. \A x \in Int : (m - x) % m \in Nat
    BY <2>1
  <2> QED BY <2>2 DEF SizeOf, m
<1>7. \A x, y \in Int : Wide(x, y) \in Int
  BY <1>2 DEF Wide
<1>8. \A x, y \in Nat : Wide(x, y) \in Nat
  <2> SUFFICES ASSUME NEW x \in Nat, NEW y \in Nat
               PROVE  x * REG + y \in Nat
    BY DEF Wide
  <2>1. x * REG \in Nat
    BY <1>2, SMTT(30)
  <2> QED BY <2>1
<1>9. \A x \in Nat : x - (x % 16) \in Nat /\ x - (x % 4) \in Nat
  OBVIOUS
<1>10. \A x \in Int : x - (x % 16) \in Int /\ x - (x % 4) \in Int
  OBVIOUS
<1> HIDE DEF r, hi
<1>11. CASE r = 0
  BY <1>11 DEF pci_probe_bar, NoBar, r
<1>12. CASE r # 0 /\ IsIo(r)
  <2>1. p.bar.addr = r - (r % 4) /\ p.bar.size = SizeOf(ones[b] - (ones[b] % 4))
    BY <1>12 DEF pci_probe_bar, Probe32, r
  <2> HIDE DEF ones, p
  <2>2. p.bar.addr \in Nat /\ p.bar.size \in Nat
    BY <1>3, <1>5, <1>6, <1>9, <1>10, <2>1
  <2> QED BY <2>2 DEF p
<1>13. CASE r # 0 /\ ~IsIo(r) /\ Is64(r)
  <2>1. /\ p.bar.addr = Wide(hi, r - (r % 16))
        /\ p.bar.size = SizeOf(Wide(ones2[b + 1], ones2[b] - (ones2[b] % 16)))
    BY <1>13 DEF pci_probe_bar, Probe64, r, hi
  <2> HIDE DEF ones2, p
  <2>2. p.bar.addr \in Nat /\ p.bar.size \in Nat
    BY <1>3, <1>5, <1>6, <1>7, <1>8, <1>9, <1>10, <2>1, Zenon
  <2> QED BY <2>2 DEF p
<1>14. CASE r # 0 /\ ~IsIo(r) /\ ~Is64(r)
  <2>1. p.bar.addr = r - (r % 16) /\ p.bar.size = SizeOf(ones[b] - (ones[b] % 16))
    BY <1>14 DEF pci_probe_bar, Probe32, r
  <2> HIDE DEF ones, p
  <2>2. p.bar.addr \in Nat /\ p.bar.size \in Nat
    BY <1>3, <1>5, <1>6, <1>9, <1>10, <2>1
  <2> QED BY <2>2 DEF p
<1> QED BY <1>11, <1>12, <1>13, <1>14

\* The size of a memory BAR is at least what it decodes, of one with 32 bits too, and
\* one that begins among the addresses of 32 bits ends there.
LEMMA ProbeCovers ==
  ASSUME NEW hw, NEW regs, BarHardware(hw, regs), NEW b \in BARS,
         hw.unit[b] < REG, ~UpperHalf(hw, b), NEW bar, bar = pci_probe_bar(hw, regs, b).bar,
         bar.io = FALSE, bar.size > 0
  PROVE  /\ hw.unit[b] \in Nat \ {0} /\ bar.size >= hw.unit[b]
         /\ bar.addr < REG => bar.addr + hw.unit[b] <= REG
<1> DEFINE r == regs[b]
           flags == hw.flags[b]
           u == hw.unit[b]
           ones == Written(hw, regs, b, AllOnes)
<1>1. /\ regs \in [Registers -> 0 .. AllOnes] /\ b \in Registers /\ b + 1 \in Registers
      /\ u \in 1 .. REG /\ flags \in {0, 1, 4, 8, 12}
  BY DEF BarHardware, BARS, Registers
<1>2. REG \in Nat /\ REG > 0 /\ REG % 16 = 0 /\ AllOnes = REG - 1
  BY RegAssumption DEF AllOnes
<1>3. r \in Nat /\ r < REG /\ u \in Nat \ {0} /\ u < REG
  BY <1>1, <1>2
<1>4. ProbedTrue(hw, regs, b, bar)
  BY ProbeTrue
<1>5. flags # 1
  <2>1. bar.io = (flags = 1)
    BY <1>4 DEF ProbedTrue
  <2> QED BY <2>1, Zenon
<1>6. r % 16 = flags /\ u % 16 = 0 /\ REG % u = 0
  BY <1>1, <1>5 DEF BarHardware
<1>7. r % u = flags
  <2>1. r - (r % u) + flags = r
    BY <1>1 DEF BarHardware, Stored
  <2>2. r % u \in Nat
    BY <1>3
  <2> HIDE DEF r, u, flags
  <2> QED BY <1>1, <1>3, <2>1, <2>2
<1>8. r - flags \in Nat /\ (r - flags) % u = 0 /\ r - flags < REG
  <2> DEFINE q == r \div u
  <2> HIDE DEF r, u, flags
  <2>1. q \in Nat /\ r = q * u + flags /\ flags \in Nat
    BY <1>1, <1>3, <1>7, DivMod
  <2> HIDE DEF q
  <2> DEFINE x == q * u
  <2>2. x \in Nat
    BY <1>3, <2>1, SMTT(30)
  <2>3. x % u = 0
    BY <1>3, <2>1, Multiple
  <2> HIDE DEF x
  <2>4. r = x + flags
    BY <2>1 DEF x
  <2>5. r - flags = x
    BY <2>1, <2>2, <2>4
  <2>6. x < REG
    BY <1>2, <1>3, <2>1, <2>2, <2>4
  <2> DEFINE a == r - flags
  <2>7. a = x
    BY <2>5
  <2> HIDE DEF a
  <2>8. a \in Nat /\ a % u = 0 /\ a < REG
    BY <2>2, <2>3, <2>6, <2>7
  <2> QED BY <2>8 DEF a
<1>9. r - flags + u <= REG
  <2> DEFINE a == r - flags
  <2>1. a \in Nat /\ a % u = 0 /\ a < REG
    BY <1>8
  <2> HIDE DEF a, u
  <2>2. a + u <= REG
    BY <1>3, <1>6, <2>1, RoomBelow
  <2> QED BY <2>2 DEF a
<1>10. CASE flags \in {4, 12}
  <2>1. bar.addr = Wide(regs[b + 1], r - flags) /\ bar.size = u
    BY <1>4, <1>10 DEF ProbedTrue
  <2>2. bar.addr < REG => regs[b + 1] = 0
    <3> DEFINE hi == regs[b + 1]
    <3>1. hi \in Nat
      BY <1>1, <1>2
    <3> HIDE DEF hi
    <3>2. hi >= 1 => hi * REG >= REG
      BY <1>2, <3>1, SMTT(30)
    <3>3. bar.addr = hi * REG + (r - flags) /\ hi * REG \in Nat
      <4>1. hi * REG \in Nat
        BY <1>2, <3>1, SMTT(30)
      <4> QED BY <2>1, <4>1 DEF Wide, hi
    <3> HIDE DEF r, flags
    <3>4. hi >= 1 => bar.addr >= REG
      BY <1>2, <1>8, <3>2, <3>3
    <3>5. bar.addr < REG => hi = 0
      BY <1>2, <1>8, <3>1, <3>3, <3>4
    <3> QED BY <3>5 DEF hi
  <2>3. Wide(0, r - flags) = r - flags
    BY <1>2, <1>8 DEF Wide
  <2> QED BY <1>3, <1>9, <2>1, <2>2, <2>3
<1>11. CASE flags \in {0, 8}
  <2>1. bar.addr = r - flags
    BY <1>4, <1>11 DEF ProbedTrue
  <2>2. r # 0
    <3>1. r = 0 => bar.size = 0
      BY DEF pci_probe_bar, NoBar
    <3> QED BY <3>1
  <2>3. ~IsIo(r) /\ ~Is64(r)
    <3> HIDE DEF r, flags
    <3> QED BY <1>3, <1>6, <1>11 DEF IsIo, Is64
  <2>4. bar.size = SizeOf(ones[b] - (ones[b] % 16))
    BY <2>2, <2>3 DEF pci_probe_bar, Probe32
  <2>5. ones[b] = AllOnes - (AllOnes % u) + flags
    BY <1>1 DEF Written, Stored
  <2>6. AllOnes % u = u - 1
    BY <1>3, <1>6, OnesDown
  <2>7. ones[b] - (ones[b] % 16) = REG - u
    <3> HIDE DEF ones, flags, u
    <3> QED BY <1>2, <1>3, <1>6, <1>11, <2>5, <2>6
  <2>8. bar.size >= u
    <3> DEFINE m == REG * REG
    <3>1. m \in Nat /\ m >= REG
      BY <1>2, SMTT(30)
    <3>2. bar.size = (m - (REG - u)) % m
      BY <2>4, <2>7 DEF SizeOf
    <3> HIDE DEF m, u
    <3>3. (m - (REG - u)) \in 0 .. m - 1
      BY <1>2, <1>3, <3>1
    <3>4. bar.size = m - (REG - u)
      BY <3>1, <3>2, <3>3
    <3> QED BY <1>2, <1>3, <3>1, <3>4
  <2> QED BY <1>3, <1>9, <2>1, <2>8
<1> QED BY <1>1, <1>5, <1>10, <1>11

\* Page v of a window has been mapped to page phys, or not; the pages known before
\* lead where they led.
PageDone(m, p, n, q, v, phys, result) ==
  /\ TablesInv(n, q)
  /\ InLargePage(v) => q = p
  /\ result = 0 => InLargePage(v) \/ V!Translate(n, VA(v)) = phys
  /\ \A w \in KnownPages : w # v => V!Translate(n, VA(w)) = V!Translate(m, VA(w))

\* What the mapping of a page of a window does to the pages known before.
LEMMA PageStep ==
  ASSUME NEW m, NEW p, TablesInv(m, p), NEW v \in WindowPages, MmioStart <= v,
         InLargePage(v) => p = BootFree, NEW phys \in Nat, NEW r,
         r = V!MapPage([mem |-> m, pool |-> p], VA(v), phys)
  PROVE  PageDone(m, p, r.s.mem, r.s.pool, v, phys, r.result)
<1>1. PICK k \in {N - 2, N - 1}, h \in V!Index, e \in V!Index : VA(v) = <<N - 1, k, h, e>>
  BY WindowDigits
<1>2. InLargePage(v) <=> LargeAt(k, h)
  <2>1. VA(v)[1] = N - 1 /\ VA(v)[2] = k /\ VA(v)[3] = h
    BY <1>1
  <2> QED BY <2>1 DEF InLargePage, LargeAt
<1>3. InLargePage(v) => h * N > KERNEL_SIZE
  <2>1. VA(v)[3] = h
    BY <1>1
  <2>2. InLargePage(v) => VA(v)[3] * N > KERNEL_SIZE
    BY BehindKernel
  <2> HIDE DEF VA
  <2> QED BY <2>1, <2>2
<1>4. r = V!MapPage([mem |-> m, pool |-> p], <<N - 1, k, h, e>>, phys)
  BY <1>1
<1> DEFINE n == r.s.mem
           q == r.s.pool
<1>5. /\ TablesInv(n, q)
      /\ LargeAt(k, h) => q = p
      /\ r.result = 0 => LargeAt(k, h) \/ WindowWalk(n, k, h, e) = phys
      /\ OthersKept(m, n, k, h, e)
  BY <1>2, <1>3, <1>4, PageMapped
<1> HIDE DEF n, q
<1>6. r.result = 0 => InLargePage(v) \/ V!Translate(n, VA(v)) = phys
  <2>1. V!Translate(n, <<N - 1, k, h, e>>) = WindowWalk(n, k, h, e)
    BY <1>5, WindowTranslated
  <2> QED BY <1>1, <1>2, <1>5, <2>1
<1>7. ASSUME NEW w \in KnownPages, w # v
      PROVE  V!Translate(n, VA(w)) = V!Translate(m, VA(w))
  <2>1. CASE w \in DirectPages
    <3>1. PICK a \in 0 .. LOW_PDS * N * N - 1 : w = HHDM + a
      <4> DEFINE size == LOW_PDS * N * N
      <4>1. HHDM \in Int /\ size \in Int
        <5>1. N \in Nat /\ N \div 2 \in Nat /\ LOW_PDS \in Nat
          BY DriversAssumption
        <5> DEFINE g == N \div 2
        <5>2. g * N * N * N \in Nat
          <6> HIDE DEF g
          <6> QED BY <5>1, SMTT(30) DEF g
        <5>3. size \in Nat
          BY <5>1, SMTT(30)
        <5> QED BY <5>2, <5>3 DEF HHDM
      <4>2. w \in HHDM .. HHDM + size - 1
        BY <2>1 DEF DirectPages
      <4> HIDE DEF size
      <4>3. w - HHDM \in 0 .. size - 1 /\ w = HHDM + (w - HHDM)
        BY <4>1, <4>2
      <4> QED BY <4>3 DEF size
    <3>2. V!Translate(n, VA(HHDM + a)) = a
      BY <1>5, DirectTranslated
    <3>3. V!Translate(m, VA(HHDM + a)) = a
      BY DirectTranslated
    <3> QED BY <3>1, <3>2, <3>3
  <2>2. CASE w \in WindowPages
    <3>1. PICK j \in {N - 2, N - 1}, c \in V!Index, d \in V!Index : VA(w) = <<N - 1, j, c, d>>
      BY <2>2, WindowDigits
    <3>2. <<j, c, d>> # <<k, h, e>>
      <4>1. VA(w) # VA(v)
        BY <1>7, AddressesDiffer
      <4> QED BY <1>1, <3>1, <4>1
    <3>3. WindowWalk(n, j, c, d) = WindowWalk(m, j, c, d)
      BY <1>5, <3>2 DEF OthersKept
    <3>4. V!Translate(n, <<N - 1, j, c, d>>) = WindowWalk(n, j, c, d)
      BY <1>5, WindowTranslated
    <3>5. V!Translate(m, <<N - 1, j, c, d>>) = WindowWalk(m, j, c, d)
      BY WindowTranslated
    <3> QED BY <3>1, <3>3, <3>4, <3>5
  <2> QED BY <2>1, <2>2 DEF KnownPages
<1> QED BY <1>2, <1>5, <1>6, <1>7 DEF PageDone, n, q

\* Quotients: of what multiples are added to, of the lesser of two, and of what is
\* less than a multiple.
LEMMA DivPlus ==
  ASSUME NEW P \in Nat \ {0}, NEW q \in Nat, NEW a \in Nat
  PROVE  (q * P + a) \div P = q + (a \div P)
<1> DEFINE x == q * P + a
           s == x \div P
           t == x % P
           c == a \div P
           d == a % P
<1>1. x \in Nat /\ q * P \in Nat
  BY SMTT(30)
<1>2. s \in Nat /\ t \in Nat /\ t < P /\ x = s * P + t
  <2> HIDE DEF x
  <2> QED BY <1>1, DivMod
<1>3. c \in Nat /\ d \in Nat /\ d < P /\ a = c * P + d
  BY DivMod
<1> HIDE DEF s, t, c, d
<1>4. (q + c) * P + d = s * P + t
  <2>1. (q + c) * P = q * P + c * P /\ c * P \in Nat
    BY <1>3, SMTT(30)
  <2> QED BY <1>1, <1>2, <1>3, <2>1
<1>5. q + c \in Nat
  BY <1>3
<1>6. q + c = s
  <2> DEFINE g == q + c
  <2>1. g \in Nat /\ g * P + d = s * P + t
    BY <1>4, <1>5
  <2> HIDE DEF g
  <2>2. g = s
    BY <1>2, <1>3, <2>1, OneQuotient
  <2> QED BY <2>2 DEF g
<1> QED BY <1>6 DEF s, c

\* The quotient of the lesser is no greater.
LEMMA DivMonotone ==
  ASSUME NEW P \in Nat \ {0}, NEW a \in Nat, NEW b \in Nat, a <= b
  PROVE  a \div P <= b \div P
<1> DEFINE c == a \div P
           d == a % P
           e == (b - a) + d
<1>1. c \in Nat /\ d \in Nat /\ d < P /\ a = c * P + d
  BY DivMod
<1> HIDE DEF c, d
<1>2. e \in Nat /\ b = c * P + e
  BY <1>1
<1> HIDE DEF e
<1>3. b \div P = c + (e \div P) /\ e \div P \in Nat
  <2>1. (c * P + e) \div P = c + (e \div P)
    BY <1>1, <1>2, DivPlus, Zenon
  <2>2. e \div P \in Nat
    BY <1>2, DivMod
  <2> QED BY <1>2, <2>1, <2>2
<1> QED BY <1>1, <1>3 DEF c

\* A quotient is below k if what is divided is below k divisors.
LEMMA DivBelow ==
  ASSUME NEW P \in Nat \ {0}, NEW a \in Nat, NEW q \in Nat, a < q * P
  PROVE  a \div P < q
<1> DEFINE c == a \div P
           d == a % P
<1>1. c \in Nat /\ d \in Nat /\ d < P /\ a = c * P + d
  BY DivMod
<1> HIDE DEF c, d
<1>2. CASE q <= c
  <2>1. q * P <= c * P /\ c * P \in Nat /\ q * P \in Nat
    BY <1>1, <1>2, SMTT(30)
  <2> QED BY <1>1, <2>1
<1> QED BY <1>1, <1>2 DEF c

\* A window has the pages of its BAR, and one at least.
LEMMA WindowCovers ==
  ASSUME NEW addr \in Nat, NEW size \in Nat, NEW unit \in Nat \ {0}, size >= unit
  PROVE  LET pages == AlignUp(size + (addr % PAGE), PAGE) \div PAGE
         IN  pages \in Nat /\ (addr + unit - 1) \div PAGE - addr \div PAGE < pages
<1> DEFINE q == addr \div PAGE
           o == addr % PAGE
           x == size + o
           y == o + unit - 1
           pages == AlignUp(size + (addr % PAGE), PAGE) \div PAGE
<1>1. PAGE \in Nat \ {0}
  BY DriversAssumption
<1>2. q \in Nat /\ o \in Nat /\ o < PAGE /\ addr = q * PAGE + o
  BY <1>1, DivMod
<1> HIDE DEF q, o
<1>3. x \in Nat /\ y \in Nat
  BY <1>2
<1> DEFINE c == (x + PAGE - 1) \div PAGE
<1>4. x + PAGE - 1 \in Nat
  BY <1>1, <1>3
<1>5. c \in Nat
  <2> HIDE DEF x
  <2> QED BY <1>1, <1>4, DivMod
<1>6. pages = c
  <2>1. pages = (c * PAGE) \div PAGE
    BY DEF AlignUp, o
  <2> HIDE DEF c
  <2>2. (c * PAGE + 0) \div PAGE = c + (0 \div PAGE)
    BY <1>1, <1>5, DivPlus
  <2>3. 0 \div PAGE = 0
    BY <1>1
  <2>4. c * PAGE \in Nat
    BY <1>1, <1>5, SMTT(30)
  <2>5. c * PAGE + 0 = c * PAGE
    BY <2>4
  <2> QED BY <1>5, <2>1, <2>2, <2>3, <2>5
<1>7. (addr + unit - 1) \div PAGE = q + (y \div PAGE)
  <2> DEFINE z == q * PAGE
  <2>1. z \in Nat
    BY <1>1, <1>2, SMTT(30)
  <2>2. addr + unit - 1 = z + y
    <3> HIDE DEF z
    <3>1. addr = z + o
      BY <1>2 DEF z
    <3> QED BY <1>2, <2>1, <3>1
  <2> HIDE DEF y
  <2>3. (q * PAGE + y) \div PAGE = q + (y \div PAGE)
    BY <1>1, <1>2, <1>3, DivPlus, Zenon
  <2> QED BY <2>2, <2>3
<1>8. y \div PAGE + 1 <= c
  <2> HIDE DEF x, y, c
  <2>1. (1 * PAGE + y) \div PAGE = 1 + (y \div PAGE)
    BY <1>1, <1>3, DivPlus, Zenon
  <2>2. 1 * PAGE + y <= x + PAGE - 1 /\ 1 * PAGE + y \in Nat
    BY <1>1, <1>2, <1>3 DEF x, y
  <2>3. (1 * PAGE + y) \div PAGE <= (x + PAGE - 1) \div PAGE
    BY <1>1, <1>4, <2>2, DivMonotone
  <2>4. y \div PAGE \in Nat
    BY <1>1, <1>3, DivMod
  <2> QED BY <1>5, <2>1, <2>3, <2>4 DEF c
<1>9. y \div PAGE \in Nat
  <2> HIDE DEF y
  <2> QED BY <1>1, <1>3, DivMod
<1>10. q + (y \div PAGE) - q < c
  <2> DEFINE g == y \div PAGE
  <2>1. g \in Nat /\ g + 1 <= c
    BY <1>8, <1>9
  <2> HIDE DEF g, c
  <2>2. q + g - q < c
    BY <1>2, <1>5, <2>1
  <2> QED BY <2>2 DEF g
<1>11. (addr + unit - 1) \div PAGE - q < pages
  <2> DEFINE e == (addr + unit - 1) \div PAGE
             g == y \div PAGE
  <2>1. e = q + g /\ g \in Nat /\ q + g - q < c
    BY <1>7, <1>9, <1>10
  <2> HIDE DEF c, pages, e, g
  <2>2. e - q < pages
    BY <1>2, <1>5, <1>6, <2>1
  <2> QED BY <2>2 DEF e
<1>12. pages \in Nat
  BY <1>5, <1>6
<1> QED BY <1>11, <1>12, Zenon DEF q

\* The numbers of a BAR that has been probed; a memory BAR that is there covers what
\* it decodes.
LEMMA BarNumbers ==
  ASSUME ScanInv, BarsInv, NEW f \in Range(devices), NEW b \in 1 .. 6
  PROVE  bars[f][b].addr \in Nat /\ bars[f][b].size \in Nat
<1>1. bars[f][b] = pci_probe_bar(machine[f].hw, machine[f].regs, b - 1).bar /\ b - 1 \in BARS
  BY DEF BarsInv, ProbeOf, BARS
<1>2. BarHardware(machine[f].hw, machine[f].regs)
  BY Zenon DEF ScanInv, TableTrue, PciMachine, OnBus
<1> QED BY <1>1, <1>2, ProbeTyped

\* A memory BAR that has been probed and is there has at least the size it decodes,
\* and ends in the addresses of 32 bits if it begins there.
LEMMA BarPlaced ==
  ASSUME ScanInv, BarsInv, NEW f \in Range(devices), NEW b \in 1 .. 6, b - 1 \in Bars(f),
         bars[f][b].size > 0, ~bars[f][b].io
  PROVE  LET u == machine[f].hw.unit[b - 1]
         IN  /\ u \in Nat \ {0} /\ bars[f][b].size >= u
             /\ bars[f][b].addr < REG => bars[f][b].addr + u <= REG
<1> DEFINE hw == machine[f].hw
           regs == machine[f].regs
           k == b - 1
           bar == bars[f][b]
<1>1. bar = pci_probe_bar(hw, regs, k).bar /\ k \in BARS
  BY DEF BarsInv, ProbeOf, BARS
<1>2. BarHardware(hw, regs)
  BY Zenon DEF ScanInv, TableTrue, PciMachine, OnBus
<1>3. hw.unit[k] < REG /\ ~UpperHalf(hw, k)
  BY DEF Bars, Upper
<1>4. bar.io = FALSE
  <2>1. ProbedTrue(hw, regs, k, bar)
    <3> HIDE DEF hw, regs, k, bar
    <3> QED BY <1>1, <1>2, <1>3, ProbeTrue
  <2>2. bar.io = (hw.flags[k] = 1)
    BY <2>1 DEF ProbedTrue
  <2>3. ~bar.io
    OBVIOUS
  <2> HIDE DEF bar, hw, k
  <2> QED BY <2>2, <2>3
<1>5. bar.size > 0
  OBVIOUS
<1>6. /\ hw.unit[k] \in Nat \ {0} /\ bar.size >= hw.unit[k]
      /\ bar.addr < REG => bar.addr + hw.unit[k] <= REG
  <2> HIDE DEF hw, regs, k, bar
  <2> QED BY <1>1, <1>2, <1>3, <1>4, <1>5, ProbeCovers, Zenon
<1> QED BY <1>6 DEF bar, hw, k

\* The pages of a BAR in the addresses of 32 bits lie in the direct map.
LEMMA LowPages ==
  ASSUME NEW addr \in Nat, NEW unit \in Nat \ {0}, addr + unit <= REG,
         NEW p \in 0 .. (addr + unit - 1) \div PAGE - addr \div PAGE
  PROVE  addr \div PAGE + p \in 0 .. LOW_PDS * N * N - 1
<1> DEFINE top == (addr + unit - 1) \div PAGE
           q == addr \div PAGE
           size == LOW_PDS * N * N
<1>1. PAGE \in Nat \ {0} /\ size \in Nat /\ REG = size * PAGE
  <2>1. PAGE \in Nat \ {0} /\ LOW_PDS \in Nat /\ N \in Nat /\ REG = LOW_PDS * N * N * PAGE
    BY DriversAssumption
  <2>2. LOW_PDS * N * N \in Nat
    BY <2>1, SMTT(30)
  <2> QED BY <2>1, <2>2
<1>2. addr + unit - 1 \in Nat /\ addr + unit - 1 < size * PAGE
  <2> DEFINE z == size * PAGE
  <2>1. z \in Nat /\ z = REG
    BY <1>1, SMTT(30)
  <2> HIDE DEF z, size
  <2>2. addr + unit - 1 \in Nat /\ addr + unit - 1 < z
    BY <2>1
  <2> QED BY <2>2 DEF z
<1> HIDE DEF size
<1>3. top \in Nat /\ top < size
  <2> DEFINE a == addr + unit - 1
  <2> HIDE DEF a
  <2>1. a \div PAGE \in Nat /\ a \div PAGE < size
    BY <1>1, <1>2, DivMod, DivBelow DEF a
  <2> QED BY <2>1 DEF a
<1>4. q \in Nat
  BY <1>1, DivMod
<1>5. p \in 0 .. top - q
  OBVIOUS
<1> HIDE DEF top, q
<1>6. q + p \in 0 .. size - 1
  BY <1>1, <1>3, <1>4, <1>5
<1> QED BY <1>6 DEF q, size

\* Pages of windows up to the next are in the windows' region.
LEMMA NextPageKnown ==
  ASSUME WindowsInv
  PROVE  /\ Window \in Nat /\ MmioStart <= Window
         /\ NextPage \in Nat /\ MmioStart <= NextPage
         /\ MmioStart .. (NextPage - 1) \subseteq WindowPages
<1> DEFINE all == N * N * N * N
<1>1. MmioStart \in Nat /\ \A p \in Nat : MmioStart <= p /\ p < all => p \in WindowPages
  BY BehindKernel
<1>2. all \in Nat
  <2>1. N \in Nat
    BY DriversAssumption
  <2> QED BY <2>1, SMTT(30)
<1>3. /\ mmio_alloc_ptr \in {0} \cup MmioStart .. all - 1
      /\ mapping.first \in Nat /\ mapping.pages \in Nat /\ mapping.done \in Nat
      /\ mapping.pages > 0 => /\ mapping.first \in MmioStart .. all - 1
                              /\ mapping.done < mapping.pages
                              /\ Window = mapping.first + mapping.pages
  BY DEF WindowsInv, WindowTrue
<1> HIDE DEF all
<1>4. Window \in Nat /\ MmioStart <= Window /\ (Window <= MmioStart \/ Window < all)
  BY <1>1, <1>2, <1>3 DEF Window
<1>5. NextPage \in Nat /\ MmioStart <= NextPage /\ (NextPage <= MmioStart \/ NextPage <= all)
  <2>1. CASE mapping.pages > 0
    <3>1. NextPage = mapping.first + mapping.done
      BY <2>1 DEF NextPage
    <3> HIDE DEF Window
    <3> QED BY <1>1, <1>2, <1>3, <1>4, <2>1, <3>1
  <2>2. CASE ~(mapping.pages > 0)
    <3>1. NextPage = Window
      BY <2>2 DEF NextPage
    <3> HIDE DEF Window
    <3> QED BY <1>2, <1>4, <3>1
  <2> QED BY <2>1, <2>2
<1> HIDE DEF NextPage, Window, MmioStart
<1>6. MmioStart .. (NextPage - 1) \subseteq WindowPages
  <2> SUFFICES ASSUME NEW p \in MmioStart .. (NextPage - 1)
               PROVE  p \in WindowPages
    OBVIOUS
  <2>1. p \in Nat /\ MmioStart <= p /\ p < all
    BY <1>1, <1>2, <1>5
  <2> QED BY <1>1, <2>1
<1> QED BY <1>4, <1>5, <1>6

\* What a step leaves alone that leaves tables and BARs alone.
LEMMA WindowsStay ==
  ASSUME WindowsInv, UNCHANGED <<tablevars, machine, devices, bars>>,
         mapping.pages = 0, mapping' \in [bar : 0 .. 7, first : Nat, pages : Nat, done : Nat],
         mapping'.pages = 0, MappingCalled', calls' # <<>> => calls # <<>>
  PROVE  WindowsInv'
<1>1. /\ pmem' = pmem /\ ppool' = ppool /\ mmio_alloc_ptr' = mmio_alloc_ptr /\ bar_virt' = bar_virt
      /\ machine' = machine /\ devices' = devices /\ bars' = bars
  BY DEF tablevars
<1>2. NextPage' = NextPage
  BY <1>1 DEF NextPage, Window
<1>3. NothingMapped' <=> NothingMapped
  BY <1>1 DEF NothingMapped
<1>4. BarsMapped'
  <2> SUFFICES ASSUME NEW x \in Mapped'
               PROVE  BarMapped(x[1], x[2])'
    BY DEF BarsMapped
  <2>1. x \in Mapped
    BY <1>1 DEF Mapped, Bars, Upper
  <2>2. BarMapped(x[1], x[2])
    BY <2>1 DEF WindowsInv, BarsMapped
  <2> QED BY <1>1, <1>2, <2>2, Zenon DEF BarMapped, PagesOf, PageOfBar, Leads_to
<1>5. TablesInv(pmem, ppool)' /\ (InLargePage(NextPage) => ppool = BootFree)'
  BY <1>1, <1>2 DEF WindowsInv
<1>6. ~(mapping'.pages > 0)
  OBVIOUS
<1> QED BY <1>1, <1>3, <1>4, <1>5, <1>6 DEF WindowsInv

MappingRecord == [bar : 0 .. 7, first : Nat, pages : Nat, done : Nat]

\* No window is being mapped when a step is taken that is none of the mapping.
LEMMA NoWindow ==
  ASSUME WindowsInv,
         \/ mapping.bar \notin 1 .. 6
         \/ nth \notin DOMAIN devices
         \/ pci_stage # "map" /\ (probes = <<>> \/ probe_pc \notin {"remap", "map"})
         \/ calls # <<>>
  PROVE  mapping.pages = 0
<1>1. mapping.pages \in Nat
  BY DEF WindowsInv
<1>2. CASE mapping.pages > 0
  <2>1. WindowTrue /\ MappingCalled
    BY <1>2 DEF WindowsInv
  <2>2. mapping.bar \in 1 .. 6 /\ nth \in DOMAIN devices /\ calls = <<>> /\ mapping.bar > 0
    <3>1. mapping.bar \in 1 .. 6 /\ nth \in DOMAIN devices /\ calls = <<>>
      BY <2>1 DEF WindowTrue
    <3> QED BY <3>1
  <2> QED BY <2>1, <2>2 DEF MappingCalled
<1> QED BY <1>1, <1>2

\* The drivers' steps that map no BAR.
LEMMA WindowsQuiet ==
  ASSUME WindowsInv, ScanInv, ReadInv, calls = <<>>, UNCHANGED pvars,
         \/ map_next_device \/ register_drivers \/ probe_next_device \/ ahci_probe
         \/ start_168c \/ walk_upstream \/ enable_device \/ capability
         \/ remap_168c \/ give_up_168c \/ dump_168c
         \/ probe_ath_maps \/ probe_ath_mapped \/ ath_eeprom_read \/ probe_ath_ends
         \/ ide_probe_returns
  PROVE  WindowsInv'
<1>1. UNCHANGED <<machine, devices, bars, calls>>
  BY DEF pvars
<1>2. mapping \in MappingRecord /\ NotCalled \in MappingRecord /\ Called \in MappingRecord
      /\ NotCalled.bar = 0 /\ NotCalled.pages = 0 /\ Called.pages = 0 /\ Called.bar > 0
      /\ NotCalled.done = 0 /\ Called.done = 0
      /\ Len(devices) \in Nat /\ DOMAIN devices = 1 .. Len(devices) /\ nth \in Nat
  <2>1. mapping \in MappingRecord
    BY DEF WindowsInv, MappingRecord
  <2>2. NotCalled \in MappingRecord /\ NotCalled.bar = 0 /\ NotCalled.pages = 0 /\ NotCalled.done = 0
    BY DEF MappingRecord, NotCalled
  <2>3. Called \in MappingRecord /\ Called.pages = 0 /\ Called.bar = 1 /\ Called.done = 0
    BY DEF MappingRecord, NotCalled, Called
  <2>4. devices \in Seq(DOMAIN machine) /\ nth \in Nat
    BY DEF ScanInv, TableTrue, ReadInv
  <2> QED BY <2>1, <2>2, <2>3, <2>4
<1>3. pci_stage # "map" /\ (probes = <<>> \/ probe_pc \notin {"remap", "map"}) => mapping.bar = 0
  BY <1>2 DEF WindowsInv, MappingCalled, MappingRecord
<1>11. mapping.pages = 0 => mapping.done = 0
  BY DEF WindowsInv, MappingCalled
<1> DEFINE Quiet == /\ UNCHANGED tablevars /\ mapping.pages = 0
                    /\ mapping' \in MappingRecord /\ mapping'.pages = 0 /\ MappingCalled'
<1>4. CASE map_next_device
  <2>1. mapping.pages = 0
    BY <1>4, NoWindow DEF map_next_device, Returned
  <2>2. mapping' = Called /\ pci_stage' = "map" /\ UNCHANGED tablevars
    BY <1>4 DEF map_next_device
  <2>3. Quiet
    BY <1>2, <2>1, <2>2 DEF MappingCalled
  <2> QED BY <1>1, <2>3, WindowsStay DEF MappingRecord
<1>5. CASE register_drivers
  <2>1. mapping.pages = 0
    <3>1. nth \notin DOMAIN devices
      BY <1>2, <1>5 DEF register_drivers
    <3> QED BY <3>1, NoWindow
  <2>2. mapping' = NotCalled /\ UNCHANGED tablevars
    BY <1>5 DEF register_drivers
  <2>3. Quiet
    BY <1>2, <2>1, <2>2 DEF MappingCalled
  <2> QED BY <1>1, <2>3, WindowsStay DEF MappingRecord
<1>6. CASE probe_next_device
  <2>1. pci_stage # "map" /\ probes = <<>>
    BY <1>6 DEF probe_next_device
  <2>2. mapping.pages = 0 /\ mapping.bar = 0
    BY <1>3, <2>1, NoWindow
  <2>3. mapping' = mapping /\ UNCHANGED tablevars
    BY <1>6 DEF probe_next_device, memvars
  <2>4. Quiet
    BY <1>2, <1>11, <2>2, <2>3 DEF MappingCalled
  <2> QED BY <1>1, <2>4, WindowsStay DEF MappingRecord
\* A probe that does not map.
<1>7. CASE ahci_probe \/ start_168c \/ walk_upstream \/ enable_device \/ capability
           \/ ath_eeprom_read \/ probe_ath_ends \/ ide_probe_returns
  <2>1. pci_stage # "map" /\ probe_pc \notin {"remap", "map"} /\ UNCHANGED memvars
    BY <1>7 DEF ahci_probe, start_168c, walk_upstream, enable_device, capability,
                ath_eeprom_read, probe_ath_ends, ide_probe_returns, At, Calling
  <2>2. mapping.pages = 0 /\ mapping.bar = 0
    BY <1>3, <2>1, NoWindow
  <2>3. mapping' = mapping /\ UNCHANGED tablevars
    BY <2>1 DEF memvars
  <2>4. Quiet
    BY <1>2, <1>11, <2>2, <2>3 DEF MappingCalled
  <2> QED BY <1>1, <2>4, WindowsStay DEF MappingRecord
\* A probe that maps the BARs once more.
<1>8. CASE remap_168c \/ probe_ath_maps
  <2>1. pci_stage # "map" /\ probe_pc \notin {"remap", "map"} /\ probes # <<>>
    BY <1>8 DEF remap_168c, probe_ath_maps, CapabilitiesSeen, At, Calling
  <2>2. mapping.pages = 0
    BY <2>1, NoWindow
  <2>3. mapping' = Called /\ UNCHANGED tablevars /\ probes' = probes /\ probe_pc' \in {"remap", "map"}
    BY <1>8 DEF remap_168c, probe_ath_maps, Stay
  <2>4. Quiet
    BY <1>2, <2>1, <2>2, <2>3 DEF MappingCalled
  <2> QED BY <1>1, <2>4, WindowsStay DEF MappingRecord
\* The end of a probe that may have mapped.
<1>9. CASE give_up_168c \/ dump_168c \/ probe_ath_mapped
  <2>1. mapping.pages = 0
    <3>1. CASE CapabilitiesSeen
      BY <3>1, NoWindow DEF CapabilitiesSeen, At, Calling
    <3>2. CASE Returned
      BY <3>2, NoWindow DEF Returned
    <3> QED BY <1>9, <3>1, <3>2 DEF give_up_168c, dump_168c, probe_ath_mapped, Remapped
  <2>2. mapping' = NotCalled /\ UNCHANGED tablevars
    BY <1>9 DEF give_up_168c, dump_168c, probe_ath_mapped
  <2>3. Quiet
    BY <1>2, <2>1, <2>2 DEF MappingCalled
  <2> QED BY <1>1, <2>3, WindowsStay DEF MappingRecord
<1> QED BY <1>4, <1>5, <1>6, <1>7, <1>8, <1>9

\* While the buses are scanned nothing is mapped.
LEMMA WindowsScan ==
  ASSUME WindowsInv, PciNext, UNCHANGED dvars, ScanInv'
  PROVE  WindowsInv'
<1>1. calls # <<>> /\ machine' = machine
  BY DEF PciNext, scan_no_device, scan_no_function, probe_next_bar, scan_function, scan_return, Goes_on
<1>2. /\ UNCHANGED <<pmem, ppool, mmio_alloc_ptr, bar_virt, mapping, pci_stage, probes, probe_pc>>
  BY DEF dvars, memvars, tablevars
<1>3. mapping.pages = 0 /\ NothingMapped
  BY <1>1, NoWindow DEF WindowsInv
<1>4. Mapped' = {}
  <2>1. Range(devices)' \subseteq DOMAIN machine
    <3>1. devices' \in Seq(DOMAIN machine)
      BY <1>1 DEF ScanInv, TableTrue
    <3> QED BY <3>1 DEF Range
  <2>2. \A x \in Range(devices)' \X (1 .. 6) : bar_virt[x[1]][x[2]] = 0
    BY <1>3, <2>1 DEF NothingMapped
  <2> QED BY <1>2, <2>2 DEF Mapped
<1>5. NextPage' = NextPage /\ NothingMapped'
  BY <1>1, <1>2, <1>3 DEF NextPage, Window, NothingMapped
<1>6. BarsMapped'
  BY <1>4 DEF BarsMapped
<1>7. MappingCalled' /\ ~(mapping'.pages > 0)
  BY <1>2, <1>3 DEF WindowsInv, MappingCalled
<1>8. /\ TablesInv(pmem, ppool)' /\ (InLargePage(NextPage) => ppool = BootFree)'
  BY <1>2, <1>5 DEF WindowsInv
<1>9. /\ (mmio_alloc_ptr \in {0} \cup MmioStart .. N * N * N * N - 1)'
      /\ (bar_virt \in [DOMAIN machine -> [1 .. 6 -> Nat]])'
      /\ (mapping \in [bar : 0 .. 7, first : Nat, pages : Nat, done : Nat])'
  BY <1>1, <1>2 DEF WindowsInv
<1> QED BY <1>5, <1>6, <1>7, <1>8, <1>9 DEF WindowsInv

\* The addresses that were known lead where they led.
KnownKept(m, n, next) ==
  \A w \in DirectPages \cup (MmioStart .. (next - 1)) : V!Translate(n, VA(w)) = V!Translate(m, VA(w))

\* When the pages known before lead where they led, and at most one BAR has been
\* given an address, it is that one alone that has to be looked at.
LEMMA BarsKept ==
  ASSUME WindowsInv, UNCHANGED <<machine, devices, bars>>, KnownKept(pmem, pmem', NextPage),
         NextPage' \in Nat, NextPage <= NextPage', NEW f, NEW b,
         \A x \in Mapped' : x # <<f, b>> => bar_virt'[x[1]][x[2]] = bar_virt[x[1]][x[2]],
         <<f, b>> \in Mapped' => BarMapped(f, b)'
  PROVE  BarsMapped'
<1> SUFFICES ASSUME NEW x \in Mapped'
             PROVE  BarMapped(x[1], x[2])'
  BY DEF BarsMapped
<1>1. CASE x = <<f, b>>
  <2>1. x[1] = f /\ x[2] = b
    BY <1>1
  <2> QED BY <1>1, <2>1
<1>2. CASE x # <<f, b>>
  <2> DEFINE g == x[1]
             c == x[2]
  <2>1. bar_virt'[g][c] = bar_virt[g][c]
    BY <1>2
  <2>2. x \in Mapped
    BY <2>1 DEF Mapped, Bars, Upper
  <2>3. BarMapped(g, c)
    BY <2>2 DEF WindowsInv, BarsMapped
  <2> HIDE DEF g, c
  <2>4. ASSUME NEW p \in PagesOf(g, c)'
        PROVE  (/\ PageOfBar(g, c, p) \in DirectPages \cup (MmioStart .. (NextPage - 1))
                /\ Leads_to(PageOfBar(g, c, p), bars[g][c].addr \div PAGE + p))'
    <3>1. p \in PagesOf(g, c)
      BY DEF PagesOf
    <3>2. PICK w : w = PageOfBar(g, c, p)
      OBVIOUS
    <3>3. PICK a : a = bars[g][c].addr \div PAGE + p
      OBVIOUS
    <3>4. w \in DirectPages \cup (MmioStart .. (NextPage - 1)) /\ Leads_to(w, a)
      BY <2>3, <3>1, <3>2, <3>3 DEF BarMapped
    <3>5. V!Translate(pmem', VA(w)) = V!Translate(pmem, VA(w))
      BY <3>4 DEF KnownKept
    <3>6. PageOfBar(g, c, p)' = w /\ (bars[g][c].addr \div PAGE + p)' = a
      BY <2>1, <3>2, <3>3 DEF PageOfBar
    <3>7. InLargePage(w) \/ V!Translate(pmem', VA(w)) = a
      BY <3>4, <3>5 DEF Leads_to
    <3>8. w \in DirectPages \cup (MmioStart .. (NextPage' - 1))
      <4> DEFINE s == MmioStart
                 n == NextPage
                 k == NextPage'
      <4>1. n \in Nat /\ k \in Nat /\ s \in Nat /\ n <= k
        BY NextPageKnown, BehindKernel
      <4> HIDE DEF s, n, k
      <4>2. s .. (n - 1) \subseteq s .. (k - 1)
        BY <4>1
      <4> USE DEF s, n, k
      <4> QED BY <3>4, <4>2
    <3> QED BY <3>6, <3>7, <3>8 DEF Leads_to
  <2>5. BarMapped(g, c)'
    BY <2>4 DEF BarMapped
  <2> QED BY <2>5 DEF g, c
<1> QED BY <1>1, <1>2

\* What the mapping has come to.
LEMMA MapsAt ==
  ASSUME WindowsInv, ScanInv, nth \in DOMAIN devices, mapping.bar \in 1 .. 6
  PROVE  /\ Cur \in Range(devices) /\ Cur \in DOMAIN machine
         /\ Cur \in DOMAIN bar_virt /\ mapping.bar \in DOMAIN bar_virt[Cur]
<1>1. devices \in Seq(DOMAIN machine)
  BY DEF ScanInv, TableTrue
<1>2. Cur \in Range(devices) /\ Cur \in DOMAIN machine
  BY <1>1 DEF Cur, Range
<1>3. bar_virt \in [DOMAIN machine -> [1 .. 6 -> Nat]]
  BY DEF WindowsInv
<1> QED BY <1>2, <1>3

\* A BAR of the direct map.
LEMMA WindowsDirect ==
  ASSUME WindowsInv, ScanInv, BarsInv, calls = <<>>, pass_bar, UNCHANGED pvars
  PROVE  WindowsInv'
<1>1. UNCHANGED <<machine, devices, bars, calls, pmem, ppool, mmio_alloc_ptr, nth, pci_stage, probes, probe_pc>>
  BY DEF pvars, pass_bar, StayMapping
<1>2. /\ nth \in DOMAIN devices /\ mapping.bar \in 1 .. 6 /\ mapping.pages = 0
      /\ mapping' = [NotCalled EXCEPT !.bar = mapping.bar + 1]
  BY DEF pass_bar, MapsBar, BarDone
<1>3. PICK f : f = Cur
  OBVIOUS
<1>4. PICK b : b = mapping.bar
  OBVIOUS
<1>5. f \in Range(devices) /\ f \in DOMAIN machine /\ b \in 1 .. 6
  BY <1>2, <1>3, <1>4, MapsAt
<1>6. PICK addr : addr = bars[f][b].addr
  OBVIOUS
<1>7. addr \in Nat /\ Bar.addr = addr /\ Bar = bars[f][b]
  BY <1>3, <1>4, <1>5, <1>6, BarNumbers, Zenon DEF Bar
<1>8. PICK virt : virt = IF IsMemory THEN HHDM * PAGE + Bar.addr ELSE 0
  OBVIOUS
<1>9. bar_virt' = [bar_virt EXCEPT ![f][b] = virt]
  BY <1>3, <1>4, <1>8 DEF pass_bar, BarDone
<1>10. HHDM \in Nat /\ PAGE \in Nat \ {0} /\ HHDM * PAGE \in Nat
  <2>1. N \in Nat /\ N \div 2 \in Nat /\ PAGE \in Nat \ {0}
    BY DriversAssumption
  <2> DEFINE g == N \div 2
  <2>2. g * N * N * N \in Nat
    <3> HIDE DEF g
    <3> QED BY <2>1, SMTT(30) DEF g
  <2>3. HHDM \in Nat
    BY <2>2 DEF HHDM
  <2> HIDE DEF HHDM
  <2> QED BY <2>1, <2>3, SMTT(30)
<1>11. virt \in Nat
  <2> HIDE DEF HHDM
  <2> QED BY <1>7, <1>8, <1>10
<1>12. bar_virt \in [DOMAIN machine -> [1 .. 6 -> Nat]]
  BY DEF WindowsInv
<1>13. /\ bar_virt' \in [DOMAIN machine -> [1 .. 6 -> Nat]]
       /\ bar_virt'[f][b] = virt
       /\ \A x \in Mapped' : x # <<f, b>> => bar_virt'[x[1]][x[2]] = bar_virt[x[1]][x[2]]
  BY <1>5, <1>9, <1>11, <1>12 DEF Mapped
<1>14. /\ mapping' \in MappingRecord /\ mapping'.pages = 0 /\ ~(mapping'.pages > 0)
       /\ MappingCalled'
  <2>1. mapping' \in MappingRecord /\ mapping'.pages = 0 /\ mapping'.done = 0
    BY <1>2 DEF NotCalled, MappingRecord
  <2> QED BY <1>1, <1>2, <2>1 DEF WindowsInv, MappingCalled
<1>15. NextPage' = NextPage
  BY <1>1, <1>2, <1>14 DEF NextPage, Window
<1>16. BarMapped(f, b)' \/ <<f, b>> \notin Mapped'
  <2> SUFFICES ASSUME <<f, b>> \in Mapped'
               PROVE  BarMapped(f, b)'
    OBVIOUS
  <2>1. virt # 0 /\ b - 1 \in Bars(f)
    BY <1>1, <1>13 DEF Mapped, Bars, Upper
  <2>2. IsMemory /\ DirectlyMapped
    BY <1>8, <2>1 DEF pass_bar
  <2>3. addr < REG /\ bars[f][b].size > 0 /\ ~bars[f][b].io
    BY <1>7, <2>2 DEF DirectlyMapped, IsMemory
  <2>4. PICK unit : unit = machine[f].hw.unit[b - 1]
    OBVIOUS
  <2>5. unit \in Nat \ {0} /\ addr + unit <= REG
    BY <1>5, <1>6, <2>1, <2>3, <2>4, BarPlaced, Zenon
  <2>6. virt \div PAGE = HHDM + (addr \div PAGE)
    <3>1. virt = HHDM * PAGE + addr
      BY <1>7, <1>8, <2>2
    <3> HIDE DEF HHDM
    <3>2. (HHDM * PAGE + addr) \div PAGE = HHDM + (addr \div PAGE)
      BY <1>7, <1>10, DivPlus, Zenon
    <3> QED BY <3>1, <3>2
  <2>7. ASSUME NEW p \in PagesOf(f, b)
        PROVE  /\ virt \div PAGE + p \in DirectPages
               /\ V!Translate(pmem, VA(virt \div PAGE + p)) = addr \div PAGE + p
    <3> DEFINE q == addr \div PAGE
               a == q + p
               size == LOW_PDS * N * N
    <3>1. a \in 0 .. size - 1
      BY <1>6, <1>7, <2>4, <2>5, LowPages, Zenon DEF PagesOf
    <3>2. q \in Nat /\ size \in Int /\ p \in Int
      <4>1. q \in Nat
        BY <1>7, <1>10, DivMod
      <4>2. size \in Nat
        <5>1. N \in Nat /\ LOW_PDS \in Nat
          BY DriversAssumption
        <5> QED BY <5>1, SMTT(30)
      <4>3. p \in Int
        BY DEF PagesOf
      <4> QED BY <4>1, <4>2, <4>3
    <3>3. virt \div PAGE + p = HHDM + a
      <4>1. virt \div PAGE = HHDM + q
        BY <2>6
      <4> HIDE DEF q, HHDM
      <4>2. HHDM + q + p = HHDM + a
        BY <1>10, <3>2
      <4> QED BY <4>1, <4>2
    <3>4. TablesInv(pmem, ppool)
      BY DEF WindowsInv
    <3>5. V!Translate(pmem, VA(HHDM + a)) = a
      <4> HIDE DEF a
      <4> QED BY <3>1, <3>4, DirectTranslated
    <3>6. HHDM + a \in DirectPages
      <4> HIDE DEF a, size, HHDM
      <4>1. HHDM + a \in HHDM .. HHDM + size - 1
        BY <1>10, <3>1, <3>2
      <4> QED BY <4>1 DEF DirectPages, size
    <3> QED BY <3>3, <3>5, <3>6
  <2>8. PagesOf(f, b)' = PagesOf(f, b) /\ bars'[f][b].addr = addr
    BY <1>1, <1>6 DEF PagesOf
  <2>9. ASSUME NEW p \in PagesOf(f, b)
        PROVE  /\ PageOfBar(f, b, p)' = virt \div PAGE + p
               /\ (bars[f][b].addr \div PAGE + p)' = addr \div PAGE + p
    BY <1>13, <2>8 DEF PageOfBar
  <2> QED BY <1>1, <2>7, <2>8, <2>9 DEF BarMapped, Leads_to
<1>17. BarsMapped'
  <2>1. NextPage' \in Nat /\ NextPage <= NextPage'
    BY <1>15, NextPageKnown
  <2>2. KnownKept(pmem, pmem', NextPage)
    BY <1>1 DEF KnownKept
  <2> QED BY <1>1, <1>13, <1>16, <2>1, <2>2, BarsKept
<1>18. TablesInv(pmem, ppool)' /\ (InLargePage(NextPage) => ppool = BootFree)'
       /\ mmio_alloc_ptr' \in {0} \cup MmioStart .. N * N * N * N - 1
  BY <1>1, <1>15 DEF WindowsInv
<1>19. calls' = <<>>
  BY <1>1
<1> QED BY <1>1, <1>13, <1>14, <1>17, <1>18, <1>19 DEF WindowsInv, MappingRecord

\* A window is taken.
LEMMA WindowsTaken ==
  ASSUME WindowsInv, ScanInv, BarsInv, calls = <<>>, map_mmio, UNCHANGED pvars, WindowsFit'
  PROVE  WindowsInv'
<1>1. UNCHANGED <<machine, devices, bars, calls, pmem, ppool, nth, pci_stage, probes, probe_pc>>
  BY DEF pvars, map_mmio, StayMapping
<1>2. nth \in DOMAIN devices /\ mapping.bar \in 1 .. 6 /\ mapping.pages = 0 /\ IsMemory
  BY DEF map_mmio, MapsBar
<1>3. PICK f : f = Cur
  OBVIOUS
<1>4. PICK b : b = mapping.bar
  OBVIOUS
<1>5. f \in Range(devices) /\ f \in DOMAIN machine /\ b \in 1 .. 6
  BY <1>2, <1>3, <1>4, MapsAt
<1>6. Bar.addr \in Nat /\ Bar.size \in Nat /\ Bar.size > 0
  BY <1>2, <1>3, <1>4, <1>5, BarNumbers, Zenon DEF Bar, IsMemory
<1>7. PICK pages : pages = AlignUp(Bar.size + (Bar.addr % PAGE), PAGE) \div PAGE
  OBVIOUS
<1>8. pages \in Nat /\ pages > 0
  <2>0. PICK addr \in Nat, size \in Nat, unit \in Nat \ {0} :
          addr = Bar.addr /\ size = Bar.size /\ unit = 1 /\ size >= unit
    BY <1>6
  <2> DEFINE x == (addr + unit - 1) \div PAGE
             y == addr \div PAGE
  <2>1. pages \in Nat /\ x - y < pages
    <3>1. LET g == AlignUp(size + (addr % PAGE), PAGE) \div PAGE
          IN  g \in Nat /\ (addr + unit - 1) \div PAGE - addr \div PAGE < g
      BY <2>0, WindowCovers, Zenon
    <3>2. pages = AlignUp(size + (addr % PAGE), PAGE) \div PAGE
      BY <1>7, <2>0
    <3> QED BY <3>1, <3>2
  <2>2. addr + unit - 1 = addr
    BY <2>0
  <2>3. x = y
    BY <2>2
  <2>4. PAGE \in Nat \ {0}
    BY DriversAssumption
  <2>5. y \in Nat
    BY <2>4, DivMod
  <2> HIDE DEF x, y
  <2> QED BY <2>1, <2>3, <2>5
<1>9. /\ mapping' = [mapping EXCEPT !.first = Window, !.pages = pages]
      /\ mmio_alloc_ptr' = (Window + pages) % (N * N * N * N)
      /\ bar_virt' = [bar_virt EXCEPT ![f][b] = 0]
  BY <1>3, <1>4, <1>7, Zenon DEF map_mmio, NextWindow
<1>10. mapping \in MappingRecord /\ bar_virt \in [DOMAIN machine -> [1 .. 6 -> Nat]]
  BY DEF WindowsInv, MappingRecord
<1>11. Window \in Nat /\ MmioStart <= Window /\ MmioStart \in Nat /\ MmioStart > 0
  BY NextPageKnown, BehindKernel
<1>12. /\ mapping'.first = Window /\ mapping'.pages = pages /\ mapping'.bar = b
       /\ mapping'.done = mapping.done /\ mapping' \in MappingRecord
  <2> HIDE DEF Window
  <2> QED BY <1>4, <1>8, <1>9, <1>10, <1>11, Zenon DEF MappingRecord
<1> DEFINE all == N * N * N * N
<1>13. all \in Nat
  <2>1. N \in Nat
    BY DriversAssumption
  <2> QED BY <2>1, SMTT(30)
<1> HIDE DEF all
<1>14. Window + pages < all
  BY <1>8, <1>12 DEF WindowsFit, all
<1>15. mmio_alloc_ptr' = Window + pages /\ mmio_alloc_ptr' \in MmioStart .. all - 1
  <2> HIDE DEF Window, MmioStart
  <2>1. mmio_alloc_ptr' = (Window + pages) % all
    BY <1>9 DEF all
  <2>2. (Window + pages) % all = Window + pages
    BY <1>8, <1>11, <1>13, <1>14
  <2> QED BY <1>8, <1>11, <1>13, <1>14, <2>1, <2>2
<1>16. Window' = Window + pages
  <2>1. mmio_alloc_ptr' # 0
    <3> HIDE DEF Window, MmioStart
    <3> QED BY <1>8, <1>11, <1>15
  <2> DEFINE s == Window + pages
  <2>2. mmio_alloc_ptr' = s
    BY <1>15
  <2> HIDE DEF s
  <2>3. Window' = s
    BY <2>1, <2>2 DEF Window
  <2> QED BY <2>3 DEF s
<1>17. NextPage = Window
  BY <1>2 DEF NextPage
<1>18. mapping'.done = 0 /\ MappingCalled'
  <2>1. mapping.done = 0 /\ MappingCalled
    BY <1>2 DEF WindowsInv, MappingCalled
  <2>2. mapping'.bar = mapping.bar
    BY <1>4, <1>12
  <2> QED BY <1>1, <1>12, <2>1, <2>2 DEF MappingCalled
<1>19. NextPage' = NextPage
  <2>1. NextPage' = mapping'.first + mapping'.done
    BY <1>8, <1>12 DEF NextPage
  <2> HIDE DEF Window
  <2> QED BY <1>11, <1>12, <1>17, <1>18, <2>1
<1>20. /\ bar_virt' \in [DOMAIN machine -> [1 .. 6 -> Nat]] /\ bar_virt'[f][b] = 0
       /\ \A x \in Mapped' : x # <<f, b>> => bar_virt'[x[1]][x[2]] = bar_virt[x[1]][x[2]]
  BY <1>5, <1>9, <1>10 DEF Mapped
<1>21. BarsMapped'
  <2>1. NextPage' \in Nat /\ NextPage <= NextPage'
    BY <1>19, NextPageKnown
  <2>2. KnownKept(pmem, pmem', NextPage)
    BY <1>1 DEF KnownKept
  <2>3. <<f, b>> \notin Mapped'
    BY <1>20 DEF Mapped
  <2> QED BY <1>1, <1>20, <2>1, <2>2, <2>3, BarsKept
<1>22. WindowTrue'
  <2>1. Cur' = f /\ mapping'.bar = b /\ Bar' = Bar
    BY <1>1, <1>3, <1>4, <1>12 DEF Cur, Bar
  <2>2. mapping'.first \in MmioStart .. all - 1
    <3> HIDE DEF Window, MmioStart
    <3> QED BY <1>8, <1>11, <1>12, <1>13, <1>14
  <2>3. Window' = mapping'.first + mapping'.pages
    BY <1>12, <1>16
  <2>4. mapping'.done < mapping'.pages /\ 0 .. mapping'.done - 1 = {}
    BY <1>8, <1>12, <1>18
  <2>5. IsMemory' /\ bar_virt'[Cur'][mapping'.bar] = 0
    BY <1>2, <1>20, <2>1 DEF IsMemory
  <2>6. mapping'.pages = AlignUp(Bar'.size + (Bar'.addr % PAGE), PAGE) \div PAGE
    BY <1>7, <1>12, <2>1
  <2>7. calls' = <<>> /\ nth' \in DOMAIN devices' /\ mapping'.bar \in 1 .. 6
    BY <1>1, <1>2, <1>5, <2>1
  <2> QED BY <2>2, <2>3, <2>4, <2>5, <2>6, <2>7 DEF WindowTrue, all
<1>23. TablesInv(pmem, ppool)' /\ (InLargePage(NextPage) => ppool = BootFree)'
  BY <1>1, <1>19 DEF WindowsInv
<1>24. calls' = <<>>
  BY <1>1
<1>25. mmio_alloc_ptr' \in {0} \cup MmioStart .. N * N * N * N - 1
  BY <1>15 DEF all
<1> QED BY <1>1, <1>12, <1>18, <1>20, <1>21, <1>22, <1>23, <1>24, <1>25 DEF WindowsInv, MappingRecord

\* The direct map and the windows' region are apart.
LEMMA MapsApart ==
  ASSUME NEW w \in DirectPages
  PROVE  w \in KnownPages /\ w \notin WindowPages
<1> DEFINE size == LOW_PDS * N * N
<1>1. HHDM \in Int /\ size \in Int /\ N \in Nat /\ N > 2
  <2>1. N \in Nat /\ N > 2 /\ N \div 2 \in Nat /\ LOW_PDS \in Nat
    BY DriversAssumption
  <2> DEFINE g == N \div 2
  <2>2. g * N * N * N \in Nat
    <3> HIDE DEF g
    <3> QED BY <2>1, SMTT(30) DEF g
  <2>3. size \in Nat
    BY <2>1, SMTT(30)
  <2> QED BY <2>1, <2>2, <2>3 DEF HHDM
<1>2. PICK a \in 0 .. size - 1 : w = HHDM + a
  <2>1. w \in HHDM .. HHDM + size - 1
    BY DEF DirectPages
  <2> HIDE DEF size, HHDM
  <2>2. w - HHDM \in 0 .. size - 1 /\ w = HHDM + (w - HHDM)
    BY <1>1, <2>1
  <2> QED BY <2>2
<1>3. VA(w)[1] = N \div 2
  <2>1. PICK k \in 0 .. LOW_PDS - 1, c \in V!Index, d \in V!Index : VA(HHDM + a) = <<N \div 2, k, c, d>>
    BY DirectDigits
  <2> QED BY <1>2, <2>1
<1>4. w \in WindowPages => VA(w)[1] = N - 1
  <2> SUFFICES ASSUME w \in WindowPages
               PROVE  VA(w)[1] = N - 1
    OBVIOUS
  <2>1. PICK j \in {N - 2, N - 1}, c \in V!Index, d \in V!Index : VA(w) = <<N - 1, j, c, d>>
    BY WindowDigits
  <2> QED BY <2>1
<1>5. N \div 2 # N - 1
  BY <1>1
<1> QED BY <1>3, <1>4, <1>5 DEF KnownPages

\* A page of a window is mapped or not; what all cases have in common.
PageInWindow(f, b, v, addr, pages) ==
  /\ UNCHANGED <<machine, devices, bars, calls, mmio_alloc_ptr, nth, pci_stage, probes, probe_pc>>
  /\ WindowTrue /\ MappingCalled
  /\ f = Cur /\ b = mapping.bar /\ Bar = bars[f][b]
  /\ f \in Range(devices) /\ f \in DOMAIN machine /\ b \in 1 .. 6
  /\ bar_virt \in [DOMAIN machine -> [1 .. 6 -> Nat]] /\ bar_virt[f][b] = 0
  /\ addr = Bar.addr /\ addr \in Nat /\ Bar.size \in Nat
  /\ pages = mapping.pages /\ pages \in Nat /\ mapping \in MappingRecord
  /\ mapping.first \in Nat /\ MmioStart <= mapping.first /\ MmioStart \in Nat
  /\ mapping.done \in Nat /\ mapping.done < pages
  /\ v = mapping.first + mapping.done /\ v = NextPage /\ v \in WindowPages
  /\ Window = mapping.first + pages /\ Window \in WindowPages /\ Window' = Window
  /\ TablesInv(pmem', ppool') /\ KnownKept(pmem, pmem', v)
  /\ \A w \in WindowPages : v <= w /\ InLargePage(w) => ppool' = BootFree

\* What the step does that maps page v of the window at hand, for BAR b of f.
LEMMA WindowPage ==
  ASSUME WindowsInv, WindowsFit, ScanInv, BarsInv, calls = <<>>, UNCHANGED pvars, vmm_map_page
  PROVE  \E f, b, addr, pages, v, result :
           /\ v \in Nat /\ PageInWindow(f, b, v, addr, pages)
           /\ result = 0 => InLargePage(v) \/ V!Translate(pmem', VA(v)) = addr \div PAGE + mapping.done
           /\ IF result # 0 THEN BarDone(0)
              ELSE IF mapping.done + 1 = mapping.pages
              THEN BarDone(mapping.first * PAGE + (Bar.addr % PAGE))
              ELSE mapping' = [mapping EXCEPT !.done = @ + 1] /\ UNCHANGED bar_virt
<1>1. UNCHANGED <<machine, devices, bars, calls, mmio_alloc_ptr, nth, pci_stage, probes, probe_pc>>
  BY DEF pvars, vmm_map_page, StayMapping
<1>2. mapping.pages > 0 /\ WindowTrue /\ MappingCalled /\ mapping \in MappingRecord
  BY DEF WindowsInv, vmm_map_page, MappingRecord
<1>3. PICK f : f = Cur
  OBVIOUS
<1>4. PICK b : b = mapping.bar
  OBVIOUS
<1>5. f \in Range(devices) /\ f \in DOMAIN machine /\ b \in 1 .. 6
  BY <1>2, <1>3, <1>4, MapsAt DEF WindowTrue
<1>6. PICK addr : addr = Bar.addr
  OBVIOUS
<1>7. addr \in Nat /\ Bar.size \in Nat /\ Bar = bars[f][b]
  BY <1>3, <1>4, <1>5, <1>6, BarNumbers, Zenon DEF Bar
<1> DEFINE all == N * N * N * N
<1>8. all \in Nat
  <2>1. N \in Nat
    BY DriversAssumption
  <2> QED BY <2>1, SMTT(30)
<1>9. /\ mapping.first \in MmioStart .. all - 1 /\ mapping.done < mapping.pages
      /\ Window = mapping.first + mapping.pages
      /\ bar_virt[f][b] = 0
  BY <1>2, <1>3, <1>4 DEF WindowTrue
<1>10. mapping.first + mapping.pages < all
  BY <1>2 DEF WindowsFit
<1> HIDE DEF all
<1>11. MmioStart \in Nat /\ (\A p \in Nat : MmioStart <= p /\ p < all => p \in WindowPages)
  BY BehindKernel DEF all
<1>12. mapping.first \in Nat /\ mapping.pages \in Nat /\ mapping.done \in Nat /\ MmioStart <= mapping.first
  <2> HIDE DEF MmioStart
  <2> QED BY <1>2, <1>8, <1>9, <1>11 DEF MappingRecord
<1>13. PICK v \in Nat : v = mapping.first + mapping.done
  BY <1>12
<1>14. v \in WindowPages /\ MmioStart <= v /\ v = NextPage
  <2>1. v = NextPage
    BY <1>2, <1>13 DEF NextPage
  <2> HIDE DEF MmioStart, NextPage
  <2>2. MmioStart <= v /\ v < all
    BY <1>8, <1>9, <1>10, <1>11, <1>12, <1>13
  <2> QED BY <1>11, <2>1, <2>2
<1>15. Window \in WindowPages /\ Window' = Window /\ Window \in Nat /\ v <= Window
  <2>1. Window' = Window
    BY <1>1 DEF Window
  <2> HIDE DEF MmioStart, Window
  <2>2. Window \in Nat /\ MmioStart <= Window /\ Window < all /\ v <= Window
    BY <1>8, <1>9, <1>10, <1>11, <1>12, <1>13
  <2> QED BY <1>11, <2>1, <2>2
<1>16. PICK phys : phys = addr \div PAGE + mapping.done
  OBVIOUS
<1>17. phys \in Nat
  <2>1. PAGE \in Nat \ {0}
    BY DriversAssumption
  <2>2. addr \div PAGE \in Nat
    BY <1>7, <2>1, DivMod
  <2> QED BY <1>12, <1>16, <2>2
<1>18. PICK r : /\ r = V!MapPage([mem |-> pmem, pool |-> ppool], VA(v), phys)
                /\ pmem' = r.s.mem /\ ppool' = r.s.pool
                /\ IF r.result # 0 THEN BarDone(0)
                   ELSE IF mapping.done + 1 = mapping.pages
                   THEN BarDone(mapping.first * PAGE + (Bar.addr % PAGE))
                   ELSE mapping' = [mapping EXCEPT !.done = @ + 1] /\ UNCHANGED bar_virt
  BY <1>6, <1>13, <1>16 DEF vmm_map_page
<1>19. TablesInv(pmem, ppool) /\ (InLargePage(v) => ppool = BootFree)
  <2> HIDE DEF NextPage, InLargePage
  <2>1. InLargePage(NextPage) => ppool = BootFree
    BY DEF WindowsInv
  <2> QED BY <1>14, <2>1 DEF WindowsInv
<1>20. PageDone(pmem, ppool, pmem', ppool', v, phys, r.result)
  <2> PICK m : m = pmem
    OBVIOUS
  <2> PICK p : p = ppool
    OBVIOUS
  <2>1. TablesInv(m, p) /\ (InLargePage(v) => p = BootFree)
    BY <1>19
  <2>2. r = V!MapPage([mem |-> m, pool |-> p], VA(v), phys)
    BY <1>18
  <2>3. PageDone(m, p, r.s.mem, r.s.pool, v, phys, r.result)
    BY <1>14, <1>17, <2>1, <2>2, PageStep
  <2> QED BY <1>18, <2>3
<1>21. KnownKept(pmem, pmem', v)
  <2> SUFFICES ASSUME NEW w \in DirectPages \cup (MmioStart .. (v - 1))
               PROVE  V!Translate(pmem', VA(w)) = V!Translate(pmem, VA(w))
    BY DEF KnownKept
  <2>1. w \in KnownPages /\ w # v
    <3>1. CASE w \in DirectPages
      BY <1>14, <3>1, MapsApart
    <3>2. CASE w \in MmioStart .. (v - 1)
      <4> HIDE DEF MmioStart
      <4>1. w \in Nat /\ MmioStart <= w /\ w < v /\ v < all
        BY <1>8, <1>9, <1>10, <1>11, <1>12, <1>13, <3>2
      <4>2. w \in WindowPages
        BY <1>8, <1>11, <4>1
      <4> QED BY <4>1, <4>2 DEF KnownPages
    <3> QED BY <3>1, <3>2
  <2> QED BY <1>20, <2>1 DEF PageDone
<1>22. ASSUME NEW w \in WindowPages, v <= w, InLargePage(w)
       PROVE  ppool' = BootFree
  <2>1. w \in Nat
    <3>1. \A x \in WindowPages : x \in Int
      <4>1. N \in Nat
        BY DriversAssumption
      <4> DEFINE lo == ((N - 1) * N + N - 2) * N * N
      <4>2. lo \in Int
        BY <4>1, SMTT(30)
      <4> HIDE DEF lo
      <4>3. \A x \in lo .. all - 1 : x \in Int
        BY <1>8, <4>2
      <4> QED BY <4>3 DEF WindowPages, lo, all
    <3> QED BY <1>22, <3>1
  <2>2. MmioStart <= w
    <3> HIDE DEF MmioStart
    <3> QED BY <1>11, <1>14, <1>22, <2>1
  <2>3. InLargePage(v)
    <3> HIDE DEF InLargePage, MmioStart
    <3> QED BY <1>14, <1>22, <2>2, BehindKernel
  <2> QED BY <1>19, <1>20, <2>3 DEF PageDone
<1>23. PageInWindow(f, b, v, addr, mapping.pages)
  <2> HIDE DEF WindowPages, MmioStart, NextPage, Window, InLargePage, Cur, Bar
  <2> QED BY <1>1, <1>2, <1>3, <1>4, <1>5, <1>6, <1>7, <1>9, <1>11, <1>12, <1>13, <1>14, <1>15, <1>20, <1>21, <1>22, Zenon
             DEF PageInWindow, PageDone, WindowsInv
<1>24. r.result = 0 => InLargePage(v) \/ V!Translate(pmem', VA(v)) = addr \div PAGE + mapping.done
  BY <1>16, <1>20 DEF PageDone
<1> QED BY <1>13, <1>18, <1>23, <1>24, Zenon

\* The rest of the invariant, when the call goes on with the next BAR.
LEMMA NextBar ==
  ASSUME WindowsInv, ScanInv, calls = <<>>, NEW f, NEW b, NEW addr, NEW pages, NEW v \in Nat,
         PageInWindow(f, b, v, addr, pages), NEW virt \in Nat, BarDone(virt),
         <<f, b>> \in Mapped' => BarMapped(f, b)'
  PROVE  WindowsInv'
<1>1. bar_virt' = [bar_virt EXCEPT ![f][b] = virt] /\ mapping' = [NotCalled EXCEPT !.bar = b + 1]
  BY DEF BarDone, PageInWindow
<1>2. /\ bar_virt' \in [DOMAIN machine -> [1 .. 6 -> Nat]]
      /\ \A x \in Mapped' : x # <<f, b>> => bar_virt'[x[1]][x[2]] = bar_virt[x[1]][x[2]]
  <2>1. /\ f \in DOMAIN machine /\ b \in 1 .. 6
        /\ bar_virt \in [DOMAIN machine -> [1 .. 6 -> Nat]]
    BY Zenon DEF PageInWindow
  <2>2. bar_virt' \in [DOMAIN machine -> [1 .. 6 -> Nat]]
    BY <1>1, <2>1, Zenon
  <2>3. ASSUME NEW x \in Mapped', x # <<f, b>>
        PROVE  bar_virt'[x[1]][x[2]] = bar_virt[x[1]][x[2]]
    <3>1. x = <<x[1], x[2]>> /\ x[2] \in 1 .. 6
      BY DEF Mapped
    <3>2. x[1] # f \/ x[2] # b
      BY <2>3, <3>1
    <3> QED BY <1>1, <2>1, <3>1, <3>2
  <2> QED BY <2>2, <2>3
<1>3. mapping' \in MappingRecord /\ mapping'.pages = 0 /\ mapping'.done = 0 /\ ~(mapping'.pages > 0)
  <2>1. b \in 1 .. 6
    BY Zenon DEF PageInWindow
  <2> QED BY <1>1, <2>1 DEF NotCalled, MappingRecord
<1>4. MappingCalled'
  <2>0. b = mapping.bar /\ b \in 1 .. 6
    BY Zenon DEF PageInWindow
  <2>1. mapping.bar > 0 /\ UNCHANGED <<pci_stage, probes, probe_pc>> /\ MappingCalled
    <3>1. UNCHANGED <<pci_stage, probes, probe_pc>> /\ MappingCalled
      BY DEF PageInWindow
    <3> QED BY <2>0, <3>1
  <2> QED BY <1>3, <2>1 DEF MappingCalled
<1>5. NextPage' = Window
  <2>1. Window' = Window
    BY DEF PageInWindow
  <2> HIDE DEF Window
  <2>2. NextPage' = Window'
    BY <1>3 DEF NextPage
  <2> QED BY <2>1, <2>2
<1>6. v <= Window /\ NextPage = v /\ Window \in Nat /\ Window \in WindowPages
  <2> HIDE DEF Window, NextPage, WindowPages
  <2>1. /\ v = mapping.first + mapping.done /\ Window = mapping.first + pages /\ mapping.done < pages
        /\ pages \in Nat /\ mapping.first \in Nat /\ mapping.done \in Nat
        /\ v = NextPage /\ Window \in WindowPages
    BY DEF PageInWindow
  <2> QED BY <2>1
<1>7. InLargePage(Window) => ppool' = BootFree
  BY <1>6 DEF PageInWindow
<1>8. (InLargePage(NextPage) => ppool = BootFree)'
  BY <1>5, <1>7 DEF InLargePage
<1>9. BarsMapped'
  <2>1. NextPage' \in Nat /\ NextPage <= NextPage' /\ KnownKept(pmem, pmem', NextPage)
    BY <1>5, <1>6 DEF PageInWindow
  <2>2. UNCHANGED <<machine, devices, bars>>
    BY DEF PageInWindow
  <2> QED BY <1>2, <2>1, <2>2, BarsKept
<1>10. UNCHANGED <<machine, calls, mmio_alloc_ptr>> /\ TablesInv(pmem, ppool)'
  BY DEF PageInWindow
<1>11. mmio_alloc_ptr' \in {0} \cup MmioStart .. N * N * N * N - 1
  BY <1>10 DEF WindowsInv
<1> QED BY <1>2, <1>3, <1>4, <1>8, <1>9, <1>10, <1>11 DEF WindowsInv, MappingRecord

\* A page of a window is mapped.
LEMMA WindowsPaged ==
  ASSUME WindowsInv, WindowsFit, ScanInv, BarsInv, calls = <<>>, UNCHANGED pvars, vmm_map_page
  PROVE  WindowsInv'
<1>1. PICK f, b, addr, pages, v, result :
        /\ v \in Nat /\ PageInWindow(f, b, v, addr, pages)
        /\ result = 0 => InLargePage(v) \/ V!Translate(pmem', VA(v)) = addr \div PAGE + mapping.done
        /\ IF result # 0 THEN BarDone(0)
           ELSE IF mapping.done + 1 = mapping.pages
           THEN BarDone(mapping.first * PAGE + (Bar.addr % PAGE))
           ELSE mapping' = [mapping EXCEPT !.done = @ + 1] /\ UNCHANGED bar_virt
  BY WindowPage, Zenon
<1>2. /\ f \in DOMAIN machine /\ f \in Range(devices) /\ b \in 1 .. 6
      /\ bar_virt \in [DOMAIN machine -> [1 .. 6 -> Nat]]
      /\ addr \in Nat /\ pages \in Nat /\ mapping.first \in Nat /\ mapping.done \in Nat
      /\ mapping.done < pages /\ pages = mapping.pages /\ v = mapping.first + mapping.done
      /\ addr = Bar.addr /\ Bar = bars[f][b] /\ Bar.size \in Nat
      /\ UNCHANGED <<machine, devices, bars, calls, nth>>
  BY <1>1 DEF PageInWindow
<1>8. /\ addr \in Nat /\ pages \in Nat /\ mapping.first \in Nat /\ mapping.done \in Nat
      /\ mapping.done < pages /\ pages = mapping.pages /\ v = mapping.first + mapping.done
      /\ v \in Nat
  BY <1>1, <1>2
<1>3. PAGE \in Nat \ {0}
  BY DriversAssumption
\* The pages so far, the one of this step included.
<1>4. ASSUME result = 0, NEW d \in 0 .. mapping.done
      PROVE  InLargePage(mapping.first + d) \/ V!Translate(pmem', VA(mapping.first + d)) = addr \div PAGE + d
  <2>1. CASE d = mapping.done
    BY <1>1, <1>2, <1>4, <2>1
  <2>2. CASE d # mapping.done
    <3>1. PICK w : w = mapping.first + d
      OBVIOUS
    <3>2. Leads_to(w, addr \div PAGE + d)
      <4>1. d \in 0 .. mapping.done - 1
        BY <1>8, <1>4, <2>2
      <4>2. \A g \in 0 .. mapping.done - 1 : Leads_to(mapping.first + g, Bar.addr \div PAGE + g)
        BY <1>1, Zenon DEF PageInWindow, WindowTrue
      <4> QED BY <1>2, <3>1, <4>1, <4>2, Zenon
    <3>3. w \in MmioStart .. (v - 1)
      <4>1. MmioStart <= mapping.first /\ MmioStart \in Nat
        BY <1>1 DEF PageInWindow
      <4> HIDE DEF MmioStart
      <4> QED BY <1>8, <1>4, <2>2, <3>1, <4>1
    <3>4. V!Translate(pmem', VA(w)) = V!Translate(pmem, VA(w))
      BY <1>1, <3>3 DEF PageInWindow, KnownKept
    <3> QED BY <3>1, <3>2, <3>4 DEF Leads_to
  <2> QED BY <2>1, <2>2
\* It could not be had.
<1>5. CASE result # 0
  <2>1. BarDone(0)
    BY <1>1, <1>5
  <2>2. bar_virt'[f][b] = 0
    BY <1>2, <2>1, <1>1 DEF BarDone, PageInWindow
  <2>3. <<f, b>> \notin Mapped'
    BY <2>2 DEF Mapped
  <2> QED BY <1>1, <2>1, <2>3, NextBar
\* It was the last.
<1>6. CASE result = 0 /\ mapping.done + 1 = mapping.pages
  <2> DEFINE o == addr % PAGE
  <2>1. PICK virt : virt = mapping.first * PAGE + o
    OBVIOUS
  <2>2. BarDone(virt)
    BY <1>1, <1>2, <1>6, <2>1, Zenon
  <2>3. virt \in Nat /\ virt \div PAGE = mapping.first
    <3>1. o \in Nat /\ o < PAGE
      BY <1>2, <1>3, DivMod, Zenon
    <3> HIDE DEF o
    <3>2. PICK g \in Nat : g = mapping.first
      BY <1>2, Zenon
    <3>3. (g * PAGE + o) \div PAGE = g + (o \div PAGE)
      BY <1>3, <3>1, DivPlus, Zenon
    <3>4. o \div PAGE = 0
      <4>1. o \div PAGE \in Nat /\ o < 1 * PAGE
        BY <1>3, <3>1, DivMod
      <4>2. o \div PAGE < 1
        BY <1>3, <3>1, <4>1, DivBelow
      <4> QED BY <4>1, <4>2
    <3>5. g * PAGE \in Nat
      BY <1>3, SMTT(30)
    <3>6. virt = g * PAGE + o
      BY <2>1, <3>2
    <3>7. virt \in Nat
      <4> DEFINE z == g * PAGE
      <4> HIDE DEF z
      <4>1. z \in Nat /\ virt = z + o
        BY <3>5, <3>6 DEF z
      <4> QED BY <3>1, <4>1
    <3>8. virt \div PAGE = g + 0
      BY <3>3, <3>4, <3>6
    <3> QED BY <3>2, <3>7, <3>8
  <2> HIDE DEF o
  <2>4. ASSUME <<f, b>> \in Mapped'
        PROVE  BarMapped(f, b)'
    <3>1. b - 1 \in Bars(f)
      BY <1>2, <2>4 DEF Mapped, Bars, Upper
    <3>2. PICK unit : unit = machine[f].hw.unit[b - 1]
      OBVIOUS
    <3>3. bars[f][b].size > 0 /\ ~bars[f][b].io
      <4>1. IsMemory
        BY <1>1, Zenon DEF PageInWindow, WindowTrue
      <4> QED BY <1>2, <4>1 DEF IsMemory
    <3>4. PICK size \in Nat : size = bars[f][b].size
      BY <1>2, Zenon
    <3>5. unit \in Nat \ {0} /\ size >= unit
      BY <1>2, <3>1, <3>2, <3>3, <3>4, BarPlaced, Zenon
    <3> DEFINE top == (addr + unit - 1) \div PAGE - addr \div PAGE
    <3>6. top < pages /\ top \in Int
      <4>1. LET g == AlignUp(size + (addr % PAGE), PAGE) \div PAGE
            IN  g \in Nat /\ (addr + unit - 1) \div PAGE - addr \div PAGE < g
        BY <1>2, <3>5, WindowCovers, Zenon
      <4>2. pages = AlignUp(size + (addr % PAGE), PAGE) \div PAGE
        <5>1. mapping.pages = AlignUp(Bar.size + (Bar.addr % PAGE), PAGE) \div PAGE
          BY <1>1, Zenon DEF PageInWindow, WindowTrue
        <5> QED BY <1>2, <3>4, <5>1
      <4>3. top \in Int
        <5>1. addr + unit - 1 \in Nat
          BY <1>8, <3>5
        <5>2. (addr + unit - 1) \div PAGE \in Nat /\ addr \div PAGE \in Nat
          <6> DEFINE x == addr + unit - 1
          <6> HIDE DEF x
          <6>1. x \div PAGE \in Nat /\ addr \div PAGE \in Nat
            BY <1>2, <1>3, <5>1, DivMod, Zenon DEF x
          <6> QED BY <6>1 DEF x
        <5> QED BY <5>2
      <4> QED BY <4>1, <4>2, <4>3
    <3>7. PagesOf(f, b)' = 0 .. top
      BY <1>2, <3>2 DEF PagesOf
    <3> HIDE DEF top
    <3>8. ASSUME NEW p \in 0 .. top
          PROVE  /\ mapping.first + p \in MmioStart .. (NextPage' - 1)
                 /\ InLargePage(mapping.first + p)
                      \/ V!Translate(pmem', VA(mapping.first + p)) = addr \div PAGE + p
      <4>1. p \in 0 .. mapping.done /\ p < pages
        BY <1>8, <1>6, <3>6
      <4>2. NextPage' = mapping.first + pages
        <5>1. mapping'.pages = 0
          BY <2>2 DEF BarDone, NotCalled
        <5>2. ~(mapping'.pages > 0)
          BY <5>1
        <5> QED BY <1>1, <5>2, Zenon DEF NextPage, PageInWindow
      <4>3. MmioStart <= mapping.first /\ MmioStart \in Nat
        BY <1>1 DEF PageInWindow
      <4> HIDE DEF MmioStart, NextPage
      <4>4. mapping.first + p \in MmioStart .. (NextPage' - 1)
        BY <1>8, <4>1, <4>2, <4>3
      <4> QED BY <1>4, <1>6, <4>1, <4>4
    <3>9. bar_virt'[f][b] = virt
      BY <1>1, <1>2, <2>2, <2>3, Zenon DEF BarDone, PageInWindow
    <3>10. ASSUME NEW p \in 0 .. top
           PROVE  /\ PageOfBar(f, b, p)' = mapping.first + p
                  /\ (bars[f][b].addr \div PAGE + p)' = addr \div PAGE + p
      BY <1>2, <2>3, <3>9, Zenon DEF PageOfBar
    <3> QED BY <3>7, <3>8, <3>10 DEF BarMapped, Leads_to
  <2> QED BY <1>1, <2>2, <2>3, <2>4, NextBar
\* There are more.
<1>7. CASE result = 0 /\ mapping.done + 1 # mapping.pages
  <2>1. mapping' = [mapping EXCEPT !.done = @ + 1] /\ bar_virt' = bar_virt
    BY <1>1, <1>7
  <2>2. /\ mapping'.first = mapping.first /\ mapping'.pages = pages /\ mapping'.bar = b
        /\ mapping'.done = mapping.done + 1 /\ mapping'.done < pages /\ mapping' \in MappingRecord
        /\ mapping'.done \in Nat /\ mapping'.pages > 0
    <3>1. mapping \in MappingRecord /\ b = mapping.bar
      BY <1>1 DEF PageInWindow
    <3>2. mapping.done + 1 < pages
      BY <1>8, <1>7
    <3> QED BY <1>8, <2>1, <3>1, <3>2 DEF MappingRecord
  <2>3. NextPage' = v + 1
    <3>1. NextPage' = mapping'.first + mapping'.done
      BY <2>2 DEF NextPage
    <3> HIDE DEF NextPage
    <3> QED BY <1>8, <2>2, <3>1
  <2>4. MappingCalled'
    <3>1. UNCHANGED <<pci_stage, probes, probe_pc>> /\ MappingCalled /\ b = mapping.bar
      BY <1>1 DEF PageInWindow
    <3>2. mapping'.pages # 0
      BY <1>2, <2>2
    <3> QED BY <2>2, <3>1, <3>2 DEF MappingCalled
  <2>5. WindowTrue'
    <3>1. Cur' = f /\ Bar' = Bar
      BY <1>1, <1>2, <2>2 DEF Cur, Bar, PageInWindow
    <3>2. WindowTrue /\ Window' = Window /\ b = mapping.bar /\ f = Cur /\ bar_virt[f][b] = 0
      BY <1>1 DEF PageInWindow
    <3>3. \A d \in 0 .. mapping'.done - 1 :
            InLargePage(mapping.first + d) \/ V!Translate(pmem', VA(mapping.first + d)) = addr \div PAGE + d
      <4>1. 0 .. mapping'.done - 1 = 0 .. mapping.done
        BY <1>2, <2>2
      <4> QED BY <1>4, <1>7, <4>1, Zenon
    <3>4. (\A d \in 0 .. mapping.done - 1 : Leads_to(mapping.first + d, Bar.addr \div PAGE + d))'
      BY <1>2, <2>2, <3>1, <3>3, Zenon DEF Leads_to
    <3>5. IsMemory' /\ bar_virt'[Cur'][mapping'.bar] = 0
      <4>1. IsMemory
        BY <3>2 DEF WindowTrue
      <4> QED BY <2>1, <2>2, <3>1, <3>2, <4>1 DEF IsMemory
    <3>6. /\ calls' = <<>> /\ nth' \in DOMAIN devices' /\ mapping'.bar \in 1 .. 6
          /\ mapping'.first \in MmioStart .. N * N * N * N - 1
          /\ Window' = mapping'.first + mapping'.pages
          /\ mapping'.pages = AlignUp(Bar'.size + (Bar'.addr % PAGE), PAGE) \div PAGE
      <4> HIDE DEF Bar, Window
      <4> QED BY <1>2, <2>2, <3>1, <3>2, Zenon DEF WindowTrue
    <3>7. mapping'.done < mapping'.pages
      BY <2>2
    <3> QED BY <3>4, <3>5, <3>6, <3>7 DEF WindowTrue
  <2>6. (InLargePage(NextPage) => ppool = BootFree)'
    <3>1. v + 1 \in WindowPages
      <4>1. v \in WindowPages /\ Window \in WindowPages /\ Window = mapping.first + pages
        BY <1>1 DEF PageInWindow
      <4>2. v + 1 <= Window /\ v \in Nat
        BY <1>8, <2>2, <4>1
      <4> DEFINE lo == ((N - 1) * N + N - 2) * N * N
                 all == N * N * N * N
      <4>3. lo \in Int /\ all \in Int
        <5>1. N \in Nat
          BY DriversAssumption
        <5>2. lo \in Int
          BY <5>1, SMTT(30)
        <5>3. all \in Int
          BY <5>1, SMTT(30)
        <5> QED BY <5>2, <5>3
      <4>4. WindowPages = lo .. all - 1
        BY DEF WindowPages
      <4> HIDE DEF WindowPages, lo, all, Window
      <4> QED BY <4>1, <4>2, <4>3, <4>4
    <3>2. InLargePage(v + 1) => ppool' = BootFree
      <4>1. v <= v + 1
        BY <1>8
      <4> HIDE DEF InLargePage, WindowPages
      <4> QED BY <1>1, <3>1, <4>1 DEF PageInWindow
    <3> QED BY <2>3, <3>2 DEF InLargePage
  <2>7. BarsMapped'
    <3>1. NextPage' \in Nat /\ NextPage <= NextPage' /\ KnownKept(pmem, pmem', NextPage)
      <4>1. NextPage = v
        BY <1>1 DEF PageInWindow
      <4>2. KnownKept(pmem, pmem', v)
        BY <1>1 DEF PageInWindow
      <4> HIDE DEF NextPage
      <4>3. NextPage' \in Nat /\ NextPage <= NextPage'
        BY <1>8, <2>3, <4>1
      <4> QED BY <4>1, <4>2, <4>3
    <3>2. <<f, b>> \notin Mapped'
      BY <1>1, <2>1, Zenon DEF Mapped, PageInWindow
    <3> QED BY <1>2, <2>1, <3>1, <3>2, BarsKept
  <2>8. /\ UNCHANGED <<machine, calls, mmio_alloc_ptr>> /\ TablesInv(pmem, ppool)'
        /\ calls' = <<>>
    BY <1>1 DEF PageInWindow
  <2>9. mmio_alloc_ptr' \in {0} \cup MmioStart .. N * N * N * N - 1
    BY <2>8 DEF WindowsInv
  <2> QED BY <1>2, <2>1, <2>2, <2>4, <2>5, <2>6, <2>7, <2>8, <2>9 DEF WindowsInv, MappingRecord
<1> QED BY <1>5, <1>6, <1>7

\* The tables of boot.asm, as they are made.
LEMMA TablesFirst == TablesInv(V!setup_page_tables, BootFree)
<1> DEFINE m == V!setup_page_tables
           R == pml4_phys
           L == V!pdpt_low
           K == V!pdpt_kern
           D == V!pd_kern_0
           root == [V!ZeroTable EXCEPT ![0] = V!Small(L), ![N \div 2] = V!Small(L), ![N - 1] = V!Small(K)]
           low == [i \in V!Index |-> IF i < LOW_PDS THEN V!Small(V!pd_low(i)) ELSE V!Absent]
           kern == [V!ZeroTable EXCEPT ![N - 2] = V!Small(D)]
           lows == V!pd_low(0) .. V!pd_low(LOW_PDS - 1)
           Entries == [V!Index -> V!Entry]
<1>1. /\ N \in Nat /\ N > 2 /\ LOW_PDS \in 1 .. N /\ KERNEL_MAP \in 1 .. N /\ KERNEL_PHYS_BASE \in Nat
      /\ R \in Nat /\ V!Index = 0 .. N - 1 /\ N \div 2 \in 1 .. N - 2
  BY DriversAssumption DEF V!Index
<1>2. /\ R \in Frames /\ L \in Frames /\ K \in Frames /\ D \in Frames
      /\ L # R /\ K # R /\ D # R /\ K # L /\ D # L /\ K # D
      /\ L \in Nat /\ K \in Nat /\ D \in Nat
      /\ R \notin lows /\ L \notin lows /\ K \notin lows /\ D \notin lows
  <2>1. R \in BootFrames /\ L \in BootFrames /\ K \in BootFrames /\ D \in BootFrames /\ BootFrames \subseteq Frames
    BY BootPlaces
  <2>2. L = R + 1 /\ K = R + 2 + LOW_PDS /\ D = R + 3 + LOW_PDS /\ lows = R + 2 + 0 .. R + 2 + (LOW_PDS - 1)
    BY DEF V!pdpt_low, V!pdpt_kern, V!pd_kern_0, V!pd_low
  <2> HIDE DEF L, K, D, R, lows
  <2> QED BY <1>1, <2>1, <2>2
<1>3. \A k \in 0 .. LOW_PDS - 1 :
        /\ V!pd_low(k) \in Frames /\ V!pd_low(k) \in lows /\ V!pd_low(k) - V!pd_low(0) = k /\ V!pd_low(k) \in Nat
  <2> SUFFICES ASSUME NEW k \in 0 .. LOW_PDS - 1
               PROVE  /\ V!pd_low(k) \in Frames /\ V!pd_low(k) \in lows
                      /\ V!pd_low(k) - V!pd_low(0) = k /\ V!pd_low(k) \in Nat
    OBVIOUS
  <2>1. V!pd_low(k) \in Frames
    BY BootPlaces, Zenon
  <2>2. V!pd_low(k) = R + 2 + k /\ V!pd_low(0) = R + 2 + 0 /\ V!pd_low(LOW_PDS - 1) = R + 2 + (LOW_PDS - 1)
    BY DEF V!pd_low
  <2> QED BY <1>1, <2>1, <2>2
<1>4. \A f \in lows : f - V!pd_low(0) \in 0 .. LOW_PDS - 1
  <2>1. V!pd_low(0) = R + 2 + 0 /\ V!pd_low(LOW_PDS - 1) = R + 2 + (LOW_PDS - 1)
    BY DEF V!pd_low
  <2> QED BY <1>1, <2>1
<1>5. /\ m[R] = root /\ m[L] = low /\ m[K] = kern /\ m[D] = V!fill_kern
      /\ \A k \in 0 .. LOW_PDS - 1 : m[V!pd_low(k)] = V!fill_pd(k)
      /\ \A f \in Frames : m[f] \in {root, low, kern, V!fill_kern, V!ZeroTable}
                                      \cup {V!fill_pd(k) : k \in 0 .. LOW_PDS - 1}
      /\ DOMAIN m = Frames
  <2> HIDE DEF root, low, kern, lows, R, L, K, D
  <2>1. m = [f \in Frames |-> CASE f = R -> root [] f = L -> low [] f \in lows -> V!fill_pd(f - V!pd_low(0))
                                [] f = K -> kern [] f = D -> V!fill_kern [] OTHER -> V!ZeroTable]
    BY DEF V!setup_page_tables, root, low, kern, lows, R, L, K, D
  <2> HIDE DEF m
  <2>2. m[R] = root /\ m[L] = low /\ m[K] = kern /\ m[D] = V!fill_kern /\ DOMAIN m = Frames
    BY <1>2, <2>1
  <2>3. ASSUME NEW k \in 0 .. LOW_PDS - 1
        PROVE  m[V!pd_low(k)] = V!fill_pd(k)
    <3> DEFINE f == V!pd_low(k)
    <3>1. f \in Frames /\ f \in lows /\ f - V!pd_low(0) = k
      BY <1>3
    <3> HIDE DEF f
    <3>2. f # R /\ f # L /\ f # K /\ f # D
      BY <1>2, <3>1
    <3>3. m[f] = V!fill_pd(f - V!pd_low(0))
      BY <2>1, <3>1, <3>2
    <3> QED BY <3>1, <3>3 DEF f
  <2>4. ASSUME NEW f \in Frames
        PROVE  m[f] \in {root, low, kern, V!fill_kern, V!ZeroTable} \cup {V!fill_pd(k) : k \in 0 .. LOW_PDS - 1}
    <3>1. CASE f \in lows
      <4>1. PICK k \in 0 .. LOW_PDS - 1 : k = f - V!pd_low(0)
        BY <1>4, <3>1
      <4>2. f # R /\ f # L /\ f # K /\ f # D
        BY <1>2, <3>1
      <4>3. m[f] = V!fill_pd(k)
        BY <2>1, <3>1, <4>1, <4>2
      <4> QED BY <4>3
    <3>2. CASE f \notin lows
      BY <2>1, <3>2
    <3> QED BY <3>1, <3>2
  <2> QED BY <2>2, <2>3, <2>4
<1>6. root \in Entries /\ low \in Entries /\ kern \in Entries /\ V!ZeroTable \in Entries /\ V!fill_kern \in Entries
  <2>1. V!Small(L) \in V!Entry /\ V!Small(K) \in V!Entry /\ V!Small(D) \in V!Entry /\ V!ZeroTable \in Entries
    BY <1>2, EntryKinds4
  <2>2. \A i \in V!Index : (IF i < LOW_PDS THEN V!Small(V!pd_low(i)) ELSE V!Absent) \in V!Entry
    <3>1. \A i \in V!Index : i < LOW_PDS => V!pd_low(i) \in Nat
      BY <1>1, <1>3
    <3> QED BY <3>1, EntryKinds4
  <2>3. \A i \in V!Index : (IF i < KERNEL_MAP THEN V!Large(KERNEL_PHYS_BASE + i * N) ELSE V!Absent) \in V!Entry
    <3>1. ASSUME NEW i \in V!Index
          PROVE  KERNEL_PHYS_BASE + i * N \in Nat
      <4>1. i \in Nat
        BY <1>1
      <4>2. i * N \in Nat
        BY <1>1, <4>1, SMTT(30)
      <4> QED BY <1>1, <4>2
    <3> QED BY <3>1, EntryKinds4
  <2> HIDE DEF L, K, D
  <2> QED BY <2>1, <2>2, <2>3, Zenon DEF V!fill_kern
<1>7. \A k \in 0 .. LOW_PDS - 1 : V!fill_pd(k) \in Entries
  <2> SUFFICES ASSUME NEW k \in 0 .. LOW_PDS - 1, NEW i \in V!Index
               PROVE  V!Large((k * N + i) * N) \in V!Entry
    BY DEF V!fill_pd
  <2>1. k \in Nat /\ i \in Nat
    BY <1>1
  <2>2. k * N + i \in Nat
    BY <1>1, <2>1, SMTT(30)
  <2> DEFINE x == k * N + i
  <2>3. x * N \in Nat
    <3> HIDE DEF x
    <3> QED BY <1>1, <2>2, SMTT(30) DEF x
  <2> QED BY <2>3, EntryKinds4
<1>8. m \in [Frames -> Entries]
  <2>1. m = [f \in Frames |-> m[f]]
    BY DEF V!setup_page_tables
  <2>2. \A f \in Frames : m[f] \in Entries
    <3> HIDE DEF m, root, low, kern, Entries
    <3> QED BY <1>5, <1>6, <1>7
  <2> HIDE DEF m, Entries
  <2> QED BY <2>1, <2>2
<1> DEFINE half == N \div 2
<1>9. BootTables(m)
  <2>1. root[N - 1] = V!Small(K) /\ root[half] = V!Small(L)
    <3> DEFINE e == V!Small(K)
               g == V!Small(L)
    <3> HIDE DEF half, e, g
    <3>1. V!ZeroTable \in Entries /\ half \in 1 .. N - 2
      BY <1>1, <1>6 DEF half
    <3>2. root = [V!ZeroTable EXCEPT ![0] = g, ![half] = g, ![N - 1] = e]
      BY DEF e, g, half
    <3> HIDE DEF root
    <3>3. root[N - 1] = e /\ root[half] = g
      BY <1>1, <3>1, <3>2
    <3> QED BY <3>3 DEF e, g
  <2>2. \A k \in 0 .. LOW_PDS - 1 : low[k] = V!Small(V!pd_low(k))
    <3>1. \A k \in 0 .. LOW_PDS - 1 : k \in V!Index /\ k < LOW_PDS
      BY <1>1
    <3> QED BY <3>1
  <2>3. kern[N - 2] = V!Small(D)
    <3>1. N - 2 \in V!Index /\ V!ZeroTable \in Entries
      BY <1>1, <1>6
    <3> QED BY <3>1
  <2>4. \A i \in 0 .. KERNEL_MAP - 1 : V!fill_kern[i] = V!Large(KERNEL_PHYS_BASE + i * N)
    <3>1. \A i \in 0 .. KERNEL_MAP - 1 : i \in V!Index /\ i < KERNEL_MAP
      BY <1>1
    <3> QED BY <3>1 DEF V!fill_kern
  <2> HIDE DEF m, root, low, kern
  <2> QED BY <1>5, <2>1, <2>2, <2>3, <2>4 DEF BootTables, half
\* No entry for a table of windows is there yet.
<1>10. \A t, i : Slot(m, t, i) => ~m[t][i].present
  <2>1. kern[N - 1] = V!Absent
    <3>1. V!ZeroTable[N - 1] = V!Absent /\ N - 2 # N - 1 /\ V!ZeroTable \in Entries
      <4>1. N - 1 \in V!Index
        BY <1>1
      <4> QED BY <1>1, <1>6, <4>1, EntryKinds4
    <3> QED BY <3>1
  <2>2. \A i \in KERNEL_MAP .. N - 1 : V!fill_kern[i] = V!Absent
    <3>1. \A i \in KERNEL_MAP .. N - 1 : i \in V!Index /\ ~(i < KERNEL_MAP)
      BY <1>1
    <3> QED BY <3>1 DEF V!fill_kern
  <2>3. ~V!Absent.present
    BY EntryKinds4
  <2> HIDE DEF m, kern
  <2> QED BY <1>5, <2>1, <2>2, <2>3 DEF Slot
<1>11. TablesMade(m, BootFree) /\ EnteredOnce(m)
  <2> HIDE DEF m
  <2> QED BY <1>10 DEF TablesMade, EnteredOnce
<1> HIDE DEF m
<1> QED BY <1>8, <1>9, <1>11 DEF TablesInv, m

\* It holds before the scan.
LEMMA WindowsFirst ==
  ASSUME DriversInit, calls # <<>>, devices = <<>>
  PROVE  WindowsInv
<1>1. TablesInv(pmem, ppool)
  BY TablesFirst DEF DriversInit
<1>2. /\ ppool = BootFree /\ mmio_alloc_ptr = 0 /\ mapping = Called /\ pci_stage = "map"
      /\ bar_virt = [f \in DOMAIN machine |-> [b \in 1 .. 6 |-> 0]]
  BY DEF DriversInit
<1>3. /\ mapping \in [bar : 0 .. 7, first : Nat, pages : Nat, done : Nat]
      /\ mapping.pages = 0 /\ mapping.done = 0 /\ ~(mapping.pages > 0)
  BY <1>2 DEF Called, NotCalled
<1>4. MappingCalled
  BY <1>2, <1>3 DEF MappingCalled
<1>5. NothingMapped /\ bar_virt \in [DOMAIN machine -> [1 .. 6 -> Nat]]
  BY <1>2 DEF NothingMapped
<1>6. Mapped = {}
  <2>1. Range(devices) = {}
    BY DEF Range
  <2> QED BY <2>1 DEF Mapped
<1>7. BarsMapped
  BY <1>6 DEF BarsMapped
<1> QED BY <1>1, <1>2, <1>3, <1>4, <1>5, <1>7 DEF WindowsInv

\* Every step of the drivers keeps it.
LEMMA WindowsDrivers ==
  ASSUME WindowsInv, WindowsFit, WindowsFit', ScanInv, BarsInv, ReadInv, calls = <<>>, UNCHANGED pvars,
         DriversNext \/ ide_probe_returns
  PROVE  WindowsInv'
<1>1. CASE pass_bar
  BY <1>1, WindowsDirect
<1>2. CASE map_mmio
  BY <1>2, WindowsTaken
<1>3. CASE vmm_map_page
  BY <1>3, WindowsPaged
<1>4. CASE ~(pass_bar \/ map_mmio \/ vmm_map_page)
  BY <1>4, WindowsQuiet DEF DriversNext
<1> QED BY <1>1, <1>2, <1>3, <1>4

\* Steps of other parts.
LEMMA WindowsKept ==
  ASSUME WindowsInv, UNCHANGED <<pvars, dvars>>
  PROVE  WindowsInv'
<1>1. /\ UNCHANGED <<machine, devices, bars, calls, pmem, ppool, mmio_alloc_ptr, bar_virt, mapping, nth,
                     pci_stage, probes, probe_pc>>
  BY DEF pvars, dvars, memvars, tablevars
<1>2. CASE mapping.pages = 0
  <2>1. mapping' \in [bar : 0 .. 7, first : Nat, pages : Nat, done : Nat] /\ mapping'.pages = 0
    BY <1>1, <1>2 DEF WindowsInv
  <2>2. MappingCalled'
    BY <1>1 DEF WindowsInv, MappingCalled
  <2>3. UNCHANGED <<tablevars, machine, devices, bars>>
    BY <1>1 DEF tablevars
  <2> QED BY <1>1, <1>2, <2>1, <2>2, <2>3, WindowsStay
<1>3. CASE mapping.pages # 0
  <2>1. NextPage' = NextPage /\ Window' = Window /\ Cur' = Cur /\ Bar' = Bar
    BY <1>1 DEF NextPage, Window, Cur, Bar
  <2>2. WindowTrue'
    <3>1. WindowTrue
      BY <1>3 DEF WindowsInv
    <3>2. (\A d \in 0 .. mapping.done - 1 : Leads_to(mapping.first + d, Bar.addr \div PAGE + d))'
      BY <1>1, <2>1, <3>1 DEF WindowTrue, Leads_to
    <3> QED BY <1>1, <2>1, <3>1, <3>2 DEF WindowTrue, IsMemory
  <2>3. BarsMapped'
    <3>1. NextPage' \in Nat /\ NextPage <= NextPage'
      BY <2>1, NextPageKnown
    <3>2. KnownKept(pmem, pmem', NextPage)
      BY <1>1 DEF KnownKept
    <3>3. \A x \in Mapped' : bar_virt'[x[1]][x[2]] = bar_virt[x[1]][x[2]]
      BY <1>1
    <3>4. <<Cur, mapping.bar>> \notin Mapped'
      <4>1. WindowTrue
        BY <1>3 DEF WindowsInv
      <4> QED BY <1>1, <4>1 DEF Mapped, WindowTrue
    <3> DEFINE f == Cur
               b == mapping.bar
    <3> HIDE DEF f, b
    <3>5. <<f, b>> \notin Mapped'
      BY <3>4 DEF f, b
    <3> QED BY <1>1, <3>1, <3>2, <3>3, <3>5, BarsKept
  <2>4. TablesInv(pmem, ppool)' /\ MappingCalled' /\ (calls # <<>> => NothingMapped)'
    BY <1>1 DEF WindowsInv, MappingCalled, NothingMapped
  <2>5. (InLargePage(NextPage) => ppool = BootFree)'
    BY <1>1, <2>1 DEF WindowsInv
  <2> QED BY <1>1, <2>2, <2>3, <2>4, <2>5 DEF WindowsInv
<1> QED BY <1>2, <1>3

\* Windows of BARs lead to the devices when all of their pages do.
LEMMA WindowsReach == WindowsInv => MappedBarsReached
<1> SUFFICES ASSUME WindowsInv, NEW x \in Mapped, ~Misplaced(x[1], x[2])
             PROVE  Reaches(x[1], x[2])
  BY DEF MappedBarsReached
<1>1. BarMapped(x[1], x[2])
  BY DEF WindowsInv, BarsMapped
<1> DEFINE f == x[1]
           b == x[2]
<1> HIDE DEF f, b
<1>2. ASSUME NEW p \in PagesOf(f, b)
      PROVE  V!Translate(pmem, VA(bar_virt[f][b] \div PAGE + p)) = bars[f][b].addr \div PAGE + p
  <2>1. ~InLargePage(bar_virt[f][b] \div PAGE + p)
    BY DEF Misplaced, f, b
  <2>2. Leads_to(bar_virt[f][b] \div PAGE + p, bars[f][b].addr \div PAGE + p)
    BY <1>1 DEF BarMapped, PageOfBar, f, b
  <2> QED BY <2>1, <2>2 DEF Leads_to
<1> QED BY <1>2 DEF Reaches, f, b

----------------------------------------------------------------------------
(* The kernel *)

\* What is known at every moment: every part keeps its own, and a probe relies on
\* what the scan has found.
BootInvariant ==
  /\ BootInfoInv /\ TagsInv /\ MadtInv /\ ProcsInv
  /\ ScanInv /\ BarsInv /\ ReadInv /\ IdentifyInv /\ FileInv

\* What a step of another part leaves alone.
LEMMA PartsKept ==
  ASSUME BootInvariant
  PROVE  /\ UNCHANGED bvars => BootInfoInv' /\ TagsInv'
         /\ UNCHANGED mvars => MadtInv' /\ ProcsInv'
         /\ UNCHANGED pvars => ScanInv' /\ BarsInv'
         /\ UNCHANGED <<pvars, dvars>> => ReadInv'
         /\ UNCHANGED ivars => IdentifyInv'
         /\ UNCHANGED evars => FileInv'
<1> USE DEF BootInvariant
<1>1. UNCHANGED bvars => BootInfoInv'
  BY DEF bvars, BootInfoInv, Acpi
<1>2. UNCHANGED mvars => MadtInv'
  BY DEF mvars, MadtInv, PopulateInside
<1>3. UNCHANGED bvars => TagsInv'
  BY Zenon DEF bvars, TagsInv, Left, TagsOf, Listed_madt, Roomed, UpTo
<1>4. UNCHANGED mvars => ProcsInv'
  BY DEF mvars, ProcsInv, Slots, SlotsMarked, Kept
<1>5. UNCHANGED pvars => ScanInv'
  BY ScanStays DEF pvars
<1>6. UNCHANGED pvars => BarsInv'
  BY Zenon DEF pvars, BarsInv, ProbeOf, Goes_on, Full, Top, Here, Present
<1>7. UNCHANGED <<pvars, dvars>> => ReadInv'
  BY ReadStays DEF pvars, dvars, device_regs, walkvars, ReadInv
<1>8. ASSUME UNCHANGED ivars
      PROVE  IdentifyInv'
  <2>1. AtPlace'
    BY <1>8 DEF ivars, IdentifyInv, AtPlace, Present_at, Sound_drive, Understands, Packet
  <2>2. \A d \in Drives : Answered(d)'
    BY <1>8 DEF ivars, IdentifyInv, Answered, Understands, Packet
  <2>3. \A d \in Past' \ missed' : Identified(d)'
    BY <1>8 DEF ivars, IdentifyInv, Past, Identified, Sound_drive
  <2> QED BY <1>8, <2>1, <2>2, <2>3 DEF ivars, IdentifyInv, Understands, Packet
<1>9. UNCHANGED evars => FileInv'
  BY FileKept
<1> QED BY <1>1, <1>2, <1>3, <1>4, <1>5, <1>6, <1>7, <1>8, <1>9

\* Every step keeps what is known; the steps of one part leave the others alone.
LEMMA BootStep == BootInvariant /\ [Next]_vars => BootInvariant'
<1> SUFFICES ASSUME BootInvariant, [Next]_vars
             PROVE  BootInvariant'
  OBVIOUS
<1>1. CASE BootInfoNext /\ UNCHANGED <<mvars, pvars, dvars, ivars, evars>>
  BY <1>1, BootInfoStep, TagsStep, PartsKept DEF BootInvariant
<1>2. CASE /\ tag_walk = "found" /\ (MadtFound(madt[1]) \/ MadtNext)
           /\ UNCHANGED <<bvars, pvars, dvars, ivars, evars>>
  <2>1. TableReadable(madt[1])
    BY <1>2 DEF BootInvariant, BootInfoInv
  <2>2. MadtInv' /\ ProcsInv'
    BY <1>2, <2>1, MadtStart, MadtStep, ProcsStart, ProcsStep DEF BootInvariant
  <2> QED BY <1>2, <2>2, PartsKept DEF BootInvariant
<1>3. CASE PciNext /\ UNCHANGED <<bvars, mvars, dvars, ivars, evars>>
  <2>1. ScanInv' /\ BarsInv' /\ ReadInv'
    BY <1>3, ScanStep, BarsStep, ReadScan DEF BootInvariant
  <2> QED BY <1>3, <2>1, PartsKept DEF BootInvariant
<1>4. CASE /\ calls = <<>> /\ DriversNext
           /\ UNCHANGED ivars /\ UNCHANGED <<bvars, mvars, pvars, evars>>
  <2>1. ReadInv'
    BY <1>4, ReadStep DEF BootInvariant
  <2> QED BY <1>4, <2>1, PartsKept DEF BootInvariant
<1>5. CASE calls = <<>> /\ ide_probe_returns /\ UNCHANGED <<bvars, mvars, pvars, evars>>
  <2>1. ReadInv'
    BY <1>5, ReadStep DEF BootInvariant
  <2>2. UNCHANGED ivars
    BY <1>5 DEF ide_probe_returns
  <2> QED BY <1>5, <2>1, <2>2, PartsKept DEF BootInvariant
<1>6. CASE ide_probe /\ UNCHANGED <<bvars, mvars, pvars, evars>>
  <2>1. IdentifyInv' /\ UNCHANGED dvars
    BY <1>6, IdentifyStep DEF ide_probe, IdeNext, BootInvariant
  <2> QED BY <1>6, <2>1, PartsKept DEF BootInvariant
<1>7. CASE Ext2Next /\ UNCHANGED <<bvars, mvars, pvars, dvars, ivars>>
  BY <1>7, PartsKept, FileStep DEF BootInvariant
<1>8. CASE Drive
  <2>1. IdentifyInv'
    BY <1>8, IdentifyStep DEF Drive, IdeNext, BootInvariant
  <2> QED BY <1>8, <2>1, PartsKept DEF Drive, BootInvariant
<1>9. CASE UNCHANGED vars
  BY <1>9, PartsKept DEF vars, BootInvariant
<1> QED BY <1>1, <1>2, <1>3, <1>4, <1>5, <1>6, <1>7, <1>8, <1>9 DEF Next, kernel_main

\* Every step keeps what is known of windows, as long as they end before the last
\* page there is.
LEMMA WindowsStep ==
  BootInvariant /\ BootInvariant' /\ WindowsInv /\ WindowsFit /\ WindowsFit' /\ [Next]_vars => WindowsInv'
<1> SUFFICES ASSUME BootInvariant, BootInvariant', WindowsInv, WindowsFit, WindowsFit', [Next]_vars
             PROVE  WindowsInv'
  OBVIOUS
<1>1. CASE PciNext /\ UNCHANGED dvars
  BY <1>1, WindowsScan DEF BootInvariant
<1>2. CASE calls = <<>> /\ (DriversNext \/ ide_probe_returns) /\ UNCHANGED pvars
  BY <1>2, WindowsDrivers DEF BootInvariant
<1>3. CASE UNCHANGED <<pvars, dvars>>
  BY <1>3, WindowsKept
<1>4. \/ PciNext /\ UNCHANGED dvars
      \/ calls = <<>> /\ (DriversNext \/ ide_probe_returns) /\ UNCHANGED pvars
      \/ UNCHANGED <<pvars, dvars>>
  BY DEF Next, kernel_main, Drive, ide_probe, vars
<1> QED BY <1>1, <1>2, <1>3, <1>4

\* It holds on every machine when the boot loader has handed over.
LEMMA BootFirst == Init => BootInvariant
<1> SUFFICES ASSUME Init
             PROVE  BootInvariant
  OBVIOUS
<1>1. PICK S \in Firmware : \E x \in S :
        /\ BootInfoInit(x.block) /\ MadtInit /\ pci_init(x.pci) /\ DriversInit /\ IdeInit(x.ide)
        /\ Ext2Init(x.vol, x.request)
  BY DEF Init
<1>2. PICK x \in S :
        /\ BootInfoInit(x.block) /\ MadtInit /\ pci_init(x.pci) /\ DriversInit /\ IdeInit(x.ide)
        /\ Ext2Init(x.vol, x.request)
  BY <1>1
<1>3. /\ BlockReadable(x.block, x.tables) /\ \A t \in x.tables : TableReadable(t)
      /\ PciMachine(x.pci) /\ IdeMachine(x.ide) /\ Formatted(x.vol) /\ Asks(x.request)
  BY BootAssumption
<1>4. BootInfoInv /\ TagsInv /\ MadtInv /\ ProcsInv
  BY <1>2, <1>3, BootInfoFirst, TagsFirst, MadtFirst, ProcsFirst
<1>5. ScanInv /\ BarsInv
  BY <1>2, <1>3, ScanFirst, BarsFirst
<1>6. ReadInv
  BY <1>2, ReadFirst
<1>7. IdentifyInv
  BY <1>2, <1>3, IdentifyFirst
<1>8. FileInv
  BY <1>2, <1>3, FileFirst
<1> QED BY <1>4, <1>5, <1>6, <1>7, <1>8 DEF BootInvariant

\* What the parts of boot know holds from the first moment on, whatever boot
\* block, tables, PCI functions, drives and volume the machine has.
THEOREM BootKnows == Spec => []BootInvariant
  BY BootFirst, BootStep, PTL DEF Spec

\* The third walk of the MADT (madt_populate) stays inside of it, for any table
\* whose walks without checks end.
THEOREM WalkInside == Spec => []PopulateInside
<1>1. BootInvariant => PopulateInside
  BY DEF BootInvariant, MadtInv
<1> QED BY <1>1, BootKnows, PTL

\* What _start tells the kernel is what the list of tags says, to its end, and the
\* MADT that acpi_find_table returns is listed in the root table that the root
\* pointer's revision chooses, for any block the boot loader may hand over.
THEOREM BootInfoKnown == Spec => []BootInfoTrue
<1>1. BootInvariant => BootInfoTrue
  BY TagsKnown DEF BootInvariant
<1> QED BY <1>1, BootKnows, PTL

\* madt_populate_smp_info registers the enabled processors of the MADT, in order
\* and as many as there is room for, no more than find_smp_cores counted, and
\* smp_build_mp_info spares the boot processor alone the start of an AP, for any
\* table, one with lengths that are not true included.
THEOREM ProcessorsKnown == Spec => []ProcessorsTrue
<1>1. BootInvariant => ProcessorsTrue
  BY ProcsKnown DEF BootInvariant
<1> QED BY <1>1, BootKnows, PTL

\* scan_bus enters every function that can be found in the table once, and all
\* of them unless the table is full, for any bridges, also such that lead to
\* each other's buses.
THEOREM FoundOnce == Spec => []FunctionsFoundOnce
<1>1. BootInvariant => FunctionsFoundOnce
  BY ScanFinds DEF BootInvariant
<1> QED BY <1>1, BootKnows, PTL

\* pci_probe_bar leaves the registers of every function as firmware set them and
\* finds the address, and of a BAR with 64 bits the size.
THEOREM BarsRestored == Spec => []BarsTrue
<1>1. BootInvariant => BarsTrue
  BY BarsKnown DEF BootInvariant
<1> QED BY <1>1, BootKnows, PTL

\* A card whose registers probe_168c_002e reads decodes its memory, and is awake
\* if one of the capabilities it may look at is the power capability.
THEOREM RegistersAnswer == Spec => []ReadsAnswered
<1>1. BootInvariant => ReadsAnswered
  BY DEF BootInvariant, ReadInv, ReadsAnswered, Decodes, Woken
<1> QED BY <1>1, BootKnows, PTL

\* What ide_identify takes for a drive's identification is that drive's, and a
\* sound drive that answered in time is identified, whenever the drives answer.
THEOREM SoundDrivesIdentified == Spec => []DrivesIdentified
<1>1. BootInvariant => DrivesIdentified
  BY IdentifyTrue DEF BootInvariant
<1> QED BY <1>1, BootKnows, PTL

\* ext2_file_read copies the bytes of the file that the path names, each from its
\* place and to its place, as many as are asked for and can be had, and no file
\* is missed but for a read that failed or an unused directory entry, on any
\* formatted volume.
THEOREM FileFound == Spec => []FileReadTrue
<1>1. BootInvariant => FileReadTrue
  BY FileKnown DEF BootInvariant
<1> QED BY <1>1, BootKnows, PTL

\* block_read is asked for no sector outside the partition, which it does not
\* look at itself, on any formatted volume.
THEOREM ReadsInVolume == Spec => []SectorsInside
<1>1. BootInvariant => SectorsInside
  BY FileKnown DEF BootInvariant
<1> QED BY <1>1, BootKnows, PTL

\* Every BAR that has an address is reached there whole, if its window has no page in
\* a large page of the kernel's: whichever windows pci_map_device_bars took before and
\* after, which of them could be mapped in part only, and how often drivers asked for
\* the mapping again, on any machine whose windows end before the last page there is.
THEOREM BarsReached == Spec /\ []WindowsFit => []MappedBarsReached
<1>1. Init => WindowsInv
  <2>1. Init => DriversInit /\ calls # <<>> /\ devices = <<>>
    BY DEF Init, pci_init
  <2> QED BY <2>1, WindowsFirst
<1> QED BY <1>1, BootKnows, WindowsStep, WindowsReach, PTL DEF Spec
=============================================================================
