------------------------------ MODULE BootInfo ------------------------------
(***************************************************************************)
(* What _start (src/entry.c) takes from the boot loader's information      *)
(* block, in four walks over its tags, and the search for the MADT from    *)
(* there (src/drivers/acpi.c: acpi_init, acpi_find_table).                 *)
(*                                                                         *)
(* A tag is its offset in the block.  What lies at an offset is read as a  *)
(* tag wherever a walk comes to, also inside a tag or behind the last.     *)
(***************************************************************************)
EXTENDS Integers, Sequences, FiniteSetsExt

CONSTANT MAX_BOOT_MODULES

ASSUME BootInfoAssumption == MAX_BOOT_MODULES \in Nat

VARIABLES
  block,          \* [total_size, tag]; tag: offset -> [type, size, ...]
  tag_walk,       \* which walk is going on
  tag,            \* the tag it has come to
  boot_info,      \* TitanBootInfo: framebuffer, acpi_ptr, modules, cmdline
  madt            \* what the search found: <<>>, or one table

bvars == <<block, tag_walk, tag, boot_info, madt>>

NULL == 0
HeaderSize == 8

\* The walks in their order, and the types they look for.
Walks == <<"framebuffer", "acpi_ptr", "modules", "cmdline", "acpi_init">>
Wanted == [framebuffer |-> {"framebuffer"}, acpi_ptr |-> {"acpi_old", "acpi_new"},
           modules |-> {"module"}, cmdline |-> {"cmdline"}]
WalkAfter(w) == Walks[1 + CHOOSE k \in 1 .. 4 : Walks[k] = w]

Type(b, o) == b.tag[o].type

\* Mutant: the tag that ends the list is walked over.
TagThereAnyType(b, o) == o + HeaderSize <= b.total_size /\ o + b.tag[o].size <= b.total_size

\* There is a tag at o: its header and all of it lie in the block.
TagThere(b, o) ==
  /\ o + HeaderSize <= b.total_size /\ Type(b, o) # "end"
  /\ o + b.tag[o].size <= b.total_size

NextTag(b, o) == o + ((b.tag[o].size + 7) \div 8) * 8

\* A walk ends with the tag it looks for, but the one for modules, of which it
\* takes as many as there is room for.
Take(w, o) ==
  boot_info' = IF w = "modules"
               THEN IF Len(boot_info.modules) < MAX_BOOT_MODULES
                    THEN [boot_info EXCEPT !.modules = Append(@, o)] ELSE boot_info
               ELSE [boot_info EXCEPT ![w] = o]

WalkDone == tag_walk' = WalkAfter(tag_walk) /\ tag' = HeaderSize
WalkOn == tag' = NextTag(block, tag) /\ UNCHANGED tag_walk

take_tag ==
  /\ tag_walk \in DOMAIN Wanted
  /\ TagThere(block, tag) /\ Type(block, tag) \in Wanted[tag_walk]
  /\ Take(tag_walk, tag)
  /\ IF tag_walk = "modules" THEN WalkOn ELSE WalkDone
  /\ UNCHANGED <<block, madt>>

pass_tag ==
  /\ tag_walk \in DOMAIN Wanted
  /\ TagThere(block, tag) /\ Type(block, tag) \notin Wanted[tag_walk]
  /\ WalkOn
  /\ UNCHANGED <<block, boot_info, madt>>

no_more_tags ==
  /\ tag_walk \in DOMAIN Wanted /\ ~TagThere(block, tag)
  /\ WalkDone
  /\ UNCHANGED <<block, boot_info, madt>>

----------------------------------------------------------------------------
(* An SDT is [len, entries], and has an entry where memory reads as one. *)

SdtHeader == 36

EntryCount(sdt, use_xsdt) ==
  IF sdt.len < SdtHeader THEN 0 ELSE (sdt.len - SdtHeader) \div (IF use_xsdt THEN 8 ELSE 4)

\* The first entry with the signature, if there is one.
acpi_find_table(sdt, use_xsdt, sign) ==
  LET found == {i \in 1 .. EntryCount(sdt, use_xsdt) : sdt.entries[i].sign = sign}
  IN  IF found = {} THEN <<>> ELSE <<sdt.entries[Min(found)].table>>

\* Without a root pointer, or a MADT for madt_init, an assertion stops the kernel.
acpi_init ==
  /\ tag_walk = "acpi_init"
  /\ IF boot_info.acpi_ptr = NULL THEN UNCHANGED madt
     ELSE \E rsdp \in {block.tag[boot_info.acpi_ptr].rsdp} :
            madt' = acpi_find_table(IF rsdp.rev = 2 THEN rsdp.xsdt ELSE rsdp.rsdt,
                                    rsdp.rev = 2, "APIC")
  /\ tag_walk' = IF madt' = <<>> THEN "stopped" ELSE "found"
  /\ UNCHANGED <<block, tag, boot_info>>

\* A block is memory: an offset of 8 bytes in it reads as a tag, and a root
\* pointer leads to tables.
BlockReadable(b, tables) ==
  /\ b.total_size \in Nat
  /\ \A n \in 1 .. b.total_size \div 8 - 1 : 8 * n \in DOMAIN b.tag
  /\ \A o \in DOMAIN b.tag :
       /\ b.tag[o].size \in Nat \ {0}
       /\ Type(b, o) \in Wanted.acpi_ptr =>
            \A x \in BOOLEAN :
              LET sdt == IF x THEN b.tag[o].rsdp.xsdt ELSE b.tag[o].rsdp.rsdt
              IN  /\ sdt.len \in Nat /\ 1 .. EntryCount(sdt, x) \subseteq DOMAIN sdt.entries
                  /\ \A i \in 1 .. EntryCount(sdt, x) : sdt.entries[i].table \in tables

BootInfoInit(b) ==
  /\ block = b
  /\ tag_walk = "framebuffer" /\ tag = HeaderSize
  /\ boot_info = [framebuffer |-> NULL, acpi_ptr |-> NULL, modules |-> <<>>, cmdline |-> NULL]
  /\ madt = <<>>

BootInfoNext == take_tag \/ pass_tag \/ no_more_tags \/ acpi_init

----------------------------------------------------------------------------
(* Properties *)

\* The tags that a walk wants, in their order from an offset on, to the first that
\* ends the list or is not inside the block.
TagsFrom(b, w) ==
  LET from[o \in Nat] ==
        IF /\ o \in DOMAIN b.tag /\ o + HeaderSize <= b.total_size
           /\ Type(b, o) # "end" /\ o + b.tag[o].size <= b.total_size
        THEN (IF Type(b, o) \in Wanted[w] THEN <<o>> ELSE <<>>) \o from[NextTag(b, o)]
        ELSE <<>>
  IN  from
TagsOf(w) == TagsFrom(block, w)[HeaderSize]
FirstOf(s) == IF s = <<>> THEN NULL ELSE s[1]

\* What the kernel is told is what the list says: the first frame buffer, root
\* pointer and command line, and the modules in order; never something that
\* only looks like a tag, inside of one or behind the end.  The MADT is of the
\* table that the revision of the root pointer chooses, and an entry within it.
BootInfoTrue ==
  tag_walk \in {"found", "stopped"} =>
    /\ \A w \in {"framebuffer", "acpi_ptr", "cmdline"} : boot_info[w] = FirstOf(TagsOf(w))
    /\ boot_info.modules = SubSeq(TagsOf("modules"), 1,
                                  Min({Len(TagsOf("modules")), MAX_BOOT_MODULES}))
    /\ madt # <<>> =>
         LET rsdp == block.tag[boot_info.acpi_ptr].rsdp
             sdt == IF rsdp.rev = 2 THEN rsdp.xsdt ELSE rsdp.rsdt
         IN  \E i \in DOMAIN sdt.entries :
               /\ sdt.entries[i].sign = "APIC" /\ sdt.entries[i].table = madt[1]
               /\ SdtHeader + i * (IF rsdp.rev = 2 THEN 8 ELSE 4) <= sdt.len
=============================================================================
