-------------------------------- MODULE Madt --------------------------------
(***************************************************************************)
(* The three walks of the MADT and the tables of processors they fill      *)
(* (src/drivers/acpi.c: madt_init, find_smp_cores, madt_populate_smp_info, *)
(* smp_build_mp_info).                                                     *)
(*                                                                         *)
(* The firmware's table is what it is in memory: bytes, of which the first *)
(* size belong to its entries.  An entry starts with its type and its      *)
(* length.  Only the third walk checks lengths.                            *)
(***************************************************************************)
EXTENDS Integers, Sequences, FiniteSetsExt

CONSTANTS
  LAPIC_LEN,      \* length of a processor's entry (8)
  MAX_CPUS,       \* slots of smp_cpus
  BspId           \* what the boot processor's local APIC answers

LAPIC == 0
IOAPIC == 1
ISO == 2
LAPIC_OVERRIDE == 5

TypeAt(t, o) == t.bytes[o + 1]
LenAt(t, o) == t.bytes[o + 2]

\* There are bytes behind the entries, where a walk may read a type and a length.
TableReadable(t) == t.size \in Nat /\ t.bytes \in Seq(Nat) /\ t.size + 2 <= Len(t.bytes)

\* The offsets an unchecked walk comes to.
Visited(t) ==
  LET from[o \in Nat] ==
        {o} \cup IF o < t.size /\ LenAt(t, o) # 0 THEN from[o + LenAt(t, o)] ELSE {}
  IN  from[0]

\* The walks without checks end: no entry they come to has length zero.
WalksEnd(t) == \A o \in Visited(t) : o < t.size => LenAt(t, o) # 0

ASSUME MadtAssumption == LAPIC_LEN \in Nat /\ LAPIC_LEN > 4 /\ MAX_CPUS \in Nat \ {0} /\ BspId \in Nat

VARIABLES
  table,                \* [bytes, size]: the entries, and the memory behind them
  walk,                 \* which walk is going on
  offset,
  madt_ioapic_vec, madt_iso_vec,    \* offsets of the entries found
  madt_apic_addr,       \* from the header (0), or the overriding entry's offset
  cores,                \* what find_smp_cores counts
  smp_cpus,             \* the processors registered
  mp_info,              \* what each is to do
  touched               \* history: bytes the third walk has read

mvars == <<table, walk, offset, madt_ioapic_vec, madt_iso_vec, madt_apic_addr, cores,
           smp_cpus, mp_info, touched>>

Entry(type) == TypeAt(table, offset) = type

NextOffset(t, o) == o + LenAt(t, o)

Then(w) == walk' = w /\ offset' = 0
Goes == offset' = NextOffset(table, offset) /\ UNCHANGED walk

----------------------------------------------------------------------------
madt_init_entry ==
  /\ walk = "madt_init" /\ offset < table.size
  /\ madt_ioapic_vec' = IF Entry(IOAPIC) THEN Append(madt_ioapic_vec, offset)
                        ELSE madt_ioapic_vec
  /\ madt_iso_vec' = IF Entry(ISO) THEN Append(madt_iso_vec, offset) ELSE madt_iso_vec
  /\ madt_apic_addr' = IF Entry(LAPIC_OVERRIDE) THEN offset ELSE madt_apic_addr
  /\ Goes
  /\ UNCHANGED <<table, cores, smp_cpus, mp_info, touched>>

madt_init_end ==
  /\ walk = "madt_init" /\ offset >= table.size
  /\ Then("find_smp_cores")
  /\ UNCHANGED <<table, madt_ioapic_vec, madt_iso_vec, madt_apic_addr, cores, smp_cpus,
                 mp_info, touched>>

find_smp_cores_entry ==
  /\ walk = "find_smp_cores" /\ offset < table.size
  /\ cores' = IF Entry(LAPIC) THEN cores + 1 ELSE cores
  /\ Goes
  /\ UNCHANGED <<table, madt_ioapic_vec, madt_iso_vec, madt_apic_addr, smp_cpus, mp_info,
                 touched>>

find_smp_cores_end ==
  /\ walk = "find_smp_cores" /\ offset >= table.size
  /\ Then("populate")
  /\ UNCHANGED <<table, madt_ioapic_vec, madt_iso_vec, madt_apic_addr, cores, smp_cpus,
                 mp_info, touched>>

----------------------------------------------------------------------------
\* The entry has a type and a length, and ends inside the table.
EntryInside(t, o) == LenAt(t, o) >= 2 /\ o + LenAt(t, o) <= t.size

\* Mutant: any entry of the type is read as a processor's.
IsProcessorAnyLength(t, o) == TypeAt(t, o) = LAPIC

IsProcessor(t, o) == TypeAt(t, o) = LAPIC /\ LenAt(t, o) >= LAPIC_LEN

Processor(t, o) == [processor_id |-> t.bytes[o + 3], apic_id |-> t.bytes[o + 4],
                    is_bsp |-> FALSE]

\* Mutant: a processor that could be brought online counts as enabled.
CpuEnabledOrCapable(t, o) == t.bytes[o + 5] % 4 # 0

CpuEnabled(t, o) == t.bytes[o + 5] % 2 = 1

\* One entry: a processor that is enabled and finds room is registered.
populate_entry ==
  /\ walk = "populate" /\ offset + 2 <= table.size
  /\ EntryInside(table, offset)
  /\ smp_cpus' = IF /\ IsProcessor(table, offset)
                    /\ CpuEnabled(table, offset)
                    /\ Len(smp_cpus) < MAX_CPUS
                 THEN Append(smp_cpus, Processor(table, offset)) ELSE smp_cpus
  /\ touched' = touched \cup {offset, offset + 1}
                \cup (IF IsProcessor(table, offset)
                      THEN offset + 2 .. offset + LAPIC_LEN - 1 ELSE {})
  /\ Goes
  /\ UNCHANGED <<table, madt_ioapic_vec, madt_iso_vec, madt_apic_addr, cores, mp_info>>

\* The walk ends at the end of the table or at an entry that is not inside it;
\* then the boot processor is marked.
populate_end ==
  /\ walk = "populate"
  /\ offset + 2 <= table.size => ~EntryInside(table, offset)
  /\ touched' = touched \cup (IF offset + 2 <= table.size THEN {offset, offset + 1} ELSE {})
  /\ smp_cpus' = [k \in DOMAIN smp_cpus |->
                    [smp_cpus[k] EXCEPT !.is_bsp = smp_cpus[k].apic_id = BspId]]
  /\ Then("smp_build_mp_info")
  /\ UNCHANGED <<table, madt_ioapic_vec, madt_iso_vec, madt_apic_addr, cores, mp_info>>

smp_build_mp_info ==
  /\ walk = "smp_build_mp_info"
  /\ mp_info' = [k \in DOMAIN smp_cpus |->
                   [lapic_id |-> smp_cpus[k].apic_id,
                    goto |-> IF smp_cpus[k].is_bsp THEN "none" ELSE "smp_cpu_entry"]]
  /\ Then("done")
  /\ UNCHANGED <<table, madt_ioapic_vec, madt_iso_vec, madt_apic_addr, cores, smp_cpus, touched>>

----------------------------------------------------------------------------
MadtInit ==
  /\ table = [bytes |-> <<>>, size |-> 0]
  /\ walk = "off" /\ offset = 0
  /\ madt_ioapic_vec = <<>> /\ madt_iso_vec = <<>> /\ madt_apic_addr = 0
  /\ cores = 0
  /\ smp_cpus = <<>> /\ mp_info = <<>>
  /\ touched = {}

\* acpi_init has found the table.
MadtFound(t) ==
  /\ walk = "off"
  /\ table' = t
  /\ Then("madt_init")
  /\ UNCHANGED <<madt_ioapic_vec, madt_iso_vec, madt_apic_addr, cores, smp_cpus, mp_info, touched>>

MadtNext ==
  \/ madt_init_entry \/ madt_init_end
  \/ find_smp_cores_entry \/ find_smp_cores_end
  \/ populate_entry \/ populate_end
  \/ smp_build_mp_info

----------------------------------------------------------------------------
(* Properties *)

\* The third walk reads no byte outside the table, whatever the lengths in it.
PopulateInside == \A o \in touched : o < table.size

\* The processors that are enabled, in their order from an offset on, to the first
\* entry that is not inside the table.
EnabledFrom(t) ==
  LET from[o \in Nat] ==
        IF o + 2 <= t.size /\ o + LenAt(t, o) \in o + 2 .. t.size
        THEN (IF TypeAt(t, o) = LAPIC /\ LenAt(t, o) >= LAPIC_LEN /\ t.bytes[o + 5] % 2 = 1
              THEN <<o>> ELSE <<>>) \o from[o + LenAt(t, o)]
        ELSE <<>>
  IN  from

\* When the walks are over, the processors registered are the enabled ones of
\* the table up to where it is sound, in order, as many as there is room for;
\* no more than find_smp_cores counted without checks; only the boot processor
\* is spared the start of an AP.
ProcessorsTrue ==
  walk = "done" =>
    LET all == EnabledFrom(table)[0]
        kept == SubSeq(all, 1, Min({Len(all), MAX_CPUS}))
    IN  /\ [k \in DOMAIN smp_cpus |-> <<smp_cpus[k].processor_id, smp_cpus[k].apic_id>>]
             = [k \in DOMAIN kept |-> <<table.bytes[kept[k] + 3], table.bytes[kept[k] + 4]>>]
        /\ Len(smp_cpus) <= cores
        /\ \A k \in DOMAIN mp_info :
             mp_info[k].lapic_id # BspId <=> mp_info[k].goto = "smp_cpu_entry"
=============================================================================
