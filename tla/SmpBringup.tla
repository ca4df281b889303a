----------------------------- MODULE SmpBringup -----------------------------
(***************************************************************************)
(* Starting the application processors: smp_start_aps on the boot          *)
(* processor (src/drivers/acpi.c) and, on each AP, the trampoline of       *)
(* boot.asm, ap_entry (src/drivers/smp.c) and smp_cpu_entry with the       *)
(* descriptor tables of gdt_init (src/drivers/gdt.c).  Everything runs at  *)
(* once; the processors share smp_started_count and the tables, and signal *)
(* by interprocessor interrupts.                                           *)
(*                                                                         *)
(* INIT puts an AP back to waiting for a SIPI; a SIPI starts a waiting AP  *)
(* and is ignored by any other.  A wait of pit_wait may take any number of *)
(* steps of the APs.  entries is a history variable.                       *)
(*                                                                         *)
(* The trampoline as it is built takes no AP to ap_entry; what it would do *)
(* if it did what its comments say is a second choice of Init, so that the *)
(* rest of the bring-up can be looked at.  Nothing handles an exception of *)
(* an AP before it has the kernel's tables: the processor shuts down, and  *)
(* only an INIT wakes it.                                                  *)
(***************************************************************************)
EXTENDS Integers, Functions

CONSTANTS
  SMP_MAX_CPU_COUNT, \* descriptor tables (8)
  processor_id, \* the number the MADT gives each AP
  NAps,         \* APs listed in TitanBootInfo.smp_cpus, in the order 1 .. NAps
  Unlisted,     \* processors of the machine that the MADT parser left out
  Dead,         \* listed processors that never answer
  X2Aps,        \* processors that firmware left in x2APIC mode, if there is one
  Polls,        \* rounds of the first wait (400)
  Polls2        \* rounds of the wait after the broadcast (200)

Aps == 1 .. NAps
Processors == Aps \cup Unlisted

ASSUME SmpAssumption ==
  /\ NAps \in Nat /\ Polls \in Nat \ {0} /\ Polls2 \in Nat \ {0}
  /\ Unlisted \subseteq Nat \ (0 .. NAps)
  /\ Dead \subseteq Aps /\ X2Aps \subseteq Processors

\* Only MAX_CPUS (1024) bounds the processor ids, not the tables they index, and
\* the boot processor uses table 0 whatever its id is: firmware must number the
\* APs so that they fit.
ASSUME TableAssumption ==
  /\ SMP_MAX_CPU_COUNT \in Nat \ {0}
  /\ processor_id \in [Aps -> 1 .. SMP_MAX_CPU_COUNT - 1]
  /\ IsInjective(processor_id)

\* The trampoline: the table its lgdt loads, its own or what lies at address 0,
\* and the words retf finds on the stack.
Entry64 == "ap_trampoline_64_entry"
Code64 == "0x10"

\* As built: mov and lgdt are encoded for 32-bit code and run in 16-bit mode,
\* where they are mov ax, add and lgdt [bx + si]; and the selector is pushed
\* last, as one word, so that retf takes it for the low half of the address.
Built == [lgdt |-> "address 0", stack |-> <<Code64, Entry64, "0">>]

\* As commented: the table of the trampoline, and a far return to Entry64.
Meant == [lgdt |-> "own", stack |-> <<Entry64, "0", Code64>>]

VARIABLES
  trampoline,           \* what was copied to 0x7000
  x2apic_enabled,       \* the global of the boot processor
  ap,                   \* what each AP is doing
  tss_entry,            \* the descriptor of the task state in each table
  smp_started_count,
  pc, i,                \* where smp_start_aps is, and at which AP
  before,               \* its local before, then before2
  waits,                \* rounds of the current wait
  entries               \* how often each processor entered ap_entry

given == <<trampoline, x2apic_enabled>>

vars == <<ap, tss_entry, smp_started_count, pc, i, before, waits, entries, given>>

\* waiting for SIPI, in the three modes of the trampoline, in ap_entry before and
\* in gdt_init, in smp_cpu_entry, in its gdt_init and its loop, halted for want of
\* an mp_info entry, stopped by a fault of ltr, or shut down by any other.
ApStates == {"waiting", "real", "protected", "long", "shutdown", "entry", "entry_gdt", "called", "called_gdt",
             "running", "halted", "faulted"}

----------------------------------------------------------------------------
(* The processors *)

INIT(a) == ap' = [ap EXCEPT ![a] = "waiting"]

Startable(a) == ap[a] = "waiting" /\ a \notin Dead

SIPI(as) == ap' = [a \in Processors |->
                     IF a \in as /\ Startable(a) THEN "real" ELSE ap[a]]

Goes(a, at, next) ==
  /\ ap[a] = at
  /\ ap' = [ap EXCEPT ![a] = next]
  /\ UNCHANGED <<tss_entry, smp_started_count, pc, i, before, waits, entries, given>>

\* The far jump to the 32-bit code, through the table that lgdt loaded: what lies
\* at address 0 may happen to hold segments that do.
far_jump(a) ==
  \E next \in {"protected"} \cup (IF trampoline.lgdt = "own" THEN {} ELSE {"shutdown"}) :
    Goes(a, "real", next)

\* retf takes two words of address, then one of selector, from the stack; the
\* null selector faults.
retf(a) ==
  Goes(a, "protected",
    IF trampoline.stack = <<Entry64, "0", Code64>> THEN "long" ELSE "shutdown")

\* apic_get_id goes by the boot processor's x2apic_enabled: rdmsr of the id faults
\* on a processor that is not itself in x2APIC mode, and INIT changes no mode.
HasId(a) == x2apic_enabled => a \in X2Aps

apic_get_id_faults(a) == ~HasId(a) /\ Goes(a, "long", "shutdown")

\* The atomic increment at the head of ap_entry, after apic_get_id.
Count(a) == smp_started_count + 1

ap_entry(a) ==
  /\ ap[a] = "long" /\ HasId(a)
  /\ ap' = [ap EXCEPT ![a] = "entry"]
  /\ smp_started_count' = Count(a)
  /\ entries' = [entries EXCEPT ![a] = @ + 1]
  /\ UNCHANGED <<tss_entry, pc, i, before, waits, given>>

\* The trampoline chooses a stack by the id it reads in memory, which answers
\* only in xAPIC mode; otherwise the AP has any stack, and may be lost on it.
lost(a) ==
  /\ x2apic_enabled /\ a \in X2Aps
  /\ ap[a] \in {"long", "entry", "entry_gdt", "called", "called_gdt", "running", "halted"}
  /\ Goes(a, ap[a], "shutdown")

\* Mutant: a descriptor that is there is not written again.
AvailableOnce(d) == IF d = "none" THEN "available" ELSE d

\* The flags written to a descriptor.
Available(d) == "available"

\* gdt_init fills the table of the processor, up to lgdt.
gdt_init(a, at, next) ==
  /\ ap[a] = at
  /\ tss_entry' = [tss_entry EXCEPT ![processor_id[a]] = Available(@)]
  /\ ap' = [ap EXCEPT ![a] = next]
  /\ UNCHANGED <<smp_started_count, pc, i, before, waits, entries, given>>

\* The tables of an AP are filled in ap_entry, if it has an entry in mp_info, and
\* again in smp_cpu_entry, which ap_entry calls.
ap_entry_found(a) == a \in Aps /\ gdt_init(a, "entry", "entry_gdt")
smp_cpu_entry(a) == a \in Aps /\ gdt_init(a, "called", "called_gdt")

\* lgdt and ltr, which faults unless the task state is available, and marks it
\* busy.
ltr(a) ==
  /\ ap[a] \in {"entry_gdt", "called_gdt"}
  /\ IF tss_entry[processor_id[a]] = "available"
     THEN /\ tss_entry' = [tss_entry EXCEPT ![processor_id[a]] = "busy"]
          /\ ap' = [ap EXCEPT ![a] = IF @ = "entry_gdt" THEN "called" ELSE "running"]
     ELSE ap' = [ap EXCEPT ![a] = "faulted"] /\ UNCHANGED tss_entry
  /\ UNCHANGED <<smp_started_count, pc, i, before, waits, entries, given>>

ap_entry_halts(a) ==
  /\ ap[a] = "entry" /\ a \notin Aps
  /\ ap' = [ap EXCEPT ![a] = "halted"]
  /\ UNCHANGED <<tss_entry, smp_started_count, pc, i, before, waits, entries, given>>

ApStep(a) ==
  \/ far_jump(a) \/ retf(a) \/ apic_get_id_faults(a)
  \/ ap_entry(a) \/ ap_entry_found(a) \/ smp_cpu_entry(a) \/ ltr(a) \/ ap_entry_halts(a)

----------------------------------------------------------------------------
(* smp_start_aps *)

GoTo(label) == pc' = label

\* INIT asserted and deasserted.
send_init ==
  /\ pc = "init" /\ i <= NAps
  /\ INIT(i)
  /\ GoTo("sipi1")
  /\ UNCHANGED <<tss_entry, smp_started_count, i, before, waits, entries, given>>

\* Mutant: the second SIPI goes out after another INIT.
send_sipi_init ==
  /\ pc \in {"sipi1", "sipi2"}
  /\ IF pc = "sipi1" THEN SIPI({i}) ELSE ap' = [ap EXCEPT ![i] = "real"]
  /\ GoTo(IF pc = "sipi1" THEN "sipi2" ELSE "before")
  /\ UNCHANGED <<tss_entry, smp_started_count, i, before, waits, entries, given>>

\* SIPI, sent twice with a wait between; an AP already started ignores it.
send_sipi ==
  /\ pc \in {"sipi1", "sipi2"}
  /\ SIPI({i})
  /\ GoTo(IF pc = "sipi1" THEN "sipi2" ELSE "before")
  /\ UNCHANGED <<tss_entry, smp_started_count, i, before, waits, entries, given>>

\* The count is read after the SIPIs.
read_before ==
  /\ pc = "before"
  /\ before' = smp_started_count
  /\ waits' = 0
  /\ GoTo("poll")
  /\ UNCHANGED <<ap, tss_entry, smp_started_count, i, entries, given>>

Next_ap == GoTo("init") /\ i' = i + 1

poll_started ==
  /\ pc \in {"poll", "poll2"}
  /\ smp_started_count > before
  /\ Next_ap
  /\ UNCHANGED <<ap, tss_entry, smp_started_count, before, waits, entries, given>>

\* Mutant: the rounds of the wait are not counted.
poll_again_uncounted ==
  /\ pc \in {"poll", "poll2"}
  /\ smp_started_count <= before
  /\ UNCHANGED vars

poll_again ==
  /\ pc \in {"poll", "poll2"}
  /\ smp_started_count <= before
  /\ waits + 1 < (IF pc = "poll" THEN Polls ELSE Polls2)
  /\ waits' = waits + 1
  /\ UNCHANGED <<ap, tss_entry, smp_started_count, pc, i, before, entries, given>>

\* The last round of the first wait: a broadcast SIPI is sent.
poll_timeout ==
  /\ pc = "poll"
  /\ smp_started_count <= before
  /\ waits + 1 >= Polls
  /\ SIPI(Processors)
  /\ GoTo("before2")
  /\ UNCHANGED <<tss_entry, smp_started_count, i, before, waits, entries, given>>

read_before2 ==
  /\ pc = "before2"
  /\ before' = smp_started_count
  /\ waits' = 0
  /\ GoTo("poll2")
  /\ UNCHANGED <<ap, tss_entry, smp_started_count, i, entries, given>>

poll2_timeout ==
  /\ pc = "poll2"
  /\ smp_started_count <= before
  /\ waits + 1 >= Polls2
  /\ Next_ap
  /\ UNCHANGED <<ap, tss_entry, smp_started_count, before, waits, entries, given>>

BspStep ==
  \/ send_init \/ send_sipi
  \/ read_before \/ poll_started \/ poll_again \/ poll_timeout
  \/ read_before2 \/ poll2_timeout

----------------------------------------------------------------------------
\* Firmware left the APs waiting for a SIPI; the boot processor is counted.
Init ==
  /\ trampoline \in {Built, Meant} /\ x2apic_enabled \in BOOLEAN
  /\ ap = [a \in Processors |-> "waiting"]
  /\ tss_entry = [s \in 0 .. SMP_MAX_CPU_COUNT - 1 |-> IF s = 0 THEN "busy" ELSE "none"]
  /\ smp_started_count = 1
  /\ pc = "init" /\ i = 1 /\ before = 0 /\ waits = 0
  /\ entries = [a \in Processors |-> 0]

Next == BspStep \/ \E a \in Processors : ApStep(a) \/ lost(a)

\* Every processor keeps executing, and the timer ticks end each pit_wait.
Fairness == WF_vars(BspStep) /\ \A a \in Processors : WF_vars(ApStep(a))

Spec == Init /\ [][Next]_vars /\ Fairness

----------------------------------------------------------------------------
(* Properties *)

\* The types of the variables.
TypeOK ==
  /\ trampoline \in {Built, Meant} /\ x2apic_enabled \in BOOLEAN
  /\ ap \in [Processors -> ApStates]
  /\ tss_entry \in [0 .. SMP_MAX_CPU_COUNT - 1 -> {"none", "available", "busy"}]
  /\ smp_started_count \in Nat /\ before \in Nat
  /\ pc \in {"init", "sipi1", "sipi2", "before", "poll", "before2", "poll2"}
  /\ i \in 1 .. (NAps + 1)
  /\ waits \in 0 .. Polls + Polls2
  /\ entries \in [Processors -> Nat]

\* An AP enters the kernel at most twice: once by a broadcast for another AP
\* and once in its own turn, which resets it; an unlisted one at most once.
EntersAtMostTwice ==
  \A a \in Processors : entries[a] <= (IF a \in Aps THEN 2 ELSE 1)

\* The boot processor comes to the end of the list however the APs behave.
StartupEnds == <>(i = NAps + 1)

\* What becomes of an AP that answers.  The trampoline as built shuts it down.
\* As commented it takes the AP to the kernel's loop on a machine without x2APIC;
\* with x2APIC only an AP that is in that mode itself can get there.
Ends(a) ==
  IF trampoline = Built \/ ~HasId(a) THEN {"shutdown"}
  ELSE {"running"} \cup (IF x2apic_enabled THEN {"shutdown"} ELSE {})

\* Every AP that answers comes to its end and stays there, though the broadcast
\* and the INIT of its own turn come at any moment: also between the filling of
\* its descriptor table and the loading of its task register, or when that has
\* been loaded before.
AnsweringApsEnd == <>[](\A a \in Aps \ Dead : ap[a] \in Ends(a))
=============================================================================
