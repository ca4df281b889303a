------------------------- MODULE SmpBringup_proofs -------------------------
(***************************************************************************)
(* Theorems about the starting of the application processors, for any      *)
(* number of processors, listed or not, dead or not, any lengths of the    *)
(* waits and any order in which INIT, SIPIs and the processors' steps fall.*)
(***************************************************************************)
EXTENDS SmpBringup, TLAPS

----------------------------------------------------------------------------
(* Types *)

\* An AP has its turn from its INIT until the waits for it are over.
Turn == pc # "init" => i \in Aps

\* The types hold before the first SIPI.
LEMMA InitTypes == Init => TypeOK /\ Turn
BY SmpAssumption, TableAssumption DEF Init, TypeOK, Turn, ApStates, Processors, Aps

\* Every step keeps the types.
LEMMA StepTypes == TypeOK /\ Turn /\ [Next]_vars => TypeOK' /\ Turn'
<1> SUFFICES ASSUME TypeOK, Turn, [Next]_vars  PROVE TypeOK' /\ Turn'
  OBVIOUS
<1> USE SmpAssumption, TableAssumption DEF TypeOK, Turn, ApStates, Aps, given
<1>1. ASSUME NEW a \in Processors, ApStep(a)  PROVE TypeOK' /\ Turn'
  <2>0. ASSUME NEW at, NEW next \in ApStates, Goes(a, at, next)  PROVE TypeOK' /\ Turn'
    BY <2>0 DEF Goes
  <2>1. CASE ap_entry(a)
    BY <2>1 DEF ap_entry, Count
  <2>2. ASSUME NEW at, NEW next \in ApStates, a \in Aps, gdt_init(a, at, next)
        PROVE  TypeOK' /\ Turn'
    BY <2>2 DEF gdt_init, Available
  <2>3. CASE ap_entry_found(a)
    BY <2>2, <2>3 DEF ap_entry_found
  <2>4. CASE smp_cpu_entry(a)
    BY <2>2, <2>4 DEF smp_cpu_entry
  <2>5. CASE ltr(a)
    BY <2>5 DEF ltr
  <2>6. CASE ap_entry_halts(a)
    BY <2>6 DEF ap_entry_halts
  <2>7. CASE far_jump(a) \/ retf(a) \/ apic_get_id_faults(a)
    BY <2>0, <2>7 DEF far_jump, retf, apic_get_id_faults
  <2> QED BY <1>1, <2>1, <2>3, <2>4, <2>5, <2>6, <2>7 DEF ApStep
<1>4. ASSUME NEW a \in Processors, lost(a)  PROVE TypeOK' /\ Turn'
  BY <1>4 DEF lost, Goes
<1>2. ASSUME BspStep  PROVE TypeOK' /\ Turn'
  <2>1. CASE send_init
    BY <2>1 DEF send_init, INIT, GoTo, Processors, Aps
  <2>2. CASE send_sipi
    BY <2>2 DEF send_sipi, SIPI, GoTo
  <2>3. CASE read_before
    BY <2>3 DEF read_before, GoTo
  <2>4. CASE poll_started
    BY <2>4 DEF poll_started, Next_ap, GoTo
  <2>5. CASE poll_again
    BY <2>5 DEF poll_again
  <2>6. CASE poll_timeout
    BY <2>6 DEF poll_timeout, SIPI, GoTo
  <2>7. CASE read_before2
    BY <2>7 DEF read_before2, GoTo
  <2>8. CASE poll2_timeout
    BY <2>8 DEF poll2_timeout, Next_ap, GoTo
  <2> QED BY <1>2, <2>1, <2>2, <2>3, <2>4, <2>5, <2>6, <2>7, <2>8 DEF BspStep
<1>3. CASE UNCHANGED vars
  BY <1>3 DEF vars
<1> QED BY <1>1, <1>2, <1>3, <1>4 DEF Next
----------------------------------------------------------------------------
(* How often an AP enters the kernel *)

\* The INIT of an AP's own turn is still to come.
InitToCome(a) == a \in Aps /\ (i < a \/ (i = a /\ pc = "init"))

\* An AP is on its way to ap_entry, or a SIPI may still send it there.
EntryToCome(a) == ap[a] \in {"waiting", "real", "protected", "long"}

One(b) == IF b THEN 1 ELSE 0

\* What an AP has done and may do yet is bounded: its entries, the one it is on
\* its way to, and one more that only its own INIT can bring about.
Budget ==
  \A a \in Processors :
    entries[a] + One(EntryToCome(a)) + One(InitToCome(a)) <= 1 + One(a \in Aps)

\* At the start the entries made and those to come are within the budget.
LEMMA InitBudget == Init => Budget
BY SmpAssumption DEF Init, Budget, InitToCome, EntryToCome, One, Processors, Aps

\* No step exceeds the budget: a SIPI moves only a processor that waits, and an
\* INIT uses up the turn of the AP it puts back to waiting.
LEMMA StepBudget == TypeOK /\ Turn /\ Budget /\ [Next]_vars => Budget'
<1> SUFFICES ASSUME TypeOK, Turn, Budget, [Next]_vars, NEW b \in Processors
             PROVE  (entries[b] + One(EntryToCome(b)) + One(InitToCome(b))
                       <= 1 + One(b \in Aps))'
  BY DEF Budget
<1>1. /\ entries[b] + One(EntryToCome(b)) + One(InitToCome(b)) <= 1 + One(b \in Aps)
      /\ entries[b] \in Nat /\ i \in Nat /\ NAps \in Nat /\ (b \in Aps => b \in Nat)
      /\ ap \in [Processors -> ApStates] /\ entries \in [Processors -> Nat]
  BY SmpAssumption DEF Budget, TypeOK, Aps
<1> USE DEF One, EntryToCome, InitToCome
<1>2. ASSUME NEW a \in Processors, ApStep(a)
      PROVE  (entries[b] + One(EntryToCome(b)) + One(InitToCome(b)) <= 1 + One(b \in Aps))'
  <2>0. ASSUME NEW at, NEW next, Goes(a, at, next),
               next \in {"waiting", "real", "protected", "long"} => EntryToCome(a)
        PROVE  (entries[b] + One(EntryToCome(b)) + One(InitToCome(b)) <= 1 + One(b \in Aps))'
    BY <1>1, <2>0 DEF Goes
  <2>1. CASE ap_entry(a)
    BY <1>1, <2>1 DEF ap_entry
  <2>2. ASSUME NEW at, NEW next \in {"entry_gdt", "called_gdt"}, at \notin {"waiting", "real", "protected", "long"},
               gdt_init(a, at, next)
        PROVE  (entries[b] + One(EntryToCome(b)) + One(InitToCome(b)) <= 1 + One(b \in Aps))'
    BY <1>1, <2>2 DEF gdt_init
  <2>3. CASE ap_entry_found(a)
    BY <2>2, <2>3 DEF ap_entry_found
  <2>4. CASE smp_cpu_entry(a)
    BY <2>2, <2>4 DEF smp_cpu_entry
  <2>5. CASE ltr(a)
    BY <1>1, <2>5 DEF ltr
  <2>6. CASE ap_entry_halts(a)
    BY <1>1, <2>6 DEF ap_entry_halts
  <2>7. CASE far_jump(a)
    BY <2>0, <2>7 DEF far_jump, Goes
  <2>8. CASE retf(a) \/ apic_get_id_faults(a)
    BY <2>0, <2>8 DEF retf, apic_get_id_faults, Goes
  <2> QED BY <1>2, <2>1, <2>3, <2>4, <2>5, <2>6, <2>7, <2>8 DEF ApStep
<1>5. ASSUME NEW a \in Processors, lost(a)
      PROVE  (entries[b] + One(EntryToCome(b)) + One(InitToCome(b)) <= 1 + One(b \in Aps))'
  BY <1>1, <1>5 DEF lost, Goes
<1>3. ASSUME BspStep
      PROVE  (entries[b] + One(EntryToCome(b)) + One(InitToCome(b)) <= 1 + One(b \in Aps))'
  <2>1. CASE send_init
    <3>1. /\ ap'[b] = IF b = i THEN "waiting" ELSE ap[b]
          /\ i \in Aps /\ i' = i /\ pc = "init" /\ pc' = "sipi1" /\ entries' = entries
      BY <1>1, <2>1 DEF send_init, INIT, GoTo, Aps, TypeOK
    <3>2. CASE b = i
      BY <1>1, <3>1, <3>2
    <3>3. CASE b # i
      BY <1>1, <3>1, <3>3
    <3> QED BY <3>2, <3>3
  <2>2. CASE send_sipi
    BY <1>1, <2>2 DEF send_sipi, SIPI, Startable, GoTo
  <2>3. CASE read_before \/ read_before2
    BY <1>1, <2>3 DEF read_before, read_before2, GoTo
  <2>4. CASE poll_started \/ poll2_timeout
    BY <1>1, <2>4 DEF poll_started, poll2_timeout, Next_ap, GoTo, Aps
  <2>5. CASE poll_again
    BY <1>1, <2>5 DEF poll_again
  <2>6. CASE poll_timeout
    BY <1>1, <2>6 DEF poll_timeout, SIPI, Startable, GoTo
  <2> QED BY <1>3, <2>1, <2>2, <2>3, <2>4, <2>5, <2>6 DEF BspStep
<1>4. CASE UNCHANGED vars
  BY <1>1, <1>4 DEF vars
<1> QED BY <1>2, <1>3, <1>4, <1>5 DEF Next

\* The types, the turns and the budget hold together in every reachable state.
THEOREM EntriesInvariant == Spec => [](TypeOK /\ Turn /\ Budget)
<1>1. Init => TypeOK /\ Turn /\ Budget
  BY InitTypes, InitBudget
<1>2. TypeOK /\ Turn /\ Budget /\ [Next]_vars => (TypeOK /\ Turn /\ Budget)'
  BY StepTypes, StepBudget
<1> QED BY <1>1, <1>2, PTL DEF Spec

\* An AP enters the kernel at most twice, an unlisted processor at most once,
\* however the broadcasts of smp_start_aps, its INITs and the APs' own progress
\* fall (src/drivers/acpi.c:301).
THEOREM AtMostTwice == Spec => []EntersAtMostTwice
<1>1. TypeOK /\ Budget => EntersAtMostTwice
  <2> SUFFICES ASSUME TypeOK, Budget, NEW a \in Processors
               PROVE  entries[a] <= (IF a \in Aps THEN 2 ELSE 1)
    BY DEF EntersAtMostTwice
  <2>1. entries[a] \in Nat
    BY DEF TypeOK
  <2>2. entries[a] + One(EntryToCome(a)) + One(InitToCome(a)) <= 1 + One(a \in Aps)
    BY DEF Budget
  <2> QED BY <2>1, <2>2 DEF One
<1> QED BY <1>1, EntriesInvariant, PTL

----------------------------------------------------------------------------
(* The task state descriptors *)

\* Where an AP is when it is not in the code that uses the tables.
Outside == {"waiting", "real", "protected", "long", "shutdown", "entry", "halted"}

\* Whoever is about to execute ltr finds its descriptor available; a processor
\* without an entry in mp_info never gets there; the boot processor's
\* descriptor is written by no AP.
DescriptorsReady ==
  /\ \A a \in Aps :
       ap[a] \in {"entry_gdt", "called_gdt"} => tss_entry[processor_id[a]] = "available"
  /\ \A a \in Processors \ Aps : ap[a] \in Outside
  /\ tss_entry[0] = "busy"

\* No ltr has faulted.
NoneFaulted == \A a \in Processors : ap[a] # "faulted"

\* The tables of two APs differ, and neither is the boot processor's.
LEMMA TablesDiffer ==
  ASSUME NEW a \in Aps
  PROVE  /\ processor_id[a] \in 0 .. SMP_MAX_CPU_COUNT - 1 /\ processor_id[a] # 0
         /\ 0 \in 0 .. SMP_MAX_CPU_COUNT - 1
         /\ \A b \in Aps : processor_id[b] = processor_id[a] => b = a
<1>1. processor_id[a] \in 1 .. SMP_MAX_CPU_COUNT - 1
  BY TableAssumption
<1>2. \A b \in Aps : processor_id[b] = processor_id[a] => b = a
  BY TableAssumption DEF IsInjective
<1> QED BY <1>1, <1>2, TableAssumption

\* Every step keeps the descriptors ready for ltr, and faults no processor.
LEMMA StepDescriptors ==
  TypeOK /\ Turn /\ DescriptorsReady /\ NoneFaulted /\ [Next]_vars
    => DescriptorsReady' /\ NoneFaulted'
<1> SUFFICES ASSUME TypeOK, Turn, DescriptorsReady, NoneFaulted, [Next]_vars
             PROVE  DescriptorsReady' /\ NoneFaulted'
  OBVIOUS
<1> USE DEF DescriptorsReady, NoneFaulted, Outside
<1>1. /\ ap \in [Processors -> ApStates]
      /\ tss_entry \in [0 .. SMP_MAX_CPU_COUNT - 1 -> {"none", "available", "busy"}]
      /\ Aps \subseteq Processors
  BY DEF TypeOK, Processors
<1>2. ASSUME NEW a \in Processors, ApStep(a)  PROVE DescriptorsReady' /\ NoneFaulted'
  <2>0. ASSUME NEW at, NEW next \in {"protected", "long", "shutdown"}, Goes(a, at, next)
        PROVE  DescriptorsReady' /\ NoneFaulted'
    BY <1>1, <2>0 DEF Goes
  <2>1. CASE ap_entry(a)
    BY <1>1, <2>1 DEF ap_entry
  <2>2. ASSUME NEW at, NEW next \in {"entry_gdt", "called_gdt"}, a \in Aps, gdt_init(a, at, next)
        PROVE  DescriptorsReady' /\ NoneFaulted'
    BY <1>1, <2>2, TablesDiffer DEF gdt_init, Available
  <2>3. CASE ap_entry_found(a)
    BY <2>2, <2>3 DEF ap_entry_found
  <2>4. CASE smp_cpu_entry(a)
    BY <2>2, <2>4 DEF smp_cpu_entry
  <2>5. CASE ltr(a)
    <3>1. a \in Aps /\ tss_entry[processor_id[a]] = "available"
      BY <1>1, <2>5 DEF ltr
    <3> QED BY ZenonT(30), <1>1, <2>5, <3>1, TablesDiffer DEF ltr
  <2>6. CASE ap_entry_halts(a)
    BY <1>1, <2>6 DEF ap_entry_halts
  <2>7. CASE far_jump(a) \/ retf(a) \/ apic_get_id_faults(a)
    BY <2>0, <2>7 DEF far_jump, retf, apic_get_id_faults
  <2> QED BY <1>2, <2>1, <2>3, <2>4, <2>5, <2>6, <2>7 DEF ApStep
<1>5. ASSUME NEW a \in Processors, lost(a)  PROVE DescriptorsReady' /\ NoneFaulted'
  BY <1>1, <1>5 DEF lost, Goes
<1>3. ASSUME BspStep  PROVE DescriptorsReady' /\ NoneFaulted'
  <2>1. CASE send_init
    BY <1>1, <2>1 DEF send_init, INIT
  <2>2. CASE send_sipi
    BY <1>1, <2>2 DEF send_sipi, SIPI, Startable
  <2>3. CASE poll_timeout
    BY <1>1, <2>3 DEF poll_timeout, SIPI, Startable
  <2>4. CASE read_before \/ poll_started \/ poll_again \/ read_before2 \/ poll2_timeout
    BY <2>4 DEF read_before, poll_started, poll_again, read_before2, poll2_timeout
  <2> QED BY <1>3, <2>1, <2>2, <2>3, <2>4 DEF BspStep
<1>4. CASE UNCHANGED vars
  BY <1>4 DEF vars
<1> QED BY <1>2, <1>3, <1>4, <1>5 DEF Next

\* Although an INIT and a SIPI may catch an AP at any point of gdt_init, of the
\* loading of its task register or after it, its descriptor is available
\* whenever it executes ltr, so no ltr faults (src/drivers/gdt.c).
THEOREM TaskRegistersLoad == Spec => [](DescriptorsReady /\ NoneFaulted)
<1>1. Init => DescriptorsReady /\ NoneFaulted
  <2> SUFFICES ASSUME Init  PROVE DescriptorsReady /\ NoneFaulted
    OBVIOUS
  <2>1. \A a \in Aps : a \in Processors
    BY DEF Processors
  <2>2. tss_entry[0] = "busy"
    BY TableAssumption DEF Init
  <2> QED BY <2>1, <2>2 DEF Init, DescriptorsReady, NoneFaulted, Outside
<1>2. TypeOK /\ Turn /\ DescriptorsReady /\ NoneFaulted /\ [Next]_vars
        => (DescriptorsReady /\ NoneFaulted)'
  BY StepDescriptors
<1> QED BY <1>1, <1>2, EntriesInvariant, PTL DEF Spec
=============================================================================
