-------------------------- MODULE Interrupts_proofs --------------------------
(***************************************************************************)
(* Theorems about the taking of interrupts while the kernel sets up the    *)
(* PICs, the APICs and the timer, for any lines, overrides, I/O APICs and  *)
(* masks, and about the length of a wait.                                  *)
(***************************************************************************)
EXTENDS Interrupts, NaturalsInduction, WellFoundedInduction, TLAPS

----------------------------------------------------------------------------
(* Least and greatest elements *)

\* A set of naturals that is not empty has a least element.
LEMMA LeastExists ==
  ASSUME NEW S \in SUBSET Nat, S # {}
  PROVE  \E x \in S : \A y \in S : x <= y
<1> DEFINE Less == {ss \in Nat \X Nat : ss[1] < ss[2]}
<1>1. IsWellFoundedOn(Less, Nat)
  BY NatLessThanWellFounded, Zenon DEF OpToRel
<1>2. PICK x \in S : \A y \in S : <<y, x>> \notin Less
  <2> HIDE DEF Less
  <2> QED BY <1>1, WFMin
<1>3. \A y \in S : x <= y
  <2> SUFFICES ASSUME NEW y \in S  PROVE x <= y
    OBVIOUS
  <2>1. <<y, x>> \in Nat \X Nat /\ <<y, x>> \notin Less
    BY <1>2
  <2>2. <<y, x>>[1] = y /\ <<y, x>>[2] = x
    OBVIOUS
  <2>3. ~ (y < x) /\ y \in Nat /\ x \in Nat
    BY <2>1, <2>2
  <2> QED BY <2>3
<1> QED BY <1>3

\* The minimum of a set of naturals is its least member.
LEMMA MinProperty ==
  ASSUME NEW S \in SUBSET Nat, S # {}
  PROVE  Min(S) \in S /\ \A y \in S : Min(S) <= y
BY LeastExists DEF Min

\* So does one of numbers up to 15 have a greatest.
LEMMA MaxProperty ==
  ASSUME NEW S \in SUBSET (0 .. 15), S # {}
  PROVE  Max(S) \in S /\ \A y \in S : Max(S) >= y
<1> DEFINE T == {15 - y : y \in S}
<1>1. T \in SUBSET Nat /\ T # {}
  <2>1. \A y \in S : y \in 0 .. 15 /\ 15 - y \in Nat
    OBVIOUS
  <2>2. PICK y \in S : TRUE
    OBVIOUS
  <2> QED BY <2>1, <2>2
<1>2. PICK x \in T : \A y \in T : x <= y
  <2> HIDE DEF T
  <2> QED BY <1>1, LeastExists
<1>3. PICK m \in S : x = 15 - m
  BY <1>2
<1>4. \A y \in S : m >= y
  BY SMTT(30), <1>2, <1>3
<1>5. \E n \in S : \A y \in S : n >= y
  BY <1>4
<1> QED BY <1>5 DEF Max

\* The greatest of a set with one number is that number.
LEMMA MaxOfOne ==
  ASSUME NEW n \in Nat
  PROVE  Max({n}) = n
<1>1. n \in {n} /\ \A y \in {n} : n >= y
  OBVIOUS
<1> QED BY <1>1 DEF Max

----------------------------------------------------------------------------
(* Lines and pins *)

\* The indexes and the elements of a sequence.
LEMMA ElementsOf ==
  ASSUME NEW T, NEW s \in Seq(T)
  PROVE  DOMAIN s \subseteq Nat /\ \A k \in DOMAIN s : s[k] \in T
OBVIOUS

\* A line is wired to a pin.
LEMMA WiredPin ==
  ASSUME NEW line \in 0 .. 15
  PROVE  Wired(line) \in 0 .. 15 /\ Wired(line) \in Pins
<1> DEFINE S == {k \in DOMAIN Overrides : Overrides[k].irq = line}
<1>1. CASE S = {}
  BY <1>1 DEF Wired, Pins
<1>2. CASE S # {}
  <2>1. /\ DOMAIN Overrides \subseteq Nat
        /\ \A k \in DOMAIN Overrides : Overrides[k] \in [irq : 0 .. 15, gsi : 0 .. 15]
    <3> HIDE DEF S
    <3> QED BY InterruptsAssumption, ElementsOf
  <2>2. Min(S) \in S
    <3>1. S \in SUBSET Nat
      BY <2>1
    <3> HIDE DEF S
    <3> QED BY <1>2, <3>1, MinProperty
  <2>3. Overrides[Min(S)] \in [irq : 0 .. 15, gsi : 0 .. 15]
    BY <2>1, <2>2
  <2>4. Wired(line) = Overrides[Min(S)].gsi
    BY <1>2 DEF Wired
  <2> QED BY <2>3, <2>4 DEF Pins
<1> QED BY <1>1, <1>2

\* The highest of the lines the PICs would pass on is one of them.
LEMMA HighestProperty ==
  ASSUME NEW S \in SUBSET (0 .. 15), S # {}
  PROVE  Highest(S) \in S
<1> DEFINE key(l) == IF l < 8 THEN 16 * l ELSE 32 + l
           K == {key(l) : l \in S}
<1>1. K \in SUBSET Nat /\ K # {}
  <2>1. \A l \in S : key(l) \in Nat
    <3>1. \A l \in S : l \in 0 .. 15
      OBVIOUS
    <3> QED BY <3>1
  <2>2. PICK l \in S : TRUE
    OBVIOUS
  <2> QED BY <2>1, <2>2
<1>2. PICK x \in K : \A y \in K : x <= y
  <2> HIDE DEF K
  <2> QED BY <1>1, LeastExists
<1>3. PICK h \in S : x = key(h)
  BY <1>2
<1>4. \A m \in S : Above(h, m)
  <2> SUFFICES ASSUME NEW m \in S  PROVE Above(h, m)
    OBVIOUS
  <2>1. key(h) <= key(m) /\ h \in 0 .. 15 /\ m \in 0 .. 15
    BY <1>2, <1>3
  <2> QED BY <2>1 DEF Above, Rank
<1> QED BY <1>4 DEF Highest
----------------------------------------------------------------------------
(* The inductive invariant *)

WaitStates == {"running", "check", "hlt", "halted"}
PCs == {"interrupts_init", "sti", "madt_init", "apic_init", "pit_init", "ioapic_map_irq"}
       \cup WaitStates

\* The handlers once the timer has its own.
TimerHandlers == [FirstHandlers EXCEPT ![32] = "pit_handler"]

\* The handlers of the sixteen lines.
LEMMA LineHandlers ==
  ASSUME NEW v \in 32 .. 47
  PROVE  /\ FirstHandlers[v] = "irq_handler"
         /\ TimerHandlers[v] = IF v = 32 THEN "pit_handler" ELSE "irq_handler"
<1>1. v \in Vectors /\ v # 8 /\ v # 13 /\ v # 14 /\ v >= 32
  BY DEF Vectors
<1>2. FirstHandlers[v] = "irq_handler"
  BY <1>1 DEF FirstHandlers
<1>3. DOMAIN FirstHandlers = Vectors
  BY DEF FirstHandlers
<1>4. TimerHandlers[v] = IF v = 32 THEN "pit_handler" ELSE FirstHandlers[v]
  BY <1>1, <1>3 DEF TimerHandlers
<1> QED BY <1>2, <1>4

\* How far the set-up is: no I/O APIC is known when the sixteen lines get their
\* handlers, so only the timer's pin is ever programmed.
SetUp ==
  /\ pc \in PCs
  /\ {sti_done, madt_done, apic_on} \subseteq BOOLEAN
  /\ sti_done => pc \notin {"interrupts_init", "sti"}
  /\ madt_done => pc \notin {"interrupts_init", "sti", "madt_init"}
  /\ pic_offset = IF pc = "interrupts_init" THEN 8 ELSE 32
  /\ handlers = CASE pc = "interrupts_init" -> [v \in Vectors |-> NULL]
                  [] pc \in {"sti", "madt_init", "apic_init", "pit_init"} -> FirstHandlers
                  [] OTHER -> TimerHandlers
  /\ redir \in [DOMAIN GsiBases -> [Pins -> {0, 32}]]
  /\ \A k \in DOMAIN GsiBases : \A p \in Pins : redir[k][p] # 0 => p = Wired(0)
  /\ pc \notin WaitStates => redir = NotMapped

Handlings == [at : {"entered", "eoi", "iret", "stopped"}, vector : Vectors,
              via : {"pic", "apic", "exception"}, int_no : Vectors]

\* What is taken or pending: the local APIC sees the timer's vector only, after
\* its handler is there, and has it in service only while that handler runs.
Taken ==
  /\ handling = Idle \/ handling \in Handlings
  /\ handling # Idle => sti_done
  /\ handling # Idle /\ handling.via # "exception" => handling.int_no \in 32 .. 47
  /\ pic_irr \subseteq Lines /\ pic_isr \subseteq Lines \cup {2}
  /\ lapic_irr \subseteq {32} /\ lapic_isr \subseteq {32}
  /\ lapic_irr # {} => pc \in WaitStates
  /\ lapic_isr # {} => /\ pc \in WaitStates
                       /\ handling # Idle /\ handling.int_no = 32
                       /\ handling.at \in {"entered", "eoi"}

Counters == {pit_counter, wait, periods} \subseteq 0 .. MAX_MS

IInv == SetUp /\ Taken /\ Counters

\* The invariant holds at reset, before the PIC is programmed.
LEMMA InitHolds == Init => IInv
<1> SUFFICES ASSUME Init  PROVE IInv
  OBVIOUS
<1>1. SetUp
  BY DEF Init, SetUp, PCs, WaitStates, NotMapped
<1>2. Taken
  BY DEF Init, Taken
<1>3. Counters
  BY InterruptsAssumption DEF Init, Counters
<1> QED BY <1>1, <1>2, <1>3 DEF IInv

\* A line that is raised reaches the local APIC only with the timer's vector.
LEMMA RaiseStep ==
  ASSUME IInv, NEW line \in Lines, Raise(line),
         UNCHANGED <<thread, pic, pic_isr, redir, lapic_isr, handling>>
  PROVE  SetUp' /\ Taken'
<1> USE DEF IInv, thread, pic
<1>1. SetUp'
  BY DEF SetUp
<1>2. redir[1][Wired(line)] \in {0, 32} /\ (redir[1][Wired(line)] # 0 => pc \in WaitStates)
  <2>1. 1 \in DOMAIN GsiBases /\ Wired(line) \in Pins
    <3>1. line \in 0 .. 15
      BY InterruptsAssumption
    <3>2. GsiBases \in Seq(Nat) /\ Len(GsiBases) \in Nat /\ Len(GsiBases) > 0
      BY InterruptsAssumption
    <3>3. 1 \in DOMAIN GsiBases
      BY <3>2
    <3> QED BY <3>1, <3>3, WiredPin
  <2> QED BY <2>1 DEF SetUp, NotMapped
<1>3. lapic_irr' \subseteq {32} /\ (lapic_irr' # {} => pc \in WaitStates) /\ pic_irr' \subseteq Lines
  BY <1>2 DEF Raise, Taken
<1>4. Taken'
  BY <1>3 DEF Taken
<1> QED BY <1>1, <1>4

\* An interrupt is dispatched by a number that is its vector, which no exception
\* with an error code has; a processor that was halted goes on to the test.
LEMMA DispatchIRQ ==
  ASSUME NEW vector \in 32 .. 47, NEW via \in {"pic", "apic"}, Dispatch(vector, 0, via),
         pc \in PCs
  PROVE  /\ handling' \in Handlings /\ handling'.int_no = vector
         /\ handling'.at = "entered" /\ handling'.via = via
         /\ pc' \in PCs /\ (pc' = pc \/ (pc = "halted" /\ pc' = "check"))
BY DEF Dispatch, Context, WithErrorCode, Handlings, Vectors, PCs, WaitStates

\* The set-up and the handling that a dispatch leaves.
LEMMA DispatchStep ==
  ASSUME IInv, Enabled, NEW vector \in 32 .. 47, NEW via \in {"pic", "apic"},
         Dispatch(vector, 0, via),
         UNCHANGED <<handlers, sti_done, madt_done, apic_on, pic, redir>>
  PROVE  /\ SetUp' /\ handling' \in Handlings /\ sti_done'
         /\ handling'.int_no = vector /\ handling'.at = "entered"
         /\ (pc \in WaitStates => pc' \in WaitStates)
<1>1. pc \in PCs
  BY DEF IInv, SetUp
<1>2. /\ handling' \in Handlings /\ handling'.int_no = vector /\ handling'.at = "entered"
      /\ pc' \in PCs /\ (pc' = pc \/ (pc = "halted" /\ pc' = "check"))
  BY <1>1, DispatchIRQ
<1>3. SetUp'
  BY <1>1, <1>2 DEF IInv, SetUp, pic, PCs, WaitStates
<1> QED BY <1>1, <1>2, <1>3 DEF Enabled, WaitStates

\* An interrupt the PIC delivers has a vector behind its offset and a handler.
LEMMA StepTakeFromPic == IInv /\ TakeFromPic => SetUp' /\ Taken'
<1> SUFFICES ASSUME IInv, TakeFromPic  PROVE SetUp' /\ Taken'
  OBVIOUS
<1> DEFINE l == Highest(Passed)
<1>1. l \in pic_irr /\ l \in 0 .. 15 /\ l \in Lines
  <2>1. Passed \subseteq pic_irr /\ pic_irr \subseteq 0 .. 15 /\ pic_irr \subseteq Lines
    BY InterruptsAssumption DEF Passed, IInv, Taken
  <2> QED BY <2>1, HighestProperty DEF TakeFromPic
<1>2. pic_offset = 32 /\ sti_done
  BY DEF TakeFromPic, Enabled, IInv, SetUp
<1>3. /\ pic_irr' = pic_irr \ {l}
      /\ pic_isr' = pic_isr \cup (IF l < 8 THEN {l} ELSE {2, l})
      /\ Dispatch(pic_offset + l, 0, "pic")
  BY DEF TakeFromPic
<1> HIDE DEF l
<1>4. pic_offset + l \in 32 .. 47
  BY <1>1, <1>2
<1>5. /\ SetUp' /\ handling' \in Handlings /\ sti_done'
      /\ handling'.int_no = pic_offset + l /\ handling'.at = "entered"
      /\ (pc \in WaitStates => pc' \in WaitStates)
  BY <1>3, <1>4, DispatchStep DEF TakeFromPic
<1>6. lapic_isr = {}
  BY DEF IInv, Taken, TakeFromPic, Enabled
<1>7. lapic_isr' = {} /\ lapic_irr' = lapic_irr
  BY <1>6 DEF TakeFromPic
<1>8. pic_irr' \subseteq Lines /\ pic_isr' \subseteq Lines \cup {2}
  BY <1>1, <1>3 DEF IInv, Taken
<1>9. Taken'
  BY <1>4, <1>5, <1>7, <1>8 DEF IInv, Taken
<1> QED BY <1>5, <1>9

\* An interrupt of the local APIC is the timer's, and its handler is there.
LEMMA StepTakeFromApic == IInv /\ TakeFromApic => SetUp' /\ Taken'
<1> SUFFICES ASSUME IInv, TakeFromApic  PROVE SetUp' /\ Taken'
  OBVIOUS
<1>1. lapic_irr = {32} /\ pc \in WaitStates
  BY DEF IInv, Taken, TakeFromApic
<1>2. Max(lapic_irr) = 32
  BY <1>1, MaxOfOne
<1>3. /\ lapic_irr' = {} /\ lapic_isr' = {32} /\ Dispatch(32, 0, "apic")
      /\ UNCHANGED <<pic_irr, pic_isr>>
  BY <1>1, <1>2 DEF TakeFromApic
<1>4. /\ SetUp' /\ handling' \in Handlings /\ sti_done'
      /\ handling'.int_no = 32 /\ handling'.at = "entered" /\ pc' \in WaitStates
  BY <1>1, <1>3, DispatchStep DEF TakeFromApic
<1>5. Taken'
  BY <1>3, <1>4 DEF IInv, Taken, Handlings, Idle
<1> QED BY <1>4, <1>5

\* Exceptions of the thread.
LEMMA StepFault ==
  ASSUME IInv, NEW e \in Exceptions, NEW err \in ErrorCodes, Fault(e, err)
  PROVE  SetUp' /\ Taken'
<1>1. e \in 0 .. 31 /\ err \in Vectors /\ e \in Vectors
  BY InterruptsAssumption DEF Vectors
<1>2. /\ handling' \in Handlings /\ handling'.via = "exception"
      /\ pc' = pc /\ sti_done /\ handling = Idle
  BY <1>1 DEF Fault, Dispatch, Context, Handlings
<1>3. SetUp'
  BY <1>2 DEF Fault, IInv, SetUp, pic
<1>4. lapic_isr = {} /\ UNCHANGED pending /\ sti_done'
  BY <1>2 DEF Fault, IInv, Taken
<1>5. Taken'
  BY <1>2, <1>4 DEF IInv, Taken, pending
<1> QED BY <1>3, <1>5

\* A handler that goes on is the same handling, at another point.
LEMMA ContinueStep ==
  ASSUME IInv, handling.at \in {"entered", "eoi", "iret"},
         NEW at \in {"eoi", "iret", "stopped"}, Continue(at)
  PROVE  /\ handling \in Handlings /\ handling' \in Handlings /\ handling'.at = at
         /\ handling'.via = handling.via /\ handling'.int_no = handling.int_no
<1>1. handling \in Handlings
  BY DEF IInv, Taken, Idle
<1> QED BY <1>1 DEF Continue, Handlings

\* Taking line 0's acknowledgement or another's from the PIC leaves lines.
LEMMA PicEoiStep ==
  ASSUME IInv, PicEoi
  PROVE  pic_isr' \subseteq pic_isr
BY DEF PicEoi

\* The stubs, dispatch and handlers keep what is set up and taken.
LEMMA StepHandlers ==
  IInv /\ (HandlerStep \/ exception_stops) => SetUp' /\ Taken'
<1> SUFFICES ASSUME IInv, HandlerStep \/ exception_stops  PROVE SetUp' /\ Taken'
  OBVIOUS
<1> USE DEF thread, pic, pending
<1>1. CASE irq_handler
  <2>1. /\ handling \in Handlings /\ handling' \in Handlings /\ handling'.at = "iret"
        /\ handling'.via = handling.via /\ handling'.int_no = handling.int_no
    BY <1>1, ContinueStep DEF irq_handler, Handling
  <2>2. pic_isr' \subseteq pic_isr /\ UNCHANGED <<thread, pic, pic_irr, lapic_irr, lapic_isr, redir>>
    BY <1>1, PicEoiStep DEF irq_handler
  <2>3. lapic_isr = {}
    <3>1. SUFFICES ASSUME lapic_isr # {}  PROVE FALSE
      OBVIOUS
    <3>2. handling.int_no = 32 /\ pc \in WaitStates
      BY <3>1 DEF IInv, Taken
    <3>3. handlers = TimerHandlers
      BY <3>2 DEF IInv, SetUp, WaitStates
    <3>4. Handler = "pit_handler"
      BY <3>2, <3>3, LineHandlers DEF Handler
    <3> QED BY <3>4, <1>1 DEF irq_handler, Handling
  <2>4. SetUp'
    BY <2>2 DEF IInv, SetUp
  <2>5. Taken'
    BY <2>1, <2>2, <2>3 DEF IInv, Taken, Idle, Handlings
  <2> QED BY <2>4, <2>5
<1>2. CASE pit_handler
  <2>1. /\ handling \in Handlings /\ handling' \in Handlings /\ handling'.at = "eoi"
        /\ handling'.via = handling.via /\ handling'.int_no = handling.int_no
    BY <1>2, ContinueStep DEF pit_handler, Handling
  <2>2. UNCHANGED <<thread, pic, pending, redir>>
    BY <1>2 DEF pit_handler
  <2>3. SetUp'
    BY <2>2 DEF IInv, SetUp
  <2>4. Taken'
    BY <2>1, <2>2 DEF IInv, Taken, Idle, Handlings
  <2> QED BY <2>3, <2>4
<1>3. CASE interrupts_eoi
  <2>1. /\ handling \in Handlings /\ handling' \in Handlings /\ handling'.at = "iret"
        /\ handling'.via = handling.via /\ handling'.int_no = handling.int_no
    BY <1>3, ContinueStep DEF interrupts_eoi
  <2>2. UNCHANGED <<thread, pic, pic_irr, pic_isr, lapic_irr, redir>>
    BY <1>3 DEF interrupts_eoi, Eoi
  <2>3. lapic_isr' = {}
    <3>1. lapic_isr = {} \/ lapic_isr = {32}
      BY DEF IInv, Taken
    <3> QED BY <1>3, <3>1, MaxOfOne DEF interrupts_eoi, Eoi
  <2>4. SetUp'
    BY <2>2 DEF IInv, SetUp
  <2>5. Taken'
    BY <2>1, <2>2, <2>3 DEF IInv, Taken, Idle, Handlings
  <2> QED BY <2>4, <2>5
<1>4. CASE iret
  BY <1>4 DEF iret, IInv, SetUp, Taken, Idle
<1>5. CASE exception_stops
  <2>1. /\ handling \in Handlings /\ handling' \in Handlings /\ handling'.at = "stopped"
        /\ handling'.via = handling.via /\ handling'.int_no = handling.int_no
    BY <1>5, ContinueStep DEF exception_stops
  <2>2. UNCHANGED <<thread, pic, pending, redir>>
    BY <1>5 DEF exception_stops
  <2>3. lapic_isr = {}
    <3>1. SUFFICES ASSUME lapic_isr # {}  PROVE FALSE
      OBVIOUS
    <3>2. handling.int_no = 32 /\ pc \in WaitStates
      BY <3>1 DEF IInv, Taken
    <3>3. handlers = TimerHandlers
      BY <3>2 DEF IInv, SetUp, WaitStates
    <3>4. Handler = "pit_handler"
      BY <3>2, <3>3, LineHandlers DEF Handler
    <3> QED BY <3>2, <3>4, <1>5 DEF exception_stops, Stops, NULL
  <2>4. SetUp'
    BY <2>2 DEF IInv, SetUp
  <2>5. Taken'
    BY <2>1, <2>2, <2>3 DEF IInv, Taken, Idle, Handlings
  <2> QED BY <2>4, <2>5
<1> QED BY <1>1, <1>2, <1>3, <1>4, <1>5 DEF HandlerStep

\* The thread's steps of the set-up run between interrupts.
LEMMA StepBoot == IInv /\ Boot => SetUp' /\ Taken'
<1> SUFFICES ASSUME IInv, Boot  PROVE SetUp' /\ Taken'
  OBVIOUS
<1> USE DEF IInv, pic, pending, Runs, WaitStates
<1>1. ASSUME handling = Idle, UNCHANGED handling, sti_done => sti_done',
             UNCHANGED <<lapic_irr, lapic_isr>>, pc \notin WaitStates,
             pic_irr' \subseteq pic_irr, pic_isr' \subseteq pic_isr
      PROVE  Taken'
  BY <1>1 DEF Taken
<1>2. CASE interrupts_init
  <2>1. Mapped(redir, 0 .. 15) = redir
    BY <1>2 DEF interrupts_init, SetUp, Mapped, Ioapics
  <2>2. SetUp'
    BY <1>2, <2>1 DEF interrupts_init, SetUp, PCs, Remap
  <2> QED BY <1>1, <1>2, <2>2 DEF interrupts_init
<1>3. CASE sti
  <2>1. SetUp'
    BY <1>3 DEF sti, SetUp, PCs
  <2> QED BY <1>1, <1>3, <2>1 DEF sti
<1>4. CASE madt_init
  <2>1. SetUp'
    BY <1>4 DEF madt_init, SetUp, PCs
  <2> QED BY <1>1, <1>4, <2>1 DEF madt_init
<1>5. CASE apic_init
  <2>1. SetUp'
    BY <1>5 DEF apic_init, SetUp, PCs
  <2> QED BY <1>1, <1>5, <2>1 DEF apic_init
<1>6. CASE pit_init
  <2>1. SetUp'
    BY <1>6 DEF pit_init, SetUp, PCs, TimerHandlers
  <2> QED BY <1>1, <1>6, <2>1 DEF pit_init
<1>7. CASE ioapic_map_irq
  <2>1. /\ Mapped(redir, {0}) \in [DOMAIN GsiBases -> [Pins -> {0, 32}]]
        /\ \A k \in DOMAIN GsiBases : \A p \in Pins :
             Mapped(redir, {0})[k][p] # 0 => p = Wired(0)
    <3>1. CASE Ioapics = <<>>
      BY <3>1 DEF Mapped, SetUp
    <3>2. CASE Ioapics # <<>>
      <4> DEFINE On(k, p) == {q \in {0} : IoapicOf(Gsi(q)) = k /\ Gsi(q) = p}
                 Vec(k, p) == IF On(k, p) = {} THEN redir[k][p] ELSE 32 + Max(On(k, p))
      <4>1. redir \in [DOMAIN GsiBases -> [Pins -> {0, 32}]]
        BY DEF SetUp
      <4>2. ASSUME NEW k \in DOMAIN GsiBases, NEW p \in Pins
            PROVE  Vec(k, p) \in {0, 32} /\ (Vec(k, p) # 0 => p = Wired(0))
        <5>1. On(k, p) = {} \/ (On(k, p) = {0} /\ p = Wired(0))
          BY DEF Gsi
        <5>2. Max({0}) = 0
          BY MaxOfOne
        <5>3. redir[k][p] \in {0, 32} /\ (redir[k][p] # 0 => p = Wired(0))
          BY <4>1 DEF SetUp
        <5> QED BY <5>1, <5>2, <5>3
      <4>3. Mapped(redir, {0}) = [k \in DOMAIN GsiBases |-> [p \in Pins |-> Vec(k, p)]]
        BY <3>2, <4>1 DEF Mapped
      <4> HIDE DEF Vec
      <4> QED BY <4>2, <4>3
    <3> QED BY <3>1, <3>2
  <2>2. SetUp'
    BY <1>7, <2>1 DEF ioapic_map_irq, SetUp, PCs
  <2> QED BY <1>1, <1>7, <2>2 DEF ioapic_map_irq
<1> QED BY <1>2, <1>3, <1>4, <1>5, <1>6, <1>7 DEF Boot

\* pit_wait changes neither the controllers nor the handlers.
LEMMA StepWaits == IInv /\ (Waits \/ pit_check \/ hlt) => SetUp' /\ Taken'
<1> SUFFICES ASSUME IInv, Waits \/ pit_check \/ hlt  PROVE SetUp' /\ Taken'
  OBVIOUS
<1>1. /\ UNCHANGED <<handlers, sti_done, madt_done, apic_on, pic, pending, redir, handling>>
      /\ handling = Idle
      /\ pc \in {"running", "check", "hlt"} /\ pc' \in {"running", "check", "hlt", "halted"}
  BY DEF Waits, pit_wait, pit_check, hlt, Runs
<1>2. SetUp'
  BY <1>1 DEF IInv, SetUp, PCs, WaitStates, pic
<1>3. Taken'
  BY <1>1 DEF IInv, Taken, WaitStates, pending
<1> QED BY <1>2, <1>3

\* The counters stay natural numbers within their bounds.
LEMMA StepCounters == IInv /\ [FaultNext]_vars => Counters'
<1> SUFFICES ASSUME IInv, [FaultNext]_vars  PROVE Counters'
  OBVIOUS
<1>1. MAX_MS \in Nat \ {0} /\ {pit_counter, wait, periods} \subseteq 0 .. MAX_MS
  BY InterruptsAssumption DEF IInv, Counters
<1>2. \A n \in 0 .. MAX_MS : Min({n + 1, MAX_MS}) \in 0 .. MAX_MS
  <2> SUFFICES ASSUME NEW n \in 0 .. MAX_MS  PROVE Min({n + 1, MAX_MS}) \in 0 .. MAX_MS
    OBVIOUS
  <2>1. {n + 1, MAX_MS} \in SUBSET Nat
    BY <1>1
  <2>2. Min({n + 1, MAX_MS}) \in {n + 1, MAX_MS} /\ Min({n + 1, MAX_MS}) <= MAX_MS
    BY <2>1, MinProperty
  <2> QED BY <1>1, <2>1, <2>2
<1> USE <1>1 DEF Counters
<1>3. CASE Timer
  BY <1>2, <1>3 DEF Timer, thread
<1>4. CASE pit_handler
  BY <1>2, <1>4 DEF pit_handler, thread
<1>5. CASE Waits
  BY <1>5 DEF Waits, pit_wait
<1>6. ASSUME UNCHANGED <<pit_counter, wait, periods>>  PROVE Counters'
  BY <1>6
<1>7. CASE \E l \in Lines \ {0} : Device(l)
  BY <1>6, <1>7 DEF Device, thread
<1>8. CASE TakeFromPic \/ TakeFromApic \/ (\E e \in Exceptions : \E err \in ErrorCodes : Fault(e, err))
  BY <1>6, <1>8 DEF TakeFromPic, TakeFromApic, Fault
<1>9. CASE irq_handler \/ interrupts_eoi \/ iret \/ exception_stops
  BY <1>6, <1>9 DEF irq_handler, interrupts_eoi, iret, exception_stops, thread
<1>10. CASE Boot \/ pit_check \/ hlt
  BY <1>6, <1>10 DEF Boot, interrupts_init, sti, madt_init, apic_init, pit_init, ioapic_map_irq,
                     pit_check, hlt
<1>11. CASE UNCHANGED vars
  BY <1>6, <1>11 DEF vars, thread
<1> QED BY <1>3, <1>4, <1>5, <1>7, <1>8, <1>9, <1>10, <1>11 DEF FaultNext, Next, HandlerStep, ThreadStep

\* The invariant is inductive, also where the thread may fault.
LEMMA StepHolds == IInv /\ [FaultNext]_vars => IInv'
<1> SUFFICES ASSUME IInv, [FaultNext]_vars  PROVE SetUp' /\ Taken'
  BY StepCounters DEF IInv
<1>1. CASE Timer
  <2>1. 0 \in Lines
    BY InterruptsAssumption
  <2> QED BY <1>1, <2>1, RaiseStep DEF Timer
<1>2. CASE \E l \in Lines \ {0} : Device(l)
  BY <1>2, RaiseStep DEF Device
<1>3. CASE \E e \in Exceptions : \E err \in ErrorCodes : Fault(e, err)
  BY <1>3, StepFault
<1>4. CASE UNCHANGED vars
  BY <1>4 DEF vars, thread, pic, pending, IInv, SetUp, Taken
<1> QED BY <1>1, <1>2, <1>3, <1>4, StepTakeFromPic, StepTakeFromApic, StepHandlers, StepBoot, StepWaits
        DEF FaultNext, Next, ThreadStep

\* The set-up, what is pending and what is handled keep in step in every
\* reachable state, whether or not the thread faults.
THEOREM InterruptInvariant == FaultSpec => []IInv
<1>1. IInv /\ [FaultNext]_vars => IInv'
  BY StepHolds
<1> QED BY <1>1, InitHolds, PTL DEF FaultSpec

\* The specification without faults is part of the one with them.
LEMMA WithoutFaults == Spec => FaultSpec
<1>1. [Next]_vars => [FaultNext]_vars
  BY DEF FaultNext
<1> QED BY <1>1, PTL DEF Spec, FaultSpec

\* The variables keep their types.
THEOREM TypeCorrect == Spec => []TypeOK
<1>1. IInv => TypeOK
  <2> SUFFICES ASSUME IInv  PROVE TypeOK
    OBVIOUS
  <2>1. handlers \in [Vectors -> {NULL, "df_handler", "pf_handler", "gpf_handler",
                                  "irq_handler", "pit_handler"}]
    BY DEF IInv, SetUp, TimerHandlers, FirstHandlers
  <2>2. redir \in [DOMAIN GsiBases -> [Pins -> {0} \cup 32 .. 47]]
    BY DEF IInv, SetUp
  <2>3. handling = Idle \/ handling.int_no \in Vectors
    BY DEF IInv, Taken, Handlings
  <2> QED BY <2>1, <2>2, <2>3 DEF IInv, SetUp, Taken, Counters, TypeOK
<1> QED BY <1>1, InterruptInvariant, WithoutFaults, PTL

\* No interrupt of a device runs the handler of an exception, at any point of
\* kernel_main's set-up and for any vectors and masks firmware left
\* (src/core/kernel.c:22).
THEOREM NoneTakenForFault == Spec => []NoInterruptTakenForFault
<1>1. IInv => NoInterruptTakenForFault
  <2> SUFFICES ASSUME IInv, handling # Idle, handling.via \in {"pic", "apic"}
               PROVE  Handler \in {"irq_handler", "pit_handler"}
    BY DEF NoInterruptTakenForFault
  <2>1. handling.int_no \in 32 .. 47 /\ sti_done
    BY DEF IInv, Taken
  <2>2. handlers \in {FirstHandlers, TimerHandlers}
    BY <2>1 DEF IInv, SetUp
  <2> QED BY <2>1, <2>2, LineHandlers DEF Handler
<1> QED BY <1>1, InterruptInvariant, WithoutFaults, PTL

\* What came through the local APIC is acknowledged there before the handler
\* returns (src/drivers/acpi.c:459): also with faults of the thread.
THEOREM Acknowledged == FaultSpec => []LocalApicAcknowledged
<1>1. IInv => LocalApicAcknowledged
  BY DEF IInv, Taken, LocalApicAcknowledged, Idle
<1> QED BY <1>1, InterruptInvariant, PTL

----------------------------------------------------------------------------
(* The length of a wait *)

\* No other device's line is wired to the timer's pin of the I/O APIC.
TimerPinOwn == \A l \in Lines \ {0} : Wired(l) # Wired(0)

One(b) == IF b THEN 1 ELSE 0

Ticking == handling.at = "entered" /\ Handler = "pit_handler"

\* The ticks of a wait that were counted, are being handled or are pending, with
\* the one the PIC may deliver as long as line 0 is not in service there.
Ticks ==
  pit_counter + One(32 \in lapic_irr) + One(0 \notin pic_isr) + One(Ticking)

\* While the thread waits these are at most two more than the timer's periods
\* (as far as those are counted), and what keeps line 0 in service at the PIC is
\* that only its own handler, which does not acknowledge the PIC, can run.
WaitInv ==
  pc \in {"check", "hlt", "halted"} =>
    /\ periods = MAX_MS \/ Ticks <= periods + 2
    /\ 0 \in pic_isr /\ handling.at = "entered" => Handler = "pit_handler"

\* What the thread waits in, and the handlers then.
LEMMA WhileWaiting ==
  ASSUME IInv, pc \in WaitStates
  PROVE  /\ handlers = TimerHandlers /\ pic_offset = 32
         /\ {pit_counter, wait, periods} \subseteq 0 .. MAX_MS /\ MAX_MS \in Nat \ {0}
BY InterruptsAssumption DEF IInv, SetUp, WaitStates, Counters

\* Ticks stay within the bound when their sum does not grow.
LEMMA TicksStay ==
  ASSUME IInv, IInv', WaitInv, pc \in {"check", "hlt", "halted"}, pc' \in WaitStates,
         UNCHANGED periods, Ticks' <= Ticks,
         0 \in pic_isr' /\ handling'.at = "entered" => Handler' = "pit_handler"
  PROVE  WaitInv'
<1>1. pit_counter \in Int /\ pit_counter' \in Int /\ periods \in Int
  BY DEF IInv, Counters
<1>2. Ticks \in Int /\ Ticks' \in Int
  BY <1>1 DEF Ticks, One
<1> HIDE DEF Ticks
<1> QED BY <1>1, <1>2 DEF WaitInv

\* An edge on the timer's line is one more period; on another line it is none,
\* for its pin of the I/O APIC is not programmed.
LEMMA WaitRaise ==
  ASSUME TimerPinOwn, IInv, IInv', WaitInv, pc \in {"check", "hlt", "halted"},
         Timer \/ (\E l \in Lines \ {0} : Device(l))
  PROVE  WaitInv'
<1>1. /\ UNCHANGED <<thread, pic_isr, handling, pit_counter>>
      /\ Handler' = Handler /\ Ticking' = Ticking
  BY DEF Timer, Device, thread, Handler, Ticking
<1>2. pc \in WaitStates /\ pc' = pc
  BY <1>1 DEF WaitStates, thread
<1>3. /\ pit_counter \in Nat /\ periods \in 0 .. MAX_MS /\ MAX_MS \in Nat
  BY <1>2, WhileWaiting
<1>4. CASE Timer
  <2>1. periods' = Min({periods + 1, MAX_MS})
    BY <1>4 DEF Timer
  <2>2. periods' = MAX_MS \/ periods' = periods + 1
    <3>1. {periods + 1, MAX_MS} \in SUBSET Nat
      BY <1>3
    <3> QED BY <2>1, <3>1, MinProperty
  <2>3. periods = MAX_MS => periods' = MAX_MS
    <3>1. {periods + 1, MAX_MS} \in SUBSET Nat
      BY <1>3
    <3>2. Min({periods + 1, MAX_MS}) \in {periods + 1, MAX_MS} /\ Min({periods + 1, MAX_MS}) <= MAX_MS
      BY <3>1, MinProperty
    <3> QED BY <1>3, <2>1, <3>2
  <2>4. Ticks' <= Ticks + 1
    BY <1>1, <1>3 DEF Ticks, One
  <2>5. Ticks \in Int /\ Ticks' \in Int
    BY <1>1, <1>3 DEF Ticks, One
  <2> HIDE DEF Ticks
  <2> QED BY <1>1, <1>2, <1>3, <2>2, <2>3, <2>4, <2>5 DEF WaitInv
<1>5. ASSUME NEW l \in Lines \ {0}, Device(l)  PROVE WaitInv'
  <2>1. Wired(l) # Wired(0) /\ Wired(l) \in Pins /\ 1 \in DOMAIN GsiBases
    <3>1. l \in 0 .. 15
      BY InterruptsAssumption
    <3>2. GsiBases \in Seq(Nat) /\ Len(GsiBases) \in Nat /\ Len(GsiBases) > 0
      BY InterruptsAssumption
    <3>3. 1 \in DOMAIN GsiBases
      BY <3>2
    <3> QED BY <3>1, <3>3, WiredPin DEF TimerPinOwn
  <2>2. redir[1][Wired(l)] = 0
    BY <2>1 DEF IInv, SetUp
  <2>3. lapic_irr' = lapic_irr /\ UNCHANGED periods
    BY <2>2, <1>5 DEF Device, Raise
  <2>4. Ticks' <= Ticks
    BY <1>1, <1>3, <2>3 DEF Ticks, One
  <2> QED BY <1>1, <1>2, <2>3, <2>4, TicksStay DEF WaitInv
<1> QED BY <1>4, <1>5

\* The PIC passes line 0 on only while it is not in service there, and nothing
\* else while it is.
LEMMA WaitTakeFromPic ==
  ASSUME IInv, IInv', WaitInv, pc \in {"check", "hlt", "halted"}, TakeFromPic
  PROVE  WaitInv'
<1> DEFINE l == Highest(Passed)
<1>1. l \in Passed /\ l \in 0 .. 15
  <2>1. Passed \subseteq pic_irr /\ pic_irr \subseteq 0 .. 15
    BY InterruptsAssumption DEF Passed, IInv, Taken
  <2> QED BY <2>1, HighestProperty DEF TakeFromPic
<1>2. /\ pic_isr' = pic_isr \cup (IF l < 8 THEN {l} ELSE {2, l})
      /\ Dispatch(pic_offset + l, 0, "pic")
      /\ handling = Idle /\ UNCHANGED <<handlers, lapic_irr, pit_counter, periods>>
  BY DEF TakeFromPic, Enabled
<1>3. 0 \notin pic_isr
  BY <1>1 DEF Passed, Master
<1> HIDE DEF l
<1>4. pc \in WaitStates /\ pc \in PCs
  BY DEF WaitStates, PCs
<1>5. handlers = TimerHandlers /\ pic_offset + l \in 32 .. 47 /\ pit_counter \in Nat
  BY <1>1, <1>4, WhileWaiting
<1>6. /\ handling'.int_no = pic_offset + l /\ handling'.at = "entered"
      /\ pc' = pc \/ (pc = "halted" /\ pc' = "check")
  BY <1>2, <1>4, <1>5, DispatchIRQ
<1>7. Handler' = IF l = 0 THEN "pit_handler" ELSE "irq_handler"
  <2>1. Handler' = TimerHandlers[pic_offset + l] /\ pic_offset = 32
    BY <1>2, <1>4, <1>5, <1>6, WhileWaiting DEF Handler
  <2> QED BY <1>1, <1>5, <2>1, LineHandlers
<1>8. ~Ticking
  BY <1>2 DEF Ticking, Idle
<1>9. Ticking' <=> l = 0
  BY <1>6, <1>7 DEF Ticking
<1>10. 0 \in pic_isr' <=> l = 0
  BY <1>1, <1>2, <1>3
<1>11. Ticks' <= Ticks
  BY <1>2, <1>3, <1>5, <1>8, <1>9, <1>10 DEF Ticks, One
<1>12. pc' \in WaitStates
  BY <1>4, <1>6 DEF WaitStates
<1> QED BY <1>2, <1>7, <1>10, <1>11, <1>12, TicksStay

\* What the local APIC had pending is then handled.
LEMMA WaitTakeFromApic ==
  ASSUME IInv, IInv', WaitInv, pc \in {"check", "hlt", "halted"}, TakeFromApic
  PROVE  WaitInv'
<1>1. lapic_irr = {32}
  BY DEF IInv, Taken, TakeFromApic
<1>2. Max(lapic_irr) = 32
  BY <1>1, MaxOfOne
<1>3. /\ lapic_irr' = {} /\ Dispatch(32, 0, "apic") /\ handling = Idle
      /\ UNCHANGED <<handlers, pic_isr, pit_counter, periods>>
  BY <1>1, <1>2 DEF TakeFromApic, Enabled
<1>4. pc \in WaitStates /\ pc \in PCs
  BY DEF WaitStates, PCs
<1>5. handlers = TimerHandlers /\ pit_counter \in Nat
  BY <1>4, WhileWaiting
<1>6. /\ handling'.int_no = 32 /\ handling'.at = "entered"
      /\ pc' = pc \/ (pc = "halted" /\ pc' = "check")
  BY <1>3, <1>4, DispatchIRQ
<1>7. Handler' = "pit_handler"
  BY <1>3, <1>5, <1>6, LineHandlers DEF Handler
<1>8. ~Ticking /\ Ticking'
  BY <1>3, <1>6, <1>7 DEF Ticking, Idle
<1>9. Ticks' <= Ticks
  BY <1>1, <1>3, <1>5, <1>8 DEF Ticks, One
<1>10. pc' \in WaitStates
  BY <1>4, <1>6 DEF WaitStates
<1> QED BY <1>3, <1>7, <1>9, <1>10, TicksStay

\* A step of a handler while pit_wait runs keeps its counting invariant.
LEMMA WaitHandlers ==
  ASSUME IInv, IInv', WaitInv, pc \in {"check", "hlt", "halted"}, HandlerStep
  PROVE  WaitInv'
<1>1. /\ handlers = TimerHandlers /\ pit_counter \in 0 .. MAX_MS /\ MAX_MS \in Nat
      /\ pc \in WaitStates
  BY WhileWaiting DEF WaitStates
<1>2. pc' = pc /\ UNCHANGED <<handlers, periods, lapic_irr>>
  BY DEF HandlerStep, irq_handler, pit_handler, interrupts_eoi, iret, thread, pending
<1>3. handling'.at # "entered"
  BY DEF HandlerStep, irq_handler, pit_handler, interrupts_eoi, iret, Continue, Idle,
         IInv, Taken, Handlings, Handling
<1>4. ~Ticking'
  BY <1>3 DEF Ticking
<1>5. CASE irq_handler
  <2>1. handling.at = "entered" /\ Handler = "irq_handler" /\ ~Ticking
    BY <1>5 DEF irq_handler, Handling, Ticking
  <2>2. 0 \notin pic_isr
    BY <2>1 DEF WaitInv
  <2>3. 0 \notin pic_isr' /\ UNCHANGED pit_counter
    BY <1>5, <2>2, PicEoiStep DEF irq_handler
  <2>4. Ticks' <= Ticks
    BY <1>1, <1>2, <1>4, <2>1, <2>2, <2>3 DEF Ticks, One
  <2> QED BY <1>1, <1>2, <1>3, <2>4, TicksStay
<1>6. CASE pit_handler
  <2>1. Ticking /\ UNCHANGED pic_isr /\ pit_counter' = Min({pit_counter + 1, MAX_MS})
    BY <1>6 DEF pit_handler, Handling, Ticking, pending
  <2>2. pit_counter' \in Int /\ pit_counter' <= pit_counter + 1
    <3>1. {pit_counter + 1, MAX_MS} \in SUBSET Nat
      BY <1>1
    <3> QED BY <2>1, <3>1, MinProperty
  <2>3. Ticks' <= Ticks
    BY <1>1, <1>2, <1>4, <2>1, <2>2 DEF Ticks, One
  <2> QED BY <1>1, <1>2, <1>3, <2>3, TicksStay
<1>7. CASE interrupts_eoi \/ iret
  <2>1. ~Ticking /\ UNCHANGED <<pic_isr, pit_counter>>
    BY <1>7 DEF interrupts_eoi, iret, Eoi, Ticking, pending
  <2>2. Ticks' <= Ticks
    BY <1>1, <1>2, <1>4, <2>1 DEF Ticks, One
  <2> QED BY <1>1, <1>2, <1>3, <2>2, TicksStay
<1> QED BY <1>5, <1>6, <1>7 DEF HandlerStep

\* A wait begins with no tick counted; the loop counts none itself.
LEMMA WaitThread ==
  ASSUME IInv, IInv', WaitInv, ThreadStep \/ Waits
  PROVE  WaitInv'
<1>1. CASE Waits
  <2>1. handling' = Idle /\ pit_counter' = 0 /\ periods' = 0
    BY <1>1 DEF Waits, pit_wait, Runs
  <2>2. ~Ticking' /\ handling'.at # "entered"
    BY <2>1 DEF Ticking, Idle
  <2>3. Ticks' <= periods' + 2
    BY <2>1, <2>2 DEF Ticks, One
  <2> QED BY <2>2, <2>3 DEF WaitInv
<1>2. CASE pit_check \/ hlt
  <2>1. /\ UNCHANGED <<handlers, pending, handling, pit_counter, periods>> /\ handling = Idle
        /\ pc \in {"check", "hlt"} /\ pc' \in WaitStates
    BY <1>2 DEF pit_check, hlt, Runs, WaitStates
  <2>2. handling'.at # "entered" /\ ~Ticking /\ ~Ticking'
    BY <2>1 DEF Idle, Ticking
  <2>3. pit_counter \in Nat
    BY DEF IInv, Counters
  <2>4. Ticks' <= Ticks
    BY <2>1, <2>2, <2>3 DEF Ticks, One, pending
  <2> QED BY <2>1, <2>2, <2>4, TicksStay
<1>3. CASE Boot
  <2>1. pc' \notin {"check", "hlt", "halted"}
    BY <1>3 DEF Boot, interrupts_init, sti, madt_init, apic_init, pit_init, ioapic_map_irq, Runs
  <2> QED BY <2>1 DEF WaitInv
<1> QED BY <1>1, <1>2, <1>3 DEF ThreadStep

\* The counting invariant of pit_wait is inductive.
LEMMA WaitHolds == TimerPinOwn /\ IInv /\ IInv' /\ WaitInv /\ [Next]_vars => WaitInv'
<1> SUFFICES ASSUME TimerPinOwn, IInv, IInv', WaitInv, [Next]_vars  PROVE WaitInv'
  OBVIOUS
<1>1. CASE UNCHANGED vars
  BY <1>1 DEF vars, thread, pending, WaitInv, Ticks, Ticking, Handler
<1>2. CASE ThreadStep \/ Waits
  BY <1>2, WaitThread
<1>3. CASE Timer \/ (\E l \in Lines \ {0} : Device(l)) \/ TakeFromPic \/ TakeFromApic \/ HandlerStep
  <2>1. pc' \in {"check", "hlt", "halted"} => pc \in {"check", "hlt", "halted"}
    BY <1>3 DEF Timer, Device, TakeFromPic, TakeFromApic, Dispatch, HandlerStep, irq_handler,
                pit_handler, interrupts_eoi, iret, thread
  <2>2. CASE pc \in {"check", "hlt", "halted"}
    BY <1>3, <2>2, WaitRaise, WaitTakeFromPic, WaitTakeFromApic, WaitHandlers
  <2> QED BY <2>1, <2>2 DEF WaitInv
<1> QED BY <1>1, <1>2, <1>3 DEF Next

\* A wait (src/drivers/pit.c:24) is at most two periods of the timer shorter than
\* was asked for, whatever the devices do, as long as none of them shares the
\* timer's pin: there its interrupts would count as ticks.
THEOREM LongEnough == ASSUME TimerPinOwn  PROVE Spec => WaitsLongEnough
<1>1. Init => WaitInv
  BY DEF Init, WaitInv
<1>2. IInv /\ IInv' /\ WaitInv /\ [Next]_vars => WaitInv'
  BY WaitHolds
<1>3. IInv /\ WaitInv /\ [Next]_vars =>
        [pc = "check" /\ pc' = "running" => periods + 2 >= wait]_vars
  <2> SUFFICES ASSUME IInv, WaitInv, [Next]_vars, pc = "check", pc' = "running"
               PROVE  periods + 2 >= wait
    BY DEF vars
  <2>1. pit_check
    BY DEF Next, Timer, Device, TakeFromPic, TakeFromApic, Dispatch, HandlerStep, irq_handler,
           pit_handler, interrupts_eoi, iret, thread, vars, ThreadStep, Boot, interrupts_init, sti,
           madt_init, apic_init, pit_init, ioapic_map_irq, Runs, Waits, pit_wait, hlt
  <2>2. pc \in WaitStates
    BY DEF WaitStates
  <2>3. /\ pit_counter \in Nat /\ wait \in 0 .. MAX_MS /\ periods \in 0 .. MAX_MS
        /\ MAX_MS \in Nat
    BY <2>2, WhileWaiting
  <2>4. ~(pit_counter < wait)
    BY <2>1 DEF pit_check, Runs
  <2>5. Ticks \in Int /\ pit_counter <= Ticks
    BY <2>3 DEF Ticks, One
  <2>6. periods = MAX_MS \/ Ticks <= periods + 2
    BY DEF WaitInv
  <2> HIDE DEF Ticks
  <2> QED BY <2>3, <2>4, <2>5, <2>6
<1>4. Spec => []IInv
  BY InterruptInvariant, WithoutFaults, PTL
<1> QED BY <1>1, <1>2, <1>3, <1>4, PTL DEF Spec, WaitsLongEnough
=============================================================================
