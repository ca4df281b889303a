----------------------------- MODULE Interrupts -----------------------------
(***************************************************************************)
(* Interrupts on the boot processor (src/drivers/idt.c, idt_asm.asm), the  *)
(* timer (src/drivers/pit.c) and the local and I/O APIC                    *)
(* (src/drivers/acpi.c), in the order kernel_main sets them up             *)
(* (src/core/kernel.c).                                                    *)
(*                                                                         *)
(* The thread, the processor's taking of an interrupt, the handler's steps *)
(* and the devices interleave.  An interrupt line reaches the processor by *)
(* the two 8259s (PIC), and by the I/O APIC once its pin is programmed.    *)
(* pit_counter is kept from the start of the last wait and up to its       *)
(* length, which is all that the loop of pit_wait can tell.  periods is a  *)
(* history variable.                                                       *)
(***************************************************************************)
EXTENDS Integers, Sequences, FiniteSetsExt

CONSTANTS
  Lines,          \* interrupt lines with a device; 0 is the timer's
  Overrides,      \* source overrides of the MADT: irq, gsi
  GsiBases,       \* first interrupt of each I/O APIC, as the MADT lists them
  Masks,          \* PIC masks firmware may leave
  MAX_MS,         \* longest wait
  Exceptions,     \* exceptions that may be raised, and their error codes
  ErrorCodes

ASSUME InterruptsAssumption ==
  /\ {0} \subseteq Lines /\ Lines \subseteq 0 .. 15 /\ 2 \notin Lines
  /\ Overrides \in Seq([irq : 0 .. 15, gsi : 0 .. 15])
  /\ GsiBases \in Seq(Nat) /\ Len(GsiBases) > 0 /\ GsiBases[1] = 0
  /\ \A k \in 2 .. Len(GsiBases) : GsiBases[k] > 15
  /\ \A m \in Masks : m \subseteq 0 .. 15
  /\ MAX_MS \in Nat \ {0}
  /\ Exceptions \subseteq 0 .. 31 /\ ErrorCodes \subseteq 0 .. 47

Vectors == 0 .. 47
Pins == 0 .. 23
NULL == "NULL"
Idle == [at |-> "idle"]

VARIABLES
  pc,             \* where the thread is
  handlers,       \* idt_handlers
  sti_done,       \* the thread runs with interrupts enabled
  madt_done,      \* madt_init has filled madt_ioapic_vec
  apic_on,        \* apic_init has enabled the local APIC
  pic_offset,     \* the vector of line 0, as firmware or pic_remap set it
  pic_mask, pic_irr, pic_isr,     \* lines masked, requested, in service
  virtual_wire,   \* the local APIC passes the PIC's interrupts on
  redir,          \* I/O APIC -> pin -> vector, 0 when not programmed
  lapic_irr, lapic_isr,           \* vectors requested, in service
  handling,       \* the interrupt being handled
  pit_counter, wait,              \* ticks since the wait began, and its length
  periods         \* history: periods of the timer since the wait began

thread == <<pc, handlers, sti_done, madt_done, apic_on, wait>>
pic == <<pic_offset, pic_mask, virtual_wire>>
pending == <<pic_irr, pic_isr, lapic_irr, lapic_isr>>
vars == <<thread, pic, pending, redir, handling, pit_counter, periods>>

----------------------------------------------------------------------------
(* Devices: the PIC and the APICs *)

\* The interrupt a line is wired to; the MADT's overrides say so.
Wired(line) ==
  LET S == {k \in DOMAIN Overrides : Overrides[k].irq = line}
  IN  IF S = {} THEN line ELSE Overrides[Min(S)].gsi

\* A device requests an interrupt on its line, an edge.
Raise(line) ==
  /\ pic_irr' = pic_irr \cup {line}
  /\ lapic_irr' = lapic_irr \cup
       (IF apic_on THEN {redir[1][Wired(line)]} \ {0} ELSE {})

Device(line) ==
  /\ Raise(line)
  /\ UNCHANGED <<thread, pic, pic_isr, redir, lapic_isr, handling, pit_counter, periods>>

Timer ==
  /\ Raise(0)
  /\ periods' = Min({periods + 1, MAX_MS})
  /\ UNCHANGED <<thread, pic, pic_isr, redir, lapic_isr, handling, pit_counter>>

Master(S) == S \cap (0 .. 7)
Slave(S) == S \cap (8 .. 15)

\* The lines the PICs would pass on: not masked and above all in service.  The
\* slave requests through line 2 of the master.
Passed ==
  {l \in pic_irr \ pic_mask :
     IF l < 8 THEN \A m \in Master(pic_isr) : l < m
     ELSE (\A m \in Slave(pic_isr) : l < m) /\ (\A m \in Master(pic_isr) : 2 < m)}

\* Of several, the slave's come as line 2.
Rank(l) == IF l < 8 THEN <<l, 0>> ELSE <<2, l>>
Above(l, m) == Rank(l)[1] < Rank(m)[1] \/ (Rank(l)[1] = Rank(m)[1] /\ Rank(l)[2] <= Rank(m)[2])
Highest(S) == CHOOSE l \in S : \A m \in S : Above(l, m)

\* A non-specific end of interrupt to the master.
PicEoi == pic_isr' = IF Master(pic_isr) = {} THEN pic_isr ELSE pic_isr \ {Min(Master(pic_isr))}

----------------------------------------------------------------------------
(* Taking an interrupt *)

\* Exceptions for which the processor pushes an error code.
WithErrorCode == {8} \cup (10 .. 14) \cup {17, 21, 29, 30}

\* What the stub leaves for the C code: the number is pushed first, then a
\* zero in place of an error code the processor did not push.
Context(vector, err) ==
  IF vector \in WithErrorCode THEN [err_code |-> vector, int_no |-> err]
  ELSE [err_code |-> 0, int_no |-> vector]

\* Interrupt gates: the handler runs with interrupts off.
Dispatch(vector, err, via) ==
  /\ handling' = [at |-> "entered", vector |-> vector, via |-> via,
                  int_no |-> Context(vector, err).int_no]
  /\ pc' = IF pc = "halted" THEN "check" ELSE pc

Enabled == sti_done /\ handling = Idle

TakeFromPic ==
  /\ Enabled
  /\ apic_on => virtual_wire
  /\ Passed # {}
  /\ LET l == Highest(Passed)
     IN  /\ pic_irr' = pic_irr \ {l}
         /\ pic_isr' = pic_isr \cup (IF l < 8 THEN {l} ELSE {2, l})
         /\ Dispatch(pic_offset + l, 0, "pic")
  /\ UNCHANGED <<handlers, sti_done, madt_done, apic_on, wait, pic, redir,
                 lapic_irr, lapic_isr, pit_counter, periods>>

\* All vectors here are of one priority class.
TakeFromApic ==
  /\ Enabled
  /\ apic_on /\ lapic_isr = {} /\ lapic_irr # {}
  /\ LET v == Max(lapic_irr)
     IN  /\ lapic_irr' = lapic_irr \ {v}
         /\ lapic_isr' = lapic_isr \cup {v}
         /\ Dispatch(v, 0, "apic")
  /\ UNCHANGED <<handlers, sti_done, madt_done, apic_on, wait, pic, redir,
                 pic_irr, pic_isr, pit_counter, periods>>

\* The thread's own instruction faults.
Fault(e, err) ==
  /\ sti_done /\ handling = Idle
  /\ pc # "halted"
  /\ Dispatch(e, err, "exception")
  /\ UNCHANGED <<handlers, sti_done, madt_done, apic_on, wait, pic, pending, redir,
                 pit_counter, periods>>

----------------------------------------------------------------------------
(* Handlers *)

Handler == handlers[handling.int_no]

Handling(h) == handling.at = "entered" /\ Handler = h

Continue(at) == handling' = [handling EXCEPT !.at = at]

irq_handler ==
  /\ Handling("irq_handler")
  /\ PicEoi
  /\ Continue("iret")
  /\ UNCHANGED <<thread, pic, pic_irr, lapic_irr, lapic_isr, redir, pit_counter, periods>>

pit_handler ==
  /\ Handling("pit_handler")
  /\ pit_counter' = Min({pit_counter + 1, MAX_MS})
  /\ Continue("eoi")
  /\ UNCHANGED <<thread, pic, pending, redir, periods>>

\* Mutant: the PIC is acknowledged as well.
EoiBoth ==
  /\ lapic_isr' = IF lapic_isr = {} THEN {} ELSE lapic_isr \ {Max(lapic_isr)}
  /\ PicEoi

\* apic_eoi ends the highest vector in service at the local APIC, if any.
Eoi ==
  /\ lapic_isr' = IF lapic_isr = {} THEN {} ELSE lapic_isr \ {Max(lapic_isr)}
  /\ UNCHANGED pic_isr

interrupts_eoi ==
  /\ handling.at = "eoi"
  /\ Eoi
  /\ Continue("iret")
  /\ UNCHANGED <<thread, pic, pic_irr, lapic_irr, redir, pit_counter, periods>>

\* Double fault, page fault, protection fault and exceptions without a handler
\* stop the processor.
Stops == Handler \in {"df_handler", "pf_handler", "gpf_handler"}
         \/ (Handler = NULL /\ handling.int_no < 32)

exception_stops ==
  /\ handling.at = "entered" /\ Stops
  /\ Continue("stopped")
  /\ UNCHANGED <<thread, pic, pending, redir, pit_counter, periods>>

iret ==
  /\ handling.at = "iret"
  /\ handling' = Idle
  /\ UNCHANGED <<thread, pic, pending, redir, pit_counter, periods>>

HandlerStep == irq_handler \/ pit_handler \/ interrupts_eoi \/ iret

----------------------------------------------------------------------------
(* What the thread does, from kernel_main *)

Runs(at, next) ==
  /\ pc = at /\ handling = Idle
  /\ pc' = next

\* Mutant: the PIC keeps the vectors firmware gave it.
RemapForgotten(offset) == pic_offset

Remap(offset) == offset

FirstHandlers ==
  [v \in Vectors |-> CASE v = 8  -> "df_handler"
                       [] v = 13 -> "gpf_handler"
                       [] v = 14 -> "pf_handler"
                       [] v >= 32 -> "irq_handler"
                       [] OTHER  -> NULL]

\* Mutant: the I/O APICs are known before the MADT is read.
IoapicsAtOnce == GsiBases

\* The I/O APICs that ioapic_map_gsi finds.
Ioapics == IF madt_done THEN GsiBases ELSE <<>>

\* Mutant: the overrides are not looked at.
GsiIdentity(irq) == irq

Gsi(irq) == Wired(irq)

\* The last of the I/O APICs, or an earlier one with the interrupt below the
\* next one's first.
IoapicOf(gsi) ==
  Min({k \in DOMAIN Ioapics :
         \/ k = Len(Ioapics)
         \/ Ioapics[k] <= gsi /\ gsi < Ioapics[k + 1]})

\* Programs the pins of lines one after the other, from the lowest: on a pin that
\* two of them share the vector of the later one stays.  Before madt_init there
\* is no I/O APIC: the code goes through a null pointer and its writes go
\* elsewhere.
Mapped(r, irqs) ==
  LET On(k, p) == {q \in irqs : IoapicOf(Gsi(q)) = k /\ Gsi(q) = p}
  IN  IF Ioapics = <<>> THEN r
      ELSE [k \in DOMAIN r |-> [p \in Pins |->
              IF On(k, p) = {} THEN r[k][p] ELSE 32 + Max(On(k, p))]]

NotMapped == [k \in DOMAIN GsiBases |-> [p \in Pins |-> 0]]

\* Sixteen handlers and their lines; initialising the PICs clears their
\* requests and keeps their masks.
interrupts_init ==
  /\ Runs("interrupts_init", "sti")
  /\ handlers' = FirstHandlers
  /\ redir' = Mapped(redir, 0 .. 15)
  /\ pic_offset' = Remap(32)
  /\ pic_irr' = {} /\ pic_isr' = {}
  /\ UNCHANGED <<sti_done, madt_done, apic_on, wait, pic_mask, virtual_wire,
                 lapic_irr, lapic_isr, handling, pit_counter, periods>>

sti ==
  /\ Runs("sti", "madt_init")
  /\ sti_done' = TRUE
  /\ UNCHANGED <<handlers, madt_done, apic_on, wait, pic, pending, redir, handling,
                 pit_counter, periods>>

madt_init ==
  /\ Runs("madt_init", "apic_init")
  /\ madt_done' = TRUE
  /\ UNCHANGED <<handlers, sti_done, apic_on, wait, pic, pending, redir, handling,
                 pit_counter, periods>>

apic_init ==
  /\ Runs("apic_init", "pit_init")
  /\ apic_on' = TRUE
  /\ UNCHANGED <<handlers, sti_done, madt_done, wait, pic, pending, redir, handling,
                 pit_counter, periods>>

\* interrupts_set_handler(32, pit_handler), in the order it writes.
pit_init ==
  /\ Runs("pit_init", "ioapic_map_irq")
  /\ handlers' = [handlers EXCEPT ![32] = "pit_handler"]
  /\ UNCHANGED <<sti_done, madt_done, apic_on, wait, pic, pending, redir, handling,
                 pit_counter, periods>>

ioapic_map_irq ==
  /\ Runs("ioapic_map_irq", "running")
  /\ redir' = Mapped(redir, {0})
  /\ UNCHANGED <<handlers, sti_done, madt_done, apic_on, wait, pic, pending, handling,
                 pit_counter, periods>>

pit_wait(ms) ==
  /\ Runs("running", "check")
  /\ wait' = ms
  /\ pit_counter' = 0
  /\ periods' = 0
  /\ UNCHANGED <<handlers, sti_done, madt_done, apic_on, pic, pending, redir, handling>>

\* The loop's test, and its hlt: an interrupt may come between them.
pit_check ==
  /\ Runs("check", IF pit_counter < wait THEN "hlt" ELSE "running")
  /\ UNCHANGED <<handlers, sti_done, madt_done, apic_on, wait, pic, pending, redir,
                 handling, pit_counter, periods>>

hlt ==
  /\ Runs("hlt", "halted")
  /\ UNCHANGED <<handlers, sti_done, madt_done, apic_on, wait, pic, pending, redir,
                 handling, pit_counter, periods>>

Waits == \E ms \in 1 .. MAX_MS : pit_wait(ms)

Boot == interrupts_init \/ sti \/ madt_init \/ apic_init \/ pit_init \/ ioapic_map_irq

ThreadStep == Boot \/ pit_check \/ hlt

----------------------------------------------------------------------------
Init ==
  /\ pc = "interrupts_init"
  /\ handlers = [v \in Vectors |-> NULL]
  /\ sti_done = FALSE /\ madt_done = FALSE /\ apic_on = FALSE
  /\ pic_offset = 8
  /\ pic_mask \in Masks
  /\ pic_irr = {} /\ pic_isr = {}
  /\ virtual_wire \in BOOLEAN
  /\ redir = NotMapped
  /\ lapic_irr = {} /\ lapic_isr = {}
  /\ handling = Idle
  /\ pit_counter = 0 /\ wait = 0 /\ periods = 0

Next ==
  \/ Timer
  \/ \E l \in Lines \ {0} : Device(l)
  \/ TakeFromPic
  \/ TakeFromApic
  \/ HandlerStep
  \/ ThreadStep
  \/ Waits

\* The timer goes on, the processor takes what is pending and runs, and between
\* two interrupts the thread gets to run.
Fairness ==
  /\ WF_vars(Timer)
  /\ WF_vars(TakeFromPic) /\ WF_vars(TakeFromApic)
  /\ WF_vars(HandlerStep)
  /\ SF_vars(ThreadStep)

Spec == Init /\ [][Next]_vars /\ Fairness

\* With faults of the thread.
FaultNext ==
  \/ Next
  \/ \E e \in Exceptions : \E err \in ErrorCodes : Fault(e, err)
  \/ exception_stops
FaultSpec == Init /\ [][FaultNext]_vars

----------------------------------------------------------------------------
(* Properties *)

TypeOK ==
  /\ handlers \in [Vectors -> {NULL, "df_handler", "pf_handler", "gpf_handler",
                               "irq_handler", "pit_handler"}]
  /\ pic_offset \in {8, 32}
  /\ pic_irr \subseteq Lines /\ pic_isr \subseteq Lines \cup {2}
  /\ redir \in [DOMAIN GsiBases -> [Pins -> {0} \cup 32 .. 47]]
  /\ lapic_irr \subseteq 32 .. 47 /\ lapic_isr \subseteq 32 .. 47
  /\ handling = Idle \/ handling.int_no \in Vectors
  /\ pit_counter \in 0 .. MAX_MS /\ wait \in 0 .. MAX_MS /\ periods \in 0 .. MAX_MS

\* No device's interrupt arrives at a vector of the processor's exceptions,
\* where it would be taken for a fault and stop the kernel: not from firmware's
\* PIC vectors, and not between any two steps of the set-up.
NoInterruptTakenForFault ==
  handling # Idle /\ handling.via \in {"pic", "apic"} =>
    Handler \in {"irq_handler", "pit_handler"}

\* Every interrupt that came through the local APIC has been acknowledged there
\* when its handler returns, though irq_handler acknowledges only the PIC: none
\* of its lines may come through the I/O APIC.
LocalApicAcknowledged ==
  handling.at \in {"idle", "iret"} => lapic_isr = {}

\* Every pit_wait returns, although an interrupt between the test and the hlt
\* is slept through, pit_handler never acknowledges the PIC, and every other
\* line it shares falls silent for that.
WaitsEnd == pc = "check" ~> pc = "running"

\* A wait is at most two ticks short: one was pending when it began, and one
\* came a second time, by the PIC.  The PIC counts a tick only once because it
\* is not acknowledged.
WaitsLongEnough ==
  [][pc = "check" /\ pc' = "running" => periods + 2 >= wait]_vars

\* The handler that runs is the one of the vector: the stub is to "Push int_no
\* FIRST" (idt_asm.asm) and the context reads it from there (idt.h).
DispatchedByNumber ==
  handling # Idle => handling.int_no = handling.vector
=============================================================================
