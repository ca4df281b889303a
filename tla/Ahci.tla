-------------------------------- MODULE Ahci --------------------------------
(***************************************************************************)
(* The AHCI driver (src/drivers/ahci.c) and one port of a host adapter.    *)
(* The driver is the kernel's one thread and polls; the adapter works on   *)
(* its own, so its steps fall between any two of the driver's.  All        *)
(* commands of a port share one command list, one frame for command tables *)
(* and one DMA buffer.                                                     *)
(*                                                                         *)
(* A command stands for the data it fetches.  Timeouts are loops that give *)
(* up after a count; here they may give up whenever they would go on.      *)
(* From the adapter the driver relies on the AHCI rules that clearing      *)
(* PxCMD.ST clears PxCI, that the task file is busy while a command is     *)
(* carried out, and that an error halts the port until ST is cleared.      *)
(***************************************************************************)
EXTENDS Integers, FiniteSetsExt

CONSTANTS
  Slots,      \* command slots of the port (32)
  Lbas        \* sectors callers read

ASSUME AhciAssumption ==
  /\ 0 \in Slots /\ Slots \subseteq Nat
  /\ 0 \in Lbas /\ Lbas \subseteq Nat

Read(l) == [kind |-> "read", lba |-> l]
Identify == [kind |-> "identify", lba |-> 0]
Inquiry == [kind |-> "inquiry", lba |-> 0]
None == [kind |-> "none", lba |-> 0]
Commands == {Read(l) : l \in Lbas} \cup {Identify, Inquiry, None}

Unset == -1

VARIABLES
  st, cr,     \* PxCMD: start, and command list running
  ci,         \* PxCI: the slots issued and not completed
  tfes,       \* PxIS: task file error
  halted,     \* the port stopped at an error
  active,     \* the slot and command being carried out
  hdr,        \* command list: slot -> index of its command table, or Unset
  table,      \* command tables, one per slot, from ct_ph on
  buf,        \* the command whose data the DMA buffer holds
  pc, stage,  \* where the driver is, and what it is about on this port
  cmd, slot,  \* the command it is carrying out, and in which slot
  attempt,    \* of an identification
  resetting,  \* inside port_reset_and_wait
  result,     \* the last answer of ahci_read
  early       \* history: a command was issued while the port was not running

hba    == <<st, cr, ci, tfes, halted, active>>
memory == <<hdr, table, buf>>
driver == <<pc, stage, cmd, slot, attempt, resetting, result>>
vars   == <<hba, memory, driver, early>>

Busy == active.slot # Unset
NotActive == [slot |-> Unset, cmd |-> None]

----------------------------------------------------------------------------
(* The adapter *)

HbaRun ==
  /\ st /\ ~cr
  /\ cr' = TRUE
  /\ UNCHANGED <<st, ci, tfes, halted, active, memory, driver>>

\* The port stops some time after ST is cleared and drops what it was doing.
HbaStop ==
  /\ ~st /\ cr
  /\ cr' = FALSE
  /\ halted' = FALSE
  /\ active' = NotActive
  /\ UNCHANGED <<st, ci, tfes, memory, driver>>

HbaFetch(s) ==
  /\ st /\ cr /\ ~halted /\ ~Busy
  /\ s \in ci
  /\ active' = [slot |-> s, cmd |-> IF hdr[s] = Unset THEN None ELSE table[hdr[s]]]
  /\ UNCHANGED <<st, cr, ci, tfes, halted, memory, driver>>

HbaComplete ==
  /\ cr /\ Busy
  /\ buf' = IF active.cmd = None THEN buf ELSE active.cmd
  /\ ci' = ci \ {active.slot}
  /\ active' = NotActive
  /\ UNCHANGED <<st, cr, tfes, halted, hdr, table, driver>>

HbaError ==
  /\ cr /\ Busy
  /\ tfes' = TRUE
  /\ halted' = TRUE
  /\ active' = NotActive
  /\ UNCHANGED <<st, cr, ci, memory, driver>>

HbaNext == HbaRun \/ HbaStop \/ (\E s \in Slots : HbaFetch(s)) \/ HbaComplete \/ HbaError

----------------------------------------------------------------------------
(* Where the driver goes next *)

GoTo(label) == pc' = label

\* ahci_read answers; identification goes on to its second read, and registers
\* the disk after that one.
Return(ok, data) ==
  /\ GoTo("idle")
  /\ result' = [ok |-> ok, data |-> data]
  /\ stage' = IF ~ok /\ stage # "serve" THEN "unused"
              ELSE IF stage = "test1" THEN "test2" ELSE "serve"

\* ahci_identify_port gives up: no disk is registered.
GiveUp ==
  /\ GoTo("idle")
  /\ stage' = "unused"
  /\ UNCHANGED result

FailNow == IF cmd.kind = "read" THEN Return(FALSE, None) ELSE GiveUp

\* The identification is over, whatever it found; sector 0 is read next.
TestRead ==
  /\ GoTo("idle")
  /\ stage' = "test1"
  /\ UNCHANGED result

FreeSlots == Slots \ ci

\* Mutant: slots issued but not completed are taken again.
FreeSlot_any == Min(Slots)

\* find_cmdslot
FreeSlot == IF FreeSlots = {} THEN Unset ELSE Min(FreeSlots)

----------------------------------------------------------------------------
(* start_port and port_reset_and_wait *)

\* Mutant: giving up on the port, the driver does not come back.
GivenUp_not == FALSE

\* The port is not seen to run or, after a reset, no device is seen.
GivenUp == ~cr \/ resetting

\* Mutant: a port that runs is not stopped, so what it has issued stays.
start_port_stop_skipped ==
  /\ pc = "start"
  /\ GoTo("run")
  /\ UNCHANGED <<hba, memory, stage, cmd, slot, attempt, resetting, result>>

\* A port that is running is stopped first, which clears PxCI.
start_port_stop ==
  /\ pc = "start"
  /\ IF cr
     THEN st' = FALSE /\ ci' = {} /\ GoTo("wait_stop")
     ELSE UNCHANGED <<st, ci>> /\ GoTo("run")
  /\ UNCHANGED <<cr, tfes, halted, active, memory, stage, cmd, slot, attempt, resetting, result>>

\* The wait for CR to clear goes on whether it cleared or not.
start_port_run ==
  /\ pc \in {"wait_stop", "run"}
  /\ st' = TRUE
  /\ GoTo("wait_run")
  /\ UNCHANGED <<cr, ci, tfes, halted, active, memory, stage, cmd, slot, attempt, resetting, result>>

\* The command goes out next after a reset; a read waits for the task file.
start_port_running ==
  /\ pc = "wait_run" /\ cr
  /\ GoTo(CASE resetting -> "issue" [] cmd.kind = "read" -> "busy" [] OTHER -> "prepare")
  /\ resetting' = FALSE
  /\ UNCHANGED <<hba, memory, stage, cmd, slot, attempt, result>>

\* The port does not come up or, after a reset, no device answers.  An inquiry
\* is then sent all the same.
start_port_timeout ==
  /\ pc = "wait_run"
  /\ GivenUp
  /\ IF cmd.kind = "inquiry" THEN GoTo("issue") /\ UNCHANGED <<stage, result>> ELSE FailNow
  /\ resetting' = FALSE
  /\ UNCHANGED <<hba, memory, cmd, slot, attempt>>

\* stop_port and COMRESET; the errors are cleared before the port is started.
port_reset ==
  /\ pc = "reset"
  /\ st' = FALSE /\ ci' = {} /\ tfes' = FALSE
  /\ active' = NotActive
  /\ resetting' = TRUE
  /\ GoTo("start")
  /\ UNCHANGED <<cr, halted, memory, stage, cmd, slot, attempt, result>>

----------------------------------------------------------------------------
(* ahci_read *)

ahci_read(l) ==
  /\ pc = "idle"
  /\ stage = "serve" \/ (stage \in {"test1", "test2"} /\ l = 0)
  /\ cmd' = Read(l)
  /\ GoTo("start")
  /\ result' = [ok |-> FALSE, data |-> None]
  /\ UNCHANGED <<hba, memory, stage, slot, attempt, resetting>>

\* Mutant: the task file is not waited for.
TaskFileReady_ignored == TRUE

TaskFileReady == ~Busy

read_not_busy ==
  /\ pc = "busy" /\ TaskFileReady
  /\ GoTo("prepare")
  /\ UNCHANGED <<hba, memory, stage, cmd, slot, attempt, resetting, result>>

read_still_busy ==
  /\ pc = "busy" /\ Busy
  /\ Return(FALSE, None)
  /\ UNCHANGED <<hba, memory, cmd, slot, attempt, resetting>>

\* Errors cleared, a slot chosen, its header and command table written.
read_prepare ==
  /\ pc = "prepare" /\ cmd.kind = "read"
  /\ tfes' = FALSE
  /\ slot' = FreeSlot
  /\ IF FreeSlot = Unset
     THEN Return(FALSE, None) /\ UNCHANGED <<hdr, table>>
     ELSE /\ hdr' = [hdr EXCEPT ![FreeSlot] = FreeSlot]
          /\ table' = [table EXCEPT ![FreeSlot] = cmd]
          /\ GoTo("issue")
          /\ UNCHANGED <<stage, result>>
  /\ UNCHANGED <<st, cr, ci, halted, active, buf, cmd, attempt, resetting>>

read_issue ==
  /\ pc = "issue" /\ cmd.kind = "read"
  /\ ci' = ci \cup {slot}
  /\ GoTo("poll")
  /\ UNCHANGED <<st, cr, tfes, halted, active, memory, stage, cmd, slot, attempt, resetting, result>>

read_completed ==
  /\ pc = "poll" /\ cmd.kind = "read"
  /\ slot \notin ci
  /\ Return(TRUE, buf)
  /\ UNCHANGED <<hba, memory, cmd, slot, attempt, resetting>>

\* TFES, or the loop ran out with the command still issued.
read_failed ==
  /\ pc = "poll" /\ cmd.kind = "read"
  /\ slot \in ci
  /\ Return(FALSE, None)
  /\ UNCHANGED <<hba, memory, cmd, slot, attempt, resetting>>

----------------------------------------------------------------------------
(* ahci_identify_port_internal *)

identify_call ==
  /\ pc = "idle" /\ stage = "found"
  /\ stage' = "identify"
  /\ cmd' = Identify
  /\ attempt' = 0
  /\ GoTo("controller")
  /\ UNCHANGED <<hba, memory, slot, resetting, result>>

\* The place of the adapter in the table of controllers; all four may be taken
\* by other adapters.
ahci_get_controller ==
  /\ pc = "controller"
  /\ \/ GoTo("frames") /\ UNCHANGED <<stage, result>>
     \/ GiveUp
  /\ UNCHANGED <<hba, memory, cmd, slot, attempt, resetting>>

\* Command list, receive area, command table and buffer, a frame each; the ones
\* taken before an allocation that fails stay with a port that is not used.
allocate_frames ==
  /\ pc = "frames"
  /\ \/ GoTo("start") /\ UNCHANGED <<stage, result>>
     \/ GiveUp
  /\ UNCHANGED <<hba, memory, cmd, slot, attempt, resetting>>

\* Command list wiped; only its first entry is filled in.
identify_prepare ==
  /\ pc = "prepare" /\ cmd.kind = "identify"
  /\ hdr' = [s \in Slots |-> IF s = 0 THEN 0 ELSE Unset]
  /\ table' = [table EXCEPT ![0] = Identify]
  /\ GoTo("issue")
  /\ UNCHANGED <<hba, buf, stage, cmd, slot, attempt, resetting, result>>

identify_issue ==
  /\ pc = "issue" /\ cmd.kind = "identify"
  /\ tfes' = FALSE
  /\ slot' = FreeSlot
  /\ IF FreeSlot = Unset
     THEN GiveUp /\ UNCHANGED ci
     ELSE ci' = ci \cup {FreeSlot} /\ GoTo("poll") /\ UNCHANGED <<stage, result>>
  /\ UNCHANGED <<st, cr, halted, active, memory, cmd, attempt, resetting>>

\* The loop ends by completion, by an error, or by its count.
identify_polled ==
  /\ pc = "poll" /\ cmd.kind # "read"
  /\ GoTo("check")
  /\ UNCHANGED <<hba, memory, stage, cmd, slot, attempt, resetting, result>>

LastAttempt == attempt = 1

\* An error: the first one resets the port and tries again.
identify_error ==
  /\ pc = "check" /\ tfes
  /\ attempt' = attempt + 1
  /\ IF ~LastAttempt THEN GoTo("reset") /\ UNCHANGED <<stage, result>>
     ELSE IF cmd.kind = "identify" THEN GiveUp ELSE TestRead
  /\ UNCHANGED <<hba, memory, cmd, slot, resetting>>

\* No error.  Identification that looks empty goes on to an ATAPI INQUIRY.
identify_parsed ==
  /\ pc = "check" /\ ~tfes
  /\ IF cmd.kind = "identify"
     THEN \/ buf.kind = "identify" /\ TestRead
          \/ GoTo("inquiry") /\ UNCHANGED <<stage, result>>
     ELSE TestRead
  /\ UNCHANGED <<hba, memory, cmd, slot, attempt, resetting>>

\* The first header and table are written again; the slot is any free one.
inquiry_prepare ==
  /\ pc = "inquiry"
  /\ table' = [table EXCEPT ![0] = Inquiry]
  /\ hdr' = [hdr EXCEPT ![0] = 0]
  /\ tfes' = FALSE
  /\ slot' = FreeSlot
  /\ cmd' = Inquiry
  /\ attempt' = 0
  /\ IF FreeSlot = Unset THEN TestRead ELSE GoTo("issue") /\ UNCHANGED <<stage, result>>
  /\ UNCHANGED <<st, cr, ci, halted, active, buf, resetting>>

inquiry_issue ==
  /\ pc = "issue" /\ cmd.kind = "inquiry"
  /\ ci' = ci \cup {slot}
  /\ GoTo("poll")
  /\ UNCHANGED <<st, cr, tfes, halted, active, memory, stage, cmd, slot, attempt, resetting, result>>

----------------------------------------------------------------------------
\* The firmware left the port stopped or running.
Init ==
  /\ st \in BOOLEAN /\ cr = st
  /\ ci = {} /\ tfes = FALSE /\ halted = FALSE /\ active = NotActive
  /\ hdr = [s \in Slots |-> Unset]
  /\ table = [s \in Slots |-> None]
  /\ buf = None
  /\ pc = "idle" /\ stage = "found"
  /\ cmd = None /\ slot = Unset /\ attempt = 0 /\ resetting = FALSE
  /\ result = [ok |-> FALSE, data |-> None]
  /\ early = FALSE

DriverStep ==
  \/ start_port_stop \/ start_port_run \/ start_port_running \/ start_port_timeout
  \/ port_reset
  \/ read_not_busy \/ read_still_busy \/ read_prepare \/ read_issue
  \/ read_completed \/ read_failed
  \/ ahci_get_controller \/ allocate_frames
  \/ identify_prepare \/ identify_issue \/ identify_polled \/ identify_error
  \/ identify_parsed \/ inquiry_prepare \/ inquiry_issue

Calls == identify_call \/ \E l \in Lbas : ahci_read(l)

Record == early' = (early \/ (ci' \ ci # {} /\ ~cr))

Next == (HbaNext \/ DriverStep \/ Calls) /\ Record

\* The kernel thread runs on; nothing is asked of the adapter.
Fairness == WF_vars(DriverStep /\ Record)

Spec == Init /\ [][Next]_vars /\ Fairness

----------------------------------------------------------------------------
(* Properties *)

\* The types of the variables.
TypeOK ==
  /\ {st, cr, tfes, halted, resetting} \subseteq BOOLEAN
  /\ ci \subseteq Slots
  /\ active \in [slot : Slots \cup {Unset}, cmd : Commands]
  /\ hdr \in [Slots -> Slots \cup {Unset}]
  /\ table \in [Slots -> Commands]
  /\ {buf, cmd} \subseteq Commands
  /\ slot \in Slots \cup {Unset}
  /\ attempt \in 0 .. 2
  /\ result \in [ok : BOOLEAN, data : Commands]
  /\ stage \in {"found", "identify", "test1", "test2", "serve", "unused"}

\* A read that succeeds hands over the sector it was asked for, though the
\* buffer is shared with commands that timed out and may complete later.  It
\* rests on start_port finding the port running, so stopping it, and with it
\* all it has issued: not so once an inquiry went to a port at rest.
ReadReturnsRequested == ~early /\ result.ok => result.data = cmd

\* Reads use the first slot, so the command table lies in the one frame the
\* port has for them; with the same proviso.
TablesInOwnFrame == ~early /\ cmd.kind = "read" /\ pc \in {"issue", "poll"} => slot = 0

\* A read never rewrites the header or the table of a command that is still
\* issued, which the adapter may fetch at any time.
IssuedSlotsKept ==
  [][ cmd.kind = "read" =>
        \A s \in ci : hdr'[s] = hdr[s] /\ table'[s] = table[s] ]_vars

\* A call comes back whatever the adapter does, or does not do.
CallsReturn == (pc # "idle") ~> (pc = "idle")
=============================================================================
