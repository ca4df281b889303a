-------------------------------- MODULE Ide --------------------------------
(***************************************************************************)
(* The IDE driver (src/drivers/ide.c): ide_attach chooses the ports of the *)
(* two channels and identifies up to two drives on each, by polling.       *)
(*                                                                         *)
(* A drive carries out a command on its own.  The two drives of a channel  *)
(* share its registers: a write to the address registers reaches both, a   *)
(* command only the one selected.  A wait gives up whenever it would go    *)
(* on; a drive whose command was given up may answer later.                *)
(***************************************************************************)
EXTENDS Integers

Channels == {0, 1}
Drives == Channels \X {0, 1}

VARIABLES
  kind,           \* what is connected at each place
  native,         \* channels the controller has at the ports of its BARs
  bar_io,         \* channels whose BAR is one of ports
  ide_command,    \* the controller's PCI command register
  ports,          \* base_io and ctrl_port: at which ports the driver looks
  nien,           \* channels whose interrupts are off
  sel,            \* the drive selected on each channel
  drive,          \* registers of each drive, and the command under way
  ide_pc, at,     \* what the driver does, and for which drive
  cmd,            \* its local: the command issued
  found,          \* drives identified, with the data read
  missed          \* history: drives that were busy when looked for, or given up

ivars == <<kind, native, bar_io, ide_command, ports, nien, sel, drive, ide_pc, at, cmd,
           found, missed>>

\* "blank" identifies itself with zeros, "mute" does not answer, "slow" is busy
\* from the start, "odd" has a signature nobody knows, "faulty" aborts commands.
Kinds == {"none", "ata", "atapi", "odd", "blank", "mute", "slow", "faulty"}

----------------------------------------------------------------------------
(* The drives *)

Present_at(d) == kind[d] # "none"
Selected == <<at[1], sel[at[1]]>>

\* The registers answer at the ports the controller decodes, if it does at all
\* and a drive is connected to the channel.
Answers(c) ==
  /\ "io" \in ide_command
  /\ ports[c] = IF c \in native THEN "bar" ELSE "legacy"
  /\ Present_at(<<c, 0>>) \/ Present_at(<<c, 1>>)

\* Status: nothing drives the bus; the other drive answers for one that is not
\* there; or the flags of the drive.
Floating == ~Answers(at[1])
Zero == ~Floating /\ ~Present_at(Selected)
BSY == ~Floating /\ ~Zero /\ drive[Selected].busy
DRQ == ~Floating /\ ~Zero /\ drive[Selected].drq
ERR == ~Floating /\ ~Zero /\ drive[Selected].err

Packet(d) == kind[d] = "atapi"
Understands(d, c) == kind[d] # "faulty" /\ (c = "IDENTIFY_PACKET") = Packet(d)

OwnSignature(d) == IF Packet(d) THEN "atapi" ELSE IF kind[d] = "odd" THEN "other" ELSE "ata"

\* The registers r of a drive that has done its command: data to read, or the
\* command aborted.  A packet drive leaves a byte count, or when it aborts its
\* signature.
Command_done(d, r) ==
  IF r.cmd = "reset" THEN [r EXCEPT !.busy = FALSE, !.cmd = "none"]
  ELSE IF Understands(d, r.cmd)
  THEN [r EXCEPT !.busy = FALSE, !.drq = TRUE, !.sig = IF Packet(d) THEN "other" ELSE @]
  ELSE [r EXCEPT !.busy = FALSE, !.err = TRUE, !.sig = IF Packet(d) THEN "atapi" ELSE @]

Answer(d) ==
  /\ drive[d].busy /\ kind[d] # "mute"
  /\ drive' = [drive EXCEPT ![d] = Command_done(d, drive[d])]
  /\ UNCHANGED <<kind, native, bar_io, ide_command, ports, nien, sel, ide_pc, at, cmd,
                 found, missed>>

\* The address registers are cleared, in both drives that are not busy, and the
\* drive selected gets a command.
Issue(c, clears) ==
  drive' = [d \in Drives |->
    IF d[1] # at[1] \/ drive[d].busy THEN drive[d]
    ELSE [busy |-> d = Selected \/ drive[d].busy,
          err  |-> drive[d].err /\ d # Selected,
          drq  |-> drive[d].drq /\ d # Selected,
          sig  |-> IF clears THEN "ata" ELSE drive[d].sig,
          cmd  |-> IF d = Selected THEN c ELSE drive[d].cmd]]

----------------------------------------------------------------------------
(* The driver *)

Select(d) == sel' = [sel EXCEPT ![d[1]] = d[2]]

Ports(c) == IF c \in native /\ c \in bar_io THEN "bar" ELSE "legacy"

ide_attach ==
  /\ ide_pc = "attach"
  /\ ide_command' = ide_command \cup {"io", "master"}
  /\ ports' = [c \in Channels |-> Ports(c)]
  /\ nien' = Channels
  /\ at' = <<0, 0>> /\ ide_pc' = "probe"
  /\ UNCHANGED <<kind, native, bar_io, sel, drive, cmd, found, missed>>

\* The next of the four places, after this one has been found or not.
NextPlace ==
  IF at = <<1, 1>> THEN ide_pc' = "done" /\ UNCHANGED at
  ELSE /\ at' = IF at[2] = 0 THEN <<at[1], 1>> ELSE <<1, 0>>
       /\ ide_pc' = "probe"

Fails == NextPlace /\ UNCHANGED <<kind, native, bar_io, ide_command, ports, nien, sel, drive,
                                  cmd, found>>

\* ide_check_device_present: 0 is none, 1 ATA, 2 ATAPI, 3 unknown.  While a
\* drive is busy its registers show no signature.
Device_type(d) ==
  IF ~Answers(d[1]) \/ ~Present_at(d) \/ drive[d].busy THEN 0
  ELSE CASE drive[d].sig = "ata" -> 1 [] drive[d].sig = "atapi" -> 2 [] OTHER -> 3

ide_check_device_present ==
  /\ ide_pc = "probe"
  /\ Select(at)
  /\ LET d == <<at[1], sel'[at[1]]>>
         type == Device_type(d)
     IN  IF type = 0
         THEN NextPlace /\ missed' = (IF drive[d].busy THEN missed \cup {at} ELSE missed)
                        /\ UNCHANGED cmd
         ELSE /\ cmd' = IF type = 2 THEN "IDENTIFY_PACKET" ELSE "IDENTIFY"
              /\ ide_pc' = "select" /\ UNCHANGED <<at, missed>>
  /\ UNCHANGED <<kind, native, bar_io, ide_command, ports, nien, drive, found>>

\* The drive is no longer busy: the command is issued.
issue_command ==
  /\ ide_pc = "select" /\ ~Floating /\ ~BSY
  /\ Issue(cmd, TRUE)
  /\ ide_pc' = "issued"
  /\ UNCHANGED <<kind, native, bar_io, ide_command, ports, nien, sel, at, cmd, found, missed>>

\* Mutant: the command tried after an abort is the one aborted.
SameCommand(c) == c

OtherCommand(c) == IF c = "IDENTIFY" THEN "IDENTIFY_PACKET" ELSE "IDENTIFY"

\* The first command was aborted: the drive is of the other type.
try_alternate ==
  /\ ide_pc = "issued" /\ ~Floating /\ ~BSY /\ ERR
  /\ cmd' = OtherCommand(cmd)
  /\ Issue(OtherCommand(cmd), FALSE)
  /\ ide_pc' = "retried"
  /\ UNCHANGED <<kind, native, bar_io, ide_command, ports, nien, sel, at, found, missed>>

both_aborted ==
  /\ ide_pc = "retried" /\ ~Floating /\ ~BSY /\ ERR
  /\ Fails /\ UNCHANGED missed

not_aborted ==
  /\ ide_pc \in {"issued", "retried"} /\ ~Floating /\ ~BSY /\ ~ERR
  /\ ide_pc' = "drq"
  /\ UNCHANGED <<kind, native, bar_io, ide_command, ports, nien, sel, drive, at, cmd, found,
                 missed>>

\* The data is read, and kept unless it is all zeros.
read_data ==
  /\ ide_pc = "drq" /\ DRQ
  /\ found' = IF kind[Selected] = "blank" THEN found
              ELSE found \cup {[place |-> at, from |-> Selected, by |-> drive[Selected].cmd]}
  /\ drive' = [drive EXCEPT ![Selected].drq = FALSE]
  /\ NextPlace
  /\ UNCHANGED <<kind, native, bar_io, ide_command, ports, nien, sel, cmd, missed>>

\* A wait gives up.
give_up ==
  /\ \/ ide_pc \in {"select", "issued", "retried"} /\ (Floating \/ BSY)
     \/ ide_pc = "drq" /\ ~DRQ
  /\ Fails
  /\ missed' = missed \cup {at}

IdeDriver ==
  \/ ide_attach \/ ide_check_device_present \/ issue_command \/ try_alternate
  \/ both_aborted \/ not_aborted \/ read_data \/ give_up

\* A channel at the ports of its BAR has a BAR of ports.
IdeMachine(m) == m.native \subseteq m.bar_io

\* m says what is connected, and how firmware left the controller.
IdeInit(m) ==
  /\ kind = m.kind /\ native = m.native /\ bar_io = m.bar_io
  /\ ide_command = m.command
  /\ ports = [c \in Channels |-> "none"]
  /\ nien = {}
  /\ sel = [c \in Channels |-> 0]
  /\ drive = [d \in Drives |-> [busy |-> kind[d] = "slow", err |-> FALSE, drq |-> FALSE,
                                sig |-> OwnSignature(d),
                                cmd |-> IF kind[d] = "slow" THEN "reset" ELSE "none"]]
  /\ ide_pc = "attach" /\ at = <<0, 0>> /\ cmd = "none"
  /\ found = {} /\ missed = {}

IdeNext == IdeDriver \/ \E d \in Drives : Answer(d)

----------------------------------------------------------------------------
(* Properties *)

\* It answers, and carries out the command of its type.
Sound_drive(d) == kind[d] \in {"ata", "atapi", "odd", "slow"}

\* The data taken for a drive's identification is that drive's, and the answer
\* to a command of its own type, though the other drive of the channel may
\* answer a command that was given up at any moment.  A sound drive is
\* identified unless it was busy or given up: also one whose signature the
\* identification of its neighbour has cleared, by way of the aborted command.
DrivesIdentified ==
  /\ \A r \in found : r.from = r.place /\ Understands(r.place, r.by)
  /\ ide_pc = "done" =>
       \A d \in Drives \ missed : Sound_drive(d) => \E r \in found : r.place = d
=============================================================================
