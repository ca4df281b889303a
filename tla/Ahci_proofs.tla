---------------------------- MODULE Ahci_proofs ----------------------------
(***************************************************************************)
(* Theorems about the AHCI driver and one port, for any number of command  *)
(* slots and any sectors: what a read hands over, where its table lies,    *)
(* and which entries of the port's memory it may write.                    *)
(***************************************************************************)
EXTENDS Ahci, NaturalsInduction, WellFoundedInduction, TLAPS

----------------------------------------------------------------------------
(* The slot a command gets *)

\* A set of naturals that is not empty has a least element.
LEMMA LeastExists ==
  ASSUME NEW S \in SUBSET Nat, S # {}
  PROVE  \E x \in S : \A y \in S : x <= y
<1> DEFINE Less == {ss \in Nat \X Nat : ss[1] < ss[2]}
<1>1. IsWellFoundedOn(Less, Nat)
  BY NatLessThanWellFounded, Zenon DEF OpToRel
<1>2. PICK x \in S : \A y \in S : <<y, x>> \notin Less
  <2> HIDE DEF Less
  <2> QED BY <1>1, WFMin
<1>3. \A y \in S : x <= y
  <2> SUFFICES ASSUME NEW y \in S  PROVE x <= y
    OBVIOUS
  <2>1. <<y, x>> \in Nat \X Nat /\ <<y, x>> \notin Less
    BY <1>2
  <2>2. <<y, x>>[1] = y /\ <<y, x>>[2] = x
    OBVIOUS
  <2>3. ~ (y < x) /\ y \in Nat /\ x \in Nat
    BY <2>1, <2>2
  <2> QED BY <2>3
<1> QED BY <1>3

\* The minimum of a set of naturals is its least member.
LEMMA MinProperty ==
  ASSUME NEW S \in SUBSET Nat, S # {}
  PROVE  Min(S) \in S /\ \A y \in S : Min(S) <= y
BY LeastExists DEF Min

\* A free slot is not issued; the first one when nothing is.
LEMMA FreeSlotProperty ==
  /\ FreeSlot # Unset => FreeSlot \in Slots \ ci
  /\ FreeSlot \in Slots \cup {Unset}
  /\ ci = {} => FreeSlot = 0
<1>1. FreeSlots \in SUBSET Nat /\ FreeSlots \subseteq Slots \ ci
  BY AhciAssumption DEF FreeSlots
<1>2. FreeSlots # {} => FreeSlot = Min(FreeSlots) /\ Min(FreeSlots) \in FreeSlots
  BY <1>1, MinProperty DEF FreeSlot
<1>3. FreeSlots = {} => FreeSlot = Unset
  BY DEF FreeSlot
<1>4. ASSUME ci = {}  PROVE FreeSlot = 0
  <2>1. 0 \in FreeSlots /\ Min(FreeSlots) <= 0 /\ Min(FreeSlots) \in Nat
    BY <1>1, <1>4, AhciAssumption, MinProperty DEF FreeSlots
  <2> QED BY <1>2, <2>1
<1> QED BY <1>1, <1>2, <1>3, <1>4

\* The commands.
LEMMA CommandsProperty ==
  /\ {Identify, Inquiry, None} \subseteq Commands /\ \A l \in Lbas : Read(l) \in Commands
  /\ Identify.kind = "identify" /\ Inquiry.kind = "inquiry" /\ None.kind = "none"
  /\ \A l \in Lbas : Read(l).kind = "read"
  /\ \A c \in Commands : c.kind \in {"read", "identify", "inquiry", "none"}
  /\ \A c \in Commands : c.kind = "identify" => c = Identify
BY DEF Commands, Identify, Inquiry, None, Read

----------------------------------------------------------------------------
(* The inductive invariant *)

PCs == {"idle", "controller", "frames", "start", "wait_stop", "run", "wait_run", "busy",
        "prepare", "issue", "poll", "check", "reset", "inquiry"}

Types == TypeOK /\ pc \in PCs

\* Which command the driver is carrying out where.
Work ==
  /\ stage = "found" => pc = "idle" /\ cmd = None
  /\ pc \in {"controller", "frames", "check", "reset", "inquiry"} => cmd.kind # "read"
  /\ pc = "busy" => cmd.kind = "read"
  /\ pc = "inquiry" => cmd = Identify
  /\ pc # "idle" => ~result.ok /\ cmd # None
  /\ result.ok => cmd.kind = "read"
  /\ attempt = 2 => pc = "idle" \/ cmd.kind = "read"
  /\ resetting => pc \in {"start", "wait_stop", "run", "wait_run"} /\ cmd.kind # "read"
  /\ pc # "idle" /\ cmd.kind = "inquiry" => slot # Unset
  /\ pc \in {"issue", "poll"} /\ cmd.kind = "read" => slot # Unset

\* A port that was stopped has nothing issued; and, unless a command went out
\* early, nothing is issued from the start of a command to its issue.
Issued ==
  /\ ~st => ci = {} /\ pc \in {"idle", "controller", "frames", "start", "wait_stop", "run"}
  /\ ~early /\ ~cr => ci = {}
  /\ ~early /\ pc \in {"wait_stop", "run", "wait_run"} => ci = {}
  /\ ~early /\ cmd.kind = "read" /\ pc \in {"busy", "prepare"} => ci = {}

\* A read finds the adapter at rest, and goes out alone, in the first slot: until
\* its slot is cleared nothing else is carried out, and then its data is there.
ReadAlone ==
  ~early /\ cmd.kind = "read" =>
    /\ pc \in {"prepare", "issue"} => ~Busy
    /\ pc = "issue" => ci = {}
    /\ pc \in {"issue", "poll"} => slot = 0 /\ hdr[0] = 0 /\ table[0] = cmd
    /\ pc = "poll" =>
         /\ ci \subseteq {0}
         /\ Busy => active = [slot |-> 0, cmd |-> cmd] /\ 0 \in ci
         /\ 0 \notin ci => buf = cmd

IInv == Types /\ Work /\ Issued /\ ReadAlone /\ ReadReturnsRequested

\* The adapter and the driver start in the invariant: no command runs.
LEMMA InitHolds == Init => IInv
<1> SUFFICES ASSUME Init  PROVE IInv
  OBVIOUS
<1>1. NotActive \in [slot : Slots \cup {Unset}, cmd : Commands] /\ None.kind = "none"
  BY CommandsProperty DEF NotActive
<1>2. Types
  <2>1. {st, cr, tfes, halted, resetting} \subseteq BOOLEAN
    BY DEF Init
  <2>2. hdr \in [Slots -> Slots \cup {Unset}] /\ table \in [Slots -> Commands]
    BY CommandsProperty DEF Init
  <2>3. result \in [ok : BOOLEAN, data : Commands] /\ {buf, cmd} \subseteq Commands
    BY CommandsProperty DEF Init
  <2> QED BY <1>1, <2>1, <2>2, <2>3 DEF Init, Types, TypeOK, PCs
<1>3. Work /\ Issued /\ ReadAlone /\ ReadReturnsRequested
  BY <1>1 DEF Init, Work, Issued, ReadAlone, ReadReturnsRequested
<1> QED BY <1>2, <1>3 DEF IInv

\* The adapter issues nothing and leaves the driver where it is.
LEMMA StepHba == IInv /\ HbaNext /\ Record => IInv'
<1> SUFFICES ASSUME IInv, HbaNext, Record  PROVE IInv'
  OBVIOUS
<1> USE DEF IInv
<1>1. /\ UNCHANGED <<st, hdr, table, driver>> /\ ci' \subseteq ci
      /\ (~early' => ~early)
  BY DEF HbaNext, HbaRun, HbaStop, HbaFetch, HbaComplete, HbaError, Record, memory
<1>2. Types'
  <2>1. NotActive \in [slot : Slots \cup {Unset}, cmd : Commands]
    BY CommandsProperty DEF NotActive
  <2>2. active' \in [slot : Slots \cup {Unset}, cmd : Commands]
    <3>1. CASE \E s \in Slots : HbaFetch(s)
      <4>1. PICK s \in Slots : HbaFetch(s)
        BY <3>1
      <4>2. hdr[s] # Unset => table[hdr[s]] \in Commands
        BY DEF Types, TypeOK
      <4> QED BY <4>1, <4>2, CommandsProperty DEF HbaFetch
    <3> QED BY <2>1, <3>1 DEF HbaNext, HbaRun, HbaStop, HbaComplete, HbaError, Types, TypeOK
  <2>3. {cr', tfes', halted'} \subseteq BOOLEAN /\ buf' \in Commands
    BY DEF HbaNext, HbaRun, HbaStop, HbaFetch, HbaComplete, HbaError, Types, TypeOK, memory
  <2> QED BY <1>1, <2>2, <2>3 DEF Types, TypeOK, driver
<1>3. Work'
  BY <1>1 DEF Work, driver
<1>4. Issued'
  BY <1>1 DEF Issued, driver, HbaNext, HbaRun, HbaStop, HbaFetch, HbaComplete, HbaError
<1>5. ReadAlone'
  <2> SUFFICES ASSUME ~early', cmd.kind = "read"
               PROVE  /\ pc \in {"prepare", "issue"} => ~Busy'
                      /\ pc = "issue" => ci' = {}
                      /\ pc \in {"issue", "poll"} => slot = 0 /\ hdr[0] = 0 /\ table[0] = cmd
                      /\ pc = "poll" =>
                           /\ ci' \subseteq {0}
                           /\ Busy' => active' = [slot |-> 0, cmd |-> cmd] /\ 0 \in ci'
                           /\ 0 \notin ci' => buf' = cmd
    BY <1>1 DEF ReadAlone, driver
  <2>1. ~early
    BY <1>1
  <2>2. ASSUME pc \in {"prepare", "issue"}  PROVE ~Busy' /\ (pc = "issue" => ci' = {})
    BY <1>1, <2>1, <2>2 DEF ReadAlone, Issued, Busy, NotActive, HbaNext, HbaRun, HbaStop, HbaFetch,
                             HbaComplete, HbaError
  <2>3. ASSUME pc = "poll"
        PROVE  /\ ci' \subseteq {0}
               /\ Busy' => active' = [slot |-> 0, cmd |-> cmd] /\ 0 \in ci'
               /\ 0 \notin ci' => buf' = cmd
    <3>1. st /\ cmd # None
      BY <2>3 DEF Issued, Work
    <3>2. /\ ci \subseteq {0} /\ hdr[0] = 0 /\ table[0] = cmd
          /\ (Busy => active = [slot |-> 0, cmd |-> cmd] /\ 0 \in ci)
          /\ (0 \notin ci => buf = cmd)
      BY <2>1, <2>3 DEF ReadAlone
    <3>3. CASE HbaRun \/ HbaStop
      BY <3>1, <3>2, <3>3 DEF HbaRun, HbaStop, Busy, memory
    <3>4. CASE \E s \in Slots : HbaFetch(s)
      <4>1. PICK s \in Slots : HbaFetch(s)
        BY <3>4
      <4>2. s \in ci
        BY <4>1 DEF HbaFetch
      <4>3. s = 0
        BY <3>2, <4>2
      <4>4. hdr[s] # Unset
        BY <3>2, <4>3 DEF Unset
      <4>5. active' = [slot |-> 0, cmd |-> cmd] /\ UNCHANGED <<ci, buf>>
        BY <3>2, <4>1, <4>3, <4>4 DEF HbaFetch, memory
      <4> QED BY <3>2, <4>2, <4>3, <4>5
    <3>5. CASE HbaComplete
      <4>1. active = [slot |-> 0, cmd |-> cmd] /\ active' = NotActive
        BY <3>2, <3>5 DEF HbaComplete
      <4>2. active.slot = 0 /\ active.cmd = cmd /\ active'.slot = Unset
        BY <4>1 DEF NotActive
      <4>3. buf' = cmd /\ ci' = ci \ {0}
        BY <3>1, <3>5, <4>2 DEF HbaComplete
      <4>4. ~Busy'
        BY <4>2 DEF Busy
      <4> QED BY <3>2, <4>3, <4>4
    <3>6. CASE HbaError
      BY <3>2, <3>6 DEF HbaError, Busy, NotActive, memory
    <3> QED BY <3>3, <3>4, <3>5, <3>6 DEF HbaNext
  <2>4. pc \in {"issue", "poll"} => slot = 0 /\ hdr[0] = 0 /\ table[0] = cmd
    BY <2>1 DEF ReadAlone
  <2> QED BY <2>2, <2>3, <2>4
<1>6. ReadReturnsRequested'
  BY <1>1 DEF ReadReturnsRequested, driver
<1> QED BY <1>2, <1>3, <1>4, <1>5, <1>6

\* What an answer is.
LEMMA ReturnStep ==
  ASSUME Types, NEW ok \in BOOLEAN, NEW data \in Commands, Return(ok, data)
  PROVE  /\ result' \in [ok : BOOLEAN, data : Commands] /\ pc' \in PCs
         /\ stage' \in {"found", "identify", "test1", "test2", "serve", "unused"}
BY DEF Types, TypeOK, Return, GoTo, PCs

\* Starting and resetting the port.
LEMMA StepPort ==
  IInv /\ (start_port_stop \/ start_port_run \/ start_port_running \/ start_port_timeout \/ port_reset)
    /\ Record => IInv'
<1> SUFFICES ASSUME IInv, Record,
                    start_port_stop \/ start_port_run \/ start_port_running \/ start_port_timeout
                      \/ port_reset
             PROVE  IInv'
  OBVIOUS
<1> USE DEF IInv
<1>1. ~early' => ~early /\ (cr \/ ci' \subseteq ci)
  BY DEF Record
<1>2. CASE start_port_stop
  <2>1. Types'
    BY <1>2, CommandsProperty, FreeSlotProperty
       DEF start_port_stop, GoTo, memory, Types, TypeOK, PCs
  <2>2. Work'
    BY <1>2, CommandsProperty DEF start_port_stop, GoTo, memory, Issued, Work
  <2>3. Issued'
    BY <1>1, <1>2, FreeSlotProperty DEF start_port_stop, GoTo, memory, Issued
  <2>4. ReadAlone'
    BY <1>1, <1>2, FreeSlotProperty
       DEF start_port_stop, GoTo, memory, Issued, Busy, Work, ReadAlone
  <2>5. ReadReturnsRequested'
    BY <1>1, <1>2 DEF start_port_stop, GoTo, memory, Work, ReadReturnsRequested
  <2> QED BY <2>1, <2>2, <2>3, <2>4, <2>5
<1>3. CASE start_port_run
  <2>1. Types'
    BY <1>3, CommandsProperty, FreeSlotProperty
       DEF start_port_run, GoTo, memory, Types, TypeOK, PCs
  <2>2. Work'
    BY <1>3, CommandsProperty DEF start_port_run, GoTo, memory, Issued, Work
  <2>3. Issued'
    BY <1>1, <1>3, FreeSlotProperty DEF start_port_run, GoTo, memory, Issued
  <2>4. ReadAlone'
    BY <1>1, <1>3, FreeSlotProperty
       DEF start_port_run, GoTo, memory, Issued, Busy, Work, ReadAlone
  <2>5. ReadReturnsRequested'
    BY <1>1, <1>3 DEF start_port_run, GoTo, memory, Work, ReadReturnsRequested
  <2> QED BY <2>1, <2>2, <2>3, <2>4, <2>5
<1>4. CASE start_port_running
  <2>1. Types'
    BY <1>4, CommandsProperty, FreeSlotProperty
       DEF start_port_running, GoTo, hba, memory, Types, TypeOK, PCs
  <2>2. Work'
    BY <1>4, CommandsProperty DEF start_port_running, GoTo, hba, memory, Issued, Work
  <2>3. Issued'
    BY <1>1, <1>4, FreeSlotProperty DEF start_port_running, GoTo, hba, memory, Issued
  <2>4. ReadAlone'
    BY <1>1, <1>4, FreeSlotProperty
       DEF start_port_running, GoTo, hba, memory, Issued, Busy, Work, ReadAlone
  <2>5. ReadReturnsRequested'
    BY <1>1, <1>4 DEF start_port_running, GoTo, hba, memory, Work, ReadReturnsRequested
  <2> QED BY <2>1, <2>2, <2>3, <2>4, <2>5
<1>5. CASE start_port_timeout
  <2>1. Types'
    <3>1. /\ result' \in [ok : BOOLEAN, data : Commands] /\ pc' \in PCs
          /\ stage' \in {"found", "identify", "test1", "test2", "serve", "unused"}
      <4>1. CASE Return(FALSE, None)
        BY <4>1, CommandsProperty, ReturnStep
      <4>2. CASE ~Return(FALSE, None)
        BY <1>5, <4>2 DEF start_port_timeout, FailNow, GiveUp, GoTo, Types, TypeOK, PCs
      <4> QED BY <4>1, <4>2
    <3>3. {st', cr', tfes', halted', resetting'} \subseteq BOOLEAN
      BY <1>5 DEF start_port_timeout, hba, Types, TypeOK
    <3> QED BY <1>5, <3>1, <3>3 DEF start_port_timeout, hba, memory, Types, TypeOK
  <2>2. Work'
    BY <1>5, CommandsProperty
       DEF start_port_timeout, GoTo, Return, GiveUp, FailNow, hba, memory, Issued, Work
  <2>3. Issued'
    BY <1>1, <1>5, FreeSlotProperty
       DEF start_port_timeout, GoTo, Return, GiveUp, FailNow, hba, memory, Issued
  <2>4. ReadAlone'
    BY <1>1, <1>5, FreeSlotProperty
       DEF start_port_timeout, GoTo, Return, GiveUp, FailNow, hba, memory, Issued, Busy, Work,
           ReadAlone
  <2>5. ReadReturnsRequested'
    BY <1>1, <1>5
       DEF start_port_timeout, GoTo, Return, GiveUp, FailNow, hba, memory, Work,
           ReadReturnsRequested
  <2> QED BY <2>1, <2>2, <2>3, <2>4, <2>5
<1>6. CASE port_reset
  <2>1. Types'
    <3>1. active' \in [slot : Slots \cup {Unset}, cmd : Commands]
      BY <1>6, CommandsProperty DEF port_reset, NotActive
    <3>2. {st', cr', tfes', halted', resetting'} \subseteq BOOLEAN
      BY <1>6 DEF port_reset, Types, TypeOK
    <3> QED BY <1>6, <3>1, <3>2 DEF port_reset, GoTo, memory, Types, TypeOK, PCs
  <2>2. Work'
    BY <1>6, CommandsProperty DEF port_reset, GoTo, memory, Issued, Work
  <2>3. Issued'
    BY <1>1, <1>6, FreeSlotProperty DEF port_reset, GoTo, memory, Issued
  <2>4. ReadAlone'
    BY <1>1, <1>6, FreeSlotProperty
       DEF port_reset, GoTo, memory, Issued, Busy, NotActive, Work, ReadAlone
  <2>5. ReadReturnsRequested'
    BY <1>1, <1>6 DEF port_reset, GoTo, memory, Work, ReadReturnsRequested
  <2> QED BY <2>1, <2>2, <2>3, <2>4, <2>5
<1> QED BY <1>2, <1>3, <1>4, <1>5, <1>6

\* The steps of a read.
LEMMA StepRead ==
  IInv /\ (\/ \E l \in Lbas : ahci_read(l)
           \/ read_not_busy \/ read_still_busy \/ read_prepare \/ read_issue
           \/ read_completed \/ read_failed) /\ Record => IInv'
<1> SUFFICES ASSUME IInv, Record,
                    \/ \E l \in Lbas : ahci_read(l)
                    \/ read_not_busy \/ read_still_busy \/ read_prepare \/ read_issue
                    \/ read_completed \/ read_failed
             PROVE  IInv'
  OBVIOUS
<1> USE DEF IInv
<1>1. ~early' => ~early /\ (cr \/ ci' \subseteq ci)
  BY DEF Record
<1>2. CASE \E l \in Lbas : ahci_read(l)
  <2>1. Types'
    BY <1>2, CommandsProperty, FreeSlotProperty
       DEF ahci_read, GoTo, hba, memory, Types, TypeOK, PCs
  <2>2. Work'
    BY <1>2, CommandsProperty DEF ahci_read, GoTo, hba, memory, Issued, Work
  <2>3. Issued'
    BY <1>1, <1>2, FreeSlotProperty DEF ahci_read, GoTo, hba, memory, ReadAlone, Issued
  <2>4. ReadAlone'
    BY <1>1, <1>2, FreeSlotProperty
       DEF ahci_read, GoTo, hba, memory, Issued, Busy, Work, ReadAlone
  <2>5. ReadReturnsRequested'
    BY <1>1, <1>2 DEF ahci_read, GoTo, hba, memory, Work, ReadAlone, ReadReturnsRequested
  <2> QED BY <2>1, <2>2, <2>3, <2>4, <2>5
<1>3. CASE read_not_busy
  <2>1. Types'
    BY <1>3, CommandsProperty, FreeSlotProperty
       DEF read_not_busy, GoTo, hba, memory, Types, TypeOK, PCs
  <2>2. Work'
    BY <1>3, CommandsProperty DEF read_not_busy, GoTo, hba, memory, Issued, Work
  <2>3. Issued'
    BY <1>1, <1>3, FreeSlotProperty DEF read_not_busy, GoTo, hba, memory, ReadAlone, Issued
  <2>4. ReadAlone'
    BY <1>1, <1>3, FreeSlotProperty
       DEF read_not_busy, GoTo, hba, memory, Issued, Busy, Work, TaskFileReady, ReadAlone
  <2>5. ReadReturnsRequested'
    BY <1>1, <1>3 DEF read_not_busy, GoTo, hba, memory, Work, ReadAlone, ReadReturnsRequested
  <2> QED BY <2>1, <2>2, <2>3, <2>4, <2>5
<1>4. CASE read_still_busy
  <2>1. Types'
    BY <1>4, CommandsProperty, FreeSlotProperty
       DEF read_still_busy, GoTo, Return, hba, memory, Types, TypeOK, PCs
  <2>2. Work'
    BY <1>4, CommandsProperty DEF read_still_busy, GoTo, Return, hba, memory, Issued, Work
  <2>3. Issued'
    BY <1>1, <1>4, FreeSlotProperty
       DEF read_still_busy, GoTo, Return, hba, memory, ReadAlone, Issued
  <2>4. ReadAlone'
    BY <1>1, <1>4, FreeSlotProperty
       DEF read_still_busy, GoTo, Return, hba, memory, Issued, Busy, Work, ReadAlone
  <2>5. ReadReturnsRequested'
    BY <1>1, <1>4
       DEF read_still_busy, GoTo, Return, hba, memory, Work, ReadAlone, ReadReturnsRequested
  <2> QED BY <2>1, <2>2, <2>3, <2>4, <2>5
<1>5. CASE read_prepare
  <2>1. Types'
    <3>1. hdr' \in [Slots -> Slots \cup {Unset}] /\ table' \in [Slots -> Commands]
      <4>1. CASE FreeSlot = Unset
        BY <1>5, <4>1 DEF read_prepare, Types, TypeOK
      <4>2. CASE FreeSlot # Unset
        <5>1. FreeSlot \in Slots
          BY <4>2, FreeSlotProperty
        <5> QED BY <1>5, <4>2, <5>1 DEF read_prepare, Types, TypeOK
      <4> QED BY <4>1, <4>2
    <3>2. /\ result' \in [ok : BOOLEAN, data : Commands] /\ pc' \in PCs
          /\ stage' \in {"found", "identify", "test1", "test2", "serve", "unused"}
      <4>1. CASE Return(FALSE, None)
        BY <4>1, CommandsProperty, ReturnStep
      <4>2. CASE ~Return(FALSE, None)
        BY <1>5, <4>2 DEF read_prepare, GoTo, Types, TypeOK, PCs
      <4> QED BY <4>1, <4>2
    <3>3. {st', cr', tfes', halted', resetting'} \subseteq BOOLEAN
      BY <1>5 DEF read_prepare, Types, TypeOK
    <3> QED BY <1>5, <3>1, <3>2, <3>3, FreeSlotProperty DEF read_prepare, Types, TypeOK
  <2>2. Work'
    BY <1>5, CommandsProperty DEF read_prepare, GoTo, Return, Issued, Work
  <2>3. Issued'
    BY <1>1, <1>5, FreeSlotProperty DEF read_prepare, GoTo, Return, ReadAlone, Issued
  <2>4. ReadAlone'
    <3> SUFFICES ASSUME ~early', pc' # "idle"  PROVE ReadAlone'
      BY <1>5 DEF read_prepare, ReadAlone, Return, GoTo
    <3>1. ci = {} /\ ~Busy
      BY <1>1, <1>5 DEF read_prepare, ReadAlone, Issued
    <3>2. FreeSlot = 0
      BY <3>1, FreeSlotProperty
    <3>3. FreeSlot # Unset
      BY <3>2 DEF Unset
    <3>4. 0 \in DOMAIN hdr /\ 0 \in DOMAIN table
      BY AhciAssumption DEF Types, TypeOK
    <3>5. slot' = 0 /\ hdr'[0] = 0 /\ table'[0] = cmd /\ cmd' = cmd /\ ci' = ci /\ pc' = "issue"
      BY <1>5, <3>2, <3>3, <3>4 DEF read_prepare, GoTo
    <3>6. ~Busy'
      BY <1>5, <3>1 DEF read_prepare, Busy
    <3> QED BY <3>1, <3>5, <3>6 DEF ReadAlone
  <2>5. ReadReturnsRequested'
    BY <1>1, <1>5 DEF read_prepare, GoTo, Return, Work, ReadAlone, ReadReturnsRequested
  <2> QED BY <2>1, <2>2, <2>3, <2>4, <2>5
<1>6. CASE read_issue
  <2>1. Types'
    BY <1>6 DEF read_issue, GoTo, memory, Work, Types, TypeOK, PCs
  <2>2. Work'
    BY <1>6, CommandsProperty DEF read_issue, GoTo, memory, Issued, Work
  <2>3. Issued'
    BY <1>1, <1>6, FreeSlotProperty DEF read_issue, GoTo, memory, ReadAlone, Issued
  <2>4. ReadAlone'
    BY <1>1, <1>6, FreeSlotProperty DEF read_issue, GoTo, memory, Issued, Busy, Work, ReadAlone
  <2>5. ReadReturnsRequested'
    BY <1>1, <1>6 DEF read_issue, GoTo, memory, Work, ReadAlone, ReadReturnsRequested
  <2> QED BY <2>1, <2>2, <2>3, <2>4, <2>5
<1>7. CASE read_completed
  <2>1. Types'
    BY <1>7, CommandsProperty, FreeSlotProperty
       DEF read_completed, GoTo, Return, hba, memory, Types, TypeOK, PCs
  <2>2. Work'
    BY <1>7, CommandsProperty DEF read_completed, GoTo, Return, hba, memory, Issued, Work
  <2>3. Issued'
    BY <1>1, <1>7, FreeSlotProperty
       DEF read_completed, GoTo, Return, hba, memory, ReadAlone, Issued
  <2>4. ReadAlone'
    BY <1>1, <1>7, FreeSlotProperty
       DEF read_completed, GoTo, Return, hba, memory, Issued, Busy, Work, ReadAlone
  <2>5. ReadReturnsRequested'
    BY <1>1, <1>7
       DEF read_completed, GoTo, Return, hba, memory, Work, ReadAlone, ReadReturnsRequested
  <2> QED BY <2>1, <2>2, <2>3, <2>4, <2>5
<1>8. CASE read_failed
  <2>1. Types'
    BY <1>8, CommandsProperty, FreeSlotProperty
       DEF read_failed, GoTo, Return, hba, memory, Types, TypeOK, PCs
  <2>2. Work'
    BY <1>8, CommandsProperty DEF read_failed, GoTo, Return, hba, memory, Issued, Work
  <2>3. Issued'
    BY <1>1, <1>8, FreeSlotProperty
       DEF read_failed, GoTo, Return, hba, memory, ReadAlone, Issued
  <2>4. ReadAlone'
    BY <1>1, <1>8, FreeSlotProperty
       DEF read_failed, GoTo, Return, hba, memory, Issued, Busy, Work, ReadAlone
  <2>5. ReadReturnsRequested'
    BY <1>1, <1>8
       DEF read_failed, GoTo, Return, hba, memory, Work, ReadAlone, ReadReturnsRequested
  <2> QED BY <2>1, <2>2, <2>3, <2>4, <2>5
<1> QED BY <1>2, <1>3, <1>4, <1>5, <1>6, <1>7, <1>8

\* Identification and inquiry: no read is under way.
LEMMA StepIdentify ==
  IInv /\ (\/ identify_call \/ ahci_get_controller \/ allocate_frames
           \/ identify_prepare \/ identify_issue \/ identify_polled \/ identify_error
           \/ identify_parsed \/ inquiry_prepare \/ inquiry_issue) /\ Record => IInv'
<1> SUFFICES ASSUME IInv, Record,
                    \/ identify_call \/ ahci_get_controller \/ allocate_frames
                    \/ identify_prepare \/ identify_issue \/ identify_polled \/ identify_error
                    \/ identify_parsed \/ inquiry_prepare \/ inquiry_issue
             PROVE  IInv'
  OBVIOUS
<1> USE DEF IInv
<1>1. ~early' => ~early /\ (cr \/ ci' \subseteq ci)
  BY DEF Record
<1>2. CASE identify_call
  <2>1. Types'
    BY <1>2, CommandsProperty, FreeSlotProperty
       DEF identify_call, GoTo, hba, memory, Types, TypeOK, PCs
  <2>2. Work'
    BY <1>2, CommandsProperty DEF identify_call, GoTo, hba, memory, Work
  <2>3. Issued'
    BY <1>1, <1>2, CommandsProperty, FreeSlotProperty
       DEF identify_call, GoTo, hba, memory, Work, Issued
  <2>4. ReadAlone'
    BY <1>1, <1>2, CommandsProperty, FreeSlotProperty
       DEF identify_call, GoTo, hba, memory, Work, ReadAlone
  <2>5. ReadReturnsRequested'
    BY <1>1, <1>2, CommandsProperty
       DEF identify_call, GoTo, hba, memory, Work, ReadReturnsRequested
  <2> QED BY <2>1, <2>2, <2>3, <2>4, <2>5
<1>3. CASE ahci_get_controller
  <2>1. Types'
    BY <1>3, CommandsProperty, FreeSlotProperty
       DEF ahci_get_controller, GoTo, GiveUp, hba, memory, Types, TypeOK, PCs
  <2>2. Work'
    BY <1>3, CommandsProperty DEF ahci_get_controller, GoTo, GiveUp, hba, memory, Work
  <2>3. Issued'
    BY <1>1, <1>3, CommandsProperty, FreeSlotProperty
       DEF ahci_get_controller, GoTo, GiveUp, hba, memory, Work, Issued
  <2>4. ReadAlone'
    BY <1>1, <1>3, CommandsProperty, FreeSlotProperty
       DEF ahci_get_controller, GoTo, GiveUp, hba, memory, Work, ReadAlone
  <2>5. ReadReturnsRequested'
    BY <1>1, <1>3, CommandsProperty
       DEF ahci_get_controller, GoTo, GiveUp, hba, memory, Work, ReadReturnsRequested
  <2> QED BY <2>1, <2>2, <2>3, <2>4, <2>5
<1>4. CASE allocate_frames
  <2>1. Types'
    BY <1>4, CommandsProperty, FreeSlotProperty
       DEF allocate_frames, GoTo, GiveUp, hba, memory, Types, TypeOK, PCs
  <2>2. Work'
    BY <1>4, CommandsProperty DEF allocate_frames, GoTo, GiveUp, hba, memory, Work
  <2>3. Issued'
    BY <1>1, <1>4, CommandsProperty, FreeSlotProperty
       DEF allocate_frames, GoTo, GiveUp, hba, memory, Work, Issued
  <2>4. ReadAlone'
    BY <1>1, <1>4, CommandsProperty, FreeSlotProperty
       DEF allocate_frames, GoTo, GiveUp, hba, memory, Work, ReadAlone
  <2>5. ReadReturnsRequested'
    BY <1>1, <1>4, CommandsProperty
       DEF allocate_frames, GoTo, GiveUp, hba, memory, Work, ReadReturnsRequested
  <2> QED BY <2>1, <2>2, <2>3, <2>4, <2>5
<1>5. CASE identify_prepare
  <2>1. Types'
    BY <1>5, CommandsProperty, FreeSlotProperty
       DEF identify_prepare, GoTo, hba, Types, TypeOK, PCs
  <2>2. Work'
    BY <1>5, CommandsProperty DEF identify_prepare, GoTo, hba, Work
  <2>3. Issued'
    BY <1>1, <1>5, CommandsProperty, FreeSlotProperty
       DEF identify_prepare, GoTo, hba, Work, Issued
  <2>4. ReadAlone'
    BY <1>1, <1>5, CommandsProperty, FreeSlotProperty
       DEF identify_prepare, GoTo, hba, Work, ReadAlone
  <2>5. ReadReturnsRequested'
    BY <1>1, <1>5, CommandsProperty DEF identify_prepare, GoTo, hba, Work, ReadReturnsRequested
  <2> QED BY <2>1, <2>2, <2>3, <2>4, <2>5
<1>6. CASE identify_issue
  <2>1. Types'
    BY <1>6, CommandsProperty, FreeSlotProperty
       DEF identify_issue, GoTo, GiveUp, memory, Types, TypeOK, PCs
  <2>2. Work'
    BY <1>6, CommandsProperty DEF identify_issue, GoTo, GiveUp, memory, Work
  <2>3. Issued'
    BY <1>1, <1>6, CommandsProperty, FreeSlotProperty
       DEF identify_issue, GoTo, GiveUp, memory, Work, Issued
  <2>4. ReadAlone'
    BY <1>1, <1>6, CommandsProperty, FreeSlotProperty
       DEF identify_issue, GoTo, GiveUp, memory, Work, ReadAlone
  <2>5. ReadReturnsRequested'
    BY <1>1, <1>6, CommandsProperty
       DEF identify_issue, GoTo, GiveUp, memory, Work, ReadReturnsRequested
  <2> QED BY <2>1, <2>2, <2>3, <2>4, <2>5
<1>7. CASE identify_polled
  <2>1. Types'
    BY <1>7, CommandsProperty, FreeSlotProperty
       DEF identify_polled, GoTo, hba, memory, Types, TypeOK, PCs
  <2>2. Work'
    BY <1>7, CommandsProperty DEF identify_polled, GoTo, hba, memory, Work
  <2>3. Issued'
    BY <1>1, <1>7, CommandsProperty, FreeSlotProperty
       DEF identify_polled, GoTo, hba, memory, Work, Issued
  <2>4. ReadAlone'
    BY <1>1, <1>7, CommandsProperty, FreeSlotProperty
       DEF identify_polled, GoTo, hba, memory, Work, ReadAlone
  <2>5. ReadReturnsRequested'
    BY <1>1, <1>7, CommandsProperty
       DEF identify_polled, GoTo, hba, memory, Work, ReadReturnsRequested
  <2> QED BY <2>1, <2>2, <2>3, <2>4, <2>5
<1>8. CASE identify_error
  <2>1. Types'
    <3>1. attempt \in {0, 1} /\ attempt' = attempt + 1
      BY <1>8 DEF identify_error, Work, Types, TypeOK
    <3> QED BY <1>8, <3>1 DEF identify_error, GoTo, GiveUp, TestRead, hba, memory, Types, TypeOK, PCs
  <2>2. Work'
    <3>1. attempt \in {0, 1} /\ attempt' = attempt + 1
      BY <1>8 DEF identify_error, Work, Types, TypeOK
    <3>2. attempt' = 2 => pc' = "idle"
      BY <1>8, <3>1 DEF identify_error, LastAttempt, GiveUp, TestRead, GoTo
    <3> QED BY <1>8, <3>2, CommandsProperty DEF identify_error, GoTo, GiveUp, TestRead, Work
  <2>3. Issued'
    BY <1>1, <1>8, CommandsProperty, FreeSlotProperty
       DEF identify_error, GoTo, GiveUp, TestRead, hba, memory, Work, Issued
  <2>4. ReadAlone'
    BY <1>1, <1>8, CommandsProperty, FreeSlotProperty
       DEF identify_error, GoTo, GiveUp, TestRead, hba, memory, Work, ReadAlone
  <2>5. ReadReturnsRequested'
    BY <1>1, <1>8, CommandsProperty
       DEF identify_error, GoTo, GiveUp, TestRead, hba, memory, Work, ReadReturnsRequested
  <2> QED BY <2>1, <2>2, <2>3, <2>4, <2>5
<1>9. CASE identify_parsed
  <2>1. Types'
    BY <1>9, CommandsProperty, FreeSlotProperty
       DEF identify_parsed, GoTo, TestRead, hba, memory, Types, TypeOK, PCs
  <2>2. Work'
    <3>1. cmd.kind = "identify" => cmd = Identify
      BY CommandsProperty DEF Types, TypeOK
    <3> QED BY <1>9, <3>1, CommandsProperty DEF identify_parsed, GoTo, TestRead, Work
  <2>3. Issued'
    BY <1>1, <1>9, CommandsProperty, FreeSlotProperty
       DEF identify_parsed, GoTo, TestRead, hba, memory, Work, Issued
  <2>4. ReadAlone'
    BY <1>1, <1>9, CommandsProperty, FreeSlotProperty
       DEF identify_parsed, GoTo, TestRead, hba, memory, Work, ReadAlone
  <2>5. ReadReturnsRequested'
    BY <1>1, <1>9, CommandsProperty
       DEF identify_parsed, GoTo, TestRead, hba, memory, Work, ReadReturnsRequested
  <2> QED BY <2>1, <2>2, <2>3, <2>4, <2>5
<1>10. CASE inquiry_prepare
  <2>1. Types'
    <3>1. hdr' \in [Slots -> Slots \cup {Unset}] /\ table' \in [Slots -> Commands]
      BY <1>10, CommandsProperty, AhciAssumption DEF inquiry_prepare, Types, TypeOK
    <3>2. {st', cr', tfes', halted', resetting'} \subseteq BOOLEAN
      BY <1>10 DEF inquiry_prepare, Types, TypeOK
    <3> QED BY <1>10, <3>1, <3>2, CommandsProperty, FreeSlotProperty
            DEF inquiry_prepare, GoTo, TestRead, Types, TypeOK, PCs
  <2>2. Work'
    BY <1>10, CommandsProperty DEF inquiry_prepare, GoTo, TestRead, Work
  <2>3. Issued'
    BY <1>1, <1>10, CommandsProperty, FreeSlotProperty
       DEF inquiry_prepare, GoTo, TestRead, Work, Issued
  <2>4. ReadAlone'
    BY <1>1, <1>10, CommandsProperty, FreeSlotProperty
       DEF inquiry_prepare, GoTo, TestRead, Work, ReadAlone
  <2>5. ReadReturnsRequested'
    BY <1>1, <1>10, CommandsProperty
       DEF inquiry_prepare, GoTo, TestRead, Work, ReadReturnsRequested
  <2> QED BY <2>1, <2>2, <2>3, <2>4, <2>5
<1>11. CASE inquiry_issue
  <2>1. Types'
    BY <1>11 DEF inquiry_issue, GoTo, memory, Work, Types, TypeOK, PCs
  <2>2. Work'
    BY <1>11, CommandsProperty DEF inquiry_issue, GoTo, memory, Work
  <2>3. Issued'
    BY <1>1, <1>11, CommandsProperty, FreeSlotProperty
       DEF inquiry_issue, GoTo, memory, Work, Issued
  <2>4. ReadAlone'
    BY <1>1, <1>11, CommandsProperty, FreeSlotProperty
       DEF inquiry_issue, GoTo, memory, Work, ReadAlone
  <2>5. ReadReturnsRequested'
    BY <1>1, <1>11, CommandsProperty DEF inquiry_issue, GoTo, memory, Work, ReadReturnsRequested
  <2> QED BY <2>1, <2>2, <2>3, <2>4, <2>5
<1> QED BY <1>2, <1>3, <1>4, <1>5, <1>6, <1>7, <1>8, <1>9, <1>10, <1>11

\* The invariant is inductive: driver and adapter keep it at every step.
LEMMA StepHolds == IInv /\ [Next]_vars => IInv'
<1> SUFFICES ASSUME IInv, [Next]_vars  PROVE IInv'
  OBVIOUS
<1>1. CASE UNCHANGED vars
  BY <1>1 DEF vars, hba, memory, driver, IInv, Types, TypeOK, Work, Issued, ReadAlone, Busy,
              ReadReturnsRequested
<1>2. CASE Next
  BY <1>2, StepHba, StepPort, StepRead, StepIdentify DEF Next, DriverStep, Calls
<1> QED BY <1>1, <1>2

\* In every reachable state at most one read is under way, at a port at rest or
\* with nothing else issued, unless a command went to a port that did not run.
THEOREM PortInvariant == Spec => []IInv
BY InitHolds, StepHolds, PTL DEF Spec

\* The variables keep their types whatever driver and adapter do.
THEOREM TypeCorrect == Spec => []TypeOK
<1>1. IInv => TypeOK
  BY DEF IInv, Types
<1> QED BY <1>1, PortInvariant, PTL

\* A read that succeeds hands over what it was asked for (ahci_read,
\* src/drivers/ahci.c:281), whenever commands before it gave up waiting.
THEOREM ReadTrue == Spec => []ReadReturnsRequested
<1>1. IInv => ReadReturnsRequested
  BY DEF IInv
<1> QED BY <1>1, PortInvariant, PTL

\* A read's command table is the first of the frame, the only one that lies in
\* it (src/drivers/ahci.c:318).
THEOREM TableInFrame == Spec => []TablesInOwnFrame
<1>1. IInv => TablesInOwnFrame
  BY DEF IInv, ReadAlone, TablesInOwnFrame
<1> QED BY <1>1, PortInvariant, PTL

\* While a read is the command, no header and no table of an issued slot is
\* written (find_cmdslot, src/drivers/ahci.c:36): here without any proviso.
THEOREM IssuedKept == Spec => IssuedSlotsKept
<1>1. IInv /\ [Next]_vars =>
        [cmd.kind = "read" => \A s \in ci : hdr'[s] = hdr[s] /\ table'[s] = table[s]]_vars
  <2> SUFFICES ASSUME IInv, Next, cmd.kind = "read", NEW s \in ci
               PROVE  hdr'[s] = hdr[s] /\ table'[s] = table[s]
    BY DEF vars
  <2>1. CASE read_prepare
    <3>1. CASE FreeSlot = Unset
      BY <2>1, <3>1 DEF read_prepare
    <3>2. CASE FreeSlot # Unset
      <4>1. FreeSlot # s /\ s \in Slots
        BY <3>2, FreeSlotProperty DEF IInv, Types, TypeOK
      <4> QED BY <2>1, <3>2, <4>1 DEF read_prepare, IInv, Types, TypeOK
    <3> QED BY <3>1, <3>2
  <2>2. ~identify_prepare /\ ~inquiry_prepare
    BY CommandsProperty DEF identify_prepare, inquiry_prepare, IInv, Work
  <2>3. CASE HbaNext
    BY <2>3 DEF HbaNext, HbaRun, HbaStop, HbaFetch, HbaComplete, HbaError, memory
  <2>4. CASE DriverStep /\ ~read_prepare
    BY <2>2, <2>4 DEF DriverStep, start_port_stop, start_port_run, start_port_running,
      start_port_timeout, port_reset, read_not_busy, read_still_busy, read_issue, read_completed,
      read_failed, ahci_get_controller, allocate_frames, identify_issue, identify_polled,
      identify_error, identify_parsed, inquiry_issue, memory
  <2>5. CASE Calls
    BY <2>5 DEF Calls, identify_call, ahci_read, memory
  <2> QED BY <2>1, <2>3, <2>4, <2>5 DEF Next
<1> QED BY <1>1, PortInvariant, PTL DEF Spec, IssuedSlotsKept
=============================================================================
