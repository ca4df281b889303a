-------------------------------- MODULE Boot --------------------------------
(***************************************************************************)
(* What the boot processor finds out about the machine, in the order of    *)
(* _start (src/entry.c) and kernel_main (src/core/kernel.c): the boot      *)
(* loader's block, the processors of the MADT, the PCI functions, their    *)
(* drivers with the identification of IDE drives, and then a file of the   *)
(* root volume.                                                            *)
(***************************************************************************)
EXTENDS BootInfo, Madt, PciDrivers, Ide, Ext2

CONSTANT Firmware     \* sets of machines: [block, tables, pci, ide, vol, request]

\* A block is memory with tags that have a size, the walks without checks come to
\* no entry of length zero, functions have the registers hardware has, an IDE channel
\* at the ports of its BAR has one, and the volume is formatted.
ASSUME BootAssumption ==
  \A S \in Firmware : \A x \in S :
    /\ BlockReadable(x.block, x.tables)
    /\ \A t \in x.tables : TableReadable(t) /\ WalksEnd(t)
    /\ PciMachine(x.pci) /\ IdeMachine(x.ide)
    /\ Formatted(x.vol) /\ Asks(x.request)

vars == <<bvars, mvars, pvars, dvars, ivars, evars>>

Init ==
  \E S \in Firmware : \E x \in S :
    /\ BootInfoInit(x.block)
    /\ MadtInit
    /\ pci_init(x.pci) /\ DriversInit
    /\ IdeInit(x.ide)
    /\ Ext2Init(x.vol, x.request)

ide_probe ==
  /\ At("ide_probe", "start")
  /\ IdeDriver
  /\ UNCHANGED dvars

ide_probe_returns ==
  /\ At("ide_probe", "start") /\ ide_pc = "done"
  /\ Returns(0)
  /\ Stay /\ UNCHANGED <<memvars, device_regs, walkvars, dumped, athvars, ivars>>

kernel_main ==
  \/ BootInfoNext /\ UNCHANGED <<mvars, pvars, dvars, ivars, evars>>
  \/ /\ tag_walk = "found"
     /\ MadtFound(madt[1]) \/ MadtNext
     /\ UNCHANGED <<bvars, pvars, dvars, ivars, evars>>
  \/ walk = "done" /\ PciNext /\ UNCHANGED <<bvars, mvars, dvars, ivars, evars>>
  \/ /\ walk = "done" /\ calls = <<>>
     /\ \/ DriversNext /\ UNCHANGED ivars
        \/ ide_probe \/ ide_probe_returns
     /\ UNCHANGED <<bvars, mvars, pvars, evars>>
  \/ pci_stage = "done" /\ Ext2Next /\ UNCHANGED <<bvars, mvars, pvars, dvars, ivars>>

\* Drives work on their own.
Drive == (\E d \in Drives : Answer(d)) /\ UNCHANGED <<bvars, mvars, pvars, dvars, evars>>

Next == kernel_main \/ Drive

Spec == Init /\ [][Next]_vars /\ WF_vars(kernel_main)

----------------------------------------------------------------------------
\* The bus named by the first bridge found that leads to bus b, and whether that
\* is the bus it is on.
FirstTo(b) == devices[Min({k \in DOMAIN devices : machine[devices[k]].sec = b})]
Up(b) == machine[FirstTo(b)].prim
Truthful(b) == Up(b) = FirstTo(b)[1]

\* The walk from a card to bus 0 is on buses whose bridges lead to one another and
\* nowhere else, at least one of them with the wrong primary bus.
Circling ==
  /\ At("probe_168c_002e", "upstream")
  /\ \E S \in SUBSET {machine[f].sec : f \in Range(devices)} :
       /\ cur_bus \in S /\ S \cap {0, -1} = {}
       /\ \A b \in S : Up(b) \in S
       /\ \E b \in S : ~Truthful(b)

\* Boot comes to its end: for every table whose unchecked walks end, for bridges
\* that lead anywhere and lists of capabilities that go round in circles, and for
\* drives that never answer.  What can hold it up is the walk upstream, which has
\* no bound (src/bus/pci_drivers.c:62): not while each bridge names the bus it is
\* on, wherever it leads, as the first one found is followed, but where primary
\* buses set by firmware form a circle.
BootEnds == <>[](tag_walk = "stopped" \/ ext_pc \in {"read", "failed"} \/ Circling)
=============================================================================
