-------------------------------- MODULE Pci --------------------------------
(***************************************************************************)
(* The scan of the PCI buses and the probing of drivers                    *)
(* (src/bus/pci.c).                                                        *)
(*                                                                         *)
(* A function is <<bus, device, number>>.  scan_bus calls itself for the   *)
(* bus behind a bridge, in the middle of its own loops; calls is the stack *)
(* of these calls, each with the function its loops have come to.  What    *)
(* firmware left in a bridge may lead to any bus, also to one above it.    *)
(***************************************************************************)
EXTENDS PciConfig, FiniteSetsExt

CONSTANTS
  DEVICES, FUNCTIONS, \* devices on a bus (32), functions of a device (8)
  PCI_MAX_DEVICES

ASSUME PciAssumption ==
  /\ DEVICES \in Nat \ {0} /\ FUNCTIONS \in Nat \ {0} /\ PCI_MAX_DEVICES \in Nat \ {0}

VARIABLES
  machine,            \* function -> [multi, sec, prim, hw, regs, ...]: what it is,
                      \* and its BARs as firmware left them; sec is the bus a bridge
                      \* leads to, -1 if it is none, prim the one it says it is on
  config,             \* function -> its BARs
  devices,            \* the functions found, in order
  probed,             \* the BARs probed of the function the scan has come to
  bars,               \* function found -> its BARs: [addr, size, io]
  scanned_buses,
  calls               \* the calls of scan_bus that have not returned

pvars == <<machine, config, devices, probed, bars, scanned_buses, calls>>

Call(b) == [bus |-> b, dev |-> 0, fn |-> 0]

Top == Last(calls)
Here == <<Top.bus, Top.dev, Top.fn>>
Present(f) == f \in DOMAIN machine

\* The table is full: a call returns, and the one that made it as well.
Full == Len(devices) >= PCI_MAX_DEVICES

MaxFunc == IF machine[<<Top.bus, Top.dev, 0>>].multi THEN FUNCTIONS ELSE 1

\* The call on top goes on with the next function, or the next device.
NextFn(c) == IF c.fn + 1 < MaxFunc THEN [c EXCEPT !.fn = @ + 1]
              ELSE [c EXCEPT !.dev = @ + 1, !.fn = 0]

\* Mutant: a bus is not remembered.
NewBusUnmarked(sec) == sec \notin {0, Top.bus}

NewBus(sec) == sec \notin {0, Top.bus} /\ sec \notin scanned_buses

\* The call on top has more to look at.
Goes_on == calls # <<>> /\ ~Full /\ Top.dev < DEVICES

Moved(c) == calls' = [calls EXCEPT ![Len(calls)] = c]

\* It will go on with c, after the call for another bus.
Descends(c, b) == calls' = Append(Front(calls), c) \o <<Call(b)>>

----------------------------------------------------------------------------
\* No device: its function 0 does not answer.
scan_no_device ==
  /\ Goes_on /\ Top.fn = 0 /\ ~Present(Here)
  /\ Moved([Top EXCEPT !.dev = @ + 1])
  /\ UNCHANGED <<machine, config, devices, probed, bars, scanned_buses>>

scan_no_function ==
  /\ Goes_on /\ Top.fn > 0 /\ ~Present(Here)
  /\ Moved(NextFn(Top))
  /\ UNCHANGED <<machine, config, devices, probed, bars, scanned_buses>>

\* The six BARs in their order, also the upper half of one with 64 bits.
probe_next_bar ==
  /\ Goes_on /\ Present(Here) /\ Len(probed) < 6
  /\ \E p \in {pci_probe_bar(machine[Here].hw, config[Here], Len(probed))} :
       /\ config' = [config EXCEPT ![Here] = p.regs]
       /\ probed' = Append(probed, p.bar)
  /\ UNCHANGED <<machine, devices, bars, scanned_buses, calls>>

\* A function is entered in the table with its BARs; the last the table holds
\* ends the call.
scan_function ==
  /\ Goes_on /\ Present(Here) /\ Len(probed) = 6
  /\ devices' = Append(devices, Here)
  /\ bars' = [f \in DOMAIN bars \cup {Here} |-> IF f = Here THEN probed ELSE bars[f]]
  /\ probed' = <<>>
  /\ IF Len(devices) + 1 >= PCI_MAX_DEVICES
     THEN calls' = Front(calls) /\ UNCHANGED scanned_buses
     ELSE LET sec == machine[Here].sec
          IN  IF sec # -1 /\ NewBus(sec)
              THEN /\ Descends(NextFn(Top), sec)
                   /\ scanned_buses' = scanned_buses \cup {sec}
              ELSE Moved(NextFn(Top)) /\ UNCHANGED scanned_buses
  /\ UNCHANGED <<machine, config>>

\* A call returns after its last device, or when the table is full.
scan_return ==
  /\ calls # <<>>
  /\ Full \/ Top.dev >= DEVICES
  /\ calls' = Front(calls)
  /\ UNCHANGED <<machine, config, devices, probed, bars, scanned_buses>>

\* Devices and functions are of those there can be, a bridge leads to a bus, and
\* registers are as hardware has them.
PciMachine(m) ==
  \A f \in DOMAIN m :
    /\ f \in Nat \X (0 .. DEVICES - 1) \X (0 .. FUNCTIONS - 1)
    /\ m[f].multi \in BOOLEAN /\ m[f].sec \in Nat \cup {-1} /\ m[f].prim \in Nat
    /\ BarHardware(m[f].hw, m[f].regs)

pci_init(m) ==
  /\ machine = m
  /\ config = [f \in DOMAIN m |-> m[f].regs]
  /\ devices = <<>> /\ probed = <<>> /\ bars = <<>>
  /\ scanned_buses = {0}
  /\ calls = <<Call(0)>>

PciNext ==
  \/ scan_no_device \/ scan_no_function \/ probe_next_bar \/ scan_function \/ scan_return

----------------------------------------------------------------------------
(* Properties *)

\* The functions that can be found: those of the devices whose function 0 is
\* there, more than one only if it says so, on the buses reached from bus 0.
OnBus(b) ==
  {f \in DOMAIN machine : /\ f[1] = b /\ <<b, f[2], 0>> \in DOMAIN machine
                          /\ f[3] = 0 \/ machine[<<b, f[2], 0>>].multi}
Buses == {0} \cup {machine[f].sec : f \in DOMAIN machine}
LeadsNowhereElse(B) ==
  0 \in B /\ \A b \in B : \A f \in OnBus(b) : machine[f].sec # -1 => machine[f].sec \in B
Reached == {b \in Buses : \A B \in SUBSET Buses : LeadsNowhereElse(B) => b \in B}
Reachable == UNION {OnBus(b) : b \in Reached}

\* Every function is found once, though buses may lead to each other in
\* circles, and all of them unless the table is full; nothing is written past
\* the table, also when it fills up several calls deep.
FunctionsFoundOnce ==
  /\ Len(devices) <= PCI_MAX_DEVICES
  /\ IsInjective(devices)
  /\ Range(devices) \subseteq Reachable
  /\ calls = <<>> /\ Len(devices) < PCI_MAX_DEVICES => Range(devices) = Reachable

\* The BARs hardware has: not the upper halves of those with 64 bits.
Upper(f, b) == UpperHalf(machine[f].hw, b)
Bars(f) == {b \in BARS : machine[f].hw.unit[b] < REG /\ ~Upper(f, b)}
TrueAddr(f, b) ==
  LET low == machine[f].regs[b] - machine[f].hw.flags[b]
  IN  IF machine[f].hw.flags[b] \in {4, 12} THEN Wide(machine[f].regs[b + 1], low) ELSE low

\* Probing leaves every register as firmware set it, though an upper half is
\* probed once more as a BAR of its own, whatever its value is then taken to
\* be; and it finds where each BAR lies, and of one with 64 bits the size.
BarsTrue ==
  /\ probed = <<>> => \A f \in DOMAIN machine : config[f] = machine[f].regs
  /\ \A f \in Range(devices) : \A b \in Bars(f) :
       /\ bars[f][b + 1].addr = TrueAddr(f, b)
       /\ bars[f][b + 1].io = (machine[f].hw.flags[b] = 1)
       /\ Upper(f, b + 1) => bars[f][b + 1].size = machine[f].hw.unit[b]
=============================================================================
