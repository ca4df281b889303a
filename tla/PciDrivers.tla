----------------------------- MODULE PciDrivers -----------------------------
(***************************************************************************)
(* What kernel_main does with the PCI functions found: the mapping of      *)
(* their BARs (src/bus/pci.c: pci_map_device_bars), the registration of    *)
(* drivers and the probing (src/bus/pci.c, pci_drivers.c,                  *)
(* src/drivers/ethernet_ath.c).                                            *)
(*                                                                         *)
(* Page tables and frames are those of module Vmm.  A BAR the direct map   *)
(* does not reach is given a window behind the kernel's image.             *)
(***************************************************************************)
EXTENDS Pci

CONSTANTS
  N, Frames, BootFree, pml4_phys, LOW_PDS, KERNEL_PHYS_BASE, KERNEL_MAP,
                    \* memory and page tables, as in Vmm
  PAGE,             \* bytes of a page (4096)
  KERNEL_SIZE,      \* pages of the kernel's image
  MAX_PCI_DRIVERS,  \* slots of each driver table (32)
  CAPABILITIES      \* capabilities looked at (32)

ASSUME CapabilitiesAssumption == CAPABILITIES \in Nat

\* The direct map is that of the addresses of 32 bits, and the tables of boot.asm
\* lie in the kernel's image, which is loaded at the start of its window.
ASSUME DriversAssumption ==
  /\ N \in Nat /\ N > 2 /\ PAGE \in Nat \ {0}
  /\ Frames \subseteq Nat /\ BootFree \subseteq Frames \ {0}
  /\ LOW_PDS \in 1 .. N /\ REG = LOW_PDS * N * N * PAGE
  /\ KERNEL_MAP \in 1 .. N /\ KERNEL_PHYS_BASE \in Nat /\ KERNEL_SIZE \in Nat
  /\ pml4_phys \in Nat \ {0}
  /\ pml4_phys .. pml4_phys + LOW_PDS + 3 \subseteq Frames \ BootFree
  /\ KERNEL_PHYS_BASE <= pml4_phys /\ pml4_phys + LOW_PDS + 3 < KERNEL_PHYS_BASE + KERNEL_SIZE

VARIABLES
  pmem, ppool,      \* page tables, and the frames left
  mmio_alloc_ptr,   \* the page the next window starts at, 0 before the first
  bar_virt,         \* function -> addresses of its BARs, 0 if not mapped
  mapping,          \* the call of pci_map_device_bars that is going on
  pci_device_drivers, pci_drivers,
  pci_stage,        \* what kernel_main does with the functions
  nth,              \* the function it has come to
  probes,           \* drivers to be called for it
  command, power,   \* function -> bits of its command register, power state
  probe_pc,         \* how far the probe on call is, and its locals
  cur_bus, cap, iter,
  dumped,           \* history: functions whose registers probe_168c_002e has read
  ath_mmio, ath_phy,
  mac               \* the words read for an address, each by its source

tablevars == <<pmem, ppool, mmio_alloc_ptr, bar_virt>>
memvars == <<tablevars, mapping>>
driver_tables == <<pci_device_drivers, pci_drivers>>
device_regs == <<command, power>>
walkvars == <<cur_bus, cap, iter>>
athvars == <<ath_mmio, ath_phy, mac>>
dvars == <<memvars, driver_tables, pci_stage, nth, probes, device_regs, probe_pc, walkvars,
           dumped, athvars>>

V == INSTANCE Vmm WITH
  mem <- pmem, pool <- ppool, data <- {}, last <- <<>>, MapVAs <- {}, DevicePages <- {}

\* Pages: the direct map's first, and the first of the windows, the size of a large
\* page behind the kernel's image.
HHDM == (N \div 2) * N * N * N
MmioStart == ((N - 1) * N + N - 2) * N * N + KERNEL_SIZE + N

\* The indexes of a page's address, which wraps around.
VA(p) == <<(p \div (N * N * N)) % N, (p \div (N * N)) % N, (p \div N) % N, p % N>>

----------------------------------------------------------------------------
(* Mapping: pci_map_device_bars, called for the function Cur.  mapping.bar is *)
(* the BAR it has come to; while map_mmio maps a window, first is its page,  *)
(* pages how many it has and done how many are mapped.                       *)

Cur == devices[nth]
Bar == bars[Cur][mapping.bar]
AlignUp(x, a) == ((x + a - 1) \div a) * a

NotCalled == [bar |-> 0, first |-> 0, pages |-> 0, done |-> 0]
Called == [NotCalled EXCEPT !.bar = 1]
Returned == mapping.bar = 7

\* The next BAR, after this one has been given an address or none.
BarDone(virt) ==
  /\ bar_virt' = [bar_virt EXCEPT ![Cur][mapping.bar] = virt]
  /\ mapping' = [NotCalled EXCEPT !.bar = mapping.bar + 1]

MapsBar == nth \in DOMAIN devices /\ mapping.bar \in 1 .. 6 /\ mapping.pages = 0
IsMemory == Bar.size > 0 /\ ~Bar.io

\* The direct map serves a BAR in the low 4 GiB; an address that translates to
\* 0 counts as not mapped.
DirectlyMapped ==
  Bar.addr < REG
  /\ V!Translate(pmem, VA(HHDM + Bar.addr \div PAGE)) * PAGE + (Bar.addr % PAGE) # 0

StayMapping == UNCHANGED <<driver_tables, pci_stage, nth, probes, device_regs, probe_pc,
                           walkvars, dumped, athvars>>

pass_bar ==
  /\ MapsBar
  /\ ~IsMemory \/ DirectlyMapped
  /\ BarDone(IF IsMemory THEN HHDM * PAGE + Bar.addr ELSE 0)
  /\ StayMapping /\ UNCHANGED <<pmem, ppool, mmio_alloc_ptr>>

\* A cursor that has come round to 0 counts as not set.
Window == IF mmio_alloc_ptr = 0 THEN MmioStart ELSE mmio_alloc_ptr

\* Mutant: the cursor goes on by one page.
WindowOfOnePage(pages) == (Window + 1) % (N * N * N * N)

\* The cursor goes on, also when the mapping then fails.
NextWindow(pages) == (Window + pages) % (N * N * N * N)

map_mmio ==
  /\ MapsBar
  /\ IsMemory /\ ~DirectlyMapped
  /\ \E pages \in {AlignUp(Bar.size + (Bar.addr % PAGE), PAGE) \div PAGE} :
       /\ mapping' = [mapping EXCEPT !.first = Window, !.pages = pages]
       /\ mmio_alloc_ptr' = NextWindow(pages)
  /\ bar_virt' = [bar_virt EXCEPT ![Cur][mapping.bar] = 0]
  /\ StayMapping /\ UNCHANGED <<pmem, ppool>>

\* One page of the window; the first that fails ends it.
vmm_map_page ==
  /\ mapping.pages > 0
  /\ \E r \in {V!MapPage([mem |-> pmem, pool |-> ppool], VA(mapping.first + mapping.done),
                         Bar.addr \div PAGE + mapping.done)} :
       /\ pmem' = r.s.mem /\ ppool' = r.s.pool
       /\ IF r.result # 0 THEN BarDone(0)
          ELSE IF mapping.done + 1 = mapping.pages
          THEN BarDone(mapping.first * PAGE + (Bar.addr % PAGE))
          ELSE mapping' = [mapping EXCEPT !.done = @ + 1] /\ UNCHANGED bar_virt
  /\ StayMapping /\ UNCHANGED mmio_alloc_ptr

map_next_device ==
  /\ pci_stage = "map" /\ Returned
  /\ nth' = nth + 1
  /\ mapping' = Called
  /\ UNCHANGED <<tablevars, driver_tables, pci_stage, probes,
                 device_regs, probe_pc, walkvars, dumped, athvars>>

----------------------------------------------------------------------------
(* Registration and matching *)

\* Drivers that find no slot are not registered.
Registered(entries) == SubSeq(entries, 1, Min({Len(entries), MAX_PCI_DRIVERS}))

register_drivers ==
  /\ pci_stage = "map" /\ nth > Len(devices)
  /\ pci_drivers' = Registered(<<[class |-> "ahci", probe |-> "ahci_probe"],
                                 [class |-> "ide", probe |-> "ide_probe"]>>)
  /\ pci_device_drivers' = Registered(<<[id |-> "168c:002e", probe |-> "probe_168c_002e"],
                                        [id |-> "1969:1090", probe |-> "probe_ath"]>>)
  /\ pci_stage' = "probe" /\ nth' = 0 /\ mapping' = NotCalled
  /\ UNCHANGED <<tablevars, probes, device_regs, probe_pc, walkvars, dumped, athvars>>

\* The drivers that match, those for the device before those for its class.
Matching(f) ==
  SelectSeq(pci_device_drivers, LAMBDA e : e.id = machine[f].id)
    \o SelectSeq(pci_drivers, LAMBDA e : e.class = machine[f].class)

Calling(p) == pci_stage = "probe" /\ probes # <<>> /\ Head(probes).probe = p
At(p, pc) == Calling(p) /\ probe_pc = pc

\* A driver for the device that succeeds keeps all others away.
Returns(r) ==
  /\ probes' = IF r = 0 /\ "id" \in DOMAIN Head(probes) THEN <<>> ELSE Tail(probes)
  /\ probe_pc' = "start"

probe_next_device ==
  /\ pci_stage = "probe" /\ probes = <<>>
  /\ IF nth < Len(devices)
     THEN nth' = nth + 1 /\ probes' = Matching(devices[nth + 1]) /\ UNCHANGED pci_stage
     ELSE pci_stage' = "done" /\ UNCHANGED <<nth, probes>>
  /\ UNCHANGED <<memvars, driver_tables, device_regs, probe_pc, walkvars, dumped, athvars>>

\* What a step of a probe leaves alone.
Stay == UNCHANGED <<driver_tables, pci_stage, nth>>

\* ahci_attach is in modules Ahci and Block.
ahci_probe ==
  /\ At("ahci_probe", "start")
  /\ Returns(0)
  /\ Stay /\ UNCHANGED <<memvars, device_regs, walkvars, dumped, athvars>>

----------------------------------------------------------------------------
(* probe_168c_002e only looks, so it never succeeds. *)

start_168c ==
  /\ At("probe_168c_002e", "start")
  /\ cur_bus' = Cur[1] /\ probe_pc' = "upstream"
  /\ Stay /\ UNCHANGED <<memvars, probes, device_regs, cap, iter, dumped, athvars>>

\* Mutant: the last bridge in the table that leads to a bus is followed.
AboveLast(b) == Reverse(SelectSeq(devices, LAMBDA f : machine[f].sec = b))

\* The bridges found that lead to a bus, in the order of the table.
Above(b) == SelectSeq(devices, LAMBDA f : machine[f].sec = b)

\* The walk goes on to the primary bus that the first of them names, which
\* firmware may have set to any; nothing remembers where it has been.
walk_upstream ==
  /\ At("probe_168c_002e", "upstream")
  /\ IF cur_bus # 0 /\ Above(cur_bus) # <<>>
     THEN cur_bus' = machine[Head(Above(cur_bus))].prim /\ UNCHANGED probe_pc
     ELSE probe_pc' = "enable" /\ UNCHANGED cur_bus
  /\ Stay /\ UNCHANGED <<memvars, probes, device_regs, cap, iter, dumped, athvars>>

\* Memory decoding and bus mastering are turned on.
enable_device ==
  /\ At("probe_168c_002e", "enable")
  /\ command' = [command EXCEPT ![Cur] = @ \cup {"mem", "master"}]
  /\ cap' = machine[Cur].caps.first /\ iter' = 0 /\ probe_pc' = "capabilities"
  /\ Stay /\ UNCHANGED <<memvars, probes, power, cur_bus, dumped, athvars>>

\* Mutant: a device counts as awake unless it is in the deepest state.
AsleepDeeply(f) == power[f] = 3

Asleep(f) == power[f] # 0

\* A device asleep is woken; one that is reset by that forgets its command.
capability ==
  /\ At("probe_168c_002e", "capabilities") /\ cap # 0 /\ iter < CAPABILITIES
  /\ IF cap = machine[Cur].caps.pm /\ Asleep(Cur)
     THEN /\ power' = [power EXCEPT ![Cur] = 0]
          /\ command' = IF machine[Cur].forgets THEN [command EXCEPT ![Cur] = {}] ELSE command
     ELSE UNCHANGED device_regs
  /\ cap' = machine[Cur].caps.next[cap] /\ iter' = iter + 1
  /\ Stay /\ UNCHANGED <<memvars, probes, probe_pc, cur_bus, dumped, athvars>>

CapabilitiesSeen == At("probe_168c_002e", "capabilities") /\ (cap = 0 \/ iter = CAPABILITIES)

\* A BAR that is not mapped is tried once more.  The direct map is no resort
\* then: what it could serve it serves.
remap_168c ==
  /\ CapabilitiesSeen /\ ~bars[Cur][1].io /\ bar_virt[Cur][1] = 0
  /\ mapping' = Called /\ probe_pc' = "remap"
  /\ Stay /\ UNCHANGED <<tablevars, probes, device_regs, walkvars,
                         dumped, athvars>>

Remapped == At("probe_168c_002e", "remap") /\ Returned

give_up_168c ==
  /\ \/ CapabilitiesSeen /\ bars[Cur][1].io
     \/ Remapped /\ bar_virt[Cur][1] = 0
  /\ Returns(-1) /\ mapping' = NotCalled
  /\ Stay /\ UNCHANGED <<tablevars, device_regs, walkvars, dumped, athvars>>

dump_168c ==
  /\ \/ CapabilitiesSeen /\ ~bars[Cur][1].io
     \/ Remapped
  /\ bar_virt[Cur][1] # 0
  /\ dumped' = dumped \cup {Cur}
  /\ Returns(-1) /\ mapping' = NotCalled
  /\ Stay /\ UNCHANGED <<tablevars, device_regs, walkvars, athvars>>

----------------------------------------------------------------------------
(* probe_ath.  Its PHY is kept for all devices it finds. *)

probe_ath_maps ==
  /\ At("probe_ath", "start")
  /\ mapping' = Called /\ probe_pc' = "map"
  /\ Stay /\ UNCHANGED <<tablevars, probes, device_regs, walkvars,
                         dumped, athvars>>

probe_ath_mapped ==
  /\ At("probe_ath", "map") /\ Returned
  /\ mapping' = NotCalled
  /\ IF bar_virt[Cur][1] = 0
     THEN Returns(-1) /\ UNCHANGED athvars
     ELSE /\ ath_mmio' = bar_virt[Cur][1] /\ mac' = <<>> /\ probe_pc' = "eeprom"
          /\ UNCHANGED <<probes, ath_phy>>
  /\ Stay /\ UNCHANGED <<tablevars, device_regs, walkvars, dumped>>

\* machine[f].phy: where its PHY is, -1 if there is none, -2 if the bus to it stays
\* busy.  A place without a PHY reads as ones.
Stuck == -2
PhyFound(f) == IF machine[f].phy = Stuck THEN -1 ELSE machine[f].phy

\* A word comes from the PHY, or when that fails from the device's memory.
ath_eeprom_read ==
  /\ At("probe_ath", "eeprom") /\ Len(mac) < 3
  /\ ath_phy' = IF ath_phy >= 0 THEN ath_phy ELSE PhyFound(Cur)
  /\ mac' = Append(mac, IF ath_phy' < 0 \/ machine[Cur].phy = Stuck THEN "mmio"
                        ELSE IF ath_phy' = machine[Cur].phy THEN "phy" ELSE "ones")
  /\ Stay /\ UNCHANGED <<memvars, probes, probe_pc, device_regs, walkvars, dumped, ath_mmio>>

probe_ath_ends ==
  /\ At("probe_ath", "eeprom") /\ Len(mac) = 3
  /\ Returns(0)
  /\ Stay /\ UNCHANGED <<memvars, device_regs, walkvars, dumped, athvars>>

----------------------------------------------------------------------------
DriversInit ==
  /\ pmem = V!setup_page_tables /\ ppool = BootFree
  /\ mmio_alloc_ptr = 0
  /\ bar_virt = [f \in DOMAIN machine |-> [b \in 1 .. 6 |-> 0]]
  /\ mapping = Called
  /\ pci_device_drivers = <<>> /\ pci_drivers = <<>>
  /\ pci_stage = "map" /\ nth = 1 /\ probes = <<>>
  /\ command = [f \in DOMAIN machine |-> machine[f].command]
  /\ power = [f \in DOMAIN machine |-> machine[f].power]
  /\ probe_pc = "start" /\ cur_bus = 0 /\ cap = 0 /\ iter = 0
  /\ dumped = {}
  /\ ath_mmio = 0 /\ ath_phy = -1 /\ mac = <<>>

DriversNext ==
  \/ pass_bar \/ map_mmio \/ vmm_map_page \/ map_next_device \/ register_drivers \/ probe_next_device \/ ahci_probe
  \/ start_168c \/ walk_upstream \/ enable_device \/ capability
  \/ remap_168c \/ give_up_168c \/ dump_168c
  \/ probe_ath_maps \/ probe_ath_mapped \/ ath_eeprom_read \/ probe_ath_ends

----------------------------------------------------------------------------
(* Properties *)

\* The pages of a BAR, counted from its first.
PagesOf(f, b) ==
  0 .. (bars[f][b].addr + machine[f].hw.unit[b - 1] - 1) \div PAGE - bars[f][b].addr \div PAGE

\* Every page of the BAR leads to the device at its address.
Reaches(f, b) ==
  \A p \in PagesOf(f, b) :
    V!Translate(pmem, VA(bar_virt[f][b] \div PAGE + p)) = bars[f][b].addr \div PAGE + p

\* A page that lies in a large page of the kernel's.
InLargePage(p) ==
  VA(p)[1] = N - 1 /\ VA(p)[2] = N - 2 /\ VA(p)[3] < KERNEL_MAP

\* A window that has such a page.
Misplaced(f, b) == \E p \in PagesOf(f, b) : InLargePage(bar_virt[f][b] \div PAGE + p)

Mapped == {x \in Range(devices) \X (1 .. 6) :
             bar_virt[x[1]][x[2]] # 0 /\ x[2] - 1 \in Bars(x[1])}

\* A BAR that has an address is reached there whole, until the last probe: a
\* window that could be mapped in part only gives none, and no later window
\* takes pages of an earlier one.  Windows that have pages in large pages of the
\* kernel's are excepted; of these below.
MappedBarsReached ==
  \A x \in Mapped : Misplaced(x[1], x[2]) \/ Reaches(x[1], x[2])

\* A window that is being mapped ends before the last page there is, so that the
\* next one does not come round to the first addresses, which are not the kernel's.
WindowsFit == mapping.pages > 0 => mapping.first + mapping.pages < N * N * N * N

\* What the comment on map_mmio says: a window has the entries that lead to the
\* device.
WindowsReachDevices == \A x \in Mapped : Reaches(x[1], x[2])

\* The capabilities the probe looks at: those at the end of a walk along the
\* list that is not too long.
Places(f) == DOMAIN machine[f].caps.next \ {0}
WalkOf(f, n) ==
  {s \in [1 .. n -> Places(f)] : /\ s[1] = machine[f].caps.first
                                /\ \A i \in 1 .. n - 1 : s[i + 1] = machine[f].caps.next[s[i]]}
Seen(f) == {c \in Places(f) : \E n \in 1 .. CAPABILITIES : \E s \in WalkOf(f, n) : s[n] = c}

\* A device whose registers are read decodes its memory and is awake, wherever
\* in its list the power capability is and though the list may be a circle;
\* devices that forget their command when they wake are excepted.
ReadsAnswered ==
  \A f \in dumped :
    /\ machine[f].forgets \/ "mem" \in command[f]
    /\ machine[f].caps.pm \in Seen(f) => power[f] = 0
=============================================================================
