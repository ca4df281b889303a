# A TLA+ model of the Apex64 kernel

Apex64 is a small x86-64 kernel: Multiboot2 boot code, a physical, a virtual
and a slab allocator, a kernel heap, ACPI and APIC set-up with the start of the
application processors, an AHCI disk driver, a block layer, and a virtual file
system with ext2 and ustar.  This directory holds TLA+ modules translated from
its C and assembly source, TLC configurations that check them on small
instances, and proofs for TLAPS that hold for every value of the constants.

File names below are relative to the repository; `pmm.c:158` is a line of
`src/mem/pmm.c`.

## 1. The system

The kernel runs one thread, on the boot processor (BSP).  `kernel_main`
(`src/core/kernel.c`) calls the components in order: framebuffer, GDT, IDT and
PIC, `sti`, ACPI, MADT, the table of processors, APIC, PIT, physical memory,
page tables, slab, PCI, drivers, file systems.  There is no scheduler.  What
runs beside that thread are interrupt handlers, the devices, and the
application processors (APs) between `smp_start_aps` and the loop of
`smp_cpu_entry`.  The build does not define `ENABLE_SMP`: `smp_start_aps` is
compiled and not called.

| Component | State | Operations | Talks to |
|---|---|---|---|
| physical memory manager, `mem/pmm.c` | bitmap, `total_frames`, `free_frames` | `pmm_init`, `pmm_alloc_frame`, `pmm_free_frame`, counts | Multiboot2 block; called by slab, vmm, heap, AHCI |
| slab, `mem/slab.c` | one cache per size: page list, magazines; a header in each page | `slab_init`, `slab_alloc`, `slab_free` | pmm; called by the heap |
| virtual memory manager, `mem/vmm.c` | page tables in frames, CR3 | map, unmap, translate, map with allocation | pmm; called by heap, PCI |
| kernel heap, `lib/alloc.c` | `heap_cur`, a header before each block | `kmalloc_init`, `kmalloc`, `kfree` | slab, vmm, pmm |
| AHCI, `drivers/ahci.c` | a port's frames, slots and DMA buffer; controllers | reset, start, identify, read, attach | the adapter (concurrent), pmm, block layer |
| SMP start, `drivers/acpi.c`, `drivers/smp.c`, `boot/boot.asm` | `smp_started_count`, `mp_info` | `smp_start_aps`, `ap_entry`, `smp_cpu_entry` | APs (concurrent), local APIC, PIT |
| ACPI and MADT, `drivers/acpi.c` | table pointers, `smp_cpus`, I/O APIC address | `acpi_init`, `madt_init`, `madt_populate_smp_info`, `smp_build_mp_info` | firmware tables |
| local and I/O APIC, `drivers/acpi.c` | device registers | EOI, IPI, timer, redirection entries | interrupts |
| interrupts, `drivers/idt.c`, `idt_asm.asm`, `pit.c` | IDT, handlers, next vector, ticks | dispatch, EOI, `pit_wait` | every driver |
| GDT, `drivers/gdt.c` | per-processor tables of 8, a task state each | `gdt_init` | SMP start, `kernel_main` |
| PCI, `bus/pci.c` | device and driver tables, MMIO cursor, BARs | scan, probe BARs, map BARs, match drivers | vmm, drivers |
| PCI drivers, `bus/pci_drivers.c`, `drivers/ethernet_ath.c` | a device's command and power registers, the PHY's place | four probes | PCI, vmm, AHCI, IDE |
| IDE, `drivers/ide.c` | ports of two channels | attach, identify | the drives (concurrent) |
| block layer, `block/block.c` | 8 devices | register disk and partition, read | AHCI, file systems |
| device registry, `dev/dev.c` | names | register, get | block layer |
| VFS, `fs/vfs.c` | 8 mounts, 32 descriptors | mount, unmount, open, read, close, list | file systems |
| ext2, ustar, `fs/` | a mount's parsed metadata, handles | mount, open, path walk, inode and block lookup, read, list | block layer, heap |
| fstab and boot mounting, `fs/fstab.c`, `core/kernel.c` | none | mount what the file and the command line say | VFS |
| boot code, `boot/boot.asm`, `entry.c` | page tables, boot info | tables of the direct map, four walks over the boot tags | all |
| console, strings, command line, RTL8139 | | output, helpers; a driver that is not registered | |

### What is hard

* **Concurrency.**  The adapter completes, fails or forgets a command between
  any two steps of the driver, and so do the two IDE drives that share a
  channel's registers.  APs enter the kernel at any moment between the
  SIPI and the BSP's reading of the counter, and a broadcast SIPI starts APs
  whose turn has not come.  The timer's interrupt falls between a check and a
  `hlt`.
* **Failure.**  Frames run out at any level of a page-table walk, or in the
  middle of a large `kmalloc` or of a device's window; a port does not start; a device does not answer;
  a table is full.
* **Ordering and timeouts.**  A read that timed out stays with the adapter and
  may fill the shared buffer during the next one.
* **Aliasing.**  The boot code maps memory with 2 MiB pages, and the heap and
  the first pages of the device window lie inside them; physical and virtual
  addresses of a frame differ by `HHDM_BASE` and are both plain integers.
* **Boundaries.**  Regions that end inside a frame; a bitmap smaller than
  memory; a last bitmap byte partly used; tables at their limit; boot tags and
  MADT entries cut short; registers of 32 bits that are halves of one of 64.
* **Data that goes round in circles.**  Bridges that lead to each other,
  capability lists without an end.

### What makes each component correct

* *pmm*: the counter is the number of free frames; a frame is never in two
  hands nor lost; nothing reserved is handed out; an allocation fails only when
  no frame is free.
* *slab*: each object is in one place; it is large enough; a page leaves its
  cache only when idle, and then returns to the pmm; an allocation fails only
  when no object and no frame is free.
* *vmm*: an operation that succeeds changes one translation, one that fails
  none, and no frame leaks on any failure.
* *heap*: live blocks are disjoint and their headers intact; a failed
  allocation gives back what it took.
* *AHCI*: a successful read returns the sector asked for; memory of a command
  still issued is not rewritten; every call returns.
* *SMP*: bring-up ends, no AP enters the kernel more often than its broadcast
  and its turn allow, and each one that gets there finds its task state
  available and stays in the kernel's loop.
* *interrupts*: every interrupt delivered is acknowledged; a wait ends.
* *boot information, ACPI*: what the kernel is told is what the tags say; the
  checked walk of the MADT stays inside it; the processors are the enabled ones.
* *PCI*: each function is found once; probing leaves the BARs as they were; a
  BAR's address leads to the whole of it; a device is read when it is awake.
* *IDE*: a drive's data is its own, whatever its neighbour does.
* *block, VFS, file systems*: a read stays inside its partition; a descriptor
  never refers to a freed handle; a path finds the mount it lies under, and a
  read of a file gives the bytes of that file.

## 2. Modules

| Module | Models | Checked by |
|---|---|---|
| `FrameAllocator` | abstract: a pool of frames, each free or held once | refined by `Pmm`, used by `Slab` |
| `Pmm` | `pmm_init`, `pmm_alloc_frame`, `pmm_free_frame` | `pmm`, `pmm_mbinfo` |
| `Pmm_proofs` | theorems about `Pmm` | TLAPS |
| `Slab` | `slab_alloc`, `slab_free` over `FrameAllocator` | `slab` |
| `Slab_proofs` | theorems about `Slab` | TLAPS |
| `AddressSpace` | abstract: a map from addresses to physical pages | refined by `Vmm` |
| `Vmm` | the tables of `boot.asm` and `vmm.c`'s work on them, in physical memory | `vmm` |
| `Vmm_proofs` | theorems about `Vmm` | TLAPS |
| `Kmalloc` | large blocks of the heap, over `Vmm` | `heap_unwind` |
| `Ahci` | the driver and one port of an adapter, interleaved | `ahci` |
| `Ahci_proofs` | theorems about `Ahci` | TLAPS |
| `SmpBringup` | BSP and APs with their descriptor tables, interleaved | `smp` |
| `SmpBringup_proofs` | theorems about `SmpBringup` | TLAPS |
| `Interrupts` | thread, handlers, PIC, local and I/O APIC and devices, interleaved | `interrupts`, `interrupts_fault` |
| `Interrupts_proofs` | theorems about `Interrupts` | TLAPS |
| `BootInfo` | the walks of `_start` over the boot tags, the search for the MADT | `boot` |
| `Madt` | the three walks of the MADT and the processor tables | `boot` |
| `PciConfig` | a function's BARs and `pci_probe_bar` | `boot` |
| `Pci` | the recursive scan of the buses, over `PciConfig` | `boot` |
| `PciDrivers` | windows, registration, matching and the probes, over `Pci` and the tables of `Vmm` | `boot`, `pci_windows` |
| `Ide` | the IDE driver and the drives of two channels, interleaved | `boot` |
| `Ext2` | finding and reading a file of a volume, down to sectors | `boot` |
| `Boot` | `BootInfo`, `Madt`, `PciDrivers` with `Ide`, and `Ext2`, as `_start` and `kernel_main` call them | `boot`, `pci_windows` |
| `Boot_proofs` | theorems about the parts of `Boot` | TLAPS |
| `Block` | the block device table and the device registry, filled by AHCI | `vfs` |
| `Vfs` | over `Block`: mounts, ustar and ext2, descriptors, fstab, the boot's mounting | `vfs` |
| `Vfs_proofs` | theorems about `Block` and `Vfs` | TLAPS |

`MCx` gives `x` its small constants.  Operators keep the name of the C function
they model; a function with several outcomes has one action per outcome
(`pmm_alloc_frame`, `pmm_alloc_frame_fails`), and one that waits for another
actor has one action per step between two accesses to shared state
(`start_port_stop`, `start_port_run`, ...).  Operators marked *Mutant* are
faulty variants that show each property can fail; nothing uses them.

**Pmm.**  The bitmap is the set of frames whose bit is set.  `TotalFrames`,
`MappedFrames` and `ReservedFrames` are the passes of `pmm_init` over the
memory map and modules, with the rounding of the code; a memory map entry's
`available` flag is all that is kept of its type.  `held` is a history
variable.  In `Spec` callers free what they hold, a frame that is already free,
or an address that is no frame of the bitmap (the last two really happen: slab
passes virtual addresses).  In `AnySpec` they free any address.

**Slab.**  A slab page's header is split into functions of the frame
(`obj_size`, `free_list`, `free_count`); the intrusive free list is a sequence
of slots.  `get_cpu_id` is a stub that answers 0, so a cache has one magazine.
`pmm_free_frame` is used as `Pmm` defines it: an address that is no held frame
changes nothing.

**Vmm.**  `mem` is physical memory, a table of `N` entries per frame, so a
write through a wrong walk lands where it would on the machine.  A frame given
back keeps what its owner wrote, so a table that is not cleared shows.  The
initial memory is what `setup_page_tables` in `boot.asm` builds, for any size of
table: one PDPT entered twice (identity and direct map) with `LOW_PDS` page
directories of large pages, and a kernel window of `KERNEL_MAP` large pages.

**Kmalloc.**  The heap's pages are those of the identity map, where
`_kernel_bss_end` puts them, and nothing reserves them.  A header is an entry
of a page that is not present but has pages, as its magic number reads, so that
entries and headers overwrite each other as they do in memory.  `kfree` reads
the header again for each page it frees.  Elsewhere than in the identity map
that second read would go through the page just unmapped.

**Ahci.**  A command stands for the data it fetches; `buf` is the command whose
data lies in the DMA buffer.  `pc` is the driver's position between two
accesses to the port's registers, and before them at the table of controllers and
at the port's four frames, each of which is either had or missing; `stage` is the progress of identification and
the test reads.  A timeout is a loop that may give up whenever it would go on.
The adapter is external; the driver relies on three rules of the AHCI standard:
clearing `PxCMD.ST` clears `PxCI`, the task file is busy while a command is
carried out, and an error halts the port until `ST` is cleared.

**SmpBringup.**  Each AP is waiting for a SIPI, in one of the three modes of the
trampoline, in `ap_entry`, in `smp_cpu_entry`, before or inside `gdt_init`, in
the last loop, halted, or shut down: until it has the kernel's tables nothing
handles an exception of an AP.  (On a machine whose chipset answers a shutdown
with a reset, all of it starts again; the model keeps the processor shut down
until an INIT.)  Of the trampoline of `boot.asm` the model has the table `lgdt`
loads, the far jump through it and the far return to 64-bit code, in two
versions that `Init` chooses from.  In `Built`, what the assembler makes of it,
`lgdt` is encoded for 32-bit code, runs in 16-bit mode and takes its operand
from address 0 (lines 389-392), and the return pops the selector pushed as one
word for the low half of the address (lines 506-508).  `Meant` is what the
comments at these lines say.  `ap_entry` first asks for its id in the mode of the
BSP (`x2apic_enabled`, set in `apic_init`): the `rdmsr` faults on an AP that is
not in that mode.  An AP that is (`X2Aps`) got its stack by an id read from
memory that does not answer then, and may be `lost` at any time; what it writes
over on that stack is left out.
INIT returns an AP to waiting; a SIPI starts a waiting AP and no
other.  A `pit_wait` is the freedom of the APs to take any number of steps.
`gdt_init` runs once in `ap_entry` and again in `smp_cpu_entry`, with an INIT
possible between its filling of the table and `ltr`, which faults on a task
state that is busy: only because the descriptor is written anew each time does
it always find one that is available.  The tables are shared by index.  That
there are places and that the indexes fit is assumed (`TableAssumption`): the
code checks them against `MAX_CPUS`, 1024, where the tables have 8 places, and
the BSP takes place 0 whatever its own id is.

**Interrupts.**  The thread goes from `interrupts_init` through `sti`,
`madt_init` and `apic_init` to `pit_init`, then waits again and again; between
any two of its steps the processor may take an interrupt and the devices raise
lines.  The PICs (requests, masks, service with priorities and the cascade), the
local APIC (requests and service; all vectors here are of one priority class)
and the pins of the I/O APICs are external.  What firmware leaves is free: the
PIC's mask, and whether the local APIC passes the PIC on (`virtual_wire`).
`pit_counter` is kept relative to the start of the wait and stops at the longest
wait, which is all that `pit_wait` compares.  `interrupts_init` programs the I/O
APICs before the MADT has named one, through a null pointer; the writes hit
memory outside the model, so no pin changes, and this is why no line but the
timer's comes by the I/O APIC.  Two things of the code the model shows: nothing
acknowledges the slave PIC, and `pit_handler` acknowledges only the local APIC,
so a timer interrupt that came by the PIC leaves line 0 in service there for
ever and every PIC line falls silent.

**BootInfo.**  The block is a function from offsets to what reads as a tag
there, so a walk that leaves the list reads something.  `boot_info` keeps the
offset of a tag in place of a pointer.  The root pointer names an RSDT and an
XSDT, each a length and the tables its entries lead to.  The code looks at no
checksum, and so does the model.  Without a root pointer or a MADT the kernel
stops at an assertion (`tag_walk` is `"stopped"`).

**Madt.**  A table is a sequence of bytes with the size of its entries.  One
action reads one entry.  The vectors keep the offset of an entry in place of a
pointer.  The unchecked walks read what lies behind a table cut short, as the
code does, and are assumed to come to no entry of length zero, at which they
would stay.

**PciConfig.**  `hw` says what the hardware keeps of a value written to a BAR;
`REG` is the number of values of a register, 2^32 on the machine.  A BAR of 64
bits is two registers, of which the second is then probed as a BAR of its own.
The size of a BAR of 32 bits comes out with ones in its upper half
(`pci.c:244`, `pci.c:271`), which is harmless as long as such a BAR lies in the
direct map and `map_mmio` is not called with that size.

**Pci.**  The recursion of `scan_bus` is a stack of calls, each with the device
and function its loops have come to; one action looks at one place, or probes
one BAR.  A function is present or not and, if it is a bridge, leads to some
bus (`sec`) and names some bus as its primary one (`prim`), which firmware need
not have set to the bus it is on.  The words 0x18 to 0x24 of a bridge, which are
bus numbers and windows and which the code probes as BARs all the same, are not
among the registers of `config`.

**PciDrivers.**  `mapping` is the call of `pci_map_device_bars` going on, by
`kernel_main` for every function and by a probe for one it has found without an
address; one action maps one page, so that frames run out anywhere in a window.
Page tables are those of `Vmm`, which is instantiated with this module's memory.
A page of a window is a number that wraps around as addresses do, and a cursor
that has come to 0 counts as not set, as in the code.  `command` and `power` are
the registers a probe changes; `dumped` is a history variable.  `ahci_probe` is
one step here: what `ahci_attach` does is in `Ahci` and `Block`.  The Atheros
driver keeps the place of a PHY in `ath_phy` for all cards, so the address of a
second card is read from where the first card's PHY was, and may be read as
ones; nothing in the source claims otherwise.  `walk_upstream` goes, as
`dump_bridge_windows_for_bus` does, from a bus to the primary bus of the first
bridge of the table that leads to it, and remembers nothing.

**Ide.**  `drive` has the registers of each drive; both drives of a channel get
what is written to the address registers, and the one selected gets commands.  A
drive completes or aborts at any moment, whether it is waited for or not.  A wait
is a loop that may give up whenever it would go on.  `missed` is a history
variable: the drives that were busy when looked for, or given up.  An idle drive
that is there never shows a status of 0, which `ide.c:116` takes for no drive.

**Ext2.**  A block is what it reads as: group descriptors, inodes, directory
entries by their offset.  `disk` takes the first sector of a block to that, so an
arithmetic that goes wrong reads nothing.  The data of a file is known by the
place it was read from and the place in the buffer it went to.  One action looks
up a component, reads an inode or copies the part of a file that lies in one
block.  What was stored in a volume is `inodes` and `names`, and `Formatted` says
where the format of ext2 puts that on the disk; it is stated without the driver's
operators.  A formatted volume may still have sectors that cannot be read and
unused directory entries.  The driver never looks at an inode's mode, so a path
that goes on behind the name of a file scans the data of that file for entries;
of such paths (`Astray`) nothing is promised.

**Boot.**  One machine is the boot block, its tables, the PCI functions, the IDE
controller's drives, a volume and a read asked for.  `kernel_main` is sequential;
`Drive` is the drives' own work between its steps.  The mounting that lies
between the drivers and the file is in `Vfs`.

**Block.**  The name of a device is the pair of a disk's and a partition's
number (`sda3` is `<<1, 3>>`).  `Ports` are the ports in the order they are
probed; a probe either finds a disk with one of the partition tables `MBRs` or
leaves nothing.  The heap, here and in `Vfs`, is counted: `heap` blocks taken of
`room`.  `attached` is a history variable.

**Vfs.**  The functions of the code are operators on a record of the state, so
that a call made of calls is their composition and stays one action; a call's
reads of a device fail by kind (superblock, group descriptor, walk, data).  A
path is a sequence of pieces of text: `/` is one, and a piece may be the start
of a name, as `initrd` of `initrdx`, since mounts are matched by text and not by
component.  A disk is a set of volumes, each inode with the entries its blocks
parse as.  `NamesAssumption` leaves out paths with an empty component (`a//b`),
at which `ext2_open` ends its walk with the inode of `a`, and an empty device
name, which `block_read` would find in a free slot of its table;
`VolumesAssumption` says of a directory what the format does, that a name occurs
once and leads to an inode.  What a path names is `Denoted`, of the longest
mount point it begins with, the members of an archive and the entries of
directories; it has none of the code's loops.  A file system's place in memory is used again after an
unmount.  `fd_read` and `dev_get` only read and have no action; `look` is a
listing or a whole-file read, and must leave no trace.  History variables: the
ustar entries lost when an allocation fails (`lost`), the descriptors whose file
system was unmounted (`stale`) and what a descriptor's path named when it was
opened (`named`).

## 3. Runs

| Run | Shows | Instance, and why it is enough |
|---|---|---|
| `pmm` | counter exact, ownership exclusive, nothing reserved handed out, nothing lost, refinement of `FrameAllocator` | five boots: regions, modules and kernel ending inside frames, memory larger than the bitmap, none at all, and a last bitmap byte partly used. Frames of 4 bytes, a bitmap of 16 bits: every rounding and clipping case occurs; the proofs lift the size |
| `pmm_mbinfo` | finding: the information block is not reserved | the same boots |
| `slab` | each object in one place and large enough; counts exact, so that pages leave their cache only when idle | 3 frames, 2 classes of 3 and 1 objects a page, magazines of 2: a class has several pages while another competes, a magazine fills and pages retire |
| `vmm` | tree of tables, frames accounted, refinement of `AddressSpace` | tables of 3 entries with the boot tables of that size, 4 free frames, 3 addresses of which two share a page table: every level can run out |
| `heap_unwind` | finding: a large `kmalloc` that fails frees other frames than it took | the memory of `vmm` with the heap at its place, blocks of 2 and 3 pages |
| `ahci` | a successful read is the sector asked for, the table frame is the port's own, issued commands are kept, calls return | 3 slots, 2 sectors: a command can be stale, another running, a third chosen |
| `smp` | bring-up ends, none enters more than twice, and what each answering AP comes to: with the trampoline as built it shuts down, as commented it runs, unless `x2apic_enabled` names a mode it is not in | both trampolines, with and without x2APIC, where one listed AP and the unlisted one are in that mode; 3 listed APs, the first dead so that the broadcast occurs, one unlisted; two rounds of each wait; four descriptor tables |
| `interrupts` | no device's interrupt is taken for a fault at any step of the set-up; the local APIC is acknowledged for all it delivered; a wait ends, at most two ticks short | timer, a line of the master and one of the slave; the timer wired to interrupt 2 by an override, two I/O APICs; PICs open or masked, virtual wire or not; waits of up to 4 ticks, twice the bound shown |
| `interrupts_fault` | finding: faults with an error code are dispatched by it | the same, with an invalid opcode, a protection and a page fault and two error codes |
| `boot` | the kernel is told what the tags say; the checked walk reads nothing outside the MADT and the processors are the enabled ones; each PCI function is found once, its BARs as they were; an address leads to all of its BAR; registers are read when they answer; a sound drive is identified, by its own data; the file read is the one named, inside the partition; it all ends, but where primary buses form a circle | 5109 machines in five families, each with one part that varies: blocks of up to three tags of seven kinds, cut short and with false tags between and behind; MADTs of up to three entries of nine kinds, cut by up to two bytes; three buses of two devices of two functions with bridges down, up and to themselves, their primary buses right, the ones they lead to, or crossed, a device table of 5; pairs of cards with BARs of all kinds, with 3 frames for windows that need up to 4 tables; power states and circular capability lists; drives of eight kinds, two on a channel; volumes of four geometries with inodes in several groups, holes and bad sectors. Registers of 512 values, pages of 32 bytes, tables of 4 entries: upper halves and large pages occur |
| `pci_windows` | finding: a window in the kernel's large pages does not lead to its device | the same |
| `vfs` | names in the table stay true and unique, every block of heap is accounted for, a mount has its own file system, a descriptor reads the file its path named and changes only by being closed; / is served when the root asked for is none, the initrd or a partition in the table and there is an initrd to fall back to, and never when it is another | two disks of two partitions with 5 slots for 6 devices, so the table fills inside a disk; 3 mounts and 2 descriptors, so both run out; a mount point that is cut, one that is a prefix of another, a volume that is not formatted; a heap of 7 blocks, which runs out at every allocation, and one of 20 |

Bounds are in the constants; no guard of a specification is there to cut the
state space, except that `Ahci` lets `attempt` reach 2, as the code does.

**Fairness.**  `Ahci` asks `WF` of the driver's steps only: the kernel thread
runs on and its loops are counted.  Nothing is asked of the adapter, so
`CallsReturn` holds of a dead device too.  `SmpBringup` asks `WF` of the BSP
and of each processor: they keep executing, and the PIT ends each wait.  A dead
processor is one that no SIPI starts.  Nothing is asked of `lost`: an AP on a
wrong stack may be lucky.  `Interrupts` asks `WF` of the timer, of
the taking of what is pending and of the handlers, and `SF` of the thread: a
handler is much shorter than the timer's period of 1 ms, so between two
interrupts the thread gets to run, though it is not enabled all the time.
Nothing is asked of the other devices.  `Boot` asks `WF` of `kernel_main`, which
never waits for ever; nothing is asked of the drives.

**Deadlock** is checked except for `ahci` (a port on which identification
failed is not used again, and driver and adapter may both rest), and for `smp`,
`boot` and `pci_windows`, which end.

### What the runs found

* `MultibootInfoReserved`: `pmm_init` reserves the information block at its
  direct-map address, past the end of memory, so its frames are handed out.
* `UnwindFreesFrames`: `ensure_table` takes a present 2 MiB entry for a table.
  The heap starts in the identity map, so `kmalloc` reaches this with every
  block above 2 KiB: the map reports success, the translation stays, and an
  entry is written into the mapped data.  A block's memory is therefore not the
  frames allocated for it but those that lie at its address, which the physical
  memory manager hands out as well; unwinding frees these.
* `WindowsReachDevices`: the device windows of `pci.c` start 2 MiB past the
  kernel's image, inside the 128 MiB that are mapped by large pages.  Such a
  window's entries go into memory, the translation stays, and the driver gets an
  address at which there is no device.  `MappedBarsReached` therefore excepts
  windows with a page there.
* `DispatchedByNumber`: for an exception with an error code the stub leaves the
  number where `context_t` has the error code.  A page fault runs
  `idt_handlers[error code]`, which is empty for the usual codes, and stops the
  processor there; `pf_handler` and its record are not reached.

More behaviours the models have and no run singles out.  `slab_free` passes the
virtual address of a retired page to `pmm_free_frame` (`slab.c:146`), which
ignores it: the frame is lost, though the comment above speaks of returning it.
A directory entry without an inode ends the search in its block
(`ext2.c:215`), so the names behind a deleted first entry are not found, and
`ext2_open` takes any inode on the way for a directory (`ext2.c:251`).  An
identification whose poll loop runs out passes the check for completion, which
looks at the error bit only (`ahci.c:473`).  After a reset that failed the
INQUIRY is issued on a port that does not run (`ahci.c:568`); it may be carried
out when a later read starts the port, and that read can then return the wrong
data, which is why `ReadReturnsRequested` and `TablesInOwnFrame` speak of ports
on which this did not happen.  And the counter of started APs is first read
after both SIPIs and their wait (`acpi.c:348`), so an AP that started promptly
is reported as not started.  As built, no AP starts at all (`SmpBringup`,
`Built`): the far return of the trampoline goes to the null selector, each AP
shuts down, and `smp_start_aps` waits for every one of them to the end.  That is
no finding of a run of its own: the kernel is built without the call, and
`AnsweringApsEnd` says it of the trampoline as built.  A root on the command line
that is a partition not in the table, or a word other than `initrd`, leaves /
without a file system though there is an initrd to mount (`kernel.c:173`,
`kernel.c:176`): only a partition that is found and fails to mount is replaced by
the initrd, and fstab is not read either.  A bridge whose primary bus is set to
the bus it leads to, or two whose primary buses cross, keep the probe of a card
behind them in its walk upstream for ever (`pci_drivers.c:62`): boot does not end
there, and `BootEnds` says where it does not.

## 4. Proofs

`Pmm_proofs` is checked by TLAPS, from `PmmAssumption` alone: the page and
bitmap sizes are positive, low memory is a whole number of frames, the direct
map starts at or above the end of what the bitmap describes, memory maps are
finite and their regions are not empty.

* `CountInvariant`, `FreeCount`: under `AnySpec`, `CountInv` (types, the exact
  count, and no frames before `pmm_init`) is inductive.  The types are needed
  because the cardinality lemmas ask for a finite set; the clause about the
  uninitialised state because the bitmap is all clear then.
* `OwnershipInvariant`: `OwnershipInv` adds `Exclusive` and `Conservation`.
  Neither is inductive alone: that an allocation finds a frame needs the exact
  counter, which is read before the search, and that the frame is not held
  needs `Exclusive`; that its address is not 0, the failure value, needs
  `Conservation` and the reservation of low memory.
* `TypeCorrect`, `ExclusiveOwnership`, `FramesConserved`, `ReservedSafe`:
  corollaries; the last also rests on `SpanTouches`, that the rounded-out span
  of frames is the set of frames a range of bytes touches, for any page size.
* `Refinement`: `Spec => ImplementsFrameAllocator`, one case per action; the
  refusal case is where the counter and the search must agree.

`Vfs_proofs` is checked from `BlockAssumption` (tables of at least one slot,
partition tables of four entries, ports in some order) and `VfsAssumption`: two
mount slots or more, as the initrd takes one while / waits for another, a
descriptor, mount points of two pieces (31 characters in the code, so that
`/initrd` is not cut down to `/`), a finite archive and fstab, names and
paths made of pieces, and a root inode on every volume.  Only `ReadTheirFile`
rests on more, `NamesAssumption` and `VolumesAssumption` (section 2).  Nothing is
asked of which reads and allocations fail.

* `TableInvariant`, `NamesLead`, `NamesDiffer`, of `Block` by itself: `BlockInv`,
  the types with `DevicesTrue` and `NamesUnique`, is inductive.  Neither name
  property is inductive alone: a partition takes the port of the slot that has
  its disk's name, so that the port is right needs the name to be unique, and
  that the new name is unique needs every older name to be of a disk found
  before.  Inside one action up to five registrations follow each other; the
  argument carries, from one to the next, that the new disk is in the table or
  the table is full, so a disk that found no room cannot have partitions that did.
* `VfsInvariant`: under `Spec` of `Vfs`, `VfsInv` is inductive.  It is `BlockInv`;
  `Good`, of the record of the state: the types, the heap accounted and the
  mounts apart; `FdsTrue`: the handle of a descriptor that is not stale leads to
  a file system of its kind, and to an entry that is in its list; and that
  nothing is mounted or open before `kernel_main` mounts.  The parts need each
  other: a mount finds a place for its file system because there are no more
  file systems than slots in use (`OwnMounts`), an unmount gives back exactly
  its own blocks because nothing else is mounted from there, and a close never
  gives back more than was taken because the sum of all owners is what the heap
  has.
* `DevicesStay`, `HeapKept`, `MountsApart`, `VfsTypeCorrect`: corollaries.
  `HeapAccounted` counts by cardinality, each block with its owner (`Numbered`),
  which the lemmas on finite sets can speak of; `NumberedChanged` and its
  like say by how much it changes with one owner.
* `DescriptorsStay`, `ReadsStay`, `RootIsServed`: of every step.  The calls are
  compositions, so their proofs are too: `Opened` is what any attempt to open
  does (the blocks of its handle, or no trace), `FsMade` and `MountDone` what
  any attempt to mount does, `Grown` and `Mounts` what a sequence of mounts
  does, and `kernel_main` is a sequence of those.  For `RootIsServed` a mount
  that fails must have found no slot, no heap or no disk, and the fallback to
  the initrd has a second slot; and of a root that is not known, that the only
  mount before, of the initrd, is at another point (`InitrdPointKept`).
* `ReadTheirFile` (`DescriptorsReadTheirFile`): a descriptor reads what it read
  when it was opened (`ReadSame`), so an open has to find the file its path
  denotes (`OpensDenoted`), whatever is mounted then.  `FoundLongest`: the slot
  that `find_mount` has come to after k slots is before every other of them, by
  length and then by number.  `MemberFound`: the list of an archive has its
  regular members, the later ones first (`AsArchived`, part of `VfsInv`; a list
  lost for want of memory has only those after), so the first entry of a name is
  the last member of it.  `WalkIs`: after each piece of a path the walk of ext2
  holds the component that reaches up to it, and the inode of what is before
  (`OnTrail`, `PieceOnTrail`); the inodes along a path are a function whose value
  at each piece rests on an earlier one, not on the one before (`HistoryExists`).
  `AreaIs`: the partition read is the one of the device's name, for `DevicesTrue`.
* The loops over mounts, members of the archive, pieces of paths and lines of
  fstab are recursive
  functions over the number of passes.  `LoopExists` shows there is the function
  such a definition chooses and `LoopStays` that what every pass keeps holds at
  the end, both by induction over a set of numbers.

`Slab_proofs` is checked from the assumptions of `Slab` alone, for any frames,
classes and magazine size.  `SlabInvariant` shows `IInv` inductive, from which
`OnePlace` (`ObjectsInOnePlace`), `Fit` (`ObjectsFit`) and `Accounted`
(`PagesAccounted`) follow.  The properties say where objects are; the
invariant adds what an operation relies on: that lists and magazines repeat
nothing (`FreeLists`, `Caches`, `Magazines`: popping one copy would leave
another), that what is in a magazine or with a caller is of a page of its class
and not on a free list (`Callers`), and that a page outside its cache has all
its objects back (`RetiredFull`), so that no object is freed into a page that
is nobody's.  `PagesHeld`, that a page once taken stays held, is true because
`slab_free` gives back an address that is no frame (section 3): with an address
that is one, the frame could come back as a second page while its objects are
in a magazine, and the argument would have to exclude that.

`Vmm_proofs` is checked from `VmmAssumption` and two hypotheses on the
addresses callers map: `Clean`, the boot tables have neither a page table nor a
large page there, and, for the refinement, `OwnRoots`, they do not go through
the PDPT that the identity map and the direct map share.  Without `Clean` the
theorems are false: `ensure_table` takes a large page for a table, which is the
finding of `heap_unwind`.  Without `OwnRoots` one entry is seen at two
addresses.  TLC evaluates both on the instance of `vmm`
(`MCCleanAssumption`).  `TreeInvariant` shows `Good` inductive, a
predicate of a memory, a pool and the frames with callers, so that it can be
stated between the steps of one operation: `vmm_map_page` makes up to three
tables, and an allocated frame is for a while in neither pool nor data.  Its parts: no
table is free or a caller's (`Apart`), none serves at two levels (`Disjoint`),
one entry leads to each (`Unique`, but for the shared PDPT: `Shared`), callers'
walks meet no large page (`NoneLarge`), page tables lead to devices and callers' frames only
(`Entered`), and every other frame of the boot is a table that is reached
(`Reached`).  `LinkedGood` is the step of `ensure_table`, `WrittenGood` the
writing of an entry, `DirtGood` that of a frame's owner; `TreeKept`
(`TablesFormTree`) and `Accounted` (`FramesAccounted`) follow.  `Refinement`:
`Spec => ImplementsAddressSpace`; making tables changes no translation
(`Kept`), and writing an entry changes one, because by `Unique` and `Shared` one
path leads to it (`OnePath`).

`Ahci_proofs` is checked from `AhciAssumption` alone, for any number of slots
and sectors, with an adapter that may complete late, fail or stay silent.
`PortInvariant` shows `IInv` inductive.  `ReadReturnsRequested` speaks of the
end of a read; what makes it true is that a read goes out on a port with
nothing issued, hence in the first slot, and that while its slot is issued
nothing else is carried out (`ReadAlone`).  That needs `Issued`, that stopping
a port empties it, and `Work`, which command each wait belongs to.  `ReadTrue`
and `TableInFrame` follow, with the proviso of the properties that no command
went to a port that did not run; `IssuedKept` (`IssuedSlotsKept`) is an action
property and has no such proviso.

`SmpBringup_proofs` is checked from `SmpAssumption` and `TableAssumption`, for
any processors and waits, either trampoline and any modes of the processors.  `EntersAtMostTwice` is not inductive: `Budget` counts
with the entries of a processor the one it is on its way to and the one that its
own INIT, still to come, can bring about.  `TaskRegistersLoad` is about every
execution of `ltr`: the descriptor is available whenever an AP is about to load
it, so none faults, although INITs catch APs inside `gdt_init`.

`Interrupts_proofs` is checked from `InterruptsAssumption`, for any lines,
overrides, I/O APICs and firmware masks.  `InterruptInvariant` is proved of
`FaultSpec`, in which the thread may also fault, and so holds of `Spec`, which
allows less.  `SetUp` ties the PIC's offset, the handlers and the redirection
entries to how far `kernel_main` is; `Taken` says that the local APIC sees the
timer's vector only, and only once its handler is there.
`NoneTakenForFault` and `Acknowledged` follow.  `LongEnough`
(`WaitsLongEnough`) has a counting invariant of its own (`WaitInv`): the ticks
counted, pending, being handled and the single one the PIC can still deliver
are at most the timer's periods and two.  It assumes `TimerPinOwn`, that the
MADT wires no other line to the timer's pin: that pin has the timer's vector, so
an interrupt of another device there would count as a tick.

`Boot_proofs` is checked from the assumptions of the modules of `Boot`, for any
machines that `BootAssumption` allows.  What it asks of a machine is: a boot
block whose tags have a size, with a root pointer whose tables have the entries
their length says (`BlockReadable`); tables that are memory
(`TableReadable`) with unchecked walks that end; PCI functions within the
numbers of devices and functions there are, with the low bits of a BAR saying
what it is, memory BARs of sizes that are powers of two of 16 bytes and more, as
the PCI standard has them (their size need only divide the number of values of a
register), and a BAR of 64 bits smaller than 4 GiB, its upper half keeping every
bit (`BarHardware`); an IDE channel in native mode with BARs of ports; and a
volume that is formatted (`Formatted`), with directories of direct blocks only,
as the driver reads no others.  Of bridges it is asked only that the buses they
name are numbers (`BootEnds`, which is not proved, has its own proviso, see
section 3), and nothing of capability lists, drives, of the geometry of a volume or of which of its sectors can be read.  Each
part has an
invariant of its own, and `BootKnows` shows their conjunction inductive: a probe
is called for a function the scan has found, so the parts depend on each other
in that order only.

* `BootInfoKnown` (`BootInfoTrue`): `TagsInv` says that a walk that is over has
  told the kernel what it was to find, and that one that goes on has, with what
  it has gathered and what lies from its tag on (`Left`), the whole list.  The
  list is a recursive function over the offsets of the block (`TagsFrom`), of
  which the equation has to be proved first: `WalkExists` shows for any walk that
  goes forward up to a bound that such a function exists, by induction over the
  set of numbers of offsets from the end for which it does, and `WalkTyped` that
  what it gathers keeps its kind.
* `ProcessorsKnown` (`ProcessorsTrue`): `ProcsInv` says the same of the third walk
  of the MADT, the slots filled so far and the processors still to come up to
  where the table is sound (`EnabledFrom`).  That they are no more than
  `find_smp_cores` counted rests on a second such function, of what an unchecked
  walk counts (`LapicsFrom`): the checked walk goes on only where the unchecked
  one does, so from every offset it has no more to come to.
* `WalkInside` (`PopulateInside`): the walk that checks lengths never reads past
  the table, because the table found is one the firmware listed and every entry
  is looked at only if it ends inside.
* `FoundOnce` (`FunctionsFoundOnce`): `ScanInv` speaks of the whole stack of
  `scan_bus`.  The calls that have not returned are for different buses, so that
  "behind every call on its bus" (`Passed`) says of each function whether the
  scan is done with it; a function is in the table exactly if it was passed and
  the table is not full, and every bus it leads to is remembered.  `Reached` is
  the least set of buses that contains bus 0 and the buses its bridges lead to,
  so at the end the buses remembered contain it.  Only when the table fills can a
  function be missed, and then every call returns.
* `BarsRestored` (`BarsTrue`): what a probe writes it takes back for every value a
  BAR can hold, also when an upper half is probed as a BAR; a size of 64 bits
  comes out for every power of two, as the lemmas on `SizeOf` and `Wide` show.
* `RegistersAnswer` (`ReadsAnswered`): `CapsWalked` says of the loop over the
  capabilities that all walks along the list of the length it has counted have
  been taken, and that every longer one goes on from `cap`.  A list without an
  end is therefore left after its power capability has been seen, if it is seen
  at all.
* `SoundDrivesIdentified` (`DrivesIdentified`): data or an error a drive shows is
  its answer to the command it was given last (`Answered`), although drives
  answer at any moment, the clearing of the address registers reaches both, and
  a command that was given up may be answered while the neighbour is asked.  A
  place the driver is done with (`Past`) has its sound drive identified or
  missed.
* `FileFound` (`FileReadTrue`): `FileInv` says that the names still to be looked
  up are the last of the path and that from the inode the driver has come to they
  name what the whole path names (`NamedHere`), so a step need only be right
  about one name.  It is: a scan finds nothing but an entry of that name
  (`ScanHits`), and if all entries of a block are in use and fill it, it comes to
  each of them (`ScanComplete`, along the scan's own offsets), so that a name is
  missed for a failed read or an unused entry only (`LookUp`).  `PlaceOfInode`
  shows that the block and offset the driver computes are where the byte offset
  in the table says, for any sizes of which one divides the other; that there is
  only one quotient and remainder (`OneQuotient`) had to be proved.  `RunsTrue`
  and `AllRead` are the copying: each run of bytes starts where the one before
  ends, in the file as in the buffer, and the loop stops where nothing more can
  be had.
* `ReadsInVolume` (`SectorsInside`): the blocks the driver reads are those of
  descriptors, tables, directories and files, and with the same invariant each
  is one the format puts inside the partition (`InsideVolume`).

* `BarsReached` (`MappedBarsReached`): every BAR with an address is reached there
  whole, but for windows with a page in a large page (section 3), at any moment:
  while a later window is half made, after one for which frames ran out, after a
  driver asked for one again.  It rests on `DriversAssumption`, that the direct
  map is that of the addresses of 32 bits and that the tables of `boot.asm` lie
  in the kernel's image (`.boot.bss` in `linker.ld`), and on the hypothesis
  `WindowsFit`, that a window ends before the last page of the address space.
  Behind it the cursor comes round: 0 is what `pci_map_device_bars` takes for not
  set, so that the next window is placed over the first one, and beyond 0 windows
  are placed over the identity map.  The windows of the machines of `boot` end
  before.  `WindowsInv` is inductive.  The tree of `Vmm_proofs` cannot be used, as
  windows lie where `Clean` does not hold; `TablesInv` says less, of the kernel's
  two directories alone: what `boot.asm` made is there (`BootTables`), tables made
  for windows lie in frames taken from the pool (`TablesMade`) and each is entered
  once (`EnteredOnce`), so that an entry written for one page is not seen at
  another (`PageMapped`, `PageAs`).  A page that is in a large page of the kernel's
  takes no frame (`LargePageWritten`), and as windows only go up, those come
  before all others: until then the pool is as boot left it.  `BarsMapped` says
  where known pages lie, in the direct map or below the page that is mapped next
  (`NextPage`), so that mapping that one leaves them; `WindowTrue` that the window
  under way is one of the BAR that is asked for and has led to it so far.
  `WindowCovers` is the arithmetic: a window has pages enough for its BAR, rounded
  to pages at both ends.

The lemmas on `Min` and `Max` are there because the community modules define
them by `CHOOSE`; they rest on the well-foundedness of `<` on naturals and of
strict inclusion on finite sets.

Only model-checked:

* liveness (`CallsReturn`, `StartupEnds`, `AnsweringApsEnd`, `WaitsEnd`,
  `BootEnds`), which rests on fairness and `ENABLED`;
* the property of `Kmalloc` and the others that runs find violated.

## 5. What is not modelled, and the plan

Every invariant and every action property that a passing run checks has a
theorem.  What is still to be stated and proved is what `kmalloc` does keep: the
tree of `Vmm_proofs` is that of addresses where `Clean` holds, and the heap starts
in the identity map, where it does not.

Candidates for more modelling: the frames an AHCI port takes and loses when the
next cannot be had, and the entries of the table of controllers (`Ahci` has the
choice between success and giving up); frames above 4 GiB, which the
direct map does not reach (the models give every frame a direct-map address);
windows of more than the 2 GiB behind the kernel, after which the cursor comes
round and windows are placed over the identity map (`PciDrivers` has the cursor,
the machines of `boot` keep below).

Left out for good: console and formatting (output only; `printf` and flanterm
are vendored), string and command line helpers (sequential, without state), the
RTL8139 driver (its registration is commented out, so no reachable code runs
it), the instructions of the change to long mode, and those of the AP trampoline but
for its jumps.
