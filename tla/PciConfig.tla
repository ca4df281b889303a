----------------------------- MODULE PciConfig -----------------------------
(***************************************************************************)
(* The base address registers (BARs) of a PCI function and how their sizes *)
(* are found (src/bus/pci.c: pci_probe_bar).                               *)
(*                                                                         *)
(* hw says what the hardware makes of a register: unit[b] bytes are        *)
(* decoded, so a value keeps its multiples of that, and flags[b] cannot be *)
(* written.  A register that is not there has the unit REG.  Register 6 is *)
(* the word behind the last BAR, which cannot be written either.           *)
(***************************************************************************)
EXTENDS Integers, Sequences, SequencesExt

CONSTANT REG          \* values of a register (2^32)

ASSUME RegAssumption == REG \in Nat /\ REG > 0 /\ REG % 16 = 0

BARS == 0 .. 5
Registers == 0 .. 6

AllOnes == REG - 1

\* What register b holds after value v is written to it, and the registers then.
Stored(hw, b, v) == v - (v % hw.unit[b]) + hw.flags[b]
Written(hw, regs, b, v) == [regs EXCEPT ![b] = Stored(hw, b, v)]

\* The register is the upper half of a 64-bit BAR.
UpperHalf(hw, b) == b > 0 /\ hw.flags[b - 1] \in {4, 12}

\* What is known of a function's registers: firmware left what they can hold, the
\* low bits of a BAR say what it is, and an upper half is an address alone.  Sizes of
\* memory are multiples of 16 that divide the values of a register, as powers of two do.
BarHardware(hw, regs) ==
  /\ hw.unit \in [Registers -> 1 .. REG] /\ hw.flags \in [Registers -> {0, 1, 4, 8, 12}]
  /\ regs \in [Registers -> 0 .. AllOnes]
  /\ \A b \in Registers : Stored(hw, b, regs[b]) = regs[b]
  /\ \A b \in BARS : hw.unit[b] < REG /\ ~UpperHalf(hw, b) =>
       /\ regs[b] % (IF hw.flags[b] = 1 THEN 4 ELSE 16) = hw.flags[b]
       /\ hw.flags[b] # 1 => hw.unit[b] % 16 = 0 /\ REG % hw.unit[b] = 0
  /\ \A b \in BARS : hw.flags[b] \in {4, 12} =>
       /\ hw.unit[b] % 16 = 0 /\ REG % hw.unit[b] = 0
       /\ b + 1 \in BARS /\ hw.unit[b + 1] = 1 /\ hw.flags[b + 1] = 0

\* A number of 64 bits, and the size that a mask read back stands for.
Wide(hi, lo) == hi * REG + lo
SizeOf(mask) == (REG * REG - mask) % (REG * REG)

IsIo(orig) == orig % 2 = 1
Is64(orig) == (orig \div 2) % 4 = 2

NoBar == [addr |-> 0, size |-> 0, io |-> FALSE]

\* Mutant: the lower half alone is written back.
RestoredLow(hw, regs, b, orig, orig_hi) == Written(hw, regs, b, orig)

\* Both halves of a 64-bit BAR are written back.
Restored(hw, regs, b, orig, orig_hi) == Written(hw, Written(hw, regs, b, orig), b + 1, orig_hi)

\* The low bits that are no part of an address.  The size of a BAR of 32 bits
\* is taken from the mask of its register as of 64 bits.
Probe32(hw, regs, ones, b, low) ==
  [regs |-> Written(hw, ones, b, regs[b]),
   bar  |-> [addr |-> regs[b] - (regs[b] % low),
             size |-> SizeOf(ones[b] - (ones[b] % low)),
             io   |-> IsIo(regs[b])]]

Probe64(hw, regs, ones, b) ==
  [regs |-> Restored(hw, ones, b, regs[b], regs[b + 1]),
   bar  |-> [addr |-> Wide(regs[b + 1], regs[b] - (regs[b] % 16)),
             size |-> SizeOf(Wide(ones[b + 1], ones[b] - (ones[b] % 16))),
             io   |-> FALSE]]

pci_probe_bar(hw, regs, b) ==
  LET ones == Written(hw, regs, b, AllOnes)
  IN  IF regs[b] = 0 THEN [regs |-> regs, bar |-> NoBar]
      ELSE IF IsIo(regs[b]) THEN Probe32(hw, regs, ones, b, 4)
      ELSE IF Is64(regs[b]) THEN Probe64(hw, regs, Written(hw, ones, b + 1, AllOnes), b)
      ELSE Probe32(hw, regs, ones, b, 16)
=============================================================================
