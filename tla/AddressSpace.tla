---------------------------- MODULE AddressSpace ----------------------------
(***************************************************************************)
(* What the virtual memory manager promises: a map from page addresses to  *)
(* physical pages, changed at one address by each operation that reports   *)
(* success and at none by one that reports failure.  Vmm implements it     *)
(* where the boot code has mapped no large page.                           *)
(***************************************************************************)
EXTENDS Integers

CONSTANTS
  VAs,        \* page addresses
  Targets     \* physical pages that can be mapped

Unmapped == 0

VARIABLES
  space,      \* address -> physical page, or Unmapped
  last        \* the last operation and what it reported

vars == <<space, last>>

Report(op, va, phys, result) ==
  last' = [op |-> op, va |-> va, phys |-> phys, result |-> result]

Map(va, phys) ==
  /\ Report("map", va, phys, 0)
  /\ space' = [space EXCEPT ![va] = phys]

MapFails(va, phys) ==
  /\ Report("map", va, phys, -1)
  /\ UNCHANGED space

Unmap(va) ==
  /\ Report("unmap", va, 0, 0)
  /\ space' = [space EXCEPT ![va] = Unmapped]

\* Only an address that is not mapped can be refused.
UnmapFails(va) ==
  /\ Report("unmap", va, 0, -1)
  /\ space[va] = Unmapped
  /\ UNCHANGED space

Init ==
  /\ space \in [VAs -> Nat]
  /\ last = [op |-> "none"]

Next ==
  \E va \in VAs :
    \/ \E phys \in Targets : Map(va, phys) \/ MapFails(va, phys)
    \/ Unmap(va)
    \/ UnmapFails(va)

Spec == Init /\ [][Next]_vars
=============================================================================
