SPECIFICATION Spec
CONSTANTS
  Slots <- MCSlots
  Lbas <- MCLbas
CHECK_DEADLOCK FALSE
INVARIANTS ReadReturnsRequested TablesInOwnFrame
PROPERTIES IssuedSlotsKept CallsReturn
