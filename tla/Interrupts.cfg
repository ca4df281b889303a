SPECIFICATION Spec
CONSTANTS
  Lines = {0, 1, 14}
  Overrides <- MCOverrides
  GsiBases <- MCGsiBases
  Masks <- MCMasks
  MAX_MS = 4
  Exceptions = {}
  ErrorCodes = {}
INVARIANTS NoInterruptTakenForFault LocalApicAcknowledged
PROPERTIES WaitsEnd WaitsLongEnough
