SPECIFICATION FaultSpec
CONSTANTS
  Lines = {0, 1, 14}
  Overrides <- MCOverrides
  GsiBases <- MCGsiBases
  Masks <- MCMasks
  MAX_MS = 4
  Exceptions = {6, 13, 14}
  ErrorCodes = {0, 2}
INVARIANT DispatchedByNumber
