SPECIFICATION Spec
CONSTANTS
  NAps = 3
  SMP_MAX_CPU_COUNT = 4
  processor_id <- MCProcessorId
  Unlisted <- MCUnlisted
  Dead <- MCDead
  X2Aps <- MCX2Aps
  Polls = 2
  Polls2 = 2
CHECK_DEADLOCK FALSE
INVARIANT EntersAtMostTwice
PROPERTIES StartupEnds AnsweringApsEnd
