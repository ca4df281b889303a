SPECIFICATION Spec
CONSTANTS
  N = 3
  Frames <- MCFrames
  LOW_PDS = 2
  KERNEL_PHYS_BASE = 3
  KERNEL_MAP = 1
  BootFree <- MCBootFree
  pml4_phys = 3
  MapVAs <- MCClean
  DevicePages = {30}
INVARIANTS TablesFormTree FramesAccounted
PROPERTY ImplementsAddressSpace
