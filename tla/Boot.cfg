SPECIFICATION Spec
CONSTANTS
  MAX_BOOT_MODULES = 2
  LAPIC_LEN = 5
  MAX_CPUS = 2
  BspId = 7
  Firmware <- MCFirmware
  REG = 512
  PAGE = 32
  DEVICES = 2
  FUNCTIONS = 2
  PCI_MAX_DEVICES = 5
  N = 4
  Frames <- MCFrames
  BootFree <- MCBootFree
  pml4_phys = 4
  LOW_PDS = 1
  KERNEL_PHYS_BASE = 4
  KERNEL_MAP = 3
  KERNEL_SIZE = 6
  MAX_PCI_DRIVERS = 2
  CAPABILITIES = 3
INVARIANTS
  BootInfoTrue PopulateInside ProcessorsTrue FunctionsFoundOnce BarsTrue MappedBarsReached ReadsAnswered
  DrivesIdentified FileReadTrue SectorsInside
PROPERTY BootEnds
CHECK_DEADLOCK FALSE
