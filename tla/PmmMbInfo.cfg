SPECIFICATION Spec
CONSTANTS
  PMM_PAGE_SIZE = 4
  PMM_BITMAP_BYTES = 2
  LOW_LIMIT = 4
  HHDM_BASE = 512
  KernelStart = 8
  KernelEnd = 15
  BootInfos <- MCBootInfos
  StrayAddrs <- MCStrayAddrs
  AnyAddrs <- MCAnyAddrs
INVARIANT MultibootInfoReserved
