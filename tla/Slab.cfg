SPECIFICATION Spec
CONSTANTS
  Frames = {1, 2, 3}
  NoFrame = 0
  HHDM_BASE = 10
  slab_sizes <- MCSizes
  USABLE = 3
  SLAB_MAGAZINE_SIZE = 2
  Sizes = {1, 2, 3}
INVARIANTS ObjectsInOnePlace ObjectsFit PagesAccounted
