SPECIFICATION Spec
CONSTANTS
  MAX_BLOCKS = 5
  MAX_DEVICES = 6
  Ports <- MCPorts
  MBRs <- MCMBRs
  NoPartition = NoPartition
  Rooms = {7, 20}
  MAX_MOUNTS = 3
  MAX_FDS = 2
  POINT_LEN = 4
  Pieces <- MCPieces
  Archive <- MCArchive
  Volumes <- MCVolumes
  FstabLines <- MCFstabLines
  Roots <- MCRoots
  Paths <- MCPaths
  Points <- MCPoints
  MountDevs <- MCMountDevs
  FailSets <- MCFailSets
INVARIANTS DevicesTrue NamesUnique HeapAccounted MountsOwnFileSystems DescriptorsReadTheirFile
PROPERTIES DescriptorsKept RootServed
