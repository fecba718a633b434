SPECIFICATION ToolsSpec
CONSTANTS
  SECTSIZE = 2
  N_INODE_DATABLOCK = 2
  NBLOCK = 16
  ENTRY_COUNT = 3
  FDPOOL_SIZE = 1
  kernel = kernel
  user = user
  third = third
  KERNEL = kernel
  Names = {kernel, user, third}
  WriteLens = {1, 2}
  ReadLens = {1, 2}
  MaxFileSize = 5
  Offsets = {0}
  Whences = {"SEEK_SET"}
  Layouts <- MCLayouts
  MemSize = 10
SYMMETRY OtherNames
INVARIANTS Durable ReadsBack KernelBoots
