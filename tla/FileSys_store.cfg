SPECIFICATION FSSpec
CONSTANTS
  SECTSIZE = 2
  N_INODE_DATABLOCK = 2
  NBLOCK = 11
  ENTRY_COUNT = 2
  FDPOOL_SIZE = 2
  KERNEL = "kernel.bin"
  Names = {"kernel.bin", "user.bin"}
  WriteLens = {5}
  ReadLens = {3}
  MaxFileSize = 5
  Offsets = {0}
  Whences = {"SEEK_SET", "SEEK_CUR"}
INVARIANTS FSTypeOK BlocksHaveOneOwner
PROPERTY ImplementsStore
