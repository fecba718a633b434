SPECIFICATION FSSpec
CONSTANTS
  SECTSIZE = 2
  N_INODE_DATABLOCK = 1
  NBLOCK = 8
  ENTRY_COUNT = 2
  FDPOOL_SIZE = 1
  KERNEL = "kernel.bin"
  Names = {"kernel.bin", "user.bin"}
  WriteLens = {1, 3}
  ReadLens = {1, 3}
  MaxFileSize = 3
  Offsets = {0}
  Whences = {"SEEK_SET", "SEEK_CUR"}
INVARIANT RdwrIsWritable
