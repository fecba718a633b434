------------------------------ MODULE FileSys ------------------------------
(***************************************************************************)
(* kernel/fs.c: a directory, a bitmap of used blocks and a pool of         *)
(* descriptors, each with a copy of one inode and of one data block of its *)
(* file.  A file is a linked list of inodes.  The code is sequential; each *)
(* call is one action.  The operators named after functions of the code    *)
(* take the state of the program, a record of the variables (see Here), to *)
(* the state that the function leaves behind.                              *)
(***************************************************************************)
EXTENDS Integers, Sequences, FiniteSets, FiniteSetsExt

CONSTANTS
  SECTSIZE,           \* cells of a block
  N_INODE_DATABLOCK,  \* data blocks of an inode
  NBLOCK,             \* blocks of the data area, bits of the bitmap
  ENTRY_COUNT,        \* entries of the directory
  FDPOOL_SIZE,        \* descriptors
  Names,              \* file names
  KERNEL,             \* "kernel.bin"
  WriteLens,          \* bound: the lengths of one fs_write
  ReadLens,           \* bound: the lengths of one fs_read
  MaxFileSize,        \* bound: cells of a file
  Offsets, Whences    \* bound: the arguments of fs_lseek

ASSUME FileSysAssumption ==
  /\ SECTSIZE \in Nat \ {0} /\ N_INODE_DATABLOCK \in Nat \ {0}
  /\ NBLOCK \in Nat \ {0} /\ ENTRY_COUNT \in Nat \ {0}
  /\ FDPOOL_SIZE \in Nat \ {0}
  /\ KERNEL \in Names /\ "" \notin Names
  /\ WriteLens \cup ReadLens \subseteq Nat \ {0} /\ MaxFileSize \in Nat
  /\ Offsets \subseteq Int
  /\ Whences \subseteq {"SEEK_SET", "SEEK_CUR", "SEEK_END"}

VARIABLES
  image,         \* the disk: directory, bitmap and data blocks
  image_mode,    \* how the program opened it; the kernel's disk is "O_RDWR"
  dir, bitmap,   \* the copies in memory; bitmap is the set of used blocks
  state_dir, state_bitmap,
  fd_pool,
  wants,         \* wants[fd]: the flags the program opened fd with
  io,            \* the data that the last call wrote or read
  mode           \* "ok"; "panic"; "overrun": wrote outside of bitmap

fsVars == <<image, image_mode, dir, bitmap, state_dir, state_bitmap, fd_pool,
            wants, io, mode>>


\* What programs write to cell p of file i, when it is new and when it is
\* overwritten: no two cells of two files have a value in common.
CellValue(i, p, new) == 2 * (i * MaxFileSize + p) + (IF new THEN 1 ELSE 2)
Values == 1 .. 2 * ENTRY_COUNT * MaxFileSize

Blocks == 0..NBLOCK-1
Fds == 0..FDPOOL_SIZE-1
Entries == 0..ENTRY_COUNT-1
INODE_CAPACITY == N_INODE_DATABLOCK * SECTSIZE
NotAllocated == -1

ZeroInode == [dataBlocks |-> [i \in 0..N_INODE_DATABLOCK-1 |-> 0], next |-> 0]
ZeroBlock == [cells |-> [i \in 0..SECTSIZE-1 |-> 0]]
NoFile == [fileName |-> "", fileSize |-> 0, inodeOffset |-> 0]
ZeroFd == [index |-> 0, offset |-> 0, opened |-> FALSE, writable |-> FALSE,
           buffer |-> ZeroBlock, buffer_idx |-> 0, buffer_state |-> "GARBAGE",
           inode |-> ZeroInode, inode_idx |-> 0, inode_state |-> "GARBAGE"]

\* util/formatter: an image of zeros.
Formatted == [dir |-> [e \in Entries |-> NoFile], bitmap |-> {},
              data |-> [b \in Blocks |-> ZeroBlock]]

-----------------------------------------------------------------------------
(* The state of the program while a call runs: ret is what the last        *)
(* function returned, past the images the disk has held since the call     *)
(* began.                                                                  *)

Here == [image |-> image, image_mode |-> image_mode, dir |-> dir,
         bitmap |-> bitmap, state_dir |-> state_dir,
         state_bitmap |-> state_bitmap, fd_pool |-> fd_pool, mode |-> mode,
         ret |-> 0, past |-> {image}]

\* A panic ends the program: nothing it would have written reaches the disk.
\* A write to an image opened read-only fails, and nobody looks.
Panic(s) == [s EXCEPT !.mode = IF @ = "ok" THEN "panic" ELSE @]

WriteImage(s, im) == IF s.mode # "ok" \/ s.image_mode = "O_RDONLY"
                       THEN s
                       ELSE [s EXCEPT !.image = im, !.past = @ \cup {im}]
IDE_WRITE(s, b, block) == WriteImage(s, [s.image EXCEPT !.data[b] = block])
IDE_READ(s, b) == s.image.data[b]

FlushDir(s) == IF s.state_dir = "NEED_WASHING"
                 THEN WriteImage(s, [s.image EXCEPT !.dir = s.dir])
                 ELSE s

\* Mutant: only the directory is written.
FlushBitmap_Forgotten(s) == s
FlushBitmap(s) == IF s.state_bitmap = "NEED_WASHING"
                    THEN WriteImage(s, [s.image EXCEPT !.bitmap = s.bitmap])
                    ELSE s

\* Mutant: the bitmap is left in the state of an empty buffer.
fs_flush_Garbage(s) == [FlushBitmap(FlushDir(s)) EXCEPT !.state_dir = "USEFUL",
                                                        !.state_bitmap = "GARBAGE"]
fs_flush(s) == [FlushBitmap(FlushDir(s)) EXCEPT !.state_dir = "USEFUL",
                                                !.state_bitmap = "USEFUL"]

\* Mutant: the bit is not set.
find_empty_inode_Unmarked(s) ==
  [s EXCEPT !.ret = Min(Blocks \ s.bitmap)]

\* The scan goes on behind a full bitmap and takes the first zero bit there.
find_empty_inode(s) ==
  IF Blocks \subseteq s.bitmap
    THEN [s EXCEPT !.mode = IF @ = "ok" THEN "overrun" ELSE @]
    ELSE LET b == Min(Blocks \ s.bitmap)
         IN  [s EXCEPT !.bitmap = @ \cup {b}, !.ret = b,
                       !.state_bitmap = "NEED_WASHING"]

fd_inode_flush(s, fd) ==
  LET f == s.fd_pool[fd]
  IN  IF f.inode_state = "NEED_WASHING"
        THEN IDE_WRITE([s EXCEPT !.fd_pool[fd].inode_state = "USEFUL"],
                       f.inode_idx, f.inode)
        ELSE s

\* The first inode of a file nothing was written to.
fd_set_inode(s, fd) ==
  LET t == find_empty_inode(s)
  IN  [t EXCEPT !.fd_pool[fd].inode_idx = t.ret,
                !.fd_pool[fd].inode = ZeroInode,
                !.fd_pool[fd].inode_state = "NEED_WASHING",
                !.dir[t.fd_pool[fd].index].inodeOffset = t.ret,
                !.state_dir = "NEED_WASHING"]

fd_alloc_next_inode(s, fd) ==
  LET t == find_empty_inode(s)
      u == fd_inode_flush([t EXCEPT !.fd_pool[fd].inode.next = t.ret,
                                    !.fd_pool[fd].inode_state = "NEED_WASHING"],
                          fd)
  IN  [u EXCEPT !.fd_pool[fd].inode_idx = t.ret,
                !.fd_pool[fd].inode = ZeroInode,
                !.fd_pool[fd].inode_state = "NEED_WASHING"]

LoadInode(s, fd, b) ==
  [s EXCEPT !.fd_pool[fd].inode_idx = b,
            !.fd_pool[fd].inode = IDE_READ(s, b),
            !.fd_pool[fd].inode_state = "USEFUL"]

\* The inode for an offset that is a multiple of INODE_CAPACITY.
fd_inode_state_init(s, fd) ==
  LET f == s.fd_pool[fd]
      first == s.dir[f.index].inodeOffset
  IN  CASE f.offset = 0 /\ first = NotAllocated -> fd_set_inode(s, fd)
        [] f.offset = 0 /\ first # NotAllocated -> LoadInode(s, fd, first)
        [] f.offset # 0 /\ f.inode.next = 0 -> fd_alloc_next_inode(s, fd)
        [] OTHER -> LoadInode(s, fd, f.inode.next)

fd_buffer_flush(s, fd) ==
  LET f == s.fd_pool[fd]
      t == IF f.buffer_state = "NEED_WASHING"
             THEN IDE_WRITE(s, f.buffer_idx, f.buffer) ELSE s
  IN  [t EXCEPT !.fd_pool[fd].buffer_state = "GARBAGE"]

\* Data block i of the current inode, allocated when it has none; the buffer
\* of a new block keeps the cells of the old one.
FetchBlock(s, fd, i) ==
  LET b == s.fd_pool[fd].inode.dataBlocks[i]
      t == find_empty_inode(s)
  IN  IF b = 0
        THEN [t EXCEPT !.fd_pool[fd].inode_state = "NEED_WASHING",
                       !.fd_pool[fd].inode.dataBlocks[i] = t.ret,
                       !.fd_pool[fd].buffer_idx = t.ret,
                       !.fd_pool[fd].buffer_state = "USEFUL"]
        ELSE [s EXCEPT !.fd_pool[fd].buffer = IDE_READ(s, b),
                       !.fd_pool[fd].buffer_idx = b,
                       !.fd_pool[fd].buffer_state = "USEFUL"]

NextInode(s, fd) ==
  IF s.fd_pool[fd].offset % INODE_CAPACITY = 0
    THEN fd_inode_state_init(
           [fd_inode_flush(s, fd) EXCEPT !.fd_pool[fd].inode_state = "GARBAGE"],
           fd)
    ELSE s

fd_buffer_fetch(s, fd) ==
  LET f == s.fd_pool[fd]
  IN  CASE f.buffer_state # "GARBAGE" -> s
        [] f.buffer_state = "GARBAGE" /\ f.offset % SECTSIZE # 0 -> Panic(s)
        [] OTHER -> FetchBlock(NextInode(s, fd), fd,
                      (f.offset \div SECTSIZE) % N_INODE_DATABLOCK)

-----------------------------------------------------------------------------
(* The calls.                                                              *)

E_ACCESS == -5
E_DQUOT == -6
E_NOENT == -7

FilesNamed(s, name) == {i \in Entries : s.dir[i].fileName = name}
FreeFds(s) == {j \in Fds : ~s.fd_pool[j].opened}

internal_open(s, fd) ==
  [s EXCEPT !.fd_pool[fd].buffer_state = "GARBAGE",
            !.fd_pool[fd].inode_state = "GARBAGE",
            !.fd_pool[fd].offset = 0,
            !.fd_pool[fd].opened = TRUE,
            !.ret = fd]

\* `writable' is assigned for entry 0 only; the other descriptors keep what
\* their last user left.
OpenExisting(s, i, fd, flags) ==
  IF i = 0
    THEN IF "O_RDWR" \in flags
           THEN [s EXCEPT !.fd_pool[fd].index = i,
                          !.fd_pool[fd].writable = TRUE, !.ret = E_ACCESS]
           ELSE internal_open([s EXCEPT !.fd_pool[fd].index = i,
                                        !.fd_pool[fd].writable = FALSE], fd)
    ELSE internal_open([s EXCEPT !.fd_pool[fd].index = i], fd)

CreateFile(s, i, fd, name, flags) ==
  internal_open(
    [s EXCEPT !.fd_pool[fd].index = i,
              !.fd_pool[fd].writable = @ \/ "O_RDWR" \in flags,
              !.state_dir = "NEED_WASHING",
              !.dir[i] = [fileName |-> name, fileSize |-> 0,
                          inodeOffset |-> NotAllocated]], fd)

fs_open(s, name, flags) ==
  LET found == FilesNamed(s, name)
      slots == FilesNamed(s, "")
      free == FreeFds(s)
  IN  CASE found # {} /\ free # {} ->
             OpenExisting(s, Min(found), Min(free), flags)
        [] found = {} \/ free = {} ->
             CASE "O_CREAT" \notin flags -> [s EXCEPT !.ret = E_NOENT]
               [] "O_CREAT" \in flags /\ slots = {} ->
                    [s EXCEPT !.ret = E_DQUOT]
               [] "O_CREAT" \in flags /\ slots # {} ->
                    CASE (name = KERNEL) # (Min(slots) = 0) -> Panic(s)
                      [] (name = KERNEL) = (Min(slots) = 0) /\ free = {} ->
                           [s EXCEPT !.ret = E_NOENT]
                      [] OTHER -> CreateFile(s, Min(slots), Min(free),
                                             name, flags)

\* Step as often as the loop of a call can run; Step keeps a finished loop.
Iterate(Step(_), s, n) ==
  LET after[k \in 0..n] == IF k = 0 THEN s ELSE Step(after[k-1])
  IN  after[n]

\* One round of the loop of fs_write: the part of `data' from `result' on
\* that goes into the current block.
WriteChunk(s, fd, data, result) ==
  LET f == s.fd_pool[fd]
      first == f.offset % SECTSIZE
      count == Min({Len(data) - result, SECTSIZE - first})
      t == fd_buffer_fetch(s, fd)
      u == [t EXCEPT !.fd_pool[fd].buffer_state = "NEED_WASHING",
                     !.fd_pool[fd].offset = @ + count,
                     !.fd_pool[fd].buffer.cells =
                        [c \in DOMAIN @ |->
                           IF c \in first..first+count-1
                             THEN data[result + c - first + 1] ELSE @[c]]]
      v == IF u.dir[f.index].fileSize < f.offset + count
             THEN [u EXCEPT !.dir[f.index].fileSize = f.offset + count,
                            !.state_dir = "NEED_WASHING"]
             ELSE u
  IN  IF first + count = SECTSIZE THEN fd_buffer_flush(v, fd) ELSE v

fs_write(s, fd, data) ==
  LET start == s.fd_pool[fd].offset
      Round(t) == LET result == t.fd_pool[fd].offset - start
                  IN  IF result < Len(data)
                        THEN WriteChunk(t, fd, data, result) ELSE t
  IN  IF s.fd_pool[fd].writable THEN Iterate(Round, s, Len(data)) ELSE Panic(s)

\* One round of the loop of fs_read, with `wanted' cells still to read.  The
\* loop state is the state of the program and what was copied so far.
\* Mutant: a block read to its end stays in the buffer.
ReadChunk_NoFlush(t, fd, wanted) ==
  LET f == t.s.fd_pool[fd]
      first == f.offset % SECTSIZE
      count == Min({wanted, SECTSIZE - first})
      u == fd_buffer_fetch(t.s, fd)
      block == u.fd_pool[fd].buffer.cells
  IN  [s |-> [u EXCEPT !.fd_pool[fd].offset = @ + count],
       buf |-> t.buf \o [k \in 1..count |-> block[first + k - 1]]]

ReadChunk(t, fd, wanted) ==
  LET f == t.s.fd_pool[fd]
      first == f.offset % SECTSIZE
      count == Min({wanted, SECTSIZE - first})
      u == fd_buffer_fetch(t.s, fd)
      block == u.fd_pool[fd].buffer.cells
      v == [u EXCEPT !.fd_pool[fd].offset = @ + count]
  IN  [s |-> IF first + count = SECTSIZE THEN fd_buffer_flush(v, fd) ELSE v,
       buf |-> t.buf \o [k \in 1..count |-> block[first + k - 1]]]

fs_read(s, fd, len) ==
  LET f == s.fd_pool[fd]
      n == Min({len, s.dir[f.index].fileSize - f.offset})
      Round(t) == IF Len(t.buf) < n
                    THEN ReadChunk(t, fd, n - Len(t.buf)) ELSE t
  IN  Iterate(Round, [s |-> s, buf |-> << >>], len)

\* Mutant: the block of the old position stays in the buffer.
fs_lseek_KeepsBuffer(s, fd, offset, whence) ==
  [fd_inode_flush(s, fd) EXCEPT !.fd_pool[fd].offset = 0,
                                !.fd_pool[fd].inode_state = "GARBAGE"]

fs_lseek(s, fd, offset, whence) ==
  LET f == s.fd_pool[fd]
  IN  CASE whence = "SEEK_SET" ->
             [fd_inode_flush(fd_buffer_flush(s, fd), fd)
                EXCEPT !.fd_pool[fd].offset = 0,
                       !.fd_pool[fd].inode_state = "GARBAGE"]
        [] whence = "SEEK_CUR" -> [s EXCEPT !.fd_pool[fd].offset = @ + offset]
        [] whence = "SEEK_END" ->
             [s EXCEPT !.fd_pool[fd].offset =
                          @ + s.dir[f.index].fileSize + offset]

fs_close(s, fd) ==
  fs_flush(fd_buffer_flush(
             fd_inode_flush([s EXCEPT !.fd_pool[fd].opened = FALSE], fd), fd))

-----------------------------------------------------------------------------
(* The programs: any sequence of calls that keeps one descriptor per file  *)
(* (no program of the repository opens a file twice).                      *)

\* fs_init of a program that starts on the disk im.
fs_init(im) ==
  /\ image' = im
  /\ dir' = im.dir /\ bitmap' = im.bitmap
  /\ state_dir' = "USEFUL" /\ state_bitmap' = "USEFUL"
  /\ fd_pool' = [fd \in Fds |-> ZeroFd]
  /\ wants' = [fd \in Fds |-> {}]
  /\ mode' = "ok"

FSInit ==
  /\ image = Formatted /\ image_mode = "O_RDWR"
  /\ dir = Formatted.dir /\ bitmap = Formatted.bitmap
  /\ state_dir = "USEFUL" /\ state_bitmap = "USEFUL"
  /\ fd_pool = [fd \in Fds |-> ZeroFd]
  /\ wants = [fd \in Fds |-> {}]
  /\ io = << >> /\ mode = "ok"

\* The call ends in state s; after a panic the memory does not matter.
Return(s) ==
  /\ image' = s.image /\ mode' = s.mode
  /\ IF s.mode = "ok"
       THEN /\ dir' = s.dir /\ bitmap' = s.bitmap
            /\ state_dir' = s.state_dir /\ state_bitmap' = s.state_bitmap
            /\ fd_pool' = s.fd_pool
       ELSE UNCHANGED <<dir, bitmap, state_dir, state_bitmap, fd_pool>>
  /\ UNCHANGED image_mode

OpenFds == {fd \in Fds : fd_pool[fd].opened}
IsOpen(name) == \E fd \in OpenFds : dir[fd_pool[fd].index].fileName = name
OpenFlags == {{}, {"O_RDWR"}, {"O_RDWR", "O_CREAT"}}

Data(fd) ==
  LET i == fd_pool[fd].index
      p == fd_pool[fd].offset
  IN  {[k \in 1..n |-> CellValue(i, p+k-1, p+k > dir[i].fileSize)] : n \in WriteLens}

Room(fd, data) == fd_pool[fd].offset + Len(data) <= MaxFileSize

Open(name, flags) ==
  LET s == fs_open(Here, name, flags)
  IN  /\ mode = "ok" /\ ~IsOpen(name)
      /\ Return(s)
      /\ wants' = IF s.mode = "ok" /\ s.ret >= 0
                    THEN [wants EXCEPT ![s.ret] = flags] ELSE wants
      /\ io' = << >>

Write(fd, data) ==
  /\ mode = "ok" /\ fd \in OpenFds /\ "O_RDWR" \in wants[fd]
  /\ Room(fd, data)
  /\ Return(fs_write(Here, fd, data))
  /\ io' = IF mode' = "ok" THEN data ELSE << >>
  /\ UNCHANGED wants

Read(fd, len) ==
  LET t == fs_read(Here, fd, len)
  IN  /\ mode = "ok" /\ fd \in OpenFds
      /\ Return(t.s)
      /\ io' = IF mode' = "ok" THEN t.buf ELSE << >>
      /\ UNCHANGED wants

Seek(fd, offset, whence) ==
  /\ mode = "ok" /\ fd \in OpenFds
  /\ Return(fs_lseek(Here, fd, offset, whence))
  /\ io' = << >>
  /\ UNCHANGED wants

Close(fd) ==
  /\ mode = "ok" /\ fd \in OpenFds
  /\ Return(fs_close(Here, fd))
  /\ wants' = [wants EXCEPT ![fd] = {}]
  /\ io' = << >>

\* The program ends, another one starts.
NextProgram == /\ mode = "ok" /\ OpenFds = {}
               /\ fs_init(image)
               /\ io' = << >>
               /\ UNCHANGED image_mode

\* The host tool is gone, or the machine is halted.
Stopped == /\ mode # "ok"
           /\ UNCHANGED fsVars

FSNext ==
  \/ \E name \in Names, flags \in OpenFlags : Open(name, flags)
  \/ \E fd \in Fds :
        \/ \E data \in Data(fd) : Write(fd, data)
        \/ \E len \in ReadLens : Read(fd, len)
        \/ \E offset \in Offsets, whence \in Whences : Seek(fd, offset, whence)
        \/ Close(fd)
  \/ NextProgram
  \/ Stopped

FSSpec == FSInit /\ [][FSNext]_fsVars
-----------------------------------------------------------------------------
(* What the state means: the blocks and the contents of a file.  InodeAt   *)
(* and BlockAt say what a block holds.                                     *)

\* n / d, rounded up.
UpTo(n, d) == (n + d - 1) \div d

HasBlocks(e) == e.fileName # "" /\ e.inodeOffset # NotAllocated

\* The inodes of a file, in order.
Chain(e, InodeAt(_)) ==
  LET chain[k \in 0..UpTo(e.fileSize, INODE_CAPACITY)-1] ==
        IF k = 0 THEN e.inodeOffset ELSE InodeAt(chain[k-1]).next
  IN  chain

DataBlock(e, i, InodeAt(_)) ==
  InodeAt(Chain(e, InodeAt)[i \div N_INODE_DATABLOCK])
    .dataBlocks[i % N_INODE_DATABLOCK]

Contents(e, InodeAt(_), BlockAt(_)) ==
  [k \in 1..e.fileSize |->
     BlockAt(DataBlock(e, (k-1) \div SECTSIZE, InodeAt)).cells[(k-1) % SECTSIZE]]

\* The disk under the inodes and blocks that open descriptors hold.
CachedInode(b) ==
  LET holders == {fd \in OpenFds : /\ fd_pool[fd].inode_state # "GARBAGE"
                                   /\ fd_pool[fd].inode_idx = b}
  IN  IF holders = {} THEN image.data[b] ELSE fd_pool[Min(holders)].inode
CachedBlock(b) ==
  LET holders == {fd \in OpenFds : /\ fd_pool[fd].buffer_state # "GARBAGE"
                                   /\ fd_pool[fd].buffer_idx = b}
  IN  IF holders = {} THEN image.data[b] ELSE fd_pool[Min(holders)].buffer

EntryOf(d, name) == d[CHOOSE i \in Entries : d[i].fileName = name]

-----------------------------------------------------------------------------
(* Properties.                                                             *)

Inode == [dataBlocks : [0..N_INODE_DATABLOCK-1 -> Blocks], next : Blocks]
DataSector == [cells : [0..SECTSIZE-1 -> Values \cup {0}]]
DirType == [Entries -> [fileName : Names \cup {""}, fileSize : 0..MaxFileSize,
                        inodeOffset : Blocks \cup {NotAllocated}]]
FdType == [index : Entries, offset : Nat, opened : BOOLEAN, writable : BOOLEAN,
           buffer : DataSector, buffer_idx : Blocks,
           buffer_state : {"GARBAGE", "USEFUL", "NEED_WASHING"},
           inode : Inode, inode_idx : Blocks,
           inode_state : {"GARBAGE", "USEFUL", "NEED_WASHING"}]

\* The types of the variables.  That an inode is never read from a block of
\* data, nor data from an inode, is part of it.
FSTypeOK ==
  /\ image.dir \in DirType /\ image.bitmap \subseteq Blocks
  /\ image.data \in [Blocks -> Inode \cup DataSector]
  /\ image_mode \in {"O_RDONLY", "O_RDWR"}
  /\ dir \in DirType /\ bitmap \subseteq Blocks
  /\ {state_dir, state_bitmap} \subseteq {"USEFUL", "NEED_WASHING"}
  /\ fd_pool \in [Fds -> FdType]
  /\ wants \in [Fds -> OpenFlags]
  /\ DOMAIN io = 1..Len(io) /\ mode \in {"ok", "panic", "overrun"}

Owned(i) == {Chain(dir[i], CachedInode)[k] : k \in DOMAIN Chain(dir[i], CachedInode)}
            \cup {DataBlock(dir[i], k, CachedInode) :
                    k \in 0..UpTo(dir[i].fileSize, SECTSIZE)-1}

\* Every used block is an inode or a data block of exactly one file and serves
\* it once, and no block a file uses is free: find_empty_inode's bit and the
\* pointer to the block always change together, whatever descriptor allocates.
BlocksHaveOneOwner ==
  LET files == {i \in Entries : HasBlocks(dir[i])}
      size(i) == UpTo(dir[i].fileSize, INODE_CAPACITY)
                 + UpTo(dir[i].fileSize, SECTSIZE)
  IN  /\ bitmap = UNION {Owned(i) : i \in files}
      /\ \A i \in files : Cardinality(Owned(i)) = size(i)
      /\ \A i, j \in files : i # j => Owned(i) \cap Owned(j) = {}

\* Reads return what was written, through any number of descriptors, calls
\* that cross blocks and inodes, closing, reopening and new programs: fs.c
\* implements files that are sequences of values.
Files == [name \in {dir[i].fileName : i \in Entries} \ {""} |->
            Contents(EntryOf(dir, name), CachedInode, CachedBlock)]
Positions == [fd \in Fds |-> IF fd \in OpenFds
                               THEN [name |-> dir[fd_pool[fd].index].fileName,
                                     pos |-> fd_pool[fd].offset]
                               ELSE [name |-> "", pos |-> 0]]
Store == INSTANCE FileStore WITH
  Handles <- Fds, Lens <- ReadLens, files <- Files, handle <- Positions
ImplementsStore == Store!StoreSpec

\* A file opened with O_RDWR can be written: util/write_myfs.c opens its file
\* with O_RDWR | O_CREAT and asserts that fs_write succeeds.
RdwrIsWritable == \A fd \in OpenFds : "O_RDWR" \in wants[fd] => fd_pool[fd].writable

=============================================================================
