----------------------------- MODULE BootLoader -----------------------------
(***************************************************************************)
(* The two programs that load an ELF file from the image: bootmain() of    *)
(* boot/main.c, which reads the kernel sector by sector without the file   *)
(* system, and userprog_load() of kernel/init.c, which reads the first     *)
(* user program through it.                                                *)
(*                                                                         *)
(* The image is what the host tools have left (ImageTools).  A program     *)
(* header is a record [offset, filesz, memsz, pa]; Layouts are the tables  *)
(* of headers that the file may begin with.                                *)
(***************************************************************************)
EXTENDS ImageTools

CONSTANTS
  Layouts,   \* program header tables, in the order of the file
  MemSize    \* bound: cells of memory

\* The linker scripts: segments follow one another in file and memory, begin
\* on a sector of the file, and have at least their cells in the file.
ASSUME BootAssumption ==
  \A l \in Layouts : \A n \in DOMAIN l :
    LET ph == l[n]
    IN  /\ ph.offset % SECTSIZE = 0 /\ ph.filesz <= ph.memsz /\ ph.memsz > 0
        /\ ph.pa + UpTo(ph.memsz, SECTSIZE) * SECTSIZE <= MemSize
        /\ n > 1 => /\ l[n-1].offset + l[n-1].filesz <= ph.offset
                    /\ l[n-1].pa + l[n-1].memsz <= ph.pa

Addresses == 0 .. MemSize-1

\* What memory holds that nobody wrote.
Garbage == -1
PowerOn == [a \in Addresses |-> Garbage]

\* memset(pa + filesz, 0, memsz - filesz)
ClearBss(mem, ph) ==
  [a \in Addresses |-> IF a \in ph.pa + ph.filesz .. ph.pa + ph.memsz - 1
                         THEN 0 ELSE mem[a]]

-----------------------------------------------------------------------------
(* bootmain: s holds the memory, the inode in use and its number, the data *)
(* block to read next and the cells of the segment that were read.         *)

\* readsect(&inode, FSOFFSET_DATA + inode.next)
ReadNextInode(s) == [s EXCEPT !.inode = image.data[@.next],
                              !.index_inode = @ + 1]

\* readsect of a data block, a whole sector, to address a.
ReadTo(mem, a, block) ==
  [x \in Addresses |-> IF x \in a .. a+SECTSIZE-1 THEN block.cells[x - a] ELSE mem[x]]

\* The loop that goes on to the inode with the first sector of the segment.
SkipInodes(s, ph) ==
  LET first == (ph.offset \div SECTSIZE) \div N_INODE_DATABLOCK
      Step(t) == IF t.index_inode < first THEN ReadNextInode(t) ELSE t
  IN  Iterate(Step, s, first)

\* One round of the loop over the sectors of a segment.
\* Mutant: the next inode is left for the next segment to find.
LoadSector_SameInode(s, ph) ==
  LET t == [s EXCEPT !.mem = ReadTo(@, ph.pa + s.count,
                                    image.data[s.inode.dataBlocks[s.i]])]
  IN  [t EXCEPT !.i = (@ + 1) % N_INODE_DATABLOCK, !.count = @ + SECTSIZE]

LoadSector(s, ph) ==
  LET t == [s EXCEPT !.mem = ReadTo(@, ph.pa + s.count,
                                    image.data[s.inode.dataBlocks[s.i]])]
      u == IF s.i + 1 = N_INODE_DATABLOCK THEN ReadNextInode(t) ELSE t
  IN  [u EXCEPT !.i = (@ + 1) % N_INODE_DATABLOCK, !.count = @ + SECTSIZE]

LoadSegment(s, ph) ==
  LET t == [SkipInodes(s, ph) EXCEPT
              !.i = (ph.offset \div SECTSIZE) % N_INODE_DATABLOCK, !.count = 0]
      Round(r) == IF r.count < ph.filesz THEN LoadSector(r, ph) ELSE r
      u == Iterate(Round, t, UpTo(ph.filesz, SECTSIZE))
  IN  [u EXCEPT !.mem = ClearBss(@, ph)]

\* The first inode is taken to be in block 0.
bootmain(l) ==
  LET start == [mem |-> PowerOn, inode |-> image.data[0], index_inode |-> 0,
                i |-> 0, count |-> 0]
      after[n \in 0..Len(l)] == IF n = 0 THEN start
                                ELSE LoadSegment(after[n-1], l[n])
  IN  after[Len(l)].mem

-----------------------------------------------------------------------------
(* userprog_load: s is the state of the file system as in FileSys, mem the *)
(* memory.                                                                 *)

\* The kernel after fs_init on the image; its disk can be written.
Kernel0 ==
  [Here EXCEPT !.image_mode = "O_RDWR", !.dir = image.dir,
               !.bitmap = image.bitmap, !.state_dir = "USEFUL",
               !.state_bitmap = "USEFUL",
               !.fd_pool = [fd \in Fds |-> ZeroFd], !.mode = "ok"]

\* fs_lseek, fs_read into memory, memset; the assertion that filesz were read.
LoadThrough(t, fd, ph) ==
  LET r == fs_read(fs_lseek(t.s, fd, ph.offset, "SEEK_SET"), fd, ph.filesz)
      read == [a \in Addresses |-> IF a \in ph.pa .. ph.pa+Len(r.buf)-1
                                     THEN r.buf[a - ph.pa + 1] ELSE t.mem[a]]
  IN  [s |-> IF Len(r.buf) = ph.filesz THEN r.s ELSE Panic(r.s),
       mem |-> ClearBss(read, ph)]

\* The segments of file n as they are in memory when it is entered.
userprog_load(n, l) ==
  LET s == fs_open(Kernel0, n, {})
      h == fs_read(s, s.ret, SECTSIZE)
      start == [s |-> IF Len(h.buf) = SECTSIZE THEN h.s ELSE Panic(h.s),
                mem |-> PowerOn]
      after[k \in 0..Len(l)] == IF k = 0 THEN start
                                ELSE LoadThrough(after[k-1], s.ret, l[k])
  IN  after[Len(l)]

-----------------------------------------------------------------------------
(* Properties.                                                             *)

\* Every segment is in its place, and zeros up to its size in memory.
Loaded(mem, l, file) ==
  \A n \in DOMAIN l : \A k \in 0 .. l[n].memsz-1 :
    mem[l[n].pa + k] = IF k < l[n].filesz THEN file[l[n].offset + k + 1] ELSE 0

Fits(l, file) == \A n \in DOMAIN l : l[n].offset + l[n].filesz <= Len(file)

\* A kernel that write_myfs has copied to its end is what bootmain finds, with
\* nothing but "dir[0].inodeOffset = 0" and "ELF header at block #1" to go by,
\* whatever was killed before and after: the header is in block 1, and every
\* segment is loaded although it begins, ends or goes on in another inode.
KernelBoots ==
  kept[KERNEL] # NotKept =>
    LET file == kept[KERNEL]
    IN  /\ \A c \in 0 .. SECTSIZE-1 :
             c < Len(file) => image.data[1].cells[c] = file[c + 1]
        /\ \A l \in Layouts : Fits(l, file) => Loaded(bootmain(l), l, file)

\* userprog_load puts every segment of a complete user program in its place,
\* as it takes fs_lseek to do: "fs_lseek(fd, ph->p_offset, SEEK_SET)".
UserProgramLoads ==
  \A n \in Names \ {KERNEL} :
    kept[n] # NotKept =>
      \A l \in Layouts :
        Len(kept[n]) >= SECTSIZE /\ Fits(l, kept[n]) =>
          Loaded(userprog_load(n, l).mem, l, kept[n])

=============================================================================
