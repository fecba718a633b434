----------------------------- MODULE AddressMap -----------------------------
(***************************************************************************)
(* What the page directories and tables of kernel/entrypgdir.c and         *)
(* kernel/pmap.c map, with the numbers of the code: the kernel at KERNBASE *)
(* and, for reading, at 0; the four megabytes of a process; the window of  *)
(* fork.  VirtMem is about how they change and what the TLB keeps of them. *)
(*                                                                         *)
(* An address, virtual or physical, is the number of its page.             *)
(***************************************************************************)
EXTENDS Integers

NPDENTRIES == 1024
NPTENTRIES == 1024

KERNBASE == 960 * 1024      \* 0xF0000000
KERN_MEM == 4 * 1024        \* 0x1000000
MAX_MEM == 32 * 1024        \* 0x8000000
UserBase == 32 * 1024       \* 0x8000000: four megabytes, the program in it
USER_START == UserBase + 72 \* 0x8048000
new_addr == 64 * 1024       \* 0x10000000

USER_DIR_NUM == (MAX_MEM - KERN_MEM) \div NPTENTRIES
UPDIR_NUM == 64

\* The processes that user_pgtable has a place for.  What is said of the memory of
\* a process is about these.
UserPids == 0 .. USER_DIR_NUM - 1

PDX(va) == (va \div NPTENTRIES) % NPDENTRIES
PTX(va) == va % NPTENTRIES
PGADDR(d, t) == d * NPTENTRIES + t

Indices == 0 .. NPTENTRIES - 1
UserPages == UserBase .. UserBase + NPTENTRIES - 1

\* A directory is a function on its present entries, and an entry has the whole
\* table that it points to.  PTE_P is in every entry there is.
Entry(page, flags) == [page |-> page, flags |-> flags]
Table(table, flags) == [table |-> table, flags |-> flags]

-----------------------------------------------------------------------------

entry_pgtable == [i \in Indices |-> Entry(i, {"PTE_W"})]

entry_pgdir ==
  [d \in {0, PDX(KERNBASE)} |->
     Table(entry_pgtable, IF d = 0 THEN {} ELSE {"PTE_W"})]

UserFrame(pid, i) == KERN_MEM + pid * NPTENTRIES + i

\* For a process of UserPids.  For others the code writes past the array.
user_pgtable(pid) == [i \in Indices |-> Entry(UserFrame(pid, i), {"PTE_W", "PTE_U"})]

pcb_page_init == [d \in {0, PDX(KERNBASE)} |-> entry_pgdir[d]]

alloc_page(dir, va, pid) ==
  [d \in DOMAIN dir \cup {PDX(va)} |->
     IF d = PDX(va) THEN Table(user_pgtable(pid), {"PTE_W", "PTE_U"}) ELSE dir[d]]

\* The directory of a process, after userprog_load or fork.
user_pgdir(pid) == alloc_page(pcb_page_init, IF pid = 0 THEN USER_START ELSE UserBase, pid)

\* That of a father while it copies its memory.
window(pid, child) == alloc_page(user_pgdir(pid), new_addr, child)

\* Mutant: the page is taken from one entry further.
pmap_copy_one_page_OffByOne(dest, src, va) ==
  [dest EXCEPT ![PTX(va)] = src[(PTX(va) + 1) % NPTENTRIES]]

\* The table dest once page va of src is shared into it.  The directory index
\* of va is not looked at.
pmap_copy_one_page(dest, src, va) == [dest EXCEPT ![PTX(va)] = src[PTX(va)]]

-----------------------------------------------------------------------------
(* The processor, with CR0_WP: a right is needed in both entries.          *)

Mapped(dir) == {PGADDR(d, t) : d \in DOMAIN dir, t \in Indices}

Physical(dir, va) == dir[PDX(va)].table[PTX(va)].page

Allows(dir, va, flag) ==
  flag \in dir[PDX(va)].flags /\ flag \in dir[PDX(va)].table[PTX(va)].flags

-----------------------------------------------------------------------------
(* Properties, each of one process or two.                                 *)

MachineMemory == 64 * 1024      \* QEMU_OPTIONS: 256 MB

\* In a directory the kernel is where it was linked, screen and all; the same
\* pages below 4 MB are for reading only; and both are out of a program's reach.
KernelIn(dir) ==
  \A f \in Indices :
    /\ PDX(KERNBASE + f) \in DOMAIN dir /\ Physical(dir, KERNBASE + f) = f
    /\ Allows(dir, KERNBASE + f, "PTE_W") /\ ~Allows(dir, KERNBASE + f, "PTE_U")
    /\ PDX(f) \in DOMAIN dir /\ Physical(dir, f) = f
    /\ ~Allows(dir, f, "PTE_W") /\ ~Allows(dir, f, "PTE_U")

\* A program may use its four megabytes and nothing else, for writing as well,
\* and they are neither the kernel's nor those of another process.
Confined(pid) ==
  LET dir == user_pgdir(pid)
  IN  /\ {va \in Mapped(dir) : Allows(dir, va, "PTE_U")} = UserPages
      /\ \A va \in UserPages :
           /\ Allows(dir, va, "PTE_W")
           /\ Physical(dir, va) \notin Indices

Apart(pid, other) ==
  LET dir == user_pgdir(pid)
  IN  \A va \in UserPages :
        Physical(dir, va) \notin UserFrame(other, 0) .. UserFrame(other, NPTENTRIES - 1)

\* In the directory of a father its own memory is where it was, and that of
\* child is, all of it, at new_addr.
WindowFits(pid, child) ==
  LET dir == window(pid, child)
  IN  /\ \A d \in DOMAIN user_pgdir(pid) : dir[d] = user_pgdir(pid)[d]
      /\ dir[PDX(new_addr)] = user_pgdir(child)[PDX(UserBase)]

\* A page of the program that is shared is then the same for both, and no other
\* one is.
SharesOne(dest, src, va) ==
  LET table == pmap_copy_one_page(user_pgtable(dest), user_pgtable(src), va)
      theirs == user_pgdir(src)
      before == user_pgdir(dest)
      after == [before EXCEPT ![PDX(UserBase)].table = table]
  IN  \A page \in UserPages :
        Physical(after, page) = Physical(IF page = va THEN theirs ELSE before, page)

\* user_pgtable has a place for a process if and only if its memory ends below
\* MAX_MEM, within the machine.
TablesFit(pid) ==
  /\ pid < USER_DIR_NUM <=> UserFrame(pid, NPTENTRIES - 1) < MAX_MEM
  /\ pid < USER_DIR_NUM => UserFrame(pid, NPTENTRIES - 1) < MachineMemory

=============================================================================
