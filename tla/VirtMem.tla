------------------------------ MODULE VirtMem ------------------------------
(***************************************************************************)
(* The address spaces of the processes, kernel/pmap.c, on top of Kernel:   *)
(* page tables, the physical pages behind them, fork's copy of four        *)
(* megabytes and the sharing of single pages.                              *)
(*                                                                         *)
(* All user memory of a process is one page table, the entry of            *)
(* user_pgdir[pid] for 0x8000000, and cr3 holds the directory of curr_pid. *)
(* The entry for new_addr, fork's window, is set and cleared within one    *)
(* call, so no directory is a variable.  What stays of the window is in    *)
(* the TLB: nothing is flushed but by the load of cr3 in pcb_exec, and a   *)
(* translation that was cached may be used until then, or be forgotten at  *)
(* any time.  Pages are read and written as a whole.                       *)
(*                                                                         *)
(* user_pgtable has room for the first 28 processes (USER_DIR_NUM).  The   *)
(* module is about these: UPCB_NUM is at most 28.                          *)
(***************************************************************************)
EXTENDS Kernel

CONSTANTS
  NPTENTRIES,   \* pages of a process (1024 in the code)
  SharedPages,  \* the pages that programs share with sys_mem_share
  DestPids,     \* bound: the processes that programs share a page into
  SrcPids,      \* bound: the processes whose page they share
  MaxValue      \* bound: contents of a page are 0 .. MaxValue

USER_DIR_NUM == 28

Pages == 0 .. NPTENTRIES - 1
Values == 0 .. MaxValue

ASSUME VMAssumption ==
  /\ UPCB_NUM <= USER_DIR_NUM
  /\ NPTENTRIES \in Nat \ {0}
  /\ SharedPages \subseteq Pages
  /\ DestPids \subseteq Pids
  /\ SrcPids \subseteq Pids
  /\ MaxValue \in Nat \ {0}

PrivatePages == Pages \ SharedPages

\* Physical page i of the 4 MB at KERN_MEM + (p << PDXSHIFT).
Frames == Pids \X Pages

VARIABLES
  user_pgtable, \* of each process, page by page: {frame}, or {} if not present
  tlb_user,     \* cached translations of user pages: {frame}, or {}
  tlb_window,   \* cached translations of the pages at new_addr
  mem           \* contents of the frames

vmvars == <<user_pgtable, tlb_user, tlb_window, mem>>
allvars == <<vars, vmvars>>

Flushed == [i \in Pages |-> {}]

\* The table of a new process.
alloc_page(p) == [i \in Pages |-> {<<p, i>>}]

\* userprog_load has put the program, 1, into the memory of process 0.
VMInit ==
  /\ Init
  /\ user_pgtable = [p \in Pids |-> IF p = 0 THEN alloc_page(0) ELSE Flushed]
  /\ tlb_user = Flushed
  /\ tlb_window = Flushed
  /\ mem = [f \in Frames |-> IF f[1] = 0 THEN 1 ELSE 0]

-----------------------------------------------------------------------------
(* Access to memory.                                                       *)

\* Where an access to user page i may go: by the cached translation or by the
\* one in the table.
UserFrames(i) == tlb_user[i] \cup user_pgtable[curr_pid][i]

\* The same for the window, which has the table that alloc_page gave dest.
WindowFrames(dest, i) == tlb_window[i] \cup alloc_page(dest)[i]

UserRead(i) ==
  /\ UserCalls
  /\ \E f \in UserFrames(i) : tlb_user' = [tlb_user EXCEPT ![i] = {f}]
  /\ UNCHANGED <<vars, user_pgtable, tlb_window, mem>>

UserWrite(i, value) ==
  /\ UserCalls
  /\ \E f \in UserFrames(i) :
       /\ tlb_user' = [tlb_user EXCEPT ![i] = {f}]
       /\ mem' = [mem EXCEPT ![f] = value]
  /\ UNCHANGED <<vars, user_pgtable, tlb_window>>

\* An access that finds no translation in the table; the trap panics.
PageFault(i) ==
  /\ UserCalls
  /\ user_pgtable[curr_pid][i] = {}
  /\ Crash
  /\ UNCHANGED vmvars

-----------------------------------------------------------------------------
(* The calls.                                                              *)

\* Mutant: the two arguments of memcpy are swapped.
memcpy_Swapped(from, to) ==
  mem' = [f \in Frames |->
            IF \E i \in Pages : from[i] = f THEN mem[to[f[2]]] ELSE mem[f]]

\* Page i goes from frame from[i] to frame to[i], both with index i.
memcpy(from, to) ==
  mem' = [f \in Frames |->
            IF \E i \in Pages : to[i] = f THEN mem[from[f[2]]] ELSE mem[f]]

\* pcb_page_init and alloc_page for dest, then the copy through the window of
\* the running process.  What the copy used stays cached.
pmap_init_and_copy(dest) ==
  /\ user_pgtable' = [user_pgtable EXCEPT ![dest] = alloc_page(dest)]
  /\ \E from, to \in [Pages -> Frames] :
       /\ \A i \in Pages : from[i] \in UserFrames(i) /\ to[i] \in WindowFrames(dest, i)
       /\ memcpy(from, to)
       /\ tlb_user' = [i \in Pages |-> {from[i]}]
       /\ tlb_window' = [i \in Pages |-> {to[i]}]

Fork(new) ==
  /\ UserCalls
  /\ ForkInto(new)
  /\ pmap_init_and_copy(new)

ForkFails ==
  /\ UserCalls
  /\ NoFreeSlot
  /\ Crash
  /\ UNCHANGED vmvars

\* Mutant: the whole table is copied.
pmap_copy_one_page_All(dest_pid, src_pid, i) ==
  user_pgtable' = [user_pgtable EXCEPT ![dest_pid] = user_pgtable[src_pid]]

pmap_copy_one_page(dest_pid, src_pid, i) ==
  user_pgtable' = [user_pgtable EXCEPT ![dest_pid][i] = user_pgtable[src_pid][i]]

sys_mem_share(dest_pid, src_pid, i) ==
  /\ UserCalls
  /\ pmap_copy_one_page(dest_pid, src_pid, i)
  /\ UNCHANGED <<vars, tlb_user, tlb_window, mem>>

-----------------------------------------------------------------------------
(* The processor is given to a process: pcb_exec loads cr3.                *)

\* Mutant: the new process goes on in the old address space.
load_updir_Forgotten == UNCHANGED <<tlb_user, tlb_window>>

load_updir == tlb_user' = Flushed /\ tlb_window' = Flushed

Switch(p) ==
  /\ SchedDispatch(p) \/ SchedGrant(p)
  /\ load_updir
  /\ UNCHANGED <<user_pgtable, mem>>

\* Everything else the kernel does leaves memory alone.
OtherStep ==
  /\ \/ PlainCall
     \/ Timer
     \/ DeviceIRQ
     \/ SchedIdle
     \/ \E p \in Pids : SchedRebind(p)
     \/ Halted
  /\ UNCHANGED vmvars

VMNext ==
  \/ \E i \in Pages :
       \/ UserRead(i)
       \/ \E value \in Values : UserWrite(i, value)
       \/ PageFault(i)
  \/ \E new \in Pids : Fork(new)
  \/ ForkFails
  \/ \E dest_pid \in DestPids, src_pid \in SrcPids, i \in SharedPages :
       sys_mem_share(dest_pid, src_pid, i)
  \/ \E p \in Pids : Switch(p)
  \/ OtherStep

VMSpec == VMInit /\ [][VMNext]_allvars

-----------------------------------------------------------------------------
(* Properties.                                                             *)

VMTypeOK ==
  /\ user_pgtable \in [Pids -> [Pages -> SUBSET Frames]]
  /\ tlb_user \in [Pages -> SUBSET Frames]
  /\ tlb_window \in [Pages -> SUBSET Frames]
  /\ mem \in [Frames -> Values]

(* Every page is translated to a frame of the same index, and a page that  *)
(* is never shared to the frame of its own process, by the table as well   *)
(* as by what the TLB still holds: no switch and no call leaves a process  *)
(* with the translations of another.                                       *)
OwnTranslations ==
  \A i \in Pages :
    /\ \A p \in Pids : \A f \in user_pgtable[p][i] :
         f[2] = i /\ (i \in PrivatePages => f[1] = p)
    /\ \A f \in tlb_user[i] :
         f[2] = i /\ (i \in PrivatePages => f[1] = curr_pid)

(* The window of fork is unmapped without a flush, yet what the TLB keeps  *)
(* of it leads only to children that have not run: the first of them to    *)
(* get the processor flushes it.                                           *)
WindowOnNewChildren ==
  \A i \in Pages : \A f \in tlb_window[i] :
    f[2] = i /\ status[f[1]] = PCB_RUNNABLE

(* A page that is never shared changes only by its own process, or before  *)
(* that process has run at all.                                            *)
PrivateMemory ==
  [][\A p \in Pids, i \in PrivatePages :
        mem'[<<p, i>>] # mem[<<p, i>>]
        => p = curr_pid \/ status'[p] = PCB_RUNNABLE]_allvars

Forked(p) == status[p] = PCB_FREE /\ status'[p] = PCB_RUNNABLE

\* p is left with the private memory of the running process.
Copied(p) == \A i \in PrivatePages : mem'[<<p, i>>] = mem[<<curr_pid, i>>]

(* The first child a process forks after it got the processor has all of   *)
(* its private memory.                                                     *)
FirstCopyComplete ==
  [][\A p \in Pids :
        Forked(p) /\ tlb_window = Flushed => Copied(p)]_allvars

-----------------------------------------------------------------------------
(* What the source says of itself and the code does not do.                *)

(* kernel/pmap.c:47: "Do a complete copy".  So every child starts with the *)
(* private memory of its father.                                           *)
CompleteCopy ==
  [][\A p \in Pids : Forked(p) => Copied(p)]_allvars

=============================================================================
