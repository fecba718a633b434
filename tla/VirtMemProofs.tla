--------------------------- MODULE VirtMemProofs ---------------------------
(***************************************************************************)
(* Proofs about VirtMem, for every number of processes and pages, every    *)
(* choice of the pages that are shared and every user program: translations*)
(* stay with their process, and private memory stays private.              *)
(***************************************************************************)
EXTENDS VirtMem, KernelProofs

VMInv ==
  /\ IInv
  /\ VMTypeOK
  /\ OwnTranslations
  /\ WindowOnNewChildren

USE DEF PCB_FREE, PCB_SLEEPING, PCB_RUNNABLE, PCB_RUNNING

-----------------------------------------------------------------------------
(* Facts about frames and accesses.                                        *)

LEMMA PageFacts ==
  /\ 0 \in Pids
  /\ PrivatePages \subseteq Pages
  /\ 0 \in Values /\ 1 \in Values
  BY KernelAssumption, VMAssumption DEF Pids, PrivatePages, Values

LEMMA TableType ==
  ASSUME NEW p \in Pids
  PROVE  /\ alloc_page(p) \in [Pages -> SUBSET Frames]
         /\ Flushed \in [Pages -> SUBSET Frames]
  BY DEF alloc_page, Flushed, Frames

\* An access goes to a frame with the index of its page, and a private page
\* to the frame of the running process.
LEMMA AccessFacts ==
  ASSUME VMInv, NEW i \in Pages, NEW f \in UserFrames(i)
  PROVE  /\ f \in Frames
         /\ f[2] = i
         /\ i \in PrivatePages => f[1] = curr_pid
  BY DEF VMInv, VMTypeOK, OwnTranslations, UserFrames, IInv, TypeOK

\* The copy of fork goes to new children only.
LEMMA WindowFacts ==
  ASSUME VMInv, NEW dest \in Pids, NEW i \in Pages,
         NEW f \in WindowFrames(dest, i)
  PROVE  /\ f \in Frames
         /\ f[2] = i
         /\ f[1] = dest \/ status[f[1]] = PCB_RUNNABLE
<1>1. CASE f \in tlb_window[i]
  BY <1>1 DEF VMInv, VMTypeOK, WindowOnNewChildren
<1>2. CASE f = <<dest, i>>
  BY <1>2 DEF Frames
<1> QED BY <1>1, <1>2 DEF WindowFrames, alloc_page

-----------------------------------------------------------------------------
(* Initially, and the part of the kernel.                                  *)

LEMMA InitVMInv == VMInit => VMInv
<1> SUFFICES ASSUME VMInit PROVE VMInv
  OBVIOUS
<1>1. IInv
  BY InitIInv DEF VMInit
<1>2. VMTypeOK
  <2>1. user_pgtable \in [Pids -> [Pages -> SUBSET Frames]]
    BY TableType, PageFacts DEF VMInit
  <2>2. tlb_user \in [Pages -> SUBSET Frames] /\ tlb_window \in [Pages -> SUBSET Frames]
    BY TableType, PageFacts DEF VMInit
  <2>3. mem \in [Frames -> Values]
    BY PageFacts DEF VMInit
  <2> QED BY <2>1, <2>2, <2>3 DEF VMTypeOK
<1>3. OwnTranslations
  BY DEF VMInit, OwnTranslations, alloc_page, Flushed
<1>4. WindowOnNewChildren
  BY DEF VMInit, WindowOnNewChildren, Flushed
<1> QED BY <1>1, <1>2, <1>3, <1>4 DEF VMInv

LEMMA VMStepIsKernelStep ==
  ASSUME [VMNext]_allvars
  PROVE  [Next]_vars
<1>1. ASSUME NEW i \in Pages,
             UserRead(i) \/ PageFault(i) \/ \E value \in Values : UserWrite(i, value)
      PROVE  [Next]_vars
  BY <1>1 DEF UserRead, UserWrite, PageFault, Next, SystemCall, PlainCall, sys_crash
<1>2. ASSUME NEW new \in Pids, Fork(new)
      PROVE  [Next]_vars
  BY <1>2 DEF Fork, Next, SystemCall, sys_fork
<1>3. CASE ForkFails
  BY <1>3 DEF ForkFails, Next, SystemCall, sys_fork
<1>4. ASSUME NEW d \in Pids, NEW s \in Pids, NEW i \in Pages, sys_mem_share(d, s, i)
      PROVE  [Next]_vars
  BY <1>4 DEF sys_mem_share
<1>5. ASSUME NEW p \in Pids, Switch(p)
      PROVE  [Next]_vars
  BY <1>5 DEF Switch, Next, sched_process
<1>6. CASE OtherStep
  BY <1>6 DEF OtherStep, Next, SystemCall, sched_process
<1>7. CASE UNCHANGED allvars
  BY <1>7 DEF allvars
<1> QED BY <1>1, <1>2, <1>3, <1>4, <1>5, <1>6, <1>7, VMAssumption DEF VMNext

-----------------------------------------------------------------------------
(* The steps that touch memory or translations.                            *)

LEMMA AccessKeeps ==
  ASSUME VMInv, NEW i \in Pages,
         UserRead(i) \/ \E value \in Values : UserWrite(i, value)
  PROVE  VMTypeOK' /\ OwnTranslations' /\ WindowOnNewChildren'
<1>1. PICK f \in UserFrames(i) : tlb_user' = [tlb_user EXCEPT ![i] = {f}]
  BY DEF UserRead, UserWrite
<1>2. f \in Frames /\ f[2] = i /\ (i \in PrivatePages => f[1] = curr_pid)
  BY <1>1, AccessFacts
<1>3. UNCHANGED <<vars, user_pgtable, tlb_window>>
  BY DEF UserRead, UserWrite
<1>4. mem' \in [Frames -> Values]
  BY DEF UserRead, UserWrite, VMInv, VMTypeOK
<1>5. VMTypeOK'
  BY <1>1, <1>2, <1>3, <1>4 DEF VMInv, VMTypeOK
<1>6. OwnTranslations'
  BY <1>1, <1>2, <1>3 DEF VMInv, VMTypeOK, OwnTranslations, vars
<1>7. WindowOnNewChildren'
  BY <1>3 DEF VMInv, WindowOnNewChildren, vars
<1> QED BY <1>5, <1>6, <1>7

LEMMA ForkKeeps ==
  ASSUME VMInv, NEW new \in Pids, Fork(new)
  PROVE  VMTypeOK' /\ OwnTranslations' /\ WindowOnNewChildren'
<1>1. PICK from \in [Pages -> Frames], to \in [Pages -> Frames] :
        /\ \A i \in Pages : from[i] \in UserFrames(i) /\ to[i] \in WindowFrames(new, i)
        /\ memcpy(from, to)
        /\ tlb_user' = [i \in Pages |-> {from[i]}]
        /\ tlb_window' = [i \in Pages |-> {to[i]}]
  BY DEF Fork, pmap_init_and_copy
<1>2. /\ user_pgtable' = [user_pgtable EXCEPT ![new] = alloc_page(new)]
      /\ curr_pid' = curr_pid
      /\ status' = [status EXCEPT ![new] = PCB_RUNNABLE]
  BY DEF Fork, pmap_init_and_copy, ForkInto
<1>3. VMTypeOK'
  <2>1. mem' \in [Frames -> Values]
    BY <1>1 DEF memcpy, VMInv, VMTypeOK, Frames
  <2> QED BY <1>1, <1>2, <2>1, TableType DEF VMInv, VMTypeOK
<1>4. OwnTranslations'
  <2>1. ASSUME NEW i \in Pages, NEW p \in Pids, NEW f \in user_pgtable'[p][i]
        PROVE  f[2] = i /\ (i \in PrivatePages => f[1] = p)
    BY <1>2, <2>1 DEF alloc_page, VMInv, VMTypeOK, OwnTranslations
  <2>2. ASSUME NEW i \in Pages, NEW f \in tlb_user'[i]
        PROVE  f[2] = i /\ (i \in PrivatePages => f[1] = curr_pid')
    BY <1>1, <1>2, <2>2, AccessFacts
  <2> QED BY <2>1, <2>2 DEF OwnTranslations
<1>5. WindowOnNewChildren'
  <2>1. ASSUME NEW i \in Pages, NEW f \in tlb_window'[i]
        PROVE  f[2] = i /\ status'[f[1]] = PCB_RUNNABLE
    <3>1. f \in WindowFrames(new, i) /\ f \in Frames
      BY <1>1, <2>1
    <3>2. f[2] = i /\ (f[1] = new \/ status[f[1]] = PCB_RUNNABLE)
      BY <3>1, WindowFacts
    <3>3. f[1] \in Pids
      BY <3>1 DEF Frames
    <3> QED BY <1>2, <3>2, <3>3 DEF VMInv, IInv, TypeOK
  <2> QED BY <2>1 DEF WindowOnNewChildren
<1> QED BY <1>3, <1>4, <1>5

LEMMA ShareKeeps ==
  ASSUME VMInv, NEW dest_pid \in Pids, NEW src_pid \in Pids,
         NEW i \in SharedPages, sys_mem_share(dest_pid, src_pid, i)
  PROVE  VMTypeOK' /\ OwnTranslations' /\ WindowOnNewChildren'
<1>1. i \in Pages /\ i \notin PrivatePages
  BY VMAssumption DEF PrivatePages
<1>2. /\ user_pgtable' = [user_pgtable EXCEPT ![dest_pid][i] = user_pgtable[src_pid][i]]
      /\ UNCHANGED <<vars, tlb_user, tlb_window, mem>>
  BY DEF sys_mem_share, pmap_copy_one_page
<1>3. VMTypeOK'
  BY <1>1, <1>2 DEF VMInv, VMTypeOK
<1>4. OwnTranslations'
  BY <1>1, <1>2 DEF VMInv, VMTypeOK, OwnTranslations, vars
<1>5. WindowOnNewChildren'
  BY <1>2 DEF VMInv, WindowOnNewChildren, vars
<1> QED BY <1>3, <1>4, <1>5

LEMMA SwitchKeeps ==
  ASSUME VMInv, NEW p \in Pids, Switch(p)
  PROVE  VMTypeOK' /\ OwnTranslations' /\ WindowOnNewChildren'
<1>1. tlb_user' = Flushed /\ tlb_window' = Flushed /\ UNCHANGED <<user_pgtable, mem>>
  BY DEF Switch, load_updir
<1>2. VMTypeOK'
  BY <1>1, TableType DEF VMInv, VMTypeOK
<1>3. OwnTranslations'
  BY <1>1 DEF VMInv, OwnTranslations, Flushed
<1>4. WindowOnNewChildren'
  BY <1>1 DEF WindowOnNewChildren, Flushed
<1> QED BY <1>2, <1>3, <1>4

\* The kernel starts a new child only by a switch.
LEMMA OtherKeepsNewChildren ==
  ASSUME VMInv, OtherStep \/ ForkFails \/ \E i \in Pages : PageFault(i)
  PROVE  /\ UNCHANGED <<vmvars, curr_pid>>
         /\ \A p \in Pids : status[p] = PCB_RUNNABLE => status'[p] = PCB_RUNNABLE
<1>1. CASE ForkFails \/ \E i \in Pages : PageFault(i)
  BY <1>1 DEF ForkFails, PageFault, Crash
<1>2. CASE OtherStep
  <2>1. mode \in {"user", "hlt"} => status[curr_pid] = PCB_RUNNING
    BY DEF VMInv, IInv, OneRunning
  <2>2. mode = "sched" => status[curr_pid] # PCB_RUNNABLE
    BY DEF VMInv, IInv, OneRunning
  <2>3. status \in [Pids -> Statuses] /\ curr_pid \in Pids
    BY DEF VMInv, IInv, TypeOK
  <2>4. CASE PlainCall
    BY <1>2, <2>1, <2>3, <2>4 DEF OtherStep, PlainCall, sys_sleep, sys_exit,
       sys_wait_intr, sys_crash, Crash, sys_sem_open, sys_sem_destroy,
       sys_sem_wait, SemTake, SemBlock, sys_sem_post, UserCalls, LeaveCpu
  <2>5. CASE Timer \/ DeviceIRQ \/ SchedIdle \/ Halted
    BY <1>2, <2>1, <2>3, <2>5 DEF OtherStep, Timer, TimerTick, TimerPreempt,
       DeviceIRQ, SchedIdle, Halted, vars, LeaveCpu
  <2>6. ASSUME NEW q \in Pids, SchedRebind(q)
        PROVE  /\ curr_pid' = curr_pid
               /\ \A p \in Pids : status[p] = PCB_RUNNABLE => status'[p] = PCB_RUNNABLE
    BY <2>2, <2>3, <2>6 DEF SchedRebind, PassStopsAt
  <2> QED BY <1>2, <2>4, <2>5, <2>6 DEF OtherStep
<1> QED BY <1>1, <1>2

LEMMA OtherKeeps ==
  ASSUME VMInv, OtherStep \/ ForkFails \/ \E i \in Pages : PageFault(i)
  PROVE  VMTypeOK' /\ OwnTranslations' /\ WindowOnNewChildren'
<1>1. /\ UNCHANGED <<user_pgtable, tlb_user, tlb_window, mem, curr_pid>>
      /\ \A p \in Pids : status[p] = PCB_RUNNABLE => status'[p] = PCB_RUNNABLE
  BY OtherKeepsNewChildren DEF vmvars
<1>2. VMTypeOK' /\ OwnTranslations'
  BY <1>1 DEF VMInv, VMTypeOK, OwnTranslations
<1>3. WindowOnNewChildren'
  <2>1. ASSUME NEW i \in Pages, NEW f \in tlb_window[i]
        PROVE  f[1] \in Pids /\ f[2] = i /\ status[f[1]] = PCB_RUNNABLE
    BY DEF VMInv, VMTypeOK, WindowOnNewChildren, Frames
  <2> QED BY <1>1, <2>1 DEF WindowOnNewChildren
<1> QED BY <1>2, <1>3

-----------------------------------------------------------------------------
(* The invariant.                                                          *)

LEMMA StepKeepsVMInv == VMInv /\ [VMNext]_allvars => VMInv'
<1> SUFFICES ASSUME VMInv, [VMNext]_allvars PROVE VMInv'
  OBVIOUS
<1>1. IInv'
  BY VMStepIsKernelStep, NextKeepsIInv DEF VMInv
<1>2. VMTypeOK' /\ OwnTranslations' /\ WindowOnNewChildren'
  <2>1. CASE UNCHANGED allvars
    BY <2>1 DEF allvars, vars, vmvars, VMInv, VMTypeOK, OwnTranslations, WindowOnNewChildren
  <2>2. CASE VMNext
    BY <2>2, AccessKeeps, ForkKeeps, ShareKeeps, SwitchKeeps, OtherKeeps, VMAssumption
    DEF VMNext
  <2> QED BY <2>1, <2>2
<1> QED BY <1>1, <1>2 DEF VMInv

(* The inductive invariant holds in every reachable state.                 *)
THEOREM SpecVMInv == VMSpec => []VMInv
  BY InitVMInv, StepKeepsVMInv, PTL DEF VMSpec

(* Tables, TLB and memory keep their types: no step of the kernel makes an *)
(* entry that is neither empty nor a frame (kernel/pmap.c:40, 66).         *)
THEOREM SpecVMTypeOK == VMSpec => []VMTypeOK
<1>1. VMInv => VMTypeOK
  BY DEF VMInv
<1> QED BY <1>1, SpecVMInv, PTL

(* No process is ever left with the translations of another.               *)
THEOREM SpecOwnTranslations == VMSpec => []OwnTranslations
<1>1. VMInv => OwnTranslations
  BY DEF VMInv
<1> QED BY <1>1, SpecVMInv, PTL

(* What the TLB keeps of fork's window leads to children not yet started   *)
(* (kernel/pmap.c:56).                                                     *)
THEOREM SpecWindowOnNewChildren == VMSpec => []WindowOnNewChildren
<1>1. VMInv => WindowOnNewChildren
  BY DEF VMInv
<1> QED BY <1>1, SpecVMInv, PTL

-----------------------------------------------------------------------------
(* The action property.                                                    *)

LEMMA StepPrivateMemory ==
  ASSUME VMInv, [VMNext]_allvars, NEW p \in Pids, NEW i \in PrivatePages,
         mem'[<<p, i>>] # mem[<<p, i>>]
  PROVE  p = curr_pid \/ status'[p] = PCB_RUNNABLE
<1>1. i \in Pages /\ <<p, i>> \in Frames
  BY PageFacts DEF Frames
<1>2. CASE \E j \in Pages, value \in Values : UserWrite(j, value)
  <2>1. PICK j \in Pages, value \in Values : UserWrite(j, value)
    BY <1>2
  <2>2. PICK f \in UserFrames(j) : mem' = [mem EXCEPT ![f] = value]
    BY <2>1 DEF UserWrite
  <2>3. f = <<p, i>>
    BY <1>1, <2>2 DEF VMInv, VMTypeOK
  <2> QED BY <2>2, <2>3, AccessFacts
<1>3. CASE \E new \in Pids : Fork(new)
  <2>1. PICK new \in Pids : Fork(new)
    BY <1>3
  <2>2. PICK from \in [Pages -> Frames], to \in [Pages -> Frames] :
          /\ \A j \in Pages : to[j] \in WindowFrames(new, j)
          /\ memcpy(from, to)
    BY <2>1 DEF Fork, pmap_init_and_copy
  <2>3. PICK j \in Pages : to[j] = <<p, i>>
    BY <1>1, <2>2 DEF memcpy
  <2>4. p = new \/ status[p] = PCB_RUNNABLE
    BY <2>2, <2>3, WindowFacts
  <2> QED BY <2>1, <2>4 DEF Fork, ForkInto, VMInv, IInv, TypeOK
<1>4. CASE UNCHANGED mem
  BY <1>4
<1>5. \/ UNCHANGED mem
      \/ \E new \in Pids : Fork(new)
      \/ \E j \in Pages, value \in Values : UserWrite(j, value)
  BY DEF VMNext, allvars, vmvars, UserRead, PageFault, ForkFails, sys_mem_share,
         Switch, OtherStep
<1> QED BY <1>2, <1>3, <1>4, <1>5

(* Private memory changes only by its own process, or before that process  *)
(* has run.                                                                *)
THEOREM SpecPrivateMemory == VMSpec => PrivateMemory
<1> DEFINE A == \A p \in Pids, i \in PrivatePages :
        mem'[<<p, i>>] # mem[<<p, i>>]
        => p = curr_pid \/ status'[p] = PCB_RUNNABLE
<1>1. VMInv /\ [VMNext]_allvars => [A]_allvars
  BY StepPrivateMemory
<1> QED BY <1>1, SpecVMInv, PTL DEF VMSpec, PrivateMemory

\* Only the fork of a child gives a free PCB to a process that has not run.
LEMMA OnlyForkForks ==
  ASSUME VMInv, [VMNext]_allvars, NEW p \in Pids, Forked(p)
  PROVE  Fork(p)
<1> USE DEF Forked
<1>1. status \in [Pids -> Statuses] /\ curr_pid \in Pids
  BY DEF VMInv, IInv, TypeOK
<1>2. CASE OtherStep
  <2>1. CASE PlainCall
    BY <1>1, <2>1 DEF PlainCall, sys_sleep, sys_exit, sys_wait_intr, sys_crash,
       Crash, sys_sem_open, sys_sem_destroy, sys_sem_wait, SemTake, SemBlock,
       sys_sem_post, LeaveCpu
  <2>2. CASE Timer \/ DeviceIRQ \/ SchedIdle \/ Halted
    BY <1>1, <2>2 DEF Timer, TimerTick, TimerPreempt, DeviceIRQ, SchedIdle,
       Halted, vars, LeaveCpu
  <2>3. ASSUME NEW q \in Pids, SchedRebind(q)
        PROVE  FALSE
    BY <1>1, <2>3 DEF SchedRebind
  <2> QED BY <1>2, <2>1, <2>2, <2>3 DEF OtherStep
<1>3. ASSUME NEW q \in Pids, Switch(q)
      PROVE  FALSE
  BY <1>1, <1>3 DEF Switch, SchedDispatch, SchedGrant, pcb_exec
<1>4. ASSUME NEW new \in Pids, Fork(new)
      PROVE  Fork(p)
  <2>1. status' = [status EXCEPT ![new] = PCB_RUNNABLE]
    BY <1>4 DEF Fork, ForkInto
  <2>2. p = new
    BY <1>1, <2>1
  <2> QED BY <1>4, <2>2
<1>5. ~UNCHANGED status
  OBVIOUS
<1> QED BY <1>2, <1>3, <1>4, <1>5
        DEF VMNext, allvars, vars, UserRead, UserWrite, PageFault, ForkFails, Crash,
            sys_mem_share

LEMMA StepFirstCopyComplete ==
  ASSUME VMInv, [VMNext]_allvars, NEW p \in Pids, Forked(p), tlb_window = Flushed
  PROVE  Copied(p)
<1>1. PICK from \in [Pages -> Frames], to \in [Pages -> Frames] :
        /\ \A i \in Pages : from[i] \in UserFrames(i) /\ to[i] \in WindowFrames(p, i)
        /\ memcpy(from, to)
  BY OnlyForkForks DEF Fork, pmap_init_and_copy
<1>2. ASSUME NEW i \in PrivatePages
      PROVE  mem'[<<p, i>>] = mem[<<curr_pid, i>>]
  <2>1. i \in Pages /\ <<p, i>> \in Frames
    BY PageFacts DEF Frames
  <2>2. to[i] = <<p, i>>
    BY <1>1, <2>1 DEF WindowFrames, Flushed, alloc_page
  <2>3. from[i] = <<curr_pid, i>>
    <3>1. from[i] \in Frames /\ from[i][1] = curr_pid /\ from[i][2] = i
      BY <1>1, <2>1, AccessFacts
    <3> QED BY <3>1 DEF Frames
  <2>4. mem'[<<p, i>>] = mem[from[i]]
    BY <1>1, <2>1, <2>2 DEF memcpy
  <2> QED BY <2>3, <2>4
<1> QED BY <1>2 DEF Copied

(* The first child that a process forks after it got the processor starts  *)
(* with all of its private memory, whatever the TLB still holds of the     *)
(* user pages (kernel/pmap.c:47; a later child need not).                  *)
THEOREM SpecFirstCopyComplete == VMSpec => FirstCopyComplete
<1> DEFINE A == \A p \in Pids : Forked(p) /\ tlb_window = Flushed => Copied(p)
<1>1. VMInv /\ [VMNext]_allvars => [A]_allvars
  BY StepFirstCopyComplete
<1> QED BY <1>1, SpecVMInv, PTL DEF VMSpec, FirstCopyComplete

=============================================================================
