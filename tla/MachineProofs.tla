---------------------------- MODULE MachineProofs ----------------------------
(***************************************************************************)
(* Proofs about the parts of the system that face the processor and the    *)
(* devices: the clock, what the page tables map, the names of files,       *)
(* numbers as they are printed, what the game draws; and about Machine,    *)
(* which runs them and those of TrapsProofs and IdeProofs.                 *)
(***************************************************************************)
EXTENDS Machine, TrapsProofs, IdeProofs, SequenceTheorems, WellFoundedInduction

-----------------------------------------------------------------------------
(* The clock.  The differences of Kernel make the comparisons of the code. *)

ClockTypes ==
  /\ curr_pid \in Pids
  /\ wakeup_time \in [Pids -> Nat]
  /\ slice \in Nat
  /\ sys_runned_time \in Nat
  /\ sys_last_time \in Nat
  /\ wake \in [Pids -> Nat]

\* What is left of a time, and the slice with its saturation.
TicksLeft(time, now) == IF time > now THEN time - now ELSE 0

Differences ==
  /\ sys_last_time <= sys_runned_time
  /\ slice = IF sys_runned_time - sys_last_time < SCHED_TIME_FREQ
             THEN sys_runned_time - sys_last_time ELSE SCHED_TIME_FREQ
  /\ \A p \in Pids : /\ wakeup_time[p] = TicksLeft(wake[p], sys_runned_time)
                     /\ wake[p] <= sys_runned_time + MaxSleep + 1

\* The step that follows cannot wrap unless it is not taken.
InTime == sys_runned_time + SCHED_TIME_FREQ + MaxSleep + 2 <= TIME_MAX

ClockInv == ClockTypes /\ Differences /\ InTime

-----------------------------------------------------------------------------

LEMMA ClockInitInv == Init /\ ClockInit => ClockInv
<1> SUFFICES ASSUME Init, ClockInit PROVE ClockInv
  OBVIOUS
<1> USE KernelAssumption, ClockAssumption
<1>1. ClockTypes
  BY DEF Init, ClockInit, ClockTypes, Pids
<1>2. Differences
  BY DEF Init, ClockInit, Differences, TicksLeft
<1>3. InTime
  BY DEF ClockInit, InTime
<1> QED
  BY <1>1, <1>2, <1>3 DEF ClockInv

\* The clock goes on by one: what is left of each time goes down with it.
LEMMA AdvanceFacts ==
  ASSUME ClockInv, ~Late, Advance
  PROVE  /\ sys_runned_time' = sys_runned_time + 1
         /\ InTime'
         /\ Elapsed \in [Pids -> Nat]
         /\ \A p \in Pids : /\ Elapsed[p] = TicksLeft(wake[p], sys_runned_time + 1)
                            /\ wake[p] <= (sys_runned_time + 1) + MaxSleep + 1
<1> USE KernelAssumption, ClockAssumption
<1>1. /\ sys_runned_time \in Nat
      /\ sys_runned_time + SCHED_TIME_FREQ + MaxSleep + 2 < TIME_MAX
  BY DEF ClockInv, ClockTypes, Late
<1>2. sys_runned_time' = sys_runned_time + 1
  BY <1>1 DEF Advance, Plus
<1>3. InTime'
  BY <1>1, <1>2 DEF InTime
<1>4. Elapsed \in [Pids -> Nat]
  BY DEF ClockInv, ClockTypes, Elapsed
<1>5. ASSUME NEW p \in Pids
      PROVE  /\ Elapsed[p] = TicksLeft(wake[p], sys_runned_time + 1)
             /\ wake[p] <= (sys_runned_time + 1) + MaxSleep + 1
  <2>1. /\ wake[p] \in Nat /\ wakeup_time[p] \in Nat
        /\ wakeup_time[p] = TicksLeft(wake[p], sys_runned_time)
        /\ wake[p] <= sys_runned_time + MaxSleep + 1
    BY DEF ClockInv, ClockTypes, Differences
  <2>2. Elapsed[p] = IF wakeup_time[p] = 0 THEN 0 ELSE wakeup_time[p] - 1
    BY DEF Elapsed
  <2> QED
    BY <1>1, <2>1, <2>2 DEF TicksLeft
<1> QED
  BY <1>2, <1>3, <1>4, <1>5

LEMMA PassInv == ClockInv /\ ~Late /\ PassOnClock => ClockInv'
<1> SUFFICES ASSUME ClockInv, ~Late, PassOnClock PROVE ClockInv'
  OBVIOUS
<1> USE KernelAssumption, ClockAssumption
<1>1. wakeup_time' = Elapsed /\ slice' = NextSlice /\ curr_pid' \in Pids
  BY DEF PassOnClock, sched_process, SchedIdle, SchedDispatch, SchedGrant, SchedRebind,
         PassStopsAt, pcb_exec, ClockInv, ClockTypes
<1>2. sys_last_time' = sys_last_time /\ wake' = wake /\ Advance
  BY DEF PassOnClock
<1>3. slice' = IF sys_runned_time' - sys_last_time' < SCHED_TIME_FREQ
               THEN sys_runned_time' - sys_last_time' ELSE SCHED_TIME_FREQ
  BY <1>1, <1>2, AdvanceFacts DEF ClockInv, ClockTypes, Differences, NextSlice
<1>4. ClockTypes'
  BY <1>1, <1>2, AdvanceFacts DEF ClockInv, ClockTypes, NextSlice
<1>5. Differences'
  <2>1. sys_last_time' <= sys_runned_time'
    BY <1>2, AdvanceFacts DEF ClockInv, ClockTypes, Differences
  <2>2. ASSUME NEW p \in Pids
        PROVE  /\ wakeup_time'[p] = TicksLeft(wake'[p], sys_runned_time')
               /\ wake'[p] <= sys_runned_time' + MaxSleep + 1
    BY <1>1, <1>2, AdvanceFacts
  <2> QED
    BY <1>3, <2>1, <2>2 DEF Differences, TicksLeft
<1> QED
  BY <1>2, <1>4, <1>5, AdvanceFacts DEF ClockInv

LEMMA TickInv == ClockInv /\ ~Late /\ TickOnClock => ClockInv'
<1> SUFFICES ASSUME ClockInv, ~Late, TickOnClock PROVE ClockInv'
  OBVIOUS
<1> USE KernelAssumption, ClockAssumption
<1>1. /\ slice < SCHED_TIME_FREQ /\ slice' = slice + 1
      /\ wakeup_time' = Elapsed /\ curr_pid' = curr_pid
  BY DEF TickOnClock, TimerTick
<1>2. sys_last_time' = sys_last_time /\ wake' = wake /\ Advance
  BY DEF TickOnClock
<1>3. slice' = IF sys_runned_time' - sys_last_time' < SCHED_TIME_FREQ
               THEN sys_runned_time' - sys_last_time' ELSE SCHED_TIME_FREQ
  BY <1>1, <1>2, AdvanceFacts DEF ClockInv, ClockTypes, Differences
<1>4. ClockTypes'
  BY <1>1, <1>2, AdvanceFacts DEF ClockInv, ClockTypes
<1>5. Differences'
  <2>1. sys_last_time' <= sys_runned_time'
    BY <1>2, AdvanceFacts DEF ClockInv, ClockTypes, Differences
  <2>2. ASSUME NEW p \in Pids
        PROVE  /\ wakeup_time'[p] = TicksLeft(wake'[p], sys_runned_time')
               /\ wake'[p] <= sys_runned_time' + MaxSleep + 1
    BY <1>1, <1>2, AdvanceFacts
  <2> QED
    BY <1>3, <2>1, <2>2 DEF Differences, TicksLeft
<1> QED
  BY <1>2, <1>4, <1>5, AdvanceFacts DEF ClockInv

LEMMA PreemptInv == ClockInv /\ ~Late /\ PreemptOnClock => ClockInv'
<1> SUFFICES ASSUME ClockInv, ~Late, PreemptOnClock PROVE ClockInv'
  OBVIOUS
<1> USE KernelAssumption, ClockAssumption
<1>1. /\ slice' = 0 /\ wakeup_time' = [Elapsed EXCEPT ![curr_pid] = 1]
      /\ curr_pid' = curr_pid
  BY DEF PreemptOnClock, TimerPreempt
<1>2. sys_last_time' = sys_runned_time' /\ Advance
  BY DEF PreemptOnClock
<1>3. wake' = [wake EXCEPT ![curr_pid] = sys_runned_time' + 1]
  <2>1. Plus(sys_runned_time', 1) = sys_runned_time' + 1
    BY <1>2, AdvanceFacts DEF Plus, InTime, ClockInv, ClockTypes
  <2> QED
    BY <2>1 DEF PreemptOnClock, Wakes
<1>4. ClockTypes'
  BY <1>1, <1>2, <1>3, AdvanceFacts DEF ClockInv, ClockTypes
<1>5. Differences'
  <2>1. /\ sys_last_time' <= sys_runned_time'
        /\ slice' = IF sys_runned_time' - sys_last_time' < SCHED_TIME_FREQ
                    THEN sys_runned_time' - sys_last_time' ELSE SCHED_TIME_FREQ
    BY <1>1, <1>2, AdvanceFacts DEF ClockInv, ClockTypes
  <2>2. ASSUME NEW p \in Pids
        PROVE  /\ wakeup_time'[p] = TicksLeft(wake'[p], sys_runned_time')
               /\ wake'[p] <= sys_runned_time' + MaxSleep + 1
    <3>1. CASE p = curr_pid
      BY <1>1, <1>2, <1>3, <3>1, AdvanceFacts DEF ClockInv, ClockTypes, TicksLeft
    <3>2. CASE p # curr_pid
      BY <1>1, <1>2, <1>3, <3>2, AdvanceFacts DEF ClockInv, ClockTypes
    <3> QED
      BY <3>1, <3>2
  <2> QED
    BY <2>1, <2>2 DEF Differences, TicksLeft
<1> QED
  BY <1>2, <1>4, <1>5, AdvanceFacts DEF ClockInv

\* A step that leaves the clock and gives one process a time of its own.
LEMMA OneTimeInv ==
  ASSUME ClockInv, NEW p \in Pids, NEW time \in Nat, time <= sys_runned_time + MaxSleep + 1,
         wake' = [wake EXCEPT ![p] = time],
         wakeup_time' = [wakeup_time EXCEPT ![p] = TicksLeft(time, sys_runned_time)],
         UNCHANGED <<curr_pid, slice, sys_runned_time, sys_last_time>>
  PROVE  ClockInv'
<1> USE KernelAssumption, ClockAssumption
<1>1. TicksLeft(time, sys_runned_time) \in Nat
  BY DEF ClockInv, ClockTypes, TicksLeft
<1>2. ClockTypes' /\ InTime'
  BY <1>1 DEF ClockInv, ClockTypes, InTime
<1>3. ASSUME NEW q \in Pids
      PROVE  /\ wakeup_time'[q] = TicksLeft(wake'[q], sys_runned_time')
             /\ wake'[q] <= sys_runned_time' + MaxSleep + 1
  <2>1. CASE q = p
    BY <2>1 DEF ClockInv, ClockTypes
  <2>2. CASE q # p
    BY <2>2 DEF ClockInv, ClockTypes, Differences
  <2> QED
    BY <2>1, <2>2
<1>4. Differences'
  BY <1>3 DEF ClockInv, Differences, TicksLeft
<1> QED
  BY <1>2, <1>4 DEF ClockInv

LEMMA SleepInv == ClockInv /\ ~Late /\ SleepOnClock => ClockInv'
<1> SUFFICES ASSUME ClockInv, ~Late, SleepOnClock PROVE ClockInv'
  OBVIOUS
<1> USE KernelAssumption, ClockAssumption
<1>1. PICK time \in 0 .. MaxSleep :
        /\ wakeup_time' = [wakeup_time EXCEPT ![curr_pid] = time]
        /\ wake' = [wake EXCEPT ![curr_pid] = Plus(sys_runned_time, time)]
        /\ UNCHANGED <<curr_pid, slice, sys_runned_time, sys_last_time>>
  BY DEF SleepOnClock, sys_sleep, Wakes
<1>2. Plus(sys_runned_time, time) = sys_runned_time + time
  BY DEF Plus, Late, ClockInv, ClockTypes
<1>3. /\ curr_pid \in Pids /\ sys_runned_time + time \in Nat
      /\ sys_runned_time + time <= sys_runned_time + MaxSleep + 1
      /\ TicksLeft(sys_runned_time + time, sys_runned_time) = time
  BY DEF ClockInv, ClockTypes, TicksLeft
<1> QED
  BY <1>1, <1>2, <1>3, OneTimeInv

LEMMA ForkInv == ClockInv /\ ForkOnClock => ClockInv'
<1> SUFFICES ASSUME ClockInv, ForkOnClock PROVE ClockInv'
  OBVIOUS
<1>1. PICK new \in Pids :
        /\ wakeup_time' = [wakeup_time EXCEPT ![new] = wakeup_time[curr_pid]]
        /\ wake' = [wake EXCEPT ![new] = wake[curr_pid]]
        /\ UNCHANGED <<curr_pid, slice, sys_runned_time, sys_last_time>>
  BY DEF ForkOnClock, ForkInto, Wakes
<1>2. /\ wake[curr_pid] \in Nat
      /\ wake[curr_pid] <= sys_runned_time + MaxSleep + 1
      /\ wakeup_time[curr_pid] = TicksLeft(wake[curr_pid], sys_runned_time)
  BY DEF ClockInv, ClockTypes, Differences
<1> QED
  BY <1>1, <1>2, OneTimeInv

\* A step that changes no time keeps the invariant.
LEMMA SameTimesInv ==
  ASSUME ClockInv, UNCHANGED <<curr_pid, wakeup_time, slice, clockvars>>
  PROVE  ClockInv'
BY DEF ClockInv, ClockTypes, Differences, InTime, TicksLeft, clockvars

LEMMA OffClockInv == ClockInv /\ OffClock => ClockInv'
<1> SUFFICES ASSUME ClockInv, OffClock PROVE ClockInv'
  OBVIOUS
<1>1. UNCHANGED <<curr_pid, wakeup_time, slice>>
  <2>1. CASE sys_exit \/ sys_wait_intr \/ sys_crash \/ DeviceIRQ \/ Halted
    BY <2>1 DEF sys_exit, sys_wait_intr, sys_crash, Crash, DeviceIRQ, Halted, vars
  <2>2. CASE UserCalls /\ NoFreeSlot /\ Crash
    BY <2>2 DEF Crash
  <2>3. ASSUME NEW s \in Sems, NEW value \in 0 .. MaxCount, sys_sem_open(s, value)
        PROVE  UNCHANGED <<curr_pid, wakeup_time, slice>>
    BY <2>3 DEF sys_sem_open, Crash
  <2>4. ASSUME NEW s \in Sems, sys_sem_destroy(s) \/ sys_sem_wait(s) \/ sys_sem_post(s)
        PROVE  UNCHANGED <<curr_pid, wakeup_time, slice>>
    BY <2>4 DEF sys_sem_destroy, sys_sem_wait, SemTake, SemBlock, sys_sem_post
  <2> QED
    BY <2>1, <2>2, <2>3, <2>4 DEF OffClock
<1> QED
  BY <1>1, SameTimesInv DEF OffClock

LEMMA SpecClockInv == ClockSpec => []ClockInv
<1>1. ClockInv /\ [ClockNext]_<<vars, clockvars>> => ClockInv'
  <2> SUFFICES ASSUME ClockInv, [ClockNext]_<<vars, clockvars>> PROVE ClockInv'
    OBVIOUS
  <2>1. CASE ~Late /\ ClockStep
    BY <2>1, PassInv, TickInv, PreemptInv, SleepInv, ForkInv, OffClockInv DEF ClockStep
  <2>2. CASE UNCHANGED <<vars, clockvars>>
    BY <2>2, SameTimesInv DEF vars
  <2> QED
    BY <2>1, <2>2 DEF ClockNext
<1> QED
  BY <1>1, ClockInitInv, PTL DEF ClockSpec

LEMMA AgreesByClockInv == ASSUME ClockInv PROVE ClockAgrees
<1> USE KernelAssumption, ClockAssumption
<1>1. /\ sys_runned_time \in Nat /\ sys_last_time \in Nat /\ slice \in Nat
      /\ sys_last_time <= sys_runned_time
      /\ sys_runned_time + SCHED_TIME_FREQ + MaxSleep + 2 <= TIME_MAX
  BY DEF ClockInv, ClockTypes, Differences, InTime
<1>2. /\ Plus(sys_runned_time, 1) = sys_runned_time + 1
      /\ Plus(sys_last_time, SCHED_TIME_FREQ) = sys_last_time + SCHED_TIME_FREQ
  BY <1>1 DEF Plus
<1>3. SliceOver <=> slice >= SCHED_TIME_FREQ
  BY <1>1, <1>2 DEF SliceOver, ClockInv, Differences
<1>4. ASSUME NEW p \in Pids PROVE SleepOver(p) <=> Due(p)
  <2>1. /\ wake[p] \in Nat
        /\ wakeup_time[p] = TicksLeft(wake[p], sys_runned_time)
    BY DEF ClockInv, ClockTypes, Differences
  <2>2. Elapsed[p] = IF wakeup_time[p] = 0 THEN 0 ELSE wakeup_time[p] - 1
    BY DEF Elapsed
  <2> QED
    BY <1>1, <1>2, <2>1, <2>2 DEF SleepOver, Due, TicksLeft
<1> QED
  BY <1>3, <1>4 DEF ClockAgrees

\* Kernel decides as the code does, until a sum of the code may wrap: the timer
\* trap (kernel/trap.c:113) takes the processor at the same tick, and the
\* scheduler (kernel/sched.c:19) finds the same sleepers due.
THEOREM SpecClockAgrees == ClockSpec => []ClockAgrees
  BY AgreesByClockInv, SpecClockInv, PTL

-----------------------------------------------------------------------------
(* What is mapped, of every process that has a page table.                 *)

\* An address of the user's four megabytes is in one entry of the directory, and
\* so is one of the kernel's.
LEMMA EntryOf ==
  /\ PDX(KERNBASE) = 960 /\ PDX(UserBase) = 32 /\ PDX(USER_START) = 32
  /\ PDX(new_addr) = 64
  /\ \A f \in Indices : /\ PDX(KERNBASE + f) = 960 /\ PTX(KERNBASE + f) = f
                        /\ PDX(f) = 0 /\ PTX(f) = f
                        /\ PDX(UserBase + f) = 32 /\ PTX(UserBase + f) = f
<1> USE DEF PDX, PTX, NPDENTRIES, NPTENTRIES, KERNBASE, UserBase, USER_START, new_addr, Indices
<1>1. /\ PDX(KERNBASE) = 960 /\ PDX(UserBase) = 32 /\ PDX(USER_START) = 32
      /\ PDX(new_addr) = 64
  OBVIOUS
<1>2. ASSUME NEW f \in Indices
      PROVE  /\ PDX(KERNBASE + f) = 960 /\ PTX(KERNBASE + f) = f
             /\ PDX(f) = 0 /\ PTX(f) = f
             /\ PDX(UserBase + f) = 32 /\ PTX(UserBase + f) = f
  OBVIOUS
<1> QED
  BY <1>1, <1>2

\* The directory of a process: three entries, and what they point to.
LEMMA DirectoryOf ==
  ASSUME NEW pid \in UserPids
  PROVE  /\ DOMAIN user_pgdir(pid) = {0, 32, 960}
         /\ user_pgdir(pid)[0] = Table(entry_pgtable, {})
         /\ user_pgdir(pid)[960] = Table(entry_pgtable, {"PTE_W"})
         /\ user_pgdir(pid)[32] = Table(user_pgtable(pid), {"PTE_W", "PTE_U"})
<1>1. PDX(IF pid = 0 THEN USER_START ELSE UserBase) = 32 /\ PDX(KERNBASE) = 960
  BY EntryOf
<1>2. user_pgdir(pid) =
        [d \in {0, 960} \cup {32} |->
           IF d = 32 THEN Table(user_pgtable(pid), {"PTE_W", "PTE_U"})
           ELSE pcb_page_init[d]]
  BY <1>1 DEF user_pgdir, alloc_page, pcb_page_init
<1>3. /\ pcb_page_init[0] = Table(entry_pgtable, {})
      /\ pcb_page_init[960] = Table(entry_pgtable, {"PTE_W"})
  BY <1>1 DEF pcb_page_init, entry_pgdir
<1> QED
  BY <1>2, <1>3

LEMMA TableParts ==
  ASSUME NEW table, NEW flags
  PROVE  Table(table, flags).table = table /\ Table(table, flags).flags = flags
BY DEF Table

\* The frames of two processes are apart, and none is the kernel's.
THEOREM FramesApart ==
  ASSUME NEW p \in UserPids, NEW q \in UserPids, NEW i \in Indices, NEW j \in Indices
  PROVE  /\ UserFrame(p, i) = UserFrame(q, j) => p = q /\ i = j
         /\ UserFrame(p, i) \notin Indices
BY DEF UserFrame, KERN_MEM, NPTENTRIES, Indices, UserPids, USER_DIR_NUM, MAX_MEM

\* In the directory of every process the kernel is where it was linked (see
\* kernel/entrypgdir.c:22), and a program cannot get at it.
THEOREM KernelEverywhere == \A pid \in UserPids : KernelIn(user_pgdir(pid))
<1> SUFFICES ASSUME NEW pid \in UserPids, NEW f \in Indices
             PROVE  /\ PDX(KERNBASE + f) \in DOMAIN user_pgdir(pid)
                    /\ Physical(user_pgdir(pid), KERNBASE + f) = f
                    /\ Allows(user_pgdir(pid), KERNBASE + f, "PTE_W")
                    /\ ~Allows(user_pgdir(pid), KERNBASE + f, "PTE_U")
                    /\ PDX(f) \in DOMAIN user_pgdir(pid)
                    /\ Physical(user_pgdir(pid), f) = f
                    /\ ~Allows(user_pgdir(pid), f, "PTE_W")
                    /\ ~Allows(user_pgdir(pid), f, "PTE_U")
  BY DEF KernelIn
<1>1. /\ PDX(KERNBASE + f) = 960 /\ PTX(KERNBASE + f) = f
      /\ PDX(f) = 0 /\ PTX(f) = f
  BY EntryOf
<1>2. entry_pgtable[f].page = f /\ entry_pgtable[f].flags = {"PTE_W"}
  BY DEF entry_pgtable, Entry
<1>3. /\ user_pgdir(pid)[0].table = entry_pgtable /\ user_pgdir(pid)[0].flags = {}
      /\ user_pgdir(pid)[960].table = entry_pgtable
      /\ user_pgdir(pid)[960].flags = {"PTE_W"}
  BY DirectoryOf, TableParts
<1> QED
  BY <1>1, <1>2, <1>3, DirectoryOf DEF Physical, Allows

\* What a program may use is its four megabytes, for writing as well, and none
\* of it is the kernel's.
THEOREM EveryoneConfined == \A pid \in UserPids : Confined(pid)
<1> SUFFICES ASSUME NEW pid \in UserPids PROVE Confined(pid)
  OBVIOUS
<1> DEFINE dir == user_pgdir(pid)
<1>1. /\ dir[32].table = user_pgtable(pid) /\ dir[32].flags = {"PTE_W", "PTE_U"}
      /\ dir[0].flags = {} /\ dir[960].flags = {"PTE_W"}
  BY DirectoryOf, TableParts
<1>2. ASSUME NEW f \in Indices
      PROVE  /\ user_pgtable(pid)[f].page = UserFrame(pid, f)
             /\ user_pgtable(pid)[f].flags = {"PTE_W", "PTE_U"}
  BY DEF user_pgtable, Entry
<1>3. ASSUME NEW va \in UserPages
      PROVE  /\ va \in Mapped(dir) /\ Allows(dir, va, "PTE_U") /\ Allows(dir, va, "PTE_W")
             /\ Physical(dir, va) \notin Indices
  <2>1. PICK f \in Indices : va = UserBase + f
    <3>1. va - UserBase \in Indices /\ va = UserBase + (va - UserBase)
      BY DEF UserPages, UserBase, Indices, NPTENTRIES
    <3> QED
      BY <3>1
  <2>2. PDX(va) = 32 /\ PTX(va) = f
    BY <2>1, EntryOf
  <2>3. va = PGADDR(32, f)
    BY <2>1 DEF PGADDR, UserBase, NPTENTRIES, Indices
  <2>4. va \in Mapped(dir)
    BY <2>3, DirectoryOf DEF Mapped
  <2> QED
    BY <1>1, <1>2, <2>2, <2>4, FramesApart DEF Allows, Physical
<1>4. ASSUME NEW va \in Mapped(dir), Allows(dir, va, "PTE_U")
      PROVE  va \in UserPages
  <2>1. PICK d \in {0, 32, 960}, t \in Indices : va = PGADDR(d, t)
    BY DirectoryOf DEF Mapped
  <2>2. PDX(va) = d
    BY <2>1 DEF PGADDR, PDX, NPTENTRIES, NPDENTRIES, Indices
  <2>3. d = 32
    BY <1>1, <1>4, <2>2 DEF Allows
  <2> QED
    BY <2>1, <2>3 DEF PGADDR, UserPages, UserBase, NPTENTRIES, Indices
<1> QED
  BY <1>3, <1>4 DEF Confined

\* No page of a program is in a frame of another process.
THEOREM EveryoneApart == \A pid, other \in UserPids : pid # other => Apart(pid, other)
<1> SUFFICES ASSUME NEW pid \in UserPids, NEW other \in UserPids, pid # other, NEW va \in UserPages
             PROVE  Physical(user_pgdir(pid), va) \notin
                      UserFrame(other, 0) .. UserFrame(other, NPTENTRIES - 1)
  BY DEF Apart
<1>1. PICK f \in Indices : va = UserBase + f
  <2>1. va - UserBase \in Indices /\ va = UserBase + (va - UserBase)
    BY DEF UserPages, UserBase, Indices, NPTENTRIES
  <2> QED
    BY <2>1
<1>2. Physical(user_pgdir(pid), va) = UserFrame(pid, f)
  <2>1. user_pgdir(pid)[32].table = user_pgtable(pid)
    BY DirectoryOf, TableParts
  <2>2. user_pgtable(pid)[f].page = UserFrame(pid, f)
    BY DEF user_pgtable, Entry
  <2> QED
    BY <1>1, <2>1, <2>2, EntryOf DEF Physical
<1> QED
  BY <1>2 DEF UserFrame, KERN_MEM, NPTENTRIES, Indices, UserPids, USER_DIR_NUM, MAX_MEM

(* While a father copies, its own entries are what they were, and the      *)
(* memory of the child is behind the window (kernel/pmap.c:45).            *)
THEOREM EveryWindowFits == \A pid, child \in UserPids : WindowFits(pid, child)
<1> SUFFICES ASSUME NEW pid \in UserPids, NEW child \in UserPids PROVE WindowFits(pid, child)
  OBVIOUS
<1> DEFINE dir == window(pid, child)
           own == user_pgdir(pid)
<1>1. dir = [d \in {0, 32, 960} \cup {64} |->
               IF d = 64 THEN Table(user_pgtable(child), {"PTE_W", "PTE_U"}) ELSE own[d]]
  BY EntryOf, DirectoryOf DEF window, alloc_page
<1>2. \A d \in DOMAIN own : dir[d] = own[d]
  BY <1>1, DirectoryOf
<1>3. dir[64] = user_pgdir(child)[32]
  BY <1>1, DirectoryOf
<1> QED
  BY <1>2, <1>3, EntryOf DEF WindowFits

(* A page that is shared is the one that was named, and no other page of   *)
(* the program moves (kernel/pmap.c:62).                                   *)
THEOREM EveryoneSharesOne ==
  \A dest, src \in UserPids : \A va \in UserPages : SharesOne(dest, src, va)
<1> SUFFICES ASSUME NEW dest \in UserPids, NEW src \in UserPids, NEW va \in UserPages
             PROVE  SharesOne(dest, src, va)
  OBVIOUS
<1> DEFINE table == pmap_copy_one_page(user_pgtable(dest), user_pgtable(src), va)
           theirs == user_pgdir(src)
           own == user_pgdir(dest)
           after == [own EXCEPT ![PDX(UserBase)].table = table]
<1>1. /\ theirs[32].table = user_pgtable(src) /\ own[32].table = user_pgtable(dest)
      /\ 32 \in DOMAIN own /\ PDX(UserBase) = 32
      /\ own[32] = Table(user_pgtable(dest), {"PTE_W", "PTE_U"})
  BY DirectoryOf, TableParts, EntryOf
<1>2. after[32].table = table
  BY <1>1 DEF Table
<1>3. ASSUME NEW page \in UserPages
      PROVE  /\ PDX(page) = 32 /\ PTX(page) \in Indices /\ page = UserBase + PTX(page)
  <2>1. page - UserBase \in Indices /\ page = UserBase + (page - UserBase)
    BY DEF UserPages, UserBase, Indices, NPTENTRIES
  <2> QED BY <2>1, EntryOf
<1>4. ASSUME NEW page \in UserPages
      PROVE  Physical(after, page) = Physical(IF page = va THEN theirs ELSE own, page)
  <2>1. table[PTX(page)] = IF page = va THEN user_pgtable(src)[PTX(page)]
                                        ELSE user_pgtable(dest)[PTX(page)]
    BY <1>3 DEF pmap_copy_one_page, user_pgtable
  <2> HIDE DEF table
  <2>2. Physical(after, page) = table[PTX(page)].page
    BY <1>2, <1>3 DEF Physical
  <2> HIDE DEF after, theirs, own
  <2> QED BY <1>1, <1>3, <2>1, <2>2 DEF Physical
<1> HIDE DEF after, table, theirs, own
<1> QED
  BY <1>4 DEF SharesOne, after, table, theirs, own

(* The two limits on the number of page tables agree (kernel/pmap.c:17), on *)
(* every process that sys_fork may make (kernel/syscall.c:55).             *)
THEOREM EveryTableFits == \A pid \in 0 .. UPDIR_NUM - 1 : TablesFit(pid)
  BY DEF UPDIR_NUM, TablesFit, USER_DIR_NUM, UserFrame, MAX_MEM, KERN_MEM, NPTENTRIES, MachineMemory

-----------------------------------------------------------------------------
(* The names of files, of any length.                                      *)

LEMMA StoredName ==
  ASSUME NEW stored \in Seq(Alphabet),
         NEW old \in [0 .. FILENAME_LENGTH - 1 -> Alphabet \cup {NUL}],
         NEW i \in 0 .. FILENAME_LENGTH - 1
  PROVE  strncpy(old, stored, FILENAME_LENGTH)[i]
         = IF i < Len(stored) THEN stored[i + 1] ELSE NUL
  BY CLibAssumption DEF strncpy, Bytes

LEMMA NameBytes ==
  ASSUME NEW name \in Seq(Alphabet)
  PROVE  /\ \A i \in 0 .. Len(name) - 1 : Bytes(name)[i] = name[i + 1] /\ name[i + 1] # NUL
         /\ Bytes(name)[Len(name)] = NUL
  BY CLibAssumption DEF Bytes, NUL

LEMMA PrefixFacts ==
  ASSUME NEW s \in Seq(Alphabet)
  PROVE  /\ Prefix(s) \in Seq(Alphabet)
         /\ Len(Prefix(s)) = IF Len(s) < FILENAME_LENGTH THEN Len(s) ELSE FILENAME_LENGTH
         /\ \A k \in 1 .. Len(Prefix(s)) : Prefix(s)[k] = s[k]
  BY CLibAssumption DEF Prefix

LEMMA SamePrefix ==
  ASSUME NEW s \in Seq(Alphabet), NEW t \in Seq(Alphabet)
  PROVE  Prefix(s) = Prefix(t) <=>
           /\ Len(Prefix(s)) = Len(Prefix(t))
           /\ \A k \in 1 .. Len(Prefix(s)) : s[k] = t[k]
<1> DEFINE p == Prefix(s)
           q == Prefix(t)
<1>1. p \in Seq(Alphabet) /\ q \in Seq(Alphabet)
  BY PrefixFacts
<1>2. /\ \A k \in 1 .. Len(p) : p[k] = s[k]
      /\ \A k \in 1 .. Len(q) : q[k] = t[k]
  BY PrefixFacts
<1> HIDE DEF p, q
<1>3. ASSUME Len(p) = Len(q), \A k \in 1 .. Len(p) : s[k] = t[k]
      PROVE  p = q
  BY <1>1, <1>2, <1>3
<1>4. ASSUME p = q
      PROVE  Len(p) = Len(q) /\ \A k \in 1 .. Len(p) : s[k] = t[k]
  <2>1. \A k \in 1 .. Len(p) : p[k] = s[k] /\ q[k] = t[k]
    BY <1>2, <1>4
  <2> QED BY <1>4, <2>1
<1> QED BY <1>3, <1>4 DEF p, q

(* fs_open finds a file by the first characters of its name, whatever was  *)
(* in the entry before, for names of any length (kernel/fs.c:149, 166).    *)
THEOREM EveryNameFound ==
  \A name, stored \in Seq(Alphabet) : SameFile(name, stored)
<1> SUFFICES ASSUME NEW name \in Seq(Alphabet), NEW stored \in Seq(Alphabet),
                    NEW old \in [0 .. FILENAME_LENGTH - 1 -> Alphabet \cup {NUL}]
             PROVE  strncmp(Bytes(name), strncpy(old, stored, FILENAME_LENGTH), FILENAME_LENGTH) = 0
                      <=> Prefix(name) = Prefix(stored)
  BY DEF SameFile
<1> DEFINE F == FILENAME_LENGTH
           a == Bytes(name)
           b == strncpy(old, stored, F)
           n == Len(name)
           m == Len(stored)
<1>1. F \in Nat /\ F > 0 /\ n \in Nat /\ m \in Nat
  BY CLibAssumption
<1>2. \A i \in 0 .. n - 1 : a[i] = name[i + 1] /\ name[i + 1] # NUL
  BY NameBytes
<1>3. a[n] = NUL
  BY NameBytes
<1>4. \A i \in 0 .. F - 1 : b[i] = IF i < m THEN stored[i + 1] ELSE NUL
  BY StoredName
<1>5. \A i \in 0 .. m - 1 : stored[i + 1] # NUL
  BY NameBytes
<1>6. strncmp(a, b, F) = 0 <=>
        \A i \in 0 .. F - 1 : (\A j \in 0 .. i - 1 : a[j] # NUL) => a[i] = b[i]
  BY DEF strncmp
<1>7. Prefix(name) = Prefix(stored) <=>
        /\ (IF n < F THEN n ELSE F) = (IF m < F THEN m ELSE F)
        /\ \A k \in 1 .. (IF n < F THEN n ELSE F) : name[k] = stored[k]
  <2>1. /\ Len(Prefix(name)) = IF n < F THEN n ELSE F
        /\ Len(Prefix(stored)) = IF m < F THEN m ELSE F
    BY PrefixFacts
  <2>2. Prefix(name) = Prefix(stored) <=>
          /\ Len(Prefix(name)) = Len(Prefix(stored))
          /\ \A k \in 1 .. Len(Prefix(name)) : name[k] = stored[k]
    BY SamePrefix
  <2> HIDE DEF F, n, m
  <2> QED BY <2>1, <2>2
<1> HIDE DEF F, a, b, n, m
<1>8. ASSUME strncmp(a, b, F) = 0
      PROVE  /\ (IF n < F THEN n ELSE F) = (IF m < F THEN m ELSE F)
             /\ \A k \in 1 .. (IF n < F THEN n ELSE F) : name[k] = stored[k]
  <2>1. ASSUME NEW i \in 0 .. F - 1, i <= n PROVE a[i] = b[i]
    <3>1. \A j \in 0 .. i - 1 : a[j] # NUL
      BY <1>1, <1>2, <2>1
    <3> QED BY <1>6, <1>8, <3>1
  <2>2. ASSUME NEW i \in 0 .. F - 1, i < n PROVE i < m /\ name[i + 1] = stored[i + 1]
    <3>1. i <= n /\ i \in 0 .. n - 1
      BY <1>1, <2>2
    <3>2. a[i] = b[i] /\ a[i] = name[i + 1] /\ name[i + 1] # NUL
      BY <1>2, <2>1, <3>1
    <3> QED BY <1>1, <1>4, <3>2
  <2>3. n < F => ~(n < m)
    <3> SUFFICES ASSUME n < F, n < m PROVE FALSE
      OBVIOUS
    <3>1. a[n] = b[n] /\ b[n] = stored[n + 1]
      BY <1>1, <1>4, <2>1
    <3> QED BY <1>1, <1>3, <1>5, <3>1
  <2>4. (IF n < F THEN n ELSE F) = (IF m < F THEN m ELSE F)
    <3>1. CASE n < F
      <4>1. n > 0 => n - 1 < m
        <5> SUFFICES ASSUME n > 0 PROVE n - 1 < m
          OBVIOUS
        <5>1. n - 1 \in 0 .. F - 1 /\ n - 1 < n
          BY <1>1, <3>1
        <5> QED BY <2>2, <5>1
      <4> QED BY <1>1, <2>3, <3>1, <4>1
    <3>2. CASE ~(n < F)
      <4>1. F - 1 < m
        BY <1>1, <2>2, <3>2
      <4> QED BY <1>1, <3>2, <4>1
    <3> QED BY <3>1, <3>2
  <2>5. ASSUME NEW k \in 1 .. (IF n < F THEN n ELSE F) PROVE name[k] = stored[k]
    <3>1. k - 1 \in 0 .. F - 1 /\ k - 1 < n /\ (k - 1) + 1 = k
      BY <1>1
    <3> QED BY <2>2, <3>1
  <2> QED BY <2>4, <2>5
<1>9. ASSUME (IF n < F THEN n ELSE F) = (IF m < F THEN m ELSE F),
             \A k \in 1 .. (IF n < F THEN n ELSE F) : name[k] = stored[k]
      PROVE  strncmp(a, b, F) = 0
  <2> SUFFICES ASSUME NEW i \in 0 .. F - 1, \A j \in 0 .. i - 1 : a[j] # NUL
               PROVE  a[i] = b[i]
    BY <1>6
  <2>1. i <= n
    BY <1>1, <1>3
  <2>2. CASE i < n
    <3>1. i + 1 \in 1 .. (IF n < F THEN n ELSE F) /\ i < m
      BY <1>1, <1>9, <2>2
    <3> QED BY <1>1, <1>2, <1>4, <1>9, <2>2, <3>1
  <2>3. CASE i = n
    <3>1. ~(i < m)
      BY <1>1, <1>9, <2>3
    <3> QED BY <1>1, <1>3, <1>4, <2>3, <3>1
  <2> QED BY <1>1, <2>1, <2>2, <2>3
<1> QED BY <1>7, <1>8, <1>9 DEF F, a, b

-----------------------------------------------------------------------------
(* Numbers as they are printed, of any int.  The loops of the code are     *)
(* recursive functions; that they exist, and what they give, is shown by   *)
(* the least number for which it might fail.                               *)

LEMMA NatLeast ==
  ASSUME NEW T \in SUBSET Nat, T # {}
  PROVE  \E n \in T : \A m \in T : n <= m
<1>1. PICK n \in T : \A m \in T : ~(<<m, n>> \in OpToRel(<, Nat))
  BY NatLessThanWellFounded, WFMin
<1>2. \A m \in T : ~(m < n)
  BY <1>1 DEF OpToRel
<1> QED BY <1>2

(* A set of numbers with 0 and every successor is all of them.             *)
LEMMA NatClosed ==
  ASSUME NEW T \in SUBSET Nat, 0 \in T, \A n \in T : n + 1 \in T
  PROVE  T = Nat
<1> SUFFICES ASSUME Nat \ T # {} PROVE FALSE
  OBVIOUS
<1>1. PICK n \in Nat \ T : \A m \in Nat \ T : n <= m
  BY NatLeast
<1>2. n - 1 \in Nat /\ n - 1 \notin T
  BY <1>1
<1> QED BY <1>1, <1>2

(* ... and so is one that has a number when it has all smaller ones.       *)
LEMMA NatFromSmaller ==
  ASSUME NEW T \in SUBSET Nat, \A n \in Nat : 0 .. n - 1 \subseteq T => n \in T
  PROVE  T = Nat
<1> SUFFICES ASSUME Nat \ T # {} PROVE FALSE
  OBVIOUS
<1>1. PICK n \in Nat \ T : \A m \in Nat \ T : n <= m
  BY NatLeast
<1>2. 0 .. n - 1 \subseteq T
  BY <1>1
<1> QED BY <1>1, <1>2

LEMMA Division ==
  ASSUME NEW n \in Nat, NEW d \in Nat \ {0}
  PROVE  /\ n \div d \in Nat
         /\ n % d \in 0 .. d - 1
         /\ n = d * (n \div d) + (n % d)
  OBVIOUS

\* What is left of a number after its last digit.
LEMMA LastDigit ==
  ASSUME NEW n \in Nat, NEW base \in Nat, base >= 2, n >= base
  PROVE  /\ n \div base \in 1 .. n - 1
         /\ n % base \in 0 .. base - 1
         /\ n = base * (n \div base) + (n % base)
<1> DEFINE q == n \div base
           r == n % base
<1>1. q \in Nat /\ r \in 0 .. base - 1 /\ n = base * q + r
  <2>1. base \in Nat \ {0}
    OBVIOUS
  <2> QED BY <2>1, Division
<1> HIDE DEF q, r
<1>2. q # 0
  BY <1>1
<1>3. base * q >= 2 * q
  <2>1. \A b, k \in Nat : b >= 2 => b * k >= 2 * k
    OBVIOUS
  <2> QED BY <1>1, <2>1
<1>4. q < n
  <2>1. PICK p : p = base * q
    OBVIOUS
  <2>2. n = p + r /\ p >= 2 * q
    BY <1>1, <1>3, <2>1
  <2>3. 2 * q >= q + 1
    BY <1>1, <1>2
  <2>4. p \in Int
    BY <1>1, <2>1
  <2> QED BY <1>1, <2>2, <2>3, <2>4
<1> QED BY <1>1, <1>2, <1>4 DEF q, r

(* The loops of itoa and convert, with R for the character of a digit: one *)
(* round, and the function of which the code computes a value.             *)
Round(f, n, base, R) == IF n < base THEN <<R[n]>> ELSE Append(f[n \div base], R[n % base])

IsDigits(f, m, base, R) == f = [n \in 0 .. m |-> Round(f, n, base, R)]

digitsOf(num, base, R) == (CHOOSE f : IsDigits(f, num, base, R))[num]

LEMMA DigitsExist ==
  ASSUME NEW base \in Nat, base >= 2, NEW R
  PROVE  \A m \in Nat : \E f : IsDigits(f, m, base, R)
<1> DEFINE T == {m \in Nat : \E f : IsDigits(f, m, base, R)}
<1>1. 0 \in T
  <2> DEFINE f == [n \in 0 .. 0 |-> <<R[n]>>]
  <2>1. \A n \in 0 .. 0 : Round(f, n, base, R) = <<R[n]>>
    BY DEF Round
  <2>2. IsDigits(f, 0, base, R)
    BY <2>1 DEF IsDigits
  <2> QED BY <2>2
<1>2. ASSUME NEW m \in T PROVE m + 1 \in T
  <2>1. PICK f : IsDigits(f, m, base, R)
    OBVIOUS
  <2>2. \A n \in 0 .. m : f[n] = Round(f, n, base, R)
    BY <2>1 DEF IsDigits
  <2>3. m \in Nat /\ m + 1 \in Nat
    OBVIOUS
  <2> DEFINE g == [n \in 0 .. m + 1 |-> IF n = m + 1 THEN Round(f, n, base, R) ELSE f[n]]
  <2>4. ASSUME NEW n \in 0 .. m + 1 PROVE g[n] = Round(g, n, base, R)
    <3>1. g[n] = Round(f, n, base, R)
      <4>1. CASE n = m + 1
        BY <4>1
      <4>2. CASE n # m + 1
        <5>1. n \in 0 .. m
          BY <2>3, <4>2
        <5> QED BY <2>2, <4>2, <5>1
      <4> QED BY <4>1, <4>2
    <3>2. ASSUME n >= base PROVE g[n \div base] = f[n \div base]
      <4>1. PICK q : q = n \div base
        OBVIOUS
      <4>2. q \in 1 .. n - 1
        <5>1. n \in Nat
          BY <2>3
        <5> QED BY <3>2, <4>1, <5>1, LastDigit
      <4>3. q \in 0 .. m + 1 /\ q # m + 1
        BY <2>3, <4>2
      <4>4. g[q] = f[q]
        BY <4>3
      <4> QED BY <4>1, <4>4
    <3>3. n \in Nat
      BY <2>3
    <3> HIDE DEF g
    <3>4. Round(g, n, base, R) = Round(f, n, base, R)
      <4>1. CASE n < base
        BY <4>1 DEF Round
      <4>2. CASE ~(n < base)
        <5>1. n >= base
          BY <3>3, <4>2
        <5> QED BY <3>2, <4>2, <5>1, Zenon DEF Round
      <4> QED BY <4>1, <4>2
    <3> QED BY <3>1, <3>4
  <2>5. IsDigits(g, m + 1, base, R)
    BY <2>4 DEF IsDigits
  <2> HIDE DEF g
  <2> QED BY <2>3, <2>5
<1>3. T = Nat
  <2>1. T \in SUBSET Nat
    OBVIOUS
  <2> HIDE DEF T
  <2> QED BY <1>1, <1>2, <2>1, NatClosed
<1> QED BY <1>3

LEMMA DigitsAgree ==
  ASSUME NEW base \in Nat, base >= 2, NEW R, NEW k \in Nat, NEW m \in Nat, k <= m,
         NEW f, IsDigits(f, m, base, R), NEW g, IsDigits(g, k, base, R)
  PROVE  g[k] = f[k]
<1> DEFINE T == {n \in Nat : n <= k => g[n] = f[n]}
<1>1. /\ \A n \in 0 .. m : f[n] = Round(f, n, base, R)
      /\ \A n \in 0 .. k : g[n] = Round(g, n, base, R)
  BY DEF IsDigits
<1>2. ASSUME NEW n \in Nat, 0 .. n - 1 \subseteq T PROVE n \in T
  <2> SUFFICES ASSUME n <= k PROVE g[n] = f[n]
    OBVIOUS
  <2>1. n \in 0 .. m /\ n \in 0 .. k
    OBVIOUS
  <2>2. f[n] = Round(f, n, base, R) /\ g[n] = Round(g, n, base, R)
    BY <1>1, <2>1
  <2>3. CASE n < base
    BY <2>2, <2>3 DEF Round
  <2>4. CASE ~(n < base)
    <3>1. PICK q : q = n \div base
      OBVIOUS
    <3>2. q \in 1 .. n - 1
      <4>1. n >= base
        BY <2>4
      <4> QED BY <3>1, <4>1, LastDigit
    <3>3. q \in T /\ q <= k
      BY <1>2, <3>2
    <3>4. g[q] = f[q]
      BY <3>3
    <3> HIDE DEF T
    <3> QED BY <2>2, <2>4, <3>1, <3>4, Zenon DEF Round
  <2> QED BY <2>3, <2>4
<1>3. T = Nat
  <2>1. T \in SUBSET Nat
    OBVIOUS
  <2> HIDE DEF T
  <2> QED BY <1>2, <2>1, NatFromSmaller
<1> QED BY <1>3

(* The equation that the digits satisfy.                                   *)
LEMMA DigitsStep ==
  ASSUME NEW base \in Nat, base >= 2, NEW R, NEW num \in Nat
  PROVE  digitsOf(num, base, R)
         = IF num < base THEN <<R[num]>>
           ELSE Append(digitsOf(num \div base, base, R), R[num % base])
<1>1. PICK f : f = (CHOOSE h : IsDigits(h, num, base, R)) /\ IsDigits(f, num, base, R)
  BY DigitsExist
<1>2. digitsOf(num, base, R) = f[num]
  BY <1>1 DEF digitsOf
<1>3. f[num] = Round(f, num, base, R)
  BY <1>1 DEF IsDigits
<1>4. CASE num < base
  BY <1>2, <1>3, <1>4 DEF Round
<1>5. CASE ~(num < base)
  <2>1. PICK q : q = num \div base
    OBVIOUS
  <2>2. q \in Nat /\ q <= num
    BY <1>5, <2>1, LastDigit
  <2>3. PICK g : g = (CHOOSE h : IsDigits(h, q, base, R)) /\ IsDigits(g, q, base, R)
    BY <2>2, DigitsExist
  <2>4. g[q] = f[q]
    BY <1>1, <2>2, <2>3, DigitsAgree
  <2>5. digitsOf(q, base, R) = f[q]
    BY <2>3, <2>4 DEF digitsOf
  <2> QED BY <1>2, <1>3, <1>5, <2>1, <2>5, Zenon DEF Round
<1> QED BY <1>4, <1>5

(* convert and itoa are such loops.                                        *)
Digits16 == [d \in 0 .. 15 |-> Representation(d)]

AsciiOf(a) == [d \in 0 .. 9 |-> IF a < 0 THEN zero - d ELSE zero + d]

LEMMA ConvertIs ==
  ASSUME NEW num \in Nat, NEW base \in 2 .. 16
  PROVE  convert(num, base) = digitsOf(num, base, Digits16)
<1> DEFINE F(f) == [n \in 0 .. num |-> IF n < base THEN <<Representation(n)>>
                      ELSE Append(f[n \div base], Representation(n % base))]
<1>1. \A f : F(f) = [n \in 0 .. num |-> Round(f, n, base, Digits16)]
  <2> SUFFICES ASSUME NEW f, NEW n \in 0 .. num
               PROVE  F(f)[n] = Round(f, n, base, Digits16)
    <3> HIDE DEF Round
    <3> QED OBVIOUS
  <2>1. CASE n < base
    <3>1. n \in 0 .. 15
      BY <2>1
    <3> QED BY <2>1, <3>1 DEF Round, Digits16
  <2>2. CASE ~(n < base)
    <3>1. PICK r : r = n % base
      OBVIOUS
    <3>2. r \in 0 .. 15
      <4>1. n \in Nat /\ base \in Nat \ {0}
        OBVIOUS
      <4>2. r \in 0 .. base - 1
        BY <3>1, <4>1, Division
      <4> QED BY <4>2
    <3>3. Digits16[r] = Representation(r)
      BY <3>2 DEF Digits16
    <3> QED BY <2>2, <3>1, <3>3 DEF Round
  <2> QED BY <2>1, <2>2
<1>2. convert(num, base) = (CHOOSE f : f = F(f))[num]
  BY DEF convert
<1>3. PICK g : g = (CHOOSE h : IsDigits(h, num, base, Digits16)) /\ IsDigits(g, num, base, Digits16)
  BY DigitsExist
<1>4. \A f : f = F(f) <=> IsDigits(f, num, base, Digits16)
  <2> HIDE DEF F
  <2> QED BY <1>1 DEF IsDigits
<1>5. PICK f : f = (CHOOSE h : h = F(h)) /\ f = F(f)
  <2> HIDE DEF F
  <2>1. \E h : h = F(h)
    BY <1>3, <1>4
  <2> QED BY <2>1
<1>6. IsDigits(f, num, base, Digits16)
  <2> HIDE DEF F
  <2> QED BY <1>4, <1>5
<1>7. g[num] = f[num]
  BY <1>3, <1>6, DigitsAgree
<1>8. convert(num, base) = f[num]
  <2> HIDE DEF F
  <2> QED BY <1>2, <1>5
<1> QED BY <1>3, <1>7, <1>8 DEF digitsOf

LEMMA ItoaIs ==
  ASSUME NEW a \in Int
  PROVE  itoa(a) = digitsOf(Magnitude(a), 10, AsciiOf(a))
<1> DEFINE num == Magnitude(a)
           c(d) == IF a < 0 THEN zero - d ELSE zero + d
           F(f) == [n \in 0 .. num |-> IF n < 10 THEN <<c(n)>>
                      ELSE Append(f[n \div 10], c(n % 10))]
<1>0. num \in Nat
  BY DEF Magnitude
<1>1. \A f : F(f) = [n \in 0 .. num |-> Round(f, n, 10, AsciiOf(a))]
  <2> SUFFICES ASSUME NEW f, NEW n \in 0 .. num
               PROVE  F(f)[n] = Round(f, n, 10, AsciiOf(a))
    <3> HIDE DEF Round, num
    <3> QED OBVIOUS
  <2>0. \A r \in 0 .. 9 : AsciiOf(a)[r] = c(r)
    BY DEF AsciiOf
  <2> HIDE DEF c, num
  <2>1. CASE n < 10
    <3>1. n \in 0 .. 9
      BY <1>0, <2>1
    <3> QED BY <2>0, <2>1, <3>1 DEF Round
  <2>2. CASE ~(n < 10)
    <3>1. PICK r : r = n % 10
      OBVIOUS
    <3>2. r \in 0 .. 9
      BY <1>0, <3>1
    <3>3. AsciiOf(a)[r] = c(r)
      BY <2>0, <3>2
    <3> QED BY <2>2, <3>1, <3>3 DEF Round
  <2> QED BY <2>1, <2>2
<1>2. itoa(a) = (CHOOSE f : f = F(f))[num]
  BY DEF itoa
<1> HIDE DEF num, F
<1>3. PICK g : g = (CHOOSE h : IsDigits(h, num, 10, AsciiOf(a))) /\ IsDigits(g, num, 10, AsciiOf(a))
  BY <1>0, DigitsExist
<1>4. \A f : f = F(f) <=> IsDigits(f, num, 10, AsciiOf(a))
  BY <1>1 DEF IsDigits
<1>5. PICK f : f = (CHOOSE h : h = F(h)) /\ f = F(f)
  <2>1. \E h : h = F(h)
    BY <1>3, <1>4
  <2> QED BY <2>1
<1>6. IsDigits(f, num, 10, AsciiOf(a))
  BY <1>4, <1>5
<1>7. g[num] = f[num]
  BY <1>0, <1>3, <1>6, DigitsAgree
<1>8. itoa(a) = f[num]
  BY <1>2, <1>5
<1> QED BY <1>3, <1>7, <1>8 DEF digitsOf, num

(* The digits are characters of R, at least one; more than one do not      *)
(* begin with that of 0.                                                   *)
LEMMA DigitsTyped ==
  ASSUME NEW base \in Nat, base >= 2, NEW C, NEW R,
         \A d \in 0 .. base - 1 : R[d] \in C
  PROVE  \A num \in Nat :
           LET s == digitsOf(num, base, R)
           IN  /\ s \in Seq(C)
               /\ Len(s) >= 1
               /\ num < base => s = <<R[num]>>
               /\ num >= base => \E d \in 1 .. base - 1 : s[1] = R[d]
<1> DEFINE s(n) == digitsOf(n, base, R)
           P(n) == /\ s(n) \in Seq(C)
                   /\ Len(s(n)) >= 1
                   /\ n < base => s(n) = <<R[n]>>
                   /\ n >= base => \E d \in 1 .. base - 1 : s(n)[1] = R[d]
           T == {n \in Nat : P(n)}
<1>1. ASSUME NEW n \in Nat, 0 .. n - 1 \subseteq T PROVE n \in T
  <2>1. CASE n < base
    <3>1. s(n) = <<R[n]>>
      BY <2>1, DigitsStep
    <3>2. R[n] \in C
      BY <2>1
    <3> HIDE DEF s
    <3>3. s(n) \in Seq(C) /\ Len(s(n)) >= 1
      BY <3>1, <3>2
    <3> QED BY SMTT(30), <2>1, <3>1, <3>3
  <2>2. CASE n >= base
    <3>1. ~(n < base)
      BY <2>2
    <3>2. PICK q : q = n \div base
      OBVIOUS
    <3>3. PICK r : r = n % base
      OBVIOUS
    <3>4. q \in 1 .. n - 1 /\ r \in 0 .. base - 1
      BY <2>2, <3>2, <3>3, LastDigit
    <3>5. s(n) = Append(s(q), R[r])
      BY <3>1, <3>2, <3>3, DigitsStep
    <3>6. P(q) /\ q \in Nat
      BY <1>1, <3>4
    <3>7. R[r] \in C
      BY <3>4
    <3> HIDE DEF s
    <3>8. s(n) \in Seq(C) /\ Len(s(n)) >= 1 /\ s(n)[1] = s(q)[1]
      BY <3>5, <3>6, <3>7
    <3>9. \E d \in 1 .. base - 1 : s(n)[1] = R[d]
      <4>1. CASE q < base
        <5>1. s(q)[1] = R[q] /\ q \in 1 .. base - 1
          BY <3>4, <3>6, <4>1
        <5> QED BY <3>8, <5>1
      <4>2. CASE q >= base
        BY <3>6, <3>8, <4>2
      <4> QED BY <3>4, <4>1, <4>2
    <3> QED BY <3>1, <3>8, <3>9
  <2> QED BY <2>1, <2>2
<1>2. T = Nat
  <2>1. T \in SUBSET Nat
    OBVIOUS
  <2> HIDE DEF T
  <2> QED BY <1>1, <2>1, NatFromSmaller
<1> QED BY <1>2

LEMMA OneDigitMore ==
  ASSUME NEW C, NEW R, \A d \in 0 .. 9 : R[d] \in C, NEW b \in Nat, NEW k \in Nat, k >= 1,
         \A n \in Nat : n < b => Len(digitsOf(n, 10, R)) <= k
  PROVE  \A n \in Nat : n < 10 * b => Len(digitsOf(n, 10, R)) <= k + 1
<1> SUFFICES ASSUME NEW n \in Nat, n < 10 * b PROVE Len(digitsOf(n, 10, R)) <= k + 1
  OBVIOUS
<1> DEFINE s(m) == digitsOf(m, 10, R)
<1>1. \A m \in Nat : s(m) \in Seq(C)
  <2>1. \A d \in 0 .. 10 - 1 : R[d] \in C
    OBVIOUS
  <2>2. 10 \in Nat /\ 10 >= 2
    OBVIOUS
  <2> QED BY <2>1, <2>2, DigitsTyped
<1>2. s(n) = IF n < 10 THEN <<R[n]>> ELSE Append(digitsOf(n \div 10, 10, R), R[n % 10])
  <2>1. 10 \in Nat /\ 10 >= 2
    OBVIOUS
  <2> QED BY <2>1, DigitsStep
<1>3. CASE n < 10
  <2>1. s(n) = <<R[n]>>
    BY <1>2, <1>3
  <2> HIDE DEF s
  <2>2. Len(s(n)) = 1
    BY <2>1
  <2>3. Len(s(n)) <= k + 1
    BY <2>2
  <2> QED BY <2>3 DEF s
<1>4. CASE ~(n < 10)
  <2>1. PICK q : q = n \div 10
    OBVIOUS
  <2>2. PICK r : r = n % 10
    OBVIOUS
  <2>3. s(n) = Append(s(q), R[r])
    BY <1>2, <1>4, <2>1, <2>2
  <2>4. q \in Nat /\ q < b
    BY <2>1
  <2>5. Len(s(q)) <= k
    BY <2>4
  <2>6. s(q) \in Seq(C)
    BY <1>1, <2>4
  <2> HIDE DEF s
  <2>7. Len(s(n)) = Len(s(q)) + 1
    BY <2>3, <2>6
  <2>8. Len(s(q)) \in Nat
    BY <2>6
  <2>9. Len(s(n)) <= k + 1
    BY <2>5, <2>7, <2>8
  <2> QED BY <2>9 DEF s
<1> QED BY <1>3, <1>4

LEMMA TenDigits ==
  ASSUME NEW C, NEW R, \A d \in 0 .. 9 : R[d] \in C
  PROVE  /\ \A n \in Nat : n < 100 => Len(digitsOf(n, 10, R)) <= 2
         /\ \A n \in Nat : n <= 2147483648 => Len(digitsOf(n, 10, R)) <= 10
<1> DEFINE Below(b, k) == \A n \in Nat : n < b => Len(digitsOf(n, 10, R)) <= k
<1>1. Below(10, 1)
  <2> SUFFICES ASSUME NEW n \in Nat, n < 10 PROVE Len(digitsOf(n, 10, R)) <= 1
    OBVIOUS
  <2>1. digitsOf(n, 10, R) = <<R[n]>>
    <3>1. 10 \in Nat /\ 10 >= 2
      OBVIOUS
    <3>2. digitsOf(n, 10, R) = IF n < 10 THEN <<R[n]>>
                               ELSE Append(digitsOf(n \div 10, 10, R), R[n % 10])
      BY <3>1, DigitsStep
    <3> QED BY <3>2
  <2> DEFINE s == digitsOf(n, 10, R)
  <2> HIDE DEF s
  <2>2. s = <<R[n]>>
    BY <2>1 DEF s
  <2>3. Len(s) <= 1
    BY <2>2
  <2> QED BY <2>3 DEF s
<1>2. ASSUME NEW b \in Nat, NEW k \in Nat, k >= 1, Below(b, k) PROVE Below(10 * b, k + 1)
  BY <1>2, OneDigitMore
<1> HIDE DEF Below
<1>3. \A b, k \in Nat : k >= 1 /\ Below(b, k) => Below(10 * b, k + 1)
  BY <1>2
<1>4. Below(100, 2)
  BY <1>1, <1>3
<1>5. Below(1000, 3)
  BY <1>4, <1>3
<1>6. Below(10000, 4)
  BY <1>5, <1>3
<1>7. Below(100000, 5)
  BY <1>6, <1>3
<1>8. Below(1000000, 6)
  BY <1>7, <1>3
<1>9. Below(10000000, 7)
  BY <1>8, <1>3
<1>10. Below(100000000, 8)
  BY <1>9, <1>3
<1>11. Below(1000000000, 9)
  BY <1>10, <1>3
<1>12. Below(10000000000, 10)
  BY <1>11, <1>3
<1>13. \A n \in Nat : n <= 2147483648 => n < 10000000000
  OBVIOUS
<1> QED BY <1>4, <1>12, <1>13 DEF Below

-----------------------------------------------------------------------------
(* The value of a sequence of digits, from left to right: the fold of the  *)
(* community modules takes the indices from the greatest one down.         *)

LEMMA MaxIsGreatest ==
  ASSUME NEW n \in Nat, NEW s \in SUBSET (1 .. n), s # {}
  PROVE  Max(s) \in s /\ \A y \in s : Max(s) >= y
<1> DEFINE T == {n - x : x \in s}
<1>1. T \in SUBSET Nat /\ T # {}
  <2>1. \A x \in s : n - x \in Nat
    OBVIOUS
  <2> QED BY <2>1
<1>2. PICK t \in T : \A u \in T : t <= u
  BY <1>1, NatLeast
<1>3. PICK x \in s : t = n - x
  OBVIOUS
<1>4. \A y \in s : x >= y
  <2> SUFFICES ASSUME NEW y \in s PROVE x >= y
    OBVIOUS
  <2>1. n - y \in T
    OBVIOUS
  <2>2. n - x <= n - y /\ x \in Int /\ y \in Int
    BY <1>2, <1>3, <2>1
  <2> QED BY <2>2
<1> QED BY <1>4 DEF Max

LEMMA MaxOfInterval ==
  ASSUME NEW n \in Nat, n >= 1
  PROVE  Max(1 .. n) = n /\ (1 .. n) \ {Max(1 .. n)} = 1 .. n - 1
<1>1. Max(1 .. n) \in 1 .. n /\ \A y \in 1 .. n : Max(1 .. n) >= y
  <2>1. 1 .. n \in SUBSET (1 .. n) /\ 1 .. n # {}
    OBVIOUS
  <2> QED BY <2>1, MaxIsGreatest
<1>2. Max(1 .. n) >= n
  BY <1>1
<1>3. Max(1 .. n) = n
  BY <1>1, <1>2
<1> QED BY <1>3

\* One step of the fold behind FoldLeft.
ValueStep(g, x, s, base) ==
  IF x = {} THEN 0 ELSE base * g[x \ {Max(x)}] + DigitOf(s[Max(x)])

IsValues(g, s, base) ==
  g = [x \in SUBSET (DOMAIN s) |-> ValueStep(g, x, s, base)]

LEMMA ValuesExist ==
  ASSUME NEW C, NEW s \in Seq(C), NEW base
  PROVE  \E g : IsValues(g, s, base)
<1> DEFINE D == SUBSET (DOMAIN s)
           Below(m) == {x \in D : \A y \in x : y <= m}
           T == {m \in Nat : \E g : /\ g = [x \in D |-> g[x]]
                                   /\ \A x \in Below(m) : g[x] = ValueStep(g, x, s, base)}
<1>0. Len(s) \in Nat /\ DOMAIN s = 1 .. Len(s)
  OBVIOUS
<1>1. 0 \in T
  <2> DEFINE g == [x \in D |-> 0]
  <2>1. ASSUME NEW x \in Below(0) PROVE x = {}
    BY <1>0
  <2>2. \A x \in Below(0) : g[x] = ValueStep(g, x, s, base)
    BY <2>1 DEF ValueStep
  <2>3. g = [x \in D |-> g[x]]
    OBVIOUS
  <2> HIDE DEF g, D
  <2> QED BY <2>2, <2>3
<1>2. ASSUME NEW m \in T PROVE m + 1 \in T
  <2>0. m \in Nat /\ m + 1 \in Nat
    OBVIOUS
  <2>1. PICK g : /\ g = [x \in D |-> g[x]]
                 /\ \A x \in Below(m) : g[x] = ValueStep(g, x, s, base)
    OBVIOUS
  <2> HIDE DEF T
  <2> DEFINE h == [x \in D |-> ValueStep(g, x, s, base)]
  <2>2. ASSUME NEW x \in Below(m + 1) PROVE h[x] = ValueStep(h, x, s, base)
    <3>1. x \in D /\ h[x] = ValueStep(g, x, s, base)
      OBVIOUS
    <3>2. CASE x = {}
      BY <3>1, <3>2 DEF ValueStep
    <3>3. CASE x # {}
      <4>1. PICK k : k = Max(x)
        OBVIOUS
      <4>2. k \in x /\ \A y \in x : k >= y
        BY <1>0, <3>1, <3>3, <4>1, MaxIsGreatest
      <4> DEFINE r == x \ {k}
      <4>3. r \in Below(m)
        <5>1. \A y \in x : y <= m + 1 /\ y \in Int
          BY <1>0
        <5>2. \A y \in r : y <= m
          BY <2>0, <4>2, <5>1
        <5> QED BY <3>1, <5>2
      <4>4. r \in D /\ g[r] = ValueStep(g, r, s, base)
        BY <2>1, <4>3
      <4>5. h[r] = g[r]
        BY <4>4
      <4> HIDE DEF h
      <4>6. ValueStep(h, x, s, base) = base * h[r] + DigitOf(s[k])
        BY <3>3, <4>1, Zenon DEF ValueStep
      <4>7. ValueStep(g, x, s, base) = base * g[r] + DigitOf(s[k])
        BY <3>3, <4>1, Zenon DEF ValueStep
      <4> QED BY <3>1, <4>5, <4>6, <4>7
    <3> QED BY <3>2, <3>3
  <2>3. h = [x \in D |-> h[x]]
    OBVIOUS
  <2> HIDE DEF h, D
  <2> QED BY <2>0, <2>2, <2>3 DEF T
<1>3. T = Nat
  <2>1. T \in SUBSET Nat
    OBVIOUS
  <2> HIDE DEF T
  <2> QED BY <1>1, <1>2, <2>1, NatClosed
<1>4. PICK g : /\ g = [x \in D |-> g[x]]
               /\ \A x \in Below(Len(s)) : g[x] = ValueStep(g, x, s, base)
  BY <1>0, <1>3
<1>5. Below(Len(s)) = D
  BY <1>0
<1>6. \A x \in D : g[x] = ValueStep(g, x, s, base)
  BY <1>4, <1>5
<1>7. [x \in D |-> g[x]] = [x \in D |-> ValueStep(g, x, s, base)]
  BY <1>6
<1>8. g = [x \in D |-> ValueStep(g, x, s, base)]
  <2> HIDE DEF D
  <2> QED BY <1>4, <1>7
<1> QED BY <1>8 DEF IsValues

(* The values of the prefixes of s.                                        *)
ArePrefixValues(v, s, base) ==
  /\ v[0] = 0
  /\ \A k \in 1 .. Len(s) : v[k] = base * v[k - 1] + DigitOf(s[k])

LEMMA ValueIs ==
  ASSUME NEW C, NEW s \in Seq(C), NEW base
  PROVE  \E v : ArePrefixValues(v, s, base) /\ ValueOf(s, base) = v[Len(s)]
<1> DEFINE D == DOMAIN s
           F(g) == [x \in SUBSET D |->
                      IF x = {} THEN 0 ELSE base * g[x \ {Max(x)}] + DigitOf(s[Max(x)])]
<1>0. Len(s) \in Nat /\ D = 1 .. Len(s)
  OBVIOUS
<1>1. ValueOf(s, base) = (CHOOSE g : g = F(g))[D]
  BY DEF ValueOf, FoldLeft, MapThenFoldSet
<1>2. \E g : g = F(g)
  <2>1. PICK g : IsValues(g, s, base)
    BY ValuesExist
  <2>2. g = F(g)
    BY <2>1 DEF IsValues, ValueStep
  <2> HIDE DEF F
  <2> QED BY <2>2
<1> HIDE DEF F
<1>3. PICK g : g = (CHOOSE h : h = F(h)) /\ g = F(g)
  BY <1>2
<1>4. \A x \in SUBSET D :
        g[x] = IF x = {} THEN 0 ELSE base * g[x \ {Max(x)}] + DigitOf(s[Max(x)])
  BY <1>3 DEF F
<1> DEFINE v == [k \in 0 .. Len(s) |-> g[1 .. k]]
<1>5. v[0] = 0
  <2>1. 1 .. 0 = {} /\ {} \in SUBSET D
    OBVIOUS
  <2>2. g[{}] = 0
    BY <1>4, <2>1
  <2>3. v[0] = g[1 .. 0]
    BY <1>0
  <2> QED BY <2>1, <2>2, <2>3
<1>6. ASSUME NEW k \in 1 .. Len(s) PROVE v[k] = base * v[k - 1] + DigitOf(s[k])
  <2>1. k \in Nat /\ k >= 1 /\ k \in 0 .. Len(s) /\ k - 1 \in 0 .. Len(s)
    BY <1>0
  <2>2. 1 .. k \in SUBSET D /\ 1 .. k # {}
    <3>1. 1 .. k \subseteq 1 .. Len(s) /\ k \in 1 .. k
      BY <1>0, <2>1
    <3> QED BY <1>0, <3>1
  <2>3. Max(1 .. k) = k /\ (1 .. k) \ {Max(1 .. k)} = 1 .. k - 1
    BY <2>1, MaxOfInterval
  <2>4. g[1 .. k] = base * g[1 .. k - 1] + DigitOf(s[k])
    <3>1. g[1 .. k] = base * g[(1 .. k) \ {Max(1 .. k)}] + DigitOf(s[Max(1 .. k)])
      BY <1>4, <2>2, Zenon
    <3> QED BY <2>3, <3>1, Zenon
  <2>5. v[k] = g[1 .. k] /\ v[k - 1] = g[1 .. k - 1]
    BY <2>1
  <2> QED BY <2>4, <2>5, Zenon
<1>7. ValueOf(s, base) = v[Len(s)]
  <2>1. v[Len(s)] = g[1 .. Len(s)]
    BY <1>0
  <2> QED BY <1>0, <1>1, <1>3, <2>1, Zenon
<1>8. ArePrefixValues(v, s, base)
  <2> HIDE DEF v
  <2> QED BY <1>5, <1>6 DEF ArePrefixValues
<1> QED BY <1>7, <1>8

LEMMA ValueOfOne ==
  ASSUME NEW c, NEW base \in Nat, DigitOf(c) \in Nat
  PROVE  ValueOf(<<c>>, base) = DigitOf(c)
<1> DEFINE s == <<c>>
<1>0. s \in Seq({c}) /\ Len(s) = 1 /\ s[1] = c
  OBVIOUS
<1> HIDE DEF s
<1>1. PICK v : ArePrefixValues(v, s, base) /\ ValueOf(s, base) = v[Len(s)]
  BY <1>0, ValueIs
<1>2. v[1] = base * v[1 - 1] + DigitOf(s[1]) /\ v[0] = 0 /\ 1 - 1 = 0
  BY <1>0, <1>1 DEF ArePrefixValues
<1>3. base * 0 = 0
  OBVIOUS
<1>4. v[1] = 0 + DigitOf(c)
  BY <1>0, <1>2, <1>3
<1> QED BY <1>0, <1>1, <1>4 DEF s

LEMMA ValueOfMore ==
  ASSUME NEW C, NEW s \in Seq(C), NEW c \in C, NEW base
  PROVE  ValueOf(Append(s, c), base) = base * ValueOf(s, base) + DigitOf(c)
<1> DEFINE n == Len(s)
           t == Append(s, c)
<1>0. /\ n \in Nat /\ n + 1 \in 1 .. n + 1 /\ (n + 1) - 1 = n
      /\ t \in Seq(C) /\ Len(t) = n + 1 /\ t[n + 1] = c
      /\ \A k \in 1 .. n : t[k] = s[k] /\ k \in 1 .. n + 1
  OBVIOUS
<1> HIDE DEF t
<1>1. PICK v : ArePrefixValues(v, s, base) /\ ValueOf(s, base) = v[n]
  BY ValueIs
<1>2. PICK w : ArePrefixValues(w, t, base) /\ ValueOf(t, base) = w[Len(t)]
  BY <1>0, ValueIs
<1> DEFINE T == {k \in Nat : k <= n => w[k] = v[k]}
<1>3. 0 \in T
  BY <1>1, <1>2 DEF ArePrefixValues
<1>4. ASSUME NEW k \in T PROVE k + 1 \in T
  <2>1. k \in Nat /\ k + 1 \in Nat /\ (k + 1) - 1 = k
    OBVIOUS
  <2>2. ASSUME k + 1 <= n PROVE w[k + 1] = v[k + 1]
    <3>1. w[k] = v[k]
      BY <1>0, <2>1, <2>2
    <3>2. k + 1 \in 1 .. n
      BY <1>0, <2>1, <2>2
    <3>3. k + 1 \in 1 .. Len(t) /\ t[k + 1] = s[k + 1]
      BY <1>0, <3>2
    <3>4. w[k + 1] = base * w[(k + 1) - 1] + DigitOf(t[k + 1])
      BY <1>2, <3>3, Zenon DEF ArePrefixValues
    <3>5. v[k + 1] = base * v[(k + 1) - 1] + DigitOf(s[k + 1])
      BY <1>1, <3>2, Zenon DEF ArePrefixValues
    <3> HIDE DEF T
    <3> QED BY <2>1, <3>1, <3>3, <3>4, <3>5, Zenon
  <2> QED BY <2>1, <2>2
<1>5. T = Nat
  <2>1. T \in SUBSET Nat
    OBVIOUS
  <2> HIDE DEF T
  <2> QED BY <1>3, <1>4, <2>1, NatClosed
<1>6. w[n] = v[n]
  BY <1>0, <1>5
<1>7. w[n + 1] = base * w[(n + 1) - 1] + DigitOf(t[n + 1])
  BY <1>0, <1>2, Zenon DEF ArePrefixValues
<1>8. w[n + 1] = base * v[n] + DigitOf(c)
  BY <1>0, <1>6, <1>7, Zenon
<1> HIDE DEF n
<1> QED BY <1>0, <1>1, <1>2, <1>8, Zenon DEF t

LEMMA DigitOfRepresentation ==
  ASSUME NEW d \in 0 .. 15
  PROVE  DigitOf(Representation(d)) = d
<1>1. \A e \in 0 .. 15 : Representation(e) = Representation(d) => e = d
  BY DEF Representation, zero
<1> HIDE DEF Representation
<1> QED BY <1>1 DEF DigitOf

(* convert gives the digits of its argument: their value is that number,   *)
(* and only 0 begins with a 0.                                             *)
LEMMA ConvertExact ==
  ASSUME NEW base \in 2 .. 16
  PROVE  \A num \in Nat :
           LET s == convert(num, base)
           IN  /\ s \in Seq(Int)
               /\ Len(s) >= 1
               /\ ValueOf(s, base) = num
               /\ s[1] = zero => Len(s) = 1
<1> DEFINE R == [d \in 0 .. base - 1 |-> Representation(d)]
           s(n) == digitsOf(n, base, Digits16)
           T == {n \in Nat : ValueOf(s(n), base) = n}
<1>0. base \in Nat /\ base >= 2
  OBVIOUS
<1>1. \A d \in 0 .. base - 1 : /\ Digits16[d] = Representation(d)
                               /\ Digits16[d] \in Int
                               /\ d \in Nat
                               /\ DigitOf(Digits16[d]) = d
                               /\ d >= 1 => Digits16[d] # zero
  <2> SUFFICES ASSUME NEW d \in 0 .. base - 1
               PROVE  /\ Digits16[d] = Representation(d)
                      /\ Digits16[d] \in Int
                      /\ d \in Nat
                      /\ DigitOf(Digits16[d]) = d
                      /\ d >= 1 => Digits16[d] # zero
    OBVIOUS
  <2>1. d \in 0 .. 15 /\ d \in Nat
    OBVIOUS
  <2>2. Digits16[d] = Representation(d)
    BY <2>1 DEF Digits16
  <2>3. Representation(d) \in Int /\ (d >= 1 => Representation(d) # zero)
    BY <2>1 DEF Representation, zero
  <2>4. DigitOf(Representation(d)) = d
    BY <2>1, DigitOfRepresentation
  <2> QED BY <2>1, <2>2, <2>3, <2>4
<1>2. \A n \in Nat :
        /\ s(n) \in Seq(Int)
        /\ Len(s(n)) >= 1
        /\ n < base => s(n) = <<Digits16[n]>>
        /\ n >= base => \E d \in 1 .. base - 1 : s(n)[1] = Digits16[d]
  <2>1. \A d \in 0 .. base - 1 : Digits16[d] \in Int
    BY <1>1
  <2>2. PICK C : C = Int
    OBVIOUS
  <2>3. \A d \in 0 .. base - 1 : Digits16[d] \in C
    BY <2>1, <2>2
  <2>4. \A n \in Nat :
          /\ s(n) \in Seq(C)
          /\ Len(s(n)) >= 1
          /\ n < base => s(n) = <<Digits16[n]>>
          /\ n >= base => \E d \in 1 .. base - 1 : s(n)[1] = Digits16[d]
    BY <1>0, <2>3, DigitsTyped
  <2> HIDE DEF s
  <2> QED BY <2>2, <2>4
<1>3. ASSUME NEW n \in Nat, 0 .. n - 1 \subseteq T PROVE n \in T
  <2>0. s(n) = IF n < base THEN <<Digits16[n]>>
               ELSE Append(s(n \div base), Digits16[n % base])
    BY <1>0, DigitsStep
  <2>1. CASE n < base
    <3>1. n \in 0 .. base - 1
      BY <2>1
    <3>2. DigitOf(Digits16[n]) = n
      BY <1>1, <3>1
    <3>3. ValueOf(<<Digits16[n]>>, base) = n
      BY <1>0, <3>2, ValueOfOne
    <3> QED BY <2>0, <2>1, <3>3
  <2>2. CASE ~(n < base)
    <3>1. PICK q : q = n \div base
      OBVIOUS
    <3>2. PICK r : r = n % base
      OBVIOUS
    <3>3. q \in 1 .. n - 1 /\ r \in 0 .. base - 1 /\ n = base * q + r
      <4>1. n >= base
        BY <1>0, <2>2
      <4> QED BY <1>0, <3>1, <3>2, <4>1, LastDigit
    <3>4. s(n) = Append(s(q), Digits16[r])
      BY <2>0, <2>2, <3>1, <3>2
    <3>5. q \in Nat /\ ValueOf(s(q), base) = q
      BY <1>3, <3>3
    <3>6. s(q) \in Seq(Int)
      BY <1>2, <3>5
    <3>7. Digits16[r] \in Int /\ DigitOf(Digits16[r]) = r
      BY <1>1, <3>3
    <3> HIDE DEF s
    <3>8. ValueOf(s(n), base) = base * q + r
      BY <3>4, <3>5, <3>6, <3>7, ValueOfMore
    <3>9. ValueOf(s(n), base) = n
      BY <3>3, <3>8
    <3> QED BY <3>9
  <2> QED BY <2>1, <2>2
<1>4. T = Nat
  <2>1. T \in SUBSET Nat
    OBVIOUS
  <2> HIDE DEF T
  <2> QED BY <1>3, <2>1, NatFromSmaller
<1>5. \A n \in Nat : s(n)[1] = zero => Len(s(n)) = 1
  <2> SUFFICES ASSUME NEW n \in Nat, s(n)[1] = zero PROVE Len(s(n)) = 1
    OBVIOUS
  <2>1. n < base
    <3>1. ASSUME n >= base PROVE FALSE
      <4>1. PICK d \in 1 .. base - 1 : s(n)[1] = Digits16[d]
        BY <1>2, <3>1
      <4>2. d \in 0 .. base - 1 /\ d >= 1
        BY <1>0
      <4>3. Digits16[d] # zero
        BY <1>1, <4>2
      <4> HIDE DEF s
      <4> QED BY <4>1, <4>3
    <3> QED BY <1>0, <3>1
  <2>2. s(n) = <<Digits16[n]>>
    BY <1>2, <2>1
  <2> HIDE DEF s
  <2> QED BY <2>2
<1>6. ASSUME NEW num \in Nat PROVE convert(num, base) = s(num)
  BY ConvertIs
<1>7. \A num \in Nat : ValueOf(s(num), base) = num
  BY <1>4
<1> HIDE DEF s
<1> QED BY <1>2, <1>5, <1>6, <1>7

LEMMA DigitsOnly ==
  ASSUME NEW base \in Nat, base >= 2, NEW P, NEW R,
         \A d \in 0 .. base - 1 : P[d] = R[d]
  PROVE  \A num \in Nat : digitsOf(num, base, P) = digitsOf(num, base, R)
<1> DEFINE p(n) == digitsOf(n, base, P)
           r(n) == digitsOf(n, base, R)
           T == {n \in Nat : p(n) = r(n)}
<1>1. ASSUME NEW n \in Nat, 0 .. n - 1 \subseteq T PROVE n \in T
  <2>0. /\ p(n) = IF n < base THEN <<P[n]>> ELSE Append(p(n \div base), P[n % base])
        /\ r(n) = IF n < base THEN <<R[n]>> ELSE Append(r(n \div base), R[n % base])
    BY DigitsStep
  <2>1. CASE n < base
    <3>1. P[n] = R[n]
      BY <2>1
    <3> HIDE DEF p, r
    <3> QED BY <2>0, <2>1, <3>1
  <2>2. CASE ~(n < base)
    <3>1. PICK q : q = n \div base
      OBVIOUS
    <3>2. PICK d : d = n % base
      OBVIOUS
    <3>3. q \in 1 .. n - 1 /\ d \in 0 .. base - 1
      <4>1. n >= base
        BY <2>2
      <4> QED BY <3>1, <3>2, <4>1, LastDigit
    <3>4. P[d] = R[d] /\ p(q) = r(q)
      BY <1>1, <3>3
    <3> HIDE DEF p, r
    <3> QED BY <2>0, <2>2, <3>1, <3>2, <3>4
  <2> QED BY <2>1, <2>2
<1>2. T = Nat
  <2>1. T \in SUBSET Nat
    OBVIOUS
  <2> HIDE DEF T
  <2> QED BY <1>1, <2>1, NatFromSmaller
<1> QED BY <1>2

(* The conversions between int and unsigned, and that of a negated int.    *)
LEMMA Conversions ==
  ASSUME NEW n \in ints
  PROVE  /\ n \in Int /\ Magnitude(n) \in Nat /\ Magnitude(n) <= 2147483648
         /\ unsigned(n) \in Nat
         /\ n < 0 => unsigned(signed(unsigned(-n))) = -n
<1> DEFINE H == 2^(INT_BITS - 1)
           W == 2^INT_BITS
<1>1. H \in Nat /\ H >= 128 /\ H - 1 <= 2147483647 /\ W = 2 * H
  BY PowersAssumption, SMT
<1>2. n \in -H .. H - 1
  BY SMT DEF ints
<1>3. \A m : /\ unsigned(m) = m % W
             /\ signed(m) = IF m < H THEN m ELSE m - W
  BY SMT DEF unsigned, signed
<1> HIDE DEF H, W
<1>5. H \in Nat /\ H >= 128 /\ H <= 2147483648 /\ W \in Nat \ {0}
  BY <1>1, SMT
<1>6. n \in Int /\ Magnitude(n) \in Nat /\ Magnitude(n) <= 2147483648
  BY <1>2, <1>5, SMT DEF Magnitude
<1>7. unsigned(n) \in Nat
  BY <1>3, <1>5, <1>6, SMT
<1>8. ASSUME n < 0 PROVE unsigned(signed(unsigned(-n))) = -n
  <2>1. PICK m : m = -n
    OBVIOUS
  <2>2. m \in Nat /\ m <= H /\ m >= 1
    BY <1>2, <1>5, <1>8, <2>1, SMT
  <2>3. m % W = m
    BY <1>1, <1>5, <2>2, SMT
  <2>4. CASE m < H
    BY <1>3, <2>1, <2>3, <2>4, SMT
  <2>5. CASE m = H
    <3>1. signed(m) = -H
      BY <1>1, <1>3, <1>5, <2>5, SMT
    <3>2. (-H) % W = H
      BY <1>1, <1>5, SMT
    <3> QED BY <1>3, <2>1, <2>3, <2>5, <3>1, <3>2, SMT
  <2> QED BY <1>5, <2>2, <2>4, <2>5, SMT
<1> QED BY <1>6, <1>7, <1>8, SMT

LEMMA ZeroAndMore == \A k \in 0 .. 26 : k \in ints
<1> DEFINE H == 2^(INT_BITS - 1)
<1>1. H \in Nat /\ H >= 128
  BY PowersAssumption, SMT
<1>2. ints = -H .. H - 1
  BY DEF ints
<1> HIDE DEF H
<1> QED BY <1>1, <1>2

LEMMA TailOfRest ==
  ASSUME NEW C, NEW m \in Seq(C), NEW s \in Seq(C), Len(m) = 1
  PROVE  Tail(m \o s) = s
<1> DEFINE d == m \o s
<1>1. /\ d \in Seq(C) /\ Len(d) = Len(m) + Len(s)
      /\ \A i \in 1 .. Len(m) + Len(s) :
           d[i] = IF i <= Len(m) THEN m[i] ELSE s[i - Len(m)]
  BY ConcatProperties
<1> HIDE DEF d
<1>2. Len(s) \in Nat /\ Len(d) = Len(s) + 1 /\ d # << >>
  BY <1>1
<1>3. ASSUME NEW i \in 1 .. Len(s) PROVE d[i + 1] = s[i]
  <2>1. i + 1 \in 1 .. Len(m) + Len(s) /\ ~(i + 1 <= Len(m)) /\ (i + 1) - Len(m) = i
    BY <1>2
  <2> QED BY <1>1, <2>1
<1>4. /\ Tail(d) \in Seq(C) /\ Len(Tail(d)) = Len(d) - 1
      /\ \A i \in 1 .. Len(Tail(d)) : Tail(d)[i] = d[i + 1]
  BY <1>1, <1>2, HeadTailProperties
<1>5. Len(Tail(d)) = Len(s)
  BY <1>2, <1>4
<1>6. \A i \in 1 .. Len(Tail(d)) : Tail(d)[i] = s[i]
  BY <1>3, <1>4, <1>5
<1>7. Tail(d) = s
  BY <1>4, <1>5, <1>6, SeqEqual
<1> QED BY <1>7 DEF d

(* printk("%d") and printk("%x"), for every int (kernel/printk.c:22).      *)
THEOREM EveryIntPrinted == \A n \in ints : PrintsExactly(n)
<1> SUFFICES ASSUME NEW n \in ints PROVE PrintsExactly(n)
  OBVIOUS
<1> DEFINE d == decimal(n)
           x == convert(unsigned(n), 16)
<1>1. /\ n \in Int /\ unsigned(n) \in Nat
      /\ n < 0 => unsigned(signed(unsigned(-n))) = -n
  BY Conversions
<1>2. ASSUME NEW base \in 2 .. 16, NEW num \in Nat
      PROVE  /\ convert(num, base) \in Seq(Int)
             /\ Len(convert(num, base)) >= 1
             /\ ValueOf(convert(num, base), base) = num
             /\ convert(num, base)[1] = zero => Len(convert(num, base)) = 1
  BY ConvertExact
<1>3. 10 \in 2 .. 16 /\ 16 \in 2 .. 16
  OBVIOUS
<1>4. ValueOf(x, 16) = unsigned(n) /\ (x[1] = zero => Len(x) = 1)
  BY <1>1, <1>2, <1>3
<1>5. CASE n < 0
  <2>1. d = <<minus>> \o convert(-n, 10)
    BY <1>1, <1>5 DEF decimal
  <2>2. PICK s : s = convert(-n, 10)
    OBVIOUS
  <2>3. s \in Seq(Int) /\ ValueOf(s, 10) = -n
    <3>1. -n \in Nat
      BY <1>1, <1>5
    <3> QED BY <1>2, <1>3, <2>2, <3>1
  <2>4. d = <<minus>> \o s
    BY <2>1, <2>2
  <2> HIDE DEF d
  <2>5. d[1] = minus
    BY <2>3, <2>4
  <2>6. Tail(d) = s
    <3>1. PICK C : C = Int
      OBVIOUS
    <3>2. PICK m : m = <<minus>>
      OBVIOUS
    <3>3. minus \in C /\ s \in Seq(C) /\ d = m \o s
      BY <2>3, <2>4, <3>1, <3>2 DEF minus
    <3>4. m \in Seq(C) /\ Len(m) = 1
      BY <3>2, <3>3
    <3> QED BY <3>3, <3>4, TailOfRest
  <2> QED BY <1>4, <1>5, <2>3, <2>5, <2>6 DEF PrintsExactly, d
<1>6. CASE ~(n < 0)
  <2>1. d = convert(n, 10)
    BY <1>6 DEF decimal
  <2>2. n \in Nat
    BY <1>1, <1>6
  <2>3. ValueOf(d, 10) = n
    BY <1>2, <1>3, <2>1, <2>2
  <2> QED BY <1>4, <1>6, <2>3 DEF PrintsExactly
<1> QED BY <1>5, <1>6

(* What itoa gives: at most ten characters of the font.                    *)
Font == 1 .. 127

LEMMA ItoaFits ==
  ASSUME NEW n \in ints
  PROVE  /\ itoa(n) \in Seq(Font)
         /\ Len(itoa(n)) \in Nat /\ Len(itoa(n)) >= 1 /\ Len(itoa(n)) <= 10
         /\ n \in 0 .. 26 => Len(itoa(n)) <= 2
<1> DEFINE m == Magnitude(n)
           R == AsciiOf(n)
           s(k) == digitsOf(k, 10, R)
<1>1. n \in Int /\ m \in Nat /\ m <= 2147483648
  BY Conversions, SMT
<1>2. m \in Nat /\ n \in Int
  BY Conversions, SMT
<1>3. itoa(n) = s(m)
  BY <1>2, ItoaIs
<1>4. \A d \in 0 .. 9 : R[d] \in Font
  BY DEF AsciiOf, zero, Font
<1>5. n \in 0 .. 26 => m < 100
  BY DEF Magnitude
<1> HIDE DEF m, R
<1>6. s(m) \in Seq(Font) /\ Len(s(m)) >= 1
  <2>1. \A d \in 0 .. 10 - 1 : R[d] \in Font
    BY <1>4
  <2>2. 10 \in Nat /\ 10 >= 2 /\ m \in Nat
    BY <1>2
  <2> QED BY <2>1, <2>2, DigitsTyped
<1>7. Len(s(m)) <= 10 /\ (m < 100 => Len(s(m)) <= 2)
  BY <1>1, <1>4, TenDigits, SMTT(30)
<1> HIDE DEF s
<1>8. Len(s(m)) \in Nat
  BY <1>6
<1> QED BY <1>3, <1>5, <1>6, <1>7, <1>8, Zenon

(* itoa (lib/string.c:8) agrees with printk from 0 on, never leaves the    *)
(* font, and its copy on the stack is as long.                             *)
THEOREM EveryIntDrawn == \A n \in ints : DrawsLikePrintk(n)
<1> SUFFICES ASSUME NEW n \in ints PROVE DrawsLikePrintk(n)
  OBVIOUS
<1> DEFINE s == itoa(n)
           stack == [i \in 0 .. 29 |-> 1]
<1>1. s \in Seq(Font) /\ Len(s) \in Nat /\ Len(s) >= 1 /\ Len(s) <= 10
  BY ItoaFits
<1>2. n \in Int
  BY Conversions
<1>3. ASSUME n >= 0 PROVE s = decimal(n)
  <2>1. n \in Nat /\ Magnitude(n) = n /\ ~(n < 0)
    BY <1>2, <1>3 DEF Magnitude
  <2>2. s = digitsOf(n, 10, AsciiOf(n))
    BY <1>2, <2>1, ItoaIs
  <2>3. decimal(n) = convert(n, 10)
    BY <2>1 DEF decimal
  <2>4. convert(n, 10) = digitsOf(n, 10, Digits16)
    <3>1. 10 \in 2 .. 16
      OBVIOUS
    <3> QED BY <2>1, <3>1, ConvertIs
  <2>5. \A d \in 0 .. 10 - 1 : AsciiOf(n)[d] = Digits16[d]
    BY <2>1 DEF AsciiOf, Digits16, Representation
  <2>6. digitsOf(n, 10, AsciiOf(n)) = digitsOf(n, 10, Digits16)
    <3>1. 10 \in Nat /\ 10 >= 2
      OBVIOUS
    <3> QED BY <2>1, <2>5, <3>1, DigitsOnly
  <2> QED BY <2>2, <2>3, <2>4, <2>6
<1>4. \A c \in ToSet(s) : c \in Font
  <2> HIDE DEF s
  <2>1. \A i \in DOMAIN s : s[i] \in Font
    BY <1>1
  <2> QED BY <2>1 DEF ToSet
<1>5. strlen(strcpy(stack, s)) = Len(s)
  <2> DEFINE a == strcpy(stack, s)
             n0 == Len(s)
  <2> HIDE DEF s
  <2>1. n0 \in Nat /\ n0 >= 1 /\ n0 <= 10
    BY <1>1
  <2>2. DOMAIN a = 0 .. 29
    BY DEF strcpy
  <2>3. \A i \in 0 .. n0 - 1 : s[i + 1] \in Nat /\ s[i + 1] # NUL
    <3>1. \A i \in 1 .. n0 : s[i] \in Font
      BY <1>1
    <3>2. \A c \in Font : c \in Nat /\ c # NUL
      BY DEF Font, NUL
    <3>3. \A i \in 0 .. n0 - 1 : i + 1 \in 1 .. n0
      BY <2>1
    <3> HIDE DEF n0
    <3> QED BY <3>1, <3>2, <3>3
  <2>4. ASSUME NEW i \in 0 .. 29, i <= n0 PROVE a[i] = IF i < n0 THEN s[i + 1] ELSE NUL
    <3>1. a[i] = IF i <= Len(s) THEN Bytes(s)[i] ELSE stack[i]
      BY DEF strcpy
    <3>2. Bytes(s)[i] = IF i < Len(s) THEN s[i + 1] ELSE NUL
      BY <2>1, <2>4 DEF Bytes
    <3> HIDE DEF a
    <3> QED BY <2>4, <3>1, <3>2
  <2>5. a[n0] = NUL /\ \A i \in 0 .. n0 - 1 : a[i] # NUL
    <3> HIDE DEF a, n0
    <3>1. n0 \in 0 .. 29 /\ \A i \in 0 .. n0 - 1 : i \in 0 .. 29 /\ i < n0 /\ i <= n0
      BY <2>1
    <3>2. a[n0] = IF n0 < n0 THEN s[n0 + 1] ELSE NUL
      BY <2>1, <2>4, <3>1
    <3>3. a[n0] = NUL
      BY <2>1, <3>2
    <3>4. \A i \in 0 .. n0 - 1 : a[i] = s[i + 1]
      BY <2>4, <3>1
    <3> QED BY <2>3, <3>3, <3>4
  <2> HIDE DEF a, n0
  <2>6. n0 \in DOMAIN a
    BY <2>1, <2>2
  <2>7. \A k \in DOMAIN a : a[k] = NUL /\ (\A j \in 0 .. k - 1 : a[j] # NUL) => k = n0
    <3> SUFFICES ASSUME NEW k \in 0 .. 29, a[k] = NUL, \A j \in 0 .. k - 1 : a[j] # NUL
                 PROVE  k = n0
      BY <2>2
    <3>1. ~(k < n0)
      BY <2>1, <2>5
    <3>2. ~(k > n0)
      BY <2>1, <2>5
    <3> QED BY <2>1, <3>1, <3>2
  <2>8. strlen(a) = n0
    BY <2>5, <2>6, <2>7 DEF strlen
  <2> QED BY <2>8 DEF a, n0
<1> HIDE DEF s
<1>6. IF n >= 0 THEN s = decimal(n) ELSE \A c \in ToSet(s) : c \in Font
  BY <1>3, <1>4
<1> QED BY <1>5, <1>6 DEF DrawsLikePrintk, s, Font

-----------------------------------------------------------------------------
(* What the game draws.                                                    *)

(* A string that ends in its line is drawn in boxes side by side.          *)
InLine(t) == /\ t.len \in Nat /\ t.x \in Nat /\ t.y \in Nat
             /\ t.y + 8 * t.len <= SCR_WIDTH

LEMMA BoxesInLine ==
  ASSUME NEW t, InLine(t)
  PROVE  draw_string(t) = [k \in 1 .. t.len |-> <<t.x, t.y + 8 * (k - 1)>>]
<1> DEFINE S == 1 .. t.len
           F(f) == [k \in S |-> IF k = 1 THEN <<t.x, t.y>> ELSE NextBox(f[k - 1])]
           c == [k \in S |-> <<t.x, t.y + 8 * (k - 1)>>]
<1>1. t.len \in Nat /\ t.x \in Nat /\ t.y \in Nat /\ t.y + 8 * t.len <= 320
  BY DEF InLine, SCR_WIDTH
<1>2. ASSUME NEW k \in S, k # 1
      PROVE  k - 1 \in S /\ NextBox(<<t.x, t.y + 8 * ((k - 1) - 1)>>) = <<t.x, t.y + 8 * (k - 1)>>
  <2>1. k \in Nat /\ k >= 2 /\ k <= t.len
    BY <1>1, <1>2
  <2>2. PICK y : y = t.y + 8 * ((k - 1) - 1)
    OBVIOUS
  <2>3. y \in Nat /\ ~(y + 8 >= 320) /\ y + 8 = t.y + 8 * (k - 1)
    BY <1>1, <2>1, <2>2
  <2>4. NextBox(<<t.x, y>>) = <<t.x, y + 8>>
    BY <2>3 DEF NextBox, SCR_WIDTH
  <2>5. k - 1 \in S
    BY <1>1, <2>1
  <2> QED BY <2>2, <2>3, <2>4, <2>5
<1>3. c = F(c)
  <2> SUFFICES ASSUME NEW k \in S
               PROVE  c[k] = IF k = 1 THEN <<t.x, t.y>> ELSE NextBox(c[k - 1])
    OBVIOUS
  <2>1. CASE k = 1
    BY <1>1, <2>1
  <2>2. CASE k # 1
    <3>1. c[k - 1] = <<t.x, t.y + 8 * ((k - 1) - 1)>>
      BY <1>2, <2>2
    <3>2. c[k] = <<t.x, t.y + 8 * (k - 1)>>
      OBVIOUS
    <3> HIDE DEF c, S
    <3> QED BY <1>2, <2>2, <3>1, <3>2, Zenon
  <2> QED BY <2>1, <2>2
<1>4. ASSUME NEW f, f = F(f) PROVE f = c
  <2> DEFINE T == {k \in Nat : k \in S => f[k] = <<t.x, t.y + 8 * (k - 1)>>}
  <2>1. \A k \in S : f[k] = IF k = 1 THEN <<t.x, t.y>> ELSE NextBox(f[k - 1])
    BY <1>4
  <2>2. 0 \in T
    BY <1>1
  <2>3. ASSUME NEW k \in T PROVE k + 1 \in T
    <3>1. k \in Nat /\ k + 1 \in Nat /\ (k + 1) - 1 = k
      OBVIOUS
    <3>2. ASSUME k + 1 \in S PROVE f[k + 1] = <<t.x, t.y + 8 * ((k + 1) - 1)>>
      <4>1. CASE k + 1 = 1
        <5>1. f[k + 1] = <<t.x, t.y>>
          BY <2>1, <3>2, <4>1
        <5>2. t.y + 8 * ((k + 1) - 1) = t.y
          BY <1>1, <4>1
        <5> QED BY <5>1, <5>2
      <4>2. CASE k + 1 # 1
        <5>1. (k + 1) - 1 \in S /\ NextBox(<<t.x, t.y + 8 * (((k + 1) - 1) - 1)>>)
                                   = <<t.x, t.y + 8 * ((k + 1) - 1)>>
          BY <1>2, <3>2, <4>2
        <5>2. f[k + 1] = NextBox(f[(k + 1) - 1])
          BY <2>1, <3>2, <4>2
        <5>3. k \in S
          BY <3>1, <5>1
        <5>4. f[k] = <<t.x, t.y + 8 * (k - 1)>>
          BY <5>3
        <5> HIDE DEF T, S
        <5> QED BY <3>1, <5>1, <5>2, <5>4
      <4> QED BY <4>1, <4>2
    <3> QED BY <3>1, <3>2
  <2>4. T = Nat
    <3>1. T \in SUBSET Nat
      OBVIOUS
    <3> HIDE DEF T
    <3> QED BY <2>2, <2>3, <3>1, NatClosed
  <2>5. \A k \in S : f[k] = <<t.x, t.y + 8 * (k - 1)>>
    BY <1>1, <2>4
  <2>6. F(f) = [k \in S |-> f[k]]
    BY <2>1
  <2> HIDE DEF F
  <2> QED BY <1>4, <2>5, <2>6
<1>5. draw_string(t) = CHOOSE f : f = F(f)
  BY DEF draw_string
<1> HIDE DEF F, c
<1>6. (CHOOSE f : f = F(f)) = c
  BY <1>3, <1>4
<1> QED BY <1>5, <1>6 DEF c

(* All strings of a frame end in their line, and the lines on the screen.  *)
Lines(frame) == \A n \in DOMAIN frame : InLine(frame[n]) /\ frame[n].x + 8 <= SCR_HEIGHT

LEMMA LinesOnScreen ==
  ASSUME NEW frame, Lines(frame)
  PROVE  OnScreen(frame)
<1> SUFFICES ASSUME NEW n \in DOMAIN frame, NEW k \in DOMAIN draw_string(frame[n])
             PROVE  LET x == draw_string(frame[n])[k][1]
                        y == draw_string(frame[n])[k][2]
                    IN  /\ x >= 0 /\ y >= 0 /\ x + 7 < SCR_HEIGHT /\ y + 7 < SCR_WIDTH
                        /\ 256 * (x + 7) + 64 * (x + 7) + y + 7 < SCR_SIZE
  BY DEF OnScreen
<1>1. PICK t : t = frame[n]
  OBVIOUS
<1>2. InLine(t) /\ t.x + 8 <= 200
  BY <1>1 DEF Lines, SCR_HEIGHT
<1>3. draw_string(t) = [j \in 1 .. t.len |-> <<t.x, t.y + 8 * (j - 1)>>]
  BY <1>2, BoxesInLine
<1>4. t.len \in Nat /\ t.x \in Nat /\ t.y \in Nat /\ t.y + 8 * t.len <= 320
  BY <1>2 DEF InLine, SCR_WIDTH
<1>5. k \in 1 .. t.len
  BY <1>1, <1>3
<1>6. PICK y : y = t.y + 8 * (k - 1)
  OBVIOUS
<1>7. draw_string(frame[n])[k] = <<t.x, y>>
  BY <1>1, <1>3, <1>5, <1>6
<1>8. y \in Nat /\ y + 8 <= 320
  BY <1>4, <1>5, <1>6
<1> QED BY <1>2, <1>4, <1>7, <1>8 DEF SCR_HEIGHT, SCR_WIDTH, SCR_SIZE

(* Two strings that cover no pixel in common.                              *)
Beside(a, b) == \/ a.x + 8 <= b.x \/ b.x + 8 <= a.x
                \/ a.y + 8 * a.len <= b.y \/ b.y + 8 * b.len <= a.y

LEMMA LinesLegible ==
  ASSUME NEW frame, Lines(frame),
         \A n, m \in DOMAIN frame : n # m => Beside(frame[n], frame[m])
  PROVE  Legible(frame)
<1>1. \A n \in DOMAIN frame : frame[n].y + 8 * frame[n].len <= SCR_WIDTH
  BY DEF Lines, InLine
<1> QED BY <1>1 DEF Legible, Beside

(* The last frames of a game.                                              *)
LEMMA EndFits ==
  ASSUME NEW endword \in EndWords
  PROVE  OnScreen(draw_end(endword)) /\ Legible(draw_end(endword))
<1> DEFINE frame == draw_end(endword)
<1>1. /\ DOMAIN frame = 1 .. 2
      /\ frame[1] = Text(endword, 88, 160 - (endword \div 2) * 8)
      /\ frame[2] = Text(18, 100, 88)
  BY DEF draw_end, Centered, c_width, SCR_WIDTH, SCR_HEIGHT
<1>2. endword \in {12, 25, 36}
  BY DEF EndWords
<1>3. 160 - (endword \div 2) * 8 \in Nat /\ 160 - (endword \div 2) * 8 + 8 * endword <= 320
  BY <1>2
<1> HIDE DEF frame
<1>4. Lines(frame)
  <2>1. InLine(frame[1]) /\ frame[1].x = 88
    BY <1>1, <1>2, <1>3 DEF InLine, Text, SCR_WIDTH
  <2>2. InLine(frame[2]) /\ frame[2].x = 100
    BY <1>1 DEF InLine, Text, SCR_WIDTH
  <2> QED BY <1>1, <2>1, <2>2 DEF Lines, SCR_HEIGHT
<1>5. \A n, m \in DOMAIN frame : n # m => Beside(frame[n], frame[m])
  <2>1. frame[1].x = 88 /\ frame[2].x = 100
    BY <1>1 DEF Text
  <2>2. Beside(frame[1], frame[2]) /\ Beside(frame[2], frame[1])
    BY <2>1 DEF Beside
  <2> QED BY <1>1, <2>2
<1> QED BY <1>4, <1>5, LinesOnScreen, LinesLegible DEF frame

(* Where the strings of a frame are: string n of one of misses wrong       *)
(* letters, by row.                                                        *)
Placed(t, n, word, misses, digits, time) ==
  \/ n = 1 /\ t = Text(15, 42, 104)
  \/ n = 2 /\ t = Text(word, 58, 160 - (word \div 2) * 8)
  \/ n = 3 /\ t = Text(1, 0, 312)
  \/ n = 4 /\ t = Text(5, 182, 0)
  \/ n = 5 /\ t = Text(digits, 182, 40)
  \/ n \in 6 .. 5 + misses /\ t = Text(1, 191, 12 * (n - 6))
  \/ n = 6 + misses /\ t = Text(5, 0, 0)
  \/ n = 7 + misses /\ t = Text(time, 0, 40)

LEMMA PlacedLast ==
  ASSUME NEW t, NEW n, NEW word, NEW misses, NEW digits, NEW time,
         \/ n = 6 + misses /\ t = Text(5, 0, 0)
         \/ n = 7 + misses /\ t = Text(time, 0, 40)
  PROVE  Placed(t, n, word, misses, digits, time)
BY DEF Placed

LEMMA FrameParts ==
  ASSUME NEW word \in Nat, NEW misses \in Nat, NEW digits \in Nat, NEW time \in Nat
  PROVE  LET frame == redraw_screen(word, 1, misses, digits, time)
         IN  /\ DOMAIN frame = 1 .. 7 + misses
             /\ \A n \in 1 .. 7 + misses : Placed(frame[n], n, word, misses, digits, time)
<1> DEFINE a == << Centered(15, SCR_HEIGHT \div 4 - 8), Centered(word, SCR_HEIGHT \div 4 + 8),
                   Text(1, 0, SCR_WIDTH - 1 * 8) >>
           b == << Text(5, SCR_HEIGHT - 18, 0), Text(digits, SCR_HEIGHT - 18, 5 * 8) >>
           c == [k \in 1 .. misses |-> Text(1, SCR_HEIGHT - 9, skip(k - 1))]
           d == << Text(5, 0, 0), Text(time, 0, 5 * 8) >>
           frame == redraw_screen(word, 1, misses, digits, time)
<1>1. frame = (a \o (b \o c)) \o d
  BY DEF redraw_screen, draw_miss
<1> DEFINE C == [len : Int, x : Int, y : Int]
<1>2. /\ a \in Seq(C) /\ Len(a) = 3
      /\ a[1] = Text(15, 42, 104)
      /\ a[2] = Text(word, 58, 160 - (word \div 2) * 8)
      /\ a[3] = Text(1, 0, 312)
  BY DEF Centered, Text, c_width, SCR_WIDTH, SCR_HEIGHT
<1>3. /\ b \in Seq(C) /\ Len(b) = 2
      /\ b[1] = Text(5, 182, 0) /\ b[2] = Text(digits, 182, 40)
  BY DEF Text, SCR_HEIGHT
<1>4. /\ c \in Seq(C) /\ Len(c) = misses
      /\ \A k \in 1 .. misses : c[k] = Text(1, 191, 12 * (k - 1))
  BY DEF Text, SCR_HEIGHT, skip
<1>5. /\ d \in Seq(C) /\ Len(d) = 2
      /\ d[1] = Text(5, 0, 0) /\ d[2] = Text(time, 0, 40)
  BY DEF Text
<1> HIDE DEF a, b, c, d, C, frame
<1> DEFINE e == b \o c
           f == a \o e
<1>6. /\ e \in Seq(C) /\ Len(e) = 2 + misses
      /\ \A i \in 1 .. 2 + misses : e[i] = IF i <= 2 THEN b[i] ELSE c[i - 2]
  <2>1. b \in Seq(C) /\ Len(b) = 2 /\ c \in Seq(C) /\ Len(c) = misses
    BY <1>3, <1>4
  <2>2. /\ b \o c \in Seq(C) /\ Len(b \o c) = Len(b) + Len(c)
        /\ \A i \in 1 .. Len(b) + Len(c) :
             (b \o c)[i] = IF i <= Len(b) THEN b[i] ELSE c[i - Len(b)]
    BY <2>1, ConcatProperties
  <2> QED BY <2>1, <2>2
<1> HIDE DEF e
<1>7. /\ f \in Seq(C) /\ Len(f) = 3 + (2 + misses)
      /\ \A i \in 1 .. 3 + (2 + misses) : f[i] = IF i <= 3 THEN a[i] ELSE e[i - 3]
  <2>1. a \in Seq(C) /\ Len(a) = 3 /\ e \in Seq(C) /\ Len(e) = 2 + misses
    BY <1>2, <1>6
  <2>2. /\ a \o e \in Seq(C) /\ Len(a \o e) = Len(a) + Len(e)
        /\ \A i \in 1 .. Len(a) + Len(e) :
             (a \o e)[i] = IF i <= Len(a) THEN a[i] ELSE e[i - Len(a)]
    BY <2>1, ConcatProperties
  <2> QED BY <2>1, <2>2
<1> HIDE DEF f
<1>8. /\ frame \in Seq(C) /\ Len(frame) = (3 + (2 + misses)) + 2
      /\ \A i \in 1 .. (3 + (2 + misses)) + 2 :
           frame[i] = IF i <= 3 + (2 + misses) THEN f[i] ELSE d[i - (3 + (2 + misses))]
  <2>1. frame = f \o d
    BY <1>1 DEF e, f
  <2>2. f \in Seq(C) /\ Len(f) = 3 + (2 + misses) /\ d \in Seq(C) /\ Len(d) = 2
    BY <1>5, <1>7
  <2>3. /\ f \o d \in Seq(C) /\ Len(f \o d) = Len(f) + Len(d)
        /\ \A i \in 1 .. Len(f) + Len(d) :
             (f \o d)[i] = IF i <= Len(f) THEN f[i] ELSE d[i - Len(f)]
    BY <2>2, ConcatProperties
  <2> QED BY <2>1, <2>2, <2>3
<1>9. DOMAIN frame = 1 .. 7 + misses
  BY <1>8
<1>10. ASSUME NEW n \in 1 .. 7 + misses PROVE Placed(frame[n], n, word, misses, digits, time)
  <2>1. n \in Nat /\ n >= 1 /\ n <= 7 + misses
    OBVIOUS
  <2>2. CASE n <= 3
    <3>1. frame[n] = a[n]
      BY SMTT(30), <1>7, <1>8, <2>1, <2>2
    <3>2. n = 1 \/ n = 2 \/ n = 3
      BY <2>1, <2>2
    <3> QED BY <1>2, <3>1, <3>2 DEF Placed
  <2>3. CASE n = 4 \/ n = 5
    <3>1. frame[n] = b[n - 3]
      BY <1>6, <1>7, <1>8, <2>1, <2>3
    <3> QED BY <1>3, <2>3, <3>1 DEF Placed
  <2>4. CASE n \in 6 .. 5 + misses
    <3>1. frame[n] = c[n - 5] /\ n - 5 \in 1 .. misses /\ (n - 5) - 1 = n - 6
      <4>1. frame[n] = f[n]
        BY <1>8, <2>4
      <4>2. f[n] = e[n - 3]
        BY <1>7, <2>4
      <4>3. n - 3 \in 1 .. 2 + misses /\ ~(n - 3 <= 2) /\ (n - 3) - 2 = n - 5
        BY <2>4
      <4>4. e[n - 3] = c[n - 5]
        BY <1>6, <4>3
      <4> QED BY <2>4, <4>1, <4>2, <4>4
    <3>2. c[n - 5] = Text(1, 191, 12 * ((n - 5) - 1))
      BY <1>4, <3>1
    <3>3. frame[n] = Text(1, 191, 12 * (n - 6))
      BY <3>1, <3>2
    <3> QED BY <2>4, <3>3, Zenon DEF Placed
  <2>5. CASE n = 6 + misses
    <3>1. frame[n] = Text(5, 0, 0)
      BY <1>5, <1>8, <2>5
    <3> QED BY <2>5, <3>1, PlacedLast
  <2>6. CASE n = 7 + misses
    <3>1. frame[n] = Text(time, 0, 40)
      BY <1>5, <1>8, <2>6
    <3> QED BY <2>6, <3>1, PlacedLast
  <2>7. n <= 3 \/ (n = 4 \/ n = 5) \/ n \in 6 .. 5 + misses \/ n = 6 + misses \/ n = 7 + misses
    BY <2>1
  <2> QED BY <2>2, <2>3, <2>4, <2>5, <2>6, <2>7, Zenon
<1> QED BY <1>9, <1>10 DEF frame

(* A frame of the game: any word that show_str has room for, no more wrong *)
(* letters than there are, and a time of no more digits than fit before    *)
(* the score.                                                              *)
LEMMA FrameFits ==
  ASSUME NEW word \in Nat, word >= 1, word <= 29, NEW misses \in Nat, misses <= 26,
         NEW digits \in Nat, digits <= 35, NEW time \in Nat, time <= 34
  PROVE  LET frame == redraw_screen(word, 1, misses, digits, time)
         IN  OnScreen(frame) /\ Legible(frame)
<1> DEFINE frame == redraw_screen(word, 1, misses, digits, time)
           At(n, x, y, len) == frame[n].x = x /\ frame[n].y = y /\ frame[n].len = len
<1>1. /\ DOMAIN frame = 1 .. 7 + misses
      /\ \A n \in 1 .. 7 + misses : Placed(frame[n], n, word, misses, digits, time)
  BY FrameParts
<1>2. PICK half : half = word \div 2
  OBVIOUS
<1>3. half \in Nat /\ 2 * half <= word /\ word <= 2 * half + 1
  BY <1>2
<1> HIDE DEF frame
<1>4. \A n \in 1 .. 7 + misses :
        \/ n = 1 /\ At(n, 42, 104, 15)
        \/ n = 2 /\ At(n, 58, 160 - half * 8, word)
        \/ n = 3 /\ At(n, 0, 312, 1)
        \/ n = 4 /\ At(n, 182, 0, 5)
        \/ n = 5 /\ At(n, 182, 40, digits)
        \/ n \in 6 .. 5 + misses /\ At(n, 191, 12 * (n - 6), 1)
        \/ n = 6 + misses /\ At(n, 0, 0, 5)
        \/ n = 7 + misses /\ At(n, 0, 40, time)
  <2> SUFFICES ASSUME NEW n \in 1 .. 7 + misses
               PROVE  \/ n = 1 /\ At(n, 42, 104, 15)
                      \/ n = 2 /\ At(n, 58, 160 - half * 8, word)
                      \/ n = 3 /\ At(n, 0, 312, 1)
                      \/ n = 4 /\ At(n, 182, 0, 5)
                      \/ n = 5 /\ At(n, 182, 40, digits)
                      \/ n \in 6 .. 5 + misses /\ At(n, 191, 12 * (n - 6), 1)
                      \/ n = 6 + misses /\ At(n, 0, 0, 5)
                      \/ n = 7 + misses /\ At(n, 0, 40, time)
    OBVIOUS
  <2>1. \A len, x, y : frame[n] = Text(len, x, y) => At(n, x, y, len)
    BY DEF Text
  <2>2. Placed(frame[n], n, word, misses, digits, time)
    BY <1>1
  <2>3. \/ n = 1 /\ frame[n] = Text(15, 42, 104)
        \/ n = 2 /\ frame[n] = Text(word, 58, 160 - half * 8)
        \/ n = 3 /\ frame[n] = Text(1, 0, 312)
        \/ n = 4 /\ frame[n] = Text(5, 182, 0)
        \/ n = 5 /\ frame[n] = Text(digits, 182, 40)
        \/ n \in 6 .. 5 + misses /\ frame[n] = Text(1, 191, 12 * (n - 6))
        \/ n = 6 + misses /\ frame[n] = Text(5, 0, 0)
        \/ n = 7 + misses /\ frame[n] = Text(time, 0, 40)
    <3> HIDE DEF At
    <3> QED BY <1>2, <2>2, ZenonT(30) DEF Placed
  <2> HIDE DEF At
  <2>4. /\ frame[n] = Text(15, 42, 104) => At(n, 42, 104, 15)
        /\ frame[n] = Text(word, 58, 160 - half * 8) => At(n, 58, 160 - half * 8, word)
        /\ frame[n] = Text(1, 0, 312) => At(n, 0, 312, 1)
        /\ frame[n] = Text(5, 182, 0) => At(n, 182, 0, 5)
        /\ frame[n] = Text(digits, 182, 40) => At(n, 182, 40, digits)
        /\ frame[n] = Text(1, 191, 12 * (n - 6)) => At(n, 191, 12 * (n - 6), 1)
        /\ frame[n] = Text(5, 0, 0) => At(n, 0, 0, 5)
        /\ frame[n] = Text(time, 0, 40) => At(n, 0, 40, time)
    BY <2>1
  <2> QED BY <2>3, <2>4
<1>5. Lines(frame)
  <2> SUFFICES ASSUME NEW n \in 1 .. 7 + misses
               PROVE  InLine(frame[n]) /\ frame[n].x + 8 <= SCR_HEIGHT
    BY <1>1 DEF Lines
  <2>1. \E x, y, len \in Nat : At(n, x, y, len) /\ x + 8 <= 200 /\ y + 8 * len <= 320
    <3>1. \/ At(n, 42, 104, 15) \/ At(n, 58, 160 - half * 8, word) \/ At(n, 0, 312, 1)
          \/ At(n, 182, 0, 5) \/ At(n, 182, 40, digits)
          \/ n \in 6 .. 5 + misses /\ At(n, 191, 12 * (n - 6), 1)
          \/ At(n, 0, 0, 5) \/ At(n, 0, 40, time)
      BY <1>4
    <3>2. 160 - half * 8 \in Nat /\ 160 - half * 8 + 8 * word <= 320
      BY <1>3
    <3>3. n \in 6 .. 5 + misses => 12 * (n - 6) \in Nat /\ 12 * (n - 6) + 8 <= 320
      OBVIOUS
    <3> HIDE DEF At
    <3> QED BY <3>1, <3>2, <3>3
  <2>2. PICK x, y, len \in Nat : At(n, x, y, len) /\ x + 8 <= 200 /\ y + 8 * len <= 320
    BY <2>1
  <2> QED BY <2>2 DEF InLine, SCR_WIDTH, SCR_HEIGHT
<1>6. ASSUME NEW n \in 1 .. 7 + misses, NEW m \in 1 .. 7 + misses, n < m
      PROVE  Beside(frame[n], frame[m])
  <2> DEFINE X(k) == frame[k].x
             Y(k) == frame[k].y
             Z(k) == frame[k].len
             Row(k) == \/ k = 1 /\ X(k) = 42
                       \/ k = 2 /\ X(k) = 58
                       \/ k = 3 /\ X(k) = 0 /\ Y(k) = 312
                       \/ k = 4 /\ X(k) = 182 /\ Y(k) = 0 /\ Z(k) = 5
                       \/ k = 5 /\ X(k) = 182 /\ Y(k) = 40
                       \/ k \in 6 .. 5 + misses /\ X(k) = 191 /\ Y(k) = 12 * (k - 6) /\ Z(k) = 1
                       \/ k = 6 + misses /\ X(k) = 0 /\ Y(k) = 0 /\ Z(k) = 5
                       \/ k = 7 + misses /\ X(k) = 0 /\ Y(k) = 40 /\ Z(k) = time
  <2>1. ASSUME NEW k \in 1 .. 7 + misses PROVE Row(k)
    BY <1>4
  <2>2. Row(n) /\ Row(m)
    BY <2>1
  <2>3. PICK xn, yn, zn : xn = X(n) /\ yn = Y(n) /\ zn = Z(n)
    OBVIOUS
  <2>4. PICK xm, ym, zm : xm = X(m) /\ ym = Y(m) /\ zm = Z(m)
    OBVIOUS
  <2>5. \/ xn + 8 <= xm \/ xm + 8 <= xn
        \/ yn + 8 * zn <= ym \/ ym + 8 * zm <= yn
    BY <1>6, <2>2, <2>3, <2>4
  <2> QED BY <2>3, <2>4, <2>5 DEF Beside
<1>7. \A n, m \in DOMAIN frame : n # m => Beside(frame[n], frame[m])
  <2> SUFFICES ASSUME NEW n \in 1 .. 7 + misses, NEW m \in 1 .. 7 + misses, n # m
               PROVE  Beside(frame[n], frame[m])
    BY <1>1
  <2>1. Beside(frame[m], frame[n]) => Beside(frame[n], frame[m])
    BY DEF Beside
  <2>2. n < m \/ m < n
    OBVIOUS
  <2> QED BY <1>6, <2>1, <2>2
<1> QED BY <1>5, <1>7, LinesOnScreen, LinesLegible DEF frame

-----------------------------------------------------------------------------
(* Machine.                                                                *)

machinevars == <<era, number, allvars, clockvars, ivars>>

(* The invariants of the parts; that of the clock in its own era, since    *)
(* the others move Kernel and leave the clock alone.                       *)
MachineInv ==
  /\ TInv
  /\ IdeInv
  /\ era = "clock" => ClockInv

LEMMA MachineInitInv == MachineInit => MachineInv
<1> SUFFICES ASSUME MachineInit PROVE MachineInv
  OBVIOUS
<1>1. TInv /\ IdeInv
  BY InitTInv, IdeInitInv DEF MachineInit
<1>2. ClockInv
  BY ClockInitInv DEF MachineInit, TrapsInit
<1> QED BY <1>1, <1>2 DEF MachineInv

(* A step of one part leaves the invariants of the others alone.           *)
LEMMA MachineNextInv == MachineInv /\ [MachineNext]_machinevars => MachineInv'
<1> SUFFICES ASSUME MachineInv, [MachineNext]_machinevars PROVE MachineInv'
  OBVIOUS
<1>1. era' = era /\ [TrapsNext]_allvars /\ [IdeNext]_ivars
  BY DEF MachineNext, TimedStep, machinevars
<1>2. TInv'
  BY <1>1, NextKeepsTInv DEF MachineInv
<1>3. IdeInv'
  BY <1>1, IdeNextInv DEF MachineInv
<1>4. ASSUME era = "clock" PROVE ClockInv'
  <2>1. ClockInv
    BY <1>4 DEF MachineInv
  <2>2. (~Late /\ ClockStep) \/ UNCHANGED <<vars, clockvars>>
    BY <1>4 DEF MachineNext, TimedStep, machinevars, allvars
  <2>3. CASE ~Late /\ ClockStep
    BY <2>1, <2>3, PassInv, TickInv, PreemptInv, SleepInv, ForkInv, OffClockInv DEF ClockStep
  <2>4. CASE UNCHANGED <<vars, clockvars>>
    BY <2>1, <2>4, SameTimesInv DEF vars
  <2> QED BY <2>2, <2>3, <2>4
<1> QED BY <1>1, <1>2, <1>3, <1>4 DEF MachineInv

(* The parts keep their invariants in a machine that runs one after the    *)
(* other; what TrapsProofs and IdeProofs conclude from theirs holds there. *)
THEOREM SpecMachineInv == MachineSpec => []MachineInv
<1>1. MachineInit => MachineInv
  BY MachineInitInv
<1>2. MachineInv /\ [MachineNext]_<<era, number, allvars, clockvars, ivars>> => MachineInv'
  BY MachineNextInv DEF machinevars
<1> QED BY <1>1, <1>2, PTL DEF MachineSpec

(* The types of all parts, and how far a transfer and a line of text are.  *)
THEOREM SpecMachineTypeOK == MachineSpec => []MachineTypeOK
<1>1. MachineInv => MachineTypeOK
  BY TypedByTInv DEF MachineInv, IdeInv, MachineTypeOK
<1> QED BY <1>1, SpecMachineInv, PTL

(* While system calls are made and the clock runs, Kernel's differences    *)
(* decide as the unsigned times of the code (kernel/trap.c:113).           *)
THEOREM SpecDecidesAsInKernel == MachineSpec => []DecidesAsInKernel
<1>1. MachineInv => DecidesAsInKernel
  BY AgreesByClockInv DEF MachineInv, DecidesAsInKernel
<1> QED BY <1>1, SpecMachineInv, PTL

(* For every process that has a table: the kernel is mapped and out of its *)
(* reach, its memory is its own, fork's window and a shared page show what *)
(* they should (kernel/pmap.c:23, 45, 62).                                 *)
THEOREM SpecMapsApart == MachineSpec => []MapsApart
<1>1. \A other \in UserPids : USER_START + other \in UserPages
  BY DEF UserPids, USER_DIR_NUM, MAX_MEM, KERN_MEM, NPTENTRIES, USER_START, UserBase, UserPages
<1>2. MapsApart
  BY <1>1, KernelEverywhere, EveryoneConfined, EveryoneApart, EveryWindowFits,
     EveryoneSharesOne, EveryTableFits DEF MapsApart
<1> QED BY <1>2, PTL

(* fs_open finds a file by the stored part of its name and by nothing      *)
(* else, for any length of a stored name (kernel/fs.c:149).                *)
THEOREM SpecNamesFound == MachineSpec => []NamesFound
<1>1. \A k \in 0 .. FILENAME_LENGTH + 1 : [1 .. k -> Alphabet] \subseteq Seq(Alphabet)
  BY CLibAssumption
<1>2. NamesFound
  BY <1>1, EveryNameFound DEF NamesFound
<1> QED BY <1>2, PTL

(* The number of the library is always an int.                             *)
NumberTyped == number \in ints

LEMMA SpecNumberTyped == MachineSpec => []NumberTyped
<1>1. MachineInit => NumberTyped
  <2>1. 0 \in ints
    BY ZeroAndMore
  <2> QED BY <2>1 DEF MachineInit, NumberTyped
<1>2. NumberTyped /\ [MachineNext]_<<era, number, allvars, clockvars, ivars>> => NumberTyped'
  BY DEF MachineNext, NumberTyped
<1> QED BY <1>1, <1>2, PTL DEF MachineSpec

(* Every number that the machine prints or draws is exact (printk.c:22,    *)
(* lib/string.c:8), for ints of up to 32 bits.                             *)
THEOREM SpecNumbersExact == MachineSpec => []NumbersExact
<1>1. NumberTyped => NumbersExact
  BY EveryIntPrinted, EveryIntDrawn DEF NumbersExact, NumberTyped
<1> QED BY <1>1, SpecNumberTyped, PTL

(* The assertion of draw_pixel (inc/video.h:16) holds and nothing is drawn *)
(* over anything else: any word, any misses, any time of up to 32 bits.    *)
THEOREM SpecFramesFit == MachineSpec => []FramesFit
<1>1. NumberTyped => FramesFit
  <2> SUFFICES ASSUME NumberTyped PROVE FramesFit
    OBVIOUS
  <2>1. ASSUME NEW word \in WordLengths PROVE OnScreen(FrameOf(word)) /\ Legible(FrameOf(word))
    <3>1. PICK misses : misses = number % 27
      OBVIOUS
    <3>2. number \in Int
      BY Conversions, SMT DEF NumberTyped
    <3>3. misses \in Nat /\ misses <= 26 /\ misses \in 0 .. 26
      BY <3>1, <3>2
    <3>4. misses \in ints
      BY <3>3, ZeroAndMore
    <3>5. PICK digits : digits = Len(itoa(misses))
      OBVIOUS
    <3>6. PICK time : time = Len(itoa(number))
      OBVIOUS
    <3>7. digits \in Nat /\ digits <= 35 /\ time \in Nat /\ time <= 34
      <4>1. digits \in Nat /\ digits <= 10
        BY <3>4, <3>5, ItoaFits
      <4>2. time \in Nat /\ time <= 10
        BY <3>6, ItoaFits DEF NumberTyped
      <4> QED BY <4>1, <4>2
    <3>8. FrameOf(word) = redraw_screen(word, 1, misses, digits, time)
      BY <3>1, <3>5, <3>6 DEF FrameOf
    <3>9. word \in Nat /\ word >= 1 /\ word <= 29
      BY DEF WordLengths
    <3> QED BY <3>3, <3>7, <3>8, <3>9, FrameFits
  <2> QED BY <2>1, EndFits DEF FramesFit
<1> QED BY <1>1, SpecNumberTyped, PTL

=============================================================================
