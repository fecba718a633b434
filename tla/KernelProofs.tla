---------------------------- MODULE KernelProofs ----------------------------
(***************************************************************************)
(* Proofs of the safety properties of Kernel, for every number of          *)
(* processes and semaphores, every time slice and every user program.      *)
(***************************************************************************)
EXTENDS Kernel, TLAPS

(* Only a sleeper can have ticks left.  This is what OneRunning and        *)
(* WaitersAreDue lack to be inductive: the process that blocks on a        *)
(* semaphore was running, and the one the scheduler rebinds was free.      *)
AwakeIsDue ==
  \A p \in Pids : status[p] # PCB_SLEEPING => wakeup_time[p] = 0

IInv ==
  /\ TypeOK
  /\ OneRunning
  /\ AwakeIsDue
  /\ WaitersAreDue
  /\ ZeroIsForNewChildren

USE DEF PCB_FREE, PCB_SLEEPING, PCB_RUNNABLE, PCB_RUNNING, NOT_WAITING_SEM

-----------------------------------------------------------------------------

LEMMA InitIInv == Init => IInv
  BY KernelAssumption
  DEF Init, IInv, TypeOK, OneRunning, AwakeIsDue, WaitersAreDue, Waiting,
      ZeroIsForNewChildren, Pids, Sems, Statuses, EaxValues

(* The clock keeps the tick counts natural and those that are due, due.    *)
LEMMA ElapsedFacts ==
  ASSUME wakeup_time \in [Pids -> Nat]
  PROVE  /\ Elapsed \in [Pids -> Nat]
         /\ \A p \in Pids : wakeup_time[p] = 0 => Elapsed[p] = 0
  BY DEF Elapsed

LEMMA NextSliceFacts ==
  ASSUME slice \in 0 .. SCHED_TIME_FREQ
  PROVE  NextSlice \in 0 .. SCHED_TIME_FREQ
  BY KernelAssumption DEF NextSlice

-----------------------------------------------------------------------------
(* The calls that give up the processor.                                   *)

LEMMA SleepKeepsIInv ==
  ASSUME IInv, NEW time \in 0 .. MaxSleep, sys_sleep(time)
  PROVE  IInv'
  BY KernelAssumption
  DEF IInv, TypeOK, OneRunning, AwakeIsDue, WaitersAreDue, Waiting,
      ZeroIsForNewChildren, Statuses, EaxValues, sys_sleep, LeaveCpu, UserCalls

LEMMA ExitKeepsIInv ==
  ASSUME IInv, sys_exit
  PROVE  IInv'
  BY DEF IInv, TypeOK, OneRunning, AwakeIsDue, WaitersAreDue, Waiting,
         ZeroIsForNewChildren, Statuses, EaxValues, sys_exit, LeaveCpu

LEMMA WaitIntrKeepsIInv ==
  ASSUME IInv, sys_wait_intr
  PROVE  IInv'
  BY DEF IInv, TypeOK, OneRunning, AwakeIsDue, WaitersAreDue, Waiting,
         ZeroIsForNewChildren, Statuses, EaxValues, sys_wait_intr, UserCalls

LEMMA CrashKeepsIInv ==
  ASSUME IInv, Crash
  PROVE  IInv'
  BY DEF IInv, TypeOK, OneRunning, AwakeIsDue, WaitersAreDue, Waiting,
         ZeroIsForNewChildren, Crash

LEMMA ForkKeepsIInv ==
  ASSUME IInv, mode = "user", NEW new \in Pids, ForkInto(new)
  PROVE  IInv'
  BY DEF IInv, TypeOK, OneRunning, AwakeIsDue, WaitersAreDue, Waiting,
         ZeroIsForNewChildren, Statuses, EaxValues, ForkInto, FreeSlot

-----------------------------------------------------------------------------
(* The semaphores.                                                         *)

(* A step that changes no more than the counts.                            *)
LEMMA CountsKeepIInv ==
  ASSUME IInv, sem_pool' \in [Sems -> Nat],
         UNCHANGED <<curr_pid, status, wakeup_time, wait_sem, eax, slice, mode>>
  PROVE  IInv'
  BY DEF IInv, TypeOK, OneRunning, AwakeIsDue, WaitersAreDue, Waiting,
         ZeroIsForNewChildren

LEMMA SemTakeKeepsIInv ==
  ASSUME IInv, NEW s \in Sems, SemTake(s)
  PROVE  IInv'
<1>1. sem_pool' \in [Sems -> Nat]
  BY DEF IInv, TypeOK, SemTake
<1> QED BY <1>1, CountsKeepIInv DEF SemTake

LEMMA SemBlockKeepsIInv ==
  ASSUME IInv, mode = "user", NEW s \in Sems, SemBlock(s)
  PROVE  IInv'
  BY DEF IInv, TypeOK, OneRunning, AwakeIsDue, WaitersAreDue, Waiting,
         ZeroIsForNewChildren, Statuses, EaxValues, SemBlock, LeaveCpu

LEMMA SystemCallKeepsIInv ==
  ASSUME IInv, SystemCall
  PROVE  IInv'
<1>1. CASE \E time \in 0 .. MaxSleep : sys_sleep(time)
  BY <1>1, SleepKeepsIInv
<1>2. CASE sys_exit
  BY <1>2, ExitKeepsIInv
<1>3. CASE sys_wait_intr
  BY <1>3, WaitIntrKeepsIInv
<1>4. CASE sys_crash
  BY <1>4, CrashKeepsIInv DEF sys_crash
<1>5. CASE sys_fork
  BY <1>5, ForkKeepsIInv, CrashKeepsIInv DEF sys_fork, UserCalls
<1>6. ASSUME NEW s \in Sems, NEW value \in 0 .. MaxCount, sys_sem_open(s, value)
      PROVE  IInv'
  <2>1. CASE Crash
    BY <2>1, CrashKeepsIInv
  <2>2. CASE ~Crash
    <3>1. sem_pool' \in [Sems -> Nat]
      BY <1>6, <2>2, KernelAssumption DEF IInv, TypeOK, sys_sem_open
    <3> QED BY <1>6, <2>2, <3>1, CountsKeepIInv DEF sys_sem_open
  <2> QED BY <2>1, <2>2
<1>7. ASSUME NEW s \in Sems, sys_sem_destroy(s)
      PROVE  IInv'
  <2>1. sem_pool' \in [Sems -> Nat]
    BY <1>7 DEF IInv, TypeOK, sys_sem_destroy
  <2> QED BY <1>7, <2>1, CountsKeepIInv DEF sys_sem_destroy
<1>8. ASSUME NEW s \in Sems, sys_sem_wait(s)
      PROVE  IInv'
  BY <1>8, SemTakeKeepsIInv, SemBlockKeepsIInv DEF sys_sem_wait, UserCalls
<1>9. ASSUME NEW s \in Sems, sys_sem_post(s)
      PROVE  IInv'
  <2>1. sem_pool' \in [Sems -> Nat]
    BY <1>9 DEF IInv, TypeOK, sys_sem_post
  <2> QED BY <1>9, <2>1, CountsKeepIInv DEF sys_sem_post
<1> QED BY <1>1, <1>2, <1>3, <1>4, <1>5, <1>6, <1>7, <1>8, <1>9 DEF SystemCall, PlainCall

-----------------------------------------------------------------------------
(* The interrupts.                                                         *)

LEMMA TickKeepsIInv ==
  ASSUME IInv, TimerTick
  PROVE  IInv'
<1>1. wakeup_time \in [Pids -> Nat]
  BY DEF IInv, TypeOK
<1>2. /\ wakeup_time' \in [Pids -> Nat]
      /\ \A p \in Pids : wakeup_time[p] = 0 => wakeup_time'[p] = 0
  BY <1>1, ElapsedFacts DEF TimerTick
<1>3. slice' \in 0 .. SCHED_TIME_FREQ
  BY KernelAssumption DEF IInv, TypeOK, TimerTick
<1>4. eax' \in [Pids -> EaxValues] /\ \A p \in Pids : eax'[p] = "zero" <=> eax[p] = "zero"
  BY DEF IInv, TypeOK, OneRunning, ZeroIsForNewChildren, EaxValues, TimerTick,
         Return
<1> QED BY <1>2, <1>3, <1>4
  DEF IInv, TypeOK, OneRunning, AwakeIsDue, WaitersAreDue, Waiting,
      ZeroIsForNewChildren, TimerTick, Return

LEMMA PreemptKeepsIInv ==
  ASSUME IInv, TimerPreempt
  PROVE  IInv'
<1>1. /\ Elapsed \in [Pids -> Nat]
      /\ \A p \in Pids : wakeup_time[p] = 0 => Elapsed[p] = 0
  BY ElapsedFacts DEF IInv, TypeOK
<1>2. FrameEax \in EaxValues \ {"zero"}
  BY DEF FrameEax, IInv, TypeOK, OneRunning, ZeroIsForNewChildren, EaxValues,
         TimerPreempt
<1>3. /\ wakeup_time' \in [Pids -> Nat]
      /\ \A p \in Pids \ {curr_pid} : wakeup_time[p] = 0 => wakeup_time'[p] = 0
  BY <1>1 DEF TimerPreempt, IInv, TypeOK
<1>4. (TypeOK /\ OneRunning /\ ZeroIsForNewChildren)'
  BY <1>2, <1>3, KernelAssumption
  DEF IInv, TypeOK, OneRunning, ZeroIsForNewChildren, Statuses, TimerPreempt,
      LeaveCpu
<1>5. (AwakeIsDue /\ WaitersAreDue)'
  BY <1>3 DEF IInv, TypeOK, OneRunning, AwakeIsDue, WaitersAreDue, Waiting,
              TimerPreempt, LeaveCpu
<1> QED BY <1>4, <1>5 DEF IInv

LEMMA DeviceKeepsIInv ==
  ASSUME IInv, DeviceIRQ
  PROVE  IInv'
  BY DEF IInv, TypeOK, OneRunning, AwakeIsDue, WaitersAreDue, Waiting,
         ZeroIsForNewChildren, EaxValues, DeviceIRQ, Return

-----------------------------------------------------------------------------
(* The scheduler.                                                          *)

(* What every pass does to the clock.                                      *)
LEMMA PassFacts ==
  ASSUME IInv, wakeup_time' = Elapsed, slice' = NextSlice
  PROVE  /\ wakeup_time' \in [Pids -> Nat]
         /\ \A p \in Pids : wakeup_time[p] = 0 => wakeup_time'[p] = 0
         /\ slice' \in 0 .. SCHED_TIME_FREQ
  BY ElapsedFacts, NextSliceFacts DEF IInv, TypeOK

LEMMA DispatchKeepsIInv ==
  ASSUME IInv, NEW p \in Pids, SchedDispatch(p)
  PROVE  IInv'
<1>1. /\ wakeup_time' \in [Pids -> Nat]
      /\ \A q \in Pids : wakeup_time[q] = 0 => wakeup_time'[q] = 0
      /\ slice' \in 0 .. SCHED_TIME_FREQ
  BY PassFacts DEF SchedDispatch, PassStopsAt
<1>2. wakeup_time'[p] = 0 /\ ~Waiting(p)
  BY <1>1 DEF SchedDispatch, PassStopsAt, Dispatchable, Due, IInv, AwakeIsDue,
              WaitersAreDue
<1> QED BY <1>1, <1>2
  DEF IInv, TypeOK, OneRunning, AwakeIsDue, WaitersAreDue, Waiting,
      ZeroIsForNewChildren, Statuses, EaxValues, SchedDispatch, PassStopsAt,
      pcb_exec

LEMMA GrantKeepsIInv ==
  ASSUME IInv, NEW p \in Pids, SchedGrant(p)
  PROVE  IInv'
<1>1. /\ wakeup_time' \in [Pids -> Nat]
      /\ \A q \in Pids : wakeup_time[q] = 0 => wakeup_time'[q] = 0
      /\ slice' \in 0 .. SCHED_TIME_FREQ
  BY PassFacts DEF SchedGrant, PassStopsAt
<1>2. wakeup_time'[p] = 0
  BY DEF SchedGrant, PassStopsAt, Grantable, Due
<1>3. sem_pool' \in [Sems -> Nat]
  BY DEF SchedGrant, Grantable, Waiting, IInv, TypeOK
<1> QED BY <1>1, <1>2, <1>3
  DEF IInv, TypeOK, OneRunning, AwakeIsDue, WaitersAreDue, Waiting,
      ZeroIsForNewChildren, Statuses, EaxValues, SchedGrant, PassStopsAt,
      pcb_exec

LEMMA RebindKeepsIInv ==
  ASSUME IInv, NEW p \in Pids, SchedRebind(p)
  PROVE  IInv'
<1>1. /\ wakeup_time' \in [Pids -> Nat]
      /\ \A q \in Pids : wakeup_time[q] = 0 => wakeup_time'[q] = 0
      /\ slice' \in 0 .. SCHED_TIME_FREQ
  BY PassFacts DEF SchedRebind, PassStopsAt
<1>2. /\ status[curr_pid] = PCB_FREE
      /\ wakeup_time'[curr_pid] = 0
      /\ wait_sem[p] \in Sems
  BY <1>1 DEF SchedRebind, PassStopsAt, Rebinds, Waiting, IInv, TypeOK,
              OneRunning, AwakeIsDue
<1> QED BY <1>1, <1>2
  DEF IInv, TypeOK, OneRunning, AwakeIsDue, WaitersAreDue, Waiting,
      ZeroIsForNewChildren, Statuses, EaxValues, SchedRebind, PassStopsAt

LEMMA IdleKeepsIInv ==
  ASSUME IInv, SchedIdle
  PROVE  IInv'
<1>1. /\ wakeup_time' \in [Pids -> Nat]
      /\ \A q \in Pids : wakeup_time[q] = 0 => wakeup_time'[q] = 0
      /\ slice' \in 0 .. SCHED_TIME_FREQ
  BY PassFacts DEF SchedIdle
<1> QED BY <1>1
  DEF IInv, TypeOK, OneRunning, AwakeIsDue, WaitersAreDue, Waiting,
      ZeroIsForNewChildren, SchedIdle

-----------------------------------------------------------------------------
(* The invariant.                                                          *)

LEMMA NextKeepsIInv == IInv /\ [Next]_vars => IInv'
<1> SUFFICES ASSUME IInv, [Next]_vars
             PROVE  IInv'
  OBVIOUS
<1>1. CASE SystemCall
  BY <1>1, SystemCallKeepsIInv
<1>2. CASE Timer
  BY <1>2, TickKeepsIInv, PreemptKeepsIInv DEF Timer
<1>3. CASE DeviceIRQ
  BY <1>3, DeviceKeepsIInv
<1>4. CASE sched_process
  BY <1>4, IdleKeepsIInv, DispatchKeepsIInv, GrantKeepsIInv, RebindKeepsIInv
  DEF sched_process
<1>5. CASE UNCHANGED vars
  BY <1>5 DEF vars, IInv, TypeOK, OneRunning, AwakeIsDue, WaitersAreDue,
              Waiting, ZeroIsForNewChildren
<1> QED BY <1>1, <1>2, <1>3, <1>4, <1>5 DEF Next, Halted

THEOREM SpecIInv == Spec => []IInv
  BY InitIInv, NextKeepsIInv, PTL DEF Spec

(* Every variable keeps its type; no count goes below 0.                   *)
THEOREM SpecTypeOK == Spec => []TypeOK
<1>1. IInv => TypeOK
  BY DEF IInv
<1> QED BY <1>1, SpecIInv, PTL

(* The processor has one owner, and the assertion at the head of           *)
(* sched_process never fails (kernel/sched.c:9).                           *)
THEOREM SpecOneRunning == Spec => []OneRunning
<1>1. IInv => OneRunning
  BY DEF IInv
<1> QED BY <1>1, SpecIInv, PTL

(* The wakeup_time that sys_sem_wait leaves stale never holds a waiter     *)
(* back (kernel/sem.c:34).                                                 *)
THEOREM SpecWaitersAreDue == Spec => []WaitersAreDue
<1>1. IInv => WaitersAreDue
  BY DEF IInv
<1> QED BY <1>1, SpecIInv, PTL

(* Only a child that has not started returns 0 from sys_fork.              *)
THEOREM SpecZeroIsForNewChildren == Spec => []ZeroIsForNewChildren
<1>1. IInv => ZeroIsForNewChildren
  BY DEF IInv
<1> QED BY <1>1, SpecIInv, PTL

-----------------------------------------------------------------------------
(* The action properties.                                                  *)

LEMMA StepTokenPerGrant ==
  ASSUME IInv, [Next]_vars, NEW p \in Pids,
         Waiting(p), wait_sem'[p] # wait_sem[p]
  PROVE  /\ curr_pid' = p
         /\ status'[p] = PCB_RUNNING
         /\ wait_sem'[p] = NOT_WAITING_SEM
         /\ sem_pool' = [sem_pool EXCEPT ![wait_sem[p]] = @ - 1]
<1>1. status[p] = PCB_SLEEPING
  BY DEF IInv, WaitersAreDue
<1>2. PICK q \in Pids : SchedGrant(q)
  <2>1. mode = "user" => p # curr_pid
    BY <1>1 DEF IInv, OneRunning
  <2>2. ~SystemCall
    BY <1>1, <2>1 DEF SystemCall, PlainCall, sys_sleep, sys_exit, sys_wait_intr, sys_crash,
        Crash, sys_fork, ForkInto, FreeSlot, sys_sem_open, sys_sem_destroy,
        sys_sem_wait, SemTake, SemBlock, sys_sem_post, UserCalls, IInv, TypeOK
  <2>3. ~Timer /\ ~DeviceIRQ /\ ~SchedIdle /\ ~UNCHANGED vars
    BY DEF Timer, TimerTick, TimerPreempt, DeviceIRQ, SchedIdle, vars
  <2>4. ASSUME NEW q \in Pids PROVE ~SchedDispatch(q) /\ ~SchedRebind(q)
    BY <1>1 DEF SchedDispatch, SchedRebind, Rebinds, IInv, TypeOK
  <2> QED BY <2>2, <2>3, <2>4 DEF Next, sched_process, Halted
<1>3. p = q
  BY <1>2 DEF SchedGrant, IInv, TypeOK
<1> QED BY <1>2, <1>3 DEF SchedGrant, pcb_exec, IInv, TypeOK

(* A waiter goes on in one way: with the processor and with a token that   *)
(* is gone from its semaphore.                                             *)
THEOREM SpecTokenPerGrant == Spec => TokenPerGrant
<1> DEFINE A == \A p \in Pids :
        Waiting(p) /\ wait_sem'[p] # wait_sem[p]
        => /\ curr_pid' = p
           /\ status'[p] = PCB_RUNNING
           /\ wait_sem'[p] = NOT_WAITING_SEM
           /\ sem_pool' = [sem_pool EXCEPT ![wait_sem[p]] = @ - 1]
<1>1. IInv /\ [Next]_vars => [A]_vars
  BY StepTokenPerGrant
<1> QED BY <1>1, SpecIInv, PTL DEF Spec, TokenPerGrant

LEMMA StepSuspendedUntouched ==
  ASSUME IInv, [Next]_vars, NEW p \in Pids,
         status[p] \in {PCB_SLEEPING, PCB_RUNNABLE},
         ~(curr_pid' = p /\ mode' = "user")
  PROVE  /\ status'[p] = status[p]
         /\ eax'[p] = eax[p]
         /\ wait_sem'[p] = wait_sem[p]
<1>1. mode \in {"user", "hlt"} => p # curr_pid
  BY DEF IInv, OneRunning
<1>2. CASE SystemCall
  BY <1>1, <1>2 DEF SystemCall, PlainCall, sys_sleep, sys_exit, sys_wait_intr, sys_crash,
      Crash, sys_fork, ForkInto, FreeSlot, sys_sem_open, sys_sem_destroy,
      sys_sem_wait, SemTake, SemBlock, sys_sem_post, UserCalls, LeaveCpu, IInv,
      TypeOK
<1>3. CASE Timer \/ DeviceIRQ
  BY <1>1, <1>3 DEF Timer, TimerTick, TimerPreempt, DeviceIRQ, Return, LeaveCpu,
      IInv, TypeOK
<1>4. CASE SchedIdle \/ UNCHANGED vars
  BY <1>4 DEF SchedIdle, vars
<1>5. ASSUME NEW q \in Pids, SchedDispatch(q) \/ SchedGrant(q)
      PROVE  /\ status'[p] = status[p]
             /\ eax'[p] = eax[p]
             /\ wait_sem'[p] = wait_sem[p]
  <2>1. p # q
    BY <1>5 DEF SchedDispatch, SchedGrant, pcb_exec
  <2> QED BY <1>5, <2>1 DEF SchedDispatch, SchedGrant, pcb_exec, IInv, TypeOK
<1>6. ASSUME NEW q \in Pids, SchedRebind(q)
      PROVE  /\ status'[p] = status[p]
             /\ eax'[p] = eax[p]
             /\ wait_sem'[p] = wait_sem[p]
  <2>1. p # curr_pid
    BY <1>6 DEF SchedRebind, PassStopsAt, Rebinds, IInv, OneRunning
  <2> QED BY <1>6, <2>1 DEF SchedRebind, IInv, TypeOK
<1> QED BY <1>2, <1>3, <1>4, <1>5, <1>6 DEF Next, sched_process, Halted

(* Nobody touches the PCB of a process that is off the processor.          *)
THEOREM SpecSuspendedUntouched == Spec => SuspendedUntouched
<1> DEFINE A == \A p \in Pids :
        /\ status[p] \in {PCB_SLEEPING, PCB_RUNNABLE}
        /\ ~(curr_pid' = p /\ mode' = "user")
        => /\ status'[p] = status[p]
           /\ eax'[p] = eax[p]
           /\ wait_sem'[p] = wait_sem[p]
<1>1. IInv /\ [Next]_vars => [A]_vars
  BY StepSuspendedUntouched
<1> QED BY <1>1, SpecIInv, PTL DEF Spec, SuspendedUntouched

=============================================================================
