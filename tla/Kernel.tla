------------------------------- MODULE Kernel -------------------------------
(***************************************************************************)
(* The process table, the scheduler, the semaphores and the timer of the   *)
(* kernel: kernel/pcb.c, kernel/sched.c, kernel/sem.c, kernel/trap.c and   *)
(* the process calls of kernel/syscall.c.                                  *)
(*                                                                         *)
(* There is one processor.  Every gate is an interrupt gate, so kernel     *)
(* code runs with interrupts off and a trap handler is one atomic action,  *)
(* with two exceptions that are control locations of their own (`mode'):   *)
(* the hlt of sys_wait_intr, which opens interrupts inside the kernel, and *)
(* the endless loop of sched_process, one pass of which is one action.     *)
(* User code is any sequence of system calls.                              *)
(*                                                                         *)
(* The clock sys_runned_time is only ever compared with wakeup_time and    *)
(* with sys_last_time.  The model keeps the differences: wakeup_time[p] is *)
(* the number of ticks p still has to sleep (0 when it is due) and slice   *)
(* is sys_runned_time - sys_last_time, saturated where the comparison of   *)
(* the timer trap no longer changes.  This is exact as long as the 32-bit  *)
(* clock does not wrap.                                                    *)
(***************************************************************************)
EXTENDS Integers

CONSTANTS
  UPCB_NUM,         \* number of process control blocks (64 in the code)
  SEM_POOL_SIZE,    \* number of semaphores (3 in the code)
  SCHED_TIME_FREQ,  \* ticks in a time slice (0x60 in the code)
  MaxSleep,         \* bound: longest sleep a process asks for
  MaxCount          \* bound: highest count a semaphore is brought to

ASSUME KernelAssumption ==
  /\ UPCB_NUM \in Nat \ {0}
  /\ SEM_POOL_SIZE \in Nat \ {0}
  /\ SCHED_TIME_FREQ \in Nat
  /\ MaxSleep \in Nat
  /\ MaxCount \in Nat

Pids == 0 .. UPCB_NUM - 1
Sems == 0 .. SEM_POOL_SIZE - 1
NOT_WAITING_SEM == -1

PCB_FREE     == "PCB_FREE"
PCB_SLEEPING == "PCB_SLEEPING"
PCB_RUNNABLE == "PCB_RUNNABLE"
PCB_RUNNING  == "PCB_RUNNING"
Statuses     == {PCB_FREE, PCB_SLEEPING, PCB_RUNNABLE, PCB_RUNNING}

(***************************************************************************)
(* What the eax of a saved trap frame gives back when the process resumes: *)
(* its own value (the timer took the processor), 0 (a forked child), or    *)
(* the number of a system call whose return value was never stored.        *)
(***************************************************************************)
EaxValues ==
  {"own", "zero", "SYS_exit", "SYS_sleep", "SYS_wait_intr", "SYS_sem_wait"}

VARIABLES
  curr_pid,     \* the process that owns the processor, or owned it last
  status,       \* PCB.status
  wakeup_time,  \* PCB.wakeup_time - sys_runned_time, 0 once it is due
  wait_sem,     \* PCB.wait_sem
  eax,          \* PCB.tf.tf_regs.reg_eax
  sem_pool,     \* the count of each semaphore
  slice,        \* sys_runned_time - sys_last_time
  mode          \* "user", "hlt" (sys_wait_intr), "sched", "halt" (sys_crash)

vars == <<curr_pid, status, wakeup_time, wait_sem, eax, sem_pool, slice, mode>>

Init ==
  /\ curr_pid = 0
  /\ status = [p \in Pids |-> IF p = 0 THEN PCB_RUNNING ELSE PCB_FREE]
  /\ wakeup_time = [p \in Pids |-> 0]
  /\ wait_sem = [p \in Pids |-> NOT_WAITING_SEM]
  /\ eax = [p \in Pids |-> "own"]
  /\ sem_pool = [s \in Sems |-> 0]
  /\ slice = 0
  /\ mode = "user"

-----------------------------------------------------------------------------
(* The clock.  Both places that advance sys_runned_time, the timer trap    *)
(* and a pass of the scheduler, use these two.                             *)

Elapsed == [p \in Pids |-> IF wakeup_time[p] = 0 THEN 0 ELSE wakeup_time[p] - 1]

NextSlice == IF slice < SCHED_TIME_FREQ THEN slice + 1 ELSE slice

-----------------------------------------------------------------------------
(* System calls.  User code of curr_pid traps; a call that does not block  *)
(* returns to it at once.  sys_exit of the user library repeats the call   *)
(* for ever, so a process that is given the processor again after it       *)
(* called sys_exit can do nothing but call it again.                       *)

InExitStub(p) == eax[p] = "SYS_exit"

UserCalls == mode = "user" /\ ~InExitStub(curr_pid)

\* The running process gives up the processor in state st, with ret left in
\* the eax of its trap frame.
LeaveCpu(st, ret) ==
  /\ status' = [status EXCEPT ![curr_pid] = st]
  /\ eax' = [eax EXCEPT ![curr_pid] = ret]
  /\ mode' = "sched"

sys_sleep(time) ==
  /\ UserCalls
  /\ LeaveCpu(PCB_SLEEPING, "SYS_sleep")
  /\ wakeup_time' = [wakeup_time EXCEPT ![curr_pid] = time]
  /\ UNCHANGED <<curr_pid, wait_sem, sem_pool, slice>>

sys_exit ==
  /\ mode = "user"
  /\ LeaveCpu(PCB_FREE, "SYS_exit")
  /\ UNCHANGED <<curr_pid, wakeup_time, wait_sem, sem_pool, slice>>

sys_wait_intr ==
  /\ UserCalls
  /\ mode' = "hlt"
  /\ eax' = [eax EXCEPT ![curr_pid] = "SYS_wait_intr"]
  /\ UNCHANGED <<curr_pid, status, wakeup_time, wait_sem, sem_pool, slice>>

\* panic() and the system call SYS_crash both end in sys_crash.
Crash ==
  /\ mode' = "halt"
  /\ UNCHANGED <<curr_pid, status, wakeup_time, wait_sem, eax, sem_pool, slice>>

sys_crash == UserCalls /\ Crash

\* Mutant: the search of sys_fork takes a PCB that is merely not running.
FreeSlot_NotRunning(new) ==
  /\ new # curr_pid
  /\ status[new] # PCB_RUNNING
  /\ \A q \in Pids : q < new /\ q # curr_pid => status[q] # PCB_FREE

\* The PCB sys_fork takes: the first free one that is not the caller's.
FreeSlot(new) ==
  /\ new # curr_pid
  /\ status[new] = PCB_FREE
  /\ \A q \in Pids : q < new /\ q # curr_pid => status[q] # PCB_FREE

NoFreeSlot == \A q \in Pids \ {curr_pid} : status[q] # PCB_FREE

\* Mutant: the child keeps the eax of its father.
ForkInto_EaxCopied(new) ==
  /\ FreeSlot(new)
  /\ status' = [status EXCEPT ![new] = PCB_RUNNABLE]
  /\ wakeup_time' = [wakeup_time EXCEPT ![new] = wakeup_time[curr_pid]]
  /\ wait_sem' = [wait_sem EXCEPT ![new] = wait_sem[curr_pid]]
  /\ eax' = [eax EXCEPT ![new] = eax[curr_pid]]
  /\ UNCHANGED <<curr_pid, sem_pool, slice, mode>>

ForkInto(new) ==
  /\ FreeSlot(new)
  /\ status' = [status EXCEPT ![new] = PCB_RUNNABLE]
  /\ wakeup_time' = [wakeup_time EXCEPT ![new] = wakeup_time[curr_pid]]
  /\ wait_sem' = [wait_sem EXCEPT ![new] = wait_sem[curr_pid]]
  /\ eax' = [eax EXCEPT ![new] = "zero"]
  /\ UNCHANGED <<curr_pid, sem_pool, slice, mode>>

sys_fork ==
  /\ UserCalls
  /\ \/ \E new \in Pids : ForkInto(new)
     \/ NoFreeSlot /\ Crash

sys_sem_open(s, value) ==
  /\ UserCalls
  /\ \/ /\ value > 0
        /\ sem_pool' = [sem_pool EXCEPT ![s] = value]
        /\ UNCHANGED <<curr_pid, status, wakeup_time, wait_sem, eax, slice, mode>>
     \/ value <= 0 /\ Crash

sys_sem_destroy(s) ==
  /\ UserCalls
  /\ sem_pool' = [sem_pool EXCEPT ![s] = 0]
  /\ UNCHANGED <<curr_pid, status, wakeup_time, wait_sem, eax, slice, mode>>

\* Mutants: a call that takes a token without looking at the count; a call
\* that starts the scheduler with the caller still marked running.
SemTake_Unchecked(s) ==
  /\ sem_pool' = [sem_pool EXCEPT ![s] = @ - 1]
  /\ UNCHANGED <<curr_pid, status, wakeup_time, wait_sem, eax, slice, mode>>

SemBlock_StillRunning(s) ==
  /\ sem_pool[s] = 0
  /\ wait_sem' = [wait_sem EXCEPT ![curr_pid] = s]
  /\ LeaveCpu(status[curr_pid], "SYS_sem_wait")
  /\ UNCHANGED <<curr_pid, wakeup_time, sem_pool, slice>>

\* Called by the running process.  With the count at 0 it goes to sleep on s;
\* its wakeup_time stays what its last sleep left.
SemTake(s) ==
  /\ sem_pool[s] > 0
  /\ sem_pool' = [sem_pool EXCEPT ![s] = @ - 1]
  /\ UNCHANGED <<curr_pid, status, wakeup_time, wait_sem, eax, slice, mode>>

SemBlock(s) ==
  /\ sem_pool[s] = 0
  /\ wait_sem' = [wait_sem EXCEPT ![curr_pid] = s]
  /\ LeaveCpu(PCB_SLEEPING, "SYS_sem_wait")
  /\ UNCHANGED <<curr_pid, wakeup_time, sem_pool, slice>>

sys_sem_wait(s) == UserCalls /\ (SemTake(s) \/ SemBlock(s))

\* A post only counts: the waiters stay asleep until the scheduler looks.
sys_sem_post(s) ==
  /\ UserCalls
  /\ sem_pool[s] < MaxCount
  /\ sem_pool' = [sem_pool EXCEPT ![s] = @ + 1]
  /\ UNCHANGED <<curr_pid, status, wakeup_time, wait_sem, eax, slice, mode>>

-----------------------------------------------------------------------------
(* Interrupts: taken in user code and in sys_wait_intr between its sti and *)
(* its cli.  One that comes after the sti but before the hlt does not end  *)
(* the hlt.  The interrupted kernel context is lost when the timer         *)
(* switches processes.                                                     *)

FrameEax == IF mode = "hlt" THEN "SYS_wait_intr" ELSE eax[curr_pid]

\* The interrupted user code goes on, or sys_wait_intr does: it ends, with its
\* return value in the hands of user code, or it still has to hlt.
Return ==
  \/ /\ mode' = "user"
     /\ eax' = [eax EXCEPT ![curr_pid] = IF mode = "hlt" THEN "own" ELSE @]
  \/ mode = "hlt" /\ UNCHANGED <<mode, eax>>

TimerTick ==
  /\ mode \in {"user", "hlt"}
  /\ slice < SCHED_TIME_FREQ
  /\ slice' = slice + 1
  /\ wakeup_time' = Elapsed
  /\ Return
  /\ UNCHANGED <<curr_pid, status, wait_sem, sem_pool>>

\* The slice is used up: the trap handler calls sys_sleep(1).
TimerPreempt ==
  /\ mode \in {"user", "hlt"}
  /\ slice >= SCHED_TIME_FREQ
  /\ slice' = 0
  /\ wakeup_time' = [Elapsed EXCEPT ![curr_pid] = 1]
  /\ LeaveCpu(PCB_SLEEPING, FrameEax)
  /\ UNCHANGED <<curr_pid, wait_sem, sem_pool>>

\* The keyboard or the disk; in user code they change nothing here.
DeviceIRQ ==
  /\ mode = "hlt"
  /\ Return
  /\ UNCHANGED <<curr_pid, status, wakeup_time, wait_sem, sem_pool, slice>>

Timer == TimerTick \/ TimerPreempt

-----------------------------------------------------------------------------
(* sched_process.  A pass advances the clock, then looks at the other      *)
(* processes in round-robin order, starting after curr_pid.                *)

\* Mutant: every pass starts with process 0.
ScanPos_FromZero(p) == p

ScanPos(p) == (p - curr_pid - 1) % UPCB_NUM

Due(p) == Elapsed[p] = 0

Waiting(p) == wait_sem[p] # NOT_WAITING_SEM

\* A new child, or a sleeper that is due and waits for no semaphore.
Dispatchable(p) ==
  \/ status[p] = PCB_RUNNABLE
  \/ status[p] = PCB_SLEEPING /\ Due(p) /\ ~Waiting(p)

\* Mutant: the last token is never handed out.
Grantable_OffByOne(p) ==
  /\ status[p] = PCB_SLEEPING
  /\ Due(p)
  /\ Waiting(p)
  /\ sem_pool[wait_sem[p]] > 1

\* A sleeper that waits for a semaphore with a token left.
Grantable(p) ==
  /\ status[p] = PCB_SLEEPING
  /\ Due(p)
  /\ Waiting(p)
  /\ sem_pool[wait_sem[p]] > 0

\* For a sleeper p whose semaphore is empty sys_sem_wait refuses, but only
\* if the status of curr_pid is PCB_SLEEPING.  After sys_exit it is PCB_FREE,
\* and the call blocks curr_pid.
Rebinds(p) ==
  /\ status[p] = PCB_SLEEPING
  /\ Due(p)
  /\ Waiting(p)
  /\ sem_pool[wait_sem[p]] = 0
  /\ status[curr_pid] # PCB_SLEEPING

StopsAt(p) == p # curr_pid /\ (Dispatchable(p) \/ Grantable(p) \/ Rebinds(p))

FirstStop(p) ==
  /\ StopsAt(p)
  /\ \A q \in Pids : StopsAt(q) => ScanPos(p) <= ScanPos(q)

\* One pass that stops at p; the clock has advanced.
PassStopsAt(p) ==
  /\ mode = "sched"
  /\ FirstStop(p)
  /\ wakeup_time' = Elapsed
  /\ slice' = NextSlice

pcb_exec(p) ==
  /\ curr_pid' = p
  /\ status' = [status EXCEPT ![p] = PCB_RUNNING]
  /\ eax' = [eax EXCEPT ![p] = IF @ = "SYS_exit" THEN @ ELSE "own"]
  /\ mode' = "user"

SchedDispatch(p) ==
  /\ PassStopsAt(p)
  /\ Dispatchable(p)
  /\ pcb_exec(p)
  /\ UNCHANGED <<wait_sem, sem_pool>>

\* Mutants: the scheduler forgets wait_sem = NOT_WAITING_SEM, or looks at the
\* count without taking the token.
SchedGrant_StillWaiting(p) ==
  /\ PassStopsAt(p)
  /\ Grantable(p)
  /\ sem_pool' = [sem_pool EXCEPT ![wait_sem[p]] = @ - 1]
  /\ pcb_exec(p)
  /\ UNCHANGED wait_sem

SchedGrant_TokenKept(p) ==
  /\ PassStopsAt(p)
  /\ Grantable(p)
  /\ wait_sem' = [wait_sem EXCEPT ![p] = NOT_WAITING_SEM]
  /\ pcb_exec(p)
  /\ UNCHANGED sem_pool

SchedGrant(p) ==
  /\ PassStopsAt(p)
  /\ Grantable(p)
  /\ sem_pool' = [sem_pool EXCEPT ![wait_sem[p]] = @ - 1]
  /\ wait_sem' = [wait_sem EXCEPT ![p] = NOT_WAITING_SEM]
  /\ pcb_exec(p)

\* The call blocks curr_pid and starts sched_process again.
SchedRebind(p) ==
  /\ PassStopsAt(p)
  /\ Rebinds(p)
  /\ status' = [status EXCEPT ![curr_pid] = PCB_SLEEPING]
  /\ wait_sem' = [wait_sem EXCEPT ![curr_pid] = wait_sem[p]]
  /\ UNCHANGED <<curr_pid, eax, sem_pool, mode>>

\* "No runnable process: looping."
SchedIdle ==
  /\ mode = "sched"
  /\ \A p \in Pids : ~StopsAt(p)
  /\ wakeup_time' = Elapsed
  /\ slice' = NextSlice
  /\ UNCHANGED <<curr_pid, status, wait_sem, eax, sem_pool, mode>>

sched_process ==
  \/ SchedIdle
  \/ \E p \in Pids : SchedDispatch(p) \/ SchedGrant(p) \/ SchedRebind(p)

\* for (;;) cli; hlt
Halted == mode = "halt" /\ UNCHANGED vars

-----------------------------------------------------------------------------

\* Every call but sys_fork.
PlainCall ==
  \/ \E time \in 0 .. MaxSleep : sys_sleep(time)
  \/ sys_exit
  \/ sys_wait_intr
  \/ sys_crash
  \/ \E s \in Sems :
       \/ \E value \in 0 .. MaxCount : sys_sem_open(s, value)
       \/ sys_sem_destroy(s)
       \/ sys_sem_wait(s)
       \/ sys_sem_post(s)

SystemCall == sys_fork \/ PlainCall

Next == SystemCall \/ Timer \/ DeviceIRQ \/ sched_process \/ Halted

Spec == Init /\ [][Next]_vars

(***************************************************************************)
(* Kernel code runs to completion, and the 8259 latches the timer line     *)
(* while interrupts are off, so a tick that finds them open again and      *)
(* again is taken.  Nothing is assumed of user code.                       *)
(***************************************************************************)
Fairness == WF_vars(sched_process) /\ SF_vars(Timer)

FairSpec == Spec /\ Fairness

-----------------------------------------------------------------------------
(* Properties.                                                             *)

(* The values each variable takes; in particular no count goes below 0.    *)
TypeOK ==
  /\ curr_pid \in Pids
  /\ status \in [Pids -> Statuses]
  /\ wakeup_time \in [Pids -> Nat]
  /\ wait_sem \in [Pids -> Sems \cup {NOT_WAITING_SEM}]
  /\ eax \in [Pids -> EaxValues]
  /\ sem_pool \in [Sems -> Nat]
  /\ slice \in 0 .. SCHED_TIME_FREQ
  /\ mode \in {"user", "hlt", "sched", "halt"}

(* The processor has one owner: a process marked running is the current    *)
(* one, it is so marked whenever its code can run, and the assertion at    *)
(* the head of sched_process holds (kernel/sched.c:9).                     *)
OneRunning ==
  /\ \A p \in Pids : status[p] = PCB_RUNNING => p = curr_pid
  /\ mode \in {"user", "hlt"} => status[curr_pid] = PCB_RUNNING
  /\ mode = "sched" => status[curr_pid] \in {PCB_SLEEPING, PCB_FREE}

(* sys_sem_wait leaves wakeup_time as the last sleep set it.  That stale   *)
(* value never holds a waiter back: whoever waits is asleep and due.       *)
WaitersAreDue ==
  \A p \in Pids : Waiting(p) => status[p] = PCB_SLEEPING /\ wakeup_time[p] = 0

(* A saved frame that returns 0 is that of a child not yet started: no     *)
(* child returns from sys_fork twice and no other process returns 0 by     *)
(* mistake.                                                                *)
ZeroIsForNewChildren ==
  \A p \in Pids : eax[p] = "zero" <=> status[p] = PCB_RUNNABLE

(* While a process is off the processor nobody touches its PCB: sys_fork   *)
(* takes no slot in use, no trap writes to the wrong process, a pass of    *)
(* the scheduler leaves those it skips alone.                              *)
SuspendedUntouched ==
  [][\A p \in Pids :
        /\ status[p] \in {PCB_SLEEPING, PCB_RUNNABLE}
        /\ ~(curr_pid' = p /\ mode' = "user")
        => /\ status'[p] = status[p]
           /\ eax'[p] = eax[p]
           /\ wait_sem'[p] = wait_sem[p]]_vars

(* A process leaves the wait for a semaphore in one way: it is given the   *)
(* processor and one token of that semaphore is gone.                      *)
TokenPerGrant ==
  [][\A p \in Pids :
        Waiting(p) /\ wait_sem'[p] # wait_sem[p]
        => /\ curr_pid' = p
           /\ status'[p] = PCB_RUNNING
           /\ wait_sem'[p] = NOT_WAITING_SEM
           /\ sem_pool' = [sem_pool EXCEPT ![wait_sem[p]] = @ - 1]]_vars

(* The round-robin order starves nobody: a process that is off the         *)
(* processor and waits for no semaphore runs again, whatever the others    *)
(* do.  (A process that called the scheduler itself is not looked at until *)
(* another one has run.)                                                   *)
NoStarvation ==
  \A p \in Pids :
    /\ status[p] \in {PCB_SLEEPING, PCB_RUNNABLE}
    /\ ~Waiting(p)
    /\ p # curr_pid
    ~> status[p] = PCB_RUNNING \/ mode = "halt"

(* A post wakes nobody, yet no wake-up is lost: a process does not wait    *)
(* for ever on a semaphore that keeps a token.                             *)
NoLostWakeup ==
  \A p \in Pids :
    []<>(\/ ~Waiting(p)
         \/ sem_pool[wait_sem[p]] = 0
         \/ p = curr_pid
         \/ mode = "halt")

-----------------------------------------------------------------------------
(* What the source says of itself and the code does not do.                *)

(* kernel/sched.c:30: the loop that finds nothing to run reports that      *)
(* there is no runnable process.  So no process is then due.               *)
IdleMeansNoneDue ==
  [][SchedIdle => \A p \in Pids : ~Dispatchable(p)]_vars

(* kernel/syscall.c:39: a process that called sys_exit has exited, and its *)
(* PCB stays free until sys_fork makes a new process of it.                *)
ExitIsFinal ==
  [][\A p \in Pids :
        status[p] = PCB_FREE => status'[p] \in {PCB_FREE, PCB_RUNNABLE}]_vars

=============================================================================
