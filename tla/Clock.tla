------------------------------- MODULE Clock -------------------------------
(***************************************************************************)
(* The clock of the kernel as it is: sys_runned_time, sys_last_time and    *)
(* PCB.wakeup_time are unsigned, wrap, and are compared with each other.   *)
(* Kernel has differences of them in their place.  The module carries both *)
(* and compares them, up to the moment when a sum of the code may wrap.    *)
(***************************************************************************)
EXTENDS Kernel

CONSTANT TIME_MAX    \* 2^32: the clock counts modulo this

ASSUME ClockAssumption == TIME_MAX \in Nat /\ SCHED_TIME_FREQ + MaxSleep + 2 < TIME_MAX

VARIABLES
  sys_runned_time,
  sys_last_time,
  wake               \* PCB.wakeup_time

clockvars == <<sys_runned_time, sys_last_time, wake>>

\* The sum of two unsigned ints.
Plus(m, n) == IF m + n < TIME_MAX THEN m + n ELSE m + n - TIME_MAX

ClockInit ==
  /\ sys_runned_time = 0
  /\ sys_last_time = 0
  /\ wake = [p \in Pids |-> 0]

-----------------------------------------------------------------------------

Advance == sys_runned_time' = Plus(sys_runned_time, 1)

Wakes(p, time) == wake' = [wake EXCEPT ![p] = time]

\* Mutant: the slice begins when the process does.
PassOnClock_NewSlice ==
  /\ sched_process
  /\ Advance
  /\ sys_last_time' = sys_runned_time'
  /\ UNCHANGED wake

PassOnClock ==
  /\ sched_process
  /\ Advance
  /\ UNCHANGED <<sys_last_time, wake>>

TickOnClock ==
  /\ TimerTick
  /\ Advance
  /\ UNCHANGED <<sys_last_time, wake>>

PreemptOnClock ==
  /\ TimerPreempt
  /\ Advance
  /\ sys_last_time' = sys_runned_time'
  /\ Wakes(curr_pid, Plus(sys_runned_time', 1))

SleepOnClock ==
  /\ \E time \in 0 .. MaxSleep : sys_sleep(time) /\ Wakes(curr_pid, Plus(sys_runned_time, time))
  /\ UNCHANGED <<sys_runned_time, sys_last_time>>

ForkOnClock ==
  /\ UserCalls
  /\ \E new \in Pids : ForkInto(new) /\ Wakes(new, wake[curr_pid])
  /\ UNCHANGED <<sys_runned_time, sys_last_time>>

\* Every other step neither reads a time nor sets one.
OffClock ==
  /\ \/ sys_exit \/ sys_wait_intr \/ sys_crash \/ DeviceIRQ \/ Halted
     \/ UserCalls /\ NoFreeSlot /\ Crash
     \/ \E s \in Sems :
          \/ \E value \in 0 .. MaxCount : sys_sem_open(s, value)
          \/ sys_sem_destroy(s) \/ sys_sem_wait(s) \/ sys_sem_post(s)
  /\ UNCHANGED clockvars

\* A step of Kernel, and what it does to the clock.
ClockStep ==
  PassOnClock \/ TickOnClock \/ PreemptOnClock \/ SleepOnClock \/ ForkOnClock \/ OffClock

\* Bound: a sum of the next step may wrap.
Late == sys_runned_time + SCHED_TIME_FREQ + MaxSleep + 2 >= TIME_MAX

ClockNext ==
  \/ ~Late /\ ClockStep
  \/ Late /\ UNCHANGED <<vars, clockvars>>

ClockSpec == Init /\ ClockInit /\ [][ClockNext]_<<vars, clockvars>>

-----------------------------------------------------------------------------
(* Properties.                                                             *)

\* The tests of kernel/trap.c:113 and kernel/sched.c:19, made after the clock
\* has been advanced.
SliceOver == Plus(sys_runned_time, 1) > Plus(sys_last_time, SCHED_TIME_FREQ)
SleepOver(p) == wake[p] <= Plus(sys_runned_time, 1)

(* Kernel decides as the code does: its differences, which are finite and  *)
(* have no past, make the comparisons of the 32-bit clock, as long as no   *)
(* sum of the code wraps.                                                  *)
ClockAgrees ==
  /\ SliceOver <=> slice >= SCHED_TIME_FREQ
  /\ \A p \in Pids : SleepOver(p) <=> Due(p)

=============================================================================
