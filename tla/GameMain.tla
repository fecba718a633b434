------------------------------ MODULE GameMain ------------------------------
(***************************************************************************)
(* main() of game/game.c on top of the kernel: a father that opens a       *)
(* semaphore and forks child_num children, each of which maps the father's *)
(* page, passes the semaphore, adds to a shared counter and posts.         *)
(*                                                                         *)
(* A user step is one system call or one access to the shared page; upc is *)
(* the next one of each process.  A process that blocks in a call has its  *)
(* upc after it already, as the eip of its saved frame.                    *)
(*                                                                         *)
(* Assumption: fork copies all of the father's memory.  The code does not  *)
(* see to that for forks in a row (kernel/pmap.c:54): the father's window  *)
(* may still lead to the child before, and a child that was not copied has *)
(* no program to run.  The run VirtMem_copy shows it.                      *)
(***************************************************************************)
EXTENDS Kernel, FiniteSetsExt

CONSTANTS
  child_num,    \* children the father forks (6 in the code)
  sem_value     \* initial count of the semaphore (2 in the code)

ASSUME GameAssumption ==
  /\ child_num \in Nat \ {0}
  /\ child_num < UPCB_NUM
  /\ sem_value \in Nat \ {0}
  /\ sem_value < MaxCount
  /\ MaxSleep > 0

sem_id == 0

Children == 1 .. child_num

VARIABLES
  upc,      \* the next step of the program of each process
  i,        \* the father's loop counter
  frame,    \* the physical page behind shared_mem, named by its first owner
  page,     \* *shared_p in each of these physical pages
  reg       \* the register that `*shared_p += ...' goes through

gvars == <<upc, i, frame, page, reg>>
allvars == <<vars, gvars>>

FatherSteps == {"open", "clear", "fork", "spin"}
ChildSteps  == {"share", "wait", "sleep", "load", "store", "post", "spin"}

GameInit ==
  /\ Init
  /\ upc = [p \in Pids |-> IF p = 0 THEN "open" ELSE "none"]
  /\ i = 0
  /\ frame = [p \in Pids |-> p]
  /\ page = [p \in Pids |-> 0]
  /\ reg = [p \in Pids |-> 0]

-----------------------------------------------------------------------------

At(p, step) == mode = "user" /\ curr_pid = p /\ upc[p] = step

Goto(step) == upc' = [upc EXCEPT ![curr_pid] = step]

Open(p) ==
  /\ At(p, "open")
  /\ sys_sem_open(sem_id, sem_value)
  /\ Goto("clear")
  /\ UNCHANGED <<i, frame, page, reg>>

Clear(p) ==
  /\ At(p, "clear")
  /\ page' = [page EXCEPT ![frame[p]] = 0]
  /\ Goto("fork")
  /\ UNCHANGED <<vars, i, frame, reg>>

\* The child gets a copy of the father's memory (assumed complete, see above);
\* its PCB has a frame of its own.  With child_num < UPCB_NUM there is always a free PCB.
Fork(p) ==
  /\ At(p, "fork")
  /\ i < child_num
  /\ i' = i + 1
  /\ sys_fork
  /\ \E new \in Pids :
       /\ FreeSlot(new)
       /\ upc' = [upc EXCEPT ![new] = "share"]
       /\ frame' = [frame EXCEPT ![new] = new]
       /\ page' = [page EXCEPT ![new] = page[frame[p]]]
  /\ UNCHANGED reg

ForkDone(p) ==
  /\ At(p, "fork")
  /\ i = child_num
  /\ Goto("spin")
  /\ UNCHANGED <<vars, i, frame, page, reg>>

\* Mutant: source and destination of sys_mem_share swapped.
Share_Swapped(p) ==
  /\ At(p, "share")
  /\ frame' = [frame EXCEPT ![0] = frame[p]]
  /\ Goto("wait")
  /\ UNCHANGED <<vars, i, page, reg>>

\* sys_mem_share(curr_pid, 0, shared_mem)
Share(p) ==
  /\ At(p, "share")
  /\ frame' = [frame EXCEPT ![p] = frame[0]]
  /\ Goto("wait")
  /\ UNCHANGED <<vars, i, page, reg>>

\* Mutant: a child that does not ask.
Wait_Skipped(p) ==
  /\ At(p, "wait")
  /\ Goto("sleep")
  /\ UNCHANGED <<vars, i, frame, page, reg>>

Wait(p) ==
  /\ At(p, "wait")
  /\ sys_sem_wait(sem_id)
  /\ Goto("sleep")
  /\ UNCHANGED <<i, frame, page, reg>>

Sleep(p) ==
  /\ At(p, "sleep")
  /\ sys_sleep(1)
  /\ Goto("load")
  /\ UNCHANGED <<i, frame, page, reg>>

Load(p) ==
  /\ At(p, "load")
  /\ reg' = [reg EXCEPT ![p] = page[frame[p]]]
  /\ Goto("store")
  /\ UNCHANGED <<vars, i, frame, page>>

Store(p) ==
  /\ At(p, "store")
  /\ page' = [page EXCEPT ![frame[p]] = reg[p] + (p % 3)]
  /\ Goto("post")
  /\ UNCHANGED <<vars, i, frame, reg>>

\* Mutant: no sys_sem_post.
Post_Forgotten(p) ==
  /\ At(p, "post")
  /\ Goto("spin")
  /\ UNCHANGED <<vars, i, frame, page, reg>>

Post(p) ==
  /\ At(p, "post")
  /\ sys_sem_post(sem_id)
  /\ Goto("spin")
  /\ UNCHANGED <<i, frame, page, reg>>

UserStep(p) ==
  \/ Open(p) \/ Clear(p) \/ Fork(p) \/ ForkDone(p)
  \/ Share(p) \/ Wait(p) \/ Sleep(p) \/ Load(p) \/ Store(p) \/ Post(p)

KernelStep == (Timer \/ sched_process \/ Halted) /\ UNCHANGED gvars

GameNext == KernelStep \/ \E p \in Pids : UserStep(p)

GameSpec == GameInit /\ [][GameNext]_allvars

(***************************************************************************)
(* As in Kernel; and a process that is given the processor again and again *)
(* gets on, since the timer ticks a hundred times a second and a tick      *)
(* takes the processor away at most once in SCHED_TIME_FREQ ticks.         *)
(***************************************************************************)
GameFairness ==
  /\ WF_allvars(sched_process /\ UNCHANGED gvars)
  /\ SF_allvars(Timer /\ UNCHANGED gvars)
  /\ \A p \in Pids : SF_allvars(UserStep(p))

GameFairSpec == GameSpec /\ GameFairness

-----------------------------------------------------------------------------
(* Properties.                                                             *)

(* The children that have passed the semaphore and not yet posted.  One    *)
(* that still waits is past the call only in its saved frame.              *)
Inside ==
  {p \in Pids : upc[p] \in {"sleep", "load", "store", "post"} /\ ~Waiting(p)}

Finished == {p \in Children : upc[p] = "spin"}

GameTypeOK ==
  /\ TypeOK
  /\ upc \in [Pids -> FatherSteps \cup ChildSteps \cup {"none"}]
  /\ i \in 0 .. child_num
  /\ frame \in [Pids -> Pids]
  /\ page \in [Pids -> Nat]
  /\ reg \in [Pids -> Nat]

(* No token is lost or made up between a call that takes one and a post,   *)
(* whether the call took it or the scheduler did on behalf of a sleeper.   *)
Conservation ==
  upc[0] # "open" => sem_pool[sem_id] + Cardinality(Inside) = sem_value

(* game/game.c:134: "at most 2 processes are allowed" in the section.      *)
AtMostTwo == Cardinality(Inside) <= sem_value

Added == {p \in Children : upc[p] \in {"post", "spin"}}

(* Every child gets through the section once the first one exists.  Before  *)
(* that the father is alone, and a father whose time slice ends while he   *)
(* is alone never runs again: sched_process does not look at the caller.   *)
(* That every child has a program to run is the assumption on fork at the  *)
(* head of this module; on a machine whose TLB keeps the window from one   *)
(* fork to the next (kernel/pmap.c:54) it fails, and this with it.         *)
AllFinish == i > 0 ~> [](Finished = Children)

(* The demo implements the abstract critical section.                      *)
PhaseOf(c) ==
  IF upc[c] \in {"none", "share", "wait"} \/ Waiting(c) THEN "before"
  ELSE IF upc[c] = "spin" THEN "after"
  ELSE "inside"

Phase == [c \in Children |-> PhaseOf(c)]

Section == INSTANCE CriticalSection WITH
  Child <- Children, Capacity <- sem_value, phase <- Phase

ImplementsSection == Section!Spec

=============================================================================
