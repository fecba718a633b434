----------------------------- MODULE GameProofs -----------------------------
(***************************************************************************)
(* Proofs about GameMain, for every number of processes and children and   *)
(* every initial count: no token is lost, at most sem_value children are   *)
(* inside, the demo implements CriticalSection, and the children's counter *)
(* holds the sum of what they added.                                       *)
(***************************************************************************)
EXTENDS MCGame, KernelProofs, FiniteSetTheorems, WellFoundedInduction

MemOK ==
  /\ frame \in [Pids -> Pids]
  /\ page \in [Pids -> Nat]
  /\ reg \in [Pids -> Nat]

(* How far the program has come and what the kernel knows of it: PCBs 0..i *)
(* are in use and no other, the demo never halts the machine or waits for  *)
(* an interrupt, and a process that waits does so at the semaphore.        *)
Shape ==
  /\ i \in 0 .. child_num
  /\ upc \in [Pids -> FatherSteps \cup ChildSteps \cup {"none"}]
  /\ upc[0] \in FatherSteps
  /\ \A p \in Pids \ {0} : upc[p] \in ChildSteps \cup {"none"}
  /\ \A p \in Pids : upc[p] = "none" <=> p > i
  /\ \A p \in Pids : status[p] = PCB_FREE <=> p > i
  /\ status[curr_pid] # PCB_FREE
  /\ mode \in {"user", "sched"}
  /\ upc[0] \in {"open", "clear"} => i = 0
  /\ \A p \in Pids : Waiting(p) => upc[p] = "sleep" /\ wait_sem[p] = sem_id

GInv ==
  /\ IInv
  /\ MemOK
  /\ Shape
  /\ Conservation

USE DEF sem_id, PCB_FREE, PCB_SLEEPING, PCB_RUNNABLE, PCB_RUNNING,
        NOT_WAITING_SEM

LEMMA ZeroIsPid == 0 \in Pids /\ sem_id \in Sems /\ Children \subseteq Pids
  BY KernelAssumption, GameAssumption DEF Pids, Sems, Children

LEMMA InsideFinite ==
  /\ IsFiniteSet(Inside)
  /\ Cardinality(Inside) \in Nat
<1>1. IsFiniteSet(Pids)
  BY FS_Interval, KernelAssumption DEF Pids
<1>2. Inside \in SUBSET Pids
  BY DEF Inside
<1> QED BY <1>1, <1>2, FS_Subset, FS_CardinalityType

-----------------------------------------------------------------------------
(* Initially.                                                              *)

LEMMA InitGInv == GameInit => GInv
<1> SUFFICES ASSUME GameInit PROVE GInv
  OBVIOUS
<1>1. IInv
  BY InitIInv DEF GameInit
<1>2. MemOK
  BY DEF GameInit, MemOK, Pids
<1>3. Shape
  BY GameAssumption, ZeroIsPid
  DEF GameInit, Init, Shape, FatherSteps, ChildSteps, Waiting, Pids
<1>4. Conservation
  BY ZeroIsPid DEF GameInit, Conservation
<1> QED BY <1>1, <1>2, <1>3, <1>4 DEF GInv

-----------------------------------------------------------------------------
(* Every step of the demo is a step of the kernel, or no step of it.       *)

LEMMA GameStepIsKernelStep ==
  ASSUME [GameNext]_allvars
  PROVE  [Next]_vars
<1>1. CASE KernelStep
  BY <1>1 DEF KernelStep, Next
<1>2. CASE UNCHANGED allvars
  BY <1>2 DEF allvars
<1>3. ASSUME NEW p \in Pids, UserStep(p)
      PROVE  [Next]_vars
  <2>1. CASE Open(p)
    BY <2>1, GameAssumption, KernelAssumption, ZeroIsPid
    DEF Open, Next, SystemCall, PlainCall
  <2>2. CASE Fork(p)
    BY <2>2 DEF Fork, Next, SystemCall, PlainCall
  <2>3. CASE Wait(p)
    BY <2>3, ZeroIsPid DEF Wait, Next, SystemCall, PlainCall
  <2>4. CASE Sleep(p)
    <3>1. 1 \in 0 .. MaxSleep
      BY GameAssumption, KernelAssumption
    <3> QED BY <2>4, <3>1 DEF Sleep, Next, SystemCall, PlainCall
  <2>5. CASE Post(p)
    BY <2>5, ZeroIsPid DEF Post, Next, SystemCall, PlainCall
  <2>6. CASE Clear(p) \/ ForkDone(p) \/ Share(p) \/ Load(p) \/ Store(p)
    BY <2>6 DEF Clear, ForkDone, Share, Load, Store
  <2> QED BY <1>3, <2>1, <2>2, <2>3, <2>4, <2>5, <2>6 DEF UserStep
<1> QED BY <1>1, <1>2, <1>3 DEF GameNext

LEMMA GameStepKeepsIInv ==
  ASSUME IInv, [GameNext]_allvars
  PROVE  IInv'
  BY GameStepIsKernelStep, NextKeepsIInv

LEMMA GameStepKeepsMemOK ==
  ASSUME IInv, MemOK, [GameNext]_allvars
  PROVE  MemOK'
<1>1. CASE KernelStep \/ UNCHANGED allvars
  BY <1>1 DEF KernelStep, allvars, gvars, MemOK
<1>2. ASSUME NEW p \in Pids, UserStep(p)
      PROVE  MemOK'
  <2>1. CASE Store(p)
    <3>1. reg[p] + (p % 3) \in Nat
      BY DEF MemOK, Pids
    <3> QED BY <2>1, <3>1 DEF Store, MemOK
  <2>2. CASE Clear(p) \/ Fork(p) \/ Share(p) \/ Load(p)
    BY <2>2, ZeroIsPid DEF Clear, Fork, Share, Load, MemOK
  <2>3. CASE Open(p) \/ ForkDone(p) \/ Wait(p) \/ Sleep(p) \/ Post(p)
    BY <2>3 DEF Open, ForkDone, Wait, Sleep, Post, MemOK
  <2> QED BY <1>2, <2>1, <2>2, <2>3 DEF UserStep
<1> QED BY <1>1, <1>2 DEF GameNext

-----------------------------------------------------------------------------
(* The shape of the program.                                               *)

(* The PCB that sys_fork takes is the next one: number i + 1.              *)
LEMMA ForkTakesNext ==
  ASSUME IInv, Shape, NEW new \in Pids, FreeSlot(new)
  PROVE  new = i + 1
<1>1. new > i /\ curr_pid <= i /\ curr_pid \in Pids
  BY DEF FreeSlot, Shape, IInv, TypeOK, Pids
<1>2. CASE i + 1 < new
  <2>1. i + 1 \in Pids /\ i + 1 # curr_pid
    BY <1>1, <1>2, GameAssumption, KernelAssumption DEF Shape, Pids
  <2>2. status[i + 1] # PCB_FREE
    BY <1>2, <2>1 DEF FreeSlot
  <2> QED BY <2>1, <2>2, GameAssumption DEF Shape, Pids
<1> QED BY <1>1, <1>2, GameAssumption DEF Shape, Pids

LEMMA ForkKeepsShape ==
  ASSUME IInv, Shape, NEW p \in Pids, Fork(p)
  PROVE  /\ Shape'
         /\ wait_sem' = [wait_sem EXCEPT ![i + 1] = NOT_WAITING_SEM]
         /\ upc' = [upc EXCEPT ![i + 1] = "share"]
         /\ i + 1 \in Pids \ {0}
         /\ upc[i + 1] = "none"
         /\ sem_pool' = sem_pool
<1>1. PICK new \in Pids : FreeSlot(new) /\ upc' = [upc EXCEPT ![new] = "share"]
  BY DEF Fork
<1>2. new = i + 1
  BY <1>1, ForkTakesNext
<1>3. ForkInto(new)
  <2>1. ~NoFreeSlot
    BY <1>1 DEF NoFreeSlot, FreeSlot
  <2>2. PICK q \in Pids : ForkInto(q)
    BY <2>1 DEF Fork, sys_fork
  <2> QED BY <1>2, <2>2, ForkTakesNext DEF ForkInto
<1>4. wait_sem[curr_pid] = NOT_WAITING_SEM
  BY DEF IInv, OneRunning, WaitersAreDue, Waiting, TypeOK, Fork, At
<1>5. i < child_num /\ i' = i + 1 /\ upc[0] = upc'[0] /\ new # 0
  BY <1>1, <1>2, GameAssumption, ZeroIsPid DEF Fork, Shape
<1>6. upc[new] = "none"
  BY <1>1, <1>2, GameAssumption DEF Shape
<1>7. upc[0] \notin {"open", "clear"}
  <2>1. p = 0
    BY DEF Fork, At, Shape, ChildSteps
  <2> QED BY <2>1 DEF Fork, At
<1>8. Shape'
  <2>1. i' \in 0 .. child_num
    BY <1>5, GameAssumption DEF Shape
  <2>2. \A q \in Pids : (q > i') <=> (q > i /\ q # new)
    BY <1>2, <1>5, GameAssumption DEF Shape, Pids
  <2>3. /\ upc' \in [Pids -> FatherSteps \cup ChildSteps \cup {"none"}]
        /\ upc'[0] \in FatherSteps
        /\ \A q \in Pids \ {0} : upc'[q] \in ChildSteps \cup {"none"}
    BY <1>1, <1>5 DEF Shape, ChildSteps
  <2>4. \A q \in Pids : upc'[q] = "none" <=> q > i'
    BY <1>1, <2>2 DEF Shape
  <2>5. \A q \in Pids : status'[q] = PCB_FREE <=> q > i'
    BY <1>3, <2>2 DEF Shape, ForkInto, IInv, TypeOK
  <2>6. status'[curr_pid'] # PCB_FREE /\ mode' \in {"user", "sched"}
    BY <1>3 DEF Shape, ForkInto, FreeSlot, IInv, TypeOK
  <2>7. \A q \in Pids : Waiting(q)' => upc'[q] = "sleep" /\ wait_sem'[q] = sem_id
    BY <1>1, <1>3, <1>4, <1>6 DEF Shape, ForkInto, Waiting, IInv, TypeOK
  <2> QED BY <2>1, <2>3, <2>4, <2>5, <2>6, <2>7, <1>5, <1>7 DEF Shape
<1> QED BY <1>1, <1>2, <1>3, <1>4, <1>5, <1>6, <1>8 DEF ForkInto

(* A step of the program of p that leaves the process table alone.         *)
LEMMA QuietStepKeepsShape ==
  ASSUME IInv, Shape, NEW p \in Pids, UserStep(p), ~Fork(p),
         UNCHANGED <<curr_pid, status, wait_sem, mode>>
  PROVE  Shape'
<1>1. At(p, upc[p])
  BY DEF UserStep, Open, Clear, ForkDone, Share, Wait, Sleep, Load, Store, Post, At
<1>2. ~Waiting(p)
  BY <1>1 DEF At, IInv, OneRunning, WaitersAreDue
<1>3. i' = i /\ \E step \in FatherSteps \cup ChildSteps :
        /\ Goto(step)
        /\ p = 0 => step \in FatherSteps /\ step # "open"
        /\ p = 0 /\ step = "clear" => upc[0] = "open"
        /\ p # 0 => step \in ChildSteps
  BY DEF UserStep, Open, Clear, ForkDone, Share, Wait, Sleep, Load, Store, Post,
         At, FatherSteps, ChildSteps, Shape
<1>4. upc[p] # "none"
  BY DEF UserStep, Open, Clear, ForkDone, Share, Wait, Sleep, Load, Store, Post, At
<1> QED BY <1>1, <1>2, <1>3, <1>4, ZeroIsPid
  DEF Shape, Goto, At, Waiting, FatherSteps, ChildSteps, IInv, TypeOK

LEMMA SleepKeepsShape ==
  ASSUME IInv, Shape, NEW p \in Pids, Sleep(p)
  PROVE  Shape'
<1>1. ~Waiting(p) /\ p # 0 /\ curr_pid = p
  BY DEF Sleep, At, IInv, OneRunning, WaitersAreDue, Shape, FatherSteps
<1> QED BY <1>1 DEF Sleep, At, Goto, sys_sleep, LeaveCpu, Shape, Waiting, ChildSteps,
  IInv, TypeOK

LEMMA WaitKeepsShape ==
  ASSUME IInv, Shape, NEW p \in Pids, Wait(p)
  PROVE  Shape'
<1>1. p # 0 /\ curr_pid = p
  BY DEF Wait, At, Shape, FatherSteps
<1>2. CASE SemTake(sem_id)
  BY <1>2, QuietStepKeepsShape DEF SemTake, UserStep, Wait, Fork, At
<1>3. CASE SemBlock(sem_id)
  BY <1>1, <1>3 DEF Wait, At, Goto, SemBlock, LeaveCpu, Shape, Waiting, ChildSteps,
     IInv, TypeOK
<1> QED BY <1>2, <1>3 DEF Wait, sys_sem_wait

LEMMA KernelStepKeepsShape ==
  ASSUME IInv, Shape, KernelStep
  PROVE  Shape'
<1>1. UNCHANGED <<upc, i>>
  BY DEF KernelStep, gvars
<1>2. CASE TimerTick \/ SchedIdle
  BY <1>1, <1>2 DEF TimerTick, Return, SchedIdle, Shape, Waiting
<1>3. CASE TimerPreempt
  BY <1>1, <1>3 DEF TimerPreempt, LeaveCpu, Shape, Waiting, IInv, TypeOK
<1>4. ASSUME NEW p \in Pids, SchedDispatch(p)
      PROVE  Shape'
  BY <1>1, <1>4 DEF SchedDispatch, Dispatchable, pcb_exec, Shape, Waiting, IInv, TypeOK
<1>5. ASSUME NEW p \in Pids, SchedGrant(p)
      PROVE  Shape'
  BY <1>1, <1>5 DEF SchedGrant, Grantable, pcb_exec, Shape, Waiting, IInv, TypeOK
<1>6. ASSUME NEW p \in Pids PROVE ~SchedRebind(p)
  BY DEF SchedRebind, PassStopsAt, Rebinds, Shape, IInv, OneRunning
<1>7. ~Halted
  BY DEF Halted, Shape
<1> QED BY <1>2, <1>3, <1>4, <1>5, <1>6, <1>7 DEF KernelStep, Timer, sched_process

LEMMA GameStepKeepsShape ==
  ASSUME IInv, Shape, [GameNext]_allvars
  PROVE  Shape'
<1>1. CASE KernelStep
  BY <1>1, KernelStepKeepsShape
<1>2. CASE UNCHANGED allvars
  BY <1>2 DEF allvars, vars, gvars, Shape, Waiting
<1>3. ASSUME NEW p \in Pids, UserStep(p)
      PROVE  Shape'
  <2>1. CASE Fork(p)
    BY <2>1, ForkKeepsShape
  <2>2. CASE Sleep(p)
    BY <2>2, SleepKeepsShape
  <2>3. CASE Wait(p)
    BY <2>3, WaitKeepsShape
  <2>4. CASE ~Fork(p) /\ ~Sleep(p) /\ ~Wait(p)
    <3>1. UNCHANGED <<curr_pid, status, wait_sem, mode>>
      <4>1. CASE Open(p)
        <5>1. ~(sem_value <= 0)
          BY GameAssumption
        <5> QED BY <4>1, <5>1 DEF Open, sys_sem_open
      <4>2. CASE Post(p)
        BY <4>2 DEF Post, sys_sem_post
      <4> QED BY <1>3, <2>4, <4>1, <4>2
        DEF UserStep, Clear, ForkDone, Share, Load, Store, vars
    <3> QED BY <1>3, <2>4, <3>1, QuietStepKeepsShape
  <2> QED BY <2>1, <2>2, <2>3, <2>4
<1> QED BY <1>1, <1>2, <1>3 DEF GameNext

-----------------------------------------------------------------------------
(* The tokens.                                                             *)

(* A step that moves nobody into or out of the section and leaves the      *)
(* semaphore alone.                                                        *)
LEMMA SameInside ==
  ASSUME Shape, Conservation, Inside' = Inside, sem_pool' = sem_pool,
         upc[0] = "open" => upc'[0] = "open"
  PROVE  Conservation'
  BY DEF Conservation

(* Whoever takes a token, the caller or the scheduler for a sleeper, adds  *)
(* one process to the section.                                             *)
LEMMA TokenTaken ==
  ASSUME IInv, Shape, Conservation, NEW p \in Pids, p \notin Inside,
         Inside' = Inside \cup {p}, upc[0] # "open", upc'[0] # "open",
         sem_pool[sem_id] > 0,
         sem_pool' = [sem_pool EXCEPT ![sem_id] = @ - 1]
  PROVE  Conservation' /\ Cardinality(Inside) < sem_value
<1>1. Cardinality(Inside') = Cardinality(Inside) + 1
  BY InsideFinite, FS_AddElement
<1>2. sem_pool[sem_id] \in Nat /\ sem_pool'[sem_id] = sem_pool[sem_id] - 1
  BY ZeroIsPid DEF IInv, TypeOK
<1> QED BY <1>1, <1>2, InsideFinite, GameAssumption DEF Conservation

LEMMA TokenPosted ==
  ASSUME IInv, Shape, Conservation, NEW p \in Inside,
         Inside' = Inside \ {p}, upc[0] # "open", upc'[0] # "open",
         sem_pool' = [sem_pool EXCEPT ![sem_id] = @ + 1]
  PROVE  Conservation'
<1>1. Cardinality(Inside') = Cardinality(Inside) - 1
  BY InsideFinite, FS_RemoveElement
<1>2. sem_pool[sem_id] \in Nat /\ sem_pool'[sem_id] = sem_pool[sem_id] + 1
  BY ZeroIsPid DEF IInv, TypeOK
<1> QED BY <1>1, <1>2, InsideFinite, GameAssumption DEF Conservation

(* A process that has been forked finds the semaphore open.                *)
LEMMA ChildrenComeLater ==
  ASSUME Shape, NEW p \in Pids \ {0}, upc[p] # "none"
  PROVE  upc[0] # "open"
  BY GameAssumption DEF Shape, Pids

LEMMA OpenConserves ==
  ASSUME IInv, Shape, NEW p \in Pids, Open(p)
  PROVE  Conservation' /\ Inside = {} /\ Inside' = {}
<1>1. p = 0 /\ i = 0
  BY DEF Open, At, Shape, ChildSteps
<1>2. \A q \in Pids \ {0} : upc[q] = "none" /\ upc'[q] = "none"
  BY <1>1 DEF Open, At, Goto, Shape, Pids
<1>3. upc[0] \in FatherSteps /\ upc'[0] \in FatherSteps
  BY <1>1, ZeroIsPid DEF Open, At, Goto, Shape, FatherSteps
<1>4. Inside = {} /\ Inside' = {}
  BY <1>2, <1>3 DEF Inside, FatherSteps
<1>5. sem_pool'[sem_id] = sem_value
  BY GameAssumption, ZeroIsPid DEF Open, sys_sem_open, IInv, TypeOK
<1>6. Cardinality(Inside') = 0
  BY <1>4, FS_EmptySet
<1> QED BY <1>4, <1>5, <1>6, GameAssumption DEF Conservation

(* Steps inside the section, before it and after it.                       *)
LEMMA OtherStepsSameInside ==
  ASSUME IInv, Shape, NEW p \in Pids,
         \/ Clear(p) \/ Fork(p) \/ ForkDone(p) \/ Share(p)
         \/ Sleep(p) \/ Load(p) \/ Store(p)
  PROVE  /\ Inside' = Inside
         /\ sem_pool' = sem_pool
         /\ upc[0] = "open" => upc'[0] = "open"
<1>1. CASE Fork(p)
  <2>1. /\ wait_sem' = [wait_sem EXCEPT ![i + 1] = NOT_WAITING_SEM]
        /\ upc' = [upc EXCEPT ![i + 1] = "share"]
        /\ i + 1 \in Pids \ {0}
        /\ upc[i + 1] = "none"
        /\ sem_pool' = sem_pool
    BY <1>1, ForkKeepsShape
  <2> QED BY <2>1 DEF Inside, Waiting, Shape, IInv, TypeOK
<1>2. CASE Sleep(p)
  <2>1. upc' = [upc EXCEPT ![p] = "load"] /\ upc[p] = "sleep"
    BY <1>2 DEF Sleep, At, Goto
  <2>2. UNCHANGED <<wait_sem, sem_pool>>
    BY <1>2 DEF Sleep, sys_sleep
  <2>3. upc'[0] = upc[0] \/ p = 0
    BY <2>1 DEF Shape
  <2> QED BY <2>1, <2>2, <2>3 DEF Inside, Waiting, Shape, FatherSteps
<1>3. CASE Clear(p) \/ ForkDone(p) \/ Share(p) \/ Load(p) \/ Store(p)
  <2>1. UNCHANGED <<wait_sem, sem_pool>> /\ upc[p] # "open"
    BY <1>3 DEF Clear, ForkDone, Share, Load, Store, vars, At
  <2>2. PICK step : /\ upc' = [upc EXCEPT ![p] = step]
                    /\ upc[p] \in {"load", "store"} <=> step \in {"store", "post"}
                    /\ upc[p] \notin {"sleep", "post"}
                    /\ step \notin {"sleep", "load"}
    BY ZenonT(30), <1>3 DEF Clear, ForkDone, Share, Load, Store, At, Goto
  <2> QED BY <2>1, <2>2 DEF Inside, Waiting, Shape
<1> QED BY <1>1, <1>2, <1>3

LEMMA TakeEnters ==
  ASSUME IInv, Shape, NEW p \in Pids, Wait(p), SemTake(sem_id)
  PROVE  p \notin Inside /\ Inside' = Inside \cup {p}
<1>1. ~Waiting(p)
  BY DEF Wait, At, IInv, OneRunning, WaitersAreDue
<1> QED BY <1>1 DEF Wait, At, Goto, SemTake, Inside, Waiting, Shape

LEMMA BlockStaysOutside ==
  ASSUME IInv, Shape, NEW p \in Pids, Wait(p), SemBlock(sem_id)
  PROVE  Inside' = Inside /\ sem_pool' = sem_pool
<1>1. wait_sem' = [wait_sem EXCEPT ![p] = sem_id] /\ curr_pid = p
  BY DEF SemBlock, Wait, At
<1>2. \A q \in Pids \ {p} : upc'[q] = upc[q] /\ wait_sem'[q] = wait_sem[q]
  BY <1>1 DEF Wait, Goto, Shape, IInv, TypeOK
<1>3. p \notin Inside /\ p \notin Inside'
  BY <1>1 DEF Wait, At, Inside, Waiting, IInv, TypeOK
<1>4. \A q \in Pids \ {p} : q \in Inside' <=> q \in Inside
  BY <1>2 DEF Inside, Waiting
<1>5. Inside \subseteq Pids /\ Inside' \subseteq Pids
  BY DEF Inside
<1> QED BY <1>3, <1>4, <1>5 DEF SemBlock

LEMMA PostLeaves ==
  ASSUME IInv, Shape, NEW p \in Pids, Post(p)
  PROVE  p \in Inside /\ Inside' = Inside \ {p}
<1>1. ~Waiting(p)
  BY DEF Post, At, IInv, OneRunning, WaitersAreDue
<1> QED BY <1>1 DEF Post, At, Goto, sys_sem_post, Inside, Waiting, Shape

LEMMA GrantEnters ==
  ASSUME IInv, Shape, KernelStep, NEW p \in Pids, SchedGrant(p)
  PROVE  /\ p \notin Inside /\ Inside' = Inside \cup {p}
         /\ wait_sem[p] = sem_id /\ upc[p] = "sleep" /\ sem_pool[sem_id] > 0
<1>1. /\ Waiting(p) /\ wait_sem[p] = sem_id /\ upc[p] = "sleep" /\ upc' = upc
      /\ wait_sem' = [wait_sem EXCEPT ![p] = NOT_WAITING_SEM]
      /\ sem_pool[sem_id] > 0
  BY DEF SchedGrant, Grantable, Shape, KernelStep, gvars
<1> QED BY <1>1 DEF Inside, Waiting, IInv, TypeOK

(* Among the steps of the kernel only SchedGrant touches the semaphore.    *)
LEMMA OtherKernelSteps ==
  ASSUME IInv, Shape, KernelStep, \A p \in Pids : ~SchedGrant(p)
  PROVE  Inside' = Inside /\ sem_pool' = sem_pool /\ upc' = upc
<1>1. UNCHANGED <<sem_pool, wait_sem, upc>>
  <2>1. ASSUME NEW p \in Pids PROVE ~SchedRebind(p)
    BY DEF SchedRebind, PassStopsAt, Rebinds, Shape, IInv, OneRunning
  <2> QED BY <2>1 DEF KernelStep, gvars, Timer, TimerTick, TimerPreempt,
      sched_process, SchedIdle, SchedDispatch, Halted, vars
<1> QED BY <1>1 DEF Inside, Waiting

LEMMA GameStepConserves ==
  ASSUME IInv, Shape, Conservation, [GameNext]_allvars
  PROVE  Conservation'
<1>1. CASE KernelStep
  <2>1. ASSUME NEW p \in Pids, SchedGrant(p)
        PROVE  Conservation'
    <3>1. upc[0] # "open" /\ upc' = upc
      BY <1>1, <2>1, GrantEnters, ChildrenComeLater DEF Shape, FatherSteps,
         KernelStep, gvars
    <3>2. sem_pool' = [sem_pool EXCEPT ![sem_id] = @ - 1]
      BY <1>1, <2>1, GrantEnters DEF SchedGrant
    <3> QED BY <1>1, <2>1, <3>1, <3>2, GrantEnters, TokenTaken
  <2>2. CASE \A p \in Pids : ~SchedGrant(p)
    BY <1>1, <2>2, OtherKernelSteps, SameInside
  <2> QED BY <2>1, <2>2
<1>2. CASE UNCHANGED allvars
  BY <1>2 DEF allvars, vars, gvars, Conservation, Inside, Waiting
<1>3. ASSUME NEW p \in Pids, UserStep(p)
      PROVE  Conservation'
  <2>1. CASE Open(p)
    BY <2>1, OpenConserves
  <2>2. CASE Wait(p)
    <3>1. p # 0 /\ upc[p] # "none" /\ upc'[0] = upc[0]
      BY <2>2 DEF Wait, At, Goto, Shape, FatherSteps
    <3>2. upc[0] # "open"
      BY <3>1, ChildrenComeLater
    <3>3. CASE SemTake(sem_id)
      BY <2>2, <3>1, <3>2, <3>3, TakeEnters, TokenTaken DEF SemTake
    <3>4. CASE SemBlock(sem_id)
      BY <2>2, <3>1, <3>4, BlockStaysOutside, SameInside
    <3> QED BY <2>2, <3>3, <3>4 DEF Wait, sys_sem_wait
  <2>3. CASE Post(p)
    <3>1. p # 0 /\ upc[p] # "none" /\ upc'[0] = upc[0]
      BY <2>3 DEF Post, At, Goto, Shape, FatherSteps
    <3>2. upc[0] # "open"
      BY <3>1, ChildrenComeLater
    <3> QED BY <2>3, <3>1, <3>2, PostLeaves, TokenPosted DEF Post, sys_sem_post
  <2>4. CASE \/ Clear(p) \/ Fork(p) \/ ForkDone(p) \/ Share(p)
             \/ Sleep(p) \/ Load(p) \/ Store(p)
    BY <2>4, OtherStepsSameInside, SameInside
  <2> QED BY <1>3, <2>1, <2>2, <2>3, <2>4 DEF UserStep
<1> QED BY <1>1, <1>2, <1>3 DEF GameNext

-----------------------------------------------------------------------------
(* The invariants.                                                         *)

LEMMA GameNextKeepsGInv == GInv /\ [GameNext]_allvars => GInv'
  BY GameStepKeepsIInv, GameStepKeepsMemOK, GameStepKeepsShape, GameStepConserves
  DEF GInv

(* The inductive invariant holds in every reachable state.                 *)
THEOREM GameSpecGInv == GameSpec => []GInv
  BY InitGInv, GameNextKeepsGInv, PTL DEF GameSpec

(* Every process is where the code of main() can be, and the page that is  *)
(* shared and the private ones hold what it may put there (game/game.c:90).*)
THEOREM GameSpecTypeOK == GameSpec => []GameTypeOK
<1>1. GInv => GameTypeOK
  BY DEF GInv, IInv, Shape, MemOK, GameTypeOK
<1> QED BY <1>1, GameSpecGInv, PTL

(* Counts and processes inside add up to the initial count.                *)
THEOREM GameSpecConservation == GameSpec => []Conservation
<1>1. GInv => Conservation
  BY DEF GInv
<1> QED BY <1>1, GameSpecGInv, PTL

(* "at most 2 processes are allowed" (game/game.c:134), for any count.     *)
THEOREM GameSpecAtMostTwo == GameSpec => []AtMostTwo
<1>1. GInv => AtMostTwo
  <2> SUFFICES ASSUME GInv PROVE AtMostTwo
    OBVIOUS
  <2>1. CASE upc[0] = "open"
    <3>1. \A p \in Pids \ {0} : upc[p] = "none"
      BY <2>1 DEF GInv, Shape, Pids
    <3>2. Inside = {}
      BY <2>1, <3>1 DEF Inside
    <3> QED BY <3>2, FS_EmptySet, GameAssumption DEF AtMostTwo
  <2>2. CASE upc[0] # "open"
    <3>1. sem_pool[sem_id] \in Nat
      BY ZeroIsPid DEF GInv, IInv, TypeOK
    <3> QED BY <2>2, <3>1, InsideFinite, GameAssumption
        DEF GInv, Conservation, AtMostTwo
  <2> QED BY <2>1, <2>2
<1> QED BY <1>1, GameSpecGInv, PTL

-----------------------------------------------------------------------------
(* The demo implements CriticalSection.                                    *)

LEMMA InsideAreChildren ==
  ASSUME Shape
  PROVE  Inside \subseteq Children /\ Section!Inside = Inside
<1>1. ASSUME NEW p \in Inside
      PROVE  p \in Children
  BY GameAssumption DEF Inside, Shape, FatherSteps, Pids, Children
<1>2. ASSUME NEW c \in Children
      PROVE  Phase[c] = "inside" <=> c \in Inside
  BY ZeroIsPid, GameAssumption
  DEF Phase, PhaseOf, Inside, Shape, ChildSteps, Children
<1> QED BY <1>1, <1>2 DEF Section!Inside

(* A step after which every child is in the phase it was in, or all but p. *)
LEMMA PhaseUnchanged ==
  ASSUME \A c \in Children : PhaseOf(c)' = PhaseOf(c)
  PROVE  Phase' = Phase
  BY DEF Phase

LEMMA PhaseOfOneChanges ==
  ASSUME NEW p \in Children, \A c \in Children \ {p} : PhaseOf(c)' = PhaseOf(c)
  PROVE  Phase' = [Phase EXCEPT ![p] = PhaseOf(p)']
  BY DEF Phase

LEMMA EnterStep ==
  ASSUME IInv, Shape, Conservation, NEW p \in Children,
         upc[0] # "open", upc'[0] # "open",
         p \notin Inside, Inside' = Inside \cup {p}, sem_pool[sem_id] > 0,
         sem_pool' = [sem_pool EXCEPT ![sem_id] = @ - 1],
         PhaseOf(p) = "before", PhaseOf(p)' = "inside",
         \A c \in Children \ {p} : PhaseOf(c)' = PhaseOf(c)
  PROVE  Section!Next
<1>1. Cardinality(Section!Inside) < sem_value
  BY ZeroIsPid, TokenTaken, InsideAreChildren
<1>2. Phase[p] = "before"
  BY DEF Phase
<1>3. Phase' = [Phase EXCEPT ![p] = "inside"]
  BY PhaseOfOneChanges
<1>4. Section!Cardinality(Section!Inside) = Cardinality(Section!Inside)
  BY DEF Cardinality, Section!Cardinality
<1>5. Section!Enter(p)
  BY <1>1, <1>2, <1>3, <1>4 DEF Section!Enter
<1> QED BY <1>5 DEF Section!Next

LEMMA InitImplements == GameInit => Section!Init
<1> SUFFICES ASSUME GameInit PROVE Section!Init
  OBVIOUS
<1>1. ASSUME NEW c \in Children PROVE PhaseOf(c) = "before"
  BY ZeroIsPid, GameAssumption DEF GameInit, PhaseOf, Children
<1> QED BY <1>1 DEF Section!Init, Phase

LEMMA StepImplements ==
  ASSUME GInv, [GameNext]_allvars
  PROVE  [Section!Next]_Phase
<1> USE DEF GInv
<1>1. CASE KernelStep
  <2>1. ASSUME NEW p \in Pids, SchedGrant(p)
        PROVE  Section!Next
    <3>1. /\ p \notin Inside /\ Inside' = Inside \cup {p}
          /\ wait_sem[p] = sem_id /\ upc[p] = "sleep" /\ sem_pool[sem_id] > 0
      BY <1>1, <2>1, GrantEnters
    <3>2. /\ upc' = upc
          /\ wait_sem' = [wait_sem EXCEPT ![p] = NOT_WAITING_SEM]
          /\ sem_pool' = [sem_pool EXCEPT ![sem_id] = @ - 1]
      BY <1>1, <2>1, <3>1 DEF SchedGrant, KernelStep, gvars
    <3>3. p \in Children /\ p # 0
      BY <3>1, GameAssumption DEF Shape, FatherSteps, Pids, Children
    <3>4. upc[0] # "open"
      BY <3>1, <3>3, ChildrenComeLater
    <3>5. PhaseOf(p) = "before" /\ PhaseOf(p)' = "inside"
      BY <3>1, <3>2 DEF PhaseOf, Waiting, IInv, TypeOK
    <3>6. \A c \in Children \ {p} : PhaseOf(c)' = PhaseOf(c)
      BY <3>2, ZeroIsPid DEF PhaseOf, Waiting, IInv, TypeOK
    <3> QED BY <3>1, <3>2, <3>3, <3>4, <3>5, <3>6, EnterStep
  <2>2. CASE \A p \in Pids : ~SchedGrant(p)
    <3>1. ASSUME NEW p \in Pids PROVE ~SchedRebind(p)
      BY DEF SchedRebind, PassStopsAt, Rebinds, Shape, IInv, OneRunning
    <3>2. UNCHANGED <<wait_sem, upc>>
      BY <1>1, <2>2, <3>1 DEF KernelStep, gvars, Timer, TimerTick, TimerPreempt,
         sched_process, SchedIdle, SchedDispatch, Halted, vars
    <3> QED BY <3>2, PhaseUnchanged DEF PhaseOf, Waiting
  <2> QED BY <2>1, <2>2
<1>2. CASE UNCHANGED allvars
  BY <1>2, PhaseUnchanged DEF allvars, vars, gvars, PhaseOf, Waiting
<1>3. ASSUME NEW p \in Pids, UserStep(p)
      PROVE  [Section!Next]_Phase
  <2>1. CASE Open(p) \/ Clear(p) \/ ForkDone(p)
    <3>1. p = 0
      BY <2>1 DEF Open, Clear, ForkDone, At, Shape, ChildSteps
    <3>2. wait_sem' = wait_sem
      <4>1. ~(sem_value <= 0)
        BY GameAssumption
      <4> QED BY <2>1, <4>1 DEF Open, Clear, ForkDone, sys_sem_open, vars
    <3>3. \A c \in Children : upc'[c] = upc[c]
      BY <2>1, <3>1, ZeroIsPid DEF Open, Clear, ForkDone, At, Goto, Shape, Children
    <3> QED BY <3>2, <3>3, PhaseUnchanged DEF PhaseOf, Waiting
  <2>2. CASE Fork(p)
    <3>1. /\ wait_sem' = [wait_sem EXCEPT ![i + 1] = NOT_WAITING_SEM]
          /\ upc' = [upc EXCEPT ![i + 1] = "share"]
          /\ i + 1 \in Pids \ {0}
          /\ upc[i + 1] = "none"
      BY <2>2, ForkKeepsShape
    <3>2. \A c \in Children : PhaseOf(c)' = PhaseOf(c)
      BY <3>1, ZeroIsPid DEF PhaseOf, Waiting, Shape, IInv, TypeOK
    <3> QED BY <3>2, PhaseUnchanged
  <2>3. CASE Wait(p)
    <3>1. p # 0 /\ upc[p] = "wait" /\ upc' = [upc EXCEPT ![p] = "sleep"]
      BY <2>3 DEF Wait, At, Goto, Shape, FatherSteps
    <3>2. upc[0] # "open" /\ upc'[0] # "open" /\ p \in Children
      BY <3>1, ChildrenComeLater, GameAssumption DEF Shape, Pids, Children
    <3>3. CASE SemTake(sem_id)
      <4>1. wait_sem' = wait_sem /\ ~Waiting(p)
        BY <2>3, <3>3 DEF SemTake, Wait, At, IInv, OneRunning, WaitersAreDue
      <4>2. PhaseOf(p) = "before" /\ PhaseOf(p)' = "inside"
        BY <3>1, <4>1 DEF PhaseOf, Waiting, Shape
      <4>3. \A c \in Children \ {p} : PhaseOf(c)' = PhaseOf(c)
        BY <3>1, <4>1, ZeroIsPid DEF PhaseOf, Waiting, Shape
      <4> QED BY <2>3, <3>2, <3>3, <4>2, <4>3, TakeEnters, EnterStep DEF SemTake
    <3>4. CASE SemBlock(sem_id)
      <4>1. wait_sem' = [wait_sem EXCEPT ![p] = sem_id]
        BY <2>3, <3>4 DEF SemBlock, Wait, At
      <4>2. \A c \in Children : PhaseOf(c)' = PhaseOf(c)
        BY <3>1, <4>1, ZeroIsPid DEF PhaseOf, Waiting, Shape, IInv, TypeOK
      <4> QED BY <4>2, PhaseUnchanged
    <3> QED BY <2>3, <3>3, <3>4 DEF Wait, sys_sem_wait
  <2>4. CASE Post(p)
    <3>1. p # 0 /\ upc[p] = "post" /\ upc' = [upc EXCEPT ![p] = "spin"]
      BY <2>4 DEF Post, At, Goto, Shape, FatherSteps
    <3>2. wait_sem' = wait_sem /\ ~Waiting(p)
      BY <2>4 DEF Post, sys_sem_post, At, IInv, OneRunning, WaitersAreDue
    <3>3. p \in Children
      BY <3>1, GameAssumption DEF Shape, Pids, Children
    <3>4. PhaseOf(p) = "inside" /\ PhaseOf(p)' = "after"
      BY <3>1, <3>2 DEF PhaseOf, Waiting, Shape
    <3>5. \A c \in Children \ {p} : PhaseOf(c)' = PhaseOf(c)
      BY <3>1, <3>2, ZeroIsPid DEF PhaseOf, Waiting, Shape
    <3>6. Phase[p] = "inside" /\ Phase' = [Phase EXCEPT ![p] = "after"]
      BY <3>3, <3>4, <3>5, PhaseOfOneChanges DEF Phase
    <3> QED BY <3>3, <3>6 DEF Section!Next, Section!Leave
  <2>5. CASE Share(p) \/ Sleep(p) \/ Load(p) \/ Store(p)
    <3>1. wait_sem' = wait_sem
      BY <2>5 DEF Share, Sleep, sys_sleep, Load, Store, vars
    <3>2. \/ upc[p] = "share" /\ upc' = [upc EXCEPT ![p] = "wait"]
          \/ upc[p] = "sleep" /\ upc' = [upc EXCEPT ![p] = "load"]
          \/ upc[p] = "load" /\ upc' = [upc EXCEPT ![p] = "store"]
          \/ upc[p] = "store" /\ upc' = [upc EXCEPT ![p] = "post"]
      BY <2>5 DEF Share, Sleep, Load, Store, At, Goto
    <3>3. \A c \in Children : PhaseOf(c)' = PhaseOf(c)
      BY <3>1, <3>2, ZeroIsPid DEF PhaseOf, Waiting, Shape
    <3> QED BY <3>3, PhaseUnchanged
  <2> QED BY <1>3, <2>1, <2>2, <2>3, <2>4, <2>5 DEF UserStep
<1> QED BY <1>1, <1>2, <1>3 DEF GameNext

(* The kernel's semaphore calls and scheduler, driven by main(), implement *)
(* the abstract section: each child enters at most once, never when it is  *)
(* full, and leaves.                                                       *)
THEOREM GameImplementsSection == GameSpec => ImplementsSection
  BY InitImplements, StepImplements, GameSpecGInv, PTL
  DEF GameSpec, ImplementsSection, Section!Spec
-----------------------------------------------------------------------------
(* Sums over finite sets of numbers.  The library's induction theorems     *)
(* take an operator; the least element of a set of numbers serves instead. *)

Weight(p) == p % 3

Sum(S) == MapThenSumSet(LAMBDA p : p % 3, S)

OneOf(s) == CHOOSE x \in s : TRUE

(* One unfolding of the fold behind MapThenSumSet.                         *)
Unfolded(g, s) == IF s = {} THEN 0 ELSE Weight(OneOf(s)) + g[s \ {OneOf(s)}]

IsIter(g, S) == g = [s \in SUBSET S |-> Unfolded(g, s)]

LEMMA NatLeast ==
  ASSUME NEW T \in SUBSET Nat, T # {}
  PROVE  \E n \in T : \A m \in T : n <= m
<1>1. PICK n \in T : \A m \in T : ~(<<m, n>> \in OpToRel(<, Nat))
  BY NatLessThanWellFounded, WFMin
<1>2. \A m \in T : ~(m < n)
  BY <1>1 DEF OpToRel
<1> QED BY <1>2

(* A set of numbers with 0 and every successor is all of them.             *)
LEMMA NatClosed ==
  ASSUME NEW T \in SUBSET Nat, 0 \in T, \A n \in T : n + 1 \in T
  PROVE  T = Nat
<1> SUFFICES ASSUME Nat \ T # {} PROVE FALSE
  OBVIOUS
<1>1. PICK n \in Nat \ T : \A m \in Nat \ T : n <= m
  BY NatLeast
<1>2. n - 1 \in Nat /\ n - 1 \notin T
  BY <1>1
<1> QED BY <1>1, <1>2

LEMMA OneOfIsIn == ASSUME NEW s, s # {} PROVE OneOf(s) \in s
  BY DEF OneOf

LEMMA SmallerWithoutOne ==
  ASSUME NEW s, IsFiniteSet(s), s # {}
  PROVE  /\ IsFiniteSet(s \ {OneOf(s)})
         /\ Cardinality(s \ {OneOf(s)}) = Cardinality(s) - 1
         /\ Cardinality(s) \in Nat
  BY OneOfIsIn, FS_RemoveElement, FS_CardinalityType

(* The function behind the fold exists.                                    *)
LEMMA IterExists ==
  ASSUME NEW S \in SUBSET Int, IsFiniteSet(S)
  PROVE  \E g \in [SUBSET S -> Int] : IsIter(g, S)
<1> DEFINE UpTo(g, n) == \A s \in SUBSET S : Cardinality(s) <= n => g[s] = Unfolded(g, s)
           T == {n \in Nat : \E g \in [SUBSET S -> Int] : UpTo(g, n)}
<1>0. \A s \in SUBSET S : IsFiniteSet(s) /\ Cardinality(s) \in Nat /\ Cardinality(s) <= Cardinality(S)
  BY FS_Subset, FS_CardinalityType
<1>1. 0 \in T
  <2> DEFINE g == [s \in SUBSET S |-> 0]
  <2>1. g \in [SUBSET S -> Int]
    OBVIOUS
  <2>2. UpTo(g, 0)
    BY <1>0, FS_EmptySet DEF Unfolded
  <2> QED BY <2>1, <2>2
<1>2. ASSUME NEW n \in T PROVE n + 1 \in T
  <2>1. PICK g \in [SUBSET S -> Int] : UpTo(g, n)
    OBVIOUS
  <2> DEFINE h == [s \in SUBSET S |-> Unfolded(g, s)]
  <2>2. h \in [SUBSET S -> Int]
    <3> SUFFICES ASSUME NEW s \in SUBSET S PROVE Unfolded(g, s) \in Int
      OBVIOUS
    <3>1. s # {} => OneOf(s) \in Int /\ s \ {OneOf(s)} \in SUBSET S
      BY OneOfIsIn
    <3>2. s # {} => g[s \ {OneOf(s)}] \in Int
      BY <3>1
    <3> QED BY <3>1, <3>2 DEF Unfolded, Weight
  <2>3. UpTo(h, n + 1)
    <3> SUFFICES ASSUME NEW s \in SUBSET S, Cardinality(s) <= n + 1
                 PROVE  h[s] = Unfolded(h, s)
      OBVIOUS
    <3>1. CASE s = {}
      BY <3>1 DEF Unfolded
    <3>2. CASE s # {}
      <4> DEFINE r == s \ {OneOf(s)}
      <4>1. r \in SUBSET S /\ Cardinality(r) <= n
        <5>1. Cardinality(r) = Cardinality(s) - 1 /\ Cardinality(s) \in Nat
          BY <3>2, <1>0, SmallerWithoutOne
        <5>2. n \in Nat
          OBVIOUS
        <5>3. r \in SUBSET S
          OBVIOUS
        <5> HIDE DEF T, r
        <5> QED BY <5>1, <5>2, <5>3
      <4>2. g[r] = Unfolded(g, r)
        BY <2>1, <4>1
      <4>3. h[r] = g[r]
        BY <4>1, <4>2
      <4>4. h[s] = Weight(OneOf(s)) + g[r]
        BY <3>2 DEF Unfolded
      <4>5. Unfolded(h, s) = Weight(OneOf(s)) + h[r]
        BY <3>2 DEF Unfolded
      <4> QED BY <4>3, <4>4, <4>5
    <3> QED BY <3>1, <3>2
  <2> HIDE DEF h
  <2>4. n + 1 \in Nat
    OBVIOUS
  <2>5. \E f \in [SUBSET S -> Int] : UpTo(f, n + 1)
    <3> HIDE DEF UpTo
    <3> QED BY <2>2, <2>3
  <2> QED BY <2>4, <2>5
<1>3. T = Nat
  <2> HIDE DEF T
  <2>1. T \in SUBSET Nat
    BY DEF T
  <2> QED BY <1>1, <1>2, <2>1, NatClosed
<1>4. Cardinality(S) \in T
  BY <1>3, <1>0
<1>5. PICK g \in [SUBSET S -> Int] : UpTo(g, Cardinality(S))
  BY <1>4
<1>6. \A s \in SUBSET S : g[s] = Unfolded(g, s)
  BY <1>0, <1>5
<1> QED BY <1>6 DEF IsIter

(* Two such functions agree where both are defined.                        *)
LEMMA ItersAgree ==
  ASSUME NEW S, NEW R, IsFiniteSet(S), S \subseteq R,
         NEW g, IsIter(g, S), NEW h, IsIter(h, R)
  PROVE  g[S] = h[S]
<1> DEFINE T == {n \in Nat : \A s \in SUBSET S : Cardinality(s) = n => g[s] = h[s]}
<1>0. \A s \in SUBSET S : /\ IsFiniteSet(s) /\ Cardinality(s) \in Nat
                          /\ s \in SUBSET R
  BY FS_Subset, FS_CardinalityType
<1>1. \A s \in SUBSET S : g[s] = Unfolded(g, s) /\ h[s] = Unfolded(h, s)
  BY <1>0 DEF IsIter
<1>2. 0 \in T
  <2>1. \A s \in SUBSET S : Cardinality(s) = 0 => g[s] = h[s]
    BY <1>0, <1>1, FS_EmptySet DEF Unfolded
  <2> QED BY <2>1
<1>3. ASSUME NEW n \in T PROVE n + 1 \in T
  <2> SUFFICES ASSUME NEW s \in SUBSET S, Cardinality(s) = n + 1 PROVE g[s] = h[s]
    OBVIOUS
  <2>1. s # {}
    BY FS_EmptySet
  <2>2. Cardinality(s \ {OneOf(s)}) = n
    BY <2>1, <1>0, SmallerWithoutOne
  <2>3. g[s \ {OneOf(s)}] = h[s \ {OneOf(s)}]
    BY <2>2
  <2> QED BY <1>1, <2>1, <2>3 DEF Unfolded
<1>4. T = Nat
  <2> HIDE DEF T
  <2>1. T \in SUBSET Nat
    BY DEF T
  <2> QED BY <1>2, <1>3, <2>1, NatClosed
<1>5. Cardinality(S) \in T
  BY <1>0, <1>4
<1> QED BY <1>5

(* What the fold picks first does not matter.                              *)
LEMMA IterAdds ==
  ASSUME NEW S \in SUBSET Int, IsFiniteSet(S), NEW g \in [SUBSET S -> Int], IsIter(g, S)
  PROVE  \A s \in SUBSET S : \A x \in S \ s : g[s \cup {x}] = g[s] + Weight(x)
<1> DEFINE Adds(s) == \A x \in S \ s : g[s \cup {x}] = g[s] + Weight(x)
           T == {n \in Nat : \A s \in SUBSET S : Cardinality(s) = n => Adds(s)}
<1>0. \A s \in SUBSET S : IsFiniteSet(s) /\ Cardinality(s) \in Nat
  BY FS_Subset, FS_CardinalityType
<1>1. \A s \in SUBSET S : g[s] = Unfolded(g, s) /\ g[s] \in Int
  BY DEF IsIter
<1>2. \A x \in S : Weight(x) \in Int
  BY DEF Weight
<1>3. 0 \in T
  <2> SUFFICES ASSUME NEW s \in SUBSET S, Cardinality(s) = 0, NEW x \in S
               PROVE  g[s \cup {x}] = g[s] + Weight(x)
    OBVIOUS
  <2>1. s = {}
    BY <1>0, FS_EmptySet
  <2>2. OneOf({x}) = x /\ {x} \ {x} = {}
    BY DEF OneOf
  <2>3. {} \in SUBSET S /\ {x} \in SUBSET S /\ s \cup {x} = {x}
    BY <2>1
  <2>4. g[{}] = 0
    BY <1>1, <2>3 DEF Unfolded
  <2>5. g[{x}] = Weight(x) + g[{}]
    BY <1>1, <2>2, <2>3 DEF Unfolded
  <2> QED BY <1>2, <2>1, <2>3, <2>4, <2>5
<1>4. ASSUME NEW n \in T PROVE n + 1 \in T
  <2> SUFFICES ASSUME NEW s \in SUBSET S, Cardinality(s) = n + 1, NEW x \in S \ s
               PROVE  g[s \cup {x}] = g[s] + Weight(x)
    OBVIOUS
  <2> DEFINE t == s \cup {x}
             y == OneOf(t)
  <2>1. t \in SUBSET S /\ t # {} /\ y \in t
    BY OneOfIsIn
  <2>2. g[t] = Weight(y) + g[t \ {y}]
    BY <1>1, <2>1 DEF Unfolded
  <2>3. CASE y = x
    <3>1. t \ {y} = s
      BY <2>3
    <3>2. g[s] \in Int /\ Weight(x) \in Int
      BY <1>1, <1>2
    <3>3. g[t] = Weight(x) + g[s]
      BY <2>2, <2>3, <3>1
    <3> HIDE DEF t
    <3> QED BY <3>2, <3>3 DEF t
  <2>4. CASE y # x
    <3> DEFINE r == s \ {y}
    <3>1. y \in s /\ r \in SUBSET S /\ x \in S \ r /\ y \in S \ r
      BY <2>1, <2>4
    <3>2. Cardinality(r) = n
      <4>1. IsFiniteSet(s) /\ y \in s
        BY <1>0, <3>1
      <4> HIDE DEF y
      <4>2. Cardinality(s \ {y}) = Cardinality(s) - 1
        BY <4>1, FS_RemoveElement
      <4> QED BY <4>2
    <3>3. Adds(r)
      BY <3>1, <3>2
    <3>4. t \ {y} = r \cup {x} /\ s = r \cup {y}
      BY <2>4, <3>1
    <3> HIDE DEF r, y, t
    <3>5. g[r \cup {x}] = g[r] + Weight(x) /\ g[r \cup {y}] = g[r] + Weight(y)
      BY <3>1, <3>3
    <3>6. g[r] \in Int /\ Weight(x) \in Int /\ Weight(y) \in Int
      BY <1>1, <1>2, <3>1
    <3>7. g[t] = Weight(y) + (g[r] + Weight(x)) /\ g[s] = g[r] + Weight(y)
      BY <2>2, <3>4, <3>5
    <3> QED BY <3>6, <3>7 DEF t
  <2> QED BY <2>3, <2>4
<1>5. T = Nat
  <2> HIDE DEF T
  <2>1. T \in SUBSET Nat
    BY DEF T
  <2> QED BY <1>3, <1>4, <2>1, NatClosed
<1> QED BY <1>0, <1>5

LEMMA SumIsIter ==
  ASSUME NEW S \in SUBSET Int, IsFiniteSet(S)
  PROVE  \E g \in [SUBSET S -> Int] : IsIter(g, S) /\ Sum(S) = g[S]
<1> DEFINE f == CHOOSE g : IsIter(g, S)
<1>1. Sum(S) = f[S]
  BY DEF Sum, MapThenSumSet, MapThenFoldSet, IsIter, Unfolded, OneOf, Weight
<1>2. PICK g \in [SUBSET S -> Int] : IsIter(g, S)
  BY IterExists
<1>3. IsIter(f, S)
  BY <1>2
<1>4. f[S] = g[S]
  BY <1>2, <1>3, ItersAgree
<1> QED BY <1>1, <1>2, <1>4

(* The sum of a set with one more element.                                 *)
LEMMA SumAdds ==
  ASSUME NEW S \in SUBSET Int, IsFiniteSet(S), NEW x \in Int \ S
  PROVE  Sum(S \cup {x}) = Sum(S) + (x % 3)
<1> DEFINE R == S \cup {x}
<1>1. R \in SUBSET Int /\ IsFiniteSet(R) /\ S \in SUBSET R /\ x \in R \ S
  BY FS_AddElement
<1> HIDE DEF R
<1>2. PICK g \in [SUBSET S -> Int] : IsIter(g, S) /\ Sum(S) = g[S]
  BY SumIsIter
<1>3. PICK h \in [SUBSET R -> Int] : IsIter(h, R) /\ Sum(R) = h[R]
  BY <1>1, SumIsIter
<1>4. g[S] = h[S]
  BY <1>1, <1>2, <1>3, ItersAgree
<1>5. h[S \cup {x}] = h[S] + Weight(x)
  <2>1. \A s \in SUBSET R : \A y \in R \ s : h[s \cup {y}] = h[s] + Weight(y)
    BY <1>1, <1>3, IterAdds
  <2> QED BY <1>1, <2>1
<1>6. R = S \cup {x}
  BY DEF R
<1> QED BY <1>2, <1>3, <1>4, <1>5, <1>6 DEF Weight

LEMMA SumEmpty == Sum({}) = 0
<1>1. PICK g \in [SUBSET {} -> Int] : IsIter(g, {}) /\ Sum({}) = g[{}]
  BY SumIsIter, FS_EmptySet
<1>2. {} \in SUBSET {}
  OBVIOUS
<1> QED BY <1>1, <1>2 DEF IsIter, Unfolded
-----------------------------------------------------------------------------
(* What the children add up to (game/game.c:153).                          *)

(* The father keeps his own page and every child that has shared uses it;  *)
(* as long as no two children were between load and store together, the    *)
(* one that is there has read the present sum.                             *)
AddsUp ==
  /\ frame[0] = 0
  /\ \A p \in Children : upc[p] \notin {"none", "share"} => frame[p] = 0
  /\ ~overlapped =>
       /\ \A p, q \in Adding : p = q
       /\ \A p \in Adding : reg[p] = page[0]
       /\ page[0] = Sum(Added)

LEMMA ChildrenFinite ==
  /\ \A S \in SUBSET Children : IsFiniteSet(S) /\ S \in SUBSET Int
  /\ 0 \notin Children /\ Children \subseteq Int
<1>1. IsFiniteSet(Children) /\ Children \subseteq Int
  BY FS_Interval, GameAssumption DEF Children
<1>2. ASSUME NEW S \in SUBSET Children PROVE IsFiniteSet(S) /\ S \in SUBSET Int
  BY <1>1, FS_Subset
<1>3. 0 \notin Children
  BY DEF Children
<1> QED BY <1>1, <1>2, <1>3

LEMMA NoneAddingTwice ==
  ASSUME MCNext, ~overlapped'
  PROVE  ~overlapped /\ \A p, q \in Adding' : p = q
<1>1. ~overlapped /\ ~(Cardinality(Adding') > 1)
  BY DEF MCNext
<1>2. IsFiniteSet(Adding') /\ Cardinality(Adding') \in Nat
  BY ChildrenFinite, FS_CardinalityType DEF Adding, Children
<1>3. Cardinality(Adding') <= 1
  BY <1>1, <1>2
<1>4. Cardinality(Adding') <= 1 => \A p, q \in Adding' : p = q
  <2> SUFFICES ASSUME NEW p \in Adding', NEW q \in Adding', p # q, Cardinality(Adding') <= 1
               PROVE  FALSE
    OBVIOUS
  <2>1. IsFiniteSet({q}) /\ Cardinality({q}) = 1
    BY FS_Singleton
  <2>2. Cardinality({q} \cup {p}) = 2 /\ {q} \cup {p} \subseteq Adding'
    BY <2>1, FS_AddElement
  <2>3. Cardinality({q} \cup {p}) <= Cardinality(Adding')
    BY <1>2, <2>2, FS_Subset
  <2> QED BY <1>2, <2>2, <2>3
<1> QED BY <1>1, <1>3, <1>4

LEMMA InitAddsUp == MCInit => AddsUp
<1> SUFFICES ASSUME MCInit PROVE AddsUp
  OBVIOUS
<1>1. \A p \in Children : p \in Pids /\ p # 0 /\ upc[p] = "none"
  BY ZeroIsPid, ChildrenFinite DEF MCInit, GameInit
<1>2. Adding = {} /\ Added = {}
  BY <1>1 DEF Adding, Added
<1>3. frame[0] = 0 /\ page[0] = 0
  BY ZeroIsPid DEF MCInit, GameInit
<1> QED BY <1>1, <1>2, <1>3, SumEmpty DEF AddsUp

(* Before the first fork nobody has added.                                 *)
LEMMA NobodyYet ==
  ASSUME Shape, upc[0] \in {"open", "clear"}
  PROVE  Added = {} /\ Adding = {}
<1>1. \A p \in Children : upc[p] = "none"
  BY ZeroIsPid, GameAssumption DEF Shape, Children
<1> QED BY <1>1 DEF Added, Adding

LEMMA ForkedAreChildren ==
  ASSUME GInv, NEW p \in Pids, upc[p] \in ChildSteps \ FatherSteps
  PROVE  p \in Children
<1>1. upc[0] \in FatherSteps /\ upc[p] # "none"
  BY DEF GInv, Shape, ChildSteps
<1>2. p # 0 /\ ~(p > i) /\ i \in 0 .. child_num
  BY <1>1 DEF GInv, Shape
<1>3. p \in Nat
  BY DEF Pids
<1> QED BY <1>2, <1>3, GameAssumption DEF Children

(* A step that moves nobody across the addition.                           *)
LEMMA SameAdding ==
  ASSUME AddsUp, MCNext, Adding' = Adding, Added' = Added, page'[0] = page[0],
         \A p \in Adding : reg'[p] = reg[p], frame'[0] = 0,
         \A p \in Children : upc'[p] \notin {"none", "share"} => frame'[p] = 0
  PROVE  AddsUp'
<1>1. Children' = Children
  BY DEF Children
<1>2. ~overlapped' => ~overlapped
  BY NoneAddingTwice
<1>3. Sum(Added)' = Sum(Added)
  OBVIOUS
<1> QED BY <1>1, <1>2, <1>3 DEF AddsUp

LEMMA StoreAddsUp ==
  ASSUME GInv, AddsUp, MCNext, NEW p \in Pids, Store(p)
  PROVE  AddsUp'
<1>1. upc[p] = "store" /\ p = curr_pid /\ p \in Children /\ frame[p] = 0
  <2>1. upc[p] = "store" /\ p = curr_pid
    BY DEF Store, At
  <2> QED BY <2>1, ForkedAreChildren DEF AddsUp, ChildSteps, FatherSteps
<1>2. /\ upc \in [Pids -> FatherSteps \cup ChildSteps \cup {"none"}]
      /\ upc' = [upc EXCEPT ![p] = "post"]
      /\ Children \subseteq Pids
  BY <1>1, ZeroIsPid DEF Store, Goto, GInv, Shape
<1>3. Adding' = Adding \ {p} /\ Added' = Added \cup {p} /\ p \in Adding /\ p \notin Added
  BY <1>1, <1>2 DEF Adding, Added, Children
<1>4. page'[0] = reg[p] + (p % 3) /\ frame' = frame /\ reg' = reg
  BY <1>1, ZeroIsPid DEF Store, GInv, MemOK
<1>5. \A q \in Children : upc'[q] \notin {"none", "share"} => frame'[q] = 0
  BY <1>1, <1>2, <1>4 DEF AddsUp
<1>6. ASSUME ~overlapped'
      PROVE  Adding' = {} /\ page'[0] = Sum(Added')
  <2>1. ~overlapped
    BY <1>6, NoneAddingTwice
  <2>2. Adding = {p}
    BY <1>3, <2>1 DEF AddsUp
  <2>3. page'[0] = Sum(Added) + (p % 3)
    BY <1>3, <1>4, <2>1 DEF AddsUp
  <2>4. IsFiniteSet(Added) /\ Added \in SUBSET Int /\ p \in Int \ Added
    BY <1>1, <1>3, ChildrenFinite DEF Added
  <2>5. Sum(Added \cup {p}) = Sum(Added) + (p % 3)
    BY <2>4, SumAdds
  <2> QED BY <1>3, <2>2, <2>3, <2>5
<1>7. Sum(Added)' = Sum(Added')
  OBVIOUS
<1>8. Children' = Children
  BY DEF Children
<1> QED BY <1>4, <1>5, <1>6, <1>7, <1>8 DEF AddsUp

LEMMA LoadAddsUp ==
  ASSUME GInv, AddsUp, MCNext, NEW p \in Pids, Load(p)
  PROVE  AddsUp'
<1>1. upc[p] = "load" /\ p = curr_pid /\ p \in Children /\ frame[p] = 0
  <2>1. upc[p] = "load" /\ p = curr_pid
    BY DEF Load, At
  <2> QED BY <2>1, ForkedAreChildren DEF AddsUp, ChildSteps, FatherSteps
<1>2. /\ upc \in [Pids -> FatherSteps \cup ChildSteps \cup {"none"}]
      /\ upc' = [upc EXCEPT ![p] = "store"]
      /\ Children \subseteq Pids
  BY <1>1, ZeroIsPid DEF Load, Goto, GInv, Shape
<1>3. Adding' = Adding \cup {p} /\ Added' = Added
  BY <1>1, <1>2 DEF Adding, Added, Children
<1>4. reg'[p] = page[0] /\ page' = page /\ frame' = frame
  BY <1>1, ZeroIsPid DEF Load, GInv, MemOK
<1>5. \A q \in Children : upc'[q] \notin {"none", "share"} => frame'[q] = 0
  BY <1>1, <1>2, <1>4 DEF AddsUp
<1>6. ASSUME ~overlapped'
      PROVE  ~overlapped /\ Adding' = {p}
  BY <1>3, <1>6, NoneAddingTwice
<1>7. Sum(Added)' = Sum(Added)
  BY <1>3
<1>8. Children' = Children
  BY DEF Children
<1> QED BY <1>3, <1>4, <1>5, <1>6, <1>7, <1>8 DEF AddsUp

(* Every other step of the program.                                        *)
LEMMA OtherStepAddsUp ==
  ASSUME GInv, AddsUp, MCNext, NEW p \in Pids, UserStep(p), ~Store(p), ~Load(p)
  PROVE  AddsUp'
<1>0. /\ p = curr_pid /\ mode = "user" /\ Children \subseteq Pids /\ 0 \notin Children /\ 0 \in Pids
      /\ upc \in [Pids -> FatherSteps \cup ChildSteps \cup {"none"}]
      /\ frame \in [Pids -> Pids] /\ page \in [Pids -> Nat] /\ reg \in [Pids -> Nat]
      /\ frame[0] = 0
  BY ZeroIsPid, ChildrenFinite DEF UserStep, Open, Clear, Fork, ForkDone, Share, Wait, Sleep, Post,
     At, GInv, Shape, MemOK, AddsUp
<1>1. CASE Clear(p)
  <2>1. p = 0 /\ upc[0] = "clear"
    BY <1>0, <1>1 DEF Clear, At, GInv, Shape, ChildSteps
  <2>2. upc' = [upc EXCEPT ![0] = "fork"] /\ page'[0] = 0 /\ frame' = frame /\ reg' = reg
    BY <1>0, <1>1, <2>1 DEF Clear, Goto
  <2>3. Added = {} /\ Adding = {} /\ Added' = {} /\ Adding' = {}
    BY <1>0, <2>1, <2>2, NobodyYet DEF GInv, Added, Adding, Children
  <2>4. Sum(Added)' = 0
    BY <2>3, SumEmpty
  <2>5. Children' = Children
    BY DEF Children
  <2> QED BY <1>0, <2>2, <2>3, <2>4, <2>5 DEF AddsUp
<1>2. CASE Fork(p)
  <2>1. PICK new \in Pids : /\ FreeSlot(new)
                            /\ upc' = [upc EXCEPT ![new] = "share"]
                            /\ frame' = [frame EXCEPT ![new] = new]
                            /\ page' = [page EXCEPT ![new] = page[frame[p]]]
    BY <1>2 DEF Fork
  <2>2. new # 0 /\ upc[new] = "none" /\ reg' = reg
    BY <1>0, <1>2, <2>1, GameAssumption DEF Fork, FreeSlot, GInv, Shape, Pids
  <2>3. Adding' = Adding /\ Added' = Added
    BY <1>0, <2>1, <2>2 DEF Adding, Added, Children
  <2>4. frame'[0] = 0 /\ page'[0] = page[0]
    BY <1>0, <2>1, <2>2
  <2>5. \A q \in Children : upc'[q] \notin {"none", "share"} => frame'[q] = 0
    BY <1>0, <2>1 DEF AddsUp
  <2> QED BY <2>2, <2>3, <2>4, <2>5, SameAdding
<1>3. CASE Share(p)
  <2>1. p \in Children /\ upc[p] = "share"
    BY <1>0, <1>3, ForkedAreChildren DEF Share, At, ChildSteps, FatherSteps
  <2>2. /\ upc' = [upc EXCEPT ![p] = "wait"]
        /\ frame' = [frame EXCEPT ![p] = 0]
        /\ page' = page /\ reg' = reg
    BY <1>0, <1>3 DEF Share, Goto
  <2>3. Adding' = Adding /\ Added' = Added
    BY <1>0, <2>1, <2>2 DEF Adding, Added, Children
  <2>4. frame'[0] = 0 /\ \A q \in Children : upc'[q] \notin {"none", "share"} => frame'[q] = 0
    BY <1>0, <2>1, <2>2 DEF AddsUp
  <2> QED BY <2>2, <2>3, <2>4, SameAdding
<1>4. CASE Open(p) \/ ForkDone(p) \/ Wait(p) \/ Sleep(p) \/ Post(p)
  <2>1. /\ frame' = frame /\ page' = page /\ reg' = reg
        /\ \E step \in {"clear", "spin", "sleep", "load"} : upc' = [upc EXCEPT ![p] = step]
        /\ \/ upc[p] = "open" /\ upc' = [upc EXCEPT ![p] = "clear"]
           \/ upc[p] = "fork" /\ upc' = [upc EXCEPT ![p] = "spin"]
           \/ upc[p] = "wait" /\ upc' = [upc EXCEPT ![p] = "sleep"]
           \/ upc[p] = "sleep" /\ upc' = [upc EXCEPT ![p] = "load"]
           \/ upc[p] = "post" /\ upc' = [upc EXCEPT ![p] = "spin"]
    BY <1>0, <1>4 DEF Open, ForkDone, Wait, Sleep, Post, At, Goto
  <2>2. p \in Children => upc[p] \in ChildSteps
    BY <1>0, <2>1 DEF GInv, Shape
  <2>3. Adding' = Adding /\ Added' = Added
    BY <1>0, <2>1, <2>2 DEF Adding, Added, Children, ChildSteps
  <2>4. \A q \in Children : upc'[q] \notin {"none", "share"} => frame'[q] = 0
    BY <1>0, <2>1 DEF AddsUp
  <2> QED BY <1>0, <2>1, <2>3, <2>4, SameAdding
<1> QED BY <1>1, <1>2, <1>3, <1>4 DEF UserStep

LEMMA MCNextAddsUp == GInv /\ AddsUp /\ [MCNext]_<<allvars, overlapped>> => AddsUp'
<1> SUFFICES ASSUME GInv, AddsUp, [MCNext]_<<allvars, overlapped>> PROVE AddsUp'
  OBVIOUS
<1>1. CASE UNCHANGED <<allvars, overlapped>>
  BY <1>1 DEF allvars, gvars, AddsUp, Adding, Added, Children
<1>2. CASE MCNext
  <2>1. CASE KernelStep
    <3>1. UNCHANGED <<upc, i, frame, page, reg>>
      BY <2>1 DEF KernelStep, gvars
    <3>2. Adding' = Adding /\ Added' = Added
      BY <3>1 DEF Adding, Added, Children
    <3> QED BY <1>2, <3>1, <3>2, SameAdding DEF AddsUp
  <2>2. ASSUME NEW p \in Pids, UserStep(p) PROVE AddsUp'
    BY <1>2, <2>2, StoreAddsUp, LoadAddsUp, OtherStepAddsUp
  <2> QED BY <1>2, <2>1, <2>2 DEF MCNext, GameNext
<1> QED BY <1>1, <1>2

(* Unless two children were preempted in the middle of their additions     *)
(* together, the counter of game/game.c:153 ends up with what all of them  *)
(* have added: no switch, no fork and no sharing of the page loses any.    *)
THEOREM SpecSumExact == MCSpec => []SumExact
<1>1. MCInit => GInv /\ AddsUp
  BY InitGInv, InitAddsUp DEF MCInit
<1>2. GInv /\ AddsUp /\ [MCNext]_<<allvars, overlapped>> => (GInv /\ AddsUp)'
  <2>1. [MCNext]_<<allvars, overlapped>> => [GameNext]_allvars
    BY DEF MCNext
  <2> QED BY <2>1, GameNextKeepsGInv, MCNextAddsUp
<1>3. GInv /\ AddsUp => SumExact
  BY DEF AddsUp, SumExact, Sum
<1> QED BY <1>1, <1>2, <1>3, PTL DEF MCSpec

=============================================================================
