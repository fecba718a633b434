---------------------------- MODULE TrapsProofs ----------------------------
(***************************************************************************)
(* Proofs about system calls from the stub to their result, for any number *)
(* of processes, any program and any interrupts.                           *)
(***************************************************************************)
EXTENDS Traps, KernelProofs

-----------------------------------------------------------------------------
(* The invariant.                                                          *)

(* What the eax of Kernel is where the properties do not look: nothing is  *)
(* left behind in the process that runs, except by sys_exit.               *)
EaxOfTheRunner ==
  /\ mode = "user" => eax[curr_pid] \in {"own", "SYS_exit"}
  /\ mode = "hlt" => eax[curr_pid] = "SYS_wait_intr"
  /\ mode = "sched" /\ status[curr_pid] = PCB_FREE => eax[curr_pid] = "SYS_exit"

TrapsTypes ==
  /\ cpu \in Registers /\ tf \in [Pids -> Registers] /\ esp0 = curr_pid
  /\ call \in [Pids -> Requests \cup {Fresh, Born}]
  /\ stage \in [Pids -> {"loaded", "back"}]
  /\ handlers \subseteq {"timer", "keyboard"} /\ seen \in [Pids -> 0 .. 1]
  /\ todo \in Seq(Int) /\ uart \in Seq(Int) /\ due \in Seq(Int) /\ Len(uart) <= 1

(* Between the stub and its int the registers are the call.                *)
Loaded(p) ==
  stage[p] = "loaded" => call[p] \in Requests /\ RegistersOf(p) = do_syscall(call[p])

(* The registers after a call hold one of the answers to it.               *)
Answered(p) ==
  /\ mode # "halt" /\ stage[p] = "back"
  /\ status[p] # PCB_FREE \/ call[p].fn = "SYS_exit"
  => RegistersOf(p).eax \in Answers(p)

(* Kernel's eax is "SYS_exit" only while the program is in sys_exit.       *)
ExitStub(p) ==
  eax[p] = "SYS_exit"
  => call[p].fn = "SYS_exit" /\ RegistersOf(p).eax = Number("SYS_exit")

(* FramesAsInKernel, of one process.                                       *)
Frame(p) ==
  status[p] \in {PCB_SLEEPING, PCB_RUNNABLE} =>
    /\ eax[p] = "zero" => tf[p].eax = 0 /\ call[p] = Born
    /\ eax[p] \notin {"own", "zero"} => tf[p].eax = Number(eax[p])

ProcessInv(p) == Loaded(p) /\ Answered(p) /\ ExitStub(p) /\ Frame(p)

InHlt ==
  mode = "hlt" =>
    /\ stage[curr_pid] = "back" /\ call[curr_pid].fn = "SYS_wait_intr"
    /\ tf[curr_pid].eax = Number("SYS_wait_intr")

Printing ==
  todo # << >> =>
    /\ mode = "user" /\ tf[curr_pid] = cpu
    /\ stage[curr_pid] = "loaded" /\ call[curr_pid].fn = "SYS_vprintk"

TInv ==
  /\ IInv /\ EaxOfTheRunner
  /\ TrapsTypes /\ InHlt /\ Printing /\ NothingLost
  /\ \A p \in Pids : ProcessInv(p)

USE DEF PCB_FREE, PCB_SLEEPING, PCB_RUNNABLE, PCB_RUNNING, NOT_WAITING_SEM

-----------------------------------------------------------------------------
(* Numbers and frames.                                                     *)

LEMMA NumberFacts ==
  ASSUME NEW fn \in ToSet(syscalls)
  PROVE  /\ Number(fn) \in 0 .. 14
         /\ syscalls[Number(fn) + 1] = fn
<1>1. DOMAIN syscalls = 1 .. 15
  BY DEF syscalls
<1>2. PICK n \in DOMAIN syscalls : syscalls[n] = fn
  BY DEF ToSet
<1> DEFINE found == CHOOSE k \in DOMAIN syscalls : syscalls[k] = fn
<1>3. found \in DOMAIN syscalls /\ syscalls[found] = fn
  BY <1>2
<1>4. Number(fn) = found - 1
  BY DEF Number
<1> HIDE DEF found
<1> QED BY <1>1, <1>3, <1>4

(* A number is that of one call.                                           *)
LEMMA NumberIsOfOne ==
  ASSUME NEW f \in ToSet(syscalls), NEW g \in ToSet(syscalls), Number(f) = Number(g)
  PROVE  f = g
  BY NumberFacts

LEMMA CallNames ==
  {"SYS_vprintk", "SYS_exit", "SYS_timer", "SYS_keyboard", "SYS_display",
   "SYS_crash", "SYS_sleep", "SYS_wait_intr", "SYS_getpid", "SYS_fork",
   "SYS_sem_open", "SYS_sem_destroy", "SYS_sem_wait", "SYS_sem_post",
   "SYS_mem_share"} = ToSet(syscalls)
<1>1. DOMAIN syscalls = 1 .. 15
  BY DEF syscalls
<1> QED BY <1>1 DEF ToSet, syscalls

(* The stub loads the call, and the kernel reads the same.                 *)
LEMMA CallLoaded ==
  ASSUME NEW r \in Requests
  PROVE  /\ r.fn \in ToSet(syscalls) /\ r.args \in Seq(Int) /\ Len(r.args) = Arity(r.fn)
         /\ do_syscall(r) \in Registers
         /\ do_syscall(r).eax = Number(r.fn)
         /\ 1 <= Arity(r.fn) => arg1(do_syscall(r)) = r.args[1]
         /\ 2 <= Arity(r.fn) => arg2(do_syscall(r)) = r.args[2]
<1>1. r.fn \in ToSet(syscalls) /\ r.args \in Seq(Int) /\ Len(r.args) = Arity(r.fn)
  BY TrapsAssumption
<1>2. \A k \in 1 .. 3 : Argument(r, k) \in Int
  BY <1>1 DEF Argument
<1>3. Number(r.fn) \in Int
  BY <1>1, NumberFacts
<1> QED BY <1>1, <1>2, <1>3 DEF do_syscall, Registers, arg1, arg2, Argument

LEMMA CallArrives ==
  ASSUME NEW r \in Requests
  PROVE  Decoded(do_syscall(r)) = r
<1>1. r = [fn |-> r.fn, args |-> r.args]
  BY TrapsAssumption
<1>2. r.fn \in ToSet(syscalls) /\ r.args \in Seq(Int) /\ Len(r.args) = Arity(r.fn)
  BY CallLoaded
<1> DEFINE n == Arity(r.fn)
           a == Argument(r, 1)
           b == Argument(r, 2)
           c == Argument(r, 3)
<1>3. n \in 0 .. 3
  BY DEF Arity
<1>4. syscalls[do_syscall(r).eax + 1] = r.fn
  BY <1>2, NumberFacts DEF do_syscall
<1>5. SubSeq(<<a, b, c>>, 1, n) = r.args
  <2>1. a \in Int /\ b \in Int /\ c \in Int
    BY <1>2 DEF Argument
  <2> DEFINE t == <<a, b, c>>
  <2>2. t \in Seq(Int) /\ Len(t) = 3 /\ t[1] = a /\ t[2] = b /\ t[3] = c
    BY <2>1
  <2> HIDE DEF t
  <2>3. SubSeq(t, 1, n) = [i \in 1 .. n |-> t[i]]
    BY <1>3, <2>2
  <2>4. r.args = [i \in 1 .. n |-> r.args[i]]
    BY SMTT(30), <1>2, <1>3
  <2>5. \A i \in 1 .. n : t[i] = r.args[i]
    BY SMTT(30), <1>2, <1>3, <2>2 DEF Argument
  <2>6. SubSeq(t, 1, n) = r.args
    BY <2>3, <2>4, <2>5
  <2> QED BY <2>6 DEF t
<1> HIDE DEF n, a, b, c
<1>6. Decoded(do_syscall(r))
      = [fn |-> r.fn, args |-> SubSeq(<<a, b, c>>, 1, n)]
  BY <1>4 DEF Decoded, do_syscall, arg1, arg2, arg3, a, b, c, n
<1> QED BY <1>1, <1>5, <1>6

-----------------------------------------------------------------------------
(* The steps of Kernel.                                                    *)

LEMMA NextKeepsEaxOfTheRunner ==
  ASSUME IInv, EaxOfTheRunner, [Next]_vars
  PROVE  EaxOfTheRunner'
<1> USE DEF EaxOfTheRunner, IInv, TypeOK, OneRunning, LeaveCpu, UserCalls, InExitStub, Crash
<1>1. CASE PlainCall
  <2>1. CASE \/ \E time \in 0 .. MaxSleep : sys_sleep(time)
             \/ sys_exit \/ sys_wait_intr \/ sys_crash
    BY <2>1 DEF sys_sleep, sys_exit, sys_wait_intr, sys_crash
  <2>2. ASSUME NEW s \in Sems, NEW value \in 0 .. MaxCount,
               \/ sys_sem_open(s, value) \/ sys_sem_destroy(s)
               \/ sys_sem_wait(s) \/ sys_sem_post(s)
        PROVE  EaxOfTheRunner'
    BY <2>2 DEF sys_sem_open, sys_sem_destroy, sys_sem_wait, SemTake, SemBlock, sys_sem_post
  <2>3. 0 \in 0 .. MaxCount
    BY KernelAssumption
  <2> QED BY <1>1, <2>1, <2>2, <2>3 DEF PlainCall
<1>2. CASE sys_fork
  BY <1>2 DEF sys_fork, ForkInto, FreeSlot
<1>3. CASE Timer \/ DeviceIRQ
  BY <1>3 DEF Timer, TimerTick, TimerPreempt, DeviceIRQ, Return
<1>4. CASE SchedIdle
  BY <1>4 DEF SchedIdle
<1>5. CASE UNCHANGED vars
  BY <1>5 DEF vars
<1>6. ASSUME NEW p \in Pids, SchedDispatch(p) \/ SchedGrant(p)
      PROVE  EaxOfTheRunner'
  BY <1>6 DEF SchedDispatch, SchedGrant, pcb_exec
<1>7. ASSUME NEW p \in Pids, SchedRebind(p)
      PROVE  EaxOfTheRunner'
  BY <1>7 DEF SchedRebind, PassStopsAt
<1> QED BY <1>1, <1>2, <1>3, <1>4, <1>5, <1>6, <1>7
  DEF Next, SystemCall, sched_process, Halted

(* The call that the kernel finds in eax is the one the program made.      *)
LEMMA CalledFn ==
  ASSUME TInv, NEW fn \in ToSet(syscalls), Calls(fn)
  PROVE  /\ mode = "user" /\ todo = << >> /\ curr_pid \in Pids /\ esp0 = curr_pid
         /\ stage[curr_pid] = "loaded"
         /\ call[curr_pid] \in Requests /\ call[curr_pid].fn = fn
         /\ Len(call[curr_pid].args) = Arity(fn)
         /\ cpu \in Registers /\ cpu.eax = Number(fn)
         /\ 1 <= Arity(fn) => arg1(cpu) = call[curr_pid].args[1]
         /\ 2 <= Arity(fn) => arg2(cpu) = call[curr_pid].args[2]
<1>1. /\ mode = "user" /\ todo = << >> /\ curr_pid \in Pids /\ esp0 = curr_pid
      /\ stage[curr_pid] = "loaded" /\ cpu.eax = Number(fn) /\ cpu \in Registers
  BY DEF TInv, IInv, TypeOK, TrapsTypes, Calls, InUser
<1>2. call[curr_pid] \in Requests /\ cpu = do_syscall(call[curr_pid])
  BY <1>1 DEF TInv, ProcessInv, Loaded, RegistersOf
<1>3. call[curr_pid].fn = fn
  BY <1>1, <1>2, CallLoaded, NumberIsOfOne
<1> QED BY <1>1, <1>2, <1>3, CallLoaded

LEMMA TrapsNextIsKernels ==
  ASSUME TInv, [TrapsNext]_allvars
  PROVE  [Next]_vars
<1>1. CASE \/ \E r \in Requests : Load(r)
           \/ GetPid \/ Display \/ MemShare \/ SetHandler \/ Vprintk \/ serial_printc \/ Sent
           \/ UNCHANGED allvars
  BY <1>1 DEF Load, GetPid, Display, MemShare, SetHandler, Register, Vprintk, serial_printc,
              Sent, Plain, allvars
<1>2. CASE BlockingCall
  <2>1. CASE Calls("SYS_sleep") /\ sys_sleep(arg1(cpu))
    <3>1. "SYS_sleep" \in ToSet(syscalls) /\ 1 <= Arity("SYS_sleep")
      BY CallNames DEF Arity
    <3>2. arg1(cpu) \in 0 .. MaxSleep
      BY <2>1, <3>1, CalledFn, TrapsAssumption
    <3> QED BY <2>1, <3>2 DEF Next, SystemCall, PlainCall
  <2> QED BY <1>2, <2>1 DEF BlockingCall, Next, SystemCall, PlainCall
<1>3. CASE SemCall
  <2>1. ASSUME NEW fn \in {"SYS_sem_open", "SYS_sem_destroy", "SYS_sem_wait", "SYS_sem_post"},
               Calls(fn)
        PROVE  arg1(cpu) \in Sems /\ (fn = "SYS_sem_open" => arg2(cpu) \in 0 .. MaxCount)
    <3>1. fn \in ToSet(syscalls)
      BY CallNames
    <3>2. 1 <= Arity(fn) /\ (fn = "SYS_sem_open" => 2 <= Arity(fn))
      BY DEF Arity
    <3> QED BY <2>1, <3>1, <3>2, CalledFn, TrapsAssumption
  <2> QED BY <1>3, <2>1 DEF SemCall, Next, SystemCall, PlainCall
<1>4. CASE ForkCall
  BY <1>4 DEF ForkCall, Next, SystemCall, sys_fork
<1>5. CASE Tick \/ Preempt \/ DeviceInterrupt
  BY <1>5 DEF Tick, Preempt, DeviceInterrupt, Plain, Next, Timer
<1>6. CASE (\E p \in Pids : Switch(p)) \/ NoSwitch
  BY <1>6 DEF Switch, NoSwitch, Next, sched_process
<1> QED BY <1>1, <1>2, <1>3, <1>4, <1>5, <1>6 DEF TrapsNext, SystemCallStep

-----------------------------------------------------------------------------
(* One process.                                                            *)

LEMMA EaxSet ==
  ASSUME NEW frame \in Registers, NEW v \in Int
  PROVE  /\ [frame EXCEPT !.eax = v] \in Registers
         /\ [frame EXCEPT !.eax = v].eax = v
  BY DEF Registers

LEMMA AnswersByCall ==
  ASSUME NEW p
  PROVE  /\ call[p].fn = "SYS_getpid" => Answers(p) = {p}
         /\ call[p].fn = "SYS_fork" => Answers(p) = Pids \ {p}
         /\ call[p].fn = "SYS_sem_open" => Answers(p) = {call[p].args[1]}
         /\ call[p].fn \in {"SYS_sem_wait", "SYS_wait_intr"}
              => Answers(p) = {0, Number(call[p].fn)}
         /\ call[p].fn \in {"SYS_sleep", "SYS_exit"} => Answers(p) = {Number(call[p].fn)}
         /\ call[p].fn \in {"SYS_vprintk", "SYS_timer", "SYS_keyboard", "SYS_display",
                            "SYS_crash", "SYS_sem_destroy", "SYS_sem_post", "SYS_mem_share",
                            "none", "born"}
              => Answers(p) = {0}
  BY DEF Answers

LEMMA SameCallSameAnswers ==
  ASSUME NEW p, call'[p] = call[p]
  PROVE  Answers(p)' = Answers(p)
  BY DEF Answers

(* A step that leaves a process and its registers alone.                   *)
LEMMA ProcessKept ==
  ASSUME NEW p \in Pids, ProcessInv(p),
         RegistersOf(p)' = RegistersOf(p),
         call'[p] = call[p], stage'[p] = stage[p], eax'[p] = eax[p],
         status'[p] = status[p],
         status[p] \in {PCB_SLEEPING, PCB_RUNNABLE} => tf'[p] = tf[p],
         mode = "halt" => mode' = "halt"
  PROVE  ProcessInv(p)'
<1>1. Answers(p)' = Answers(p)
  BY SameCallSameAnswers
<1> QED BY <1>1 DEF ProcessInv, Loaded, Answered, ExitStub, Frame

LEMMA OthersKept ==
  ASSUME NEW p \in Pids, ProcessInv(p), p # curr_pid, p # curr_pid',
         tf'[p] = tf[p], call'[p] = call[p], stage'[p] = stage[p], eax'[p] = eax[p],
         status'[p] = status[p],
         mode = "halt" => mode' = "halt"
  PROVE  ProcessInv(p)'
<1>1. RegistersOf(p)' = RegistersOf(p)
  BY DEF RegistersOf
<1> QED BY <1>1, ProcessKept

(* The frame that ReturnWith and Suspend leave.                            *)
LEMMA FramesTyped ==
  ASSUME TrapsTypes, curr_pid \in Pids, NEW v \in Int, NEW frame \in Registers,
         ReturnWith(frame, v) \/ Suspend(frame)
  PROVE  /\ cpu' \in Registers /\ tf' \in [Pids -> Registers]
         /\ \A p \in Pids : p # curr_pid => tf'[p] = tf[p]
         /\ ReturnWith(frame, v) => cpu'.eax = v
         /\ Suspend(frame) => tf'[curr_pid] = frame
<1>1. Dead \in Registers
  BY DEF Dead, Registers
<1> DEFINE answered == [frame EXCEPT !.eax = v]
<1>2. answered \in Registers /\ answered.eax = v
  BY EaxSet
<1>3. ReturnWith(frame, v) => cpu' = answered /\ tf' = [tf EXCEPT ![curr_pid] = Dead]
  BY DEF ReturnWith, TrapsTypes
<1>4. Suspend(frame) => cpu' = Dead /\ tf' = [tf EXCEPT ![curr_pid] = frame]
  BY DEF Suspend, TrapsTypes
<1> HIDE DEF answered
<1> QED BY <1>1, <1>2, <1>3, <1>4 DEF TrapsTypes

-----------------------------------------------------------------------------
(* The initial state.                                                      *)

LEMMA InitTInv == TrapsInit => TInv
<1> SUFFICES ASSUME TrapsInit PROVE TInv
  OBVIOUS
<1>1. IInv
  BY InitIInv DEF TrapsInit
<1>2. EaxOfTheRunner
  BY <1>1 DEF TrapsInit, Init, EaxOfTheRunner, IInv, TypeOK
<1>3. TrapsTypes
  BY DEF TrapsInit, Init, TrapsTypes, Registers, Dead, Fresh
<1>4. ASSUME NEW p \in Pids PROVE ProcessInv(p)
  <2>1. call[p].fn = "none" /\ stage[p] = "back" /\ eax[p] = "own"
    BY DEF TrapsInit, Init, Fresh
  <2>2. Answers(p) = {0}
    BY <2>1, AnswersByCall
  <2>3. status[p] # PCB_FREE => RegistersOf(p) = cpu
    BY DEF TrapsInit, Init, RegistersOf
  <2>4. Answered(p)
    BY <2>1, <2>2, <2>3 DEF Answered, TrapsInit
  <2> QED BY <2>1, <2>4 DEF ProcessInv, Loaded, ExitStub, Frame
<1>5. InHlt /\ Printing /\ NothingLost
  BY DEF TrapsInit, Init, InHlt, Printing, NothingLost
<1> QED BY <1>1, <1>2, <1>3, <1>4, <1>5 DEF TInv

-----------------------------------------------------------------------------
(* System calls.                                                           *)

LEMMA LoadKeepsTInv ==
  ASSUME TInv, NEW r \in Requests, Load(r)
  PROVE  TInv'
<1>1. /\ curr_pid \in Pids /\ mode = "user" /\ todo = << >>
      /\ status[curr_pid] = PCB_RUNNING
      /\ UNCHANGED vars
  BY DEF TInv, IInv, TypeOK, OneRunning, Load, InUser
<1>2. IInv' /\ EaxOfTheRunner'
  BY <1>1, NextKeepsIInv, NextKeepsEaxOfTheRunner DEF TInv
<1>3. do_syscall(r) \in Registers /\ do_syscall(r).eax = Number(r.fn)
  BY CallLoaded
<1>4. TrapsTypes'
  BY <1>1, <1>3 DEF TInv, TrapsTypes, Load, vars
<1>5. ASSUME NEW p \in Pids, p = curr_pid PROVE ProcessInv(p)'
  <2>1. /\ call'[p] = r /\ stage'[p] = "loaded"
        /\ RegistersOf(p)' = do_syscall(r)
    BY <1>1, <1>5 DEF Load, RegistersOf, TInv, TrapsTypes, vars
  <2>2. eax'[p] = "SYS_exit" => r.fn = "SYS_exit"
    BY <1>1, <1>5 DEF Load, TInv, ProcessInv, ExitStub, vars
  <2>3. status'[p] = PCB_RUNNING
    BY <1>1, <1>5 DEF vars
  <2> QED BY <1>1, <1>3, <2>1, <2>2, <2>3 DEF ProcessInv, Loaded, Answered, ExitStub, Frame
<1>6. ASSUME NEW p \in Pids, p # curr_pid PROVE ProcessInv(p)'
  BY <1>1, <1>6, OthersKept DEF Load, TInv, TrapsTypes, vars
<1>7. InHlt' /\ Printing' /\ NothingLost'
  BY <1>1 DEF Load, InHlt, Printing, NothingLost, TInv, vars
<1>8. curr_pid' = curr_pid
  BY <1>1 DEF vars
<1> QED BY <1>2, <1>4, <1>5, <1>6, <1>7, <1>8 DEF TInv

(* A call that returns, or that leaves its own number in eax.              *)
LEMMA ReturnsKeepsTInv ==
  ASSUME TInv, [Next]_vars, NEW fn \in ToSet(syscalls), Calls(fn),
         NEW result \in Int, Returns(result),
         curr_pid' = curr_pid,
         \A p \in Pids : p # curr_pid => status'[p] = status[p] /\ eax'[p] = eax[p],
         \/ /\ mode' = "user" /\ eax'[curr_pid] # "SYS_exit"
            /\ result \in Answers(curr_pid)
         \/ /\ mode' \in {"hlt", "sched"} /\ eax'[curr_pid] = fn
            /\ Number(fn) \in Answers(curr_pid)
            /\ mode' = "hlt" => fn = "SYS_wait_intr"
            /\ fn \notin {"own", "zero"}
         \/ mode' = "halt" /\ eax'[curr_pid] # "SYS_exit" /\ status' = status
  PROVE  TInv'
<1>1. /\ mode = "user" /\ todo = << >> /\ curr_pid \in Pids /\ esp0 = curr_pid
      /\ call[curr_pid].fn = fn
      /\ cpu \in Registers /\ cpu.eax = Number(fn)
  BY CalledFn
<1>2. IInv' /\ EaxOfTheRunner'
  BY NextKeepsIInv, NextKeepsEaxOfTheRunner DEF TInv
<1>3. /\ mode' = "user" => ReturnWith(cpu, result)
      /\ mode' # "user" => Suspend(cpu)
      /\ stage' = [stage EXCEPT ![curr_pid] = "back"]
      /\ UNCHANGED <<todo, uart, due, esp0, call, handlers, seen>>
  BY DEF Returns, Done, Quiet
<1>4. /\ cpu' \in Registers /\ tf' \in [Pids -> Registers]
      /\ \A p \in Pids : p # curr_pid => tf'[p] = tf[p]
      /\ mode' = "user" => cpu'.eax = result
      /\ mode' # "user" => tf'[curr_pid] = cpu
  BY <1>1, <1>3, FramesTyped DEF TInv
<1>5. TrapsTypes'
  BY <1>1, <1>3, <1>4 DEF TInv, TrapsTypes
<1>6. ASSUME NEW p \in Pids, p = curr_pid PROVE ProcessInv(p)'
  <2>1. stage'[p] = "back" /\ call'[p] = call[p]
    BY <1>1, <1>3, <1>6 DEF TInv, TrapsTypes
  <2>2. Answers(p)' = Answers(p)
    BY <2>1, SameCallSameAnswers
  <2>3. /\ mode' = "user" => RegistersOf(p)'.eax = result
        /\ mode' # "user" => RegistersOf(p)' = cpu /\ tf'[p] = cpu
    BY <1>4, <1>6 DEF RegistersOf
  <2>4. status'[p] \in {PCB_SLEEPING, PCB_RUNNABLE} => mode' = "sched"
    BY <1>1, <1>2, <1>6 DEF TInv, IInv, TypeOK, OneRunning
  <2> QED BY <1>1, <1>6, <2>1, <2>2, <2>3, <2>4
          DEF ProcessInv, Loaded, Answered, ExitStub, Frame
<1>7. ASSUME NEW p \in Pids, p # curr_pid PROVE ProcessInv(p)'
  BY <1>1, <1>3, <1>4, <1>7, OthersKept DEF TInv, TrapsTypes
<1>8. InHlt' /\ Printing' /\ NothingLost'
  BY <1>1, <1>3, <1>4 DEF InHlt, Printing, NothingLost, TInv, TrapsTypes
<1> QED BY <1>2, <1>5, <1>6, <1>7, <1>8 DEF TInv

(* The calls that change nothing of Kernel's.                              *)
LEMMA PlainReturnsKeepsTInv ==
  ASSUME TInv, NEW fn \in ToSet(syscalls), Calls(fn), Plain,
         NEW result \in Int, Returns(result), result \in Answers(curr_pid),
         fn # "SYS_exit"
  PROVE  TInv'
<1>1. mode = "user" /\ curr_pid \in Pids /\ call[curr_pid].fn = fn
  BY CalledFn
<1>2. eax[curr_pid] # "SYS_exit"
  BY <1>1 DEF TInv, ProcessInv, ExitStub
<1> QED BY <1>1, <1>2, ReturnsKeepsTInv DEF Plain, vars

LEMMA GetPidKeepsTInv ==
  ASSUME TInv, GetPid \/ Display \/ MemShare
  PROVE  TInv'
<1> DEFINE fns == {"SYS_getpid", "SYS_display", "SYS_mem_share"}
<1>1. PICK fn \in fns : Calls(fn) /\ Plain /\ Returns(IF fn = "SYS_getpid" THEN curr_pid ELSE 0)
  BY DEF GetPid, Display, MemShare
<1>2. fn \in ToSet(syscalls) /\ fn # "SYS_exit"
  BY CallNames
<1>3. curr_pid \in Pids /\ call[curr_pid].fn = fn
  BY <1>1, <1>2, CalledFn
<1>4. (IF fn = "SYS_getpid" THEN curr_pid ELSE 0) \in Answers(curr_pid)
  BY <1>3, AnswersByCall
<1>5. (IF fn = "SYS_getpid" THEN curr_pid ELSE 0) \in Int
  BY <1>3 DEF Pids
<1> QED BY <1>1, <1>2, <1>4, <1>5, PlainReturnsKeepsTInv

(* sys_timer and sys_keyboard differ from these in the handlers only.      *)
LEMMA SetHandlerKeepsTInv ==
  ASSUME TInv, SetHandler
  PROVE  TInv'
<1>1. PICK fn \in {"SYS_timer", "SYS_keyboard"}, device \in {"timer", "keyboard"} :
        Calls(fn) /\ Register(device, arg1(cpu))
  BY DEF SetHandler
<1>2. fn \in ToSet(syscalls)
  BY CallNames
<1>3. /\ mode = "user" /\ todo = << >> /\ curr_pid \in Pids /\ call[curr_pid].fn = fn
      /\ cpu \in Registers /\ UNCHANGED vars
      /\ stage' = [stage EXCEPT ![curr_pid] = "back"]
      /\ UNCHANGED <<todo, uart, due, esp0, call, seen>>
      /\ handlers' \subseteq handlers \cup {device}
  BY <1>1, <1>2, CalledFn DEF Register, Plain, Done, Quiet
<1>4. IInv' /\ EaxOfTheRunner'
  BY <1>3, NextKeepsIInv, NextKeepsEaxOfTheRunner DEF TInv
<1>5. /\ cpu' \in Registers /\ tf' \in [Pids -> Registers]
      /\ \A p \in Pids : p # curr_pid => tf'[p] = tf[p]
      /\ cpu'.eax = 0
  BY <1>1, <1>3, FramesTyped DEF TInv, Register
<1>6. TrapsTypes'
  BY <1>3, <1>5 DEF TInv, TrapsTypes, vars
<1>7. ASSUME NEW p \in Pids, p = curr_pid PROVE ProcessInv(p)'
  <2>1. stage'[p] = "back" /\ call'[p] = call[p]
    BY <1>3, <1>7 DEF TInv, TrapsTypes
  <2>2. Answers(p)' = {0}
    BY <1>3, <1>7, <2>1, SameCallSameAnswers, AnswersByCall
  <2>3. RegistersOf(p)'.eax = 0 /\ status'[p] = PCB_RUNNING
    BY <1>3, <1>5, <1>7 DEF RegistersOf, vars, TInv, IInv, OneRunning
  <2>4. eax'[p] # "SYS_exit"
    BY <1>3, <1>7 DEF TInv, ProcessInv, ExitStub, vars
  <2> QED BY <2>1, <2>2, <2>3, <2>4 DEF ProcessInv, Loaded, Answered, ExitStub, Frame
<1>8. ASSUME NEW p \in Pids, p # curr_pid PROVE ProcessInv(p)'
  BY <1>3, <1>5, <1>8, OthersKept DEF TInv, vars
<1>9. InHlt' /\ Printing' /\ NothingLost'
  BY <1>3 DEF InHlt, Printing, NothingLost, TInv, vars
<1> QED BY <1>4, <1>6, <1>7, <1>8, <1>9 DEF TInv

LEMMA BlockingCallKeepsTInv ==
  ASSUME TInv, [Next]_vars, BlockingCall
  PROVE  TInv'
<1>1. PICK fn \in {"SYS_sleep", "SYS_exit", "SYS_wait_intr", "SYS_crash"} :
        /\ Calls(fn)
        /\ fn = "SYS_sleep" => sys_sleep(arg1(cpu))
        /\ fn = "SYS_exit" => sys_exit
        /\ fn = "SYS_wait_intr" => sys_wait_intr
        /\ fn = "SYS_crash" => sys_crash
  BY DEF BlockingCall
<1>2. fn \in ToSet(syscalls) /\ Returns(0)
  BY CallNames DEF BlockingCall
<1>3. curr_pid \in Pids /\ call[curr_pid].fn = fn
  BY <1>1, <1>2, CalledFn
<1>4. /\ curr_pid' = curr_pid
      /\ \A p \in Pids : p # curr_pid => status'[p] = status[p] /\ eax'[p] = eax[p]
  BY <1>1 DEF sys_sleep, sys_exit, sys_wait_intr, sys_crash, Crash, LeaveCpu, TInv, IInv, TypeOK
<1>5. CASE fn = "SYS_crash"
  <2>1. mode' = "halt" /\ eax' = eax /\ status' = status /\ eax[curr_pid] # "SYS_exit"
    BY <1>1, <1>5 DEF sys_crash, Crash, UserCalls, InExitStub
  <2> QED BY <1>1, <1>2, <1>4, <2>1, ReturnsKeepsTInv
<1>6. CASE fn # "SYS_crash"
  <2>1. /\ mode' \in {"hlt", "sched"} /\ eax'[curr_pid] = fn
        /\ mode' = "hlt" => fn = "SYS_wait_intr"
    BY <1>1, <1>3, <1>6 DEF sys_sleep, sys_exit, sys_wait_intr, LeaveCpu, TInv, IInv, TypeOK
  <2>2. Number(fn) \in Answers(curr_pid)
    BY <1>3, <1>6, AnswersByCall
  <2> QED BY <1>1, <1>2, <1>4, <2>1, <2>2, ReturnsKeepsTInv
<1> QED BY <1>5, <1>6

LEMMA SemCallKeepsTInv ==
  ASSUME TInv, [Next]_vars, SemCall
  PROVE  TInv'
<1>1. PICK fn \in {"SYS_sem_open", "SYS_sem_destroy", "SYS_sem_wait", "SYS_sem_post"} :
        /\ Calls(fn)
        /\ fn = "SYS_sem_open" => sys_sem_open(arg1(cpu), arg2(cpu)) /\ Returns(arg1(cpu))
        /\ fn = "SYS_sem_destroy" => sys_sem_destroy(arg1(cpu)) /\ Returns(0)
        /\ fn = "SYS_sem_wait" => sys_sem_wait(arg1(cpu)) /\ Returns(0)
        /\ fn = "SYS_sem_post" => sys_sem_post(arg1(cpu)) /\ Returns(0)
  BY DEF SemCall
<1>2. fn \in ToSet(syscalls) /\ 1 <= Arity(fn)
  BY CallNames DEF Arity
<1>3. /\ mode = "user" /\ curr_pid \in Pids /\ call[curr_pid].fn = fn
      /\ arg1(cpu) = call[curr_pid].args[1] /\ arg1(cpu) \in Int
  BY <1>1, <1>2, CalledFn DEF Registers, arg1
<1>4. /\ curr_pid' = curr_pid
      /\ \A p \in Pids : p # curr_pid => status'[p] = status[p] /\ eax'[p] = eax[p]
      /\ eax[curr_pid] # "SYS_exit"
  BY <1>1 DEF sys_sem_open, sys_sem_destroy, sys_sem_wait, SemTake, SemBlock, sys_sem_post,
              Crash, LeaveCpu, UserCalls, InExitStub, TInv, IInv, TypeOK
<1>5. CASE fn = "SYS_sem_open"
  <2>1. \/ mode' = "user" /\ eax' = eax
        \/ mode' = "halt" /\ eax' = eax /\ status' = status
    BY <1>1, <1>3, <1>5 DEF sys_sem_open, Crash
  <2>2. arg1(cpu) \in Answers(curr_pid)
    BY <1>3, <1>5, AnswersByCall
  <2> QED BY <1>1, <1>2, <1>3, <1>4, <1>5, <2>1, <2>2, ReturnsKeepsTInv
<1>6. CASE fn # "SYS_sem_open"
  <2>1. Returns(0) /\ 0 \in Answers(curr_pid)
    BY <1>1, <1>3, <1>6, AnswersByCall
  <2>2. CASE mode' = "user" /\ eax' = eax
    BY <1>1, <1>2, <1>4, <2>1, <2>2, ReturnsKeepsTInv
  <2>3. CASE ~(mode' = "user" /\ eax' = eax)
    <3>1. /\ fn = "SYS_sem_wait"
          /\ mode' = "sched" /\ eax'[curr_pid] = fn
      BY <1>1, <1>3, <1>6, <2>3 DEF sys_sem_destroy, sys_sem_wait, SemTake, SemBlock, sys_sem_post,
              LeaveCpu, UserCalls, TInv, IInv, TypeOK
    <3>2. Number(fn) \in Answers(curr_pid)
      BY <1>3, <3>1, AnswersByCall
    <3> QED BY <1>1, <1>2, <1>4, <2>1, <3>1, <3>2, ReturnsKeepsTInv
  <2> QED BY <2>2, <2>3
<1> QED BY <1>5, <1>6

LEMMA ForkCallKeepsTInv ==
  ASSUME TInv, [Next]_vars, ForkCall
  PROVE  TInv'
<1>1. "SYS_fork" \in ToSet(syscalls) /\ Calls("SYS_fork")
  BY CallNames DEF ForkCall
<1>2. /\ mode = "user" /\ todo = << >> /\ curr_pid \in Pids /\ esp0 = curr_pid
      /\ call[curr_pid].fn = "SYS_fork" /\ cpu \in Registers
  BY <1>1, CalledFn
<1>3. eax[curr_pid] # "SYS_exit" /\ status[curr_pid] = PCB_RUNNING
  BY <1>2 DEF ForkCall, UserCalls, InExitStub, TInv, IInv, OneRunning
<1>4. CASE NoFreeSlot /\ Crash /\ Returns(0)
  BY <1>1, <1>3, <1>4, ReturnsKeepsTInv DEF Crash
<1>5. ASSUME NEW new \in Pids, ForkInto(new),
             cpu' = [cpu EXCEPT !.eax = new],
             tf' = [tf EXCEPT ![esp0] = Dead, ![new] = ChildFrame(cpu)],
             call' = [call EXCEPT ![new] = Born],
             stage' = [stage EXCEPT ![new] = "back", ![curr_pid] = "back"],
             seen' = [seen EXCEPT ![new] = seen[curr_pid]],
             UNCHANGED <<todo, uart, due, esp0, handlers>>
      PROVE  TInv'
  <2>1. /\ new # curr_pid /\ mode' = "user" /\ curr_pid' = curr_pid
        /\ status' = [status EXCEPT ![new] = PCB_RUNNABLE]
        /\ eax' = [eax EXCEPT ![new] = "zero"]
    BY <1>2, <1>5 DEF ForkInto, FreeSlot
  <2>2. IInv' /\ EaxOfTheRunner'
    BY NextKeepsIInv, NextKeepsEaxOfTheRunner DEF TInv
  <2> DEFINE answered == [cpu EXCEPT !.eax = new]
             child == ChildFrame(cpu)
  <2>3. answered \in Registers /\ answered.eax = new
    BY <1>2, EaxSet DEF Pids
  <2>4. child \in Registers /\ child.eax = 0 /\ Dead \in Registers
    BY <1>2, EaxSet DEF ChildFrame, Dead, Registers
  <2>5. cpu' = answered /\ tf' = [tf EXCEPT ![curr_pid] = Dead, ![new] = child]
    BY <1>2, <1>5
  <2> HIDE DEF answered, child
  <2>6. TrapsTypes'
    BY <1>2, <1>5, <2>1, <2>3, <2>4, <2>5 DEF TInv, TrapsTypes
  <2>7. ASSUME NEW p \in Pids, p = curr_pid PROVE ProcessInv(p)'
    <3>1. stage'[p] = "back" /\ call'[p] = call[p]
      BY <1>2, <1>5, <2>1, <2>7 DEF TInv, TrapsTypes
    <3>2. Answers(p)' = Pids \ {p}
      BY <1>2, <2>7, <3>1, SameCallSameAnswers, AnswersByCall
    <3>3. RegistersOf(p)'.eax = new /\ status'[p] = PCB_RUNNING /\ eax'[p] # "SYS_exit"
      BY <1>2, <1>3, <2>1, <2>3, <2>5, <2>7 DEF RegistersOf, TInv, IInv, TypeOK
    <3> QED BY <2>1, <2>7, <3>1, <3>2, <3>3
            DEF ProcessInv, Loaded, Answered, ExitStub, Frame
  <2>8. ASSUME NEW p \in Pids, p = new PROVE ProcessInv(p)'
    <3>1. stage'[p] = "back" /\ call'[p] = Born
      BY <1>2, <1>5, <2>1, <2>8 DEF TInv, TrapsTypes
    <3>2. Answers(p)' = {0}
      <4>1. call'[p].fn = "born"
        BY <3>1 DEF Born
      <4> QED BY <4>1 DEF Answers
    <3>3. RegistersOf(p)' = child /\ tf'[p] = child /\ eax'[p] = "zero"
      BY <1>2, <2>1, <2>5, <2>8 DEF RegistersOf, TInv, TrapsTypes, IInv, TypeOK
    <3> QED BY <2>4, <3>1, <3>2, <3>3 DEF ProcessInv, Loaded, Answered, ExitStub, Frame
  <2>9. ASSUME NEW p \in Pids, p # curr_pid, p # new PROVE ProcessInv(p)'
    <3>1. /\ tf'[p] = tf[p] /\ call'[p] = call[p] /\ stage'[p] = stage[p]
          /\ eax'[p] = eax[p] /\ status'[p] = status[p]
      BY <1>2, <1>5, <2>1, <2>5, <2>9 DEF TInv, TrapsTypes, IInv, TypeOK
    <3> QED BY <1>2, <2>1, <2>9, <3>1, OthersKept DEF TInv
  <2>10. InHlt' /\ Printing' /\ NothingLost'
    BY <1>2, <1>5, <2>1 DEF InHlt, Printing, NothingLost, TInv
  <2> QED BY <2>2, <2>6, <2>7, <2>8, <2>9, <2>10 DEF TInv
<1> QED BY <1>4, <1>5 DEF ForkCall, Quiet

LEMMA VprintkKeepsTInv ==
  ASSUME TInv, Vprintk
  PROVE  TInv'
<1>1. "SYS_vprintk" \in ToSet(syscalls) /\ 2 = Arity("SYS_vprintk")
  BY CallNames DEF Arity
<1> DEFINE text == vfprintf(Formats[arg1(cpu)], <<arg2(cpu)>>)
<1>2. /\ mode = "user" /\ todo = << >> /\ curr_pid \in Pids /\ esp0 = curr_pid
      /\ stage[curr_pid] = "loaded" /\ call[curr_pid].fn = "SYS_vprintk"
      /\ cpu \in Registers /\ status[curr_pid] = PCB_RUNNING
      /\ UNCHANGED vars
  BY <1>1, CalledFn DEF Vprintk, Plain, TInv, IInv, OneRunning
<1>3. text \in Seq(Int)
  <2>1. /\ call[curr_pid] \in Requests
        /\ arg1(cpu) = call[curr_pid].args[1] /\ arg2(cpu) = call[curr_pid].args[2]
    BY <1>1, CalledFn DEF Vprintk
  <2> QED BY <1>2, <2>1, TrapsAssumption
<1>4. /\ todo' = text /\ due' = due \o text
      /\ tf' = [tf EXCEPT ![curr_pid] = cpu]
      /\ UNCHANGED <<cpu, esp0, call, stage, handlers, seen, uart>>
  BY <1>2 DEF Vprintk
<1> HIDE DEF text
<1>5. IInv' /\ EaxOfTheRunner'
  BY <1>2, NextKeepsIInv, NextKeepsEaxOfTheRunner DEF TInv
<1>6. TrapsTypes'
  BY <1>2, <1>3, <1>4 DEF TInv, TrapsTypes, vars
<1>7. ASSUME NEW p \in Pids PROVE ProcessInv(p)'
  <2>1. RegistersOf(p)' = RegistersOf(p)
    BY <1>2, <1>4, <1>7 DEF RegistersOf, vars, TInv, TrapsTypes
  <2>2. status[p] \in {PCB_SLEEPING, PCB_RUNNABLE} => tf'[p] = tf[p]
    BY <1>2, <1>4, <1>7 DEF TInv, TrapsTypes
  <2> QED BY <1>2, <1>4, <2>1, <2>2, ProcessKept DEF vars, TInv
<1>8. NothingLost'
  BY <1>2, <1>3, <1>4 DEF NothingLost, TInv, TrapsTypes
<1>9. InHlt' /\ Printing'
  BY <1>2, <1>4 DEF InHlt, Printing, TInv, TrapsTypes, vars
<1> QED BY <1>5, <1>6, <1>7, <1>8, <1>9 DEF TInv

LEMMA PrintingFacts ==
  ASSUME TInv, serial_printc
  PROVE  /\ mode = "user" /\ curr_pid \in Pids /\ esp0 = curr_pid
         /\ stage[curr_pid] = "loaded" /\ call[curr_pid].fn = "SYS_vprintk"
         /\ tf[curr_pid] = cpu /\ cpu \in Registers /\ status[curr_pid] = PCB_RUNNING
         /\ eax[curr_pid] # "SYS_exit"
         /\ UNCHANGED vars
         /\ todo' \in Seq(Int) /\ uart' \in Seq(Int) /\ Len(uart') = 1
         /\ Len(todo) = 1 => todo' = << >>
         /\ uart' \o todo' = uart \o todo
<1>1. todo # << >> /\ todo \in Seq(Int) /\ uart = << >>
      /\ uart' = <<Head(todo)>> /\ todo' = Tail(todo)
  BY DEF serial_printc, is_serial_idle, TInv, TrapsTypes
<1>2. todo' \in Seq(Int) /\ uart' \in Seq(Int) /\ Len(uart') = 1
      /\ (Len(todo) = 1 => todo' = << >>)
  BY <1>1
<1>3. uart' \o todo' = uart \o todo
  BY <1>1
<1>4. /\ mode = "user" /\ curr_pid \in Pids /\ esp0 = curr_pid
      /\ stage[curr_pid] = "loaded" /\ call[curr_pid].fn = "SYS_vprintk"
      /\ tf[curr_pid] = cpu /\ cpu \in Registers /\ status[curr_pid] = PCB_RUNNING
      /\ UNCHANGED vars
  BY <1>1 DEF serial_printc, Plain, TInv, TrapsTypes, Printing, IInv, OneRunning, TypeOK
<1>5. eax[curr_pid] # "SYS_exit"
  BY <1>4 DEF TInv, ProcessInv, ExitStub
<1> QED BY <1>2, <1>3, <1>4, <1>5

LEMMA PrintcKeepsTInv ==
  ASSUME TInv, serial_printc
  PROVE  TInv'
<1>1. /\ mode = "user" /\ curr_pid \in Pids /\ esp0 = curr_pid
      /\ stage[curr_pid] = "loaded" /\ call[curr_pid].fn = "SYS_vprintk"
      /\ tf[curr_pid] = cpu /\ cpu \in Registers /\ status[curr_pid] = PCB_RUNNING
      /\ eax[curr_pid] # "SYS_exit"
      /\ UNCHANGED vars
      /\ todo' \in Seq(Int) /\ uart' \in Seq(Int) /\ Len(uart') = 1
      /\ Len(todo) = 1 => todo' = << >>
      /\ uart' \o todo' = uart \o todo
  BY PrintingFacts
<1>2. IInv' /\ EaxOfTheRunner'
  BY <1>1, NextKeepsIInv, NextKeepsEaxOfTheRunner DEF TInv
<1>3. UNCHANGED <<esp0, call, handlers, seen, due>>
  BY DEF serial_printc
<1>4. NothingLost' /\ InHlt'
  BY <1>1, <1>3 DEF NothingLost, InHlt, TInv, vars
<1>5. CASE Len(todo) = 1
  <2>1. ReturnWith(cpu, 0) /\ stage' = [stage EXCEPT ![curr_pid] = "back"]
    BY <1>1, <1>5 DEF serial_printc, Done
  <2>2. /\ cpu' \in Registers /\ tf' \in [Pids -> Registers] /\ cpu'.eax = 0
        /\ \A p \in Pids : p # curr_pid => tf'[p] = tf[p]
    BY <1>1, <2>1, FramesTyped DEF TInv
  <2>3. TrapsTypes'
    <3>1. stage' \in [Pids -> {"loaded", "back"}] /\ esp0' = curr_pid'
      BY <1>1, <1>3, <2>1 DEF TInv, TrapsTypes, vars
    <3> QED BY <1>1, <1>3, <2>2, <3>1 DEF TInv, TrapsTypes
  <2>4. ASSUME NEW p \in Pids, p = curr_pid PROVE ProcessInv(p)'
    <3>1. stage'[p] = "back" /\ call'[p] = call[p]
      BY <1>1, <1>3, <2>1, <2>4 DEF TInv, TrapsTypes
    <3>2. Answers(p)' = {0}
      BY <1>1, <2>4, <3>1, SameCallSameAnswers, AnswersByCall
    <3>3. RegistersOf(p)'.eax = 0 /\ status'[p] = PCB_RUNNING /\ eax'[p] # "SYS_exit"
      BY <1>1, <2>2, <2>4 DEF RegistersOf, vars
    <3> QED BY <3>1, <3>2, <3>3 DEF ProcessInv, Loaded, Answered, ExitStub, Frame
  <2>5. ASSUME NEW p \in Pids, p # curr_pid PROVE ProcessInv(p)'
    BY <1>1, <1>3, <2>1, <2>2, <2>5, OthersKept DEF TInv, TrapsTypes, vars
  <2>6. Printing'
    BY <1>1, <1>5 DEF Printing
  <2> QED BY <1>2, <1>4, <2>3, <2>4, <2>5, <2>6 DEF TInv
<1>6. CASE Len(todo) # 1
  <2>1. UNCHANGED <<cpu, tf, stage>>
    BY <1>6 DEF serial_printc
  <2>2. TrapsTypes' /\ Printing'
    BY <1>1, <1>3, <2>1 DEF TInv, TrapsTypes, Printing, vars
  <2>3. ASSUME NEW p \in Pids PROVE ProcessInv(p)'
    <3>1. RegistersOf(p)' = RegistersOf(p)
      BY <1>1, <2>1 DEF RegistersOf, vars
    <3> QED BY <1>1, <1>3, <2>1, <3>1, ProcessKept DEF TInv, vars
  <2> QED BY <1>2, <1>4, <2>2, <2>3 DEF TInv
<1> QED BY <1>5, <1>6

LEMMA SentKeepsTInv ==
  ASSUME TInv, Sent
  PROVE  TInv'
<1>1. UNCHANGED vars /\ UNCHANGED <<cpu, tf, esp0, call, stage, handlers, seen, todo>>
  BY DEF Sent, Plain
<1>2. IInv' /\ EaxOfTheRunner'
  BY <1>1, NextKeepsIInv, NextKeepsEaxOfTheRunner DEF TInv
<1>3. /\ uart \in Seq(Int) /\ uart # << >> /\ Len(uart) <= 1 /\ todo \in Seq(Int)
      /\ due = uart \o todo /\ uart' = << >> /\ due' = Tail(due)
  BY DEF Sent, TInv, TrapsTypes, NothingLost
<1>4. due' = todo
  BY <1>3
<1>5. TrapsTypes' /\ NothingLost' /\ InHlt' /\ Printing'
  BY <1>1, <1>3, <1>4 DEF TInv, TrapsTypes, NothingLost, InHlt, Printing, vars
<1>6. ASSUME NEW p \in Pids PROVE ProcessInv(p)'
  <2>1. RegistersOf(p)' = RegistersOf(p)
    BY <1>1 DEF RegistersOf, vars
  <2> QED BY <1>1, <2>1, ProcessKept DEF TInv, vars
<1> QED BY <1>2, <1>5, <1>6 DEF TInv

-----------------------------------------------------------------------------
(* Interrupts.  None is taken while a call prints.                         *)

LEMMA InterruptedFacts ==
  ASSUME TInv, InterruptsOn
  PROVE  /\ mode \in {"user", "hlt"} /\ todo = << >>
         /\ curr_pid \in Pids /\ esp0 = curr_pid /\ status[curr_pid] = PCB_RUNNING
  BY DEF InterruptsOn, InUser, istrap, TInv, Printing, TrapsTypes, IInv, TypeOK, OneRunning

LEMMA ResumeKeepsTInv ==
  ASSUME TInv, [Next]_vars, InterruptsOn, Resume, seen' \in [Pids -> 0 .. 1],
         curr_pid' = curr_pid, status' = status,
         \/ mode' = mode /\ eax' = eax
         \/ /\ mode = "hlt" /\ mode' = "user"
            /\ eax' = [eax EXCEPT ![curr_pid] = "own"]
  PROVE  TInv'
<1>1. /\ mode \in {"user", "hlt"} /\ todo = << >>
      /\ curr_pid \in Pids /\ esp0 = curr_pid /\ status[curr_pid] = PCB_RUNNING
  BY InterruptedFacts
<1>2. IInv' /\ EaxOfTheRunner'
  BY NextKeepsIInv, NextKeepsEaxOfTheRunner DEF TInv
<1>3. UNCHANGED <<esp0, call, stage, handlers, todo, uart, due>>
  BY DEF Resume
<1>4. NothingLost' /\ Printing'
  BY <1>1, <1>3 DEF NothingLost, Printing, TInv
<1>5. CASE mode' = mode /\ eax' = eax
  <2>1. UNCHANGED <<cpu, tf>>
    BY <1>1, <1>5 DEF Resume
  <2>2. TrapsTypes' /\ InHlt'
    BY <1>3, <1>5, <2>1 DEF TInv, TrapsTypes, InHlt
  <2>3. ASSUME NEW p \in Pids PROVE ProcessInv(p)'
    <3>1. RegistersOf(p)' = RegistersOf(p)
      BY <1>5, <2>1 DEF RegistersOf
    <3> QED BY <1>3, <1>5, <2>1, <3>1, ProcessKept DEF TInv
  <2> QED BY <1>2, <1>4, <2>2, <2>3 DEF TInv
<1>6. CASE mode = "hlt" /\ mode' = "user" /\ eax' = [eax EXCEPT ![curr_pid] = "own"]
  <2>1. tf[curr_pid] \in Registers /\ ReturnWith(tf[curr_pid], 0)
    BY <1>1, <1>6 DEF Resume, TInv, TrapsTypes
  <2>2. /\ cpu' \in Registers /\ tf' \in [Pids -> Registers] /\ cpu'.eax = 0
        /\ \A p \in Pids : p # curr_pid => tf'[p] = tf[p]
    BY <1>1, <2>1, FramesTyped DEF TInv
  <2>3. TrapsTypes' /\ InHlt'
    BY <1>3, <1>6, <2>2 DEF TInv, TrapsTypes, InHlt
  <2>4. ASSUME NEW p \in Pids, p = curr_pid PROVE ProcessInv(p)'
    <3>1. stage'[p] = "back" /\ call'[p] = call[p] /\ call[p].fn = "SYS_wait_intr"
      BY <1>3, <1>6, <2>4 DEF TInv, InHlt
    <3>2. 0 \in Answers(p)'
      BY <3>1, SameCallSameAnswers, AnswersByCall
    <3>3. RegistersOf(p)'.eax = 0 /\ status'[p] = PCB_RUNNING /\ eax'[p] # "SYS_exit"
      BY <1>1, <1>6, <2>2, <2>4 DEF RegistersOf, TInv, IInv, TypeOK
    <3> QED BY <3>1, <3>2, <3>3 DEF ProcessInv, Loaded, Answered, ExitStub, Frame
  <2>5. ASSUME NEW p \in Pids, p # curr_pid PROVE ProcessInv(p)'
    BY <1>3, <1>6, <2>2, <2>5, OthersKept DEF TInv, IInv, TypeOK
  <2> QED BY <1>2, <1>4, <2>3, <2>4, <2>5 DEF TInv
<1> QED BY <1>5, <1>6

LEMMA HandlerCounts ==
  ASSUME TInv, NEW device, Handle(device)
  PROVE  seen' \in [Pids -> 0 .. 1]
<1>1. curr_pid \in Pids /\ seen \in [Pids -> 0 .. 1]
  BY DEF TInv, IInv, TypeOK, TrapsTypes
<1>2. (seen[curr_pid] + 1) % 2 \in 0 .. 1
  BY <1>1
<1> QED BY <1>1, <1>2 DEF Handle

LEMMA TickKeepsTInv ==
  ASSUME TInv, [Next]_vars, Tick \/ DeviceInterrupt
  PROVE  TInv'
<1>1. InterruptsOn /\ Resume
  BY DEF Tick, DeviceInterrupt
<1>2. seen' \in [Pids -> 0 .. 1]
  BY HandlerCounts DEF Tick, DeviceInterrupt, TInv, TrapsTypes
<1>3. mode \in {"user", "hlt"} /\ curr_pid \in Pids
  BY <1>1, InterruptedFacts
<1>4. /\ curr_pid' = curr_pid /\ status' = status
      /\ \/ mode' = mode /\ eax' = eax
         \/ /\ mode = "hlt" /\ mode' = "user"
            /\ eax' = [eax EXCEPT ![curr_pid] = "own"]
  BY <1>3 DEF Tick, DeviceInterrupt, TimerTick, DeviceIRQ, Return, Plain, vars, TInv, IInv, TypeOK
<1> QED BY <1>1, <1>2, <1>4, ResumeKeepsTInv

(* The frame of the call is what is left of a preempted sys_wait_intr.     *)
LEMMA PreemptKeepsTInv ==
  ASSUME TInv, [Next]_vars, Preempt
  PROVE  TInv'
<1>1. /\ mode \in {"user", "hlt"} /\ todo = << >>
      /\ curr_pid \in Pids /\ esp0 = curr_pid /\ status[curr_pid] = PCB_RUNNING
  BY InterruptedFacts DEF Preempt
<1>2. IInv' /\ EaxOfTheRunner'
  BY NextKeepsIInv, NextKeepsEaxOfTheRunner DEF TInv
<1>3. /\ todo' = << >> /\ UNCHANGED <<esp0, call, stage, handlers, seen, uart, due>>
      /\ mode' = "sched" /\ curr_pid' = curr_pid
      /\ status' = [status EXCEPT ![curr_pid] = PCB_SLEEPING]
      /\ eax' = [eax EXCEPT ![curr_pid] = FrameEax]
  BY DEF Preempt, TimerPreempt, LeaveCpu
<1>4. /\ cpu' \in Registers /\ tf' \in [Pids -> Registers]
      /\ \A p \in Pids : p # curr_pid => tf'[p] = tf[p]
      /\ tf'[curr_pid] = IF mode = "hlt" THEN tf[curr_pid] ELSE cpu
  <2>1. /\ cpu \in Registers /\ tf \in [Pids -> Registers]
        /\ mode = "hlt" => UNCHANGED <<cpu, tf>>
        /\ mode = "user" => Suspend(cpu)
    BY <1>1 DEF Preempt, TInv, TrapsTypes
  <2>2. mode = "user" => /\ cpu' \in Registers /\ tf' \in [Pids -> Registers]
                         /\ \A p \in Pids : p # curr_pid => tf'[p] = tf[p]
                         /\ tf'[curr_pid] = cpu
    <3>1. Dead \in Registers
      BY DEF Dead, Registers
    <3> QED BY <1>1, <2>1, <3>1 DEF Suspend
  <2> QED BY <1>1, <2>1, <2>2
<1>5. TrapsTypes'
  BY <1>3, <1>4 DEF TInv, TrapsTypes
<1>6. ASSUME NEW p \in Pids, p = curr_pid PROVE ProcessInv(p)'
  <2>1. RegistersOf(p)' = RegistersOf(p) /\ tf'[p] = RegistersOf(p)
    BY <1>1, <1>3, <1>4, <1>6 DEF RegistersOf
  <2>2. Answers(p)' = Answers(p)
    BY <1>3, SameCallSameAnswers
  <2>3. Loaded(p)' /\ Answered(p)'
    BY <1>1, <1>3, <1>6, <2>1, <2>2 DEF TInv, ProcessInv, Loaded, Answered
  <2>4. \/ mode = "hlt" /\ eax'[p] = "SYS_wait_intr"
        \/ mode = "user" /\ eax'[p] = eax[p] /\ eax[p] \in {"own", "SYS_exit"}
    BY <1>1, <1>3, <1>6 DEF FrameEax, TInv, EaxOfTheRunner, IInv, TypeOK
  <2>5. ExitStub(p)' /\ Frame(p)'
    BY <1>1, <1>3, <1>6, <2>1, <2>4 DEF TInv, ProcessInv, ExitStub, Frame, InHlt, RegistersOf
  <2> QED BY <2>3, <2>5 DEF ProcessInv
<1>7. ASSUME NEW p \in Pids, p # curr_pid PROVE ProcessInv(p)'
  BY <1>1, <1>3, <1>4, <1>7, OthersKept DEF TInv, IInv, TypeOK
<1>8. InHlt' /\ Printing' /\ NothingLost'
  BY <1>1, <1>3 DEF InHlt, Printing, NothingLost, TInv
<1> QED BY <1>2, <1>5, <1>6, <1>7, <1>8 DEF TInv

-----------------------------------------------------------------------------
(* The switch.                                                             *)

LEMMA SwitchKeepsTInv ==
  ASSUME TInv, [Next]_vars, NEW next \in Pids, Switch(next)
  PROVE  TInv'
<1>1. /\ mode = "sched" /\ mode' = "user" /\ curr_pid' = next
      /\ status[next] \in {PCB_SLEEPING, PCB_RUNNABLE}
      /\ status' = [status EXCEPT ![next] = PCB_RUNNING]
      /\ eax'[next] = IF eax[next] = "SYS_exit" THEN "SYS_exit" ELSE "own"
      /\ \A p \in Pids : p # next => eax'[p] = eax[p]
  BY DEF Switch, SchedDispatch, SchedGrant, PassStopsAt, Dispatchable, Grantable, pcb_exec,
         TInv, IInv, TypeOK
<1>2. IInv' /\ EaxOfTheRunner'
  BY NextKeepsIInv, NextKeepsEaxOfTheRunner DEF TInv
<1>3. /\ cpu' = tf[next] /\ tf' = [tf EXCEPT ![next] = Dead] /\ esp0' = next
      /\ UNCHANGED <<call, stage, handlers, seen, todo, uart, due>>
  BY DEF Switch, ts_esp0
<1>4. TrapsTypes'
  <2>1. Dead \in Registers
    BY DEF Dead, Registers
  <2> QED BY <1>1, <1>3, <2>1 DEF TInv, TrapsTypes
<1>5. ASSUME NEW p \in Pids PROVE ProcessInv(p)'
  <2>1. RegistersOf(p)' = RegistersOf(p)
    BY <1>1, <1>3 DEF RegistersOf, TInv, TrapsTypes
  <2>2. Answers(p)' = Answers(p)
    BY <1>3, SameCallSameAnswers
  <2>3. CASE p = next
    BY <1>1, <1>3, <2>1, <2>2, <2>3 DEF TInv, IInv, TypeOK, ProcessInv, Loaded, Answered, ExitStub, Frame
  <2>4. CASE p # next
    BY <1>1, <1>3, <2>1, <2>4, ProcessKept DEF TInv, TrapsTypes, IInv, TypeOK
  <2> QED BY <2>3, <2>4
<1>6. InHlt' /\ Printing' /\ NothingLost'
  BY <1>1, <1>3 DEF InHlt, Printing, NothingLost, TInv
<1> QED BY <1>2, <1>4, <1>5, <1>6 DEF TInv

LEMMA NoSwitchKeepsTInv ==
  ASSUME TInv, [Next]_vars, NoSwitch
  PROVE  TInv'
<1>1. UNCHANGED tvars
  BY DEF NoSwitch
<1>2. IInv' /\ EaxOfTheRunner'
  BY NextKeepsIInv, NextKeepsEaxOfTheRunner DEF TInv
<1>3. curr_pid' = curr_pid /\ eax' = eax /\ mode' = mode /\ curr_pid \in Pids
  BY DEF NoSwitch, SchedIdle, SchedRebind, Halted, vars, TInv, IInv, TypeOK
<1>4. /\ \A p \in Pids : p # curr_pid => status'[p] = status[p]
      /\ \/ status'[curr_pid] = status[curr_pid]
         \/ mode = "sched" /\ status[curr_pid] = PCB_FREE
  <2>1. CASE SchedIdle \/ Halted
    BY <2>1 DEF SchedIdle, Halted, vars
  <2>2. ASSUME NEW p \in Pids, SchedRebind(p)
        PROVE  /\ \A q \in Pids : q # curr_pid => status'[q] = status[q]
               /\ mode = "sched" /\ status[curr_pid] = PCB_FREE
    BY <2>2 DEF SchedRebind, PassStopsAt, Rebinds, TInv, IInv, TypeOK, OneRunning
  <2> QED BY <2>1, <2>2 DEF NoSwitch
<1>5. TrapsTypes' /\ InHlt' /\ Printing' /\ NothingLost'
  BY <1>1, <1>3 DEF TInv, TrapsTypes, InHlt, Printing, NothingLost, tvars
<1>6. ASSUME NEW p \in Pids PROVE ProcessInv(p)'
  <2>1. RegistersOf(p)' = RegistersOf(p) /\ tf'[p] = tf[p]
    BY <1>1, <1>3 DEF RegistersOf, tvars
  <2>2. CASE status'[p] = status[p]
    BY <1>1, <1>3, <2>1, <2>2, ProcessKept DEF TInv, tvars
  <2>3. CASE status'[p] # status[p]
    <3>1. p = curr_pid /\ mode = "sched" /\ eax[p] = "SYS_exit"
      BY <1>4, <2>3 DEF TInv, EaxOfTheRunner
    <3>2. call[p].fn = "SYS_exit" /\ RegistersOf(p).eax = Number("SYS_exit")
      BY <3>1 DEF TInv, ProcessInv, ExitStub
    <3>3. RegistersOf(p) = tf[p]
      BY <3>1 DEF RegistersOf
    <3>4. Answers(p)' = {Number("SYS_exit")}
      BY <1>1, <3>2, SameCallSameAnswers, AnswersByCall DEF tvars
    <3>5. Loaded(p)'
      BY <1>1, <2>1 DEF TInv, ProcessInv, Loaded, tvars
    <3> QED BY <1>1, <1>3, <2>1, <3>1, <3>2, <3>3, <3>4, <3>5
            DEF ProcessInv, Answered, ExitStub, Frame, tvars
  <2> QED BY <2>2, <2>3
<1> QED BY <1>2, <1>5, <1>6 DEF TInv

-----------------------------------------------------------------------------
(* The theorems.                                                           *)

LEMMA NextKeepsTInv == TInv /\ [TrapsNext]_allvars => TInv'
<1> SUFFICES ASSUME TInv, [TrapsNext]_allvars PROVE TInv'
  OBVIOUS
<1>1. [Next]_vars
  BY TrapsNextIsKernels
<1>2. CASE \E r \in Requests : Load(r)
  BY <1>2, LoadKeepsTInv
<1>3. CASE GetPid \/ Display \/ MemShare \/ SetHandler
  BY <1>3, GetPidKeepsTInv, SetHandlerKeepsTInv
<1>4. CASE BlockingCall \/ SemCall \/ ForkCall
  BY <1>1, <1>4, BlockingCallKeepsTInv, SemCallKeepsTInv, ForkCallKeepsTInv
<1>5. CASE Vprintk \/ serial_printc \/ Sent
  BY <1>5, VprintkKeepsTInv, PrintcKeepsTInv, SentKeepsTInv
<1>6. CASE Tick \/ Preempt \/ DeviceInterrupt
  BY <1>1, <1>6, TickKeepsTInv, PreemptKeepsTInv
<1>7. CASE (\E p \in Pids : Switch(p)) \/ NoSwitch
  BY <1>1, <1>7, SwitchKeepsTInv, NoSwitchKeepsTInv
<1>8. CASE UNCHANGED allvars
  <2>1. UNCHANGED vars /\ UNCHANGED tvars
    BY <1>8 DEF allvars
  <2>2. IInv' /\ EaxOfTheRunner'
    BY <1>1, NextKeepsIInv, NextKeepsEaxOfTheRunner DEF TInv
  <2>3. TrapsTypes' /\ InHlt' /\ Printing' /\ NothingLost'
    BY <2>1 DEF vars, tvars, TInv, TrapsTypes, InHlt, Printing, NothingLost
  <2>4. ASSUME NEW p \in Pids PROVE ProcessInv(p)'
    <3>1. RegistersOf(p)' = RegistersOf(p)
      BY <2>1 DEF RegistersOf, vars, tvars
    <3> QED BY <2>1, <3>1, ProcessKept DEF TInv, vars, tvars
  <2> QED BY <2>2, <2>3, <2>4 DEF TInv
<1> QED BY <1>2, <1>3, <1>4, <1>5, <1>6, <1>7, <1>8 DEF TrapsNext, SystemCallStep

(* Registers, frames and stubs are in step at every moment: between the    *)
(* stub and its int, while the kernel has the call, while the process is   *)
(* off the processor, and after the result (kernel/trap.c:108).            *)
THEOREM SpecTInv == TrapsSpec => []TInv
  BY InitTInv, NextKeepsTInv, PTL DEF TrapsSpec

LEMMA TypedByTInv == TInv => TrapsTypeOK
  BY DEF TInv, TrapsTypes, Printing, TrapsTypeOK, IInv, TypeOK

(* The registers, frames and queues keep their types; while a call prints, *)
(* the processor is in it and the frame is what the stub loaded.           *)
THEOREM SpecTrapsTypeOK == TrapsSpec => []TrapsTypeOK
  BY TypedByTInv, SpecTInv, PTL

(* Whatever takes the processor away, a call reaches the kernel as it was  *)
(* made and its process gets the result of this call and of no other       *)
(* (kernel/trap.c:108).                                                    *)
THEOREM SpecAnswersOwnCall == TrapsSpec => []AnswersOwnCall
<1>1. TInv => AnswersOwnCall
  <2> SUFFICES ASSUME TInv PROVE AnswersOwnCall
    OBVIOUS
  <2>1. CallsArrive
    BY CallArrives DEF CallsArrive, TInv, ProcessInv, Loaded
  <2>2. ASSUME NEW p \in Pids, mode # "halt", stage[p] = "back",
               status[p] # PCB_FREE \/ call[p].fn = "SYS_exit"
        PROVE  RegistersOf(p).eax \in Answers(p)
    BY <2>2 DEF TInv, ProcessInv, Answered
  <2> QED BY <2>1, <2>2 DEF AnswersOwnCall
<1> QED BY <1>1, SpecTInv, PTL

(* The eax by which Kernel tells what a process sees when it goes on is    *)
(* the eax of the frame in its PCB.                                        *)
THEOREM SpecFramesAsInKernel == TrapsSpec => []FramesAsInKernel
<1>1. TInv => FramesAsInKernel
  BY DEF TInv, ProcessInv, Frame, FramesAsInKernel
<1> QED BY <1>1, SpecTInv, PTL

(* What is printed comes out whole and in order (kernel/serial.c:19).      *)
THEOREM SpecNothingLost == TrapsSpec => []NothingLost
<1>1. TInv => NothingLost
  BY DEF TInv
<1> QED BY <1>1, SpecTInv, PTL

(* Every step is one of Kernel, or leaves it alone: what KernelProofs says *)
(* of any program it says of programs that call through the stubs.         *)
THEOREM SpecIsKernels == TrapsSpec => Spec
<1>1. TrapsInit => Init
  BY DEF TrapsInit
<1>2. TInv /\ [TrapsNext]_allvars => [Next]_vars
  BY TrapsNextIsKernels
<1> QED BY <1>1, <1>2, SpecTInv, PTL DEF TrapsSpec, Spec

-----------------------------------------------------------------------------

LEMMA StepHandlersOfTheRunner ==
  ASSUME TInv, TrapsNext, NEW p \in Pids, seen'[p] # seen[p]
  PROVE  \/ p = curr_pid /\ mode' \in {"user", "hlt"}
         \/ status'[p] = PCB_RUNNABLE
<1>1. seen \in [Pids -> 0 .. 1] /\ curr_pid \in Pids
  BY DEF TInv, TrapsTypes, IInv, TypeOK
<1>2. CASE Tick \/ DeviceInterrupt
  <2>1. p = curr_pid
    BY <1>1, <1>2 DEF Tick, DeviceInterrupt, Handle
  <2>2. mode \in {"user", "hlt"}
    BY <1>2, InterruptedFacts DEF Tick, DeviceInterrupt
  <2>3. mode' \in {"user", "hlt"}
    BY <1>2, <2>2 DEF Tick, DeviceInterrupt, TimerTick, DeviceIRQ, Return, Plain, vars
  <2> QED BY <2>1, <2>3
<1>3. CASE ForkCall
  BY <1>1, <1>3 DEF ForkCall, ForkInto, Returns, TInv, IInv, TypeOK
<1>4. CASE BlockingCall \/ SemCall
  BY <1>4 DEF BlockingCall, SemCall, Returns
<1>5. CASE GetPid \/ Display \/ MemShare \/ SetHandler \/ Vprintk \/ serial_printc \/ Sent
  BY <1>5 DEF GetPid, Display, MemShare, SetHandler, Register, Returns, Vprintk, serial_printc, Sent
<1>6. CASE (\E r \in Requests : Load(r)) \/ Preempt \/ (\E q \in Pids : Switch(q)) \/ NoSwitch
  BY <1>6 DEF Load, Preempt, Switch, NoSwitch, tvars
<1> QED BY <1>2, <1>3, <1>4, <1>5, <1>6 DEF TrapsNext, SystemCallStep

(* The handlers that a program registers act on the process that goes on   *)
(* to run, and a child begins with what they did to its father             *)
(* (kernel/trap.c:118).                                                    *)
THEOREM SpecHandlersOfTheRunner == TrapsSpec => HandlersOfTheRunner
<1> DEFINE A == \A p \in Pids :
        seen'[p] # seen[p]
        => \/ p = curr_pid /\ mode' \in {"user", "hlt"}
           \/ status'[p] = PCB_RUNNABLE
<1>1. TInv /\ [TrapsNext]_allvars => [A]_allvars
  BY StepHandlersOfTheRunner
<1> QED BY <1>1, SpecTInv, PTL DEF TrapsSpec, HandlersOfTheRunner

=============================================================================
