------------------------------- MODULE Traps -------------------------------
(***************************************************************************)
(* System calls from the stub in the game to its result: game/syscall.c,   *)
(* trap() and syscall_handler(), the frames they work on and the switch    *)
(* between frames in pcb_exec(), on top of Kernel; and what a call prints. *)
(*                                                                         *)
(* A trap from user mode pushes the registers where ts_esp0 points: to the *)
(* frame at the end of a PCB.  One from the hlt of sys_wait_intr pushes    *)
(* them below, and they are lost if the processor is taken away there.     *)
(* Every other register of the frame goes the same way as these four.      *)
(***************************************************************************)
EXTENDS Kernel, CLib

CONSTANTS
  Formats,    \* the strings that are printed, at addresses 1, 2, ...
  Requests    \* bound: the calls that programs make

syscalls ==
  <<"SYS_vprintk", "SYS_exit", "SYS_timer", "SYS_keyboard", "SYS_display",
    "SYS_crash", "SYS_sleep", "SYS_wait_intr", "SYS_getpid", "SYS_fork",
    "SYS_sem_open", "SYS_sem_destroy", "SYS_sem_wait", "SYS_sem_post",
    "SYS_mem_share">>

Number(fn) == (CHOOSE k \in DOMAIN syscalls : syscalls[k] = fn) - 1

\* Arguments of a call.
Arity(fn) ==
  CASE fn \in {"SYS_vprintk", "SYS_sem_open"} -> 2
    [] fn = "SYS_mem_share" -> 3
    [] fn \in {"SYS_exit", "SYS_crash", "SYS_wait_intr", "SYS_getpid", "SYS_fork"} -> 0
    [] OTHER -> 1

\* The calls are complete, sleeps and semaphores are those of Kernel, and what
\* is printed is a string.
ASSUME TrapsAssumption ==
  /\ Requests \subseteq [fn : ToSet(syscalls), args : Seq(Int)]
  /\ \A r \in Requests :
       /\ Len(r.args) = Arity(r.fn)
       /\ r.fn = "SYS_sleep" => r.args[1] \in 0 .. MaxSleep
       /\ r.fn \in {"SYS_sem_open", "SYS_sem_destroy", "SYS_sem_wait", "SYS_sem_post"}
            => r.args[1] \in Sems
       /\ r.fn = "SYS_sem_open" => r.args[2] \in 0 .. MaxCount
       /\ r.fn = "SYS_vprintk" => vfprintf(Formats[r.args[1]], <<r.args[2]>>) \in Seq(Int)

\* What the user code of a process has last asked for: nothing yet, or it is
\* about to return from the fork that made it.
Fresh == [fn |-> "none", args |-> << >>]
Born  == [fn |-> "born", args |-> << >>]

VARIABLES
  cpu,       \* the user's registers, while it runs
  tf,        \* PCB.tf, the frame of each process: Dead once it is popped
  esp0,      \* pts.ts_esp0: the process in whose PCB the next frame goes
  call,      \* the call that each process has last made ...
  stage,     \* ... "loaded", before its int, or "back", after it
  handlers,  \* do_timer and do_keyboard, if they are not NULL
  seen,      \* calls of the handlers in the memory of each process, modulo 2
  todo,      \* the characters that the current call has still to print
  uart,      \* the one that is being sent
  due        \* what was to be printed and has not been sent

tvars == <<cpu, tf, esp0, call, stage, handlers, seen, todo, uart, due>>
allvars == <<vars, tvars>>

Registers == [eax : Int, edx : Int, ecx : Int, ebx : Int]
Dead == [eax |-> -1, edx |-> -1, ecx |-> -1, ebx |-> -1]

\* pcb_exec has popped the frame that pcb_init_p0 made.
TrapsInit ==
  /\ Init
  /\ cpu = [eax |-> 0, edx |-> 0, ecx |-> 0, ebx |-> 0]
  /\ tf = [p \in Pids |-> Dead]
  /\ esp0 = 0
  /\ call = [p \in Pids |-> Fresh]
  /\ stage = [p \in Pids |-> "back"]
  /\ handlers = {}
  /\ seen = [p \in Pids |-> 0]
  /\ todo = << >> /\ uart = << >> /\ due = << >>

-----------------------------------------------------------------------------
(* Gates and frames.                                                       *)

\* The argument of every SETGATE.
istrap == FALSE

InUser == mode = "user" /\ todo = << >>

InterruptsOn == InUser \/ mode = "hlt" \/ (mode = "user" /\ istrap)

\* The kernel returns with result in the eax of the frame on its stack, and
\* the frame is popped.
ReturnWith(frame, result) ==
  /\ cpu' = [frame EXCEPT !.eax = result]
  /\ tf' = [tf EXCEPT ![esp0] = Dead]

\* The running process is left with this frame.
Suspend(frame) ==
  /\ tf' = [tf EXCEPT ![esp0] = frame]
  /\ cpu' = Dead

-----------------------------------------------------------------------------
(* The stubs.                                                              *)

Argument(r, k) == IF k <= Len(r.args) THEN r.args[k] ELSE 0

\* A register that is not loaded holds anything; nobody looks at it.
do_syscall(r) ==
  [eax |-> Number(r.fn), edx |-> Argument(r, 1), ecx |-> Argument(r, 2),
   ebx |-> Argument(r, 3)]

\* sys_exit and sys_crash of the game never do anything else again.
Load(r) ==
  /\ InUser
  /\ stage[curr_pid] = "back"
  /\ call[curr_pid].fn = "SYS_exit" => r.fn = "SYS_exit"
  /\ cpu' = do_syscall(r)
  /\ call' = [call EXCEPT ![curr_pid] = r]
  /\ stage' = [stage EXCEPT ![curr_pid] = "loaded"]
  /\ UNCHANGED <<vars, tf, esp0, handlers, seen, todo, uart, due>>

-----------------------------------------------------------------------------
(* syscall_handler.                                                        *)

arg1(frame) == frame.edx
arg2(frame) == frame.ecx
arg3(frame) == frame.ebx

Calls(fn) == InUser /\ stage[curr_pid] = "loaded" /\ cpu.eax = Number(fn)

Done == stage' = [stage EXCEPT ![curr_pid] = "back"]

Quiet == UNCHANGED <<todo, uart, due>>

\* A call that returns result, as Kernel has it.
Returns(result) ==
  /\ IF mode' = "user" THEN ReturnWith(cpu, result) ELSE Suspend(cpu)
  /\ Done
  /\ Quiet
  /\ UNCHANGED <<esp0, call, handlers, seen>>

\* A call that changes nothing of Kernel's.
Plain == UNCHANGED vars

GetPid == Calls("SYS_getpid") /\ Plain /\ Returns(curr_pid)

\* What these do is part of the modules Screen and VirtMem.
Display == Calls("SYS_display") /\ Plain /\ Returns(0)
MemShare == Calls("SYS_mem_share") /\ Plain /\ Returns(0)

\* sys_timer and sys_keyboard: a NULL takes the handler away.
Register(device, handler) ==
  /\ Plain
  /\ handlers' = IF handler # 0 THEN handlers \cup {device} ELSE handlers \ {device}
  /\ ReturnWith(cpu, 0)
  /\ Done
  /\ Quiet
  /\ UNCHANGED <<esp0, call, seen>>

SetHandler ==
  \/ Calls("SYS_timer") /\ Register("timer", arg1(cpu))
  \/ Calls("SYS_keyboard") /\ Register("keyboard", arg1(cpu))

\* A call that blocks leaves its own number in eax.
BlockingCall ==
  /\ \/ Calls("SYS_sleep") /\ sys_sleep(arg1(cpu))
     \/ Calls("SYS_exit") /\ sys_exit
     \/ Calls("SYS_wait_intr") /\ sys_wait_intr
     \/ Calls("SYS_crash") /\ sys_crash
  /\ Returns(0)

SemCall ==
  \/ Calls("SYS_sem_open") /\ sys_sem_open(arg1(cpu), arg2(cpu)) /\ Returns(arg1(cpu))
  \/ Calls("SYS_sem_destroy") /\ sys_sem_destroy(arg1(cpu)) /\ Returns(0)
  \/ Calls("SYS_sem_wait") /\ sys_sem_wait(arg1(cpu)) /\ Returns(0)
  \/ Calls("SYS_sem_post") /\ sys_sem_post(arg1(cpu)) /\ Returns(0)

\* Mutant: the frame of the child is that of its father.
ChildFrame_NotZeroed(frame) == frame

ChildFrame(frame) == [frame EXCEPT !.eax = 0]

\* The PCB is copied as it is in the call: with the frame of the call.
ForkCall ==
  /\ Calls("SYS_fork")
  /\ \/ \E new \in Pids :
          /\ UserCalls /\ ForkInto(new)
          /\ cpu' = [cpu EXCEPT !.eax = new]
          /\ tf' = [tf EXCEPT ![esp0] = Dead, ![new] = ChildFrame(cpu)]
          /\ call' = [call EXCEPT ![new] = Born]
          /\ stage' = [stage EXCEPT ![new] = "back", ![curr_pid] = "back"]
          /\ seen' = [seen EXCEPT ![new] = seen[curr_pid]]
          /\ Quiet
          /\ UNCHANGED <<esp0, handlers>>
     \/ UserCalls /\ NoFreeSlot /\ Crash /\ Returns(0)

\* The call begins to print: what is in the registers is in the frame now.
Vprintk ==
  /\ Calls("SYS_vprintk")
  /\ LET text == vfprintf(Formats[arg1(cpu)], <<arg2(cpu)>>)
     IN  todo' = text /\ due' = due \o text
  /\ tf' = [tf EXCEPT ![esp0] = cpu]
  /\ Plain
  /\ UNCHANGED <<cpu, esp0, call, stage, handlers, seen, uart>>

\* Mutant: nobody waits for the line.
is_serial_idle_Always == TRUE

is_serial_idle == uart = << >>

\* After the last character the call returns.
serial_printc ==
  /\ todo # << >>
  /\ is_serial_idle
  /\ uart' = <<Head(todo)>>
  /\ todo' = Tail(todo)
  /\ IF Len(todo) = 1 THEN ReturnWith(tf[esp0], 0) /\ Done
     ELSE UNCHANGED <<cpu, tf, stage>>
  /\ Plain
  /\ UNCHANGED <<esp0, call, handlers, seen, due>>

\* The line: the character is out.
Sent ==
  /\ uart # << >>
  /\ uart' = << >>
  /\ due' = Tail(due)
  /\ Plain
  /\ UNCHANGED <<cpu, tf, esp0, call, stage, handlers, seen, todo>>

SystemCallStep ==
  GetPid \/ Display \/ MemShare \/ SetHandler \/ BlockingCall \/ SemCall
  \/ ForkCall \/ Vprintk \/ serial_printc

-----------------------------------------------------------------------------
(* Interrupts.                                                             *)

\* The handler of a device runs in the memory of the process that is there.
Handle(device) ==
  seen' = IF device \in handlers
          THEN [seen EXCEPT ![curr_pid] = (@ + 1) % 2] ELSE seen

\* Back to what was interrupted; a hlt may end, and sys_wait_intr returns 0.
Resume ==
  /\ IF mode = "hlt" /\ mode' = "user" THEN ReturnWith(tf[esp0], 0)
     ELSE UNCHANGED <<cpu, tf>>
  /\ UNCHANGED <<esp0, call, stage, handlers, todo, uart, due>>

Tick == InterruptsOn /\ TimerTick /\ Handle("timer") /\ Resume

\* Mutant: the handler is called before the processor is given away.
Preempt_Handled ==
  /\ InterruptsOn
  /\ TimerPreempt
  /\ Handle("timer")
  /\ IF mode = "hlt" THEN UNCHANGED <<cpu, tf>> ELSE Suspend(cpu)
  /\ todo' = << >>
  /\ UNCHANGED <<esp0, call, stage, handlers, uart, due>>

\* The frame of the interrupted hlt is below that of the call and is lost, and
\* so is anything else on the kernel's stack.  No handler is called.
Preempt ==
  /\ InterruptsOn
  /\ TimerPreempt
  /\ IF mode = "hlt" THEN UNCHANGED <<cpu, tf>> ELSE Suspend(cpu)
  /\ todo' = << >>
  /\ UNCHANGED <<esp0, call, stage, handlers, seen, uart, due>>

DeviceInterrupt ==
  /\ InterruptsOn
  /\ DeviceIRQ \/ (mode = "user" /\ Plain)
  /\ Handle("keyboard") \/ UNCHANGED seen
  /\ Resume

-----------------------------------------------------------------------------
(* pcb_exec.                                                               *)

\* Mutant: frames go on being pushed where they were.
ts_esp0_Forgotten(p) == esp0

ts_esp0(p) == p

Switch(p) ==
  /\ SchedDispatch(p) \/ SchedGrant(p)
  /\ cpu' = tf[p]
  /\ tf' = [tf EXCEPT ![p] = Dead]
  /\ esp0' = ts_esp0(p)
  /\ UNCHANGED <<call, stage, handlers, seen, todo, uart, due>>

NoSwitch ==
  /\ SchedIdle \/ (\E p \in Pids : SchedRebind(p)) \/ Halted
  /\ UNCHANGED tvars

TrapsNext ==
  \/ \E r \in Requests : Load(r)
  \/ SystemCallStep
  \/ Sent
  \/ Tick \/ Preempt \/ DeviceInterrupt
  \/ \E p \in Pids : Switch(p)
  \/ NoSwitch

TrapsSpec == TrapsInit /\ [][TrapsNext]_allvars

-----------------------------------------------------------------------------
(* Properties.                                                             *)

TrapsTypeOK ==
  /\ TypeOK
  /\ cpu \in Registers /\ tf \in [Pids -> Registers] /\ esp0 \in Pids
  /\ call \in [Pids -> Requests \cup {Fresh, Born}]
  /\ stage \in [Pids -> {"loaded", "back"}]
  /\ handlers \subseteq {"timer", "keyboard"} /\ seen \in [Pids -> 0 .. 1]
  /\ Len(uart) <= 1
  /\ todo # << >> => mode = "user" /\ tf[esp0] = cpu

\* Where the registers of p are.
RegistersOf(p) == IF p = curr_pid /\ mode = "user" THEN cpu ELSE tf[p]

Decoded(frame) ==
  LET fn == syscalls[frame.eax + 1]
  IN  [fn |-> fn, args |-> SubSeq(<<arg1(frame), arg2(frame), arg3(frame)>>, 1, Arity(fn))]

\* A call reaches the kernel as the program made it, with its arguments in
\* order, although the processor may be taken away between the loads of the
\* registers and the int.
CallsArrive ==
  \A p \in Pids : stage[p] = "loaded" => Decoded(RegistersOf(p)) = call[p]

\* The values that a call of p may return (SYS_sem_wait returns its number if
\* it had to wait, SYS_wait_intr if the processor was taken away).  A father
\* is told 0 like a child if the child has taken the PCB of process 0.
Answers(p) ==
  LET fn == call[p].fn
  IN  CASE fn = "SYS_getpid" -> {p}
        [] fn = "SYS_fork" -> Pids \ {p}
        [] fn = "SYS_sem_open" -> {call[p].args[1]}
        [] fn \in {"SYS_sem_wait", "SYS_wait_intr"} -> {0, Number(fn)}
        [] fn \in {"SYS_sleep", "SYS_exit"} -> {Number(fn)}
        [] OTHER -> {0}

(* Every call arrives, and every process gets the result of its own call,  *)
(* however long it was off the processor before the int, in the call or    *)
(* after it; the assertions of game/syscall.c (== 0) hold.                 *)
AnswersOwnCall ==
  /\ CallsArrive
  /\ mode # "halt" =>
       \A p \in Pids :
         stage[p] = "back" /\ (status[p] # PCB_FREE \/ call[p].fn = "SYS_exit")
         => RegistersOf(p).eax \in Answers(p)

(* Kernel's `eax' is what the frames hold: the number of a call that never *)
(* stored its result, or the 0 of a new child.                             *)
FramesAsInKernel ==
  \A p \in Pids :
    status[p] \in {PCB_SLEEPING, PCB_RUNNABLE}
    => CASE eax[p] = "own" -> TRUE
         [] eax[p] = "zero" -> tf[p].eax = 0 /\ call[p] = Born
         [] OTHER -> tf[p].eax = Number(eax[p])

(* What a program prints comes out whole and in order, and nothing is      *)
(* printed over a character that is being sent: no interrupt is taken in   *)
(* the call and serial_printc waits for the line.                          *)
NothingLost == due = uart \o todo

(* What the handlers do, they do to the process that runs and goes on to   *)
(* run: while a process is off the processor its ticks and keys stand      *)
(* still, and the tick that takes the processor away is seen by nobody.    *)
HandlersOfTheRunner ==
  [][\A p \in Pids :
        seen'[p] # seen[p]
        => \/ p = curr_pid /\ mode' \in {"user", "hlt"}
           \/ status'[p] = PCB_RUNNABLE]_allvars

=============================================================================
