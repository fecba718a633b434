------------------------------ MODULE Machine ------------------------------
(***************************************************************************)
(* The parts of the system that face the processor and the devices, in one *)
(* module for TLC.  A behaviour is about one of them (`era'): the disk     *)
(* driver, which the kernel uses before it starts its first process and    *)
(* never again; system calls, which there are from then on; those of them  *)
(* that Kernel knows, with the clock, until it is about to wrap; or what   *)
(* has no state, the library, the page tables and the frames of the game,  *)
(* for one int after another.                                              *)
(***************************************************************************)
EXTENDS Traps, Clock, IdeDisk, AddressMap, Screen

VARIABLES
  era,      \* "boot", "user", "clock" or "library"
  number    \* the int that the library is given

Request(fn, args) == [fn |-> fn, args |-> args]

\* "%d\n"
MCFormats == << <<37, 100, 10>> >>

\* Every call of syscall_handler, with arguments that tell the registers apart.
MCRequests ==
  {Request(fn, << >>) :
     fn \in {"SYS_exit", "SYS_crash", "SYS_wait_intr", "SYS_getpid", "SYS_fork"}}
  \cup {Request(fn, <<1>>) :
     fn \in {"SYS_timer", "SYS_keyboard", "SYS_display", "SYS_sleep"}}
  \cup {Request(fn, <<0>>) : fn \in {"SYS_sem_destroy", "SYS_sem_wait", "SYS_sem_post"}}
  \cup {Request("SYS_sem_open", <<0, 1>>), Request("SYS_vprintk", <<1, -1>>),
        Request("SYS_mem_share", <<1, 0, 2>>)}

Blank == media = [s \in Sectors |-> CHOOSE d \in Data : TRUE]

UntimedCalls ==
  {"SYS_vprintk", "SYS_timer", "SYS_keyboard", "SYS_display", "SYS_getpid", "SYS_mem_share"}

TimedStep ==
  \/ /\ ~Late
     /\ TrapsNext
     /\ \A p \in Pids : call'[p].fn \notin UntimedCalls
     /\ ClockStep \/ UNCHANGED <<vars, clockvars>>
  \/ Late /\ UNCHANGED <<allvars, clockvars>>

MachineInit ==
  /\ TrapsInit
  /\ ClockInit
  /\ IdeInit
  /\ number = 0
  /\ \/ era = "boot"
     \/ /\ era \in {"user", "clock", "library"}
        /\ media = [s \in Sectors |-> CHOOSE d \in Data : TRUE]

MachineNext ==
  /\ era' = era
  /\ \/ /\ era = "boot"
        /\ IdeNext
        /\ UNCHANGED <<allvars, clockvars, number>>
     \/ /\ era = "user"
        /\ TrapsNext
        /\ UNCHANGED <<clockvars, ivars, number>>
     \/ /\ era = "clock"
        /\ TimedStep
        /\ UNCHANGED <<ivars, number>>
     \/ /\ era = "library"
        /\ number' \in ints
        /\ UNCHANGED <<allvars, clockvars, ivars>>

MachineSpec ==
  /\ MachineInit
  /\ [][MachineNext]_<<era, number, allvars, clockvars, ivars>>
  /\ WF_ivars(DriverStep /\ UNCHANGED <<allvars, clockvars>>)
  /\ WF_ivars(DiskStep /\ UNCHANGED <<allvars, clockvars>>)


\* show_str is of 30 characters, and so much for the misses and the time.
WordLengths == 1 .. 29
FrameOf(word) ==
  LET misses == number % 27
  IN  redraw_screen(word, 1, misses, Len(itoa(misses)), Len(itoa(number)))

\* The types of what Machine is made of.
MachineTypeOK == TrapsTypeOK /\ IdeTypeOK

(* Kernel decides as the code does, as long as no sum of the code wraps    *)
(* (kernel/trap.c:113, kernel/sched.c:19).                                 *)
DecidesAsInKernel == era = "clock" => ClockAgrees

(* printk("%d") and printk("%x") print every int exactly, also the least   *)
(* one, whose negation overflows (kernel/printk.c:22), and the game's own  *)
(* itoa (lib/string.c:8) agrees from 0 on.  A late frame may take          *)
(* count_down below 0, and it is drawn: then the characters are not        *)
(* digits, but the font has them (my_assert of game/video.c:20).           *)
NumbersExact == era = "library" => PrintsExactly(number) /\ DrawsLikePrintk(number)

(* A file is found by what fs_open stored of its name, and by nothing else *)
(* (kernel/fs.c:149, 166): two names are one if their first 24 characters  *)
(* are, whatever entry the name was stored over, and nothing behind the    *)
(* NUL of either is looked at.                                             *)
NamesFound ==
  era = "library" /\ number = 0 =>
    LET names == UNION {[1 .. k -> Alphabet] : k \in 0 .. FILENAME_LENGTH + 1}
    IN  \A name, stored \in names : SameFile(name, stored)

(* In every directory, also that of a father in fork, the kernel and the   *)
(* screen are where KERNBASE says, and no program gets at them             *)
(* (kernel/entrypgdir.c:21, kernel/pmap.c:23, 54).  A process has its four *)
(* megabytes and no page of the kernel or of another process.  fork copies *)
(* from the father's memory to the child's, whatever new_addr is in other  *)
(* programs (kernel/pmap.c:45), and a page that is shared is the one that  *)
(* was named (kernel/pmap.c:62).  The two limits of kernel/pmap.c:17 agree *)
(* on who has a page table: of the 64 processes that sys_fork may make     *)
(* (kernel/syscall.c:55), 36 have none and no memory.                      *)
MapsApart ==
  era = "library" =>
    /\ number \in UserPids =>
         /\ KernelIn(user_pgdir(number))
         /\ Confined(number)
         /\ \A other \in UserPids \ {number} :
              /\ Apart(number, other)
              /\ WindowFits(number, other)
              /\ SharesOne(number, other, USER_START + other)
    /\ number \in 0 .. UPDIR_NUM - 1 => TablesFit(number)

(* The assertion of draw_pixel (inc/video.h:16) holds in each frame, and   *)
(* nothing is drawn over anything else: any word that show_str has room    *)
(* for, as many misses as there are letters, any time, be it negative; and *)
(* so for the last ones of a game.                                         *)
FramesFit ==
  era = "library" =>
    \A frame \in {FrameOf(word) : word \in WordLengths}
                 \cup {draw_end(endword) : endword \in EndWords} :
      OnScreen(frame) /\ Legible(frame)

=============================================================================
