# OSLab, specified and verified

TLA+ specifications of the OSLab teaching kernel (C, x86, one processor), the
TLC configurations that check them on small instances, and TLAPS proofs for
every value of the constants. Paths below are relative to `src/`.

## 1. The system

| Component | State it keeps | Operations | What makes it correct |
|---|---|---|---|
| Process table and scheduler (`kernel/pcb.c`, `kernel/sched.c`) | `user_pcbs[]` (status, wakeup_time, wait_sem, saved trap frame), `curr_pid` | `pcb_init_p0`, `pcb_exec`, `sched_process` | one owner of the processor; nobody starves; a suspended process is left alone |
| Semaphores (`kernel/sem.c`) | `sem_pool[].count` | open, destroy, wait, post | one token per process that passes; no wake-up is lost |
| Traps, clock, system calls (`kernel/trap.c`, `kernel/syscall.c`, `game/syscall.c`, `kernel/irq.c`, `kernel/timer.c`) | registers, the frame in each PCB, `ts_esp0`, `sys_runned_time`, `sys_last_time`, `do_timer`, `do_keyboard` | timer, keyboard and disk interrupts; 15 system calls and their stubs | preemption is transparent; every process gets the answer to its own call; fork returns once in each process; exit is final |
| Virtual memory (`kernel/pmap.c`) | `user_pgdir[][]`, `user_pgtable[][]`, cr3, TLB | `alloc_page`, `pmap_init_and_copy`, `pmap_copy_one_page` | address spaces are separate except for shared pages |
| File system (`kernel/fs.c`, `util/*_myfs.c`) | `dir`, `bitmap`, `fd_pool[]`, the disk | open, read, write, lseek, close, flush | what is read is what was written; blocks have one owner; a complete file survives what comes later |
| IDE driver (`kernel/ide.c`, `readsect` of `boot/main.c`) | device registers, the count of the loop | sector read and write, step by step | what is asked for is moved, to where it belongs; a failure is reported |
| Boot and program loader (`boot/main.c`, `kernel/init.c`) | memory, the inode in use | `bootmain`, `userprog_load` | memory is what the segments of the file say |
| Game main (`game/game.c` `main`) | program counters, the shared page | fork 6 children, share a page, semaphore | at most two inside; the sum of the additions |
| Hangman (`game/game.c` `main_loop`, `game/effect.c`, `game/keyboard.c`) | `tick`, `now`, keys, letters, counters | one frame, timer and key handlers | no index out of its array; the game ends; ticks are all consumed |
| Console and library (`kernel/printk.c`, `kernel/serial.c`, `lib/string.c`) | the serial line | `vfprintf`, `itoa`, strings, `serial_printc` | what is printed comes out whole and exact; names are found |
| Drawing and fonts (`game/draw.c`, `game/video.c`, `game/font.c`) | `vbuf` | one frame, the last frames | every pixel is on the screen, no text over another |
| Trap entry stubs and processor headers (`kernel/trapentry.S`, `inc/mmu.h`, `inc/x86.h`) | | | |

How they interact. User code reaches the kernel through `int 0x80`; every gate
is an interrupt gate, so a handler runs with interrupts off. A handler that
gives up the processor calls `sched_process`, which never returns: it runs
another process with `pcb_exec`, and whatever the kernel still had to do for the
caller is lost, the return value of the call included. A sleeper or a waiter
goes on from the trap frame saved in its PCB. A post only counts; the scheduler
polls the sleepers, and polls a waiter by calling `sys_sem_wait` on its behalf.
Fork copies the PCB and, through a page table window in the father's address
space, four megabytes of memory. The file system is used by the kernel to load
`user.bin` and by the host tools that build the image; `bootmain` reads the same
image without it. A program may register handlers for the timer and the
keyboard; the kernel calls them in interrupt context.

What is hard: preemption at every user instruction and inside the one kernel
section with interrupts on (`sys_wait_intr`); the scheduler's polling and its
special treatment of its caller; system calls whose kernel half never finishes;
two processes in one critical section; cached translations; descriptors with
their own copies of inode and data block; the order of writes to the disk.
`PROJECT.json` lists the hazards line by line.

## 2. Modules

### Kernel

Processes, scheduler, semaphores, timer. State and code:

| Variable | Code |
|---|---|
| `curr_pid`, `status`, `wait_sem` | as in the code |
| `wakeup_time[p]` | `wakeup_time - sys_runned_time`, 0 once due |
| `slice` | `sys_runned_time - sys_last_time`, saturated at `SCHED_TIME_FREQ` |
| `eax[p]` | the eax of the saved frame: what the process sees when it resumes |
| `sem_pool` | the counts |
| `mode` | where the processor is: user code, the interruptible part of `sys_wait_intr` (`hlt`), the loop of `sched_process` (`sched`), `cli; hlt` for ever (`halt`) |

One action per system call, one each for a timer tick that returns and one that
preempts, one for the other interrupts, and four for a pass of the scheduler:
it stops at a process it runs (`SchedDispatch`), at a waiter it takes a token
for (`SchedGrant`), at a waiter whose failed poll blocks the *caller*
(`SchedRebind`), or nowhere (`SchedIdle`). A handler is one action because
interrupts are off; the two exceptions are the modes `hlt` and `sched`. User
code is arbitrary: any call, with any arguments in range, at any time.

Details kept on purpose: `sched_process` never considers its caller; a poll of
a waiter goes through `sys_sem_wait`, which tests the status of the current
process; the user stub of `sys_exit` calls again for ever, so an exited process
that is resurrected can only exit again; fork copies the PCB and resets three
fields; an interrupt between the `sti` and the `hlt` of `sys_wait_intr` does not
end the `hlt` (the Makefile builds with `-O0`, so both are function calls).

Left out: `runned_time` (never read), `parent_pid` (never written), the user
handlers `do_timer` and `do_keyboard`, the calls that change no such state
(`vprintk`, `display`, `getpid`) and the frames (all in `Traps`), memory and
`sys_mem_share` (`VirtMem`), and clock wrap-around (see `Clock`).

### CriticalSection, GameMain, MCGame

`GameMain` runs `main()` of `game/game.c` on `Kernel`: `upc[p]` is the next step
of process p, `frame[p]` the physical page behind `shared_mem`, `page` its
contents and `reg` the register of the read-modify-write. A user step is a
kernel action conjoined with the move of the program counter, or an access to
the shared page. `CriticalSection` is what the demo promises (`Enter` with a
capacity, `Leave`); `GameMain` implements it under the mapping `Phase`, which
reads the phase of a child from its program counter and `wait_sem`.

`MCGame` adds a history variable: whether two children were ever between the load
and the store of `*shared_p += ...` at once. With the code's semaphore of 2 an
addition may be lost there, and `SumExact` says that it is lost nowhere else.

Printing, the registration of the two handlers and `getpid` are left out: they
change nothing modelled. `getpid` is the process's own number.

`GameMain` assumes that `fork` copies all of the father's memory. `main()` forks six
times in a row, and for that the code does not see to it: a window that the TLB still
has from the fork before leads the copy astray (`kernel/pmap.c:54`, run `VirtMem_copy`,
section 4). The properties of `GameMain` are about a machine where this does not happen.
`AllFinish` needs it most, since a child without a copy has no program to run; the safety
properties only use that a child runs the father's program if it runs any.

### FileStore, FileSys, ImageTools

`FileSys` is `kernel/fs.c`. `image` is the disk (directory sector, bitmap sector,
data blocks), `dir`, `bitmap`, `state_dir`, `state_bitmap` and `fd_pool` are the
variables of the code; a sector of data and an inode are records of different
shape, so reading one as the other shows. The code is sequential, so a call is
one action. The functions of the code are operators that take the state of the
program to the state they leave behind: `fs_write` runs `WriteChunk` round by
round, which calls `fd_buffer_fetch`, and so on. Along the way they collect in
`past` every image the disk has held. The variables `wants` (the flags a
descriptor was opened with) and `io` (the data of the last call) belong to the
program that makes the calls; programs are arbitrary, except that they do not
open a file twice at the same time. `mode` ends a program at a failed assertion
(`panic`) or when the search for a free block has left the bitmap (`overrun`).

`FileStore` is what a program may expect: files are sequences of values, a
descriptor is a file and a position. `FileSys` implements it under the mapping
that reads a file off its inodes and blocks, those that descriptors hold taken
from the descriptors (`Contents`, `CachedInode`, `CachedBlock`).

`ImageTools` runs `write_myfs` and `read_myfs` on one image, in any order. A tool
can be killed in any call; the image is then any of the call's `past`, from
before its first write to after its last. `read_myfs` opens the image read-only,
so what `fs.c` writes for it is dropped, and its writes are not looked at.

Left out: paths of length 0. Names are model values; how they are stored and
compared is in `CLib` (`NamesFound`).

### BootLoader, MCBootLoader

`BootLoader` extends `ImageTools`: what is loaded is an image that the tools have
left, after any number of kills. `bootmain(l)` and `userprog_load(n, l)` are the
memory that the two loaders leave for a file with the table `l` of program
headers. `bootmain` follows inodes itself and reads whole sectors;
`userprog_load` calls `fs_open`, `fs_read` and `fs_lseek` of `FileSys` on a kernel
that has just run `fs_init`. A table is a constant (`Layouts`), since the contents
of the header are not modelled; `KernelBoots` says separately that the header is
where `bootmain` looks for it. `MCBootLoader` gives four tables.

Left out: `e_magic`, the flags and types of headers, entry points, and the memory
of the user program beyond its segments (`alloc_page`, see `VirtMem`).

### Hangman

`Hangman` is `main_loop()` with the functions it calls and the two handlers that
interrupt it. `pc` says where the loop is: at the condition (`check`), at
`now == tick` (`poll`), before the `hlt` of `sys_wait_intr` (`wait`) or in it
(`hlt`), at `target = tick` (`target`), in the loop over the keys (`keys`), behind
it (`show`), in the wait for R (`over`), in `hangman_init` (`init`). A step ends
where the loop next reads what a handler writes, so nothing that a handler does
inside a step could be told from its doing so before or after. A word is the
set of its letters: no code distinguishes the places of a letter. The number of
misses is the length of `wrong_guess`. `found`, which `update_keypress` never
initialises, has any value when it is entered and keeps it from key to key, as
its place on the stack does at `-O0`.

Handlers run for the process that the interrupt hits, and not at all for a tick
that preempts (`kernel/trap.c:116`). The interrupts of `Hangman` are those that
reach the process that plays; the others show only by ending its `sys_wait_intr`
(`other_interrupt`). `main()` loops before it comes to `main_loop()`
(`game/game.c:159`): the game is modelled as the code would run it.

Left out: drawing, the frame rate, `hit` (always 0), the random numbers (any
word, any letters given).

### VirtMem

`VirtMem` adds memory to `Kernel`. `user_pgtable[p][i]` is page i of process p:
a set with the frame it is mapped to, or empty if it is not present. Frame
`<<p, i>>` is page i of the four megabytes at `KERN_MEM + (p << PDXSHIFT)`, `mem`
its contents. `tlb_user` and `tlb_window` are what the processor has cached for
the pages at `0x8000000` and at `new_addr`. The code flushes only by loading cr3,
in `pcb_exec`; so an access may use the cached translation or walk the table, and
what it used is then cached. That an access may walk although something is
cached stands for a TLB that forgets. The model caches the translation of pages,
not the entries of directories.

`Fork` is the kernel's `ForkInto` with `pmap_init_and_copy`, page by page; the
entry of the directory for the window is set and cleared in the same call, so
the directories need no variable. `sys_mem_share` takes any two processes.
`Switch` is a pass of the scheduler that runs a process; every other step of the
kernel leaves memory alone (`OtherStep`). Programs read and write their memory as
they like (`vprintk` and `display` are reads); they share the pages in
`SharedPages` and no others, which is what makes the rest private.

Left out: processes from number 28 on, for which `user_pgtable` has no room
(`inc/pmap.h:20`), and writes that cover part of a page.

### AddressMap

`AddressMap` has no variables: it is what the directories and tables map, with
the numbers of the code. `entry_pgdir` is the boot directory, `pcb_page_init` what
every directory begins with, `user_pgdir(p)` that of a process, `window(p, c)` that
of a father inside `fork`. An address is the number of its page. A directory is a
function on its present entries; a right must be in both the entry and the
table. `VirtMem` is about how all this changes and what the TLB keeps of it.

### IdeDisk

`IdeDisk` is `ide_read`, `ide_write` and `readsect` (which is a read of one sector
that does not look for errors) and the disk they talk to. `pc` is where the driver
is: before the command (`start`), or in the loop, before `ide_wait_ready(1)`
(`loop`). The wait is a guard: the driver polls until the disk is not busy. A
step is the six `outb`, the transfer of a sector, or the return with -1. The disk
(external) becomes ready for a sector after any time (`Fetch`), writes the sector
it was given after any time (`Commit`), and may fail in between (`Fail`); it
ignores a command while it is busy, and gives anything when it has no data.
`before` is a history variable. `FileSys` and `BootLoader` take sectors as atomic;
`ReadsRight` and `WritesRight` are what justifies it, for a disk that works.

Left out: the bytes of a sector and of its number, and `sec_num = 0` (no caller
asks for it; the command would be for 256).

### Traps

`Traps` follows a system call from the stub of the game to its result, on top of
`Kernel`, of which every step of it is a step or a stutter. `cpu` is the user's
registers, `tf[p]` the frame at the end of each PCB, `esp0` the PCB in which the next
frame will go. `Load` is the four loads of `do_syscall` before the `int`, and the
processor may be taken away before the `int`; then comes the handler, one action
for each call, which decodes the frame. A call that returns stores its result in
the frame after the handler (`Returns`); one that blocks never does. `ForkCall`
copies the PCB with the frame of the call in it. `call` and `stage` say what each
program asked for, so that the answer can be compared. `handlers` and `seen` are
what programs registered and what the handlers did to the memory of each process
(only the parity of their calls is kept). `Vprintk` and `serial_printc` print
one character at a time through a line that takes its time (`uart`); `due` is what
is still to come out. `istrap` is the argument of every `SETGATE`.

### Clock

`Clock` carries the unsigned `sys_runned_time`, `sys_last_time` and `PCB.wakeup_time`
along with the differences that `Kernel` keeps, and compares the decisions. It
stops when a sum of the code may wrap (`Late`).

### CLib, Screen

Operators only. `CLib`: `vfprintf` with `%d %x %c %s`, `itoa`, `strlen`, `strcpy`,
`strncpy`, `strncmp`, with ints of `INT_BITS` bits and signed characters. Defined are
the formats that the repository uses. `Screen`: a frame is a sequence of strings
with a place; `draw_string` gives the box of 8 by 8 pixels of each character.

### Machine

`Machine` puts `Traps`, `Clock`, `IdeDisk`, `AddressMap`, `CLib` and `Screen` into one
module for TLC. A behaviour is about one of them. They do not meet: the kernel
uses the disk before it starts the first process (`kernel/init.c`) and never again,
so no process runs while the driver polls (era `boot`); then there are system
calls (`user`), those of them that `Kernel` knows with the clock (`clock`, apart from
`user` only because the clock does not return to where it was); and what has no
state is evaluated for one int after another (`library`).

### KernelProofs, GameProofs, VirtMemProofs, HangmanProofs, IdeProofs, TrapsProofs, MachineProofs, FileSysProofs

See section 5.

## 3. Runs

| Run | Bounds | Shows |
|---|---|---|
| `Kernel_core` | 4 PCBs, 2 semaphores, slice 1, sleeps and counts up to 2 | the safety properties under arbitrary user code; no starvation, no lost wake-up |
| `GameMain_two` | 3 children, semaphore 2 | conservation of tokens, at most two inside, how an addition can be lost, every child finishes, refinement |
| `FileSys_store` | 2 descriptors, 2 files of up to 5 cells, 2 cells a block, 2 blocks an inode | ownership of blocks, refinement of `FileStore` |
| `BootLoader_kill` | 3 files of up to 5 cells, 2 cells a block, 2 blocks an inode, any number of kills; 4 tables of segments | complete files survive and are read back; a complete kernel is loaded |
| `Hangman_play` | 4 letters, 2 words, a game of 2 half seconds of 2 ticks, 2 misses, at most 4 ticks behind | the frame loop against timer and keys, every game ends |
| `VirtMem_private` | 3 PCBs, a private and a shared page each, contents 0 and 1, process 1 can be given the shared page of process 0 or 2 (of 2 also before it exists: a page fault), every tick preempts | translations and private memory stay with their process, the first copy is complete |
| `Machine_calls` | 2 processes, 1 semaphore, slice 1; a clock that wraps at 16; 3 sectors, commands of up to 2, two contents; ints of 8 bits, names of up to 3 characters of which 2 are stored; page tables and screen with the code's own numbers | calls and answers, frames, handlers, the serial line; the clock against `Kernel`; reads, writes and failures of the disk, every call returns; numbers, names, address maps, frames on the screen |
| `Kernel_idle`, `Kernel_exit` | 3 PCBs | disagreements of section 4 |
| `VirtMem_copy` | 3 PCBs, 1 page | disagreement of section 4 |
| `FileSys_rewrite` | 1 descriptor, files of up to 3 cells | disagreement of section 4 |
| `BootLoader_user` | as `BootLoader_kill`, 12 blocks | disagreement of section 4 |

Why the bounds are enough. Four PCBs give a caller, a waiter, a competitor and a
fresh child at the same time, and a full table; nothing in the code depends on
the number of processes beyond that. Two semaphores distinguish a grant on the
right one from one on another. `SCHED_TIME_FREQ = 1` makes a process tick,
tick again and be preempted; larger slices only repeat the tick. A sleep of 2
outlasts one pass of the scheduler, one of 1 does not. `MaxCount` bounds the
counts (`sys_sem_post` stops there), `MaxSleep` the argument of `sys_sleep`.

A file of 5 cells has three blocks, the last one half full, and two inodes, the
second one half full: every boundary of `fs.c` is crossed, and reads of 3 cells
stop in the middle of a block. `write_myfs` reads a regular file, so only its last
piece is short. The two files besides the kernel are alike, and the run uses
that (`SYMMETRY`). The tables have a segment that crosses into the second inode,
one that begins there, one behind an inode that was filled, and two that meet in
memory within a sector. Every cell of every file has contents of
its own, and others when it is overwritten; programs never look at them, so more
values would show nothing new. There are blocks enough for all files, but not
many more, so freed numbers after a kill are taken again at once.

Three processes give a father, the child whose translations may be stale and the
child that suffers. One page of each kind is enough because pages never meet: a
frame is only ever mapped at its own index. That `SharedPages`, `DestPids`,
`SrcPids` and `MaxValue` bound the run only is what the proofs show: they hold
for all of them.

Four letters are a right one in both words, one in each, and one that is always
wrong and is also R. Two ticks to half a second and two half seconds make every
residue of `now` and the last frame happen, `MaxLag` puts several half seconds
into one frame. `tick` needs no other bound: a game ends, and the next begins at 0.

Three children are one more than the semaphore lets in. Two processes are enough
for `Traps`: a frame is right or is another's. The registers of a call are told
apart by its arguments. A clock of 16 ticks lets a process be preempted several
times, at every phase of another's sleep. A disk of three sectors with commands of
two has a command inside it, one at its end and room that must stay as it was;
`MAX_COUNT = 2` makes the count register wrap to 0 for a full command, as 256 does.
An int of 8 bits has a least value, three decimal digits and two hexadecimal ones;
more bits repeat the loops. A name of one character less than is stored, of
exactly as many and of one more are all there are to tell apart.

`CHECK_DEADLOCK` is on everywhere: the kernel always has a step, be it an idle
pass of the scheduler or the halted processor.

Fairness. Kernel code runs on by itself, so passes of the scheduler are weakly
fair. The timer is strongly fair: the 8259 latches a tick that comes while
interrupts are off (`kernel/irq.c` sets it up edge triggered with automatic end
of interrupt), so when interrupts are on again and again the tick is taken.
`Kernel` assumes nothing of user code. `GameMain` adds that a process which gets
the processor again and again executes its next instruction: ticks come every
10 ms and take the processor away once in `SCHED_TIME_FREQ` of them. `Hangman`
assumes weak fairness of its loop and of the ticks that reach it: in the time a
process has the processor, all ticks but the last do. It assumes nothing of the
player. The driver of the disk is kernel code with interrupts off, and a disk that
is busy gets done, be it with an error: both are weakly fair (`CallsReturn`).

## 4. Where the code and its own words differ

* `Kernel_idle`: "No runnable process: looping." (`kernel/sched.c:30`) is printed
  while the only process is due, because the scan skips its caller
  (`kernel/sched.c:14`). A father that is preempted before its first fork never
  runs again; this is why `AllFinish` starts at the first child.
* `Kernel_exit`: a process that "exited gracefully" (`kernel/syscall.c:39`) is put
  to sleep on a semaphore, because the scheduler polls another waiter with
  `sys_sem_wait`, which blocks the current process unless it is `PCB_SLEEPING`
  (`kernel/sem.c:34`). Its PCB is in use again and takes a token later.
* `VirtMem_copy`: "Do a complete copy" (`kernel/pmap.c:47`), but the second of two
  forks without a switch between them may copy through the cached window of the
  first, into the first child (`kernel/pmap.c:54`). The second child then starts
  on memory nobody wrote, and `main()` forks six times in a row.
* `FileSys_rewrite`: `fs_open` sets `writable` for directory entry 0 only
  (`kernel/fs.c:151`), so in a new program an existing file opened with `O_RDWR`
  makes `fs_write` panic, and `write_myfs`, which asserts that the write succeeds
  (`util/write_myfs.c:23`), cannot replace a file.
* `BootLoader_user`: `userprog_load` seeks to `p_offset` (`kernel/init.c:42`), but
  `SEEK_SET` ignores its offset (`kernel/fs.c:218`), so a segment that does not begin
  the file is loaded with what does.

Without runs of their own: a write whose last sector fails returns 0, since
nobody looks at the status after it (`kernel/ide.c:56`, property
`OnlyLastWriteLost`); nothing in the repository says otherwise. `sys_fork` returns "-1 for error"
(`kernel/syscall.c:51`), but without a free PCB it panics (`kernel/syscall.c:57`,
the second disjunct of `sys_fork`). On a full disk `find_empty_inode` scans 32 times as many
words as the bitmap has (`kernel/fs.c:46`), so "No more empty inode available" is
not reached. `found` (`game/effect.c:40`) makes a wrong guess free when it follows a
right one in the same frame. And `Durable` holds for the host tools, not for the kernel as the
reader of a file whose writer was killed: the kernel's disk is writable, and
reading such a file can allocate and write blocks.

## 5. Proofs

Assumptions: `KernelAssumption`, `GameAssumption`, `VMAssumption`, `HangmanAssumption`,
`IdeAssumption`, `ClockAssumption`, `TrapsAssumption`, `CLibAssumption`,
`PowersAssumption` and `FileSysAssumption` (at least
one process and semaphore; fewer children than PCBs, a positive initial count below the
bound; at most 28 processes, at least one page and two values; some words, and letters
in the alphabet; a disk of at least one sector, commands of at least one; a clock longer
than a slice and a sleep; the calls of a program have the number of arguments that the
stubs of `game/` take, and the ranges that `Kernel` bounds; NUL is no letter; an int has
from 8 to 32 bits, and the two powers of two that bound it are natural numbers, one twice
the other, which the provers do not know; blocks,
inodes, directory and pool have at least one element, and no file has the empty name).

`KernelProofs`. The inductive invariant is `IInv`: the type invariant,
`OneRunning`, `WaitersAreDue`, `ZeroIsForNewChildren` and `AwakeIsDue`. The last
is the strengthening: `WaitersAreDue` alone is not inductive, since the process
that blocks in `sys_sem_wait` must be known to be due when it does, and so must
the exited process that the scheduler rebinds. One lemma per action shows that
it keeps `IInv`; the action properties `TokenPerGrant` and `SuspendedUntouched`
follow from `IInv` step by step.

`GameProofs`. `GInv` adds to `IInv` the shape of the program (PCBs 0..i are in
use and no others, hence fork takes number i + 1; whoever waits does so inside
its call on the semaphore) and `Conservation`. Every game step is a kernel step
or leaves the kernel alone, so `IInv` carries over; `Conservation` is shown by
adding and removing one element of a finite set; `AtMostTwo` and the refinement
of `CriticalSection` follow.
`SumExact` needs `AddsUp`: every child past `sys_mem_share` uses the father's page, and
while no two children were between load and store together, the one that is there has
read the present sum. The sum itself is the community modules' fold over a set. The
induction theorems of the library cannot be used (they take an operator), but the least
element of a set of numbers can (`NatLeast`, from the well-foundedness of `<`): it gives
the existence of the function behind the fold (`IterExists`), that it does not matter
which element it picks first (`IterAdds`), and so `SumAdds`.

`VirtMemProofs`. `VMInv` is `IInv`, the types, `OwnTranslations` and
`WindowOnNewChildren`. The last is the point: fork writes through translations
that may be stale, and the argument why this never hits a process that has run
is that they lead to children that are `PCB_RUNNABLE`, that only a switch ends
this, and that a switch flushes. That `IInv` (the running process is not one of
them) is kept follows from every step being a step of `Kernel`. `PrivateMemory`
is then read off the two actions that change `mem`, and `FirstCopyComplete` off the one
that forks: a flushed window is filled from the new tables. The assumption that the TLB
may forget at any time only adds behaviours.

`HangmanProofs`. `HInv` is the types, `NowBehindTick`, `GuessesOnce`, `ShownIsKnown`
and `ShownBelow`. `ShownIsKnown` says nothing while a frame is under way;
`ShownBelow` (what is shown is known) carries it over, and `GuessesOnce` (what is
known as right is in the word) closes it at the end of the frame. The step that
matters is `GuessRecorded`: a guess adds one letter to one of the two records,
whatever `found` held. `SpecNoOverflow` follows by counting letters. The countdown is
the number of half seconds up to `now`: a whole one is subtracted exactly when the tick
is a multiple of half a second (`HalfSecondsCounted`).

`IdeProofs`. `IdeInv` relates the two ends of the data register. In the loop, while
nothing has failed, the disk is at sector `idx + total - left` with `left` sectors to
go (`ReadInv`, `WriteInv`); after it was given a sector to write it is one behind,
and `latch` holds what is missing. Between two calls it is ready, or has exactly the
last sector of a write to do (`Settled`, `IdleInv`): this is what makes the wait
before a command enough, and where a failure goes unreported. `HoldsNext` is the
step that matters: a sector written in its place extends the prefix that is on the
disk. For any size of disk, any lengths and any failures.

`TrapsProofs`. `TInv` follows a call from the stub to its result, one process at a
time. Between the stub and its `int` the registers are the call (`Loaded`), so the
kernel decodes what was meant (`CallArrives`: no two calls have one number). Off the
processor, the saved frame holds in `eax` what `Kernel`'s `eax` stands for (`Frame`), and
back in the program the registers hold one of the answers to this call (`Answered`).
What ties the two is `EaxOfTheRunner`: nothing is left behind in the process that
runs, except by `sys_exit`, whose slot may be taken by a child that has not run
(`ExitStub`). A preemption or an interrupt between any two instructions saves and
restores all registers, so it moves these facts and breaks none. While the kernel prints
it is in the call (`Printing`), and what is due is what is on the line and what is to
come (`NothingLost`). `SpecIsKernels` is step by step: each step is one of `Kernel`'s or
leaves it alone.

`MachineProofs`. `ClockAgrees`: `Differences` says what `Kernel`'s variables are in
terms of the clock's, saturation included, and `InTime` that no sum of the next step
wraps; that a time to wake is at most `MaxSleep + 1` ahead keeps the sums small.
Directories: `FramesApart` is arithmetic, `DirectoryOf` says that the directory of a
process has three entries and what they point to, and the others follow for every
process that has a table (`UserPids`, the 28 of `inc/pmap.h:20`; the code has directories for 64).
The run looks at the same 28, but at one shared page for each two of them, and
`EveryoneSharesOne` is about any page. Names: a comparison stops at
the first difference or NUL, so `strncmp` after `strncpy` compares prefixes
(`EveryNameFound`, for names of any length). Numbers: the loops of `convert` and `itoa`
are one recursive function of the base and the characters (`digitsOf`), which is shown to
exist and to be unique (`DigitsExist`, `DigitsAgree`), so that it satisfies its equation
(`DigitsStep`); the fold that reads digits is unrolled in the same way (`ValueIs`,
`ValueOfMore`), and `EveryIntPrinted`, `EveryIntDrawn` follow for every int, the least one
included. Frames: a string that ends in its line is drawn in boxes side by side
(`BoxesInLine`); every string of a frame does, given that no int has more than ten
characters (`ItoaFits`), and `FrameFits` compares the rows and columns of any two.
`MachineInv` says that in each era the part
that runs keeps its invariant and the others are as they began, so what is proved of
the parts holds in the machine.

`FileSysProofs`. The invariant says that there is a layout: which blocks are the inodes and
which the data of each file, in order (`Layouts`). In a layout no block has two uses, and
block 0, whose number as a pointer means none, is the first inode of a file (`Placed`);
the bitmap has the blocks of the layout (`Bits`); the directory has the first inodes
(`Heads`) and the sizes (`Sized`); and every inode is on the disk or in the one descriptor
that changed it (`Written`). Why `fd_inode_state_init` finds the next inode when it needs
it is in `At`: away from the start of a file the descriptor holds the inode of the cell
before the offset, so that at a multiple of `INODE_CAPACITY` it still has the old one,
whose `next` says whether to load or to allocate. The lemmas follow the code from
`find_empty_inode`, which adds a block to the layout (`GrewIn`, `GrewDa`), over a round of the
loops (`WriteStep`, `ReadStep`) to whole calls (`WriteWorks`, `ReadWorks`, `SeekSetWorks`, `CloseRests`,
`OpenEnds`). A call that ends in a panic or an overrun leaves the memory as it was before
but not the disk; `Keeps` is what the layout of before still has there. `OwnedIs` reads the
layout off `Chain` and `DataBlock`, hence `BlocksHaveOneOwner`.

That files keep what was written is the refinement, `SpecImplementsStore`. Beside the
layout there is a content `C` of every file, and `Stored` says of each cell that it is in every
buffer with its block, and on the disk unless such a buffer is still to be written. Since
two descriptors may not have one file, a buffer is never older than the disk. `FilesHold`
puts layout and content together; `Shows` says that `C` is the `Files` of the mapping, which reads
the files off the disk and the buffers, and `Distinct` that no name is given twice. With these,
`StoreInv`, each call is one step of `FileStore` or a stutter: `OpenStep` (an open or a
create, according to what is in the directory), `WriteStep`, `ReadCallStep`, `SeekStep`,
`CloseStep`, `NextProgramStep`, and `PanicStep` for those that fail. `C` has to survive more
than successful calls: what a panic leaves behind is read by the next program. The
theorem is about behaviours in which no write finds the disk full
(`[](mode # "overrun")`): such a write breaks off half way, on the disk part of the file is
overwritten and part of it is not, and `FileStore` has no such step. The disk of
`FileSys_store` is big enough that no behaviour of the run gets there.

All three theorems assume `OnlyRewinds`: seeks are `SEEK_SET`, which ignores its offset, and
`SEEK_CUR` by 0. Other seeks leave buffer and inode of the old position (the hazard at
`fs.c:222`), and without the assumption the theorems are false.

Only model-checked: the liveness properties (out of the provers' reach); what a kill of the host
tools leaves and what the loaders make of it (`Durable`, `ReadsBack`, `KernelBoots`): after a
kill the directory may have files whose blocks the bitmap has not, and the layouts of
`FileSysProofs` have no such files; and that the findings are reachable.

## 6. Not modelled

* The programming of the interrupt controller, the timer and the serial line, once
  at boot; the assembly that switches to protected mode; the instruction wrappers
  and segment macros of `inc/x86.h` and `inc/mmu.h`: their effect is assumed.
* The 256 trap entry stubs, which differ in their number only.
* Which pixels of a character are set (`game/font.c`), colours, the frame rate.
* `util/` beyond `write_myfs` and `read_myfs`; unused functions.
* The write of `alloc_page` past `user_pgtable` for process 28 and above: what it hits
  depends on the layout of the image. `MapsApart` says where the limit is, and nothing
  here says what happens beyond it.
* The clock after a sum has wrapped, where `DecidesAsInKernel` stops. The hazard is real:
  after 497 days if only the timer counts, and far sooner if the scheduler often finds nobody
  to run, since each pass of its loop counts as well (`kernel/sched.c:11`). Nothing in the
  repository says what is to happen.

Hazards without a property, each with its reason, are in `PROJECT.json`.

## 7. Plan

1. Proofs: `Durable`, with a layout of the complete files alone.
2. `Traps` with more than two processes and with `VirtMem` under it, so that what
   `vprintk` and `display` read is memory.
3. A fault model for `FileSys`: the failures of `IdeDisk`, which `kernel/fs.c` ignores
   (the results of `ide_read` and `ide_write` are not looked at).
