------------------------------ MODULE IdeDisk ------------------------------
(***************************************************************************)
(* The disk driver, ide_read() and ide_write() of kernel/ide.c, and the    *)
(* boot loader's readsect(), against a disk that answers in its own time   *)
(* and may fail at any sector.  The driver polls: it looks at the status   *)
(* register until the disk is not busy, and moves one sector at a time     *)
(* through the data register.                                              *)
(*                                                                         *)
(* A sector is a value, the bytes of the sector number are its number.     *)
(***************************************************************************)
EXTENDS Integers, Sequences

CONSTANTS
  NSECT,      \* sectors of the disk
  MAX_COUNT,  \* sectors of one command (256); the register holds it modulo
              \* this number
  Data        \* contents of a sector

ASSUME IdeAssumption ==
  /\ NSECT \in Nat \ {0}
  /\ MAX_COUNT \in Nat \ {0}
  /\ Data # {}

Sectors == 0 .. NSECT-1

VARIABLES
  op,      \* "ide_read", "ide_write" or "readsect": the last call
  pc,      \* "idle", "start" (before the command) or "loop"
  idx,     \* sec_idx
  total,   \* sec_num, as it was given
  left,    \* sec_num, as it is counted down
  buf,     \* the sectors at dst, or at src
  ret,     \* 0 or -1
  cmd,     \* the disk: the command it has, "none" before the first
  dev,     \*   "ready", "busy" or "data" (it waits for the data register)
  err,     \*   IDE_ERR or IDE_DF
  pos,     \*   the sector it is at
  rest,    \*   the sectors it has still to move
  latch,   \*   what it was given to write: <<d>>, or << >>
  media,   \*   its contents
  before   \* what the disk held when it got the command

driver == <<op, pc, idx, total, left, buf, ret>>
disk   == <<cmd, dev, err, pos, rest, latch, media>>
ivars  == <<driver, disk, before>>

IdeInit ==
  /\ op = "ide_read" /\ pc = "idle" /\ idx = 0 /\ total = 0 /\ left = 0
  /\ buf = << >> /\ ret = 0
  /\ cmd = "none" /\ dev = "ready" /\ err = FALSE /\ pos = 0 /\ rest = 0
  /\ latch = << >>
  /\ media \in [Sectors -> Data]
  /\ before = media

-----------------------------------------------------------------------------
(* The disk.                                                               *)

Fail == /\ err' = TRUE /\ dev' = "ready" /\ rest' = 0 /\ latch' = << >>
        /\ UNCHANGED <<cmd, pos, media>>

\* A busy disk gets to the point where it has a sector, or wants one.
Fetch ==
  /\ dev = "busy" /\ latch = << >>
  /\ dev' = "data"
  /\ UNCHANGED <<cmd, err, pos, rest, latch, media>>

\* It writes the sector it was given.
Commit ==
  /\ dev = "busy" /\ latch # << >>
  /\ media' = [media EXCEPT ![pos] = latch[1]]
  /\ latch' = << >>
  /\ pos' = pos + 1
  /\ rest' = rest - 1
  /\ dev' = IF rest = 1 THEN "ready" ELSE "data"
  /\ UNCHANGED <<cmd, err>>

DiskStep ==
  /\ Fetch \/ Commit \/ (dev = "busy" /\ Fail)
  /\ UNCHANGED <<driver, before>>

\* A command takes effect on a disk that is not busy.
Command(c, sector, count) ==
  IF dev = "busy" THEN UNCHANGED disk
  ELSE /\ cmd' = c /\ pos' = sector
       /\ rest' = IF count = 0 THEN MAX_COUNT ELSE count
       /\ dev' = "busy" /\ err' = FALSE /\ latch' = << >>
       /\ UNCHANGED media

\* insl: a disk that has no data gives anything.
DataIn(d) ==
  \/ /\ dev = "data" /\ cmd = "read"
     /\ d = media[pos]
     /\ pos' = pos + 1 /\ rest' = rest - 1
     /\ dev' = IF rest = 1 THEN "ready" ELSE "busy"
     /\ UNCHANGED <<cmd, err, latch, media>>
  \/ ~(dev = "data" /\ cmd = "read") /\ UNCHANGED disk

\* outsl.
DataOut(d) ==
  \/ /\ dev = "data" /\ cmd = "write"
     /\ latch' = <<d>> /\ dev' = "busy"
     /\ UNCHANGED <<cmd, err, pos, rest, media>>
  \/ ~(dev = "data" /\ cmd = "write") /\ UNCHANGED disk

-----------------------------------------------------------------------------
(* The driver.                                                             *)

Call(o, sector, num, src) ==
  /\ pc = "idle"
  /\ op' = o /\ idx' = sector /\ total' = num /\ left' = num /\ buf' = src
  /\ pc' = "start"
  /\ UNCHANGED <<ret, disk, before>>

ide_read(sec_idx, sec_num) == Call("ide_read", sec_idx, sec_num, << >>)
ide_write(secno, src) == Call("ide_write", secno, Len(src), src)
readsect(offset) == Call("readsect", offset, 1, << >>)

\* Mutant: a loop that looks at IDE_DRDY only, which is set throughout.
ide_wait_ready_NoBusy == TRUE

\* The loop of ide_wait_ready and waitdisk ends.
ide_wait_ready == dev # "busy"

\* The six outb.
Issue ==
  /\ pc = "start"
  /\ ide_wait_ready
  /\ Command(IF op = "ide_write" THEN "write" ELSE "read", idx, total % MAX_COUNT)
  /\ before' = media
  /\ pc' = "loop"
  /\ UNCHANGED <<op, idx, total, left, buf, ret>>

\* Mutant: errors are looked at before the transfer, not at every sector.
Failed_FirstOnly == op # "readsect" /\ err /\ left = total

\* ide_wait_ready(1) returns -1; readsect does not look.
Failed == op # "readsect" /\ err

\* Mutant: the command is given again.
GiveUp_Retry ==
  /\ pc = "loop"
  /\ ide_wait_ready
  /\ Failed
  /\ left' = total
  /\ buf' = IF op = "ide_write" THEN buf ELSE << >>
  /\ pc' = "start"
  /\ UNCHANGED <<op, idx, total, ret, disk, before>>

GiveUp ==
  /\ pc = "loop"
  /\ ide_wait_ready
  /\ Failed
  /\ ret' = -1 /\ pc' = "idle"
  /\ UNCHANGED <<op, idx, total, left, buf, disk, before>>

\* Mutants: one sector too few; the loop tests what is left before it counts.
LastSector_OffByOne == left <= 2
LastSector_TooLate == left = 0

LastSector == left = 1

\* One sector moves.  After the last one the call returns; what a disk that
\* is written does after that nobody waits for but the next call.
Transfer ==
  /\ pc = "loop"
  /\ ide_wait_ready
  /\ ~Failed
  /\ IF op = "ide_write"
     THEN DataOut(buf[total - left + 1]) /\ buf' = buf
     ELSE \E d \in Data : DataIn(d) /\ buf' = Append(buf, d)
  /\ left' = left - 1
  /\ IF LastSector THEN pc' = "idle" /\ ret' = 0 ELSE UNCHANGED <<pc, ret>>
  /\ UNCHANGED <<op, idx, total, before>>

DriverStep == Issue \/ GiveUp \/ Transfer

NewCall ==
  \E s \in Sectors :
    \/ \E n \in 1 .. MAX_COUNT : s + n <= NSECT /\ ide_read(s, n)
    \/ \E n \in 1 .. MAX_COUNT :
         s + n <= NSECT /\ \E src \in [1 .. n -> Data] : ide_write(s, src)
    \/ readsect(s)

IdeNext == NewCall \/ DriverStep \/ DiskStep

IdeSpec == IdeInit /\ [][IdeNext]_ivars

\* The driver is kernel code, and a disk that is busy gets done.
IdeFairness == WF_ivars(DriverStep) /\ WF_ivars(DiskStep)

-----------------------------------------------------------------------------
(* Properties.                                                             *)

Moved == 0 .. total - 1

\* Types, and how far the two sides are: the driver never asks for a sector
\* outside the command.
IdeTypeOK ==
  /\ op \in {"ide_read", "ide_write", "readsect"} /\ pc \in {"idle", "start", "loop"}
  /\ idx \in Sectors /\ total \in 0 .. MAX_COUNT /\ left \in 0 .. total
  /\ buf \in Seq(Data) /\ ret \in {0, -1}
  /\ cmd \in {"none", "read", "write"} /\ dev \in {"ready", "busy", "data"}
  /\ err \in BOOLEAN /\ pos \in 0 .. NSECT /\ rest \in 0 .. MAX_COUNT
  /\ latch \in {<< >>} \cup {<<d>> : d \in Data}
  /\ media \in [Sectors -> Data] /\ before \in [Sectors -> Data]
  /\ pc # "idle" => left > 0

(* A read that returns 0 has brought the sectors that were asked for, in   *)
(* order, however slow the disk is and whatever it was still writing, and  *)
(* it has changed nothing.  The boot loader's read, which does not look    *)
(* for errors, brings the sector unless the disk has failed.               *)
ReadsRight ==
  pc = "idle" /\ ret = 0 /\ total > 0 /\ op # "ide_write" /\ ~err
  => /\ buf = [k \in 1 .. total |-> media[idx + k - 1]]
     /\ media = before

\* media is what it was, with the n first sectors of the last write.
Holds(n) ==
  media = [s \in Sectors |->
             IF s - idx \in 0 .. n - 1 THEN buf[s - idx + 1] ELSE before[s]]

(* A write that returns 0 has written all sectors where they belong, and   *)
(* nothing else, once the disk is done and if it has not failed.           *)
WritesRight ==
  pc = "idle" /\ ret = 0 /\ op = "ide_write" /\ dev # "busy" /\ ~err
  => Holds(total)

(* Whatever fails is reported, with one exception: nobody looks at the     *)
(* status after the last sector of a write (kernel/ide.c:56).  Such a      *)
(* write returns 0 and all of it is there but that sector.                 *)
OnlyLastWriteLost ==
  pc = "idle" /\ ret = 0 /\ err /\ op # "readsect"
  => op = "ide_write" /\ Holds(total - 1)

(* Every call returns.                                                     *)
CallsReturn == pc # "idle" ~> pc = "idle"

=============================================================================
