----------------------------- MODULE ImageTools -----------------------------
(***************************************************************************)
(* The host tools that build and read a disk image with kernel/fs.c        *)
(* (util/write_myfs.c, util/read_myfs.c), run one after another in any     *)
(* order and killed at any moment, also between two writes to the image.   *)
(***************************************************************************)
EXTENDS FileSys

VARIABLES
  pc,     \* "idle": no tool runs; "open", "loop", "close": the next call of
          \* the tool; "failed": an assertion ended it
  tool,   \* "write_myfs", "read_myfs"
  name,   \* its second argument
  fresh,  \* the file was not on the image when the tool started
  done,   \* what it has copied
  kept    \* contents of the files whose writer came to its end

toolVars == <<pc, tool, name, fresh, done, kept>>

NotKept == <<0>>
Fd == 0 \* the descriptor of a program that opens one file

OnDisk(n) == \E i \in Entries : image.dir[i].fileName = n

ToolsInit ==
  /\ FSInit
  /\ pc = "idle" /\ tool = "read_myfs" /\ name = KERNEL /\ fresh = FALSE
  /\ done = << >> /\ kept = [n \in Names |-> NotKept]

Start(t, n) ==
  /\ pc = "idle"
  /\ fs_init(image)
  /\ image_mode' = IF t = "write_myfs" THEN "O_RDWR" ELSE "O_RDONLY"
  /\ pc' = "open" /\ tool' = t /\ name' = n
  /\ fresh' = ~OnDisk(n) /\ done' = << >>
  /\ io' = << >> /\ UNCHANGED kept

\* The tool is killed in a call that would have ended in s: the image is what
\* some of the call's writes, from the first on, have made of it.
Killed(s) ==
  /\ image' \in s.past
  /\ pc' = "idle"
  /\ UNCHANGED <<image_mode, dir, bitmap, state_dir, state_bitmap, fd_pool,
                 wants, io, mode, tool, name, fresh, done, kept>>

Keeps == UNCHANGED <<tool, name, fresh, kept>>

ToolOpen ==
  LET flags == IF tool = "write_myfs" THEN {"O_RDWR", "O_CREAT"} ELSE {}
      s == fs_open(Here, name, flags)
  IN  /\ pc = "open"
      /\ \/ /\ Open(name, flags)
            /\ pc' = IF s.mode = "ok" /\ s.ret >= 0 THEN "loop" ELSE "failed"
            /\ Keeps /\ UNCHANGED done
         \/ Killed(s)

\* One round of the loop of write_myfs: read() returned some data.  The input
\* is a regular file, so only its last piece is short.
ToolWrite(data) ==
  /\ pc = "loop" /\ tool = "write_myfs"
  /\ Len(data) <= SECTSIZE /\ Len(done) % SECTSIZE = 0
  /\ \/ /\ Write(Fd, data)
        /\ pc' = IF mode' = "ok" THEN "loop" ELSE "failed"
        /\ done' = done \o io' /\ Keeps
     \/ /\ Room(Fd, data)
        /\ Killed(fs_write(Here, Fd, data))

\* The end of the input.
ToolEnd == /\ pc = "loop" /\ tool = "write_myfs"
           /\ pc' = "close"
           /\ Keeps /\ UNCHANGED <<fsVars, done>>

\* One round of the loop of read_myfs.
ToolRead ==
  /\ pc = "loop" /\ tool = "read_myfs"
  /\ \/ /\ Read(Fd, SECTSIZE)
        /\ pc' = CASE mode' # "ok" -> "failed"
                   [] mode' = "ok" /\ io' # << >> -> "loop"
                   [] OTHER -> "close"
        /\ done' = done \o io' /\ Keeps
     \/ Killed(fs_read(Here, Fd, SECTSIZE).s)

ToolClose ==
  /\ pc = "close"
  /\ \/ /\ Close(Fd)
        /\ pc' = "idle"
        /\ kept' = IF tool = "write_myfs" /\ fresh
                     THEN [kept EXCEPT ![name] = done] ELSE kept
        /\ UNCHANGED <<tool, name, fresh, done>>
     \/ Killed(fs_close(Here, Fd))

\* An assertion ends the tool.
ToolAbort == /\ pc = "failed"
             /\ pc' = "idle"
             /\ Keeps /\ UNCHANGED <<fsVars, done>>

ToolsNext ==
  \/ \E t \in {"write_myfs", "read_myfs"}, n \in Names : Start(t, n)
  \/ ToolOpen
  \/ \E data \in Data(Fd) : ToolWrite(data)
  \/ ToolEnd
  \/ ToolRead
  \/ ToolClose
  \/ ToolAbort

ToolsSpec == ToolsInit /\ [][ToolsNext]_<<fsVars, toolVars>>

-----------------------------------------------------------------------------

OnImage(b) == image.data[b]

\* A file whose writer came to its end stays on the disk as it was written,
\* whatever is killed later: fs_close leaves nothing in memory, and no tool
\* writes a block of a file that is complete, although the directory reaches
\* the disk before the bitmap.
Durable ==
  \A n \in Names : kept[n] # NotKept =>
    /\ OnDisk(n)
    /\ Contents(EntryOf(image.dir, n), OnImage, OnImage) = kept[n]

\* The fs-test of the Makefile: reading a file that was written gives it back,
\* and the tool that reads it does not fail.
ReadsBack ==
  tool = "read_myfs" /\ kept[name] # NotKept =>
    /\ pc # "failed"
    /\ pc = "close" => done = kept[name]

=============================================================================
