----------------------------- MODULE FileStore -----------------------------
(***************************************************************************)
(* What the file system of kernel/fs.c promises a program: a file is a     *)
(* sequence of values, a descriptor is a file and a position in it, and a  *)
(* read returns what the last writes of those positions put there.         *)
(***************************************************************************)
EXTENDS Naturals, Sequences

CONSTANTS Names,    \* file names
          Values,   \* contents of one cell of a file
          Handles,  \* descriptors
          Lens      \* how much one call asks for

VARIABLES files,    \* contents of the files that exist
          handle,   \* handle[h]: the file h is open on and the position in it
          io        \* what the last call wrote or read

storeVars == <<files, handle, io>>

Closed == [name |-> "", pos |-> 0]

StoreInit == /\ files = << >>
             /\ handle = [h \in Handles |-> Closed]
             /\ io = << >>

Opened(h, n) == /\ handle[h] = Closed
                /\ \A g \in Handles : handle[g].name # n
                /\ handle' = [handle EXCEPT ![h] = [name |-> n, pos |-> 0]]
                /\ io' = << >>

Open(h, n) == /\ n \in DOMAIN files
              /\ Opened(h, n)
              /\ UNCHANGED files

Create(h, n) == /\ n \in Names \ DOMAIN files
                /\ Opened(h, n)
                /\ files' = [m \in DOMAIN files \cup {n} |->
                               IF m = n THEN << >> ELSE files[m]]

\* `data' at position p of `old', which it may extend.
Overwrite(old, p, data) ==
  [k \in 1..(IF p + Len(data) > Len(old) THEN p + Len(data) ELSE Len(old)) |->
     IF k \in p+1 .. p+Len(data) THEN data[k - p] ELSE old[k]]

Write(h, data) ==
  LET f == handle[h]
  IN  /\ f # Closed
      /\ files' = [files EXCEPT ![f.name] = Overwrite(@, f.pos, data)]
      /\ handle' = [handle EXCEPT ![h].pos = @ + Len(data)]
      /\ io' = data

Read(h, len) ==
  LET f == handle[h]
  IN  /\ f # Closed
      /\ io' = SubSeq(files[f.name], f.pos + 1,
                       IF f.pos + len < Len(files[f.name])
                         THEN f.pos + len ELSE Len(files[f.name]))
      /\ handle' = [handle EXCEPT ![h].pos = @ + Len(io')]
      /\ UNCHANGED files

Rewind(h) == /\ handle[h] # Closed
             /\ handle' = [handle EXCEPT ![h].pos = 0]
             /\ io' = << >>
             /\ UNCHANGED files

Close(h) == /\ handle[h] # Closed
            /\ handle' = [handle EXCEPT ![h] = Closed]
            /\ io' = << >>
            /\ UNCHANGED files

\* A call that fails, and one that moves to where it is.
Nothing == /\ io' = << >>
           /\ UNCHANGED <<files, handle>>

StoreNext ==
  \/ \E h \in Handles :
        \/ \E n \in Names : Open(h, n) \/ Create(h, n)
        \/ Write(h, io') /\ io' \in Seq(Values)
        \/ \E len \in Lens : Read(h, len)
        \/ Rewind(h) \/ Close(h)
  \/ Nothing

StoreSpec == StoreInit /\ [][StoreNext]_storeVars
=============================================================================
