--------------------------- MODULE FileSysProofs ---------------------------
(***************************************************************************)
(* Proofs about the file system, for any disk, any number of files and     *)
(* descriptors, and any sequence of calls that only rewind: the variables  *)
(* keep their types, so that an inode is never taken for data, every used  *)
(* block has one owner, and the files are those of FileStore.              *)
(***************************************************************************)
EXTENDS FileSys, FiniteSetTheorems, WellFoundedInduction, TLAPS

-----------------------------------------------------------------------------
(* Numbers.                                                                *)

LEMMA NatLeast ==
  ASSUME NEW T \in SUBSET Nat, T # {}
  PROVE  \E n \in T : \A m \in T : n <= m
<1>1. PICK n \in T : \A m \in T : ~(<<m, n>> \in OpToRel(<, Nat))
  BY NatLessThanWellFounded, WFMin
<1>2. \A m \in T : ~(m < n)
  BY <1>1 DEF OpToRel
<1> QED BY <1>2

(* A set of numbers with 0 and every successor is all of them.             *)
LEMMA NatClosed ==
  ASSUME NEW T \in SUBSET Nat, 0 \in T, \A n \in T : n + 1 \in T
  PROVE  T = Nat
<1> SUFFICES ASSUME Nat \ T # {} PROVE FALSE
  OBVIOUS
<1>1. PICK n \in Nat \ T : \A m \in Nat \ T : n <= m
  BY NatLeast
<1>2. n - 1 \in Nat /\ n - 1 \notin T
  BY <1>1
<1> QED BY <1>1, <1>2

LEMMA MinIsLeast ==
  ASSUME NEW T \in SUBSET Nat, T # {}
  PROVE  Min(T) \in T /\ \A m \in T : Min(T) <= m
<1>1. \E n \in T : \A m \in T : n <= m
  BY NatLeast
<1> QED BY <1>1 DEF Min

LEMMA Division ==
  ASSUME NEW n \in Nat, NEW d \in Nat \ {0}
  PROVE  /\ n \div d \in Nat
         /\ n % d \in 0 .. d - 1
         /\ n = d * (n \div d) + (n % d)
  OBVIOUS

LEMMA Quotient ==
  ASSUME NEW d \in Nat \ {0}, NEW q \in Nat, NEW r \in 0 .. d - 1
  PROVE  /\ d * q + r \in Nat
         /\ (d * q + r) \div d = q
         /\ (d * q + r) % d = r
<1>1. d * q \in Nat /\ d * q + r \in Nat
  OBVIOUS
<1> DEFINE a == (d * q + r) \div d
           b == (d * q + r) % d
<1>2. a \in Nat /\ b \in 0 .. d - 1 /\ d * q + r = d * a + b
  BY <1>1, Division
<1> HIDE DEF a, b
<1>3. CASE q < a
  <2>1. d * (a - q) >= d
    BY <1>2, <1>3
  <2> QED BY <1>2, <2>1
<1>4. CASE q > a
  <2>1. d * (q - a) >= d
    BY <1>2, <1>4
  <2> QED BY <1>2, <2>1
<1>5. CASE q = a
  BY <1>2, <1>5
<1>6. a = q /\ b = r
  BY <1>2, <1>3, <1>4, <1>5
<1> QED BY <1>1, <1>6 DEF a, b

LEMMA QuotientGrows ==
  ASSUME NEW m \in Nat, NEW n \in Nat, m <= n, NEW d \in Nat \ {0}
  PROVE  m \div d <= n \div d
<1> DEFINE a == m \div d
           b == n \div d
<1>1. /\ a \in Nat /\ m % d \in 0 .. d - 1 /\ m = d * a + (m % d)
      /\ b \in Nat /\ n % d \in 0 .. d - 1 /\ n = d * b + (n % d)
  BY Division
<1> HIDE DEF a, b
<1>2. CASE b < a
  <2>1. d * (a - b) >= d
    BY <1>1, <1>2
  <2> QED BY <1>1, <2>1
<1> QED BY <1>1, <1>2 DEF a, b

LEMMA RoundedUp ==
  ASSUME NEW d \in Nat \ {0}
  PROVE  /\ UpTo(0, d) = 0
         /\ \A n \in Nat \ {0} : UpTo(n, d) = ((n - 1) \div d) + 1
         /\ \A n \in Nat : UpTo(n, d) \in Nat
<1>1. UpTo(0, d) = 0
  <2>1. 0 + d - 1 = d * 0 + (d - 1)
    OBVIOUS
  <2> QED BY <2>1, Quotient DEF UpTo
<1>2. ASSUME NEW n \in Nat \ {0} PROVE UpTo(n, d) = ((n - 1) \div d) + 1
  <2> DEFINE q == (n - 1) \div d
             r == (n - 1) % d
  <2>1. q \in Nat /\ r \in 0 .. d - 1 /\ n - 1 = d * q + r
    <3>1. n - 1 \in Nat
      OBVIOUS
    <3> QED BY <3>1, Division
  <2> HIDE DEF q, r
  <2>2. n + d - 1 = d * (q + 1) + r
    BY <2>1
  <2>3. (n + d - 1) \div d = q + 1
    BY <2>1, <2>2, Quotient
  <2> QED BY <2>3 DEF UpTo, q
<1>3. ASSUME NEW n \in Nat PROVE UpTo(n, d) \in Nat
  <2>1. n + d - 1 \in Nat
    OBVIOUS
  <2> QED BY <2>1, Division DEF UpTo
<1> QED BY <1>1, <1>2, <1>3

-----------------------------------------------------------------------------
(* Positions in a file.  Offset o is in block o \div SECTSIZE, and inode   *)
(* o \div INODE_CAPACITY has a slot for it.                                *)

LEMMA Sizes ==
  /\ SECTSIZE \in Nat \ {0} /\ N_INODE_DATABLOCK \in Nat \ {0}
  /\ INODE_CAPACITY \in Nat \ {0}
<1>1. SECTSIZE \in Nat \ {0} /\ N_INODE_DATABLOCK \in Nat \ {0}
  BY FileSysAssumption
<1>2. \A a, b \in Nat \ {0} : a * b \in Nat \ {0}
  OBVIOUS
<1> QED BY <1>1, <1>2 DEF INODE_CAPACITY

LEMMA InodeOfBlock ==
  ASSUME NEW o \in Nat
  PROVE  /\ o \div INODE_CAPACITY = (o \div SECTSIZE) \div N_INODE_DATABLOCK
         /\ o % INODE_CAPACITY = 0 => o % SECTSIZE = 0
<1> DEFINE q == o \div SECTSIZE
           r == o % SECTSIZE
           k == q \div N_INODE_DATABLOCK
           j == q % N_INODE_DATABLOCK
<1>1. q \in Nat /\ r \in 0 .. SECTSIZE - 1 /\ o = SECTSIZE * q + r
  BY Sizes, Division
<1>2. k \in Nat /\ j \in 0 .. N_INODE_DATABLOCK - 1 /\ q = N_INODE_DATABLOCK * k + j
  BY <1>1, Sizes, Division
<1> HIDE DEF q, r, k, j
<1>3. o = INODE_CAPACITY * k + (SECTSIZE * j + r)
  BY <1>1, <1>2, Sizes DEF INODE_CAPACITY
<1>4. SECTSIZE * j <= SECTSIZE * (N_INODE_DATABLOCK - 1) /\ SECTSIZE * j \in Nat
  BY <1>2, Sizes
<1>5. SECTSIZE * j + r \in 0 .. INODE_CAPACITY - 1
  BY <1>1, <1>4, Sizes DEF INODE_CAPACITY
<1>6. o \div INODE_CAPACITY = k /\ o % INODE_CAPACITY = SECTSIZE * j + r
  BY <1>2, <1>3, <1>5, Sizes, Quotient
<1>7. SECTSIZE * j + r = 0 => r = 0
  BY <1>1, <1>4
<1> QED BY <1>6, <1>7 DEF q, r, k

(* A chunk of a block, and where it ends.                                  *)
LEMMA Chunk ==
  ASSUME NEW o \in Nat, NEW count \in Nat \ {0},
         (o % SECTSIZE) + count <= SECTSIZE
  PROVE  /\ (o + count - 1) \div SECTSIZE = o \div SECTSIZE
         /\ (o + count - 1) \div INODE_CAPACITY = o \div INODE_CAPACITY
         /\ (o + count) % SECTSIZE = 0 <=> (o % SECTSIZE) + count = SECTSIZE
         /\ (o + count) % SECTSIZE # 0 => (o + count) \div SECTSIZE = o \div SECTSIZE
<1> DEFINE q == o \div SECTSIZE
           r == o % SECTSIZE
<1>1. q \in Nat /\ r \in 0 .. SECTSIZE - 1 /\ o = SECTSIZE * q + r
  BY Sizes, Division
<1>2. r + count <= SECTSIZE
  OBVIOUS
<1> HIDE DEF q, r
<1>3. o + count - 1 = SECTSIZE * q + (r + count - 1) /\ r + count - 1 \in 0 .. SECTSIZE - 1
  BY <1>1, <1>2, Sizes
<1>4. (o + count - 1) \div SECTSIZE = q
  BY <1>1, <1>3, Sizes, Quotient
<1>5. o + count - 1 \in Nat
  OBVIOUS
<1>6. (o + count - 1) \div INODE_CAPACITY = o \div INODE_CAPACITY
  BY <1>4, <1>5, InodeOfBlock DEF q
<1>7. /\ (o + count) % SECTSIZE = 0 <=> r + count = SECTSIZE
      /\ (o + count) % SECTSIZE # 0 => (o + count) \div SECTSIZE = q
  <2>1. CASE r + count = SECTSIZE
    <3>1. o + count = SECTSIZE * (q + 1) + 0
      BY <1>1, <2>1, Sizes
    <3>2. (o + count) % SECTSIZE = 0
      <4>1. q + 1 \in Nat /\ 0 \in 0 .. SECTSIZE - 1
        BY <1>1, Sizes
      <4> QED BY <3>1, <4>1, Sizes, Quotient
    <3> QED BY <2>1, <3>2
  <2>2. CASE r + count < SECTSIZE
    <3>1. o + count = SECTSIZE * q + (r + count) /\ r + count \in 0 .. SECTSIZE - 1
      BY <1>1, <2>2, Sizes
    <3>2. (o + count) % SECTSIZE = r + count /\ (o + count) \div SECTSIZE = q
      BY <1>1, <3>1, Sizes, Quotient
    <3> QED BY <1>1, <2>2, <3>2
  <2> QED BY <1>1, <1>2, <2>1, <2>2, Sizes
<1> QED BY <1>4, <1>6, <1>7 DEF q, r

(* The blocks, or inodes, of a file that grows to the end of a chunk.      *)
LEMMA Growth ==
  ASSUME NEW size \in Nat, NEW o \in Nat, NEW last \in Nat \ {0}, NEW d \in Nat \ {0},
         (last - 1) \div d = o \div d, o < last
  PROVE  /\ size <= last => UpTo(size, d) <= (o \div d) + 1
         /\ size < last => UpTo(last, d) = (o \div d) + 1
         /\ size >= last => (o \div d) + 1 <= UpTo(size, d)
<1>1. last - 1 \in Nat
  OBVIOUS
<1>2. o \div d \in Nat
  BY Division
<1>3. UpTo(last, d) = (o \div d) + 1
  BY RoundedUp
<1>4. CASE size = 0
  BY <1>2, <1>3, <1>4, RoundedUp
<1>5. CASE size # 0
  <2>1. UpTo(size, d) = ((size - 1) \div d) + 1 /\ size - 1 \in Nat
    BY <1>5, RoundedUp
  <2>2. size - 1 <= last - 1 => (size - 1) \div d <= (last - 1) \div d
    BY <1>1, <2>1, QuotientGrows
  <2>3. size - 1 >= last - 1 => (last - 1) \div d <= (size - 1) \div d
    BY <1>1, <2>1, QuotientGrows
  <2>4. (size - 1) \div d \in Nat
    BY <2>1, Division
  <2> QED BY <1>2, <1>3, <2>1, <2>2, <2>3, <2>4
<1> QED BY <1>4, <1>5

(* What is at an offset inside a file exists; what is at its end, on a     *)
(* boundary, is the next to be made.                                       *)
LEMMA Boundary ==
  ASSUME NEW size \in Nat, NEW o \in 0 .. size, NEW d \in Nat \ {0}
  PROVE  /\ o < size => o \div d < UpTo(size, d)
         /\ o = size /\ o % d = 0 => o \div d = UpTo(size, d)
         /\ o % d # 0 => o \div d < UpTo(size, d)
         /\ o % d # 0 => (o - 1) \div d = o \div d
         /\ o # 0 /\ o % d = 0 => o \div d = ((o - 1) \div d) + 1
         /\ o % d = 0 => o \div d <= UpTo(size, d)
         /\ o # 0 => (o - 1) \div d < UpTo(size, d)
<1> DEFINE q == o \div d
           r == o % d
<1>0. o \in Nat
  OBVIOUS
<1>1. q \in Nat /\ r \in 0 .. d - 1 /\ o = d * q + r
  BY <1>0, Division
<1> HIDE DEF q, r
<1>2. ASSUME o < size PROVE q < UpTo(size, d)
  <2>1. size - 1 \in Nat /\ o <= size - 1
    BY <1>2
  <2>2. q <= (size - 1) \div d /\ (size - 1) \div d \in Nat
    BY <2>1, QuotientGrows, Division DEF q
  <2> QED BY <1>1, <1>2, <2>2, RoundedUp
<1>3. ASSUME o # 0, r = 0 PROVE q = ((o - 1) \div d) + 1
  <2>1. q # 0
    BY <1>1, <1>3
  <2>2. o - 1 = d * (q - 1) + (d - 1)
    BY <1>1, <1>3
  <2>3. (o - 1) \div d = q - 1
    <3>1. q - 1 \in Nat /\ d - 1 \in 0 .. d - 1
      BY <1>1, <2>1
    <3> QED BY SMTT(30), <2>2, <3>1, Quotient
  <2> QED BY <1>1, <2>3
<1>4. ASSUME r # 0 PROVE (o - 1) \div d = q /\ o # 0
  <2>1. o - 1 = d * q + (r - 1) /\ r - 1 \in 0 .. d - 1
    BY <1>1, <1>4
  <2>2. o # 0
    <3>1. d * q \in Nat
      BY <1>1
    <3> QED BY <1>1, <1>4, <3>1
  <2> QED BY <1>1, <2>1, <2>2, Quotient
<1>5. ASSUME o = size, r = 0 PROVE q = UpTo(size, d)
  <2>1. CASE o = 0
    <3>1. q = 0
      <4>1. 0 = d * 0 + 0
        OBVIOUS
      <4> QED BY <2>1, <4>1, Quotient DEF q
    <3> QED BY <1>5, <2>1, <3>1, RoundedUp
  <2>2. CASE o # 0
    BY <1>3, <1>5, <2>2, RoundedUp
  <2> QED BY <2>1, <2>2
<1>6. ASSUME r # 0 PROVE q < UpTo(size, d)
  <2>1. CASE o < size
    BY <1>2, <2>1
  <2>2. CASE o = size
    BY <1>1, <1>4, <1>6, <2>2, RoundedUp
  <2> QED BY <2>1, <2>2
<1>7. ASSUME r = 0 PROVE q <= UpTo(size, d)
  <2>1. CASE o < size
    BY <1>1, <1>2, <2>1, RoundedUp
  <2>2. CASE o = size
    BY <1>1, <1>5, <1>7, <2>2, RoundedUp
  <2> QED BY <2>1, <2>2
<1>8. ASSUME o # 0 PROVE (o - 1) \div d < UpTo(size, d)
  <2>1. CASE r = 0
    <3>1. o - 1 \in Nat /\ (o - 1) \div d \in Nat
      BY <1>8, Division
    <3> QED BY <1>1, <1>3, <1>7, <1>8, <2>1, <3>1, RoundedUp
  <2>2. CASE r # 0
    BY <1>4, <1>6, <2>2
  <2> QED BY <2>1, <2>2
<1> QED BY <1>2, <1>3, <1>4, <1>5, <1>6, <1>7, <1>8 DEF q, r

-----------------------------------------------------------------------------
(* Layouts.  The invariant says that there is a layout: ino[i][k] is the    *)
(* block of inode k of file i, and ni[i] says how many inodes the file has; *)
(* blk[i][m] and nb[i] are its data blocks.                                 *)

Layouts == [ino : [Entries -> [Nat -> Blocks]], ni : [Entries -> Nat],
            blk : [Entries -> [Nat -> Blocks]], nb : [Entries -> Nat]]

ino(L, i, k) == L.ino[i][k]
ni(L, i) == L.ni[i]
blk(L, i, m) == L.blk[i][m]
nb(L, i) == L.nb[i]

\* Data block Slot(k, j) of a file is in slot j of inode k.
Slot(k, j) == k * N_INODE_DATABLOCK + j
Slots == 0 .. N_INODE_DATABLOCK - 1

\* r is what inode k of file i holds.
IsRec(r, L, i, k) ==
  /\ r \in Inode
  /\ r.next = IF k + 1 < ni(L, i) THEN ino(L, i, k + 1) ELSE 0
  /\ \A j \in Slots :
       r.dataBlocks[j] = IF Slot(k, j) < nb(L, i) THEN blk(L, i, Slot(k, j)) ELSE 0

\* No block has two uses; block 0, which as a pointer says "none", is the
\* first inode of a file.
Placed(L) ==
  /\ L \in Layouts
  /\ \A i, j \in Entries, k, m \in Nat :
       /\ k < ni(L, i) /\ m < ni(L, j) /\ ino(L, i, k) = ino(L, j, m) => i = j /\ k = m
       /\ k < nb(L, i) /\ m < nb(L, j) /\ blk(L, i, k) = blk(L, j, m) => i = j /\ k = m
       /\ k < ni(L, i) /\ m < nb(L, j) => ino(L, i, k) # blk(L, j, m)
  /\ \A i \in Entries, k \in Nat :
       /\ k < ni(L, i) /\ ino(L, i, k) = 0 => k = 0
       /\ k < nb(L, i) => blk(L, i, k) # 0

\* The bitmap has the blocks of the layout, and block 0 was the first.
Bits(used, L) ==
  /\ \A i \in Entries, k \in Nat : /\ k < ni(L, i) => ino(L, i, k) \in used
                                   /\ k < nb(L, i) => blk(L, i, k) \in used
  /\ \A b \in used : \E i \in Entries, k \in Nat :
        (k < ni(L, i) /\ b = ino(L, i, k)) \/ (k < nb(L, i) /\ b = blk(L, i, k))
  /\ used # {} => 0 \in used

\* Block b has become one more inode, or one more data block, of file i.
GrewIn(L, G, i, b) ==
  /\ L \in Layouts /\ G \in Layouts
  /\ ni(G, i) = ni(L, i) + 1 /\ \A j \in Entries : j # i => ni(G, j) = ni(L, j)
  /\ \A j \in Entries : nb(G, j) = nb(L, j)
  /\ ino(G, i, ni(L, i)) = b
  /\ \A j \in Entries, k \in Nat : j # i \/ k # ni(L, i) => ino(G, j, k) = ino(L, j, k)
  /\ \A j \in Entries, k \in Nat : blk(G, j, k) = blk(L, j, k)
GrewDa(L, G, i, b) ==
  /\ L \in Layouts /\ G \in Layouts
  /\ nb(G, i) = nb(L, i) + 1 /\ \A j \in Entries : j # i => nb(G, j) = nb(L, j)
  /\ \A j \in Entries : ni(G, j) = ni(L, j)
  /\ blk(G, i, nb(L, i)) = b
  /\ \A j \in Entries, k \in Nat : j # i \/ k # nb(L, i) => blk(G, j, k) = blk(L, j, k)
  /\ \A j \in Entries, k \in Nat : ino(G, j, k) = ino(L, j, k)

\* L has what L0 has, where L0 has it.
Grows(L0, L) ==
  /\ L0 \in Layouts /\ L \in Layouts
  /\ \A i \in Entries : ni(L0, i) <= ni(L, i) /\ nb(L0, i) <= nb(L, i)
  /\ \A i \in Entries, k \in Nat : /\ k < ni(L0, i) => ino(L, i, k) = ino(L0, i, k)
                                   /\ k < nb(L0, i) => blk(L, i, k) = blk(L0, i, k)

LEMMA LayoutFacts ==
  ASSUME NEW L \in Layouts, NEW i \in Entries
  PROVE  /\ ni(L, i) \in Nat /\ nb(L, i) \in Nat
         /\ \A k \in Nat : ino(L, i, k) \in Blocks /\ blk(L, i, k) \in Blocks
  BY DEF Layouts, ino, ni, blk, nb

LEMMA SlotFacts ==
  /\ \A k \in Nat, j \in Slots : Slot(k, j) \in Nat /\ Slot(k, 0) <= Slot(k, j)
  /\ \A n \in Nat : /\ n \div N_INODE_DATABLOCK \in Nat /\ n % N_INODE_DATABLOCK \in Slots
                    /\ n = Slot(n \div N_INODE_DATABLOCK, n % N_INODE_DATABLOCK)
  /\ \A k \in Nat, j \in Slots, n \in Nat :
       Slot(k, j) = n => k = n \div N_INODE_DATABLOCK /\ j = n % N_INODE_DATABLOCK
  /\ 0 \in Slots
<1>1. ASSUME NEW k \in Nat, NEW j \in Slots PROVE Slot(k, j) \in Nat /\ Slot(k, 0) <= Slot(k, j)
  <2>1. k * N_INODE_DATABLOCK \in Nat
    BY Sizes
  <2> QED BY <2>1, Sizes DEF Slot, Slots
<1>2. ASSUME NEW n \in Nat
      PROVE  /\ n \div N_INODE_DATABLOCK \in Nat /\ n % N_INODE_DATABLOCK \in Slots
             /\ n = Slot(n \div N_INODE_DATABLOCK, n % N_INODE_DATABLOCK)
  <2> DEFINE k == n \div N_INODE_DATABLOCK
             j == n % N_INODE_DATABLOCK
  <2>1. k \in Nat /\ j \in 0 .. N_INODE_DATABLOCK - 1 /\ n = N_INODE_DATABLOCK * k + j
    BY Sizes, Division
  <2> HIDE DEF k, j
  <2>2. n = k * N_INODE_DATABLOCK + j
    BY <2>1, Sizes
  <2> QED BY <2>1, <2>2 DEF Slot, Slots, k, j
<1>3. ASSUME NEW k \in Nat, NEW j \in Slots, NEW n \in Nat, Slot(k, j) = n
      PROVE  k = n \div N_INODE_DATABLOCK /\ j = n % N_INODE_DATABLOCK
  <2>1. j \in 0 .. N_INODE_DATABLOCK - 1 /\ n = N_INODE_DATABLOCK * k + j
    BY <1>3, Sizes DEF Slot, Slots
  <2> QED BY <2>1, Sizes, Quotient
<1>4. 0 \in Slots
  BY Sizes DEF Slots
<1> QED BY <1>1, <1>2, <1>3, <1>4

LEMMA BlockFacts == 0 \in Blocks /\ Blocks \subseteq Nat /\ NotAllocated \notin Blocks
<1>1. NBLOCK \in Nat /\ NBLOCK # 0
  BY FileSysAssumption
<1> QED BY <1>1 DEF Blocks, NotAllocated

(* What find_empty_inode finds.                                            *)
LEMMA NextSlot ==
  ASSUME NEW k \in Nat
  PROVE  Slot(k + 1, 0) >= Slot(k, 0) /\ Slot(k, 0) \in Nat /\ Slot(k + 1, 0) \in Nat
<1> DEFINE n == N_INODE_DATABLOCK
<1>1. n \in Nat
  BY Sizes
<1>2. Slot(k, 0) = k * n + 0 /\ Slot(k + 1, 0) = (k + 1) * n + 0
  BY DEF Slot
<1> HIDE DEF n
<1>3. k * n \in Nat /\ (k + 1) * n = k * n + n
  BY <1>1
<1> QED BY <1>1, <1>2, <1>3

LEMMA FreshBlock ==
  ASSUME NEW used, ~(Blocks \subseteq used), used # {} => 0 \in used
  PROVE  LET b == Min(Blocks \ used)
         IN  /\ b \in Blocks /\ b \notin used
             /\ b = 0 <=> used = {}
             /\ 0 \in used \cup {b}
<1>1. Blocks \ used \in SUBSET Nat /\ Blocks \ used # {}
  BY BlockFacts
<1> DEFINE b == Min(Blocks \ used)
<1>2. b \in Blocks \ used /\ \A m \in Blocks \ used : b <= m
  BY <1>1, MinIsLeast
<1> HIDE DEF b
<1>3. used = {} => b = 0
  BY <1>2, BlockFacts
<1> QED BY <1>2, <1>3 DEF b

LEMMA GrowIn ==
  ASSUME NEW L \in Layouts, NEW i \in Entries, NEW b \in Blocks
  PROVE  \E G : GrewIn(L, G, i, b)
<1> DEFINE f == [L.ino EXCEPT ![i] = [L.ino[i] EXCEPT ![L.ni[i]] = b]]
           n == [L.ni EXCEPT ![i] = L.ni[i] + 1]
<1>1. L.ino \in [Entries -> [Nat -> Blocks]] /\ L.ni \in [Entries -> Nat] /\ L.ni[i] \in Nat
  BY DEF Layouts
<1>2. f \in [Entries -> [Nat -> Blocks]] /\ n \in [Entries -> Nat]
  BY <1>1
<1>3. f[i][L.ni[i]] = b /\ \A j \in Entries, k \in Nat : j # i \/ k # L.ni[i] => f[j][k] = L.ino[j][k]
  BY <1>1
<1>4. n[i] = L.ni[i] + 1 /\ \A j \in Entries : j # i => n[j] = L.ni[j]
  BY <1>1
<1> HIDE DEF f, n
<1>5. PICK G : G = [ino |-> f, ni |-> n, blk |-> L.blk, nb |-> L.nb]
  OBVIOUS
<1>6. G.ino = f /\ G.ni = n /\ G.blk = L.blk /\ G.nb = L.nb
  BY <1>5
<1>7. G \in Layouts
  BY <1>2, <1>5 DEF Layouts
<1> QED BY <1>3, <1>4, <1>6, <1>7 DEF GrewIn, ino, ni, blk, nb

LEMMA GrowDa ==
  ASSUME NEW L \in Layouts, NEW i \in Entries, NEW b \in Blocks
  PROVE  \E G : GrewDa(L, G, i, b)
<1> DEFINE f == [L.blk EXCEPT ![i] = [L.blk[i] EXCEPT ![L.nb[i]] = b]]
           n == [L.nb EXCEPT ![i] = L.nb[i] + 1]
<1>1. L.blk \in [Entries -> [Nat -> Blocks]] /\ L.nb \in [Entries -> Nat] /\ L.nb[i] \in Nat
  BY DEF Layouts
<1>2. f \in [Entries -> [Nat -> Blocks]] /\ n \in [Entries -> Nat]
  BY <1>1
<1>3. f[i][L.nb[i]] = b /\ \A j \in Entries, k \in Nat : j # i \/ k # L.nb[i] => f[j][k] = L.blk[j][k]
  BY <1>1
<1>4. n[i] = L.nb[i] + 1 /\ \A j \in Entries : j # i => n[j] = L.nb[j]
  BY <1>1
<1> HIDE DEF f, n
<1>5. PICK G : G = [ino |-> L.ino, ni |-> L.ni, blk |-> f, nb |-> n]
  OBVIOUS
<1>6. G.blk = f /\ G.nb = n /\ G.ino = L.ino /\ G.ni = L.ni
  BY <1>5
<1>7. G \in Layouts
  BY <1>2, <1>5 DEF Layouts
<1> QED BY <1>3, <1>4, <1>6, <1>7 DEF GrewDa, ino, ni, blk, nb

LEMMA PlacedIn ==
  ASSUME NEW L, Placed(L), NEW used, Bits(used, L), NEW i \in Entries,
         NEW b \in Blocks, b \notin used, b = 0 <=> used = {}, 
         NEW G, GrewIn(L, G, i, b)
  PROVE  Placed(G) /\ Bits(used \cup {b}, G)
<1>1. \A j \in Entries : ni(L, j) \in Nat /\ nb(L, j) \in Nat /\ ni(G, j) \in Nat /\ nb(G, j) \in Nat
  BY LayoutFacts DEF GrewIn
<1>2. \A j \in Entries, k \in Nat :
        /\ k < ni(G, j) <=> k < ni(L, j) \/ (j = i /\ k = ni(L, i))
        /\ k < nb(G, j) <=> k < nb(L, j)
  BY <1>1 DEF GrewIn
<1>3. ASSUME NEW j \in Entries, NEW k \in Nat
      PROVE  /\ k < ni(L, j) => ino(G, j, k) = ino(L, j, k) /\ ino(G, j, k) # b
             /\ k < nb(L, j) => blk(G, j, k) = blk(L, j, k) /\ blk(G, j, k) # b
  <2>1. (k < ni(L, j) => ino(L, j, k) # b) /\ (k < nb(L, j) => blk(L, j, k) # b)
    BY <1>1 DEF Bits
  <2>2. (k < ni(L, j) => ino(G, j, k) = ino(L, j, k)) /\ (k < nb(L, j) => blk(G, j, k) = blk(L, j, k))
    BY <1>1 DEF GrewIn
  <2> QED BY <2>1, <2>2
<1>4. ino(G, i, ni(L, i)) = b /\ ni(L, i) \in Nat
  BY <1>1 DEF GrewIn
<1>5. used = {} => ni(L, i) = 0
  <2>1. 0 \in Nat /\ (0 < ni(L, i) => ino(L, i, 0) \in used)
    BY <1>1 DEF Bits
  <2> QED BY <1>1, <2>1
<1>6. ASSUME NEW j \in Entries, NEW h \in Entries, NEW k \in Nat, NEW m \in Nat
      PROVE  /\ k < ni(G, j) /\ m < ni(G, h) /\ ino(G, j, k) = ino(G, h, m) => j = h /\ k = m
             /\ k < nb(G, j) /\ m < nb(G, h) /\ blk(G, j, k) = blk(G, h, m) => j = h /\ k = m
             /\ k < ni(G, j) /\ m < nb(G, h) => ino(G, j, k) # blk(G, h, m)
  BY <1>2, <1>3, <1>4 DEF Placed
<1>7. ASSUME NEW j \in Entries, NEW k \in Nat
      PROVE  /\ k < ni(G, j) /\ ino(G, j, k) = 0 => k = 0
             /\ k < nb(G, j) => blk(G, j, k) # 0
  BY <1>2, <1>3, <1>4, <1>5 DEF Placed
<1>8. \A j \in Entries, k \in Nat : /\ k < ni(G, j) => ino(G, j, k) \in used \cup {b}
                                    /\ k < nb(G, j) => blk(G, j, k) \in used \cup {b}
  BY <1>2, <1>3, <1>4 DEF Bits
<1>9. ASSUME NEW c \in used \cup {b}
      PROVE  \E j \in Entries, k \in Nat :
               (k < ni(G, j) /\ c = ino(G, j, k)) \/ (k < nb(G, j) /\ c = blk(G, j, k))
  <2>1. CASE c = b
    BY <1>2, <1>4, <2>1
  <2>2. CASE c # b
    <3>1. PICK j \in Entries, k \in Nat :
               (k < ni(L, j) /\ c = ino(L, j, k)) \/ (k < nb(L, j) /\ c = blk(L, j, k))
      BY <2>2 DEF Bits
    <3> QED BY <1>2, <1>3, <3>1
  <2> QED BY <2>1, <2>2
<1>10. 0 \in used \cup {b}
  BY DEF Bits
<1>11. G \in Layouts
  BY DEF GrewIn
<1>12. Placed(G)
  BY <1>6, <1>7, <1>11 DEF Placed
<1>13. Bits(used \cup {b}, G)
  BY <1>8, <1>9, <1>10 DEF Bits
<1> QED BY <1>12, <1>13

LEMMA PlacedDa ==
  ASSUME NEW L, Placed(L), NEW used, Bits(used, L), NEW i \in Entries,
         NEW b \in Blocks, b \notin used, b # 0, used # {},
         NEW G, GrewDa(L, G, i, b)
  PROVE  Placed(G) /\ Bits(used \cup {b}, G)
<1>1. \A j \in Entries : ni(L, j) \in Nat /\ nb(L, j) \in Nat /\ ni(G, j) \in Nat /\ nb(G, j) \in Nat
  BY LayoutFacts DEF GrewDa
<1>2. \A j \in Entries, k \in Nat :
        /\ k < nb(G, j) <=> k < nb(L, j) \/ (j = i /\ k = nb(L, i))
        /\ k < ni(G, j) <=> k < ni(L, j)
  BY <1>1 DEF GrewDa
<1>3. ASSUME NEW j \in Entries, NEW k \in Nat
      PROVE  /\ k < ni(L, j) => ino(G, j, k) = ino(L, j, k) /\ ino(G, j, k) # b
             /\ k < nb(L, j) => blk(G, j, k) = blk(L, j, k) /\ blk(G, j, k) # b
  <2>1. (k < ni(L, j) => ino(L, j, k) # b) /\ (k < nb(L, j) => blk(L, j, k) # b)
    BY <1>1 DEF Bits
  <2>2. (k < ni(L, j) => ino(G, j, k) = ino(L, j, k)) /\ (k < nb(L, j) => blk(G, j, k) = blk(L, j, k))
    BY <1>1 DEF GrewDa
  <2> QED BY <2>1, <2>2
<1>4. blk(G, i, nb(L, i)) = b /\ nb(L, i) \in Nat
  BY <1>1 DEF GrewDa
<1>6. ASSUME NEW j \in Entries, NEW h \in Entries, NEW k \in Nat, NEW m \in Nat
      PROVE  /\ k < ni(G, j) /\ m < ni(G, h) /\ ino(G, j, k) = ino(G, h, m) => j = h /\ k = m
             /\ k < nb(G, j) /\ m < nb(G, h) /\ blk(G, j, k) = blk(G, h, m) => j = h /\ k = m
             /\ k < ni(G, j) /\ m < nb(G, h) => ino(G, j, k) # blk(G, h, m)
  BY <1>2, <1>3, <1>4 DEF Placed
<1>7. ASSUME NEW j \in Entries, NEW k \in Nat
      PROVE  /\ k < ni(G, j) /\ ino(G, j, k) = 0 => k = 0
             /\ k < nb(G, j) => blk(G, j, k) # 0
  BY <1>2, <1>3, <1>4 DEF Placed
<1>8. \A j \in Entries, k \in Nat : /\ k < ni(G, j) => ino(G, j, k) \in used \cup {b}
                                    /\ k < nb(G, j) => blk(G, j, k) \in used \cup {b}
  BY <1>2, <1>3, <1>4 DEF Bits
<1>9. ASSUME NEW c \in used \cup {b}
      PROVE  \E j \in Entries, k \in Nat :
               (k < ni(G, j) /\ c = ino(G, j, k)) \/ (k < nb(G, j) /\ c = blk(G, j, k))
  <2>1. CASE c = b
    BY <1>2, <1>4, <2>1
  <2>2. CASE c # b
    <3>1. PICK j \in Entries, k \in Nat :
               (k < ni(L, j) /\ c = ino(L, j, k)) \/ (k < nb(L, j) /\ c = blk(L, j, k))
      BY <2>2 DEF Bits
    <3> QED BY <1>2, <1>3, <3>1
  <2> QED BY <2>1, <2>2
<1>10. 0 \in used \cup {b}
  BY DEF Bits
<1>11. G \in Layouts
  BY DEF GrewDa
<1>12. Placed(G)
  BY <1>6, <1>7, <1>11 DEF Placed
<1>13. Bits(used \cup {b}, G)
  BY <1>8, <1>9, <1>10 DEF Bits
<1> QED BY <1>12, <1>13

LEMMA GrowsMore ==
  ASSUME NEW L0, NEW L, Grows(L0, L), NEW G, NEW i \in Entries, NEW b,
         GrewIn(L, G, i, b) \/ GrewDa(L, G, i, b)
  PROVE  Grows(L0, G)
<1>1. /\ L0 \in Layouts /\ L \in Layouts
      /\ \A j \in Entries : /\ ni(L, j) \in Nat /\ nb(L, j) \in Nat
                            /\ ni(L0, j) \in Nat /\ nb(L0, j) \in Nat
                            /\ ni(L0, j) <= ni(L, j) /\ nb(L0, j) <= nb(L, j)
      /\ \A j \in Entries, k \in Nat : /\ k < ni(L0, j) => ino(L, j, k) = ino(L0, j, k)
                                       /\ k < nb(L0, j) => blk(L, j, k) = blk(L0, j, k)
  <2>1. \A j \in Entries : /\ ni(L, j) \in Nat /\ nb(L, j) \in Nat
                           /\ ni(L0, j) \in Nat /\ nb(L0, j) \in Nat
    BY LayoutFacts DEF Grows
  <2>2. \A j \in Entries : ni(L0, j) <= ni(L, j) /\ nb(L0, j) <= nb(L, j)
    BY DEF Grows
  <2>3. \A j \in Entries, k \in Nat : /\ k < ni(L0, j) => ino(L, j, k) = ino(L0, j, k)
                                      /\ k < nb(L0, j) => blk(L, j, k) = blk(L0, j, k)
    BY <2>1 DEF Grows
  <2>4. L0 \in Layouts /\ L \in Layouts
    BY DEF Grows
  <2> QED BY <2>1, <2>2, <2>3, <2>4
<1>2. CASE GrewIn(L, G, i, b)
  BY <1>1, <1>2 DEF GrewIn, Grows
<1>3. CASE GrewDa(L, G, i, b)
  BY <1>1, <1>3 DEF GrewDa, Grows
<1> QED BY <1>2, <1>3

-----------------------------------------------------------------------------
(* What inodes hold.                                                       *)

LEMMA RecFacts ==
  ASSUME NEW L, Placed(L), NEW i \in Entries, NEW k \in Nat, k < ni(L, i),
         NEW r, IsRec(r, L, i, k)
  PROVE  /\ r.next = 0 <=> k + 1 = ni(L, i)
         /\ r.next # 0 => r.next = ino(L, i, k + 1)
         /\ \A j \in Slots :
              /\ Slot(k, j) \in Nat
              /\ r.dataBlocks[j] = 0 <=> Slot(k, j) >= nb(L, i)
              /\ r.dataBlocks[j] # 0 => r.dataBlocks[j] = blk(L, i, Slot(k, j))
<1>1. ni(L, i) \in Nat /\ nb(L, i) \in Nat /\ k + 1 \in Nat
  BY LayoutFacts DEF Placed
<1>2. k + 1 < ni(L, i) => ino(L, i, k + 1) # 0
  BY <1>1 DEF Placed
<1>3. \A m \in Nat : m < nb(L, i) => blk(L, i, m) # 0
  BY DEF Placed
<1>4. \A j \in Slots : Slot(k, j) \in Nat
  BY SlotFacts
<1>5. (r.next = 0 <=> k + 1 = ni(L, i)) /\ (r.next # 0 => r.next = ino(L, i, k + 1))
  BY <1>1, <1>2 DEF IsRec
<1>6. ASSUME NEW j \in Slots
      PROVE  /\ r.dataBlocks[j] = 0 <=> Slot(k, j) >= nb(L, i)
             /\ r.dataBlocks[j] # 0 => r.dataBlocks[j] = blk(L, i, Slot(k, j))
  BY <1>1, <1>3, <1>4 DEF IsRec
<1> QED BY <1>4, <1>5, <1>6

(* The inodes after one of them was added.                                 *)
LEMMA RecKeptIn ==
  ASSUME NEW L, NEW G, NEW i \in Entries, NEW b, GrewIn(L, G, i, b),
         NEW j \in Entries, NEW k \in Nat, k < ni(L, j), j # i \/ k + 1 # ni(L, i),
         NEW r, IsRec(r, L, j, k)
  PROVE  IsRec(r, G, j, k)
<1>1. ni(L, j) \in Nat /\ ni(L, i) \in Nat /\ k + 1 \in Nat
  BY LayoutFacts DEF GrewIn
<1>2. nb(G, j) = nb(L, j) /\ \A x \in Slots : blk(G, j, Slot(k, x)) = blk(L, j, Slot(k, x))
  BY SlotFacts DEF GrewIn
<1>3. (k + 1 < ni(G, j) <=> k + 1 < ni(L, j)) /\ (k + 1 < ni(L, j) => ino(G, j, k + 1) = ino(L, j, k + 1))
  BY <1>1 DEF GrewIn
<1> QED BY <1>2, <1>3 DEF IsRec

LEMMA RecLinked ==
  ASSUME NEW L, NEW G, NEW i \in Entries, NEW b \in Blocks, GrewIn(L, G, i, b),
         NEW k \in Nat, k + 1 = ni(L, i), NEW r, IsRec(r, L, i, k)
  PROVE  IsRec([r EXCEPT !.next = b], G, i, k)
<1>1. ni(L, i) \in Nat
  BY LayoutFacts DEF GrewIn
<1>2. nb(G, i) = nb(L, i) /\ \A x \in Slots : blk(G, i, Slot(k, x)) = blk(L, i, Slot(k, x))
  BY SlotFacts DEF GrewIn
<1>3. k + 1 < ni(G, i) /\ ino(G, i, k + 1) = b
  BY <1>1 DEF GrewIn
<1>4. r \in Inode
  BY DEF IsRec
<1> DEFINE s == [r EXCEPT !.next = b]
<1>5. s \in Inode /\ s.next = b /\ s.dataBlocks = r.dataBlocks
  BY <1>4 DEF Inode
<1> HIDE DEF s
<1>6. IsRec(s, G, i, k)
  BY <1>2, <1>3, <1>5 DEF IsRec
<1> QED BY <1>6 DEF s

LEMMA RecEmpty ==
  ASSUME NEW L, NEW G, NEW i \in Entries, NEW b \in Blocks, GrewIn(L, G, i, b),
         nb(L, i) <= Slot(ni(L, i), 0)
  PROVE  IsRec(ZeroInode, G, i, ni(L, i))
<1>1. ni(L, i) \in Nat /\ nb(L, i) \in Nat
  BY LayoutFacts DEF GrewIn
<1>2. ~(ni(L, i) + 1 < ni(G, i)) /\ nb(G, i) = nb(L, i)
  BY <1>1 DEF GrewIn
<1>3. \A x \in Slots : Slot(ni(L, i), x) \in Nat /\ Slot(ni(L, i), 0) \in Nat /\ Slot(ni(L, i), 0) <= Slot(ni(L, i), x)
  BY <1>1, SlotFacts
<1>4. \A x \in Slots : ~(Slot(ni(L, i), x) < nb(G, i))
  BY <1>1, <1>2, <1>3
<1>5. ZeroInode \in Inode /\ ZeroInode.next = 0 /\ \A x \in Slots : ZeroInode.dataBlocks[x] = 0
  BY BlockFacts DEF ZeroInode, Inode, Slots
<1> QED BY <1>2, <1>4, <1>5 DEF IsRec

(* And after a data block was added to one.                                *)
LEMMA RecKeptDa ==
  ASSUME NEW L, NEW G, NEW i \in Entries, NEW b, GrewDa(L, G, i, b),
         NEW j \in Entries, NEW k \in Nat,
         j # i \/ k # nb(L, i) \div N_INODE_DATABLOCK,
         NEW r, IsRec(r, L, j, k)
  PROVE  IsRec(r, G, j, k)
<1>1. nb(L, j) \in Nat /\ nb(L, i) \in Nat
  BY LayoutFacts DEF GrewDa
<1>2. \A x \in Slots : Slot(k, x) \in Nat /\ (j # i \/ Slot(k, x) # nb(L, i))
  BY <1>1, SlotFacts
<1>3. ASSUME NEW x \in Slots
      PROVE  /\ blk(G, j, Slot(k, x)) = blk(L, j, Slot(k, x))
             /\ Slot(k, x) < nb(G, j) <=> Slot(k, x) < nb(L, j)
  BY <1>1, <1>2 DEF GrewDa
<1>4. k + 1 \in Nat
  OBVIOUS
<1>5. ni(G, j) = ni(L, j) /\ ino(G, j, k + 1) = ino(L, j, k + 1)
  BY <1>4 DEF GrewDa
<1> QED BY <1>3, <1>5 DEF IsRec

LEMMA RecFilled ==
  ASSUME NEW L, NEW G, NEW i \in Entries, NEW b \in Blocks, GrewDa(L, G, i, b),
         NEW k \in Nat, NEW j \in Slots, Slot(k, j) = nb(L, i),
         NEW r, IsRec(r, L, i, k)
  PROVE  IsRec([r EXCEPT !.dataBlocks[j] = b], G, i, k)
<1>1. nb(L, i) \in Nat
  BY LayoutFacts DEF GrewDa
<1>2. ASSUME NEW x \in Slots PROVE Slot(k, x) \in Nat /\ (Slot(k, x) = nb(L, i) <=> x = j)
  <2>1. Slot(k, x) \in Nat
    BY SlotFacts
  <2>2. \A y \in Slots : Slot(k, y) = nb(L, i) => y = nb(L, i) % N_INODE_DATABLOCK
    BY <1>1, SlotFacts
  <2> QED BY <2>1, <2>2
<1>4. r \in Inode
  BY DEF IsRec
<1> DEFINE s == [r EXCEPT !.dataBlocks[j] = b]
<1>5. /\ s \in Inode /\ s.next = r.next /\ s.dataBlocks[j] = b
      /\ \A x \in Slots : x # j => s.dataBlocks[x] = r.dataBlocks[x]
  BY <1>4 DEF Inode, Slots
<1> HIDE DEF s
<1>6. ASSUME NEW x \in Slots
      PROVE  s.dataBlocks[x] = IF Slot(k, x) < nb(G, i) THEN blk(G, i, Slot(k, x)) ELSE 0
  <2>1. CASE x = j
    <3>1. Slot(k, x) < nb(G, i) /\ blk(G, i, Slot(k, x)) = b
      BY <1>1, <2>1 DEF GrewDa
    <3> QED BY <1>5, <2>1, <3>1
  <2>2. CASE x # j
    <3>1. Slot(k, x) \in Nat /\ Slot(k, x) # nb(L, i)
      BY <1>2, <2>2
    <3>2. Slot(k, x) < nb(G, i) <=> Slot(k, x) < nb(L, i)
      BY <1>1, <3>1 DEF GrewDa
    <3>3. blk(G, i, Slot(k, x)) = blk(L, i, Slot(k, x))
      BY <3>1 DEF GrewDa
    <3>4. r.dataBlocks[x] = IF Slot(k, x) < nb(L, i) THEN blk(L, i, Slot(k, x)) ELSE 0
      BY DEF IsRec
    <3> QED BY <1>5, <2>2, <3>2, <3>3, <3>4
  <2> QED BY <2>1, <2>2
<1>7. k + 1 \in Nat
  OBVIOUS
<1>8. ni(G, i) = ni(L, i) /\ ino(G, i, k + 1) = ino(L, i, k + 1)
  BY <1>7 DEF GrewDa
<1>9. s.next = IF k + 1 < ni(G, i) THEN ino(G, i, k + 1) ELSE 0
  BY <1>5, <1>8 DEF IsRec
<1>10. IsRec(s, G, i, k)
  BY <1>5, <1>6, <1>9 DEF IsRec
<1> QED BY <1>10 DEF s

-----------------------------------------------------------------------------
(* The disk and the descriptors for a layout.  open is the set of the      *)
(* descriptors in use, d the directory, used the bitmap, fds the pool.     *)

\* A descriptor holds an inode, and a block, of its file.
Holds(f, L) ==
  /\ f.inode_state # "GARBAGE" =>
       \E k \in Nat : /\ k < ni(L, f.index) /\ f.inode_idx = ino(L, f.index, k)
                      /\ IsRec(f.inode, L, f.index, k)
  /\ f.buffer_state # "GARBAGE" =>
       \E m \in Nat : m < nb(L, f.index) /\ f.buffer_idx = blk(L, f.index, m)

\* The directory has the first inodes, and there is an inode for every block.
Heads(d, L) ==
  \A i \in Entries :
    /\ ni(L, i) > 0 => d[i].fileName # "" /\ d[i].inodeOffset = ino(L, i, 0)
    /\ ni(L, i) = 0 => ~HasBlocks(d[i])
    /\ nb(L, i) <= Slot(ni(L, i), 0)

\* Descriptors in use are of different files, and of files that have a name.
Apart(d, fds, open) ==
  /\ \A h \in open : d[fds[h].index].fileName # ""
  /\ \A g, h \in open : fds[g].index = fds[h].index => g = h

\* h has changes of inode block b of file i that are not on the disk.
Dirty(fds, h, i, b) == /\ fds[h].index = i /\ fds[h].inode_state = "NEED_WASHING"
                       /\ fds[h].inode_idx = b

\* The disk has every inode that no descriptor has changed, and only data in
\* the blocks that are no inodes.
Written(data, fds, open, L) ==
  /\ \A i \in Entries, k \in Nat : k < ni(L, i) =>
       \/ IsRec(data[ino(L, i, k)], L, i, k)
       \/ \E h \in open : Dirty(fds, h, i, ino(L, i, k))
  /\ \A b \in Blocks :
       (\A i \in Entries, k \in Nat : k < ni(L, i) => b # ino(L, i, k)) => data[b] \in DataSector

Good(data, d, used, fds, open, L) ==
  /\ Placed(L) /\ Bits(used, L) /\ Heads(d, L)
  /\ \A h \in open : Holds(fds[h], L)
  /\ Apart(d, fds, open)
  /\ Written(data, fds, open, L)

LEMMA GoodFacts ==
  ASSUME NEW data, NEW d, NEW used, NEW fds, NEW open, NEW L, Good(data, d, used, fds, open, L)
  PROVE  /\ L \in Layouts
         /\ \A i \in Entries : ni(L, i) \in Nat /\ nb(L, i) \in Nat
         /\ \A i \in Entries, k \in Nat : ino(L, i, k) \in Blocks /\ blk(L, i, k) \in Blocks
<1>1. L \in Layouts
  BY DEF Good, Placed
<1> QED BY <1>1, LayoutFacts

(* A descriptor changes, and what it had to write is still there to write, *)
(* or is written.                                                          *)
LEMMA ChangeFd ==
  ASSUME NEW data, NEW d, NEW used, NEW fds, NEW open, NEW L, Good(data, d, used, fds, open, L),
         NEW fd \in open, NEW fds2, \A h \in open : h # fd => fds2[h] = fds[h],
         fds2[fd].index = fds[fd].index, fds[fd].index \in Entries, Holds(fds2[fd], L),
         fds[fd].inode_state = "NEED_WASHING" =>
           \/ fds2[fd].inode_state = "NEED_WASHING" /\ fds2[fd].inode_idx = fds[fd].inode_idx
           \/ \E k \in Nat : /\ k < ni(L, fds[fd].index) /\ fds[fd].inode_idx = ino(L, fds[fd].index, k)
                             /\ IsRec(data[fds[fd].inode_idx], L, fds[fd].index, k)
  PROVE  Good(data, d, used, fds2, open, L)
<1>1. \A h \in open : Holds(fds2[h], L)
  <2> SUFFICES ASSUME NEW h \in open PROVE Holds(fds2[h], L)
    OBVIOUS
  <2>1. CASE h = fd
    BY <2>1
  <2>2. CASE h # fd
    BY <2>2 DEF Good
  <2> QED BY <2>1, <2>2
<1>2. \A h \in open : fds2[h].index = fds[h].index
  OBVIOUS
<1>3. Apart(d, fds2, open)
  BY <1>2 DEF Good, Apart
<1>4. ASSUME NEW i \in Entries, NEW k \in Nat, k < ni(L, i)
      PROVE  \/ IsRec(data[ino(L, i, k)], L, i, k)
             \/ \E h \in open : Dirty(fds2, h, i, ino(L, i, k))
  <2>1. CASE IsRec(data[ino(L, i, k)], L, i, k)
    BY <2>1
  <2>2. CASE ~IsRec(data[ino(L, i, k)], L, i, k)
    <3>1. PICK h \in open : Dirty(fds, h, i, ino(L, i, k))
      BY <1>4, <2>2 DEF Good, Written
    <3>2. CASE h # fd
      BY <3>1, <3>2 DEF Dirty
    <3>3. CASE h = fd
      <4>1. fds[fd].index = i /\ fds[fd].inode_idx = ino(L, i, k) /\ fds[fd].inode_state = "NEED_WASHING"
        BY <3>1, <3>3 DEF Dirty
      <4>2. CASE fds2[fd].inode_state = "NEED_WASHING" /\ fds2[fd].inode_idx = fds[fd].inode_idx
        BY <4>1, <4>2 DEF Dirty
      <4>3. CASE ~(fds2[fd].inode_state = "NEED_WASHING" /\ fds2[fd].inode_idx = fds[fd].inode_idx)
        <5>1. PICK m \in Nat : /\ m < ni(L, i) /\ ino(L, i, k) = ino(L, i, m)
                               /\ IsRec(data[ino(L, i, k)], L, i, m)
          BY <4>1, <4>3
        <5>2. m = k
          BY <1>4, <5>1 DEF Good, Placed
        <5> QED BY <5>1, <5>2
      <4> QED BY <4>2, <4>3
    <3> QED BY <3>2, <3>3
  <2> QED BY <2>1, <2>2
<1>5. Written(data, fds2, open, L)
  BY <1>4 DEF Good, Written
<1> QED BY <1>1, <1>3, <1>5 DEF Good

(* An inode, or a data block, is written.                                  *)
LEMMA WriteIno ==
  ASSUME NEW data, NEW d, NEW used, NEW fds, NEW open, NEW L, Good(data, d, used, fds, open, L),
         NEW i \in Entries, NEW k \in Nat, k < ni(L, i), NEW r, IsRec(r, L, i, k),
         NEW data2, data2[ino(L, i, k)] = r,
         \A b \in Blocks : b # ino(L, i, k) => data2[b] = data[b]
  PROVE  Good(data2, d, used, fds, open, L)
<1>1. ASSUME NEW j \in Entries, NEW m \in Nat, m < ni(L, j)
      PROVE  \/ IsRec(data2[ino(L, j, m)], L, j, m)
             \/ \E h \in open : Dirty(fds, h, j, ino(L, j, m))
  <2>1. CASE j = i /\ m = k
    BY <2>1
  <2>2. CASE ~(j = i /\ m = k)
    <3>1. ino(L, j, m) # ino(L, i, k)
      BY <1>1, <2>2 DEF Good, Placed
    <3>2. ino(L, j, m) \in Blocks
      BY GoodFacts
    <3>3. data2[ino(L, j, m)] = data[ino(L, j, m)]
      BY <3>1, <3>2
    <3>4. \/ IsRec(data[ino(L, j, m)], L, j, m)
          \/ \E h \in open : Dirty(fds, h, j, ino(L, j, m))
      BY <1>1 DEF Good, Written
    <3> QED BY <3>3, <3>4
  <2> QED BY <2>1, <2>2
<1>2. ASSUME NEW b \in Blocks, \A j \in Entries, m \in Nat : m < ni(L, j) => b # ino(L, j, m)
      PROVE  data2[b] \in DataSector
  <2>1. b # ino(L, i, k)
    BY <1>2
  <2>2. data[b] \in DataSector
    BY <1>2 DEF Good, Written
  <2> QED BY <2>1, <2>2
<1>3. Written(data2, fds, open, L)
  BY <1>1, <1>2 DEF Written
<1> QED BY <1>3 DEF Good

LEMMA WriteBlk ==
  ASSUME NEW data, NEW d, NEW used, NEW fds, NEW open, NEW L, Good(data, d, used, fds, open, L),
         NEW i \in Entries, NEW m \in Nat, m < nb(L, i), NEW c \in DataSector,
         NEW data2, data2[blk(L, i, m)] = c,
         \A b \in Blocks : b # blk(L, i, m) => data2[b] = data[b]
  PROVE  Good(data2, d, used, fds, open, L)
<1>1. ASSUME NEW j \in Entries, NEW k \in Nat, k < ni(L, j)
      PROVE  \/ IsRec(data2[ino(L, j, k)], L, j, k)
             \/ \E h \in open : Dirty(fds, h, j, ino(L, j, k))
  <2>1. ino(L, j, k) # blk(L, i, m)
    BY <1>1 DEF Good, Placed
  <2>2. data2[ino(L, j, k)] = data[ino(L, j, k)]
    BY <2>1, GoodFacts
  <2>3. \/ IsRec(data[ino(L, j, k)], L, j, k)
        \/ \E h \in open : Dirty(fds, h, j, ino(L, j, k))
    BY <1>1 DEF Good, Written
  <2> QED BY <2>2, <2>3
<1>2. ASSUME NEW b \in Blocks, \A j \in Entries, k \in Nat : k < ni(L, j) => b # ino(L, j, k)
      PROVE  data2[b] \in DataSector
  <2>1. data[b] \in DataSector
    BY <1>2 DEF Good, Written
  <2>2. CASE b = blk(L, i, m)
    BY <2>2
  <2>3. CASE b # blk(L, i, m)
    BY <2>1, <2>3
  <2> QED BY <2>2, <2>3
<1>3. Written(data2, fds, open, L)
  BY <1>1, <1>2 DEF Written
<1> QED BY <1>3 DEF Good

(* What other descriptors hold when a file grows.                          *)
LEMMA OthersHold ==
  ASSUME NEW L, NEW G, NEW i \in Entries, NEW b, GrewIn(L, G, i, b) \/ GrewDa(L, G, i, b),
         NEW f, f.index \in Entries, f.index # i, Holds(f, L)
  PROVE  Holds(f, G)
<1>1. CASE GrewIn(L, G, i, b)
  <2>1. ni(G, f.index) = ni(L, f.index) /\ nb(G, f.index) = nb(L, f.index)
    BY <1>1 DEF GrewIn
  <2>2. \A k \in Nat : ino(G, f.index, k) = ino(L, f.index, k) /\ blk(G, f.index, k) = blk(L, f.index, k)
    BY <1>1 DEF GrewIn
  <2>3. \A k \in Nat : k < ni(L, f.index) /\ IsRec(f.inode, L, f.index, k) => IsRec(f.inode, G, f.index, k)
    BY <1>1, RecKeptIn
  <2> QED BY <2>1, <2>2, <2>3 DEF Holds
<1>2. CASE GrewDa(L, G, i, b)
  <2>1. ni(G, f.index) = ni(L, f.index) /\ nb(G, f.index) = nb(L, f.index)
    BY <1>2 DEF GrewDa
  <2>2. \A k \in Nat : ino(G, f.index, k) = ino(L, f.index, k) /\ blk(G, f.index, k) = blk(L, f.index, k)
    BY <1>2 DEF GrewDa
  <2>3. \A k \in Nat : IsRec(f.inode, L, f.index, k) => IsRec(f.inode, G, f.index, k)
    BY <1>2, RecKeptDa
  <2> QED BY <2>1, <2>2, <2>3 DEF Holds
<1> QED BY <1>1, <1>2

LEMMA ApartSame ==
  ASSUME NEW d, NEW fds, NEW open, Apart(d, fds, open), \A h \in open : fds[h].index \in Entries,
         NEW d2, \A j \in Entries : d2[j].fileName = d[j].fileName,
         NEW fds2, \A h \in open : fds2[h].index = fds[h].index
  PROVE  Apart(d2, fds2, open)
<1>1. \A h \in open : d2[fds2[h].index].fileName # ""
  BY DEF Apart
<1>2. \A g, h \in open : fds2[g].index = fds2[h].index => g = h
  BY DEF Apart
<1> QED BY <1>1, <1>2 DEF Apart

(* A file gets one more inode, in the descriptor; the one before it, which *)
(* points to it, is on the disk.                                           *)
LEMMA AddIno ==
  ASSUME NEW data, NEW d, NEW used, NEW fds, NEW open, NEW L, Good(data, d, used, fds, open, L),
         NEW fd \in open, NEW i \in Entries, fds[fd].index = i,
         \A h \in open : fds[h].index \in Entries,
         NEW b \in Blocks, b \notin used, b = 0 <=> used = {},
         NEW G, GrewIn(L, G, i, b),
         NEW data2, \A c \in Blocks : ni(L, i) = 0 \/ c # ino(L, i, ni(L, i) - 1) => data2[c] = data[c],
         ni(L, i) > 0 => IsRec(data2[ino(L, i, ni(L, i) - 1)], G, i, ni(L, i) - 1),
         NEW d2, \A j \in Entries : j # i => d2[j] = d[j],
         d2[i].fileName = d[i].fileName, d2[i].inodeOffset = ino(G, i, 0),
         NEW fds2, \A h \in open : h # fd => fds2[h] = fds[h],
         fds2[fd].index = i, fds2[fd].buffer_state = "GARBAGE",
         fds2[fd].inode_state = "NEED_WASHING", fds2[fd].inode_idx = b, fds2[fd].inode = ZeroInode,
         fds[fd].inode_state = "NEED_WASHING" => ni(L, i) > 0 /\ fds[fd].inode_idx = ino(L, i, ni(L, i) - 1)
  PROVE  Good(data2, d2, used \cup {b}, fds2, open, G)
<1>1. /\ Placed(L) /\ Bits(used, L) /\ Heads(d, L) /\ Apart(d, fds, open)
      /\ \A h \in open : Holds(fds[h], L)
      /\ Written(data, fds, open, L)
  BY DEF Good
<1>2. Placed(G) /\ Bits(used \cup {b}, G)
  BY <1>1, PlacedIn
<1>3. /\ \A j \in Entries : ni(L, j) \in Nat /\ nb(L, j) \in Nat
      /\ \A j \in Entries, k \in Nat : ino(L, j, k) \in Blocks /\ blk(L, j, k) \in Blocks
  BY GoodFacts
<1>4. nb(L, i) <= Slot(ni(L, i), 0)
  BY <1>1 DEF Heads
<1>5. IsRec(ZeroInode, G, i, ni(L, i))
  BY <1>4, RecEmpty
<1>6. /\ ni(G, i) = ni(L, i) + 1 /\ \A j \in Entries : j # i => ni(G, j) = ni(L, j)
      /\ \A j \in Entries : nb(G, j) = nb(L, j)
      /\ ino(G, i, ni(L, i)) = b
      /\ \A j \in Entries, k \in Nat : j # i \/ k # ni(L, i) => ino(G, j, k) = ino(L, j, k)
  BY DEF GrewIn
<1>7. Holds(fds2[fd], G)
  <2>1. ni(L, i) \in Nat /\ ni(L, i) < ni(G, i)
    BY <1>3, <1>6
  <2> QED BY <1>5, <1>6, <2>1 DEF Holds
<1>8. ASSUME NEW h \in open, h # fd PROVE Holds(fds2[h], G)
  <2>1. fds2[h] = fds[h] /\ Holds(fds[h], L) /\ fds[h].index \in Entries
    BY <1>1, <1>8
  <2>2. fds[h].index # i
    <3>1. \A g \in open : fds[g].index = fds[h].index => g = h
      BY <1>1 DEF Apart
    <3> QED BY <1>8, <3>1
  <2> QED BY <2>1, <2>2, OthersHold
<1>9. \A h \in open : fds2[h].index = fds[h].index
  OBVIOUS
<1>10. \A j \in Entries : d2[j].fileName = d[j].fileName
  OBVIOUS
<1>11. Apart(d2, fds2, open)
  BY <1>1, <1>9, <1>10, ApartSame
<1>12. d[i].fileName # ""
  BY <1>1 DEF Apart
<1>13. Heads(d2, G)
  <2> SUFFICES ASSUME NEW j \in Entries
               PROVE  /\ ni(G, j) > 0 => d2[j].fileName # "" /\ d2[j].inodeOffset = ino(G, j, 0)
                      /\ ni(G, j) = 0 => ~HasBlocks(d2[j])
                      /\ nb(G, j) <= Slot(ni(G, j), 0)
    BY DEF Heads
  <2>1. CASE j = i
    <3>1. Slot(ni(L, i) + 1, 0) >= Slot(ni(L, i), 0) /\ Slot(ni(L, i), 0) \in Nat /\ Slot(ni(L, i) + 1, 0) \in Nat
      BY <1>3, NextSlot
    <3>2. nb(G, i) <= Slot(ni(G, i), 0)
      BY <1>3, <1>4, <1>6, <3>1
    <3>3. ~(ni(G, i) = 0)
      BY <1>3, <1>6
    <3>4. d2[i].fileName # "" /\ d2[i].inodeOffset = ino(G, i, 0)
      BY <1>12
    <3> QED BY <2>1, <3>2, <3>3, <3>4
  <2>2. CASE j # i
    <3>1. d2[j] = d[j] /\ ino(G, j, 0) = ino(L, j, 0)
      BY <1>6, <2>2
    <3> QED BY ZenonT(30), <1>1, <1>6, <2>2, <3>1 DEF Heads
  <2> QED BY <2>1, <2>2
<1>14. ASSUME NEW j \in Entries, NEW k \in Nat, k < ni(G, j)
       PROVE  \/ IsRec(data2[ino(G, j, k)], G, j, k)
              \/ \E h \in open : Dirty(fds2, h, j, ino(G, j, k))
  <2>1. CASE j = i /\ k = ni(L, i)
    BY <1>6, <2>1 DEF Dirty
  <2>2. CASE j = i /\ k + 1 = ni(L, i)
    <3>1. ni(L, i) > 0 /\ k = ni(L, i) - 1
      BY <2>2
    <3>2. ino(G, i, k) = ino(L, i, k)
      BY <1>6, <2>2
    <3> QED BY <2>2, <3>1, <3>2
  <2>3. CASE j # i \/ (k # ni(L, i) /\ k + 1 # ni(L, i))
    <3>1. k < ni(L, j)
      BY <1>3, <1>6, <1>14, <2>3
    <3>2. ino(G, j, k) = ino(L, j, k) /\ ino(L, j, k) \in Blocks
      BY <1>3, <1>6, <2>3
    <3>3. ni(L, i) > 0 => ino(L, j, k) # ino(L, i, ni(L, i) - 1)
      <4> SUFFICES ASSUME ni(L, i) > 0, ino(L, j, k) = ino(L, i, ni(L, i) - 1) PROVE FALSE
        OBVIOUS
      <4>1. ni(L, i) - 1 \in Nat /\ ni(L, i) - 1 < ni(L, i)
        BY <1>3
      <4>2. j = i /\ k = ni(L, i) - 1
        BY <1>1, <3>1, <4>1 DEF Placed
      <4> QED BY <1>3, <2>3, <4>2
    <3>4. ni(L, i) = 0 \/ ni(L, i) > 0
      BY <1>3
    <3>5. data2[ino(L, j, k)] = data[ino(L, j, k)]
      BY <3>2, <3>3, <3>4
    <3>6. CASE IsRec(data[ino(L, j, k)], L, j, k)
      <4>1. IsRec(data[ino(L, j, k)], G, j, k)
        BY <2>3, <3>1, <3>6, RecKeptIn
      <4> QED BY <3>2, <3>5, <4>1
    <3>7. CASE ~IsRec(data[ino(L, j, k)], L, j, k)
      <4>1. PICK h \in open : Dirty(fds, h, j, ino(L, j, k))
        BY <1>1, <3>1, <3>7 DEF Written
      <4>2. h # fd
        <5> SUFFICES ASSUME h = fd PROVE FALSE
          OBVIOUS
        <5>1. j = i /\ fds[fd].inode_state = "NEED_WASHING" /\ fds[fd].inode_idx = ino(L, j, k)
          BY <4>1 DEF Dirty
        <5> QED BY <3>3, <5>1
      <4>3. Dirty(fds2, h, j, ino(L, j, k))
        BY <4>1, <4>2 DEF Dirty
      <4> QED BY <3>2, <4>3
    <3> QED BY <3>6, <3>7
  <2> QED BY <2>1, <2>2, <2>3
<1>15. ASSUME NEW c \in Blocks, \A j \in Entries, k \in Nat : k < ni(G, j) => c # ino(G, j, k)
       PROVE  data2[c] \in DataSector
  <2>1. ASSUME NEW j \in Entries, NEW k \in Nat, k < ni(L, j) PROVE c # ino(L, j, k)
    <3>1. k < ni(G, j)
      BY <1>3, <1>6, <2>1
    <3>2. ino(G, j, k) = ino(L, j, k)
      BY <1>3, <1>6, <2>1
    <3> QED BY <1>15, <3>1, <3>2
  <2>2. data[c] \in DataSector
    BY <1>1, <2>1 DEF Written
  <2>3. ni(L, i) = 0 \/ c # ino(L, i, ni(L, i) - 1)
    <3>1. CASE ni(L, i) = 0
      BY <3>1
    <3>2. CASE ni(L, i) # 0
      <4>1. ni(L, i) - 1 \in Nat /\ ni(L, i) - 1 < ni(L, i)
        BY <1>3, <3>2
      <4> QED BY <2>1, <4>1
    <3> QED BY <3>1, <3>2
  <2> QED BY <2>2, <2>3
<1>16. Written(data2, fds2, open, G)
  BY <1>14, <1>15 DEF Written
<1>17. \A h \in open : Holds(fds2[h], G)
  BY <1>7, <1>8
<1> QED BY <1>2, <1>11, <1>13, <1>16, <1>17 DEF Good

(* A file gets one more data block, in the inode that the descriptor holds.*)
LEMMA AddBlk ==
  ASSUME NEW data, NEW d, NEW used, NEW fds, NEW open, NEW L, Good(data, d, used, fds, open, L),
         NEW fd \in open, NEW i \in Entries, fds[fd].index = i,
         \A h \in open : fds[h].index \in Entries,
         NEW b \in Blocks, b \notin used, b = 0 <=> used = {},
         NEW G, GrewDa(L, G, i, b),
         NEW k \in Nat, k < ni(L, i), fds[fd].inode_idx = ino(L, i, k),
         NEW s \in Slots, Slot(k, s) = nb(L, i),
         NEW fds2, \A h \in open : h # fd => fds2[h] = fds[h],
         fds2[fd].index = i, fds2[fd].inode_state = "NEED_WASHING", fds2[fd].inode_idx = ino(L, i, k),
         IsRec(fds2[fd].inode, G, i, k),
         fds2[fd].buffer_idx = b
  PROVE  Good(data, d, used \cup {b}, fds2, open, G)
<1>1. /\ Placed(L) /\ Bits(used, L) /\ Heads(d, L) /\ Apart(d, fds, open)
      /\ \A h \in open : Holds(fds[h], L)
      /\ Written(data, fds, open, L)
  BY DEF Good
<1>2. /\ \A j \in Entries : ni(L, j) \in Nat /\ nb(L, j) \in Nat
      /\ \A j \in Entries, m \in Nat : ino(L, j, m) \in Blocks /\ blk(L, j, m) \in Blocks
  BY GoodFacts
<1>3. used # {}
  BY <1>1, <1>2 DEF Bits
<1>4. Placed(G) /\ Bits(used \cup {b}, G)
  BY <1>1, <1>3, PlacedDa
<1>5. /\ nb(G, i) = nb(L, i) + 1 /\ \A j \in Entries : j # i => nb(G, j) = nb(L, j)
      /\ \A j \in Entries : ni(G, j) = ni(L, j)
      /\ blk(G, i, nb(L, i)) = b
      /\ \A j \in Entries, m \in Nat : ino(G, j, m) = ino(L, j, m)
  BY DEF GrewDa
<1>6. IsRec(fds2[fd].inode, G, i, k)
  OBVIOUS
<1>7. Holds(fds2[fd], G)
  <2>1. nb(L, i) \in Nat /\ nb(L, i) < nb(G, i)
    BY <1>2, <1>5
  <2> QED BY <1>5, <1>6, <2>1 DEF Holds
<1>8. ASSUME NEW h \in open, h # fd PROVE Holds(fds2[h], G)
  <2>1. fds2[h] = fds[h] /\ Holds(fds[h], L) /\ fds[h].index \in Entries
    BY <1>1, <1>8
  <2>2. fds[h].index # i
    <3>1. \A g \in open : fds[g].index = fds[h].index => g = h
      BY <1>1 DEF Apart
    <3> QED BY <1>8, <3>1
  <2> QED BY <2>1, <2>2, OthersHold
<1>9. \A h \in open : fds2[h].index = fds[h].index
  OBVIOUS
<1>10. Apart(d, fds2, open)
  BY <1>1, <1>9, ApartSame
<1>11. Heads(d, G)
  <2> SUFFICES ASSUME NEW j \in Entries
               PROVE  /\ ni(G, j) > 0 => d[j].fileName # "" /\ d[j].inodeOffset = ino(G, j, 0)
                      /\ ni(G, j) = 0 => ~HasBlocks(d[j])
                      /\ nb(G, j) <= Slot(ni(G, j), 0)
    BY DEF Heads
  <2>1. CASE j = i
    <3>1. Slot(k, s) < Slot(k + 1, 0) /\ Slot(k, s) \in Nat /\ Slot(k + 1, 0) \in Nat
      BY Sizes DEF Slot, Slots
    <3>2. Slot(k + 1, 0) <= Slot(ni(L, i), 0) /\ Slot(ni(L, i), 0) \in Nat
      <4>1. k + 1 <= ni(L, i) /\ ni(L, i) \in Nat
        BY <1>2
      <4>2. \A x, y \in Nat : x <= y => x * N_INODE_DATABLOCK <= y * N_INODE_DATABLOCK /\ y * N_INODE_DATABLOCK \in Nat
        BY Sizes
      <4> QED BY <4>1, <4>2, Sizes DEF Slot
    <3>3. nb(G, i) <= Slot(ni(G, i), 0)
      BY <1>2, <1>5, <3>1, <3>2
    <3> QED BY <1>1, <1>5, <2>1, <3>3 DEF Heads
  <2>2. CASE j # i
    BY <1>1, <1>5, <2>2 DEF Heads
  <2> QED BY <2>1, <2>2
<1>12. k = nb(L, i) \div N_INODE_DATABLOCK
  BY <1>2, SlotFacts
<1>13. ASSUME NEW j \in Entries, NEW m \in Nat, m < ni(G, j)
       PROVE  \/ IsRec(data[ino(G, j, m)], G, j, m)
              \/ \E h \in open : Dirty(fds2, h, j, ino(G, j, m))
  <2>1. CASE j = i /\ m = k
    BY <1>5, <2>1 DEF Dirty
  <2>2. CASE j # i \/ m # k
    <3>1. m < ni(L, j) /\ ino(G, j, m) = ino(L, j, m)
      BY <1>5, <1>13
    <3>2. CASE IsRec(data[ino(L, j, m)], L, j, m)
      <4>1. IsRec(data[ino(L, j, m)], G, j, m)
        BY <1>12, <2>2, <3>2, RecKeptDa
      <4> QED BY <3>1, <4>1
    <3>3. CASE ~IsRec(data[ino(L, j, m)], L, j, m)
      <4>1. PICK h \in open : Dirty(fds, h, j, ino(L, j, m))
        BY <1>1, <3>1, <3>3 DEF Written
      <4>2. h # fd
        <5> SUFFICES ASSUME h = fd PROVE FALSE
          OBVIOUS
        <5>1. j = i /\ ino(L, i, k) = ino(L, j, m)
          BY <4>1 DEF Dirty
        <5>2. m = k
          BY <1>1, <3>1, <5>1 DEF Placed
        <5> QED BY <2>2, <5>1, <5>2
      <4>3. Dirty(fds2, h, j, ino(L, j, m))
        BY <4>1, <4>2 DEF Dirty
      <4> QED BY <3>1, <4>3
    <3> QED BY <3>2, <3>3
  <2> QED BY <2>1, <2>2
<1>14. Written(data, fds2, open, G)
  <2>1. ASSUME NEW c \in Blocks, \A j \in Entries, m \in Nat : m < ni(G, j) => c # ino(G, j, m)
        PROVE  data[c] \in DataSector
    <3>1. \A j \in Entries, m \in Nat : m < ni(L, j) => c # ino(L, j, m)
      BY <1>5, <2>1
    <3> QED BY <1>1, <3>1 DEF Written
  <2> QED BY <1>13, <2>1 DEF Written
<1>15. \A h \in open : Holds(fds2[h], G)
  BY <1>7, <1>8
<1> QED BY <1>4, <1>10, <1>11, <1>14, <1>15 DEF Good

(* Sizes in the directory do not matter to the layout.                     *)
LEMMA ChangeSize ==
  ASSUME NEW data, NEW d, NEW used, NEW fds, NEW open, NEW L, Good(data, d, used, fds, open, L),
         \A h \in open : fds[h].index \in Entries,
         NEW d2, \A i \in Entries : d2[i].fileName = d[i].fileName /\ d2[i].inodeOffset = d[i].inodeOffset
  PROVE  Good(data, d2, used, fds, open, L)
<1>1. Heads(d2, L)
  BY DEF Good, Heads, HasBlocks
<1>2. Apart(d2, fds, open)
  BY DEF Good, Apart
<1> QED BY <1>1, <1>2 DEF Good

\* An entry that is in use.
Named(e) == e.fileName # ""

(* A descriptor that holds nothing comes into use for a file that none     *)
(* uses.                                                                   *)
LEMMA OpenFd ==
  ASSUME NEW data, NEW d, NEW used, NEW fds, NEW open, NEW L, Good(data, d, used, fds, open, L),
         \A h \in open : fds[h].index \in Entries,
         NEW fd, fd \notin open, NEW i \in Entries, \A h \in open : fds[h].index # i,
         NEW fds2, \A h \in open : fds2[h] = fds[h],
         fds2[fd].index = i, fds2[fd].inode_state = "GARBAGE", fds2[fd].buffer_state = "GARBAGE",
         NEW d2, \A j \in Entries : j # i => d2[j] = d[j], Named(d2[i]),
         ni(L, i) > 0 => d2[i].inodeOffset = ino(L, i, 0),
         ni(L, i) = 0 => ~HasBlocks(d2[i])
  PROVE  Good(data, d2, used, fds2, open \cup {fd}, L)
<1>0. d2[i].fileName # ""
  BY Zenon DEF Named
<1>1. Heads(d2, L)
  <2>1. Heads(d, L)
    BY DEF Good
  <2> QED BY <1>0, <2>1 DEF Heads
<1>2. \A h \in open \cup {fd} : Holds(fds2[h], L)
  <2>1. Holds(fds2[fd], L)
    BY DEF Holds
  <2>2. \A h \in open : Holds(fds2[h], L)
    BY DEF Good
  <2> QED BY <2>1, <2>2
<1>3. Apart(d2, fds2, open \cup {fd})
  <2>1. Apart(d, fds, open)
    BY DEF Good
  <2>2. ASSUME NEW h \in open
        PROVE  /\ fds2[h].index = fds[h].index /\ fds2[h].index # i
               /\ d2[fds2[h].index].fileName # ""
    <3>1. fds2[h] = fds[h] /\ fds[h].index \in Entries /\ fds[h].index # i
      OBVIOUS
    <3>2. d[fds[h].index].fileName # ""
      BY <2>1 DEF Apart
    <3>3. d2[fds[h].index] = d[fds[h].index]
      BY <3>1
    <3> QED BY <3>1, <3>2, <3>3
  <2>3. ASSUME NEW g \in open, NEW h \in open, fds2[g].index = fds2[h].index
        PROVE  g = h
    <3>1. fds[g].index = fds[h].index
      BY <2>2, <2>3
    <3> QED BY <2>1, <3>1 DEF Apart
  <2> QED BY <1>0, <2>2, <2>3 DEF Apart
<1>4. Written(data, fds2, open \cup {fd}, L)
  <2>1. Written(data, fds, open, L)
    BY DEF Good
  <2>2. \A h \in open, j \in Entries : \A b : Dirty(fds, h, j, b) => Dirty(fds2, h, j, b)
    BY DEF Dirty
  <2>3. ASSUME NEW j \in Entries, NEW k \in Nat, k < ni(L, j)
        PROVE  \/ IsRec(data[ino(L, j, k)], L, j, k)
               \/ \E h \in open \cup {fd} : Dirty(fds2, h, j, ino(L, j, k))
    <3>1. \/ IsRec(data[ino(L, j, k)], L, j, k)
          \/ \E h \in open : Dirty(fds, h, j, ino(L, j, k))
      BY <2>1, <2>3 DEF Written
    <3> QED BY <2>2, <3>1
  <2> QED BY <2>1, <2>3 DEF Written
<1> QED BY <1>1, <1>2, <1>3, <1>4 DEF Good

(* A descriptor whose inode is on the disk goes out of use.                *)
LEMMA CloseFd ==
  ASSUME NEW data, NEW d, NEW used, NEW fds, NEW open, NEW L, Good(data, d, used, fds, open, L),
         NEW fd \in open, fds[fd].inode_state # "NEED_WASHING",
         NEW fds2, \A h \in open : h # fd => fds2[h] = fds[h]
  PROVE  Good(data, d, used, fds2, open \ {fd}, L)
<1>1. \A h \in open \ {fd} : Holds(fds2[h], L)
  BY DEF Good
<1>2. Apart(d, fds2, open \ {fd})
  BY DEF Good, Apart
<1>3. ASSUME NEW j \in Entries, NEW k \in Nat, k < ni(L, j)
      PROVE  \/ IsRec(data[ino(L, j, k)], L, j, k)
             \/ \E h \in open \ {fd} : Dirty(fds2, h, j, ino(L, j, k))
  <2>1. \/ IsRec(data[ino(L, j, k)], L, j, k)
        \/ \E h \in open : Dirty(fds, h, j, ino(L, j, k))
    BY <1>3 DEF Good, Written
  <2>2. \A h \in open : Dirty(fds, h, j, ino(L, j, k)) => h # fd /\ Dirty(fds2, h, j, ino(L, j, k))
    BY DEF Dirty
  <2> QED BY <2>1, <2>2
<1>4. Written(data, fds2, open \ {fd}, L)
  BY <1>3 DEF Good, Written
<1> QED BY <1>1, <1>2, <1>4 DEF Good

-----------------------------------------------------------------------------
(* A call that fails leaves the memory as it was and a disk that may have  *)
(* been written to.  It still has what the layout of before the call had.  *)

\* r points to everything that inode k of file i points to, and maybe more.
Extends(r, L, i, k) ==
  /\ k + 1 < ni(L, i) => r.next = ino(L, i, k + 1)
  /\ \A j \in Slots : Slot(k, j) < nb(L, i) => r.dataBlocks[j] = blk(L, i, Slot(k, j))

\* Every inode of the layout is on the disk or in a descriptor of fds.
Keeps(data, fds, open, L) ==
  \A i \in Entries, k \in Nat : k < ni(L, i) =>
    \/ Extends(data[ino(L, i, k)], L, i, k)
    \/ \E h \in open : fds[h].inode_state # "GARBAGE" /\ fds[h].inode_idx = ino(L, i, k)

LEMMA RecExtends ==
  ASSUME NEW L0, NEW L, Grows(L0, L), NEW i \in Entries, NEW k \in Nat,
         NEW r, IsRec(r, L, i, k)
  PROVE  Extends(r, L0, i, k)
<1>1. /\ ni(L0, i) \in Nat /\ ni(L, i) \in Nat /\ nb(L0, i) \in Nat /\ nb(L, i) \in Nat
  BY LayoutFacts DEF Grows
<1>2. k + 1 \in Nat /\ \A j \in Slots : Slot(k, j) \in Nat
  BY SlotFacts
<1>3. ni(L0, i) <= ni(L, i) /\ nb(L0, i) <= nb(L, i)
  BY DEF Grows
<1>4. \A m \in Nat : /\ m < ni(L0, i) => m < ni(L, i) /\ ino(L, i, m) = ino(L0, i, m)
                     /\ m < nb(L0, i) => m < nb(L, i) /\ blk(L, i, m) = blk(L0, i, m)
  BY <1>1, <1>3 DEF Grows
<1>5. r.next = IF k + 1 < ni(L, i) THEN ino(L, i, k + 1) ELSE 0
  BY DEF IsRec
<1>6. \A j \in Slots :
       r.dataBlocks[j] = IF Slot(k, j) < nb(L, i) THEN blk(L, i, Slot(k, j)) ELSE 0
  BY DEF IsRec
<1>7. k + 1 < ni(L0, i) => r.next = ino(L0, i, k + 1)
  BY <1>2, <1>4, <1>5
<1>8. ASSUME NEW j \in Slots, Slot(k, j) < nb(L0, i) PROVE r.dataBlocks[j] = blk(L0, i, Slot(k, j))
  BY <1>2, <1>4, <1>6, <1>8
<1> QED BY <1>7, <1>8 DEF Extends

LEMMA GrowsSame == ASSUME NEW L \in Layouts PROVE Grows(L, L)
<1>1. \A i \in Entries : ni(L, i) \in Nat /\ nb(L, i) \in Nat
  BY LayoutFacts
<1> QED BY <1>1 DEF Grows

LEMMA KeepsAll ==
  ASSUME NEW data, NEW d, NEW used, NEW fds, NEW open, NEW L, Good(data, d, used, fds, open, L)
  PROVE  Keeps(data, fds, open, L)
<1>1. Grows(L, L)
  BY GoodFacts, GrowsSame
<1>2. ASSUME NEW i \in Entries, NEW k \in Nat, k < ni(L, i)
      PROVE  \/ Extends(data[ino(L, i, k)], L, i, k)
             \/ \E h \in open : fds[h].inode_state # "GARBAGE" /\ fds[h].inode_idx = ino(L, i, k)
  <2>1. \/ IsRec(data[ino(L, i, k)], L, i, k)
        \/ \E h \in open : Dirty(fds, h, i, ino(L, i, k))
    BY <1>2 DEF Good, Written
  <2>2. CASE IsRec(data[ino(L, i, k)], L, i, k)
    BY <1>1, <2>2, RecExtends
  <2>3. CASE \E h \in open : Dirty(fds, h, i, ino(L, i, k))
    <3>1. PICK h \in open : Dirty(fds, h, i, ino(L, i, k))
      BY <2>3
    <3>2. fds[h].inode_state # "GARBAGE" /\ fds[h].inode_idx = ino(L, i, k)
      BY <3>1 DEF Dirty
    <3> QED BY <3>2
  <2> QED BY <2>1, <2>2, <2>3
<1> QED BY <1>2 DEF Keeps

(* Writing an inode of the layout of now, or a block of data, keeps it.    *)
LEMMA KeepsIno ==
  ASSUME NEW L0, NEW L, Grows(L0, L), Placed(L), NEW data, NEW fds, NEW open,
         Keeps(data, fds, open, L0),
         NEW i \in Entries, NEW k \in Nat, k < ni(L, i), NEW r, IsRec(r, L, i, k),
         NEW data2, data2[ino(L, i, k)] = r,
         \A b \in Blocks : b # ino(L, i, k) => data2[b] = data[b]
  PROVE  Keeps(data2, fds, open, L0)
<1>1. ASSUME NEW j \in Entries, NEW m \in Nat, m < ni(L0, j)
      PROVE  \/ Extends(data2[ino(L0, j, m)], L0, j, m)
             \/ \E h \in open : fds[h].inode_state # "GARBAGE" /\ fds[h].inode_idx = ino(L0, j, m)
  <2>1. /\ ino(L, j, m) = ino(L0, j, m) /\ m < ni(L, j) /\ ino(L, j, m) \in Blocks
    <3>1. ni(L0, j) \in Nat /\ ni(L, j) \in Nat /\ ino(L, j, m) \in Blocks
      BY LayoutFacts DEF Grows
    <3>2. ni(L0, j) <= ni(L, j) /\ ino(L, j, m) = ino(L0, j, m)
      BY <1>1 DEF Grows
    <3> QED BY <1>1, <3>1, <3>2
  <2>2. CASE ino(L, j, m) = ino(L, i, k)
    <3>1. j = i /\ m = k
      BY <2>1, <2>2 DEF Placed
    <3>2. Extends(r, L0, i, k)
      BY RecExtends
    <3> QED BY <2>1, <2>2, <3>1, <3>2
  <2>3. CASE ino(L, j, m) # ino(L, i, k)
    <3>1. data2[ino(L0, j, m)] = data[ino(L0, j, m)]
      BY <2>1, <2>3
    <3> QED BY <1>1, <3>1 DEF Keeps
  <2> QED BY <2>2, <2>3
<1> QED BY <1>1 DEF Keeps

LEMMA KeepsBlk ==
  ASSUME NEW L0, NEW L, Grows(L0, L), Placed(L), NEW data, NEW fds, NEW open,
         Keeps(data, fds, open, L0),
         NEW i \in Entries, NEW k \in Nat, k < nb(L, i),
         NEW data2, \A b \in Blocks : b # blk(L, i, k) => data2[b] = data[b]
  PROVE  Keeps(data2, fds, open, L0)
<1>1. ASSUME NEW j \in Entries, NEW m \in Nat, m < ni(L0, j)
      PROVE  \/ Extends(data2[ino(L0, j, m)], L0, j, m)
             \/ \E h \in open : fds[h].inode_state # "GARBAGE" /\ fds[h].inode_idx = ino(L0, j, m)
  <2>1. /\ ino(L, j, m) = ino(L0, j, m) /\ m < ni(L, j) /\ ino(L, j, m) \in Blocks
    <3>1. ni(L0, j) \in Nat /\ ni(L, j) \in Nat /\ ino(L, j, m) \in Blocks
      BY LayoutFacts DEF Grows
    <3>2. ni(L0, j) <= ni(L, j) /\ ino(L, j, m) = ino(L0, j, m)
      BY <1>1 DEF Grows
    <3> QED BY <1>1, <3>1, <3>2
  <2>2. ino(L, j, m) # blk(L, i, k)
    BY <2>1 DEF Placed
  <2>3. data2[ino(L0, j, m)] = data[ino(L0, j, m)]
    BY <2>1, <2>2
  <2> QED BY <1>1, <2>3 DEF Keeps
<1> QED BY <1>1 DEF Keeps

-----------------------------------------------------------------------------
(* Whoever has a layout has blocks with one owner.                         *)

\* The layout is that of the sizes in the directory.
Sized(d, L) == \A i \in Entries : /\ ni(L, i) = UpTo(d[i].fileSize, INODE_CAPACITY)
                                  /\ nb(L, i) = UpTo(d[i].fileSize, SECTSIZE)

\* What the variables have to do with a layout, also after a failed call.
Mapped(L) ==
  /\ Placed(L) /\ Bits(bitmap, L) /\ Heads(dir, L) /\ Sized(dir, L)
  /\ \A h \in OpenFds : Holds(fd_pool[h], L)
  /\ Keeps(image.data, fd_pool, OpenFds, L)

LEMMA Cached ==
  ASSUME NEW L, Mapped(L), fd_pool \in [Fds -> FdType],
         NEW i \in Entries, NEW k \in Nat, k < ni(L, i)
  PROVE  Extends(CachedInode(ino(L, i, k)), L, i, k)
<1> DEFINE holders == {fd \in OpenFds : /\ fd_pool[fd].inode_state # "GARBAGE"
                                        /\ fd_pool[fd].inode_idx = ino(L, i, k)}
<1>1. CASE holders = {}
  <2>1. CachedInode(ino(L, i, k)) = image.data[ino(L, i, k)]
    BY <1>1 DEF CachedInode
  <2>2. ~\E h \in OpenFds : fd_pool[h].inode_state # "GARBAGE" /\ fd_pool[h].inode_idx = ino(L, i, k)
    BY <1>1
  <2>3. Extends(image.data[ino(L, i, k)], L, i, k)
    BY <2>2 DEF Mapped, Keeps
  <2> QED BY <2>1, <2>3
<1>2. CASE holders # {}
  <2>1. holders \subseteq Fds /\ Fds \subseteq Nat
    <3>1. FDPOOL_SIZE \in Nat
      BY FileSysAssumption
    <3>2. holders \subseteq OpenFds /\ OpenFds \subseteq Fds
      BY DEF OpenFds
    <3>3. Fds \subseteq Nat
      BY <3>1 DEF Fds
    <3> HIDE DEF holders
    <3> QED BY <3>2, <3>3
  <2>2. Min(holders) \in holders
    BY <1>2, <2>1, MinIsLeast
  <2>3. CachedInode(ino(L, i, k)) = fd_pool[Min(holders)].inode
    BY <1>2 DEF CachedInode
  <2>4. PICK h : h = Min(holders)
    OBVIOUS
  <2>5. h \in OpenFds /\ h \in Fds /\ fd_pool[h].inode_state # "GARBAGE" /\ fd_pool[h].inode_idx = ino(L, i, k)
    BY <2>1, <2>2, <2>4
  <2> HIDE DEF holders
  <2>6. Holds(fd_pool[h], L)
    BY <2>5 DEF Mapped
  <2>7. fd_pool[h].index \in Entries
    BY <2>5 DEF FdType
  <2>8. PICK m \in Nat : /\ m < ni(L, fd_pool[h].index) /\ fd_pool[h].inode_idx = ino(L, fd_pool[h].index, m)
                         /\ IsRec(fd_pool[h].inode, L, fd_pool[h].index, m)
    BY <2>5, <2>6 DEF Holds
  <2>9. Placed(L) /\ L \in Layouts
    BY DEF Mapped, Placed
  <2>10. fd_pool[h].index = i /\ m = k
    BY <2>5, <2>7, <2>8, <2>9 DEF Placed
  <2>11. Extends(fd_pool[h].inode, L, i, k)
    BY <2>8, <2>9, <2>10, GrowsSame, RecExtends
  <2> QED BY <2>3, <2>4, <2>11
<1> QED BY <1>1, <1>2

LEMMA ChainIs ==
  ASSUME NEW L, Mapped(L), fd_pool \in [Fds -> FdType], NEW i \in Entries, ni(L, i) > 0
  PROVE  Chain(dir[i], CachedInode) = [k \in 0 .. ni(L, i) - 1 |-> ino(L, i, k)]
<1> DEFINE S == 0 .. ni(L, i) - 1
           F(f) == [k \in S |-> IF k = 0 THEN dir[i].inodeOffset ELSE CachedInode(f[k-1]).next]
           c == [k \in S |-> ino(L, i, k)]
<1>1. ni(L, i) \in Nat /\ L \in Layouts
  BY LayoutFacts DEF Mapped, Placed
<1>2. ni(L, i) = UpTo(dir[i].fileSize, INODE_CAPACITY)
  BY DEF Mapped, Sized
<1>3. dir[i].inodeOffset = ino(L, i, 0)
  BY DEF Mapped, Heads
<1>4. ASSUME NEW k \in S, k # 0
      PROVE  k - 1 \in S /\ CachedInode(ino(L, i, k - 1)).next = ino(L, i, k)
  <2>1. k - 1 \in Nat /\ k - 1 < ni(L, i) /\ (k - 1) + 1 < ni(L, i) /\ (k - 1) + 1 = k
    BY <1>1, <1>4
  <2>2. Extends(CachedInode(ino(L, i, k - 1)), L, i, k - 1)
    BY <2>1, Cached
  <2>3. CachedInode(ino(L, i, k - 1)).next = ino(L, i, (k - 1) + 1)
    BY <2>1, <2>2 DEF Extends
  <2> QED BY <1>1, <2>1, <2>3
<1>5. c = F(c)
  <2>1. ASSUME NEW k \in S
        PROVE  c[k] = IF k = 0 THEN dir[i].inodeOffset ELSE CachedInode(c[k-1]).next
    BY <1>3, <1>4
  <2> QED BY <2>1
<1>6. ASSUME NEW f, f = F(f) PROVE f = c
  <2> DEFINE T == {k \in Nat : k \in S => f[k] = ino(L, i, k)}
  <2>1. \A k \in S : f[k] = IF k = 0 THEN dir[i].inodeOffset ELSE CachedInode(f[k-1]).next
    BY <1>6
  <2>2. 0 \in T
    BY <1>3, <2>1
  <2>3. ASSUME NEW k \in T PROVE k + 1 \in T
    <3>1. k \in Nat /\ k + 1 \in Nat /\ (k + 1) - 1 = k
      OBVIOUS
    <3>2. CASE k + 1 \in S
      <4>1. k \in S /\ f[k] = ino(L, i, k)
        BY <1>1, <3>1, <3>2
      <4>2. f[k + 1] = CachedInode(f[k]).next
        BY <2>1, <3>1, <3>2
      <4>3. CachedInode(ino(L, i, k)).next = ino(L, i, k + 1)
        BY <1>4, <3>1, <3>2
      <4> QED BY <3>1, <4>1, <4>2, <4>3
    <3> QED BY <3>1, <3>2
  <2>4. T = Nat
    BY <2>2, <2>3, NatClosed
  <2>5. \A k \in S : f[k] = ino(L, i, k)
    BY <1>1, <2>4
  <2> QED BY <1>6, <2>5
<1>7. Chain(dir[i], CachedInode) = CHOOSE f : f = F(f)
  BY <1>2 DEF Chain
<1> HIDE DEF F, c
<1>8. (CHOOSE f : f = F(f)) = c
  BY <1>5, <1>6
<1> QED BY <1>7, <1>8 DEF c

LEMMA DataIs ==
  ASSUME NEW L, Mapped(L), fd_pool \in [Fds -> FdType],
         NEW i \in Entries, NEW m \in Nat, m < nb(L, i)
  PROVE  ni(L, i) > 0 /\ DataBlock(dir[i], m, CachedInode) = blk(L, i, m)
<1> DEFINE k == m \div N_INODE_DATABLOCK
           j == m % N_INODE_DATABLOCK
<1>1. k \in Nat /\ j \in Slots /\ m = Slot(k, j)
  BY SlotFacts
<1>2. ni(L, i) \in Nat /\ nb(L, i) \in Nat /\ L \in Layouts
  BY LayoutFacts DEF Mapped, Placed
<1>3. nb(L, i) <= Slot(ni(L, i), 0)
  BY DEF Mapped, Heads
<1> HIDE DEF k, j
<1>4. k < ni(L, i)
  <2> SUFFICES ASSUME ni(L, i) <= k PROVE FALSE
    BY <1>1, <1>2
  <2>1. \A x, y \in Nat : x <= y => /\ x * N_INODE_DATABLOCK <= y * N_INODE_DATABLOCK
                                    /\ x * N_INODE_DATABLOCK \in Nat /\ y * N_INODE_DATABLOCK \in Nat
    BY Sizes
  <2>2. Slot(ni(L, i), 0) <= Slot(k, j) /\ Slot(ni(L, i), 0) \in Nat
    BY <1>1, <1>2, <2>1 DEF Slot, Slots
  <2> QED BY <1>1, <1>2, <1>3, <2>2
<1>5. ni(L, i) > 0 /\ k \in 0 .. ni(L, i) - 1
  BY <1>1, <1>2, <1>4
<1>6. Chain(dir[i], CachedInode)[k] = ino(L, i, k)
  BY <1>5, ChainIs
<1>7. CachedInode(ino(L, i, k)).dataBlocks[j] = blk(L, i, m)
  <2>1. Extends(CachedInode(ino(L, i, k)), L, i, k)
    BY <1>1, <1>4, Cached
  <2> QED BY <1>1, <2>1 DEF Extends
<1>8. DataBlock(dir[i], m, CachedInode)
        = CachedInode(Chain(dir[i], CachedInode)[k]).dataBlocks[j]
  BY DEF DataBlock, k, j
<1> QED BY <1>5, <1>6, <1>7, <1>8

LEMMA OwnedIs ==
  ASSUME NEW L, Mapped(L), fd_pool \in [Fds -> FdType], NEW i \in Entries, ni(L, i) > 0
  PROVE  Owned(i) = {ino(L, i, k) : k \in 0 .. ni(L, i) - 1} \cup {blk(L, i, m) : m \in 0 .. nb(L, i) - 1}
<1>1. ni(L, i) \in Nat /\ nb(L, i) \in Nat /\ L \in Layouts
  BY LayoutFacts DEF Mapped, Placed
<1>2. nb(L, i) = UpTo(dir[i].fileSize, SECTSIZE)
  BY DEF Mapped, Sized
<1>3. PICK c : c = Chain(dir[i], CachedInode)
  OBVIOUS
<1>4. c = [k \in 0 .. ni(L, i) - 1 |-> ino(L, i, k)]
  BY <1>3, ChainIs
<1>5. {c[k] : k \in DOMAIN c} = {ino(L, i, k) : k \in 0 .. ni(L, i) - 1}
  BY <1>4
<1>6. \A m \in 0 .. nb(L, i) - 1 : DataBlock(dir[i], m, CachedInode) = blk(L, i, m)
  BY <1>1, DataIs
<1>7. {DataBlock(dir[i], m, CachedInode) : m \in 0 .. nb(L, i) - 1} = {blk(L, i, m) : m \in 0 .. nb(L, i) - 1}
  BY <1>6
<1> QED BY <1>2, <1>3, <1>5, <1>7 DEF Owned

(* The image of an interval under a function without collisions.           *)
LEMMA ImageSize ==
  ASSUME NEW n \in Nat, NEW f, DOMAIN f = 0 .. n - 1,
         \A x, y \in 0 .. n - 1 : f[x] = f[y] => x = y,
         NEW T, T = {f[x] : x \in 0 .. n - 1}
  PROVE  IsFiniteSet(T) /\ Cardinality(T) = n
<1> DEFINE S == 0 .. n - 1
           g == [x \in S |-> f[x]]
<1>1. g \in Bijection(S, T)
  BY DEF Bijection, Injection, Surjection, IsInjective
<1>2. ExistsBijection(S, T)
  BY <1>1 DEF ExistsBijection
<1>3. IsFiniteSet(S) /\ Cardinality(S) = n
  <2>1. IsFiniteSet(S) /\ Cardinality(S) = IF 0 > n - 1 THEN 0 ELSE (n - 1) - 0 + 1
    <3>1. 0 \in Int /\ n - 1 \in Int
      OBVIOUS
    <3> QED BY <3>1, FS_Interval
  <2> QED BY <2>1
<1> HIDE DEF S
<1>4. IsFiniteSet(T) /\ Cardinality(T) = Cardinality(S)
  BY <1>2, <1>3, FS_Bijection
<1> QED BY <1>3, <1>4

LEMMA OwnedSize ==
  ASSUME NEW L, Mapped(L), fd_pool \in [Fds -> FdType], NEW i \in Entries, ni(L, i) > 0
  PROVE  Cardinality(Owned(i)) = ni(L, i) + nb(L, i)
<1>1. ni(L, i) \in Nat /\ nb(L, i) \in Nat /\ Placed(L)
  BY LayoutFacts DEF Mapped, Placed
<1> DEFINE S == {ino(L, i, k) : k \in 0 .. ni(L, i) - 1}
           T == {blk(L, i, m) : m \in 0 .. nb(L, i) - 1}
<1>2. IsFiniteSet(S) /\ Cardinality(S) = ni(L, i)
  <2> DEFINE f == [k \in 0 .. ni(L, i) - 1 |-> ino(L, i, k)]
  <2>1. \A x, y \in 0 .. ni(L, i) - 1 : f[x] = f[y] => x = y
    BY <1>1 DEF Placed
  <2>2. DOMAIN f = 0 .. ni(L, i) - 1
    OBVIOUS
  <2>3. S = {f[x] : x \in 0 .. ni(L, i) - 1}
    OBVIOUS
  <2> HIDE DEF f, S
  <2> QED BY <1>1, <2>1, <2>2, <2>3, ImageSize
<1>3. IsFiniteSet(T) /\ Cardinality(T) = nb(L, i)
  <2> DEFINE f == [m \in 0 .. nb(L, i) - 1 |-> blk(L, i, m)]
  <2>1. \A x, y \in 0 .. nb(L, i) - 1 : f[x] = f[y] => x = y
    BY <1>1 DEF Placed
  <2>2. DOMAIN f = 0 .. nb(L, i) - 1
    OBVIOUS
  <2>3. T = {f[x] : x \in 0 .. nb(L, i) - 1}
    OBVIOUS
  <2> HIDE DEF f, T
  <2> QED BY <1>1, <2>1, <2>2, <2>3, ImageSize
<1>4. S \cap T = {}
  BY <1>1 DEF Placed
<1>5. Owned(i) = S \cup T
  BY OwnedIs
<1> HIDE DEF S, T
<1>6. Cardinality(S \cup T) = Cardinality(S) + Cardinality(T) - Cardinality(S \cap T)
  BY <1>2, <1>3, FS_Union
<1>7. Cardinality(S \cap T) = 0
  BY <1>4, FS_EmptySet
<1> QED BY <1>1, <1>2, <1>3, <1>5, <1>6, <1>7

LEMMA OneOwner ==
  ASSUME NEW L, Mapped(L), fd_pool \in [Fds -> FdType]
  PROVE  BlocksHaveOneOwner
<1> DEFINE files == {i \in Entries : HasBlocks(dir[i])}
<1>1. /\ Placed(L) /\ L \in Layouts
      /\ \A i \in Entries : ni(L, i) \in Nat /\ nb(L, i) \in Nat
      /\ \A i \in Entries, k \in Nat : ino(L, i, k) \in Blocks
  BY LayoutFacts DEF Mapped, Placed
<1>2. \A i \in Entries : i \in files <=> ni(L, i) > 0
  <2> SUFFICES ASSUME NEW i \in Entries PROVE HasBlocks(dir[i]) <=> ni(L, i) > 0
    OBVIOUS
  <2>1. CASE ni(L, i) = 0
    <3>1. ~HasBlocks(dir[i])
      BY <2>1 DEF Mapped, Heads
    <3> QED BY <2>1, <3>1
  <2>2. CASE ni(L, i) > 0
    <3>1. dir[i].fileName # "" /\ dir[i].inodeOffset = ino(L, i, 0)
      BY <2>2 DEF Mapped, Heads
    <3>2. ino(L, i, 0) \in Blocks
      BY <1>1
    <3> QED BY <2>2, <3>1, <3>2, BlockFacts DEF HasBlocks
  <2> QED BY <1>1, <2>1, <2>2
<1>3. \A i \in files : Owned(i) = {ino(L, i, k) : k \in 0 .. ni(L, i) - 1} \cup {blk(L, i, m) : m \in 0 .. nb(L, i) - 1}
  BY <1>2, OwnedIs
<1>4. bitmap = UNION {Owned(i) : i \in files}
  <2>1. ASSUME NEW b \in bitmap PROVE \E i \in files : b \in Owned(i)
    <3>1. PICK i \in Entries, k \in Nat :
             (k < ni(L, i) /\ b = ino(L, i, k)) \/ (k < nb(L, i) /\ b = blk(L, i, k))
      BY DEF Mapped, Bits
    <3>2. ni(L, i) > 0
      <4>1. CASE k < ni(L, i)
        BY <1>1, <4>1
      <4>2. CASE k < nb(L, i)
        BY <4>2, DataIs
      <4> QED BY <3>1, <4>1, <4>2
    <3>3. i \in files
      BY <1>2, <3>2
    <3>4. (k < ni(L, i) => k \in 0 .. ni(L, i) - 1) /\ (k < nb(L, i) => k \in 0 .. nb(L, i) - 1)
      BY <1>1
    <3>5. b \in {ino(L, i, x) : x \in 0 .. ni(L, i) - 1} \cup {blk(L, i, m) : m \in 0 .. nb(L, i) - 1}
      BY <3>1, <3>4
    <3> QED BY <1>3, <3>3, <3>5
  <2>2. ASSUME NEW i \in files, NEW b \in Owned(i) PROVE b \in bitmap
    <3>1. b \in {ino(L, i, x) : x \in 0 .. ni(L, i) - 1} \cup {blk(L, i, m) : m \in 0 .. nb(L, i) - 1}
      BY <1>3
    <3>2. \A k \in Nat : (k < ni(L, i) => ino(L, i, k) \in bitmap) /\ (k < nb(L, i) => blk(L, i, k) \in bitmap)
      BY DEF Mapped, Bits
    <3> QED BY <1>1, <3>1, <3>2
  <2> QED BY <2>1, <2>2
<1>5. \A i \in files : Cardinality(Owned(i))
        = UpTo(dir[i].fileSize, INODE_CAPACITY) + UpTo(dir[i].fileSize, SECTSIZE)
  BY <1>2, OwnedSize DEF Mapped, Sized
<1>6. ASSUME NEW i \in files, NEW j \in files, i # j PROVE Owned(i) \cap Owned(j) = {}
  <2> SUFFICES ASSUME NEW b \in Owned(i), b \in Owned(j) PROVE FALSE
    OBVIOUS
  <2>1. \E k \in Nat : (k < ni(L, i) /\ b = ino(L, i, k)) \/ (k < nb(L, i) /\ b = blk(L, i, k))
    BY <1>1, <1>3
  <2>2. \E k \in Nat : (k < ni(L, j) /\ b = ino(L, j, k)) \/ (k < nb(L, j) /\ b = blk(L, j, k))
    BY <1>1, <1>3
  <2> QED BY <1>1, <1>6, <2>1, <2>2 DEF Placed
<1> QED BY <1>4, <1>5, <1>6 DEF BlocksHaveOneOwner

-----------------------------------------------------------------------------
(* The state of the program during a call.                                 *)

ImageType == [dir : DirType, bitmap : SUBSET Blocks, data : [Blocks -> Inode \cup DataSector]]
Cleanliness == {"USEFUL", "NEED_WASHING"}
States == [image : ImageType, image_mode : {"O_RDWR"}, dir : DirType, bitmap : SUBSET Blocks,
           state_dir : Cleanliness, state_bitmap : Cleanliness, fd_pool : [Fds -> FdType],
           mode : {"ok", "panic", "overrun"}, ret : Int, past : SUBSET ImageType]

\* The copies in memory that are not marked are those of the disk.
Clean(s) == /\ s.state_dir = "USEFUL" => s.image.dir = s.dir
            /\ s.state_bitmap = "USEFUL" => s.image.bitmap = s.bitmap

\* s with descriptor fd as f, and what t may differ in from s.
WithFd(s, fd, f) == [s EXCEPT !.fd_pool = [s.fd_pool EXCEPT ![fd] = f]]
SameMemory(s, t) == /\ t.dir = s.dir /\ t.bitmap = s.bitmap /\ t.state_dir = s.state_dir
                    /\ t.state_bitmap = s.state_bitmap
SameDisk(s, t) == t.image = s.image /\ t.mode = s.mode

LEMMA WithFdFacts ==
  ASSUME NEW s \in States, NEW fd \in Fds, NEW f \in FdType
  PROVE  /\ WithFd(s, fd, f) \in States
         /\ SameMemory(s, WithFd(s, fd, f)) /\ SameDisk(s, WithFd(s, fd, f))
         /\ WithFd(s, fd, f).ret = s.ret
         /\ WithFd(s, fd, f).fd_pool[fd] = f
         /\ \A h \in Fds : h # fd => WithFd(s, fd, f).fd_pool[h] = s.fd_pool[h]
<1> DEFINE p == [s.fd_pool EXCEPT ![fd] = f]
           t == [s EXCEPT !.fd_pool = p]
<1>1. s.fd_pool \in [Fds -> FdType]
  BY DEF States
<1>2. p \in [Fds -> FdType] /\ p[fd] = f /\ \A h \in Fds : h # fd => p[h] = s.fd_pool[h]
  BY <1>1
<1>3. WithFd(s, fd, f) = t
  BY DEF WithFd
<1> HIDE DEF p
<1>4. t \in States /\ t.fd_pool = p
  BY <1>2 DEF States
<1>5. SameMemory(s, t) /\ SameDisk(s, t) /\ t.ret = s.ret
  BY DEF States, SameMemory, SameDisk
<1> HIDE DEF t
<1> QED BY <1>2, <1>3, <1>4, <1>5

\* What a handler assigns to the fields of one descriptor is a WithFd.
InodeIn(f, b, r, q) == [f EXCEPT !.inode_idx = b, !.inode = r, !.inode_state = q]
BufferIn(f, b, c, q) == [f EXCEPT !.buffer = c, !.buffer_idx = b, !.buffer_state = q]
WithInode(s, fd, b, r, q) ==
  [s EXCEPT !.fd_pool[fd].inode_idx = b, !.fd_pool[fd].inode = r, !.fd_pool[fd].inode_state = q]
WithBuffer(s, fd, b, c, q) ==
  [s EXCEPT !.fd_pool[fd].buffer = c, !.fd_pool[fd].buffer_idx = b, !.fd_pool[fd].buffer_state = q]

RefIn(f, b, q) == [f EXCEPT !.buffer_idx = b, !.buffer_state = q]
WithRef(s, fd, b, q) == [s EXCEPT !.fd_pool[fd].buffer_idx = b, !.fd_pool[fd].buffer_state = q]

LEMMA WithRefIs ==
  ASSUME NEW s \in States, NEW fd \in Fds, NEW b, NEW q
  PROVE  WithRef(s, fd, b, q) = WithFd(s, fd, RefIn(s.fd_pool[fd], b, q))
BY DEF WithRef, RefIn, WithFd, States

LEMMA WithInodeIs ==
  ASSUME NEW s \in States, NEW fd \in Fds, NEW b, NEW r, NEW q
  PROVE  WithInode(s, fd, b, r, q) = WithFd(s, fd, InodeIn(s.fd_pool[fd], b, r, q))
BY DEF WithInode, InodeIn, WithFd, States

LEMMA WithBufferIs ==
  ASSUME NEW s \in States, NEW fd \in Fds, NEW b, NEW c, NEW q
  PROVE  WithBuffer(s, fd, b, c, q) = WithFd(s, fd, BufferIn(s.fd_pool[fd], b, c, q))
BY DEF WithBuffer, BufferIn, WithFd, States

LEMMA WithFdTwice ==
  ASSUME NEW s \in States, NEW fd \in Fds, NEW f, NEW g
  PROVE  WithFd(WithFd(s, fd, f), fd, g) = WithFd(s, fd, g)
BY DEF WithFd, States

LEMMA SetFacts ==
  ASSUME NEW s \in States, NEW fd \in Fds, NEW f \in FdType, NEW t, t = WithFd(s, fd, f)
  PROVE  /\ t \in States /\ SameMemory(s, t) /\ SameDisk(s, t) /\ t.fd_pool[fd] = f
         /\ \A h \in Fds : h # fd => t.fd_pool[h] = s.fd_pool[h]
BY WithFdFacts

LEMMA FdFacts ==
  ASSUME NEW s \in States, NEW fd \in Fds
  PROVE  s.fd_pool[fd] \in FdType /\ s.fd_pool[fd].index \in Entries /\ s.fd_pool[fd].offset \in Nat
  BY DEF States, FdType

(* A block is written.                                                     *)
LEMMA WriteFacts ==
  ASSUME NEW s \in States, s.mode = "ok", NEW b \in Blocks, NEW c \in Inode \cup DataSector
  PROVE  /\ IDE_WRITE(s, b, c) \in States /\ SameMemory(s, IDE_WRITE(s, b, c))
         /\ IDE_WRITE(s, b, c).mode = "ok" /\ IDE_WRITE(s, b, c).fd_pool = s.fd_pool
         /\ IDE_WRITE(s, b, c).ret = s.ret
         /\ IDE_WRITE(s, b, c).image.dir = s.image.dir
         /\ IDE_WRITE(s, b, c).image.bitmap = s.image.bitmap
         /\ IDE_WRITE(s, b, c).image.data[b] = c
         /\ \A e \in Blocks : e # b => IDE_WRITE(s, b, c).image.data[e] = s.image.data[e]
<1> DEFINE im == [s.image EXCEPT !.data[b] = c]
           t == [s EXCEPT !.image = im, !.past = s.past \cup {im}]
<1>1. s.image \in ImageType /\ s.past \in SUBSET ImageType /\ s.image_mode = "O_RDWR"
  BY DEF States
<1>2. /\ im \in ImageType /\ im.dir = s.image.dir /\ im.bitmap = s.image.bitmap /\ im.data[b] = c
      /\ \A e \in Blocks : e # b => im.data[e] = s.image.data[e]
  BY <1>1 DEF ImageType
<1>3. IDE_WRITE(s, b, c) = t
  BY <1>1 DEF IDE_WRITE, WriteImage
<1> HIDE DEF im
<1>4. s.past \cup {im} \in SUBSET ImageType
  BY <1>1, <1>2
<1>5. t \in States /\ t.image = im
  BY <1>2, <1>4 DEF States
<1>6. SameMemory(s, t) /\ t.mode = s.mode /\ t.fd_pool = s.fd_pool /\ t.ret = s.ret
  BY DEF States, SameMemory
<1> HIDE DEF t
<1> QED BY <1>2, <1>3, <1>5, <1>6

LEMMA BlockWritten ==
  ASSUME NEW s \in States, s.mode = "ok", NEW b \in Blocks, NEW c \in Inode \cup DataSector,
         NEW t, t = IDE_WRITE(s, b, c)
  PROVE  /\ t \in States /\ SameMemory(s, t) /\ t.mode = "ok" /\ t.fd_pool = s.fd_pool
         /\ t.image.dir = s.image.dir /\ t.image.bitmap = s.image.bitmap
         /\ t.image.data[b] = c
         /\ \A e \in Blocks : e # b => t.image.data[e] = s.image.data[e]
BY WriteFacts

(* A block is allocated, or the bitmap is overrun.                         *)
LEMMA FindFacts ==
  ASSUME NEW s \in States, ~(Blocks \subseteq s.bitmap), s.bitmap # {} => 0 \in s.bitmap
  PROVE  /\ find_empty_inode(s) \in States
         /\ find_empty_inode(s).ret \in Blocks /\ find_empty_inode(s).ret \notin s.bitmap
         /\ find_empty_inode(s).ret = 0 <=> s.bitmap = {}
         /\ find_empty_inode(s).bitmap = s.bitmap \cup {find_empty_inode(s).ret}
         /\ find_empty_inode(s).state_bitmap = "NEED_WASHING"
         /\ find_empty_inode(s).dir = s.dir /\ find_empty_inode(s).state_dir = s.state_dir
         /\ find_empty_inode(s).fd_pool = s.fd_pool /\ SameDisk(s, find_empty_inode(s))
<1> DEFINE b == Min(Blocks \ s.bitmap)
           t == [s EXCEPT !.bitmap = s.bitmap \cup {b}, !.ret = b, !.state_bitmap = "NEED_WASHING"]
<1>1. b \in Blocks /\ b \notin s.bitmap /\ (b = 0 <=> s.bitmap = {})
  BY FreshBlock
<1>2. find_empty_inode(s) = t
  BY DEF find_empty_inode
<1> HIDE DEF b
<1>3. s.bitmap \cup {b} \in SUBSET Blocks /\ b \in Int
  BY <1>1, BlockFacts DEF States
<1>4. t \in States /\ t.ret = b /\ t.bitmap = s.bitmap \cup {b} /\ t.state_bitmap = "NEED_WASHING"
  BY <1>3 DEF States, Cleanliness
<1>5. t.dir = s.dir /\ t.state_dir = s.state_dir /\ t.fd_pool = s.fd_pool /\ SameDisk(s, t)
  BY DEF States, SameDisk
<1> HIDE DEF t
<1> QED BY <1>1, <1>2, <1>4, <1>5

-----------------------------------------------------------------------------
(* The functions that need no new block.  A call began with descriptors    *)
(* fds0 and layout L0.                                                     *)

Run(s, open, L, fds0, L0) ==
  /\ s \in States /\ s.mode = "ok" /\ Clean(s)
  /\ open \subseteq Fds
  /\ Good(s.image.data, s.dir, s.bitmap, s.fd_pool, open, L)
  /\ Grows(L0, L) /\ Keeps(s.image.data, fds0, open, L0)

\* From s to t, no descriptor but fd has changed, and fd is where it was.
Stays(s, t, fd) ==
  /\ \A h \in Fds : h # fd => t.fd_pool[h] = s.fd_pool[h]
  /\ t.fd_pool[fd].index = s.fd_pool[fd].index
  /\ t.fd_pool[fd].offset = s.fd_pool[fd].offset
  /\ t.fd_pool[fd].opened = s.fd_pool[fd].opened
  /\ t.fd_pool[fd].writable = s.fd_pool[fd].writable

\* The data blocks of L have in t what they have in s.
Untouched(s, t, L) ==
  \A j \in Entries, n \in Nat :
    n < nb(L, j) => t.image.data[blk(L, j, n)] = s.image.data[blk(L, j, n)]

\* The buffer f is on the disk, if it was to be written, and nothing else has
\* been written.
Washed(s, t, f) ==
  /\ f.buffer_state = "NEED_WASHING" => t.image.data[f.buffer_idx] = f.buffer
  /\ \A e \in Blocks : f.buffer_state # "NEED_WASHING" \/ e # f.buffer_idx =>
       t.image.data[e] = s.image.data[e]

LEMMA RunFacts ==
  ASSUME NEW s, NEW open, NEW L, NEW fds0, NEW L0, Run(s, open, L, fds0, L0)
  PROVE  /\ s \in States /\ s.mode = "ok" /\ L \in Layouts /\ Placed(L)
         /\ open \subseteq Fds
         /\ \A h \in Fds : s.fd_pool[h] \in FdType /\ s.fd_pool[h].index \in Entries
         /\ \A h \in open : Holds(s.fd_pool[h], L)
         /\ \A i \in Entries : ni(L, i) \in Nat /\ nb(L, i) \in Nat
         /\ \A i \in Entries, k \in Nat : ino(L, i, k) \in Blocks /\ blk(L, i, k) \in Blocks
         /\ s.image.data \in [Blocks -> Inode \cup DataSector]
<1>1. s \in States /\ s.mode = "ok" /\ open \subseteq Fds /\ L \in Layouts /\ Placed(L)
      /\ \A h \in open : Holds(s.fd_pool[h], L)
  BY DEF Run, Good, Placed
<1>2. \A h \in Fds : s.fd_pool[h] \in FdType /\ s.fd_pool[h].index \in Entries
  BY <1>1, FdFacts
<1>3. s.image.data \in [Blocks -> Inode \cup DataSector]
  BY <1>1 DEF States, ImageType
<1> QED BY <1>1, <1>2, <1>3, LayoutFacts

(* A descriptor changes what it holds.                                     *)
LEMMA RunSet ==
  ASSUME NEW s, NEW open, NEW L, NEW fds0, NEW L0, Run(s, open, L, fds0, L0),
         NEW fd \in open, NEW g \in FdType, g.index = s.fd_pool[fd].index, Holds(g, L),
         s.fd_pool[fd].inode_state = "NEED_WASHING" =>
           g.inode_state = "NEED_WASHING" /\ g.inode_idx = s.fd_pool[fd].inode_idx
  PROVE  Run(WithFd(s, fd, g), open, L, fds0, L0)
<1>1. s \in States /\ fd \in Fds /\ open \subseteq Fds /\ s.fd_pool[fd].index \in Entries
  BY RunFacts
<1> DEFINE t == WithFd(s, fd, g)
<1>2. /\ t \in States /\ SameMemory(s, t) /\ SameDisk(s, t) /\ t.fd_pool[fd] = g
      /\ \A h \in Fds : h # fd => t.fd_pool[h] = s.fd_pool[h]
  BY <1>1, WithFdFacts
<1> HIDE DEF t
<1>3. t.image = s.image /\ t.dir = s.dir /\ t.bitmap = s.bitmap /\ t.mode = "ok" /\ Clean(t)
  BY <1>2 DEF Run, SameMemory, SameDisk, Clean
<1>4. \A h \in open : h # fd => t.fd_pool[h] = s.fd_pool[h]
  BY <1>1, <1>2
<1>5. Good(s.image.data, s.dir, s.bitmap, s.fd_pool, open, L)
  BY DEF Run
<1>6. Good(s.image.data, s.dir, s.bitmap, t.fd_pool, open, L)
  BY <1>1, <1>2, <1>4, <1>5, ChangeFd
<1>7. Run(t, open, L, fds0, L0)
  BY <1>2, <1>3, <1>6 DEF Run
<1> QED BY <1>7 DEF t

LEMMA FlushIno ==
  ASSUME NEW s, NEW open, NEW L, NEW fds0, NEW L0, Run(s, open, L, fds0, L0),
         NEW fd \in open, NEW t, t = fd_inode_flush(s, fd)
  PROVE  /\ Run(t, open, L, fds0, L0) /\ SameMemory(s, t) /\ Untouched(s, t, L)
         /\ \A h \in Fds : h # fd => t.fd_pool[h] = s.fd_pool[h]
         /\ t.fd_pool[fd] = IF s.fd_pool[fd].inode_state = "NEED_WASHING"
                              THEN [s.fd_pool[fd] EXCEPT !.inode_state = "USEFUL"]
                              ELSE s.fd_pool[fd]
<1>1. CASE s.fd_pool[fd].inode_state # "NEED_WASHING"
  BY <1>1 DEF fd_inode_flush, SameMemory, Untouched
<1>2. CASE s.fd_pool[fd].inode_state = "NEED_WASHING"
  <2> DEFINE f == s.fd_pool[fd]
             g == [f EXCEPT !.inode_state = "USEFUL"]
             u == WithFd(s, fd, g)
  <2>1. s \in States /\ s.mode = "ok" /\ fd \in Fds /\ open \subseteq Fds /\ f \in FdType /\ f.index \in Entries /\ Holds(f, L)
    BY RunFacts
  <2>2. [s EXCEPT !.fd_pool[fd].inode_state = "USEFUL"] = u
    BY <2>1 DEF WithFd, States
  <2>3. t = IDE_WRITE(u, f.inode_idx, f.inode)
    BY <1>2, <2>2 DEF fd_inode_flush
  <2>4. /\ g \in FdType /\ g.index = f.index /\ g.inode_state = "USEFUL" /\ g.inode = f.inode
        /\ g.inode_idx = f.inode_idx /\ g.buffer_state = f.buffer_state /\ g.buffer_idx = f.buffer_idx
    BY <2>1 DEF FdType
  <2>5. PICK i \in Entries, k \in Nat : i = f.index /\ k < ni(L, i) /\ f.inode_idx = ino(L, i, k) /\ IsRec(f.inode, L, i, k)
    BY <1>2, <2>1 DEF Holds
  <2>6. f.inode_idx \in Blocks /\ f.inode \in Inode
    BY <2>5, RunFacts DEF IsRec
  <2> HIDE DEF g
  <2>7. /\ u \in States /\ SameMemory(s, u) /\ SameDisk(s, u) /\ u.fd_pool[fd] = g
        /\ \A h \in Fds : h # fd => u.fd_pool[h] = s.fd_pool[h]
    BY <2>1, <2>4, WithFdFacts
  <2> HIDE DEF u
  <2>8. /\ t \in States /\ SameMemory(u, t) /\ t.mode = "ok" /\ t.fd_pool = u.fd_pool
        /\ t.image.dir = u.image.dir /\ t.image.bitmap = u.image.bitmap
        /\ t.image.data[f.inode_idx] = f.inode
        /\ \A e \in Blocks : e # f.inode_idx => t.image.data[e] = u.image.data[e]
    <3>1. u.mode = "ok"
      BY <2>1, <2>7 DEF SameDisk
    <3>2. f.inode_idx \in Blocks /\ f.inode \in Inode \cup DataSector
      BY <2>6
    <3> HIDE DEF f, g
    <3> QED BY <2>3, <2>7, <3>1, <3>2, BlockWritten
  <2>9. SameMemory(s, t) /\ t.image.dir = s.image.dir /\ t.image.bitmap = s.image.bitmap /\ Clean(t)
        /\ u.image = s.image
    BY <2>7, <2>8 DEF SameMemory, SameDisk, Run, Clean
  <2>10. \A e \in Blocks : e # ino(L, i, k) => t.image.data[e] = s.image.data[e]
    BY <2>5, <2>8, <2>9
  <2>11. Good(t.image.data, s.dir, s.bitmap, s.fd_pool, open, L)
    <3>1. Good(s.image.data, s.dir, s.bitmap, s.fd_pool, open, L)
      BY DEF Run
    <3> QED BY <2>5, <2>8, <2>10, <3>1, WriteIno
  <2>12. Keeps(t.image.data, fds0, open, L0)
    <3>1. Keeps(s.image.data, fds0, open, L0) /\ Grows(L0, L) /\ Placed(L)
      BY DEF Run, Good
    <3> QED BY <2>5, <2>8, <2>10, <3>1, KeepsIno
  <2>13. Holds(g, L)
    BY <2>1, <2>4, <1>2 DEF Holds
  <2>14. Good(t.image.data, s.dir, s.bitmap, t.fd_pool, open, L)
    <3>1. \A h \in open : h # fd => t.fd_pool[h] = s.fd_pool[h]
      BY <2>1, <2>7, <2>8
    <3>2. t.fd_pool[fd] = g /\ Holds(t.fd_pool[fd], L) /\ t.fd_pool[fd].index = s.fd_pool[fd].index
      BY <2>4, <2>7, <2>8, <2>13
    <3>3. \E m \in Nat : /\ m < ni(L, s.fd_pool[fd].index) /\ s.fd_pool[fd].inode_idx = ino(L, s.fd_pool[fd].index, m)
                         /\ IsRec(t.image.data[s.fd_pool[fd].inode_idx], L, s.fd_pool[fd].index, m)
      BY <2>5, <2>8
    <3> HIDE DEF f
    <3> QED BY <2>1, <2>11, <3>1, <3>2, <3>3, ChangeFd DEF f
  <2>15. Run(t, open, L, fds0, L0)
    <3>1. t.dir = s.dir /\ t.bitmap = s.bitmap
      BY <2>9 DEF SameMemory
    <3> QED BY <2>8, <2>9, <2>12, <2>14, <3>1 DEF Run
  <2>16. t.fd_pool[fd] = g /\ \A h \in Fds : h # fd => t.fd_pool[h] = s.fd_pool[h]
    BY <2>7, <2>8
  <2>17. Untouched(s, t, L)
    <3>1. ASSUME NEW j \in Entries, NEW n \in Nat, n < nb(L, j)
          PROVE  blk(L, j, n) \in Blocks /\ blk(L, j, n) # ino(L, i, k)
      <4>1. Placed(L) /\ blk(L, j, n) \in Blocks
        BY RunFacts
      <4> QED BY <2>5, <3>1, <4>1 DEF Placed
    <3> QED BY <2>10, <3>1 DEF Untouched
  <2> QED BY <1>2, <2>9, <2>15, <2>16, <2>17 DEF g
<1> QED BY <1>1, <1>2

LEMMA FlushBuf ==
  ASSUME NEW s, NEW open, NEW L, NEW fds0, NEW L0, Run(s, open, L, fds0, L0),
         NEW fd \in open, NEW t, t = fd_buffer_flush(s, fd)
  PROVE  /\ Run(t, open, L, fds0, L0) /\ SameMemory(s, t) /\ Washed(s, t, s.fd_pool[fd])
         /\ \A h \in Fds : h # fd => t.fd_pool[h] = s.fd_pool[h]
         /\ t.fd_pool[fd] = [s.fd_pool[fd] EXCEPT !.buffer_state = "GARBAGE"]
<1> DEFINE f == s.fd_pool[fd]
           g == [f EXCEPT !.buffer_state = "GARBAGE"]
           u == IF f.buffer_state = "NEED_WASHING" THEN IDE_WRITE(s, f.buffer_idx, f.buffer) ELSE s
<1>1. s \in States /\ s.mode = "ok" /\ fd \in Fds /\ open \subseteq Fds /\ f \in FdType /\ f.index \in Entries /\ Holds(f, L)
  BY RunFacts
<1>2. /\ u \in States /\ u.fd_pool = s.fd_pool /\ SameMemory(s, u) /\ Run(u, open, L, fds0, L0)
      /\ Washed(s, u, f)
  <2>1. CASE f.buffer_state # "NEED_WASHING"
    BY Zenon, <1>1, <2>1 DEF SameMemory, Washed
  <2>2. CASE f.buffer_state = "NEED_WASHING"
    <3>1. PICK i \in Entries, m \in Nat : i = f.index /\ m < nb(L, i) /\ f.buffer_idx = blk(L, i, m)
      BY <1>1, <2>2 DEF Holds
    <3>2. f.buffer_idx \in Blocks /\ f.buffer \in DataSector
      BY <1>1 DEF FdType
    <3>3. PICK v : v = IDE_WRITE(s, f.buffer_idx, f.buffer)
      OBVIOUS
    <3>4. /\ v \in States /\ SameMemory(s, v) /\ v.mode = "ok" /\ v.fd_pool = s.fd_pool
          /\ v.image.dir = s.image.dir /\ v.image.bitmap = s.image.bitmap
          /\ v.image.data[f.buffer_idx] = f.buffer
          /\ \A e \in Blocks : e # f.buffer_idx => v.image.data[e] = s.image.data[e]
      BY <1>1, <3>2, <3>3, WriteFacts
    <3>5. Clean(v) /\ v.dir = s.dir /\ v.bitmap = s.bitmap
      BY <3>4 DEF SameMemory, Run, Clean
    <3>6. Good(v.image.data, s.dir, s.bitmap, s.fd_pool, open, L)
      <4>1. Good(s.image.data, s.dir, s.bitmap, s.fd_pool, open, L)
        BY DEF Run
      <4>2. /\ v.image.data[blk(L, i, m)] = f.buffer
            /\ \A e \in Blocks : e # blk(L, i, m) => v.image.data[e] = s.image.data[e]
        BY <3>1, <3>4
      <4> QED BY <3>1, <3>2, <4>1, <4>2, WriteBlk
    <3>7. Keeps(v.image.data, fds0, open, L0)
      <4>1. Keeps(s.image.data, fds0, open, L0) /\ Grows(L0, L) /\ Placed(L)
        BY DEF Run, Good
      <4>2. \A e \in Blocks : e # blk(L, i, m) => v.image.data[e] = s.image.data[e]
        BY <3>1, <3>4
      <4> QED BY <3>1, <4>1, <4>2, KeepsBlk
    <3>8. Run(v, open, L, fds0, L0)
      BY <3>4, <3>5, <3>6, <3>7 DEF Run
    <3>9. Washed(s, v, f)
      BY <2>2, <3>4 DEF Washed
    <3> QED BY <2>2, <3>3, <3>4, <3>8, <3>9
  <2> QED BY <2>1, <2>2
<1>3. t = [u EXCEPT !.fd_pool[fd].buffer_state = "GARBAGE"]
  BY DEF fd_buffer_flush
<1> HIDE DEF u
<1>4. t = WithFd(u, fd, g)
  BY <1>1, <1>2, <1>3 DEF WithFd, States
<1>5. /\ g \in FdType /\ g.index = f.index /\ g.inode_state = f.inode_state /\ g.inode = f.inode
      /\ g.inode_idx = f.inode_idx /\ g.buffer_state = "GARBAGE"
  BY <1>1 DEF FdType
<1> HIDE DEF g
<1>6. Holds(g, L)
  BY <1>1, <1>5 DEF Holds
<1>7. Run(t, open, L, fds0, L0)
  BY <1>2, <1>4, <1>5, <1>6, RunSet
<1>8. /\ SameMemory(u, t) /\ SameDisk(u, t) /\ t.fd_pool[fd] = g
      /\ \A h \in Fds : h # fd => t.fd_pool[h] = s.fd_pool[h]
  BY <1>1, <1>2, <1>4, <1>5, WithFdFacts
<1>9. SameMemory(s, t) /\ Washed(s, t, f)
  BY <1>2, <1>8 DEF SameMemory, SameDisk, Washed
<1> QED BY <1>7, <1>8, <1>9 DEF g

-----------------------------------------------------------------------------
(* The functions that allocate.                                            *)

\* The call has failed; Lost: no block was left for it.
Halted(s) == {"image", "mode"} \subseteq DOMAIN s /\ s.mode \in {"panic", "overrun"}
StaysHalted(s, t) == DOMAIN t = DOMAIN s /\ t.image = s.image /\ t.mode = s.mode
Lost(s, open, fds0, L0) ==
  /\ Halted(s) /\ s.mode = "overrun"
  /\ s.image \in ImageType /\ Keeps(s.image.data, fds0, open, L0)

WithDir(s, d) == [s EXCEPT !.dir = d, !.state_dir = "NEED_WASHING"]

LEMMA WithDirFacts ==
  ASSUME NEW s \in States, NEW d \in DirType
  PROVE  /\ WithDir(s, d) \in States /\ SameDisk(s, WithDir(s, d))
         /\ WithDir(s, d).dir = d /\ WithDir(s, d).state_dir = "NEED_WASHING"
         /\ WithDir(s, d).bitmap = s.bitmap /\ WithDir(s, d).state_bitmap = s.state_bitmap
         /\ WithDir(s, d).fd_pool = s.fd_pool /\ WithDir(s, d).ret = s.ret
<1> DEFINE t == [s EXCEPT !.dir = d, !.state_dir = "NEED_WASHING"]
<1>1. t \in States
  BY DEF States, Cleanliness
<1>2. /\ t.dir = d /\ t.state_dir = "NEED_WASHING" /\ t.bitmap = s.bitmap
      /\ t.state_bitmap = s.state_bitmap /\ t.fd_pool = s.fd_pool /\ SameDisk(s, t) /\ t.ret = s.ret
  BY DEF States, SameDisk
<1> QED BY <1>1, <1>2 DEF WithDir

LEMMA HaltedFind ==
  ASSUME NEW s, Halted(s)
  PROVE  StaysHalted(s, find_empty_inode(s))
  BY DEF Halted, StaysHalted, find_empty_inode

LEMMA HaltedFlushIno ==
  ASSUME NEW s, Halted(s), NEW fd
  PROVE  StaysHalted(s, fd_inode_flush(s, fd))
<1>1. CASE s.fd_pool[fd].inode_state # "NEED_WASHING"
  BY <1>1 DEF fd_inode_flush, StaysHalted
<1>2. CASE s.fd_pool[fd].inode_state = "NEED_WASHING"
  <2> DEFINE u == [s EXCEPT !.fd_pool[fd].inode_state = "USEFUL"]
  <2>1. StaysHalted(s, u)
    BY DEF Halted, StaysHalted
  <2>2. u.mode # "ok"
    BY <2>1 DEF Halted, StaysHalted
  <2>3. fd_inode_flush(s, fd) = IDE_WRITE(u, s.fd_pool[fd].inode_idx, s.fd_pool[fd].inode)
    BY <1>2 DEF fd_inode_flush
  <2> HIDE DEF u
  <2>4. fd_inode_flush(s, fd) = u
    BY <2>2, <2>3 DEF IDE_WRITE, WriteImage
  <2> QED BY <2>1, <2>4
<1> QED BY <1>1, <1>2

LEMMA HaltedTrans ==
  ASSUME NEW s, Halted(s), NEW t, StaysHalted(s, t)
  PROVE  Halted(t) /\ \A u : StaysHalted(t, u) => StaysHalted(s, u)
  BY DEF Halted, StaysHalted

LEMMA HaltedSetInode ==
  ASSUME NEW s, Halted(s), NEW fd
  PROVE  StaysHalted(s, fd_set_inode(s, fd))
<1>1. PICK t : t = find_empty_inode(s)
  OBVIOUS
<1>2. Halted(t) /\ StaysHalted(s, t)
  BY <1>1, HaltedFind, HaltedTrans
<1>3. StaysHalted(t, fd_set_inode(s, fd))
  BY <1>1, <1>2 DEF fd_set_inode, Halted, StaysHalted
<1> QED BY <1>2, <1>3, HaltedTrans

LEMMA HaltedAllocNext ==
  ASSUME NEW s, Halted(s), NEW fd
  PROVE  StaysHalted(s, fd_alloc_next_inode(s, fd))
<1>1. PICK t : t = find_empty_inode(s)
  OBVIOUS
<1>2. Halted(t) /\ StaysHalted(s, t)
  BY <1>1, HaltedFind, HaltedTrans
<1>3. PICK v : v = [t EXCEPT !.fd_pool[fd].inode.next = t.ret,
                             !.fd_pool[fd].inode_state = "NEED_WASHING"]
  OBVIOUS
<1>4. Halted(v) /\ StaysHalted(t, v)
  BY <1>2, <1>3 DEF Halted, StaysHalted
<1>5. PICK u : u = fd_inode_flush(v, fd)
  OBVIOUS
<1>6. Halted(u) /\ StaysHalted(v, u)
  BY Zenon, <1>4, <1>5, HaltedFlushIno, HaltedTrans
<1>7. StaysHalted(u, fd_alloc_next_inode(s, fd))
  BY <1>1, <1>3, <1>5, <1>6 DEF fd_alloc_next_inode, Halted, StaysHalted
<1> QED BY <1>2, <1>4, <1>6, <1>7, HaltedTrans

(* No block is left.                                                       *)
LEMMA Overrun ==
  ASSUME NEW s, NEW open, NEW L, NEW fds0, NEW L0, Run(s, open, L, fds0, L0),
         Blocks \subseteq s.bitmap
  PROVE  Lost(find_empty_inode(s), open, fds0, L0)
<1> DEFINE t == [s EXCEPT !.mode = "overrun"]
<1>1. s \in States /\ s.mode = "ok"
  BY RunFacts
<1>2. find_empty_inode(s) = t
  BY <1>1 DEF find_empty_inode
<1>3. Halted(t) /\ t.mode = "overrun" /\ t.image = s.image
  BY <1>1 DEF Halted, States
<1>4. s.image \in ImageType
  BY <1>1 DEF States
<1> HIDE DEF t
<1> QED BY <1>2, <1>3, <1>4 DEF Lost, Run

LEMMA LostStays ==
  ASSUME NEW s, NEW open, NEW fds0, NEW L0, Lost(s, open, fds0, L0), NEW t, StaysHalted(s, t)
  PROVE  Lost(t, open, fds0, L0)
  BY HaltedTrans DEF Lost, StaysHalted

(* What find_empty_inode gives to a running call.                          *)
LEMMA RunFind ==
  ASSUME NEW s, NEW open, NEW L, NEW fds0, NEW L0, Run(s, open, L, fds0, L0),
         ~(Blocks \subseteq s.bitmap), NEW t, t = find_empty_inode(s)
  PROVE  /\ t \in States /\ t.mode = "ok" /\ t.image = s.image
         /\ t.ret \in Blocks /\ t.ret \notin s.bitmap /\ (t.ret = 0 <=> s.bitmap = {})
         /\ t.bitmap = s.bitmap \cup {t.ret} /\ t.state_bitmap = "NEED_WASHING"
         /\ t.dir = s.dir /\ t.state_dir = s.state_dir /\ t.fd_pool = s.fd_pool
<1>1. s \in States /\ s.mode = "ok" /\ (s.bitmap # {} => 0 \in s.bitmap)
  BY DEF Run, Good, Bits
<1> QED BY <1>1, FindFacts DEF SameDisk

\* The file of descriptor fd got one more inode, and fd holds it.
GotInode(s, t, open, L, fds0, L0, fd) ==
  \E G, b : /\ GrewIn(L, G, s.fd_pool[fd].index, b)
            /\ Run(t, open, G, fds0, L0) /\ Stays(s, t, fd) /\ Untouched(s, t, L)
            /\ t.fd_pool[fd].buffer_state = "GARBAGE" /\ t.fd_pool[fd].inode_state = "NEED_WASHING"
            /\ t.fd_pool[fd].inode_idx = b /\ IsRec(t.fd_pool[fd].inode, G, s.fd_pool[fd].index, ni(L, s.fd_pool[fd].index))
            /\ \A j \in Entries : t.dir[j].fileName = s.dir[j].fileName /\ t.dir[j].fileSize = s.dir[j].fileSize

LEMMA SetInode ==
  ASSUME NEW s, NEW open, NEW L, NEW fds0, NEW L0, Run(s, open, L, fds0, L0),
         NEW fd \in open, ni(L, s.fd_pool[fd].index) = 0,
         s.fd_pool[fd].buffer_state = "GARBAGE", s.fd_pool[fd].inode_state = "GARBAGE",
         NEW t, t = fd_set_inode(s, fd)
  PROVE  Lost(t, open, fds0, L0) \/ GotInode(s, t, open, L, fds0, L0, fd)
<1>0. PICK u : u = find_empty_inode(s)
  OBVIOUS
<1>1. CASE Blocks \subseteq s.bitmap
  <2>1. Lost(u, open, fds0, L0)
    BY <1>0, <1>1, Overrun
  <2>2. StaysHalted(u, t)
    BY <1>0, <2>1 DEF fd_set_inode, Lost, Halted, StaysHalted
  <2> QED BY <2>1, <2>2, LostStays
<1>2. CASE ~(Blocks \subseteq s.bitmap)
  <2> DEFINE f == s.fd_pool[fd]
             i == f.index
             b == u.ret
             g == [f EXCEPT !.inode_idx = b, !.inode = ZeroInode, !.inode_state = "NEED_WASHING"]
             d == [s.dir EXCEPT ![i].inodeOffset = b]
             v == WithFd(u, fd, g)
  <2>1. s \in States /\ s.mode = "ok" /\ fd \in Fds /\ open \subseteq Fds /\ f \in FdType /\ i \in Entries /\ Holds(f, L)
    BY RunFacts
  <2>2. /\ u \in States /\ u.mode = "ok" /\ u.image = s.image
        /\ b \in Blocks /\ b \notin s.bitmap /\ (b = 0 <=> s.bitmap = {})
        /\ u.bitmap = s.bitmap \cup {b} /\ u.state_bitmap = "NEED_WASHING"
        /\ u.dir = s.dir /\ u.state_dir = s.state_dir /\ u.fd_pool = s.fd_pool
    BY <1>0, <1>2, RunFind
  <2>3. t = [u EXCEPT !.fd_pool[fd].inode_idx = b, !.fd_pool[fd].inode = ZeroInode,
                      !.fd_pool[fd].inode_state = "NEED_WASHING",
                      !.dir[i].inodeOffset = b, !.state_dir = "NEED_WASHING"]
    BY <1>0, <2>2 DEF fd_set_inode
  <2> HIDE DEF b
  <2>3a. PICK w : w = [u EXCEPT !.fd_pool[fd].inode_idx = b, !.fd_pool[fd].inode = ZeroInode,
                                !.fd_pool[fd].inode_state = "NEED_WASHING"]
    OBVIOUS
  <2>3b. w = v
    BY ZenonT(30), <2>1, <2>2, <2>3a DEF WithFd, States
  <2>3c. t = [w EXCEPT !.dir[i].inodeOffset = b, !.state_dir = "NEED_WASHING"]
    BY <2>3, <2>3a
  <2>5. /\ d \in DirType /\ d[i].inodeOffset = b
        /\ \A j \in Entries : d[j].fileName = s.dir[j].fileName /\ d[j].fileSize = s.dir[j].fileSize
        /\ \A j \in Entries : j # i => d[j] = s.dir[j]
    <3>1. s.dir \in DirType
      BY <2>1 DEF States
    <3> QED BY ZenonT(30), <2>1, <2>2, <3>1 DEF DirType
  <2>6. /\ g \in FdType /\ g.index = i /\ g.inode_state = "NEED_WASHING" /\ g.inode = ZeroInode
        /\ g.inode_idx = b /\ g.buffer_state = "GARBAGE" /\ g.offset = f.offset /\ g.opened = f.opened
        /\ g.writable = f.writable
    <3>1. ZeroInode \in Inode
      BY BlockFacts DEF ZeroInode, Inode
    <3> QED BY <2>1, <2>2, <3>1 DEF FdType
  <2> HIDE DEF g, d
  <2>7. /\ v \in States /\ SameMemory(u, v) /\ SameDisk(u, v) /\ v.fd_pool[fd] = g
        /\ \A h \in Fds : h # fd => v.fd_pool[h] = u.fd_pool[h]
    BY SMTT(30), <2>1, <2>2, <2>6, WithFdFacts
  <2> HIDE DEF v
  <2>4. t = WithDir(v, d)
    <3>1. v.dir = s.dir
      BY <2>2, <2>7 DEF SameMemory
    <3>2. t = [v EXCEPT !.dir = [v.dir EXCEPT ![i].inodeOffset = b], !.state_dir = "NEED_WASHING"]
      BY <2>3b, <2>3c, <2>7 DEF States
    <3> QED BY <3>1, <3>2 DEF WithDir, d
  <2>8. /\ t \in States /\ SameDisk(v, t) /\ t.dir = d /\ t.state_dir = "NEED_WASHING"
        /\ t.bitmap = v.bitmap /\ t.state_bitmap = v.state_bitmap /\ t.fd_pool = v.fd_pool
    BY <2>4, <2>5, <2>7, WithDirFacts
  <2>9. /\ t.mode = "ok" /\ t.image = s.image /\ t.bitmap = s.bitmap \cup {b} /\ Clean(t)
        /\ t.fd_pool[fd] = g /\ \A h \in Fds : h # fd => t.fd_pool[h] = s.fd_pool[h]
    BY <2>2, <2>7, <2>8 DEF SameDisk, SameMemory, Clean
  <2>10. Good(s.image.data, s.dir, s.bitmap, s.fd_pool, open, L) /\ Grows(L0, L) /\ L \in Layouts
    BY RunFacts DEF Run
  <2>11. PICK G : GrewIn(L, G, i, b)
    BY <2>1, <2>2, <2>10, GrowIn
  <2>12. ino(G, i, 0) = b
    BY <2>11 DEF GrewIn
  <2>13. Good(s.image.data, d, s.bitmap \cup {b}, t.fd_pool, open, G)
    <3>1. \A h \in open : h # fd => t.fd_pool[h] = s.fd_pool[h]
      BY <2>1, <2>9
    <3>2. /\ t.fd_pool[fd].index = i /\ t.fd_pool[fd].buffer_state = "GARBAGE"
          /\ t.fd_pool[fd].inode_state = "NEED_WASHING" /\ t.fd_pool[fd].inode_idx = b /\ t.fd_pool[fd].inode = ZeroInode
      BY <2>6, <2>9
    <3>3. /\ \A j \in Entries : j # i => d[j] = s.dir[j]
          /\ d[i].fileName = s.dir[i].fileName /\ d[i].inodeOffset = ino(G, i, 0)
      BY <2>1, <2>5, <2>12
    <3>4. \A h \in open : s.fd_pool[h].index \in Entries
      BY <2>1, RunFacts
    <3>5. /\ \A c \in Blocks : ni(L, i) = 0 \/ c # ino(L, i, ni(L, i) - 1) => s.image.data[c] = s.image.data[c]
          /\ ~(ni(L, i) > 0)
      OBVIOUS
    <3>6. s.fd_pool[fd].inode_state # "NEED_WASHING"
      OBVIOUS
    <3> HIDE DEF f, i
    <3>7. s.fd_pool[fd].index = i
      BY DEF f, i
    <3> QED BY <2>1, <2>2, <2>10, <2>11, <3>1, <3>2, <3>3, <3>4, <3>5, <3>6, <3>7, AddIno
  <2>14. Grows(L0, G)
    BY <2>1, <2>10, <2>11, GrowsMore
  <2>15. Run(t, open, G, fds0, L0)
    BY <2>1, <2>8, <2>9, <2>13, <2>14 DEF Run
  <2>16. IsRec(ZeroInode, G, i, ni(L, i))
    <3>1. nb(L, i) <= Slot(ni(L, i), 0)
      BY <2>1, <2>10 DEF Good, Heads
    <3> QED BY <2>1, <2>2, <2>11, <3>1, RecEmpty
  <2>17. Stays(s, t, fd)
    BY <2>6, <2>9 DEF Stays
  <2>18. \A j \in Entries : t.dir[j].fileName = s.dir[j].fileName /\ t.dir[j].fileSize = s.dir[j].fileSize
    BY <2>5, <2>8
  <2>19. Untouched(s, t, L)
    BY <2>9 DEF Untouched
  <2> QED BY <2>6, <2>9, <2>11, <2>15, <2>16, <2>17, <2>18, <2>19 DEF GotInode
<1> QED BY <1>1, <1>2

LEMMA AllocNext ==
  ASSUME NEW s, NEW open, NEW L, NEW fds0, NEW L0, Run(s, open, L, fds0, L0),
         NEW fd \in open, NEW k \in Nat, k + 1 = ni(L, s.fd_pool[fd].index),
         s.fd_pool[fd].inode_idx = ino(L, s.fd_pool[fd].index, k),
         IsRec(s.fd_pool[fd].inode, L, s.fd_pool[fd].index, k),
         s.fd_pool[fd].buffer_state = "GARBAGE", s.fd_pool[fd].inode_state = "GARBAGE",
         NEW t, t = fd_alloc_next_inode(s, fd)
  PROVE  Lost(t, open, fds0, L0) \/ GotInode(s, t, open, L, fds0, L0, fd)
<1>0. PICK u : u = find_empty_inode(s)
  OBVIOUS
<1>a. PICK v : v = [u EXCEPT !.fd_pool[fd].inode.next = u.ret, !.fd_pool[fd].inode_state = "NEED_WASHING"]
  OBVIOUS
<1>b. PICK w : w = fd_inode_flush(v, fd)
  BY Zenon
<1>c. t = [w EXCEPT !.fd_pool[fd].inode_idx = u.ret, !.fd_pool[fd].inode = ZeroInode,
                    !.fd_pool[fd].inode_state = "NEED_WASHING"]
  BY <1>0, <1>a, <1>b, Zenon DEF fd_alloc_next_inode
<1>1. CASE Blocks \subseteq s.bitmap
  <2>1. Lost(u, open, fds0, L0)
    BY <1>0, <1>1, Overrun
  <2>2. Halted(v) /\ StaysHalted(u, v)
    BY <1>a, <2>1 DEF Lost, Halted, StaysHalted
  <2>3. Halted(w) /\ StaysHalted(v, w)
    BY <1>b, <2>2, HaltedFlushIno, HaltedTrans
  <2>4. StaysHalted(w, t)
    BY <1>c, <2>3 DEF Halted, StaysHalted
  <2> QED BY <2>1, <2>2, <2>3, <2>4, LostStays
<1>2. CASE ~(Blocks \subseteq s.bitmap)
  <2> DEFINE f == s.fd_pool[fd]
             i == f.index
             b == u.ret
             r == [f.inode EXCEPT !.next = b]
             g1 == [f EXCEPT !.inode = r, !.inode_state = "NEED_WASHING"]
             g2 == [g1 EXCEPT !.inode_state = "USEFUL"]
             g3 == [g2 EXCEPT !.inode_idx = b, !.inode = ZeroInode, !.inode_state = "NEED_WASHING"]
             x == WithFd(v, fd, g2)
  <2>1. s \in States /\ s.mode = "ok" /\ fd \in Fds /\ open \subseteq Fds /\ f \in FdType /\ i \in Entries
    BY RunFacts
  <2>2. /\ u \in States /\ u.mode = "ok" /\ u.image = s.image
        /\ b \in Blocks /\ b \notin s.bitmap /\ (b = 0 <=> s.bitmap = {})
        /\ u.bitmap = s.bitmap \cup {b} /\ u.state_bitmap = "NEED_WASHING"
        /\ u.dir = s.dir /\ u.state_dir = s.state_dir /\ u.fd_pool = s.fd_pool
    BY <1>0, <1>2, RunFind
  <2> HIDE DEF b
  <2>3. r \in Inode
    <3>1. f.inode \in Inode
      BY <2>1 DEF FdType
    <3> QED BY <2>2, <3>1 DEF Inode
  <2>4. /\ g1 \in FdType /\ g1.index = i /\ g1.inode_state = "NEED_WASHING" /\ g1.inode = r
        /\ g1.inode_idx = f.inode_idx /\ g1.buffer_state = "GARBAGE" /\ g1.offset = f.offset
        /\ g1.opened = f.opened /\ g1.writable = f.writable
    BY <2>1, <2>3 DEF FdType
  <2>5. v = WithFd(u, fd, g1)
    BY ZenonT(30), <1>a, <2>1, <2>2 DEF WithFd, States, FdType, b
  <2> HIDE DEF g1
  <2>6. /\ v \in States /\ SameMemory(u, v) /\ SameDisk(u, v) /\ v.fd_pool[fd] = g1
        /\ \A h \in Fds : h # fd => v.fd_pool[h] = u.fd_pool[h]
    <3>1. u \in States /\ fd \in Fds
      BY <2>1, <2>2
    <3>2. g1 \in FdType
      BY <2>4
    <3> HIDE DEF f, i, r, g2, g3, x
    <3> QED BY <2>5, <3>1, <3>2, SetFacts
  <2>7. /\ g2 \in FdType /\ g2.index = i /\ g2.inode_state = "USEFUL" /\ g2.inode = r
        /\ g2.inode_idx = f.inode_idx /\ g2.buffer_state = "GARBAGE" /\ g2.offset = f.offset
        /\ g2.opened = f.opened /\ g2.writable = f.writable
    BY <2>4 DEF FdType
  <2>8. [v EXCEPT !.fd_pool[fd].inode_state = "USEFUL"] = x
    BY <2>1, <2>6 DEF WithFd, States
  <2>9. w = IDE_WRITE(x, f.inode_idx, r)
    BY <1>b, <2>4, <2>6, <2>8 DEF fd_inode_flush
  <2> HIDE DEF g2
  <2>10. /\ x \in States /\ SameMemory(v, x) /\ SameDisk(v, x) /\ x.fd_pool[fd] = g2
         /\ \A h \in Fds : h # fd => x.fd_pool[h] = v.fd_pool[h]
    BY <2>1, <2>6, <2>7, WithFdFacts
  <2> HIDE DEF x
  <2>11. f.inode_idx \in Blocks
    BY <2>1 DEF FdType
  <2>12. /\ w \in States /\ SameMemory(x, w) /\ w.mode = "ok" /\ w.fd_pool = x.fd_pool
         /\ w.image.dir = x.image.dir /\ w.image.bitmap = x.image.bitmap
         /\ w.image.data[f.inode_idx] = r
         /\ \A e \in Blocks : e # f.inode_idx => w.image.data[e] = x.image.data[e]
    <3>1. x.mode = "ok"
      BY <2>2, <2>6, <2>10 DEF SameDisk
    <3> QED BY <2>3, <2>9, <2>10, <2>11, <3>1, WriteFacts
  <2>13. t = WithFd(w, fd, g3)
    <3>1. u.ret = b
      BY DEF b
    <3>2. w.fd_pool[fd] = g2
      BY <2>1, <2>10, <2>12
    <3>3. t = WithInode(w, fd, b, ZeroInode, "NEED_WASHING")
      BY <1>c, <3>1 DEF WithInode
    <3>4. w \in States /\ fd \in Fds
      BY <2>1, <2>12
    <3>5. g3 = InodeIn(g2, b, ZeroInode, "NEED_WASHING")
      BY DEF InodeIn
    <3> HIDE DEF g3
    <3> QED BY <3>2, <3>3, <3>4, <3>5, WithInodeIs
  <2>14. /\ g3 \in FdType /\ g3.index = i /\ g3.inode_state = "NEED_WASHING" /\ g3.inode = ZeroInode
         /\ g3.inode_idx = b /\ g3.buffer_state = "GARBAGE" /\ g3.offset = f.offset
         /\ g3.opened = f.opened /\ g3.writable = f.writable
    <3>1. ZeroInode \in Inode
      BY BlockFacts DEF ZeroInode, Inode
    <3> QED BY <2>2, <2>7, <3>1 DEF FdType
  <2> HIDE DEF g3
  <2>15. /\ t \in States /\ SameMemory(w, t) /\ SameDisk(w, t) /\ t.fd_pool[fd] = g3
         /\ \A h \in Fds : h # fd => t.fd_pool[h] = w.fd_pool[h]
    <3>1. w \in States /\ fd \in Fds
      BY <2>1, <2>12
    <3>2. g3 \in FdType
      BY <2>14
    <3> HIDE DEF f, i, r
    <3> QED BY <2>13, <3>1, <3>2, SetFacts
  <2>16. /\ t.mode = "ok" /\ t.bitmap = s.bitmap \cup {b} /\ t.dir = s.dir /\ t.state_dir = s.state_dir
         /\ t.state_bitmap = "NEED_WASHING"
    BY <2>2, <2>6, <2>10, <2>12, <2>15 DEF SameMemory, SameDisk
  <2>17. /\ t.image.dir = s.image.dir /\ t.image.data[f.inode_idx] = r
         /\ \A e \in Blocks : e # f.inode_idx => t.image.data[e] = s.image.data[e]
    BY <2>2, <2>6, <2>10, <2>12, <2>15 DEF SameDisk
  <2>18. t.fd_pool[fd] = g3 /\ \A h \in Fds : h # fd => t.fd_pool[h] = s.fd_pool[h]
    BY <2>2, <2>6, <2>10, <2>12, <2>15
  <2>19. Clean(t)
    BY <2>16, <2>17 DEF Clean, Run
  <2>20. Good(s.image.data, s.dir, s.bitmap, s.fd_pool, open, L) /\ Grows(L0, L) /\ L \in Layouts
         /\ Keeps(s.image.data, fds0, open, L0)
    BY RunFacts DEF Run
  <2>21. PICK G : GrewIn(L, G, i, b)
    BY <2>1, <2>2, <2>20, GrowIn
  <2>22. IsRec(r, G, i, k)
    BY <2>1, <2>2, <2>21, RecLinked
  <2>23. ni(L, i) \in Nat /\ ni(L, i) > 0 /\ ni(L, i) - 1 = k /\ k < ni(G, i) /\ ino(G, i, k) = f.inode_idx
         /\ ino(G, i, 0) = ino(L, i, 0)
    <3>1. ni(L, i) \in Nat
      BY <2>1, RunFacts
    <3>2. ni(L, i) > 0 /\ ni(L, i) - 1 = k /\ k # ni(L, i) /\ 0 # ni(L, i) /\ k < ni(L, i) + 1
      BY <3>1
    <3> QED BY <2>1, <2>21, <3>1, <3>2 DEF GrewIn
  <2>24. Good(t.image.data, s.dir, s.bitmap \cup {b}, t.fd_pool, open, G)
    <3>1. \A h \in open : h # fd => t.fd_pool[h] = s.fd_pool[h]
      BY <2>1, <2>18
    <3>2. /\ t.fd_pool[fd].index = i /\ t.fd_pool[fd].buffer_state = "GARBAGE"
          /\ t.fd_pool[fd].inode_state = "NEED_WASHING" /\ t.fd_pool[fd].inode_idx = b /\ t.fd_pool[fd].inode = ZeroInode
      BY <2>14, <2>18
    <3>3. s.dir[i].inodeOffset = ino(G, i, 0)
      BY <2>1, <2>20, <2>23 DEF Good, Heads
    <3>4. \A h \in open : s.fd_pool[h].index \in Entries
      BY <2>1, RunFacts
    <3>5. \A c \in Blocks : ni(L, i) = 0 \/ c # ino(L, i, ni(L, i) - 1) => t.image.data[c] = s.image.data[c]
      BY <2>17, <2>23
    <3>6. IsRec(t.image.data[ino(L, i, ni(L, i) - 1)], G, i, ni(L, i) - 1)
      BY <2>17, <2>22, <2>23
    <3>7. s.fd_pool[fd].inode_state # "NEED_WASHING"
      OBVIOUS
    <3> HIDE DEF f, i
    <3>8. s.fd_pool[fd].index = i
      BY DEF f, i
    <3> QED BY <2>1, <2>2, <2>20, <2>21, <3>1, <3>2, <3>3, <3>4, <3>5, <3>6, <3>7, <3>8, AddIno
  <2>25. Grows(L0, G) /\ Placed(G)
    BY <2>1, <2>20, <2>21, <2>24, GrowsMore DEF Good
  <2>26. Keeps(t.image.data, fds0, open, L0)
    <3>1. t.image.data[ino(G, i, k)] = r /\ \A e \in Blocks : e # ino(G, i, k) => t.image.data[e] = s.image.data[e]
      BY <2>17, <2>23
    <3> QED BY <2>1, <2>20, <2>22, <2>23, <2>25, <3>1, KeepsIno
  <2>27. Run(t, open, G, fds0, L0)
    BY <2>1, <2>15, <2>16, <2>19, <2>24, <2>25, <2>26 DEF Run
  <2>28. IsRec(ZeroInode, G, i, ni(L, i))
    <3>1. nb(L, i) <= Slot(ni(L, i), 0)
      BY <2>1, <2>20 DEF Good, Heads
    <3> QED BY <2>1, <2>2, <2>21, <3>1, RecEmpty
  <2>29. Stays(s, t, fd)
    BY <2>14, <2>18 DEF Stays
  <2>30. Untouched(s, t, L)
    <3>1. ASSUME NEW e \in Entries, NEW n \in Nat, n < nb(L, e)
          PROVE  blk(L, e, n) \in Blocks /\ blk(L, e, n) # f.inode_idx
      <4>1. Placed(L) /\ blk(L, e, n) \in Blocks /\ k < ni(L, i)
        BY <2>23, RunFacts
      <4>2. f.inode_idx = ino(L, i, k)
        OBVIOUS
      <4> QED BY <2>1, <3>1, <4>1, <4>2 DEF Placed
    <3> QED BY <2>17, <3>1 DEF Untouched
  <2> QED BY <2>14, <2>16, <2>18, <2>21, <2>27, <2>28, <2>29, <2>30 DEF GotInode
<1> QED BY <1>1, <1>2

\* The file of fd got one more data block, and fd holds it.
GotBlock(s, t, open, L, fds0, L0, fd) ==
  \E G, b : /\ GrewDa(L, G, s.fd_pool[fd].index, b)
            /\ Run(t, open, G, fds0, L0) /\ Stays(s, t, fd) /\ t.dir = s.dir /\ t.image = s.image
            /\ t.fd_pool[fd].buffer_state = "USEFUL" /\ t.fd_pool[fd].buffer_idx = b
            /\ t.fd_pool[fd].inode_state = "NEED_WASHING"
            /\ t.fd_pool[fd].inode_idx = s.fd_pool[fd].inode_idx

LEMMA FetchNew ==
  ASSUME NEW s, NEW open, NEW L, NEW fds0, NEW L0, Run(s, open, L, fds0, L0),
         NEW fd \in open, NEW k \in Nat, k < ni(L, s.fd_pool[fd].index),
         s.fd_pool[fd].inode_idx = ino(L, s.fd_pool[fd].index, k),
         IsRec(s.fd_pool[fd].inode, L, s.fd_pool[fd].index, k),
         s.fd_pool[fd].buffer_state = "GARBAGE",
         NEW j \in Slots, Slot(k, j) = nb(L, s.fd_pool[fd].index),
         NEW t, t = FetchBlock(s, fd, j)
  PROVE  Lost(t, open, fds0, L0) \/ GotBlock(s, t, open, L, fds0, L0, fd)
<1> DEFINE f == s.fd_pool[fd]
           i == f.index
<1>1. s \in States /\ s.mode = "ok" /\ fd \in Fds /\ open \subseteq Fds /\ f \in FdType /\ i \in Entries
  BY RunFacts
<1>2. PICK u : u = find_empty_inode(s)
  OBVIOUS
<1>3. f.inode.dataBlocks[j] = 0
  <2>1. Placed(L) /\ nb(L, i) \in Nat
    BY <1>1, RunFacts
  <2>2. f.inode.dataBlocks[j] = 0 <=> Slot(k, j) >= nb(L, i)
    BY <1>1, <2>1, RecFacts
  <2> QED BY <2>1, <2>2
<1>4. t = [u EXCEPT !.fd_pool[fd].inode_state = "NEED_WASHING", !.fd_pool[fd].inode.dataBlocks[j] = u.ret,
                    !.fd_pool[fd].buffer_idx = u.ret, !.fd_pool[fd].buffer_state = "USEFUL"]
  BY <1>2, <1>3 DEF FetchBlock
<1>5. CASE Blocks \subseteq s.bitmap
  <2>1. Lost(u, open, fds0, L0)
    BY Zenon, <1>2, <1>5, Overrun
  <2>2. StaysHalted(u, t)
    BY <1>4, <2>1 DEF Lost, Halted, StaysHalted
  <2> QED BY <2>1, <2>2, LostStays
<1>6. CASE ~(Blocks \subseteq s.bitmap)
  <2> DEFINE b == u.ret
             r == [f.inode EXCEPT !.dataBlocks[j] = b]
             g == [f EXCEPT !.inode_state = "NEED_WASHING", !.inode = r, !.buffer_idx = b, !.buffer_state = "USEFUL"]
  <2>2. /\ u \in States /\ u.mode = "ok" /\ u.image = s.image
        /\ b \in Blocks /\ b \notin s.bitmap /\ (b = 0 <=> s.bitmap = {})
        /\ u.bitmap = s.bitmap \cup {b} /\ u.state_bitmap = "NEED_WASHING"
        /\ u.dir = s.dir /\ u.state_dir = s.state_dir /\ u.fd_pool = s.fd_pool
    BY <1>2, <1>6, RunFind
  <2> HIDE DEF b
  <2>3. r \in Inode
    <3>1. f.inode \in Inode
      BY <1>1 DEF FdType
    <3> QED BY <2>2, <3>1 DEF Inode, Slots
  <2>4. /\ g \in FdType /\ g.index = i /\ g.inode_state = "NEED_WASHING" /\ g.inode = r
        /\ g.inode_idx = f.inode_idx /\ g.buffer_state = "USEFUL" /\ g.buffer_idx = b /\ g.offset = f.offset
        /\ g.opened = f.opened /\ g.writable = f.writable
    BY <1>1, <2>2, <2>3 DEF FdType
  <2>5. t = WithFd(u, fd, g)
    <3> DEFINE h == [f EXCEPT !.inode_state = "NEED_WASHING", !.inode = r]
    <3>1. u.ret = b /\ u.fd_pool[fd] = f /\ h \in FdType /\ fd \in Fds /\ u \in States
      BY <1>1, <2>2, <2>3 DEF b, FdType
    <3> HIDE DEF f, i
    <3>2. PICK v : v = [u EXCEPT !.fd_pool[fd].inode_state = "NEED_WASHING"]
      OBVIOUS
    <3>3. PICK w : w = [v EXCEPT !.fd_pool[fd].inode.dataBlocks[j] = b]
      OBVIOUS
    <3>4. t = [w EXCEPT !.fd_pool[fd].buffer_idx = b, !.fd_pool[fd].buffer_state = "USEFUL"]
      BY <1>4, <3>1, <3>2, <3>3
    <3>5. PICK f1 : f1 = [f EXCEPT !.inode_state = "NEED_WASHING"]
      OBVIOUS
    <3>6. f1 \in FdType /\ f1.inode = f.inode
      BY <1>1, <3>5 DEF FdType
    <3>7. v = WithFd(u, fd, f1)
      BY <3>1, <3>2, <3>5 DEF WithFd, States
    <3>8. v \in States /\ v.fd_pool[fd] = f1
      BY <3>1, <3>6, <3>7, WithFdFacts
    <3>9. w = [v EXCEPT !.fd_pool[fd].inode = r]
      BY <3>3, <3>6, <3>8
    <3>10. w = WithFd(v, fd, h)
      BY <3>1, <3>5, <3>8, <3>9 DEF WithFd, States
    <3> HIDE DEF h
    <3>11. w \in States /\ w.fd_pool[fd] = h
      BY <3>1, <3>8, <3>10, WithFdFacts
    <3>12. [h EXCEPT !.buffer_idx = b, !.buffer_state = "USEFUL"] = g
      BY DEF h
    <3> HIDE DEF g
    <3>13. t = WithFd(w, fd, g)
      <4>1. t = WithRef(w, fd, b, "USEFUL") /\ g = RefIn(h, b, "USEFUL")
        BY <3>4, <3>12 DEF WithRef, RefIn
      <4> QED BY <3>1, <3>11, <4>1, WithRefIs
    <3>14. w = WithFd(u, fd, h)
      BY <3>1, <3>7, <3>10, WithFdTwice
    <3> QED BY <3>1, <3>13, <3>14, WithFdTwice
  <2>6. /\ t \in States /\ SameMemory(u, t) /\ SameDisk(u, t) /\ t.fd_pool[fd] = g
        /\ \A h \in Fds : h # fd => t.fd_pool[h] = u.fd_pool[h]
    BY SMTT(30), <1>1, <2>2, <2>4, <2>5, SetFacts
  <2>7. /\ t.mode = "ok" /\ t.bitmap = s.bitmap \cup {b} /\ t.dir = s.dir /\ t.state_dir = s.state_dir
        /\ t.state_bitmap = "NEED_WASHING" /\ t.image = s.image
        /\ \A h \in Fds : h # fd => t.fd_pool[h] = s.fd_pool[h]
    BY <2>2, <2>6 DEF SameMemory, SameDisk
  <2>8. Clean(t)
    BY <2>7 DEF Clean, Run
  <2>9. Good(s.image.data, s.dir, s.bitmap, s.fd_pool, open, L) /\ Grows(L0, L) /\ L \in Layouts
         /\ Keeps(s.image.data, fds0, open, L0)
    BY RunFacts DEF Run
  <2>10. PICK G : GrewDa(L, G, i, b)
    BY <1>1, <2>2, <2>9, GrowDa
  <2>11. Good(s.image.data, s.dir, s.bitmap \cup {b}, t.fd_pool, open, G)
    <3>1. \A h \in open : h # fd => t.fd_pool[h] = s.fd_pool[h]
      BY <1>1, <2>7
    <3>2. /\ t.fd_pool[fd].index = i /\ t.fd_pool[fd].inode_state = "NEED_WASHING"
          /\ t.fd_pool[fd].inode_idx = ino(L, i, k) /\ IsRec(t.fd_pool[fd].inode, G, i, k)
          /\ t.fd_pool[fd].buffer_idx = b
      BY <1>1, <2>2, <2>4, <2>6, <2>10, RecFilled
    <3>3. \A h \in open : s.fd_pool[h].index \in Entries
      BY <1>1, RunFacts
    <3> HIDE DEF f, i
    <3>4. /\ s.fd_pool[fd].index = i /\ k < ni(L, i) /\ s.fd_pool[fd].inode_idx = ino(L, i, k)
          /\ IsRec(s.fd_pool[fd].inode, L, i, k) /\ Slot(k, j) = nb(L, i)
      BY DEF f, i
    <3>5. b \in Blocks /\ b \notin s.bitmap /\ (b = 0 <=> s.bitmap = {}) /\ i \in Entries
      BY <1>1, <2>2
    <3> QED BY <2>9, <2>10, <3>1, <3>2, <3>3, <3>4, <3>5, AddBlk
  <2>12. Run(t, open, G, fds0, L0)
    <3>1. Grows(L0, G)
      BY <1>1, <2>9, <2>10, GrowsMore
    <3> QED BY <1>1, <2>6, <2>7, <2>8, <2>9, <2>11, <3>1 DEF Run
  <2>13. Stays(s, t, fd)
    BY Zenon, <2>4, <2>6, <2>7 DEF Stays
  <2> QED BY <2>4, <2>6, <2>7, <2>10, <2>12, <2>13 DEF GotBlock
<1> QED BY <1>5, <1>6

(* An inode of the file is read: nobody else has changed it.               *)
LEMMA Load ==
  ASSUME NEW s, NEW open, NEW L, NEW fds0, NEW L0, Run(s, open, L, fds0, L0),
         NEW fd \in open, NEW k \in Nat, k < ni(L, s.fd_pool[fd].index),
         s.fd_pool[fd].inode_state # "NEED_WASHING",
         NEW b, b = ino(L, s.fd_pool[fd].index, k), NEW t, t = LoadInode(s, fd, b)
  PROVE  /\ Run(t, open, L, fds0, L0) /\ SameMemory(s, t) /\ Stays(s, t, fd) /\ Untouched(s, t, L)
         /\ t.fd_pool[fd].buffer_state = s.fd_pool[fd].buffer_state
         /\ t.fd_pool[fd].inode_state = "USEFUL" /\ t.fd_pool[fd].inode_idx = b
         /\ IsRec(t.fd_pool[fd].inode, L, s.fd_pool[fd].index, k)
<1> DEFINE f == s.fd_pool[fd]
           i == f.index
           r == s.image.data[b]
           g == [f EXCEPT !.inode_idx = b, !.inode = r, !.inode_state = "USEFUL"]
<1>1. /\ s \in States /\ fd \in Fds /\ open \subseteq Fds /\ f \in FdType /\ i \in Entries
      /\ b \in Blocks /\ Holds(f, L)
  BY RunFacts
<1>2. IsRec(r, L, i, k)
  <2>1. Apart(s.dir, s.fd_pool, open) /\ Written(s.image.data, s.fd_pool, open, L)
    BY DEF Run, Good
  <2>2. ASSUME NEW h \in open, Dirty(s.fd_pool, h, i, b) PROVE FALSE
    <3>1. h = fd
      BY <2>1, <2>2 DEF Apart, Dirty
    <3> QED BY <2>2, <3>1 DEF Dirty
  <2>3. k < ni(L, i) /\ b = ino(L, i, k)
    OBVIOUS
  <2> HIDE DEF f, i
  <2> QED BY <1>1, <2>1, <2>2, <2>3 DEF Written
<1>3. /\ g \in FdType /\ g.index = i /\ g.inode_state = "USEFUL" /\ g.inode = r /\ g.inode_idx = b
      /\ g.offset = f.offset /\ g.opened = f.opened /\ g.writable = f.writable
      /\ g.buffer_state = f.buffer_state /\ g.buffer_idx = f.buffer_idx
  <2>1. r \in Inode
    BY <1>2 DEF IsRec
  <2> QED BY <1>1, <2>1 DEF FdType
<1>4. t = WithFd(s, fd, g)
  <2>1. t = WithInode(s, fd, b, r, "USEFUL") /\ g = InodeIn(f, b, r, "USEFUL")
    BY DEF LoadInode, IDE_READ, WithInode, InodeIn
  <2> HIDE DEF r, g
  <2> QED BY <1>1, <2>1, WithInodeIs
<1>5. Holds(g, L)
  <2> HIDE DEF g
  <2> QED BY <1>1, <1>2, <1>3 DEF Holds
<1> HIDE DEF g
<1>6. Run(t, open, L, fds0, L0)
  BY <1>3, <1>4, <1>5, RunSet
<1>7. /\ SameMemory(s, t) /\ SameDisk(s, t) /\ t.fd_pool[fd] = g
      /\ \A h \in Fds : h # fd => t.fd_pool[h] = s.fd_pool[h]
  BY <1>1, <1>3, <1>4, WithFdFacts
<1>8. Untouched(s, t, L)
  BY <1>7 DEF SameDisk, Untouched
<1> QED BY <1>2, <1>3, <1>6, <1>7, <1>8 DEF Stays

GiveUp(s, fd) == [s EXCEPT !.fd_pool[fd].inode_state = "GARBAGE"]

(* The inode of a descriptor is written and given up.                      *)
LEMMA Drop ==
  ASSUME NEW s, NEW open, NEW L, NEW fds0, NEW L0, Run(s, open, L, fds0, L0),
         NEW fd \in open, NEW u, u = fd_inode_flush(s, fd),
         NEW t, t = GiveUp(u, fd)
  PROVE  /\ Run(t, open, L, fds0, L0) /\ SameMemory(s, t) /\ Stays(s, t, fd) /\ Untouched(s, t, L)
         /\ t.fd_pool[fd].buffer_state = s.fd_pool[fd].buffer_state
         /\ t.fd_pool[fd].inode_state = "GARBAGE"
         /\ t.fd_pool[fd].inode_idx = s.fd_pool[fd].inode_idx
         /\ t.fd_pool[fd].inode = s.fd_pool[fd].inode
<1> DEFINE f == s.fd_pool[fd]
           e == u.fd_pool[fd]
           g == [e EXCEPT !.inode_state = "GARBAGE"]
<1>1. s \in States /\ fd \in Fds /\ open \subseteq Fds /\ f \in FdType
  BY RunFacts
<1>2. /\ Run(u, open, L, fds0, L0) /\ SameMemory(s, u) /\ Untouched(s, u, L)
      /\ \A h \in Fds : h # fd => u.fd_pool[h] = s.fd_pool[h]
      /\ e = IF f.inode_state = "NEED_WASHING" THEN [f EXCEPT !.inode_state = "USEFUL"] ELSE f
  BY FlushIno
<1>3. /\ e.index = f.index /\ e.inode = f.inode /\ e.inode_idx = f.inode_idx
      /\ e.offset = f.offset /\ e.opened = f.opened /\ e.writable = f.writable
      /\ e.buffer_state = f.buffer_state /\ e.inode_state # "NEED_WASHING"
  BY <1>1, <1>2 DEF FdType
<1>4. u \in States /\ e \in FdType /\ Holds(e, L)
  BY <1>1, <1>2, RunFacts
<1>5. /\ g \in FdType /\ g.index = e.index /\ g.inode_state = "GARBAGE" /\ g.inode = e.inode /\ g.inode_idx = e.inode_idx
      /\ g.offset = e.offset /\ g.opened = e.opened /\ g.writable = e.writable
      /\ g.buffer_state = e.buffer_state /\ g.buffer_idx = e.buffer_idx
  BY <1>4 DEF FdType
<1>6. t = WithFd(u, fd, g)
  BY <1>1, <1>4 DEF GiveUp, WithFd, States
<1> HIDE DEF g
<1>7. Holds(g, L)
  BY <1>4, <1>5 DEF Holds
<1>2a. Run(u, open, L, fds0, L0)
  BY <1>2
<1>8. Run(t, open, L, fds0, L0)
  BY <1>2a, <1>3, <1>5, <1>6, <1>7, RunSet
<1>9. /\ SameMemory(u, t) /\ SameDisk(u, t) /\ t.fd_pool[fd] = g
      /\ \A h \in Fds : h # fd => t.fd_pool[h] = u.fd_pool[h]
  <2>1. u \in States /\ fd \in Fds /\ g \in FdType
    BY <1>1, <1>4, <1>5
  <2> QED BY <1>6, <2>1, SetFacts
<1>10. Untouched(s, t, L)
  BY <1>2, <1>9 DEF SameDisk, Untouched
<1> QED BY <1>2, <1>3, <1>5, <1>8, <1>9, <1>10 DEF Stays, SameMemory

(* An old block of the file is read into the buffer.                       *)
LEMMA FetchOld ==
  ASSUME NEW s, NEW open, NEW L, NEW fds0, NEW L0, Run(s, open, L, fds0, L0),
         NEW fd \in open, NEW k \in Nat, k < ni(L, s.fd_pool[fd].index),
         IsRec(s.fd_pool[fd].inode, L, s.fd_pool[fd].index, k),
         NEW j \in Slots, Slot(k, j) < nb(L, s.fd_pool[fd].index),
         NEW t, t = FetchBlock(s, fd, j)
  PROVE  /\ Run(t, open, L, fds0, L0) /\ SameMemory(s, t) /\ Stays(s, t, fd) /\ t.image = s.image
         /\ t.fd_pool[fd].buffer_state = "USEFUL"
         /\ t.fd_pool[fd].buffer_idx = blk(L, s.fd_pool[fd].index, Slot(k, j))
         /\ t.fd_pool[fd].buffer = s.image.data[blk(L, s.fd_pool[fd].index, Slot(k, j))]
         /\ t.fd_pool[fd].inode_state = s.fd_pool[fd].inode_state
         /\ t.fd_pool[fd].inode_idx = s.fd_pool[fd].inode_idx
<1> DEFINE f == s.fd_pool[fd]
           i == f.index
           b == f.inode.dataBlocks[j]
           m == Slot(k, j)
           c == s.image.data[b]
           g == [f EXCEPT !.buffer = c, !.buffer_idx = b, !.buffer_state = "USEFUL"]
<1>1. /\ s \in States /\ fd \in Fds /\ open \subseteq Fds /\ f \in FdType /\ i \in Entries
      /\ Holds(f, L) /\ Placed(L) /\ nb(L, i) \in Nat
  BY RunFacts
<1>2. m \in Nat /\ m < nb(L, i) /\ b = blk(L, i, m) /\ b # 0
  <2>1. m \in Nat /\ (b = 0 <=> m >= nb(L, i)) /\ (b # 0 => b = blk(L, i, m))
    BY <1>1, RecFacts
  <2>2. m < nb(L, i)
    OBVIOUS
  <2> QED BY <1>1, <2>1, <2>2
<1>3. c \in DataSector /\ b \in Blocks
  <2>1. Written(s.image.data, s.fd_pool, open, L)
    BY DEF Run, Good
  <2>1a. b \in Blocks
    BY <1>1, <1>2, RunFacts
  <2>2. \A e \in Entries, n \in Nat : n < ni(L, e) => b # ino(L, e, n)
    BY <1>1, <1>2 DEF Placed
  <2> HIDE DEF b
  <2> QED BY <2>1, <2>1a, <2>2 DEF Written
<1>4. t = WithFd(s, fd, g)
  <2>1. t = WithBuffer(s, fd, b, c, "USEFUL")
    BY <1>2 DEF FetchBlock, IDE_READ, WithBuffer
  <2> HIDE DEF b, c
  <2>2. g = BufferIn(f, b, c, "USEFUL")
    BY DEF BufferIn
  <2> HIDE DEF g
  <2> QED BY <1>1, <2>1, <2>2, WithBufferIs
<1> HIDE DEF b, c
<1>5. /\ g \in FdType /\ g.index = i /\ g.inode_state = f.inode_state /\ g.inode = f.inode /\ g.inode_idx = f.inode_idx
      /\ g.offset = f.offset /\ g.opened = f.opened /\ g.writable = f.writable
      /\ g.buffer_state = "USEFUL" /\ g.buffer_idx = b /\ g.buffer = c
  BY <1>1, <1>3 DEF FdType
<1>5a. c = s.image.data[b]
  BY DEF c
<1> HIDE DEF g, m
<1>6. Holds(g, L)
  BY <1>1, <1>2, <1>5 DEF Holds
<1>7. Run(t, open, L, fds0, L0)
  BY <1>4, <1>5, <1>6, RunSet
<1>8. /\ SameMemory(s, t) /\ SameDisk(s, t) /\ t.fd_pool[fd] = g
      /\ \A h \in Fds : h # fd => t.fd_pool[h] = s.fd_pool[h]
  BY <1>1, <1>4, <1>5, WithFdFacts
<1>9. t.fd_pool[fd].buffer_idx = blk(L, i, Slot(k, j)) /\ t.fd_pool[fd].buffer = s.image.data[blk(L, i, Slot(k, j))]
  BY <1>2, <1>5, <1>5a, <1>8 DEF m
<1> QED BY <1>5, <1>7, <1>8, <1>9 DEF Stays, SameDisk

-----------------------------------------------------------------------------
(* Where a descriptor is in its file.                                      *)

\* The buffer is empty at the start of a block, the inode at the start of the
\* file; elsewhere they are those of the cell before the offset.
At(f, L) ==
  /\ f.buffer_state = "GARBAGE" <=> f.offset % SECTSIZE = 0
  /\ f.inode_state = "GARBAGE" <=> f.offset = 0
  /\ f.offset # 0 => f.inode_idx = ino(L, f.index, (f.offset - 1) \div INODE_CAPACITY)
  /\ f.offset % SECTSIZE # 0 => f.buffer_idx = blk(L, f.index, f.offset \div SECTSIZE)

SameFiles(d, d2) == \A j \in Entries : d2[j].fileName = d[j].fileName /\ d2[j].fileSize = d[j].fileSize

\* fd holds inode k of its file, and no block.
Turned(s, t, open, L, fds0, L0, fd, k) ==
  \E G : /\ Run(t, open, G, fds0, L0) /\ Stays(s, t, fd) /\ SameFiles(s.dir, t.dir)
         /\ Grows(L, G) /\ Untouched(s, t, L)
         /\ k < ni(G, s.fd_pool[fd].index)
         /\ ni(G, s.fd_pool[fd].index) = IF k < ni(L, s.fd_pool[fd].index) THEN ni(L, s.fd_pool[fd].index) ELSE k + 1
         /\ \A j \in Entries : j # s.fd_pool[fd].index => ni(G, j) = ni(L, j)
         /\ \A j \in Entries : nb(G, j) = nb(L, j)
         /\ t.fd_pool[fd].buffer_state = "GARBAGE" /\ t.fd_pool[fd].inode_state # "GARBAGE"
         /\ t.fd_pool[fd].inode_idx = ino(G, s.fd_pool[fd].index, k)
         /\ IsRec(t.fd_pool[fd].inode, G, s.fd_pool[fd].index, k)

(* The four cases of fd_inode_state_init.                                  *)
LEMMA StateInit ==
  ASSUME NEW s, NEW fd, NEW o, o = s.fd_pool[fd].offset, NEW first,
         first = s.dir[s.fd_pool[fd].index].inodeOffset, NEW next, next = s.fd_pool[fd].inode.next
  PROVE  /\ o = 0 /\ first = NotAllocated => fd_inode_state_init(s, fd) = fd_set_inode(s, fd)
         /\ o = 0 /\ first # NotAllocated => fd_inode_state_init(s, fd) = LoadInode(s, fd, first)
         /\ o # 0 /\ next = 0 => fd_inode_state_init(s, fd) = fd_alloc_next_inode(s, fd)
         /\ o # 0 /\ next # 0 => fd_inode_state_init(s, fd) = LoadInode(s, fd, next)
  BY Zenon DEF fd_inode_state_init

LEMMA HaltedLoad ==
  ASSUME NEW s, Halted(s), NEW fd, NEW b
  PROVE  StaysHalted(s, LoadInode(s, fd, b))
  BY DEF Halted, StaysHalted, LoadInode

LEMMA HaltedInit ==
  ASSUME NEW s, Halted(s), NEW fd
  PROVE  StaysHalted(s, fd_inode_state_init(s, fd))
<1> DEFINE first == s.dir[s.fd_pool[fd].index].inodeOffset
           next == s.fd_pool[fd].inode.next
<1>1. \/ fd_inode_state_init(s, fd) = fd_set_inode(s, fd)
      \/ fd_inode_state_init(s, fd) = LoadInode(s, fd, first)
      \/ fd_inode_state_init(s, fd) = fd_alloc_next_inode(s, fd)
      \/ fd_inode_state_init(s, fd) = LoadInode(s, fd, next)
  BY StateInit
<1> QED BY <1>1, HaltedLoad, HaltedSetInode, HaltedAllocNext

LEMMA HaltedNext ==
  ASSUME NEW s, Halted(s), NEW fd
  PROVE  StaysHalted(s, NextInode(s, fd))
<1>1. PICK u : u = fd_inode_flush(s, fd)
  OBVIOUS
<1>2. PICK v : v = [u EXCEPT !.fd_pool[fd].inode_state = "GARBAGE"]
  OBVIOUS
<1>3. StaysHalted(s, u) /\ Halted(u)
  BY <1>1, HaltedFlushIno, HaltedTrans
<1>4. StaysHalted(u, v)
  BY <1>2, <1>3 DEF Halted, StaysHalted
<1>5. Halted(v) /\ StaysHalted(s, v)
  BY <1>3, <1>4, HaltedTrans
<1>6. StaysHalted(s, fd_inode_state_init(v, fd))
  BY <1>5, HaltedInit, HaltedTrans
<1>7. StaysHalted(s, s)
  BY DEF StaysHalted
<1> QED BY <1>1, <1>2, <1>6, <1>7 DEF NextInode

LEMMA HaltedBlock ==
  ASSUME NEW s, Halted(s), NEW fd, NEW j
  PROVE  StaysHalted(s, FetchBlock(s, fd, j))
<1>1. PICK u : u = find_empty_inode(s)
  OBVIOUS
<1>2. StaysHalted(s, u) /\ Halted(u)
  BY <1>1, HaltedFind, HaltedTrans
<1> QED BY <1>1, <1>2 DEF FetchBlock, Halted, StaysHalted

LEMMA HaltedFetch ==
  ASSUME NEW s, Halted(s), NEW fd
  PROVE  StaysHalted(s, fd_buffer_fetch(s, fd))
<1>1. StaysHalted(s, s)
  BY DEF StaysHalted
<1>2. StaysHalted(s, Panic(s))
  BY DEF StaysHalted, Panic, Halted
<1>3. ASSUME NEW j PROVE StaysHalted(s, FetchBlock(NextInode(s, fd), fd, j))
  BY HaltedNext, HaltedBlock, HaltedTrans
<1> QED BY <1>1, <1>2, <1>3, Zenon DEF fd_buffer_fetch

LEMMA HaltedFlushBuf ==
  ASSUME NEW s, Halted(s), NEW fd
  PROVE  StaysHalted(s, fd_buffer_flush(s, fd))
  BY DEF Halted, StaysHalted, fd_buffer_flush, IDE_WRITE, WriteImage

(* The inode a descriptor holds is the one its number says.                *)
LEMMA HeldIno ==
  ASSUME NEW L, Placed(L), NEW f, f.index \in Entries, Holds(f, L), f.inode_state # "GARBAGE",
         NEW k \in Nat, k < ni(L, f.index), f.inode_idx = ino(L, f.index, k)
  PROVE  IsRec(f.inode, L, f.index, k)
<1>1. PICK m \in Nat : /\ m < ni(L, f.index) /\ f.inode_idx = ino(L, f.index, m)
                       /\ IsRec(f.inode, L, f.index, m)
  BY DEF Holds
<1>2. m = k
  BY <1>1 DEF Placed
<1> QED BY <1>1, <1>2

LEMMA LoadTurns ==
  ASSUME NEW s, NEW open, NEW L, NEW fds0, NEW L0, Run(s, open, L, fds0, L0),
         NEW fd \in open, s.fd_pool[fd].buffer_state = "GARBAGE",
         s.fd_pool[fd].inode_state = "GARBAGE",
         NEW k \in Nat, k < ni(L, s.fd_pool[fd].index),
         NEW b, b = ino(L, s.fd_pool[fd].index, k), NEW t, t = LoadInode(s, fd, b)
  PROVE  Turned(s, t, open, L, fds0, L0, fd, k)
<1> DEFINE f == s.fd_pool[fd]
           i == f.index
<1>1. L \in Layouts
  BY RunFacts
<1>2. /\ Run(t, open, L, fds0, L0) /\ SameMemory(s, t) /\ Stays(s, t, fd) /\ Untouched(s, t, L)
      /\ t.fd_pool[fd].buffer_state = f.buffer_state
      /\ t.fd_pool[fd].inode_state = "USEFUL" /\ t.fd_pool[fd].inode_idx = b
      /\ IsRec(t.fd_pool[fd].inode, L, i, k)
  BY Load
<1>3. SameFiles(s.dir, t.dir)
  BY <1>2 DEF SameMemory, SameFiles
<1> QED BY <1>1, <1>2, <1>3, GrowsSame DEF Turned

LEMMA GotTurns ==
  ASSUME NEW s, NEW open, NEW L, NEW fds0, NEW L0, Run(s, open, L, fds0, L0),
         NEW fd \in open, NEW k, k = ni(L, s.fd_pool[fd].index),
         NEW t, GotInode(s, t, open, L, fds0, L0, fd)
  PROVE  Turned(s, t, open, L, fds0, L0, fd, k)
<1> DEFINE i == s.fd_pool[fd].index
<1>1. PICK G, b :
            /\ GrewIn(L, G, i, b)
            /\ Run(t, open, G, fds0, L0) /\ Stays(s, t, fd) /\ Untouched(s, t, L)
            /\ t.fd_pool[fd].buffer_state = "GARBAGE" /\ t.fd_pool[fd].inode_state = "NEED_WASHING"
            /\ t.fd_pool[fd].inode_idx = b /\ IsRec(t.fd_pool[fd].inode, G, i, k)
            /\ \A j \in Entries : t.dir[j].fileName = s.dir[j].fileName /\ t.dir[j].fileSize = s.dir[j].fileSize
  BY DEF GotInode
<1>2. L \in Layouts /\ i \in Entries /\ k \in Nat
  BY RunFacts
<1>3. /\ ni(G, i) = k + 1 /\ \A j \in Entries : j # i => ni(G, j) = ni(L, j)
      /\ \A j \in Entries : nb(G, j) = nb(L, j)
      /\ ino(G, i, k) = b
  BY <1>1 DEF GrewIn
<1>4. Grows(L, G)
  BY <1>1, <1>2, GrowsSame, GrowsMore
<1>5. SameFiles(s.dir, t.dir)
  BY <1>1 DEF SameFiles
<1>6. k < ni(G, i) /\ ni(G, i) = IF k < ni(L, i) THEN ni(L, i) ELSE k + 1
  BY <1>2, <1>3
<1> HIDE DEF i
<1> QED BY <1>1, <1>3, <1>4, <1>5, <1>6 DEF Turned, i

LEMMA FirstTurn ==
  ASSUME NEW s, NEW open, NEW L, NEW fds0, NEW L0, Run(s, open, L, fds0, L0),
         NEW fd \in open, s.fd_pool[fd].offset = 0,
         s.fd_pool[fd].buffer_state = "GARBAGE", s.fd_pool[fd].inode_state = "GARBAGE",
         NEW t, t = fd_inode_state_init(s, fd)
  PROVE  Lost(t, open, fds0, L0) \/ Turned(s, t, open, L, fds0, L0, fd, 0)
<1> DEFINE f == s.fd_pool[fd]
           i == f.index
           first == s.dir[i].inodeOffset
<1>1. i \in Entries /\ ni(L, i) \in Nat /\ ino(L, i, 0) \in Blocks
  BY RunFacts
<1>2. /\ ni(L, i) > 0 => first = ino(L, i, 0)
      /\ ni(L, i) = 0 => first = NotAllocated
  <2>1. Apart(s.dir, s.fd_pool, open) /\ Heads(s.dir, L)
    BY DEF Run, Good
  <2>2. s.dir[i].fileName # ""
    BY <2>1 DEF Apart
  <2> QED BY <1>1, <2>1, <2>2 DEF Heads, HasBlocks
<1>3. CASE ni(L, i) = 0
  <2>1. t = fd_set_inode(s, fd)
    BY <1>2, <1>3, StateInit
  <2>2. Lost(t, open, fds0, L0) \/ GotInode(s, t, open, L, fds0, L0, fd)
    BY <1>3, <2>1, SetInode
  <2> QED BY <1>3, <2>2, GotTurns
<1>4. CASE ni(L, i) > 0
  <2>1. first # NotAllocated
    BY <1>1, <1>2, <1>4, BlockFacts
  <2>2. t = LoadInode(s, fd, first)
    BY <2>1, StateInit
  <2>3. first = ino(L, i, 0) /\ 0 \in Nat /\ 0 < ni(L, i)
    BY <1>1, <1>2, <1>4
  <2> HIDE DEF first
  <2> QED BY <2>2, <2>3, LoadTurns
<1> QED BY <1>1, <1>3, <1>4

LEMMA LaterTurn ==
  ASSUME NEW s, NEW open, NEW L, NEW fds0, NEW L0, Run(s, open, L, fds0, L0),
         NEW fd \in open, s.fd_pool[fd].offset # 0,
         s.fd_pool[fd].buffer_state = "GARBAGE", s.fd_pool[fd].inode_state = "GARBAGE",
         NEW k \in Nat, k < ni(L, s.fd_pool[fd].index),
         s.fd_pool[fd].inode_idx = ino(L, s.fd_pool[fd].index, k),
         IsRec(s.fd_pool[fd].inode, L, s.fd_pool[fd].index, k),
         NEW t, t = fd_inode_state_init(s, fd)
  PROVE  Lost(t, open, fds0, L0) \/ Turned(s, t, open, L, fds0, L0, fd, k + 1)
<1> DEFINE f == s.fd_pool[fd]
           i == f.index
           next == f.inode.next
<1>1. i \in Entries /\ ni(L, i) \in Nat /\ Placed(L)
  BY RunFacts
<1>2. (next = 0 <=> k + 1 = ni(L, i)) /\ (next # 0 => next = ino(L, i, k + 1))
  BY <1>1, RecFacts
<1>3. CASE next = 0
  <2>1. t = fd_alloc_next_inode(s, fd)
    BY <1>3, StateInit
  <2>2. Lost(t, open, fds0, L0) \/ GotInode(s, t, open, L, fds0, L0, fd)
    BY <1>2, <1>3, <2>1, AllocNext
  <2> QED BY <1>2, <1>3, <2>2, GotTurns
<1>4. CASE next # 0
  <2>1. t = LoadInode(s, fd, next)
    BY <1>4, StateInit
  <2>2. k + 1 \in Nat /\ k + 1 < ni(L, i) /\ next = ino(L, i, k + 1)
    BY <1>1, <1>2, <1>4
  <2> HIDE DEF next
  <2> QED BY <2>1, <2>2, LoadTurns
<1> QED BY <1>3, <1>4

(* The offset of a descriptor in a file that has the blocks of its size.   *)
LEMMA Where ==
  ASSUME NEW L, NEW d, Sized(d, L), NEW f, f.index \in Entries, f.offset \in Nat,
         d[f.index].fileSize \in Nat, f.offset <= d[f.index].fileSize, At(f, L),
         NEW o, o = f.offset, NEW k, k = o \div INODE_CAPACITY
  PROVE  /\ k \in Nat /\ o \div SECTSIZE \in Nat
         /\ o # 0 => /\ (o - 1) \div INODE_CAPACITY \in Nat
                     /\ (o - 1) \div INODE_CAPACITY < ni(L, f.index)
                     /\ o % INODE_CAPACITY # 0 => (o - 1) \div INODE_CAPACITY = k
                     /\ o % INODE_CAPACITY = 0 => ((o - 1) \div INODE_CAPACITY) + 1 = k
         /\ o % INODE_CAPACITY # 0 => o # 0 /\ k < ni(L, f.index)
         /\ o % SECTSIZE = 0 => o \div SECTSIZE <= nb(L, f.index)
         /\ o % SECTSIZE # 0 => /\ o \div SECTSIZE < nb(L, f.index)
                                /\ o % INODE_CAPACITY # 0
         /\ o = 0 => k = 0
<1> DEFINE size == d[f.index].fileSize
<1>1. /\ ni(L, f.index) = UpTo(size, INODE_CAPACITY) /\ nb(L, f.index) = UpTo(size, SECTSIZE)
  BY DEF Sized
<1>2. size \in Nat /\ o \in 0 .. size /\ o \in Nat
  OBVIOUS
<1> HIDE DEF size
<1>3. k \in Nat /\ o \div SECTSIZE \in Nat
  BY <1>2, Sizes, Division
<1>4. o # 0 => (o - 1) \div INODE_CAPACITY \in Nat
  <2>1. o # 0 => o - 1 \in Nat
    BY <1>2
  <2> QED BY <2>1, Sizes, Division
<1>5. o # 0 => (o - 1) \div INODE_CAPACITY < UpTo(size, INODE_CAPACITY)
  BY <1>2, Sizes, Boundary
<1>6. /\ o % INODE_CAPACITY # 0 => (o - 1) \div INODE_CAPACITY = k /\ k < UpTo(size, INODE_CAPACITY)
      /\ o # 0 /\ o % INODE_CAPACITY = 0 => k = ((o - 1) \div INODE_CAPACITY) + 1
  BY ZenonT(30), <1>2, Sizes, Boundary
<1>7. /\ o % SECTSIZE = 0 => o \div SECTSIZE <= UpTo(size, SECTSIZE)
      /\ o % SECTSIZE # 0 => o \div SECTSIZE < UpTo(size, SECTSIZE)
  BY <1>2, Sizes, Boundary
<1>8. o % SECTSIZE # 0 => o % INODE_CAPACITY # 0
  BY <1>2, InodeOfBlock
<1>9. o = 0 => k = 0 /\ o % INODE_CAPACITY = 0
  <2>1. 0 = INODE_CAPACITY * 0 + 0 /\ 0 \in 0 .. INODE_CAPACITY - 1 /\ 0 \in Nat
    BY Sizes
  <2> QED BY <2>1, Sizes, Quotient
<1> QED BY <1>1, <1>3, <1>4, <1>5, <1>6, <1>7, <1>8, <1>9

LEMMA NextTurns ==
  ASSUME NEW s, NEW open, NEW L, NEW fds0, NEW L0, Run(s, open, L, fds0, L0),
         NEW fd \in open, Sized(s.dir, L), At(s.fd_pool[fd], L),
         s.fd_pool[fd].offset <= s.dir[s.fd_pool[fd].index].fileSize,
         s.fd_pool[fd].buffer_state = "GARBAGE",
         NEW k, k = s.fd_pool[fd].offset \div INODE_CAPACITY,
         NEW t, t = NextInode(s, fd)
  PROVE  Lost(t, open, fds0, L0) \/ Turned(s, t, open, L, fds0, L0, fd, k)
<1> DEFINE f == s.fd_pool[fd]
           i == f.index
           o == f.offset
           p == (o - 1) \div INODE_CAPACITY
<1>1. /\ s \in States /\ fd \in Fds /\ open \subseteq Fds /\ f \in FdType /\ i \in Entries /\ L \in Layouts
      /\ Placed(L) /\ Holds(f, L) /\ ni(L, i) \in Nat
  BY RunFacts
<1>2. o \in Nat /\ s.dir[i].fileSize \in Nat
  <2>1. s.dir \in DirType /\ o \in Nat
    BY <1>1 DEF States, FdType
  <2>2. s.dir[i].fileSize \in 0 .. MaxFileSize
    BY <1>1, <2>1 DEF DirType
  <2> QED BY <2>1, <2>2
<1>3. /\ k \in Nat
      /\ o # 0 => /\ p \in Nat /\ p < ni(L, i)
                  /\ o % INODE_CAPACITY # 0 => p = k
                  /\ o % INODE_CAPACITY = 0 => p + 1 = k
      /\ o % INODE_CAPACITY # 0 => o # 0 /\ k < ni(L, i)
      /\ o = 0 => k = 0
  BY <1>1, <1>2, Where
<1>4. o # 0 => /\ f.inode_state # "GARBAGE" /\ f.inode_idx = ino(L, i, p) /\ IsRec(f.inode, L, i, p)
  <2>1. o # 0 => f.inode_state # "GARBAGE" /\ f.inode_idx = ino(L, i, p)
    BY DEF At
  <2> HIDE DEF p
  <2> QED BY <1>1, <1>3, <2>1, HeldIno
<1> HIDE DEF p
<1>5. CASE o % INODE_CAPACITY # 0
  <2>1. t = s
    BY <1>5 DEF NextInode
  <2>2. k < ni(L, i) /\ f.inode_state # "GARBAGE" /\ f.inode_idx = ino(L, i, k) /\ IsRec(f.inode, L, i, k)
    BY <1>3, <1>4, <1>5
  <2>3. Stays(s, s, fd) /\ SameFiles(s.dir, s.dir) /\ Grows(L, L)
    BY <1>1, GrowsSame DEF Stays, SameFiles
  <2>4. Untouched(s, s, L)
    BY DEF Untouched
  <2> QED BY <2>1, <2>2, <2>3, <2>4 DEF Turned
<1>6. CASE o % INODE_CAPACITY = 0
  <2>1. PICK u : u = fd_inode_flush(s, fd)
    OBVIOUS
  <2>2. PICK v : v = GiveUp(u, fd)
    OBVIOUS
  <2>3. t = fd_inode_state_init(v, fd)
    BY <1>6, <2>1, <2>2 DEF NextInode, GiveUp
  <2>4. /\ Run(v, open, L, fds0, L0) /\ SameMemory(s, v) /\ Stays(s, v, fd) /\ Untouched(s, v, L)
        /\ v.fd_pool[fd].buffer_state = "GARBAGE" /\ v.fd_pool[fd].inode_state = "GARBAGE"
        /\ v.fd_pool[fd].inode_idx = f.inode_idx /\ v.fd_pool[fd].inode = f.inode
    BY <2>1, <2>2, Drop
  <2>5. v.fd_pool[fd].index = i /\ v.fd_pool[fd].offset = o /\ v.dir = s.dir
    BY <2>4 DEF Stays, SameMemory
  <2>6. Lost(t, open, fds0, L0) \/ Turned(v, t, open, L, fds0, L0, fd, k)
    <3>1. CASE o = 0
      BY <1>3, <2>3, <2>4, <2>5, <3>1, FirstTurn
    <3>2. CASE o # 0
      <4>1. /\ p \in Nat /\ p < ni(L, v.fd_pool[fd].index) /\ p + 1 = k
            /\ v.fd_pool[fd].inode_idx = ino(L, v.fd_pool[fd].index, p)
            /\ IsRec(v.fd_pool[fd].inode, L, v.fd_pool[fd].index, p)
            /\ v.fd_pool[fd].offset # 0
        BY <1>3, <1>4, <1>6, <2>4, <2>5, <3>2
      <4>2. Lost(t, open, fds0, L0) \/ Turned(v, t, open, L, fds0, L0, fd, p + 1)
        BY Zenon, <2>3, <2>4, <4>1, LaterTurn
      <4> QED BY <4>1, <4>2
    <3> QED BY <3>1, <3>2
  <2>7. ASSUME Turned(v, t, open, L, fds0, L0, fd, k) PROVE Turned(s, t, open, L, fds0, L0, fd, k)
    <3>1. PICK G :
              /\ Run(t, open, G, fds0, L0) /\ Stays(v, t, fd) /\ SameFiles(v.dir, t.dir)
              /\ Grows(L, G) /\ Untouched(v, t, L) /\ k < ni(G, i)
              /\ ni(G, i) = IF k < ni(L, i) THEN ni(L, i) ELSE k + 1
              /\ \A j \in Entries : j # i => ni(G, j) = ni(L, j)
              /\ \A j \in Entries : nb(G, j) = nb(L, j)
              /\ t.fd_pool[fd].buffer_state = "GARBAGE" /\ t.fd_pool[fd].inode_state # "GARBAGE"
              /\ t.fd_pool[fd].inode_idx = ino(G, i, k)
              /\ IsRec(t.fd_pool[fd].inode, G, i, k)
      BY <2>5, <2>7 DEF Turned
    <3>2. Stays(s, t, fd)
      BY <2>4, <3>1 DEF Stays
    <3>3. Untouched(s, t, L)
      BY <2>4, <3>1 DEF Untouched
    <3> QED BY Zenon, <2>5, <3>1, <3>2, <3>3 DEF Turned
  <2> QED BY <2>6, <2>7
<1> QED BY <1>5, <1>6

\* fd has kept the block it held, or read block m of its file if there is one.
Filled(s, t, L, fd, m) ==
  LET f == s.fd_pool[fd]
      g == t.fd_pool[fd]
  IN  IF f.buffer_state # "GARBAGE"
        THEN g.buffer_state = f.buffer_state /\ g.buffer_idx = f.buffer_idx /\ g.buffer = f.buffer
        ELSE /\ g.buffer_state = "USEFUL"
             /\ m < nb(L, f.index) => g.buffer = s.image.data[blk(L, f.index, m)]

\* fd holds inode k and block m of its file, which has grown to have them.
Fetched(s, t, open, L, fds0, L0, fd, k, m) ==
  \E G : /\ Run(t, open, G, fds0, L0) /\ Stays(s, t, fd) /\ SameFiles(s.dir, t.dir)
         /\ Grows(L, G) /\ Untouched(s, t, L)
         /\ k < ni(G, s.fd_pool[fd].index)
         /\ ni(G, s.fd_pool[fd].index) = IF k < ni(L, s.fd_pool[fd].index) THEN ni(L, s.fd_pool[fd].index) ELSE k + 1
         /\ \A j \in Entries : j # s.fd_pool[fd].index => ni(G, j) = ni(L, j)
         /\ m < nb(G, s.fd_pool[fd].index)
         /\ nb(G, s.fd_pool[fd].index) = IF m < nb(L, s.fd_pool[fd].index) THEN nb(L, s.fd_pool[fd].index) ELSE m + 1
         /\ \A j \in Entries : j # s.fd_pool[fd].index => nb(G, j) = nb(L, j)
         /\ t.fd_pool[fd].buffer_state # "GARBAGE" /\ t.fd_pool[fd].inode_state # "GARBAGE"
         /\ t.fd_pool[fd].inode_idx = ino(G, s.fd_pool[fd].index, k)
         /\ t.fd_pool[fd].buffer_idx = blk(G, s.fd_pool[fd].index, m)
         /\ Filled(s, t, L, fd, m)

LEMMA StaysTrans ==
  ASSUME NEW s, NEW t, NEW u, NEW fd, Stays(s, t, fd), Stays(t, u, fd)
  PROVE  Stays(s, u, fd)
  BY DEF Stays

LEMMA FetchTurned ==
  ASSUME NEW s, NEW u, NEW open, NEW L, NEW fds0, NEW L0, L \in Layouts, NEW fd \in open,
         s.fd_pool[fd].index \in Entries,
         NEW k \in Nat, Turned(s, u, open, L, fds0, L0, fd, k),
         s.fd_pool[fd].buffer_state = "GARBAGE",
         NEW j \in Slots, NEW m, m = Slot(k, j), m <= nb(L, s.fd_pool[fd].index),
         NEW t, t = FetchBlock(u, fd, j)
  PROVE  Lost(t, open, fds0, L0) \/ Fetched(s, t, open, L, fds0, L0, fd, k, m)
<1> DEFINE i == s.fd_pool[fd].index
<1>1. PICK G :
         /\ Run(u, open, G, fds0, L0) /\ Stays(s, u, fd) /\ SameFiles(s.dir, u.dir)
         /\ Grows(L, G) /\ Untouched(s, u, L)
         /\ k < ni(G, i)
         /\ ni(G, i) = IF k < ni(L, i) THEN ni(L, i) ELSE k + 1
         /\ \A e \in Entries : e # i => ni(G, e) = ni(L, e)
         /\ \A e \in Entries : nb(G, e) = nb(L, e)
         /\ u.fd_pool[fd].buffer_state = "GARBAGE" /\ u.fd_pool[fd].inode_state # "GARBAGE"
         /\ u.fd_pool[fd].inode_idx = ino(G, i, k)
         /\ IsRec(u.fd_pool[fd].inode, G, i, k)
  BY DEF Turned
<1>2. u.fd_pool[fd].index = i
  BY <1>1 DEF Stays
<1>3. m \in Nat /\ nb(L, i) \in Nat /\ i \in Entries /\ nb(G, i) = nb(L, i)
  BY <1>1, SlotFacts, LayoutFacts
<1> HIDE DEF i
<1>4. CASE m < nb(L, i)
  <2>1. /\ Run(t, open, G, fds0, L0) /\ SameMemory(u, t) /\ Stays(u, t, fd) /\ t.image = u.image
        /\ t.fd_pool[fd].buffer_state = "USEFUL"
        /\ t.fd_pool[fd].buffer_idx = blk(G, i, m) /\ t.fd_pool[fd].buffer = u.image.data[blk(G, i, m)]
        /\ t.fd_pool[fd].inode_state = u.fd_pool[fd].inode_state
        /\ t.fd_pool[fd].inode_idx = u.fd_pool[fd].inode_idx
    <3>1. /\ k < ni(G, u.fd_pool[fd].index) /\ IsRec(u.fd_pool[fd].inode, G, u.fd_pool[fd].index, k)
          /\ Slot(k, j) < nb(G, u.fd_pool[fd].index)
      BY <1>1, <1>2, <1>3, <1>4
    <3>2. /\ Run(t, open, G, fds0, L0) /\ SameMemory(u, t) /\ Stays(u, t, fd) /\ t.image = u.image
          /\ t.fd_pool[fd].buffer_state = "USEFUL"
          /\ t.fd_pool[fd].buffer_idx = blk(G, u.fd_pool[fd].index, Slot(k, j))
          /\ t.fd_pool[fd].buffer = u.image.data[blk(G, u.fd_pool[fd].index, Slot(k, j))]
          /\ t.fd_pool[fd].inode_state = u.fd_pool[fd].inode_state
          /\ t.fd_pool[fd].inode_idx = u.fd_pool[fd].inode_idx
      BY <1>1, <3>1, FetchOld
    <3> QED BY <1>2, <3>2
  <2>2. Stays(s, t, fd) /\ SameFiles(s.dir, t.dir)
    BY <1>1, <2>1, StaysTrans DEF SameMemory
  <2>3. /\ m < nb(G, i) /\ nb(G, i) = IF m < nb(L, i) THEN nb(L, i) ELSE m + 1
        /\ \A e \in Entries : e # i => nb(G, e) = nb(L, e)
    BY <1>1, <1>3, <1>4
  <2>4. Untouched(s, t, L)
    BY <1>1, <2>1 DEF Untouched
  <2>5. Filled(s, t, L, fd, m)
    <3>1. blk(G, i, m) = blk(L, i, m)
      BY <1>1, <1>3, <1>4 DEF Grows
    <3>2. u.image.data[blk(L, i, m)] = s.image.data[blk(L, i, m)]
      BY <1>1, <1>3, <1>4 DEF Untouched
    <3> QED BY <2>1, <3>1, <3>2 DEF Filled, i
  <2> QED BY <1>1, <2>1, <2>2, <2>3, <2>4, <2>5 DEF Fetched, i
<1>5. CASE m = nb(L, i)
  <2>1. Lost(t, open, fds0, L0) \/ GotBlock(u, t, open, G, fds0, L0, fd)
    <3>1. /\ k < ni(G, u.fd_pool[fd].index) /\ IsRec(u.fd_pool[fd].inode, G, u.fd_pool[fd].index, k)
          /\ u.fd_pool[fd].inode_idx = ino(G, u.fd_pool[fd].index, k)
          /\ Slot(k, j) = nb(G, u.fd_pool[fd].index)
      BY <1>1, <1>2, <1>3, <1>5
    <3> QED BY <1>1, <3>1, FetchNew
  <2>2. ASSUME GotBlock(u, t, open, G, fds0, L0, fd) PROVE Fetched(s, t, open, L, fds0, L0, fd, k, m)
    <3>1. PICK H, b :
            /\ GrewDa(G, H, i, b)
            /\ Run(t, open, H, fds0, L0) /\ Stays(u, t, fd) /\ t.dir = u.dir /\ t.image = u.image
            /\ t.fd_pool[fd].buffer_state = "USEFUL" /\ t.fd_pool[fd].buffer_idx = b
            /\ t.fd_pool[fd].inode_state = "NEED_WASHING"
            /\ t.fd_pool[fd].inode_idx = u.fd_pool[fd].inode_idx
      BY <1>2, <2>2 DEF GotBlock
    <3>2. /\ nb(H, i) = nb(G, i) + 1 /\ \A e \in Entries : e # i => nb(H, e) = nb(G, e)
          /\ \A e \in Entries : ni(H, e) = ni(G, e)
          /\ ino(H, i, k) = ino(G, i, k)
      BY <1>3, <3>1 DEF GrewDa
    <3>3. Grows(L, H)
      BY <1>1, <1>3, <3>1, GrowsMore
    <3>4. Stays(s, t, fd) /\ SameFiles(s.dir, t.dir)
      BY <1>1, <3>1, StaysTrans
    <3>5. /\ m < nb(H, i) /\ nb(H, i) = IF m < nb(L, i) THEN nb(L, i) ELSE m + 1
          /\ \A e \in Entries : e # i => nb(H, e) = nb(L, e)
      BY <1>1, <1>3, <1>5, <3>2
    <3>6. /\ k < ni(H, i) /\ ni(H, i) = IF k < ni(L, i) THEN ni(L, i) ELSE k + 1
          /\ \A e \in Entries : e # i => ni(H, e) = ni(L, e)
          /\ t.fd_pool[fd].inode_idx = ino(H, i, k)
      BY <1>1, <1>3, <3>1, <3>2
    <3>7. t.fd_pool[fd].buffer_idx = blk(H, i, m)
      BY <1>3, <1>5, <3>1 DEF GrewDa
    <3>8. Untouched(s, t, L)
      BY <1>1, <3>1 DEF Untouched
    <3>9. Filled(s, t, L, fd, m)
      BY <1>3, <1>5, <3>1 DEF Filled, i
    <3> QED BY <3>1, <3>3, <3>4, <3>5, <3>6, <3>7, <3>8, <3>9 DEF Fetched, i
  <2> QED BY <2>1, <2>2
<1> QED BY <1>3, <1>4, <1>5 DEF i

LEMMA Fetch ==
  ASSUME NEW s, NEW open, NEW L, NEW fds0, NEW L0, Run(s, open, L, fds0, L0),
         NEW fd \in open, Sized(s.dir, L), At(s.fd_pool[fd], L),
         s.fd_pool[fd].offset <= s.dir[s.fd_pool[fd].index].fileSize,
         NEW k, k = s.fd_pool[fd].offset \div INODE_CAPACITY,
         NEW m, m = s.fd_pool[fd].offset \div SECTSIZE,
         NEW t, t = fd_buffer_fetch(s, fd)
  PROVE  Lost(t, open, fds0, L0) \/ Fetched(s, t, open, L, fds0, L0, fd, k, m)
<1> DEFINE f == s.fd_pool[fd]
           i == f.index
           o == f.offset
           j == m % N_INODE_DATABLOCK
           p == (o - 1) \div INODE_CAPACITY
<1>1. /\ s \in States /\ fd \in Fds /\ open \subseteq Fds /\ f \in FdType /\ i \in Entries /\ L \in Layouts
      /\ ni(L, i) \in Nat /\ nb(L, i) \in Nat
  BY RunFacts
<1>2. o \in Nat /\ s.dir[i].fileSize \in Nat
  <2>1. s.dir \in DirType /\ o \in Nat
    BY <1>1 DEF States, FdType
  <2>2. s.dir[i].fileSize \in 0 .. MaxFileSize
    BY <1>1, <2>1 DEF DirType
  <2> QED BY <2>1, <2>2
<1>3. /\ k \in Nat /\ m \in Nat
      /\ o # 0 /\ o % INODE_CAPACITY # 0 => p = k
      /\ o % INODE_CAPACITY # 0 => o # 0 /\ k < ni(L, i)
      /\ o % SECTSIZE = 0 => m <= nb(L, i)
      /\ o % SECTSIZE # 0 => m < nb(L, i) /\ o % INODE_CAPACITY # 0
  BY SMTT(30), <1>1, <1>2, Where
<1> HIDE DEF p
<1>4. CASE o % SECTSIZE # 0
  <2>1. /\ f.buffer_state # "GARBAGE" /\ f.inode_state # "GARBAGE" /\ f.inode_idx = ino(L, i, k)
        /\ f.buffer_idx = blk(L, i, m)
    BY <1>3, <1>4 DEF At, p
  <2>2. t = s
    BY <2>1, Zenon DEF fd_buffer_fetch
  <2>3. Stays(s, s, fd) /\ SameFiles(s.dir, s.dir) /\ Grows(L, L)
    BY <1>1, GrowsSame DEF Stays, SameFiles
  <2>4. k < ni(L, i) /\ m < nb(L, i)
    BY <1>3, <1>4
  <2>5. Untouched(s, s, L) /\ Filled(s, s, L, fd, m)
    BY <2>1 DEF Untouched, Filled
  <2> QED BY <2>1, <2>2, <2>3, <2>4, <2>5 DEF Fetched
<1>5. CASE o % SECTSIZE = 0
  <2>1. f.buffer_state = "GARBAGE"
    BY <1>5 DEF At
  <2>2. PICK u : u = NextInode(s, fd)
    OBVIOUS
  <2>3. t = FetchBlock(u, fd, j)
    <3>1. ~(f.buffer_state # "GARBAGE") /\ ~(f.offset % SECTSIZE # 0)
      BY <1>5, <2>1
    <3> QED BY <2>2, <3>1, Zenon DEF fd_buffer_fetch
  <2>4. j \in Slots /\ m = Slot(k, j) /\ m <= nb(L, i)
    <3>1. k = m \div N_INODE_DATABLOCK
      BY <1>2, InodeOfBlock
    <3> QED BY <1>3, <1>5, <3>1, SlotFacts
  <2>5. Lost(u, open, fds0, L0) \/ Turned(s, u, open, L, fds0, L0, fd, k)
    BY <2>1, <2>2, NextTurns
  <2> HIDE DEF j
  <2>6. ASSUME Lost(u, open, fds0, L0) PROVE Lost(t, open, fds0, L0)
    <3>1. StaysHalted(u, t)
      BY <2>3, <2>6, HaltedBlock DEF Lost
    <3> QED BY <2>6, <3>1, LostStays
  <2> QED BY <1>1, <1>3, <2>1, <2>3, <2>4, <2>5, <2>6, FetchTurned
<1> QED BY <1>4, <1>5

-----------------------------------------------------------------------------
(* A round of the loops of fs_write and fs_read moves a descriptor to the  *)
(* end of a chunk of a block.                                              *)

LEMMA SizedAfter ==
  ASSUME NEW L, NEW d, Sized(d, L), NEW G, NEW i \in Entries, d[i].fileSize \in Nat,
         NEW o \in Nat, NEW count \in Nat \ {0}, (o % SECTSIZE) + count <= SECTSIZE,
         NEW k, k = o \div INODE_CAPACITY, NEW m, m = o \div SECTSIZE,
         ni(G, i) = IF k < ni(L, i) THEN ni(L, i) ELSE k + 1,
         \A j \in Entries : j # i => ni(G, j) = ni(L, j),
         nb(G, i) = IF m < nb(L, i) THEN nb(L, i) ELSE m + 1,
         \A j \in Entries : j # i => nb(G, j) = nb(L, j),
         NEW d2, \A j \in Entries : j # i => d2[j].fileSize = d[j].fileSize,
         d2[i].fileSize = IF d[i].fileSize < o + count THEN o + count ELSE d[i].fileSize
  PROVE  Sized(d2, G)
<1> DEFINE size == d[i].fileSize
           last == o + count
           size2 == d2[i].fileSize
<1>1. /\ (last - 1) \div SECTSIZE = m /\ (last - 1) \div INODE_CAPACITY = k
  BY Chunk
<1>2. size \in Nat /\ last \in Nat \ {0} /\ o < last /\ size2 = IF size < last THEN last ELSE size
  OBVIOUS
<1>3. ni(L, i) = UpTo(size, INODE_CAPACITY) /\ nb(L, i) = UpTo(size, SECTSIZE)
  BY DEF Sized
<1> HIDE DEF size, last, size2
<1>4. k \in Nat /\ m \in Nat /\ UpTo(size, INODE_CAPACITY) \in Nat /\ UpTo(size, SECTSIZE) \in Nat
  BY <1>2, Sizes, Division, RoundedUp
<1>5. /\ size <= last => UpTo(size, INODE_CAPACITY) <= k + 1
      /\ size < last => UpTo(last, INODE_CAPACITY) = k + 1
      /\ size >= last => k + 1 <= UpTo(size, INODE_CAPACITY)
  <2>1. (last - 1) \div INODE_CAPACITY = o \div INODE_CAPACITY /\ INODE_CAPACITY \in Nat \ {0}
    BY <1>1, Sizes
  <2>2. /\ size <= last => UpTo(size, INODE_CAPACITY) <= (o \div INODE_CAPACITY) + 1
        /\ size < last => UpTo(last, INODE_CAPACITY) = (o \div INODE_CAPACITY) + 1
        /\ size >= last => (o \div INODE_CAPACITY) + 1 <= UpTo(size, INODE_CAPACITY)
    BY <1>2, <2>1, Growth
  <2> QED BY <2>2
<1>6. /\ size <= last => UpTo(size, SECTSIZE) <= m + 1
      /\ size < last => UpTo(last, SECTSIZE) = m + 1
      /\ size >= last => m + 1 <= UpTo(size, SECTSIZE)
  <2>1. (last - 1) \div SECTSIZE = o \div SECTSIZE /\ SECTSIZE \in Nat \ {0}
    BY <1>1, Sizes
  <2>2. /\ size <= last => UpTo(size, SECTSIZE) <= (o \div SECTSIZE) + 1
        /\ size < last => UpTo(last, SECTSIZE) = (o \div SECTSIZE) + 1
        /\ size >= last => (o \div SECTSIZE) + 1 <= UpTo(size, SECTSIZE)
    BY <1>2, <2>1, Growth
  <2> QED BY <2>2
<1>7. ni(G, i) = UpTo(size2, INODE_CAPACITY) /\ nb(G, i) = UpTo(size2, SECTSIZE)
  <2>1. CASE size < last
    BY <1>2, <1>3, <1>4, <1>5, <1>6, <2>1
  <2>2. CASE size >= last
    BY <1>2, <1>3, <1>4, <1>5, <1>6, <2>2
  <2> QED BY <1>2, <2>1, <2>2
<1> QED BY <1>7 DEF Sized, size2

LEMMA AtAfter ==
  ASSUME NEW G, NEW o \in Nat, NEW count \in Nat \ {0}, (o % SECTSIZE) + count <= SECTSIZE,
         NEW g, g.offset = o + count, g.inode_state # "GARBAGE",
         g.inode_idx = ino(G, g.index, o \div INODE_CAPACITY),
         g.buffer_state = "GARBAGE" <=> (o % SECTSIZE) + count = SECTSIZE,
         g.buffer_idx = blk(G, g.index, o \div SECTSIZE)
  PROVE  At(g, G)
<1>1. /\ (o + count - 1) \div INODE_CAPACITY = o \div INODE_CAPACITY
      /\ (o + count) % SECTSIZE = 0 <=> (o % SECTSIZE) + count = SECTSIZE
  BY Chunk
<1>2. o + count # 0
  OBVIOUS
<1>3. (o + count) % SECTSIZE # 0 => (o + count) \div SECTSIZE = o \div SECTSIZE
  BY Chunk
<1> QED BY <1>1, <1>2, <1>3 DEF At

LEMMA AtOthers ==
  ASSUME NEW L, NEW G, Grows(L, G), NEW d, Sized(d, L), NEW f, f.index \in Entries, f.offset \in Nat,
         d[f.index].fileSize \in Nat, f.offset <= d[f.index].fileSize, At(f, L)
  PROVE  At(f, G)
<1> DEFINE o == f.offset
           p == (o - 1) \div INODE_CAPACITY
<1>1. o # 0 => p \in Nat /\ p < ni(L, f.index)
  BY Where
<1>2. o # 0 => ino(G, f.index, p) = ino(L, f.index, p)
  <2> HIDE DEF p
  <2> QED BY <1>1 DEF Grows
<1>3. o % SECTSIZE # 0 => blk(G, f.index, o \div SECTSIZE) = blk(L, f.index, o \div SECTSIZE)
  <2>1. o % SECTSIZE # 0 => o \div SECTSIZE \in Nat /\ o \div SECTSIZE < nb(L, f.index)
    BY Where
  <2> QED BY <2>1 DEF Grows
<1> QED BY <1>2, <1>3 DEF At

\* A call at work: its layout has the sizes of the directory, and every
\* descriptor in use is at its place.
Works(s, open, L, fds0, L0) ==
  /\ Run(s, open, L, fds0, L0) /\ Sized(s.dir, L)
  /\ \A h \in open : /\ At(s.fd_pool[h], L)
                     /\ s.fd_pool[h].offset <= s.dir[s.fd_pool[h].index].fileSize

\* From s to t, fd has moved count cells, and no other descriptor has changed.
Moves(s, t, fd, count) ==
  /\ \A h \in Fds : h # fd => t.fd_pool[h] = s.fd_pool[h]
  /\ t.fd_pool[fd].index = s.fd_pool[fd].index
  /\ t.fd_pool[fd].offset = s.fd_pool[fd].offset + count
  /\ t.fd_pool[fd].opened = s.fd_pool[fd].opened
  /\ t.fd_pool[fd].writable = s.fd_pool[fd].writable

LEMMA WorksFacts ==
  ASSUME NEW s, NEW open, NEW L, NEW fds0, NEW L0, Works(s, open, L, fds0, L0), NEW h \in open
  PROVE  /\ s.fd_pool[h] \in FdType /\ s.fd_pool[h].index \in Entries /\ s.fd_pool[h].offset \in Nat
         /\ s.dir \in DirType /\ s.dir[s.fd_pool[h].index].fileSize \in 0 .. MaxFileSize
         /\ s.dir[s.fd_pool[h].index].fileSize \in Nat
<1>1. s \in States /\ h \in Fds
  BY RunFacts DEF Works
<1>2. /\ s.fd_pool[h] \in FdType /\ s.fd_pool[h].index \in Entries /\ s.fd_pool[h].offset \in Nat
      /\ s.dir \in DirType
  BY <1>1 DEF States, FdType
<1>3. s.dir[s.fd_pool[h].index].fileSize \in 0 .. MaxFileSize
  BY <1>2 DEF DirType
<1> QED BY <1>2, <1>3

(* The end of a round: descriptor fd has taken the chunk.                  *)
\* G has what L has and the cells of fd's chunk, in inode k and block m of the
\* file.
Covers(s, L, G, fd, k, m) ==
  LET i == s.fd_pool[fd].index
  IN  /\ Grows(L, G)
      /\ k = s.fd_pool[fd].offset \div INODE_CAPACITY /\ m = s.fd_pool[fd].offset \div SECTSIZE
      /\ ni(G, i) = IF k < ni(L, i) THEN ni(L, i) ELSE k + 1
      /\ \A j \in Entries : j # i => ni(G, j) = ni(L, j)
      /\ nb(G, i) = IF m < nb(L, i) THEN nb(L, i) ELSE m + 1
      /\ \A j \in Entries : j # i => nb(G, j) = nb(L, j)

\* In t, fd has moved over the chunk, with inode k and the block of the chunk,
\* or an empty buffer at the end of the block.
Passed(s, t, G, fd, k, count) ==
  /\ Moves(s, t, fd, count) /\ count \in Nat \ {0}
  /\ (s.fd_pool[fd].offset % SECTSIZE) + count <= SECTSIZE
  /\ t.fd_pool[fd].inode_state # "GARBAGE"
  /\ t.fd_pool[fd].inode_idx = ino(G, s.fd_pool[fd].index, k)
  /\ t.fd_pool[fd].buffer_idx = blk(G, s.fd_pool[fd].index, s.fd_pool[fd].offset \div SECTSIZE)
  /\ t.fd_pool[fd].buffer_state = "GARBAGE" <=> (s.fd_pool[fd].offset % SECTSIZE) + count = SECTSIZE

\* The file reaches to the end of the chunk.
Stretched(s, t, fd, count) ==
  LET i == s.fd_pool[fd].index
      end == s.fd_pool[fd].offset + count
  IN  /\ \A j \in Entries : j # i => t.dir[j].fileSize = s.dir[j].fileSize
      /\ t.dir[i].fileSize = IF s.dir[i].fileSize < end THEN end ELSE s.dir[i].fileSize

LEMMA Arrives ==
  ASSUME NEW s, NEW open, NEW L, NEW fds0, NEW L0, Works(s, open, L, fds0, L0),
         NEW fd \in open, NEW count, NEW k, NEW m, NEW G, Covers(s, L, G, fd, k, m),
         NEW t, Run(t, open, G, fds0, L0), Passed(s, t, G, fd, k, count),
         Stretched(s, t, fd, count)
  PROVE  Works(t, open, G, fds0, L0)
<1> DEFINE f == s.fd_pool[fd]
           i == f.index
           o == f.offset
           g == t.fd_pool[fd]
<1>1. /\ i \in Entries /\ o \in Nat /\ s.dir[i].fileSize \in Nat
      /\ Sized(s.dir, L) /\ open \subseteq Fds
  BY WorksFacts DEF Works, Run
<1>2. g.index = i /\ g.offset = o + count /\ count \in Nat \ {0} /\ Moves(s, t, fd, count)
  BY DEF Passed, Moves
<1>3. Sized(t.dir, G)
  <2> HIDE DEF i, o
  <2>1. /\ k = o \div INODE_CAPACITY /\ m = o \div SECTSIZE /\ (o % SECTSIZE) + count <= SECTSIZE
        /\ ni(G, i) = IF k < ni(L, i) THEN ni(L, i) ELSE k + 1
        /\ \A j \in Entries : j # i => ni(G, j) = ni(L, j)
        /\ nb(G, i) = IF m < nb(L, i) THEN nb(L, i) ELSE m + 1
        /\ \A j \in Entries : j # i => nb(G, j) = nb(L, j)
        /\ \A j \in Entries : j # i => t.dir[j].fileSize = s.dir[j].fileSize
        /\ t.dir[i].fileSize = IF s.dir[i].fileSize < o + count THEN o + count ELSE s.dir[i].fileSize
    BY DEF i, o, f, Covers, Passed, Stretched
  <2> QED BY <1>1, <1>2, <2>1, SizedAfter
<1>4. At(g, G)
  <2> HIDE DEF g
  <2>1. g.inode_state # "GARBAGE" /\ g.inode_idx = ino(G, g.index, o \div INODE_CAPACITY)
        /\ (g.buffer_state = "GARBAGE" <=> (o % SECTSIZE) + count = SECTSIZE)
        /\ g.buffer_idx = blk(G, g.index, o \div SECTSIZE)
    BY <1>2 DEF g, Covers, Passed
  <2>2. (o % SECTSIZE) + count <= SECTSIZE
    BY DEF Passed
  <2> QED BY <1>1, <1>2, <2>1, <2>2, AtAfter
<1>5. g.offset <= t.dir[g.index].fileSize
  BY <1>1, <1>2 DEF Stretched
<1>6. ASSUME NEW h \in open, h # fd
      PROVE  At(t.fd_pool[h], G) /\ t.fd_pool[h].offset <= t.dir[t.fd_pool[h].index].fileSize
  <2>1. /\ t.fd_pool[h] = s.fd_pool[h] /\ At(s.fd_pool[h], L)
        /\ s.fd_pool[h].offset <= s.dir[s.fd_pool[h].index].fileSize
        /\ s.fd_pool[h].index \in Entries /\ s.fd_pool[h].offset \in Nat
        /\ s.dir[s.fd_pool[h].index].fileSize \in Nat
    BY <1>1, <1>2, <1>6, WorksFacts DEF Works, Moves
  <2>2. s.fd_pool[h].index # i
    BY <1>6 DEF Works, Run, Good, Apart
  <2>3. At(s.fd_pool[h], G)
    <3>1. Grows(L, G)
      BY DEF Covers
    <3> QED BY <1>1, <2>1, <3>1, AtOthers
  <2>4. t.dir[s.fd_pool[h].index].fileSize = s.dir[s.fd_pool[h].index].fileSize
    BY <2>1, <2>2 DEF Stretched
  <2> QED BY Zenon, <2>1, <2>3, <2>4
<1> QED BY Zenon, <1>3, <1>4, <1>5, <1>6 DEF Works

-----------------------------------------------------------------------------
(* What the files contain.  C[i][p] is cell p of file i.                   *)

\* h holds block b, and has changes of it that are not on the disk.
HoldsBlk(fds, h, b) == fds[h].buffer_state # "GARBAGE" /\ fds[h].buffer_idx = b
Unwashed(fds, h, b) == fds[h].buffer_state = "NEED_WASHING" /\ fds[h].buffer_idx = b

\* Cell c of block b is x, in the buffer that has it and on the disk, unless a
\* buffer is still to be written over it.
CellIs(data, fds, open, b, c, x) ==
  /\ \A h \in open : HoldsBlk(fds, h, b) => fds[h].buffer.cells[c] = x
  /\ data[b].cells[c] = x \/ \E h \in open : Unwashed(fds, h, b)

Stored(data, d, fds, open, L, C) ==
  \A i \in Entries, p \in Nat : p < d[i].fileSize =>
    CellIs(data, fds, open, blk(L, i, p \div SECTSIZE), p % SECTSIZE, C[i][p])

(* A block is in the buffer of a descriptor of its file.                   *)
LEMMA HolderOf ==
  ASSUME NEW s, NEW open, NEW L, NEW fds0, NEW L0, Run(s, open, L, fds0, L0),
         NEW fd \in open, NEW h \in open, NEW i, i = s.fd_pool[fd].index,
         NEW e \in Entries, NEW m \in Nat, m < nb(L, e), HoldsBlk(s.fd_pool, h, blk(L, e, m))
  PROVE  /\ s.fd_pool[h].index = e
         /\ e = i <=> h = fd
         /\ \A n \in Nat : n < nb(L, s.fd_pool[h].index)
                             /\ s.fd_pool[h].buffer_idx = blk(L, s.fd_pool[h].index, n) => n = m
<1>1. /\ Placed(L) /\ s.fd_pool[h].index \in Entries /\ Holds(s.fd_pool[h], L)
      /\ Apart(s.dir, s.fd_pool, open)
  BY RunFacts DEF Run, Good
<1>2. PICK n \in Nat : n < nb(L, s.fd_pool[h].index) /\ s.fd_pool[h].buffer_idx = blk(L, s.fd_pool[h].index, n)
  BY <1>1 DEF Holds, HoldsBlk
<1>3. s.fd_pool[h].index = e /\ s.fd_pool[h].buffer_idx = blk(L, e, m)
  BY <1>1, <1>2 DEF Placed, HoldsBlk
<1>4. e = i <=> h = fd
  BY <1>1, <1>3 DEF Apart
<1>5. ASSUME NEW q \in Nat, q < nb(L, s.fd_pool[h].index),
             s.fd_pool[h].buffer_idx = blk(L, s.fd_pool[h].index, q)
      PROVE  q = m
  BY ZenonT(30), <1>1, <1>3, <1>5 DEF Placed
<1> QED BY <1>3, <1>4, <1>5

(* A cell of a file is in one of its blocks.                               *)
LEMMA CellFacts ==
  ASSUME NEW L, NEW d, Sized(d, L), NEW i \in Entries, d[i].fileSize \in Nat,
         NEW p \in Nat, p < d[i].fileSize
  PROVE  /\ p \div SECTSIZE \in Nat /\ p \div SECTSIZE < nb(L, i)
         /\ p % SECTSIZE \in 0 .. SECTSIZE - 1
<1> DEFINE size == d[i].fileSize
<1>1. nb(L, i) = UpTo(size, SECTSIZE) /\ size \in Nat /\ p \in 0 .. size /\ p < size
  BY DEF Sized
<1> HIDE DEF size
<1>2. p \div SECTSIZE < UpTo(size, SECTSIZE)
  BY <1>1, Sizes, Boundary
<1> QED BY <1>1, <1>2, Sizes, Division

(* The cell is the same when block b and the buffers that hold it are.     *)
LEMMA CellSame ==
  ASSUME NEW data, NEW fds, NEW open, NEW b, NEW c, NEW x, CellIs(data, fds, open, b, c, x),
         NEW data2, NEW fds2, data2[b] = data[b],
         \A h \in open : /\ HoldsBlk(fds2, h, b) => HoldsBlk(fds, h, b) /\ fds2[h].buffer.cells[c] = fds[h].buffer.cells[c]
                         /\ Unwashed(fds, h, b) => Unwashed(fds2, h, b)
  PROVE  CellIs(data2, fds2, open, b, c, x)
  BY DEF CellIs

(* The files contain the same when the disk, the buffers and the sizes are
   the same.                                                               *)
LEMMA StoredSame ==
  ASSUME NEW data, NEW d, NEW fds, NEW open, NEW L, NEW C, Stored(data, d, fds, open, L, C),
         NEW d2, \A i \in Entries : d2[i].fileSize = d[i].fileSize,
         NEW fds2, \A h \in open : /\ fds2[h].buffer_state = fds[h].buffer_state
                                   /\ fds2[h].buffer_idx = fds[h].buffer_idx
                                   /\ fds2[h].buffer = fds[h].buffer
  PROVE  Stored(data, d2, fds2, open, L, C)
<1> SUFFICES ASSUME NEW e \in Entries, NEW p \in Nat, p < d2[e].fileSize
             PROVE  CellIs(data, fds2, open, blk(L, e, p \div SECTSIZE), p % SECTSIZE, C[e][p])
  BY DEF Stored
<1> DEFINE b == blk(L, e, p \div SECTSIZE)
           c == p % SECTSIZE
           x == C[e][p]
<1>1. CellIs(data, fds, open, b, c, x)
  BY DEF Stored
<1> HIDE DEF b, c, x
<1>2. CellIs(data, fds2, open, b, c, x)
  BY <1>1 DEF CellIs, HoldsBlk, Unwashed
<1> QED BY <1>2 DEF b, c, x

\* From s to t, descriptor fd has brought block m of its file into its buffer.
Brings(s, t, open, L, G, fds0, L0, fd, m) ==
  LET i == s.fd_pool[fd].index
  IN  /\ Run(t, open, G, fds0, L0) /\ Stays(s, t, fd) /\ SameFiles(s.dir, t.dir)
      /\ Grows(L, G) /\ Untouched(s, t, L) /\ m \in Nat /\ m < nb(G, i)
      /\ t.fd_pool[fd].buffer_idx = blk(G, i, m) /\ Filled(s, t, L, fd, m)

LEMMA FetchStored ==
  ASSUME NEW s, NEW open, NEW L, NEW fds0, NEW L0, Run(s, open, L, fds0, L0), Sized(s.dir, L),
         NEW fd \in open, NEW t, NEW G, NEW m, Brings(s, t, open, L, G, fds0, L0, fd, m),
         NEW C, Stored(s.image.data, s.dir, s.fd_pool, open, L, C)
  PROVE  Stored(t.image.data, t.dir, t.fd_pool, open, G, C)
<1> DEFINE i == s.fd_pool[fd].index
<1>0. /\ Run(t, open, G, fds0, L0) /\ Stays(s, t, fd) /\ SameFiles(s.dir, t.dir)
      /\ Grows(L, G) /\ Untouched(s, t, L) /\ m \in Nat /\ m < nb(G, i)
      /\ t.fd_pool[fd].buffer_idx = blk(G, i, m) /\ Filled(s, t, L, fd, m)
  BY DEF Brings
<1> SUFFICES ASSUME NEW e \in Entries, NEW p \in Nat, p < t.dir[e].fileSize
             PROVE  CellIs(t.image.data, t.fd_pool, open, blk(G, e, p \div SECTSIZE), p % SECTSIZE, C[e][p])
  BY DEF Stored
<1> DEFINE n == p \div SECTSIZE
           c == p % SECTSIZE
           b == blk(L, e, n)
           x == C[e][p]
<1>1. s.dir[e].fileSize \in Nat /\ p < s.dir[e].fileSize /\ open \subseteq Fds /\ i \in Entries
  <2>1. s \in States
    BY RunFacts
  <2>2. s.dir[e].fileSize \in 0 .. MaxFileSize /\ open \subseteq Fds /\ i \in Entries
    BY <2>1, RunFacts DEF States, DirType
  <2> QED BY <1>0, <2>2 DEF SameFiles
<1>2. n \in Nat /\ n < nb(L, e)
  BY <1>1, CellFacts
<1>3. blk(G, e, n) = b /\ n < nb(G, e) /\ t.image.data[b] = s.image.data[b]
  <2> HIDE DEF n
  <2>1. nb(L, e) \in Nat /\ nb(G, e) \in Nat
    BY <1>0, RunFacts
  <2> QED BY <1>0, <1>2, <2>1 DEF Grows, Untouched
<1>4. CellIs(s.image.data, s.fd_pool, open, b, c, x)
  BY <1>1 DEF Stored
<1> HIDE DEF c, x
<1>5. \A h \in open : h # fd => t.fd_pool[h] = s.fd_pool[h]
  BY <1>0, <1>1 DEF Stays
<1>6. CASE s.fd_pool[fd].buffer_state # "GARBAGE"
  <2>1. /\ t.fd_pool[fd].buffer_state = s.fd_pool[fd].buffer_state
        /\ t.fd_pool[fd].buffer_idx = s.fd_pool[fd].buffer_idx
        /\ t.fd_pool[fd].buffer = s.fd_pool[fd].buffer
    BY <1>0, <1>6 DEF Filled
  <2> HIDE DEF b
  <2>2. CellIs(t.image.data, t.fd_pool, open, b, c, x)
    BY <1>3, <1>4, <1>5, <2>1, CellSame DEF HoldsBlk, Unwashed
  <2> QED BY <1>3, <2>2 DEF c, x
<1>7. CASE s.fd_pool[fd].buffer_state = "GARBAGE"
  <2>1. t.fd_pool[fd].buffer_state = "USEFUL"
        /\ (m < nb(L, i) => t.fd_pool[fd].buffer = s.image.data[blk(L, i, m)])
    BY <1>0, <1>7 DEF Filled
  <2>2. ASSUME HoldsBlk(t.fd_pool, fd, b) PROVE t.fd_pool[fd].buffer.cells[c] = x
    <3>1. blk(G, i, m) = blk(G, e, n)
      BY <1>0, <1>3, <2>2 DEF HoldsBlk
    <3>2. e = i /\ n = m
      <4>1. Placed(G)
        BY <1>0, RunFacts
      <4> HIDE DEF n
      <4> QED BY <1>0, <1>1, <1>2, <1>3, <3>1, <4>1 DEF Placed
    <3>3. t.fd_pool[fd].buffer = s.image.data[b]
      BY <1>2, <2>1, <3>2
    <3>4. ASSUME NEW h \in open, Unwashed(s.fd_pool, h, b) PROVE FALSE
      <4>1. HoldsBlk(s.fd_pool, h, blk(L, e, n))
        BY <3>4 DEF HoldsBlk, Unwashed
      <4>2. h = fd
        <5> HIDE DEF n
        <5> QED BY <1>2, <3>2, <4>1, HolderOf
      <4> QED BY <1>7, <3>4, <4>2 DEF Unwashed
    <3>5. s.image.data[b].cells[c] = x
      BY <1>4, <3>4 DEF CellIs
    <3> QED BY <3>3, <3>5
  <2> HIDE DEF b
  <2>3. ASSUME NEW h \in open, HoldsBlk(t.fd_pool, h, b) PROVE t.fd_pool[h].buffer.cells[c] = x
    BY <1>4, <1>5, <2>2, <2>3 DEF CellIs, HoldsBlk
  <2>4. ASSUME NEW h \in open, Unwashed(s.fd_pool, h, b) PROVE Unwashed(t.fd_pool, h, b)
    BY <1>5, <1>7, <2>4 DEF Unwashed
  <2>5. CellIs(t.image.data, t.fd_pool, open, b, c, x)
    BY <1>3, <1>4, <2>3, <2>4 DEF CellIs
  <2> QED BY <1>3, <2>5 DEF c, x
<1> QED BY <1>6, <1>7

\* The buffers of the open descriptors are the same.
SameBuffers(fds, fds2, open) ==
  \A h \in open : /\ fds2[h].buffer_state = fds[h].buffer_state
                  /\ fds2[h].buffer_idx = fds[h].buffer_idx
                  /\ fds2[h].buffer = fds[h].buffer

LEMMA BuffersStored ==
  ASSUME NEW data, NEW d, NEW fds, NEW open, NEW L, NEW C, Stored(data, d, fds, open, L, C),
         NEW fds2, SameBuffers(fds, fds2, open)
  PROVE  Stored(data, d, fds2, open, L, C)
BY StoredSame DEF SameBuffers

(* The buffer of a descriptor goes to the disk.                            *)
LEMMA FlushStored ==
  ASSUME NEW open, NEW L, NEW d, NEW C, NEW s, Stored(s.image.data, d, s.fd_pool, open, L, C),
         open \subseteq Fds, NEW fd \in open, NEW t, Washed(s, t, s.fd_pool[fd]),
         \A i \in Entries, m \in Nat : blk(L, i, m) \in Blocks,
         \A h \in Fds : h # fd => t.fd_pool[h] = s.fd_pool[h],
         t.fd_pool[fd].buffer_state = "GARBAGE"
  PROVE  Stored(t.image.data, d, t.fd_pool, open, L, C)
<1> SUFFICES ASSUME NEW e \in Entries, NEW p \in Nat, p < d[e].fileSize
             PROVE  CellIs(t.image.data, t.fd_pool, open, blk(L, e, p \div SECTSIZE), p % SECTSIZE, C[e][p])
  BY DEF Stored
<1> DEFINE n == p \div SECTSIZE
           c == p % SECTSIZE
           b == blk(L, e, n)
           x == C[e][p]
<1>1. CellIs(s.image.data, s.fd_pool, open, b, c, x)
  BY DEF Stored
<1>2. b \in Blocks
  <2>1. n \in Nat
    BY Sizes, Division
  <2> QED BY <2>1
<1> HIDE DEF b, c, x
<1>3. ASSUME NEW h \in open, HoldsBlk(t.fd_pool, h, b) PROVE t.fd_pool[h].buffer.cells[c] = x
  <2>1. h # fd
    BY <1>3 DEF HoldsBlk
  <2> QED BY <1>1, <1>3, <2>1 DEF HoldsBlk, CellIs
<1>4. CASE Unwashed(s.fd_pool, fd, b)
  <2>1. t.image.data[b] = s.fd_pool[fd].buffer
    BY <1>4 DEF Washed, Unwashed
  <2>2. s.fd_pool[fd].buffer.cells[c] = x
    BY <1>1, <1>4 DEF CellIs, HoldsBlk, Unwashed
  <2>3. CellIs(t.image.data, t.fd_pool, open, b, c, x)
    BY <1>3, <2>1, <2>2 DEF CellIs
  <2> QED BY <2>3 DEF b, c, x
<1>5. CASE ~Unwashed(s.fd_pool, fd, b)
  <2>1. t.image.data[b] = s.image.data[b]
    BY <1>2, <1>5 DEF Washed, Unwashed
  <2>2. ASSUME NEW h \in open, Unwashed(s.fd_pool, h, b) PROVE Unwashed(t.fd_pool, h, b)
    <3>1. h # fd
      BY <1>5, <2>2
    <3> QED BY <2>2, <3>1 DEF Unwashed
  <2>3. CellIs(t.image.data, t.fd_pool, open, b, c, x)
    BY <1>1, <1>3, <2>1, <2>2 DEF CellIs
  <2> QED BY <2>3 DEF b, c, x
<1> QED BY <1>4, <1>5

\* D is C with the cells of data from result + 1 on at offset o of file i.
Puts(C, D, i, o, data, result, count) ==
  \A e \in Entries, p \in Nat :
    D[e][p] = IF e = i /\ p \in o .. o + count - 1 THEN data[result + p - o + 1] ELSE C[e][p]

(* Where the chunk is in its block.                                        *)
LEMMA ChunkCells ==
  ASSUME NEW o \in Nat, NEW count \in Nat, (o % SECTSIZE) + count <= SECTSIZE, NEW p \in Nat
  PROVE  /\ p \in o .. o + count - 1 => /\ p \div SECTSIZE = o \div SECTSIZE
                                        /\ p % SECTSIZE = (o % SECTSIZE) + (p - o)
         /\ p \div SECTSIZE = o \div SECTSIZE /\ p \notin o .. o + count - 1 =>
              p % SECTSIZE \notin (o % SECTSIZE) .. (o % SECTSIZE) + count - 1
<1> DEFINE q == o \div SECTSIZE
           r == o % SECTSIZE
           n == p \div SECTSIZE
           c == p % SECTSIZE
<1>1. q \in Nat /\ r \in 0 .. SECTSIZE - 1 /\ o = SECTSIZE * q + r /\ SECTSIZE \in Nat \ {0}
  BY Sizes, Division
<1>2. n \in Nat /\ c \in 0 .. SECTSIZE - 1 /\ p = SECTSIZE * n + c
  BY Sizes, Division
<1>3. ASSUME p \in o .. o + count - 1 PROVE n = q /\ c = r + (p - o)
  <2> DEFINE a == SECTSIZE * q
  <2>1. a \in Nat
    BY <1>1
  <2>2. r + (p - o) \in 0 .. SECTSIZE - 1 /\ p = a + (r + (p - o))
    <3>1. o = a + r /\ r \in 0 .. SECTSIZE - 1 /\ r + count <= SECTSIZE
      BY <1>1
    <3> HIDE DEF a, r
    <3> QED BY <1>1, <1>3, <2>1, <3>1
  <2>3. PICK x \in 0 .. SECTSIZE - 1 : x = r + (p - o)
    BY <2>2
  <2>4. p = SECTSIZE * q + x
    BY <2>2, <2>3
  <2>5. p \div SECTSIZE = q /\ p % SECTSIZE = x
    <3> HIDE DEF q
    <3> QED BY <1>1, <2>4, Quotient
  <2> QED BY <2>3, <2>5
<1>4. ASSUME n = q, p \notin o .. o + count - 1 PROVE c \notin r .. r + count - 1
  <2> DEFINE a == SECTSIZE * q
  <2>1. a \in Nat /\ o = a + r /\ p = a + c
    BY <1>1, <1>2, <1>4
  <2> HIDE DEF a, r, c
  <2> QED BY <1>1, <1>2, <1>4, <2>1
<1> QED BY <1>3, <1>4

\* buf2 is buf with count cells of data from result + 1 on at first.
Overlaid(buf, buf2, data, result, first, count) ==
  \A c \in 0 .. SECTSIZE - 1 :
    buf2.cells[c] = IF c \in first .. first + count - 1
                      THEN data[result + c - first + 1] ELSE buf.cells[c]

\* From s to d and fds, descriptor fd has put count cells of data from
\* result + 1 on at offset o of its file i.
PutsIn(s, d, fds, open, L, fd, i, o, data, result, count) ==
  LET b == blk(L, i, o \div SECTSIZE)
  IN  /\ i \in Entries /\ i = s.fd_pool[fd].index /\ o \in Nat /\ o \div SECTSIZE < nb(L, i)
      /\ HoldsBlk(s.fd_pool, fd, b)
      /\ count \in Nat /\ (o % SECTSIZE) + count <= SECTSIZE /\ result \in Nat
      /\ o <= s.dir[i].fileSize /\ Sized(d, L)
      /\ \A e \in Entries : d[e].fileSize \in Nat
      /\ \A e \in Entries : e # i => d[e].fileSize = s.dir[e].fileSize
      /\ d[i].fileSize = IF s.dir[i].fileSize < o + count THEN o + count ELSE s.dir[i].fileSize
      /\ \A h \in open : h # fd => fds[h] = s.fd_pool[h]
      /\ Unwashed(fds, fd, b)
      /\ Overlaid(s.fd_pool[fd].buffer, fds[fd].buffer, data, result, o % SECTSIZE, count)

(* A chunk is put into the buffer of a descriptor.                         *)
LEMMA PutStored ==
  ASSUME NEW s, NEW open, NEW L, NEW fds0, NEW L0, Run(s, open, L, fds0, L0),
         NEW fd \in open, NEW i, NEW o, NEW data, NEW result, NEW count, NEW d, NEW fds,
         PutsIn(s, d, fds, open, L, fd, i, o, data, result, count),
         NEW C, Stored(s.image.data, s.dir, s.fd_pool, open, L, C),
         NEW D, Puts(C, D, i, o, data, result, count)
  PROVE  Stored(s.image.data, d, fds, open, L, D)
<1> SUFFICES ASSUME NEW e \in Entries, NEW p \in Nat, p < d[e].fileSize
             PROVE  CellIs(s.image.data, fds, open, blk(L, e, p \div SECTSIZE), p % SECTSIZE, D[e][p])
  BY DEF Stored
<1> DEFINE m == o \div SECTSIZE
<1>0. /\ i \in Entries /\ i = s.fd_pool[fd].index /\ o \in Nat /\ m < nb(L, i)
      /\ HoldsBlk(s.fd_pool, fd, blk(L, i, m))
      /\ count \in Nat /\ (o % SECTSIZE) + count <= SECTSIZE /\ result \in Nat
      /\ o <= s.dir[i].fileSize /\ Sized(d, L)
      /\ \A h \in Entries : d[h].fileSize \in Nat
      /\ \A h \in Entries : h # i => d[h].fileSize = s.dir[h].fileSize
      /\ d[i].fileSize = IF s.dir[i].fileSize < o + count THEN o + count ELSE s.dir[i].fileSize
      /\ \A h \in open : h # fd => fds[h] = s.fd_pool[h]
      /\ Unwashed(fds, fd, blk(L, i, m))
      /\ Overlaid(s.fd_pool[fd].buffer, fds[fd].buffer, data, result, o % SECTSIZE, count)
  BY DEF PutsIn
<1> USE <1>0
<1> DEFINE n == p \div SECTSIZE
           c == p % SECTSIZE
           b == blk(L, e, n)
           r == o % SECTSIZE
           inside == e = i /\ p \in o .. o + count - 1
<1>1. n \in Nat /\ n < nb(L, e) /\ c \in 0 .. SECTSIZE - 1
  BY CellFacts
<1>2. D[e][p] = IF inside THEN data[result + p - o + 1] ELSE C[e][p]
  BY DEF Puts
<1>3. ASSUME e = i /\ n = m
      PROVE  /\ inside => c = r + (p - o) /\ c \in r .. r + count - 1
             /\ ~inside => c \notin r .. r + count - 1
  <2>1. /\ p \in o .. o + count - 1 => c = r + (p - o)
        /\ n = m /\ p \notin o .. o + count - 1 => c \notin r .. r + count - 1
    BY ChunkCells
  <2>2. r \in Nat
    BY Sizes, Division
  <2> HIDE DEF r, c, n
  <2> QED BY <1>3, <2>1, <2>2
<1>4. inside => e = i /\ n = m
  BY ChunkCells
<1>5. m \in Nat /\ r \in Nat
  <2>1. o \div SECTSIZE \in Nat /\ r \in 0 .. SECTSIZE - 1 /\ SECTSIZE \in Nat
    BY Sizes, Division
  <2> HIDE DEF r
  <2> QED BY <2>1
<1>6. \A h \in open : HoldsBlk(fds, h, b) => HoldsBlk(s.fd_pool, h, b)
  BY DEF HoldsBlk, Unwashed
<1>7. ASSUME HoldsBlk(s.fd_pool, fd, b) PROVE e = i /\ n = m
  <2>1. \A q \in Nat : q < nb(L, i) /\ s.fd_pool[fd].buffer_idx = blk(L, i, q) => q = n
    <3> HIDE DEF n
    <3> QED BY <1>1, <1>7, HolderOf
  <2>2. s.fd_pool[fd].index = e
    <3> HIDE DEF n
    <3> QED BY <1>1, <1>7, HolderOf
  <2> QED BY <1>5, <2>1, <2>2 DEF HoldsBlk
<1>8. CASE inside
  <2>1. b = blk(L, i, m) /\ Unwashed(fds, fd, b)
    BY <1>4, <1>8
  <2>2. fds[fd].buffer.cells[c] = D[e][p]
    <3>1. c = r + (p - o) /\ c \in r .. r + count - 1
      BY <1>3, <1>4, <1>8
    <3>2. fds[fd].buffer.cells[c] = data[result + c - r + 1]
      <4> HIDE DEF c
      <4> QED BY <1>1, <3>1 DEF Overlaid
    <3>3. result + c - r + 1 = result + p - o + 1
      <4> HIDE DEF c, r
      <4> QED BY <1>5, <3>1
    <3> QED BY <1>2, <1>8, <3>2, <3>3
  <2>3. ASSUME NEW h \in open, HoldsBlk(fds, h, b) PROVE h = fd
    <3>1. HoldsBlk(s.fd_pool, h, b) /\ e = i
      BY Zenon, <1>4, <1>6, <1>8, <2>3
    <3> HIDE DEF n
    <3> QED BY <1>1, <3>1, HolderOf
  <2> HIDE DEF b, c
  <2>4. CellIs(s.image.data, fds, open, b, c, D[e][p])
    BY <2>1, <2>2, <2>3 DEF CellIs
  <2> QED BY <2>4 DEF b, c
<1>9. CASE ~inside
  <2>1. p < s.dir[e].fileSize
    <3>1. s.dir[e].fileSize \in Nat
      <4>1. s.dir \in DirType
        BY RunFacts DEF States
      <4>2. s.dir[e].fileSize \in 0 .. MaxFileSize
        BY <4>1 DEF DirType
      <4> QED BY <4>2
    <3> QED BY <1>9, <3>1
  <2>2. CellIs(s.image.data, s.fd_pool, open, b, c, C[e][p])
    BY <2>1 DEF Stored
  <2>3. ASSUME HoldsBlk(s.fd_pool, fd, b)
        PROVE  fds[fd].buffer.cells[c] = s.fd_pool[fd].buffer.cells[c]
    <3>1. c \notin r .. r + count - 1
      BY <1>3, <1>7, <1>9, <2>3
    <3> HIDE DEF c, r
    <3> QED BY <1>1, <3>1 DEF r, Overlaid
  <2>4. ASSUME Unwashed(s.fd_pool, fd, b) PROVE Unwashed(fds, fd, b)
    <3>1. HoldsBlk(s.fd_pool, fd, b)
      BY <2>4 DEF HoldsBlk, Unwashed
    <3> QED BY <1>7, <3>1
  <2> HIDE DEF b, c
  <2>5. CellIs(s.image.data, fds, open, b, c, C[e][p])
    <3>1. ASSUME NEW h \in open, HoldsBlk(fds, h, b)
          PROVE  HoldsBlk(s.fd_pool, h, b) /\ fds[h].buffer.cells[c] = s.fd_pool[h].buffer.cells[c]
      BY <1>6, <2>3, <3>1
    <3>2. ASSUME NEW h \in open, Unwashed(s.fd_pool, h, b) PROVE Unwashed(fds, h, b)
      BY <2>4, <3>2 DEF Unwashed
    <3> QED BY <2>2, <3>1, <3>2, CellSame
  <2> QED BY <1>2, <1>9, <2>5 DEF b, c
<1> QED BY <1>8, <1>9

LEMMA ChunkSize ==
  ASSUME NEW o \in Nat, NEW n \in Nat \ {0}, NEW c, c = Min({n, SECTSIZE - (o % SECTSIZE)})
  PROVE  /\ c \in Nat \ {0} /\ c <= n /\ (o % SECTSIZE) + c <= SECTSIZE
         /\ o % SECTSIZE \in 0 .. SECTSIZE - 1
<1>1. o % SECTSIZE \in 0 .. SECTSIZE - 1 /\ SECTSIZE \in Nat
  BY Sizes, Division
<1> DEFINE a == SECTSIZE - (o % SECTSIZE)
<1>2. a \in Nat \ {0} /\ (o % SECTSIZE) + a = SECTSIZE
  BY <1>1
<1> HIDE DEF a
<1>3. {n, a} \in SUBSET Nat /\ {n, a} # {}
  BY <1>2
<1>4. Min({n, a}) \in {n, a} /\ \A m \in {n, a} : Min({n, a}) <= m
  BY <1>3, MinIsLeast
<1>5. c = Min({n, a})
  BY DEF a
<1>6. c \in Nat \ {0} /\ c <= n /\ c <= a
  BY <1>2, <1>4, <1>5
<1> QED BY <1>1, <1>2, <1>6

(* The directory changes a size.                                           *)
LEMMA RunDir ==
  ASSUME NEW s, NEW open, NEW L, NEW fds0, NEW L0, Run(s, open, L, fds0, L0),
         NEW d \in DirType,
         \A i \in Entries : d[i].fileName = s.dir[i].fileName /\ d[i].inodeOffset = s.dir[i].inodeOffset
  PROVE  Run(WithDir(s, d), open, L, fds0, L0)
<1> DEFINE t == WithDir(s, d)
<1>1. s \in States /\ open \subseteq Fds /\ \A h \in open : s.fd_pool[h].index \in Entries
  BY RunFacts
<1>2. /\ t \in States /\ SameDisk(s, t) /\ t.dir = d /\ t.state_dir = "NEED_WASHING"
      /\ t.bitmap = s.bitmap /\ t.state_bitmap = s.state_bitmap /\ t.fd_pool = s.fd_pool
  BY <1>1, WithDirFacts
<1> HIDE DEF t
<1>3. /\ s.mode = "ok" /\ Clean(s)
      /\ Good(s.image.data, s.dir, s.bitmap, s.fd_pool, open, L)
      /\ Grows(L0, L) /\ Keeps(s.image.data, fds0, open, L0)
  BY DEF Run
<1>4. Good(s.image.data, d, s.bitmap, s.fd_pool, open, L)
  BY <1>1, <1>3, ChangeSize
<1>5. Clean(t)
  BY <1>2, <1>3 DEF Clean, SameDisk
<1>6. t.image = s.image /\ t.mode = s.mode
  BY <1>2 DEF SameDisk
<1>7. Run(t, open, L, fds0, L0)
  BY <1>1, <1>2, <1>3, <1>4, <1>5, <1>6 DEF Run
<1> QED BY <1>7 DEF t

\* What fs_write puts into the buffer, and where that takes the descriptor.
Put(t, fd, data, result, first, count) ==
  [t EXCEPT !.fd_pool[fd].buffer_state = "NEED_WASHING",
            !.fd_pool[fd].offset = @ + count,
            !.fd_pool[fd].buffer.cells =
               [c \in DOMAIN @ |->
                  IF c \in first..first+count-1
                    THEN data[result + c - first + 1] ELSE @[c]]]
Skip(t, fd, count) == [t EXCEPT !.fd_pool[fd].offset = @ + count]

LEMMA PutIs ==
  ASSUME NEW t \in States, NEW fd \in Fds, NEW data \in Seq(Values), NEW result \in Nat,
         NEW first \in 0 .. SECTSIZE - 1, NEW count \in Nat \ {0},
         first + count <= SECTSIZE, result + count <= Len(data)
  PROVE  \E g \in FdType :
            /\ Put(t, fd, data, result, first, count) = WithFd(t, fd, g)
            /\ g.index = t.fd_pool[fd].index /\ g.offset = t.fd_pool[fd].offset + count
            /\ g.opened = t.fd_pool[fd].opened /\ g.writable = t.fd_pool[fd].writable
            /\ g.buffer_state = "NEED_WASHING" /\ g.buffer_idx = t.fd_pool[fd].buffer_idx
            /\ Overlaid(t.fd_pool[fd].buffer, g.buffer, data, result, first, count)
            /\ g.inode = t.fd_pool[fd].inode /\ g.inode_idx = t.fd_pool[fd].inode_idx
            /\ g.inode_state = t.fd_pool[fd].inode_state
<1> DEFINE e == t.fd_pool[fd]
           old == e.buffer.cells
           cells == [c \in DOMAIN old |-> IF c \in first..first+count-1
                                            THEN data[result + c - first + 1] ELSE old[c]]
           q == [e.buffer EXCEPT !.cells = cells]
           g == [e EXCEPT !.buffer_state = "NEED_WASHING", !.offset = e.offset + count, !.buffer = q]
<1>1. e \in FdType /\ e.buffer \in DataSector /\ e.offset \in Nat /\ e.offset + count \in Nat
  BY DEF States, FdType
<1>2. old \in [0 .. SECTSIZE - 1 -> Values \cup {0}]
  BY <1>1 DEF DataSector
<1>3. \A c \in 0 .. SECTSIZE - 1 : c \in first..first+count-1 => data[result + c - first + 1] \in Values
  <2> SUFFICES ASSUME NEW c \in first..first+count-1 PROVE data[result + c - first + 1] \in Values
    OBVIOUS
  <2>1. result + c - first + 1 \in 1 .. Len(data)
    OBVIOUS
  <2> QED BY <2>1
<1> HIDE DEF old
<1>4. cells \in [0 .. SECTSIZE - 1 -> Values \cup {0}]
  <2>1. \A c \in 0 .. SECTSIZE - 1 : (IF c \in first..first+count-1
                                            THEN data[result + c - first + 1] ELSE old[c]) \in Values \cup {0}
    BY <1>2, <1>3
  <2> QED BY <1>2, <2>1
<1>5. Put(t, fd, data, result, first, count)
        = [t EXCEPT !.fd_pool[fd].buffer_state = "NEED_WASHING",
                    !.fd_pool[fd].offset = e.offset + count,
                    !.fd_pool[fd].buffer.cells = cells]
  BY <1>1 DEF Put, old, States
<1> HIDE DEF cells
<1>6. q \in DataSector
  BY <1>1, <1>4 DEF DataSector
<1>7. PICK v : v = [t EXCEPT !.fd_pool[fd].buffer_state = "NEED_WASHING", !.fd_pool[fd].offset = e.offset + count]
  OBVIOUS
<1>8. Put(t, fd, data, result, first, count) = [v EXCEPT !.fd_pool[fd].buffer.cells = cells]
  BY <1>5, <1>7
<1>9. PICK h : h = [e EXCEPT !.buffer_state = "NEED_WASHING", !.offset = e.offset + count]
  OBVIOUS
<1>10. h \in FdType /\ h.buffer = e.buffer
  BY <1>1, <1>9 DEF FdType
<1>11. v = WithFd(t, fd, h)
  BY <1>7, <1>9 DEF WithFd, States
<1>12. v \in States /\ v.fd_pool[fd] = h
  BY <1>10, <1>11, WithFdFacts
<1>13. Put(t, fd, data, result, first, count) = [v EXCEPT !.fd_pool[fd].buffer = q]
  BY <1>8, <1>10, <1>12
<1>14. Put(t, fd, data, result, first, count) = WithFd(v, fd, g)
  BY <1>9, <1>12, <1>13 DEF WithFd, States
<1>15. g \in FdType
  BY <1>1, <1>6 DEF FdType
<1>16. Put(t, fd, data, result, first, count) = WithFd(t, fd, g)
  <2> HIDE DEF g
  <2> QED BY <1>11, <1>14 DEF WithFd, States
<1>17. /\ g.index = e.index /\ g.offset = e.offset + count
       /\ g.opened = e.opened /\ g.writable = e.writable
       /\ g.buffer_state = "NEED_WASHING" /\ g.buffer_idx = e.buffer_idx
       /\ g.inode = e.inode /\ g.inode_idx = e.inode_idx
       /\ g.inode_state = e.inode_state /\ g.buffer = q
  BY <1>1 DEF FdType
<1>18. q.cells = cells
  BY <1>1 DEF DataSector
<1>19. \A c \in 0 .. SECTSIZE - 1 : cells[c] = IF c \in first .. first + count - 1
                                               THEN data[result + c - first + 1] ELSE old[c]
  BY <1>2 DEF cells
<1>20. old = t.fd_pool[fd].buffer.cells
  BY DEF old
<1>21. Overlaid(t.fd_pool[fd].buffer, q, data, result, first, count)
  BY <1>18, <1>19, <1>20 DEF Overlaid
<1> HIDE DEF g, q
<1> QED BY <1>15, <1>16, <1>17, <1>21

LEMMA SkipIs ==
  ASSUME NEW t \in States, NEW fd \in Fds, NEW count \in Nat
  PROVE  \E g \in FdType :
            /\ Skip(t, fd, count) = WithFd(t, fd, g)
            /\ g.index = t.fd_pool[fd].index /\ g.offset = t.fd_pool[fd].offset + count
            /\ g.opened = t.fd_pool[fd].opened /\ g.writable = t.fd_pool[fd].writable
            /\ g.buffer_state = t.fd_pool[fd].buffer_state /\ g.buffer_idx = t.fd_pool[fd].buffer_idx
            /\ g.buffer = t.fd_pool[fd].buffer
            /\ g.inode = t.fd_pool[fd].inode /\ g.inode_idx = t.fd_pool[fd].inode_idx
            /\ g.inode_state = t.fd_pool[fd].inode_state
<1> DEFINE e == t.fd_pool[fd]
           g == [e EXCEPT !.offset = e.offset + count]
<1>1. e \in FdType /\ e.offset + count \in Nat
  BY DEF States, FdType
<1>2. Skip(t, fd, count) = WithFd(t, fd, g)
  BY DEF Skip, WithFd, States
<1>3. /\ g \in FdType
      /\ g.index = e.index /\ g.offset = e.offset + count
      /\ g.opened = e.opened /\ g.writable = e.writable
      /\ g.buffer_state = e.buffer_state /\ g.buffer_idx = e.buffer_idx /\ g.buffer = e.buffer
      /\ g.inode = e.inode /\ g.inode_idx = e.inode_idx
      /\ g.inode_state = e.inode_state
  BY <1>1 DEF FdType
<1> HIDE DEF g
<1> QED BY <1>2, <1>3

(* What follows from either.                                               *)
LEMMA Moved ==
  ASSUME NEW t, NEW open, NEW L, NEW fds0, NEW L0, Run(t, open, L, fds0, L0),
         NEW fd \in open, NEW count \in Nat, t.fd_pool[fd].buffer_state # "GARBAGE",
         NEW g \in FdType,
         g.index = t.fd_pool[fd].index, g.offset = t.fd_pool[fd].offset + count,
         g.opened = t.fd_pool[fd].opened, g.writable = t.fd_pool[fd].writable,
         g.buffer_idx = t.fd_pool[fd].buffer_idx, g.buffer_state # "GARBAGE",
         g.inode = t.fd_pool[fd].inode, g.inode_idx = t.fd_pool[fd].inode_idx,
         g.inode_state = t.fd_pool[fd].inode_state,
         NEW u, u = WithFd(t, fd, g)
  PROVE  /\ Run(u, open, L, fds0, L0) /\ SameMemory(t, u) /\ Moves(t, u, fd, count)
         /\ u.fd_pool[fd].inode_state = t.fd_pool[fd].inode_state
         /\ u.fd_pool[fd].inode_idx = t.fd_pool[fd].inode_idx
         /\ u.fd_pool[fd] = g /\ u.image = t.image
<1>1. t \in States /\ fd \in Fds /\ Holds(t.fd_pool[fd], L)
  BY RunFacts
<1>2. Holds(g, L)
  BY <1>1 DEF Holds
<1>3. Run(u, open, L, fds0, L0)
  BY <1>2, RunSet
<1>4. /\ SameMemory(t, u) /\ SameDisk(t, u) /\ u.fd_pool[fd] = g
      /\ \A h \in Fds : h # fd => u.fd_pool[h] = t.fd_pool[h]
  BY <1>1, WithFdFacts
<1> QED BY <1>3, <1>4 DEF Moves, SameDisk

\* From s to t, descriptor fd has given up its buffer, on the disk if marked.
Drops(s, t, fd) ==
  /\ Washed(s, t, s.fd_pool[fd]) /\ t.fd_pool[fd].buffer_state = "GARBAGE"
  /\ \A h \in Fds : h # fd => t.fd_pool[h] = s.fd_pool[h]
BlocksOf(L) == \A i \in Entries, m \in Nat : blk(L, i, m) \in Blocks

LEMMA DropStored ==
  ASSUME NEW open, NEW L, NEW d, NEW C, NEW s, Stored(s.image.data, d, s.fd_pool, open, L, C),
         open \subseteq Fds, NEW fd \in open, NEW t, Drops(s, t, fd), BlocksOf(L)
  PROVE  Stored(t.image.data, d, t.fd_pool, open, L, C)
BY FlushStored DEF Drops, BlocksOf

\* The files contain in w what they contain in v.
KeepsCells(v, w, open, L) ==
  \A d, C : Stored(v.image.data, d, v.fd_pool, open, L, C)
              => Stored(w.image.data, d, w.fd_pool, open, L, C)

(* A block that is full, or read to its end, leaves the buffer.            *)
LEMMA EndOfBlock ==
  ASSUME NEW v, NEW open, NEW L, NEW fds0, NEW L0, Run(v, open, L, fds0, L0),
         NEW fd \in open, v.fd_pool[fd].buffer_state # "GARBAGE", NEW full \in BOOLEAN,
         NEW w, w = IF full THEN fd_buffer_flush(v, fd) ELSE v
  PROVE  /\ Run(w, open, L, fds0, L0) /\ SameMemory(v, w) /\ Stays(v, w, fd)
         /\ w.fd_pool[fd].inode_state = v.fd_pool[fd].inode_state
         /\ w.fd_pool[fd].inode_idx = v.fd_pool[fd].inode_idx
         /\ w.fd_pool[fd].buffer_idx = v.fd_pool[fd].buffer_idx
         /\ w.fd_pool[fd].buffer_state = "GARBAGE" <=> full
         /\ KeepsCells(v, w, open, L)
<1>1. CASE full
  <2>1. /\ Run(w, open, L, fds0, L0) /\ SameMemory(v, w) /\ Washed(v, w, v.fd_pool[fd])
        /\ \A h \in Fds : h # fd => w.fd_pool[h] = v.fd_pool[h]
        /\ w.fd_pool[fd] = [v.fd_pool[fd] EXCEPT !.buffer_state = "GARBAGE"]
    BY <1>1, FlushBuf
  <2>2. v.fd_pool[fd] \in FdType
    BY RunFacts
  <2>3. /\ w.fd_pool[fd].index = v.fd_pool[fd].index /\ w.fd_pool[fd].offset = v.fd_pool[fd].offset
        /\ w.fd_pool[fd].opened = v.fd_pool[fd].opened /\ w.fd_pool[fd].writable = v.fd_pool[fd].writable
        /\ w.fd_pool[fd].inode_state = v.fd_pool[fd].inode_state
        /\ w.fd_pool[fd].inode_idx = v.fd_pool[fd].inode_idx
        /\ w.fd_pool[fd].buffer_idx = v.fd_pool[fd].buffer_idx
        /\ w.fd_pool[fd].buffer_state = "GARBAGE"
    BY <2>1, <2>2 DEF FdType
  <2>4. open \subseteq Fds /\ BlocksOf(L) /\ Drops(v, w, fd)
    BY <2>1, <2>3, RunFacts DEF BlocksOf, Drops
  <2>5. ASSUME NEW d, NEW C, Stored(v.image.data, d, v.fd_pool, open, L, C)
        PROVE  Stored(w.image.data, d, w.fd_pool, open, L, C)
    BY <2>4, <2>5, DropStored
  <2> QED BY <1>1, <2>1, <2>3, <2>5 DEF Stays, KeepsCells
<1>2. CASE ~full
  BY <1>2 DEF SameMemory, Stays, KeepsCells
<1> QED BY <1>1, <1>2

Grow(u, i, n) == IF u.dir[i].fileSize < n
                   THEN [u EXCEPT !.dir[i].fileSize = n, !.state_dir = "NEED_WASHING"]
                   ELSE u
Finish(v, fd, end) == IF end = SECTSIZE THEN fd_buffer_flush(v, fd) ELSE v

\* The chunk of the block that a round with n cells left takes.
First(s, fd) == s.fd_pool[fd].offset % SECTSIZE
Count(s, fd, n) == Min({n, SECTSIZE - First(s, fd)})
End(s, fd, n) == First(s, fd) + Count(s, fd, n)

LEMMA Chunks ==
  ASSUME NEW s, NEW fd, s.fd_pool[fd].offset \in Nat, NEW n \in Nat \ {0}
  PROVE  /\ Count(s, fd, n) \in Nat \ {0} /\ Count(s, fd, n) <= n
         /\ First(s, fd) \in 0 .. SECTSIZE - 1
         /\ First(s, fd) = s.fd_pool[fd].offset % SECTSIZE
         /\ First(s, fd) + Count(s, fd, n) <= SECTSIZE
         /\ End(s, fd, n) = First(s, fd) + Count(s, fd, n)
<1> DEFINE o == s.fd_pool[fd].offset
<1>1. o \in Nat /\ First(s, fd) = o % SECTSIZE /\ Count(s, fd, n) = Min({n, SECTSIZE - (o % SECTSIZE)})
  BY DEF First, Count
<1> HIDE DEF o
<1>2. /\ Count(s, fd, n) \in Nat \ {0} /\ Count(s, fd, n) <= n
      /\ (o % SECTSIZE) + Count(s, fd, n) <= SECTSIZE
      /\ o % SECTSIZE \in 0 .. SECTSIZE - 1
  BY <1>1, ChunkSize
<1> QED BY <1>1, <1>2 DEF End, o

LEMMA WriteIs ==
  ASSUME NEW s, NEW fd, NEW data, NEW result, NEW first, first = First(s, fd),
         NEW count, count = Count(s, fd, Len(data) - result),
         NEW t, t = fd_buffer_fetch(s, fd), NEW u, u = Put(t, fd, data, result, first, count),
         NEW v, v = Grow(u, s.fd_pool[fd].index, s.fd_pool[fd].offset + count)
  PROVE  WriteChunk(s, fd, data, result) = Finish(v, fd, End(s, fd, Len(data) - result))
<1>1. WriteChunk(s, fd, data, result)
        = LET f == s.fd_pool[fd]
              b == First(s, fd)
              n == Count(s, fd, Len(data) - result)
          IN  Finish(Grow(Put(fd_buffer_fetch(s, fd), fd, data, result, b, n), f.index, f.offset + n),
                     fd, End(s, fd, Len(data) - result))
  BY Zenon DEF WriteChunk, Put, Grow, Finish, First, Count, End
<1> QED BY <1>1, Zenon

\* From s to w, a chunk of data has been written at the offset of fd.
Writes(s, w, open, L, G, fd, data, result, count) ==
  \A C, D : /\ Stored(s.image.data, s.dir, s.fd_pool, open, L, C)
            /\ Puts(C, D, s.fd_pool[fd].index, s.fd_pool[fd].offset, data, result, count)
            => Stored(w.image.data, w.dir, w.fd_pool, open, G, D)

SameNames(d, d2) == \A j \in Entries : d2[j].fileName = d[j].fileName

\* All that a round does, or several.
Wrote(s, w, open, L, G, fd, data, result, count) ==
  /\ Moves(s, w, fd, count) /\ Stretched(s, w, fd, count) /\ SameNames(s.dir, w.dir)
  /\ Writes(s, w, open, L, G, fd, data, result, count)

LEMMA WriteRound ==
  ASSUME NEW s, NEW open, NEW L, NEW fds0, NEW L0, Works(s, open, L, fds0, L0),
         NEW fd \in open, NEW data \in Seq(Values), NEW result \in Nat, result < Len(data),
         s.fd_pool[fd].offset + (Len(data) - result) <= MaxFileSize,
         NEW w, w = WriteChunk(s, fd, data, result)
  PROVE  \/ Lost(w, open, fds0, L0)
         \/ \E G, count : /\ Works(w, open, G, fds0, L0)
                          /\ count \in Nat \ {0} /\ result + count <= Len(data)
                          /\ Wrote(s, w, open, L, G, fd, data, result, count)
<1> DEFINE f == s.fd_pool[fd]
           i == f.index
           o == f.offset
           first == First(s, fd)
           count == Count(s, fd, Len(data) - result)
           end == End(s, fd, Len(data) - result)
           k == o \div INODE_CAPACITY
           m == o \div SECTSIZE
<1>1. PICK t : t = fd_buffer_fetch(s, fd)
  OBVIOUS
<1>2. PICK u : u = Put(t, fd, data, result, first, count)
  OBVIOUS
<1>3. PICK v : v = Grow(u, i, o + count)
  OBVIOUS
<1>4. w = Finish(v, fd, end)
  BY Zenon, <1>1, <1>2, <1>3, WriteIs
<1>5. /\ f \in FdType /\ i \in Entries /\ o \in Nat /\ fd \in Fds
      /\ s.dir[i].fileSize \in 0 .. MaxFileSize /\ s.dir[i].fileSize \in Nat
  BY WorksFacts DEF Works, Run
<1>6. /\ count \in Nat \ {0} /\ count <= Len(data) - result /\ first + count <= SECTSIZE
      /\ first \in 0 .. SECTSIZE - 1 /\ first = s.fd_pool[fd].offset % SECTSIZE
      /\ end = first + count
  <2>1. Len(data) - result \in Nat \ {0}
    OBVIOUS
  <2> QED BY <1>5, <2>1, Chunks
<1>7. Lost(t, open, fds0, L0) \/ Fetched(s, t, open, L, fds0, L0, fd, k, m)
  BY <1>1, Fetch DEF Works
<1> HIDE DEF count, first, end, k, m
<1>8. CASE Lost(t, open, fds0, L0)
  <2>1. Halted(u) /\ StaysHalted(t, u)
    BY <1>2, <1>8 DEF Lost, Halted, StaysHalted, Put
  <2>2. StaysHalted(u, v)
    BY <1>3, <2>1 DEF Halted, StaysHalted, Grow
  <2>3. Halted(v) /\ StaysHalted(t, v)
    BY <1>8, <2>1, <2>2, HaltedTrans DEF Lost
  <2>4. StaysHalted(v, fd_buffer_flush(v, fd)) /\ StaysHalted(v, v)
    BY <2>3, HaltedFlushBuf DEF StaysHalted
  <2>5. StaysHalted(v, w)
    BY <1>4, <2>4 DEF Finish
  <2> QED BY <1>8, <2>3, <2>5, LostStays
<1>9. CASE Fetched(s, t, open, L, fds0, L0, fd, k, m)
  <2>1. PICK G :
         /\ Run(t, open, G, fds0, L0) /\ Stays(s, t, fd) /\ SameFiles(s.dir, t.dir)
         /\ Grows(L, G) /\ Untouched(s, t, L)
         /\ k < ni(G, i)
         /\ ni(G, i) = IF k < ni(L, i) THEN ni(L, i) ELSE k + 1
         /\ \A j \in Entries : j # i => ni(G, j) = ni(L, j)
         /\ m < nb(G, i)
         /\ nb(G, i) = IF m < nb(L, i) THEN nb(L, i) ELSE m + 1
         /\ \A j \in Entries : j # i => nb(G, j) = nb(L, j)
         /\ t.fd_pool[fd].buffer_state # "GARBAGE" /\ t.fd_pool[fd].inode_state # "GARBAGE"
         /\ t.fd_pool[fd].inode_idx = ino(G, i, k)
         /\ t.fd_pool[fd].buffer_idx = blk(G, i, m)
         /\ Filled(s, t, L, fd, m)
    BY <1>9 DEF Fetched
  <2>2. t \in States
    BY <2>1, RunFacts
  <2>3. /\ Run(u, open, G, fds0, L0) /\ SameMemory(t, u) /\ Moves(t, u, fd, count)
        /\ u.fd_pool[fd].inode_state = t.fd_pool[fd].inode_state
        /\ u.fd_pool[fd].inode_idx = t.fd_pool[fd].inode_idx
        /\ u.fd_pool[fd].buffer_state = "NEED_WASHING" /\ u.image = t.image
        /\ u.fd_pool[fd].buffer_idx = t.fd_pool[fd].buffer_idx
        /\ Overlaid(t.fd_pool[fd].buffer, u.fd_pool[fd].buffer, data, result, first, count)
    <3>1. result + count <= Len(data)
      BY <1>6
    <3>2. PICK g \in FdType :
            /\ Put(t, fd, data, result, first, count) = WithFd(t, fd, g)
            /\ g.index = t.fd_pool[fd].index /\ g.offset = t.fd_pool[fd].offset + count
            /\ g.opened = t.fd_pool[fd].opened /\ g.writable = t.fd_pool[fd].writable
            /\ g.buffer_state = "NEED_WASHING" /\ g.buffer_idx = t.fd_pool[fd].buffer_idx
            /\ g.inode = t.fd_pool[fd].inode /\ g.inode_idx = t.fd_pool[fd].inode_idx
            /\ g.inode_state = t.fd_pool[fd].inode_state
            /\ Overlaid(t.fd_pool[fd].buffer, g.buffer, data, result, first, count)
      BY <1>5, <1>6, <2>2, <3>1, PutIs
    <3>3. u = WithFd(t, fd, g) /\ g.buffer_state # "GARBAGE" /\ count \in Nat
      BY <1>2, <1>6, <3>2
    <3>4. /\ Run(u, open, G, fds0, L0) /\ SameMemory(t, u) /\ Moves(t, u, fd, count)
          /\ u.fd_pool[fd].inode_state = t.fd_pool[fd].inode_state
          /\ u.fd_pool[fd].inode_idx = t.fd_pool[fd].inode_idx
          /\ u.fd_pool[fd] = g /\ u.image = t.image
      BY <2>1, <3>2, <3>3, Moved
    <3> QED BY <3>2, <3>4
  <2>4. u \in States /\ u.dir \in DirType /\ SameFiles(s.dir, u.dir)
    <3>1. u \in States
      BY <2>3, RunFacts
    <3>2. u.dir = t.dir
      BY <2>3 DEF SameMemory
    <3> QED BY <2>1, <3>1, <3>2 DEF States
  <2>5. /\ Run(v, open, G, fds0, L0) /\ v.fd_pool = u.fd_pool /\ v.image = u.image
        /\ \A j \in Entries : j # i => v.dir[j].fileSize = s.dir[j].fileSize
        /\ v.dir[i].fileSize = IF s.dir[i].fileSize < o + count THEN o + count ELSE s.dir[i].fileSize
        /\ SameNames(s.dir, v.dir)
    <3>1. u.dir[i].fileSize = s.dir[i].fileSize
      BY <1>5, <2>4 DEF SameFiles
    <3>2. CASE s.dir[i].fileSize < o + count
      <4> DEFINE d == [u.dir EXCEPT ![i].fileSize = o + count]
      <4>1. v = WithDir(u, d)
        BY <1>3, <3>1, <3>2 DEF WithDir, Grow
      <4>2. o + count \in 0 .. MaxFileSize
        <5>1. MaxFileSize \in Nat
          BY FileSysAssumption
        <5>2. o + (Len(data) - result) <= MaxFileSize /\ Len(data) \in Nat
          OBVIOUS
        <5> HIDE DEF o
        <5> QED BY SMTT(30), <1>5, <1>6, <5>1, <5>2
      <4>3. /\ d \in DirType /\ d[i].fileSize = o + count
            /\ \A j \in Entries : d[j].fileName = u.dir[j].fileName /\ d[j].inodeOffset = u.dir[j].inodeOffset
            /\ \A j \in Entries : j # i => d[j].fileSize = u.dir[j].fileSize
        BY ZenonT(30), <1>5, <2>4, <4>2 DEF DirType
      <4> HIDE DEF d
      <4>4. v.dir = d /\ v.fd_pool = u.fd_pool /\ v.image = u.image
        BY <2>4, <4>1, <4>3, WithDirFacts DEF SameDisk
      <4>5. Run(v, open, G, fds0, L0)
        BY <2>3, <4>1, <4>3, RunDir
      <4> QED BY <2>4, <3>2, <4>3, <4>4, <4>5 DEF SameFiles, SameNames
    <3>3. CASE ~(s.dir[i].fileSize < o + count)
      BY <1>3, <2>3, <2>4, <3>1, <3>3 DEF SameFiles, SameNames, Grow
    <3> QED BY <3>2, <3>3
  <2>6. /\ Run(w, open, G, fds0, L0) /\ SameMemory(v, w) /\ Stays(v, w, fd)
        /\ w.fd_pool[fd].inode_state = v.fd_pool[fd].inode_state
        /\ w.fd_pool[fd].inode_idx = v.fd_pool[fd].inode_idx
        /\ w.fd_pool[fd].buffer_idx = v.fd_pool[fd].buffer_idx
        /\ w.fd_pool[fd].buffer_state = "GARBAGE" <=> first + count = SECTSIZE
        /\ KeepsCells(v, w, open, G)
    <3> DEFINE full == end = SECTSIZE
    <3>1. v.fd_pool[fd].buffer_state # "GARBAGE" /\ full \in BOOLEAN
      BY <2>3, <2>5
    <3>2. w = IF full THEN fd_buffer_flush(v, fd) ELSE v
      BY <1>4 DEF Finish
    <3> HIDE DEF full
    <3>3. /\ Run(w, open, G, fds0, L0) /\ SameMemory(v, w) /\ Stays(v, w, fd)
          /\ w.fd_pool[fd].inode_state = v.fd_pool[fd].inode_state
          /\ w.fd_pool[fd].inode_idx = v.fd_pool[fd].inode_idx
          /\ w.fd_pool[fd].buffer_idx = v.fd_pool[fd].buffer_idx
          /\ w.fd_pool[fd].buffer_state = "GARBAGE" <=> full
          /\ KeepsCells(v, w, open, G)
      <4>1. Run(v, open, G, fds0, L0)
        BY <2>5
      <4> HIDE DEF f, i, o
      <4> QED BY <3>1, <3>2, <4>1, EndOfBlock
    <3> QED BY <1>6, <3>3 DEF full
  <2>7. Moves(s, w, fd, count)
    <3>1. /\ \A h \in Fds : h # fd => w.fd_pool[h] = v.fd_pool[h]
          /\ w.fd_pool[fd].index = v.fd_pool[fd].index /\ w.fd_pool[fd].offset = v.fd_pool[fd].offset
          /\ w.fd_pool[fd].opened = v.fd_pool[fd].opened
          /\ w.fd_pool[fd].writable = v.fd_pool[fd].writable
      BY <2>6 DEF Stays
    <3>2. /\ \A h \in Fds : h # fd => v.fd_pool[h] = t.fd_pool[h]
          /\ v.fd_pool[fd].index = t.fd_pool[fd].index
          /\ v.fd_pool[fd].offset = t.fd_pool[fd].offset + count
          /\ v.fd_pool[fd].opened = t.fd_pool[fd].opened
          /\ v.fd_pool[fd].writable = t.fd_pool[fd].writable
      BY <2>3, <2>5 DEF Moves
    <3>3. /\ \A h \in Fds : h # fd => t.fd_pool[h] = s.fd_pool[h]
          /\ t.fd_pool[fd].index = s.fd_pool[fd].index /\ t.fd_pool[fd].offset = s.fd_pool[fd].offset
          /\ t.fd_pool[fd].opened = s.fd_pool[fd].opened
          /\ t.fd_pool[fd].writable = s.fd_pool[fd].writable
      BY <2>1 DEF Stays
    <3> HIDE DEF f, i, o
    <3> QED BY <3>1, <3>2, <3>3 DEF Moves
  <2>8. w.dir = v.dir
    BY <2>6 DEF SameMemory
  <2>9. Works(w, open, G, fds0, L0)
    <3>1. /\ k = s.fd_pool[fd].offset \div INODE_CAPACITY /\ m = s.fd_pool[fd].offset \div SECTSIZE
          /\ first = s.fd_pool[fd].offset % SECTSIZE
      BY <1>6 DEF k, m
    <3>2. w.fd_pool[fd].inode_state # "GARBAGE" /\ w.fd_pool[fd].inode_idx = ino(G, i, k)
      BY <2>1, <2>3, <2>5, <2>6
    <3>3. Passed(s, w, G, fd, k, count)
      <4>1. /\ w.fd_pool[fd].buffer_state = "GARBAGE" <=> (s.fd_pool[fd].offset % SECTSIZE) + count = SECTSIZE
            /\ (s.fd_pool[fd].offset % SECTSIZE) + count <= SECTSIZE /\ count \in Nat \ {0}
        BY Zenon, <1>6, <2>6, <3>1
      <4>2. w.fd_pool[fd].buffer_idx = blk(G, s.fd_pool[fd].index, s.fd_pool[fd].offset \div SECTSIZE)
        BY <2>1, <2>3, <2>5, <2>6 DEF m
      <4> QED BY <2>7, <3>2, <4>1, <4>2 DEF Passed
    <3>4. Stretched(s, w, fd, count)
      BY <2>5, <2>8 DEF Stretched
    <3>5. Covers(s, L, G, fd, k, m)
      <4>1. /\ ni(G, i) = IF k < ni(L, i) THEN ni(L, i) ELSE k + 1
            /\ \A j \in Entries : j # i => ni(G, j) = ni(L, j)
            /\ nb(G, i) = IF m < nb(L, i) THEN nb(L, i) ELSE m + 1
            /\ \A j \in Entries : j # i => nb(G, j) = nb(L, j)
            /\ Grows(L, G)
        BY <1>6, <2>1
      <4> HIDE DEF k, m
      <4> QED BY <3>1, <4>1 DEF Covers
    <3>6. Run(w, open, G, fds0, L0)
      BY <2>6
    <3> HIDE DEF k, m
    <3> QED BY <3>3, <3>4, <3>5, <3>6, Arrives
  <2>10. result + count <= Len(data)
    BY <1>6
  <2>11. Writes(s, w, open, L, G, fd, data, result, count)
    <3> SUFFICES ASSUME NEW C, NEW D, Stored(s.image.data, s.dir, s.fd_pool, open, L, C),
                        Puts(C, D, i, o, data, result, count)
                 PROVE  Stored(w.image.data, w.dir, w.fd_pool, open, G, D)
      BY DEF Writes
    <3>1. /\ m \in Nat /\ m = o \div SECTSIZE /\ first = o % SECTSIZE /\ o <= s.dir[i].fileSize
          /\ open \subseteq Fds /\ Run(s, open, L, fds0, L0) /\ Sized(s.dir, L)
      BY <1>5, <1>6, Sizes, Division DEF m, Works, Run
    <3>2. Stored(t.image.data, t.dir, t.fd_pool, open, G, C)
      <4>1. /\ Run(t, open, G, fds0, L0) /\ Stays(s, t, fd) /\ SameFiles(s.dir, t.dir)
            /\ Grows(L, G) /\ Untouched(s, t, L) /\ m < nb(G, s.fd_pool[fd].index)
            /\ t.fd_pool[fd].buffer_idx = blk(G, s.fd_pool[fd].index, m) /\ Filled(s, t, L, fd, m)
        BY <2>1
      <4>2. Brings(s, t, open, L, G, fds0, L0, fd, m)
        BY <3>1, <4>1 DEF Brings
      <4> HIDE DEF m, f, i, o
      <4> QED BY <3>1, <4>2, FetchStored
    <3>3. /\ Sized(v.dir, G) /\ \A e \in Entries : v.dir[e].fileSize \in Nat
          /\ t.dir[i].fileSize = s.dir[i].fileSize
          /\ \A e \in Entries : e # i => v.dir[e].fileSize = t.dir[e].fileSize
      <4>1. v.dir \in DirType
        BY <2>5, RunFacts DEF States
      <4>2. \A e \in Entries : v.dir[e].fileSize \in 0 .. MaxFileSize
        BY <4>1 DEF DirType
      <4>3. Sized(w.dir, G)
        BY <2>9 DEF Works
      <4>4. Sized(v.dir, G)
        BY <2>8, <4>3
      <4>5. \A e \in Entries : t.dir[e].fileSize = s.dir[e].fileSize
        BY <2>1 DEF SameFiles
      <4>6. i \in Entries
        BY <1>5
      <4>7. \A e \in Entries : e # i => v.dir[e].fileSize = s.dir[e].fileSize
        BY <2>5
      <4>8. \A e \in Entries : v.dir[e].fileSize \in Nat
        BY SMTT(30), <4>2
      <4> HIDE DEF f, i, o
      <4> QED BY <4>4, <4>5, <4>6, <4>7, <4>8
    <3>4. /\ t.fd_pool[fd].index = i /\ HoldsBlk(t.fd_pool, fd, blk(G, i, m))
          /\ Unwashed(v.fd_pool, fd, blk(G, i, m))
          /\ \A h \in open : h # fd => v.fd_pool[h] = t.fd_pool[h]
      BY <2>1, <2>3, <2>5, <3>1 DEF Stays, Moves, HoldsBlk, Unwashed
    <3>5. Overlaid(t.fd_pool[fd].buffer, v.fd_pool[fd].buffer, data, result, o % SECTSIZE, count)
      BY <2>3, <2>5, <3>1
    <3>6. Stored(t.image.data, v.dir, v.fd_pool, open, G, D)
      <4>1. /\ (o % SECTSIZE) + count <= SECTSIZE /\ count \in Nat
            /\ v.dir[i].fileSize = IF t.dir[i].fileSize < o + count THEN o + count ELSE t.dir[i].fileSize
            /\ o <= t.dir[i].fileSize
        <5>1. (o % SECTSIZE) + count <= SECTSIZE /\ count \in Nat
          BY <1>6, <3>1
        <5>2. v.dir[i].fileSize = IF s.dir[i].fileSize < o + count THEN o + count ELSE s.dir[i].fileSize
          BY <2>5
        <5> HIDE DEF f, i, o
        <5>3. o <= s.dir[i].fileSize
          BY <3>1
        <5>4. t.dir[i].fileSize = s.dir[i].fileSize
          BY <3>3
        <5> QED BY <5>1, <5>2, <5>3, <5>4
      <4>2. PutsIn(t, v.dir, v.fd_pool, open, G, fd, i, o, data, result, count)
        BY ZenonT(30), <1>5, <2>1, <3>1, <3>3, <3>4, <3>5, <4>1 DEF PutsIn
      <4> HIDE DEF m, i, o, f
      <4> QED BY <2>1, <3>2, <4>2, PutStored
    <3>7. t.image = v.image
      BY <2>3, <2>5
    <3> QED BY <2>6, <2>8, <3>6, <3>7 DEF KeepsCells
  <2>12. Wrote(s, w, open, L, G, fd, data, result, count)
    <3>1. Stretched(s, w, fd, count)
      BY <2>5, <2>8 DEF Stretched
    <3>2. SameNames(s.dir, w.dir)
      BY <2>5, <2>8
    <3> QED BY <2>7, <2>11, <3>1, <3>2 DEF Wrote
  <2> HIDE DEF f, i, o
  <2> QED BY <1>6, <2>9, <2>10, <2>12
<1> QED BY <1>7, <1>8, <1>9

\* What fs_read takes out of the buffer.
Taken(u, fd, first, count) == [k \in 1..count |-> u.fd_pool[fd].buffer.cells[first + k - 1]]

LEMMA Concat ==
  ASSUME NEW S, NEW a \in Seq(S), NEW b \in Seq(S)
  PROVE  b \o a \in Seq(S) /\ Len(b \o a) = Len(b) + Len(a)
  OBVIOUS

LEMMA ConcatCells ==
  ASSUME NEW S, NEW a \in Seq(S), NEW b \in Seq(S)
  PROVE  /\ \A k \in 1 .. Len(b) : (b \o a)[k] = b[k]
         /\ \A k \in 1 .. Len(a) : (b \o a)[Len(b) + k] = a[k]
  OBVIOUS

LEMMA AsSeq ==
  ASSUME NEW S, NEW n \in Nat, NEW a, a \in [1 .. n -> S]
  PROVE  a \in Seq(S) /\ Len(a) = n
  OBVIOUS

Onto(b, a) == b \o a

LEMMA ReadIs ==
  ASSUME NEW r, NEW s, s = r.s, NEW fd, NEW wanted, NEW first, first = First(s, fd),
         NEW count, count = Count(s, fd, wanted),
         NEW u, u = fd_buffer_fetch(s, fd), NEW v, v = Skip(u, fd, count),
         NEW q, q = ReadChunk(r, fd, wanted)
  PROVE  /\ q.s = Finish(v, fd, End(s, fd, wanted))
         /\ q.buf = Onto(r.buf, Taken(u, fd, first, count))
<1>1. ReadChunk(r, fd, wanted)
        = LET b == First(r.s, fd)
              n == Count(r.s, fd, wanted)
              x == fd_buffer_fetch(r.s, fd)
          IN  [s |-> Finish(Skip(x, fd, n), fd, End(r.s, fd, wanted)), buf |-> Onto(r.buf, Taken(x, fd, b, n))]
  BY Zenon DEF ReadChunk, Skip, Finish, Taken, First, Count, End, Onto
<1>2. q = [s |-> Finish(v, fd, End(s, fd, wanted)), buf |-> Onto(r.buf, Taken(u, fd, first, count))]
  BY <1>1, Zenon
<1>3. ASSUME NEW x, NEW y, q = [s |-> x, buf |-> y] PROVE q.s = x /\ q.buf = y
  BY <1>3
<1> QED BY <1>2, <1>3

\* a is count cells of the file contents c, from offset o on.
ChunkIs(a, count, c, o) == \A k \in 1 .. count : a[k] = c[o + k - 1]

(* The cells taken are those of the file.                                  *)
LEMMA TakenCells ==
  ASSUME NEW t, NEW open, NEW G, NEW C, Stored(t.image.data, t.dir, t.fd_pool, open, G, C),
         NEW fd \in open, NEW i \in Entries, NEW o \in Nat, NEW count \in Nat,
         (o % SECTSIZE) + count <= SECTSIZE, t.dir[i].fileSize \in Nat, o + count <= t.dir[i].fileSize,
         HoldsBlk(t.fd_pool, fd, blk(G, i, o \div SECTSIZE)), NEW first, first = o % SECTSIZE
  PROVE  ChunkIs(Taken(t, fd, first, count), count, C[i], o)
<1> SUFFICES ASSUME NEW k \in 1 .. count
             PROVE  Taken(t, fd, first, count)[k] = C[i][o + k - 1]
  BY DEF ChunkIs
<1> DEFINE p == o + k - 1
           size == t.dir[i].fileSize
<1>1. p \in Nat /\ p \in o .. o + count - 1 /\ p - o = k - 1 /\ p < size
  <2>1. size \in Nat /\ o + count <= size
    OBVIOUS
  <2> HIDE DEF size
  <2> QED BY <2>1
<1> HIDE DEF p
<1>2. p \div SECTSIZE = o \div SECTSIZE /\ p % SECTSIZE = (o % SECTSIZE) + (p - o)
  BY <1>1, ChunkCells
<1>3. first \in Nat
  BY Sizes, Division
<1>4. p % SECTSIZE = first + k - 1
  <2>1. p % SECTSIZE = first + (k - 1)
    BY <1>1, <1>2
  <2> HIDE DEF p
  <2> QED BY <1>3, <2>1
<1>5. CellIs(t.image.data, t.fd_pool, open, blk(G, i, o \div SECTSIZE), p % SECTSIZE, C[i][p])
  BY <1>1, <1>2 DEF Stored
<1>6. t.fd_pool[fd].buffer.cells[p % SECTSIZE] = C[i][p]
  BY <1>5 DEF CellIs
<1>7. Taken(t, fd, first, count)[k] = t.fd_pool[fd].buffer.cells[first + k - 1]
  BY DEF Taken
<1> QED BY <1>4, <1>6, <1>7 DEF p

\* From s to w, the files contain the same, and a is the chunk of count cells at
\* the offset of fd.
Copies(s, w, open, L, G, fd, a, count) ==
  \A C : Stored(s.image.data, s.dir, s.fd_pool, open, L, C) =>
    /\ Stored(w.image.data, w.dir, w.fd_pool, open, G, C)
    /\ ChunkIs(a, count, C[s.fd_pool[fd].index], s.fd_pool[fd].offset)

(* The same when the file does not grow.                                   *)
LEMMA ArrivesRead ==
  ASSUME NEW s, NEW open, NEW L, NEW fds0, NEW L0, Works(s, open, L, fds0, L0),
         NEW fd \in open, NEW count, NEW k, NEW m, NEW G, Covers(s, L, G, fd, k, m),
         NEW t, Run(t, open, G, fds0, L0), Passed(s, t, G, fd, k, count),
         SameFiles(s.dir, t.dir),
         s.fd_pool[fd].offset + count <= s.dir[s.fd_pool[fd].index].fileSize
  PROVE  Works(t, open, G, fds0, L0)
<1> DEFINE i == s.fd_pool[fd].index
           o == s.fd_pool[fd].offset
<1>1. i \in Entries /\ o \in Nat /\ s.dir[i].fileSize \in Nat /\ count \in Nat
  BY WorksFacts DEF Passed
<1>2. ~(s.dir[i].fileSize < o + count)
  <2>1. o + count <= s.dir[i].fileSize
    OBVIOUS
  <2> HIDE DEF o
  <2> QED BY <1>1, <2>1
<1>3. Stretched(s, t, fd, count)
  <2>1. \A e \in Entries : t.dir[e].fileSize = s.dir[e].fileSize
    BY DEF SameFiles
  <2>2. i \in Entries
    BY <1>1
  <2>3. t.dir[i].fileSize = s.dir[i].fileSize
    <3> HIDE DEF i
    <3> QED BY <2>1, <2>2
  <2> QED BY <1>2, <2>1, <2>3 DEF Stretched
<1> HIDE DEF i, o
<1> QED BY Zenon, <1>3, Arrives

\* count cells, from cell `first' of the buffer on to cell `end', are a chunk of
\* the file of fd: they lie in one block, block k of inode m of the file.
InChunk(s, fd, first, count, end, k, m) ==
  /\ count \in Nat \ {0}
  /\ s.fd_pool[fd].offset + count <= s.dir[s.fd_pool[fd].index].fileSize
  /\ first \in 0 .. SECTSIZE - 1 /\ first = s.fd_pool[fd].offset % SECTSIZE
  /\ end = first + count /\ end <= SECTSIZE
  /\ k = s.fd_pool[fd].offset \div INODE_CAPACITY
  /\ m = s.fd_pool[fd].offset \div SECTSIZE

LEMMA ReadFetched ==
  ASSUME NEW s, NEW open, NEW L, NEW fds0, NEW L0, Works(s, open, L, fds0, L0),
         NEW fd \in open, NEW first, NEW count, NEW end, NEW k, NEW m,
         InChunk(s, fd, first, count, end, k, m),
         NEW t, Fetched(s, t, open, L, fds0, L0, fd, k, m), NEW v, v = Skip(t, fd, count),
         NEW w, w = Finish(v, fd, end)
  PROVE  \E G : /\ Works(w, open, G, fds0, L0) /\ Moves(s, w, fd, count)
                /\ SameFiles(s.dir, w.dir)
                /\ Taken(t, fd, first, count) \in Seq(Values \cup {0})
                /\ Len(Taken(t, fd, first, count)) = count
                /\ Copies(s, w, open, L, G, fd, Taken(t, fd, first, count), count)
<1> DEFINE f == s.fd_pool[fd]
           i == f.index
           o == f.offset
<1>e5. /\ f \in FdType /\ i \in Entries /\ o \in Nat /\ fd \in Fds
       /\ s.dir[i].fileSize \in Nat
  BY WorksFacts DEF Works, Run
<1>e6. /\ count \in Nat \ {0} /\ first + count <= SECTSIZE
       /\ first \in 0 .. SECTSIZE - 1 /\ first = s.fd_pool[fd].offset % SECTSIZE
       /\ end = first + count
       /\ o + count <= s.dir[i].fileSize
       /\ k = o \div INODE_CAPACITY /\ m = o \div SECTSIZE
  BY DEF InChunk
<1>1. PICK G :
       /\ Run(t, open, G, fds0, L0) /\ Stays(s, t, fd) /\ SameFiles(s.dir, t.dir)
       /\ Grows(L, G) /\ Untouched(s, t, L)
       /\ k < ni(G, i)
       /\ ni(G, i) = IF k < ni(L, i) THEN ni(L, i) ELSE k + 1
       /\ \A j \in Entries : j # i => ni(G, j) = ni(L, j)
       /\ m < nb(G, i)
       /\ nb(G, i) = IF m < nb(L, i) THEN nb(L, i) ELSE m + 1
       /\ \A j \in Entries : j # i => nb(G, j) = nb(L, j)
       /\ t.fd_pool[fd].buffer_state # "GARBAGE" /\ t.fd_pool[fd].inode_state # "GARBAGE"
       /\ t.fd_pool[fd].inode_idx = ino(G, i, k)
       /\ t.fd_pool[fd].buffer_idx = blk(G, i, m)
       /\ Filled(s, t, L, fd, m)
  BY DEF Fetched
<1>2. t \in States
  BY <1>1, RunFacts
<1>3. /\ Run(v, open, G, fds0, L0) /\ SameMemory(t, v) /\ Moves(t, v, fd, count)
      /\ v.fd_pool[fd].inode_state = t.fd_pool[fd].inode_state
      /\ v.fd_pool[fd].inode_idx = t.fd_pool[fd].inode_idx
      /\ v.fd_pool[fd].buffer_state = t.fd_pool[fd].buffer_state
      /\ v.fd_pool[fd].buffer_idx = t.fd_pool[fd].buffer_idx
      /\ v.fd_pool[fd].buffer = t.fd_pool[fd].buffer /\ v.image = t.image
  <2>1. count \in Nat
    BY <1>e6
  <2>2. PICK g \in FdType :
          /\ Skip(t, fd, count) = WithFd(t, fd, g)
          /\ g.index = t.fd_pool[fd].index /\ g.offset = t.fd_pool[fd].offset + count
          /\ g.opened = t.fd_pool[fd].opened /\ g.writable = t.fd_pool[fd].writable
          /\ g.buffer_state = t.fd_pool[fd].buffer_state /\ g.buffer_idx = t.fd_pool[fd].buffer_idx
          /\ g.buffer = t.fd_pool[fd].buffer
          /\ g.inode = t.fd_pool[fd].inode /\ g.inode_idx = t.fd_pool[fd].inode_idx
          /\ g.inode_state = t.fd_pool[fd].inode_state
    BY <1>e5, <1>2, <2>1, SkipIs
  <2>3. v = WithFd(t, fd, g) /\ g.buffer_state # "GARBAGE"
    BY <1>1, <2>2, Zenon
  <2> QED BY <1>1, <2>1, <2>2, <2>3, Moved
<1>6. /\ Run(w, open, G, fds0, L0) /\ SameMemory(v, w) /\ Stays(v, w, fd)
      /\ w.fd_pool[fd].inode_state = v.fd_pool[fd].inode_state
      /\ w.fd_pool[fd].inode_idx = v.fd_pool[fd].inode_idx
      /\ w.fd_pool[fd].buffer_idx = v.fd_pool[fd].buffer_idx
      /\ w.fd_pool[fd].buffer_state = "GARBAGE" <=> first + count = SECTSIZE
      /\ KeepsCells(v, w, open, G)
  <2> DEFINE full == end = SECTSIZE
  <2>1. v.fd_pool[fd].buffer_state # "GARBAGE" /\ full \in BOOLEAN
    BY <1>1, <1>3
  <2>2. w = IF full THEN fd_buffer_flush(v, fd) ELSE v
    BY DEF Finish
  <2> HIDE DEF full
  <2>3. /\ Run(w, open, G, fds0, L0) /\ SameMemory(v, w) /\ Stays(v, w, fd)
        /\ w.fd_pool[fd].inode_state = v.fd_pool[fd].inode_state
        /\ w.fd_pool[fd].inode_idx = v.fd_pool[fd].inode_idx
        /\ w.fd_pool[fd].buffer_idx = v.fd_pool[fd].buffer_idx
        /\ w.fd_pool[fd].buffer_state = "GARBAGE" <=> full
        /\ KeepsCells(v, w, open, G)
    BY <1>3, <2>1, <2>2, EndOfBlock
  <2> QED BY <1>e6, <2>3, Zenon DEF full
<1>7. Moves(s, w, fd, count)
  BY <1>e5, <1>1, <1>3, <1>6 DEF Moves, Stays
<1>8. w.dir = t.dir
  BY Zenon, <1>3, <1>6 DEF SameMemory
<1>9. Works(w, open, G, fds0, L0)
  <2>1. first = s.fd_pool[fd].offset % SECTSIZE
    BY <1>e6
  <2>2. w.fd_pool[fd].inode_state # "GARBAGE" /\ w.fd_pool[fd].inode_idx = ino(G, i, k)
    BY <1>1, <1>3, <1>6
  <2>3. /\ count \in Nat \ {0} /\ s.fd_pool[fd].offset + count <= s.dir[s.fd_pool[fd].index].fileSize
        /\ k = s.fd_pool[fd].offset \div INODE_CAPACITY
        /\ m = s.fd_pool[fd].offset \div SECTSIZE
    BY DEF InChunk
  <2>4. Passed(s, w, G, fd, k, count)
    <3>1. /\ w.fd_pool[fd].buffer_state = "GARBAGE" <=> (s.fd_pool[fd].offset % SECTSIZE) + count = SECTSIZE
          /\ (s.fd_pool[fd].offset % SECTSIZE) + count <= SECTSIZE
          /\ w.fd_pool[fd].buffer_idx = blk(G, s.fd_pool[fd].index, s.fd_pool[fd].offset \div SECTSIZE)
      BY <1>e6, <1>1, <1>3, <1>6, <2>1, Zenon
    <3> QED BY <1>7, <2>2, <2>3, <3>1 DEF Passed
  <2>5. Covers(s, L, G, fd, k, m)
    <3>1. /\ ni(G, i) = IF k < ni(L, i) THEN ni(L, i) ELSE k + 1
          /\ \A j \in Entries : j # i => ni(G, j) = ni(L, j)
          /\ nb(G, i) = IF m < nb(L, i) THEN nb(L, i) ELSE m + 1
          /\ \A j \in Entries : j # i => nb(G, j) = nb(L, j)
          /\ Grows(L, G)
      BY <1>1
    <3> QED BY <2>3, <3>1 DEF Covers
  <2>6. SameFiles(s.dir, w.dir) /\ Run(w, open, G, fds0, L0)
    BY <1>1, <1>6, <1>8
  <2> QED BY <2>3, <2>4, <2>5, <2>6, ArrivesRead
<1>10. SameFiles(s.dir, w.dir)
  BY <1>1, <1>8
<1>11. Taken(t, fd, first, count) \in Seq(Values \cup {0}) /\ Len(Taken(t, fd, first, count)) = count
  <2> DEFINE taken == Taken(t, fd, first, count)
             cells == t.fd_pool[fd].buffer.cells
  <2>1. cells \in [0 .. SECTSIZE - 1 -> Values \cup {0}]
    <3>1. t.fd_pool[fd] \in FdType
      BY <1>e5, <1>2 DEF States
    <3> QED BY <3>1 DEF FdType, DataSector
  <2>2. \A n \in 1 .. count : cells[first + n - 1] \in Values \cup {0}
    <3> SUFFICES ASSUME NEW n \in 1 .. count PROVE first + n - 1 \in 0 .. SECTSIZE - 1
      BY <2>1
    <3> QED BY <1>e6, Sizes
  <2>3. taken \in [1 .. count -> Values \cup {0}] /\ DOMAIN taken = 1 .. count
    BY <2>2 DEF Taken
  <2> HIDE DEF taken
  <2>4. taken \in Seq(Values \cup {0}) /\ Len(taken) = count
    BY <1>e6, <2>3, AsSeq
  <2> QED BY <2>4 DEF taken
<1>13. Copies(s, w, open, L, G, fd, Taken(t, fd, first, count), count)
  <2> SUFFICES ASSUME NEW C, Stored(s.image.data, s.dir, s.fd_pool, open, L, C)
               PROVE  /\ Stored(w.image.data, w.dir, w.fd_pool, open, G, C)
                      /\ ChunkIs(Taken(t, fd, first, count), count, C[i], o)
    BY Zenon DEF Copies
  <2>1. /\ m \in Nat /\ open \subseteq Fds /\ Run(s, open, L, fds0, L0) /\ Sized(s.dir, L)
    BY <1>e5, <1>e6, Sizes, Division DEF Works, Run
  <2>2. Stored(t.image.data, t.dir, t.fd_pool, open, G, C)
    <3>1. Brings(s, t, open, L, G, fds0, L0, fd, m)
      BY <1>1, <2>1 DEF Brings
    <3> HIDE DEF f, i, o
    <3> QED BY <2>1, <3>1, FetchStored
  <2>3. Stored(t.image.data, t.dir, v.fd_pool, open, G, C)
    <3>1. SameBuffers(t.fd_pool, v.fd_pool, open)
      BY <1>3, <2>1 DEF Moves, SameBuffers
    <3> QED BY <2>2, <3>1, BuffersStored
  <2>4. Stored(w.image.data, w.dir, w.fd_pool, open, G, C)
    BY <1>3, <1>6, <1>8, <2>3 DEF KeepsCells
  <2>5. t.dir[i].fileSize = s.dir[i].fileSize
    BY Zenon, <1>e5, <1>1 DEF SameFiles
  <2>6. HoldsBlk(t.fd_pool, fd, blk(G, i, o \div SECTSIZE))
    BY Zenon, <1>e6, <1>1 DEF HoldsBlk
  <2>7. /\ (o % SECTSIZE) + count <= SECTSIZE /\ o + count <= t.dir[i].fileSize
        /\ t.dir[i].fileSize \in Nat /\ count \in Nat /\ first = o % SECTSIZE
    BY <1>e5, <1>e6, <2>5
  <2>8. ChunkIs(Taken(t, fd, first, count), count, C[i], o)
    <3> HIDE DEF f, i, o
    <3> QED BY <1>e5, <2>2, <2>6, <2>7, TakenCells
  <2> QED BY <2>4, <2>8
<1> HIDE DEF f, i, o
<1>12. i = s.fd_pool[fd].index
  BY DEF i, f
<1> QED BY Zenon, <1>e6, <1>7, <1>9, <1>10, <1>11, <1>12, <1>13

LEMMA ReadStep ==
  ASSUME NEW s, NEW open, NEW L, NEW fds0, NEW L0, Works(s, open, L, fds0, L0),
         NEW fd \in open, NEW wanted \in Nat \ {0},
         s.fd_pool[fd].offset + wanted <= s.dir[s.fd_pool[fd].index].fileSize,
         NEW first, NEW count, NEW t, NEW v, NEW end, NEW w
  PROVE  (/\ first = First(s, fd) /\ count = Count(s, fd, wanted)
          /\ t = fd_buffer_fetch(s, fd) /\ v = Skip(t, fd, count)
          /\ end = End(s, fd, wanted) /\ w = Finish(v, fd, end))
         => \/ Lost(w, open, fds0, L0)
            \/ \E G : /\ Works(w, open, G, fds0, L0) /\ Moves(s, w, fd, count)
                      /\ count \in Nat \ {0} /\ count <= wanted
                      /\ SameFiles(s.dir, w.dir)
                      /\ Taken(t, fd, first, count) \in Seq(Values \cup {0})
                      /\ Len(Taken(t, fd, first, count)) = count
                      /\ Copies(s, w, open, L, G, fd, Taken(t, fd, first, count), count)
<1>1. SUFFICES ASSUME first = First(s, fd), count = Count(s, fd, wanted),
                      t = fd_buffer_fetch(s, fd), v = Skip(t, fd, count),
                      end = End(s, fd, wanted), w = Finish(v, fd, end)
               PROVE  \/ Lost(w, open, fds0, L0)
                      \/ \E G : /\ Works(w, open, G, fds0, L0) /\ Moves(s, w, fd, count)
                                /\ count \in Nat \ {0} /\ count <= wanted
                                /\ SameFiles(s.dir, w.dir)
                                /\ Taken(t, fd, first, count) \in Seq(Values \cup {0})
                                /\ Len(Taken(t, fd, first, count)) = count
                                /\ Copies(s, w, open, L, G, fd, Taken(t, fd, first, count), count)
  BY Zenon
<1> DEFINE f == s.fd_pool[fd]
           i == f.index
           o == f.offset
           k == o \div INODE_CAPACITY
           m == o \div SECTSIZE
<1>5. /\ f \in FdType /\ i \in Entries /\ o \in Nat /\ fd \in Fds
      /\ s.dir[i].fileSize \in Nat
  BY WorksFacts DEF Works, Run
<1>6. /\ count \in Nat \ {0} /\ count <= wanted /\ first + count <= SECTSIZE
      /\ first \in 0 .. SECTSIZE - 1 /\ first = s.fd_pool[fd].offset % SECTSIZE
      /\ end = first + count
  BY <1>1, <1>5, Chunks
<1>7. Lost(t, open, fds0, L0) \/ Fetched(s, t, open, L, fds0, L0, fd, k, m)
  BY <1>1, Fetch DEF Works
<1>7a. o + count <= s.dir[i].fileSize
  <2>1. o + wanted <= s.dir[i].fileSize
    OBVIOUS
  <2> HIDE DEF o
  <2> QED BY <1>5, <1>6, <2>1
<1> HIDE DEF k, m
<1>8. CASE Lost(t, open, fds0, L0)
  <2>2. StaysHalted(t, v)
    BY <1>1, <1>8 DEF Lost, Halted, StaysHalted, Skip
  <2>3. Halted(v)
    BY <1>8, <2>2, HaltedTrans DEF Lost
  <2>4. StaysHalted(v, fd_buffer_flush(v, fd)) /\ StaysHalted(v, v)
    BY <2>3, HaltedFlushBuf DEF StaysHalted
  <2>5. StaysHalted(v, w)
    BY <1>1, <2>4 DEF Finish
  <2>6. Lost(v, open, fds0, L0)
    BY <1>8, <2>2, LostStays
  <2> QED BY <2>5, <2>6, LostStays
<1>9. CASE Fetched(s, t, open, L, fds0, L0, fd, k, m)
  <2>1. k = s.fd_pool[fd].offset \div INODE_CAPACITY /\ m = s.fd_pool[fd].offset \div SECTSIZE
    BY DEF k, m
  <2> HIDE DEF f, i, o
  <2>2. s.fd_pool[fd].offset + count <= s.dir[s.fd_pool[fd].index].fileSize
    BY <1>7a DEF f, i, o
  <2>3. \E G : /\ Works(w, open, G, fds0, L0) /\ Moves(s, w, fd, count)
               /\ SameFiles(s.dir, w.dir)
               /\ Taken(t, fd, first, count) \in Seq(Values \cup {0})
               /\ Len(Taken(t, fd, first, count)) = count
               /\ Copies(s, w, open, L, G, fd, Taken(t, fd, first, count), count)
    <3>1. v = Skip(t, fd, count) /\ w = Finish(v, fd, end)
      BY <1>1
    <3>2. InChunk(s, fd, first, count, end, k, m)
      BY <1>6, <2>1, <2>2 DEF InChunk
    <3> QED BY <1>9, <3>1, <3>2, ReadFetched
  <2> QED BY <1>6, <2>3
<1> QED BY <1>7, <1>8, <1>9

\* The same from r to q, with the chunk at the end of what r has read.
ReadsOn(r, q, open, L, G, fd, count) ==
  /\ \A k \in 1 .. Len(r.buf) : q.buf[k] = r.buf[k]
  /\ \A C : Stored(r.s.image.data, r.s.dir, r.s.fd_pool, open, L, C) =>
       /\ Stored(q.s.image.data, q.s.dir, q.s.fd_pool, open, G, C)
       /\ \A k \in 1 .. count :
            q.buf[Len(r.buf) + k] = C[r.s.fd_pool[fd].index][r.s.fd_pool[fd].offset + k - 1]

\* What one round with `wanted' cells to read comes to.
ReadOn(r, q, open, L, fds0, L0, fd, wanted) ==
  \/ Lost(q.s, open, fds0, L0)
  \/ \E G, count : /\ Works(q.s, open, G, fds0, L0) /\ Moves(r.s, q.s, fd, count)
                   /\ count \in Nat \ {0} /\ count <= wanted
                   /\ SameFiles(r.s.dir, q.s.dir)
                   /\ q.buf \in Seq(Values \cup {0}) /\ Len(q.buf) = Len(r.buf) + count
                   /\ ReadsOn(r, q, open, L, G, fd, count)

LEMMA ReadRound ==
  ASSUME NEW r, NEW open, NEW L, NEW fds0, NEW L0, Works(r.s, open, L, fds0, L0),
         NEW fd \in open, NEW wanted \in Nat \ {0},
         r.s.fd_pool[fd].offset + wanted <= r.s.dir[r.s.fd_pool[fd].index].fileSize,
         r.buf \in Seq(Values \cup {0}),
         NEW q, q = ReadChunk(r, fd, wanted)
  PROVE  ReadOn(r, q, open, L, fds0, L0, fd, wanted)
<1>1. PICK s : s = r.s
  OBVIOUS
<1>2. PICK first : first = First(s, fd)
  OBVIOUS
<1>3. PICK count : count = Count(s, fd, wanted)
  OBVIOUS
<1>4. PICK t : t = fd_buffer_fetch(s, fd)
  OBVIOUS
<1>5. PICK v : v = Skip(t, fd, count)
  OBVIOUS
<1>6a. PICK end : end = End(s, fd, wanted)
  OBVIOUS
<1>6. PICK w : w = Finish(v, fd, end)
  OBVIOUS
<1>7. q.s = w /\ q.buf = Onto(r.buf, Taken(t, fd, first, count))
  BY <1>1, <1>2, <1>3, <1>4, <1>5, <1>6a, <1>6, ReadIs
<1>8. \/ Lost(w, open, fds0, L0)
      \/ \E G : /\ Works(w, open, G, fds0, L0) /\ Moves(s, w, fd, count)
                /\ count \in Nat \ {0} /\ count <= wanted
                /\ SameFiles(s.dir, w.dir)
                /\ Taken(t, fd, first, count) \in Seq(Values \cup {0})
                /\ Len(Taken(t, fd, first, count)) = count
                /\ Copies(s, w, open, L, G, fd, Taken(t, fd, first, count), count)
  <2>1. /\ Works(s, open, L, fds0, L0)
        /\ s.fd_pool[fd].offset + wanted <= s.dir[s.fd_pool[fd].index].fileSize
    BY <1>1
  <2> QED BY <1>2, <1>3, <1>4, <1>5, <1>6a, <1>6, <2>1, ReadStep
<1>9. ASSUME Taken(t, fd, first, count) \in Seq(Values \cup {0}), Len(Taken(t, fd, first, count)) = count
      PROVE  /\ q.buf \in Seq(Values \cup {0}) /\ Len(q.buf) = Len(r.buf) + count
             /\ \A k \in 1 .. Len(r.buf) : q.buf[k] = r.buf[k]
             /\ \A k \in 1 .. count : q.buf[Len(r.buf) + k] = Taken(t, fd, first, count)[k]
  <2> DEFINE S == Values \cup {0}
             a == Taken(t, fd, first, count)
             b == r.buf
  <2>1. b \in Seq(S) /\ a \in Seq(S) /\ Len(a) = count /\ q.buf = b \o a
    BY <1>7, <1>9 DEF Onto
  <2> HIDE DEF S, a, b
  <2>2. b \o a \in Seq(S) /\ Len(b \o a) = Len(b) + Len(a)
    BY <2>1, Concat
  <2>3. q.buf \in Seq(S) /\ Len(q.buf) = Len(b) + count
    BY <2>1, <2>2
  <2>4. /\ \A k \in 1 .. Len(b) : (b \o a)[k] = b[k]
        /\ \A k \in 1 .. Len(a) : (b \o a)[Len(b) + k] = a[k]
    BY <2>1, ConcatCells
  <2> QED BY <2>1, <2>3, <2>4 DEF S, a, b
<1>10. ASSUME NEW G, Taken(t, fd, first, count) \in Seq(Values \cup {0}),
              Len(Taken(t, fd, first, count)) = count,
              Copies(s, w, open, L, G, fd, Taken(t, fd, first, count), count)
       PROVE  ReadsOn(r, q, open, L, G, fd, count)
  BY <1>1, <1>7, <1>9, <1>10 DEF Copies, ChunkIs, ReadsOn
<1> QED BY <1>1, <1>7, <1>8, <1>9, <1>10 DEF ReadOn

(* After a panic a round of a loop changes neither the disk nor the mode.  *)
LEMMA HaltedFinish ==
  ASSUME NEW v, Halted(v), NEW fd, NEW end
  PROVE  StaysHalted(v, Finish(v, fd, end))
<1>1. StaysHalted(v, fd_buffer_flush(v, fd)) /\ StaysHalted(v, v)
  BY HaltedFlushBuf DEF StaysHalted
<1> QED BY <1>1 DEF Finish

LEMMA HaltedWrite ==
  ASSUME NEW s, Halted(s), NEW fd, NEW data, NEW result
  PROVE  StaysHalted(s, WriteChunk(s, fd, data, result))
<1>1. PICK first : first = First(s, fd)
  OBVIOUS
<1>2. PICK count : count = Count(s, fd, Len(data) - result)
  OBVIOUS
<1>3. PICK t : t = fd_buffer_fetch(s, fd)
  OBVIOUS
<1>4. PICK u : u = Put(t, fd, data, result, first, count)
  OBVIOUS
<1>5. PICK v : v = Grow(u, s.fd_pool[fd].index, s.fd_pool[fd].offset + count)
  OBVIOUS
<1>6. PICK w : w = Finish(v, fd, End(s, fd, Len(data) - result))
  OBVIOUS
<1>7. WriteChunk(s, fd, data, result) = w
  BY <1>1, <1>2, <1>3, <1>4, <1>5, <1>6, WriteIs
<1>8. StaysHalted(s, t) /\ Halted(t)
  BY <1>3, HaltedFetch, HaltedTrans
<1>9. StaysHalted(t, u) /\ Halted(u)
  BY <1>4, <1>8 DEF Halted, StaysHalted, Put
<1>10. StaysHalted(u, v) /\ Halted(v)
  BY <1>5, <1>9 DEF Halted, StaysHalted, Grow
<1>11. StaysHalted(v, w)
  BY <1>6, <1>10, HaltedFinish
<1> QED BY <1>7, <1>8, <1>9, <1>10, <1>11 DEF StaysHalted

LEMMA HaltedRead ==
  ASSUME NEW r, Halted(r.s), NEW fd, NEW wanted
  PROVE  StaysHalted(r.s, ReadChunk(r, fd, wanted).s)
<1>1. PICK s : s = r.s
  OBVIOUS
<1>2. PICK first : first = First(s, fd)
  OBVIOUS
<1>3. PICK count : count = Count(s, fd, wanted)
  OBVIOUS
<1>4. PICK t : t = fd_buffer_fetch(s, fd)
  OBVIOUS
<1>5. PICK v : v = Skip(t, fd, count)
  OBVIOUS
<1>6. PICK w : w = Finish(v, fd, End(s, fd, wanted))
  OBVIOUS
<1>7. ReadChunk(r, fd, wanted).s = w
  BY <1>1, <1>2, <1>3, <1>4, <1>5, <1>6, ReadIs
<1>8. StaysHalted(s, t) /\ Halted(t)
  BY <1>1, <1>4, HaltedFetch, HaltedTrans
<1>9. StaysHalted(t, v) /\ Halted(v)
  BY <1>5, <1>8 DEF Halted, StaysHalted, Skip
<1>10. StaysHalted(v, w)
  BY <1>6, <1>9, HaltedFinish
<1> QED BY <1>1, <1>7, <1>8, <1>9, <1>10 DEF StaysHalted

(* The loop of fs_write: the states after each of its rounds.              *)
WriteTurn(t, fd, data, start) ==
  IF t.fd_pool[fd].offset - start < Len(data)
    THEN WriteChunk(t, fd, data, t.fd_pool[fd].offset - start) ELSE t

LEMMA WriteTurns ==
  ASSUME NEW s, NEW fd, NEW data, NEW n \in Nat, n = Len(data), NEW start,
         start = s.fd_pool[fd].offset
  PROVE  \E a : /\ a[0] = s
                /\ fs_write(s, fd, data) = IF s.fd_pool[fd].writable THEN a[n] ELSE Panic(s)
                /\ \A k \in Nat : k < n => a[k + 1] = WriteTurn(a[k], fd, data, start)
<1> DEFINE F(f, m) == [k \in 0 .. m |-> IF k = 0 THEN s ELSE WriteTurn(f[k-1], fd, data, start)]
           T == {m \in Nat : \E f : f = F(f, m)}
<1>1. 0 \in T
  <2> DEFINE f == [k \in 0 .. 0 |-> s]
  <2>1. f = F(f, 0)
    OBVIOUS
  <2> QED BY <2>1
<1>2. ASSUME NEW m \in T PROVE m + 1 \in T
  <2>1. PICK f : f = F(f, m)
    OBVIOUS
  <2> DEFINE g == [k \in 0 .. m + 1 |-> IF k = m + 1 THEN WriteTurn(f[m], fd, data, start) ELSE f[k]]
  <2>2. m \in Nat /\ m + 1 \in Nat
    OBVIOUS
  <2>3. ASSUME NEW k \in 0 .. m + 1
        PROVE  g[k] = IF k = 0 THEN s ELSE WriteTurn(g[k-1], fd, data, start)
    <3>1. CASE k = m + 1
      <4>1. k # 0 /\ k - 1 = m /\ m \in 0 .. m + 1 /\ m # m + 1
        BY <2>2, <3>1
      <4>2. g[k - 1] = f[m] /\ g[k] = WriteTurn(f[m], fd, data, start)
        BY <3>1, <4>1
      <4> QED BY <4>1, <4>2
    <3>2. CASE k # m + 1
      <4>1. k \in 0 .. m /\ (k # 0 => k - 1 \in 0 .. m + 1 /\ k - 1 # m + 1)
        BY <2>2, <3>2
      <4>2. f[k] = IF k = 0 THEN s ELSE WriteTurn(f[k-1], fd, data, start)
        BY <2>1, <4>1
      <4>3. g[k] = f[k] /\ (k # 0 => g[k - 1] = f[k - 1])
        BY <3>2, <4>1
      <4> QED BY <4>2, <4>3
    <3> QED BY <3>1, <3>2
  <2>4. g = F(g, m + 1)
    BY <2>3
  <2> HIDE DEF g, F
  <2> QED BY <2>2, <2>4
<1>3. T = Nat
  <2> HIDE DEF F
  <2>1. T \in SUBSET Nat
    OBVIOUS
  <2> HIDE DEF T
  <2> QED BY <1>1, <1>2, <2>1, NatClosed
<1>4. fs_write(s, fd, data) = IF s.fd_pool[fd].writable THEN (CHOOSE f : f = F(f, n))[n] ELSE Panic(s)
  <2>1. ASSUME s.fd_pool[fd].writable PROVE fs_write(s, fd, data) = (CHOOSE f : f = F(f, n))[n]
    BY <2>1, Zenon DEF fs_write, Iterate, WriteTurn
  <2>2. ASSUME ~s.fd_pool[fd].writable PROVE fs_write(s, fd, data) = Panic(s)
    BY <2>2, Zenon DEF fs_write
  <2> HIDE DEF F
  <2> QED BY <2>1, <2>2
<1>5. PICK a : a = (CHOOSE f : f = F(f, n)) /\ a = F(a, n)
  <2> HIDE DEF F
  <2>1. \E f : f = F(f, n)
    BY <1>3
  <2> QED BY <2>1
<1>6. ASSUME NEW k \in Nat, k < n PROVE a[k + 1] = WriteTurn(a[k], fd, data, start)
  <2>1. k + 1 \in 0 .. n /\ k + 1 # 0 /\ (k + 1) - 1 = k
    BY <1>6
  <2> QED BY <1>5, <2>1
<1>7. a[0] = s
  BY <1>5
<1>8. fs_write(s, fd, data) = IF s.fd_pool[fd].writable THEN a[n] ELSE Panic(s)
  <2> HIDE DEF F
  <2> QED BY <1>4, <1>5
<1>9. \A k \in Nat : k < n => a[k + 1] = WriteTurn(a[k], fd, data, start)
  BY <1>6
<1> QED BY <1>7, <1>8, <1>9

(* The descriptors are open for the same files.                            *)
SameOpen(s, t) ==
  \A h \in Fds : /\ t.fd_pool[h].index = s.fd_pool[h].index
                 /\ t.fd_pool[h].opened = s.fd_pool[h].opened
                 /\ t.fd_pool[h].writable = s.fd_pool[h].writable

\* What a call that opens and closes nothing leaves behind.
Worked(s, t, open, fds0, L0) ==
  \/ Lost(t, open, fds0, L0)
  \/ \E G : Works(t, open, G, fds0, L0) /\ SameOpen(s, t)

(* A chunk after a chunk is one chunk.                                     *)
LEMMA PutsSplit ==
  ASSUME NEW C, NEW D, NEW i, NEW o \in Nat, NEW data, NEW r \in Nat, NEW count \in Nat,
         Puts(C, D, i, o, data, 0, r + count)
  PROVE  \E E : Puts(C, E, i, o, data, 0, r) /\ Puts(E, D, i, o + r, data, r, count)
<1> DEFINE E == [e \in Entries |-> [p \in Nat |->
                  IF e = i /\ p \in o .. o + r - 1 THEN data[0 + p - o + 1] ELSE C[e][p]]]
<1>1. \A e \in Entries, p \in Nat :
        E[e][p] = IF e = i /\ p \in o .. o + r - 1 THEN data[0 + p - o + 1] ELSE C[e][p]
  OBVIOUS
<1> HIDE DEF E
<1>2. Puts(C, E, i, o, data, 0, r)
  BY <1>1 DEF Puts
<1>3. ASSUME NEW e \in Entries, NEW p \in Nat
      PROVE  D[e][p] = IF e = i /\ p \in o + r .. o + r + count - 1
                         THEN data[r + p - (o + r) + 1] ELSE E[e][p]
  <2>1. D[e][p] = IF e = i /\ p \in o .. o + (r + count) - 1 THEN data[0 + p - o + 1] ELSE C[e][p]
    BY DEF Puts
  <2>2. r + p - (o + r) + 1 = 0 + p - o + 1
    OBVIOUS
  <2>3. /\ p \in o .. o + (r + count) - 1 <=> p \in o .. o + r - 1 \/ p \in o + r .. o + r + count - 1
        /\ p \in o + r .. o + r + count - 1 => p \notin o .. o + r - 1
    OBVIOUS
  <2>4. CASE e = i /\ p \in o + r .. o + r + count - 1
    BY <2>1, <2>2, <2>3, <2>4
  <2>5. CASE ~(e = i /\ p \in o + r .. o + r + count - 1)
    BY <1>1, <2>1, <2>3, <2>5
  <2> QED BY <2>4, <2>5
<1>4. Puts(E, D, i, o + r, data, r, count)
  BY <1>3 DEF Puts
<1> QED BY <1>2, <1>4

LEMMA WroteTrans ==
  ASSUME NEW s, NEW open, NEW L, NEW fds0, NEW L0, Works(s, open, L, fds0, L0), NEW fd \in open,
         NEW data, NEW r \in Nat, NEW t, NEW H, Wrote(s, t, open, L, H, fd, data, 0, r),
         NEW count \in Nat, NEW w, NEW G, Wrote(t, w, open, H, G, fd, data, r, count)
  PROVE  Wrote(s, w, open, L, G, fd, data, 0, r + count)
<1> DEFINE i == s.fd_pool[fd].index
           o == s.fd_pool[fd].offset
<1>1. i \in Entries /\ o \in Nat /\ s.dir[i].fileSize \in Nat /\ fd \in Fds
  BY WorksFacts DEF Works, Run
<1>2. /\ Moves(s, t, fd, r) /\ Stretched(s, t, fd, r) /\ SameNames(s.dir, t.dir)
      /\ Writes(s, t, open, L, H, fd, data, 0, r)
  BY DEF Wrote
<1>3. /\ Moves(t, w, fd, count) /\ Stretched(t, w, fd, count) /\ SameNames(t.dir, w.dir)
      /\ Writes(t, w, open, H, G, fd, data, r, count)
  BY DEF Wrote
<1>4. t.fd_pool[fd].index = i /\ t.fd_pool[fd].offset = o + r
  BY <1>2 DEF Moves
<1>5. Moves(s, w, fd, r + count)
  <2>1. w.fd_pool[fd].offset = o + r + count
    BY <1>3, <1>4 DEF Moves
  <2>2. w.fd_pool[fd].offset = o + (r + count)
    <3> HIDE DEF o
    <3> QED BY <1>1, <2>1
  <2> QED BY <1>2, <1>3, <2>2 DEF Moves
<1>6. SameNames(s.dir, w.dir)
  BY Zenon, <1>2, <1>3 DEF SameNames
<1>7. Stretched(s, w, fd, r + count)
  <2>1. /\ \A j \in Entries : j # i => t.dir[j].fileSize = s.dir[j].fileSize
        /\ t.dir[i].fileSize = IF s.dir[i].fileSize < o + r THEN o + r ELSE s.dir[i].fileSize
    BY <1>2 DEF Stretched
  <2>2. /\ \A j \in Entries : j # i => w.dir[j].fileSize = t.dir[j].fileSize
        /\ w.dir[i].fileSize = IF t.dir[i].fileSize < o + r + count THEN o + r + count
                                                               ELSE t.dir[i].fileSize
    BY <1>3, <1>4 DEF Stretched
  <2>3. w.dir[i].fileSize = IF s.dir[i].fileSize < o + (r + count) THEN o + (r + count)
                                                               ELSE s.dir[i].fileSize
    <3> HIDE DEF o, i
    <3> QED BY <1>1, <2>1, <2>2
  <2> QED BY <2>1, <2>2, <2>3 DEF Stretched
<1>8. Writes(s, w, open, L, G, fd, data, 0, r + count)
  <2> SUFFICES ASSUME NEW C, NEW D, Stored(s.image.data, s.dir, s.fd_pool, open, L, C),
                      Puts(C, D, i, o, data, 0, r + count)
               PROVE  Stored(w.image.data, w.dir, w.fd_pool, open, G, D)
    BY DEF Writes
  <2>1. PICK E : Puts(C, E, i, o, data, 0, r) /\ Puts(E, D, i, o + r, data, r, count)
    <3> HIDE DEF i, o
    <3> QED BY <1>1, PutsSplit
  <2>2. Stored(t.image.data, t.dir, t.fd_pool, open, H, E)
    BY <1>2, <2>1 DEF Writes
  <2> QED BY <1>3, <1>4, <2>1, <2>2 DEF Writes
<1> QED BY <1>5, <1>6, <1>7, <1>8 DEF Wrote

LEMMA WroteNothing ==
  ASSUME NEW s, NEW open, NEW L, NEW fds0, NEW L0, Works(s, open, L, fds0, L0), NEW fd \in open,
         NEW data
  PROVE  Wrote(s, s, open, L, L, fd, data, 0, 0)
<1> DEFINE i == s.fd_pool[fd].index
           o == s.fd_pool[fd].offset
<1>1. o \in Nat /\ s.dir[i].fileSize \in Nat /\ o <= s.dir[i].fileSize
  BY WorksFacts DEF Works
<1>2. o + 0 = o /\ ~(s.dir[i].fileSize < o)
  <2> HIDE DEF i, o
  <2> QED BY <1>1
<1>3. Moves(s, s, fd, 0) /\ Stretched(s, s, fd, 0) /\ SameNames(s.dir, s.dir)
  BY <1>2 DEF Moves, Stretched, SameNames
<1>4. Writes(s, s, open, L, L, fd, data, 0, 0)
  <2> SUFFICES ASSUME NEW C, NEW D, Stored(s.image.data, s.dir, s.fd_pool, open, L, C),
                      Puts(C, D, i, o, data, 0, 0)
               PROVE  Stored(s.image.data, s.dir, s.fd_pool, open, L, D)
    BY DEF Writes
  <2>1. \A p \in Nat : p \notin o .. o + 0 - 1
    <3> HIDE DEF o
    <3> QED BY <1>1
  <2>2. \A e \in Entries, p \in Nat : D[e][p] = C[e][p]
    <3> HIDE DEF o, i
    <3> QED BY <2>1 DEF Puts
  <2> QED BY <2>2 DEF Stored
<1> QED BY <1>3, <1>4 DEF Wrote

(* fs_write: after k rounds at least k cells are written, or all.          *)
Writing(s, t, open, L, fds0, L0, fd, data, k) ==
  \/ Lost(t, open, fds0, L0)
  \/ \E G, r : /\ Works(t, open, G, fds0, L0) /\ Wrote(s, t, open, L, G, fd, data, 0, r)
               /\ r \in Nat /\ k <= r /\ r <= Len(data)

LEMMA WriteTurnWrites ==
  ASSUME NEW s, NEW t, NEW open, NEW L, NEW fds0, NEW L0, Works(s, open, L, fds0, L0),
         NEW fd \in open, NEW data \in Seq(Values),
         s.fd_pool[fd].offset + Len(data) <= MaxFileSize,
         NEW k \in Nat, k < Len(data), Writing(s, t, open, L, fds0, L0, fd, data, k),
         NEW w, w = WriteTurn(t, fd, data, s.fd_pool[fd].offset)
  PROVE  Writing(s, w, open, L, fds0, L0, fd, data, k + 1)
<1>1. CASE Lost(t, open, fds0, L0)
  <2>1. StaysHalted(t, t) /\ \A result : StaysHalted(t, WriteChunk(t, fd, data, result))
    BY <1>1, HaltedWrite DEF Lost, StaysHalted
  <2>2. StaysHalted(t, w)
    BY <2>1 DEF WriteTurn
  <2>3. Lost(w, open, fds0, L0)
    BY <1>1, <2>2, LostStays
  <2> QED BY <2>3 DEF Writing
<1>2. CASE ~Lost(t, open, fds0, L0)
  <2>1. PICK H, r : /\ Works(t, open, H, fds0, L0) /\ Wrote(s, t, open, L, H, fd, data, 0, r)
                    /\ r \in Nat /\ k <= r /\ r <= Len(data)
    BY <1>2 DEF Writing
  <2>2. PICK start : start = s.fd_pool[fd].offset
    OBVIOUS
  <2>3. /\ start \in Nat /\ Len(data) \in Nat /\ MaxFileSize \in Nat
        /\ start + Len(data) <= MaxFileSize
    <3>1. MaxFileSize \in Nat
      BY FileSysAssumption
    <3>2. start \in Nat
      BY <2>2, WorksFacts
    <3>3. start + Len(data) <= MaxFileSize
      BY <2>2
    <3> QED BY <3>1, <3>2, <3>3
  <2>4. t.fd_pool[fd].offset = start + r
    BY <2>1, <2>2 DEF Wrote, Moves
  <2>5. t.fd_pool[fd].offset - start = r
    BY <2>1, <2>3, <2>4
  <2>6. w = IF r < Len(data) THEN WriteChunk(t, fd, data, r) ELSE t
    BY <2>2, <2>5 DEF WriteTurn
  <2>7. CASE r < Len(data)
    <3>1. t.fd_pool[fd].offset + (Len(data) - r) <= MaxFileSize
      BY <2>1, <2>3, <2>4
    <3>2. w = WriteChunk(t, fd, data, r)
      BY <2>6, <2>7
    <3>3. \/ Lost(w, open, fds0, L0)
          \/ \E G, count : /\ Works(w, open, G, fds0, L0)
                           /\ count \in Nat \ {0} /\ r + count <= Len(data)
                           /\ Wrote(t, w, open, H, G, fd, data, r, count)
      BY <2>1, <2>7, <3>1, <3>2, WriteRound
    <3>4. CASE Lost(w, open, fds0, L0)
      BY <3>4 DEF Writing
    <3>5. ASSUME NEW G, NEW count, Works(w, open, G, fds0, L0), count \in Nat \ {0},
                 r + count <= Len(data), Wrote(t, w, open, H, G, fd, data, r, count)
          PROVE  Writing(s, w, open, L, fds0, L0, fd, data, k + 1)
      <4>1. count \in Nat
        BY <3>5
      <4>2. Wrote(s, w, open, L, G, fd, data, 0, r + count)
        BY <2>1, <3>5, <4>1, WroteTrans
      <4>3. r + count \in Nat /\ k + 1 <= r + count
        BY <2>1, <3>5
      <4> QED BY <3>5, <4>2, <4>3 DEF Writing
    <3> QED BY <3>3, <3>4, <3>5
  <2>8. CASE ~(r < Len(data))
    <3>1. w = t /\ k + 1 <= r
      BY <2>1, <2>3, <2>6, <2>8
    <3> QED BY <2>1, <3>1 DEF Writing
  <2> QED BY <2>7, <2>8
<1> QED BY <1>1, <1>2

LEMMA WriteWorks ==
  ASSUME NEW s, NEW open, NEW L, NEW fds0, NEW L0, Works(s, open, L, fds0, L0),
         NEW fd \in open, NEW data \in Seq(Values), s.fd_pool[fd].writable,
         s.fd_pool[fd].offset + Len(data) <= MaxFileSize,
         NEW t, t = fs_write(s, fd, data)
  PROVE  \/ Lost(t, open, fds0, L0)
         \/ \E G : /\ Works(t, open, G, fds0, L0) /\ SameOpen(s, t)
                   /\ Wrote(s, t, open, L, G, fd, data, 0, Len(data))
<1>1. PICK start : start = s.fd_pool[fd].offset
  OBVIOUS
<1>2. PICK n : n = Len(data)
  OBVIOUS
<1>3. n \in Nat
  BY <1>2
<1>4. PICK a : /\ a[0] = s /\ t = a[n]
               /\ \A k \in Nat : k < n => a[k + 1] = WriteTurn(a[k], fd, data, start)
  <2>1. PICK a : /\ a[0] = s
                 /\ fs_write(s, fd, data) = IF s.fd_pool[fd].writable THEN a[n] ELSE Panic(s)
                 /\ \A k \in Nat : k < n => a[k + 1] = WriteTurn(a[k], fd, data, start)
    BY <1>1, <1>2, <1>3, WriteTurns
  <2> QED BY <2>1
<1> DEFINE T == {k \in Nat : k <= n => Writing(s, a[k], open, L, fds0, L0, fd, data, k)}
<1>5. 0 \in T
  <2>1. Wrote(s, a[0], open, L, L, fd, data, 0, 0) /\ Works(a[0], open, L, fds0, L0)
    BY <1>4, WroteNothing
  <2>2. 0 <= 0 /\ 0 <= Len(data) /\ 0 \in Nat
    OBVIOUS
  <2>3. Writing(s, a[0], open, L, fds0, L0, fd, data, 0)
    BY <2>1, <2>2 DEF Writing
  <2> QED BY <2>3
<1>6. ASSUME NEW k \in T PROVE k + 1 \in T
  <2>1. k \in Nat /\ k + 1 \in Nat
    OBVIOUS
  <2>2. CASE k + 1 <= n
    <3>1. k <= n /\ k < n
      BY <1>3, <2>1, <2>2
    <3>2. Writing(s, a[k], open, L, fds0, L0, fd, data, k) /\ k < Len(data)
      BY <1>2, <3>1
    <3>3. PICK w : w = WriteTurn(a[k], fd, data, s.fd_pool[fd].offset)
      OBVIOUS
    <3>4. Writing(s, w, open, L, fds0, L0, fd, data, k + 1)
      BY <2>1, <3>2, <3>3, WriteTurnWrites
    <3>5. a[k + 1] = w
      BY <1>1, <1>4, <2>1, <3>1, <3>3
    <3> QED BY <2>1, <3>4, <3>5
  <2>3. CASE ~(k + 1 <= n)
    BY <2>1, <2>3
  <2> QED BY <2>2, <2>3
<1>7. T = Nat
  <2>1. T \in SUBSET Nat
    OBVIOUS
  <2> HIDE DEF T
  <2> QED BY <1>5, <1>6, <2>1, NatClosed
<1>8. Writing(s, t, open, L, fds0, L0, fd, data, n)
  BY <1>3, <1>4, <1>7
<1>9. CASE Lost(t, open, fds0, L0)
  BY <1>9
<1>10. CASE ~Lost(t, open, fds0, L0)
  <2>1. PICK G, r : /\ Works(t, open, G, fds0, L0) /\ Wrote(s, t, open, L, G, fd, data, 0, r)
                    /\ r \in Nat /\ n <= r /\ r <= Len(data)
    BY <1>8, <1>10 DEF Writing
  <2>2. r = Len(data)
    BY <1>2, <1>3, <2>1
  <2>3. SameOpen(s, t)
    BY <2>1 DEF Wrote, Moves, SameOpen
  <2> QED BY <2>1, <2>2, <2>3
<1> QED BY <1>9, <1>10

(* The loop of fs_read, for n cells: its states after each of its rounds.  *)
ReadTurn(r, fd, n) == IF Len(r.buf) < n THEN ReadChunk(r, fd, n - Len(r.buf)) ELSE r
ReadStart(s) == [s |-> s, buf |-> << >>]

LEMMA ReadTurns ==
  ASSUME NEW s, NEW fd, NEW len \in Nat, NEW n,
         n = Min({len, s.dir[s.fd_pool[fd].index].fileSize - s.fd_pool[fd].offset})
  PROVE  \E a : /\ a[0] = ReadStart(s) /\ fs_read(s, fd, len) = a[len]
                /\ \A k \in Nat : k < len => a[k + 1] = ReadTurn(a[k], fd, n)
<1> DEFINE F(f, m) == [k \in 0 .. m |-> IF k = 0 THEN ReadStart(s) ELSE ReadTurn(f[k-1], fd, n)]
           T == {m \in Nat : \E f : f = F(f, m)}
<1>1. 0 \in T
  <2> DEFINE f == [k \in 0 .. 0 |-> ReadStart(s)]
  <2>1. f = F(f, 0)
    OBVIOUS
  <2> QED BY <2>1
<1>2. ASSUME NEW m \in T PROVE m + 1 \in T
  <2>1. PICK f : f = F(f, m)
    OBVIOUS
  <2> DEFINE g == [k \in 0 .. m + 1 |-> IF k = m + 1 THEN ReadTurn(f[m], fd, n) ELSE f[k]]
  <2>2. m \in Nat /\ m + 1 \in Nat
    OBVIOUS
  <2>3. ASSUME NEW k \in 0 .. m + 1
        PROVE  g[k] = IF k = 0 THEN ReadStart(s) ELSE ReadTurn(g[k-1], fd, n)
    <3>1. CASE k = m + 1
      <4>1. k # 0 /\ k - 1 = m /\ m \in 0 .. m + 1 /\ m # m + 1
        BY <2>2, <3>1
      <4>2. g[k - 1] = f[m] /\ g[k] = ReadTurn(f[m], fd, n)
        <5> HIDE DEF F, T
        <5> QED BY Zenon, <3>1, <4>1
      <4> QED BY <4>1, <4>2
    <3>2. CASE k # m + 1
      <4>1. k \in 0 .. m /\ (k # 0 => k - 1 \in 0 .. m + 1 /\ k - 1 # m + 1)
        BY SMTT(30), <2>2, <3>2
      <4>2. f[k] = IF k = 0 THEN ReadStart(s) ELSE ReadTurn(f[k-1], fd, n)
        BY <2>1, <4>1
      <4>3. g[k] = f[k] /\ (k # 0 => g[k - 1] = f[k - 1])
        BY <3>2, <4>1
      <4> QED BY <4>2, <4>3
    <3> QED BY Zenon, <3>1, <3>2
  <2>4. g = F(g, m + 1)
    BY <2>3
  <2> HIDE DEF g, F
  <2> QED BY <2>2, <2>4
<1>3. T = Nat
  <2> HIDE DEF F
  <2>1. T \in SUBSET Nat
    OBVIOUS
  <2> HIDE DEF T
  <2> QED BY <1>1, <1>2, <2>1, NatClosed
<1>4. fs_read(s, fd, len) = (CHOOSE f : f = F(f, len))[len]
  BY ZenonT(30) DEF fs_read, Iterate, ReadTurn, ReadStart
<1>5. PICK a : a = (CHOOSE f : f = F(f, len)) /\ a = F(a, len)
  <2> HIDE DEF F
  <2>1. \E f : f = F(f, len)
    BY <1>3
  <2> QED BY <2>1
<1>6. ASSUME NEW k \in Nat, k < len PROVE a[k + 1] = ReadTurn(a[k], fd, n)
  <2>1. k + 1 \in 0 .. len /\ k + 1 # 0 /\ (k + 1) - 1 = k
    BY <1>6
  <2> QED BY <1>5, <2>1
<1>7. a[0] = ReadStart(s)
  <2>1. 0 \in 0 .. len
    OBVIOUS
  <2> QED BY <1>5, <2>1
<1>8. fs_read(s, fd, len) = a[len]
  <2> HIDE DEF F
  <2> QED BY <1>4, <1>5
<1>9. \A k \in Nat : k < len => a[k + 1] = ReadTurn(a[k], fd, n)
  BY <1>6
<1> QED BY <1>7, <1>8, <1>9

\* From s to r, fd has read m cells of its file into r.buf.
HasRead(s, r, open, L, G, fd, m) ==
  /\ Moves(s, r.s, fd, m) /\ SameFiles(s.dir, r.s.dir)
  /\ r.buf \in Seq(Values \cup {0}) /\ m \in Nat /\ Len(r.buf) = m
  /\ Copies(s, r.s, open, L, G, fd, r.buf, m)

(* One round after others.                                                 *)
LEMMA HasReadTrans ==
  ASSUME NEW s, NEW r, NEW q, NEW open, NEW L, NEW H, NEW G, NEW fd, NEW m, NEW count \in Nat,
         s.fd_pool[fd].offset \in Nat, HasRead(s, r, open, L, H, fd, m),
         Moves(r.s, q.s, fd, count), SameFiles(r.s.dir, q.s.dir),
         q.buf \in Seq(Values \cup {0}), Len(q.buf) = Len(r.buf) + count,
         ReadsOn(r, q, open, H, G, fd, count)
  PROVE  HasRead(s, q, open, L, G, fd, m + count)
<1> DEFINE i == s.fd_pool[fd].index
           o == s.fd_pool[fd].offset
<1>1. /\ Moves(s, r.s, fd, m) /\ SameFiles(s.dir, r.s.dir) /\ m \in Nat /\ Len(r.buf) = m
      /\ Copies(s, r.s, open, L, H, fd, r.buf, m)
  BY DEF HasRead
<1>2. r.s.fd_pool[fd].index = i /\ r.s.fd_pool[fd].offset = o + m
  BY <1>1 DEF Moves
<1>3. Moves(s, q.s, fd, m + count)
  <2>1. q.s.fd_pool[fd].offset = o + m + count
    BY <1>2 DEF Moves
  <2>2. q.s.fd_pool[fd].offset = o + (m + count)
    <3>1. o \in Nat
      OBVIOUS
    <3> HIDE DEF o
    <3> QED BY <1>1, <2>1, <3>1
  <2> QED BY <1>1, <2>2 DEF Moves
<1>4. SameFiles(s.dir, q.s.dir)
  BY <1>1 DEF SameFiles
<1>5. Len(q.buf) = m + count /\ m + count \in Nat
  BY <1>1
<1>6. Copies(s, q.s, open, L, G, fd, q.buf, m + count)
  <2> SUFFICES ASSUME NEW C, Stored(s.image.data, s.dir, s.fd_pool, open, L, C)
               PROVE  /\ Stored(q.s.image.data, q.s.dir, q.s.fd_pool, open, G, C)
                      /\ ChunkIs(q.buf, m + count, C[i], o)
    BY DEF Copies
  <2>1. /\ Stored(r.s.image.data, r.s.dir, r.s.fd_pool, open, H, C)
        /\ \A k \in 1 .. m : r.buf[k] = C[i][o + k - 1]
    BY <1>1 DEF Copies, ChunkIs
  <2>2. /\ \A k \in 1 .. m : q.buf[k] = r.buf[k]
        /\ Stored(q.s.image.data, q.s.dir, q.s.fd_pool, open, G, C)
        /\ \A k \in 1 .. count : q.buf[m + k] = C[i][o + m + k - 1]
    BY <1>1, <1>2, <2>1 DEF ReadsOn
  <2>3. ASSUME NEW k \in 1 .. m + count PROVE q.buf[k] = C[i][o + k - 1]
    <3>1. CASE k <= m
      <4>1. k \in 1 .. m
        BY <1>1, <3>1
      <4> QED BY <2>1, <2>2, <4>1
    <3>2. CASE ~(k <= m)
      <4>1. k - m \in 1 .. count /\ m + (k - m) = k
        BY <1>1, <3>2
      <4>2. o + m + (k - m) - 1 = o + k - 1
        <5>1. o \in Nat
          OBVIOUS
        <5> HIDE DEF o
        <5> QED BY <1>1, <5>1
      <4>3. q.buf[m + (k - m)] = C[i][o + m + (k - m) - 1]
        BY <2>2, <4>1
      <4> QED BY <4>1, <4>2, <4>3
    <3> QED BY <3>1, <3>2
  <2> QED BY <2>2, <2>3 DEF ChunkIs
<1> QED BY <1>3, <1>4, <1>5, <1>6 DEF HasRead

\* After k rounds of fs_read, k cells of the n have been read, or all.
Reading(s, r, open, L, fds0, L0, fd, n, k) ==
  \/ Lost(r.s, open, fds0, L0)
  \/ \E G, m : /\ Works(r.s, open, G, fds0, L0) /\ HasRead(s, r, open, L, G, fd, m)
               /\ m <= n /\ (k <= m \/ m = n)

LEMMA ReadTurnReads ==
  ASSUME NEW s, NEW r, NEW open, NEW L, NEW fds0, NEW L0, Works(s, open, L, fds0, L0),
         NEW fd \in open, NEW n \in Nat, NEW k \in Nat,
         s.fd_pool[fd].offset + n <= s.dir[s.fd_pool[fd].index].fileSize,
         Reading(s, r, open, L, fds0, L0, fd, n, k),
         NEW q, q = ReadTurn(r, fd, n)
  PROVE  Reading(s, q, open, L, fds0, L0, fd, n, k + 1)
<1>1. CASE Lost(r.s, open, fds0, L0)
  <2>1. StaysHalted(r.s, r.s) /\ \A wanted : StaysHalted(r.s, ReadChunk(r, fd, wanted).s)
    BY <1>1, HaltedRead DEF Lost, StaysHalted
  <2>2. StaysHalted(r.s, q.s)
    BY <2>1 DEF ReadTurn
  <2>3. Lost(q.s, open, fds0, L0)
    BY <1>1, <2>2, LostStays
  <2> QED BY <2>3 DEF Reading
<1>2. CASE ~Lost(r.s, open, fds0, L0)
  <2>1. PICK H, m : /\ Works(r.s, open, H, fds0, L0) /\ HasRead(s, r, open, L, H, fd, m)
                    /\ m <= n /\ (k <= m \/ m = n)
    BY <1>2 DEF Reading
  <2>2. /\ Moves(s, r.s, fd, m) /\ SameFiles(s.dir, r.s.dir)
        /\ r.buf \in Seq(Values \cup {0}) /\ m \in Nat /\ Len(r.buf) = m
    BY <2>1 DEF HasRead
  <2>3. PICK start : start = s.fd_pool[fd].offset
    OBVIOUS
  <2>4. PICK size : size = s.dir[s.fd_pool[fd].index].fileSize
    BY Zenon
  <2>5. start \in Nat /\ size \in Nat /\ start + n <= size /\ s.fd_pool[fd].index \in Entries
    BY <2>3, <2>4, WorksFacts
  <2>6. PICK wanted : wanted = n - m
    OBVIOUS
  <2>7. CASE m < n
    <3>1. wanted \in Nat \ {0} /\ start + m + wanted <= size
      BY <2>2, <2>5, <2>6, <2>7
    <3>2. /\ r.s.fd_pool[fd].offset = start + m
          /\ r.s.dir[r.s.fd_pool[fd].index].fileSize = size
      BY <2>2, <2>3, <2>4, <2>5 DEF Moves, SameFiles
    <3>3. r.s.fd_pool[fd].offset + wanted <= r.s.dir[r.s.fd_pool[fd].index].fileSize
      BY <3>1, <3>2
    <3>4. q = ReadChunk(r, fd, wanted)
      BY <2>2, <2>6, <2>7 DEF ReadTurn
    <3>5. ReadOn(r, q, open, H, fds0, L0, fd, wanted)
      BY <2>1, <2>2, <3>1, <3>3, <3>4, ReadRound
    <3>6. CASE Lost(q.s, open, fds0, L0)
      BY <3>6 DEF Reading
    <3>7. ASSUME NEW G, NEW count,
                 Works(q.s, open, G, fds0, L0), Moves(r.s, q.s, fd, count),
                 count \in Nat \ {0}, count <= wanted, SameFiles(r.s.dir, q.s.dir),
                 q.buf \in Seq(Values \cup {0}), Len(q.buf) = Len(r.buf) + count,
                 ReadsOn(r, q, open, H, G, fd, count)
          PROVE  Reading(s, q, open, L, fds0, L0, fd, n, k + 1)
      <4>1. count \in Nat /\ s.fd_pool[fd].offset \in Nat
        BY <2>3, <2>5, <3>7
      <4>2. HasRead(s, q, open, L, G, fd, m + count)
        BY <2>1, <3>7, <4>1, HasReadTrans
      <4>3. m + count <= n /\ (k + 1 <= m + count \/ m + count = n)
        BY <2>1, <2>2, <2>6, <2>7, <3>7
      <4> QED BY <3>7, <4>2, <4>3 DEF Reading
    <3> QED BY <3>5, <3>6, <3>7 DEF ReadOn
  <2>8. CASE ~(m < n)
    <3>1. m = n /\ q = r
      BY <2>1, <2>2, <2>8 DEF ReadTurn
    <3> QED BY <2>1, <3>1 DEF Reading
  <2> QED BY <2>7, <2>8
<1> QED BY <1>1, <1>2

(* fs_read: what a read within the file comes to.                          *)
LEMMA ReadWorks ==
  ASSUME NEW s, NEW open, NEW L, NEW fds0, NEW L0, Works(s, open, L, fds0, L0),
         NEW fd \in open, NEW len \in Nat \ {0}, NEW n,
         n = Min({len, s.dir[s.fd_pool[fd].index].fileSize - s.fd_pool[fd].offset}),
         NEW r, r = fs_read(s, fd, len)
  PROVE  \/ Lost(r.s, open, fds0, L0)
         \/ \E G : Works(r.s, open, G, fds0, L0) /\ SameOpen(s, r.s)
                   /\ HasRead(s, r, open, L, G, fd, n)
<1>1. PICK start : start = s.fd_pool[fd].offset
  OBVIOUS
<1>3. /\ start \in Nat /\ n \in Nat /\ n <= len
      /\ start + n <= s.dir[s.fd_pool[fd].index].fileSize
  <2> DEFINE size == s.dir[s.fd_pool[fd].index].fileSize
  <2>1. start \in Nat /\ size \in Nat /\ start <= size
    BY <1>1, WorksFacts DEF Works
  <2> HIDE DEF size
  <2>2. {len, size - start} \in SUBSET Nat /\ {len, size - start} # {}
    BY <2>1
  <2>3. n \in {len, size - start} /\ n <= size - start /\ n <= len
    BY <1>1, <2>2, MinIsLeast DEF size
  <2>4. n \in Nat
    BY <2>2, <2>3
  <2>5. start + n <= size
    BY <2>1, <2>3, <2>4
  <2> QED BY Zenon, <2>1, <2>3, <2>4, <2>5 DEF size
<1>4. PICK a : /\ a[0] = ReadStart(s) /\ r = a[len]
               /\ \A k \in Nat : k < len => a[k + 1] = ReadTurn(a[k], fd, n)
  <2>1. PICK a : /\ a[0] = ReadStart(s) /\ fs_read(s, fd, len) = a[len]
                 /\ \A k \in Nat : k < len => a[k + 1] = ReadTurn(a[k], fd, n)
    BY ReadTurns
  <2> QED BY <2>1
<1> DEFINE T == {k \in Nat : k <= len => Reading(s, a[k], open, L, fds0, L0, fd, n, k)}
<1>5. 0 \in T
  <2>1. a[0].s = s /\ a[0].buf = << >>
    BY <1>4 DEF ReadStart
  <2>2. Works(a[0].s, open, L, fds0, L0)
    BY <2>1
  <2>3. a[0].buf \in Seq(Values \cup {0}) /\ Len(a[0].buf) = 0 /\ 0 <= n /\ 0 <= 0 /\ 0 \in Nat
    BY <1>3, <2>1
  <2>4. Moves(s, a[0].s, fd, 0) /\ SameFiles(s.dir, a[0].s.dir)
    BY <1>1, <1>3, <2>1 DEF Moves, SameFiles
  <2>5. Copies(s, a[0].s, open, L, L, fd, a[0].buf, 0)
    BY <2>1 DEF Copies, ChunkIs
  <2>6. HasRead(s, a[0], open, L, L, fd, 0)
    BY <2>3, <2>4, <2>5 DEF HasRead
  <2>7. Reading(s, a[0], open, L, fds0, L0, fd, n, 0)
    BY <2>2, <2>3, <2>6 DEF Reading
  <2> QED BY <2>7
<1>6. ASSUME NEW k \in T PROVE k + 1 \in T
  <2>1. k \in Nat /\ k + 1 \in Nat
    OBVIOUS
  <2>2. CASE k + 1 <= len
    <3>1. k <= len /\ k < len
      BY <2>1, <2>2
    <3>2. Reading(s, a[k], open, L, fds0, L0, fd, n, k)
      BY <3>1
    <3>3. PICK q : q = ReadTurn(a[k], fd, n)
      BY ZenonT(30)
    <3>4. Reading(s, q, open, L, fds0, L0, fd, n, k + 1)
      <4>1. s.fd_pool[fd].offset + n <= s.dir[s.fd_pool[fd].index].fileSize
        BY Zenon, <1>1, <1>3
      <4> QED BY <1>3, <2>1, <3>2, <3>3, <4>1, ReadTurnReads
    <3>5. a[k + 1] = q
      BY <1>4, <2>1, <3>1, <3>3
    <3>6. Reading(s, a[k + 1], open, L, fds0, L0, fd, n, k + 1)
      BY <3>4, <3>5
    <3> QED BY <2>1, <3>6
  <2>3. CASE ~(k + 1 <= len)
    BY <2>1, <2>3
  <2> QED BY <2>2, <2>3
<1>7. T = Nat
  <2>1. T \in SUBSET Nat
    OBVIOUS
  <2> HIDE DEF T
  <2> QED BY <1>5, <1>6, <2>1, NatClosed
<1>8. Reading(s, r, open, L, fds0, L0, fd, n, len)
  <2>1. len \in T
    <3> HIDE DEF T
    <3> QED BY <1>7
  <2>2. Reading(s, a[len], open, L, fds0, L0, fd, n, len)
    <3>1. len <= len
      BY SMTT(30)
    <3> QED BY <2>1, <3>1
  <2> QED BY <1>4, <2>2
<1>9. ASSUME ~Lost(r.s, open, fds0, L0)
      PROVE  \E G : Works(r.s, open, G, fds0, L0) /\ SameOpen(s, r.s)
                    /\ HasRead(s, r, open, L, G, fd, n)
  <2>1. PICK G, m : /\ Works(r.s, open, G, fds0, L0) /\ HasRead(s, r, open, L, G, fd, m)
                    /\ m <= n /\ (len <= m \/ m = n)
    BY <1>8, <1>9 DEF Reading
  <2>2. m = n
    BY <1>3, <2>1 DEF HasRead
  <2>3. SameOpen(s, r.s)
    BY <2>1 DEF HasRead, Moves, SameOpen
  <2> QED BY Zenon, <2>1, <2>2, <2>3
<1> QED BY Zenon, <1>9

(* A call that changes the position of one descriptor, and neither the     *)
(* directory nor the bitmap.                                               *)
LEMMA Repositioned ==
  ASSUME NEW s, NEW open, NEW L, NEW fds0, NEW L0, Works(s, open, L, fds0, L0),
         NEW fd \in open, NEW t, Run(t, open, L, fds0, L0), SameMemory(s, t),
         \A h \in Fds : h # fd => t.fd_pool[h] = s.fd_pool[h],
         t.fd_pool[fd].index = s.fd_pool[fd].index,
         t.fd_pool[fd].opened = s.fd_pool[fd].opened,
         t.fd_pool[fd].writable = s.fd_pool[fd].writable,
         At(t.fd_pool[fd], L), t.fd_pool[fd].offset <= s.dir[s.fd_pool[fd].index].fileSize
  PROVE  Works(t, open, L, fds0, L0) /\ SameOpen(s, t)
<1>1. t.dir = s.dir /\ open \subseteq Fds
  BY DEF SameMemory, Works, Run
<1>2. ASSUME NEW h \in open
      PROVE  At(t.fd_pool[h], L) /\ t.fd_pool[h].offset <= t.dir[t.fd_pool[h].index].fileSize
  <2>1. CASE h = fd
    BY <1>1, <2>1
  <2>2. CASE h # fd
    <3>1. t.fd_pool[h] = s.fd_pool[h]
      BY <1>1, <2>2
    <3> QED BY <1>1, <3>1 DEF Works
  <2> QED BY <2>1, <2>2
<1>3. Sized(t.dir, L)
  BY <1>1 DEF Works
<1> QED BY <1>2, <1>3 DEF Works, SameOpen

\* From s to t the files keep what they contain.
KeepsFiles(s, open, L, t, open2) ==
  \A C : Stored(s.image.data, s.dir, s.fd_pool, open, L, C)
           => Stored(t.image.data, t.dir, t.fd_pool, open2, L, C)

\* fd is at offset p, and nothing else of the files has changed.
MovedTo(s, t, open, L, fd, p) ==
  /\ t.dir = s.dir /\ \A h \in Fds : h # fd => t.fd_pool[h] = s.fd_pool[h]
  /\ t.fd_pool[fd].offset = p
  /\ KeepsFiles(s, open, L, t, open)

SameBuffer(f, g) ==
  f.buffer_state = g.buffer_state /\ f.buffer_idx = g.buffer_idx /\ f.buffer = g.buffer

(* The files contain the same when an inode is written.                    *)
LEMMA UntouchedStored ==
  ASSUME NEW open, NEW L, NEW d, NEW C, NEW s, Stored(s.image.data, d, s.fd_pool, open, L, C),
         Sized(d, L), \A i \in Entries : d[i].fileSize \in Nat,
         NEW t, Untouched(s, t, L), \A h \in open : SameBuffer(t.fd_pool[h], s.fd_pool[h])
  PROVE  Stored(t.image.data, d, t.fd_pool, open, L, C)
<1> SUFFICES ASSUME NEW e \in Entries, NEW p \in Nat, p < d[e].fileSize
             PROVE  CellIs(t.image.data, t.fd_pool, open, blk(L, e, p \div SECTSIZE), p % SECTSIZE, C[e][p])
  BY DEF Stored
<1>1. PICK m, c, b : m = p \div SECTSIZE /\ c = p % SECTSIZE /\ b = blk(L, e, m)
  OBVIOUS
<1>2. m \in Nat /\ m < nb(L, e)
  BY <1>1, CellFacts
<1>3. t.image.data[b] = s.image.data[b]
  BY <1>1, <1>2 DEF Untouched
<1>4. CellIs(s.image.data, s.fd_pool, open, b, c, C[e][p])
  BY <1>1 DEF Stored
<1>5. \A h \in open : /\ HoldsBlk(t.fd_pool, h, b) => /\ HoldsBlk(s.fd_pool, h, b)
                                                      /\ t.fd_pool[h].buffer.cells[c] = s.fd_pool[h].buffer.cells[c]
                      /\ Unwashed(s.fd_pool, h, b) => Unwashed(t.fd_pool, h, b)
  BY DEF SameBuffer, HoldsBlk, Unwashed
<1>6. CellIs(t.image.data, t.fd_pool, open, b, c, C[e][p])
  BY <1>3, <1>4, <1>5, CellSame
<1> QED BY <1>1, <1>6

(* A flushed buffer and a flushed inode.                                   *)
LEMMA FlushedKeeps ==
  ASSUME NEW s, NEW open, NEW L, NEW fds0, NEW L0, Run(s, open, L, fds0, L0), Sized(s.dir, L),
         NEW fd \in open, NEW u, u = fd_buffer_flush(s, fd), NEW v, v = fd_inode_flush(u, fd)
  PROVE  KeepsFiles(s, open, L, v, open)
<1> SUFFICES ASSUME NEW C, Stored(s.image.data, s.dir, s.fd_pool, open, L, C)
             PROVE  Stored(v.image.data, v.dir, v.fd_pool, open, L, C)
  BY DEF KeepsFiles
<1>1. /\ s.fd_pool[fd] \in FdType /\ s \in States /\ open \subseteq Fds /\ fd \in Fds
      /\ \A i \in Entries, m \in Nat : blk(L, i, m) \in Blocks
      /\ \A i \in Entries : s.dir[i].fileSize \in Nat
  <2>1. s.fd_pool[fd] \in FdType /\ s \in States /\ open \subseteq Fds
    BY RunFacts DEF Run
  <2>2. \A i \in Entries, m \in Nat : blk(L, i, m) \in Blocks
    BY GoodFacts DEF Run
  <2>3. \A i \in Entries : s.dir[i].fileSize \in 0 .. MaxFileSize
    BY <2>1 DEF States, DirType
  <2>4. MaxFileSize \in Nat
    BY FileSysAssumption
  <2> QED BY <2>1, <2>2, <2>3, <2>4
<1>2. /\ Run(u, open, L, fds0, L0) /\ SameMemory(s, u) /\ Washed(s, u, s.fd_pool[fd])
      /\ \A h \in Fds : h # fd => u.fd_pool[h] = s.fd_pool[h]
      /\ u.fd_pool[fd] = [s.fd_pool[fd] EXCEPT !.buffer_state = "GARBAGE"]
  BY FlushBuf
<1>3. u.fd_pool[fd].buffer_state = "GARBAGE"
  BY <1>1, <1>2 DEF FdType
<1>4. PICK d : d = s.dir
  OBVIOUS
<1>5. Stored(u.image.data, d, u.fd_pool, open, L, C)
  <2>1. Stored(s.image.data, d, s.fd_pool, open, L, C)
    BY <1>4
  <2>2. \A h \in Fds : h # fd => u.fd_pool[h] = s.fd_pool[h]
    BY <1>2
  <2>3. Washed(s, u, s.fd_pool[fd]) /\ open \subseteq Fds
    BY <1>1, <1>2
  <2>4. \A i \in Entries, m \in Nat : blk(L, i, m) \in Blocks
    BY <1>1
  <2> QED BY <1>3, <2>1, <2>2, <2>3, <2>4, FlushStored
<1>6. /\ Run(v, open, L, fds0, L0) /\ SameMemory(u, v) /\ Untouched(u, v, L)
      /\ \A h \in Fds : h # fd => v.fd_pool[h] = u.fd_pool[h]
      /\ v.fd_pool[fd] = IF u.fd_pool[fd].inode_state = "NEED_WASHING"
                           THEN [u.fd_pool[fd] EXCEPT !.inode_state = "USEFUL"]
                           ELSE u.fd_pool[fd]
  <2>1. Run(u, open, L, fds0, L0)
    BY <1>2
  <2> QED BY <2>1, FlushIno
<1>7. \A h \in open : SameBuffer(v.fd_pool[h], u.fd_pool[h])
  <2>1. u.fd_pool[fd] \in FdType
    BY <1>1, <1>2, RunFacts
  <2>2. SameBuffer(v.fd_pool[fd], u.fd_pool[fd])
    BY <1>6, <2>1 DEF SameBuffer, FdType
  <2> QED BY <1>1, <1>6, <2>2 DEF SameBuffer
<1>8. Sized(d, L) /\ \A i \in Entries : d[i].fileSize \in Nat
  BY <1>1, <1>4
<1>9. Stored(v.image.data, d, v.fd_pool, open, L, C)
  BY <1>5, <1>6, <1>7, <1>8, UntouchedStored
<1>10. v.dir = d
  BY <1>2, <1>4, <1>6 DEF SameMemory
<1> QED BY <1>9, <1>10

(* fs_lseek to the start of the file.                                      *)
Rewind(v, fd) == [v EXCEPT !.fd_pool[fd].offset = 0, !.fd_pool[fd].inode_state = "GARBAGE"]

LEMMA RewindIs ==
  ASSUME NEW v \in States, NEW fd \in Fds
  PROVE  \E g \in FdType :
            /\ Rewind(v, fd) = WithFd(v, fd, g)
            /\ g.index = v.fd_pool[fd].index /\ g.offset = 0
            /\ g.opened = v.fd_pool[fd].opened /\ g.writable = v.fd_pool[fd].writable
            /\ SameBuffer(g, v.fd_pool[fd])
            /\ g.inode_state = "GARBAGE"
<1> DEFINE f == v.fd_pool[fd]
           g == [f EXCEPT !.offset = 0, !.inode_state = "GARBAGE"]
<1>1. f \in FdType /\ v.fd_pool \in [Fds -> FdType]
  BY DEF States
<1>2. /\ g \in FdType /\ g.index = f.index /\ g.offset = 0
      /\ g.opened = f.opened /\ g.writable = f.writable
      /\ SameBuffer(g, f)
      /\ g.inode_state = "GARBAGE"
  BY <1>1 DEF FdType, SameBuffer
<1>3. Rewind(v, fd) = WithFd(v, fd, g)
  BY <1>1 DEF Rewind, WithFd, States
<1> HIDE DEF g
<1> QED BY <1>2, <1>3

LEMMA SeekSetWorks ==
  ASSUME NEW s, NEW open, NEW L, NEW fds0, NEW L0, Works(s, open, L, fds0, L0),
         NEW fd \in open, NEW offset, NEW t, t = fs_lseek(s, fd, offset, "SEEK_SET")
  PROVE  Works(t, open, L, fds0, L0) /\ SameOpen(s, t) /\ MovedTo(s, t, open, L, fd, 0)
<1>1. PICK u : u = fd_buffer_flush(s, fd)
  OBVIOUS
<1>2. PICK v : v = fd_inode_flush(u, fd)
  OBVIOUS
<1>3. t = Rewind(v, fd)
  <2>1. fs_lseek(s, fd, offset, "SEEK_SET") = Rewind(fd_inode_flush(fd_buffer_flush(s, fd), fd), fd)
    BY DEF fs_lseek, Rewind
  <2> QED BY <1>1, <1>2, <2>1
<1>4. Run(s, open, L, fds0, L0) /\ fd \in Fds /\ s.fd_pool[fd] \in FdType
  BY RunFacts DEF Works, Run
<1>5. /\ Run(u, open, L, fds0, L0) /\ SameMemory(s, u)
      /\ \A h \in Fds : h # fd => u.fd_pool[h] = s.fd_pool[h]
      /\ u.fd_pool[fd] = [s.fd_pool[fd] EXCEPT !.buffer_state = "GARBAGE"]
  BY <1>1, <1>4, FlushBuf
<1>6. u.fd_pool[fd] \in FdType
  BY <1>4, <1>5, RunFacts
<1>7. /\ Run(v, open, L, fds0, L0) /\ SameMemory(u, v)
      /\ \A h \in Fds : h # fd => v.fd_pool[h] = u.fd_pool[h]
      /\ v.fd_pool[fd] = IF u.fd_pool[fd].inode_state = "NEED_WASHING"
                           THEN [u.fd_pool[fd] EXCEPT !.inode_state = "USEFUL"]
                           ELSE u.fd_pool[fd]
  <2>1. Run(u, open, L, fds0, L0)
    BY <1>5
  <2> QED BY <1>2, <2>1, FlushIno
<1>8. /\ v.fd_pool[fd].index = s.fd_pool[fd].index
      /\ v.fd_pool[fd].opened = s.fd_pool[fd].opened
      /\ v.fd_pool[fd].writable = s.fd_pool[fd].writable
      /\ v.fd_pool[fd].buffer_state = "GARBAGE"
      /\ v.fd_pool[fd].inode_state # "NEED_WASHING"
  BY <1>4, <1>5, <1>6, <1>7 DEF FdType
<1>9. v \in States
  BY <1>7, RunFacts
<1>10. PICK g \in FdType :
          /\ t = WithFd(v, fd, g)
          /\ g.index = v.fd_pool[fd].index /\ g.offset = 0
          /\ g.opened = v.fd_pool[fd].opened /\ g.writable = v.fd_pool[fd].writable
          /\ SameBuffer(g, v.fd_pool[fd])
          /\ g.inode_state = "GARBAGE"
  BY <1>3, <1>4, <1>9, RewindIs
<1>11. Holds(g, L) /\ g.buffer_state = "GARBAGE"
  BY <1>8, <1>10 DEF Holds, SameBuffer
<1>12. Run(t, open, L, fds0, L0)
  <2>1. Run(v, open, L, fds0, L0)
    BY <1>7
  <2>2. Run(WithFd(v, fd, g), open, L, fds0, L0)
    BY <1>8, <1>10, <1>11, <2>1, RunSet
  <2> QED BY <1>10, <2>2
<1>13. /\ SameMemory(v, t) /\ t.fd_pool[fd] = g
       /\ \A h \in Fds : h # fd => t.fd_pool[h] = v.fd_pool[h]
  BY <1>4, <1>9, <1>10, WithFdFacts
<1>14. At(t.fd_pool[fd], L)
  BY <1>10, <1>11, <1>13, Sizes DEF At
<1>15. SameMemory(s, t)
  BY <1>5, <1>7, <1>13 DEF SameMemory
<1>16. /\ \A h \in Fds : h # fd => t.fd_pool[h] = s.fd_pool[h]
       /\ t.fd_pool[fd].index = s.fd_pool[fd].index
       /\ t.fd_pool[fd].opened = s.fd_pool[fd].opened
       /\ t.fd_pool[fd].writable = s.fd_pool[fd].writable
       /\ t.fd_pool[fd].offset = 0
  BY <1>5, <1>7, <1>8, <1>10, <1>13
<1>17. t.fd_pool[fd].offset <= s.dir[s.fd_pool[fd].index].fileSize
  BY <1>16, WorksFacts
<1>18. KeepsFiles(s, open, L, t, open)
  <2> SUFFICES ASSUME NEW C, Stored(s.image.data, s.dir, s.fd_pool, open, L, C)
               PROVE  Stored(t.image.data, t.dir, t.fd_pool, open, L, C)
    BY DEF KeepsFiles
  <2>1. Stored(v.image.data, v.dir, v.fd_pool, open, L, C)
    <3>1. KeepsFiles(s, open, L, v, open)
      BY <1>1, <1>2, <1>4, FlushedKeeps DEF Works
    <3> QED BY <3>1 DEF KeepsFiles
  <2>2. t.image = v.image /\ t.dir = v.dir
    BY <1>4, <1>9, <1>10, WithFdFacts DEF SameDisk, SameMemory
  <2>3. \A h \in open : SameBuffer(t.fd_pool[h], v.fd_pool[h])
    BY <1>4, <1>10, <1>13 DEF SameBuffer, Works, Run
  <2>4. Stored(v.image.data, v.dir, t.fd_pool, open, L, C)
    <3>1. SameBuffers(v.fd_pool, t.fd_pool, open)
      BY <2>3 DEF SameBuffer, SameBuffers
    <3> QED BY <2>1, <3>1, BuffersStored
  <2> QED BY <2>2, <2>4
<1>19. MovedTo(s, t, open, L, fd, 0)
  BY <1>15, <1>16, <1>18 DEF MovedTo, SameMemory
<1> QED BY <1>12, <1>14, <1>15, <1>16, <1>17, <1>19, Repositioned

(* fs_lseek by nothing.                                                    *)
LEMMA SeekCurWorks ==
  ASSUME NEW s, NEW open, NEW L, NEW fds0, NEW L0, Works(s, open, L, fds0, L0),
         NEW fd \in open, NEW t, t = fs_lseek(s, fd, 0, "SEEK_CUR")
  PROVE  /\ Works(t, open, L, fds0, L0) /\ SameOpen(s, t)
         /\ MovedTo(s, t, open, L, fd, s.fd_pool[fd].offset)
<1>1. t = Skip(s, fd, 0)
  BY DEF fs_lseek, Skip
<1>2. Run(s, open, L, fds0, L0) /\ fd \in Fds /\ s.fd_pool[fd] \in FdType /\ s \in States
  BY RunFacts DEF Works, Run
<1>3. s.fd_pool[fd].offset \in Nat /\ s.fd_pool[fd].offset <= s.dir[s.fd_pool[fd].index].fileSize
      /\ At(s.fd_pool[fd], L)
  BY WorksFacts DEF Works
<1>4. PICK g \in FdType :
          /\ t = WithFd(s, fd, g)
          /\ g.index = s.fd_pool[fd].index /\ g.offset = s.fd_pool[fd].offset + 0
          /\ g.opened = s.fd_pool[fd].opened /\ g.writable = s.fd_pool[fd].writable
          /\ g.buffer_state = s.fd_pool[fd].buffer_state /\ g.buffer_idx = s.fd_pool[fd].buffer_idx
          /\ g.buffer = s.fd_pool[fd].buffer
          /\ g.inode = s.fd_pool[fd].inode /\ g.inode_idx = s.fd_pool[fd].inode_idx
          /\ g.inode_state = s.fd_pool[fd].inode_state
  <2>1. 0 \in Nat
    OBVIOUS
  <2> QED BY <1>1, <1>2, <2>1, SkipIs
<1>5. g.offset = s.fd_pool[fd].offset
  BY <1>3, <1>4
<1>6. Holds(g, L)
  <2>1. Holds(s.fd_pool[fd], L)
    BY <1>2, RunFacts
  <2> QED BY <1>4, <2>1 DEF Holds
<1>7. Run(t, open, L, fds0, L0)
  <2>2. Run(WithFd(s, fd, g), open, L, fds0, L0)
    BY <1>2, <1>4, <1>6, RunSet
  <2> QED BY <1>4, <2>2
<1>8. /\ SameMemory(s, t) /\ t.fd_pool[fd] = g
      /\ \A h \in Fds : h # fd => t.fd_pool[h] = s.fd_pool[h]
  BY <1>2, <1>4, WithFdFacts
<1>9. At(t.fd_pool[fd], L)
  BY <1>3, <1>4, <1>5, <1>8 DEF At
<1>10. /\ t.fd_pool[fd].index = s.fd_pool[fd].index
       /\ t.fd_pool[fd].opened = s.fd_pool[fd].opened
       /\ t.fd_pool[fd].writable = s.fd_pool[fd].writable
       /\ t.fd_pool[fd].offset <= s.dir[s.fd_pool[fd].index].fileSize
  BY <1>3, <1>4, <1>5, <1>8
<1>11. KeepsFiles(s, open, L, t, open)
  <2> SUFFICES ASSUME NEW C, Stored(s.image.data, s.dir, s.fd_pool, open, L, C)
               PROVE  Stored(t.image.data, t.dir, t.fd_pool, open, L, C)
    BY DEF KeepsFiles
  <2>1. t.image = s.image /\ t.dir = s.dir
    BY <1>2, <1>4, WithFdFacts DEF SameDisk, SameMemory
  <2>2. \A h \in open : SameBuffer(t.fd_pool[h], s.fd_pool[h])
    BY <1>2, <1>4, <1>8 DEF SameBuffer, Run
  <2>3. Stored(s.image.data, s.dir, t.fd_pool, open, L, C)
    BY <2>2, StoredSame DEF SameBuffer
  <2> QED BY <2>1, <2>3
<1>12. MovedTo(s, t, open, L, fd, s.fd_pool[fd].offset)
  BY <1>4, <1>5, <1>8, <1>11 DEF MovedTo, SameMemory
<1> QED BY <1>7, <1>8, <1>9, <1>10, <1>12, Repositioned

(* fs_flush: the directory and the bitmap reach the disk.                  *)
LEMMA ImageFacts ==
  ASSUME NEW s \in States, s.mode = "ok", NEW im \in ImageType
  PROVE  /\ WriteImage(s, im) \in States /\ SameMemory(s, WriteImage(s, im))
         /\ WriteImage(s, im).mode = "ok" /\ WriteImage(s, im).fd_pool = s.fd_pool
         /\ WriteImage(s, im).image = im
<1> DEFINE t == [s EXCEPT !.image = im, !.past = s.past \cup {im}]
<1>1. s.image_mode = "O_RDWR" /\ s.past \in SUBSET ImageType
  BY DEF States
<1>2. WriteImage(s, im) = t
  BY <1>1 DEF WriteImage
<1>3. s.past \cup {im} \in SUBSET ImageType
  BY <1>1
<1>4. t \in States /\ SameMemory(s, t) /\ t.mode = "ok" /\ t.fd_pool = s.fd_pool /\ t.image = im
  BY <1>3 DEF States, SameMemory
<1> QED BY <1>2, <1>4

LEMMA DirFlushed ==
  ASSUME NEW s, NEW open, NEW L, NEW fds0, NEW L0, Run(s, open, L, fds0, L0),
         NEW t, t = FlushDir(s)
  PROVE  /\ Run(t, open, L, fds0, L0) /\ SameMemory(s, t) /\ t.fd_pool = s.fd_pool
         /\ t.image.dir = s.dir /\ t.image.data = s.image.data
<1>1. s \in States /\ s.mode = "ok" /\ Clean(s)
  BY DEF Run
<1>2. s.state_dir \in {"USEFUL", "NEED_WASHING"} /\ s.image \in ImageType /\ s.dir \in DirType
  BY <1>1 DEF States, Cleanliness
<1>3. CASE s.state_dir = "NEED_WASHING"
  <2>1. PICK im : im = [s.image EXCEPT !.dir = s.dir]
    OBVIOUS
  <2>2. im \in ImageType /\ im.dir = s.dir /\ im.bitmap = s.image.bitmap /\ im.data = s.image.data
    BY <1>2, <2>1 DEF ImageType
  <2>3. t = WriteImage(s, im)
    BY <1>3, <2>1 DEF FlushDir
  <2>4. /\ t \in States /\ SameMemory(s, t) /\ t.mode = "ok" /\ t.fd_pool = s.fd_pool
        /\ t.image = im
    BY <1>1, <2>2, <2>3, ImageFacts
  <2>5. /\ t.dir = s.dir /\ t.bitmap = s.bitmap /\ t.state_dir = s.state_dir
        /\ t.state_bitmap = s.state_bitmap
    BY <2>4 DEF SameMemory
  <2>6. Clean(t)
    BY <1>1, <2>2, <2>4, <2>5 DEF Clean
  <2>7. t.image.data = s.image.data /\ t.image.dir = s.dir
    BY <2>2, <2>4
  <2>8. Run(t, open, L, fds0, L0)
    BY <2>4, <2>5, <2>6, <2>7 DEF Run
  <2> QED BY <2>4, <2>7, <2>8
<1>4. CASE s.state_dir = "USEFUL"
  <2>1. t = s
    BY <1>4 DEF FlushDir
  <2> QED BY <1>1, <1>4, <2>1 DEF Clean, SameMemory
<1> QED BY <1>2, <1>3, <1>4

LEMMA BitmapFlushed ==
  ASSUME NEW s, NEW open, NEW L, NEW fds0, NEW L0, Run(s, open, L, fds0, L0),
         NEW t, t = FlushBitmap(s)
  PROVE  /\ Run(t, open, L, fds0, L0) /\ SameMemory(s, t) /\ t.fd_pool = s.fd_pool
         /\ t.image.dir = s.image.dir /\ t.image.bitmap = s.bitmap
         /\ t.image.data = s.image.data
<1>1. s \in States /\ s.mode = "ok" /\ Clean(s)
  BY DEF Run
<1>2. s.state_bitmap \in {"USEFUL", "NEED_WASHING"} /\ s.image \in ImageType /\ s.bitmap \in SUBSET Blocks
  BY <1>1 DEF States, Cleanliness
<1>3. CASE s.state_bitmap = "NEED_WASHING"
  <2>1. PICK im : im = [s.image EXCEPT !.bitmap = s.bitmap]
    OBVIOUS
  <2>2. im \in ImageType /\ im.bitmap = s.bitmap /\ im.dir = s.image.dir /\ im.data = s.image.data
    BY <1>2, <2>1 DEF ImageType
  <2>3. t = WriteImage(s, im)
    BY <1>3, <2>1 DEF FlushBitmap
  <2>4. /\ t \in States /\ SameMemory(s, t) /\ t.mode = "ok" /\ t.fd_pool = s.fd_pool
        /\ t.image = im
    BY <1>1, <2>2, <2>3, ImageFacts
  <2>5. /\ t.dir = s.dir /\ t.bitmap = s.bitmap /\ t.state_dir = s.state_dir
        /\ t.state_bitmap = s.state_bitmap
    BY <2>4 DEF SameMemory
  <2>6. Clean(t)
    BY <1>1, <2>2, <2>4, <2>5 DEF Clean
  <2>7. t.image.data = s.image.data /\ t.image.bitmap = s.bitmap /\ t.image.dir = s.image.dir
    BY <2>2, <2>4
  <2>8. Run(t, open, L, fds0, L0)
    BY <2>4, <2>5, <2>6, <2>7 DEF Run
  <2> QED BY <2>4, <2>7, <2>8
<1>4. CASE s.state_bitmap = "USEFUL"
  <2>1. t = s
    BY <1>4 DEF FlushBitmap
  <2> QED BY <1>1, <1>4, <2>1 DEF Clean, SameMemory
<1> QED BY <1>2, <1>3, <1>4

LEMMA FlushAll ==
  ASSUME NEW s, NEW open, NEW L, NEW fds0, NEW L0, Run(s, open, L, fds0, L0),
         NEW t, t = fs_flush(s)
  PROVE  /\ Run(t, open, L, fds0, L0) /\ t.dir = s.dir /\ t.bitmap = s.bitmap
         /\ t.fd_pool = s.fd_pool /\ t.image.data = s.image.data
         /\ t.state_dir = "USEFUL" /\ t.state_bitmap = "USEFUL"
<1>1. PICK u : u = FlushDir(s)
  OBVIOUS
<1>2. PICK v : v = FlushBitmap(u)
  OBVIOUS
<1>3. /\ Run(u, open, L, fds0, L0) /\ SameMemory(s, u) /\ u.fd_pool = s.fd_pool
      /\ u.image.dir = s.dir /\ u.image.data = s.image.data
  BY <1>1, DirFlushed
<1>4. /\ Run(v, open, L, fds0, L0) /\ SameMemory(u, v) /\ v.fd_pool = u.fd_pool
      /\ v.image.dir = u.image.dir /\ v.image.bitmap = u.bitmap
      /\ v.image.data = u.image.data
  <2>1. Run(u, open, L, fds0, L0)
    BY <1>3
  <2> QED BY <1>2, <2>1, BitmapFlushed
<1>5. t = [v EXCEPT !.state_dir = "USEFUL", !.state_bitmap = "USEFUL"]
  BY <1>1, <1>2 DEF fs_flush
<1>6. v \in States /\ v.mode = "ok"
  BY <1>4 DEF Run
<1>7. /\ t \in States /\ t.mode = "ok" /\ t.image = v.image /\ t.dir = v.dir
      /\ t.bitmap = v.bitmap /\ t.fd_pool = v.fd_pool
      /\ t.state_dir = "USEFUL" /\ t.state_bitmap = "USEFUL"
  BY <1>5, <1>6 DEF States, Cleanliness
<1>8. v.dir = s.dir /\ v.bitmap = s.bitmap /\ v.fd_pool = s.fd_pool
      /\ v.image.dir = s.dir /\ v.image.bitmap = s.bitmap
      /\ v.image.data = s.image.data
  BY <1>3, <1>4 DEF SameMemory
<1>9. Clean(t)
  BY <1>7, <1>8 DEF Clean
<1>10. Run(t, open, L, fds0, L0)
  BY <1>4, <1>7, <1>9 DEF Run
<1> QED BY <1>7, <1>8, <1>10

(* Between two calls.                                                      *)
Rests(t, open, G) ==
  /\ t \in States /\ t.mode = "ok" /\ Clean(t)
  /\ open = {h \in Fds : t.fd_pool[h].opened}
  /\ Good(t.image.data, t.dir, t.bitmap, t.fd_pool, open, G)
  /\ Sized(t.dir, G)
  /\ \A h \in open : /\ At(t.fd_pool[h], G)
                     /\ t.fd_pool[h].offset <= t.dir[t.fd_pool[h].index].fileSize
  /\ open = {} => t.state_dir = "USEFUL" /\ t.state_bitmap = "USEFUL"

LEMMA RestsWorks ==
  ASSUME NEW s, NEW open, NEW L, Rests(s, open, L)
  PROVE  Works(s, open, L, s.fd_pool, L)
<1>1. Keeps(s.image.data, s.fd_pool, open, L)
  BY KeepsAll DEF Rests
<1>2. Grows(L, L)
  <2>1. L \in Layouts
    BY DEF Rests, Good, Placed
  <2> QED BY <2>1, GrowsSame
<1>3. open \subseteq Fds
  BY DEF Rests
<1> QED BY <1>1, <1>2, <1>3 DEF Rests, Works, Run

LEMMA WorksRests ==
  ASSUME NEW s, NEW open, NEW L, NEW fds0, NEW L0, Works(s, open, L, fds0, L0),
         open = {h \in Fds : s.fd_pool[h].opened},
         open = {} => s.state_dir = "USEFUL" /\ s.state_bitmap = "USEFUL"
  PROVE  Rests(s, open, L)
BY DEF Rests, Works, Run

(* A descriptor with an empty buffer may be closed and opened.             *)
LEMMA OthersStored ==
  ASSUME NEW data, NEW d, NEW fds, NEW open, NEW L, NEW C, Stored(data, d, fds, open, L, C),
         NEW fds2, NEW open2, NEW fd, \A h \in open \cup open2 : h # fd => h \in open /\ h \in open2,
         \A h \in open \cup open2 : h # fd => SameBuffer(fds2[h], fds[h]),
         fd \in open => fds[fd].buffer_state = "GARBAGE",
         fd \in open2 => fds2[fd].buffer_state = "GARBAGE",
         NEW d2, \A i \in Entries : d2[i].fileSize = d[i].fileSize \/ d2[i].fileSize = 0
  PROVE  Stored(data, d2, fds2, open2, L, C)
<1> SUFFICES ASSUME NEW e \in Entries, NEW p \in Nat, p < d2[e].fileSize
             PROVE  CellIs(data, fds2, open2, blk(L, e, p \div SECTSIZE), p % SECTSIZE, C[e][p])
  BY DEF Stored
<1>1. PICK c, b : c = p % SECTSIZE /\ b = blk(L, e, p \div SECTSIZE)
  OBVIOUS
<1>2. p < d[e].fileSize
  OBVIOUS
<1>3. CellIs(data, fds, open, b, c, C[e][p])
  BY <1>1, <1>2 DEF Stored
<1>4. CellIs(data, fds2, open2, b, c, C[e][p])
  <2>1. ASSUME NEW h \in open2, HoldsBlk(fds2, h, b) PROVE fds2[h].buffer.cells[c] = C[e][p]
    <3>1. h # fd
      BY <2>1 DEF HoldsBlk
    <3>2. h \in open /\ SameBuffer(fds2[h], fds[h])
      BY <3>1
    <3>3. HoldsBlk(fds, h, b) /\ fds2[h].buffer = fds[h].buffer
      BY <2>1, <3>2 DEF HoldsBlk, SameBuffer
    <3> QED BY <1>3, <3>2, <3>3 DEF CellIs
  <2>2. ASSUME NEW h \in open, Unwashed(fds, h, b) PROVE h \in open2 /\ Unwashed(fds2, h, b)
    <3>1. h # fd
      BY <2>2 DEF Unwashed
    <3> QED BY <2>2, <3>1 DEF Unwashed, SameBuffer
  <2> QED BY <1>3, <2>1, <2>2 DEF CellIs
<1> QED BY <1>1, <1>4

(* fs_close                                                                *)
Shut(s, fd) == [s EXCEPT !.fd_pool[fd].opened = FALSE]

LEMMA ShutIs ==
  ASSUME NEW v \in States, NEW fd \in Fds
  PROVE  \E g \in FdType :
            /\ Shut(v, fd) = WithFd(v, fd, g)
            /\ g.index = v.fd_pool[fd].index /\ g.offset = v.fd_pool[fd].offset
            /\ g.opened = FALSE
            /\ g.buffer_state = v.fd_pool[fd].buffer_state /\ g.buffer_idx = v.fd_pool[fd].buffer_idx
            /\ g.buffer = v.fd_pool[fd].buffer
            /\ g.inode = v.fd_pool[fd].inode /\ g.inode_idx = v.fd_pool[fd].inode_idx
            /\ g.inode_state = v.fd_pool[fd].inode_state
<1> DEFINE f == v.fd_pool[fd]
           g == [f EXCEPT !.opened = FALSE]
<1>1. f \in FdType /\ v.fd_pool \in [Fds -> FdType]
  BY DEF States
<1>2. /\ g \in FdType /\ g.index = f.index /\ g.offset = f.offset
      /\ g.opened = FALSE
      /\ g.buffer_state = f.buffer_state /\ g.buffer_idx = f.buffer_idx
      /\ g.buffer = f.buffer
      /\ g.inode = f.inode /\ g.inode_idx = f.inode_idx
      /\ g.inode_state = f.inode_state
  BY <1>1 DEF FdType
<1>3. Shut(v, fd) = WithFd(v, fd, g)
  BY <1>1 DEF Shut, WithFd, States
<1> HIDE DEF g
<1> QED BY <1>2, <1>3

LEMMA CloseRests ==
  ASSUME NEW s, NEW open, NEW L, Rests(s, open, L), NEW fd \in open, NEW t, t = fs_close(s, fd)
  PROVE  /\ Rests(t, open \ {fd}, L)
         /\ t.dir = s.dir /\ \A h \in Fds : h # fd => t.fd_pool[h] = s.fd_pool[h]
         /\ KeepsFiles(s, open, L, t, open \ {fd})
<1>1. PICK p : p = Shut(s, fd)
  OBVIOUS
<1>2. PICK u : u = fd_inode_flush(p, fd)
  OBVIOUS
<1>3. PICK v : v = fd_buffer_flush(u, fd)
  OBVIOUS
<1>4. t = fs_flush(v)
  BY <1>1, <1>2, <1>3 DEF fs_close, Shut
<1>5. Works(s, open, L, s.fd_pool, L)
  BY RestsWorks
<1>6. PICK fds0 : fds0 = s.fd_pool
  OBVIOUS
<1>7. Run(s, open, L, fds0, L) /\ fd \in Fds /\ s.fd_pool[fd] \in FdType /\ s \in States /\ open \subseteq Fds
  <2>1. Run(s, open, L, fds0, L)
    BY <1>5, <1>6 DEF Works
  <2> QED BY <2>1, RunFacts DEF Run
<1>8. PICK g \in FdType :
          /\ p = WithFd(s, fd, g)
          /\ g.index = s.fd_pool[fd].index /\ g.opened = FALSE
          /\ g.buffer_state = s.fd_pool[fd].buffer_state /\ g.buffer_idx = s.fd_pool[fd].buffer_idx
          /\ g.buffer = s.fd_pool[fd].buffer
          /\ g.inode = s.fd_pool[fd].inode /\ g.inode_idx = s.fd_pool[fd].inode_idx
          /\ g.inode_state = s.fd_pool[fd].inode_state
  BY <1>1, <1>7, ShutIs
<1>9. Holds(g, L)
  <2>1. Holds(s.fd_pool[fd], L)
    BY <1>7, RunFacts
  <2> QED BY <1>8, <2>1 DEF Holds
<1>10. Run(p, open, L, fds0, L)
  <2>1. Run(s, open, L, fds0, L)
    BY <1>7
  <2>2. Run(WithFd(s, fd, g), open, L, fds0, L)
    BY <1>8, <1>9, <2>1, RunSet
  <2> QED BY <1>8, <2>2
<1>11. /\ SameMemory(s, p) /\ p.fd_pool[fd] = g
       /\ \A h \in Fds : h # fd => p.fd_pool[h] = s.fd_pool[h]
  BY <1>7, <1>8, WithFdFacts
<1>12. /\ Run(u, open, L, fds0, L) /\ SameMemory(p, u) /\ Untouched(p, u, L)
       /\ \A h \in Fds : h # fd => u.fd_pool[h] = p.fd_pool[h]
       /\ u.fd_pool[fd] = IF p.fd_pool[fd].inode_state = "NEED_WASHING"
                            THEN [p.fd_pool[fd] EXCEPT !.inode_state = "USEFUL"]
                            ELSE p.fd_pool[fd]
  BY <1>2, <1>10, FlushIno
<1>13. /\ Run(v, open, L, fds0, L) /\ SameMemory(u, v) /\ Washed(u, v, u.fd_pool[fd])
       /\ \A h \in Fds : h # fd => v.fd_pool[h] = u.fd_pool[h]
       /\ v.fd_pool[fd] = [u.fd_pool[fd] EXCEPT !.buffer_state = "GARBAGE"]
  <2>1. Run(u, open, L, fds0, L)
    BY <1>12
  <2> QED BY <1>3, <2>1, FlushBuf
<1>14. /\ Run(t, open, L, fds0, L) /\ t.dir = v.dir /\ t.bitmap = v.bitmap
       /\ t.fd_pool = v.fd_pool /\ t.image.data = v.image.data
       /\ t.state_dir = "USEFUL" /\ t.state_bitmap = "USEFUL"
  <2>1. Run(v, open, L, fds0, L)
    BY <1>13
  <2> QED BY <1>4, <2>1, FlushAll
<1>15. /\ u.fd_pool[fd] \in FdType
       /\ u.fd_pool[fd].opened = FALSE /\ u.fd_pool[fd].inode_state # "NEED_WASHING"
  <2>1. u.fd_pool[fd] \in FdType
    BY <1>7, <1>12, RunFacts
  <2> QED BY <1>8, <1>11, <1>12, <2>1 DEF FdType
<1>16. /\ t.fd_pool[fd].opened = FALSE /\ t.fd_pool[fd].inode_state # "NEED_WASHING"
       /\ \A h \in Fds : h # fd => t.fd_pool[h] = s.fd_pool[h]
       /\ t.dir = s.dir
  <2>1. t.fd_pool[fd].opened = FALSE /\ t.fd_pool[fd].inode_state # "NEED_WASHING"
    BY <1>13, <1>14, <1>15 DEF FdType
  <2>2. \A h \in Fds : h # fd => t.fd_pool[h] = s.fd_pool[h]
    BY <1>11, <1>12, <1>13, <1>14
  <2>3. t.dir = s.dir
    BY <1>11, <1>12, <1>13, <1>14 DEF SameMemory
  <2> QED BY <2>1, <2>2, <2>3
<1>17. Good(t.image.data, t.dir, t.bitmap, t.fd_pool, open \ {fd}, L)
  <2>1. Good(t.image.data, t.dir, t.bitmap, t.fd_pool, open, L)
    BY <1>14 DEF Run
  <2>2. \A h \in open : h # fd => t.fd_pool[h] = t.fd_pool[h]
    OBVIOUS
  <2> QED BY <1>16, <2>1, <2>2, CloseFd
<1>18. open \ {fd} = {h \in Fds : t.fd_pool[h].opened}
  <2>1. open = {h \in Fds : s.fd_pool[h].opened}
    BY DEF Rests
  <2> QED BY <1>16, <2>1
<1>19. ASSUME NEW h \in open \ {fd}
       PROVE  At(t.fd_pool[h], L) /\ t.fd_pool[h].offset <= t.dir[t.fd_pool[h].index].fileSize
  <2>1. t.fd_pool[h] = s.fd_pool[h]
    BY <1>7, <1>16
  <2> QED BY <1>16, <2>1 DEF Rests
<1>20. Sized(t.dir, L)
  BY <1>16 DEF Rests
<1>21. Rests(t, open \ {fd}, L)
  BY <1>14, <1>17, <1>18, <1>19, <1>20 DEF Rests, Run
<1>22. KeepsFiles(s, open, L, t, open \ {fd})
  <2> SUFFICES ASSUME NEW C, Stored(s.image.data, s.dir, s.fd_pool, open, L, C)
               PROVE  Stored(t.image.data, t.dir, t.fd_pool, open \ {fd}, L, C)
    BY DEF KeepsFiles
  <2>1. PICK d : d = s.dir
    OBVIOUS
  <2>2. /\ Sized(d, L) /\ \A i \in Entries : d[i].fileSize \in Nat
        /\ \A i \in Entries, m \in Nat : blk(L, i, m) \in Blocks
    <3>1. \A i \in Entries, m \in Nat : blk(L, i, m) \in Blocks
      BY GoodFacts DEF Rests
    <3>2. \A i \in Entries : d[i].fileSize \in 0 .. MaxFileSize
      BY <1>7, <2>1 DEF States, DirType
    <3>3. MaxFileSize \in Nat
      BY FileSysAssumption
    <3> QED BY <2>1, <3>1, <3>2, <3>3 DEF Rests
  <2>3. Stored(p.image.data, d, p.fd_pool, open, L, C)
    <3>1. \A h \in open : SameBuffer(p.fd_pool[h], s.fd_pool[h])
      BY <1>7, <1>8, <1>11 DEF SameBuffer
    <3>2. p.image = s.image
      BY <1>7, <1>8, WithFdFacts DEF SameDisk
    <3>3. Stored(s.image.data, d, p.fd_pool, open, L, C)
      BY <2>1, <3>1, StoredSame DEF SameBuffer
    <3> QED BY <3>2, <3>3
  <2>4. Stored(u.image.data, d, u.fd_pool, open, L, C)
    <3>1. SameBuffer(u.fd_pool[fd], p.fd_pool[fd])
      BY <1>8, <1>11, <1>12 DEF SameBuffer, FdType
    <3>2. \A h \in open : SameBuffer(u.fd_pool[h], p.fd_pool[h])
      BY <1>7, <1>12, <3>1 DEF SameBuffer
    <3>3. Untouched(p, u, L)
      BY <1>12
    <3> QED BY <2>2, <2>3, <3>2, <3>3, UntouchedStored
  <2>5. v.fd_pool[fd].buffer_state = "GARBAGE"
    BY <1>13, <1>15 DEF FdType
  <2>6. Stored(v.image.data, d, v.fd_pool, open, L, C)
    <3>1. \A h \in Fds : h # fd => v.fd_pool[h] = u.fd_pool[h]
      BY <1>13
    <3>2. Washed(u, v, u.fd_pool[fd]) /\ open \subseteq Fds
      BY <1>7, <1>13
    <3>3. \A i \in Entries, m \in Nat : blk(L, i, m) \in Blocks
      BY <2>2
    <3> QED BY <2>4, <2>5, <3>1, <3>2, <3>3, FlushStored
  <2>7. Stored(v.image.data, d, v.fd_pool, open \ {fd}, L, C)
    <3>1. PICK open2 : open2 = open \ {fd}
      OBVIOUS
    <3>2. /\ \A h \in open \cup open2 : h # fd => h \in open /\ h \in open2
          /\ fd \notin open2
          /\ \A h \in open \cup open2 : h # fd => SameBuffer(v.fd_pool[h], v.fd_pool[h])
          /\ \A i \in Entries : d[i].fileSize = d[i].fileSize \/ d[i].fileSize = 0
      BY <3>1 DEF SameBuffer
    <3>3. Stored(v.image.data, d, v.fd_pool, open2, L, C)
      BY <2>5, <2>6, <3>2, OthersStored
    <3> QED BY <3>1, <3>3
  <2> QED BY <1>14, <1>16, <2>1, <2>7
<1> QED BY <1>16, <1>21, <1>22

(* A call that touches closed descriptors only.                            *)
Quiet(s, t, open) ==
  /\ t \in States /\ t.mode = "ok" /\ t.image = s.image /\ SameMemory(s, t)
  /\ \A h \in open : t.fd_pool[h] = s.fd_pool[h]
  /\ \A h \in Fds : t.fd_pool[h].opened = s.fd_pool[h].opened

LEMMA RestsSame ==
  ASSUME NEW s, NEW open, NEW L, Rests(s, open, L), NEW t, Quiet(s, t, open)
  PROVE  Rests(t, open, L) /\ KeepsFiles(s, open, L, t, open)
<1>0. /\ t \in States /\ t.mode = "ok" /\ t.image = s.image /\ SameMemory(s, t)
      /\ \A h \in open : t.fd_pool[h] = s.fd_pool[h]
      /\ \A h \in Fds : t.fd_pool[h].opened = s.fd_pool[h].opened
  BY DEF Quiet
<1>1. Good(s.image.data, s.dir, s.bitmap, s.fd_pool, open, L)
  BY DEF Rests
<1>2. Good(s.image.data, s.dir, s.bitmap, t.fd_pool, open, L)
  <2>1. \A h \in open : Holds(t.fd_pool[h], L)
    BY <1>0, <1>1 DEF Good
  <2>2. Apart(s.dir, t.fd_pool, open)
    BY ZenonT(30), <1>0, <1>1 DEF Good, Apart
  <2>3. \A h \in open : \A i, b : Dirty(s.fd_pool, h, i, b) => Dirty(t.fd_pool, h, i, b)
    BY <1>0 DEF Dirty
  <2>4. Written(s.image.data, t.fd_pool, open, L)
    <3>1. Written(s.image.data, s.fd_pool, open, L)
      BY <1>1 DEF Good
    <3>2. ASSUME NEW i \in Entries, NEW k \in Nat, k < ni(L, i)
          PROVE  \/ IsRec(s.image.data[ino(L, i, k)], L, i, k)
                 \/ \E h \in open : Dirty(t.fd_pool, h, i, ino(L, i, k))
      <4>1. \/ IsRec(s.image.data[ino(L, i, k)], L, i, k)
            \/ \E h \in open : Dirty(s.fd_pool, h, i, ino(L, i, k))
        BY <3>1, <3>2 DEF Written
      <4> QED BY <2>3, <4>1
    <3> QED BY <3>1, <3>2 DEF Written
  <2> QED BY <1>1, <2>1, <2>2, <2>4 DEF Good
<1>3. /\ t.dir = s.dir /\ t.bitmap = s.bitmap /\ t.state_dir = s.state_dir
      /\ t.state_bitmap = s.state_bitmap
  BY <1>0 DEF SameMemory
<1>4. Clean(t)
  BY <1>0, <1>3 DEF Rests, Clean
<1>5. open = {h \in Fds : t.fd_pool[h].opened}
  BY <1>0 DEF Rests
<1>6. ASSUME NEW h \in open
      PROVE  At(t.fd_pool[h], L) /\ t.fd_pool[h].offset <= t.dir[t.fd_pool[h].index].fileSize
  BY <1>0, <1>3 DEF Rests
<1>7. Sized(t.dir, L) /\ (open = {} => t.state_dir = "USEFUL" /\ t.state_bitmap = "USEFUL")
  BY <1>3 DEF Rests
<1>8. Good(t.image.data, t.dir, t.bitmap, t.fd_pool, open, L)
  BY <1>0, <1>2, <1>3
<1>9. Rests(t, open, L)
  BY <1>0, <1>4, <1>5, <1>6, <1>7, <1>8 DEF Rests
<1>10. KeepsFiles(s, open, L, t, open)
  <2> SUFFICES ASSUME NEW C, Stored(s.image.data, s.dir, s.fd_pool, open, L, C)
               PROVE  Stored(t.image.data, t.dir, t.fd_pool, open, L, C)
    BY DEF KeepsFiles
  <2>1. Stored(s.image.data, s.dir, t.fd_pool, open, L, C)
    BY <1>0, StoredSame
  <2> QED BY <1>0, <1>3, <2>1
<1> QED BY <1>9, <1>10

(* A file with no name has no blocks.                                      *)
LEMMA NoBlocks ==
  ASSUME NEW L \in Layouts, NEW d, Heads(d, L), NEW i \in Entries, ~Named(d[i])
  PROVE  ni(L, i) = 0 /\ nb(L, i) = 0
<1>1. ni(L, i) \in Nat /\ nb(L, i) \in Nat
  BY LayoutFacts
<1>2. Slot(0, 0) = 0
  BY Sizes DEF Slot
<1>3. ~(ni(L, i) > 0) /\ nb(L, i) <= Slot(ni(L, i), 0)
  BY Zenon DEF Heads, Named
<1>4. ni(L, i) = 0
  BY <1>1, <1>3
<1> QED BY <1>1, <1>2, <1>3, <1>4

(* A closed descriptor is opened, for a file that is there or a new one.   *)
Opens(s, t, open, fd, i) ==
  /\ fd \in Fds /\ fd \notin open
  /\ i \in Entries /\ \A h \in open : s.fd_pool[h].index # i
  /\ t \in States /\ t.mode = "ok" /\ t.image = s.image /\ t.bitmap = s.bitmap /\ Clean(t)
  /\ \A h \in Fds : h # fd => t.fd_pool[h] = s.fd_pool[h]
  /\ t.fd_pool[fd].index = i /\ t.fd_pool[fd].offset = 0 /\ t.fd_pool[fd].opened = TRUE
  /\ t.fd_pool[fd].inode_state = "GARBAGE" /\ t.fd_pool[fd].buffer_state = "GARBAGE"
  /\ \A j \in Entries : j # i => t.dir[j] = s.dir[j]
  /\ Named(t.dir[i])
  /\ \/ t.dir[i] = s.dir[i]
     \/ /\ ~Named(s.dir[i]) /\ t.dir[i].fileSize = 0
        /\ t.dir[i].inodeOffset = NotAllocated

LEMMA OpenRests ==
  ASSUME NEW s, NEW open, NEW L, Rests(s, open, L), NEW fd, NEW i, NEW t,
         Opens(s, t, open, fd, i)
  PROVE  Rests(t, open \cup {fd}, L) /\ KeepsFiles(s, open, L, t, open \cup {fd})
<1>0. fd \in Fds /\ fd \notin open /\ i \in Entries /\ t \in States
  BY DEF Opens
<1>1. /\ s \in States /\ open \subseteq Fds
      /\ Good(s.image.data, s.dir, s.bitmap, s.fd_pool, open, L)
      /\ \A h \in open : s.fd_pool[h].index \in Entries
  BY FdFacts DEF Rests
<1>2. \A h \in open : t.fd_pool[h] = s.fd_pool[h]
  BY <1>1 DEF Opens
<1>3. Heads(s.dir, L) /\ Sized(s.dir, L) /\ L \in Layouts
  BY <1>1, GoodFacts DEF Good, Rests
<1>4. ~Named(s.dir[i]) => ni(L, i) = 0 /\ nb(L, i) = 0
  BY <1>0, <1>3, NoBlocks
<1>5. /\ ni(L, i) > 0 => t.dir[i].inodeOffset = ino(L, i, 0)
      /\ ni(L, i) = 0 => ~HasBlocks(t.dir[i])
  <2>1. CASE t.dir[i] = s.dir[i]
    BY <1>0, <1>3, <2>1 DEF Heads
  <2>2. CASE ~Named(s.dir[i]) /\ t.dir[i].inodeOffset = NotAllocated
    <3>1. ~HasBlocks(t.dir[i])
      BY <2>2, Zenon DEF HasBlocks
    <3> QED BY <1>4, <2>2, <3>1
  <2> QED BY <2>1, <2>2 DEF Opens
<1>6. Good(s.image.data, t.dir, s.bitmap, t.fd_pool, open \cup {fd}, L)
  <2>1. /\ fd \notin open /\ i \in Entries /\ \A h \in open : s.fd_pool[h].index # i
        /\ t.fd_pool[fd].index = i
        /\ t.fd_pool[fd].inode_state = "GARBAGE" /\ t.fd_pool[fd].buffer_state = "GARBAGE"
        /\ \A j \in Entries : j # i => t.dir[j] = s.dir[j]
        /\ Named(t.dir[i])
    BY DEF Opens
  <2>2. PICK fds2, d2 : fds2 = t.fd_pool /\ d2 = t.dir
    OBVIOUS
  <2>3. /\ \A h \in open : fds2[h] = s.fd_pool[h]
        /\ fds2[fd].index = i
        /\ fds2[fd].inode_state = "GARBAGE" /\ fds2[fd].buffer_state = "GARBAGE"
        /\ \A j \in Entries : j # i => d2[j] = s.dir[j]
        /\ Named(d2[i])
        /\ ni(L, i) > 0 => d2[i].inodeOffset = ino(L, i, 0)
        /\ ni(L, i) = 0 => ~HasBlocks(d2[i])
    BY <1>2, <1>5, <2>1, <2>2
  <2>4. /\ Good(s.image.data, s.dir, s.bitmap, s.fd_pool, open, L)
        /\ \A h \in open : s.fd_pool[h].index \in Entries
    BY <1>1
  <2>5. Good(s.image.data, d2, s.bitmap, fds2, open \cup {fd}, L)
    BY <2>1, <2>3, <2>4, OpenFd
  <2> QED BY <2>2, <2>5
<1>7. Sized(t.dir, L)
  <2>1. UpTo(0, INODE_CAPACITY) = 0 /\ UpTo(0, SECTSIZE) = 0
    BY Sizes, RoundedUp
  <2>2. ASSUME NEW j \in Entries
        PROVE  /\ ni(L, j) = UpTo(t.dir[j].fileSize, INODE_CAPACITY)
               /\ nb(L, j) = UpTo(t.dir[j].fileSize, SECTSIZE)
    <3>1. CASE t.dir[j] = s.dir[j]
      BY <1>3, <3>1 DEF Sized
    <3>2. CASE j = i /\ ~Named(s.dir[i]) /\ t.dir[i].fileSize = 0
      BY <1>4, <2>1, <3>2
    <3> QED BY <3>1, <3>2 DEF Opens
  <2> QED BY <2>2 DEF Sized
<1>8. ASSUME NEW h \in open \cup {fd}
      PROVE  At(t.fd_pool[h], L) /\ t.fd_pool[h].offset <= t.dir[t.fd_pool[h].index].fileSize
  <2>1. CASE h = fd
    <3>1. t.dir[i].fileSize \in Nat
      <4>1. MaxFileSize \in Nat
        BY FileSysAssumption
      <4>2. t.dir[i].fileSize \in 0 .. MaxFileSize
        BY <1>0 DEF States, DirType
      <4> QED BY <4>1, <4>2
    <3>2. /\ t.fd_pool[fd].index = i /\ t.fd_pool[fd].offset = 0
          /\ t.fd_pool[fd].inode_state = "GARBAGE" /\ t.fd_pool[fd].buffer_state = "GARBAGE"
      BY DEF Opens
    <3>3. 0 % SECTSIZE = 0
      BY Sizes
    <3>4. At(t.fd_pool[fd], L)
      BY <3>2, <3>3 DEF At
    <3> QED BY <2>1, <3>1, <3>2, <3>4
  <2>2. CASE h # fd
    <3>1. t.fd_pool[h] = s.fd_pool[h] /\ t.dir[s.fd_pool[h].index] = s.dir[s.fd_pool[h].index]
      BY <1>1, <1>2, <2>2 DEF Opens
    <3>2. At(s.fd_pool[h], L) /\ s.fd_pool[h].offset <= s.dir[s.fd_pool[h].index].fileSize
      BY <2>2 DEF Rests
    <3> QED BY <3>1, <3>2
  <2> QED BY <2>1, <2>2
<1>9. open \cup {fd} = {h \in Fds : t.fd_pool[h].opened}
  <2>1. open = {h \in Fds : s.fd_pool[h].opened}
    BY DEF Rests
  <2>2. t.fd_pool[fd].opened = TRUE /\ \A h \in Fds : h # fd => t.fd_pool[h] = s.fd_pool[h]
    BY DEF Opens
  <2> QED BY <1>0, <2>1, <2>2
<1>10. Good(t.image.data, t.dir, t.bitmap, t.fd_pool, open \cup {fd}, L)
  BY <1>6 DEF Opens
<1>11. Rests(t, open \cup {fd}, L)
  BY <1>7, <1>8, <1>9, <1>10 DEF Rests, Opens
<1>12. KeepsFiles(s, open, L, t, open \cup {fd})
  <2> SUFFICES ASSUME NEW C, Stored(s.image.data, s.dir, s.fd_pool, open, L, C)
               PROVE  Stored(t.image.data, t.dir, t.fd_pool, open \cup {fd}, L, C)
    BY DEF KeepsFiles
  <2>1. PICK open2, fds, fds2, d, d2 : /\ open2 = open \cup {fd} /\ fds = s.fd_pool /\ fds2 = t.fd_pool
                                       /\ d = s.dir /\ d2 = t.dir
    OBVIOUS
  <2>2. /\ \A h \in open \cup open2 : h # fd => h \in open /\ h \in open2
        /\ fd \notin open /\ fds2[fd].buffer_state = "GARBAGE"
    BY <1>0, <2>1 DEF Opens
  <2>3. \A h \in open \cup open2 : h # fd => SameBuffer(fds2[h], fds[h])
    BY <1>2, <2>1 DEF SameBuffer
  <2>4. \A j \in Entries : d2[j].fileSize = d[j].fileSize \/ d2[j].fileSize = 0
    BY <2>1 DEF Opens
  <2>5. Stored(s.image.data, d, fds, open, L, C)
    BY <2>1
  <2>6. Stored(s.image.data, d2, fds2, open2, L, C)
    BY <2>2, <2>3, <2>4, <2>5, OthersStored
  <2> QED BY <2>1, <2>6 DEF Opens
<1> QED BY <1>11, <1>12

(* internal_open                                                           *)
Fresh(s, t, fd) ==
  /\ t \in States /\ SameMemory(s, t) /\ SameDisk(s, t)
  /\ \A h \in Fds : h # fd => t.fd_pool[h] = s.fd_pool[h]
  /\ t.fd_pool[fd].index = s.fd_pool[fd].index /\ t.fd_pool[fd].offset = 0
  /\ t.fd_pool[fd].opened = TRUE
  /\ t.fd_pool[fd].inode_state = "GARBAGE" /\ t.fd_pool[fd].buffer_state = "GARBAGE"

LEMMA InternalOpen ==
  ASSUME NEW s \in States, NEW fd \in Fds, NEW t, t = internal_open(s, fd)
  PROVE  Fresh(s, t, fd)
<1> DEFINE f == s.fd_pool[fd]
           g == [f EXCEPT !.buffer_state = "GARBAGE", !.inode_state = "GARBAGE",
                          !.offset = 0, !.opened = TRUE]
<1>1. f \in FdType /\ s.fd_pool \in [Fds -> FdType]
  BY DEF States
<1>2. /\ g \in FdType /\ g.index = f.index /\ g.offset = 0 /\ g.opened = TRUE
      /\ g.inode_state = "GARBAGE" /\ g.buffer_state = "GARBAGE"
  BY <1>1 DEF FdType
<1>3. t = [WithFd(s, fd, g) EXCEPT !.ret = fd]
  <2> DEFINE e == [f EXCEPT !.buffer_state = "GARBAGE", !.inode_state = "GARBAGE"]
  <2>1. PICK v : v = [s EXCEPT !.fd_pool[fd].buffer_state = "GARBAGE",
                               !.fd_pool[fd].inode_state = "GARBAGE"]
    OBVIOUS
  <2>2. PICK w : w = [v EXCEPT !.fd_pool[fd].offset = 0, !.fd_pool[fd].opened = TRUE]
    OBVIOUS
  <2>3. t = [w EXCEPT !.ret = fd]
    BY <2>1, <2>2 DEF internal_open
  <2>4. e \in FdType /\ g = [e EXCEPT !.offset = 0, !.opened = TRUE]
    BY <1>1 DEF FdType
  <2>5. v = WithFd(s, fd, e)
    BY <1>1, <2>1 DEF WithFd, States
  <2> HIDE DEF e, f, g
  <2>6. v \in States /\ v.fd_pool[fd] = e
    BY <2>4, <2>5, WithFdFacts
  <2>7. w = WithFd(v, fd, g)
    BY <2>2, <2>4, <2>6 DEF WithFd, States
  <2>8. w = WithFd(s, fd, g)
    BY <2>5, <2>7, WithFdTwice
  <2> QED BY <2>3, <2>8
<1> HIDE DEF g
<1>4. PICK u : u = WithFd(s, fd, g)
  OBVIOUS
<1>5. /\ u \in States /\ SameMemory(s, u) /\ SameDisk(s, u) /\ u.fd_pool[fd] = g
      /\ \A h \in Fds : h # fd => u.fd_pool[h] = s.fd_pool[h]
  BY <1>2, <1>4, WithFdFacts
<1>6. fd \in Int
  BY DEF Fds
<1>7. /\ t \in States /\ t.fd_pool = u.fd_pool /\ t.image = u.image /\ t.mode = u.mode
      /\ t.dir = u.dir /\ t.bitmap = u.bitmap /\ t.state_dir = u.state_dir
      /\ t.state_bitmap = u.state_bitmap
  BY <1>3, <1>4, <1>5, <1>6 DEF States
<1> QED BY <1>2, <1>5, <1>7 DEF Fresh, SameMemory, SameDisk

(* fs_open chooses the entry of a descriptor before it opens it.           *)
Targets(s, t, fd, i) ==
  /\ t \in States /\ SameMemory(s, t) /\ SameDisk(s, t)
  /\ \A h \in Fds : h # fd => t.fd_pool[h] = s.fd_pool[h]
  /\ t.fd_pool[fd].index = i /\ t.fd_pool[fd].opened = s.fd_pool[fd].opened

Indexed(s, fd, i) == [s EXCEPT !.fd_pool[fd].index = i]
IndexedRO(s, fd, i) == [s EXCEPT !.fd_pool[fd].index = i, !.fd_pool[fd].writable = FALSE]
Refused(s, fd, i) == [s EXCEPT !.fd_pool[fd].index = i, !.fd_pool[fd].writable = TRUE,
                               !.ret = E_ACCESS]

LEMMA TargetsWithFd ==
  ASSUME NEW s \in States, NEW fd \in Fds, NEW i, NEW g \in FdType,
         g.index = i, g.opened = s.fd_pool[fd].opened, NEW t, t = WithFd(s, fd, g)
  PROVE  Targets(s, t, fd, i)
<1>1. /\ t \in States /\ SameMemory(s, t) /\ SameDisk(s, t) /\ t.fd_pool[fd] = g
      /\ \A h \in Fds : h # fd => t.fd_pool[h] = s.fd_pool[h]
  BY WithFdFacts
<1> QED BY <1>1 DEF Targets

LEMMA IndexedTargets ==
  ASSUME NEW s \in States, NEW fd \in Fds, NEW i \in Entries, NEW t, t = Indexed(s, fd, i)
  PROVE  Targets(s, t, fd, i)
<1> DEFINE f == s.fd_pool[fd]
           g == [f EXCEPT !.index = i]
<1>1. f \in FdType /\ s.fd_pool \in [Fds -> FdType]
  BY DEF States
<1>2. g \in FdType /\ g.index = i /\ g.opened = f.opened
  BY <1>1 DEF FdType
<1>3. t = WithFd(s, fd, g)
  BY <1>1 DEF Indexed, WithFd, States
<1> HIDE DEF g
<1> QED BY <1>2, <1>3, TargetsWithFd

LEMMA IndexedROTargets ==
  ASSUME NEW s \in States, NEW fd \in Fds, NEW i \in Entries, NEW t, t = IndexedRO(s, fd, i)
  PROVE  Targets(s, t, fd, i)
<1> DEFINE f == s.fd_pool[fd]
           g == [f EXCEPT !.index = i, !.writable = FALSE]
<1>1. f \in FdType /\ s.fd_pool \in [Fds -> FdType]
  BY DEF States
<1>2. g \in FdType /\ g.index = i /\ g.opened = f.opened
  BY <1>1 DEF FdType
<1>3. t = WithFd(s, fd, g)
  BY <1>1 DEF IndexedRO, WithFd, States
<1> HIDE DEF g
<1> QED BY <1>2, <1>3, TargetsWithFd

\* A call that returns r and changes nothing.
Returning(s, r) == [s EXCEPT !.ret = r]

LEMMA ReturningFacts ==
  ASSUME NEW s \in States, NEW r \in Int, NEW t, t = Returning(s, r)
  PROVE  t \in States /\ SameMemory(s, t) /\ SameDisk(s, t) /\ t.fd_pool = s.fd_pool
BY DEF Returning, States, SameMemory, SameDisk

LEMMA RefusedTargets ==
  ASSUME NEW s \in States, NEW fd \in Fds, NEW i \in Entries, NEW t, t = Refused(s, fd, i)
  PROVE  Targets(s, t, fd, i)
<1> DEFINE f == s.fd_pool[fd]
           g == [f EXCEPT !.index = i, !.writable = TRUE]
<1>1. f \in FdType /\ s.fd_pool \in [Fds -> FdType]
  BY DEF States
<1>2. g \in FdType /\ g.index = i /\ g.opened = f.opened
  BY <1>1 DEF FdType
<1>3. t = Returning(WithFd(s, fd, g), E_ACCESS)
  BY <1>1 DEF Refused, Returning, WithFd, States
<1> HIDE DEF g
<1>4. PICK u : u = WithFd(s, fd, g)
  OBVIOUS
<1>5. Targets(s, u, fd, i)
  BY <1>2, <1>4, TargetsWithFd
<1>6. E_ACCESS \in Int
  BY DEF E_ACCESS
<1>7. u \in States /\ t = Returning(u, E_ACCESS)
  BY <1>3, <1>4, <1>5 DEF Targets
<1>8. t \in States /\ SameMemory(u, t) /\ SameDisk(u, t) /\ t.fd_pool = u.fd_pool
  BY <1>6, <1>7, ReturningFacts
<1> QED BY <1>5, <1>8 DEF Targets, SameMemory, SameDisk

LEMMA OpenTarget ==
  ASSUME NEW s, NEW open, NEW L, Rests(s, open, L), NEW fd \in Fds, fd \notin open,
         NEW i \in Entries, Named(s.dir[i]), \A h \in open : s.fd_pool[h].index # i,
         NEW u, Targets(s, u, fd, i), NEW t, t = internal_open(u, fd)
  PROVE  Opens(s, t, open, fd, i) /\ t.dir = s.dir
<1>1. /\ u \in States /\ SameMemory(s, u) /\ SameDisk(s, u)
      /\ \A h \in Fds : h # fd => u.fd_pool[h] = s.fd_pool[h]
      /\ u.fd_pool[fd].index = i
  BY DEF Targets
<1>2. /\ t \in States /\ SameMemory(u, t) /\ SameDisk(u, t)
      /\ \A h \in Fds : h # fd => t.fd_pool[h] = u.fd_pool[h]
      /\ t.fd_pool[fd].index = u.fd_pool[fd].index /\ t.fd_pool[fd].offset = 0
      /\ t.fd_pool[fd].opened = TRUE
      /\ t.fd_pool[fd].inode_state = "GARBAGE" /\ t.fd_pool[fd].buffer_state = "GARBAGE"
  <2>1. u \in States
    BY <1>1
  <2>2. Fresh(u, t, fd)
    BY <2>1, InternalOpen
  <2> QED BY <2>2 DEF Fresh
<1>3. s.mode = "ok" /\ Clean(s)
  BY DEF Rests
<1>4. /\ t.image = s.image /\ t.mode = "ok" /\ t.dir = s.dir /\ t.bitmap = s.bitmap
      /\ t.state_dir = s.state_dir /\ t.state_bitmap = s.state_bitmap
  BY <1>1, <1>2, <1>3 DEF SameMemory, SameDisk
<1>5. Clean(t)
  BY <1>3, <1>4 DEF Clean
<1>6. \A h \in Fds : h # fd => t.fd_pool[h] = s.fd_pool[h]
  BY <1>1, <1>2
<1>7. Opens(s, t, open, fd, i)
  BY <1>1, <1>2, <1>4, <1>5, <1>6 DEF Opens
<1> QED BY <1>4, <1>7

LEMMA OpenOld ==
  ASSUME NEW s, NEW open, NEW L, Rests(s, open, L), NEW fd \in Fds, fd \notin open,
         NEW i \in Entries, Named(s.dir[i]), \A h \in open : s.fd_pool[h].index # i,
         NEW flags, NEW t, t = OpenExisting(s, i, fd, flags)
  PROVE  Quiet(s, t, open) \/ (Opens(s, t, open, fd, i) /\ t.dir = s.dir)
<1>1. s \in States /\ open \subseteq Fds /\ s.mode = "ok"
  BY DEF Rests
<1>2. CASE i = 0 /\ "O_RDWR" \in flags
  <2>1. t = Refused(s, fd, i)
    BY <1>2 DEF OpenExisting, Refused
  <2>2. Targets(s, t, fd, i)
    BY <1>1, <2>1, RefusedTargets
  <2> QED BY <1>1, <2>2 DEF Targets, SameDisk, Quiet
<1>3. CASE i = 0 /\ "O_RDWR" \notin flags
  <2>1. PICK u : u = IndexedRO(s, fd, i)
    OBVIOUS
  <2>2. t = internal_open(u, fd)
    BY <1>3, <2>1 DEF OpenExisting, IndexedRO
  <2>3. Targets(s, u, fd, i)
    BY <1>1, <2>1, IndexedROTargets
  <2>4. Opens(s, t, open, fd, i) /\ t.dir = s.dir
    BY <2>2, <2>3, OpenTarget
  <2> QED BY <2>4
<1>4. CASE i # 0
  <2>1. PICK u : u = Indexed(s, fd, i)
    OBVIOUS
  <2>2. t = internal_open(u, fd)
    BY <1>4, <2>1 DEF OpenExisting, Indexed
  <2>3. Targets(s, u, fd, i)
    BY <1>1, <2>1, IndexedTargets
  <2>4. Opens(s, t, open, fd, i) /\ t.dir = s.dir
    BY <2>2, <2>3, OpenTarget
  <2> QED BY <2>4
<1> QED BY <1>2, <1>3, <1>4

(* fs_open makes a new file in an entry with no name.                      *)
NewFile(name) == [fileName |-> name, fileSize |-> 0, inodeOffset |-> NotAllocated]
WithFile(d, i, name) == [d EXCEPT ![i] = NewFile(name)]

LEMMA NewFileFacts ==
  ASSUME NEW name \in Names, NEW d \in DirType, NEW i \in Entries,
         NEW d2, d2 = WithFile(d, i, name)
  PROVE  /\ d2 \in DirType /\ Named(d2[i]) /\ d2[i].fileName = name /\ d2[i].fileSize = 0
         /\ d2[i].inodeOffset = NotAllocated
         /\ \A j \in Entries : j # i => d2[j] = d[j]
<1> DEFINE N == Names \cup {""}
           S == 0 .. MaxFileSize
           B == Blocks \cup {NotAllocated}
           e == NewFile(name)
<1>1. name \in N
  BY Zenon
<1>2. 0 \in S
  <2>1. MaxFileSize \in Nat
    BY FileSysAssumption
  <2> QED BY <2>1
<1>3. NotAllocated \in B
  OBVIOUS
<1>4. d \in [Entries -> [fileName : N, fileSize : S, inodeOffset : B]]
  BY Zenon DEF DirType
<1>5. name # ""
  BY FileSysAssumption, Zenon
<1>6. e.fileName = name /\ e.fileSize = 0 /\ e.inodeOffset = NotAllocated
  BY DEF NewFile
<1>7. Named(e)
  BY <1>5, <1>6, Zenon DEF Named
<1>8. DirType = [Entries -> [fileName : N, fileSize : S, inodeOffset : B]]
  BY Zenon DEF DirType
<1> HIDE DEF N, S, B
<1>9. e \in [fileName : N, fileSize : S, inodeOffset : B]
  BY <1>1, <1>2, <1>3 DEF NewFile
<1> HIDE DEF e
<1>10. PICK E : E = [fileName : N, fileSize : S, inodeOffset : B]
  OBVIOUS
<1>11. d2 \in [Entries -> E] /\ d2[i] = e /\ \A j \in Entries : j # i => d2[j] = d[j]
  <2>1. d \in [Entries -> E] /\ e \in E
    BY <1>4, <1>9, <1>10
  <2> QED BY <2>1 DEF e, WithFile
<1>12. d2 \in DirType
  BY <1>8, <1>10, <1>11
<1> QED BY <1>6, <1>7, <1>11, <1>12

Created(s, fd, i, name, flags) ==
  [s EXCEPT !.fd_pool[fd].index = i,
            !.fd_pool[fd].writable = @ \/ "O_RDWR" \in flags,
            !.state_dir = "NEED_WASHING",
            !.dir[i] = [fileName |-> name, fileSize |-> 0,
                        inodeOffset |-> NotAllocated]]

LEMMA CreatedIs ==
  ASSUME NEW s \in States, NEW fd \in Fds, NEW i \in Entries, NEW name \in Names, NEW flags,
         NEW d2, d2 = WithFile(s.dir, i, name)
  PROVE  \E g \in FdType : /\ Created(s, fd, i, name, flags) = WithDir(WithFd(s, fd, g), d2)
                           /\ g.index = i
<1> DEFINE f == s.fd_pool[fd]
           w == f.writable \/ "O_RDWR" \in flags
           g == [f EXCEPT !.index = i, !.writable = w]
<1>1. f \in FdType /\ s.fd_pool \in [Fds -> FdType]
  BY DEF States
<1>2. w \in BOOLEAN
  BY Zenon
<1>3. Created(s, fd, i, name, flags)
        = [s EXCEPT !.fd_pool = [s.fd_pool EXCEPT ![fd] = g], !.dir = d2, !.state_dir = "NEED_WASHING"]
  <2>1. PICK v : v = [s EXCEPT !.fd_pool[fd].index = i,
                               !.fd_pool[fd].writable = @ \/ "O_RDWR" \in flags]
    OBVIOUS
  <2>2. Created(s, fd, i, name, flags)
          = [v EXCEPT !.state_dir = "NEED_WASHING", !.dir[i] = NewFile(name)]
    BY <2>1 DEF Created, NewFile
  <2>3. v = [s EXCEPT !.fd_pool = [s.fd_pool EXCEPT ![fd] = g]]
    BY <1>1, <2>1 DEF States
  <2> HIDE DEF g
  <2>4. v.dir = s.dir
    BY <2>3 DEF States
  <2>5. Created(s, fd, i, name, flags) = [v EXCEPT !.state_dir = "NEED_WASHING", !.dir = d2]
    BY <2>2, <2>4 DEF WithFile
  <2> QED BY <2>3, <2>5 DEF States
<1> HIDE DEF w
<1>4. g \in FdType /\ g.index = i
  BY <1>1, <1>2 DEF FdType
<1> HIDE DEF g
<1>5. WithDir(WithFd(s, fd, g), d2)
        = [s EXCEPT !.fd_pool = [s.fd_pool EXCEPT ![fd] = g], !.dir = d2, !.state_dir = "NEED_WASHING"]
  BY DEF WithDir, WithFd, States
<1>6. Created(s, fd, i, name, flags) = WithDir(WithFd(s, fd, g), d2)
  BY <1>3, <1>5, Zenon DEF g
<1> QED BY <1>4, <1>6

LEMMA OpenNew ==
  ASSUME NEW s, NEW open, NEW L, Rests(s, open, L), NEW fd \in Fds, fd \notin open,
         NEW i \in Entries, ~Named(s.dir[i]), NEW name \in Names,
         NEW flags, NEW t, t = CreateFile(s, i, fd, name, flags)
  PROVE  Opens(s, t, open, fd, i) /\ t.dir[i].fileName = name
<1>1. s \in States /\ open \subseteq Fds /\ s.mode = "ok" /\ Clean(s) /\ s.dir \in DirType
  BY DEF Rests, States
<1>2. PICK d2 : d2 = WithFile(s.dir, i, name)
  OBVIOUS
<1>3. /\ d2 \in DirType /\ Named(d2[i]) /\ d2[i].fileName = name /\ d2[i].fileSize = 0
      /\ d2[i].inodeOffset = NotAllocated
      /\ \A j \in Entries : j # i => d2[j] = s.dir[j]
  <2>1. s.dir \in DirType
    BY <1>1
  <2> QED BY <1>2, <2>1, NewFileFacts
<1>4. PICK u : u = Created(s, fd, i, name, flags)
  OBVIOUS
<1>5. t = internal_open(u, fd)
  BY <1>4, Zenon DEF CreateFile, Created
<1>6. PICK g \in FdType : /\ Created(s, fd, i, name, flags) = WithDir(WithFd(s, fd, g), d2)
                          /\ g.index = i
  BY <1>1, <1>2, CreatedIs
<1>7. PICK v : v = WithFd(s, fd, g)
  OBVIOUS
<1>8. /\ v \in States /\ SameMemory(s, v) /\ SameDisk(s, v) /\ v.fd_pool[fd] = g
      /\ \A h \in Fds : h # fd => v.fd_pool[h] = s.fd_pool[h]
  BY <1>1, <1>7, WithFdFacts
<1>9. u = WithDir(v, d2)
  BY <1>4, <1>6, <1>7
<1>10. /\ u \in States /\ SameDisk(v, u) /\ u.dir = d2 /\ u.state_dir = "NEED_WASHING"
       /\ u.bitmap = v.bitmap /\ u.state_bitmap = v.state_bitmap /\ u.fd_pool = v.fd_pool
  BY <1>3, <1>8, <1>9, WithDirFacts
<1>11. Fresh(u, t, fd)
  BY <1>5, <1>10, InternalOpen
<1>12. /\ t \in States /\ SameMemory(u, t) /\ SameDisk(u, t)
       /\ \A h \in Fds : h # fd => t.fd_pool[h] = u.fd_pool[h]
       /\ t.fd_pool[fd].index = u.fd_pool[fd].index /\ t.fd_pool[fd].offset = 0
       /\ t.fd_pool[fd].opened = TRUE
       /\ t.fd_pool[fd].inode_state = "GARBAGE" /\ t.fd_pool[fd].buffer_state = "GARBAGE"
  BY <1>11 DEF Fresh
<1>13. /\ t.image = s.image /\ t.mode = "ok" /\ t.dir = d2 /\ t.bitmap = s.bitmap
       /\ t.state_dir = "NEED_WASHING" /\ t.state_bitmap = s.state_bitmap
  BY <1>1, <1>8, <1>10, <1>12 DEF SameMemory, SameDisk
<1>14. Clean(t)
  BY <1>1, <1>13 DEF Clean
<1>15. /\ \A h \in Fds : h # fd => t.fd_pool[h] = s.fd_pool[h]
       /\ t.fd_pool[fd].index = i
  BY <1>6, <1>8, <1>10, <1>12
<1>16. \A h \in open : s.fd_pool[h].index # i
  <2>1. Apart(s.dir, s.fd_pool, open)
    BY DEF Rests, Good
  <2>2. \A h \in open : Named(s.dir[s.fd_pool[h].index])
    BY <2>1, Zenon DEF Apart, Named
  <2> QED BY <2>2
<1>17. Opens(s, t, open, fd, i)
  BY <1>3, <1>12, <1>13, <1>14, <1>15, <1>16 DEF Opens
<1> QED BY <1>3, <1>13, <1>17

\* The call has failed, and the disk keeps the files laid out as they were.
Failed(s, open, fds0, L0) ==
  Halted(s) /\ s.image \in ImageType /\ Keeps(s.image.data, fds0, open, L0)

LEMMA PanicFails ==
  ASSUME NEW s, NEW open, NEW L, Rests(s, open, L), NEW t, t = Panic(s)
  PROVE  Failed(t, open, s.fd_pool, L) /\ t.mode = "panic" /\ t.image = s.image
<1>1. s \in States /\ s.mode = "ok" /\ s.image \in ImageType
  BY DEF Rests, States
<1>2. Keeps(s.image.data, s.fd_pool, open, L)
  BY KeepsAll DEF Rests
<1>3. /\ t.image = s.image /\ t.mode = "panic"
      /\ {"image", "mode"} \subseteq DOMAIN t
  BY <1>1, Zenon DEF Panic, States
<1> QED BY <1>1, <1>2, <1>3 DEF Failed, Halted

\* What fs_open comes to: a panic, an error, or a descriptor for a file that
\* is there, or for a new and empty one.
OpenedAs(s, t, open, name) ==
  \/ t = Panic(s)
  \/ Quiet(s, t, open)
  \/ \E fd, i : /\ Opens(s, t, open, fd, i) /\ t.dir[i].fileName = name
                /\ t.dir = s.dir \/ \A j \in Entries : s.dir[j].fileName # name

LEMMA ReturningEnds ==
  ASSUME NEW s, NEW open, NEW L, Rests(s, open, L), NEW r \in Int, NEW t, t = Returning(s, r)
  PROVE  Quiet(s, t, open)
<1>1. s \in States /\ s.mode = "ok"
  BY DEF Rests
<1>2. t \in States /\ SameMemory(s, t) /\ SameDisk(s, t) /\ t.fd_pool = s.fd_pool
  BY <1>1, ReturningFacts
<1> QED BY <1>1, <1>2 DEF SameDisk, Quiet

LEMMA FilesNamedFacts ==
  ASSUME NEW s, NEW name, FilesNamed(s, name) # {}
  PROVE  Min(FilesNamed(s, name)) \in Entries /\ s.dir[Min(FilesNamed(s, name))].fileName = name
<1>1. FilesNamed(s, name) \in SUBSET Nat
  BY DEF FilesNamed, Entries
<1>2. Min(FilesNamed(s, name)) \in FilesNamed(s, name)
  BY <1>1, MinIsLeast
<1> QED BY <1>2 DEF FilesNamed

LEMMA OpenEnds ==
  ASSUME NEW s, NEW open, NEW L, Rests(s, open, L), NEW name \in Names, NEW flags,
         ~(\E h \in open : s.dir[s.fd_pool[h].index].fileName = name),
         NEW t, t = fs_open(s, name, flags)
  PROVE  OpenedAs(s, t, open, name)
<1> DEFINE found == FilesNamed(s, name)
           slots == FilesNamed(s, "")
           free == FreeFds(s)
<1>0. /\ found # {} => Min(found) \in Entries /\ s.dir[Min(found)].fileName = name
      /\ slots # {} => Min(slots) \in Entries /\ s.dir[Min(slots)].fileName = ""
  BY FilesNamedFacts, Zenon
<1>1. PICK i, j, fd : i = Min(found) /\ j = Min(slots) /\ fd = Min(free)
  OBVIOUS
<1>2. found # {} => i \in Entries /\ s.dir[i].fileName = name
  BY <1>0, <1>1, Zenon
<1>3. slots # {} => j \in Entries /\ ~Named(s.dir[j])
  BY <1>0, <1>1, Zenon DEF Named
<1>4. free # {} => fd \in Fds /\ fd \notin open
  <2>1. free \in SUBSET Nat
    BY DEF FreeFds, Fds
  <2>2. free # {} => fd \in free
    BY <1>1, <2>1, MinIsLeast
  <2>3. open = {h \in Fds : s.fd_pool[h].opened}
    BY DEF Rests
  <2> QED BY <2>2, <2>3 DEF FreeFds
<1>5. found # {} /\ free # {} => t = OpenExisting(s, i, fd, flags)
  BY <1>1, Zenon DEF fs_open
<1>6. found = {} \/ free = {} =>
        \/ t = Returning(s, E_NOENT) \/ t = Returning(s, E_DQUOT) \/ t = Panic(s)
        \/ /\ found = {} /\ slots # {} /\ free # {}
           /\ t = CreateFile(s, j, fd, name, flags)
  <2>1. ASSUME found = {} \/ free = {}, "O_CREAT" \notin flags
        PROVE  t = Returning(s, E_NOENT)
    BY <2>1, Zenon DEF fs_open, Returning
  <2>2. ASSUME found = {} \/ free = {}, "O_CREAT" \in flags, slots = {}
        PROVE  t = Returning(s, E_DQUOT)
    BY <2>2, Zenon DEF fs_open, Returning
  <2>3. ASSUME found = {} \/ free = {}, "O_CREAT" \in flags, slots # {},
               (name = KERNEL) # (j = 0)
        PROVE  t = Panic(s)
    BY <1>1, <2>3, Zenon DEF fs_open
  <2>4. ASSUME found = {} \/ free = {}, "O_CREAT" \in flags, slots # {},
               (name = KERNEL) = (j = 0), free = {}
        PROVE  t = Returning(s, E_NOENT)
    BY <1>1, <2>4, Zenon DEF fs_open, Returning
  <2>5. ASSUME found = {} \/ free = {}, "O_CREAT" \in flags, slots # {},
               (name = KERNEL) = (j = 0), free # {}
        PROVE  t = CreateFile(s, j, fd, name, flags)
    BY <1>1, <2>5, Zenon DEF fs_open
  <2> HIDE DEF found, slots, free
  <2> QED BY <2>1, <2>2, <2>3, <2>4, <2>5
<1> HIDE DEF found, slots, free
<1>7. CASE found # {} /\ free # {}
  <2>1. Named(s.dir[i])
    <3>1. name # ""
      BY FileSysAssumption, Zenon
    <3> QED BY <1>2, <1>7, <3>1, Zenon DEF Named
  <2>2. \A h \in open : s.fd_pool[h].index # i
    BY <1>2, <1>7
  <2>3. Quiet(s, t, open) \/ (Opens(s, t, open, fd, i) /\ t.dir = s.dir)
    BY <1>2, <1>4, <1>5, <1>7, <2>1, <2>2, OpenOld
  <2>4. CASE Quiet(s, t, open)
    BY <2>4 DEF OpenedAs
  <2>5. CASE Opens(s, t, open, fd, i) /\ t.dir = s.dir
    <3>1. t.dir[i].fileName = name
      BY <1>2, <1>7, <2>5
    <3> QED BY <2>5, <3>1 DEF OpenedAs
  <2> QED BY <2>3, <2>4, <2>5
<1>8. CASE t = Returning(s, E_NOENT) \/ t = Returning(s, E_DQUOT)
  <2>1. E_NOENT \in Int /\ E_DQUOT \in Int
    BY DEF E_NOENT, E_DQUOT
  <2>2. Quiet(s, t, open)
    BY <1>8, <2>1, ReturningEnds
  <2> QED BY <2>2 DEF OpenedAs
<1>9. CASE t = Panic(s)
  BY <1>9 DEF OpenedAs
<1>10. CASE /\ found = {} /\ slots # {} /\ free # {}
            /\ t = CreateFile(s, j, fd, name, flags)
  <2>1. Opens(s, t, open, fd, j) /\ t.dir[j].fileName = name
    BY <1>3, <1>4, <1>10, OpenNew
  <2>2. \A e \in Entries : s.dir[e].fileName # name
    BY <1>10, Zenon DEF found, FilesNamed
  <2> QED BY <2>1, <2>2 DEF OpenedAs
<1> QED BY <1>6, <1>7, <1>8, <1>9, <1>10

(* What programs write are values.                                         *)
LEMMA CellValues ==
  ASSUME NEW i \in Entries, NEW p \in Nat, p < MaxFileSize, NEW new
  PROVE  CellValue(i, p, new) \in Values
<1>1. MaxFileSize \in Nat /\ ENTRY_COUNT \in Nat \ {0}
  BY FileSysAssumption
<1>2. i \in Nat /\ i + 1 <= ENTRY_COUNT
  BY <1>1 DEF Entries
<1>3. PICK w \in {1, 2} : CellValue(i, p, new) = 2 * (i * MaxFileSize + p) + w
  BY DEF CellValue
<1>4. \A x, y, m \in Nat : x + 1 <= y => x * m \in Nat /\ y * m \in Nat /\ x * m + m <= y * m
  OBVIOUS
<1>5. PICK a \in Nat, b \in Nat : /\ a = i * MaxFileSize /\ b = ENTRY_COUNT * MaxFileSize
                                  /\ a + MaxFileSize <= b
  BY <1>1, <1>2, <1>4
<1>6. 2 * ENTRY_COUNT * MaxFileSize = 2 * b
  BY <1>1, <1>5
<1>7. 2 * (a + p) + w \in 1 .. 2 * b
  BY <1>1, <1>5
<1> QED BY <1>3, <1>5, <1>6, <1>7 DEF Values

LEMMA DataIsSeq ==
  ASSUME NEW fd \in Fds, fd_pool \in [Fds -> FdType], NEW data \in Data(fd), Room(fd, data)
  PROVE  data \in Seq(Values) /\ fd_pool[fd].offset + Len(data) <= MaxFileSize
<1> DEFINE i == fd_pool[fd].index
           p == fd_pool[fd].offset
<1>1. i \in Entries /\ p \in Nat
  BY DEF FdType
<1>2. PICK n \in WriteLens :
        data = [k \in 1..n |-> CellValue(i, p+k-1, p+k > dir[i].fileSize)]
  BY DEF Data
<1>3. n \in Nat
  BY FileSysAssumption
<1>4. Len(data) = n /\ p + n <= MaxFileSize
  <2>1. Len(data) = n
    BY <1>2, <1>3
  <2> QED BY <2>1 DEF Room
<1>5. MaxFileSize \in Nat
  BY FileSysAssumption
<1>6. ASSUME NEW k \in 1 .. n PROVE data[k] \in Values
  <2>1. p + k - 1 \in Nat /\ p + k - 1 < MaxFileSize
    BY <1>1, <1>3, <1>4, <1>5
  <2>2. data[k] = CellValue(i, p + k - 1, p + k > dir[i].fileSize)
    BY <1>2
  <2> HIDE DEF i, p
  <2> QED BY <1>1, <2>1, <2>2, CellValues
<1>7. data \in [1 .. n -> Values]
  BY <1>2, <1>6
<1> QED BY <1>3, <1>4, <1>7, AsSeq

(* The inductive invariant.  While a program runs, the files are laid out  *)
(* in some way that fits the disk under what the descriptors hold, and each *)
(* descriptor holds the inode and the block its position lies in; after a  *)
(* panic or an overrun the layout of before the call is still there.       *)
FSInv ==
  /\ FSTypeOK /\ image \in ImageType /\ image_mode = "O_RDWR"
  /\ \E L : Mapped(L)
  /\ mode = "ok" => \E L : Rests(Here, OpenFds, L)

LEMMA HereFacts ==
  /\ Here.image = image /\ Here.dir = dir /\ Here.bitmap = bitmap
  /\ Here.state_dir = state_dir /\ Here.state_bitmap = state_bitmap
  /\ Here.fd_pool = fd_pool /\ Here.mode = mode
BY DEF Here

LEMMA RestsMapped ==
  ASSUME NEW L, Rests(Here, OpenFds, L)
  PROVE  Mapped(L)
<1>1. Good(image.data, dir, bitmap, fd_pool, OpenFds, L) /\ Sized(dir, L)
  BY HereFacts DEF Rests
<1>2. Keeps(image.data, fd_pool, OpenFds, L)
  BY <1>1, KeepsAll
<1> QED BY <1>1, <1>2 DEF Good, Mapped

(* The end of a call.                                                      *)
LEMMA FailedReturns ==
  ASSUME FSInv, NEW L, Mapped(L), NEW t, Failed(t, OpenFds, fd_pool, L), Return(t),
         wants' \in [Fds -> OpenFlags], DOMAIN io' = 1 .. Len(io')
  PROVE  FSInv'
<1>1. t.mode \in {"panic", "overrun"} /\ t.image \in ImageType /\ Keeps(t.image.data, fd_pool, OpenFds, L)
  BY DEF Failed, Halted
<1>2. t.mode # "ok"
  BY <1>1
<1>3. /\ image' = t.image /\ mode' = t.mode /\ image_mode' = image_mode
      /\ dir' = dir /\ bitmap' = bitmap /\ state_dir' = state_dir
      /\ state_bitmap' = state_bitmap /\ fd_pool' = fd_pool
  BY <1>2 DEF Return
<1>4. image' \in ImageType /\ image_mode' = "O_RDWR"
  BY <1>1, <1>3 DEF FSInv
<1>5. FSTypeOK'
  BY <1>1, <1>3, <1>4 DEF FSInv, FSTypeOK, ImageType
<1>6. Mapped(L)'
  <2>1. OpenFds' = OpenFds
    BY <1>3 DEF OpenFds
  <2> QED BY <1>1, <1>3, <2>1 DEF Mapped
<1>7. mode' # "ok"
  BY <1>2, <1>3
<1> QED BY <1>4, <1>5, <1>6, <1>7 DEF FSInv

LEMMA RestsReturns ==
  ASSUME FSInv, NEW G, NEW open2, NEW t, Rests(t, open2, G), Return(t),
         wants' \in [Fds -> OpenFlags], DOMAIN io' = 1 .. Len(io')
  PROVE  /\ FSInv' /\ Rests(Here', OpenFds', G) /\ OpenFds' = open2
         /\ image' = t.image /\ dir' = t.dir /\ fd_pool' = t.fd_pool /\ mode' = "ok"
<1>1. t \in States /\ t.mode = "ok" /\ open2 = {h \in Fds : t.fd_pool[h].opened}
  BY DEF Rests
<1>2. /\ image' = t.image /\ mode' = "ok" /\ image_mode' = "O_RDWR"
      /\ dir' = t.dir /\ bitmap' = t.bitmap /\ state_dir' = t.state_dir
      /\ state_bitmap' = t.state_bitmap /\ fd_pool' = t.fd_pool
  BY <1>1 DEF Return, FSInv
<1>3. /\ image' \in ImageType /\ dir' \in DirType /\ bitmap' \in SUBSET Blocks
      /\ state_dir' \in Cleanliness /\ state_bitmap' \in Cleanliness
      /\ fd_pool' \in [Fds -> FdType]
  BY <1>1, <1>2 DEF States
<1>4. Here' \in States
  <2>1. mode' \in {"ok", "panic", "overrun"}
    BY <1>2
  <2> QED BY <1>2, <1>3, <2>1 DEF Here, States
<1>5. /\ Here'.image = image' /\ Here'.dir = dir' /\ Here'.bitmap = bitmap'
      /\ Here'.state_dir = state_dir' /\ Here'.state_bitmap = state_bitmap'
      /\ Here'.fd_pool = fd_pool' /\ Here'.mode = mode'
  BY DEF Here
<1>6. OpenFds' = open2
  BY <1>1, <1>2 DEF OpenFds
<1>7. Rests(Here', OpenFds', G)
  <2>1. PICK u : u = Here'
    OBVIOUS
  <2>2. Quiet(t, u, open2)
    <3>1. /\ u \in States /\ u.mode = "ok" /\ u.image = t.image /\ SameMemory(t, u)
          /\ u.fd_pool = t.fd_pool
      BY <1>2, <1>4, <1>5, <2>1 DEF SameMemory
    <3> QED BY <3>1 DEF Quiet
  <2>3. Rests(u, open2, G)
    BY <2>2, RestsSame
  <2> QED BY <1>6, <2>1, <2>3
<1>8. Mapped(G)'
  <2>1. /\ Good(image'.data, dir', bitmap', fd_pool', OpenFds', G)
        /\ Sized(dir', G)
    BY <1>5, <1>7 DEF Rests
  <2>2. Keeps(image'.data, fd_pool', OpenFds', G)
    BY <2>1, KeepsAll
  <2> QED BY <2>1, <2>2 DEF Good, Mapped
<1>9. FSTypeOK'
  BY <1>2, <1>3 DEF FSTypeOK, ImageType, Cleanliness
<1> QED BY <1>2, <1>3, <1>6, <1>7, <1>8, <1>9 DEF FSInv

-----------------------------------------------------------------------------
(* The calls.                                                              *)

\* The only seeks are back to the start and to where the descriptor is; the
\* others keep a buffer and an inode of the old position (fs.c:222).
OnlyRewinds == \A offset \in Offsets, whence \in Whences :
                 whence = "SEEK_SET" \/ (whence = "SEEK_CUR" /\ offset = 0)

LEMMA InvFacts ==
  ASSUME FSInv, mode = "ok"
  PROVE  /\ fd_pool \in [Fds -> FdType] /\ wants \in [Fds -> OpenFlags]
         /\ \E L : Rests(Here, OpenFds, L) /\ Mapped(L) /\ Works(Here, OpenFds, L, fd_pool, L)
<1>1. PICK L : Rests(Here, OpenFds, L)
  BY DEF FSInv
<1>2. Mapped(L) /\ Works(Here, OpenFds, L, fd_pool, L)
  BY <1>1, RestsMapped, RestsWorks, HereFacts
<1> QED BY <1>1, <1>2 DEF FSInv, FSTypeOK

(* A call that opens and closes nothing.                                   *)
LEMMA WorkedReturns ==
  ASSUME FSInv, NEW L, Mapped(L), NEW fd \in OpenFds,
         NEW t, Worked(Here, t, OpenFds, fd_pool, L), Return(t),
         wants' \in [Fds -> OpenFlags], DOMAIN io' = 1 .. Len(io')
  PROVE  FSInv'
<1>1. CASE Lost(t, OpenFds, fd_pool, L)
  BY <1>1, FailedReturns DEF Lost, Failed
<1>2. ASSUME NEW G, Works(t, OpenFds, G, fd_pool, L), SameOpen(Here, t)
      PROVE  FSInv'
  <2>1. OpenFds = {h \in Fds : t.fd_pool[h].opened}
    BY <1>2, HereFacts DEF SameOpen, OpenFds
  <2>2. Rests(t, OpenFds, G)
    <3>1. OpenFds # {}
      OBVIOUS
    <3> QED BY <1>2, <2>1, <3>1, WorksRests
  <2> QED BY <2>2, RestsReturns
<1> QED BY <1>1, <1>2 DEF Worked

LEMMA OpenInv ==
  ASSUME FSInv, NEW name \in Names, NEW flags \in OpenFlags, Open(name, flags)
  PROVE  FSInv'
<1>1. mode = "ok" /\ ~IsOpen(name) /\ io' = << >>
  BY DEF Open
<1>2. PICK L : Rests(Here, OpenFds, L) /\ Mapped(L)
  BY <1>1, InvFacts
<1>3. PICK t : t = fs_open(Here, name, flags)
  OBVIOUS
<1>4. Return(t)
  BY <1>3 DEF Open
<1>5. ~(\E h \in OpenFds : Here.dir[Here.fd_pool[h].index].fileName = name)
  BY <1>1, HereFacts DEF IsOpen
<1>6. OpenedAs(Here, t, OpenFds, name)
  BY <1>2, <1>3, <1>5, OpenEnds
<1>7. wants' \in [Fds -> OpenFlags]
  <2>1. wants \in [Fds -> OpenFlags]
    BY <1>1, InvFacts
  <2>2. wants' = [wants EXCEPT ![t.ret] = flags] \/ wants' = wants
    BY <1>3 DEF Open
  <2> QED BY <2>1, <2>2
<1>8. DOMAIN io' = 1 .. Len(io')
  BY <1>1
<1>9. CASE t = Panic(Here)
  <2>1. Failed(t, OpenFds, fd_pool, L)
    BY <1>2, <1>9, PanicFails, HereFacts
  <2> QED BY <1>2, <1>4, <1>7, <1>8, <2>1, FailedReturns
<1>10. CASE Quiet(Here, t, OpenFds)
  <2>1. Rests(t, OpenFds, L)
    BY <1>2, <1>10, RestsSame
  <2> QED BY <1>4, <1>7, <1>8, <2>1, RestsReturns
<1>11. ASSUME NEW fd, NEW i, Opens(Here, t, OpenFds, fd, i) PROVE FSInv'
  <2>1. Rests(t, OpenFds \cup {fd}, L)
    BY <1>2, <1>11, OpenRests
  <2> QED BY <1>4, <1>7, <1>8, <2>1, RestsReturns
<1>12. t = Panic(Here) \/ Quiet(Here, t, OpenFds) \/ \E fd, i : Opens(Here, t, OpenFds, fd, i)
  BY <1>6, Zenon DEF OpenedAs
<1> QED BY <1>9, <1>10, <1>11, <1>12

LEMMA WriteInv ==
  ASSUME FSInv, NEW fd \in Fds, NEW data \in Data(fd), Write(fd, data)
  PROVE  FSInv'
<1>1. mode = "ok" /\ fd \in OpenFds /\ Room(fd, data) /\ wants' = wants
  BY DEF Write
<1>2. PICK L : /\ Rests(Here, OpenFds, L) /\ Mapped(L)
               /\ Works(Here, OpenFds, L, fd_pool, L)
  BY <1>1, InvFacts
<1>3. fd_pool \in [Fds -> FdType] /\ wants' \in [Fds -> OpenFlags]
  BY <1>1, InvFacts
<1>4. data \in Seq(Values) /\ fd_pool[fd].offset + Len(data) <= MaxFileSize
  BY <1>1, <1>3, DataIsSeq
<1>5. PICK t : t = fs_write(Here, fd, data)
  OBVIOUS
<1>6. Return(t) /\ (io' = data \/ io' = << >>)
  BY <1>5 DEF Write
<1>7. DOMAIN io' = 1 .. Len(io')
  BY <1>4, <1>6
<1>8. ASSUME Here.fd_pool[fd].writable PROVE FSInv'
  <2>1. Here.fd_pool[fd].offset + Len(data) <= MaxFileSize
    BY <1>4, HereFacts
  <2>2. Worked(Here, t, OpenFds, fd_pool, L)
    <3>1. \/ Lost(t, OpenFds, fd_pool, L)
          \/ \E G : Works(t, OpenFds, G, fd_pool, L) /\ SameOpen(Here, t)
      BY <1>1, <1>2, <1>4, <1>5, <1>8, <2>1, WriteWorks
    <3> QED BY <3>1 DEF Worked
  <2> QED BY <1>1, <1>2, <1>3, <1>6, <1>7, <2>2, WorkedReturns
<1>9. ASSUME ~Here.fd_pool[fd].writable PROVE FSInv'
  <2>1. t = Panic(Here)
    BY <1>5, <1>9, Zenon DEF fs_write
  <2>2. Failed(t, OpenFds, fd_pool, L)
    BY <1>2, <2>1, PanicFails, HereFacts
  <2> QED BY <1>2, <1>3, <1>6, <1>7, <2>2, FailedReturns
<1> QED BY <1>8, <1>9, Zenon

LEMMA ReadInv ==
  ASSUME FSInv, NEW fd \in Fds, NEW len \in ReadLens, Read(fd, len)
  PROVE  FSInv'
<1>1. mode = "ok" /\ fd \in OpenFds /\ wants' = wants
  BY DEF Read
<1>2. PICK L : Mapped(L) /\ Works(Here, OpenFds, L, fd_pool, L)
  BY <1>1, InvFacts
<1>3. wants' \in [Fds -> OpenFlags]
  BY <1>1, InvFacts
<1>4. PICK r : r = fs_read(Here, fd, len)
  OBVIOUS
<1>5. len \in Nat \ {0}
  BY FileSysAssumption
<1>6. /\ Worked(Here, r.s, OpenFds, fd_pool, L)
      /\ Lost(r.s, OpenFds, fd_pool, L) \/ r.buf \in Seq(Values \cup {0})
  <2>1. PICK n : n = Min({len, Here.dir[Here.fd_pool[fd].index].fileSize - Here.fd_pool[fd].offset})
    OBVIOUS
  <2>2. \/ Lost(r.s, OpenFds, fd_pool, L)
        \/ \E G : Works(r.s, OpenFds, G, fd_pool, L) /\ SameOpen(Here, r.s)
                  /\ HasRead(Here, r, OpenFds, L, G, fd, n)
    BY <1>1, <1>2, <1>4, <1>5, <2>1, ReadWorks
  <2> QED BY <2>2 DEF Worked, HasRead
<1>7. Return(r.s) /\ io' = IF mode' = "ok" THEN r.buf ELSE << >>
  BY <1>4 DEF Read
<1>8. mode' = r.s.mode
  BY <1>7 DEF Return
<1>9. DOMAIN io' = 1 .. Len(io')
  <2>1. CASE Lost(r.s, OpenFds, fd_pool, L)
    <3>1. mode' # "ok"
      BY <1>8, <2>1 DEF Lost, Halted
    <3> QED BY <1>7, <3>1
  <2>2. CASE r.buf \in Seq(Values \cup {0})
    BY <1>7, <2>2
  <2> QED BY <1>6, <2>1, <2>2
<1>10. PICK t : t = r.s
  OBVIOUS
<1>11. Worked(Here, t, OpenFds, fd_pool, L) /\ Return(t)
  BY <1>6, <1>7, <1>10
<1> QED BY <1>1, <1>2, <1>3, <1>9, <1>11, WorkedReturns

LEMMA SeekInv ==
  ASSUME FSInv, OnlyRewinds, NEW fd \in Fds, NEW offset \in Offsets, NEW whence \in Whences,
         Seek(fd, offset, whence)
  PROVE  FSInv'
<1>1. mode = "ok" /\ fd \in OpenFds /\ wants' = wants /\ io' = << >>
  BY DEF Seek
<1>2. PICK L : Mapped(L) /\ Works(Here, OpenFds, L, fd_pool, L)
  BY <1>1, InvFacts
<1>3. wants' \in [Fds -> OpenFlags] /\ DOMAIN io' = 1 .. Len(io')
  BY <1>1, InvFacts
<1>4. PICK t : t = fs_lseek(Here, fd, offset, whence)
  OBVIOUS
<1>5. Return(t)
  BY <1>4 DEF Seek
<1>6. Works(t, OpenFds, L, fd_pool, L) /\ SameOpen(Here, t)
  <2>1. CASE whence = "SEEK_SET"
    BY <1>1, <1>2, <1>4, <2>1, SeekSetWorks
  <2>2. CASE whence = "SEEK_CUR" /\ offset = 0
    BY <1>1, <1>2, <1>4, <2>2, SeekCurWorks
  <2> QED BY <2>1, <2>2 DEF OnlyRewinds
<1>7. Worked(Here, t, OpenFds, fd_pool, L)
  BY <1>6 DEF Worked
<1> QED BY <1>1, <1>2, <1>3, <1>5, <1>7, WorkedReturns

LEMMA CloseInv ==
  ASSUME FSInv, NEW fd \in Fds, Close(fd)
  PROVE  FSInv'
<1>1. /\ mode = "ok" /\ fd \in OpenFds /\ io' = << >>
      /\ wants' = [wants EXCEPT ![fd] = {}]
  BY DEF Close
<1>2. PICK L : Rests(Here, OpenFds, L)
  BY <1>1, InvFacts
<1>3. wants' \in [Fds -> OpenFlags] /\ DOMAIN io' = 1 .. Len(io')
  BY <1>1, InvFacts DEF OpenFlags
<1>4. PICK t : t = fs_close(Here, fd)
  OBVIOUS
<1>5. Return(t)
  BY <1>4 DEF Close
<1>6. Rests(t, OpenFds \ {fd}, L)
  BY <1>1, <1>2, <1>4, CloseRests
<1> QED BY <1>3, <1>5, <1>6, RestsReturns

(* A program starts with an empty pool.                                    *)
LEMMA ZeroFacts ==
  /\ ZeroInode \in Inode /\ ZeroBlock \in DataSector /\ ZeroFd \in FdType
  /\ [fd \in Fds |-> ZeroFd] \in [Fds -> FdType]
  /\ \A fd \in Fds : [g \in Fds |-> ZeroFd][fd].opened = FALSE
<1>1. 0 \in Blocks
  BY BlockFacts
<1>2. ZeroInode \in Inode
  BY <1>1 DEF ZeroInode, Inode
<1>3. ZeroBlock \in DataSector
  BY DEF ZeroBlock, DataSector
<1>4. 0 \in Entries
  <2>1. ENTRY_COUNT \in Nat /\ ENTRY_COUNT # 0
    BY FileSysAssumption
  <2> QED BY <2>1 DEF Entries
<1>5. ZeroFd \in FdType /\ ZeroFd.opened = FALSE
  BY <1>1, <1>2, <1>3, <1>4 DEF ZeroFd, FdType
<1>6. ASSUME NEW f, f = [fd \in Fds |-> ZeroFd]
      PROVE  f \in [Fds -> FdType] /\ \A fd \in Fds : f[fd].opened = FALSE
  BY <1>5, <1>6
<1> QED BY <1>2, <1>3, <1>5, <1>6

LEMMA NextProgramStarts ==
  ASSUME FSInv, NextProgram
  PROVE  /\ mode = "ok" /\ io' = << >>
         /\ wants' \in [Fds -> OpenFlags] /\ DOMAIN io' = 1 .. Len(io')
         /\ \E t : Quiet(Here, t, OpenFds) /\ Return(t)
<1>1. /\ mode = "ok" /\ OpenFds = {} /\ io' = << >> /\ image_mode' = image_mode
      /\ image' = image /\ dir' = image.dir /\ bitmap' = image.bitmap
      /\ state_dir' = "USEFUL" /\ state_bitmap' = "USEFUL" /\ mode' = "ok"
      /\ fd_pool' = [fd \in Fds |-> ZeroFd] /\ wants' = [fd \in Fds |-> {}]
  BY DEF NextProgram, fs_init
<1>2. PICK L : Rests(Here, OpenFds, L)
  BY <1>1, InvFacts
<1>3. Here \in States /\ Clean(Here) /\ state_dir = "USEFUL" /\ state_bitmap = "USEFUL"
  BY <1>1, <1>2, HereFacts DEF Rests
<1>4. image.dir = dir /\ image.bitmap = bitmap
  BY <1>3, HereFacts DEF Clean
<1>5. PICK u : u = Here'
  OBVIOUS
<1>6. /\ u.image = image' /\ u.dir = dir' /\ u.bitmap = bitmap'
      /\ u.state_dir = state_dir' /\ u.state_bitmap = state_bitmap'
      /\ u.fd_pool = fd_pool' /\ u.mode = mode'
  BY <1>5 DEF Here
<1>7. u \in States
  <2>1. /\ image \in ImageType /\ image_mode = "O_RDWR" /\ dir \in DirType
        /\ bitmap \in SUBSET Blocks
    BY <1>3, HereFacts DEF FSInv, States
  <2>2. fd_pool' \in [Fds -> FdType]
    BY <1>1, ZeroFacts
  <2>3. /\ image' \in ImageType /\ image_mode' = "O_RDWR" /\ dir' \in DirType
        /\ bitmap' \in SUBSET Blocks /\ mode' \in {"ok", "panic", "overrun"}
        /\ state_dir' \in Cleanliness /\ state_bitmap' \in Cleanliness
    BY <1>1, <1>4, <2>1 DEF Cleanliness
  <2> QED BY <1>5, <2>2, <2>3 DEF Here, States
<1>8. u.mode = "ok" /\ u.image = Here.image /\ SameMemory(Here, u)
  BY <1>1, <1>3, <1>4, <1>6, HereFacts DEF SameMemory
<1>9. \A h \in Fds : u.fd_pool[h].opened = Here.fd_pool[h].opened
  <2>1. \A h \in Fds : u.fd_pool[h].opened = FALSE
    BY <1>1, <1>6, ZeroFacts
  <2>2. ASSUME NEW h \in Fds PROVE Here.fd_pool[h].opened = FALSE
    <3>1. fd_pool[h].opened \in BOOLEAN
      BY <1>1, InvFacts DEF FdType
    <3>2. ~fd_pool[h].opened
      BY <1>1 DEF OpenFds
    <3> QED BY <3>1, <3>2, HereFacts
  <2> QED BY <2>1, <2>2
<1>10. Quiet(Here, u, OpenFds)
  <2>1. \A h \in OpenFds : u.fd_pool[h] = Here.fd_pool[h]
    BY <1>1
  <2> QED BY <1>7, <1>8, <1>9, <2>1 DEF Quiet
<1>11. Return(u)
  BY <1>1, <1>6 DEF Return
<1>12. wants' \in [Fds -> OpenFlags] /\ DOMAIN io' = 1 .. Len(io')
  BY <1>1 DEF OpenFlags
<1> QED BY <1>1, <1>10, <1>11, <1>12

LEMMA NextProgramInv ==
  ASSUME FSInv, NextProgram
  PROVE  FSInv'
<1>1. /\ mode = "ok" /\ wants' \in [Fds -> OpenFlags] /\ DOMAIN io' = 1 .. Len(io')
      /\ \E t : Quiet(Here, t, OpenFds) /\ Return(t)
  BY NextProgramStarts
<1>2. PICK t : Quiet(Here, t, OpenFds) /\ Return(t)
  BY <1>1
<1>3. PICK L : Rests(Here, OpenFds, L)
  BY <1>1, InvFacts
<1>4. Rests(t, OpenFds, L)
  BY <1>2, <1>3, RestsSame
<1> QED BY <1>1, <1>2, <1>4, RestsReturns

LEMMA StutterInv ==
  ASSUME FSInv, UNCHANGED fsVars
  PROVE  FSInv'
<1>1. PICK t : t = Here
  OBVIOUS
<1>2. /\ image' = image /\ image_mode' = image_mode /\ dir' = dir /\ bitmap' = bitmap
      /\ state_dir' = state_dir /\ state_bitmap' = state_bitmap /\ fd_pool' = fd_pool
      /\ wants' = wants /\ io' = io /\ mode' = mode
  BY DEF fsVars
<1>3. Return(t)
  BY <1>1, <1>2, HereFacts DEF Return
<1>4. wants' \in [Fds -> OpenFlags] /\ DOMAIN io' = 1 .. Len(io')
  BY <1>2 DEF FSInv, FSTypeOK
<1>5. CASE mode = "ok"
  <2>1. PICK L : Rests(t, OpenFds, L)
    BY <1>1, <1>5, InvFacts
  <2> QED BY <1>3, <1>4, <2>1, RestsReturns
<1>6. CASE mode # "ok"
  <2>1. PICK L : Mapped(L)
    BY DEF FSInv
  <2>2. Failed(t, OpenFds, fd_pool, L)
    <3>1. Halted(t)
      BY <1>1, <1>6 DEF FSInv, FSTypeOK, Halted, Here
    <3>2. t.image \in ImageType /\ Keeps(t.image.data, fd_pool, OpenFds, L)
      BY <1>1, <2>1, HereFacts DEF FSInv, Mapped
    <3> QED BY <3>1, <3>2 DEF Failed
  <2> QED BY <1>3, <1>4, <2>1, <2>2, FailedReturns
<1> QED BY <1>5, <1>6

LEMMA StepInv ==
  ASSUME FSInv, OnlyRewinds, [FSNext]_fsVars
  PROVE  FSInv'
<1>1. ASSUME NEW name \in Names, NEW flags \in OpenFlags, Open(name, flags) PROVE FSInv'
  BY <1>1, OpenInv
<1>2. ASSUME NEW fd \in Fds, NEW data \in Data(fd), Write(fd, data) PROVE FSInv'
  BY <1>2, WriteInv
<1>3. ASSUME NEW fd \in Fds, NEW len \in ReadLens, Read(fd, len) PROVE FSInv'
  BY <1>3, ReadInv
<1>4. ASSUME NEW fd \in Fds, NEW offset \in Offsets, NEW whence \in Whences,
             Seek(fd, offset, whence)
      PROVE  FSInv'
  BY <1>4, SeekInv
<1>5. ASSUME NEW fd \in Fds, Close(fd) PROVE FSInv'
  BY <1>5, CloseInv
<1>6. CASE NextProgram
  BY <1>6, NextProgramInv
<1>7. CASE Stopped \/ UNCHANGED fsVars
  BY <1>7, StutterInv DEF Stopped
<1> QED BY <1>1, <1>2, <1>3, <1>4, <1>5, <1>6, <1>7 DEF FSNext

(* On the formatted disk no file has a block.                              *)
LEMMA FormattedFacts ==
  /\ Formatted \in ImageType /\ Formatted.bitmap = {}
  /\ \A e \in Entries : ~Named(Formatted.dir[e]) /\ Formatted.dir[e].fileSize = 0
  /\ \A b \in Blocks : Formatted.data[b] \in DataSector
<1>1. PICK z : z = NoFile
  OBVIOUS
<1>2. ~Named(z)
  BY <1>1, Zenon DEF Named, NoFile
<1>3. z.fileSize = 0
  BY <1>1, Zenon DEF NoFile
<1>4. PICK N, S, B : N = Names \cup {""} /\ S = 0 .. MaxFileSize /\ B = Blocks \cup {NotAllocated}
  OBVIOUS
<1>5. DirType = [Entries -> [fileName : N, fileSize : S, inodeOffset : B]]
  BY <1>4, Zenon DEF DirType
<1>6. z \in [fileName : N, fileSize : S, inodeOffset : B]
  <2>1. PICK n : n = ""
    OBVIOUS
  <2>2. n \in N
    BY <1>4, <2>1, Zenon
  <2>3. 0 \in S
    <3>1. MaxFileSize \in Nat
      BY FileSysAssumption
    <3>2. 0 \in 0 .. MaxFileSize
      BY <3>1
    <3> QED BY <1>4, <3>2, Zenon
  <2>4. 0 \in B
    <3>1. 0 \in Blocks
      BY BlockFacts
    <3> QED BY <1>4, <3>1, Zenon
  <2>5. z = [fileName |-> n, fileSize |-> 0, inodeOffset |-> 0]
    BY <1>1, <2>1, Zenon DEF NoFile
  <2> QED BY <2>2, <2>3, <2>4, <2>5
<1>7. PICK d : d = [e \in Entries |-> z]
  OBVIOUS
<1>8. d \in DirType /\ \A e \in Entries : d[e] = z
  <2>1. PICK E : E = [fileName : N, fileSize : S, inodeOffset : B]
    OBVIOUS
  <2>2. d \in [Entries -> E] /\ \A e \in Entries : d[e] = z
    BY <1>6, <1>7, <2>1
  <2> QED BY <1>5, <2>1, <2>2, Zenon
<1>9. PICK x : x = [b \in Blocks |-> ZeroBlock]
  OBVIOUS
<1>10. x \in [Blocks -> Inode \cup DataSector] /\ \A b \in Blocks : x[b] \in DataSector
  BY <1>9, ZeroFacts
<1>11. Formatted = [dir |-> d, bitmap |-> {}, data |-> x]
  BY <1>1, <1>7, <1>9, Zenon DEF Formatted
<1>12. Formatted \in ImageType /\ Formatted.bitmap = {} /\ Formatted.dir = d /\ Formatted.data = x
  BY <1>8, <1>10, <1>11 DEF ImageType
<1> QED BY <1>2, <1>3, <1>8, <1>10, <1>12

LEMMA EmptyLayout ==
  ASSUME NEW data, \A b \in Blocks : data[b] \in DataSector,
         NEW d, \A e \in Entries : ~Named(d[e]) /\ d[e].fileSize = 0, NEW fds
  PROVE  \E L : Good(data, d, {}, fds, {}, L) /\ Sized(d, L)
<1> DEFINE zero == [i \in Entries |-> 0]
           zeros == [i \in Entries |-> [k \in Nat |-> 0]]
<1>1. PICK L : L = [ino |-> zeros, ni |-> zero, blk |-> zeros, nb |-> zero]
  OBVIOUS
<1>2. L \in Layouts
  <2>1. zeros \in [Entries -> [Nat -> Blocks]]
    BY BlockFacts
  <2>2. zero \in [Entries -> Nat]
    OBVIOUS
  <2> HIDE DEF zero, zeros
  <2> QED BY <1>1, <2>1, <2>2 DEF Layouts
<1>3. \A i \in Entries : ni(L, i) = 0 /\ nb(L, i) = 0
  BY <1>1 DEF ni, nb
<1> HIDE DEF zero, zeros
<1>4. Placed(L)
  BY <1>2, <1>3 DEF Placed
<1>5. Bits({}, L)
  BY <1>3 DEF Bits
<1>6. Heads(d, L)
  <2>1. Slot(0, 0) = 0
    BY Sizes DEF Slot
  <2>2. \A i \in Entries : ~(ni(L, i) > 0) /\ nb(L, i) <= Slot(ni(L, i), 0)
    BY <1>3, <2>1
  <2>3. \A i \in Entries : ~HasBlocks(d[i])
    BY Zenon DEF HasBlocks, Named
  <2> QED BY <2>2, <2>3, Zenon DEF Heads
<1>7. Apart(d, fds, {})
  BY Zenon DEF Apart
<1>8. Written(data, fds, {}, L)
  BY <1>3 DEF Written
<1>9. Sized(d, L)
  BY <1>3, Sizes, RoundedUp DEF Sized
<1> QED BY <1>4, <1>5, <1>6, <1>7, <1>8, <1>9 DEF Good

LEMMA InitInv ==
  ASSUME FSInit
  PROVE  FSInv
<1>1. /\ image = Formatted /\ image_mode = "O_RDWR"
      /\ dir = Formatted.dir /\ bitmap = Formatted.bitmap
      /\ state_dir = "USEFUL" /\ state_bitmap = "USEFUL"
      /\ fd_pool = [fd \in Fds |-> ZeroFd]
      /\ wants = [fd \in Fds |-> {}]
      /\ io = << >> /\ mode = "ok"
  BY DEF FSInit
<1>2. /\ image \in ImageType /\ bitmap = {}
      /\ \A e \in Entries : ~Named(dir[e]) /\ dir[e].fileSize = 0
      /\ \A b \in Blocks : image.data[b] \in DataSector
  BY <1>1, FormattedFacts
<1>3. PICK L : Good(image.data, dir, {}, fd_pool, {}, L) /\ Sized(dir, L)
  BY <1>2, EmptyLayout
<1>4. dir \in DirType /\ bitmap \in SUBSET Blocks /\ fd_pool \in [Fds -> FdType] /\ image.dir = dir
      /\ image.bitmap = bitmap
  BY <1>1, <1>2, ZeroFacts DEF ImageType
<1>5. OpenFds = {}
  BY <1>1, ZeroFacts DEF OpenFds
<1>6. PICK u : u = Here
  OBVIOUS
<1>7. /\ u.image = image /\ u.dir = dir /\ u.bitmap = bitmap /\ u.state_dir = state_dir
      /\ u.state_bitmap = state_bitmap /\ u.fd_pool = fd_pool /\ u.mode = mode
  BY <1>6, HereFacts
<1>8. u \in States
  BY <1>1, <1>2, <1>4, <1>6 DEF Here, States, Cleanliness
<1>9. Clean(u)
  BY <1>4, <1>7 DEF Clean
<1>10. Rests(u, {}, L)
  <2>1. {} = {h \in Fds : u.fd_pool[h].opened}
    BY <1>5, <1>7 DEF OpenFds
  <2>2. Good(u.image.data, u.dir, u.bitmap, u.fd_pool, {}, L) /\ Sized(u.dir, L)
    BY <1>2, <1>3, <1>7
  <2>3. u.mode = "ok" /\ u.state_dir = "USEFUL" /\ u.state_bitmap = "USEFUL"
    BY <1>1, <1>7
  <2> QED BY <1>8, <1>9, <2>1, <2>2, <2>3 DEF Rests
<1>11. Rests(Here, OpenFds, L)
  BY <1>5, <1>6, <1>10
<1>12. Mapped(L)
  BY <1>11, RestsMapped
<1>13. FSTypeOK
  BY <1>1, <1>2, <1>4 DEF FSTypeOK, ImageType, OpenFlags
<1> QED BY <1>1, <1>2, <1>11, <1>12, <1>13 DEF FSInv

-----------------------------------------------------------------------------
(* The theorems.                                                           *)

(* While programs only rewind, the invariant holds.                        *)
THEOREM SpecInv ==
  ASSUME OnlyRewinds
  PROVE  FSSpec => []FSInv
<1>1. FSInit => FSInv
  BY InitInv
<1>2. FSInv /\ [FSNext]_fsVars => FSInv'
  BY StepInv
<1> QED BY <1>1, <1>2, PTL DEF FSSpec

(* The variables keep their types, for any sizes and any number of files:  *)
(* what fs.c reads as an inode is always an inode and what it copies out   *)
(* as data always data, and no pointer leaves the disk.                    *)
THEOREM SpecFSTypeOK ==
  ASSUME OnlyRewinds
  PROVE  FSSpec => []FSTypeOK
<1>1. FSInv => FSTypeOK
  BY DEF FSInv
<1> QED BY <1>1, SpecInv, PTL

(* Every used block is an inode or a data block of exactly one file, and   *)
(* every block a file uses is marked: whatever calls and descriptors       *)
(* allocate in turn, find_empty_inode never hands out a block twice.       *)
THEOREM SpecBlocksHaveOneOwner ==
  ASSUME OnlyRewinds
  PROVE  FSSpec => []BlocksHaveOneOwner
<1>1. FSInv => BlocksHaveOneOwner
  <2> SUFFICES ASSUME FSInv PROVE BlocksHaveOneOwner
    OBVIOUS
  <2>1. PICK L : Mapped(L)
    BY DEF FSInv
  <2>2. fd_pool \in [Fds -> FdType]
    BY DEF FSInv, FSTypeOK
  <2> QED BY <2>1, <2>2, OneOwner
<1> QED BY <1>1, SpecInv, PTL

-----------------------------------------------------------------------------
(* fs.c implements files that are sequences of values.                     *)

\* The files are laid out as L says and contain C.
FilesHold(L, C) ==
  /\ Mapped(L) /\ Stored(image.data, dir, fd_pool, OpenFds, L, C)
  /\ mode = "ok" => Rests(Here, OpenFds, L)

\* No two files have a name in common.
Distinct(d) == \A i, j \in Entries : Named(d[i]) /\ d[j].fileName = d[i].fileName => i = j

FileNames(d) == {d[i].fileName : i \in Entries} \ {""}
CellsOf(c, n) == [k \in 1 .. n |-> c[k - 1]]

\* The files of the store are those of the directory, and contain C.
Shows(C) ==
  /\ Files = [name \in FileNames(dir) |-> Files[name]]
  /\ \A i \in Entries : Named(dir[i]) =>
       Files[dir[i].fileName] = CellsOf(C[i], dir[i].fileSize)

LEMMA CachedCell ==
  ASSUME NEW b, NEW c, NEW x, CellIs(image.data, fd_pool, OpenFds, b, c, x)
  PROVE  CachedBlock(b).cells[c] = x
<1> DEFINE holders == {fd \in OpenFds : /\ fd_pool[fd].buffer_state # "GARBAGE"
                                        /\ fd_pool[fd].buffer_idx = b}
<1>1. CASE holders = {}
  <2>1. CachedBlock(b) = image.data[b]
    BY <1>1 DEF CachedBlock
  <2>2. ~\E h \in OpenFds : HoldsBlk(fd_pool, h, b)
    BY <1>1 DEF HoldsBlk
  <2>3. ~\E h \in OpenFds : Unwashed(fd_pool, h, b)
    BY <2>2 DEF HoldsBlk, Unwashed
  <2>4. image.data[b].cells[c] = x
    BY <2>3, Zenon DEF CellIs
  <2> QED BY <2>1, <2>4
<1>2. CASE holders # {}
  <2>1. holders \in SUBSET Nat
    <3>1. holders \subseteq OpenFds /\ OpenFds \subseteq Fds
      BY DEF OpenFds
    <3>2. Fds \subseteq Nat
      BY DEF Fds
    <3> HIDE DEF holders
    <3> QED BY <3>1, <3>2
  <2>2. PICK h : h = Min(holders)
    OBVIOUS
  <2>3. h \in holders
    BY <1>2, <2>1, <2>2, MinIsLeast
  <2>4. CachedBlock(b) = fd_pool[h].buffer
    BY <1>2, <2>2 DEF CachedBlock
  <2>5. h \in OpenFds /\ HoldsBlk(fd_pool, h, b)
    BY <2>3 DEF HoldsBlk
  <2>6. fd_pool[h].buffer.cells[c] = x
    BY <2>5, Zenon DEF CellIs
  <2> QED BY <2>4, <2>6
<1> QED BY <1>1, <1>2

LEMMA EntryIs ==
  ASSUME NEW d, Distinct(d), NEW i \in Entries, Named(d[i])
  PROVE  EntryOf(d, d[i].fileName) = d[i]
<1>1. \A j \in Entries : d[j].fileName = d[i].fileName => j = i
  BY Zenon DEF Distinct
<1>2. (CHOOSE j \in Entries : d[j].fileName = d[i].fileName) = i
  BY <1>1
<1> QED BY <1>2 DEF EntryOf

LEMMA ContentsAre ==
  ASSUME fd_pool \in [Fds -> FdType], dir \in DirType, NEW L, NEW C, FilesHold(L, C),
         NEW i \in Entries
  PROVE  Contents(dir[i], CachedInode, CachedBlock) = CellsOf(C[i], dir[i].fileSize)
<1>1. PICK n : n = dir[i].fileSize
  OBVIOUS
<1>2. n \in Nat
  <2>1. n \in 0 .. MaxFileSize
    BY <1>1 DEF DirType
  <2> QED BY <2>1
<1>3. Mapped(L)
  BY DEF FilesHold
<1>4. ASSUME NEW k \in 1 .. n
      PROVE  CachedBlock(DataBlock(dir[i], (k-1) \div SECTSIZE, CachedInode)).cells[(k-1) % SECTSIZE]
               = C[i][k - 1]
  <2>1. PICK p \in Nat : p = k - 1 /\ p < n
    BY <1>2
  <2>2. PICK m : m = p \div SECTSIZE
    OBVIOUS
  <2>3. m \in Nat /\ m < nb(L, i)
    <3>1. Sized(dir, L) /\ dir[i].fileSize \in Nat /\ p < dir[i].fileSize
      BY <1>1, <1>2, <1>3, <2>1 DEF Mapped
    <3> QED BY <2>2, <3>1, CellFacts
  <2>4. DataBlock(dir[i], m, CachedInode) = blk(L, i, m)
    BY <1>3, <2>3, DataIs
  <2>5. CellIs(image.data, fd_pool, OpenFds, blk(L, i, m), p % SECTSIZE, C[i][p])
    BY <1>1, <2>1, <2>2 DEF FilesHold, Stored
  <2>6. CachedBlock(blk(L, i, m)).cells[p % SECTSIZE] = C[i][p]
    BY <2>5, CachedCell
  <2> QED BY <2>1, <2>2, <2>4, <2>6
<1> QED BY <1>1, <1>4 DEF Contents, CellsOf

LEMMA FilesShown ==
  ASSUME NEW L, NEW C
  PROVE  FSInv /\ FilesHold(L, C) /\ Distinct(dir) => Shows(C)
<1> SUFFICES ASSUME FSInv, FilesHold(L, C), Distinct(dir) PROVE Shows(C)
  OBVIOUS
<1>1. fd_pool \in [Fds -> FdType] /\ dir \in DirType
  BY DEF FSInv, FSTypeOK
<1>2. Files = [name \in FileNames(dir) |->
                 Contents(EntryOf(dir, name), CachedInode, CachedBlock)]
  BY DEF Files, FileNames
<1>3. Files = [name \in FileNames(dir) |-> Files[name]]
  BY <1>2
<1>4. ASSUME NEW i \in Entries, Named(dir[i])
      PROVE  Files[dir[i].fileName] = CellsOf(C[i], dir[i].fileSize)
  <2>1. dir[i].fileName \in FileNames(dir)
    BY <1>4, Zenon DEF FileNames, Named
  <2>2. Files[dir[i].fileName] = Contents(EntryOf(dir, dir[i].fileName), CachedInode, CachedBlock)
    BY <1>2, <2>1
  <2>3. EntryOf(dir, dir[i].fileName) = dir[i]
    BY <1>4, EntryIs
  <2>4. Contents(dir[i], CachedInode, CachedBlock) = CellsOf(C[i], dir[i].fileSize)
    BY <1>1, ContentsAre
  <2> QED BY <2>2, <2>3, <2>4
<1> QED BY <1>3, <1>4 DEF Shows

LEMMA FilesShownNext ==
  ASSUME NEW L, NEW C
  PROVE  (FSInv /\ FilesHold(L, C) /\ Distinct(dir) => Shows(C))'
<1>1. FSInv /\ FilesHold(L, C) /\ Distinct(dir) => Shows(C)
  BY FilesShown
<1> QED BY <1>1, PTL

\* The step is one of the store, or leaves it as it is.
StoreStep == [Store!StoreNext]_(Store!storeVars)

\* The inductive invariant of the refinement.
StoreInv == FSInv /\ Distinct(dir) /\ \E L, C : FilesHold(L, C)

(* A call that succeeds leaves files that contain D.                       *)
LEMMA Reached ==
  ASSUME FSInv, NEW G, NEW D, NEW open2, NEW t, Rests(t, open2, G), Return(t),
         Stored(t.image.data, t.dir, t.fd_pool, open2, G, D), Distinct(t.dir),
         wants' \in [Fds -> OpenFlags], DOMAIN io' = 1 .. Len(io')
  PROVE  /\ StoreInv' /\ Shows(D)' /\ mode' = "ok"
         /\ OpenFds' = open2 /\ dir' = t.dir /\ fd_pool' = t.fd_pool
<1>1. /\ FSInv' /\ Rests(Here', OpenFds', G) /\ OpenFds' = open2
      /\ image' = t.image /\ dir' = t.dir /\ fd_pool' = t.fd_pool /\ mode' = "ok"
  BY RestsReturns
<1>2. Distinct(dir')
  BY <1>1
<1>3. Mapped(G)'
  <2>1. Good(image'.data, dir', bitmap', fd_pool', OpenFds', G) /\ Sized(dir', G)
    BY <1>1 DEF Rests, Here
  <2>2. Keeps(image'.data, fd_pool', OpenFds', G)
    BY <2>1, KeepsAll
  <2> QED BY <2>1, <2>2 DEF Good, Mapped
<1>4. Stored(image'.data, dir', fd_pool', OpenFds', G, D)
  BY <1>1
<1>5. FilesHold(G, D)'
  BY <1>1, <1>3, <1>4 DEF FilesHold
<1>6. Shows(D)'
  BY <1>1, <1>2, <1>5, FilesShownNext
<1>7. StoreInv'
  BY <1>1, <1>2, <1>5 DEF StoreInv
<1> QED BY <1>1, <1>6, <1>7

(* A step that changes neither the disk nor the memory.                    *)
LEMMA Unmoved ==
  ASSUME StoreInv, FSInv', UNCHANGED <<image, dir, bitmap, fd_pool>>,
         mode' = "ok" => UNCHANGED <<mode, Here>>
  PROVE  StoreInv' /\ \E C : Shows(C) /\ Shows(C)'
<1>1. PICK L, C : FilesHold(L, C)
  BY DEF StoreInv
<1>2. Shows(C)
  BY <1>1, FilesShown DEF StoreInv
<1>3. OpenFds' = OpenFds
  BY DEF OpenFds
<1>4. Mapped(L)'
  BY <1>1, <1>3 DEF FilesHold, Mapped
<1>5. Stored(image'.data, dir', fd_pool', OpenFds', L, C)
  BY <1>1, <1>3 DEF FilesHold
<1>6. mode' = "ok" => Rests(Here', OpenFds', L)
  BY <1>1, <1>3 DEF FilesHold
<1>7. FilesHold(L, C)'
  BY <1>4, <1>5, <1>6 DEF FilesHold
<1>8. Distinct(dir')
  BY DEF StoreInv
<1>9. Shows(C)'
  BY <1>7, <1>8, FilesShownNext
<1>10. StoreInv'
  BY <1>7, <1>8 DEF StoreInv
<1> QED BY <1>2, <1>9, <1>10

(* The store has the same files when the directory and the contents are    *)
(* the same.                                                               *)
LEMMA SameShown ==
  ASSUME NEW C, Shows(C), Shows(C)', SameFiles(dir, dir')
  PROVE  Files' = Files
<1>1. PICK f, g : f = Files /\ g = Files'
  OBVIOUS
<1>2. FileNames(dir') = FileNames(dir)
  BY DEF FileNames, SameFiles
<1>3. /\ f = [name \in FileNames(dir) |-> f[name]]
      /\ g = [name \in FileNames(dir) |-> g[name]]
  BY <1>1, <1>2 DEF Shows
<1>4. ASSUME NEW name \in FileNames(dir) PROVE g[name] = f[name]
  <2>1. PICK i \in Entries : dir[i].fileName = name /\ Named(dir[i])
    BY Zenon DEF FileNames, Named
  <2>2. f[name] = CellsOf(C[i], dir[i].fileSize)
    BY <1>1, <2>1 DEF Shows
  <2>3. dir'[i].fileName = name /\ dir'[i].fileSize = dir[i].fileSize
    BY <2>1 DEF SameFiles
  <2>4. Named(dir'[i])
    BY <2>1, <2>3, Zenon DEF Named
  <2>5. g[name] = CellsOf(C[i], dir'[i].fileSize)
    BY <1>1, <2>3, <2>4 DEF Shows
  <2> QED BY <2>2, <2>3, <2>5
<1>5. f = g
  BY <1>3, <1>4
<1> QED BY <1>1, <1>5

(* The store has the same positions when the descriptors in use are        *)
(* where they were.                                                        *)
LEMMA SamePositions ==
  ASSUME OpenFds' = OpenFds, SameNames(dir, dir'), fd_pool \in [Fds -> FdType],
         \A h \in OpenFds : /\ fd_pool'[h].index = fd_pool[h].index
                            /\ fd_pool'[h].offset = fd_pool[h].offset
  PROVE  Positions' = Positions
<1>1. ASSUME NEW h \in OpenFds
      PROVE  /\ dir'[fd_pool'[h].index].fileName = dir[fd_pool[h].index].fileName
             /\ fd_pool'[h].offset = fd_pool[h].offset
  <2>1. fd_pool[h].index \in Entries
    BY DEF OpenFds, FdType
  <2> QED BY <2>1 DEF SameNames
<1> QED BY <1>1 DEF Positions

LEMMA NothingStep ==
  ASSUME Files' = Files, Positions' = Positions, io' = << >>
  PROVE  StoreStep
<1>1. Store!Nothing
  BY DEF Store!Nothing
<1> QED BY <1>1 DEF StoreStep, Store!StoreNext

(* What holds when a call begins.                                          *)
LEMMA Begins ==
  ASSUME StoreInv, mode = "ok"
  PROVE  /\ FSInv /\ Distinct(dir) /\ fd_pool \in [Fds -> FdType] /\ dir \in DirType
         /\ wants \in [Fds -> OpenFlags]
         /\ \E L, C : /\ Rests(Here, OpenFds, L) /\ Works(Here, OpenFds, L, fd_pool, L)
                      /\ Stored(image.data, dir, fd_pool, OpenFds, L, C) /\ Shows(C)
<1>1. FSInv /\ Distinct(dir) /\ fd_pool \in [Fds -> FdType] /\ dir \in DirType /\ wants \in [Fds -> OpenFlags]
  BY DEF StoreInv, FSInv, FSTypeOK
<1>2. PICK L, C : FilesHold(L, C)
  BY DEF StoreInv
<1>3. Shows(C)
  BY <1>1, <1>2, FilesShown
<1>4. Rests(Here, OpenFds, L) /\ Stored(image.data, dir, fd_pool, OpenFds, L, C)
  BY <1>2 DEF FilesHold
<1>5. Works(Here, OpenFds, L, fd_pool, L)
  BY <1>4, RestsWorks, HereFacts
<1> QED BY <1>1, <1>3, <1>4, <1>5

LEMMA StutterStep ==
  ASSUME StoreInv, UNCHANGED fsVars
  PROVE  StoreInv' /\ StoreStep
<1>1. /\ UNCHANGED <<image, dir, bitmap, fd_pool>> /\ mode' = mode /\ io' = io
  BY DEF fsVars
<1>2. Here' = Here
  BY DEF Here, fsVars
<1>3. FSInv'
  BY StutterInv DEF StoreInv
<1>4. StoreInv' /\ \E C : Shows(C) /\ Shows(C)'
  BY <1>1, <1>2, <1>3, Unmoved
<1>5. OpenFds' = OpenFds
  BY <1>1 DEF OpenFds
<1>6. Positions' = Positions
  BY <1>1, <1>5 DEF Positions
<1>7. Files' = Files
  BY <1>1, <1>4, SameShown DEF SameFiles
<1> QED BY <1>1, <1>4, <1>6, <1>7 DEF StoreStep, Store!storeVars

(* A call that panics.                                                     *)
LEMMA PanicStep ==
  ASSUME StoreInv, mode = "ok", NEW t, t = Panic(Here), Return(t),
         wants' \in [Fds -> OpenFlags], io' = << >>
  PROVE  StoreInv' /\ StoreStep
<1>1. PICK L : Rests(Here, OpenFds, L)
  BY Begins
<1>2. Failed(t, OpenFds, fd_pool, L) /\ t.mode = "panic" /\ t.image = image
  BY <1>1, PanicFails, HereFacts
<1>3. UNCHANGED <<image, dir, bitmap, fd_pool>> /\ mode' # "ok"
  BY <1>2 DEF Return
<1>4. FSInv'
  <2>1. FSInv /\ Mapped(L)
    BY <1>1, RestsMapped DEF StoreInv
  <2>2. DOMAIN io' = 1 .. Len(io')
    OBVIOUS
  <2> QED BY <1>2, <2>1, <2>2, FailedReturns
<1>5. StoreInv' /\ \E C : Shows(C) /\ Shows(C)'
  BY <1>3, <1>4, Unmoved
<1>6. OpenFds' = OpenFds
  BY <1>3 DEF OpenFds
<1>7. Positions' = Positions
  BY <1>3, <1>6 DEF Positions
<1>8. Files' = Files
  BY <1>3, <1>5, SameShown DEF SameFiles
<1> QED BY <1>5, <1>7, <1>8, NothingStep

(* A call that touches closed descriptors only.                            *)
LEMMA QuietStep ==
  ASSUME StoreInv, mode = "ok", NEW t, Quiet(Here, t, OpenFds), Return(t),
         wants' \in [Fds -> OpenFlags], io' = << >>
  PROVE  StoreInv' /\ StoreStep
<1>1. PICK L, C : /\ Rests(Here, OpenFds, L) /\ Shows(C)
                  /\ Stored(image.data, dir, fd_pool, OpenFds, L, C)
  BY Begins
<1>2. /\ FSInv /\ Distinct(dir) /\ DOMAIN io' = 1 .. Len(io') /\ fd_pool \in [Fds -> FdType]
  BY Begins
<1>3. Rests(t, OpenFds, L) /\ KeepsFiles(Here, OpenFds, L, t, OpenFds)
  BY <1>1, RestsSame
<1>4. t.dir = dir /\ \A h \in OpenFds : t.fd_pool[h] = fd_pool[h]
  BY HereFacts DEF Quiet, SameMemory
<1>5. Stored(t.image.data, t.dir, t.fd_pool, OpenFds, L, C)
  BY <1>1, <1>3, HereFacts DEF KeepsFiles
<1>6. Distinct(t.dir)
  BY <1>2, <1>4
<1>7. /\ StoreInv' /\ Shows(C)' /\ OpenFds' = OpenFds
      /\ dir' = t.dir /\ fd_pool' = t.fd_pool
  BY <1>2, <1>3, <1>5, <1>6, Reached
<1>8. Files' = Files
  BY <1>1, <1>4, <1>7, SameShown DEF SameFiles
<1>9. Positions' = Positions
  BY <1>2, <1>4, <1>7, SamePositions DEF SameNames
<1> QED BY <1>7, <1>8, <1>9, NothingStep

LEMMA NextProgramStep ==
  ASSUME StoreInv, NextProgram
  PROVE  StoreInv' /\ StoreStep
<1>1. /\ mode = "ok" /\ io' = << >> /\ wants' \in [Fds -> OpenFlags]
      /\ \E t : Quiet(Here, t, OpenFds) /\ Return(t)
  BY NextProgramStarts DEF StoreInv
<1> QED BY <1>1, QuietStep

LEMMA WorkedRests ==
  ASSUME NEW fd \in OpenFds, NEW G, NEW L, NEW t, Works(t, OpenFds, G, fd_pool, L), SameOpen(Here, t)
  PROVE  Rests(t, OpenFds, G)
<1>1. OpenFds = {h \in Fds : t.fd_pool[h].opened} /\ OpenFds # {}
  BY HereFacts DEF SameOpen, OpenFds
<1> QED BY <1>1, WorksRests

(* Where the store has a descriptor in use.                                *)
LEMMA PositionIs ==
  ASSUME NEW fd \in OpenFds, NEW L, Rests(Here, OpenFds, L)
  PROVE  /\ Positions[fd].name = dir[fd_pool[fd].index].fileName
         /\ Positions[fd].pos = fd_pool[fd].offset
         /\ Positions[fd] # Store!Closed /\ Named(dir[fd_pool[fd].index])
<1>1. PICK n, p : n = dir[fd_pool[fd].index].fileName /\ p = fd_pool[fd].offset
  OBVIOUS
<1>2. fd \in Fds
  BY DEF OpenFds
<1>3. Positions[fd] = [name |-> n, pos |-> p]
  BY <1>1, <1>2 DEF Positions
<1>4. Apart(dir, fd_pool, OpenFds)
  BY HereFacts DEF Rests, Good
<1>5. n # ""
  BY <1>1, <1>4, Zenon DEF Apart
<1>6. Store!Closed.name = ""
  BY Zenon DEF Store!Closed
<1>7. Positions[fd].name = n /\ Positions[fd].pos = p
  BY <1>3
<1>8. Positions[fd] # Store!Closed
  BY <1>5, <1>6, <1>7, Zenon
<1> QED BY <1>1, <1>5, <1>7, <1>8, Zenon DEF Named

\* From s to t, descriptor fd has moved to p, and no other descriptor and no
\* name has changed.
MovesTo(s, t, fd, p) ==
  /\ SameNames(s.dir, t.dir) /\ \A h \in Fds : h # fd => t.fd_pool[h] = s.fd_pool[h]
  /\ t.fd_pool[fd].index = s.fd_pool[fd].index
  /\ t.fd_pool[fd].offset = p

LEMMA MovedPosition ==
  ASSUME OpenFds' = OpenFds, fd_pool \in [Fds -> FdType],
         NEW fd \in OpenFds, NEW t, NEW p, MovesTo(Here, t, fd, p), dir' = t.dir, fd_pool' = t.fd_pool
  PROVE  Positions' = [Positions EXCEPT ![fd].pos = p]
<1>1. PICK a, b : a = Positions /\ b = Positions'
  OBVIOUS
<1>2. SameNames(dir, dir') /\ fd_pool'[fd].index = fd_pool[fd].index /\ fd_pool'[fd].offset = p
      /\ \A h \in Fds : h # fd => fd_pool'[h] = fd_pool[h]
  BY HereFacts DEF MovesTo
<1>3. \A h \in OpenFds : /\ fd_pool'[h].index = fd_pool[h].index
                         /\ dir'[fd_pool[h].index].fileName = dir[fd_pool[h].index].fileName
  <2>1. \A h \in OpenFds : h \in Fds /\ fd_pool[h].index \in Entries
    BY DEF OpenFds, FdType
  <2> QED BY <1>2, <2>1 DEF SameNames
<1>4. DOMAIN a = Fds /\ a = [h \in Fds |-> a[h]] /\ DOMAIN b = Fds /\ b = [h \in Fds |-> b[h]]
  BY <1>1 DEF Positions
<1>5. ASSUME NEW h \in Fds, h # fd PROVE b[h] = a[h]
  <2>1. CASE h \in OpenFds
    <3>1. a[h] = [name |-> dir[fd_pool[h].index].fileName, pos |-> fd_pool[h].offset]
      BY <1>1, <2>1 DEF Positions
    <3>2. b[h] = [name |-> dir'[fd_pool'[h].index].fileName, pos |-> fd_pool'[h].offset]
      BY <1>1, <2>1 DEF Positions
    <3>3. /\ dir'[fd_pool'[h].index].fileName = dir[fd_pool[h].index].fileName
          /\ fd_pool'[h].offset = fd_pool[h].offset
      BY <1>2, <1>3, <1>5, <2>1
    <3> QED BY <3>1, <3>2, <3>3
  <2>2. CASE h \notin OpenFds
    <3>1. a[h] = [name |-> "", pos |-> 0] /\ b[h] = [name |-> "", pos |-> 0]
      BY <1>1, <2>2 DEF Positions
    <3> QED BY <3>1
  <2> QED BY <2>1, <2>2
<1>6. b[fd] = [a[fd] EXCEPT !.pos = p]
  <2>1. PICK n, q : n = dir[fd_pool[fd].index].fileName /\ q = fd_pool[fd].offset
    OBVIOUS
  <2>2. fd \in Fds
    BY DEF OpenFds
  <2>3. a[fd] = [name |-> n, pos |-> q]
    BY <1>1, <2>1, <2>2 DEF Positions
  <2>4. b[fd] = [name |-> n, pos |-> p]
    BY <1>1, <1>2, <1>3, <2>1, <2>2 DEF Positions
  <2> QED BY <2>3, <2>4
<1>7. b = [a EXCEPT ![fd].pos = p]
  BY <1>4, <1>5, <1>6
<1> QED BY <1>1, <1>7

LEMMA SeekStep ==
  ASSUME StoreInv, OnlyRewinds, NEW fd \in Fds, NEW offset \in Offsets, NEW whence \in Whences,
         Seek(fd, offset, whence)
  PROVE  StoreInv' /\ StoreStep
<1>1. mode = "ok" /\ fd \in OpenFds /\ wants' = wants /\ io' = << >>
  BY DEF Seek
<1>2. PICK L, C : /\ Rests(Here, OpenFds, L) /\ Works(Here, OpenFds, L, fd_pool, L)
                  /\ Stored(image.data, dir, fd_pool, OpenFds, L, C) /\ Shows(C)
  BY <1>1, Begins
<1>3. /\ FSInv /\ Distinct(dir) /\ fd_pool \in [Fds -> FdType]
      /\ wants' \in [Fds -> OpenFlags] /\ DOMAIN io' = 1 .. Len(io')
  BY <1>1, Begins
<1>4. PICK t : t = fs_lseek(Here, fd, offset, whence)
  OBVIOUS
<1>5. Return(t)
  BY <1>4 DEF Seek
<1>6. ASSUME NEW p, Works(t, OpenFds, L, fd_pool, L), SameOpen(Here, t), MovedTo(Here, t, OpenFds, L, fd, p)
      PROVE  /\ StoreInv' /\ Files' = Files
             /\ Positions' = [Positions EXCEPT ![fd].pos = p]
  <2>1. Rests(t, OpenFds, L)
    BY <1>1, <1>6, WorkedRests
  <2>2. t.dir = dir
    BY <1>6, HereFacts DEF MovedTo
  <2>3. Stored(t.image.data, t.dir, t.fd_pool, OpenFds, L, C)
    BY <1>2, <1>6, HereFacts DEF MovedTo, KeepsFiles
  <2>4. Distinct(t.dir)
    BY <1>3, <2>2
  <2>5. /\ StoreInv' /\ Shows(C)' /\ OpenFds' = OpenFds
        /\ dir' = t.dir /\ fd_pool' = t.fd_pool
    BY <1>3, <1>5, <2>1, <2>3, <2>4, Reached
  <2>6. Files' = Files
    BY <1>2, <2>2, <2>5, SameShown DEF SameFiles
  <2>7. MovesTo(Here, t, fd, p)
    BY <1>6, HereFacts DEF MovedTo, SameOpen, MovesTo, SameNames
  <2>8. Positions' = [Positions EXCEPT ![fd].pos = p]
    BY <1>1, <1>3, <2>5, <2>7, MovedPosition
  <2> QED BY <2>5, <2>6, <2>8
<1>7. CASE whence = "SEEK_SET"
  <2>1. Works(t, OpenFds, L, fd_pool, L) /\ SameOpen(Here, t) /\ MovedTo(Here, t, OpenFds, L, fd, 0)
    BY <1>1, <1>2, <1>4, <1>7, SeekSetWorks
  <2>2. StoreInv' /\ Files' = Files /\ Positions' = [Positions EXCEPT ![fd].pos = 0]
    BY <1>6, <2>1
  <2>3. Positions[fd] # Store!Closed
    BY <1>1, <1>2, PositionIs
  <2>4. Store!Rewind(fd)
    BY <1>1, <2>2, <2>3 DEF Store!Rewind
  <2>5. Store!StoreNext
    BY <2>4 DEF Store!StoreNext
  <2> QED BY <2>2, <2>5 DEF StoreStep
<1>8. CASE whence = "SEEK_CUR" /\ offset = 0
  <2>1. PICK p : p = fd_pool[fd].offset
    OBVIOUS
  <2>2. Works(t, OpenFds, L, fd_pool, L) /\ SameOpen(Here, t) /\ MovedTo(Here, t, OpenFds, L, fd, p)
    <3>1. Works(t, OpenFds, L, fd_pool, L) /\ SameOpen(Here, t)
          /\ MovedTo(Here, t, OpenFds, L, fd, Here.fd_pool[fd].offset)
      BY <1>1, <1>2, <1>4, <1>8, SeekCurWorks
    <3> QED BY <2>1, <3>1, HereFacts
  <2>3. StoreInv' /\ Files' = Files /\ Positions' = [Positions EXCEPT ![fd].pos = p]
    BY <1>6, <2>2
  <2>4. Positions[fd].pos = p
    BY <1>1, <1>2, <2>1, PositionIs
  <2>5. Positions' = Positions
    <3>1. PICK a : a = Positions
      OBVIOUS
    <3>2. a = [h \in Fds |-> a[h]]
      BY <3>1 DEF Positions
    <3>3. PICK n, q : a[fd] = [name |-> n, pos |-> q]
      BY <1>1, <3>1 DEF Positions
    <3>4. [a EXCEPT ![fd].pos = p] = a
      BY <2>4, <3>1, <3>2, <3>3
    <3> QED BY <2>3, <3>1, <3>4
  <2> QED BY <1>1, <2>3, <2>5, NothingStep
<1> QED BY <1>7, <1>8 DEF OnlyRewinds

LEMMA CloseStep ==
  ASSUME StoreInv, NEW fd \in Fds, Close(fd)
  PROVE  StoreInv' /\ StoreStep
<1>1. /\ mode = "ok" /\ fd \in OpenFds /\ io' = << >>
      /\ wants' = [wants EXCEPT ![fd] = {}]
  BY DEF Close
<1>2. PICK L, C : /\ Rests(Here, OpenFds, L) /\ Shows(C)
                  /\ Stored(image.data, dir, fd_pool, OpenFds, L, C)
  BY <1>1, Begins
<1>3. FSInv /\ Distinct(dir) /\ fd_pool \in [Fds -> FdType]
  BY <1>1, Begins
<1>4. wants' \in [Fds -> OpenFlags] /\ DOMAIN io' = 1 .. Len(io')
  <2>1. wants \in [Fds -> OpenFlags]
    BY <1>1, Begins
  <2> QED BY <1>1, <2>1 DEF OpenFlags
<1>5. PICK t : t = fs_close(Here, fd)
  OBVIOUS
<1>6. Return(t)
  BY <1>5 DEF Close
<1>7. PICK open2 : open2 = OpenFds \ {fd}
  OBVIOUS
<1>8. /\ Rests(t, open2, L) /\ t.dir = dir
      /\ \A h \in Fds : h # fd => t.fd_pool[h] = fd_pool[h]
      /\ KeepsFiles(Here, OpenFds, L, t, open2)
  BY <1>1, <1>2, <1>5, <1>7, CloseRests, HereFacts
<1>9. Stored(t.image.data, t.dir, t.fd_pool, open2, L, C)
  BY <1>2, <1>8, HereFacts DEF KeepsFiles
<1>10. Distinct(t.dir)
  BY <1>3, <1>8
<1>11. /\ StoreInv' /\ Shows(C)' /\ OpenFds' = open2
       /\ dir' = t.dir /\ fd_pool' = t.fd_pool
  BY <1>3, <1>4, <1>6, <1>8, <1>9, <1>10, Reached
<1>12. Files' = Files
  BY <1>2, <1>8, <1>11, SameShown DEF SameFiles
<1>13. Positions' = [Positions EXCEPT ![fd] = Store!Closed]
  <2>1. Positions' = [h \in Fds |-> IF h = fd THEN Store!Closed ELSE Positions[h]]
    <3>1. \A h \in OpenFds' : h \in OpenFds /\ h # fd /\ h \in Fds
      BY <1>7, <1>11 DEF OpenFds
    <3>2. \A h \in Fds : h \in OpenFds' <=> h \in OpenFds /\ h # fd
      BY <1>7, <1>11
    <3>3. \A h \in Fds : h # fd => fd_pool'[h] = fd_pool[h]
      BY <1>8, <1>11
    <3>4. dir' = dir
      BY <1>8, <1>11
    <3> QED BY <3>1, <3>2, <3>3, <3>4, <1>1 DEF Positions, Store!Closed
  <2>2. DOMAIN Positions = Fds
    BY DEF Positions
  <2> QED BY <2>1, <2>2
<1>14. Positions[fd] # Store!Closed
  BY <1>1, <1>2, PositionIs
<1>15. Store!Close(fd)
  BY <1>1, <1>12, <1>13, <1>14 DEF Store!Close
<1>16. Store!StoreNext
  BY <1>15 DEF Store!StoreNext
<1> QED BY <1>11, <1>16 DEF StoreStep

(* A descriptor is opened: the store has it at the start of the file.      *)
LEMMA OpenedPosition ==
  ASSUME NEW name \in Names, ~IsOpen(name), fd_pool \in [Fds -> FdType],
         NEW t, NEW fd, NEW i, Opens(Here, t, OpenFds, fd, i), t.dir[i].fileName = name,
         dir' = t.dir, fd_pool' = t.fd_pool, OpenFds' = OpenFds \cup {fd}, io' = << >>
  PROVE  Store!Opened(fd, name)
<1>1. /\ fd \in Fds /\ fd \notin OpenFds /\ i \in Entries
      /\ \A h \in OpenFds : fd_pool[h].index # i
      /\ \A h \in Fds : h # fd => fd_pool'[h] = fd_pool[h]
      /\ fd_pool'[fd].index = i /\ fd_pool'[fd].offset = 0
      /\ \A j \in Entries : j # i => dir'[j] = dir[j]
      /\ dir'[i].fileName = name
  BY HereFacts DEF Opens
<1>2. OpenFds \subseteq Fds /\ \A h \in OpenFds : fd_pool[h].index \in Entries
  BY DEF OpenFds, FdType
<1>3. PICK a, b, c : a = Positions /\ b = Positions' /\ c = Store!Closed
  OBVIOUS
<1>4. a[fd] = c
  BY <1>1, <1>3 DEF Positions, Store!Closed
<1>5. ASSUME NEW g \in Fds PROVE a[g].name # name
  <2>1. CASE g \in OpenFds
    <3>1. a[g].name = dir[fd_pool[g].index].fileName
      BY <1>3, <2>1 DEF Positions
    <3> QED BY <2>1, <3>1 DEF IsOpen
  <2>2. CASE g \notin OpenFds
    <3>1. PICK n : n = ""
      OBVIOUS
    <3>2. a[g] = [name |-> n, pos |-> 0]
      BY <1>3, <2>2, <3>1 DEF Positions
    <3>3. a[g].name = n
      BY <3>2
    <3>4. name # n
      BY <3>1, FileSysAssumption, Zenon
    <3> QED BY <3>3, <3>4
  <2> QED BY <2>1, <2>2
<1>6. b = [a EXCEPT ![fd] = [name |-> name, pos |-> 0]]
  <2>1. DOMAIN a = Fds /\ a = [h \in Fds |-> a[h]] /\ DOMAIN b = Fds /\ b = [h \in Fds |-> b[h]]
    BY <1>3 DEF Positions
  <2>2. b[fd] = [name |-> name, pos |-> 0]
    BY <1>1, <1>3 DEF Positions
  <2>3. \A h \in Fds : h # fd => b[h] = a[h]
    <3>1. ASSUME NEW h \in OpenFds, h # fd
          PROVE  /\ fd_pool'[h] = fd_pool[h]
                 /\ dir'[fd_pool[h].index].fileName = dir[fd_pool[h].index].fileName
      BY <1>1, <1>2, <3>1
    <3>2. ASSUME NEW h \in OpenFds, h # fd PROVE b[h] = a[h]
      <4>1. h \in OpenFds' /\ h \in Fds
        BY <1>2, <3>2
      <4> QED BY <1>3, <3>1, <3>2, <4>1 DEF Positions
    <3>3. ASSUME NEW h \in Fds \ OpenFds, h # fd PROVE b[h] = a[h]
      BY <1>3, <3>3 DEF Positions
    <3> QED BY <3>2, <3>3
  <2> QED BY <2>1, <2>2, <2>3
<1> QED BY <1>3, <1>4, <1>5, <1>6 DEF Store!Opened

LEMMA EmptyCells ==
  ASSUME NEW c
  PROVE  CellsOf(c, 0) = << >>
<1>1. PICK s : s = CellsOf(c, 0)
  OBVIOUS
<1>2. s = [k \in 1 .. 0 |-> c[k - 1]]
  BY <1>1 DEF CellsOf
<1>3. \A k \in 1 .. 0 : FALSE
  OBVIOUS
<1>4. 1 .. 0 = {}
  BY <1>3
<1>5. s = [k \in {} |-> c[k - 1]]
  BY <1>2, <1>4
<1>6. s = << >>
  BY <1>5
<1> QED BY <1>1, <1>6

(* A file of no cells has come into the directory.                         *)
\* Entry i of the directory, which was free, is that of an empty file name,
\* which was in no entry.
Enters(name, i) ==
  /\ dir'[i].fileName = name /\ dir'[i].fileSize = 0 /\ ~Named(dir[i])
  /\ \A j \in Entries : dir[j].fileName # name
  /\ \A j \in Entries : j # i => dir'[j] = dir[j]

LEMMA NewShown ==
  ASSUME NEW C, Shows(C), Shows(C)', NEW name, name # "", NEW i \in Entries, Enters(name, i)
  PROVE  /\ name \notin DOMAIN Files
         /\ Files' = [m \in DOMAIN Files \cup {name} |-> IF m = name THEN << >> ELSE Files[m]]
<1>0. /\ dir'[i].fileName = name /\ dir'[i].fileSize = 0 /\ ~Named(dir[i])
      /\ \A j \in Entries : dir[j].fileName # name
      /\ \A j \in Entries : j # i => dir'[j] = dir[j]
  BY DEF Enters
<1> USE <1>0
<1>1. PICK f, g : f = Files /\ g = Files'
  OBVIOUS
<1>2. name \notin FileNames(dir)
  BY DEF FileNames
<1>3. FileNames(dir') = FileNames(dir) \cup {name}
  <2>1. ASSUME NEW m PROVE m \in FileNames(dir') <=> m \in FileNames(dir) \/ m = name
    <3>1. CASE m = ""
      BY <3>1, Zenon DEF FileNames
    <3>2. CASE m # ""
      <4>1. m \in FileNames(dir') <=> \E j \in Entries : dir'[j].fileName = m
        BY <3>2, Zenon DEF FileNames
      <4>2. m \in FileNames(dir) <=> \E j \in Entries : dir[j].fileName = m
        BY <3>2, Zenon DEF FileNames
      <4>3. dir[i].fileName # m
        BY <3>2, Zenon DEF Named
      <4> QED BY <4>1, <4>2, <4>3
    <3> QED BY <3>1, <3>2
  <2> QED BY <2>1
<1>4. DOMAIN f = FileNames(dir) /\ g = [m \in FileNames(dir) \cup {name} |-> g[m]]
  BY <1>1, <1>3 DEF Shows
<1>5. g[name] = << >>
  <2>1. Named(dir'[i])
    BY Zenon DEF Named
  <2>2. g[name] = CellsOf(C[i], 0)
    BY <1>1, <2>1 DEF Shows
  <2> QED BY <2>2, EmptyCells
<1>6. ASSUME NEW m \in FileNames(dir) PROVE g[m] = f[m]
  <2>1. PICK j \in Entries : dir[j].fileName = m /\ Named(dir[j])
    BY Zenon DEF FileNames, Named
  <2>2. dir'[j] = dir[j]
    BY <2>1
  <2>3. f[m] = CellsOf(C[j], dir[j].fileSize)
    BY <1>1, <2>1 DEF Shows
  <2>4. g[m] = CellsOf(C[j], dir'[j].fileSize)
    <3>1. Named(dir'[j])
      BY <2>1, <2>2
    <3> QED BY <1>1, <2>1, <2>2, <3>1 DEF Shows
  <2> QED BY <2>2, <2>3, <2>4
<1>7. g = [m \in DOMAIN f \cup {name} |-> IF m = name THEN << >> ELSE f[m]]
  BY <1>2, <1>4, <1>5, <1>6
<1> QED BY <1>1, <1>2, <1>4, <1>7

LEMMA OpensStep ==
  ASSUME StoreInv, mode = "ok", NEW name \in Names, ~IsOpen(name),
         NEW t, NEW fd, NEW i, Opens(Here, t, OpenFds, fd, i), t.dir[i].fileName = name,
         t.dir = dir \/ \A j \in Entries : dir[j].fileName # name,
         Return(t), wants' \in [Fds -> OpenFlags], io' = << >>
  PROVE  StoreInv' /\ StoreStep
<1>1. PICK L, C : /\ Rests(Here, OpenFds, L) /\ Shows(C)
                  /\ Stored(image.data, dir, fd_pool, OpenFds, L, C)
  BY Begins
<1>2. /\ FSInv /\ Distinct(dir) /\ DOMAIN io' = 1 .. Len(io') /\ fd_pool \in [Fds -> FdType]
      /\ dir \in DirType
  BY Begins
<1>3. Rests(t, OpenFds \cup {fd}, L) /\ KeepsFiles(Here, OpenFds, L, t, OpenFds \cup {fd})
  BY <1>1, OpenRests
<1>4. /\ fd \in Fds /\ i \in Entries
      /\ \A j \in Entries : j # i => t.dir[j] = dir[j]
      /\ Named(t.dir[i])
      /\ \/ t.dir[i] = dir[i]
         \/ ~Named(dir[i]) /\ t.dir[i].fileSize = 0
  BY HereFacts DEF Opens
<1>5. Stored(t.image.data, t.dir, t.fd_pool, OpenFds \cup {fd}, L, C)
  BY <1>1, <1>3, HereFacts DEF KeepsFiles
<1>6. name # ""
  BY FileSysAssumption, Zenon
<1>7. Distinct(t.dir)
  <2>1. CASE t.dir = dir
    BY <1>2, <2>1
  <2>2. CASE \A j \in Entries : dir[j].fileName # name
    <3>1. ASSUME NEW j \in Entries, NEW k \in Entries, Named(t.dir[j]),
                 t.dir[k].fileName = t.dir[j].fileName
          PROVE  j = k
      <4>1. CASE j = i \/ k = i
        BY <1>4, <2>2, <3>1, <4>1
      <4>2. CASE j # i /\ k # i
        BY <1>2, <1>4, <3>1, <4>2 DEF Distinct
      <4> QED BY <4>1, <4>2
    <3> QED BY <3>1 DEF Distinct
  <2> QED BY <2>1, <2>2
<1>8. /\ StoreInv' /\ Shows(C)' /\ OpenFds' = OpenFds \cup {fd}
      /\ dir' = t.dir /\ fd_pool' = t.fd_pool
  BY <1>2, <1>3, <1>5, <1>7, Reached
<1>9. Store!Opened(fd, name)
  BY <1>2, <1>8, OpenedPosition
<1>10. CASE t.dir = dir
  <2>1. Files' = Files
    BY <1>1, <1>8, <1>10, SameShown DEF SameFiles
  <2>2. name \in DOMAIN Files
    <3>1. name \in FileNames(dir)
      BY <1>4, <1>6, <1>10 DEF FileNames
    <3> QED BY <1>1, <3>1 DEF Shows
  <2>3. Store!Open(fd, name)
    BY <1>9, <2>1, <2>2 DEF Store!Open
  <2>4. Store!StoreNext
    BY <1>4, <2>3 DEF Store!StoreNext
  <2> QED BY <1>8, <2>4 DEF StoreStep
<1>11. CASE \A j \in Entries : dir[j].fileName # name
  <2>1. ~Named(dir[i]) /\ t.dir[i].fileSize = 0
    BY <1>4, <1>11
  <2>2. /\ dir'[i].fileName = name /\ dir'[i].fileSize = 0
        /\ \A j \in Entries : j # i => dir'[j] = dir[j]
    BY <1>4, <1>8, <2>1
  <2>3. /\ name \notin DOMAIN Files
        /\ Files' = [m \in DOMAIN Files \cup {name} |-> IF m = name THEN << >> ELSE Files[m]]
    <3>1. Enters(name, i)
      BY <1>11, <2>1, <2>2 DEF Enters
    <3> QED BY ZenonT(30), <1>1, <1>4, <1>6, <1>8, <3>1, NewShown
  <2>4. Store!Create(fd, name)
    BY <1>9, <2>3 DEF Store!Create
  <2>5. Store!StoreNext
    BY <1>4, <2>4 DEF Store!StoreNext
  <2> QED BY <1>8, <2>5 DEF StoreStep
<1> QED BY <1>10, <1>11

LEMMA OpenStep ==
  ASSUME StoreInv, NEW name \in Names, NEW flags \in OpenFlags, Open(name, flags)
  PROVE  StoreInv' /\ StoreStep
<1>1. mode = "ok" /\ ~IsOpen(name) /\ io' = << >>
  BY DEF Open
<1>2. PICK L : Rests(Here, OpenFds, L)
  BY <1>1, Begins
<1>3. PICK t : t = fs_open(Here, name, flags)
  OBVIOUS
<1>4. Return(t)
  BY <1>3 DEF Open
<1>5. ~(\E h \in OpenFds : Here.dir[Here.fd_pool[h].index].fileName = name)
  BY <1>1, HereFacts DEF IsOpen
<1>6. OpenedAs(Here, t, OpenFds, name)
  BY <1>2, <1>3, <1>5, OpenEnds
<1>7. wants' \in [Fds -> OpenFlags]
  <2>1. wants \in [Fds -> OpenFlags]
    BY <1>1, Begins
  <2>2. wants' = [wants EXCEPT ![t.ret] = flags] \/ wants' = wants
    BY <1>3 DEF Open
  <2> QED BY <2>1, <2>2
<1>8. CASE t = Panic(Here)
  BY <1>1, <1>4, <1>7, <1>8, PanicStep
<1>9. CASE Quiet(Here, t, OpenFds)
  BY <1>1, <1>4, <1>7, <1>9, QuietStep
<1>10. ASSUME NEW fd, NEW i, Opens(Here, t, OpenFds, fd, i), t.dir[i].fileName = name,
              Here.dir = t.dir \/ \A j \in Entries : Here.dir[j].fileName # name
       PROVE  StoreInv' /\ StoreStep
  <2>1. t.dir = dir \/ \A j \in Entries : dir[j].fileName # name
    BY <1>10, HereFacts
  <2> QED BY <1>1, <1>4, <1>7, <1>10, <2>1, OpensStep
<1> QED BY <1>6, <1>8, <1>9, <1>10 DEF OpenedAs

LEMMA CellsLen ==
  ASSUME NEW c, NEW n \in Nat
  PROVE  Len(CellsOf(c, n)) = n /\ \A k \in 1 .. n : CellsOf(c, n)[k] = c[k - 1]
<1>1. PICK s : s = CellsOf(c, n)
  OBVIOUS
<1>2. s = [k \in 1 .. n |-> c[k - 1]]
  BY <1>1 DEF CellsOf
<1>3. PICK S : S = {c[k - 1] : k \in 1 .. n}
  OBVIOUS
<1>4. s \in [1 .. n -> S]
  BY <1>2, <1>3
<1>5. Len(s) = n
  BY <1>4, AsSeq
<1> QED BY <1>1, <1>2, <1>5

\* d is c with data, of n cells, from o on.
Over(c, d, o, n, data) ==
  \A p \in Nat : d[p] = IF p \in o .. o + n - 1 THEN data[p - o + 1] ELSE c[p]

(* What a write makes of the cells of a file.                              *)
LEMMA CellsPut ==
  ASSUME NEW c, NEW d, NEW size \in Nat, NEW size2 \in Nat, NEW o \in Nat, NEW n \in Nat,
         NEW data, Len(data) = n, o <= size,
         size2 = IF size < o + n THEN o + n ELSE size, Over(c, d, o, n, data)
  PROVE  CellsOf(d, size2) = Store!Overwrite(CellsOf(c, size), o, data)
<1>1. PICK old : old = CellsOf(c, size)
  OBVIOUS
<1>2. Len(old) = size /\ \A k \in 1 .. size : old[k] = c[k - 1]
  BY <1>1, CellsLen
<1>3. Store!Overwrite(old, o, data)
        = [k \in 1 .. size2 |-> IF k \in o + 1 .. o + n THEN data[k - o] ELSE old[k]]
  <2>1. (IF o + Len(data) > Len(old) THEN o + Len(data) ELSE Len(old)) = size2
    BY <1>2
  <2> QED BY <2>1 DEF Store!Overwrite
<1>4. ASSUME NEW k \in 1 .. size2
      PROVE  d[k - 1] = IF k \in o + 1 .. o + n THEN data[k - o] ELSE old[k]
  <2>1. PICK p \in Nat : p = k - 1
    OBVIOUS
  <2>2. CASE k \in o + 1 .. o + n
    <3>1. p \in o .. o + n - 1 /\ p - o + 1 = k - o
      BY <2>1, <2>2
    <3>2. d[p] = data[p - o + 1]
      BY <3>1 DEF Over
    <3> QED BY <2>1, <2>2, <3>1, <3>2
  <2>3. CASE k \notin o + 1 .. o + n
    <3>1. p \notin o .. o + n - 1 /\ k \in 1 .. size
      BY <2>1, <2>3
    <3>2. d[p] = c[p]
      BY <3>1 DEF Over
    <3> QED BY <1>2, <2>1, <2>3, <3>1, <3>2
  <2> QED BY <2>2, <2>3
<1>5. CellsOf(d, size2) = [k \in 1 .. size2 |-> IF k \in o + 1 .. o + n THEN data[k - o] ELSE old[k]]
  BY <1>4 DEF CellsOf
<1> QED BY <1>1, <1>3, <1>5

(* What a read takes from the cells of a file.                             *)
LEMMA CellsTaken ==
  ASSUME NEW c, NEW size \in Nat, NEW o \in Nat, NEW len \in Nat, o <= size,
         NEW n, n = Min({len, size - o}), NEW S, NEW buf \in Seq(S), Len(buf) = n,
         ChunkIs(buf, n, c, o)
  PROVE  buf = SubSeq(CellsOf(c, size), o + 1,
                      IF o + len < Len(CellsOf(c, size)) THEN o + len ELSE Len(CellsOf(c, size)))
<1>1. PICK old : old = CellsOf(c, size)
  OBVIOUS
<1>2. Len(old) = size /\ \A k \in 1 .. size : old[k] = c[k - 1]
  BY <1>1, CellsLen
<1>3. n \in Nat /\ (IF o + len < size THEN o + len ELSE size) = o + n
  <2>1. {len, size - o} \in SUBSET Nat /\ {len, size - o} # {}
    OBVIOUS
  <2>2. n \in {len, size - o} /\ n <= size - o /\ n <= len
    BY <2>1, MinIsLeast
  <2> QED BY <2>2
<1>4. o + n <= size
  <2>1. (IF o + len < size THEN o + len ELSE size) <= size
    OBVIOUS
  <2> QED BY <1>3, <2>1
<1>5. SubSeq(old, o + 1, o + n) = [k \in 1 .. n |-> old[o + k]]
  <2>1. PICK a \in Int, b \in Int : a = o + 1 /\ b = o + n
    BY <1>3
  <2>2. PICK T : T = {old[k] : k \in a .. b}
    OBVIOUS
  <2>3. PICK q : q = SubSeq(old, a, b)
    OBVIOUS
  <2>4. \A k \in a .. b : old[k] \in T
    BY <2>2
  <2>5. /\ q \in Seq(T) /\ Len(q) = IF a <= b THEN b - a + 1 ELSE 0
        /\ \A k \in 1 .. b - a + 1 : q[k] = old[a + k - 1]
    BY <2>3, <2>4
  <2>6. Len(q) = n /\ b - a + 1 = n
    BY <1>3, <2>1, <2>5
  <2>7. \A k \in 1 .. n : a + k - 1 = o + k
    BY <1>3, <2>1
  <2>8. \A k \in 1 .. n : q[k] = old[o + k]
    BY <2>5, <2>6, <2>7
  <2>9. q = [k \in 1 .. n |-> q[k]]
    BY <2>5, <2>6
  <2> QED BY <2>1, <2>3, <2>8, <2>9
<1>6. ASSUME NEW k \in 1 .. n PROVE buf[k] = old[o + k]
  <2>1. o + k \in 1 .. size /\ (o + k) - 1 = o + k - 1
    BY <1>3, <1>4
  <2>2. buf[k] = c[o + k - 1]
    BY DEF ChunkIs
  <2> QED BY <1>2, <2>1, <2>2
<1>7. buf = [k \in 1 .. n |-> buf[k]]
  OBVIOUS
<1>8. buf = SubSeq(old, o + 1, o + n)
  BY <1>5, <1>6, <1>7
<1> QED BY <1>1, <1>2, <1>3, <1>8

(* A chunk has been put into a file.                                       *)
LEMMA PutShown ==
  ASSUME NEW C, NEW D, Shows(C), Shows(D)', Distinct(dir), SameNames(dir, dir'),
         dir \in DirType, dir' \in DirType,
         NEW i \in Entries, Named(dir[i]), NEW o \in Nat, o <= dir[i].fileSize,
         NEW data, NEW n \in Nat, n = Len(data), Puts(C, D, i, o, data, 0, n),
         \A j \in Entries : j # i => dir'[j].fileSize = dir[j].fileSize,
         dir'[i].fileSize = IF dir[i].fileSize < o + n THEN o + n ELSE dir[i].fileSize
  PROVE  Files' = [Files EXCEPT ![dir[i].fileName] = Store!Overwrite(@, o, data)]
<1>1. PICK f, g, name : f = Files /\ g = Files' /\ name = dir[i].fileName
  OBVIOUS
<1>2. FileNames(dir') = FileNames(dir)
  BY DEF FileNames, SameNames
<1>3. /\ f = [m \in FileNames(dir) |-> f[m]]
      /\ g = [m \in FileNames(dir) |-> g[m]]
  BY <1>1, <1>2 DEF Shows
<1>4. g[name] = Store!Overwrite(f[name], o, data)
  <2>1. PICK size, size2 : size = dir[i].fileSize /\ size2 = dir'[i].fileSize
    OBVIOUS
  <2>2. size \in Nat /\ size2 \in Nat
    <3>1. size \in 0 .. MaxFileSize /\ size2 \in 0 .. MaxFileSize
      BY <2>1 DEF DirType
    <3> QED BY <3>1
  <2>3. PICK c, d : c = C[i] /\ d = D[i]
    OBVIOUS
  <2>4. Over(c, d, o, n, data)
    <3>1. ASSUME NEW p \in Nat
          PROVE  d[p] = IF p \in o .. o + n - 1 THEN data[p - o + 1] ELSE c[p]
      <4>1. D[i][p] = IF i = i /\ p \in o .. o + n - 1 THEN data[0 + p - o + 1] ELSE C[i][p]
        BY DEF Puts
      <4>2. 0 + p - o + 1 = p - o + 1
        OBVIOUS
      <4> QED BY <2>3, <4>1, <4>2
    <3> QED BY <3>1 DEF Over
  <2>5. size2 = IF size < o + n THEN o + n ELSE size
    BY <2>1
  <2>6. CellsOf(d, size2) = Store!Overwrite(CellsOf(c, size), o, data)
    <3>1. o <= size /\ Len(data) = n
      BY <2>1
    <3> QED BY <2>2, <2>4, <2>5, <3>1, CellsPut
  <2>7. f[name] = CellsOf(c, size)
    BY <1>1, <2>1, <2>3 DEF Shows
  <2>8. g[name] = CellsOf(d, size2)
    <3>1. dir'[i].fileName = name
      BY <1>1 DEF SameNames
    <3>2. Named(dir'[i])
      BY <1>1, <3>1, Zenon DEF Named
    <3> QED BY <1>1, <2>1, <2>3, <3>1, <3>2 DEF Shows
  <2> QED BY <2>6, <2>7, <2>8
<1>5. ASSUME NEW m \in FileNames(dir), m # name PROVE g[m] = f[m]
  <2>1. PICK j \in Entries : dir[j].fileName = m /\ Named(dir[j])
    BY Zenon DEF FileNames, Named
  <2>2. j # i
    BY <1>1, <1>5, <2>1
  <2>3. PICK size : size = dir[j].fileSize
    OBVIOUS
  <2>4. f[m] = CellsOf(C[j], size)
    BY <1>1, <2>1, <2>3 DEF Shows
  <2>5. g[m] = CellsOf(D[j], size)
    <3>1. dir'[j].fileName = m /\ dir'[j].fileSize = size
      BY <2>1, <2>2, <2>3 DEF SameNames
    <3>2. Named(dir'[j])
      BY <2>1, <3>1, Zenon DEF Named
    <3> QED BY <1>1, <3>1, <3>2 DEF Shows
  <2>6. \A p \in Nat : D[j][p] = C[j][p]
    BY <2>2 DEF Puts
  <2>7. size \in Nat
    <3>1. size \in 0 .. MaxFileSize
      BY <2>3 DEF DirType
    <3> QED BY <3>1
  <2>8. CellsOf(D[j], size) = CellsOf(C[j], size)
    <3>1. \A k \in 1 .. size : k - 1 \in Nat
      BY <2>7
    <3>2. \A k \in 1 .. size : D[j][k - 1] = C[j][k - 1]
      BY <2>6, <3>1
    <3> QED BY <3>2 DEF CellsOf
  <2> QED BY <2>4, <2>5, <2>8
<1>6. g = [f EXCEPT ![name] = Store!Overwrite(@, o, data)]
  BY <1>3, <1>4, <1>5
<1> QED BY <1>1, <1>6

LEMMA WroteStep ==
  ASSUME StoreInv, mode = "ok", NEW fd \in OpenFds, NEW data \in Seq(Values),
         NEW L, NEW C, Rests(Here, OpenFds, L), Shows(C),
         Stored(image.data, dir, fd_pool, OpenFds, L, C),
         NEW t, NEW G, Works(t, OpenFds, G, fd_pool, L), SameOpen(Here, t),
         Wrote(Here, t, OpenFds, L, G, fd, data, 0, Len(data)),
         Return(t), wants' \in [Fds -> OpenFlags], io' = data
  PROVE  StoreInv' /\ StoreStep
<1>1. /\ FSInv /\ Distinct(dir) /\ fd_pool \in [Fds -> FdType] /\ dir \in DirType
      /\ DOMAIN io' = 1 .. Len(io')
  BY Begins
<1>2. PICK i, o, n : i = fd_pool[fd].index /\ o = fd_pool[fd].offset /\ n = Len(data)
  OBVIOUS
<1>3. i \in Entries /\ o \in Nat /\ n \in Nat /\ fd \in Fds
  BY <1>1, <1>2 DEF OpenFds, FdType
<1>4. o <= dir[i].fileSize
  BY <1>2, HereFacts DEF Rests
<1>5. /\ Moves(Here, t, fd, n) /\ Stretched(Here, t, fd, n) /\ SameNames(dir, t.dir)
      /\ Writes(Here, t, OpenFds, L, G, fd, data, 0, n)
  BY <1>2, HereFacts DEF Wrote
<1>6. PICK D : D = [e \in Entries |-> [p \in Nat |->
                      IF e = i /\ p \in o .. o + n - 1 THEN data[0 + p - o + 1] ELSE C[e][p]]]
  OBVIOUS
<1>7. Puts(C, D, i, o, data, 0, n)
  BY <1>6 DEF Puts
<1>8. Stored(t.image.data, t.dir, t.fd_pool, OpenFds, G, D)
  BY <1>2, <1>5, <1>7, HereFacts DEF Writes
<1>9. Rests(t, OpenFds, G)
  BY WorkedRests
<1>10. Distinct(t.dir)
  <2>1. ASSUME NEW j \in Entries, NEW k \in Entries, Named(t.dir[j]), t.dir[k].fileName = t.dir[j].fileName
        PROVE  j = k
    <3>1. dir[k].fileName = dir[j].fileName /\ t.dir[j].fileName = dir[j].fileName
      BY <1>5, <2>1 DEF SameNames
    <3>2. Named(dir[j])
      BY <2>1, <3>1, Zenon DEF Named
    <3> QED BY <1>1, <3>1, <3>2 DEF Distinct
  <2> QED BY <2>1 DEF Distinct
<1>11. /\ StoreInv' /\ Shows(D)' /\ OpenFds' = OpenFds
       /\ dir' = t.dir /\ fd_pool' = t.fd_pool
  BY <1>1, <1>8, <1>9, <1>10, Reached
<1>12. PICK name : name = dir[i].fileName
  OBVIOUS
<1>13. /\ Positions[fd].name = name /\ Positions[fd].pos = o
       /\ Positions[fd] # Store!Closed /\ Named(dir[i])
  BY <1>2, <1>12, PositionIs
<1>14. Files' = [Files EXCEPT ![name] = Store!Overwrite(@, o, data)]
  <2>1. dir' \in DirType
    BY <1>9, <1>11 DEF Rests, States
  <2>2. /\ \A j \in Entries : j # i => dir'[j].fileSize = dir[j].fileSize
        /\ dir'[i].fileSize = IF dir[i].fileSize < o + n THEN o + n ELSE dir[i].fileSize
    BY <1>2, <1>5, <1>11, HereFacts DEF Stretched
  <2>3. SameNames(dir, dir')
    BY <1>5, <1>11
  <2>4. Shows(D)' /\ Named(dir[i]) /\ Distinct(dir) /\ dir \in DirType
    BY <1>1, <1>11, <1>13
  <2>5. Files' = [Files EXCEPT ![dir[i].fileName] = Store!Overwrite(@, o, data)]
    BY SMTT(30), <1>2, <1>3, <1>4, <1>7, <2>1, <2>2, <2>3, <2>4, PutShown
  <2> QED BY <1>12, <2>5
<1>15. Positions' = [Positions EXCEPT ![fd].pos = o + n]
  <2>1. MovesTo(Here, t, fd, o + n)
    BY <1>2, <1>5, HereFacts DEF Moves, MovesTo
  <2> QED BY <1>1, <1>11, <2>1, MovedPosition
<1>16. Store!Write(fd, io')
  <2>1. Files' = [Files EXCEPT ![Positions[fd].name] = Store!Overwrite(@, Positions[fd].pos, io')]
    BY <1>13, <1>14
  <2>2. Positions' = [Positions EXCEPT ![fd].pos = @ + Len(io')]
    BY <1>2, <1>13, <1>15
  <2> QED BY <1>13, <2>1, <2>2 DEF Store!Write
<1>17. Store!StoreNext
  <2>1. io' \in Seq(Values)
    OBVIOUS
  <2> QED BY <1>3, <1>16, <2>1 DEF Store!StoreNext
<1> QED BY <1>11, <1>17 DEF StoreStep

LEMMA WriteStep ==
  ASSUME StoreInv, mode' # "overrun", NEW fd \in Fds, NEW data \in Data(fd), Write(fd, data)
  PROVE  StoreInv' /\ StoreStep
<1>1. mode = "ok" /\ fd \in OpenFds /\ Room(fd, data) /\ wants' = wants
  BY DEF Write
<1>2. PICK L, C : /\ Rests(Here, OpenFds, L) /\ Works(Here, OpenFds, L, fd_pool, L)
                  /\ Stored(image.data, dir, fd_pool, OpenFds, L, C) /\ Shows(C)
  BY <1>1, Begins
<1>3. fd_pool \in [Fds -> FdType] /\ wants' \in [Fds -> OpenFlags]
  BY <1>1, Begins
<1>4. data \in Seq(Values) /\ fd_pool[fd].offset + Len(data) <= MaxFileSize
  BY <1>1, <1>3, DataIsSeq
<1>5. PICK t : t = fs_write(Here, fd, data)
  OBVIOUS
<1>6. Return(t) /\ io' = IF mode' = "ok" THEN data ELSE << >>
  BY <1>5 DEF Write
<1>7. mode' = t.mode
  BY <1>6 DEF Return
<1>8. ASSUME Here.fd_pool[fd].writable PROVE StoreInv' /\ StoreStep
  <2>1. Here.fd_pool[fd].offset + Len(data) <= MaxFileSize
    BY <1>4, HereFacts
  <2>2. \/ Lost(t, OpenFds, fd_pool, L)
        \/ \E G : /\ Works(t, OpenFds, G, fd_pool, L) /\ SameOpen(Here, t)
                  /\ Wrote(Here, t, OpenFds, L, G, fd, data, 0, Len(data))
    BY <1>1, <1>2, <1>4, <1>5, <1>8, <2>1, WriteWorks
  <2>3. ~Lost(t, OpenFds, fd_pool, L)
    BY <1>7 DEF Lost
  <2>4. PICK G : /\ Works(t, OpenFds, G, fd_pool, L) /\ SameOpen(Here, t)
                 /\ Wrote(Here, t, OpenFds, L, G, fd, data, 0, Len(data))
    BY <2>2, <2>3
  <2>5. io' = data
    BY <1>6, <1>7, <2>4 DEF Works, Run
  <2> QED BY <1>1, <1>2, <1>3, <1>4, <1>6, <2>4, <2>5, WroteStep
<1>9. ASSUME ~Here.fd_pool[fd].writable PROVE StoreInv' /\ StoreStep
  <2>1. t = Panic(Here)
    BY <1>5, <1>9, Zenon DEF fs_write
  <2>2. t.mode = "panic"
    BY <1>2, <2>1, PanicFails
  <2>3. io' = << >>
    BY <1>6, <1>7, <2>2
  <2> QED BY <1>1, <1>3, <1>6, <2>1, <2>3, PanicStep
<1> QED BY <1>8, <1>9, Zenon

LEMMA ReadStepOf ==
  ASSUME StoreInv, mode = "ok", NEW fd \in OpenFds, NEW len \in ReadLens,
         NEW L, NEW C, Rests(Here, OpenFds, L), Shows(C),
         Stored(image.data, dir, fd_pool, OpenFds, L, C),
         NEW n, n = Min({len, dir[fd_pool[fd].index].fileSize - fd_pool[fd].offset}),
         NEW r, NEW t, t = r.s, NEW G, Works(t, OpenFds, G, fd_pool, L), SameOpen(Here, t),
         HasRead(Here, r, OpenFds, L, G, fd, n),
         Return(t), wants' \in [Fds -> OpenFlags], io' = r.buf
  PROVE  StoreInv' /\ StoreStep
<1>1. FSInv /\ Distinct(dir) /\ fd_pool \in [Fds -> FdType] /\ dir \in DirType
  BY Begins
<1>2. PICK i, o, size : i = fd_pool[fd].index /\ o = fd_pool[fd].offset /\ size = dir[i].fileSize
  OBVIOUS
<1>3. i \in Entries /\ o \in Nat /\ fd \in Fds /\ size \in Nat /\ o <= size /\ len \in Nat
  <2>1. i \in Entries /\ o \in Nat /\ fd \in Fds
    BY <1>1, <1>2 DEF OpenFds, FdType
  <2>2. size \in 0 .. MaxFileSize
    BY <1>1, <1>2, <2>1 DEF DirType
  <2>3. o <= size
    BY <1>2, HereFacts DEF Rests
  <2>4. len \in Nat
    BY FileSysAssumption
  <2> QED BY <2>1, <2>2, <2>3, <2>4
<1>4. /\ Moves(Here, t, fd, n) /\ SameFiles(dir, t.dir)
      /\ r.buf \in Seq(Values \cup {0}) /\ Len(r.buf) = n
      /\ Copies(Here, t, OpenFds, L, G, fd, r.buf, n)
  BY HereFacts DEF HasRead
<1>5. Stored(t.image.data, t.dir, t.fd_pool, OpenFds, G, C) /\ ChunkIs(r.buf, n, C[i], o)
  BY <1>2, <1>4, HereFacts DEF Copies
<1>6. Rests(t, OpenFds, G)
  BY WorkedRests
<1>7. Distinct(t.dir)
  <2>1. ASSUME NEW j \in Entries, NEW k \in Entries, Named(t.dir[j]), t.dir[k].fileName = t.dir[j].fileName
        PROVE  j = k
    <3>1. dir[k].fileName = dir[j].fileName /\ t.dir[j].fileName = dir[j].fileName
      BY <1>4, <2>1 DEF SameFiles
    <3>2. Named(dir[j])
      BY <2>1, <3>1, Zenon DEF Named
    <3> QED BY <1>1, <3>1, <3>2 DEF Distinct
  <2> QED BY <2>1 DEF Distinct
<1>8. DOMAIN io' = 1 .. Len(io')
  BY <1>4
<1>9. /\ StoreInv' /\ Shows(C)' /\ OpenFds' = OpenFds
      /\ dir' = t.dir /\ fd_pool' = t.fd_pool
  BY <1>1, <1>5, <1>6, <1>7, <1>8, Reached
<1>10. Files' = Files
  BY <1>4, <1>9, SameShown
<1>11. PICK name : name = dir[i].fileName
  OBVIOUS
<1>12. /\ Positions[fd].name = name /\ Positions[fd].pos = o
       /\ Positions[fd] # Store!Closed /\ Named(dir[i])
  BY <1>2, <1>11, PositionIs
<1>13. Positions' = [Positions EXCEPT ![fd].pos = o + n]
  <2>1. MovesTo(Here, t, fd, o + n)
    BY <1>2, <1>4, HereFacts DEF Moves, MovesTo, SameFiles, SameNames
  <2> QED BY <1>1, <1>9, <2>1, MovedPosition
<1>14. PICK old : old = Files[name]
  OBVIOUS
<1>15. old = CellsOf(C[i], size)
  BY <1>2, <1>3, <1>11, <1>12, <1>14 DEF Shows
<1>16. r.buf = SubSeq(old, o + 1, IF o + len < Len(old) THEN o + len ELSE Len(old))
  <2>1. PICK c, buf, S : c = C[i] /\ buf = r.buf /\ S = Values \cup {0}
    OBVIOUS
  <2>2. n = Min({len, size - o}) /\ buf \in Seq(S) /\ Len(buf) = n /\ ChunkIs(buf, n, c, o)
    BY <1>2, <1>4, <1>5, <2>1
  <2>3. buf = SubSeq(CellsOf(c, size), o + 1,
                     IF o + len < Len(CellsOf(c, size)) THEN o + len ELSE Len(CellsOf(c, size)))
    BY <1>3, <2>2, CellsTaken
  <2> QED BY <1>15, <2>1, <2>3
<1>17. Store!Read(fd, len)
  <2>1. io' = SubSeq(Files[Positions[fd].name], Positions[fd].pos + 1,
                     IF Positions[fd].pos + len < Len(Files[Positions[fd].name])
                       THEN Positions[fd].pos + len ELSE Len(Files[Positions[fd].name]))
    BY <1>12, <1>14, <1>16
  <2>2. Positions' = [Positions EXCEPT ![fd].pos = @ + Len(io')]
    BY <1>4, <1>12, <1>13
  <2> QED BY <1>10, <1>12, <2>1, <2>2, Zenon DEF Store!Read
<1>18. Store!StoreNext
  BY <1>3, <1>17 DEF Store!StoreNext
<1> QED BY <1>9, <1>18 DEF StoreStep

LEMMA ReadCallStep ==
  ASSUME StoreInv, mode' # "overrun", NEW fd \in Fds, NEW len \in ReadLens, Read(fd, len)
  PROVE  StoreInv' /\ StoreStep
<1>1. mode = "ok" /\ fd \in OpenFds /\ wants' = wants
  BY DEF Read
<1>2. PICK L, C : /\ Rests(Here, OpenFds, L) /\ Works(Here, OpenFds, L, fd_pool, L)
                  /\ Stored(image.data, dir, fd_pool, OpenFds, L, C) /\ Shows(C)
  BY <1>1, Begins
<1>3. wants' \in [Fds -> OpenFlags]
  BY <1>1, Begins
<1>4. PICK r : r = fs_read(Here, fd, len)
  OBVIOUS
<1>5. len \in Nat \ {0}
  BY FileSysAssumption
<1>6. PICK n : n = Min({len, Here.dir[Here.fd_pool[fd].index].fileSize - Here.fd_pool[fd].offset})
  OBVIOUS
<1>7. PICK t : t = r.s
  OBVIOUS
<1>8. Return(t) /\ io' = IF mode' = "ok" THEN r.buf ELSE << >>
  BY <1>4, <1>7 DEF Read
<1>9. mode' = t.mode
  BY <1>8 DEF Return
<1>10. \/ Lost(r.s, OpenFds, fd_pool, L)
       \/ \E G : Works(r.s, OpenFds, G, fd_pool, L) /\ SameOpen(Here, r.s)
                 /\ HasRead(Here, r, OpenFds, L, G, fd, n)
  BY <1>1, <1>2, <1>4, <1>5, <1>6, ReadWorks
<1>11. ~Lost(t, OpenFds, fd_pool, L)
  BY <1>9 DEF Lost
<1>12. PICK G : Works(t, OpenFds, G, fd_pool, L) /\ SameOpen(Here, t)
                /\ HasRead(Here, r, OpenFds, L, G, fd, n)
  BY <1>7, <1>10, <1>11
<1>13. io' = r.buf
  BY <1>8, <1>9, <1>12 DEF Works, Run
<1>14. n = Min({len, dir[fd_pool[fd].index].fileSize - fd_pool[fd].offset})
  BY <1>6, HereFacts
<1> QED BY <1>1, <1>2, <1>3, <1>7, <1>8, <1>12, <1>13, <1>14, ReadStepOf

(* Every step is one of the store, until a write runs over the bitmap.     *)
LEMMA StoreSteps ==
  ASSUME StoreInv, OnlyRewinds, mode' # "overrun", [FSNext]_fsVars
  PROVE  StoreInv' /\ StoreStep
<1>1. ASSUME NEW name \in Names, NEW flags \in OpenFlags, Open(name, flags)
      PROVE  StoreInv' /\ StoreStep
  BY <1>1, OpenStep
<1>2. ASSUME NEW fd \in Fds, NEW data \in Data(fd), Write(fd, data)
      PROVE  StoreInv' /\ StoreStep
  BY <1>2, WriteStep
<1>3. ASSUME NEW fd \in Fds, NEW len \in ReadLens, Read(fd, len)
      PROVE  StoreInv' /\ StoreStep
  BY <1>3, ReadCallStep
<1>4. ASSUME NEW fd \in Fds, NEW offset \in Offsets, NEW whence \in Whences,
             Seek(fd, offset, whence)
      PROVE  StoreInv' /\ StoreStep
  BY <1>4, SeekStep
<1>5. ASSUME NEW fd \in Fds, Close(fd) PROVE StoreInv' /\ StoreStep
  BY <1>5, CloseStep
<1>6. CASE NextProgram
  BY <1>6, NextProgramStep
<1>7. CASE Stopped \/ UNCHANGED fsVars
  BY <1>7, StutterStep DEF Stopped
<1> QED BY <1>1, <1>2, <1>3, <1>4, <1>5, <1>6, <1>7 DEF FSNext

(* The formatted disk is the empty store.                                  *)
LEMMA StoreBegins ==
  ASSUME FSInit
  PROVE  StoreInv /\ Store!StoreInit
<1>1. FSInv
  BY InitInv
<1>2. /\ fd_pool = [fd \in Fds |-> ZeroFd] /\ dir = Formatted.dir /\ io = << >> /\ mode = "ok"
  BY DEF FSInit
<1>3. OpenFds = {}
  BY <1>2, ZeroFacts DEF OpenFds
<1>4. \A e \in Entries : ~Named(dir[e]) /\ dir[e].fileSize = 0
  BY <1>2, FormattedFacts
<1>5. Distinct(dir)
  BY <1>4 DEF Distinct
<1>6. \E L, C : FilesHold(L, C)
  <2>1. PICK L : Rests(Here, OpenFds, L) /\ Mapped(L)
    BY <1>1, <1>2, InvFacts
  <2>2. PICK C : C = 0
    OBVIOUS
  <2>3. Stored(image.data, dir, fd_pool, OpenFds, L, C)
    <3>1. \A i \in Entries, p \in Nat : ~(p < dir[i].fileSize)
      BY <1>4
    <3> QED BY <3>1 DEF Stored
  <2> QED BY <2>1, <2>3 DEF FilesHold
<1>7. Files = << >>
  <2>1. FileNames(dir) = {}
    <3>1. ASSUME NEW i \in Entries PROVE dir[i].fileName \in {""}
      <4>1. dir[i].fileName = ""
        BY <1>4, Zenon DEF Named
      <4> QED BY <4>1, Zenon
    <3> QED BY <3>1, Zenon DEF FileNames
  <2>2. PICK f : f = Files
    OBVIOUS
  <2>3. Files = [name \in FileNames(dir) |-> Files[name]]
    <3>1. PICK L, C : FilesHold(L, C)
      BY <1>6
    <3> QED BY <1>1, <1>5, <3>1, FilesShown DEF Shows
  <2>4. f = [name \in {} |-> f[name]]
    BY <2>1, <2>2, <2>3
  <2>5. f = << >>
    BY <2>4
  <2> QED BY <2>2, <2>5
<1>8. Positions = [h \in Fds |-> Store!Closed]
  BY <1>3 DEF Positions, Store!Closed
<1> QED BY <1>1, <1>2, <1>5, <1>6, <1>7, <1>8 DEF StoreInv, Store!StoreInit

(* While programs only rewind, and until a write runs over the bitmap,     *)
(* fs.c implements files that are sequences of values: a read returns what *)
(* the last writes of those cells put there, through any number of         *)
(* descriptors, calls that cross blocks and inodes, closing, reopening and *)
(* new programs.  (A write that finds no block left breaks off half way,   *)
(* with a part of the file overwritten on the disk.)                       *)
THEOREM SpecImplementsStore ==
  ASSUME OnlyRewinds
  PROVE  FSSpec /\ [](mode # "overrun") => ImplementsStore
<1>1. FSInit => StoreInv /\ Store!StoreInit
  BY StoreBegins
<1>2. StoreInv /\ (mode # "overrun")' /\ [FSNext]_fsVars
        => StoreInv' /\ [Store!StoreNext]_(Store!storeVars)
  BY StoreSteps DEF StoreStep
<1> QED BY <1>1, <1>2, PTL DEF FSSpec, ImplementsStore, Store!StoreSpec

=============================================================================
