----------------------------- MODULE IdeProofs -----------------------------
(***************************************************************************)
(* Proofs about IdeDisk, for a disk of any size, commands of any length    *)
(* and any failures.                                                       *)
(*                                                                         *)
(* The argument relates the two sides of the data register.  While a call  *)
(* is in its loop and nothing has failed, the disk is at sector idx +      *)
(* total - left and has `left' sectors to go, or, if it was given a sector *)
(* to write and has not written it, one less and one more.  What was moved *)
(* is what is on the disk.  A call that is over leaves the disk ready, or  *)
(* with the last sector of a write and nothing else.                       *)
(***************************************************************************)
EXTENDS IdeDisk, TLAPS

\* Between two calls the disk has nothing to do but the last sector of a write.
Settled ==
  /\ dev # "data"
  /\ dev = "busy" => cmd = "write" /\ latch # << >> /\ rest = 1

DiskInv ==
  /\ dev = "ready" => latch = << >>
  /\ dev = "data" => latch = << >>
  /\ dev # "ready" => ~err /\ rest >= 1 /\ pos + rest <= NSECT
  /\ latch # << >> => cmd = "write"

StartInv ==
  pc = "start" =>
    /\ idx + total <= NSECT /\ total >= 1 /\ left = total
    /\ Len(buf) = IF op = "ide_write" THEN total ELSE 0
    /\ Settled

ReadSoFar(n) == \A k \in 1 .. n : buf[k] = media[idx + k - 1]

ReadInv ==
  pc = "loop" /\ op # "ide_write" =>
    /\ idx + total <= NSECT /\ cmd = "read" /\ media = before
    /\ Len(buf) = total - left
    /\ err => dev = "ready"
    /\ ~err => /\ dev # "ready" /\ pos = idx + total - left /\ rest = left
               /\ ReadSoFar(total - left)

WriteInv ==
  pc = "loop" /\ op = "ide_write" =>
    /\ idx + total <= NSECT /\ cmd = "write"
    /\ Len(buf) = total
    /\ err => dev = "ready"
    /\ ~err /\ latch = << >> =>
         /\ dev # "ready" /\ pos = idx + total - left /\ rest = left
         /\ Holds(total - left)
    /\ latch # << >> =>
         /\ total - left >= 1 /\ latch = <<buf[total - left]>>
         /\ dev = "busy" /\ pos = idx + total - left - 1 /\ rest = left + 1
         /\ Holds(total - left - 1)

IdleInv ==
  pc = "idle" =>
    /\ Settled
    /\ op # "ide_write" => dev = "ready"
    /\ ret = 0 /\ total > 0 /\ op # "ide_write" /\ ~err =>
         Len(buf) = total /\ media = before /\ ReadSoFar(total)
    /\ ret = 0 /\ op = "ide_read" => ~err
    /\ ret = 0 /\ op = "ide_write" =>
         /\ total >= 1 /\ Len(buf) = total /\ idx + total <= NSECT
         /\ dev = "busy" => /\ pos = idx + total - 1 /\ latch = <<buf[total]>>
                            /\ Holds(total - 1)
         /\ dev = "ready" /\ err => Holds(total - 1)
         /\ dev = "ready" /\ ~err => Holds(total)

IdeInv ==
  IdeTypeOK /\ DiskInv /\ StartInv /\ ReadInv /\ WriteInv /\ IdleInv

-----------------------------------------------------------------------------

LEMMA IdeInitInv == IdeInit => IdeInv
<1> SUFFICES ASSUME IdeInit PROVE IdeInv
  OBVIOUS
<1>1. IdeTypeOK
  <2>1. /\ buf \in Seq(Data)
        /\ latch \in {<< >>} \cup {<<d>> : d \in Data}
    BY DEF IdeInit
  <2>2. /\ idx \in Sectors /\ total \in 0 .. MAX_COUNT /\ left \in 0 .. total
        /\ pos \in 0 .. NSECT /\ rest \in 0 .. MAX_COUNT
    BY IdeAssumption DEF IdeInit, Sectors
  <2> QED
    BY <2>1, <2>2 DEF IdeInit, IdeTypeOK
<1>2. DiskInv /\ StartInv /\ ReadInv /\ WriteInv
  BY DEF IdeInit, DiskInv, StartInv, ReadInv, WriteInv
<1>3. IdleInv
  BY DEF IdeInit, IdleInv, Settled
<1> QED
  BY <1>1, <1>2, <1>3 DEF IdeInv

\* A new call finds the disk settled and leaves it alone.
LEMMA CallInv ==
  ASSUME IdeInv, NEW o \in {"ide_read", "ide_write", "readsect"}, NEW sector \in Sectors,
         NEW num \in 1 .. MAX_COUNT, sector + num <= NSECT, NEW src \in Seq(Data),
         Len(src) = IF o = "ide_write" THEN num ELSE 0, Call(o, sector, num, src)
  PROVE  IdeInv'
<1> USE DEF Call, disk
<1>1. IdeTypeOK'
  <2>1. num \in 0 .. MAX_COUNT /\ num \in 0 .. num /\ num > 0
    BY IdeAssumption
  <2> QED
    BY <2>1 DEF IdeInv, IdeTypeOK
<1>2. DiskInv'
  BY DEF IdeInv, DiskInv
<1>3. StartInv'
  BY DEF IdeInv, IdleInv, StartInv, Settled
<1>4. ReadInv' /\ WriteInv' /\ IdleInv'
  BY DEF ReadInv, WriteInv, IdleInv
<1> QED
  BY <1>1, <1>2, <1>3, <1>4 DEF IdeInv

LEMMA NewCallInv == IdeInv /\ NewCall => IdeInv'
<1> SUFFICES ASSUME IdeInv, NewCall PROVE IdeInv'
  OBVIOUS
<1>0. << >> \in Seq(Data) /\ Len(<< >>) = 0
  OBVIOUS
<1>1. ASSUME NEW s \in Sectors, NEW n \in 1 .. MAX_COUNT, s + n <= NSECT, ide_read(s, n)
      PROVE  IdeInv'
  <2>1. Call("ide_read", s, n, << >>)
    BY <1>1 DEF ide_read
  <2>2. Len(<< >>) = IF "ide_read" = "ide_write" THEN n ELSE 0
    BY <1>0
  <2>3. "ide_read" \in {"ide_read", "ide_write", "readsect"}
    OBVIOUS
  <2> QED
    BY <1>0, <1>1, <2>1, <2>2, <2>3, CallInv
<1>2. ASSUME NEW s \in Sectors, NEW n \in 1 .. MAX_COUNT, s + n <= NSECT,
             NEW src \in [1 .. n -> Data], ide_write(s, src)
      PROVE  IdeInv'
  <2>1. src \in Seq(Data) /\ Len(src) = n
    BY <1>2
  <2> QED
    BY <1>2, <2>1, CallInv DEF ide_write
<1>3. ASSUME NEW s \in Sectors, readsect(s)
      PROVE  IdeInv'
  <2>1. 1 \in 1 .. MAX_COUNT /\ s + 1 <= NSECT
    BY IdeAssumption DEF Sectors
  <2>2. Call("readsect", s, 1, << >>)
    BY <1>3 DEF readsect
  <2>3. Len(<< >>) = IF "readsect" = "ide_write" THEN 1 ELSE 0
    BY <1>0
  <2>4. "readsect" \in {"ide_read", "ide_write", "readsect"}
    OBVIOUS
  <2> QED
    BY <1>0, <1>3, <2>1, <2>2, <2>3, <2>4, CallInv
<1> QED
  BY <1>1, <1>2, <1>3 DEF NewCall

LEMMA GiveUpInv == IdeInv /\ GiveUp => IdeInv'
<1> SUFFICES ASSUME IdeInv, GiveUp PROVE IdeInv'
  OBVIOUS
<1> USE DEF GiveUp, disk
<1>1. IdeTypeOK'
  BY DEF IdeInv, IdeTypeOK
<1>2. DiskInv' /\ StartInv' /\ ReadInv' /\ WriteInv'
  BY DEF IdeInv, DiskInv, StartInv, ReadInv, WriteInv
<1>3. IdleInv'
  BY DEF IdeInv, IdeTypeOK, DiskInv, IdleInv, Settled, Failed, ide_wait_ready
<1> QED
  BY <1>1, <1>2, <1>3 DEF IdeInv

LEMMA IssueInv == IdeInv /\ Issue => IdeInv'
<1> SUFFICES ASSUME IdeInv, Issue PROVE IdeInv'
  OBVIOUS
<1>1. /\ dev # "busy" /\ dev' = "busy" /\ err' = FALSE /\ latch' = << >>
      /\ media' = media /\ before' = media /\ pos' = idx
      /\ cmd' = IF op = "ide_write" THEN "write" ELSE "read"
      /\ pc = "start" /\ pc' = "loop"
      /\ UNCHANGED <<op, idx, total, left, buf, ret>>
  BY DEF Issue, Command, ide_wait_ready
<1>2. rest' = total
  <2>1. total \in 1 .. MAX_COUNT
    BY <1>1 DEF IdeInv, IdeTypeOK, StartInv
  <2>2. rest' = IF total % MAX_COUNT = 0 THEN MAX_COUNT ELSE total % MAX_COUNT
    BY DEF Issue, Command, ide_wait_ready
  <2>3. total < MAX_COUNT => total % MAX_COUNT = total
    BY <2>1, IdeAssumption
  <2>4. MAX_COUNT % MAX_COUNT = 0
    BY IdeAssumption
  <2> QED
    BY <2>1, <2>2, <2>3, <2>4, IdeAssumption
<1>3. IdeTypeOK'
  <2>1. /\ idx \in Sectors /\ total \in 0 .. MAX_COUNT /\ left \in 0 .. total
        /\ buf \in Seq(Data) /\ ret \in {0, -1} /\ left > 0
        /\ op \in {"ide_read", "ide_write", "readsect"} /\ media \in [Sectors -> Data]
    BY <1>1 DEF IdeInv, IdeTypeOK
  <2>2. pos' \in 0 .. NSECT /\ rest' \in 0 .. MAX_COUNT
    BY <1>1, <1>2, <2>1, IdeAssumption DEF Sectors
  <2> QED
    BY <1>1, <2>1, <2>2 DEF IdeTypeOK
<1>4. DiskInv' /\ StartInv' /\ IdleInv'
  BY <1>1, <1>2 DEF IdeInv, IdeTypeOK, DiskInv, StartInv, IdleInv, Sectors
<1>5. ReadInv'
  BY <1>1, <1>2 DEF IdeInv, IdeTypeOK, StartInv, ReadInv, ReadSoFar, Sectors
<1>6. WriteInv'
  <2>1. Holds(0)'
    BY <1>1 DEF IdeInv, IdeTypeOK, Holds, Sectors
  <2>2. total - left = 0
    BY <1>1 DEF IdeInv, IdeTypeOK, StartInv
  <2> QED
    BY <1>1, <1>2, <2>1, <2>2 DEF IdeInv, IdeTypeOK, StartInv, WriteInv, Sectors
<1> QED
  BY <1>3, <1>4, <1>5, <1>6 DEF IdeInv

\* A sector is read: the next one, or, after an error, anything.
LEMMA ReadSectorInv ==
  ASSUME IdeInv, Transfer, op # "ide_write"
  PROVE  IdeInv'
<1>1. PICK d \in Data : DataIn(d) /\ buf' = Append(buf, d)
  BY DEF Transfer
<1>2. /\ pc = "loop" /\ dev # "busy" /\ left' = left - 1
      /\ IF left = 1 THEN pc' = "idle" /\ ret' = 0 ELSE UNCHANGED <<pc, ret>>
      /\ UNCHANGED <<op, idx, total, before>>
  BY DEF Transfer, ide_wait_ready, LastSector
<1>3. /\ total \in Nat /\ left \in 1 .. total /\ idx \in Nat /\ idx + total <= NSECT
      /\ total <= MAX_COUNT
      /\ buf \in Seq(Data) /\ Len(buf) = total - left
      /\ cmd = "read" /\ latch = << >> /\ media = before
  BY <1>2 DEF IdeInv, IdeTypeOK, ReadInv, DiskInv, Sectors
<1>4. /\ buf' \in Seq(Data) /\ Len(buf') = total' - left'
      /\ buf'[Len(buf')] = d /\ \A k \in 1 .. Len(buf) : buf'[k] = buf[k]
  BY <1>1, <1>2, <1>3
<1>5. CASE err
  <2>1. UNCHANGED disk /\ dev = "ready"
    BY <1>1, <1>2, <1>5 DEF DataIn, IdeInv, ReadInv
  <2>2. IdeTypeOK'
    BY SMTT(30), <1>2, <1>3, <1>4, <2>1 DEF IdeInv, IdeTypeOK, disk
  <2>3. DiskInv' /\ StartInv' /\ ReadInv' /\ WriteInv'
    BY <1>2, <1>3, <1>4, <1>5, <2>1 DEF IdeInv, DiskInv, StartInv, ReadInv, WriteInv, disk
  <2>4. IdleInv'
    <3>1. op # "ide_read"
      BY <1>5 DEF Transfer, Failed, IdeInv, IdeTypeOK
    <3> QED
      BY <1>2, <1>5, <2>1, <3>1 DEF IdleInv, Settled, disk
  <2> QED
    BY <2>2, <2>3, <2>4 DEF IdeInv
<1>6. CASE ~err
  <2>1. /\ dev = "data" /\ pos = idx + total - left /\ rest = left
        /\ ReadSoFar(total - left)
    BY <1>2, <1>6 DEF IdeInv, IdeTypeOK, ReadInv
  <2>2. /\ d = media[pos] /\ pos' = pos + 1 /\ rest' = rest - 1
        /\ dev' = IF rest = 1 THEN "ready" ELSE "busy"
        /\ UNCHANGED <<cmd, err, latch, media>>
    BY <1>1, <1>3, <2>1 DEF DataIn
  <2>3. \A k \in 1 .. total - left + 1 : buf'[k] = media'[idx' + k - 1]
    <3>1. \A k \in 1 .. total - left : buf[k] = media[idx + k - 1]
      BY <2>1 DEF ReadSoFar
    <3>2. buf'[total - left + 1] = media[idx + (total - left + 1) - 1]
      BY <1>2, <1>3, <1>4, <2>1, <2>2
    <3>3. \A k \in 1 .. total - left + 1 :
            k = total - left + 1 \/ k \in 1 .. total - left
      BY <1>3
    <3> QED
      BY <1>2, <1>3, <1>4, <2>2, <3>1, <3>2, <3>3
  <2>4. IdeTypeOK'
    <3>1. pos' \in 0 .. NSECT /\ rest' \in 0 .. MAX_COUNT
      BY <1>3, <2>1, <2>2, IdeAssumption
    <3>2. left' \in 0 .. total' /\ (pc' # "idle" => left' > 0)
      BY <1>2, <1>3
    <3>3. pc' \in {"idle", "start", "loop"} /\ ret' \in {0, -1}
      BY <1>2 DEF IdeInv, IdeTypeOK
    <3> QED
      BY <1>2, <1>3, <1>4, <2>2, <3>1, <3>2, <3>3, IdeAssumption DEF IdeInv, IdeTypeOK
  <2>5. DiskInv' /\ StartInv' /\ WriteInv'
    BY <1>2, <1>3, <1>6, <2>1, <2>2 DEF DiskInv, StartInv, WriteInv
  <2>6. ReadInv'
    <3>1. pc' = "loop" => left # 1
      BY <1>2
    <3>2. ReadSoFar(total - left)'
      BY <1>2, <1>3, <2>3 DEF ReadSoFar
    <3> QED
      BY <1>2, <1>3, <1>4, <1>6, <2>1, <2>2, <3>1, <3>2 DEF ReadInv
  <2>7. IdleInv'
    <3>1. CASE left # 1
      BY <1>2, <3>1 DEF IdleInv
    <3>2. CASE left = 1
      <4>1. dev' = "ready" /\ Len(buf') = total'
        BY <1>2, <1>3, <1>4, <2>1, <2>2, <3>2
      <4>2. ReadSoFar(total)'
        BY <1>2, <1>3, <2>3, <3>2 DEF ReadSoFar
      <4> QED
        BY <1>2, <1>3, <1>6, <2>2, <4>1, <4>2 DEF IdleInv, Settled
    <3> QED
      BY <3>1, <3>2
  <2> QED
    BY <2>4, <2>5, <2>6, <2>7 DEF IdeInv
<1> QED
  BY <1>5, <1>6

\* A sector is handed over; the ones before it are on the disk.
LEMMA WriteSectorInv ==
  ASSUME IdeInv, Transfer, op = "ide_write"
  PROVE  IdeInv'
<1>1. /\ DataOut(buf[total - left + 1]) /\ buf' = buf
      /\ pc = "loop" /\ dev # "busy" /\ ~err /\ left' = left - 1
      /\ IF left = 1 THEN pc' = "idle" /\ ret' = 0 ELSE UNCHANGED <<pc, ret>>
      /\ UNCHANGED <<op, idx, total, before>>
  BY DEF Transfer, ide_wait_ready, LastSector, Failed
<1>2. /\ total \in Nat /\ left \in 1 .. total /\ idx \in Nat /\ idx + total <= NSECT
      /\ total <= MAX_COUNT /\ buf \in Seq(Data) /\ Len(buf) = total
      /\ cmd = "write"
  BY <1>1 DEF IdeInv, IdeTypeOK, WriteInv, Sectors
<1>3. /\ latch = << >> /\ dev = "data" /\ pos = idx + total - left /\ rest = left
      /\ Holds(total - left)
  BY <1>1 DEF IdeInv, IdeTypeOK, WriteInv
<1>4. /\ latch' = <<buf[total - left + 1]>> /\ dev' = "busy"
      /\ UNCHANGED <<cmd, err, pos, rest, media>>
  BY <1>1, <1>2, <1>3 DEF DataOut
<1>5. latch' # << >>
  BY <1>4
<1>6. IdeTypeOK'
  <2>1. latch' \in {<< >>} \cup {<<d>> : d \in Data}
    BY <1>2, <1>4
  <2>2. left' \in 0 .. total' /\ (pc' # "idle" => left' > 0)
    BY <1>1, <1>2
  <2>3. pc' \in {"idle", "start", "loop"} /\ ret' \in {0, -1}
    BY <1>1 DEF IdeInv, IdeTypeOK
  <2> QED
    BY <1>1, <1>4, <2>1, <2>2, <2>3 DEF IdeInv, IdeTypeOK
<1>7. DiskInv' /\ StartInv' /\ ReadInv'
  BY <1>1, <1>2, <1>3, <1>4 DEF IdeInv, DiskInv, StartInv, ReadInv
<1>8. PICK n \in Nat : n = total - left
  BY <1>2
<1>9. Holds(n)'
  <2>1. Holds(n)
    BY <1>3, <1>8
  <2>2. UNCHANGED <<media, idx, buf, before>>
    BY <1>1, <1>4
  <2> QED
    BY <2>1, <2>2 DEF Holds
<1>10. CASE left # 1
  <2>1. /\ pc' = "loop" /\ total' - left' - 1 = total - left
        /\ total' - left' = total - left + 1 /\ left' + 1 = left
    BY <1>1, <1>2, <1>10
  <2>2. Holds(total - left - 1)'
    <3>1. total' - left' - 1 = n
      BY <1>8, <2>1
    <3> QED
      BY <1>9, <3>1 DEF Holds
  <2>3. WriteInv'
    BY <1>1, <1>2, <1>3, <1>4, <1>5, <2>1, <2>2 DEF WriteInv
  <2>4. IdleInv'
    BY <2>1 DEF IdleInv
  <2> QED
    BY <1>6, <1>7, <2>3, <2>4 DEF IdeInv
<1>11. CASE left = 1
  <2>1. pc' = "idle" /\ Holds(total - 1)'
    <3>1. pc' = "idle" /\ total' - 1 = n
      BY <1>1, <1>8, <1>11
    <3> QED
      BY <1>9, <3>1 DEF Holds
  <2>2. WriteInv'
    BY <2>1 DEF WriteInv
  <2>3. IdleInv'
    BY <1>1, <1>2, <1>3, <1>4, <1>5, <1>11, <2>1 DEF IdleInv, Settled
  <2> QED
    BY <1>6, <1>7, <2>2, <2>3 DEF IdeInv
<1> QED
  BY <1>10, <1>11

LEMMA HoldsNext ==
  ASSUME NEW n \in Nat, idx \in Nat, idx + n < NSECT, media \in [Sectors -> Data],
         Holds(n), media' = [media EXCEPT ![idx + n] = buf[n + 1]],
         UNCHANGED <<buf, idx, before>>
  PROVE  Holds(n + 1)'
<1> SUFFICES media' = [s \in Sectors |-> IF s - idx \in 0 .. n
                                        THEN buf[s - idx + 1] ELSE before[s]]
  <2>1. (n + 1) - 1 = n
    OBVIOUS
  <2>2. buf' = buf /\ idx' = idx /\ before' = before
    OBVIOUS
  <2> QED
    BY <2>1, <2>2, Zenon DEF Holds
<1>1. ASSUME NEW s \in Sectors, s # idx + n
      PROVE  media'[s] = IF s - idx \in 0 .. n THEN buf[s - idx + 1] ELSE before[s]
  <2>1. s - idx \in 0 .. n <=> s - idx \in 0 .. n - 1
    BY <1>1 DEF Sectors
  <2>2. media'[s] = media[s]
    BY <1>1
  <2>3. media[s] = IF s - idx \in 0 .. n - 1 THEN buf[s - idx + 1] ELSE before[s]
    BY DEF Holds
  <2> QED
    BY <2>1, <2>2, <2>3
<1>2. media'[idx + n] = buf[n + 1] /\ idx + n \in Sectors
  BY IdeAssumption DEF Sectors
<1>3. (idx + n) - idx = n
  OBVIOUS
<1>4. DOMAIN media' = Sectors /\ media' = [s \in Sectors |-> media'[s]]
  OBVIOUS
<1>5. ASSUME NEW s \in Sectors
      PROVE  media'[s] = IF s - idx \in 0 .. n THEN buf[s - idx + 1] ELSE before[s]
  <2>1. CASE s = idx + n
    BY <1>2, <1>3, <2>1
  <2> QED
    BY <1>1, <2>1
<1> QED
  BY <1>4, <1>5

LEMMA FetchInv == IdeInv /\ Fetch /\ UNCHANGED <<driver, before>> => IdeInv'
<1> SUFFICES ASSUME IdeInv, Fetch, UNCHANGED <<driver, before>> PROVE IdeInv'
  OBVIOUS
<1> USE DEF Fetch, driver
<1>1. pc = "loop"
  BY DEF IdeInv, IdeTypeOK, StartInv, IdleInv, Settled
<1>2. IdeTypeOK' /\ DiskInv' /\ StartInv' /\ IdleInv'
  BY <1>1 DEF IdeInv, IdeTypeOK, DiskInv, StartInv, IdleInv
<1>3. ReadInv'
  BY DEF IdeInv, DiskInv, ReadInv, ReadSoFar
<1>4. WriteInv'
  BY DEF IdeInv, DiskInv, WriteInv, Holds
<1> QED
  BY <1>2, <1>3, <1>4 DEF IdeInv

LEMMA FailInv == IdeInv /\ dev = "busy" /\ Fail /\ UNCHANGED <<driver, before>> => IdeInv'
<1> SUFFICES ASSUME IdeInv, dev = "busy", Fail, UNCHANGED <<driver, before>> PROVE IdeInv'
  OBVIOUS
<1> USE DEF Fail, driver
<1>1. IdeTypeOK'
  <2>1. 0 \in 0 .. MAX_COUNT /\ TRUE \in BOOLEAN
    BY IdeAssumption
  <2> QED
    BY <2>1 DEF IdeInv, IdeTypeOK
<1>2. DiskInv' /\ StartInv' /\ ReadInv' /\ WriteInv'
  BY DEF IdeInv, DiskInv, StartInv, ReadInv, WriteInv, Settled
<1>3. IdleInv'
  BY DEF IdeInv, DiskInv, IdleInv, Settled, Holds
<1> QED
  BY <1>1, <1>2, <1>3 DEF IdeInv

\* The disk writes what it was given: a sector of the loop, or the last one of
\* a call that is over, perhaps with the next call waiting.
LEMMA CommitInv == IdeInv /\ Commit /\ UNCHANGED <<driver, before>> => IdeInv'
<1> SUFFICES ASSUME IdeInv, Commit, UNCHANGED <<driver, before>> PROVE IdeInv'
  OBVIOUS
<1>1. /\ dev = "busy" /\ latch # << >> /\ cmd = "write" /\ ~err
      /\ rest \in Nat \ {0} /\ pos \in Sectors /\ pos + rest <= NSECT
      /\ media \in [Sectors -> Data] /\ latch[1] \in Data
  <2>1. /\ dev = "busy" /\ latch # << >> /\ media \in [Sectors -> Data]
        /\ latch \in {<<d>> : d \in Data}
        /\ pos \in 0 .. NSECT /\ rest \in 0 .. MAX_COUNT
    BY DEF Commit, IdeInv, IdeTypeOK
  <2>2. cmd = "write" /\ ~err /\ rest >= 1 /\ pos + rest <= NSECT
    BY <2>1 DEF IdeInv, DiskInv
  <2> QED
    BY <2>1, <2>2, IdeAssumption DEF Sectors
<1>2. /\ media' = [media EXCEPT ![pos] = latch[1]] /\ latch' = << >>
      /\ pos' = pos + 1 /\ rest' = rest - 1
      /\ dev' = IF rest = 1 THEN "ready" ELSE "data"
      /\ UNCHANGED <<cmd, err, op, pc, idx, total, left, buf, ret, before>>
  BY DEF Commit, driver
<1>3. IdeTypeOK'
  <2>1. media' \in [Sectors -> Data]
    BY <1>1, <1>2
  <2>2. pos' \in 0 .. NSECT /\ rest' \in 0 .. MAX_COUNT
    BY <1>1, <1>2, IdeAssumption DEF IdeInv, IdeTypeOK, Sectors
  <2> QED
    BY <1>2, <2>1, <2>2 DEF IdeInv, IdeTypeOK
<1>4. DiskInv'
  BY <1>1, <1>2 DEF DiskInv, Sectors
<1>5. CASE pc = "start"
  <2>1. dev' = "ready"
    BY <1>2, <1>1, <1>5 DEF IdeInv, StartInv, Settled
  <2>2. StartInv' /\ ReadInv' /\ WriteInv' /\ IdleInv'
    BY <1>2, <1>5, <2>1 DEF IdeInv, StartInv, ReadInv, WriteInv, IdleInv, Settled
  <2> QED
    BY <1>3, <1>4, <2>2 DEF IdeInv
<1>6. CASE pc = "loop"
  <2>1. /\ op = "ide_write" /\ left \in Nat \ {0} /\ total \in Nat /\ idx \in Nat
        /\ idx + total <= NSECT /\ Len(buf) = total
        /\ total - left >= 1 /\ latch = <<buf[total - left]>>
        /\ pos = idx + total - left - 1 /\ rest = left + 1
        /\ Holds(total - left - 1)
    BY <1>1, <1>6 DEF IdeInv, IdeTypeOK, ReadInv, WriteInv, Sectors
  <2>2. Holds(total - left)'
    <3>1. /\ total - left - 1 \in Nat /\ idx + (total - left - 1) < NSECT
          /\ pos = idx + (total - left - 1)
      BY <2>1, IdeAssumption
    <3>2. latch[1] = buf[(total - left - 1) + 1]
      BY <2>1
    <3>3. media' = [media EXCEPT ![idx + (total - left - 1)] = buf[(total - left - 1) + 1]]
      BY <1>2, <3>1, <3>2
    <3>4. ASSUME NEW n \in Nat, n = total - left - 1 PROVE Holds(n + 1)'
      BY <1>1, <1>2, <2>1, <3>1, <3>3, <3>4, HoldsNext
    <3>5. PICK n \in Nat : n = total - left - 1
      BY <3>1
    <3>6. n + 1 = total' - left'
      BY <1>2, <2>1, <3>5
    <3>7. Holds(n + 1)'
      BY <3>4, <3>5
    <3> QED
      BY <3>6, <3>7 DEF Holds
  <2>3. WriteInv'
    BY <1>1, <1>2, <2>1, <2>2 DEF WriteInv
  <2>4. StartInv' /\ ReadInv' /\ IdleInv'
    BY <1>2, <1>6, <2>1 DEF StartInv, ReadInv, IdleInv
  <2> QED
    BY <1>3, <1>4, <2>3, <2>4 DEF IdeInv
<1>7. CASE pc = "idle"
  <2>1. op = "ide_write" /\ dev' = "ready"
    BY <1>1, <1>2, <1>7 DEF IdeInv, IdleInv, Settled
  <2>2. ASSUME ret = 0 PROVE Holds(total)'
    <3>1. /\ total \in Nat \ {0} /\ idx \in Nat /\ idx + total <= NSECT
          /\ pos = idx + total - 1 /\ latch = <<buf[total]>> /\ Holds(total - 1)
      BY <1>1, <1>7, <2>1, <2>2 DEF IdeInv, IdeTypeOK, IdleInv, Sectors
    <3>2. ASSUME NEW n \in Nat, n = total - 1 PROVE Holds(n + 1)'
      <4>1. /\ Holds(n) /\ idx + n < NSECT
            /\ media' = [media EXCEPT ![idx + n] = buf[n + 1]]
        BY <1>2, <3>1, <3>2, IdeAssumption
      <4> QED
        BY <1>1, <1>2, <3>1, <4>1, HoldsNext
    <3>3. total - 1 \in Nat /\ (total - 1) + 1 = total
      BY <3>1
    <3> QED
      BY <1>2, <3>2, <3>3 DEF Holds
  <2>3. IdleInv'
    BY <1>1, <1>2, <1>7, <2>1, <2>2 DEF IdeInv, IdleInv, Settled
  <2>4. StartInv' /\ ReadInv' /\ WriteInv'
    BY <1>2, <1>7 DEF StartInv, ReadInv, WriteInv
  <2> QED
    BY <1>3, <1>4, <2>3, <2>4 DEF IdeInv
<1> QED
  BY <1>5, <1>6, <1>7 DEF IdeInv, IdeTypeOK

LEMMA IdeNextInv == IdeInv /\ [IdeNext]_ivars => IdeInv'
<1> SUFFICES ASSUME IdeInv, [IdeNext]_ivars PROVE IdeInv'
  OBVIOUS
<1>1. CASE NewCall
  BY <1>1, NewCallInv
<1>2. CASE DriverStep
  BY <1>2, IssueInv, GiveUpInv, ReadSectorInv, WriteSectorInv DEF DriverStep
<1>3. CASE DiskStep
  BY <1>3, FetchInv, CommitInv, FailInv DEF DiskStep
<1>4. CASE UNCHANGED ivars
  BY <1>4 DEF ivars, driver, disk, IdeInv, IdeTypeOK, DiskInv, StartInv, ReadInv,
              WriteInv, IdleInv, Settled, ReadSoFar, Holds
<1> QED
  BY <1>1, <1>2, <1>3, <1>4 DEF IdeNext

LEMMA SpecIdeInv == IdeSpec => []IdeInv
<1> QED
  BY IdeInitInv, IdeNextInv, PTL DEF IdeSpec

-----------------------------------------------------------------------------

\* The driver and the disk agree on where they are: neither leaves the sectors
\* of the disk or the count of the command.
THEOREM SpecIdeTypeOK == IdeSpec => []IdeTypeOK
<1>1. IdeInv => IdeTypeOK
  BY DEF IdeInv
<1> QED
  BY <1>1, SpecIdeInv, PTL

\* A read that returns 0 (kernel/ide.c:20) has brought what the disk holds.
THEOREM SpecReadsRight == IdeSpec => []ReadsRight
<1>1. ASSUME IdeInv PROVE ReadsRight
  <2> SUFFICES ASSUME pc = "idle", ret = 0, total > 0, op # "ide_write", ~err
               PROVE  /\ buf = [k \in 1 .. total |-> media[idx + k - 1]]
                      /\ media = before
    BY DEF ReadsRight
  <2>1. Len(buf) = total /\ media = before /\ ReadSoFar(total) /\ buf \in Seq(Data)
    BY <1>1 DEF IdeInv, IdeTypeOK, IdleInv
  <2>2. buf = [k \in 1 .. total |-> buf[k]]
    BY <2>1
  <2> QED
    BY <2>1, <2>2 DEF ReadSoFar
<1> QED
  BY <1>1, SpecIdeInv, PTL

\* A write that returns 0 (kernel/ide.c:41) has written its sectors and no other.
THEOREM SpecWritesRight == IdeSpec => []WritesRight
<1>1. IdeInv => WritesRight
  BY DEF IdeInv, IdeTypeOK, DiskInv, IdleInv, Settled, WritesRight
<1> QED
  BY <1>1, SpecIdeInv, PTL

\* The one failure that is not reported is that of the last sector of a write
\* (kernel/ide.c:56).
THEOREM SpecOnlyLastWriteLost == IdeSpec => []OnlyLastWriteLost
<1>1. IdeInv => OnlyLastWriteLost
  BY DEF IdeInv, IdeTypeOK, DiskInv, IdleInv, OnlyLastWriteLost
<1> QED
  BY <1>1, SpecIdeInv, PTL

=============================================================================
