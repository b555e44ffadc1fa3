--------------------------- MODULE CryptoFsProofs ---------------------------
(***************************************************************************)
(* The encrypted file system, for any number of files, descriptors and      *)
(* trustlets' calls, blocks of any size and requests that fail at any point: *)
(* descriptors stay paired while the daemon runs, and what is read is what   *)
(* was written, even when the daemon is restarted between two requests.      *)
(* For trustlets that write up to the end of a file or of a block: a file    *)
(* is a sequence of bytes with a position (StoredFile).                      *)
(* For the RSA trustlet: an RSA object of the engine stays with its key.     *)
(* For the sample trustlet: no key works without the PIN it is sealed under. *)
(***************************************************************************)
EXTENDS TrustletParts, FiniteSetTheorems, SequenceTheorems, TLAPS

HandleT == [fd : DaemonFds, filepos : 0..MAX_POS, key : Inodes]
ByteT == [key : Int, pos : Int, version : Int]
BlockT == [key : Int, num : Int, count : 0..CFS_BLK_SIZE, blk : [Offset -> ByteT]]

\* The descriptors are finitely many, and NULL is neither a number nor a handle.
FsHyp == IsFiniteSet(UserFds) /\ NULL \notin Nat /\ NULL \notin HandleT

\* Where a block begins in its file.
Base(n) == (n - 1) * CFS_BLK_SIZE

\* A byte that a trustlet wrote for this place of this file, or that nobody
\* wrote.
Written(b, key, pos) == b = Zero \/ \E v \in Versions : b = Byte(key, pos, v)

\* A block holds what was written to its place, whatever file object it lies
\* in, and does not count bytes behind the last position ever written.
Genuine(b) ==
  /\ \A o \in Offset : Written(b.blk[o], b.key, Base(b.num) + o)
  /\ Base(b.num) + b.count <= MAX_POS
Blocks == {b \in BlockT : Genuine(b)}

FsTypes ==
  /\ dir \in [Files -> Inodes \cup {NULL}]
  /\ disk \in [Inodes -> [hdr : {NULL, "torn", "ok"}, blks : Seq(Blocks)]]
  /\ fds \in [DaemonFds -> Inodes \cup {NULL}]
  /\ files \in [UserFds -> HandleT \cup {NULL}]

\* A write has left the bytes for the position it has come to; a read has
\* collected those from its start up to the position.
WriteOK ==
  /\ call \in [op : {"write"}, u : UserFds, start : 0..MAX_POS, fault : BOOLEAN, buf : Seq(ByteT)]
  /\ files[call.u] # NULL
  /\ files[call.u].filepos + Len(call.buf) <= MAX_POS
  /\ \A j \in 1..Len(call.buf) :
       Written(call.buf[j], files[call.u].key, files[call.u].filepos + j - 1)

ReadOK ==
  /\ call \in [op : {"read"}, u : UserFds, start : 0..MAX_POS, count : Nat, buf : Seq(ByteT)]
  /\ files[call.u] # NULL
  /\ files[call.u].filepos = call.start + Len(call.buf)
  /\ Len(call.buf) <= call.count
  /\ \A j \in 1..Len(call.buf) : Written(call.buf[j], files[call.u].key, call.start + j - 1)

FsInv ==
  /\ FsTypes
  /\ call # NULL => WriteOK \/ ReadOK
  /\ Authentic

\* The daemon's open files are those of the handles, one each.
Pairs ==
  /\ \A u \in UserFds : files[u] # NULL =>
       /\ fds[files[u].fd] = files[u].key
       /\ \A v \in UserFds \ {u} : files[v] # NULL => files[v].fd # files[u].fd
  /\ \A n \in DaemonFds : fds[n] # NULL => \E u \in UserFds : files[u] # NULL /\ files[u].fd = n

-----------------------------------------------------------------------------
\* A nonempty set of numbers has a lowest one.
LEMMA LowestIn ==
  ASSUME NEW S \in SUBSET Nat, S # {}
  PROVE  Lowest(S) \in S
<1>1. PICK i \in S : \A j \in S : ~ (<<j, i>> \in OpToRel(<, Nat))
  BY WFMin, NatLessThanWellFounded, Zenon
<1>2. \A j \in S : ~ (j < i)
  BY <1>1 DEF OpToRel
<1>3. \A j \in S : i <= j
  BY <1>2
<1> QED
  BY <1>3 DEF Lowest

\* The block of a position and the offset in it give the position back.
LEMMA Position ==
  ASSUME NEW pos \in Nat
  PROVE  /\ blknum(pos) \in Nat /\ blknum(pos) >= 1
         /\ blkoffset(pos) \in Offset /\ blkoffset(pos) \in 0..(CFS_BLK_SIZE - 1)
         /\ Base(blknum(pos)) \in Int
         /\ Base(blknum(pos)) + blkoffset(pos) = pos
<1> DEFINE d == CFS_BLK_SIZE
<1>1. d \in Nat /\ d > 0
  BY CryptoFsAssumption
<1>0. \A x \in Int : Base(x) = (x - 1) * d
  BY DEF Base
<1> HIDE DEF d
<1> DEFINE q == pos \div d
           m == pos % d
<1>2. q \in Nat /\ m \in 0..(d - 1) /\ pos = d * q + m
  BY <1>1
<1> HIDE DEF q, m
<1>3. q + 1 - 1 = q /\ q * d = d * q /\ d * q \in Int
  BY <1>1, <1>2
<1>4. blknum(pos) = q + 1 /\ blkoffset(pos) = m /\ Offset = 0..(d - 1)
  BY DEF blknum, blkoffset, Offset, q, m, d
<1>5. Base(q + 1) = d * q
  <2>1. Base(q + 1) = (q + 1 - 1) * d
    BY <1>0, <1>2
  <2> QED
    BY <1>3, <2>1
<1>6. d * q + m = pos /\ m \in Int
  BY <1>1, <1>2, <1>3
<1> QED
  BY <1>1, <1>2, <1>3, <1>4, <1>5, <1>6 DEF d

\* A block of zeroes that no key verifies is among those of the disk.
LEMMA BadBlock == Bad \in Blocks
<1>1. CFS_BLK_SIZE \in Nat /\ CFS_BLK_SIZE > 0 /\ MAX_POS \in Nat
  BY CryptoFsAssumption
<1>2. Bad.key = 0 /\ Bad.num = 0 /\ Bad.count = 0 /\ Bad.blk = [o \in Offset |-> Zero]
  BY DEF Bad, Block
<1>3. Bad \in BlockT
  BY <1>1 DEF Bad, Block, BlockT, Zero, Byte, ByteT
<1>4. Base(0) + 0 <= MAX_POS
  BY <1>1 DEF Base
<1>5. Genuine(Bad)
  BY <1>2, <1>4 DEF Genuine, Written
<1> QED
  BY <1>3, <1>5 DEF Blocks

\* A block written, or cut short, leaves a row of such blocks.
LEMMA RowWritten ==
  ASSUME NEW blks \in Seq(Blocks), NEW n \in Nat, n >= 1, NEW b \in Blocks
  PROVE  tz_fs_write(blks, n, b) \in Seq(Blocks) /\ tz_fs_write_cut(blks, n) \in Seq(Blocks)
<1>1. Len(blks) \in Nat /\ \A m \in 1..Len(blks) : blks[m] \in Blocks
  OBVIOUS
<1>2. Bad \in Blocks
  BY BadBlock
<1> HIDE DEF Blocks, Bad
<1> DEFINE k == IF n > Len(blks) THEN n ELSE Len(blks)
           l == IF n > Len(blks) THEN n - 1 ELSE Len(blks)
<1>3. tz_fs_write(blks, n, b) \in [1..k -> Blocks] /\ k \in Nat
  BY <1>1, <1>2 DEF tz_fs_write
<1>4. tz_fs_write_cut(blks, n) \in [1..l -> Blocks] /\ l \in Nat
  BY <1>1, <1>2 DEF tz_fs_write_cut
<1> HIDE DEF k, l
<1> QED
  BY <1>3, <1>4, SeqDef

\* What ree_read finds where the daemon has the file open.
LEMMA BlockRead ==
  ASSUME FsTypes, NEW c \in HandleT, NEW n \in Nat, n >= 1, NEW b \in ree_read(c.fd, n)
  PROVE  b \in Blocks \/ b = Eof \/ b = Error
<1>1. c.fd \in DaemonFds /\ fds[c.fd] \in Inodes \cup {NULL}
  BY DEF HandleT, FsTypes
<1>2. CASE fds[c.fd] = NULL
  BY <1>2 DEF ree_read, ree_lseek, tz_fs_lseek
<1>3. CASE fds[c.fd] # NULL
  <2>1. disk[fds[c.fd]].blks \in Seq(Blocks)
    BY <1>1, <1>3 DEF FsTypes
  <2> DEFINE blks == disk[fds[c.fd]].blks
  <2>2. b = Eof \/ (b = IF n <= Len(blks) THEN blks[n] ELSE Eof)
    BY <1>3 DEF ree_read, ree_lseek, tz_fs_lseek, tz_fs_read, Found, tz_fs_fstat
  <2> HIDE DEF blks
  <2>3. n <= Len(blks) => blks[n] \in Blocks
    BY <2>1 DEF blks
  <2> QED
    BY <2>2, <2>3
<1> QED
  BY <1>2, <1>3

\* Neither the end of a file nor an error verifies.
LEMMA VerifiedBlock ==
  ASSUME NEW key \in Inodes, NEW n, NEW b, verified(b, key, n)
  PROVE  b # Eof /\ b # Error /\ b.key = key /\ b.num = n
<1>1. Eof.key = -1 /\ Error.key = -2 /\ key \in Nat
  BY CryptoFsAssumption DEF Eof, Error, Block
<1> QED
  BY <1>1 DEF verified

\* A step that leaves every handle on its file and descriptor.
Kept ==
  \A v \in UserFds : /\ files'[v] # NULL <=> files[v] # NULL
                     /\ files[v] # NULL => /\ files'[v].fd = files[v].fd
                                           /\ files'[v].key = files[v].key

\* A handle moves: it stays one, on the same file, and no other changes.
LEMMA HandleMoves ==
  ASSUME FsHyp, FsTypes, NEW u \in UserFds, files[u] # NULL, NEW p \in 0..MAX_POS,
         files' = [files EXCEPT ![u].filepos = p]
  PROVE  /\ files' \in [UserFds -> HandleT \cup {NULL}]
         /\ files'[u] \in HandleT /\ files'[u].filepos = p
         /\ Kept
<1>1. files[u] \in HandleT /\ files \in [UserFds -> HandleT \cup {NULL}]
  BY DEF FsTypes
<1> DEFINE h == [files[u] EXCEPT !.filepos = p]
<1>2. h \in HandleT /\ h.filepos = p /\ h.fd = files[u].fd /\ h.key = files[u].key
  BY <1>1 DEF HandleT
<1>3. files' = [files EXCEPT ![u] = h]
  OBVIOUS
<1> HIDE DEF h
<1>4. h # NULL /\ files'[u] = h /\ \A v \in UserFds : v # u => files'[v] = files[v]
  BY <1>1, <1>2, <1>3 DEF FsHyp
<1>5. files' \in [UserFds -> HandleT \cup {NULL}]
  BY <1>1, <1>2, <1>3
<1> QED
  BY <1>2, <1>4, <1>5 DEF Kept

-----------------------------------------------------------------------------
(* The rounds of a write and of a read                                     *)

\* The block a round of fs_write writes back.
LEMMA BlockFilled ==
  ASSUME NEW pos \in Nat, NEW key \in Inodes, NEW base,
         base \in Blocks \/ base = Block(key, blknum(pos)),
         verified(base, key, blknum(pos)), NEW d \in Seq(ByteT),
         Len(d) <= CFS_BLK_SIZE - blkoffset(pos), pos + Len(d) <= MAX_POS,
         \A j \in 1..Len(d) : Written(d[j], key, pos + j - 1)
  PROVE  filled(base, blkoffset(pos), d) \in Blocks
<1> DEFINE n == blknum(pos)
           off == blkoffset(pos)
           start == Base(n)
<1>1. /\ off \in Nat /\ off + Len(d) <= CFS_BLK_SIZE /\ start \in Int /\ start + off = pos
      /\ CFS_BLK_SIZE \in Nat /\ n \in Int /\ Len(d) \in Nat /\ MAX_POS \in Nat
  <2>1. /\ off \in 0..(CFS_BLK_SIZE - 1) /\ start \in Int /\ start + off = pos /\ n \in Nat
    BY Position
  <2>2. CFS_BLK_SIZE \in Nat /\ MAX_POS \in Nat /\ Len(d) \in Nat
    BY CryptoFsAssumption
  <2>3. Len(d) <= CFS_BLK_SIZE - off
    OBVIOUS
  <2> HIDE DEF off, start, n
  <2> QED
    BY <2>1, <2>2, <2>3
<1>2. /\ base.key = key /\ base.num = n /\ key \in Int
      /\ base.blk \in [Offset -> ByteT]
      /\ \A o \in Offset : Written(base.blk[o], key, start + o)
  <2>1. base.key = key /\ base.num = n /\ key \in Int
    BY CryptoFsAssumption DEF verified
  <2>2. CASE base \in Blocks
    BY <2>1, <2>2 DEF Blocks, BlockT, Genuine
  <2>3. CASE base = Block(key, blknum(pos))
    BY <2>1, <2>3 DEF Block, Written, Zero, Byte, ByteT
  <2> QED
    BY <2>1, <2>2, <2>3
<1> DEFINE blk == [o \in Offset |-> IF o \in off..(off + Len(d) - 1) THEN d[o - off + 1]
                                    ELSE base.blk[o]]
           new == filled(base, off, d)
<1>3. new.key = key /\ new.num = n /\ new.count = off + Len(d) /\ new.blk = blk
      /\ new \in [key : {key}, num : {n}, count : {off + Len(d)}, blk : {blk}]
  <2>1. new = [base EXCEPT !.count = off + Len(d), !.blk = blk]
    BY DEF filled
  <2>2. base \in [key : {key}, num : {n}, count : {base.count}, blk : {base.blk}]
    <3>1. CASE base \in Blocks
      BY <1>2, <3>1 DEF Blocks, BlockT
    <3>2. CASE base = Block(key, blknum(pos))
      BY <1>2, <3>2 DEF Block
    <3> QED
      BY <3>1, <3>2
  <2> HIDE DEF blk, new
  <2> QED
    BY <2>1, <2>2
<1>4. ASSUME NEW o \in Offset
      PROVE  blk[o] \in ByteT /\ Written(blk[o], key, start + o)
  <2>1. o \in Int /\ o >= 0
    BY <1>1 DEF Offset
  <2>2. CASE o \in off..(off + Len(d) - 1)
    <3> DEFINE j == o - off + 1
    <3>1. j \in 1..Len(d) /\ pos + j - 1 = start + o
      <4> HIDE DEF off, start, n
      <4> QED
        BY <1>1, <2>1, <2>2
    <3>2. blk[o] = d[j]
      BY <2>2
    <3> HIDE DEF j, blk
    <3>3. d[j] \in ByteT
      BY <3>1
    <3>4. Written(d[j], key, pos + j - 1)
      BY <3>1
    <3> QED
      BY <3>1, <3>2, <3>3, <3>4
  <2>3. CASE o \notin off..(off + Len(d) - 1)
    BY <1>2, <2>3
  <2> QED
    BY <2>2, <2>3
<1>5. blk \in [Offset -> ByteT]
  BY <1>4
<1> HIDE DEF blk, new
<1>6. new \in BlockT
  BY <1>1, <1>2, <1>3, <1>5 DEF BlockT
<1>7. start + (off + Len(d)) <= MAX_POS
  BY <1>1
<1>8. Genuine(new)
  BY <1>3, <1>4, <1>7 DEF Genuine
<1> QED
  BY <1>6, <1>8 DEF Blocks, new

\* A round of fs_write keeps the invariant: what it writes is genuine, and what
\* is left of the buffer is for the position it moves to.
LEMMA WriteStep ==
  ASSUME FsHyp, FsInv, fs_write
  PROVE  FsInv' /\ Kept
<1>0. PICK c, buf, u : c = files[call.u] /\ buf = call.buf /\ u = call.u
  OBVIOUS
<1> DEFINE n == blknum(c.filepos)
           off == blkoffset(c.filepos)
           room == CFS_BLK_SIZE - off
           d == IF Len(buf) > room THEN SubSeq(buf, 1, room) ELSE buf
           rest == SubSeq(buf, Len(d) + 1, Len(buf))
<1>01. PICK fault \in BOOLEAN, old \in ree_read(c.fd, n) :
         LET base == IF old = Eof THEN Block(c.key, n) ELSE old
         IN  IF fault \/ ~verified(base, c.key, n)
             THEN /\ cleanup("write", 0, fault \/ old = Error)
                  /\ \/ UNCHANGED disk
                     \/ /\ fault /\ verified(base, c.key, n)
                        /\ ree_write_cut(c.fd, n)
             ELSE /\ ree_write(c.fd, n, filled(base, off, d))
                  /\ files' = [files EXCEPT ![u].filepos = @ + Len(d)]
                  /\ IF rest = <<>>
                     THEN /\ reply' = Answer("write", c.filepos + Len(d) - call.start,
                                             call.fault \/ Failed(c.fd, n, old))
                          /\ call' = NULL
                     ELSE /\ call' = [call EXCEPT !.buf = rest, !.fault = @ \/ Failed(c.fd, n, old)]
                          /\ UNCHANGED reply
  <2>1. n = blknum(files[call.u].filepos) /\ off = blkoffset(files[call.u].filepos)
        /\ room = CFS_BLK_SIZE - blkoffset(files[call.u].filepos)
        /\ c.fd = files[call.u].fd /\ c.key = files[call.u].key
        /\ c.filepos = files[call.u].filepos
    BY <1>0
  <2>2. d = (IF Len(call.buf) > CFS_BLK_SIZE - blkoffset(files[call.u].filepos)
             THEN SubSeq(call.buf, 1, CFS_BLK_SIZE - blkoffset(files[call.u].filepos))
             ELSE call.buf)
    BY <1>0
  <2>3. rest = SubSeq(call.buf, Len(d) + 1, Len(call.buf))
    BY <1>0
  <2> HIDE DEF n, off, room, d, rest
  <2> QED
    BY <1>0, <2>1, <2>2, <2>3, ZenonT(60) DEF fs_write
<1> DEFINE base == IF old = Eof THEN Block(c.key, n) ELSE old
<1>02. PICK failed \in BOOLEAN : failed = (call.fault \/ Failed(c.fd, n, old))
  OBVIOUS
<1>1. FsTypes /\ WriteOK /\ call # NULL /\ call.op = "write"
  <2>1. call # NULL /\ call.op = "write"
    BY DEF fs_write
  <2> QED
    BY <2>1 DEF FsInv, ReadOK
<1>2. /\ u \in UserFds /\ c = files[u] /\ c # NULL /\ c \in HandleT /\ c.key \in Inodes
      /\ c.filepos \in 0..MAX_POS /\ c.filepos \in Nat /\ MAX_POS \in Nat
      /\ call.start \in 0..MAX_POS /\ buf \in Seq(ByteT) /\ Len(buf) \in Nat
      /\ c.filepos + Len(buf) <= MAX_POS
      /\ \A j \in 1..Len(buf) : Written(buf[j], c.key, c.filepos + j - 1)
  <2>1. u \in UserFds /\ c = files[u] /\ c # NULL /\ call.start \in 0..MAX_POS
        /\ buf \in Seq(ByteT) /\ MAX_POS \in Nat
    BY <1>0, <1>1, CryptoFsAssumption DEF WriteOK
  <2>2. c \in HandleT
    BY <1>1, <2>1 DEF FsTypes
  <2>3. c.key \in Inodes /\ c.filepos \in 0..MAX_POS
    BY <2>2 DEF HandleT
  <2>4. c.filepos \in Nat
    BY <2>1, <2>3
  <2> QED
    BY <1>0, <1>1, <2>1, <2>2, <2>3, <2>4 DEF WriteOK
<1>3. n \in Nat /\ n >= 1 /\ off \in 0..(CFS_BLK_SIZE - 1) /\ CFS_BLK_SIZE \in Nat
  BY <1>2, Position, CryptoFsAssumption
<1>4. /\ d \in Seq(ByteT) /\ Len(d) <= room /\ Len(d) <= Len(buf) /\ Len(d) \in Nat
      /\ \A j \in 1..Len(d) : d[j] = buf[j]
  <2> HIDE DEF off
  <2>1. room \in 1..CFS_BLK_SIZE
    BY <1>3
  <2> HIDE DEF room
  <2>2. CASE Len(buf) > room
    <3>1. room \in Nat /\ room <= Len(buf)
      BY <1>2, <1>3, <2>1, <2>2
    <3>2. d = SubSeq(buf, 1, room) /\ 1 \in 1..(Len(buf) + 1) /\ room \in 0..Len(buf)
      BY <1>2, <2>1, <2>2, <3>1
    <3>3. d \in Seq(ByteT) /\ Len(d) = room /\ \A j \in 1..room : d[j] = buf[j]
      BY <1>2, <3>1, <3>2
    <3> HIDE DEF d
    <3> QED
      BY <3>1, <3>3
  <2>3. CASE ~(Len(buf) > room)
    BY <1>2, <1>3, <2>1, <2>3
  <2> QED
    BY <2>2, <2>3
<1> HIDE DEF d
<1>5. /\ rest \in Seq(ByteT) /\ Len(rest) = Len(buf) - Len(d)
      /\ \A j \in 1..Len(rest) : rest[j] = buf[Len(d) + j]
  <2>1. Len(d) + 1 \in Nat /\ Len(d) + 1 >= 1 /\ Len(buf) \in Nat /\ Len(d) + 1 <= Len(buf) + 1
    BY <1>2, <1>4
  <2> QED
    BY <1>2, <1>4, <2>1
<1> HIDE DEF rest
<1>6. old \in Blocks \/ old = Eof \/ old = Error
  BY <1>1, <1>2, <1>3, BlockRead
<1>7. ASSUME verified(base, c.key, n)
      PROVE  /\ base \in Blocks \/ base = Block(c.key, n)
             /\ fds[c.fd] \in Inodes
  <2>1. base # Error
    BY <1>2, <1>7, VerifiedBlock
  <2>2. old # Error
    BY <2>1 DEF Eof, Error, Block
  <2>3. fds[c.fd] # NULL
    BY <2>2 DEF ree_read, ree_lseek, tz_fs_lseek
  <2>4. fds[c.fd] \in Inodes
    BY <1>1, <1>2, <2>3 DEF FsTypes, HandleT
  <2> QED
    BY <1>6, <2>2, <2>4
<1>8. IF fault \/ ~verified(base, c.key, n)
      THEN /\ cleanup("write", 0, fault \/ old = Error)
           /\ \/ UNCHANGED disk
              \/ /\ fault /\ verified(base, c.key, n)
                 /\ ree_write_cut(c.fd, n)
      ELSE /\ ree_write(c.fd, n, filled(base, off, d))
           /\ files' = [files EXCEPT ![u].filepos = @ + Len(d)]
           /\ IF rest = <<>>
              THEN /\ reply' = Answer("write", c.filepos + Len(d) - call.start, failed)
                   /\ call' = NULL
              ELSE /\ call' = [call EXCEPT !.buf = rest, !.fault = failed]
                   /\ UNCHANGED reply
  BY <1>01, <1>02
<1>9. UNCHANGED <<dir, fds>>
  BY DEF fs_write
<1> HIDE DEF base
<1>10. ASSUME cleanup("write", 0, fault \/ old = Error),
              UNCHANGED disk \/ (verified(base, c.key, n) /\ ree_write_cut(c.fd, n))
       PROVE  FsInv' /\ Kept
  <2>1. files' = [files EXCEPT ![u].filepos = call.start] /\ call' = NULL /\ reply'.op = "write"
    BY <1>0, <1>10 DEF cleanup, Answer
  <2>2. files' \in [UserFds -> HandleT \cup {NULL}] /\ Kept
    BY <1>1, <1>2, <2>1, HandleMoves
  <2>3. disk' \in [Inodes -> [hdr : {NULL, "torn", "ok"}, blks : Seq(Blocks)]]
    <3>1. CASE UNCHANGED disk
      BY <1>1, <3>1 DEF FsTypes
    <3>2. CASE verified(base, c.key, n) /\ ree_write_cut(c.fd, n)
      <4>1. fds[c.fd] \in Inodes
        BY <1>7, <3>2
      <4> DEFINE i == fds[c.fd]
                 row == tz_fs_write_cut(disk[i].blks, n)
      <4>2. disk[i].blks \in Seq(Blocks)
        BY <1>1, <4>1 DEF FsTypes
      <4>3. row \in Seq(Blocks)
        BY <1>3, <4>2, RowWritten, BadBlock
      <4>4. disk' = [disk EXCEPT ![i].blks = row]
        BY <3>2 DEF ree_write_cut
      <4> HIDE DEF row, i
      <4> QED
        BY <1>1, <4>1, <4>3, <4>4 DEF FsTypes, i
    <3> QED
      BY <1>10, <3>1, <3>2
  <2>4. Authentic'
    BY <2>1 DEF Authentic
  <2> QED
    BY <1>1, <1>9, <2>1, <2>2, <2>3, <2>4 DEF FsInv, FsTypes
<1>11. ASSUME verified(base, c.key, n), ree_write(c.fd, n, filled(base, off, d)),
              files' = [files EXCEPT ![u].filepos = @ + Len(d)],
              IF rest = <<>>
              THEN /\ reply' = Answer("write", c.filepos + Len(d) - call.start, failed)
                   /\ call' = NULL
              ELSE /\ call' = [call EXCEPT !.buf = rest, !.fault = failed]
                   /\ UNCHANGED reply
       PROVE  FsInv' /\ Kept
  <2>1. c.filepos + Len(d) \in 0..MAX_POS
    BY <1>2, <1>4
  <2>2. files' = [files EXCEPT ![u].filepos = c.filepos + Len(d)]
    BY <1>2, <1>11
  <2>3. /\ files' \in [UserFds -> HandleT \cup {NULL}]
        /\ files'[u] \in HandleT /\ files'[u].filepos = c.filepos + Len(d)
        /\ files'[u] # NULL /\ files'[u].key = c.key /\ Kept
    BY <1>1, <1>2, <2>1, <2>2, HandleMoves DEF Kept
  <2>4. disk' \in [Inodes -> [hdr : {NULL, "torn", "ok"}, blks : Seq(Blocks)]]
    <3>1. fds[c.fd] \in Inodes
      BY <1>7, <1>11
    <3>2. \A j \in 1..Len(d) : Written(d[j], c.key, c.filepos + j - 1)
      BY <1>2, <1>4
    <3>3. c.filepos + Len(d) <= MAX_POS
      BY <1>2, <1>4
    <3>4. filled(base, off, d) \in Blocks
      BY <1>2, <1>4, <1>7, <1>11, <3>2, <3>3, BlockFilled
    <3> DEFINE i == fds[c.fd]
               row == tz_fs_write(disk[i].blks, n, filled(base, off, d))
    <3>5. disk[i].blks \in Seq(Blocks)
      BY <1>1, <3>1 DEF FsTypes
    <3>6. row \in Seq(Blocks)
      BY <1>3, <3>4, <3>5, RowWritten
    <3>7. disk' = [disk EXCEPT ![i].blks = row]
      BY <1>11 DEF ree_write
    <3> HIDE DEF row, i
    <3> QED
      BY <1>1, <3>1, <3>6, <3>7 DEF FsTypes, i
  <2>5. CASE rest = <<>>
    <3>1. call' = NULL /\ reply'.op = "write"
      BY <1>11, <2>5 DEF Answer
    <3> QED
      BY <1>1, <1>9, <2>3, <2>4, <3>1 DEF FsInv, FsTypes, Authentic
  <2>6. CASE rest # <<>>
    <3>1. call' = [call EXCEPT !.buf = rest, !.fault = failed] /\ reply' = reply
      BY <1>11, <2>6
    <3>2. /\ call' \in [op : {"write"}, u : UserFds, start : 0..MAX_POS, fault : BOOLEAN, buf : Seq(ByteT)]
          /\ call'.u = u /\ call'.buf = rest
      BY <1>0, <1>1, <1>5, <3>1 DEF WriteOK
    <3>3. files'[u].filepos + Len(rest) <= MAX_POS
      BY <1>2, <1>4, <1>5, <2>3
    <3>4. ASSUME NEW j \in 1..Len(rest)
          PROVE  Written(rest[j], c.key, files'[u].filepos + j - 1)
      <4>1. Len(d) + j \in 1..Len(buf) /\ rest[j] = buf[Len(d) + j]
            /\ c.filepos + (Len(d) + j) - 1 = files'[u].filepos + j - 1
        BY <1>2, <1>4, <1>5, <2>3, SMTT(30)
      <4>2. Written(buf[Len(d) + j], c.key, c.filepos + (Len(d) + j) - 1)
        BY <1>2, <4>1
      <4> QED
        BY <4>1, <4>2
    <3>5. WriteOK'
      BY <2>3, <3>2, <3>3, <3>4 DEF WriteOK
    <3> QED
      BY <1>1, <1>9, <2>3, <2>4, <3>1, <3>5 DEF FsInv, FsTypes, Authentic
  <2> QED
    BY <2>5, <2>6
<1> QED
  BY <1>8, <1>10, <1>11

\* A round of fs_read keeps the invariant: what it collects is what the blocks
\* hold for the positions it reads.
LEMMA ReadStep ==
  ASSUME FsHyp, FsInv, fs_read
  PROVE  FsInv' /\ Kept
<1>0. PICK c, old, u, count, start :
        c = files[call.u] /\ old = call.buf /\ u = call.u /\ count = call.count /\ start = call.start
  OBVIOUS
<1> DEFINE n == blknum(c.filepos)
           off == blkoffset(c.filepos)
           left == count - Len(old)
<1>01. PICK fault \in BOOLEAN, b \in ree_read(c.fd, n) :
         LET reading == IF b.count - off > left THEN left ELSE b.count - off
             buf == old \o [j \in 1..reading |-> b.blk[off + j - 1]]
         IN  IF fault \/ ~verified(b, c.key, n) \/ b.count < off
             THEN cleanup("read", count, fault \/ Failed(c.fd, n, b))
             ELSE /\ files' = [files EXCEPT ![u].filepos = @ + reading]
                  /\ IF Len(buf) = count \/ b.count < CFS_BLK_SIZE
                     THEN /\ reply' = [Answer("read", Len(buf), FALSE) EXCEPT
                                         !.asked = count, !.data = buf, !.key = c.key, !.pos = start]
                          /\ call' = NULL
                     ELSE /\ call' = [call EXCEPT !.buf = buf]
                          /\ UNCHANGED reply
  BY <1>0, ZenonT(40) DEF fs_read
<1> DEFINE reading == IF b.count - off > left THEN left ELSE b.count - off
           got == [j \in 1..reading |-> b.blk[off + j - 1]]
           buf == old \o got
<1>1. FsTypes /\ ReadOK /\ call # NULL /\ call.op = "read"
  <2>1. call # NULL /\ call.op = "read"
    BY DEF fs_read
  <2> QED
    BY <2>1, SMTT(30) DEF FsInv, WriteOK
<1>2. /\ u \in UserFds /\ c = files[u] /\ c # NULL /\ c \in HandleT /\ c.key \in Inodes
      /\ c.filepos \in 0..MAX_POS /\ c.filepos \in Nat /\ MAX_POS \in Nat
      /\ start \in 0..MAX_POS /\ start \in Nat /\ old \in Seq(ByteT) /\ Len(old) \in Nat
      /\ count \in Nat /\ c.filepos = start + Len(old) /\ Len(old) <= count
      /\ \A j \in 1..Len(old) : Written(old[j], c.key, start + j - 1)
  <2>1. u \in UserFds /\ c = files[u] /\ c # NULL /\ start \in 0..MAX_POS /\ count \in Nat
        /\ old \in Seq(ByteT) /\ MAX_POS \in Nat
    BY <1>0, <1>1, CryptoFsAssumption DEF ReadOK
  <2>2. c \in HandleT
    BY <1>1, <2>1 DEF FsTypes
  <2>3. c.key \in Inodes /\ c.filepos \in 0..MAX_POS
    BY <2>2 DEF HandleT
  <2>4. c.filepos \in Nat /\ start \in Nat
    BY <2>1, <2>3
  <2> QED
    BY <1>0, <1>1, <2>1, <2>2, <2>3, <2>4 DEF ReadOK
<1>3. /\ n \in Nat /\ n >= 1 /\ off \in 0..(CFS_BLK_SIZE - 1) /\ CFS_BLK_SIZE \in Nat
      /\ Base(n) \in Int /\ Base(n) + off = c.filepos
  BY <1>2, Position, CryptoFsAssumption
<1>4. b \in Blocks \/ b = Eof \/ b = Error
  BY <1>1, <1>2, <1>3, BlockRead, SMTT(30)
<1>5. IF fault \/ ~verified(b, c.key, n) \/ b.count < off
      THEN cleanup("read", count, fault \/ Failed(c.fd, n, b))
      ELSE /\ files' = [files EXCEPT ![u].filepos = @ + reading]
           /\ IF Len(buf) = count \/ b.count < CFS_BLK_SIZE
              THEN /\ reply' = [Answer("read", Len(buf), FALSE) EXCEPT
                                  !.asked = count, !.data = buf, !.key = c.key, !.pos = start]
                   /\ call' = NULL
              ELSE /\ call' = [call EXCEPT !.buf = buf]
                   /\ UNCHANGED reply
  BY <1>01, ZenonT(40)
<1>6. UNCHANGED <<dir, disk, fds>>
  BY DEF fs_read
<1>7. ASSUME cleanup("read", count, fault \/ Failed(c.fd, n, b))
      PROVE  FsInv' /\ Kept
  <2>1. files' = [files EXCEPT ![u].filepos = start] /\ call' = NULL /\ reply'.data = <<>>
    BY <1>0, <1>7 DEF cleanup, Answer
  <2>2. files' \in [UserFds -> HandleT \cup {NULL}] /\ Kept
    BY <1>1, <1>2, <2>1, HandleMoves
  <2>3. Authentic'
    BY <2>1 DEF Authentic
  <2> QED
    BY <1>1, <1>6, <2>1, <2>2, <2>3 DEF FsInv, FsTypes
<1>8. ASSUME verified(b, c.key, n), b.count >= off,
             files' = [files EXCEPT ![u].filepos = @ + reading],
             IF Len(buf) = count \/ b.count < CFS_BLK_SIZE
             THEN /\ reply' = [Answer("read", Len(buf), FALSE) EXCEPT
                                 !.asked = count, !.data = buf, !.key = c.key, !.pos = start]
                  /\ call' = NULL
             ELSE /\ call' = [call EXCEPT !.buf = buf]
                  /\ UNCHANGED reply
      PROVE  FsInv' /\ Kept
  <2>1. b \in Blocks /\ b.key = c.key /\ b.num = n
    <3>1. verified(b, c.key, n)
      BY <1>8
    <3> QED
      BY <1>2, <1>4, <3>1, VerifiedBlock
  <2>2. /\ b.count \in 0..CFS_BLK_SIZE /\ b.blk \in [Offset -> ByteT]
        /\ Base(n) + b.count <= MAX_POS
        /\ \A o \in Offset : Written(b.blk[o], c.key, Base(n) + o)
    BY <2>1 DEF Blocks, BlockT, Genuine
  <2>3. /\ reading \in Nat /\ off + reading <= b.count /\ Len(old) + reading <= count
    <3> DEFINE k == b.count
               l == Len(old)
    <3>1. /\ off \in Int /\ off >= 0 /\ k \in Int /\ k >= off /\ l \in Nat /\ count \in Nat /\ l <= count
          /\ reading = IF k - off > count - l THEN count - l ELSE k - off
      BY <1>2, <1>3, <1>8, <2>2
    <3> HIDE DEF off, k, l, reading
    <3>2. reading \in Nat /\ off + reading <= k /\ l + reading <= count
      BY <3>1
    <3> QED
      BY <3>2 DEF k, l
  <2> HIDE DEF reading
  <2>4. c.filepos + reading \in 0..MAX_POS
    <3> HIDE DEF off, n
    <3> QED
      BY <1>2, <1>3, <2>2, <2>3, SMTT(30)
  <2>5. ASSUME NEW j \in 1..reading
        PROVE  off + j - 1 \in Offset /\ Base(n) + (off + j - 1) = start + (Len(old) + j) - 1
    <3> DEFINE k == b.count
               l == Len(old)
               s == Base(n)
    <3>1. /\ off \in Int /\ off >= 0 /\ k \in Int /\ k <= CFS_BLK_SIZE /\ off + reading <= k
          /\ s \in Int /\ s + off = start + l /\ l \in Nat /\ start \in Nat /\ CFS_BLK_SIZE \in Nat
          /\ reading \in Nat
      BY <1>2, <1>3, <2>2, <2>3
    <3> HIDE DEF off, k, l, s
    <3>2. off + j - 1 \in 0..(CFS_BLK_SIZE - 1) /\ s + (off + j - 1) = start + (l + j) - 1
      BY <3>1
    <3> QED
      BY <3>2 DEF Offset, l, s
  <2>6. /\ got \in Seq(ByteT) /\ Len(got) = reading
        /\ \A j \in 1..reading : got[j] = b.blk[off + j - 1]
    <3>1. got \in [1..reading -> ByteT]
      BY <2>2, <2>5
    <3> QED
      BY <2>3, <3>1, SeqDef
  <2>7. ASSUME NEW j \in 1..reading
        PROVE  Written(got[j], c.key, start + (Len(old) + j) - 1)
    BY <2>2, <2>5, <2>6
  <2> HIDE DEF got
  <2>8. /\ buf \in Seq(ByteT) /\ Len(buf) = Len(old) + reading
        /\ \A j \in 1..Len(old) : buf[j] = old[j]
        /\ \A j \in 1..reading : buf[Len(old) + j] = got[j]
    <3>1. /\ buf \in Seq(ByteT) /\ Len(buf) = Len(old) + Len(got)
          /\ \A j \in 1..(Len(old) + Len(got)) :
               buf[j] = IF j <= Len(old) THEN old[j] ELSE got[j - Len(old)]
      <4>1. old \in Seq(ByteT) /\ got \in Seq(ByteT)
        BY <1>2, <2>6
      <4> HIDE DEF ByteT
      <4> QED
        BY <4>1, ConcatProperties, Zenon
    <3> HIDE DEF buf
    <3>2. ASSUME NEW j \in 1..Len(old)
          PROVE  buf[j] = old[j]
      <4>1. j \in 1..(Len(old) + Len(got)) /\ j <= Len(old)
        <5>1. Len(old) \in Nat /\ Len(got) \in Nat
          BY <1>2, <2>3, <2>6
        <5> QED
          BY <5>1
      <4> QED
        BY <3>1, <4>1
    <3>3. ASSUME NEW j \in 1..reading
          PROVE  buf[Len(old) + j] = got[j]
      <4>1. /\ Len(old) + j \in 1..(Len(old) + Len(got)) /\ ~(Len(old) + j <= Len(old))
            /\ (Len(old) + j) - Len(old) = j
        <5>1. Len(old) \in Nat /\ reading \in Nat /\ Len(got) = reading
          BY <1>2, <2>3, <2>6
        <5> QED
          BY <5>1
      <4> QED
        BY <3>1, <4>1
    <3> QED
      BY <2>6, <3>1, <3>2, <3>3
  <2> HIDE DEF buf
  <2>9. ASSUME NEW j \in 1..Len(buf)
        PROVE  Written(buf[j], c.key, start + j - 1)
    <3>1. CASE j \in 1..Len(old)
      BY <1>2, <2>8, <3>1
    <3>2. CASE j \notin 1..Len(old)
      <4> DEFINE i == j - Len(old)
      <4>1. i \in 1..reading /\ j = Len(old) + i
        BY <1>2, <2>3, <2>8, <3>2
      <4> HIDE DEF i
      <4> QED
        BY <2>7, <2>8, <4>1
    <3> QED
      BY <3>1, <3>2
  <2>10. files' = [files EXCEPT ![u].filepos = c.filepos + reading]
    BY <1>2, <1>8
  <2>11. /\ files' \in [UserFds -> HandleT \cup {NULL}]
         /\ files'[u].filepos = c.filepos + reading
         /\ files'[u] # NULL /\ files'[u].key = c.key /\ Kept
    BY <1>1, <1>2, <2>4, <2>10, HandleMoves DEF Kept
  <2>12. CASE Len(buf) = count \/ b.count < CFS_BLK_SIZE
    <3>1. call' = NULL /\ reply'.data = buf /\ reply'.key = c.key /\ reply'.pos = start
      BY <1>8, <2>12 DEF Answer
    <3>2. Authentic'
      BY <2>8, <2>9, <3>1 DEF Authentic, Written
    <3> QED
      BY <1>1, <1>6, <2>11, <3>1, <3>2 DEF FsInv, FsTypes
  <2>13. CASE ~(Len(buf) = count \/ b.count < CFS_BLK_SIZE)
    <3>1. call' = [call EXCEPT !.buf = buf] /\ reply' = reply
      BY <1>8, <2>13
    <3>2. /\ call' \in [op : {"read"}, u : UserFds, start : 0..MAX_POS, count : Nat, buf : Seq(ByteT)]
          /\ call'.u = u /\ call'.buf = buf /\ call'.start = start /\ call'.count = count
      BY <1>0, <1>1, <2>8, <3>1 DEF ReadOK
    <3>3. files'[u].filepos = start + Len(buf) /\ Len(buf) <= count
      BY <1>2, <2>3, <2>8, <2>11
    <3>4. ReadOK'
      BY <2>9, <2>11, <3>2, <3>3 DEF ReadOK
    <3> QED
      BY <1>1, <1>6, <2>11, <3>1, <3>4 DEF FsInv, FsTypes, Authentic
  <2> QED
    BY <2>12, <2>13
<1>9. n \in Nat /\ off \in Int /\ (verified(b, c.key, n) => b.count \in Int)
  <2>1. verified(b, c.key, n) => b \in Blocks
    BY <1>2, <1>4, VerifiedBlock
  <2> QED
    BY <1>3, <2>1 DEF Blocks, BlockT
<1> HIDE DEF n, off, reading, buf
<1> QED
  BY <1>5, <1>7, <1>8, <1>9

-----------------------------------------------------------------------------
(* The other calls                                                         *)

\* A file is opened: the lowest descriptor that the daemon has free, for the
\* lowest that the trustlet has.
LEMMA OpenChooses ==
  ASSUME FsHyp, FreeFds # {}, \E u \in UserFds : files[u] = NULL
  PROVE  /\ Lowest(FreeFds) \in DaemonFds /\ fds[Lowest(FreeFds)] = NULL
         /\ proc_get_next_fd \in UserFds /\ files[proc_get_next_fd] = NULL
<1>1. DaemonFds \subseteq Nat
  BY FS_CardinalityType DEF DaemonFds, FsHyp
<1>2. Lowest(FreeFds) \in FreeFds
  <2>1. FreeFds \in SUBSET Nat
    BY <1>1 DEF FreeFds
  <2> QED
    BY <2>1, LowestIn
<1> DEFINE S == {u \in UserFds : files[u] = NULL}
<1>3. Lowest(S) \in S
  <2>1. S \in SUBSET Nat /\ S # {}
    BY CryptoFsAssumption
  <2> HIDE DEF S
  <2> QED
    BY <2>1, LowestIn
<1> QED
  BY <1>2, <1>3 DEF FreeFds, proc_get_next_fd

\* swi_open, whether it succeeds or not.
LEMMA OpenStep ==
  ASSUME FsHyp, FsInv, NEW f \in Files, swi_open(f)
  PROVE  /\ FsInv'
         /\ Pairs => Pairs'
<1>0. PICK i \in tz_fs_open(f), fault \in BOOLEAN : \E hdr \in fs_open(i, fault) :
        /\ dir' = [dir EXCEPT ![f] = i]
        /\ disk' = [disk EXCEPT ![i].hdr = hdr]
        /\ IF hdr = "ok" /\ ~fault
           THEN LET fd == Lowest(FreeFds)
                    u == proc_get_next_fd
                IN  /\ fds' = [fds EXCEPT ![fd] = i]
                    /\ files' = [files EXCEPT ![u] = [fd |-> fd, filepos |-> 0, key |-> i]]
                    /\ reply' = Answer("open", u, FALSE)
           ELSE /\ reply' = Answer("open", -1, fault)
                /\ UNCHANGED <<fds, files>>
  BY DEF swi_open
<1>1. PICK hdr \in fs_open(i, fault) :
        /\ dir' = [dir EXCEPT ![f] = i]
        /\ disk' = [disk EXCEPT ![i].hdr = hdr]
        /\ IF hdr = "ok" /\ ~fault
           THEN LET fd == Lowest(FreeFds)
                    u == proc_get_next_fd
                IN  /\ fds' = [fds EXCEPT ![fd] = i]
                    /\ files' = [files EXCEPT ![u] = [fd |-> fd, filepos |-> 0, key |-> i]]
                    /\ reply' = Answer("open", u, FALSE)
           ELSE /\ reply' = Answer("open", -1, fault)
                /\ UNCHANGED <<fds, files>>
  BY <1>0
<1>2. FsTypes /\ call' = NULL
  BY DEF FsInv, swi_open
<1>3. i \in Inodes
  BY <1>2 DEF tz_fs_open, FreeInodes, FsTypes
<1>4. hdr \in {NULL, "torn", "ok"}
  BY <1>2, <1>3 DEF fs_open, FsTypes
<1>5. /\ dir' \in [Files -> Inodes \cup {NULL}]
      /\ disk' \in [Inodes -> [hdr : {NULL, "torn", "ok"}, blks : Seq(Blocks)]]
  BY <1>1, <1>2, <1>3, <1>4 DEF FsTypes
<1>6. Authentic'
  <2>1. reply'.op = "open"
    BY <1>1 DEF Answer
  <2> QED
    BY <2>1 DEF Authentic
<1>7. CASE hdr = "ok" /\ ~fault
  <2>0. PICK fd, u : fd = Lowest(FreeFds) /\ u = proc_get_next_fd
    OBVIOUS
  <2>1. fd \in DaemonFds /\ fds[fd] = NULL /\ u \in UserFds /\ files[u] = NULL
    BY <2>0, OpenChooses DEF swi_open
  <2> DEFINE h == [fd |-> fd, filepos |-> 0, key |-> i]
  <2>2. fds' = [fds EXCEPT ![fd] = i] /\ files' = [files EXCEPT ![u] = h]
    BY <1>1, <1>7, <2>0
  <2>3. h \in HandleT /\ h # NULL /\ h.fd = fd /\ h.key = i
    <3>1. h \in HandleT
      BY <1>3, <2>1, CryptoFsAssumption DEF HandleT
    <3> QED
      BY <3>1 DEF FsHyp
  <2> HIDE DEF h
  <2>4. fds' \in [DaemonFds -> Inodes \cup {NULL}] /\ files' \in [UserFds -> HandleT \cup {NULL}]
    BY <1>2, <1>3, <2>1, <2>2, <2>3 DEF FsTypes
  <2>5. FsInv'
    BY <1>2, <1>5, <1>6, <2>4 DEF FsInv, FsTypes
  <2>6. ASSUME Pairs
        PROVE  Pairs'
    <3>1. /\ fds'[fd] = i /\ \A m \in DaemonFds : m # fd => fds'[m] = fds[m]
          /\ files'[u] = h /\ \A v \in UserFds : v # u => files'[v] = files[v]
      BY <1>2, <2>1, <2>2 DEF FsTypes
    <3>2. \A v \in UserFds : files[v] # NULL => /\ files[v].fd \in DaemonFds
                                                /\ files[v].fd # fd
      <4>1. \A v \in UserFds : files[v] # NULL => files[v] \in HandleT
        BY <1>2 DEF FsTypes
      <4>2. \A v \in UserFds : files[v] # NULL => files[v].fd \in DaemonFds /\ files[v].key \in Inodes
        BY <4>1 DEF HandleT
      <4>3. NULL \notin Inodes
        BY CryptoFsAssumption DEF FsHyp
      <4> QED
        BY <2>1, <2>6, <4>2, <4>3 DEF Pairs
    <3>3. \A v \in UserFds : files'[v] # NULL =>
             /\ fds'[files'[v].fd] = files'[v].key
             /\ \A w \in UserFds \ {v} : files'[w] # NULL => files'[w].fd # files'[v].fd
      BY <2>1, <2>3, <2>6, <3>1, <3>2 DEF Pairs
    <3>4. \A m \in DaemonFds : fds'[m] # NULL =>
             \E v \in UserFds : files'[v] # NULL /\ files'[v].fd = m
      BY <2>1, <2>3, <2>6, <3>1 DEF Pairs
    <3> QED
      BY <3>3, <3>4 DEF Pairs
  <2> QED
    BY <2>5, <2>6
<1>8. CASE ~(hdr = "ok" /\ ~fault)
  <2>1. fds' = fds /\ files' = files
    BY <1>1, <1>8
  <2>2. FsInv'
    BY <1>2, <1>5, <1>6, <2>1 DEF FsInv, FsTypes
  <2>3. Pairs => Pairs'
    BY <2>1 DEF Pairs
  <2> QED
    BY <2>2, <2>3
<1> QED
  BY <1>7, <1>8

\* swi_write takes the bytes for the position the handle is at.
LEMMA WriteBegins ==
  ASSUME FsHyp, FsInv, NEW u \in UserFds, NEW n \in Lengths, NEW v \in Versions,
         swi_write(u, n, v)
  PROVE  FsInv'
<1>1. FsTypes /\ files[u] # NULL /\ n \in Nat /\ v \in Nat
      /\ UNCHANGED <<dir, disk, fds, files, reply>>
  BY CryptoFsAssumption DEF FsInv, swi_write
<1>2. files[u] \in HandleT
  BY <1>1 DEF FsTypes
<1>3. files[u].filepos \in 0..MAX_POS /\ files[u].key \in Inodes
  BY <1>2 DEF HandleT
<1>4. PICK key, pos : key = files[u].key /\ pos = files[u].filepos
  OBVIOUS
<1>5. key \in Int /\ pos \in Nat /\ pos + n <= MAX_POS
  <2>1. MAX_POS \in Nat /\ Inodes \subseteq Nat
    BY CryptoFsAssumption
  <2>2. key \in Nat /\ pos \in Nat
    <3>1. key \in Inodes /\ pos \in 0..MAX_POS
      BY <1>3, <1>4, Zenon
    <3>2. \A x \in 0..MAX_POS : x \in Nat
      BY <2>1
    <3> QED
      BY <2>1, <3>1, <3>2, Zenon
  <2>3. files[u].filepos + n <= MAX_POS
    BY DEF swi_write
  <2> QED
    BY <1>4, <2>2, <2>3
<1> DEFINE buf == [j \in 1..n |-> Byte(key, pos + j - 1, v)]
<1>6. buf \in Seq(ByteT) /\ Len(buf) = n /\ \A j \in 1..n : buf[j] = Byte(key, pos + j - 1, v)
  <2>1. buf \in [1..n -> ByteT]
    BY <1>1, <1>5 DEF Byte, ByteT
  <2> QED
    BY <1>1, <2>1, SeqDef
<1> HIDE DEF buf
<1>7. call' = [op |-> "write", u |-> u, start |-> pos, fault |-> FALSE, buf |-> buf]
  BY <1>4 DEF swi_write, buf
<1>8. WriteOK'
  <2>1. /\ call' \in [op : {"write"}, u : UserFds, start : 0..MAX_POS, fault : BOOLEAN, buf : Seq(ByteT)]
        /\ call'.u = u /\ call'.buf = buf
    BY <1>3, <1>4, <1>6, <1>7
  <2>2. \A j \in 1..Len(buf) : Written(buf[j], key, pos + j - 1)
    BY <1>6 DEF Written
  <2> QED
    BY <1>1, <1>4, <1>5, <1>6, <2>1, <2>2 DEF WriteOK
<1> QED
  BY <1>1, <1>8 DEF FsInv, FsTypes, Authentic

\* swi_read starts with nothing collected.
LEMMA ReadBegins ==
  ASSUME FsHyp, FsInv, NEW u \in UserFds, NEW n \in Counts, swi_read(u, n)
  PROVE  FsInv'
<1>1. FsTypes /\ files[u] # NULL /\ n \in Nat
      /\ UNCHANGED <<dir, disk, fds, files, reply>>
  BY CryptoFsAssumption DEF FsInv, swi_read
<1>2. files[u] \in HandleT
  BY <1>1 DEF FsTypes
<1>3. files[u].filepos \in 0..MAX_POS
  BY <1>2 DEF HandleT
<1>4. PICK pos : pos = files[u].filepos
  OBVIOUS
<1>5. call' = [op |-> "read", u |-> u, start |-> pos, count |-> n, buf |-> <<>>]
  BY <1>4 DEF swi_read
<1>6. /\ call' \in [op : {"read"}, u : UserFds, start : 0..MAX_POS, count : Nat, buf : Seq(ByteT)]
      /\ call'.u = u /\ call'.buf = <<>> /\ call'.start = pos /\ call'.count = n
  BY <1>1, <1>3, <1>4, <1>5
<1>7. pos = pos + Len(<<>>) /\ Len(<<>>) <= n /\ 1..Len(<<>>) = {}
  BY <1>1, <1>3, <1>4, CryptoFsAssumption
<1>8. ReadOK'
  BY <1>1, <1>4, <1>6, <1>7 DEF ReadOK
<1> QED
  BY <1>1, <1>8 DEF FsInv, FsTypes, Authentic

\* swi_close, and the daemon's descriptor with it.
LEMMA CloseStep ==
  ASSUME FsHyp, FsInv, NEW u \in UserFds, swi_close(u)
  PROVE  FsInv' /\ (Pairs => Pairs')
<1>1. FsTypes /\ call' = NULL
  BY DEF FsInv, swi_close
<1>2. /\ files[u] # NULL /\ fds' = [fds EXCEPT ![files[u].fd] = NULL]
      /\ files' = [files EXCEPT ![u] = NULL] /\ reply'.op = "close"
      /\ UNCHANGED <<dir, disk>>
  BY DEF swi_close, ree_close, tz_fs_close, Answer
<1>3. FsTypes'
  BY <1>1, <1>2 DEF FsTypes
<1>4. ASSUME Pairs
      PROVE  Pairs'
  <2>1. PICK fd : fd = files[u].fd
    OBVIOUS
  <2>2. fd \in DaemonFds /\ \A v \in UserFds : files[v] # NULL => files[v].fd \in DaemonFds
    <3>1. \A v \in UserFds : files[v] # NULL => files[v] \in HandleT
      BY <1>1 DEF FsTypes
    <3> QED
      BY <1>2, <2>1, <3>1 DEF HandleT
  <2>3. /\ files'[u] = NULL /\ \A v \in UserFds : v # u => files'[v] = files[v]
        /\ fds'[fd] = NULL /\ \A m \in DaemonFds : m # fd => fds'[m] = fds[m]
    BY <1>1, <1>2, <2>1, <2>2 DEF FsTypes
  <2>4. \A v \in UserFds : v # u /\ files[v] # NULL => files[v].fd # fd
    BY <1>2, <1>4, <2>1 DEF Pairs
  <2>5. \A v \in UserFds : files'[v] # NULL =>
           /\ fds'[files'[v].fd] = files'[v].key
           /\ \A w \in UserFds \ {v} : files'[w] # NULL => files'[w].fd # files'[v].fd
    BY <1>4, <2>2, <2>3, <2>4 DEF Pairs
  <2>6. \A m \in DaemonFds : fds'[m] # NULL =>
           \E v \in UserFds : files'[v] # NULL /\ files'[v].fd = m
    BY <1>4, <2>1, <2>3 DEF Pairs
  <2> QED
    BY <2>5, <2>6 DEF Pairs
<1> QED
  BY <1>1, <1>2, <1>3, <1>4 DEF FsInv, Authentic

\* swi_lseek moves a handle, or does not.
LEMMA SeekStep ==
  ASSUME FsHyp, FsInv, NEW u \in UserFds, NEW o \in Offsets, swi_lseek(u, o)
  PROVE  FsInv' /\ Kept
<1>1. FsTypes /\ call' = NULL /\ files[u] # NULL /\ UNCHANGED <<dir, disk, fds>>
  BY DEF FsInv, swi_lseek
<1>2. PICK pos \in {o, files[u].filepos + o}, fault \in BOOLEAN :
        pos <= MAX_POS /\ fs_lseek(u, pos, fault)
  BY DEF swi_lseek
<1>3. pos \in 0..MAX_POS
  <2>1. files[u] \in HandleT
    BY <1>1 DEF FsTypes
  <2>2. files[u].filepos \in 0..MAX_POS /\ MAX_POS \in Nat /\ o \in Nat
    BY <2>1, CryptoFsAssumption DEF HandleT
  <2>3. pos \in Nat
    BY <1>2, <2>2
  <2> QED
    BY <1>2, <2>2, <2>3
<1>4. reply'.op = "lseek" /\ (files' = files \/ files' = [files EXCEPT ![u].filepos = pos])
  BY <1>2 DEF fs_lseek, Answer
<1>5. files' \in [UserFds -> HandleT \cup {NULL}] /\ Kept
  <2>1. CASE files' = files
    BY <1>1, <2>1 DEF FsTypes, Kept
  <2>2. CASE files' = [files EXCEPT ![u].filepos = pos]
    BY <1>1, <1>3, <2>2, HandleMoves
  <2> QED
    BY <1>4, <2>1, <2>2
<1> QED
  BY <1>1, <1>4, <1>5 DEF FsInv, FsTypes, Authentic

\* Handles that are kept stay paired.
LEMMA KeptPairs ==
  ASSUME Kept, Pairs, fds' = fds
  PROVE  Pairs'
BY DEF Kept, Pairs

\* Every step keeps the invariant, also with a daemon that is restarted, and
\* without such a restart the descriptors paired.
LEMMA FsStep ==
  ASSUME FsHyp, FsInv, [RestartNext]_vars
  PROVE  /\ FsInv'
         /\ Pairs /\ [Next]_vars => Pairs'
<1>1. CASE UNCHANGED vars
  <2>1. UNCHANGED <<dir, disk, fds, files>> /\ UNCHANGED <<call, reply>>
    BY <1>1 DEF vars
  <2>2. FsTypes' = FsTypes /\ WriteOK' = WriteOK /\ ReadOK' = ReadOK /\ Authentic' = Authentic
    BY <2>1 DEF FsTypes, WriteOK, ReadOK, Authentic
  <2>3. Pairs' = Pairs
    BY <2>1 DEF Pairs
  <2> QED
    BY <2>1, <2>2, <2>3 DEF FsInv
<1>2. ASSUME NEW f \in Files, swi_open(f)
      PROVE  FsInv' /\ (Pairs => Pairs')
  BY <1>2, OpenStep
<1>3. ASSUME NEW f \in Files, fs_remove(f)
      PROVE  FsInv' /\ (Pairs => Pairs')
  <2>1. FsTypes /\ call' = NULL /\ dir' = [dir EXCEPT ![f] = NULL] /\ reply'.op = "remove"
        /\ UNCHANGED <<disk, fds, files>>
    BY <1>3 DEF fs_remove, ree_remove, tz_fs_remove, Answer, FsInv
  <2> QED
    BY <2>1 DEF FsInv, FsTypes, Authentic, Pairs
<1>4. ASSUME NEW u \in UserFds, swi_close(u)
      PROVE  FsInv' /\ (Pairs => Pairs')
  BY <1>4, CloseStep
<1>5. ASSUME NEW u \in UserFds, swi_fstat(u)
      PROVE  FsInv' /\ (Pairs => Pairs')
  <2>1. UNCHANGED <<dir, disk, fds, files>> /\ reply'.op = "fstat" /\ FsTypes /\ call' = NULL
    BY <1>5 DEF swi_fstat, Answer, FsInv
  <2> QED
    BY <2>1 DEF FsInv, FsTypes, Authentic, Pairs
<1>6. ASSUME NEW u \in UserFds, NEW o \in Offsets, swi_lseek(u, o)
      PROVE  FsInv' /\ (Pairs => Pairs')
  <2>1. fds' = fds
    BY <1>6 DEF swi_lseek
  <2> QED
    BY <1>6, <2>1, SeekStep, KeptPairs
<1>7. ASSUME NEW u \in UserFds, NEW n \in Lengths, NEW v \in Versions, swi_write(u, n, v)
      PROVE  FsInv' /\ (Pairs => Pairs')
  <2>1. fds' = fds /\ files' = files
    BY <1>7 DEF swi_write
  <2> QED
    BY <1>7, <2>1, WriteBegins DEF Pairs
<1>8. ASSUME NEW u \in UserFds, NEW n \in Counts, swi_read(u, n)
      PROVE  FsInv' /\ (Pairs => Pairs')
  <2>1. fds' = fds /\ files' = files
    BY <1>8 DEF swi_read
  <2> QED
    BY <1>8, <2>1, ReadBegins DEF Pairs
<1>9. CASE swi_open_refused
  <2>1. UNCHANGED <<dir, disk, fds, files>> /\ reply'.op = "open" /\ FsTypes /\ call' = NULL
    BY <1>9 DEF swi_open_refused, Answer, FsInv
  <2> QED
    BY <2>1 DEF FsInv, FsTypes, Authentic, Pairs
<1>10. CASE fs_write
  <2>1. fds' = fds
    BY <1>10, SMTT(30) DEF fs_write
  <2> QED
    BY <1>10, <2>1, WriteStep, KeptPairs
<1>11. CASE fs_read
  <2>1. fds' = fds
    BY <1>11 DEF fs_read
  <2> QED
    BY <1>11, <2>1, ReadStep, KeptPairs
<1>12. CASE power_off
  <2>1. /\ fds' = [n \in DaemonFds |-> NULL] /\ files' = [u \in UserFds |-> NULL]
        /\ call' = NULL /\ reply'.op = "none" /\ UNCHANGED <<dir, disk>> /\ FsTypes
    BY <1>12 DEF power_off, Answer, FsInv
  <2>2. FsTypes'
    BY <2>1 DEF FsTypes
  <2>3. Pairs'
    BY <2>1 DEF Pairs
  <2> QED
    BY <2>1, <2>2, <2>3 DEF FsInv, Authentic
<1>13. ASSUME daemon_restart
       PROVE  FsInv'
  <2>1. fds' = [n \in DaemonFds |-> NULL] /\ UNCHANGED <<dir, disk, files, call, reply>>
    BY <1>13 DEF daemon_restart
  <2>2. FsTypes'
    BY <2>1 DEF FsInv, FsTypes
  <2>3. (call' # NULL => (WriteOK' <=> WriteOK) /\ (ReadOK' <=> ReadOK)) /\ (Authentic' <=> Authentic)
    BY <2>1 DEF WriteOK, ReadOK, Authentic
  <2> QED
    BY <2>1, <2>2, <2>3 DEF FsInv
<1>14. CASE Next
  BY <1>2, <1>3, <1>4, <1>5, <1>6, <1>7, <1>8, <1>9, <1>10, <1>11, <1>12, <1>14 DEF Next
<1>15. ASSUME daemon_restart, [Next]_vars
       PROVE  FsInv' /\ (Pairs => Pairs')
  <2>1. CASE Next
    BY <1>14, <2>1
  <2>2. CASE UNCHANGED vars
    BY <1>1, <2>2
  <2> QED
    BY <1>15, <2>1, <2>2
<1> QED
  BY <1>1, <1>13, <1>14, <1>15 DEF RestartNext

\* No file, no descriptor and no call at the start.
LEMMA FsInit ==
  ASSUME FsHyp, Init
  PROVE  FsInv /\ Pairs
<1>1. FsTypes /\ call = NULL /\ reply.op = "none"
  BY DEF Init, FsTypes, Answer
<1>2. Pairs
  BY DEF Init, Pairs
<1> QED
  BY <1>1, <1>2 DEF FsInv, Authentic

\* The invariant has the types that the run checks.
LEMMA FsTypesImply ==
  ASSUME FsHyp, FsInv
  PROVE  TypeOK
<1>1. FsTypes
  BY DEF FsInv
<1>2. ASSUME NEW i \in Inodes
      PROVE  /\ disk[i].hdr \in {NULL, "torn", "ok"}
             /\ \A n \in DOMAIN disk[i].blks : disk[i].blks[n].count \in 0..CFS_BLK_SIZE
  <2>1. disk[i].hdr \in {NULL, "torn", "ok"} /\ disk[i].blks \in Seq(Blocks)
    BY <1>1 DEF FsTypes
  <2>2. \A n \in DOMAIN disk[i].blks : disk[i].blks[n] \in Blocks
    BY <2>1
  <2> QED
    BY <2>1, <2>2 DEF Blocks, BlockT
<1>3. \A u \in UserFds : files[u] # NULL =>
        files[u] \in [fd : DaemonFds, filepos : 0..MAX_POS, key : Inodes]
  BY <1>1 DEF FsTypes, HandleT
<1> QED
  BY <1>1, <1>2, <1>3 DEF TypeOK, FsTypes

\* For any number of files and descriptors, while the daemon runs: every handle
\* has a descriptor of the daemon of its own, open on the handle's file, and
\* the daemon has no other open file, whatever calls failed half way
\* (fs.c, swi_newlib.c: swi_open, swi_close).
THEOREM HandlesStayPaired ==
  ASSUME FsHyp
  PROVE  Spec => []DescriptorsPaired
<1>1. Init => FsInv /\ Pairs
  BY FsInit
<1>2. FsInv /\ Pairs /\ [Next]_vars => (FsInv /\ Pairs)'
  BY FsStep DEF RestartNext
<1>3. FsInv /\ Pairs => DescriptorsPaired
  BY FsTypesImply DEF DescriptorsPaired, Pairs
<1> QED
  BY <1>1, <1>2, <1>3, PTL DEF Spec

\* For blocks of any size and files of any length: a read that succeeds gives
\* bytes that a trustlet wrote to that position of that file, or zeroes where
\* nothing was written, although the daemon may be restarted between any two
\* requests and give a descriptor that a handle still has to another file
\* (fs.c: __fs_decrypt_and_verify; ree_fs.c:71).
THEOREM ReadsStayAuthentic ==
  ASSUME FsHyp
  PROVE  Init /\ [][RestartNext]_vars => []Authentic
<1>1. Init => FsInv
  BY FsInit
<1>2. FsInv /\ [RestartNext]_vars => FsInv'
  BY FsStep
<1>3. FsInv => Authentic
  BY DEF FsInv
<1> QED
  BY <1>1, <1>2, <1>3, PTL

-----------------------------------------------------------------------------
(* A carefully written file is a sequence of bytes                         *)

\* NULL is neither a handle of StoredFile nor a call.
StoreHyp ==
  /\ FsHyp
  /\ NULL \notin [obj : Inodes, mark : Int, pos : Int, buf : Seq(ByteT)]
  /\ NULL \notin [op : {"write"}, u : UserFds, start : 0..MAX_POS, fault : BOOLEAN, buf : Seq(ByteT)]
  /\ NULL \notin [op : {"read"}, u : UserFds, start : 0..MAX_POS, count : Nat, buf : Seq(ByteT)]

\* Blocks follow each other without a gap, and all but the last are full.
RowsFull ==
  \A i \in Inodes : \A n \in 1..Len(disk[i].blks) :
    /\ disk[i].blks[n] # Eof
    /\ verified(disk[i].blks[n], i, n) /\ disk[i].blks[n].count < CFS_BLK_SIZE
         => n = Len(disk[i].blks)

\* A write in progress begins in the file, and ends at or behind its end or at the
\* end of a block.
WriteFits ==
  LET c == files[call.u]
      end == c.filepos + Len(call.buf)
  IN  /\ c.filepos <= FileSize(c.key)
      /\ end >= FileSize(c.key) \/ (Len(call.buf) > 0 /\ blkoffset(end) = 0)

\* The bytes of a file from a position on, none of them lost.
Collected(i, pos, buf) ==
  \A j \in 1..Len(buf) : /\ pos + j <= FileSize(i)
                         /\ buf[j] = ByteAt(i, pos + j - 1) /\ buf[j] # Lost

\* A read in progress has collected the bytes of the file from its start on, and
\* goes on because they are fewer than it was asked for.
ReadFits ==
  /\ Len(call.buf) = 0 \/ Len(call.buf) < call.count
  /\ Collected(files[call.u].key, call.start, call.buf)

StoreInv ==
  /\ FsInv /\ Pairs /\ RowsFull
  /\ call # NULL => IF call.op = "write" THEN WriteFits ELSE ReadFits

\* The next block begins where a block ends.
LEMMA BaseNext ==
  ASSUME NEW n \in Int
  PROVE  Base(n) \in Int /\ Base(n + 1) = Base(n) + CFS_BLK_SIZE
<1> DEFINE d == CFS_BLK_SIZE
<1>1. d \in Nat
  BY CryptoFsAssumption
<1>2. Base(n) = (n - 1) * d /\ Base(n + 1) = (n + 1 - 1) * d
  BY DEF Base
<1> HIDE DEF d
<1>3. (n - 1) * d \in Int /\ (n + 1 - 1) * d = (n - 1) * d + d
  BY <1>1
<1> QED
  BY <1>2, <1>3 DEF d

\* Later blocks lie behind earlier ones.
LEMMA BaseOrder ==
  ASSUME NEW m \in Int, NEW n \in Int, m < n
  PROVE  Base(m) + CFS_BLK_SIZE <= Base(n)
<1> DEFINE d == CFS_BLK_SIZE
<1>1. d \in Nat
  BY CryptoFsAssumption
<1>2. Base(m) = (m - 1) * d /\ Base(n) = (n - 1) * d
  BY DEF Base
<1> HIDE DEF d
<1> DEFINE k == n - 1 - m
<1>3. k \in Nat /\ n - 1 = k + m /\ m - 1 \in Int
  OBVIOUS
<1> HIDE DEF k
<1>4. k * d \in Nat /\ (k + m) * d = k * d + m * d /\ (m - 1) * d = m * d - d /\ m * d \in Int
  BY <1>1, <1>3
<1>5. Base(n) = k * d + m * d /\ Base(m) = m * d - d
  BY <1>2, <1>3, <1>4
<1>6. (m * d - d) + d <= k * d + m * d
  BY <1>1, <1>4
<1> QED
  BY <1>5, <1>6 DEF d

\* A position between the beginning and the end of a block is in that block.
LEMMA InBlock ==
  ASSUME NEW pos \in Nat, NEW n \in Int, Base(n) <= pos, pos < Base(n) + CFS_BLK_SIZE
  PROVE  blknum(pos) = n /\ blkoffset(pos) = pos - Base(n)
<1>1. /\ blknum(pos) \in Nat /\ blkoffset(pos) \in 0..(CFS_BLK_SIZE - 1)
      /\ Base(blknum(pos)) \in Int /\ Base(blknum(pos)) + blkoffset(pos) = pos
      /\ Base(n) \in Int /\ CFS_BLK_SIZE \in Nat
  BY Position, BaseNext, CryptoFsAssumption
<1>2. blknum(pos) < n => Base(blknum(pos)) + CFS_BLK_SIZE <= Base(n)
  BY <1>1, BaseOrder
<1>3. n < blknum(pos) => Base(n) + CFS_BLK_SIZE <= Base(blknum(pos))
  BY <1>1, BaseOrder
<1> DEFINE k == blknum(pos)
           o == blkoffset(pos)
           a == Base(n)
           b == Base(k)
<1>4. b \in Int /\ a \in Int /\ o \in 0..(CFS_BLK_SIZE - 1) /\ b + o = pos /\ a <= pos /\ pos < a + CFS_BLK_SIZE
      /\ (k < n => b + CFS_BLK_SIZE <= a) /\ (n < k => a + CFS_BLK_SIZE <= b) /\ k \in Int
      /\ CFS_BLK_SIZE \in Nat
  BY <1>1, <1>2, <1>3
<1> HIDE DEF k, o, a, b
<1>5. k = n
  BY <1>4
<1>6. a = b
  BY <1>5 DEF a, b
<1>7. o = pos - a
  BY <1>4, <1>6
<1> QED
  BY <1>5, <1>7 DEF k, o, a

-----------------------------------------------------------------------------
\* The blocks of a file object, and what they count.
LEMMA RowTypes ==
  ASSUME FsTypes, NEW i \in Inodes
  PROVE  /\ disk[i].blks \in Seq(Blocks) /\ Len(disk[i].blks) \in Nat
         /\ \A n \in 1..Len(disk[i].blks) :
              /\ disk[i].blks[n] \in Blocks
              /\ disk[i].blks[n].count \in 0..CFS_BLK_SIZE /\ BytesOf(i, n) \in 0..CFS_BLK_SIZE
<1>1. disk[i].blks \in Seq(Blocks)
  BY DEF FsTypes
<1>2. Len(disk[i].blks) \in Nat /\ \A n \in 1..Len(disk[i].blks) : disk[i].blks[n] \in Blocks
  BY <1>1
<1>3. \A b \in Blocks : b.count \in 0..CFS_BLK_SIZE
  BY DEF Blocks, BlockT
<1>4. CFS_BLK_SIZE \in 0..CFS_BLK_SIZE
  BY CryptoFsAssumption
<1> QED
  BY <1>1, <1>2, <1>3, <1>4 DEF BytesOf

\* The size of a file lies in its last block.
LEMMA SizeIs ==
  ASSUME FsTypes, NEW i \in Inodes
  PROVE  LET n == Len(disk[i].blks)
         IN  /\ FileSize(i) \in Nat
             /\ n = 0 => FileSize(i) = 0
             /\ n > 0 => FileSize(i) = Base(n) + BytesOf(i, n) /\ Base(n) <= FileSize(i)
             /\ FileSize(i) <= Base(n + 1) /\ Base(n + 1) \in Nat
<1> DEFINE n == Len(disk[i].blks)
<1>1. n \in Nat /\ (n > 0 => BytesOf(i, n) \in 0..CFS_BLK_SIZE) /\ CFS_BLK_SIZE \in Nat
  BY RowTypes, CryptoFsAssumption
<1>2. FileSize(i) = IF n = 0 THEN 0 ELSE Base(n) + BytesOf(i, n)
  BY DEF FileSize, Base
<1> HIDE DEF n
<1>3. Base(1) = 0 /\ Base(n) \in Int /\ Base(n + 1) = Base(n) + CFS_BLK_SIZE
  <2>1. CFS_BLK_SIZE \in Nat /\ Base(1) = (1 - 1) * CFS_BLK_SIZE
    BY <1>1 DEF Base
  <2>2. Base(1) = 0
    BY <2>1
  <2>3. n \in Int
    BY <1>1
  <2>4. Base(n) \in Int /\ Base(n + 1) = Base(n) + CFS_BLK_SIZE
    BY <2>3, BaseNext
  <2> QED
    BY <2>2, <2>4
<1>4. n > 0 => Base(n) >= 0
  <2>1. CASE n = 1
    BY <1>3, <2>1
  <2>2. CASE n > 1
    <3>1. Base(1) + CFS_BLK_SIZE <= Base(n)
      BY <1>1, <2>2, BaseOrder
    <3> QED
      BY <1>1, <1>3, <3>1
  <2> QED
    BY <1>1, <2>1, <2>2
<1>5. CASE n = 0
  <2>1. Base(n + 1) = 0
    BY <1>3, <1>5
  <2> QED
    BY <1>2, <1>5, <2>1 DEF n
<1>6. CASE n > 0
  <2>1. FileSize(i) = Base(n) + BytesOf(i, n)
    BY <1>1, <1>2, <1>6
  <2> DEFINE k == BytesOf(i, n)
  <2>2. k \in 0..CFS_BLK_SIZE
    BY <1>1, <1>6
  <2> HIDE DEF k
  <2>3. Base(n) + k \in Nat /\ Base(n) <= Base(n) + k /\ Base(n) + k <= Base(n + 1) /\ Base(n + 1) \in Nat
    BY <1>1, <1>3, <1>4, <1>6, <2>2
  <2> QED
    BY <1>6, <2>1, <2>3 DEF n, k
<1> QED
  BY <1>1, <1>5, <1>6

\* The bytes of a file lie in its blocks.
LEMMA InFile ==
  ASSUME FsTypes, NEW i \in Inodes, NEW pos \in Nat, pos < FileSize(i)
  PROVE  blknum(pos) \in 1..Len(disk[i].blks)
<1> DEFINE n == Len(disk[i].blks)
           k == blknum(pos)
<1>1. n \in Nat /\ FileSize(i) \in Nat /\ FileSize(i) <= Base(n + 1) /\ Base(n + 1) \in Nat
  BY SizeIs, RowTypes
<1>2. /\ k \in Nat /\ k >= 1 /\ blkoffset(pos) \in 0..(CFS_BLK_SIZE - 1)
      /\ Base(k) \in Int /\ Base(k) + blkoffset(pos) = pos /\ CFS_BLK_SIZE \in Nat
  BY Position, CryptoFsAssumption
<1>3. k > n => Base(n + 1) <= Base(k)
  <2>1. n + 1 < k => Base(n + 1) + CFS_BLK_SIZE <= Base(k)
    BY <1>1, <1>2, BaseOrder
  <2>2. n + 1 = k => Base(n + 1) = Base(k)
    OBVIOUS
  <2> HIDE DEF n, k
  <2> QED
    BY <1>1, <1>2, <2>1, <2>2
<1> HIDE DEF n, k
<1>4. k <= n
  BY <1>1, <1>2, <1>3
<1> QED
  BY <1>1, <1>2, <1>4 DEF n, k

\* A position up to the end of a file is in one of its blocks, or begins the block
\* behind the last, which is full then.
LEMMA UpToEnd ==
  ASSUME FsTypes, NEW i \in Inodes, NEW pos \in Nat, pos <= FileSize(i),
         blknum(pos) \notin 1..Len(disk[i].blks)
  PROVE  LET n == Len(disk[i].blks)
         IN  /\ blknum(pos) = n + 1 /\ blkoffset(pos) = 0
             /\ pos = FileSize(i) /\ pos = Base(n + 1)
             /\ n > 0 => BytesOf(i, n) = CFS_BLK_SIZE
<1> DEFINE n == Len(disk[i].blks)
           k == blknum(pos)
<1>1. /\ n \in Nat /\ FileSize(i) \in Nat /\ FileSize(i) <= Base(n + 1) /\ Base(n + 1) \in Nat
      /\ n > 0 => FileSize(i) = Base(n) + BytesOf(i, n) /\ BytesOf(i, n) \in 0..CFS_BLK_SIZE
  BY SizeIs, RowTypes
<1>2. /\ k \in Nat /\ k >= 1 /\ blkoffset(pos) \in 0..(CFS_BLK_SIZE - 1)
      /\ Base(k) \in Int /\ Base(k) + blkoffset(pos) = pos /\ CFS_BLK_SIZE \in Nat
      /\ CFS_BLK_SIZE > 0
  BY Position, CryptoFsAssumption
<1>3. k \notin 1..n
  OBVIOUS
<1>4. n + 1 < k => Base(n + 1) + CFS_BLK_SIZE <= Base(k)
  BY <1>1, <1>2, BaseOrder
<1>5. Base(n + 1) = Base(n) + CFS_BLK_SIZE /\ Base(n) \in Int
  <2>1. n \in Int
    BY <1>1
  <2> QED
    BY <2>1, BaseNext
<1> HIDE DEF n, k
<1>6. k = n + 1
  BY <1>1, <1>2, <1>3, <1>4
<1>7. Base(k) = Base(n + 1)
  BY <1>6
<1>8. pos = Base(n + 1) /\ pos = FileSize(i) /\ blkoffset(pos) = 0
  BY <1>1, <1>2, <1>7
<1>9. n > 0 => BytesOf(i, n) = CFS_BLK_SIZE
  <2> DEFINE z == BytesOf(i, n)
  <2>1. n > 0 => Base(n) + z = Base(n) + CFS_BLK_SIZE /\ z \in 0..CFS_BLK_SIZE
    BY <1>1, <1>5, <1>8
  <2> HIDE DEF z
  <2> QED
    BY <1>2, <1>5, <2>1 DEF z
<1> QED
  BY <1>6, <1>8, <1>9 DEF n, k

-----------------------------------------------------------------------------
\* A block of a file is replaced, or one is added behind the last.
Replaced(i, n, b) ==
  /\ DOMAIN disk' = DOMAIN disk
  /\ Len(disk'[i].blks) = IF n > Len(disk[i].blks) THEN n ELSE Len(disk[i].blks)
  /\ disk'[i].blks[n] = b
  /\ \A m \in 1..Len(disk[i].blks) : m # n => disk'[i].blks[m] = disk[i].blks[m]
  /\ \A j \in Inodes : j # i => disk'[j] = disk[j]

\* tz_fs_write replaces a block.
LEMMA WriteReplaces ==
  ASSUME FsTypes, NEW i \in Inodes, NEW n \in Nat, n >= 1, NEW b,
         disk' = [disk EXCEPT ![i].blks = tz_fs_write(@, n, b)]
  PROVE  Replaced(i, n, b)
<1> DEFINE blks == disk[i].blks
           row == tz_fs_write(blks, n, b)
           l == IF n > Len(blks) THEN n ELSE Len(blks)
<1>1. disk \in [Inodes -> [hdr : {NULL, "torn", "ok"}, blks : Seq(Blocks)]] /\ Len(blks) \in Nat
  BY RowTypes DEF FsTypes
<1>2. disk' = [disk EXCEPT ![i].blks = row]
  OBVIOUS
<1>3. row = [m \in 1..l |-> IF m = n THEN b ELSE IF m <= Len(blks) THEN blks[m] ELSE Bad]
  BY DEF tz_fs_write
<1> HIDE DEF row
<1>4. disk'[i].blks = row /\ DOMAIN disk' = DOMAIN disk /\ \A j \in Inodes : j # i => disk'[j] = disk[j]
  BY <1>1, <1>2
<1>5. l \in Nat /\ n \in 1..l /\ \A m \in 1..Len(blks) : m \in 1..l
  BY <1>1
<1> HIDE DEF l, blks
<1>6. Len(row) = l
  BY <1>3, <1>5
<1>7. row[n] = b
  BY <1>3, <1>5
<1>8. \A m \in 1..Len(blks) : m # n => row[m] = blks[m]
  BY <1>1, <1>3, <1>5
<1> QED
  BY <1>4, <1>6, <1>7, <1>8 DEF Replaced, l, blks

\* A write of an old block that is cut short replaces it by a bad one.
LEMMA CutReplaces ==
  ASSUME FsTypes, NEW i \in Inodes, NEW n \in 1..Len(disk[i].blks),
         disk' = [disk EXCEPT ![i].blks = tz_fs_write_cut(@, n)]
  PROVE  Replaced(i, n, Bad)
<1> DEFINE blks == disk[i].blks
           row == tz_fs_write_cut(blks, n)
<1>1. disk \in [Inodes -> [hdr : {NULL, "torn", "ok"}, blks : Seq(Blocks)]] /\ Len(blks) \in Nat
      /\ ~(n > Len(blks))
  BY RowTypes DEF FsTypes
<1>2. disk' = [disk EXCEPT ![i].blks = row]
  OBVIOUS
<1>3. row = [m \in 1..Len(blks) |-> IF m # n /\ m <= Len(blks) THEN blks[m] ELSE Bad]
  BY <1>1 DEF tz_fs_write_cut
<1> HIDE DEF row
<1>4. disk'[i].blks = row /\ DOMAIN disk' = DOMAIN disk /\ \A j \in Inodes : j # i => disk'[j] = disk[j]
  BY <1>1, <1>2
<1> HIDE DEF blks
<1>5. Len(row) = Len(blks)
  BY <1>1, <1>3
<1>6. n \in 1..Len(blks)
  BY DEF blks
<1>7. row[n] = Bad
  BY <1>3, <1>6
<1>8. \A m \in 1..Len(blks) : m # n => row[m] = blks[m]
  BY <1>1, <1>3
<1> QED
  BY <1>1, <1>4, <1>5, <1>7, <1>8 DEF Replaced, blks

\* A write cut short behind the end of the file leaves it as it was.
LEMMA CutBehind ==
  ASSUME FsTypes, NEW i \in Inodes, NEW n, n = Len(disk[i].blks) + 1,
         disk' = [disk EXCEPT ![i].blks = tz_fs_write_cut(@, n)]
  PROVE  disk' = disk
<1> DEFINE blks == disk[i].blks
           row == tz_fs_write_cut(blks, n)
<1>1. disk \in [Inodes -> [hdr : {NULL, "torn", "ok"}, blks : Seq(Blocks)]] /\ Len(blks) \in Nat
      /\ n > Len(blks) /\ n - 1 = Len(blks) /\ blks \in Seq(Blocks)
  BY RowTypes DEF FsTypes
<1>2. disk' = [disk EXCEPT ![i].blks = row]
  OBVIOUS
<1>3. row = [m \in 1..Len(blks) |-> IF m # n /\ m <= Len(blks) THEN blks[m] ELSE Bad]
  BY <1>1 DEF tz_fs_write_cut
<1>4. blks \in [1..Len(blks) -> Blocks]
  BY <1>1, LenProperties
<1>5. \A m \in 1..Len(blks) : m # n /\ m <= Len(blks)
  BY <1>1
<1>6. row = blks
  BY <1>3, <1>4, <1>5
<1> HIDE DEF row
<1> QED
  BY <1>1, <1>2, <1>6

\* What that does to the bytes of the file.
LEMMA ReplacedBytes ==
  ASSUME FsTypes, NEW i \in Inodes, NEW n \in 1..(Len(disk[i].blks) + 1), NEW b, Replaced(i, n, b)
  PROVE  /\ n >= Len(disk[i].blks) =>
              FileSize(i)' = Base(n) + IF verified(b, i, n) THEN b.count ELSE CFS_BLK_SIZE
         /\ n < Len(disk[i].blks) => FileSize(i)' = FileSize(i)
         /\ \A pos \in Nat : blknum(pos) = n =>
              ByteAt(i, pos)' = IF verified(b, i, n) THEN b.blk[blkoffset(pos)] ELSE Lost
         /\ \A pos \in Nat : blknum(pos) \in 1..Len(disk[i].blks) /\ blknum(pos) # n =>
              ByteAt(i, pos)' = ByteAt(i, pos)
<1> DEFINE l == Len(disk[i].blks)
<1>1. l \in Nat /\ n \in Nat /\ n >= 1
  BY RowTypes
<1>2. /\ Len(disk'[i].blks) = (IF n > l THEN n ELSE l)
      /\ disk'[i].blks[n] = b
      /\ \A m \in 1..l : m # n => disk'[i].blks[m] = disk[i].blks[m]
  BY DEF Replaced
<1>4. \A m : BytesOf(i, m) = IF verified(disk[i].blks[m], i, m) THEN disk[i].blks[m].count ELSE CFS_BLK_SIZE
  BY DEF BytesOf
<1> DEFINE k == Len(disk'[i].blks)
           size == IF verified(disk'[i].blks[k], i, k) THEN disk'[i].blks[k].count ELSE CFS_BLK_SIZE
<1>5. FileSize(i)' = IF k = 0 THEN 0 ELSE Base(k) + size
  BY DEF FileSize, BytesOf, verified, Base
<1>6. FileSize(i) = IF l = 0 THEN 0 ELSE Base(l) + BytesOf(i, l)
  BY DEF FileSize, Base
<1>7. n >= l => FileSize(i)' = Base(n) + IF verified(b, i, n) THEN b.count ELSE CFS_BLK_SIZE
  <2>1. n >= l => k = n /\ k # 0
    BY <1>1, <1>2
  <2>2. n >= l => size = IF verified(b, i, n) THEN b.count ELSE CFS_BLK_SIZE
    BY <1>2, <2>1
  <2> HIDE DEF k, size, l
  <2> QED
    BY <1>5, <2>1, <2>2
<1>8. n < l => FileSize(i)' = FileSize(i)
  <2>1. n < l => k = l /\ l \in 1..l /\ l # n /\ l # 0
    BY <1>1, <1>2
  <2>2. n < l => size = BytesOf(i, l)
    BY <1>2, <1>4, <2>1
  <2> HIDE DEF k, size, l
  <2> QED
    BY <1>5, <1>6, <2>1, <2>2
<1>9. \A pos : ByteAt(i, pos)' = IF verified(disk'[i].blks[blknum(pos)], i, blknum(pos))
                                 THEN disk'[i].blks[blknum(pos)].blk[blkoffset(pos)] ELSE Lost
  BY DEF ByteAt, verified, blknum, blkoffset
<1>10. \A pos : ByteAt(i, pos) = IF verified(disk[i].blks[blknum(pos)], i, blknum(pos))
                                 THEN disk[i].blks[blknum(pos)].blk[blkoffset(pos)] ELSE Lost
  BY DEF ByteAt
<1>11. \A pos \in Nat : blknum(pos) = n =>
         ByteAt(i, pos)' = IF verified(b, i, n) THEN b.blk[blkoffset(pos)] ELSE Lost
  BY <1>2, <1>9
<1>12. \A pos \in Nat : blknum(pos) \in 1..l /\ blknum(pos) # n => ByteAt(i, pos)' = ByteAt(i, pos)
  BY <1>2, <1>9, <1>10
<1> QED
  BY <1>7, <1>8, <1>11, <1>12

\* The other files stay as they are.
LEMMA OtherBytes ==
  ASSUME NEW j, disk'[j].blks = disk[j].blks
  PROVE  /\ FileSize(j)' = FileSize(j) /\ Content(j)' = Content(j)
         /\ \A pos : ByteAt(j, pos)' = ByteAt(j, pos)
BY DEF FileSize, BytesOf, ByteAt, Content, verified, blknum, blkoffset

-----------------------------------------------------------------------------
(* The handles of StoredFile                                               *)

\* A handle between two calls.
Resting(c) == [obj |-> c.key, mark |-> c.filepos, pos |-> c.filepos, buf |-> <<>>]

StoreContent == [i \in Inodes |-> Content(i)]
StoreHandles == [u \in UserFds |-> Handle(u)]

\* A handle that no call is about, before and after a step.
LEMMA HandleRests ==
  ASSUME NEW u \in UserFds
  PROVE  /\ call = NULL \/ call.u # u => Handle(u) = IF files[u] = NULL THEN NULL ELSE Resting(files[u])
         /\ call' = NULL \/ call'.u # u => Handle(u)' = IF files'[u] = NULL THEN NULL ELSE Resting(files'[u])
<1>1. call = NULL \/ call.u # u => Handle(u) = IF files[u] = NULL THEN NULL ELSE Resting(files[u])
  BY DEF Handle, Resting
<1>2. call' = NULL \/ call'.u # u => Handle(u)' = IF files'[u] = NULL THEN NULL ELSE Resting(files'[u])
  BY DEF Handle, Resting
<1> QED
  BY <1>1, <1>2

\* The handle of a call in progress.
LEMMA HandleCalls ==
  ASSUME NEW u \in UserFds
  PROVE  /\ call # NULL /\ call.u = u /\ files[u] # NULL =>
              Handle(u) = [obj |-> files[u].key, mark |-> call.start,
                           pos |-> IF call.op = "read" THEN call.start ELSE files[u].filepos,
                           buf |-> IF call.op = "read" THEN <<>> ELSE call.buf]
         /\ call' # NULL /\ call'.u = u /\ files'[u] # NULL =>
              Handle(u)' = [obj |-> files'[u].key, mark |-> call'.start,
                            pos |-> IF call'.op = "read" THEN call'.start ELSE files'[u].filepos,
                            buf |-> IF call'.op = "read" THEN <<>> ELSE call'.buf]
<1>1. call # NULL /\ call.u = u /\ files[u] # NULL =>
              Handle(u) = [obj |-> files[u].key, mark |-> call.start,
                           pos |-> IF call.op = "read" THEN call.start ELSE files[u].filepos,
                           buf |-> IF call.op = "read" THEN <<>> ELSE call.buf]
  BY DEF Handle
<1>2. call' # NULL /\ call'.u = u /\ files'[u] # NULL =>
              Handle(u)' = [obj |-> files'[u].key, mark |-> call'.start,
                            pos |-> IF call'.op = "read" THEN call'.start ELSE files'[u].filepos,
                            buf |-> IF call'.op = "read" THEN <<>> ELSE call'.buf]
  BY DEF Handle
<1> QED
  BY <1>1, <1>2

\* One handle is replaced, and no call is about another one.
LEMMA HandleReplaced ==
  ASSUME NEW u \in UserFds, call = NULL \/ call.u = u, call' = NULL \/ call'.u = u,
         \A v \in UserFds : v # u => files'[v] = files[v],
         NEW h, Handle(u)' = h
  PROVE  StoreHandles' = [StoreHandles EXCEPT ![u] = h]
<1>1. \A v \in UserFds : v # u => Handle(v)' = Handle(v)
  <2>1. SUFFICES ASSUME NEW v \in UserFds, v # u PROVE Handle(v)' = Handle(v)
    OBVIOUS
  <2> QED
    BY <2>1, HandleRests
<1>2. StoreHandles' = [v \in UserFds |-> Handle(v)']
  BY DEF StoreHandles
<1>3. StoreHandles = [v \in UserFds |-> Handle(v)]
  BY DEF StoreHandles
<1> QED
  BY <1>1, <1>2, <1>3

\* A handle of the file system is one of StoredFile, and NULL where there is none.
LEMMA HandleIs ==
  ASSUME StoreHyp, FsInv, NEW u \in UserFds
  PROVE  files[u] # NULL <=> Handle(u) # NULL
<1>1. files[u] = NULL => Handle(u) = NULL
  BY DEF Handle
<1>2. ASSUME files[u] # NULL PROVE Handle(u) # NULL
  <2>1. files[u] \in HandleT
    BY <1>2 DEF FsInv, FsTypes
  <2>2. files[u].key \in Inodes /\ files[u].filepos \in Int
    BY <2>1, CryptoFsAssumption DEF HandleT
  <2>3. <<>> \in Seq(ByteT)
    OBVIOUS
  <2> DEFINE T == [obj : Inodes, mark : Int, pos : Int, buf : Seq(ByteT)]
  <2>4. NULL \notin T
    BY DEF StoreHyp
  <2>5. CASE call = NULL \/ call.u # u
    <3>1. Handle(u) = Resting(files[u])
      BY <1>2, <2>5, HandleRests
    <3>2. Resting(files[u]) \in T
      BY <2>2, <2>3 DEF Resting
    <3> QED
      BY <2>4, <3>1, <3>2
  <2>6. CASE call # NULL /\ call.u = u
    <3>1. call.start \in Int /\ call.buf \in Seq(ByteT)
      BY <2>6, CryptoFsAssumption DEF FsInv, WriteOK, ReadOK
    <3>2. Handle(u) = [obj |-> files[u].key, mark |-> call.start,
                       pos |-> IF call.op = "read" THEN call.start ELSE files[u].filepos,
                       buf |-> IF call.op = "read" THEN <<>> ELSE call.buf]
      BY <1>2, <2>6, HandleCalls
    <3> DEFINE p == IF call.op = "read" THEN call.start ELSE files[u].filepos
               b == IF call.op = "read" THEN <<>> ELSE call.buf
    <3>3. p \in Int /\ b \in Seq(ByteT)
      BY <2>2, <2>3, <3>1
    <3>4. Handle(u) = [obj |-> files[u].key, mark |-> call.start, pos |-> p, buf |-> b]
      BY <3>2
    <3> HIDE DEF p, b
    <3>5. Handle(u) \in T
      BY <2>2, <3>1, <3>3, <3>4
    <3> QED
      BY <2>4, <3>5
  <2> QED
    BY <2>5, <2>6
<1> QED
  BY <1>1, <1>2

\* The blocks of all files stay as they are.
SameBlocks == \A i \in Inodes : disk'[i].blks = disk[i].blks

\* Then the contents are the same.
LEMMA SameContent ==
  ASSUME SameBlocks
  PROVE  /\ StoreContent' = StoreContent
         /\ RowsFull => RowsFull'
<1>1. \A i \in Inodes : Content(i)' = Content(i)
  BY OtherBytes DEF SameBlocks
<1>2. StoreContent' = StoreContent
  BY <1>1 DEF StoreContent
<1>3. ASSUME RowsFull PROVE RowsFull'
  BY <1>3 DEF RowsFull, SameBlocks, verified
<1> QED
  BY <1>2, <1>3

\* What the call in progress is after a step.
LEMMA WriteFitsNext ==
  ASSUME NEW i, NEW p, NEW k, files'[call'.u].key = i, files'[call'.u].filepos = p,
         Len(call'.buf) = k, p <= FileSize(i)',
         p + k >= FileSize(i)' \/ (k > 0 /\ blkoffset(p + k) = 0)
  PROVE  WriteFits'
BY DEF WriteFits, FileSize, BytesOf, verified, blkoffset

\* The same for a read in progress.
LEMMA ReadFitsNext ==
  ASSUME NEW i, NEW s, NEW buf, files'[call'.u].key = i, call'.start = s, call'.buf = buf,
         Len(buf) = 0 \/ Len(buf) < call'.count, Collected(i, s, buf)'
  PROVE  ReadFits'
BY DEF ReadFits, Collected, FileSize, BytesOf, ByteAt, verified, blkoffset, blknum

-----------------------------------------------------------------------------
(* The steps between calls                                                 *)

\* What is to be shown of a step: the rest of the invariant, and that it is a step
\* of StoredFile.
Simulated ==
  /\ RowsFull'
  /\ call' # NULL => (IF call.op = "write" THEN WriteFits ELSE ReadFits)'
  /\ [Store!SNext]_(Store!svars)

\* Steps that are refused, and steps StoredFile does not see.
LEMMA Unseen ==
  ASSUME StoreHyp, StoreInv, call = NULL, call' = NULL, SameBlocks, files' = files,
         \/ reply' = reply
         \/ reply'.op = "open" /\ reply'.ret = -1
         \/ reply'.op = "lseek" /\ reply'.ret = -1
         \/ reply'.op = "remove" /\ reply'.ret = 0
  PROVE  Simulated
<1>1. StoreContent' = StoreContent /\ RowsFull'
  BY SameContent DEF StoreInv
<1>2. \A v \in UserFds : Handle(v)' = Handle(v)
  BY HandleRests
<1>3. StoreHandles' = StoreHandles
  BY <1>2 DEF StoreHandles
<1>4. CASE reply' = reply
  BY <1>1, <1>3, <1>4 DEF Store!svars, StoreContent, StoreHandles, Simulated
<1>5. CASE reply' # reply
  <2>1. Store!Told("open", -1) \/ Store!Told("lseek", -1) \/ Store!Told("remove", 0)
    BY <1>5 DEF Store!Told
  <2>2. Store!Refused
    BY <1>1, <1>3, <2>1 DEF Store!Refused, StoreContent, StoreHandles
  <2> QED
    BY <1>1, <2>2 DEF Store!SNext, Simulated
<1> QED
  BY <1>4, <1>5

\* swi_open.
LEMMA OpenSimulated ==
  ASSUME StoreHyp, StoreInv, NEW f \in Files, swi_open(f)
  PROVE  Simulated
<1>0. FsHyp /\ FsInv /\ FsTypes /\ call = NULL /\ call' = NULL
  BY DEF StoreHyp, StoreInv, FsInv, swi_open
<1>1. PICK i \in tz_fs_open(f), fault \in BOOLEAN : \E hdr \in fs_open(i, fault) :
        /\ disk' = [disk EXCEPT ![i].hdr = hdr]
        /\ IF hdr = "ok" /\ ~fault
           THEN LET fd == Lowest(FreeFds)
                    u == proc_get_next_fd
                IN  /\ files' = [files EXCEPT ![u] = [fd |-> fd, filepos |-> 0, key |-> i]]
                    /\ reply' = Answer("open", u, FALSE)
           ELSE /\ reply' = Answer("open", -1, fault)
                /\ UNCHANGED files
  BY DEF swi_open
<1>2. PICK hdr \in fs_open(i, fault) :
        /\ disk' = [disk EXCEPT ![i].hdr = hdr]
        /\ IF hdr = "ok" /\ ~fault
           THEN LET fd == Lowest(FreeFds)
                    u == proc_get_next_fd
                IN  /\ files' = [files EXCEPT ![u] = [fd |-> fd, filepos |-> 0, key |-> i]]
                    /\ reply' = Answer("open", u, FALSE)
           ELSE /\ reply' = Answer("open", -1, fault)
                /\ UNCHANGED files
  BY <1>1
<1>3. i \in Inodes
  BY <1>0 DEF tz_fs_open, FreeInodes, FsTypes
<1>4. SameBlocks
  BY <1>0, <1>2, <1>3 DEF SameBlocks, FsTypes
<1>5. CASE hdr = "ok" /\ ~fault
  <2>0. PICK fd, u : fd = Lowest(FreeFds) /\ u = proc_get_next_fd
    OBVIOUS
  <2>1. fd \in DaemonFds /\ u \in UserFds /\ files[u] = NULL
    BY <1>0, <2>0, OpenChooses DEF swi_open
  <2> DEFINE h == [fd |-> fd, filepos |-> 0, key |-> i]
  <2>2. files' = [files EXCEPT ![u] = h] /\ reply'.op = "open" /\ reply'.ret = u
    BY <1>2, <1>5, <2>0 DEF Answer
  <2>3. h \in HandleT /\ h # NULL
    <3>1. h \in HandleT
      BY <1>3, <2>1, CryptoFsAssumption DEF HandleT
    <3> QED
      BY <1>0, <3>1 DEF FsHyp
  <2>4. files'[u] = h /\ \A v \in UserFds : v # u => files'[v] = files[v]
    BY <1>0, <2>1, <2>2 DEF FsTypes
  <2>5. Handle(u)' = Store!At(i, 0)
    <3>1. Handle(u)' = Resting(h)
      BY <1>0, <2>1, <2>3, <2>4, HandleRests
    <3>2. Resting(h) = Store!At(i, 0)
      BY DEF Resting, Store!At
    <3> QED
      BY <3>1, <3>2
  <2> HIDE DEF h
  <2>6. StoreHandles' = [StoreHandles EXCEPT ![u] = Store!At(i, 0)]
    BY <1>0, <2>1, <2>4, <2>5, HandleReplaced
  <2>7. StoreContent' = StoreContent /\ RowsFull'
    BY <1>4, SameContent DEF StoreInv
  <2>8. StoreHandles[u] = NULL
    BY <2>1 DEF StoreHandles, Handle
  <2>9. Store!Open(u, i)
    BY <2>2, <2>6, <2>7, <2>8 DEF Store!Open, Store!Told, StoreContent, StoreHandles
  <2> QED
    BY <1>0, <1>3, <2>1, <2>7, <2>9 DEF Store!SNext, Simulated
<1>6. CASE ~(hdr = "ok" /\ ~fault)
  <2>1. reply'.op = "open" /\ reply'.ret = -1 /\ files' = files
    BY <1>2, <1>6 DEF Answer
  <2> QED
    BY <1>0, <1>4, <2>1, Unseen
<1> QED
  BY <1>5, <1>6

\* swi_close.
LEMMA CloseSimulated ==
  ASSUME StoreHyp, StoreInv, NEW u \in UserFds, swi_close(u)
  PROVE  Simulated
<1>1. /\ FsInv /\ FsTypes /\ call = NULL /\ call' = NULL /\ files[u] # NULL
      /\ files' = [files EXCEPT ![u] = NULL] /\ reply'.op = "close" /\ reply'.ret = 0
      /\ SameBlocks
  BY DEF StoreInv, FsInv, swi_close, Answer, SameBlocks
<1>2. files'[u] = NULL /\ \A v \in UserFds : v # u => files'[v] = files[v]
  BY <1>1 DEF FsTypes
<1>3. Handle(u)' = NULL
  BY <1>1, <1>2, HandleRests
<1>4. StoreHandles' = [StoreHandles EXCEPT ![u] = NULL]
  BY <1>1, <1>2, <1>3, HandleReplaced
<1>5. StoreContent' = StoreContent /\ RowsFull'
  BY <1>1, SameContent DEF StoreInv
<1>6. StoreHandles[u] # NULL
  BY <1>1, HandleIs DEF StoreHandles
<1>7. Store!Close(u)
  BY <1>1, <1>4, <1>5, <1>6 DEF Store!Close, Store!Told, StoreContent, StoreHandles
<1> QED
  BY <1>1, <1>5, <1>7 DEF Store!SNext, Simulated

\* swi_lseek.
LEMMA SeekSimulated ==
  ASSUME StoreHyp, StoreInv, NEW u \in UserFds, NEW o \in Offsets, swi_lseek(u, o)
  PROVE  Simulated
<1>1. FsHyp /\ FsInv /\ FsTypes /\ call = NULL /\ call' = NULL /\ files[u] # NULL /\ SameBlocks
  BY DEF StoreHyp, StoreInv, FsInv, swi_lseek, SameBlocks
<1>2. PICK pos \in {o, files[u].filepos + o}, fault \in BOOLEAN :
        pos <= MAX_POS /\ fs_lseek(u, pos, fault)
  BY DEF swi_lseek
<1>3. pos \in 0..MAX_POS /\ files[u] \in HandleT
  <2>1. files[u] \in HandleT
    BY <1>1 DEF FsTypes
  <2>2. files[u].filepos \in 0..MAX_POS /\ MAX_POS \in Nat /\ o \in Nat
    BY <2>1, CryptoFsAssumption DEF HandleT
  <2>3. pos \in Nat
    BY <1>2, <2>2
  <2> QED
    BY <1>2, <2>1, <2>2, <2>3
<1>4. \/ reply'.op = "lseek" /\ reply'.ret = -1 /\ files' = files
      \/ reply'.op = "lseek" /\ reply'.ret = 0 /\ files' = [files EXCEPT ![u].filepos = pos]
  BY <1>2 DEF fs_lseek, Answer
<1>5. CASE reply'.op = "lseek" /\ reply'.ret = -1 /\ files' = files
  BY <1>1, <1>5, Unseen
<1>6. CASE reply'.op = "lseek" /\ reply'.ret = 0 /\ files' = [files EXCEPT ![u].filepos = pos]
  <2>1. /\ files'[u] = [files[u] EXCEPT !.filepos = pos]
        /\ \A v \in UserFds : v # u => files'[v] = files[v]
    BY <1>1, <1>6 DEF FsTypes
  <2>2. files'[u].filepos = pos /\ files'[u].key = files[u].key /\ files'[u] # NULL
    BY <1>1, <1>3, <1>6, HandleMoves DEF Kept
  <2>3. Handle(u)' = Store!At(StoreHandles[u].obj, pos)
    <3>1. Handle(u)' = Resting(files'[u])
      BY <1>1, <2>2, HandleRests
    <3>2. Handle(u) = Resting(files[u])
      BY <1>1, HandleRests
    <3>3. StoreHandles[u].obj = files[u].key
      BY <3>2 DEF StoreHandles, Resting
    <3> QED
      BY <2>2, <3>1, <3>3 DEF Resting, Store!At
  <2>4. StoreHandles' = [StoreHandles EXCEPT ![u] = Store!At(StoreHandles[u].obj, pos)]
    BY <1>1, <2>1, <2>3, HandleReplaced
  <2>5. StoreContent' = StoreContent /\ RowsFull'
    BY <1>1, SameContent DEF StoreInv
  <2>6. StoreHandles[u] # NULL
    BY <1>1, HandleIs DEF StoreHandles
  <2>7. Store!Seek(u)
    BY <1>3, <1>6, <2>4, <2>5, <2>6 DEF Store!Seek, Store!Told, StoreContent, StoreHandles
  <2> QED
    BY <1>1, <2>5, <2>7 DEF Store!SNext, Simulated
<1> QED
  BY <1>4, <1>5, <1>6

\* Loss of power.
LEMMA CrashSimulated ==
  ASSUME StoreHyp, StoreInv, power_off
  PROVE  Simulated
<1>1. /\ files' = [u \in UserFds |-> NULL] /\ call' = NULL /\ reply'.op = "none" /\ SameBlocks
  BY DEF power_off, Answer, SameBlocks
<1>2. \A u \in UserFds : Handle(u)' = NULL
  BY <1>1, HandleRests
<1>3. StoreHandles' = [u \in UserFds |-> NULL]
  BY <1>2 DEF StoreHandles
<1>4. StoreContent' = StoreContent /\ RowsFull'
  BY <1>1, SameContent DEF StoreInv
<1>5. Store!Crash
  BY <1>1, <1>3, <1>4 DEF Store!Crash, StoreContent, StoreHandles
<1> QED
  BY <1>1, <1>4, <1>5 DEF Store!SNext, Simulated

\* swi_write: the handle is the same but for the bytes to be written.
LEMMA WriteBeginSimulated ==
  ASSUME StoreHyp, StoreInv, FsInv', Careful, NEW u \in UserFds, NEW n \in Lengths, NEW v \in Versions,
         swi_write(u, n, v)
  PROVE  Simulated
<1>1. /\ FsInv /\ FsTypes /\ call = NULL /\ files[u] # NULL /\ files' = files /\ disk' = disk /\ reply' = reply
      /\ SameBlocks /\ Fitting(u, n) /\ n \in Nat
  BY CryptoFsAssumption DEF StoreInv, FsInv, swi_write, SameBlocks
<1>2. PICK buf : buf = [j \in 1..n |-> Byte(files[u].key, files[u].filepos + j - 1, v)]
  OBVIOUS
<1>3. call' = [op |-> "write", u |-> u, start |-> files[u].filepos, fault |-> FALSE, buf |-> buf] /\ Len(buf) = n
  BY <1>1, <1>2 DEF swi_write
<1>31. call' # NULL /\ buf \in Seq(ByteT)
  <2>1. files[u] \in HandleT /\ v \in Nat
    BY <1>1, CryptoFsAssumption DEF FsTypes
  <2>11. files[u].filepos \in 0..MAX_POS /\ files[u].key \in Inodes
    BY <2>1 DEF HandleT
  <2>12. files[u].key \in Nat
    BY <2>11, CryptoFsAssumption
  <2>2. files[u].filepos \in 0..MAX_POS /\ files[u].key \in Int
    BY <2>11, <2>12
  <2>3. buf \in [1..n -> ByteT]
    BY <1>1, <1>2, <2>1, <2>2, CryptoFsAssumption DEF Byte, ByteT
  <2>4. buf \in Seq(ByteT)
    BY <1>1, <2>3, SeqDef
  <2>5. call' \in [op : {"write"}, u : UserFds, start : 0..MAX_POS, fault : BOOLEAN, buf : Seq(ByteT)]
    BY <1>3, <2>2, <2>4
  <2> QED
    BY <2>4, <2>5 DEF StoreHyp
<1>4. StoreContent' = StoreContent /\ RowsFull'
  BY <1>1, SameContent DEF StoreInv
<1>5. WriteFits'
  <2>1. PICK i, p : i = files[u].key /\ p = files[u].filepos
    OBVIOUS
  <2>2. FileSize(i)' = FileSize(i)
    BY <1>1 DEF FileSize, BytesOf, verified
  <2>3. p <= FileSize(i) /\ (p + n >= FileSize(i) \/ (n > 0 /\ blkoffset(p + n) = 0))
    BY <1>1, <2>1 DEF Fitting
  <2> QED
    BY <1>1, <1>3, <2>1, <2>2, <2>3, WriteFitsNext
<1>6. Handle(u)' = [Handle(u) EXCEPT !.buf = buf] /\ Handle(u)'.buf = buf
  <2>1. Handle(u) = Resting(files[u])
    BY <1>1, HandleRests
  <2>2. Handle(u)' = [obj |-> files[u].key, mark |-> files[u].filepos, pos |-> files[u].filepos, buf |-> buf]
    BY <1>1, <1>3, <1>31, HandleCalls
  <2> QED
    BY <2>1, <2>2 DEF Resting
<1>7. StoreHandles' = [StoreHandles EXCEPT ![u] = [Handle(u) EXCEPT !.buf = buf]]
  <2>1. \A w \in UserFds : w # u => files'[w] = files[w]
    BY <1>1
  <2>2. call'.u = u
    BY <1>3
  <2>3. PICK h : h = [Handle(u) EXCEPT !.buf = buf]
    OBVIOUS
  <2> QED
    BY <1>1, <1>6, <2>1, <2>2, <2>3, HandleReplaced
<1>8. StoreHandles[u] = Handle(u) /\ Handle(u) # NULL /\ StoreHandles'[u] = Handle(u)' /\ Handle(u)' # NULL
  <2>1. Handle(u) # NULL
    BY <1>1, HandleIs
  <2>2. Handle(u)' # NULL
    <3>1. files[u] \in HandleT /\ buf \in Seq(ByteT)
      BY <1>1, <1>3, <1>31 DEF FsTypes
    <3>2. files[u].key \in Inodes /\ files[u].filepos \in Int
      BY <3>1, CryptoFsAssumption DEF HandleT
    <3>3. Handle(u)' = [obj |-> files[u].key, mark |-> files[u].filepos, pos |-> files[u].filepos, buf |-> buf]
      BY <1>1, <1>3, <1>31, HandleCalls
    <3> QED
      BY <3>1, <3>2, <3>3 DEF StoreHyp
  <2>3. StoreHandles[u] = Handle(u) /\ StoreHandles'[u] = Handle(u)'
    BY DEF StoreHandles
  <2> QED
    BY <2>1, <2>2, <2>3
<1>9. StoreHandles' = [StoreHandles EXCEPT ![u].buf = StoreHandles'[u].buf]
  BY <1>6, <1>7, <1>8
<1>10. Store!Begin(u)
  BY <1>1, <1>4, <1>8, <1>9 DEF Store!Begin, StoreContent, StoreHandles
<1> QED
  BY <1>3, <1>4, <1>5, <1>10 DEF Store!SNext, Simulated

\* swi_read: StoredFile sees it only when it is done.
LEMMA ReadBeginSimulated ==
  ASSUME StoreHyp, StoreInv, FsInv', NEW u \in UserFds, NEW n \in Counts, swi_read(u, n)
  PROVE  Simulated
<1>1. /\ FsInv /\ FsTypes /\ call = NULL /\ files[u] # NULL /\ files' = files /\ disk' = disk /\ reply' = reply
      /\ SameBlocks /\ n \in Nat
      /\ call' = [op |-> "read", u |-> u, start |-> files[u].filepos, count |-> n, buf |-> <<>>]
  BY CryptoFsAssumption DEF StoreInv, FsInv, swi_read, SameBlocks
<1>2. call'.op = "read" /\ call'.u = u /\ call'.start = files[u].filepos /\ call'.buf = <<>> /\ Len(<<>>) = 0
  BY <1>1
<1>3. call' # NULL
  <2>1. files[u] \in HandleT
    BY <1>1 DEF FsTypes
  <2>2. files[u].filepos \in 0..MAX_POS /\ <<>> \in Seq(ByteT)
    BY <2>1 DEF HandleT
  <2>3. PICK p, b : p = files[u].filepos /\ b = <<>>
    OBVIOUS
  <2>4. p \in 0..MAX_POS /\ b \in Seq(ByteT) /\ call' = [op |-> "read", u |-> u, start |-> p, count |-> n, buf |-> b]
    BY <1>1, <2>2, <2>3
  <2>5. call' \in [op : {"read"}, u : UserFds, start : 0..MAX_POS, count : Nat, buf : Seq(ByteT)]
    BY <1>1, <2>4
  <2> QED
    BY <2>5 DEF StoreHyp
<1>4. StoreContent' = StoreContent /\ RowsFull'
  BY <1>1, SameContent DEF StoreInv
<1>5. ReadFits'
  <2>1. PICK i, p : i = files[u].key /\ p = files[u].filepos
    OBVIOUS
  <2>2. PICK buf : buf = <<>>
    OBVIOUS
  <2>3. Collected(i, p, buf)'
    BY <2>2 DEF Collected
  <2>4. files'[call'.u].key = i /\ call'.start = p /\ call'.buf = buf /\ Len(buf) = 0
    BY <1>1, <1>2, <2>1, <2>2
  <2> QED
    BY <2>3, <2>4, ReadFitsNext
<1>6. Handle(u)' = Handle(u)
  BY <1>1, <1>2, <1>3, HandleRests, HandleCalls DEF Resting
<1>7. \A w \in UserFds : Handle(w)' = Handle(w)
  <2>1. ASSUME NEW w \in UserFds, w # u PROVE Handle(w)' = Handle(w)
    BY <1>1, <1>2, <2>1, HandleRests
  <2> QED
    BY <1>6, <2>1
<1>8. StoreHandles' = StoreHandles
  BY <1>7 DEF StoreHandles
<1> QED
  BY <1>1, <1>2, <1>4, <1>5, <1>8 DEF Store!svars, StoreContent, StoreHandles, Simulated

\* swi_fstat gives the number of bytes, unless the last block is lost.
LEMMA StatSimulated ==
  ASSUME StoreHyp, StoreInv, NEW u \in UserFds, swi_fstat(u)
  PROVE  Simulated
<1>1. /\ FsInv /\ FsTypes /\ Pairs /\ call = NULL /\ call' = NULL /\ files[u] # NULL /\ files' = files /\ SameBlocks
  BY DEF StoreInv, FsInv, swi_fstat, SameBlocks
<1>2. PICK c, i : c = files[u] /\ i = files[u].key
  OBVIOUS
<1>3. c \in HandleT /\ i \in Inodes /\ fds[c.fd] = i
  <2>1. files[u] \in HandleT
    BY <1>1 DEF FsTypes
  <2> QED
    BY <1>1, <1>2, <2>1 DEF HandleT, Pairs
<1> DEFINE n == Len(disk[i].blks)
<1> DEFINE size == IF n = 0 THEN 0 ELSE fs_fstat(c, n, disk[i].blks[n])
<1>4. \/ reply'.op = "fstat" /\ reply'.ret = -1 /\ reply'.fault
      \/ reply'.op = "fstat" /\ reply'.ret = size
  <2>1. n \in Nat /\ tz_fs_fstat(c.fd) = n
    BY <1>1, <1>3, RowTypes DEF tz_fs_fstat
  <2> HIDE DEF n
  <2>2. \/ reply' = Answer("fstat", -1, TRUE)
        \/ n = 0 /\ reply' = Answer("fstat", 0, FALSE)
        \/ n # 0 /\ \E b \in ree_read(c.fd, n) :
                       reply' = Answer("fstat", fs_fstat(c, n, b), Failed(c.fd, n, b))
    BY <1>2, <2>1 DEF swi_fstat
  <2>3. CASE n # 0 /\ \E b \in ree_read(c.fd, n) :
                       reply' = Answer("fstat", fs_fstat(c, n, b), Failed(c.fd, n, b))
    <3>1. PICK b \in ree_read(c.fd, n) :
            reply' = Answer("fstat", fs_fstat(c, n, b), Failed(c.fd, n, b))
      BY <2>3
    <3>2. fds[c.fd] # NULL
      BY <1>3, CryptoFsAssumption DEF StoreHyp, FsHyp
    <3>3. Found(c.fd, n) = disk[i].blks[n]
      BY <1>3, <2>1 DEF Found
    <3>4. b = disk[i].blks[n] \/ (b = Eof /\ b # Found(c.fd, n))
      BY <3>1, <3>2, <3>3 DEF ree_read, ree_lseek, tz_fs_lseek, tz_fs_read
    <3>5. ASSUME b = Eof PROVE fs_fstat(c, n, b) = -1
      <4>1. b.key = -1
        BY <3>5 DEF Eof, Block
      <4>2. c.key \in Nat
        BY <1>2, <1>3, CryptoFsAssumption
      <4> QED
        BY <4>1, <4>2 DEF fs_fstat, verified
    <3>6. CASE b = disk[i].blks[n]
      BY <2>3, <3>1, <3>6 DEF Answer
    <3>7. CASE b = Eof /\ b # Found(c.fd, n)
      BY <3>1, <3>5, <3>7 DEF Answer, Failed
    <3> QED
      BY <3>4, <3>6, <3>7
  <2> QED
    BY <2>2, <2>3 DEF Answer
<1>5. Handle(u) = Resting(c) /\ \A v \in UserFds : Handle(v)' = Handle(v)
  BY <1>1, <1>2, HandleRests
<1>6. StoreHandles' = StoreHandles /\ StoreHandles[u] = Handle(u) /\ Handle(u).obj = i
  BY <1>2, <1>5 DEF StoreHandles, Resting
<1>7. StoreContent' = StoreContent /\ RowsFull' /\ StoreContent[i] = Content(i)
  BY <1>1, <1>3, SameContent DEF StoreInv, StoreContent
<1>8. Handle(u) # NULL
  BY <1>1, HandleIs
<1>9. /\ n \in Nat /\ FileSize(i) \in Nat /\ (n = 0 => FileSize(i) = 0)
      /\ n > 0 => FileSize(i) = Base(n) + BytesOf(i, n) /\ Base(n) \in Int /\ BytesOf(i, n) \in 0..CFS_BLK_SIZE
  <2>1. n \in Nat /\ FileSize(i) \in Nat /\ (n = 0 => FileSize(i) = 0)
        /\ (n > 0 => FileSize(i) = Base(n) + BytesOf(i, n) /\ BytesOf(i, n) \in 0..CFS_BLK_SIZE)
    BY <1>1, <1>3, SizeIs, RowTypes
  <2>2. n \in Int
    BY <2>1
  <2>3. Base(n) \in Int
    BY <2>2, BaseNext
  <2> QED
    BY <2>1, <2>3
<1>10. Len(Content(i)) = FileSize(i) /\ \A q \in 1..FileSize(i) : Content(i)[q] = ByteAt(i, q - 1)
  BY <1>9 DEF Content
<1>11. size = IF n = 0 THEN 0
              ELSE IF verified(disk[i].blks[n], i, n) THEN (n - 1) * CFS_BLK_SIZE + disk[i].blks[n].count ELSE -1
  <2>1. c.key = i
    BY <1>2
  <2> HIDE DEF n
  <2> QED
    BY <2>1 DEF fs_fstat
<1> HIDE DEF size
<1>12. \/ size = FileSize(i)
       \/ size = -1 /\ Content(i) # <<>> /\ Last(Content(i)) = Lost
  <2>1. CASE n = 0 \/ verified(disk[i].blks[n], i, n)
    BY <1>11, <2>1 DEF FileSize, BytesOf
  <2>2. CASE n # 0 /\ ~verified(disk[i].blks[n], i, n)
    <3>1. size = -1
      BY <1>11, <2>2
    <3>2. CFS_BLK_SIZE \in Nat /\ CFS_BLK_SIZE > 0 /\ BytesOf(i, n) = CFS_BLK_SIZE
      BY <2>2, CryptoFsAssumption DEF BytesOf
    <3> DEFINE p == Base(n) + (CFS_BLK_SIZE - 1)
    <3>3. FileSize(i) = p + 1 /\ p \in Nat /\ Base(n) <= p /\ p < Base(n) + CFS_BLK_SIZE
      <4>1. n > 0 /\ Base(n) <= FileSize(i) /\ Base(n) \in Int /\ Base(n) >= 0
        <5>1. n > 0
          BY <1>9, <2>2
        <5>2. n > 1 => Base(1) + CFS_BLK_SIZE <= Base(n)
          BY <1>9, BaseOrder
        <5>3. Base(1) = 0
          BY <3>2 DEF Base
        <5> HIDE DEF n
        <5> QED
          BY <1>9, <3>2, <5>1, <5>2, <5>3
      <4> HIDE DEF n
      <4> QED
        BY <1>9, <3>2, <4>1
    <3> HIDE DEF p
    <3>4. blknum(p) = n
      BY <1>9, <3>3, InBlock
    <3>5. ByteAt(i, p) = Lost
      BY <2>2, <3>4 DEF ByteAt
    <3>6. FileSize(i) \in 1..FileSize(i) /\ FileSize(i) - 1 = p
      BY <3>3
    <3>7. Content(i)[FileSize(i)] = Lost /\ Len(Content(i)) # 0
      BY <1>10, <3>3, <3>5, <3>6
    <3> QED
      BY <1>10, <3>1, <3>7 DEF Last
  <2> QED
    BY <2>1, <2>2
<1>13. Store!Stat(u)
  <2>1. \/ reply'.op = "fstat" /\ reply'.ret = Len(Content(i))
        \/ reply'.op = "fstat" /\ reply'.ret = -1 /\ (reply'.fault \/ (Content(i) # <<>> /\ Last(Content(i)) = Lost))
    BY <1>4, <1>10, <1>12
  <2>2. PICK h, k : h = StoreHandles[u] /\ k = StoreContent[h.obj]
    OBVIOUS
  <2>3. h # NULL /\ k = Content(i)
    BY <1>6, <1>7, <1>8, <2>2
  <2>4. StoreContent' = StoreContent /\ StoreHandles' = StoreHandles
    BY <1>6, <1>7
  <2>5. \/ Store!Told("fstat", Len(k))
        \/ Store!Told("fstat", -1) /\ (reply'.fault \/ (k # <<>> /\ Store!Last(k) = Lost))
    BY <2>1, <2>3 DEF Store!Told, Store!Last, Last
  <2> QED
    BY <2>2, <2>3, <2>4, <2>5 DEF Store!Stat, StoreContent, StoreHandles
<1> QED
  BY <1>1, <1>7, <1>13 DEF Store!SNext, Simulated

-----------------------------------------------------------------------------
(* The rounds of a write                                                   *)

\* The bytes old are those of the file, those before pos in its block as in base.
Before(old, i, pos, base) ==
  /\ Len(old) = FileSize(i)
  /\ \A q \in 1..FileSize(i) :
       IF blknum(q - 1) = blknum(pos) THEN q <= pos => old[q] = base.blk[blkoffset(q - 1)]
       ELSE old[q] = Content(i)[q]

\* A block that is filled from a position in the file on, up to the end of the file
\* or of the block, or further, puts the new bytes into the file.
LEMMA FilledContent ==
  ASSUME FsTypes, RowsFull, NEW i \in Inodes, NEW pos \in Nat, pos <= FileSize(i),
         NEW d \in Seq(ByteT), Len(d) <= CFS_BLK_SIZE - blkoffset(pos), NEW base,
         NEW old, Before(old, i, pos, base),
         pos + Len(d) >= FileSize(i) \/ blkoffset(pos) + Len(d) = CFS_BLK_SIZE,
         NEW b, b.key = i, b.num = blknum(pos), b.count = blkoffset(pos) + Len(d),
         \A o \in Offset : b.blk[o] = IF o \in blkoffset(pos)..(blkoffset(pos) + Len(d) - 1)
                                      THEN d[o - blkoffset(pos) + 1] ELSE base.blk[o],
         Replaced(i, blknum(pos), b)
  PROVE  /\ Content(i)' = Store!Put(old, pos, d)
         /\ FileSize(i)' = IF pos + Len(d) > FileSize(i) THEN pos + Len(d) ELSE FileSize(i)
         /\ RowsFull'
<1>0. PICK n, off, k, l, size, B : n = blknum(pos) /\ off = blkoffset(pos) /\ k = Len(d)
        /\ l = Len(disk[i].blks) /\ size = FileSize(i) /\ B = CFS_BLK_SIZE
  OBVIOUS
<1>1. /\ n \in Nat /\ n >= 1 /\ off \in 0..(B - 1) /\ B \in Nat /\ B > 0 /\ k \in Nat /\ l \in Nat /\ size \in Nat
      /\ Base(n) \in Int /\ Base(n) + off = pos /\ off + k <= B /\ pos <= size
      /\ pos + k >= size \/ off + k = B
  <2>1. /\ n \in Nat /\ n >= 1 /\ off \in 0..(B - 1) /\ Base(n) \in Int /\ Base(n) + off = pos
    BY <1>0, Position
  <2>2. B \in Nat /\ B > 0 /\ k \in Nat /\ l \in Nat /\ size \in Nat
    BY <1>0, CryptoFsAssumption, RowTypes, SizeIs
  <2>3. k <= B - off /\ pos <= size /\ (pos + k >= size \/ off + k = B)
    BY <1>0
  <2> QED
    BY <2>1, <2>2, <2>3
<1>2. n \notin 1..l => n = l + 1 /\ pos = size
  BY <1>0, UpToEnd
<1>3. n \in 1..(l + 1)
  BY <1>1, <1>2
<1>4. /\ l > 0 => size = Base(l) + BytesOf(i, l) /\ BytesOf(i, l) \in 0..B /\ Base(l) <= size /\ Base(l) \in Int
  <2>1. l > 0 => l \in 1..l /\ l \in Int
    BY <1>1
  <2>2. l > 0 => Base(l) \in Int
    BY <2>1, BaseNext
  <2> QED
    BY <1>0, <2>1, <2>2, SizeIs, RowTypes
<1>5. n < l => Base(n) + B <= Base(l)
  <2>1. n \in Int /\ l \in Int
    BY <1>1
  <2> QED
    BY <1>0, <2>1, BaseOrder
<1>6. verified(b, i, n)
  BY <1>0 DEF verified
<1>7. /\ n >= l => FileSize(i)' = Base(n) + (off + k)
      /\ n < l => FileSize(i)' = size
      /\ \A p \in Nat : blknum(p) = n => ByteAt(i, p)' = b.blk[blkoffset(p)]
      /\ \A p \in Nat : blknum(p) \in 1..l /\ blknum(p) # n => ByteAt(i, p)' = ByteAt(i, p)
  <2>1. Replaced(i, n, b) /\ n \in 1..(Len(disk[i].blks) + 1)
    BY <1>0, <1>3
  <2> QED
    BY <1>0, <1>6, <2>1, ReplacedBytes
<1> DEFINE max == IF pos + k > size THEN pos + k ELSE size
<1>8. FileSize(i)' = max
  <2>1. CASE n < l
    BY <1>1, <1>4, <1>5, <1>7, <2>1
  <2>2. CASE n = l
    <3> DEFINE z == BytesOf(i, l)
               a == Base(n)
    <3>1. size = a + z /\ z \in 0..B /\ a \in Int /\ a + off = pos /\ FileSize(i)' = a + (off + k)
      BY <1>1, <1>4, <1>7, <2>2
    <3>2. /\ off \in Int /\ k \in Int /\ B \in Int /\ size \in Int /\ pos \in Int
          /\ pos + k >= size \/ off + k = B
      BY <1>1
    <3> HIDE DEF z, a
    <3>3. a + (off + k) = pos + k /\ pos + k >= size
      BY <3>1, <3>2
    <3> QED
      BY <3>1, <3>2, <3>3
  <2>3. CASE n > l
    BY <1>1, <1>2, <1>7, <2>3
  <2> QED
    BY <1>1, <2>1, <2>2, <2>3
<1>9. Len(old) = size /\ \A q \in 1..size : Content(i)[q] = ByteAt(i, q - 1)
  BY <1>0, <1>1 DEF Content, Before
<1>10. max \in Nat
  BY <1>1
<1>11. Content(i)' = [q \in 1..max |-> ByteAt(i, q - 1)']
  <2>1. Content(i)' = [q \in 1..FileSize(i)' |-> ByteAt(i, q - 1)']
    BY DEF Content, ByteAt, FileSize, BytesOf, verified, blknum, blkoffset
  <2> HIDE DEF max
  <2> QED
    BY <1>8, <2>1
<1>12. Store!Put(old, pos, d) =
         [q \in 1..max |-> IF q \in (pos + 1)..(pos + k) THEN d[q - pos] ELSE old[q]]
  BY <1>0, <1>9 DEF Store!Put
<1>13. ASSUME NEW q \in 1..max
       PROVE  ByteAt(i, q - 1)' = IF q \in (pos + 1)..(pos + k) THEN d[q - pos] ELSE old[q]
  <2>0. q \in Nat /\ q >= 1 /\ q - 1 \in Nat /\ q <= max
    BY <1>10
  <2>1. PICK p : p = q - 1
    OBVIOUS
  <2>2. p \in Nat /\ q - 1 = p
    BY <2>0, <2>1
  <2>3. CASE q \in (pos + 1)..(pos + k)
    <3>1. Base(n) <= p /\ p < Base(n) + B /\ q - pos = (p - Base(n)) - off + 1
          /\ p - Base(n) \in off..(off + k - 1) /\ p - Base(n) \in 0..(B - 1)
      <4> DEFINE a == Base(n)
      <4>1. /\ a \in Int /\ a + off = pos /\ off \in 0..(B - 1) /\ off + k <= B /\ k \in Nat /\ B \in Nat
            /\ q = p + 1 /\ p \in Nat /\ q \in (pos + 1)..(pos + k)
        BY <1>1, <2>0, <2>2, <2>3
      <4> HIDE DEF a
      <4>2. a <= p /\ p < a + B /\ q - pos = (p - a) - off + 1 /\ p - a \in off..(off + k - 1) /\ p - a \in 0..(B - 1)
        BY <4>1, SMTT(30)
      <4> QED
        BY <4>2 DEF a
    <3>2. blknum(p) = n /\ blkoffset(p) = p - Base(n)
      <4>1. n \in Int
        BY <1>1
      <4> QED
        BY <1>0, <2>2, <3>1, <4>1, InBlock
    <3>3. PICK o : o = p - Base(n)
      OBVIOUS
    <3>4. o \in Offset /\ o \in off..(off + k - 1) /\ blkoffset(p) = o /\ q - pos = o - off + 1
      BY <1>0, <3>1, <3>2, <3>3 DEF Offset
    <3>5. ByteAt(i, p)' = b.blk[o]
      BY <1>7, <2>2, <3>2, <3>4
    <3>6. b.blk[o] = d[o - off + 1]
      BY <1>0, <3>4
    <3> QED
      BY <2>2, <2>3, <3>4, <3>5, <3>6
  <2>4. CASE q \notin (pos + 1)..(pos + k)
    <3>1. q \in 1..size /\ p < size
      BY <1>1, <2>0, <2>2, <2>4
    <3>2. blknum(p) \in 1..l
      BY <1>0, <2>2, <3>1, InFile
    <3>3. Content(i)[q] = ByteAt(i, p)
      BY <1>9, <2>2, <3>1
    <3>4. CASE blknum(p) # n
      <4>1. old[q] = Content(i)[q]
        BY <1>0, <2>2, <3>1, <3>4 DEF Before
      <4> QED
        BY <1>7, <2>2, <2>4, <3>2, <3>3, <3>4, <4>1
    <3>5. CASE blknum(p) = n
      <4>3. PICK o : o = blkoffset(p)
        OBVIOUS
      <4>4. o \in Offset /\ o \in Int /\ Base(n) + o = p
        <5>1. blkoffset(p) \in Offset /\ blkoffset(p) \in 0..(B - 1) /\ Base(blknum(p)) + blkoffset(p) = p
          BY <1>0, <2>2, Position
        <5> QED
          BY <1>1, <3>5, <4>3, <5>1
      <4>5. o \notin off..(off + k - 1)
        BY <1>1, <2>0, <2>2, <2>4, <4>4
      <4>6. b.blk[o] = base.blk[o]
        BY <1>0, <4>4, <4>5
      <4>7. q <= pos
        <5> DEFINE a == Base(n)
        <5>1. /\ a \in Int /\ a + o = p /\ a + off = pos /\ o \in 0..(B - 1) /\ off \in Int /\ k \in Nat
              /\ B \in Nat /\ q = p + 1 /\ p \in Nat /\ q \in Nat /\ pos \in Nat /\ size \in Nat
              /\ p < size /\ (pos + k >= size \/ off + k = B)
              /\ ~(q >= pos + 1 /\ q <= pos + k)
          BY <1>0, <1>1, <2>0, <2>2, <2>4, <3>1, <4>4 DEF Offset
        <5> HIDE DEF a
        <5> QED
          BY <5>1
      <4>8. old[q] = base.blk[o]
        BY <1>0, <2>2, <3>1, <3>5, <4>3, <4>7 DEF Before
      <4> QED
        BY <1>7, <2>2, <2>4, <3>5, <4>3, <4>6, <4>8
    <3> QED
      BY <3>4, <3>5
  <2> QED
    BY <2>3, <2>4
<1>14. Content(i)' = Store!Put(old, pos, d)
  <2> HIDE DEF max
  <2> QED
    BY <1>11, <1>12, <1>13
<1>15. RowsFull'
  <2>1. SUFFICES ASSUME NEW j \in Inodes, NEW m \in 1..Len(disk'[j].blks)
                 PROVE  /\ disk'[j].blks[m] # Eof
                        /\ verified(disk'[j].blks[m], j, m) /\ disk'[j].blks[m].count < CFS_BLK_SIZE
                             => m = Len(disk'[j].blks)
    BY DEF RowsFull, verified
  <2>2. CASE j # i
    <3>1. disk'[j] = disk[j]
      BY <2>2 DEF Replaced
    <3> QED
      BY <2>1, <3>1 DEF RowsFull
  <2>3. CASE j = i
    <3>1. /\ Len(disk'[i].blks) = (IF n > l THEN n ELSE l)
          /\ disk'[i].blks[n] = b
          /\ \A x \in 1..l : x # n => disk'[i].blks[x] = disk[i].blks[x]
      BY <1>0 DEF Replaced
    <3>2. b # Eof
      <4>1. Eof.key = -1 /\ i \in Nat
        BY CryptoFsAssumption DEF Eof, Block
      <4> QED
        BY <4>1
    <3>3. CASE m = n
      <4>1. b.count = off + k
        BY <1>0
      <4>2. n < l => off + k = B
        <5> DEFINE a == Base(n)
                   e == Base(l)
        <5>1. n < l => e <= size /\ e \in Int /\ a + B <= e
          BY <1>1, <1>4, <1>5
        <5>2. /\ a \in Int /\ a + off = pos /\ off \in Int /\ k \in Int /\ B \in Int /\ size \in Int
              /\ off + k <= B /\ (pos + k >= size \/ off + k = B)
          BY <1>1
        <5> HIDE DEF a, e
        <5> QED
          BY <5>1, <5>2
      <4>3. n >= l => Len(disk'[i].blks) = n
        BY <1>1, <3>1
      <4>4. b.count < CFS_BLK_SIZE => n >= l
        <5>1. n < l => b.count = CFS_BLK_SIZE
          BY <1>0, <4>1, <4>2
        <5>2. CFS_BLK_SIZE \in Nat /\ n \in Nat /\ l \in Nat
          BY <1>1, CryptoFsAssumption
        <5> QED
          BY <5>1, <5>2
      <4> QED
        BY <2>3, <3>1, <3>2, <3>3, <4>3, <4>4
    <3>4. CASE m # n
      <4>1. m \in 1..l
        BY <1>1, <1>2, <2>1, <2>3, <3>1, <3>4
      <4>2. disk'[i].blks[m] = disk[i].blks[m]
        BY <3>1, <3>4, <4>1
      <4>3. n > l => n = l + 1 /\ pos = size /\ (l > 0 => BytesOf(i, l) = B)
        <5>1. n > l => n \notin 1..l
          BY <1>1
        <5> QED
          BY <1>0, <5>1, UpToEnd
      <4>4. disk[i].blks[m] # Eof /\ (verified(disk[i].blks[m], i, m) /\ disk[i].blks[m].count < CFS_BLK_SIZE => m = l)
        BY <1>0, <4>1 DEF RowsFull
      <4>5. verified(disk[i].blks[m], i, m) /\ disk[i].blks[m].count < CFS_BLK_SIZE => m = l /\ ~(n > l)
        <5>1. SUFFICES ASSUME verified(disk[i].blks[m], i, m), disk[i].blks[m].count < CFS_BLK_SIZE, m = l, n > l
                       PROVE FALSE
          BY <4>4
        <5>2. BytesOf(i, l) = disk[i].blks[l].count
          BY <5>1 DEF BytesOf
        <5>3. l > 0
          BY <4>1, <1>1
        <5>4. disk[i].blks[l].count < B /\ disk[i].blks[l].count = B
          BY <1>0, <4>3, <5>1, <5>2, <5>3
        <5> QED
          BY <1>1, <5>4
      <4> QED
        BY <2>3, <3>1, <4>2, <4>4, <4>5
    <3> QED
      BY <3>3, <3>4
  <2> QED
    BY <2>2, <2>3
<1> QED
  BY <1>0, <1>8, <1>14, <1>15

\* A block that was read has the bytes of the file before pos.
LEMMA ReadBefore ==
  ASSUME FsTypes, RowsFull, NEW i \in Inodes, NEW pos \in Nat, pos <= FileSize(i), NEW base,
         blknum(pos) \in 1..Len(disk[i].blks) => base = disk[i].blks[blknum(pos)],
         verified(base, i, blknum(pos))
  PROVE  Before(Content(i), i, pos, base)
<1>1. FileSize(i) \in Nat
  BY SizeIs
<1>2. Len(Content(i)) = FileSize(i) /\ \A q \in 1..FileSize(i) : Content(i)[q] = ByteAt(i, q - 1)
  BY <1>1 DEF Content
<1>3. ASSUME NEW q \in 1..FileSize(i), blknum(q - 1) = blknum(pos)
      PROVE  Content(i)[q] = base.blk[blkoffset(q - 1)]
  <2>1. PICK p : p = q - 1
    OBVIOUS
  <2>2. p \in Nat /\ p < FileSize(i)
    BY <1>1, <2>1
  <2>3. blknum(p) \in 1..Len(disk[i].blks)
    BY <2>2, InFile
  <2>4. base = disk[i].blks[blknum(p)] /\ verified(base, i, blknum(p))
    BY <1>3, <2>1, <2>3
  <2> QED
    BY <1>2, <2>1, <2>4 DEF ByteAt
<1> QED
  BY <1>2, <1>3 DEF Before

\* A block that is taken for a new one has zeroes there.
LEMMA BlankBefore ==
  ASSUME FsTypes, RowsFull, NEW i \in Inodes, NEW pos \in Nat, pos <= FileSize(i)
  PROVE  Before(Store!Blank(Content(i), pos), i, pos, Block(i, blknum(pos)))
<1> DEFINE n == blknum(pos)
           old == Store!Blank(Content(i), pos)
<1>1. FileSize(i) \in Nat /\ CFS_BLK_SIZE \in Nat /\ CFS_BLK_SIZE > 0
  BY SizeIs, CryptoFsAssumption
<1>2. Len(Content(i)) = FileSize(i)
  BY <1>1 DEF Content
<1>3. n \in Nat /\ Base(n) \in Int /\ (pos \div CFS_BLK_SIZE) * CFS_BLK_SIZE = Base(n)
  <2>1. n \in Nat /\ Base(n) \in Int
    BY Position
  <2>2. PICK x : x = pos \div CFS_BLK_SIZE
    OBVIOUS
  <2>3. n = x + 1 /\ x \in Int
    BY <1>1, <2>2 DEF blknum
  <2>4. n - 1 = x
    BY <2>3
  <2> QED
    BY <2>1, <2>2, <2>4 DEF Base
<1>4. old = [q \in 1..FileSize(i) |-> IF q \in (Base(n) + 1)..pos THEN Zero ELSE Content(i)[q]]
  BY <1>2, <1>3 DEF Store!Blank
<1> HIDE DEF old, n
<1>5. Len(old) = FileSize(i)
  BY <1>1, <1>4
<1>6. ASSUME NEW q \in 1..FileSize(i)
      PROVE  IF blknum(q - 1) = n THEN q <= pos => old[q] = Block(i, n).blk[blkoffset(q - 1)]
             ELSE old[q] = Content(i)[q]
  <2>1. PICK p : p = q - 1
    OBVIOUS
  <2>2. p \in Nat /\ q = p + 1
    BY <1>1, <2>1
  <2>3. blkoffset(p) \in Offset /\ blkoffset(p) \in 0..(CFS_BLK_SIZE - 1) /\ Base(blknum(p)) + blkoffset(p) = p
        /\ Base(blknum(p)) \in Int
    BY <2>2, Position
  <2>4. CASE blknum(p) = n
    <3>1. Base(n) <= p
      <4>1. PICK a, o : a = Base(n) /\ o = blkoffset(p)
        OBVIOUS
      <4>2. a + o = p /\ o \in Nat /\ a \in Int
        BY <1>1, <1>3, <2>3, <2>4, <4>1
      <4>3. a <= p
        BY <2>2, <4>2
      <4> QED
        BY <4>1, <4>3
    <3>2. q <= pos => q \in (Base(n) + 1)..pos
      BY <1>3, <2>2, <3>1
    <3>3. Block(i, n).blk[blkoffset(p)] = Zero
      BY <2>3 DEF Block
    <3> QED
      BY <1>4, <2>1, <2>4, <3>2, <3>3
  <2>5. CASE blknum(p) # n
    <3>1. q \notin (Base(n) + 1)..pos
      <4>1. SUFFICES ASSUME q \in (Base(n) + 1)..pos PROVE FALSE
        OBVIOUS
      <4>2. pos < Base(n) + CFS_BLK_SIZE
        <5>1. blkoffset(pos) \in 0..(CFS_BLK_SIZE - 1) /\ Base(n) + blkoffset(pos) = pos
          BY Position DEF n
        <5>2. PICK a, o : a = Base(n) /\ o = blkoffset(pos)
          OBVIOUS
        <5> QED
          BY <1>1, <1>3, <5>1, <5>2
      <4>3. Base(n) <= p /\ p < Base(n) + CFS_BLK_SIZE /\ n \in Int
        BY <1>1, <1>3, <2>2, <4>1, <4>2
      <4>4. blknum(p) = n
        BY <2>2, <4>3, InBlock
      <4> QED
        BY <2>5, <4>4
    <3> QED
      BY <1>4, <2>1, <2>5, <3>1
  <2> QED
    BY <2>1, <2>4, <2>5
<1> QED
  BY <1>5, <1>6 DEF Before, n, old

\* A block of the file that is cut short loses its bytes.
LEMMA LostContent ==
  ASSUME FsTypes, RowsFull, NEW i \in Inodes, NEW pos \in Nat, pos <= FileSize(i),
         blknum(pos) \in 1..Len(disk[i].blks), Replaced(i, blknum(pos), Bad)
  PROVE  Content(i)' = Store!Lose(Content(i), pos) /\ RowsFull'
<1>0. PICK n, l, size, B : n = blknum(pos) /\ l = Len(disk[i].blks) /\ size = FileSize(i) /\ B = CFS_BLK_SIZE
  OBVIOUS
<1>1. n \in Nat /\ n >= 1 /\ B \in Nat /\ B > 0 /\ l \in Nat /\ size \in Nat /\ Base(n) \in Int /\ n \in 1..l
  <2>1. blknum(pos) \in Nat /\ blknum(pos) >= 1 /\ Base(blknum(pos)) \in Int
    BY Position
  <2>2. CFS_BLK_SIZE \in Nat /\ CFS_BLK_SIZE > 0 /\ Len(disk[i].blks) \in Nat /\ FileSize(i) \in Nat
    BY CryptoFsAssumption, RowTypes, SizeIs
  <2> QED
    BY <1>0, <2>1, <2>2
<1>2. ~verified(Bad, i, n)
  <2>1. Bad.key = 0 /\ i # 0
    BY CryptoFsAssumption DEF Bad, Block
  <2> QED
    BY <2>1 DEF verified
<1>3. /\ n >= l => FileSize(i)' = Base(n) + B
      /\ n < l => FileSize(i)' = size
      /\ \A p \in Nat : blknum(p) = n => ByteAt(i, p)' = Lost
      /\ \A p \in Nat : blknum(p) \in 1..l /\ blknum(p) # n => ByteAt(i, p)' = ByteAt(i, p)
  <2>1. Replaced(i, n, Bad) /\ n \in 1..(Len(disk[i].blks) + 1)
    BY <1>0, <1>1
  <2> QED
    BY <1>0, <1>2, <2>1, ReplacedBytes
<1>4. /\ size = Base(l) + BytesOf(i, l) /\ BytesOf(i, l) \in 0..B /\ Base(l) <= size /\ Base(l) \in Int
  <2>1. l > 0 /\ l \in 1..l /\ l \in Int
    BY <1>1
  <2>2. Base(l) \in Int
    BY <2>1, BaseNext
  <2> QED
    BY <1>0, <2>1, <2>2, SizeIs, RowTypes
<1>5. n < l => Base(n) + B <= Base(l)
  <2>1. n \in Int /\ l \in Int
    BY <1>1
  <2> QED
    BY <1>0, <2>1, BaseOrder
<1> DEFINE max == IF Base(n) + B > size THEN Base(n) + B ELSE size
<1>6. FileSize(i)' = max
  <2>1. CASE n < l
    BY <1>1, <1>3, <1>4, <1>5, <2>1
  <2>2. CASE n = l
    <3> DEFINE z == BytesOf(i, l)
               a == Base(n)
    <3>1. size = a + z /\ z \in 0..B /\ a \in Int /\ FileSize(i)' = a + B
      BY <1>1, <1>3, <1>4, <2>2
    <3>2. max = IF a + B > size THEN a + B ELSE size
      OBVIOUS
    <3> HIDE DEF z, a, max
    <3> QED
      BY <1>1, <3>1, <3>2
  <2> QED
    BY <1>1, <2>1, <2>2
<1>7. Len(Content(i)) = size /\ \A q \in 1..size : Content(i)[q] = ByteAt(i, q - 1)
  BY <1>0, <1>1 DEF Content
<1>8. max \in Nat
  BY <1>1
<1>9. Content(i)' = [q \in 1..max |-> ByteAt(i, q - 1)']
  <2>1. Content(i)' = [q \in 1..FileSize(i)' |-> ByteAt(i, q - 1)']
    BY DEF Content, ByteAt, FileSize, BytesOf, verified, blknum, blkoffset
  <2> HIDE DEF max
  <2> QED
    BY <1>6, <2>1
<1>10. Store!Lose(Content(i), pos) =
         [q \in 1..max |-> IF q \in (Base(n) + 1)..(Base(n) + B) THEN Lost ELSE Content(i)[q]]
  <2>1. (pos \div CFS_BLK_SIZE) * CFS_BLK_SIZE = Base(n)
    <3>1. PICK x : x = pos \div CFS_BLK_SIZE
      OBVIOUS
    <3>2. n = x + 1 /\ x \in Int
      BY <1>0, <1>1, <3>1, CryptoFsAssumption DEF blknum
    <3>3. n - 1 = x
      BY <3>2
    <3> QED
      BY <3>1, <3>3 DEF Base
  <2>2. PICK a : a = Base(n)
    OBVIOUS
  <2> QED
    BY <1>0, <1>7, <2>1, <2>2 DEF Store!Lose
<1>11. ASSUME NEW q \in 1..max
       PROVE  ByteAt(i, q - 1)' = IF q \in (Base(n) + 1)..(Base(n) + B) THEN Lost ELSE Content(i)[q]
  <2>0. q \in Nat /\ q >= 1 /\ q - 1 \in Nat /\ q <= max
    BY <1>8
  <2>1. PICK p : p = q - 1
    OBVIOUS
  <2>2. p \in Nat /\ q - 1 = p
    BY <2>0, <2>1
  <2>3. CASE q \in (Base(n) + 1)..(Base(n) + B)
    <3>1. Base(n) <= p /\ p < Base(n) + B /\ n \in Int
      BY <1>1, <2>0, <2>2, <2>3
    <3>2. blknum(p) = n
      BY <1>0, <2>2, <3>1, InBlock
    <3> QED
      BY <1>3, <2>2, <2>3, <3>2
  <2>4. CASE q \notin (Base(n) + 1)..(Base(n) + B)
    <3>1. q \in 1..size /\ p < size
      <4> DEFINE a == Base(n)
      <4>1. a \in Int /\ B \in Nat /\ size \in Nat /\ q \in Nat /\ q >= 1 /\ p = q - 1 /\ q \notin (a + 1)..(a + B)
            /\ q <= IF a + B > size THEN a + B ELSE size
        BY <1>1, <2>0, <2>2, <2>4
      <4>2. a + B <= size \/ q <= a
        <5> HIDE DEF a
        <5> QED
          BY <4>1
      <4>3. a <= size
        <5>1. a + blkoffset(pos) = pos /\ blkoffset(pos) \in 0..(B - 1) /\ pos <= size
          BY <1>0, Position
        <5>2. PICK o : o = blkoffset(pos)
          OBVIOUS
        <5> HIDE DEF a
        <5> QED
          BY <4>1, <5>1, <5>2
      <4> HIDE DEF a
      <4> QED
        BY <4>1, <4>2, <4>3
    <3>2. blknum(p) \in 1..l
      BY <1>0, <2>2, <3>1, InFile
    <3>3. Content(i)[q] = ByteAt(i, p)
      BY <1>7, <2>2, <3>1
    <3>4. blknum(p) # n
      <4>1. blkoffset(p) \in 0..(B - 1) /\ Base(blknum(p)) + blkoffset(p) = p
        BY <1>0, <2>2, Position
      <4>2. PICK o : o = blkoffset(p)
        OBVIOUS
      <4> QED
        BY <1>1, <2>0, <2>2, <2>4, <4>1, <4>2
    <3> QED
      BY <1>3, <2>2, <2>4, <3>2, <3>3, <3>4
  <2> QED
    BY <2>3, <2>4
<1>12. Content(i)' = Store!Lose(Content(i), pos)
  <2> HIDE DEF max
  <2> QED
    BY <1>9, <1>10, <1>11
<1>13. RowsFull'
  <2>1. SUFFICES ASSUME NEW j \in Inodes, NEW m \in 1..Len(disk'[j].blks)
                 PROVE  /\ disk'[j].blks[m] # Eof
                        /\ verified(disk'[j].blks[m], j, m) /\ disk'[j].blks[m].count < CFS_BLK_SIZE
                             => m = Len(disk'[j].blks)
    BY DEF RowsFull, verified
  <2>2. CASE j # i
    <3>1. disk'[j] = disk[j]
      BY <2>2 DEF Replaced
    <3> QED
      BY <2>1, <3>1 DEF RowsFull
  <2>3. CASE j = i
    <3>1. /\ Len(disk'[i].blks) = l
          /\ disk'[i].blks[n] = Bad
          /\ \A x \in 1..l : x # n => disk'[i].blks[x] = disk[i].blks[x]
      BY <1>0, <1>1 DEF Replaced
    <3>2. Bad # Eof
      BY DEF Bad, Eof, Block
    <3>3. m \in 1..Len(disk[i].blks)
      BY <1>0, <2>1, <2>3, <3>1
    <3> QED
      BY <1>0, <1>2, <2>3, <3>1, <3>2, <3>3 DEF RowsFull
  <2> QED
    BY <2>2, <2>3
<1> QED
  BY <1>12, <1>13

\* What a round of fs_write takes of the bytes it is to write, and what it leaves.
Chunk(buf, off) ==
  IF Len(buf) > CFS_BLK_SIZE - off THEN SubSeq(buf, 1, CFS_BLK_SIZE - off) ELSE buf

\* The bytes are split in two, and something is left only when the block is full.
Split(buf, off, d, rest) ==
  /\ d \in Seq(ByteT) /\ rest \in Seq(ByteT) /\ d = SubSeq(buf, 1, Len(d))
  /\ Len(d) \in Nat /\ Len(d) <= Len(buf) /\ Len(d) <= CFS_BLK_SIZE - off
  /\ Len(rest) = Len(buf) - Len(d)
  /\ rest # <<>> => Len(d) = CFS_BLK_SIZE - off /\ Len(d) < Len(buf)
  /\ rest = <<>> => Len(d) = Len(buf)

\* That is what a round does with them.
LEMMA ChunkIs ==
  ASSUME NEW buf \in Seq(ByteT), NEW off \in 0..(CFS_BLK_SIZE - 1)
  PROVE  Split(buf, off, Chunk(buf, off), SubSeq(buf, Len(Chunk(buf, off)) + 1, Len(buf)))
<1> DEFINE room == CFS_BLK_SIZE - off
           d == Chunk(buf, off)
           rest == SubSeq(buf, Len(d) + 1, Len(buf))
<1>1. room \in Nat /\ room >= 1 /\ Len(buf) \in Nat
  BY CryptoFsAssumption
<1>2. /\ d \in Seq(ByteT) /\ d = SubSeq(buf, 1, Len(d)) /\ Len(d) \in Nat /\ Len(d) <= Len(buf) /\ Len(d) <= room
      /\ Len(d) < Len(buf) => Len(d) = room
  <2> HIDE DEF room
  <2>1. CASE Len(buf) > room
    <3>1. d = SubSeq(buf, 1, room) /\ room \in 0..Len(buf) /\ 1 \in 1..(Len(buf) + 1)
      BY <1>1, <2>1 DEF Chunk, room
    <3>2. d \in Seq(ByteT) /\ Len(d) = room
      BY <1>1, <3>1
    <3> HIDE DEF d
    <3> QED
      BY <1>1, <2>1, <3>1, <3>2
  <2>2. CASE ~(Len(buf) > room)
    <3>1. d = buf
      BY <2>2 DEF Chunk, room
    <3>2. buf = SubSeq(buf, 1, Len(buf))
      BY <1>1
    <3>3. d \in Seq(ByteT) /\ d = SubSeq(buf, 1, Len(d)) /\ Len(d) = Len(buf)
      BY <3>1, <3>2
    <3>4. PICK l : l = Len(buf)
      OBVIOUS
    <3>5. l \in Nat /\ l <= room /\ Len(d) = l /\ ~(l < l)
      BY <1>1, <2>2, <3>3, <3>4
    <3> HIDE DEF d
    <3> QED
      BY <3>3, <3>4, <3>5
  <2> QED
    BY <2>1, <2>2
<1> HIDE DEF d
<1>3. rest \in Seq(ByteT) /\ Len(rest) = Len(buf) - Len(d)
  <2>1. Len(d) + 1 \in Nat /\ Len(d) + 1 >= 1 /\ Len(d) + 1 <= Len(buf) + 1
    BY <1>1, <1>2
  <2> QED
    BY <1>1, <1>2, <2>1
<1> HIDE DEF rest
<1>4. rest = <<>> <=> Len(rest) = 0
  BY <1>3, EmptySeq
<1>5. /\ rest # <<>> => Len(d) = room /\ Len(d) < Len(buf)
      /\ rest = <<>> => Len(d) = Len(buf)
  <2> DEFINE k == Len(d)
             l == Len(buf)
             r == Len(rest)
  <2>1. k \in Nat /\ l \in Nat /\ r = l - k /\ k <= l /\ (k < l => k = room) /\ (rest = <<>> <=> r = 0)
    BY <1>1, <1>2, <1>3, <1>4
  <2> HIDE DEF k, l, r
  <2>2. /\ rest # <<>> => k = room /\ k < l
        /\ rest = <<>> => k = l
    BY <2>1, SMTT(30)
  <2> QED
    BY <2>2, SMTT(30) DEF k, l
<1>6. Split(buf, off, d, rest)
  BY <1>2, <1>3, <1>5 DEF Split, room
<1> QED
  BY <1>6 DEF d, rest

\* A round of fs_write for the handle u, of the file i, at the position pos: of the
\* bytes buf it writes d into the block base, and leaves rest.  The block is that of
\* the file, or a new one when it is none of it or could not be read.
Round(u, i, pos, start, buf, d, rest, base) ==
  /\ call # NULL /\ call.op = "write" /\ call.u = u /\ call.start = start /\ call.buf = buf
  /\ files[u] # NULL /\ files[u].key = i /\ files[u].filepos = pos
  /\ pos + Len(buf) <= MAX_POS /\ pos <= FileSize(i)
  /\ pos + Len(buf) >= FileSize(i) \/ (Len(buf) > 0 /\ blkoffset(pos + Len(buf)) = 0)
  /\ d = Chunk(buf, blkoffset(pos)) /\ rest = SubSeq(buf, Len(d) + 1, Len(buf))
  /\ \/ base = IF blknum(pos) \in 1..Len(disk[i].blks) THEN disk[i].blks[blknum(pos)] ELSE Block(i, blknum(pos))
     \/ ReadErrors /\ base = Block(i, blknum(pos))

RoundFails(u, i, pos, start, base) ==
  /\ files' = [files EXCEPT ![u].filepos = start] /\ call' = NULL
  /\ reply'.op = "write" /\ reply'.ret = -1
  /\ reply'.fault \/ ~verified(base, i, blknum(pos))
  /\ disk' = disk \/ (reply'.fault /\ disk' = [disk EXCEPT ![i].blks = tz_fs_write_cut(@, blknum(pos))])

RoundWrites(u, i, pos, start, d, rest, base) ==
  /\ verified(base, i, blknum(pos))
  /\ disk' = [disk EXCEPT ![i].blks = tz_fs_write(@, blknum(pos), filled(base, blkoffset(pos), d))]
  /\ files' = [files EXCEPT ![u].filepos = pos + Len(d)]
  /\ IF rest = <<>>
     THEN reply'.op = "write" /\ reply'.ret = pos + Len(d) - start /\ call' = NULL
     ELSE reply' = reply /\ \E f \in BOOLEAN : call' = [call EXCEPT !.buf = rest, !.fault = f]

\* Every step of fs_write is such a round.
LEMMA RoundIs ==
  ASSUME StoreHyp, StoreInv, fs_write
  PROVE  \E u \in UserFds, i \in Inodes, pos \in 0..MAX_POS, start \in 0..MAX_POS, buf \in Seq(ByteT) :
         \E d, rest, base :
           /\ Round(u, i, pos, start, buf, d, rest, base)
           /\ RoundFails(u, i, pos, start, base) \/ RoundWrites(u, i, pos, start, d, rest, base)
<1>0. PICK c, buf, u, i, pos, start : c = files[call.u] /\ buf = call.buf /\ u = call.u /\ i = c.key
        /\ pos = c.filepos /\ start = call.start
  OBVIOUS
<1>1. FsTypes /\ Pairs /\ RowsFull /\ WriteOK /\ call # NULL /\ call.op = "write" /\ WriteFits
  <2>1. call # NULL /\ call.op = "write"
    BY DEF fs_write
  <2> QED
    BY <2>1 DEF StoreInv, FsInv, ReadOK
<1>2. /\ u \in UserFds /\ c = files[u] /\ c # NULL /\ start \in 0..MAX_POS /\ buf \in Seq(ByteT)
      /\ pos + Len(buf) <= MAX_POS /\ pos <= FileSize(i)
      /\ pos + Len(buf) >= FileSize(i) \/ (Len(buf) > 0 /\ blkoffset(pos + Len(buf)) = 0)
  BY <1>0, <1>1 DEF WriteOK, WriteFits
<1>3. c \in HandleT
  BY <1>1, <1>2 DEF FsTypes
<1>4. i \in Inodes /\ pos \in 0..MAX_POS /\ pos \in Nat /\ fds[c.fd] = i
  <2>1. i \in Inodes /\ pos \in 0..MAX_POS
    BY <1>0, <1>3 DEF HandleT
  <2> QED
    BY <1>0, <1>1, <1>2, <2>1, CryptoFsAssumption DEF Pairs
<1>5. PICK n, off, d, rest : n = blknum(pos) /\ off = blkoffset(pos)
        /\ d = Chunk(buf, off) /\ rest = SubSeq(buf, Len(d) + 1, Len(buf))
  OBVIOUS
<1>6. PICK fault \in BOOLEAN, old \in ree_read(c.fd, n) :
        LET base == IF old = Eof THEN Block(c.key, n) ELSE old
        IN  IF fault \/ ~verified(base, c.key, n)
            THEN /\ cleanup("write", 0, fault \/ old = Error)
                 /\ \/ UNCHANGED disk
                    \/ /\ fault /\ verified(base, c.key, n)
                       /\ ree_write_cut(c.fd, n)
            ELSE /\ ree_write(c.fd, n, filled(base, off, d))
                 /\ files' = [files EXCEPT ![u].filepos = @ + Len(d)]
                 /\ IF rest = <<>>
                    THEN /\ reply' = Answer("write", c.filepos + Len(d) - call.start,
                                            call.fault \/ Failed(c.fd, n, old))
                         /\ call' = NULL
                    ELSE /\ call' = [call EXCEPT !.buf = rest, !.fault = @ \/ Failed(c.fd, n, old)]
                         /\ UNCHANGED reply
  <2>1. n = blknum(files[call.u].filepos) /\ off = blkoffset(files[call.u].filepos)
        /\ c.fd = files[call.u].fd /\ c.key = files[call.u].key /\ c.filepos = files[call.u].filepos
    BY <1>0, <1>5
  <2>2. d = (IF Len(call.buf) > CFS_BLK_SIZE - blkoffset(files[call.u].filepos)
             THEN SubSeq(call.buf, 1, CFS_BLK_SIZE - blkoffset(files[call.u].filepos))
             ELSE call.buf)
    BY <1>0, <1>5, <2>1 DEF Chunk
  <2>3. rest = SubSeq(call.buf, Len(d) + 1, Len(call.buf))
    BY <1>0, <1>5
  <2> QED
    BY <1>0, <2>1, <2>2, <2>3, ZenonT(60) DEF fs_write
<1>7. PICK base : base = IF old = Eof THEN Block(i, n) ELSE old
  OBVIOUS
<1>70. \/ base = IF n \in 1..Len(disk[i].blks) THEN disk[i].blks[n] ELSE Block(i, n)
       \/ ReadErrors /\ base = Block(i, n)
  <2>1. n \in Nat /\ n >= 1 /\ Len(disk[i].blks) \in Nat
    BY <1>1, <1>4, <1>5, Position, RowTypes
  <2>2. fds[c.fd] # NULL
    BY <1>4, CryptoFsAssumption DEF StoreHyp, FsHyp
  <2>3. Found(c.fd, n) = IF n <= Len(disk[i].blks) THEN disk[i].blks[n] ELSE Eof
    BY <1>4 DEF Found, tz_fs_fstat
  <2>4. old = Found(c.fd, n) \/ (ReadErrors /\ old = Eof)
    BY <1>6, <2>2 DEF ree_read, ree_lseek, tz_fs_lseek, tz_fs_read
  <2>5. n \in 1..Len(disk[i].blks) => disk[i].blks[n] # Eof
    BY <1>1, <1>4 DEF RowsFull
  <2> QED
    BY <1>7, <2>1, <2>3, <2>4, <2>5
<1>8. Round(u, i, pos, start, buf, d, rest, base)
  BY <1>0, <1>1, <1>2, <1>5, <1>70, SMTT(30) DEF Round
<1>80. PICK f \in BOOLEAN : f = (call.fault \/ Failed(c.fd, n, old))
  OBVIOUS
<1>9. IF fault \/ ~verified(base, i, n)
      THEN /\ cleanup("write", 0, fault \/ old = Error)
           /\ \/ UNCHANGED disk
              \/ /\ fault /\ verified(base, i, n)
                 /\ ree_write_cut(c.fd, n)
      ELSE /\ ree_write(c.fd, n, filled(base, off, d))
           /\ files' = [files EXCEPT ![u].filepos = @ + Len(d)]
           /\ IF rest = <<>>
              THEN /\ reply' = Answer("write", pos + Len(d) - start, f)
                   /\ call' = NULL
              ELSE /\ call' = [call EXCEPT !.buf = rest, !.fault = f]
                   /\ UNCHANGED reply
  <2>1. c.key = i /\ c.filepos = pos /\ call.start = start
    BY <1>0
  <2> QED
    BY <1>6, <1>7, <1>80, <2>1, ZenonT(60)
<1>10. CASE fault \/ ~verified(base, i, n)
  <2>1. /\ files' = [files EXCEPT ![u].filepos = start] /\ call' = NULL
        /\ reply'.op = "write" /\ reply'.ret = -1 /\ reply'.fault = (fault \/ old = Error)
    BY <1>0, <1>9, <1>10 DEF cleanup, Answer
  <2>2. disk' = disk \/ (fault /\ disk' = [disk EXCEPT ![i].blks = tz_fs_write_cut(@, n)])
    BY <1>4, <1>9, <1>10 DEF ree_write_cut
  <2>3. RoundFails(u, i, pos, start, base)
    BY <1>5, <1>10, <2>1, <2>2 DEF RoundFails
  <2> QED
    BY <1>2, <1>4, <1>8, <2>3
<1>11. CASE ~(fault \/ ~verified(base, i, n))
  <2>1. /\ disk' = [disk EXCEPT ![i].blks = tz_fs_write(@, n, filled(base, off, d))]
        /\ verified(base, i, n)
    BY <1>4, <1>9, <1>11 DEF ree_write
  <2>2. files' = [files EXCEPT ![u].filepos = pos + Len(d)]
    BY <1>0, <1>9, <1>11
  <2>3. IF rest = <<>>
        THEN reply'.op = "write" /\ reply'.ret = pos + Len(d) - start /\ call' = NULL
        ELSE reply' = reply /\ \E g \in BOOLEAN : call' = [call EXCEPT !.buf = rest, !.fault = g]
    <3>1. CASE rest = <<>>
      BY <1>9, <1>11, <3>1 DEF Answer
    <3>2. CASE rest # <<>>
      <4>1. reply' = reply /\ call' = [call EXCEPT !.buf = rest, !.fault = f]
        BY <1>9, <1>11, <3>2
      <4> QED
        BY <1>80, <3>2, <4>1, Zenon
    <3> QED
      BY <3>1, <3>2
  <2>4. RoundWrites(u, i, pos, start, d, rest, base)
    BY <1>5, <2>1, <2>2, <2>3 DEF RoundWrites
  <2> QED
    BY <1>2, <1>4, <1>8, <2>4
<1> QED
  BY <1>10, <1>11

\* The bytes of one file change.
LEMMA ContentReplaced ==
  ASSUME NEW i \in Inodes, \A j \in Inodes : j # i => disk'[j] = disk[j], NEW x, Content(i)' = x
  PROVE  StoreContent' = [StoreContent EXCEPT ![i] = x]
<1>1. \A j \in Inodes : j # i => Content(j)' = Content(j)
  BY OtherBytes
<1>2. StoreContent' = [j \in Inodes |-> Content(j)']
  BY DEF StoreContent
<1>3. StoreContent = [j \in Inodes |-> Content(j)]
  BY DEF StoreContent
<1> QED
  BY <1>1, <1>2, <1>3

\* A block that does not verify is lost, at least its first byte is in the file.
LEMMA UnverifiedLost ==
  ASSUME FsTypes, NEW i \in Inodes, NEW n \in 1..Len(disk[i].blks), RowsFull,
         ~verified(disk[i].blks[n], i, n)
  PROVE  \E q \in 1..Len(Content(i)) : Content(i)[q] = Lost /\ (q - 1) \div CFS_BLK_SIZE = n - 1
<1>1. PICK l, B, p : l = Len(disk[i].blks) /\ B = CFS_BLK_SIZE /\ p = Base(n)
  OBVIOUS
<1>2. l \in Nat /\ B \in Nat /\ B > 0 /\ FileSize(i) \in Nat /\ n \in 1..l /\ n \in Int /\ p \in Int
  <2>1. l \in Nat /\ B \in Nat /\ B > 0 /\ FileSize(i) \in Nat
    BY <1>1, RowTypes, SizeIs, CryptoFsAssumption
  <2>2. n \in Int
    BY <1>1, <2>1
  <2> QED
    BY <1>1, <2>1, <2>2, BaseNext
<1>3. p >= 0
  <2>1. n > 1 => Base(1) + CFS_BLK_SIZE <= Base(n)
    BY <1>2, BaseOrder
  <2>2. Base(1) = 0
    BY <1>1, <1>2 DEF Base
  <2> QED
    BY <1>1, <1>2, <2>1, <2>2
<1>4. p + 1 <= FileSize(i)
  <2>0. l > 0 => FileSize(i) = Base(l) + BytesOf(i, l) /\ Base(l) <= FileSize(i) /\ Base(l) \in Int
    <3>1. l \in Int
      BY <1>2
    <3> QED
      BY <1>1, <3>1, SizeIs, BaseNext
  <2>1. CASE n = l
    <3>1. BytesOf(i, n) = B
      BY <1>1 DEF BytesOf
    <3> QED
      BY <1>1, <1>2, <2>0, <2>1, <3>1
  <2>2. CASE n < l
    <3>1. Base(n) + CFS_BLK_SIZE <= Base(l)
      BY <1>2, <2>2, BaseOrder
    <3>2. PICK e : e = Base(l)
      OBVIOUS
    <3> QED
      BY <1>1, <1>2, <2>0, <2>2, <3>1, <3>2
  <2> QED
    BY <1>2, <2>1, <2>2
<1>5. blknum(p) = n
  <2>1. p \in Nat /\ Base(n) <= p /\ p < Base(n) + CFS_BLK_SIZE
    BY <1>1, <1>2, <1>3
  <2> QED
    BY <1>2, <2>1, InBlock
<1>6. ByteAt(i, p) = Lost
  BY <1>5 DEF ByteAt
<1>7. Len(Content(i)) = FileSize(i) /\ \A q \in 1..FileSize(i) : Content(i)[q] = ByteAt(i, q - 1)
  BY <1>2 DEF Content
<1>8. PICK q : q = p + 1
  OBVIOUS
<1>9. q \in 1..FileSize(i) /\ q - 1 = p
  BY <1>2, <1>3, <1>4, <1>8
<1>10. p \div CFS_BLK_SIZE = n - 1
  <2>1. PICK x : x = p \div CFS_BLK_SIZE
    OBVIOUS
  <2>2. x \in Int /\ n = x + 1
    BY <1>1, <1>2, <1>5, <2>1 DEF blknum
  <2> QED
    BY <2>1, <2>2
<1> QED
  BY <1>6, <1>7, <1>9, <1>10

\* A round of fs_write that fails leaves the file as it is or loses the block it was
\* in; without a fault of a request the block was lost before.
LEMMA WriteFails ==
  ASSUME StoreHyp, StoreInv, NEW u \in UserFds, NEW i \in Inodes, NEW pos \in 0..MAX_POS,
         NEW start \in 0..MAX_POS, NEW buf \in Seq(ByteT), NEW d, NEW rest, NEW base,
         Round(u, i, pos, start, buf, d, rest, base), RoundFails(u, i, pos, start, base)
  PROVE  Simulated
<1>1. /\ FsHyp /\ FsInv /\ FsTypes /\ RowsFull /\ call # NULL /\ call.u = u /\ files[u] # NULL /\ files[u].key = i
      /\ pos <= FileSize(i) /\ call' = NULL
  BY DEF StoreHyp, StoreInv, FsInv, Round, RoundFails
<1>2. pos \in Nat /\ start \in Nat
  BY CryptoFsAssumption
<1>3. /\ files'[u].filepos = start /\ files'[u].key = i /\ files'[u] # NULL
      /\ \A v \in UserFds : v # u => files'[v] = files[v]
  <2>1. files' = [files EXCEPT ![u].filepos = start]
    BY DEF RoundFails
  <2>2. \A v \in UserFds : v # u => files'[v] = files[v]
    BY <1>1, <2>1 DEF FsTypes
  <2> QED
    BY <1>1, <2>1, <2>2, HandleMoves, ZenonT(40) DEF Kept
<1>4. Handle(u) = [obj |-> i, mark |-> start, pos |-> pos, buf |-> buf]
  <2>1. call.start = start /\ call.buf = buf /\ files[u].filepos = pos /\ call.op = "write"
    BY DEF Round
  <2> QED
    BY <1>1, <2>1, HandleCalls
<1>5. PICK h, c : h = StoreHandles[u] /\ c = StoreContent[i]
  OBVIOUS
<1>6. h.obj = i /\ h.mark = start /\ h.pos = pos /\ h # NULL /\ c = Content(i)
  <2>1. Handle(u) # NULL
    BY <1>1, HandleIs
  <2> QED
    BY <1>4, <1>5, <2>1 DEF StoreHandles, StoreContent
<1>7. StoreHandles' = [StoreHandles EXCEPT ![u] = Store!At(h.obj, h.mark)]
  <2>1. Handle(u)' = Store!At(h.obj, h.mark)
    BY <1>1, <1>3, <1>6, HandleRests DEF Resting, Store!At
  <2> QED
    BY <1>1, <1>3, <2>1, HandleReplaced
<1>8. Len(c) = FileSize(i)
  <2>1. FileSize(i) \in Nat
    BY <1>1, SizeIs
  <2> QED
    BY <1>6, <2>1 DEF Content
<1>9. reply'.fault \/ Store!Damaged(c, pos, pos)
  <2>1. SUFFICES ASSUME ~verified(base, i, blknum(pos))
                 PROVE  Store!Damaged(c, pos, pos)
    BY DEF RoundFails
  <2>2. PICK n, m : n = blknum(pos) /\ m = pos \div CFS_BLK_SIZE
    OBVIOUS
  <2>3. n \in 1..Len(disk[i].blks) /\ ~verified(disk[i].blks[n], i, n)
    BY <2>1, <2>2 DEF Round, verified, Block
  <2>4. m \in Int /\ n - 1 = m
    BY <1>2, <2>2, CryptoFsAssumption DEF blknum
  <2>5. PICK q \in 1..Len(c) : c[q] = Lost /\ (q - 1) \div CFS_BLK_SIZE = n - 1
    BY <1>1, <1>6, <2>3, UnverifiedLost
  <2>6. (q - 1) \div CFS_BLK_SIZE \in m..m
    BY <2>4, <2>5
  <2> QED
    BY <2>2, <2>5, <2>6 DEF Store!Damaged
<1>10. /\ RowsFull'
       /\ \/ StoreContent' = StoreContent
          \/ reply'.fault /\ StoreContent' = [StoreContent EXCEPT ![i] = Store!Lose(c, pos)]
  <2>1. CASE disk' = disk
    BY <1>1, <2>1, SameContent DEF SameBlocks
  <2>2. CASE reply'.fault /\ disk' = [disk EXCEPT ![i].blks = tz_fs_write_cut(@, blknum(pos))]
    <3>1. CASE blknum(pos) \in 1..Len(disk[i].blks)
      <4>1. Replaced(i, blknum(pos), Bad)
        BY <1>1, <2>2, <3>1, CutReplaces
      <4>2. Content(i)' = Store!Lose(Content(i), pos) /\ RowsFull'
        BY <1>1, <1>2, <3>1, <4>1, LostContent
      <4>3. \A j \in Inodes : j # i => disk'[j] = disk[j]
        BY <4>1 DEF Replaced
      <4> QED
        BY <1>6, <2>2, <4>2, <4>3, ContentReplaced
    <3>2. CASE blknum(pos) \notin 1..Len(disk[i].blks)
      <4>1. blknum(pos) = Len(disk[i].blks) + 1
        BY <1>1, <1>2, <3>2, UpToEnd
      <4>2. disk' = disk
        BY <1>1, <2>2, <4>1, CutBehind
      <4> QED
        BY <1>1, <4>2, SameContent DEF SameBlocks
    <3> QED
      BY <3>1, <3>2
  <2> QED
    BY <2>1, <2>2 DEF RoundFails
<1>11. Store!Told("write", -1)
  BY DEF RoundFails, Store!Told
<1>12. pos <= Len(c)
  BY <1>1, <1>8
<1>13. StoreContent[h.obj] = c
  BY <1>5, <1>6
<1>14. /\ h # NULL /\ Store!Told("write", -1)
       /\ reply'.fault \/ Store!Damaged(StoreContent[h.obj], h.pos, h.pos)
       /\ StoreHandles' = [StoreHandles EXCEPT ![u] = Store!At(h.obj, h.mark)]
       /\ \/ StoreContent' = StoreContent
          \/ /\ reply'.fault /\ h.pos <= Len(StoreContent[h.obj])
             /\ StoreContent' = [StoreContent EXCEPT ![h.obj] = Store!Lose(@, h.pos)]
  BY <1>5, <1>6, <1>7, <1>9, <1>10, <1>11, <1>12, <1>13
<1>15. Store!Fails(u)
  BY <1>5, <1>14 DEF Store!Fails, StoreContent, StoreHandles
<1> QED
  BY <1>1, <1>10, <1>15 DEF Store!SNext, Simulated

\* What a transfer of the store is made of.
LEMMA TransferBy ==
  ASSUME NEW u, NEW k \in 0..CFS_BLK_SIZE, NEW blank \in {FALSE, ReadErrors}, NEW h, NEW old, NEW rest,
         h = StoreHandles[u], h # NULL, h.pos <= Len(StoreContent[h.obj]), k <= Len(h.buf),
         rest = SubSeq(h.buf, k + 1, Len(h.buf)),
         old = IF blank THEN Store!Blank(StoreContent[h.obj], h.pos) ELSE StoreContent[h.obj],
         StoreContent' = [StoreContent EXCEPT ![h.obj] = Store!Put(old, h.pos, SubSeq(h.buf, 1, k))],
         IF rest # <<>>
         THEN /\ StoreHandles' = [StoreHandles EXCEPT ![u].pos = @ + k, ![u].buf = rest]
              /\ reply' = reply
         ELSE /\ StoreHandles' = [StoreHandles EXCEPT ![u] = Store!At(h.obj, h.pos + k)]
              /\ Store!Told("write", h.pos + k - h.mark)
  PROVE  Store!Transfer(u)
<1>1. \E n \in 0..CFS_BLK_SIZE, blk \in {FALSE, ReadErrors} :
        LET g == StoreHandles[u]
            left == SubSeq(g.buf, n + 1, Len(g.buf))
            was == IF blk THEN Store!Blank(StoreContent[g.obj], g.pos) ELSE StoreContent[g.obj]
        IN  /\ g # NULL /\ g.pos <= Len(StoreContent[g.obj]) /\ n <= Len(g.buf)
            /\ StoreContent' = [StoreContent EXCEPT ![g.obj] = Store!Put(was, g.pos, SubSeq(g.buf, 1, n))]
            /\ IF left # <<>>
               THEN /\ StoreHandles' = [StoreHandles EXCEPT ![u].pos = @ + n, ![u].buf = left]
                    /\ reply' = reply
               ELSE /\ StoreHandles' = [StoreHandles EXCEPT ![u] = Store!At(g.obj, g.pos + n)]
                    /\ Store!Told("write", g.pos + n - g.mark)
  <2>1. WITNESS k \in 0..CFS_BLK_SIZE, blank \in {FALSE, ReadErrors}
  <2> QED
    BY ZenonT(30)
<1> QED
  BY <1>1, Zenon DEF Store!Transfer, StoreContent, StoreHandles

\* A round of fs_write that succeeds puts its bytes into the file, and what is left
\* of a write fits as the whole of it did.
LEMMA WriteTransfers ==
  ASSUME StoreHyp, StoreInv, FsInv', NEW u \in UserFds, NEW i \in Inodes, NEW pos \in 0..MAX_POS,
         NEW start \in 0..MAX_POS, NEW buf \in Seq(ByteT), NEW d, NEW rest, NEW base,
         Round(u, i, pos, start, buf, d, rest, base), RoundWrites(u, i, pos, start, d, rest, base)
  PROVE  Simulated
<1>1. /\ FsHyp /\ FsInv /\ FsTypes /\ RowsFull /\ call # NULL /\ call.u = u /\ files[u] # NULL /\ files[u].key = i
      /\ call.op = "write" /\ call.start = start /\ call.buf = buf /\ files[u].filepos = pos
      /\ pos <= FileSize(i) /\ WriteOK
  BY DEF StoreHyp, StoreInv, FsInv, Round, ReadOK
<1>2. PICK n, off, k, B, size : n = blknum(pos) /\ off = blkoffset(pos) /\ k = Len(d) /\ B = CFS_BLK_SIZE /\ size = FileSize(i)
  OBVIOUS
<1>3. /\ pos \in Nat /\ start \in Nat /\ n \in Nat /\ n >= 1 /\ off \in 0..(B - 1) /\ Base(n) \in Int /\ Base(n) + off = pos
      /\ B \in Nat /\ B > 0 /\ size \in Nat
  <2>1. pos \in Nat /\ start \in Nat
    BY CryptoFsAssumption
  <2> QED
    BY <1>1, <1>2, <2>1, Position, SizeIs, CryptoFsAssumption, SMTT(30)
<1>4. /\ d \in Seq(ByteT) /\ rest \in Seq(ByteT) /\ d = SubSeq(buf, 1, k)
      /\ k \in Nat /\ k <= Len(buf) /\ k <= B - off /\ Len(rest) = Len(buf) - k /\ Len(buf) \in Nat
      /\ rest # <<>> => k = B - off /\ k < Len(buf)
      /\ rest = <<>> => k = Len(buf)
  <2>1. off \in 0..(CFS_BLK_SIZE - 1) /\ d = Chunk(buf, off) /\ rest = SubSeq(buf, Len(d) + 1, Len(buf))
    BY <1>2, <1>3 DEF Round
  <2>2. Split(buf, off, d, rest)
    BY <2>1, ChunkIs
  <2>3. Len(buf) \in Nat
    OBVIOUS
  <2> QED
    BY <1>2, <2>2, <2>3 DEF Split
<1>5. pos + Len(buf) <= MAX_POS /\ (pos + Len(buf) >= size \/ (Len(buf) > 0 /\ blkoffset(pos + Len(buf)) = 0))
  BY <1>2 DEF Round
\* The bytes reach the end of the file, or of the block.
<1>6. pos + k >= size \/ off + k = B
  <2>1. CASE rest # <<>>
    BY <1>3, <1>4, <2>1
  <2>2. CASE rest = <<>> /\ pos + Len(buf) >= size
    BY <1>4, <2>2
  <2>3. CASE rest = <<>> /\ k > 0 /\ blkoffset(pos + k) = 0
    <3>1. PICK e : e = pos + k
      OBVIOUS
    <3>2. off + k # B => FALSE
      <4>1. SUFFICES ASSUME off + k # B PROVE FALSE
        OBVIOUS
      <4>2. PICK a : a = Base(n)
        OBVIOUS
      <4>3. e \in Nat /\ a <= e /\ e < a + B /\ e - a # 0 /\ n \in Int
        BY <1>3, <1>4, <2>3, <3>1, <4>1, <4>2
      <4>4. blkoffset(e) = e - a
        BY <1>2, <4>2, <4>3, InBlock
      <4> QED
        BY <2>3, <3>1, <4>3, <4>4
    <3> QED
      BY <3>2
  <2> QED
    BY <1>4, <1>5, <2>1, <2>2, <2>3
<1>7. PICK b : b = filled(base, off, d)
  OBVIOUS
<1>8. /\ b.key = i /\ b.num = n /\ b.count = off + k
      /\ \A o \in Offset : b.blk[o] = IF o \in off..(off + k - 1) THEN d[o - off + 1] ELSE base.blk[o]
  <2>1. base.key = i /\ base.num = n
    BY <1>2 DEF RoundWrites, verified
  <2>2. \E x, y : base \in [key : {i}, num : {n}, count : {x}, blk : {y}]
    <3>1. CASE n \in 1..Len(disk[i].blks) /\ base = disk[i].blks[n]
      <4>1. base \in Blocks
        BY <1>1, <1>2, <3>1, RowTypes
      <4>2. base \in [key : {i}, num : {n}, count : {base.count}, blk : {base.blk}]
        BY <2>1, <4>1 DEF Blocks, BlockT
      <4> QED
        BY <4>2
    <3>2. CASE base = Block(i, n)
      <4>1. base \in [key : {i}, num : {n}, count : {0}, blk : {[o \in Offset |-> Zero]}]
        BY <3>2 DEF Block
      <4> QED
        BY <4>1
    <3> QED
      BY <1>2, <3>1, <3>2 DEF Round
  <2>3. PICK new : new = [o \in Offset |-> IF o \in off..(off + k - 1) THEN d[o - off + 1] ELSE base.blk[o]]
    OBVIOUS
  <2>4. b = [base EXCEPT !.count = off + k, !.blk = new]
    BY <1>2, <1>7, <2>3 DEF filled
  <2>5. b.key = i /\ b.num = n /\ b.count = off + k /\ b.blk = new
    BY <2>1, <2>2, <2>4
  <2> QED
    BY <2>3, <2>5
<1>9. Replaced(i, n, b)
  BY <1>1, <1>2, <1>3, <1>7, WriteReplaces DEF RoundWrites
\* What the file had before: its bytes, or zeroes where the block could not be read.
<1>90. PICK blank \in {FALSE, ReadErrors} :
         Before(IF blank THEN Store!Blank(Content(i), pos) ELSE Content(i), i, pos, base)
  <2>1. CASE base = IF n \in 1..Len(disk[i].blks) THEN disk[i].blks[n] ELSE Block(i, n)
    <3>1. /\ blknum(pos) \in 1..Len(disk[i].blks) => base = disk[i].blks[blknum(pos)]
          /\ verified(base, i, blknum(pos))
      BY <1>2, <2>1 DEF RoundWrites
    <3>2. Before(Content(i), i, pos, base)
      BY <1>1, <1>3, <3>1, ReadBefore
    <3>3. WITNESS FALSE \in {FALSE, ReadErrors}
    <3> QED
      BY <3>2
  <2>2. CASE ReadErrors /\ base = Block(i, n)
    <3>1. Before(Store!Blank(Content(i), pos), i, pos, base)
      BY <1>1, <1>2, <1>3, <2>2, BlankBefore
    <3>2. WITNESS ReadErrors \in {FALSE, ReadErrors}
    <3> QED
      BY <2>2, <3>1
  <2> QED
    BY <1>2, <2>1, <2>2 DEF Round
<1>91. PICK old : old = IF blank THEN Store!Blank(Content(i), pos) ELSE Content(i)
  OBVIOUS
<1>10. /\ Content(i)' = Store!Put(old, pos, d) /\ RowsFull'
       /\ FileSize(i)' = IF pos + k > size THEN pos + k ELSE size
  <2>1. Before(old, i, pos, base)
    BY <1>90, <1>91
  <2>3. Len(d) <= CFS_BLK_SIZE - blkoffset(pos)
    BY <1>2, <1>4
  <2>4. /\ pos + Len(d) >= FileSize(i) \/ blkoffset(pos) + Len(d) = CFS_BLK_SIZE
        /\ b.key = i /\ b.num = blknum(pos) /\ b.count = blkoffset(pos) + Len(d)
        /\ \A o \in Offset : b.blk[o] = IF o \in blkoffset(pos)..(blkoffset(pos) + Len(d) - 1)
                                       THEN d[o - blkoffset(pos) + 1] ELSE base.blk[o]
    BY <1>2, <1>6, <1>8
  <2>5. Replaced(i, blknum(pos), b)
    BY <1>2, <1>9
  <2>6. pos \in Nat /\ d \in Seq(ByteT)
    BY <1>3, <1>4
  <2>7. /\ Content(i)' = Store!Put(old, pos, d) /\ RowsFull'
        /\ FileSize(i)' = IF pos + Len(d) > FileSize(i) THEN pos + Len(d) ELSE FileSize(i)
    BY <1>1, <2>1, <2>3, <2>4, <2>5, <2>6, FilledContent
  <2> QED
    BY <1>2, <2>7
<1>11. StoreContent' = [StoreContent EXCEPT ![i] = Store!Put(old, pos, d)]
  <2>1. \A j \in Inodes : j # i => disk'[j] = disk[j]
    BY <1>9 DEF Replaced
  <2> QED
    BY <1>10, <2>1, ContentReplaced
<1>12. /\ files'[u].filepos = pos + k /\ files'[u].key = i /\ files'[u] # NULL
       /\ \A v \in UserFds : v # u => files'[v] = files[v]
  <2>1. files' = [files EXCEPT ![u].filepos = pos + k]
    BY <1>2 DEF RoundWrites
  <2>2. \A v \in UserFds : v # u => files'[v] = files[v]
    BY <1>1, <2>1 DEF FsTypes
  <2>3. pos + k \in 0..MAX_POS
    BY <1>3, <1>4, <1>5, CryptoFsAssumption
  <2>4. PICK p : p = pos + k
    OBVIOUS
  <2>5. p \in 0..MAX_POS /\ files' = [files EXCEPT ![u].filepos = p]
    BY <2>1, <2>3, <2>4
  <2>6. files'[u].filepos = p /\ files'[u].key = i /\ files'[u] # NULL
    BY <1>1, <2>5, HandleMoves DEF Kept
  <2> QED
    BY <2>2, <2>4, <2>6
<1>13. Handle(u) = [obj |-> i, mark |-> start, pos |-> pos, buf |-> buf]
  BY <1>1, HandleCalls
<1>14. PICK h, c : h = StoreHandles[u] /\ c = StoreContent[i]
  OBVIOUS
<1>15. h = [obj |-> i, mark |-> start, pos |-> pos, buf |-> buf] /\ h # NULL /\ c = Content(i) /\ Len(c) = size
  <2>1. Handle(u) # NULL
    BY <1>1, HandleIs
  <2>2. Len(Content(i)) = size
    BY <1>2, <1>3 DEF Content
  <2> QED
    BY <1>13, <1>14, <2>1, <2>2 DEF StoreHandles, StoreContent
<1>16. /\ k \in 0..CFS_BLK_SIZE /\ h # NULL /\ h.pos <= Len(StoreContent[h.obj]) /\ k <= Len(h.buf)
       /\ old = IF blank THEN Store!Blank(StoreContent[h.obj], h.pos) ELSE StoreContent[h.obj]
       /\ StoreContent' = [StoreContent EXCEPT ![h.obj] = Store!Put(old, h.pos, SubSeq(h.buf, 1, k))]
       /\ SubSeq(h.buf, k + 1, Len(h.buf)) = rest
  <2>0. k \in Nat /\ k <= B - off /\ off \in Int /\ off >= 0 /\ B \in Nat /\ B = CFS_BLK_SIZE
    BY <1>2, <1>3, <1>4
  <2>1. k \in 0..CFS_BLK_SIZE
    BY <2>0
  <2>2. rest = SubSeq(buf, k + 1, Len(buf))
    BY <1>2 DEF Round
  <2>3. h.obj = i /\ h.pos = pos /\ h.buf = buf /\ StoreContent[i] = Content(i)
    BY <1>14, <1>15
  <2> QED
    BY <1>1, <1>2, <1>4, <1>11, <1>14, <1>15, <1>91, <2>1, <2>2, <2>3
<1>17. CASE rest = <<>>
  <2>1. call' = NULL /\ Store!Told("write", h.pos + k - h.mark)
    <3>1. reply'.op = "write" /\ reply'.ret = pos + k - start /\ call' = NULL
      BY <1>2, <1>17 DEF RoundWrites
    <3> QED
      BY <1>15, <3>1 DEF Store!Told
  <2>2. StoreHandles' = [StoreHandles EXCEPT ![u] = Store!At(h.obj, h.pos + k)]
    <3>1. Handle(u)' = Store!At(h.obj, h.pos + k)
      BY <1>12, <1>15, <2>1, HandleRests DEF Resting, Store!At
    <3> QED
      BY <1>1, <1>12, <2>1, <3>1, HandleReplaced
  <2>3. Store!Transfer(u)
    BY <1>14, <1>16, <1>17, <1>90, <2>1, <2>2, TransferBy
  <2> QED
    BY <1>10, <2>1, <2>3 DEF Store!SNext, Simulated
<1>18. CASE rest # <<>>
  <2>1. PICK f \in BOOLEAN : call' = [call EXCEPT !.buf = rest, !.fault = f] /\ reply' = reply
    BY <1>18 DEF RoundWrites
  <2>2. /\ call' \in [op : {"write"}, u : UserFds, start : 0..MAX_POS, fault : BOOLEAN, buf : Seq(ByteT)]
        /\ call'.u = u /\ call'.buf = rest /\ call'.start = start /\ call'.op = "write"
    BY <1>1, <1>4, <2>1 DEF WriteOK
  <2>3. call' # NULL
    BY <2>2 DEF StoreHyp
  <2>4. PICK h2 : h2 = [obj |-> i, mark |-> start, pos |-> pos + k, buf |-> rest]
    OBVIOUS
  <2>5. Handle(u)' = h2
    BY <1>12, <2>2, <2>3, <2>4, HandleCalls
  <2>6. StoreHandles' = [StoreHandles EXCEPT ![u] = h2]
    BY <1>1, <1>12, <2>2, <2>5, HandleReplaced
  <2>7. h2 = [h EXCEPT !.pos = @ + k, !.buf = rest]
    <3>1. PICK p : p = pos + k
      OBVIOUS
    <3>2. h.pos + k = p
      BY <1>15, <3>1
    <3>3. [h EXCEPT !.pos = p, !.buf = rest] = [obj |-> i, mark |-> start, pos |-> p, buf |-> rest]
      <4>1. PICK g : g = [h EXCEPT !.pos = p]
        OBVIOUS
      <4>2. g = [obj |-> i, mark |-> start, pos |-> p, buf |-> buf]
        BY <1>15, <4>1
      <4>3. [g EXCEPT !.buf = rest] = [obj |-> i, mark |-> start, pos |-> p, buf |-> rest]
        BY <4>2
      <4>4. [h EXCEPT !.pos = p, !.buf = rest] = [g EXCEPT !.buf = rest]
        BY <1>15, <4>1
      <4> QED
        BY <4>3, <4>4
    <3>4. [h EXCEPT !.pos = @ + k, !.buf = rest] = [h EXCEPT !.pos = p, !.buf = rest]
      BY <3>2
    <3> QED
      BY <2>4, <3>1, <3>3, <3>4
  <2>8. StoreHandles' = [StoreHandles EXCEPT ![u].pos = @ + k, ![u].buf = rest]
    BY <1>14, <2>6, <2>7
  <2>9. Store!Transfer(u)
    BY <1>14, <1>16, <1>18, <1>90, <2>1, <2>8, TransferBy
  <2>10. WriteFits'
    <3>1. PICK p, l : p = pos + k /\ l = Len(buf) - k
      OBVIOUS
    <3>2. p <= FileSize(i)' /\ p + l = pos + Len(buf) /\ l > 0 /\ l \in Nat
      BY <1>3, <1>4, <1>10, <1>18, <3>1
    <3>3. p + l >= FileSize(i)' \/ (l > 0 /\ blkoffset(p + l) = 0)
      <4>1. FileSize(i)' = IF p > size THEN p ELSE size
        BY <1>10, <3>1
      <4>2. p \in Nat
        BY <1>3, <1>4, <3>1
      <4> QED
        BY <1>3, <1>5, <3>2, <4>1, <4>2
    <3> QED
      BY <1>4, <1>12, <2>2, <3>1, <3>2, <3>3, WriteFitsNext
  <2> QED
    BY <1>10, <2>2, <2>9, <2>10 DEF Store!SNext, Simulated
<1> QED
  BY <1>17, <1>18

\* A round of fs_write.
LEMMA WriteSimulated ==
  ASSUME StoreHyp, StoreInv, FsInv', fs_write
  PROVE  Simulated
<1>1. PICK u \in UserFds, i \in Inodes, pos \in 0..MAX_POS, start \in 0..MAX_POS, buf \in Seq(ByteT) :
      \E d, rest, base :
        /\ Round(u, i, pos, start, buf, d, rest, base)
        /\ RoundFails(u, i, pos, start, base) \/ RoundWrites(u, i, pos, start, d, rest, base)
  BY RoundIs
<1>2. PICK d, rest, base :
        /\ Round(u, i, pos, start, buf, d, rest, base)
        /\ RoundFails(u, i, pos, start, base) \/ RoundWrites(u, i, pos, start, d, rest, base)
  BY <1>1
<1> QED
  BY <1>2, WriteFails, WriteTransfers

-----------------------------------------------------------------------------
(* The rounds of a read                                                    *)

\* Earlier positions are in earlier blocks.
LEMMA DivOrder ==
  ASSUME NEW p \in Nat, NEW q \in Nat, p <= q
  PROVE  p \div CFS_BLK_SIZE <= q \div CFS_BLK_SIZE /\ p \div CFS_BLK_SIZE \in Int /\ q \div CFS_BLK_SIZE \in Int
<1>1. PICK m, n, B : m = blknum(p) /\ n = blknum(q) /\ B = CFS_BLK_SIZE
  OBVIOUS
<1>2. /\ B \in Nat /\ B > 0 /\ m \in Nat /\ n \in Nat
      /\ blkoffset(p) \in 0..(B - 1) /\ Base(m) \in Int /\ Base(m) + blkoffset(p) = p
      /\ blkoffset(q) \in 0..(B - 1) /\ Base(n) \in Int /\ Base(n) + blkoffset(q) = q
  BY <1>1, Position, CryptoFsAssumption
<1>3. n < m => Base(n) + B <= Base(m)
  <2>1. m \in Int /\ n \in Int
    BY <1>2
  <2> QED
    BY <1>1, <2>1, BaseOrder
<1>4. m <= n
  <2> DEFINE a == Base(m)
             b == Base(n)
             o == blkoffset(p)
             e == blkoffset(q)
  <2>1. /\ a \in Int /\ b \in Int /\ o \in 0..(B - 1) /\ e \in 0..(B - 1) /\ a + o = p /\ b + e = q
        /\ n < m => b + B <= a
    BY <1>2, <1>3
  <2> HIDE DEF a, b, o, e
  <2> QED
    BY <1>2, <2>1
<1>5. PICK x, y : x = p \div CFS_BLK_SIZE /\ y = q \div CFS_BLK_SIZE
  OBVIOUS
<1>6. x \in Int /\ y \in Int /\ m = x + 1 /\ n = y + 1
  BY <1>1, <1>2, <1>5 DEF blknum
<1> QED
  BY <1>4, <1>5, <1>6

\* A round of fs_read for the handle u, of the file i, at the position pos: it has
\* collected buf from the position start on, and reads the block b.
Reading(u, i, pos, start, count, buf, b) ==
  /\ call # NULL /\ call.op = "read" /\ call.u = u /\ call.start = start /\ call.count = count /\ call.buf = buf
  /\ files[u] # NULL /\ files[u].key = i /\ files[u].filepos = pos
  /\ pos = start + Len(buf) /\ Len(buf) <= count
  /\ Len(buf) = 0 \/ Len(buf) < count
  /\ Collected(i, start, buf)
  /\ b = IF blknum(pos) \in 1..Len(disk[i].blks) THEN disk[i].blks[blknum(pos)] ELSE Eof
  /\ disk' = disk

ReadingFails(u, i, pos, start, count, b) ==
  /\ files' = [files EXCEPT ![u].filepos = start] /\ call' = NULL
  /\ reply'.op = "read" /\ reply'.ret = -1 /\ reply'.asked = count
  /\ reply'.fault \/ ~verified(b, i, blknum(pos)) \/ b.count < blkoffset(pos)

\* The bytes a round takes from its block.
Taken(b, off, left) ==
  [j \in 1..(IF b.count - off > left THEN left ELSE b.count - off) |-> b.blk[off + j - 1]]

ReadingGets(u, i, pos, count, b, got, new) ==
  /\ verified(b, i, blknum(pos)) /\ ~(b.count < blkoffset(pos))
  /\ files' = [files EXCEPT ![u].filepos = pos + Len(got)]
  /\ IF Len(new) = count \/ b.count < CFS_BLK_SIZE
     THEN /\ reply'.op = "read" /\ reply'.ret = Len(new) /\ reply'.asked = count /\ reply'.data = new
          /\ call' = NULL
     ELSE call' = [call EXCEPT !.buf = new] /\ reply' = reply

\* Every step of fs_read is such a round.
LEMMA ReadingIs ==
  ASSUME StoreHyp, StoreInv, fs_read
  PROVE  \E u \in UserFds, i \in Inodes, pos \in 0..MAX_POS, start \in 0..MAX_POS, count \in Nat, buf \in Seq(ByteT) :
         \E b :
           /\ Reading(u, i, pos, start, count, buf, b)
           /\ \/ ReadingFails(u, i, pos, start, count, b)
              \/ LET got == Taken(b, blkoffset(pos), count - Len(buf))
                 IN  ReadingGets(u, i, pos, count, b, got, buf \o got)
<1>0. PICK c, buf, u, i, pos, start, count : c = files[call.u] /\ buf = call.buf /\ u = call.u /\ i = c.key
        /\ pos = c.filepos /\ start = call.start /\ count = call.count
  OBVIOUS
<1>1. FsTypes /\ Pairs /\ RowsFull /\ ReadOK /\ call # NULL /\ call.op = "read" /\ ReadFits
  <2>1. call # NULL /\ call.op = "read"
    BY DEF fs_read
  <2> QED
    BY <2>1 DEF StoreInv, FsInv, WriteOK
<1>2. /\ u \in UserFds /\ c = files[u] /\ c # NULL /\ start \in 0..MAX_POS /\ buf \in Seq(ByteT) /\ count \in Nat
      /\ pos = start + Len(buf) /\ Len(buf) <= count
      /\ Len(buf) = 0 \/ Len(buf) < count
      /\ Collected(i, start, buf)
  BY <1>0, <1>1 DEF ReadOK, ReadFits
<1>3. c \in HandleT
  BY <1>1, <1>2 DEF FsTypes
<1>4. i \in Inodes /\ pos \in 0..MAX_POS /\ pos \in Nat /\ fds[c.fd] = i
  <2>1. i \in Inodes /\ pos \in 0..MAX_POS
    BY <1>0, <1>3 DEF HandleT
  <2> QED
    BY <1>0, <1>1, <1>2, <2>1, CryptoFsAssumption DEF Pairs
<1>5. PICK n, off, b, got : n = blknum(pos) /\ off = blkoffset(pos)
        /\ b = (IF n \in 1..Len(disk[i].blks) THEN disk[i].blks[n] ELSE Eof)
        /\ got = Taken(b, off, count - Len(buf))
  OBVIOUS
<1>6. n \in Nat /\ n >= 1 /\ Len(disk[i].blks) \in Nat /\ off \in 0..(CFS_BLK_SIZE - 1)
  BY <1>1, <1>4, <1>5, Position, RowTypes
<1>7. Found(c.fd, n) = b /\ \A x \in ree_read(c.fd, n) : x = b \/ x = Eof
  <2>1. fds[c.fd] # NULL
    BY <1>4, CryptoFsAssumption DEF StoreHyp, FsHyp
  <2>2. Found(c.fd, n) = IF n <= Len(disk[i].blks) THEN disk[i].blks[n] ELSE Eof
    BY <1>4 DEF Found, tz_fs_fstat
  <2>3. Found(c.fd, n) = b
    BY <1>5, <1>6, <2>2
  <2> QED
    BY <2>1, <2>3 DEF ree_read, ree_lseek, tz_fs_lseek, tz_fs_read
<1>8. Reading(u, i, pos, start, count, buf, b)
  <2>1. disk' = disk
    BY DEF fs_read
  <2> QED
    BY <1>0, <1>1, <1>2, <1>5, <2>1, SMTT(30) DEF Reading
<1> DEFINE Size(x) == IF x.count - off > count - Len(buf) THEN count - Len(buf) ELSE x.count - off
           Gets(x, new) ==
             /\ files' = [files EXCEPT ![u].filepos = @ + Size(x)]
             /\ IF Len(new) = count \/ x.count < CFS_BLK_SIZE
                THEN /\ reply' = [Answer("read", Len(new), FALSE) EXCEPT
                                    !.asked = count, !.data = new, !.key = i, !.pos = start]
                     /\ call' = NULL
                ELSE /\ call' = [call EXCEPT !.buf = new]
                     /\ UNCHANGED reply
           r == Size(b)
<1>9. got = [j \in 1..r |-> b.blk[off + j - 1]]
  BY <1>5, SMTT(30) DEF Taken
<1>90. PICK fault \in BOOLEAN, x \in ree_read(c.fd, n) :
        IF fault \/ ~verified(x, i, n) \/ x.count < off
        THEN cleanup("read", count, fault \/ Failed(c.fd, n, x))
        ELSE Gets(x, buf \o [j \in 1..Size(x) |-> x.blk[off + j - 1]])
  <2>1. n = blknum(files[call.u].filepos) /\ off = blkoffset(files[call.u].filepos)
        /\ c.fd = files[call.u].fd /\ i = files[call.u].key /\ buf = call.buf /\ count = call.count
        /\ start = call.start /\ u = call.u
    BY <1>0, <1>5
  <2>2. PICK fault \in BOOLEAN, x \in ree_read(files[call.u].fd, blknum(files[call.u].filepos)) :
        IF fault \/ ~verified(x, files[call.u].key, blknum(files[call.u].filepos)) \/ x.count < blkoffset(files[call.u].filepos)
        THEN cleanup("read", call.count, fault \/ Failed(files[call.u].fd, blknum(files[call.u].filepos), x))
        ELSE LET reading == IF x.count - blkoffset(files[call.u].filepos) > call.count - Len(call.buf)
                            THEN call.count - Len(call.buf) ELSE x.count - blkoffset(files[call.u].filepos)
                 new == call.buf \o [j \in 1..reading |-> x.blk[blkoffset(files[call.u].filepos) + j - 1]]
             IN  /\ files' = [files EXCEPT ![call.u].filepos = @ + reading]
                 /\ IF Len(new) = call.count \/ x.count < CFS_BLK_SIZE
                    THEN /\ reply' = [Answer("read", Len(new), FALSE) EXCEPT
                                        !.asked = call.count, !.data = new,
                                        !.key = files[call.u].key, !.pos = call.start]
                         /\ call' = NULL
                    ELSE /\ call' = [call EXCEPT !.buf = new]
                         /\ UNCHANGED reply
    BY ZenonT(60) DEF fs_read
  <2>3. PICK size, new :
          /\ size = IF x.count - off > count - Len(buf) THEN count - Len(buf) ELSE x.count - off
          /\ new = buf \o [j \in 1..size |-> x.blk[off + j - 1]]
    OBVIOUS
  <2>4. IF fault \/ ~verified(x, i, n) \/ x.count < off
        THEN cleanup("read", count, fault \/ Failed(c.fd, n, x))
        ELSE /\ files' = [files EXCEPT ![u].filepos = @ + size]
             /\ IF Len(new) = count \/ x.count < CFS_BLK_SIZE
                THEN /\ reply' = [Answer("read", Len(new), FALSE) EXCEPT
                                    !.asked = count, !.data = new, !.key = i, !.pos = start]
                     /\ call' = NULL
                ELSE /\ call' = [call EXCEPT !.buf = new]
                     /\ UNCHANGED reply
    BY <2>1, <2>2, <2>3, ZenonT(60)
  <2>5. x \in ree_read(c.fd, n)
    BY <2>1, <2>2
  <2> QED
    BY <2>3, <2>4, <2>5, ZenonT(60)
<1>91. CASE x # b
  <2>1. x = Eof /\ Failed(c.fd, n, x)
    BY <1>7, <1>90, <1>91 DEF Failed
  <2>2. ~verified(x, i, n)
    BY <1>4, <2>1, VerifiedBlock
  <2>3. cleanup("read", count, fault \/ Failed(c.fd, n, x))
    BY <1>90, <2>2
  <2>4. /\ files' = [files EXCEPT ![u].filepos = start] /\ call' = NULL
        /\ reply'.op = "read" /\ reply'.ret = -1 /\ reply'.asked = count /\ reply'.fault
    BY <1>0, <2>1, <2>3 DEF cleanup, Answer
  <2>5. ReadingFails(u, i, pos, start, count, b)
    BY <1>5, <2>4 DEF ReadingFails
  <2> QED
    BY <1>2, <1>4, <1>8, <2>5
<1>10. ASSUME x = b
       PROVE  IF fault \/ ~verified(b, i, n) \/ b.count < off
              THEN cleanup("read", count, fault \/ Failed(c.fd, n, b))
              ELSE Gets(b, buf \o got)
  BY <1>9, <1>90, <1>10, ZenonT(40)
<1>11. CASE x = b /\ (fault \/ ~verified(b, i, n) \/ b.count < off)
  <2>1. /\ files' = [files EXCEPT ![u].filepos = start] /\ call' = NULL
        /\ reply'.op = "read" /\ reply'.ret = -1 /\ reply'.asked = count
        /\ reply'.fault = (fault \/ Failed(c.fd, n, b))
    BY <1>0, <1>10, <1>11 DEF cleanup, Answer
  <2>2. ReadingFails(u, i, pos, start, count, b)
    BY <1>5, <1>11, <2>1 DEF ReadingFails
  <2> QED
    BY <1>2, <1>4, <1>8, <2>2
<1>12. CASE x = b /\ ~(fault \/ ~verified(b, i, n) \/ b.count < off)
  <2>1. b.count \in 0..CFS_BLK_SIZE
    <3>1. b # Eof
      BY <1>4, <1>12, VerifiedBlock
    <3> QED
      BY <1>1, <1>4, <1>5, <3>1, RowTypes
  <2>2. Len(got) = r
    <3>1. PICK k, l : k = b.count /\ l = count - Len(buf)
      OBVIOUS
    <3>2. k \in Nat /\ l \in Nat /\ ~(k < off)
      BY <1>2, <1>12, <2>1, <3>1, CryptoFsAssumption
    <3>3. r \in Nat
      <4>1. r = IF k - off > l THEN l ELSE k - off
        BY <3>1
      <4> HIDE DEF r
      <4> QED
        BY <1>6, <3>2, <4>1
    <3> HIDE DEF r
    <3> QED
      BY <1>9, <3>3
  <2>3. files' = [files EXCEPT ![u].filepos = pos + Len(got)]
    BY <1>0, <1>10, <1>12, <2>2
  <2>4. IF Len(buf \o got) = count \/ b.count < CFS_BLK_SIZE
        THEN /\ reply'.op = "read" /\ reply'.ret = Len(buf \o got) /\ reply'.asked = count /\ reply'.data = buf \o got
             /\ call' = NULL
        ELSE call' = [call EXCEPT !.buf = buf \o got] /\ reply' = reply
    BY <1>10, <1>12 DEF Answer
  <2>5. ReadingGets(u, i, pos, count, b, got, buf \o got)
    BY <1>5, <1>12, <2>3, <2>4 DEF ReadingGets
  <2> QED
    BY <1>2, <1>4, <1>5, <1>8, <2>5
<1> QED
  BY <1>91, <1>11, <1>12

\* What is the same of every round: the handle of StoredFile does not see the bytes
\* that were collected.
LEMMA ReadingHandle ==
  ASSUME StoreHyp, StoreInv, NEW u \in UserFds, NEW i, NEW pos, NEW start, NEW count, NEW buf, NEW b,
         Reading(u, i, pos, start, count, buf, b)
  PROVE  /\ StoreHandles[u] = Store!At(i, start) /\ StoreHandles[u] # NULL
         /\ StoreContent' = StoreContent /\ RowsFull'
<1>1. /\ FsInv /\ RowsFull /\ call # NULL /\ call.u = u /\ call.op = "read" /\ call.start = start
      /\ files[u] # NULL /\ files[u].key = i /\ disk' = disk
  BY DEF StoreInv, Reading
<1>2. Handle(u) = Store!At(i, start)
  BY <1>1, HandleCalls DEF Store!At
<1>3. Handle(u) # NULL
  BY <1>1, HandleIs
<1>4. StoreContent' = StoreContent /\ RowsFull'
  BY <1>1, SameContent DEF SameBlocks
<1> QED
  BY <1>2, <1>3, <1>4 DEF StoreHandles

\* A round that fails without a fault of a request has come to the end of the file,
\* or to a block that is lost.
LEMMA ReadFails ==
  ASSUME StoreHyp, StoreInv, NEW u \in UserFds, NEW i \in Inodes, NEW pos \in 0..MAX_POS,
         NEW start \in 0..MAX_POS, NEW count \in Nat, NEW buf \in Seq(ByteT), NEW b,
         Reading(u, i, pos, start, count, buf, b), ReadingFails(u, i, pos, start, count, b)
  PROVE  Simulated
<1>1. /\ FsHyp /\ FsInv /\ FsTypes /\ RowsFull /\ call # NULL /\ call.u = u /\ files[u] # NULL /\ files[u].key = i
      /\ call' = NULL /\ files' = [files EXCEPT ![u].filepos = start]
  BY DEF StoreHyp, StoreInv, FsInv, Reading, ReadingFails
<1>2. pos \in Nat /\ start \in Nat /\ Len(buf) \in Nat
  BY CryptoFsAssumption
<1>3. PICK h, c, size : h = StoreHandles[u] /\ c = StoreContent[i] /\ size = FileSize(i)
  OBVIOUS
<1>4. /\ h = Store!At(i, start) /\ h # NULL /\ StoreContent' = StoreContent /\ RowsFull'
      /\ c = Content(i) /\ size \in Nat /\ Len(c) = size
  <2>1. h = Store!At(i, start) /\ h # NULL /\ StoreContent' = StoreContent /\ RowsFull'
    BY <1>3, ReadingHandle
  <2>2. size \in Nat /\ c = Content(i)
    BY <1>1, <1>3, SizeIs DEF StoreContent
  <2> QED
    BY <1>3, <2>1, <2>2 DEF Content
<1>5. StoreHandles' = StoreHandles
  <2>1. /\ files'[u].filepos = start /\ files'[u].key = i /\ files'[u] # NULL
        /\ \A v \in UserFds : v # u => files'[v] = files[v]
    <3>1. \A v \in UserFds : v # u => files'[v] = files[v]
      BY <1>1 DEF FsTypes
    <3> QED
      BY <1>1, <3>1, HandleMoves, ZenonT(40) DEF Kept
  <2>2. Handle(u)' = h
    BY <1>1, <1>4, <2>1, HandleRests DEF Resting, Store!At
  <2>3. StoreHandles' = [StoreHandles EXCEPT ![u] = h]
    BY <1>1, <2>1, <2>2, HandleReplaced
  <2> QED
    BY <1>3, <2>3 DEF StoreHandles
<1>6. pos = start + Len(buf) /\ Len(buf) <= count /\ (Len(buf) = 0 \/ Len(buf) < count)
  BY DEF Reading
<1>7. pos >= size => start + count > size \/ start = size
  BY <1>2, <1>4, <1>6
<1>8. reply'.fault \/ start + count > Len(c) \/ start = Len(c) \/ Store!Damaged(c, start, start + count)
  <2>0. PICK n, off, l : n = blknum(pos) /\ off = blkoffset(pos) /\ l = Len(disk[i].blks)
    OBVIOUS
  <2>1. /\ n \in Nat /\ n >= 1 /\ off \in 0..(CFS_BLK_SIZE - 1) /\ Base(n) \in Int /\ Base(n) + off = pos /\ l \in Nat
        /\ CFS_BLK_SIZE \in Nat
    BY <1>1, <1>2, <2>0, Position, RowTypes, CryptoFsAssumption
  <2>2. b = IF n \in 1..l THEN disk[i].blks[n] ELSE Eof
    BY <2>0 DEF Reading
  <2>3. reply'.fault \/ ~verified(b, i, n) \/ b.count < off
    BY <2>0 DEF ReadingFails
  <2>4. CASE n \notin 1..l
    <3>1. pos >= size
      <4>1. pos < size => n \in 1..l
        BY <1>1, <1>2, <1>3, <2>0, InFile
      <4> QED
        BY <1>2, <1>4, <2>4, <4>1
    <3> QED
      BY <1>4, <1>7, <3>1
  <2>5. CASE n \in 1..l /\ ~verified(b, i, n)
    <3>1. PICK q \in 1..Len(c) : c[q] = Lost /\ (q - 1) \div CFS_BLK_SIZE = n - 1
      BY <1>1, <1>4, <2>0, <2>2, <2>5, UnverifiedLost
    <3>2. PICK x, y, z, e : x = start \div CFS_BLK_SIZE /\ y = pos \div CFS_BLK_SIZE /\ z = e \div CFS_BLK_SIZE
            /\ e = start + count
      OBVIOUS
    <3>3. e \in Nat /\ start <= pos /\ pos <= e
      BY <1>2, <1>6, <3>2
    <3>4. x \in Int /\ y \in Int /\ z \in Int /\ x <= y /\ y <= z
      BY <1>2, <3>2, <3>3, DivOrder
    <3>5. n - 1 = y
      BY <2>0, <3>2, <3>4 DEF blknum
    <3>6. (q - 1) \div CFS_BLK_SIZE \in x..z
      BY <3>1, <3>4, <3>5
    <3>7. (q - 1) \div CFS_BLK_SIZE \in (start \div CFS_BLK_SIZE)..((start + count) \div CFS_BLK_SIZE)
      BY <3>2, <3>6
    <3> QED
      BY <3>1, <3>7 DEF Store!Damaged
  <2>6. CASE n \in 1..l /\ verified(b, i, n) /\ b.count < off
    <3>1. b = disk[i].blks[n] /\ b.count \in 0..CFS_BLK_SIZE
      BY <1>1, <2>0, <2>2, <2>6, RowTypes
    <3>2. b.count < CFS_BLK_SIZE
      <4>1. PICK k : k = b.count
        OBVIOUS
      <4>2. k \in Int /\ k < off /\ off \in Int /\ off <= CFS_BLK_SIZE - 1 /\ CFS_BLK_SIZE \in Int
        BY <2>1, <2>6, <3>1, <4>1
      <4> QED
        BY <4>1, <4>2
    <3>3. n = l
      BY <1>1, <2>0, <2>6, <3>1, <3>2 DEF RowsFull
    <3>4. size = Base(n) + b.count
      <4>1. l > 0
        BY <2>1, <3>3
      <4>2. size = Base(l) + BytesOf(i, l)
        BY <1>1, <1>3, <2>0, <4>1, SizeIs
      <4> QED
        BY <2>6, <3>1, <3>3, <4>2 DEF BytesOf
    <3>5. pos >= size
      <4>1. PICK k, a : k = b.count /\ a = Base(n)
        OBVIOUS
      <4>2. k \in 0..CFS_BLK_SIZE /\ k < off /\ size = a + k /\ a \in Int /\ a + off = pos /\ off \in Int
        BY <2>1, <2>6, <3>1, <3>4, <4>1
      <4> QED
        BY <2>1, <4>2
    <3> QED
      BY <1>4, <1>7, <3>5
  <2> QED
    BY <2>3, <2>4, <2>5, <2>6
<1>9. Store!Told("read", -1) /\ reply'.asked = count
  BY DEF ReadingFails, Store!Told
<1>10. h.obj = i /\ h.pos = start /\ StoreContent[h.obj] = c
  <2>1. h.obj = i /\ h.pos = start
    BY <1>4 DEF Store!At
  <2> QED
    BY <1>3, <2>1
<1>11. /\ h # NULL /\ StoreContent' = StoreContent /\ Store!Told("read", -1)
       /\ \/ reply'.fault
          \/ h.pos + reply'.asked > Len(StoreContent[h.obj]) \/ h.pos = Len(StoreContent[h.obj])
          \/ Store!Damaged(StoreContent[h.obj], h.pos, h.pos + reply'.asked)
       /\ StoreHandles' = StoreHandles
  BY <1>4, <1>5, <1>8, <1>9, <1>10
<1>12. Store!Get(u)
  BY <1>3, <1>11 DEF Store!Get, StoreContent, StoreHandles
<1> QED
  BY <1>1, <1>4, <1>12 DEF Store!SNext, Simulated

\* What a round takes is what the file has at its position: as many bytes as are
\* wanted, or those up to the end of the block, which is the end of the file if the
\* block is not full.
TakenFits(i, pos, left, b, got) ==
  /\ got \in Seq(ByteT) /\ Len(got) <= left /\ pos + Len(got) <= FileSize(i)
  /\ Collected(i, pos, got)
  /\ Len(got) # left /\ b.count < CFS_BLK_SIZE => pos + Len(got) = FileSize(i)

\* That is what a round takes from a block that verifies.
LEMMA TakenBytes ==
  ASSUME FsTypes, RowsFull, NEW i \in Inodes, NEW pos \in Nat, NEW left \in Nat, NEW b,
         blknum(pos) \in 1..Len(disk[i].blks), b = disk[i].blks[blknum(pos)],
         verified(b, i, blknum(pos)), ~(b.count < blkoffset(pos)),
         NEW got, got = Taken(b, blkoffset(pos), left)
  PROVE  TakenFits(i, pos, left, b, got)
<1>0. PICK n, off, l, size, B, k : n = blknum(pos) /\ off = blkoffset(pos) /\ l = Len(disk[i].blks)
        /\ size = FileSize(i) /\ B = CFS_BLK_SIZE /\ k = b.count /\ got = Taken(b, off, left)
  OBVIOUS
<1>1. /\ n \in Nat /\ n >= 1 /\ off \in 0..(B - 1) /\ Base(n) \in Int /\ Base(n) + off = pos /\ l \in Nat
      /\ B \in Nat /\ size \in Nat /\ k \in 0..B /\ k >= off /\ n \in 1..l
  <2>1. /\ n \in Nat /\ n >= 1 /\ off \in 0..(B - 1) /\ Base(n) \in Int /\ Base(n) + off = pos
    BY <1>0, Position
  <2>2. l \in Nat /\ B \in Nat /\ size \in Nat /\ k \in 0..B /\ n \in 1..l
    BY <1>0, RowTypes, SizeIs, CryptoFsAssumption
  <2>3. ~(k < off)
    BY <1>0
  <2>4. k >= off
    BY <2>1, <2>2, <2>3
  <2> QED
    BY <2>1, <2>2, <2>4
<1>2. PICK r : r = IF k - off > left THEN left ELSE k - off
  OBVIOUS
<1>3. r \in Nat /\ r <= left /\ off + r <= k /\ (r # left => off + r = k)
  BY <1>1, <1>2
<1>4. got = [j \in 1..r |-> b.blk[off + j - 1]]
  BY <1>0, <1>2 DEF Taken
<1>5. b \in Blocks /\ b.key = i /\ b.num = n
  BY <1>0, RowTypes DEF verified
<1>6. b.blk \in [Offset -> ByteT] /\ \A o \in Offset : Written(b.blk[o], i, Base(n) + o)
  BY <1>5 DEF Blocks, BlockT, Genuine
<1>7. \A j \in 1..r : off + j - 1 \in Offset
  <2>1. \A j \in 1..r : off + j - 1 \in 0..(B - 1)
    BY <1>1, <1>3
  <2> QED
    BY <1>0, <2>1 DEF Offset
<1>8. got \in [1..r -> ByteT]
  BY <1>4, <1>6, <1>7
<1>9. got \in Seq(ByteT) /\ Len(got) = r
  BY <1>3, <1>8, SeqDef
<1>10. ASSUME NEW j \in 1..r
       PROVE  got[j] = ByteAt(i, pos + j - 1) /\ got[j] # Lost
  <2>1. PICK p, o, a : p = pos + j - 1 /\ o = off + j - 1 /\ a = Base(n)
    OBVIOUS
  <2>2. p \in Nat /\ a <= p /\ p < a + B /\ p - a = o /\ n \in Int
    BY <1>1, <1>3, <2>1
  <2>3. blknum(p) = n /\ blkoffset(p) = o
    BY <1>0, <2>1, <2>2, InBlock
  <2>4. o \in Offset
    BY <1>7, <2>1
  <2>5. ByteAt(i, p) = b.blk[o]
    BY <1>0, <2>3 DEF ByteAt
  <2>6. got[j] = b.blk[o]
    BY <1>4, <2>1
  <2>7. b.blk[o] # Lost
    <3>1. i \in Nat /\ Lost.key = -1
      BY CryptoFsAssumption DEF Lost, Byte
    <3>2. b.blk[o].key = 0 \/ b.blk[o].key = i
      <4>1. PICK x, y : x = b.blk[o] /\ y = Base(n) + o
        OBVIOUS
      <4>2. Written(x, i, y)
        BY <1>6, <2>4, <4>1
      <4>3. x.key = 0 \/ x.key = i
        BY <4>2 DEF Written, Zero, Byte
      <4> QED
        BY <4>1, <4>3
    <3> QED
      BY <3>1, <3>2
  <2> QED
    BY <2>1, <2>5, <2>6, <2>7
<1>11. l > 0 /\ size = Base(l) + BytesOf(i, l) /\ Base(l) <= size /\ Base(l) \in Int
  <2>1. l > 0 /\ l \in Int
    BY <1>1
  <2>2. Base(l) \in Int
    BY <2>1, BaseNext
  <2> QED
    BY <1>0, <2>1, <2>2, SizeIs
<1>12. n = l => size = Base(n) + k
  BY <1>0, <1>11 DEF BytesOf
<1>13. n < l => Base(n) + B <= Base(l)
  <2>1. n \in Int /\ l \in Int
    BY <1>1
  <2> QED
    BY <1>0, <2>1, BaseOrder
<1>14. PICK a, e : a = Base(n) /\ e = Base(l)
  OBVIOUS
<1>15. /\ a \in Int /\ a + off = pos /\ e \in Int /\ e <= size
       /\ n = l => size = a + k
       /\ n < l => a + B <= e
  BY <1>1, <1>11, <1>12, <1>13, <1>14
<1>16. pos + r <= size
  BY <1>1, <1>3, <1>15
<1>17. k < B => n = l
  BY <1>0, <1>1 DEF RowsFull
<1>18. r # left /\ k < B => pos + r = size
  BY <1>1, <1>3, <1>15, <1>17
<1>19. Collected(i, pos, got)
  <2>0. size \in Nat
    BY <1>1
  <2>1. \A j \in 1..r : pos + j <= size
    BY <1>3, <1>16, <2>0
  <2> QED
    BY <1>0, <1>9, <1>10, <2>1 DEF Collected
<1> QED
  BY <1>0, <1>3, <1>9, <1>16, <1>18, <1>19 DEF TakenFits

\* A round that succeeds goes on, or answers with the bytes of the file.
LEMMA ReadGets ==
  ASSUME StoreHyp, StoreInv, Kept, NEW u \in UserFds, NEW i \in Inodes, NEW pos \in 0..MAX_POS,
         NEW start \in 0..MAX_POS, NEW count \in Nat, NEW buf \in Seq(ByteT), NEW b,
         Reading(u, i, pos, start, count, buf, b), NEW got, got = Taken(b, blkoffset(pos), count - Len(buf)),
         NEW new, new = buf \o got, ReadingGets(u, i, pos, count, b, got, new)
  PROVE  Simulated
<1>1. /\ FsHyp /\ FsInv /\ FsTypes /\ RowsFull /\ call # NULL /\ call.u = u /\ files[u] # NULL /\ files[u].key = i
      /\ call.op = "read" /\ call.start = start /\ call.count = count /\ disk' = disk /\ ReadOK
  BY DEF StoreHyp, StoreInv, FsInv, Reading, WriteOK
<1>2. PICK k, r, size, c, h : k = Len(buf) /\ r = Len(got) /\ size = FileSize(i) /\ c = Content(i) /\ h = StoreHandles[u]
  OBVIOUS
<1>3. pos \in Nat /\ start \in Nat /\ k \in Nat /\ size \in Nat /\ pos = start + k /\ k <= count /\ count - k \in Nat
  <2>1. pos \in Nat /\ start \in Nat /\ k \in Nat /\ size \in Nat
    BY <1>1, <1>2, SizeIs, CryptoFsAssumption
  <2>2. pos = start + k /\ k <= count
    BY <1>2 DEF Reading
  <2> QED
    BY <2>1, <2>2
<1>4. \A j \in 1..k : start + j <= size /\ buf[j] = ByteAt(i, start + j - 1) /\ buf[j] # Lost
  BY <1>2 DEF Reading, Collected
<1>5. /\ blknum(pos) \in 1..Len(disk[i].blks) /\ b = disk[i].blks[blknum(pos)]
      /\ verified(b, i, blknum(pos)) /\ ~(b.count < blkoffset(pos))
  <2>1. verified(b, i, blknum(pos)) /\ ~(b.count < blkoffset(pos))
    BY DEF ReadingGets
  <2>2. b # Eof
    BY <2>1, VerifiedBlock
  <2> QED
    BY <2>1, <2>2 DEF Reading
<1>6. /\ got \in Seq(ByteT) /\ r \in Nat /\ r <= count - k /\ pos + r <= size
      /\ \A j \in 1..r : got[j] = ByteAt(i, pos + j - 1) /\ got[j] # Lost
      /\ r # count - k /\ b.count < CFS_BLK_SIZE => pos + r = size
  <2>1. PICK left : left = count - Len(buf)
    OBVIOUS
  <2>2. left \in Nat /\ left = count - k /\ got = Taken(b, blkoffset(pos), left)
    BY <1>2, <1>3, <2>1
  <2>3. TakenFits(i, pos, left, b, got)
    BY <1>1, <1>3, <1>5, <2>2, TakenBytes
  <2>4. Len(got) \in Nat
    BY <2>3 DEF TakenFits
  <2> QED
    BY <1>2, <2>2, <2>3, <2>4 DEF TakenFits, Collected
<1>7. /\ new \in Seq(ByteT) /\ Len(new) = k + r
      /\ \A j \in 1..(k + r) : new[j] = IF j <= k THEN buf[j] ELSE got[j - k]
  <2> HIDE DEF ByteT
  <2>1. /\ buf \o got \in Seq(ByteT) /\ Len(buf \o got) = Len(buf) + Len(got)
        /\ \A j \in 1..(Len(buf) + Len(got)) :
             (buf \o got)[j] = IF j <= Len(buf) THEN buf[j] ELSE got[j - Len(buf)]
    BY <1>6, ConcatProperties, Zenon
  <2> QED
    BY <1>2, <2>1
<1>8. ASSUME NEW j \in 1..(k + r)
      PROVE  start + j <= size /\ new[j] = ByteAt(i, start + j - 1) /\ new[j] # Lost
  <2>1. j \in Nat /\ j >= 1 /\ j <= k + r
    BY <1>3, <1>6
  <2>2. CASE j <= k
    <3>1. j \in 1..k
      BY <1>3, <2>1, <2>2
    <3> QED
      BY <1>4, <1>7, <2>2, <3>1
  <2>3. CASE ~(j <= k)
    <3>1. PICK m : m = j - k
      OBVIOUS
    <3>2. m \in 1..r /\ pos + m - 1 = start + j - 1 /\ start + j <= size
      BY <1>3, <1>6, <2>1, <2>3, <3>1
    <3>3. new[j] = got[m]
      BY <1>7, <2>3, <3>1
    <3>4. got[m] = ByteAt(i, pos + m - 1) /\ got[m] # Lost
      BY <1>6, <3>2
    <3> QED
      BY <3>2, <3>3, <3>4
  <2> QED
    BY <2>2, <2>3
<1>9. PICK len : len = k + r
  OBVIOUS
<1>10. len \in Nat /\ len <= count /\ start + len = pos + r /\ start + len <= size /\ Len(new) = len
       /\ (r = count - k <=> len = count)
  BY <1>3, <1>6, <1>7, <1>9
<1>11. h = Store!At(i, start) /\ h # NULL /\ StoreContent' = StoreContent /\ RowsFull'
  BY <1>2, ReadingHandle
<1>12. h.obj = i /\ h.pos = start /\ StoreContent[h.obj] = c
  <2>1. h.obj = i /\ h.pos = start
    BY <1>11 DEF Store!At
  <2> QED
    BY <1>2, <2>1 DEF StoreContent
<1>13. /\ files'[u].filepos = start + len /\ files'[u].key = i /\ files'[u] # NULL
       /\ \A v \in UserFds : v # u => files'[v] = files[v]
  <2>1. PICK p : p = pos + r
    OBVIOUS
  <2>2. files' = [files EXCEPT ![u].filepos = p]
    BY <1>2, <2>1 DEF ReadingGets
  <2>3. \A v \in UserFds : v # u => files'[v] = files[v]
    BY <1>1, <2>2 DEF FsTypes
  <2>4. files[u] \in HandleT /\ files'[u] = [files[u] EXCEPT !.filepos = p]
    BY <1>1, <2>2 DEF FsTypes
  <2>5. files'[u].filepos = p /\ files'[u].key = i
    BY <1>1, <2>4 DEF HandleT
  <2>6. files'[u] # NULL
    BY <1>1 DEF Kept
  <2> QED
    BY <1>10, <2>1, <2>3, <2>5, <2>6
<1>14. Len(c) = size /\ c \in Seq(ByteT) /\ \A q \in 1..size : c[q] = ByteAt(i, q - 1)
  <2>1. c = [q \in 1..size |-> ByteAt(i, q - 1)]
    BY <1>2 DEF Content
  <2>2. ASSUME NEW q \in 1..size PROVE ByteAt(i, q - 1) \in ByteT
    <3>1. PICK p : p = q - 1
      OBVIOUS
    <3>2. p \in Nat /\ p < FileSize(i)
      BY <1>2, <1>3, <3>1
    <3>3. blknum(p) \in 1..Len(disk[i].blks) /\ blkoffset(p) \in Offset
      BY <1>1, <3>2, InFile, Position
    <3>4. disk[i].blks[blknum(p)] \in Blocks
      BY <1>1, <3>3, RowTypes
    <3>5. disk[i].blks[blknum(p)].blk[blkoffset(p)] \in ByteT
      BY <3>3, <3>4 DEF Blocks, BlockT
    <3>6. Lost \in ByteT
      BY DEF Lost, Byte, ByteT
    <3> QED
      BY <3>1, <3>5, <3>6 DEF ByteAt
  <2>3. c \in [1..size -> ByteT]
    BY <2>1, <2>2
  <2> QED
    BY <1>3, <2>1, <2>3, SeqDef
<1>15. CASE Len(new) = count \/ b.count < CFS_BLK_SIZE
  <2>1. /\ reply'.op = "read" /\ reply'.ret = len /\ reply'.asked = count /\ reply'.data = new /\ call' = NULL
    BY <1>10, <1>15 DEF ReadingGets
  <2>2. len = IF start + count > size THEN size - start ELSE count
    BY <1>3, <1>6, <1>10, <1>15
  <2>3. new = SubSeq(c, start + 1, start + len)
    <3>1. PICK t : t = SubSeq(c, start + 1, start + len)
      OBVIOUS
    <3>2. start + 1 \in Nat /\ start + len \in Nat /\ start + len <= Len(c) /\ start + 1 >= 1 /\ (start + len) - (start + 1) + 1 = len
      BY <1>3, <1>10, <1>14
    <3>3. t \in Seq(ByteT) /\ Len(t) = len /\ \A j \in 1..len : t[j] = c[start + j]
      BY <1>3, <1>10, <1>14, <3>1, <3>2
    <3>4. ASSUME NEW j \in 1..len PROVE t[j] = new[j]
      <4>1. start + j \in 1..size /\ j \in 1..(k + r)
        BY <1>3, <1>9, <1>10
      <4>2. c[start + j] = ByteAt(i, start + j - 1)
        BY <1>14, <4>1
      <4> QED
        BY <1>8, <3>3, <4>1, <4>2
    <3> QED
      BY <1>7, <1>10, <3>1, <3>3, <3>4, SeqEqual
  <2>4. \A j \in 1..len : c[start + j] # Lost
    <3>1. SUFFICES ASSUME NEW j \in 1..len PROVE c[start + j] # Lost
      OBVIOUS
    <3>2. start + j \in 1..size /\ j \in 1..(k + r)
      BY <1>3, <1>9, <1>10
    <3>3. c[start + j] = ByteAt(i, start + j - 1)
      BY <1>14, <3>2
    <3> QED
      BY <1>8, <3>2, <3>3
  <2>5. StoreHandles' = [StoreHandles EXCEPT ![u] = Store!At(i, start + len)]
    <3>1. Handle(u)' = Store!At(i, start + len)
      BY <1>13, <2>1, HandleRests DEF Resting, Store!At
    <3> QED
      BY <1>1, <1>13, <2>1, <3>1, HandleReplaced
  <2>6. Store!Told("read", len)
    BY <2>1 DEF Store!Told
  <2> DEFINE m == Store!Available(StoreContent[h.obj], h.pos, reply'.asked)
  <2>7. m = len
    BY <1>12, <1>14, <2>1, <2>2 DEF Store!Available
  <2>8. /\ h # NULL /\ StoreContent' = StoreContent
        /\ Store!Told("read", m)
        /\ reply'.data = SubSeq(StoreContent[h.obj], h.pos + 1, h.pos + m)
        /\ \A j \in 1..m : StoreContent[h.obj][h.pos + j] # Lost
        /\ StoreHandles' = [StoreHandles EXCEPT ![u] = Store!At(h.obj, h.pos + m)]
    <3> HIDE DEF m
    <3> QED
      BY <1>11, <1>12, <2>1, <2>3, <2>4, <2>5, <2>6, <2>7
  <2>9. Store!Get(u)
    BY <1>2, <2>8 DEF Store!Get, StoreContent, StoreHandles
  <2> QED
    BY <1>11, <2>1, <2>9 DEF Store!SNext, Simulated
<1>16. CASE ~(Len(new) = count \/ b.count < CFS_BLK_SIZE)
  <2>1. call' = [call EXCEPT !.buf = new] /\ reply' = reply
    BY <1>16 DEF ReadingGets
  <2>2. /\ call' \in [op : {"read"}, u : UserFds, start : 0..MAX_POS, count : Nat, buf : Seq(ByteT)]
        /\ call'.u = u /\ call'.buf = new /\ call'.start = start /\ call'.op = "read" /\ call'.count = count
    BY <1>1, <1>7, <2>1 DEF ReadOK
  <2>3. call' # NULL
    BY <2>2 DEF StoreHyp
  <2>4. Handle(u)' = h
    <3>1. Handle(u)' = Store!At(i, start)
      BY <1>13, <2>2, <2>3, HandleCalls DEF Store!At
    <3> QED
      BY <1>11, <3>1
  <2>5. StoreHandles' = StoreHandles
    <3>1. StoreHandles' = [StoreHandles EXCEPT ![u] = h]
      BY <1>1, <1>13, <2>2, <2>4, HandleReplaced
    <3> QED
      BY <1>2, <3>1 DEF StoreHandles
  <2>6. ReadFits'
    <3>1. \A p : FileSize(i)' = FileSize(i) /\ ByteAt(i, p)' = ByteAt(i, p)
      BY <1>1, OtherBytes
    <3>2. Len(new) < count
      BY <1>10, <1>16
    <3>3. Collected(i, start, new)'
      BY <1>2, <1>7, <1>8, <3>1 DEF Collected
    <3>4. files'[call'.u].key = i /\ call'.start = start /\ call'.buf = new /\ (Len(new) = 0 \/ Len(new) < call'.count)
      BY <1>13, <2>2, <3>2
    <3> QED
      BY <3>3, <3>4, ReadFitsNext
  <2> QED
    BY <1>11, <2>1, <2>2, <2>5, <2>6 DEF Simulated, Store!svars, StoreContent, StoreHandles
<1> QED
  BY <1>15, <1>16

\* A round of fs_read.
LEMMA ReadSimulated ==
  ASSUME StoreHyp, StoreInv, fs_read
  PROVE  Simulated
<1>0. Kept
  BY ReadStep DEF StoreHyp, StoreInv
<1>1. PICK u \in UserFds, i \in Inodes, pos \in 0..MAX_POS, start \in 0..MAX_POS, count \in Nat, buf \in Seq(ByteT) :
      \E b :
        /\ Reading(u, i, pos, start, count, buf, b)
        /\ \/ ReadingFails(u, i, pos, start, count, b)
           \/ LET got == Taken(b, blkoffset(pos), count - Len(buf))
              IN  ReadingGets(u, i, pos, count, b, got, buf \o got)
  BY ReadingIs
<1>2. PICK b :
        /\ Reading(u, i, pos, start, count, buf, b)
        /\ \/ ReadingFails(u, i, pos, start, count, b)
           \/ LET got == Taken(b, blkoffset(pos), count - Len(buf))
              IN  ReadingGets(u, i, pos, count, b, got, buf \o got)
  BY <1>1
<1>3. PICK got, new : got = Taken(b, blkoffset(pos), count - Len(buf)) /\ new = buf \o got
  OBVIOUS
<1>4. ReadingFails(u, i, pos, start, count, b) \/ ReadingGets(u, i, pos, count, b, got, new)
  BY <1>2, <1>3
<1> QED
  BY <1>0, <1>2, <1>3, <1>4, ReadFails, ReadGets

-----------------------------------------------------------------------------
\* Every step of careful trustlets is one of StoredFile.
LEMMA StoreStep ==
  ASSUME StoreHyp, Careful, StoreInv, [Next]_vars
  PROVE  StoreInv' /\ [Store!SNext]_(Store!svars)
<1>1. FsHyp /\ FsInv /\ Pairs
  BY DEF StoreHyp, StoreInv
<1>2. FsInv' /\ Pairs'
  BY <1>1, FsStep DEF RestartNext
<1>3. CASE UNCHANGED vars
  <2>1. dir' = dir /\ disk' = disk /\ fds' = fds /\ files' = files /\ call' = call /\ reply' = reply
    BY <1>3 DEF vars
  <2>2. StoreContent' = StoreContent /\ StoreHandles' = StoreHandles
    BY <2>1, SameContent DEF SameBlocks, StoreHandles, Handle
  <2>3. RowsFull' = RowsFull /\ WriteFits' = WriteFits /\ ReadFits' = ReadFits
    BY <2>1 DEF RowsFull, WriteFits, ReadFits, Collected, FileSize, BytesOf, ByteAt, verified, blkoffset, blknum
  <2>4. StoreInv'
    BY <1>2, <2>1, <2>3 DEF StoreInv
  <2> QED
    BY <2>1, <2>2, <2>4 DEF Store!svars, StoreContent, StoreHandles
<1>4. ASSUME Next PROVE Simulated
  <2>1. ASSUME NEW f \in Files, swi_open(f) PROVE Simulated
    BY <2>1, OpenSimulated
  <2>2. ASSUME NEW f \in Files, fs_remove(f) PROVE Simulated
    <3>1. call = NULL /\ call' = NULL /\ SameBlocks /\ files' = files /\ reply'.op = "remove" /\ reply'.ret = 0
      BY <2>2 DEF fs_remove, SameBlocks, Answer
    <3> QED
      BY <3>1, Unseen
  <2>3. ASSUME NEW u \in UserFds, swi_close(u) PROVE Simulated
    BY <2>3, CloseSimulated
  <2>4. ASSUME NEW u \in UserFds, swi_fstat(u) PROVE Simulated
    BY <2>4, StatSimulated
  <2>5. ASSUME NEW u \in UserFds, NEW o \in Offsets, swi_lseek(u, o) PROVE Simulated
    BY <2>5, SeekSimulated
  <2>6. ASSUME NEW u \in UserFds, NEW n \in Lengths, NEW v \in Versions, swi_write(u, n, v) PROVE Simulated
    BY <1>2, <2>6, WriteBeginSimulated
  <2>7. ASSUME NEW u \in UserFds, NEW n \in Counts, swi_read(u, n) PROVE Simulated
    BY <1>2, <2>7, ReadBeginSimulated
  <2>8. ASSUME swi_open_refused PROVE Simulated
    <3>1. call = NULL /\ call' = NULL /\ SameBlocks /\ files' = files /\ reply'.op = "open" /\ reply'.ret = -1
      BY <2>8 DEF swi_open_refused, SameBlocks, Answer
    <3> QED
      BY <3>1, Unseen
  <2>9. ASSUME fs_write PROVE Simulated
    BY <1>2, <2>9, WriteSimulated
  <2>10. ASSUME fs_read PROVE Simulated
    BY <2>10, ReadSimulated
  <2>11. ASSUME power_off PROVE Simulated
    BY <2>11, CrashSimulated
  <2> QED
    BY <1>4, <2>1, <2>2, <2>3, <2>4, <2>5, <2>6, <2>7, <2>8, <2>9, <2>10, <2>11 DEF Next
<1>5. ASSUME Next PROVE StoreInv' /\ [Store!SNext]_(Store!svars)
  BY <1>2, <1>4, <1>5 DEF Simulated, StoreInv
<1> QED
  BY <1>3, <1>5

\* For files and blocks of any size, any number of files and descriptors, and
\* requests that fail at any point, those that the daemon hides as the end of the
\* file (secure_fs.c:203) included: what trustlets see that append to their files
\* or overwrite them up to the end of a block is what StoredFile promises, a
\* sequence of bytes with a position, in which lost bytes are never read as data,
\* and a hidden read error costs what is before a write in its block
\* (fs.c: fs_read, fs_write, fs_lseek, fs_fstat; swi_newlib.c).
THEOREM FilesImplementStore ==
  ASSUME StoreHyp, Careful
  PROVE  Spec => ImplementsStoredFile
<1>1. Init => Store!SInit /\ StoreInv
  <2>1. SUFFICES ASSUME Init PROVE Store!SInit /\ StoreInv
    OBVIOUS
  <2>2. FsInv /\ Pairs /\ call = NULL
    BY <2>1, FsInit DEF StoreHyp, Init
  <2>3. \A i \in Inodes : disk[i].blks = <<>>
    BY <2>1 DEF Init
  <2>4. \A i \in Inodes : Content(i) = <<>>
    <3>1. SUFFICES ASSUME NEW i \in Inodes PROVE Content(i) = <<>>
      OBVIOUS
    <3>2. FileSize(i) = 0
      BY <2>3 DEF FileSize
    <3>3. Content(i) = [q \in 1..0 |-> ByteAt(i, q - 1)]
      BY <3>2 DEF Content
    <3> QED
      BY <3>3
  <2>5. StoreContent = [i \in Inodes |-> <<>>]
    BY <2>4 DEF StoreContent
  <2>6. StoreHandles = [u \in UserFds |-> NULL]
    BY <2>1 DEF StoreHandles, Handle, Init
  <2>7. reply.op = "none"
    BY <2>1 DEF Init, Answer
  <2>8. RowsFull
    BY <2>3 DEF RowsFull
  <2>9. Store!SInit
    BY <2>5, <2>6, <2>7 DEF Store!SInit, StoreContent, StoreHandles
  <2> QED
    BY <2>2, <2>8, <2>9 DEF StoreInv
<1>2. StoreInv /\ [Next]_vars => StoreInv' /\ [Store!SNext]_(Store!svars)
  BY StoreStep
<1> QED
  BY <1>1, <1>2, PTL DEF Spec, ImplementsStoredFile, Store!SSpec

-----------------------------------------------------------------------------
(* The RSA trustlet on that file system. *)

\* The fields of a command.
Fields == {"cmd", "s", "file", "key", "at", "fd", "line", "fault", "ok"}

\* A command in progress: the session it is for waits for it, the writing
\* stages are those of a creation, and a load that went well has left numbers in
\* the context that rsa_check_privkey accepts.
TaInv ==
  ta # NULL =>
    /\ DOMAIN ta = Fields
    /\ ta.s \in Sessions /\ object[ta.s] = Opened
    /\ ta.at \in {"write", "written"} => ta.cmd = "new"
    /\ ta.cmd = "load" /\ ta.ok => Applied(ta.s) /\ rsa_check_privkey(rsa[ta.s])

\* The engine's objects and the trustlet's contexts, with a command between
\* them.
RsaInv ==
  /\ DOMAIN rsa = Sessions /\ DOMAIN object = Sessions
  /\ TaInv /\ ObjectKeyMatches

\* A step of a command that leaves the contexts of the sessions alone, and
\* reports no success of a load that there was not, keeps the invariant.
LEMMA TaKept ==
  ASSUME RsaInv, RsaAssumption, ta # NULL, DOMAIN ta' = Fields, ta'.s = ta.s, ta'.cmd = ta.cmd,
         ta'.at \in {"write", "written"} => ta.cmd = "new",
         ta'.cmd = "load" /\ ta'.ok => ta.ok,
         UNCHANGED <<rsa, object>>
  PROVE  RsaInv'
BY DEF RsaInv, TaInv, ObjectKeyMatches, Applied, rsa_check_privkey

\* Every step of the trustlet, of the engine and of the file system under them
\* keeps it.  Only readKey (rsa_trustlet/main.c) can report that a load went
\* well, and rsa_check_privkey is what makes the first numbers one key's then.
LEMMA RsaNext ==
  ASSUME RsaInv, RNext
  PROVE  RsaInv'
<1>0. /\ Keys \subseteq Nat \ {0} /\ 1 \in 1..CHECKED /\ Opened \notin Keys /\ None \notin Keys /\ Left \notin Keys
  BY RsaAssumption DEF Opened, None, Left
<1>1. ASSUME NEW s \in Sessions, tz_openSession(s) PROVE RsaInv'
  BY <1>0, <1>1 DEF tz_openSession, TA_OpenSessionEntryPoint, RsaInv, TaInv, ObjectKeyMatches, Applied, rsa_check_privkey
<1>2. ASSUME NEW s \in Sessions, tz_closeSession(s) PROVE RsaInv'
  BY <1>0, <1>2 DEF tz_closeSession, TA_CloseSessionEntryPoint, RsaInv, TaInv, ObjectKeyMatches, Applied, rsa_check_privkey
<1>3. ASSUME NEW s \in Sessions, NEW f \in Files, object[s] = Opened, TA_readKeyPair(s, f) PROVE RsaInv'
  BY <1>0, <1>3 DEF TA_readKeyPair, Command, Fields, RsaInv, TaInv, ObjectKeyMatches, Applied, rsa_check_privkey
<1>4. ASSUME NEW s \in Sessions, NEW f \in Files, NEW k \in Keys, object[s] = Opened, TA_createKeyPair(s, f, k)
      PROVE  RsaInv'
  <2>1. ta' = Command("new", s, f, k) /\ UNCHANGED object /\ rsa' = [rsa EXCEPT ![s] = Whole(k)]
    BY <1>4 DEF TA_createKeyPair
  <2>2. TaInv'
    BY <1>4, <2>1 DEF Command, Fields, TaInv
  <2>3. ObjectKeyMatches'
    BY <1>0, <1>4, <2>1 DEF RsaInv, ObjectKeyMatches, Applied
  <2> QED
    BY <2>1, <2>2, <2>3 DEF RsaInv
<1>5. CASE key_open
  <2>1. /\ ta # NULL /\ ta.at = "open" /\ UNCHANGED <<rsa, object>>
        /\ \/ ta' = [ta EXCEPT !.at = "done", !.ok = FALSE, !.fault = @ \/ reply'.fault]
           \/ ta' = [ta EXCEPT !.at = IF ta.cmd = "new" THEN "write" ELSE "fstat", !.fd = reply'.ret]
    BY <1>5 DEF key_open, Ready, Finish
  <2>2. DOMAIN ta = Fields
    BY <2>1 DEF RsaInv, TaInv
  <2> QED
    BY <2>1, <2>2, TaKept, RsaAssumption DEF Fields
<1>6. CASE write_mpi_fd
  <2>1. ta # NULL /\ ta.at = "write" /\ UNCHANGED <<rsa, object>> /\ ta' = [ta EXCEPT !.at = "written"]
    BY <1>6 DEF write_mpi_fd, Ready
  <2>2. DOMAIN ta = Fields /\ ta.cmd = "new"
    BY <2>1 DEF RsaInv, TaInv
  <2> QED
    BY <2>1, <2>2, TaKept, RsaAssumption DEF Fields
<1>7. CASE writeKey
  <2>1. /\ ta # NULL /\ ta.at = "written" /\ UNCHANGED <<rsa, object>>
        /\ \/ ta' = [[ta EXCEPT !.fault = @ \/ reply.fault] EXCEPT !.at = "close"]
           \/ ta' = [[ta EXCEPT !.fault = @ \/ reply.fault] EXCEPT !.at = "close", !.ok = TRUE]
           \/ ta' = [[ta EXCEPT !.fault = @ \/ reply.fault] EXCEPT !.at = "write", !.line = @ + 1]
    BY <1>7 DEF writeKey, Ready
  <2>2. DOMAIN ta = Fields /\ ta.cmd = "new"
    BY <2>1 DEF RsaInv, TaInv
  <2> QED
    BY <2>1, <2>2, TaKept, RsaAssumption DEF Fields
<1>8. CASE readKey_fstat \/ readKey_read
  <2>1. /\ ta # NULL /\ UNCHANGED <<rsa, object>>
        /\ \/ ta' = [ta EXCEPT !.at = "read", !.fault = reply'.fault]
           \/ ta' = [ta EXCEPT !.at = "close", !.fault = reply'.fault]
           \/ ta' = [ta EXCEPT !.at = "parse"]
    BY <1>8 DEF readKey_fstat, readKey_read, Ready
  <2>2. DOMAIN ta = Fields
    BY <2>1 DEF RsaInv, TaInv
  <2> QED
    BY <2>1, <2>2, TaKept, RsaAssumption DEF Fields
<1>9. CASE readKey
  <2>0. ta # NULL /\ DOMAIN ta = Fields /\ ta.s \in Sessions /\ object[ta.s] = Opened /\ UNCHANGED object
    BY <1>9 DEF readKey, Ready, RsaInv, TaInv
  <2>1. CASE ta' = [ta EXCEPT !.at = "close", !.fault = reply.fault] /\ UNCHANGED rsa
    BY <2>0, <2>1, TaKept, RsaAssumption DEF Fields
  <2>2. CASE /\ rsa' = [rsa EXCEPT ![ta.s] = read_mpis(@, reply.data)]
             /\ ta' = [ta EXCEPT !.at = "close",
                                 !.ok = Len(LineEnds(reply.data)) >= PARTS /\ rsa_check_privkey(rsa'[ta.s])]
    <3> DEFINE c == rsa'[ta.s]
               ok == Len(LineEnds(reply.data)) >= PARTS /\ rsa_check_privkey(c)
    <3>1. c = read_mpis(rsa[ta.s], reply.data) /\ DOMAIN rsa' = Sessions
          /\ \A s \in Sessions : s # ta.s => rsa'[s] = rsa[s]
      BY <2>0, <2>2 DEF RsaInv
    <3>2. ok => c.len /\ rsa_check_privkey(c)
      <4>1. c.len = (rsa[ta.s].len \/ Len(LineEnds(reply.data)) >= PARTS)
        <5> DEFINE parts == c.parts
                   len == rsa[ta.s].len \/ Len(LineEnds(reply.data)) >= PARTS
        <5>1. c = [parts |-> parts, len |-> len]
          BY <3>1 DEF read_mpis
        <5> HIDE DEF parts, len, c
        <5>2. c.len = len
          BY <5>1
        <5> QED
          BY <5>2 DEF len
      <4> QED
        BY <4>1
    <3>3. ta'.s = ta.s /\ ta'.cmd = ta.cmd /\ ta'.at = "close" /\ ta'.ok = ok /\ DOMAIN ta' = Fields
      BY <2>0, <2>2 DEF Fields
    <3>4. TaInv'
      <4>1. Applied(ta.s)' = c.len /\ rsa_check_privkey(rsa[ta.s])' = rsa_check_privkey(c)
        BY <3>3 DEF Applied, rsa_check_privkey
      <4> QED
        BY <2>0, <3>2, <3>3, <4>1 DEF TaInv
    <3>5. ObjectKeyMatches'
      BY <1>0, <2>0, <3>1 DEF RsaInv, ObjectKeyMatches, Applied
    <3> QED
      BY <2>0, <3>1, <3>4, <3>5 DEF RsaInv
  <2> QED
    BY <1>9, <2>1, <2>2 DEF readKey
<1>10. CASE key_close
  <2>1. /\ ta # NULL /\ UNCHANGED <<rsa, object>>
        /\ ta' = [ta EXCEPT !.at = "done", !.ok = ta.ok, !.fault = @ \/ reply'.fault]
    BY <1>10 DEF key_close, Ready, Finish
  <2>2. DOMAIN ta = Fields
    BY <2>1 DEF RsaInv, TaInv
  <2> QED
    BY <2>1, <2>2, TaKept, RsaAssumption DEF Fields
<1>11. CASE file_step
  BY <1>11 DEF file_step, rvars, RsaInv, TaInv, ObjectKeyMatches, Applied, rsa_check_privkey
<1>12. CASE tz_rsa_new_key_done
  BY <1>0, <1>12 DEF tz_rsa_new_key_done, Ready, TA_CloseSessionEntryPoint, RsaInv, TaInv, ObjectKeyMatches, Applied, rsa_check_privkey
<1>13. CASE tz_loadKey_done
  <2>1. /\ ta # NULL /\ ta.cmd = "load" /\ ta' = NULL /\ UNCHANGED rsa
        /\ object' = [object EXCEPT ![ta.s] = IF ta.ok THEN rsa[ta.s].parts[1] ELSE Left]
    BY <1>13 DEF tz_loadKey_done, Ready
  <2>2. ta.s \in Sessions /\ (ta.ok => Applied(ta.s) /\ rsa_check_privkey(rsa[ta.s]))
    BY <2>1 DEF RsaInv, TaInv
  <2>3. ta.ok => \A i \in 1..CHECKED : rsa[ta.s].parts[i] = rsa[ta.s].parts[1]
    BY <1>0, <2>2 DEF rsa_check_privkey
  <2>4. object'[ta.s] \in Keys => ta.ok /\ object'[ta.s] = rsa[ta.s].parts[1]
    BY <1>0, <2>1, <2>2 DEF RsaInv
  <2>5. \A s \in Sessions : s # ta.s => object'[s] = object[s]
    BY <2>1 DEF RsaInv
  <2>6. ObjectKeyMatches'
    <3>1. SUFFICES ASSUME NEW s \in Sessions, object'[s] \in Keys
                   PROVE  rsa[s].len /\ \A i \in 1..CHECKED : rsa[s].parts[i] = object'[s]
      BY <2>1 DEF ObjectKeyMatches, Applied
    <3>2. CASE s = ta.s
      BY <2>2, <2>3, <2>4, <3>1, <3>2 DEF Applied
    <3>3. CASE s # ta.s
      BY <2>5, <3>1, <3>3 DEF RsaInv, ObjectKeyMatches, Applied
    <3> QED
      BY <3>2, <3>3
  <2> QED
    BY <2>1, <2>6 DEF RsaInv, TaInv
<1>14. CASE restart
  BY <1>0, <1>14 DEF restart, RsaInv, TaInv, ObjectKeyMatches, Applied, rsa_check_privkey
<1> QED
  BY <1>1, <1>2, <1>3, <1>4, <1>5, <1>6, <1>7, <1>8, <1>9, <1>10, <1>11, <1>12, <1>13, <1>14 DEF RNext

\* For any number of sessions, keys and files, keys of any number of lines, and
\* a file system that fails at any request, seen or not: the numbers of an RSA
\* object that rsa_check_privkey (tropicSSL rsa.c) looks at are those of the key
\* whose public part the engine handed out with the object, for as long as the
\* object is there (eng_main.c: tz_loadKey).  Nothing is said of DP, DQ and QP.
THEOREM ObjectKeyHolds == RSpec => []ObjectKeyMatches
<1>1. RInit => RsaInv
  BY RsaAssumption DEF RInit, RsaInit, RsaInv, TaInv, ObjectKeyMatches, None
<1>2. RsaInv /\ [RNext]_<<vars, rvars>> => RsaInv'
  <2>1. ASSUME RsaInv, UNCHANGED <<vars, rvars>> PROVE RsaInv'
    BY <2>1 DEF rvars, RsaInv, TaInv, ObjectKeyMatches, Applied, rsa_check_privkey
  <2> QED
    BY <2>1, RsaNext
<1>3. RsaInv => ObjectKeyMatches
  BY DEF RsaInv
<1> QED
  BY <1>1, <1>2, <1>3, PTL DEF RSpec

-----------------------------------------------------------------------------
(* The sample trustlet. *)

\* The master key in a store was made, and its ciphertext has the PIN it was
\* sealed under.
SealedStore(st) ==
  /\ st.crypted_key.text <= masters
  /\ sealed[st.crypted_key.text] = st.crypted_key.key

\* The encrypter's pack has the IV its text was encrypted with, and the text is
\* a message, unless the pack is one not filled.
PackFits ==
  pack.data.key # Sample!Junk => pack.iv = pack.data.iv /\ pack.data.text \in Messages

\* What was shown last for the key of the pack is the message in the pack.
ShownFits ==
  shown.ok =>
    /\ shown.key # Sample!Junk
    /\ pack.data.key = shown.key => shown.text = pack.data.text /\ shown.text \in Messages

\* The invariant of the sample trustlet and the encrypter.
PinInv ==
  /\ masters \in 0..MAX_KEYS /\ DOMAIN sealed = 1..MAX_KEYS
  /\ DOMAIN file = KeyIds
  /\ \A k \in KeyIds : file[k] # NULL => file[k] \in Sample!Stores /\ SealedStore(file[k])
  /\ cmd # NULL =>
       /\ cmd \in Sample!Commands /\ SealedStore(cmd.store) /\ PackFits
       /\ cmd.op = "encrypt" => cmd.text \in Messages /\ pack.data.key = Sample!Junk
  /\ pack # NULL => PackFits
  /\ ShownFits

\* A new master key has a number of its own, so the stores of others keep their
\* PINs.
LEMMA PinNew ==
  ASSUME PinInv, NEW k \in KeyIds, Sample!initialize_key(k)
  PROVE  PinInv'
<1>1. PICK pin \in Pins, iv \in IVs : Sample!sample_new_key(k, pin, iv)
  BY DEF Sample!initialize_key
<1>2. UNCHANGED <<cmd, pack, shown, typed>> /\ cmd = NULL
  BY DEF Sample!initialize_key
<1> DEFINE n == masters + 1
           new == [iv |-> iv, crypted_key |-> [key |-> pin, iv |-> iv, text |-> n], hash |-> n]
<1>3. /\ masters \in Nat /\ n \in 1..MAX_KEYS /\ MAX_KEYS \in Nat /\ masters' = n
      /\ sealed' = [sealed EXCEPT ![n] = pin]
  BY <1>1, TrustletsAssumption DEF PinInv, Sample!sample_new_key, Sample!SampleAssumption
<1>4. DOMAIN sealed' = 1..MAX_KEYS /\ sealed'[n] = pin
  BY <1>3 DEF PinInv
<1>5. ASSUME NEW st \in Sample!Stores, SealedStore(st) PROVE SealedStore(st)'
  <2>1. st.crypted_key.text \in 1..MAX_KEYS
    BY <1>5 DEF Sample!Stores
  <2> QED
    BY <1>3, <1>5, <2>1 DEF SealedStore, PinInv
<1>6. new \in Sample!Stores /\ new.crypted_key.text <= masters' /\ sealed'[new.crypted_key.text] = new.crypted_key.key
  BY <1>3, <1>4 DEF Sample!Stores
<1>7. \/ file' = [file EXCEPT ![k] = new] \/ UNCHANGED file \/ file' = [file EXCEPT ![k] = NULL]
  BY <1>1, <1>3 DEF Sample!sample_new_key, Sample!aes_encrypt
<1> HIDE DEF new, n
<1>8. /\ DOMAIN file' = KeyIds
      /\ \A j \in KeyIds : file'[j] # NULL =>
           /\ file'[j] \in Sample!Stores /\ file'[j].crypted_key.text <= masters'
           /\ sealed'[file'[j].crypted_key.text] = file'[j].crypted_key.key
  BY <1>5, <1>6, <1>7 DEF PinInv, SealedStore
<1>9. PackFits' = PackFits /\ ShownFits' = ShownFits
  BY <1>2 DEF PackFits, ShownFits
<1>10. masters' \in 0..MAX_KEYS
  BY <1>3
<1> QED
  BY <1>2, <1>4, <1>8, <1>9, <1>10 DEF PinInv, SealedStore

\* Steps that leave the key files and the PINs alone.
LEMMA PinKept ==
  ASSUME PinInv, UNCHANGED <<file, masters, sealed>>,
         cmd' # NULL => /\ cmd' \in Sample!Commands /\ SealedStore(cmd'.store) /\ PackFits'
                        /\ cmd'.op = "encrypt" => cmd'.text \in Messages /\ pack'.data.key = Sample!Junk,
         pack' # NULL => PackFits', ShownFits'
  PROVE  PinInv'
BY DEF PinInv, SealedStore

\* enc empties the pack, so nothing that was shown is in it any more.
LEMMA PinEncrypt ==
  ASSUME PinInv, NEW k \in KeyIds, NEW msg \in Messages, Sample!encrypt(k, msg)
  PROVE  PinInv'
<1>1. /\ cmd = NULL /\ UNCHANGED <<file, masters, sealed>>
      /\ pack'.iv = pack'.data.iv /\ pack'.data.key = Sample!Junk
  BY DEF Sample!encrypt, Sample!aes_encrypt
<1>2. PackFits'
  BY <1>1 DEF PackFits
<1>3. CASE /\ Sample!begin("encrypt", k, msg \in Padded, msg)
           /\ shown' = shown
  <2>1. /\ cmd' = [op |-> "encrypt", k |-> k, text |-> msg, store |-> file[k], tries |-> 0]
        /\ file[k] # NULL
    BY <1>3 DEF Sample!begin
  <2>2. file[k] \in Sample!Stores /\ SealedStore(file[k])
    BY <2>1 DEF PinInv
  <2>3. cmd' \in Sample!Commands
    BY <2>1, <2>2, TrustletsAssumption DEF Sample!Commands, Sample!SampleAssumption
  <2>4. ShownFits'
    BY <1>1, <1>3 DEF PinInv, ShownFits
  <2> QED
    BY <1>1, <1>2, <2>1, <2>2, <2>3, <2>4, PinKept
<1>4. CASE shown' = Sample!Nothing /\ UNCHANGED <<cmd, typed>>
  <2>1. ShownFits'
    BY <1>4 DEF ShownFits, Sample!Nothing
  <2> QED
    BY <1>1, <1>2, <1>4, <2>1, PinKept
<1> QED
  BY <1>3, <1>4 DEF Sample!encrypt

\* dec leaves the pack as it is.
LEMMA PinDecrypt ==
  ASSUME PinInv, NEW k \in KeyIds, Sample!decrypt(k)
  PROVE  PinInv'
<1>1. /\ cmd = NULL /\ pack # NULL /\ UNCHANGED <<file, masters, sealed, pack>>
  BY DEF Sample!decrypt
<1>2. PackFits'
  BY <1>1 DEF PinInv, PackFits
<1>3. CASE /\ Sample!begin("decrypt", k, pack.data.text # Sample!LastBlock, Sample!Junk)
           /\ shown' = shown
  <2>1. /\ cmd' = [op |-> "decrypt", k |-> k, text |-> Sample!Junk, store |-> file[k], tries |-> 0]
        /\ file[k] # NULL
    BY <1>3 DEF Sample!begin
  <2>2. file[k] \in Sample!Stores /\ SealedStore(file[k])
    BY <2>1 DEF PinInv
  <2>3. cmd' \in Sample!Commands
    BY <2>1, <2>2, TrustletsAssumption DEF Sample!Commands, Sample!SampleAssumption
  <2>4. ShownFits'
    BY <1>1, <1>3 DEF PinInv, ShownFits
  <2> QED
    BY <1>1, <1>2, <2>1, <2>2, <2>3, <2>4, PinKept
<1>4. CASE shown' = Sample!Nothing /\ UNCHANGED <<cmd, typed>>
  <2>1. ShownFits'
    BY <1>4 DEF ShownFits, Sample!Nothing
  <2> QED
    BY <1>1, <1>2, <1>4, <2>1, PinKept
<1> QED
  BY <1>3, <1>4 DEF Sample!decrypt

\* A round of read_key that comes up with a master key: it is the one of the
\* store, and the PIN is the one it was sealed under.
LEMMA Unsealed ==
  ASSUME PinInv, NEW pin \in Pins, Sample!read_key(pin), Sample!outcome(pin).masterkey # Sample!Junk
  PROVE  /\ Sample!outcome(pin).over
         /\ Sample!outcome(pin).masterkey = cmd.store.crypted_key.text
         /\ sealed[cmd.store.crypted_key.text] = pin
BY DEF Sample!read_key, Sample!outcome, Sample!aes_decrypt, PinInv, SealedStore

\* A round that does not end the loop leaves the command with its store, the IV
\* apart.
LEMMA GoesOn ==
  ASSUME PinInv, NEW pin \in Pins, Sample!read_key(pin), ~Sample!outcome(pin).over
  PROVE  /\ cmd' \in Sample!Commands /\ cmd'.store.crypted_key = cmd.store.crypted_key
         /\ cmd'.op = cmd.op /\ cmd'.text = cmd.text
<1>1. cmd \in Sample!Commands
  BY DEF Sample!read_key, PinInv
<1>2. cmd.tries \in Nat /\ TRIES \in Nat
  BY <1>1, TrustletsAssumption DEF Sample!Commands, Sample!SampleAssumption
<1>3. ~(cmd.tries + 1 > TRIES)
  BY DEF Sample!outcome
<1>4. cmd' = [cmd EXCEPT !.tries = @ + 1, !.store.iv = Sample!LastBlock]
  BY DEF Sample!read_key
<1>5. cmd.tries + 1 \in 0..TRIES
  BY <1>2, <1>3
<1>6. [cmd.store EXCEPT !.iv = Sample!LastBlock] \in Sample!Stores
  BY <1>1 DEF Sample!Commands, Sample!Stores
<1> QED
  BY <1>1, <1>4, <1>5, <1>6 DEF Sample!Commands, Sample!Stores

\* A round of read_key, with what sample_encrypt or sample_decrypt do at its end.
LEMMA PinRead ==
  ASSUME PinInv, NEW pin \in Pins, Sample!read_key(pin)
  PROVE  PinInv'
<1> DEFINE o == Sample!outcome(pin)
           key == o.masterkey
<1>1. /\ cmd # NULL /\ UNCHANGED <<file, masters, sealed>>
      /\ cmd \in Sample!Commands /\ SealedStore(cmd.store) /\ PackFits
      /\ cmd.op = "encrypt" => cmd.text \in Messages /\ pack.data.key = Sample!Junk
  BY DEF Sample!read_key, PinInv
<1>2. ~o.over => /\ cmd' \in Sample!Commands /\ SealedStore(cmd'.store)
                 /\ cmd'.op = cmd.op /\ cmd'.text = cmd.text
  BY <1>1, GoesOn DEF SealedStore
<1>3. o.over => cmd' = NULL
  BY DEF Sample!read_key
<1>4. CASE key = Sample!Junk
  <2>1. pack' = pack /\ (shown' = Sample!Nothing \/ shown' = shown)
    BY <1>4 DEF Sample!read_key
  <2>2. PackFits' /\ ShownFits'
    BY <1>1, <2>1 DEF PinInv, PackFits, ShownFits, Sample!Nothing
  <2> QED
    BY <1>1, <1>2, <1>3, <2>1, <2>2, PinKept
<1>5. CASE key # Sample!Junk /\ cmd.op = "encrypt"
  <2> cmd' = NULL
    BY <1>3, <1>5, Unsealed
  <2>1. PICK iv \in IVs : Sample!sample_encrypt(key, iv)
    BY <1>5 DEF Sample!read_key
  <2>2. CASE /\ pack' = [iv |-> iv, data |-> Sample!aes_encrypt(key, iv, cmd.text)]
             /\ shown' = [ok |-> TRUE, key |-> key, text |-> cmd.text]
    <3>1. pack'.iv = iv /\ pack'.data.iv = iv /\ pack'.data.key = key /\ pack'.data.text = cmd.text
      BY <2>2 DEF Sample!aes_encrypt
    <3>2. PackFits'
      BY <1>1, <1>5, <3>1 DEF PackFits
    <3>3. ShownFits'
      BY <1>1, <1>5, <2>2, <3>1 DEF ShownFits
    <3> QED
      BY <1>1, <1>2, <1>3, <3>2, <3>3, PinKept
  <2>3. CASE pack' = [pack EXCEPT !.iv = iv] /\ shown' = Sample!Nothing
    <3>1. pack'.data.key = Sample!Junk
      BY <1>1, <1>5, <2>3
    <3>2. PackFits' /\ ShownFits'
      BY <2>3, <3>1 DEF PackFits, ShownFits, Sample!Nothing
    <3> QED
      BY <1>1, <1>2, <1>3, <3>2, PinKept
  <2> QED
    BY <2>1, <2>2, <2>3 DEF Sample!sample_encrypt
<1>6. CASE key # Sample!Junk /\ cmd.op = "decrypt"
  <2> cmd' = NULL
    BY <1>3, <1>6, Unsealed
  <2>1. pack' = pack /\ shown' = [ok |-> TRUE, key |-> key, text |-> Sample!sample_decrypt(key)]
    BY <1>6 DEF Sample!read_key
  <2>2. PackFits'
    BY <1>1, <2>1 DEF PackFits
  <2>3. pack.data.key = key => Sample!sample_decrypt(key) = pack.data.text /\ pack.data.text \in Messages
    BY <1>1, <1>6 DEF PackFits, Sample!sample_decrypt, Sample!aes_decrypt
  <2>4. ShownFits'
    BY <1>6, <2>1, <2>3 DEF ShownFits
  <2> QED
    BY <1>1, <1>2, <1>3, <2>2, <2>4, PinKept
<1>7. cmd.op \in {"encrypt", "decrypt"}
  BY <1>1 DEF Sample!Commands
<1> QED
  BY <1>4, <1>5, <1>6, <1>7

\* What a step of read_key shows.
LEMMA PinShown ==
  ASSUME PinInv, PinInv', NEW pin \in Pins, Sample!read_key(pin), shown'.ok
  PROVE  /\ cmd.op = "decrypt" /\ pack.data.key = shown'.key
              => shown'.text = pack.data.text /\ shown'.text \in Messages
         /\ cmd' = NULL => sealed[shown'.key] \in typed'
<1> DEFINE o == Sample!outcome(pin)
<1>1. /\ cmd # NULL /\ cmd \in Sample!Commands /\ PackFits /\ SealedStore(cmd.store)
      /\ typed' = typed \cup {pin}
  BY DEF Sample!read_key, PinInv
<1>2. CASE o.masterkey = Sample!Junk
  <2>1. pack' = pack /\ shown' = IF o.over THEN Sample!Nothing ELSE shown
    BY <1>2 DEF Sample!read_key
  <2>2. ~o.over /\ shown' = shown
    BY <2>1 DEF Sample!Nothing
  <2>3. cmd.op = "decrypt" /\ pack.data.key = shown'.key
              => shown'.text = pack.data.text /\ shown'.text \in Messages
    BY <2>2 DEF PinInv, ShownFits
  <2>4. cmd' # NULL
    BY <2>2, GoesOn, TrustletsAssumption DEF Sample!SampleAssumption
  <2> QED
    BY <2>3, <2>4
<1>3. CASE o.masterkey # Sample!Junk
  <2>1. /\ o.masterkey = cmd.store.crypted_key.text
        /\ sealed[cmd.store.crypted_key.text] = pin
    BY <1>3, Unsealed
  <2>2. shown'.key = o.masterkey
    <3>1. CASE cmd.op = "encrypt"
      <4>1. PICK iv \in IVs : Sample!sample_encrypt(o.masterkey, iv)
        BY <1>3, <3>1 DEF Sample!read_key
      <4> QED
        BY <4>1 DEF Sample!sample_encrypt, Sample!Nothing
    <3>2. CASE cmd.op # "encrypt"
      BY <1>3, <3>2 DEF Sample!read_key
    <3> QED
      BY <3>1, <3>2
  <2>3. cmd.op = "decrypt" => pack' = pack
    BY <1>3 DEF Sample!read_key
  <2>4. cmd.op = "decrypt" /\ pack.data.key = shown'.key
              => shown'.text = pack.data.text /\ shown'.text \in Messages
    BY <1>3, <2>2, <2>3 DEF PinInv, ShownFits
  <2> QED
    BY <1>1, <2>1, <2>2, <2>4
<1> QED
  BY <1>2, <1>3

\* For any number of keys, PINs, messages and tries, and whatever becomes of the
\* key files: a message decrypted by the key that encrypted it is the message, and
\* no key works in a command in which the PIN it was sealed under was not typed
\* (sample_trustlet/main.c: read_key, sample_encrypt, sample_decrypt).
THEOREM KeysStayUnderPin == Sample!Spec => KeysUnderPin
<1>1. Sample!Init => PinInv
  BY TrustletsAssumption
     DEF Sample!Init, Sample!SampleAssumption, Sample!Nothing, PinInv, ShownFits
<1>2. PinInv /\ [Sample!Next]_(Sample!vars) => PinInv'
  <2>1. ASSUME PinInv, UNCHANGED Sample!vars PROVE PinInv'
    BY <2>1 DEF Sample!vars, PinInv, SealedStore, PackFits, ShownFits
  <2>2. ASSUME PinInv, Sample!Next PROVE PinInv'
    BY <2>2, PinNew, PinEncrypt, PinDecrypt, PinRead DEF Sample!Next
  <2> QED
    BY <2>1, <2>2
<1> DEFINE Message == \A pin \in Pins :
             Sample!read_key(pin) /\ cmd.op = "decrypt" /\ shown'.ok /\ pack.data.key = shown'.key
               => shown'.text = pack.data.text /\ shown'.text \in Messages
           Typed == \A pin \in Pins :
             Sample!read_key(pin) /\ cmd' = NULL /\ shown'.ok => sealed[shown'.key] \in typed'
<1>3. PinInv /\ PinInv' => Message /\ Typed
  BY PinShown
<1>4. Sample!Spec => [][Message /\ Typed]_(Sample!vars)
  BY <1>1, <1>2, <1>3, PTL DEF Sample!Spec
<1>5. Sample!Spec => [][Message]_(Sample!vars) /\ [][Typed]_(Sample!vars)
  BY <1>4, PTL
<1> QED
  BY <1>5 DEF KeysUnderPin, Sample!DecryptsToMessage, Sample!NoKeyWithoutPin
=============================================================================
