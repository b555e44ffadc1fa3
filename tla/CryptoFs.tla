------------------------------ MODULE CryptoFs ------------------------------
(***************************************************************************)
(* The encrypted file system of the secure world (fs.c) over the files of  *)
(* the normal world (ree_fs.c, and secure_fs.c in the service daemon), with *)
(* the file descriptors a trustlet sees (swi_newlib.c).                     *)
(*                                                                          *)
(* A file of the normal world is a header block with the file's key and a   *)
(* row of data blocks of CFS_BLK_SIZE bytes.  A data block is encrypted and *)
(* signed under the file's key and its own number, and carries the number   *)
(* of its bytes that count.  Every block of a read or a write is a round of *)
(* requests to the daemon, any of which may fail; a write may also be cut   *)
(* short in the middle of a block, and a read that fails in the daemon looks *)
(* like the end of the file.  The daemon may be restarted between two       *)
(* rounds, which closes its files, and the machine may lose its power.      *)
(***************************************************************************)
EXTENDS Integers, Sequences, FiniteSets, SequencesExt

CONSTANTS
  NULL,
  Files,         \* names of files, those of all trustlets together
  Inodes,        \* file objects of the normal world, numbers from 1 on
  UserFds,       \* descriptors of the trustlets, numbers
  CFS_BLK_SIZE,  \* bytes of a data block, 940 in the code
  Versions,      \* versions of the data a trustlet writes
  Lengths,       \* how many bytes it may write in one call
  Counts,        \* how many bytes it may ask for in one call
  Offsets,       \* where it may seek to
  MAX_POS,       \* bound: positions a file is written up to
  Careful,       \* TRUE: trustlets write as Fitting says
  ReadErrors     \* TRUE: read(2) may fail in the daemon

ASSUME CryptoFsAssumption ==
  /\ CFS_BLK_SIZE \in Nat \ {0} /\ MAX_POS \in Nat
  /\ Inodes \subseteq Nat \ {0} /\ UserFds \subseteq Nat
  /\ Counts \subseteq Nat /\ Offsets \subseteq Nat /\ Careful \in BOOLEAN
  /\ ReadErrors \in BOOLEAN
  /\ Lengths \subseteq Nat /\ Versions \subseteq Nat

\* A byte is known by the file and the position a trustlet wrote it for.
Byte(key, pos, version) == [key |-> key, pos |-> pos, version |-> version]
Zero == Byte(0, 0, 0)

Offset == 0..(CFS_BLK_SIZE - 1)
Block(key, num) == [key |-> key, num |-> num, count |-> 0, blk |-> [o \in Offset |-> Zero]]

\* A block that no key verifies, and what a read gives when there is none.
Bad == Block(0, 0)
Eof == Block(-1, 0)
Error == Block(-2, 0)

DaemonFds == 1..Cardinality(UserFds)

VARIABLES
  dir,      \* the normal world's directory: the file object of a name, or NULL
  disk,     \* per file object: the header hdr, and the data blocks
  fds,      \* open files of the daemon: the file object of a descriptor
  files,    \* proc->files: the cfs_t behind a trustlet's descriptor, or NULL
  call,     \* the fs_read or fs_write in progress, or NULL
  reply     \* what the last call answered

vars == <<dir, disk, fds, files, call, reply>>

-----------------------------------------------------------------------------
(* The normal world's files, as the daemon's requests show them. *)

Lowest(S) == CHOOSE x \in S : \A y \in S : x <= y

FreeFds == {n \in DaemonFds : fds[n] = NULL}
FreeInodes == {i \in Inodes : disk[i].hdr = NULL /\ \A f \in Files : dir[f] # i
                              /\ \A n \in DaemonFds : fds[n] # i}

\* open(2) in the daemon, for writing and creating whatever the flags say: the
\* file objects it can give for a name.
tz_fs_open(f) == IF dir[f] = NULL THEN FreeInodes ELSE {dir[f]}

tz_fs_close(fd) == [fds EXCEPT ![fd] = NULL]
tz_fs_remove(f) == [dir EXCEPT ![f] = NULL]
tz_fs_lseek(fd) == fds[fd] # NULL
tz_fs_fstat(fd) == Len(disk[fds[fd]].blks)

\* The block at a position, or Eof when the file ends before it or in it.
Found(fd, blknum) ==
  IF blknum <= tz_fs_fstat(fd) THEN disk[fds[fd]].blks[blknum] ELSE Eof

\* What reading it can bring: when read(2) fails the result is replaced by the
\* number of bytes read so far, none, which is how the end of the file looks.
tz_fs_read(fd, blknum) == {Found(fd, blknum)} \cup (IF ReadErrors THEN {Eof} ELSE {})

\* A block written at a position; a gap before it reads as zeroes, which no
\* key verifies.
tz_fs_write(blks, blknum, blk) ==
  [n \in 1..(IF blknum > Len(blks) THEN blknum ELSE Len(blks)) |->
     IF n = blknum THEN blk ELSE IF n <= Len(blks) THEN blks[n] ELSE Bad]

\* A write cut short: an old block is neither the old nor the new one any
\* more.  Behind the end of the file part of a block is left, which reads as
\* the end of the file and is overwritten by the next block written there.
tz_fs_write_cut(blks, blknum) ==
  [n \in 1..(IF blknum > Len(blks) THEN blknum - 1 ELSE Len(blks)) |->
     IF n # blknum /\ n <= Len(blks) THEN blks[n] ELSE Bad]

-----------------------------------------------------------------------------
(* ree_fs.c: the requests.  A block is as long as one request carries. *)

ree_lseek(fd) == tz_fs_lseek(fd)

ree_read(fd, blknum) == IF ree_lseek(fd) THEN tz_fs_read(fd, blknum) ELSE {Error}

\* Whether a request for a block failed, seen by ree_read or not.
Failed(fd, blknum, b) == b = Error \/ b # Found(fd, blknum)

ree_write(fd, blknum, blk) ==
  disk' = [disk EXCEPT ![fds[fd]].blks = tz_fs_write(@, blknum, blk)]

ree_write_cut(fd, blknum) ==
  disk' = [disk EXCEPT ![fds[fd]].blks = tz_fs_write_cut(@, blknum)]

ree_close(fd) == fds' = tz_fs_close(fd)

ree_remove(f) == dir' = tz_fs_remove(f)

-----------------------------------------------------------------------------
(* fs.c *)

blknum(pos) == pos \div CFS_BLK_SIZE + 1
blkoffset(pos) == pos % CFS_BLK_SIZE

\* proc_get_next_fd: the lowest number no file handle of the process has.
proc_get_next_fd == Lowest({u \in UserFds : files[u] = NULL})

\* A version that does not bind a block to its file.
verified_any_file(b, key, n) == b.num = n

\* __fs_decrypt_and_verify: the derived key of a block depends on the file's
\* key and the block's number.
verified(b, key, n) == b.key = key /\ b.num = n

\* The block with new data in it: its count becomes the end of the new data.
filled(b, off, d) ==
  [b EXCEPT !.count = off + Len(d),
            !.blk = [o \in Offset |-> IF o \in off..(off + Len(d) - 1) THEN d[o - off + 1] ELSE @[o]]]

Answer(op, ret, fault) ==
  [op |-> op, ret |-> ret, fault |-> fault, asked |-> 0, data |-> <<>>, key |-> NULL, pos |-> 0]

Init ==
  /\ dir = [f \in Files |-> NULL]
  /\ disk = [i \in Inodes |-> [hdr |-> NULL, blks |-> <<>>]]
  /\ fds = [n \in DaemonFds |-> NULL]
  /\ files = [u \in UserFds |-> NULL]
  /\ call = NULL
  /\ reply = Answer("none", 0, FALSE)

\* fs_open: a file of size 0 gets its header here, with a new random key; of
\* any other the header must verify.  What the header can be afterwards:
fs_open(i, fault) ==
  IF disk[i].hdr # NULL THEN {disk[i].hdr}
  ELSE IF fault THEN {NULL, "torn"} ELSE {"ok"}

\* A failure closes the file again, and leaves what has been written of it.
swi_open(f) ==
  /\ call = NULL /\ FreeFds # {} /\ \E u \in UserFds : files[u] = NULL
  /\ \E i \in tz_fs_open(f), fault \in BOOLEAN : \E hdr \in fs_open(i, fault) :
       /\ dir' = [dir EXCEPT ![f] = i]
       /\ disk' = [disk EXCEPT ![i].hdr = hdr]
       /\ IF hdr = "ok" /\ ~fault
          THEN LET fd == Lowest(FreeFds)
                   u == proc_get_next_fd
               IN  /\ fds' = [fds EXCEPT ![fd] = i]
                   /\ files' = [files EXCEPT ![u] = [fd |-> fd, filepos |-> 0, key |-> i]]
                   /\ reply' = Answer("open", u, FALSE)
          ELSE /\ reply' = Answer("open", -1, fault)
               /\ UNCHANGED <<fds, files>>
  /\ UNCHANGED call

\* The daemon could not open the file, nor create its directory.
swi_open_refused ==
  /\ call = NULL
  /\ reply' = Answer("open", -1, TRUE)
  /\ UNCHANGED <<dir, disk, fds, files, call>>

\* A version that leaves the daemon's file open.
swi_close_local(u) ==
  /\ call = NULL /\ files[u] # NULL
  /\ files' = [files EXCEPT ![u] = NULL]
  /\ reply' = Answer("close", 0, FALSE)
  /\ UNCHANGED <<dir, disk, fds, call>>

\* The descriptor goes whatever the daemon answers.
swi_close(u) ==
  /\ call = NULL /\ files[u] # NULL
  /\ ree_close(files[u].fd)
  /\ files' = [files EXCEPT ![u] = NULL]
  /\ reply' = Answer("close", 0, FALSE)
  /\ UNCHANGED <<dir, disk, call>>

\* The name goes; handles keep the file they have open.
fs_remove(f) ==
  /\ call = NULL /\ dir[f] # NULL
  /\ ree_remove(f)
  /\ reply' = Answer("remove", 0, FALSE)
  /\ UNCHANGED <<disk, fds, files, call>>

\* fs_lseek: the position is moved only if the daemon could seek, and may lie
\* behind the end of the file.
fs_lseek(u, pos, fault) ==
  IF fault \/ ~ree_lseek(files[u].fd)
  THEN reply' = Answer("lseek", -1, TRUE) /\ UNCHANGED files
  ELSE /\ reply' = Answer("lseek", 0, FALSE)
       /\ files' = [files EXCEPT ![u].filepos = pos]

\* REE_SEEK_SET and REE_SEEK_CUR.
swi_lseek(u, offset) ==
  /\ call = NULL /\ files[u] # NULL
  /\ \E pos \in {offset, files[u].filepos + offset}, fault \in BOOLEAN :
       pos <= MAX_POS /\ fs_lseek(u, pos, fault)
  /\ UNCHANGED <<dir, disk, fds, call>>

\* The size, by the number of raw blocks and the count of the last of them, b.
fs_fstat(c, n, b) ==
  IF verified(b, c.key, n) THEN (n - 1) * CFS_BLK_SIZE + b.count ELSE -1

swi_fstat(u) ==
  /\ call = NULL /\ files[u] # NULL
  /\ LET c == files[u]
         n == tz_fs_fstat(c.fd)
     IN  \/ reply' = Answer("fstat", -1, TRUE)
         \/ /\ fds[c.fd] # NULL
            /\ IF n = 0 THEN reply' = Answer("fstat", 0, FALSE)
               ELSE \E b \in ree_read(c.fd, n) :
                      reply' = Answer("fstat", fs_fstat(c, n, b), Failed(c.fd, n, b))
  /\ UNCHANGED <<dir, disk, fds, files, call>>

-----------------------------------------------------------------------------
(* Writing and reading, one block at a time. *)

\* A file object as the sequence of bytes its blocks stand for: all blocks but
\* the last are taken for full ones, and a block that does not verify for lost.
Lost == Byte(-1, 0, 0)
BytesOf(i, n) ==
  IF verified(disk[i].blks[n], i, n) THEN disk[i].blks[n].count ELSE CFS_BLK_SIZE
FileSize(i) ==
  LET n == Len(disk[i].blks)
  IN  IF n = 0 THEN 0 ELSE (n - 1) * CFS_BLK_SIZE + BytesOf(i, n)
ByteAt(i, pos) ==
  LET b == disk[i].blks[blknum(pos)]
  IN  IF verified(b, i, blknum(pos)) THEN b.blk[blkoffset(pos)] ELSE Lost

Content(i) == [q \in 1..FileSize(i) |-> ByteAt(i, q - 1)]

\* A careful trustlet leaves no gap, and writes up to the end of the file or
\* of a block, or further.
Fitting(u, n) ==
  LET size == FileSize(files[u].key)
      end == files[u].filepos + n
  IN  files[u].filepos <= size /\ (end >= size \/ (n > 0 /\ blkoffset(end) = 0))

swi_write(u, n, v) ==
  /\ call = NULL /\ files[u] # NULL /\ files[u].filepos + n <= MAX_POS
  /\ Careful => Fitting(u, n)
  /\ call' = [op |-> "write", u |-> u, start |-> files[u].filepos, fault |-> FALSE,
              buf |-> [j \in 1..n |-> Byte(files[u].key, files[u].filepos + j - 1, v)]]
  /\ UNCHANGED <<dir, disk, fds, files, reply>>

\* A version that leaves the position where the call failed.
cleanup_advanced(op, asked, fault) ==
  /\ call' = NULL
  /\ reply' = [Answer(op, -1, fault) EXCEPT !.asked = asked]
  /\ UNCHANGED files

\* The cleanup of fs_read and fs_write: the position is restored, the blocks
\* already written stay.
cleanup(op, asked, fault) ==
  /\ files' = [files EXCEPT ![call.u].filepos = call.start]
  /\ call' = NULL
  /\ reply' = [Answer(op, -1, fault) EXCEPT !.asked = asked]

\* One round of the loop of fs_write: the block is read, verified unless it
\* is new, changed, signed and written back.  A block that could not be read
\* is taken for a new one, and only what is written now is in it afterwards.
fs_write ==
  LET c == files[call.u]
      n == blknum(c.filepos)
      off == blkoffset(c.filepos)
      room == CFS_BLK_SIZE - off
      d == IF Len(call.buf) > room THEN SubSeq(call.buf, 1, room) ELSE call.buf
      rest == SubSeq(call.buf, Len(d) + 1, Len(call.buf))
  IN  /\ call # NULL /\ call.op = "write"
      /\ \E fault \in BOOLEAN, old \in ree_read(c.fd, n) :
         LET base == IF old = Eof THEN Block(c.key, n) ELSE old
         IN  IF fault \/ ~verified(base, c.key, n)
             THEN /\ cleanup("write", 0, fault \/ old = Error)
                  /\ \/ UNCHANGED disk
                     \/ /\ fault /\ verified(base, c.key, n)
                        /\ ree_write_cut(c.fd, n)
             ELSE /\ ree_write(c.fd, n, filled(base, off, d))
                  /\ files' = [files EXCEPT ![call.u].filepos = @ + Len(d)]
                  /\ IF rest = <<>>
                     THEN /\ reply' = Answer("write", c.filepos + Len(d) - call.start,
                                             call.fault \/ Failed(c.fd, n, old))
                          /\ call' = NULL
                     ELSE /\ call' = [call EXCEPT !.buf = rest, !.fault = @ \/ Failed(c.fd, n, old)]
                          /\ UNCHANGED reply
      /\ UNCHANGED <<dir, fds>>

swi_read(u, count) ==
  /\ call = NULL /\ files[u] # NULL
  /\ call' = [op |-> "read", u |-> u, start |-> files[u].filepos, count |-> count, buf |-> <<>>]
  /\ UNCHANGED <<dir, disk, fds, files, reply>>

\* One round of the loop of fs_read.  A block with fewer bytes than fit is
\* taken for the last one of the file.
fs_read ==
  LET c == files[call.u]
      n == blknum(c.filepos)
      off == blkoffset(c.filepos)
      left == call.count - Len(call.buf)
  IN  /\ call # NULL /\ call.op = "read"
      /\ \E fault \in BOOLEAN, b \in ree_read(c.fd, n) :
         LET reading == IF b.count - off > left THEN left ELSE b.count - off
             buf == call.buf \o [j \in 1..reading |-> b.blk[off + j - 1]]
         IN  IF fault \/ ~verified(b, c.key, n) \/ b.count < off
             THEN cleanup("read", call.count, fault \/ Failed(c.fd, n, b))
             ELSE /\ files' = [files EXCEPT ![call.u].filepos = @ + reading]
                  /\ IF Len(buf) = call.count \/ b.count < CFS_BLK_SIZE
                     THEN /\ reply' = [Answer("read", Len(buf), FALSE) EXCEPT
                                         !.asked = call.count, !.data = buf,
                                         !.key = c.key, !.pos = call.start]
                          /\ call' = NULL
                     ELSE /\ call' = [call EXCEPT !.buf = buf]
                          /\ UNCHANGED reply
      /\ UNCHANGED <<dir, disk, fds>>

-----------------------------------------------------------------------------
(* What happens to the two worlds. *)

\* The daemon is started anew: its open files are gone, the handles are not.
daemon_restart ==
  /\ fds' = [n \in DaemonFds |-> NULL]
  /\ UNCHANGED <<dir, disk, files, call, reply>>

power_off ==
  /\ fds' = [n \in DaemonFds |-> NULL]
  /\ files' = [u \in UserFds |-> NULL]
  /\ call' = NULL
  /\ reply' = Answer("none", 0, FALSE)
  /\ UNCHANGED <<dir, disk>>

Next ==
  \/ \E f \in Files : swi_open(f) \/ fs_remove(f)
  \/ \E u \in UserFds :
       \/ swi_close(u) \/ swi_fstat(u)
       \/ \E o \in Offsets : swi_lseek(u, o)
       \/ \E n \in Lengths, v \in Versions : swi_write(u, n, v)
       \/ \E n \in Counts : swi_read(u, n)
  \/ swi_open_refused \/ fs_write \/ fs_read
  \/ power_off

\* Next with a daemon that is restarted while the machine goes on.
RestartNext == Next \/ daemon_restart

Spec == Init /\ [][Next]_vars

-----------------------------------------------------------------------------

\* TypeOK: the types of the files, of the descriptors and of the call.
TypeOK ==
  /\ dir \in [Files -> Inodes \cup {NULL}]
  /\ \A i \in Inodes :
       /\ disk[i].hdr \in {NULL, "torn", "ok"}
       /\ \A n \in DOMAIN disk[i].blks : disk[i].blks[n].count \in 0..CFS_BLK_SIZE
  /\ fds \in [DaemonFds -> Inodes \cup {NULL}]
  /\ \A u \in UserFds : files[u] # NULL =>
       files[u] \in [fd : DaemonFds, filepos : 0..MAX_POS, key : Inodes]

\* A read that succeeds gives bytes that a trustlet wrote to that position of
\* that file, or zeroes, whatever became of the files, the requests and the
\* daemon meanwhile: __fs_decrypt_and_verify binds a block to its file,
\* wherever the daemon found it, also when a daemon that was restarted uses
\* the number ree_fs.c:71 keeps for another file.  Where the zeroes may be is
\* not part of it: fs_write leaves them in gaps, and before what it writes
\* into a block that could not be read.
Authentic ==
  reply.op = "read" => \A j \in DOMAIN reply.data :
    reply.data[j] \in {Zero} \cup {Byte(reply.key, reply.pos + j - 1, v) : v \in Versions}

\* While the daemon runs, every handle has a descriptor of its own there that
\* is open on the handle's file, and every error path closes what it opened:
\* fs_open and fs_close over two files and two handles, in any order, with
\* names removed and created again.  A restart of the daemon is not in Spec.
DescriptorsPaired ==
  /\ TypeOK
  /\ \A u \in UserFds : files[u] # NULL =>
       /\ fds[files[u].fd] = files[u].key
       /\ \A v \in UserFds \ {u} : files[v] # NULL => files[v].fd # files[u].fd
  /\ \A n \in DaemonFds : fds[n] # NULL => \E u \in UserFds : files[u] # NULL /\ files[u].fd = n

\* fs_read takes a block with fewer bytes than fit for the end of the file
\* ("this is the last block!"): no block follows it.
ShortBlockIsLast ==
  \A i \in Inodes : \A n \in DOMAIN disk[i].blks :
    verified(disk[i].blks[n], i, n) /\ disk[i].blks[n].count < CFS_BLK_SIZE
      => n = Len(disk[i].blks)

\* A file written carefully is a sequence of bytes with a position, through
\* failed requests, torn blocks and power losses; a read error that the daemon
\* hides (secure_fs.c:203) costs the bytes before a write in its block, and
\* nothing else (StoredFile).
Handle(u) ==
  LET c == files[u]
  IN  IF c = NULL THEN NULL
      ELSE IF call # NULL /\ call.u = u
           THEN [obj |-> c.key, mark |-> call.start,
                 pos |-> IF call.op = "read" THEN call.start ELSE c.filepos,
                 buf |-> IF call.op = "read" THEN <<>> ELSE call.buf]
           ELSE [obj |-> c.key, mark |-> c.filepos, pos |-> c.filepos, buf |-> <<>>]

Store == INSTANCE StoredFile WITH
  Objects <- Inodes, Handles <- UserFds, BLOCK <- CFS_BLK_SIZE, Positions <- 0..MAX_POS,
  content <- [i \in Inodes |-> Content(i)],
  handle <- [u \in UserFds |-> Handle(u)]

ImplementsStoredFile == Store!SSpec
=============================================================================
