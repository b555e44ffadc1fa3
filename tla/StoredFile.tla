----------------------------- MODULE StoredFile -----------------------------
(***************************************************************************)
(* What a file of the secure world promises a trustlet that appends to it,  *)
(* or overwrites it up to the end of a block: a sequence of bytes with a    *)
(* position.  A call that fails leaves the position where it was.  A failed *)
(* write may have transferred part of its bytes, and may have lost the      *)
(* block it was in: lost bytes are never read as if they were data.         *)
(* Where reading can fail unseen, a write may turn what is before it in its *)
(* block into zeroes.                                                       *)
(***************************************************************************)
EXTENDS Integers, Sequences, SequencesExt

CONSTANTS
  NULL, Lost, Zero,
  Objects, Handles,
  Positions, BLOCK,
  ReadErrors

VARIABLES
  content,  \* per file, its bytes
  handle,   \* per handle, NULL or the file, the position and, of a write in
            \* progress, the position it began at and the bytes left
  reply     \* what the last call answered

svars == <<content, handle, reply>>

At(o, pos) == [obj |-> o, pos |-> pos, mark |-> pos, buf |-> <<>>]

\* The bytes of c with d at position pos.
Put(c, pos, d) ==
  [q \in 1..(IF pos + Len(d) > Len(c) THEN pos + Len(d) ELSE Len(c)) |->
     IF q \in (pos + 1)..(pos + Len(d)) THEN d[q - pos] ELSE c[q]]

\* The bytes of c, those before pos in its block taken for zeroes.
Blank(c, pos) ==
  [q \in 1..Len(c) |-> IF q \in ((pos \div BLOCK) * BLOCK + 1)..pos THEN Zero ELSE c[q]]

\* The bytes of c with the block around pos lost.
Lose(c, pos) ==
  LET first == (pos \div BLOCK) * BLOCK
  IN  [q \in 1..(IF first + BLOCK > Len(c) THEN first + BLOCK ELSE Len(c)) |->
         IF q \in (first + 1)..(first + BLOCK) THEN Lost ELSE c[q]]

\* Something between the positions from and to, or in the blocks they are in,
\* is lost.
Damaged(c, from, to) ==
  \E q \in 1..Len(c) : c[q] = Lost /\ (q - 1) \div BLOCK \in (from \div BLOCK)..(to \div BLOCK)

SInit ==
  /\ content = [o \in Objects |-> <<>>]
  /\ handle = [u \in Handles |-> NULL]
  /\ reply.op = "none"

\* The answer of a call: what was asked, the result, whether a request of it
\* failed in the normal world, and the data it brought.
Told(op, ret) == reply'.op = op /\ reply'.ret = ret

\* Opening, closing, seeking, and losing every handle.
Open(u, o) ==
  /\ handle[u] = NULL /\ Told("open", u)
  /\ handle' = [handle EXCEPT ![u] = At(o, 0)]
  /\ UNCHANGED content

Close(u) ==
  /\ handle[u] # NULL /\ Told("close", 0)
  /\ handle' = [handle EXCEPT ![u] = NULL]
  /\ UNCHANGED content

Seek(u) ==
  /\ handle[u] # NULL /\ Told("lseek", 0)
  /\ \E pos \in Positions : handle' = [handle EXCEPT ![u] = At(@.obj, pos)]
  /\ UNCHANGED content

Refused ==
  /\ Told("open", -1) \/ Told("lseek", -1) \/ Told("remove", 0)
  /\ UNCHANGED <<content, handle>>

Crash ==
  /\ reply'.op = "none"
  /\ handle' = [u \in Handles |-> NULL]
  /\ UNCHANGED content

\* A write begins, with any bytes; it transfers some of those left, and may
\* then find a block empty that it could not read; after the last of them it
\* answers how many there were.
Begin(u) ==
  /\ handle[u] # NULL /\ handle'[u] # NULL
  /\ handle' = [handle EXCEPT ![u].buf = handle'[u].buf]
  /\ UNCHANGED <<content, reply>>

Transfer(u) ==
  \E n \in 0..BLOCK, blank \in {FALSE, ReadErrors} :
    LET h == handle[u]
        rest == SubSeq(h.buf, n + 1, Len(h.buf))
        old == IF blank THEN Blank(content[h.obj], h.pos) ELSE content[h.obj]
    IN  /\ h # NULL /\ h.pos <= Len(content[h.obj]) /\ n <= Len(h.buf)
        /\ content' = [content EXCEPT ![h.obj] = Put(old, h.pos, SubSeq(h.buf, 1, n))]
        /\ IF rest # <<>>
           THEN /\ handle' = [handle EXCEPT ![u].pos = @ + n, ![u].buf = rest]
                /\ UNCHANGED reply
           ELSE /\ handle' = [handle EXCEPT ![u] = At(h.obj, h.pos + n)]
                /\ Told("write", h.pos + n - h.mark)

Fails(u) ==
  LET h == handle[u]
  IN  /\ h # NULL
      /\ Told("write", -1)
      /\ reply'.fault \/ Damaged(content[h.obj], h.pos, h.pos)
      /\ handle' = [handle EXCEPT ![u] = At(h.obj, h.mark)]
      /\ \/ UNCHANGED content
         \/ /\ reply'.fault /\ h.pos <= Len(content[h.obj])
            /\ content' = [content EXCEPT ![h.obj] = Lose(@, h.pos)]

\* How many of n bytes there are in c from a position on.
Available(c, pos, n) == IF pos + n > Len(c) THEN Len(c) - pos ELSE n

\* A read gives the bytes at the position, fewer than were asked for only at
\* the end of the file.  It may fail if it touches the end or lost bytes.
Get(u) ==
  LET h == handle[u]
      c == content[h.obj]
      n == reply'.asked
      k == Available(c, h.pos, n)
  IN  /\ h # NULL
      /\ UNCHANGED content
      /\ \/ /\ Told("read", k)
            /\ reply'.data = SubSeq(c, h.pos + 1, h.pos + k)
            /\ \A j \in 1..k : c[h.pos + j] # Lost
            /\ handle' = [handle EXCEPT ![u] = At(h.obj, h.pos + k)]
         \/ /\ Told("read", -1)
            /\ \/ reply'.fault
               \/ h.pos + n > Len(c) \/ h.pos = Len(c)
               \/ Damaged(c, h.pos, h.pos + n)
            /\ UNCHANGED handle

\* The size is the number of bytes, unless the end of the file is lost.
Stat(u) ==
  LET h == handle[u]
      c == content[h.obj]
  IN  /\ h # NULL
      /\ UNCHANGED <<content, handle>>
      /\ \/ Told("fstat", Len(c))
         \/ Told("fstat", -1) /\ (reply'.fault \/ (c # <<>> /\ Last(c) = Lost))

SNext ==
  \/ Crash \/ Refused
  \/ \E u \in Handles : \/ \E o \in Objects : Open(u, o)
                        \/ Close(u) \/ Seek(u) \/ Begin(u) \/ Transfer(u) \/ Fails(u)
                        \/ Get(u) \/ Stat(u)

SSpec == SInit /\ [][SNext]_svars
=============================================================================
