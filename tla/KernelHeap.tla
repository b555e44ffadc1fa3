----------------------------- MODULE KernelHeap -----------------------------
(***************************************************************************)
(* The kernel heap: blocks with a header of three words (prev_size, flags, *)
(* size) in front of their memory, found by walking from heap_start.       *)
(* kmalloc takes the smallest free block that fits and splits it,          *)
(* kmalloc_align moves its start up to an aligned address, and kfree       *)
(* merges a block with its free neighbours.                                *)
(*                                                                         *)
(* mem holds every 32-bit word of the heap at its byte offset from         *)
(* heap_start, so that a header field, the data of a block and the remains *)
(* of an old header are the same word when the code says so.  Sizes are    *)
(* multiples of four bytes.                                                *)
(***************************************************************************)
EXTENDS Integers, Sequences

CONSTANTS
  HEAP_SIZE,  \* KERNEL_HEAP_SIZE
  Sizes,      \* the sizes asked for
  Aligns      \* the alignments asked for, powers of two of at least a word

ASSUME HeapAssumption ==
  /\ HEAP_SIZE \in Nat /\ HEAP_SIZE % 4 = 0 /\ HEAP_SIZE > 36
  /\ \A n \in Sizes \cup Aligns : n \in Nat /\ n > 0 /\ n % 4 = 0

HEADER == 12    \* sizeof(k_mem_block_t)
BootBlock == 12 \* sizeof(list)

\* The fields of the header at b.
prev_size(b) == b
flags(b) == b + 4
size(b) == b + 8

Word == {a \in 0..(HEAP_SIZE - 1) : a % 4 = 0}

VARIABLES
  mem,   \* the heap's words
  live,  \* history: the allocated memory [at, size], in order of allocation
  stale  \* history: a block was shortened whose neighbour was not told

heap_vars == <<mem, live, stale>>

M_IS_FREE(m, b) == m[flags(b)] % 2 = 0
M_LAST_BLOCK(m, b) == b - m[prev_size(b)] - HEADER
M_NEXT_BLOCK(m, b) == b + m[size(b)] + HEADER

\* The headers met by the walk from heap_start to heap_end.  What a header
\* over the end of the heap would read is unknown; the walk ends there.
Blocks(m) ==
  LET next(b) == IF size(b) \in Word THEN M_NEXT_BLOCK(m, b) ELSE HEAP_SIZE
      walk[i \in 0..(HEAP_SIZE \div HEADER)] == IF i = 0 THEN 0 ELSE next(walk[i - 1])
  IN  {b \in {walk[i] : i \in 0..(HEAP_SIZE \div HEADER)} : size(b) \in Word}

\* The smallest of a set of blocks, the first one of several.
BestOf(m, S) ==
  CHOOSE b \in S : \A c \in S :
    m[size(b)] < m[size(c)] \/ (m[size(b)] = m[size(c)] /\ b <= c)

\* A split that leaves the block free.
prepareBestBlock_unmarked(m, best, n) ==
  LET new == best + n + HEADER
  IN  IF m[size(best)] > n + HEADER
      THEN [m EXCEPT ![prev_size(new)] = n, ![flags(new)] = 0,
                     ![size(new)] = m[size(best)] - HEADER - n, ![size(best)] = n]
      ELSE m

\* Splits the block best if more than a header is left over, and marks it
\* used.  next is computed without the size of the header: the word written is
\* the fourth last of the new block, or a part of its header, and never the
\* prev_size of the block that follows.
prepareBestBlock(m, best, n) ==
  LET next == best + m[size(best)]
      new == best + n + HEADER
      rest == m[size(best)] - HEADER - n
  IN  IF m[size(best)] > n + HEADER
      THEN [m EXCEPT ![prev_size(new)] = n, ![flags(new)] = 0, ![size(new)] = rest,
                     ![prev_size(next)] = rest,
                     ![size(best)] = n, ![flags(best)] = 1]
      ELSE [m EXCEPT ![flags(best)] = 1]

Allocated(at, n) == live' = Append(live, [at |-> at + HEADER, size |-> n])

\* The block at b gets another size; if one follows it, that one's prev_size is
\* from now on the old size.
Shortened(b) == stale' = (stale \/ M_NEXT_BLOCK(mem, b) # HEAP_SIZE)

\* A request that no block fits returns NULL and changes nothing.
kmalloc(n) ==
  LET fits == {b \in Blocks(mem) : M_IS_FREE(mem, b) /\ mem[size(b)] >= n}
      best == BestOf(mem, fits)
  IN  /\ fits # {}
      /\ mem' = prepareBestBlock(mem, best, n)
      /\ Allocated(best, n)
      /\ IF mem[size(best)] > n + HEADER THEN Shortened(best) ELSE UNCHANGED stale

\* The bytes to the next multiple of align, a whole align if b is one.
padding(b, align) == align - ((b + HEADER) % align)

\* The padding goes to the block before, used or not; the header moves up.
kmalloc_align(n, align) ==
  LET fits == {b \in Blocks(mem) :
                 /\ M_IS_FREE(mem, b)
                 /\ padding(b, align) < mem[size(b)]
                 /\ mem[size(b)] - padding(b, align) >= n}
      old == BestOf(mem, fits)
      last == M_LAST_BLOCK(mem, old)
      best == old + padding(old, align)
      longer == mem[size(last)] + padding(old, align)
      moved == [mem EXCEPT ![size(last)] = longer, ![prev_size(best)] = longer,
                           ![size(best)] = mem[size(old)] - padding(old, align)]
  IN  /\ fits # {}
      /\ mem' = prepareBestBlock(moved, best, n)
      /\ Allocated(best, n)
      /\ Shortened(old)

\* The heap after kfree(blk): merged with the block before if that is free,
\* then with the block behind; the block after that learns its new prev_size.
Released(m, blk) ==
  LET old == blk - HEADER
      last == M_LAST_BLOCK(m, old)
      next == M_NEXT_BLOCK(m, old)
      merge == last >= 0 /\ M_IS_FREE(m, last)
      current == IF merge THEN last ELSE old
      m1 == IF merge
            THEN [m EXCEPT ![size(last)] = @ + HEADER + m[size(old)]]
            ELSE m
      m2 == IF next < HEAP_SIZE /\ M_IS_FREE(m1, next)
            THEN [m1 EXCEPT ![size(current)] = @ + HEADER + m1[size(next)]]
            ELSE m1
      after == IF m2 = m1 THEN next ELSE M_NEXT_BLOCK(m2, current)
      m3 == IF next < HEAP_SIZE /\ after < HEAP_SIZE
            THEN [m2 EXCEPT ![prev_size(after)] = m2[size(current)]]
            ELSE m2
  IN  [m3 EXCEPT ![flags(current)] = 0]

\* The block allocated i-th is freed; the first one is never.
kfree(i) ==
  /\ mem' = Released(mem, live[i].at)
  /\ live' = SubSeq(live, 1, i - 1) \o SubSeq(live, i + 1, Len(live))
  /\ UNCHANGED stale

\* init_heap, and the first allocation, which pmm_init makes for a list that
\* is never freed.
init_heap ==
  [a \in Word |-> IF a = size(0) THEN HEAP_SIZE - HEADER ELSE 0]

HeapInit ==
  /\ mem = prepareBestBlock(init_heap, 0, BootBlock)
  /\ live = <<[at |-> HEADER, size |-> BootBlock]>>
  /\ stale = FALSE

HeapNext ==
  \/ \E n \in Sizes : kmalloc(n) \/ \E align \in Aligns : kmalloc_align(n, align)
  \/ \E i \in 2..Len(live) : kfree(i)

HeapSpec == HeapInit /\ [][HeapNext]_heap_vars

-----------------------------------------------------------------------------

\* The words of an allocated block, its header included.
Extent(a) == {w \in Word : w >= a.at - HEADER /\ w < a.at + a.size}

\* kmalloc returns the "Address of the reserved block" (mm.h): no word belongs
\* to two allocated blocks, whatever was allocated and freed before.
LiveDisjoint ==
  \A i, j \in DOMAIN live : i # j => Extent(live[i]) \cap Extent(live[j]) = {}

\* The walk from heap_start meets every allocated block, reaches exactly the
\* end of the heap, and every block knows the size of the one before it: the
\* facts kmalloc, kfree and M_LAST_BLOCK rely on.
WellFormed ==
  \A b \in Blocks(mem) :
    /\ M_NEXT_BLOCK(mem, b) \in Blocks(mem) \cup {HEAP_SIZE}
    /\ M_NEXT_BLOCK(mem, b) \in Blocks(mem) =>
         mem[prev_size(M_NEXT_BLOCK(mem, b))] = mem[size(b)]
    /\ M_IS_FREE(mem, b) <=> \A i \in DOMAIN live : live[i].at # b + HEADER

\* When everything allocated since boot is freed, all of the heap but the boot
\* block is one free block again, less what alignment added to the boot block.
Coalesced ==
  Len(live) = 1 => Blocks(mem) = {0, M_NEXT_BLOCK(mem, 0)}

\* Until the first time kmalloc splits, or kmalloc_align moves, a free block that
\* another block follows (vmm.c:457, mm.c:176 do not tell that one), blocks may be
\* freed in any order: those in use do not overlap, the chain reaches the end of
\* the heap with every header knowing the block before, and what was allocated
\* since boot is one free block again once it is freed.
HeapSound == ~stale => LiveDisjoint /\ WellFormed /\ Coalesced
=============================================================================
