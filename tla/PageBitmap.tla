----------------------------- MODULE PageBitmap -----------------------------
(***************************************************************************)
(* The page bitmap that the physical (pmm), mappable (mmm), stack (smm)    *)
(* and per-process (umm) memory managers each keep a copy of.  A bitmap is *)
(* a function from page numbers 0 .. n-1 to BOOLEAN; TRUE is a set bit, a  *)
(* free page.  Page number i * BITS + j is bit j of word i.                *)
(*                                                                         *)
(* FirstFit says what the allocators return; Scan and Marked are the loops *)
(* that compute it.                                                        *)
(***************************************************************************)
EXTENDS Pointers, Naturals

CONSTANT BITS   \* bits of a bitmap word, 32 in the code

ASSUME BitmapAssumption == BITS \in Nat \ {0} /\ NULL \notin Nat

\* The pages of a block.
Run(start, n) == start .. (start + n - 1)

\* The blocks of n free pages.
Fits(bitmap, n) ==
  {s \in DOMAIN bitmap : /\ n > 0
                         /\ \A p \in Run(s, n) : p \in DOMAIN bitmap /\ bitmap[p]}

\* The first of a set of pages, NULL if there is none.
First(S) == IF S = {} THEN NULL ELSE CHOOSE s \in S : \A t \in S : s <= t

\* What *_allocate_pages(n) returns.
FirstFit(bitmap, n) == First(Fits(bitmap, n))

\* What pmm_allocate_aligned_pages(n, align) returns, align counted in pages
\* from the start of the memory: the loop tests "the block is complete" only
\* on pages after the first one, so a request for one page never succeeds.
AlignedFit(bitmap, n, align) ==
  First({s \in Fits(bitmap, n) : n > 1 /\ s % align = 0})

\* A marking loop whose last word is cleared to its end.
Take_whole_words(bitmap, start, n) ==
  [p \in DOMAIN bitmap |->
     bitmap[p] /\ ~(p >= start /\ p \div BITS <= (start + n - 1) \div BITS)]

\* A marking loop that stops at the end of the first word.
Take_one_word(bitmap, start, n) ==
  [p \in DOMAIN bitmap |->
     bitmap[p] /\ ~(p \in Run(start, n) /\ p \div BITS = start \div BITS)]

\* The block's bits are cleared.
Take(bitmap, start, n) ==
  [p \in DOMAIN bitmap |-> bitmap[p] /\ p \notin Run(start, n)]

\* *_free_page sets one bit, whatever it was.
Free(bitmap, page) == [bitmap EXCEPT ![page] = TRUE]

-----------------------------------------------------------------------------
(* The loops.  A scan is the value of k, the start of the current block    *)
(* and whether the block was found, after a number of bits.                *)

ScanStart == [k |-> 0, start |-> 0, found |-> FALSE]

\* A scan that does not start a new block at a cleared bit.
ScanBit_no_reset(r, q, bit, n) ==
  LET start == IF r.k = 0 THEN q ELSE r.start
  IN  IF r.found \/ ~bit THEN r
      ELSE [k |-> r.k + 1, start |-> start, found |-> r.k + 1 = n]

\* One bit of the double loop of *_allocate_pages.  A word of zeros is
\* skipped with k = 0, which is what its bits would do one by one.
ScanBit(r, q, bit, n) ==
  LET start == IF r.k = 0 THEN q ELSE r.start
  IN  IF r.found THEN r
      ELSE IF ~bit THEN [r EXCEPT !.k = 0]
      ELSE [k |-> r.k + 1, start |-> start, found |-> r.k + 1 = n]

Scan(bitmap, n) ==
  LET scan[b \in DOMAIN bitmap \cup {0}] ==
        ScanBit(IF b = 0 THEN ScanStart ELSE scan[b - 1], b, bitmap[b], n)
      last == CHOOSE b \in DOMAIN bitmap : b + 1 \notin DOMAIN bitmap
  IN  IF scan[last].found THEN scan[last].start ELSE NULL

\* One bit of the double loop of pmm_allocate_aligned_pages.
AlignedScanBit(r, q, bit, n, align) ==
  IF r.found THEN r
  ELSE IF ~bit THEN [r EXCEPT !.k = 0]
  ELSE IF r.k = 0 THEN IF q % align # 0 THEN r ELSE [r EXCEPT !.k = 1, !.start = q]
  ELSE [r EXCEPT !.k = r.k + 1, !.found = (r.k = n - 1)]

AlignedScan(bitmap, n, align) ==
  LET scan[b \in DOMAIN bitmap \cup {0}] ==
        AlignedScanBit(IF b = 0 THEN ScanStart ELSE scan[b - 1], b, bitmap[b], n, align)
      last == CHOOSE b \in DOMAIN bitmap : b + 1 \notin DOMAIN bitmap
  IN  IF scan[last].found THEN scan[last].start ELSE NULL

\* The bits the marking loop clears for a block start .. end: in a word that
\* is not the last one it runs to bit 32 inclusive, and 1 << 32 is 0 on ARM.
Marked(start, end) ==
  LET from(i) == IF i = start \div BITS THEN start % BITS ELSE 0
      to(i) == IF i = end \div BITS THEN end % BITS ELSE BITS - 1
  IN  UNION {{i * BITS + j : j \in from(i)..to(i)} :
               i \in (start \div BITS)..(end \div BITS)}
=============================================================================
