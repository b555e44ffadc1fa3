---------------------------- MODULE PageAllocator ----------------------------
(***************************************************************************)
(* A memory manager over a page bitmap: pages are handed out in blocks,    *)
(* alone or aligned, and come back one page at a time.  The managers do    *)
(* not know who holds a page; owner is history that records it.            *)
(***************************************************************************)
EXTENDS PageBitmap

CONSTANTS
  WORDS,     \* words of the bitmap
  ALIGN,     \* pages a page directory is aligned to, 1 << 14 bytes in the code
  MaxBlock,  \* bound on the pages of one request
  Owners     \* who asks for pages

ASSUME AllocatorAssumption ==
  /\ WORDS \in Nat \ {0} /\ ALIGN \in Nat \ {0} /\ MaxBlock \in Nat
  /\ NULL \notin Owners

Page == 0..(WORDS * BITS - 1)

VARIABLES
  bitmap,  \* secure_phy_mem
  owner    \* history: who was given each page

vars == <<bitmap, owner>>

Init ==
  /\ bitmap = [p \in Page |-> TRUE]
  /\ owner = [p \in Page |-> NULL]

\* The block is marked used and given to o; a failed request changes nothing.
Give(o, start, n) ==
  /\ start # NULL
  /\ bitmap' = Take(bitmap, start, n)
  /\ owner' = [p \in Page |-> IF p \in Run(start, n) THEN o ELSE owner[p]]

pmm_allocate_pages(o, n) == Give(o, FirstFit(bitmap, n), n)

pmm_allocate_page(o) == Give(o, FirstFit(bitmap, 1), 1)

pmm_allocate_aligned_pages(o, n) == Give(o, AlignedFit(bitmap, n, ALIGN), n)

\* The holder of a page gives it back.
pmm_free_page(o, p) ==
  /\ owner[p] = o
  /\ bitmap' = Free(bitmap, p)
  /\ owner' = [owner EXCEPT ![p] = NULL]

Next ==
  \E o \in Owners :
    \/ pmm_allocate_page(o)
    \/ \E n \in 0..MaxBlock : pmm_allocate_pages(o, n) \/ pmm_allocate_aligned_pages(o, n)
    \/ \E p \in Page : pmm_free_page(o, p)

Spec == Init /\ [][Next]_vars

-----------------------------------------------------------------------------

\* TypeOK: every page has a bit, and an owner or none.
TypeOK ==
  /\ bitmap \in [Page -> BOOLEAN]
  /\ owner \in [Page -> Owners \cup {NULL}]

\* The bitmap tells exactly which pages are held: a page is neither lost (used
\* and held by nobody) nor free while somebody holds it.
Conserved == TypeOK /\ \A p \in Page : bitmap[p] <=> owner[p] = NULL

\* A page is never handed to a second owner before the first one freed it.
NoDoubleAllocation ==
  [][\A p \in Page : owner[p] # NULL => owner'[p] \in {owner[p], NULL}]_vars

\* For every bitmap the allocators can meet and every request, the scanning
\* loops of pmm_allocate_pages and pmm_allocate_aligned_pages return the first
\* fitting block, over word boundaries too, and the marking loop clears exactly
\* the bits of that block.
LoopsComputeFirstFit ==
  \A n \in 0..MaxBlock :
    LET fit == FirstFit(bitmap, n) IN
    /\ Scan(bitmap, n) = fit
    /\ AlignedScan(bitmap, n, ALIGN) = AlignedFit(bitmap, n, ALIGN)
    /\ fit # NULL => Marked(fit, fit + n - 1) = Run(fit, n)
=============================================================================
