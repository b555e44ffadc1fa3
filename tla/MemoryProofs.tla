---------------------------- MODULE MemoryProofs ----------------------------
(***************************************************************************)
(* The page managers keep their pages apart, for bitmaps of every size and *)
(* requests of every length, and their loops find the first fitting block. *)
(* The heap keeps its blocks apart and its headers in order, whatever is   *)
(* freed when, until an allocation shortens a free block that another one  *)
(* follows.                                                                *)
(***************************************************************************)
EXTENDS PageAllocator, KernelHeap, Integers, WellFoundedInduction, TLAPS

\* A nonempty set of pages has a first one.
LEMMA FirstPage ==
  ASSUME NEW S \in SUBSET Nat, S # {}
  PROVE  First(S) \in S
<1>1. PICK i \in S : \A j \in S : ~ (<<j, i>> \in OpToRel(<, Nat))
  BY WFMin, NatLessThanWellFounded, Zenon
<1>2. \A j \in S : ~ (j < i)
  BY <1>1 DEF OpToRel
<1>3. \A j \in S : i <= j
  BY <1>2
<1> QED
  BY <1>3 DEF First

\* The block an allocator chooses among fitting ones is inside the memory and
\* free.
LEMMA ChosenIsFree ==
  ASSUME NEW bm \in [Page -> BOOLEAN], NEW n \in Nat, NEW S \in SUBSET Fits(bm, n),
         First(S) # NULL
  PROVE  \A p \in Run(First(S), n) : p \in Page /\ bm[p]
<1>1. S \in SUBSET Nat
  BY DEF Fits, Page
<1>2. First(S) \in S
  BY <1>1, FirstPage DEF First
<1> QED
  BY <1>2 DEF Fits

\* Handing out a free block keeps the bitmap and the owners in step.
LEMMA GiveStep ==
  ASSUME Conserved, NEW o \in Owners, NEW n \in Nat,
         NEW S \in SUBSET Fits(bitmap, n), Give(o, First(S), n)
  PROVE  /\ Conserved'
         /\ \A p \in Page : owner[p] # NULL => owner'[p] = owner[p]
<1> DEFINE start == First(S)
<1>1. \A p \in Run(start, n) : p \in Page /\ bitmap[p]
  <2>1. bitmap \in [Page -> BOOLEAN] /\ First(S) # NULL
    BY DEF Conserved, TypeOK, Give
  <2> QED
    BY <2>1, ChosenIsFree
<1>2. /\ bitmap' = [p \in Page |-> bitmap[p] /\ p \notin Run(start, n)]
      /\ owner' = [p \in Page |-> IF p \in Run(start, n) THEN o ELSE owner[p]]
  BY DEF Give, Take, Conserved, TypeOK
<1> HIDE DEF start
<1>3. TypeOK'
  BY <1>2 DEF Conserved, TypeOK
<1>4. \A p \in Page : bitmap'[p] <=> owner'[p] = NULL
  BY <1>2, AllocatorAssumption DEF Conserved, TypeOK
<1>5. \A p \in Page : owner[p] # NULL => owner'[p] = owner[p]
  BY <1>1, <1>2 DEF Conserved
<1> QED
  BY <1>3, <1>4, <1>5 DEF Conserved

\* The three ways to ask for pages choose among fitting blocks.
LEMMA AllocateStep ==
  ASSUME Conserved, NEW o \in Owners, NEW n \in Nat,
         \/ pmm_allocate_page(o)
         \/ pmm_allocate_pages(o, n)
         \/ pmm_allocate_aligned_pages(o, n)
  PROVE  /\ Conserved'
         /\ \A p \in Page : owner[p] # NULL => owner'[p] = owner[p]
<1>1. CASE pmm_allocate_page(o)
  BY <1>1, GiveStep DEF pmm_allocate_page, FirstFit
<1>2. CASE pmm_allocate_pages(o, n)
  BY <1>2, GiveStep DEF pmm_allocate_pages, FirstFit
<1>3. CASE pmm_allocate_aligned_pages(o, n)
  <2> DEFINE S == {s \in Fits(bitmap, n) : n > 1 /\ s % ALIGN = 0}
  <2>1. S \in SUBSET Fits(bitmap, n)
    OBVIOUS
  <2>2. Give(o, First(S), n)
    BY <1>3 DEF pmm_allocate_aligned_pages, AlignedFit
  <2> HIDE DEF S
  <2> QED
    BY <2>1, <2>2, GiveStep
<1> QED
  BY <1>1, <1>2, <1>3

\* Every step keeps the bitmap right and hands no page from one owner to
\* another.
LEMMA NextStep ==
  ASSUME Conserved, [Next]_vars
  PROVE  /\ Conserved'
         /\ \A p \in Page : owner[p] # NULL => owner'[p] \in {owner[p], NULL}
<1>1. CASE UNCHANGED vars
  BY <1>1 DEF vars, Conserved, TypeOK
<1>2. ASSUME NEW o \in Owners,
             \/ pmm_allocate_page(o)
             \/ \E n \in 0..MaxBlock :
                  pmm_allocate_pages(o, n) \/ pmm_allocate_aligned_pages(o, n)
      PROVE  /\ Conserved'
             /\ \A p \in Page : owner[p] # NULL => owner'[p] \in {owner[p], NULL}
  <2>1. \E n \in Nat : \/ pmm_allocate_page(o)
                       \/ pmm_allocate_pages(o, n)
                       \/ pmm_allocate_aligned_pages(o, n)
    BY <1>2, AllocatorAssumption
  <2> QED
    BY <2>1, AllocateStep
<1>3. ASSUME NEW o \in Owners, NEW q \in Page, pmm_free_page(o, q)
      PROVE  /\ Conserved'
             /\ \A p \in Page : owner[p] # NULL => owner'[p] \in {owner[p], NULL}
  BY <1>3 DEF pmm_free_page, Free, Conserved, TypeOK
<1> QED
  BY <1>1, <1>2, <1>3 DEF Next

\* In every reachable state the bitmap tells exactly which pages are held.
THEOREM PagesConserved == Spec => []Conserved
<1>1. Init => Conserved
  BY DEF Init, Conserved, TypeOK
<1>2. Conserved /\ [Next]_vars => Conserved'
  BY NextStep
<1> QED
  BY <1>1, <1>2, PTL DEF Spec

\* No step hands a page to an owner while another one holds it.
THEOREM PagesNeverShared == Spec => NoDoubleAllocation
<1>1. Conserved /\ [Next]_vars =>
        [\A p \in Page : owner[p] # NULL => owner'[p] \in {owner[p], NULL}]_vars
  BY NextStep
<1> QED
  BY <1>1, PagesConserved, PTL DEF Spec, NoDoubleAllocation

-----------------------------------------------------------------------------
(* Induction over the bits, by the least counterexample                    *)

\* A number is its word and its bit.
LEMMA DivMod ==
  ASSUME NEW a \in Nat, NEW b \in Nat \ {0}
  PROVE  a \div b \in Nat /\ a % b \in 0..(b - 1) /\ a = (a \div b) * b + (a % b)
BY Z3

\* Words are in the order of their bits.
LEMMA DivLess ==
  ASSUME NEW a \in Nat, NEW c \in Nat, NEW b \in Nat \ {0}, a <= c
  PROVE  a \div b <= c \div b
BY Z3

\* A word ends before the next one begins.
LEMMA MulMono ==
  ASSUME NEW i \in Nat, NEW j \in Nat, NEW b \in Nat, i < j
  PROVE  i * b + b <= j * b
BY Z3

\* A nonempty set of naturals has a least element.
LEMMA Least ==
  ASSUME NEW S \in SUBSET Nat, S # {}
  PROVE  \E i \in S : \A j \in S : i <= j
<1>1. PICK i \in S : \A j \in S : ~ (<<j, i>> \in OpToRel(<, Nat))
  BY WFMin, NatLessThanWellFounded, Zenon
<1>2. \A j \in S : ~ (j < i)
  BY <1>1 DEF OpToRel
<1> QED
  BY <1>2

\* f is computed from a, step by step, up to N.
Computed(f, N, V, a, step) ==
  /\ f \in [0..N -> V] /\ f[0] = a
  /\ \A i \in 1..N : f[i] = step[i][f[i - 1]]

\* Whatever a loop does at each step, there is the function of its states: the
\* least bound without one would be neither 0 nor a successor.
LEMMA Recursion ==
  ASSUME NEW N \in Nat, NEW V, NEW a \in V, NEW step \in [Nat -> [V -> V]]
  PROVE  \E f : Computed(f, N, V, a, step)
<1> DEFINE Good(m) == \E f : Computed(f, m, V, a, step)
           Bad == {m \in Nat : ~Good(m)}
<1>1. SUFFICES ASSUME Bad # {} PROVE FALSE
  OBVIOUS
<1>2. PICK m \in Nat : ~Good(m) /\ \A j \in Nat : ~Good(j) => m <= j
  <2>1. PICK m \in Bad : \A j \in Bad : m <= j
    <3>1. Bad \in SUBSET Nat
      OBVIOUS
    <3> HIDE DEF Bad
    <3> QED
      BY <1>1, <3>1, Least
  <2> HIDE DEF Good
  <2> QED
    BY <2>1
<1>3. CASE m = 0
  <2> DEFINE f == [i \in 0..0 |-> a]
  <2>1. f \in [0..0 -> V] /\ f[0] = a
    OBVIOUS
  <2>2. \A i \in 1..0 : f[i] = step[i][f[i - 1]]
    OBVIOUS
  <2>3. Good(0)
    <3> HIDE DEF f
    <3> QED
      BY <2>1, <2>2 DEF Computed
  <2> QED
    BY <1>2, <1>3, <2>3
<1>4. CASE m > 0
  <2>1. m - 1 \in Nat /\ Good(m - 1)
    <3> HIDE DEF Good
    <3> QED
      BY <1>2, <1>4
  <2>2. PICK f : Computed(f, m - 1, V, a, step)
    BY <2>1
  <2>3. /\ f \in [0..(m - 1) -> V] /\ f[0] = a
        /\ \A i \in 1..(m - 1) : f[i] = step[i][f[i - 1]]
    BY <2>2 DEF Computed
  <2> DEFINE g == [i \in 0..m |-> IF i = m THEN step[m][f[m - 1]] ELSE f[i]]
  <2>4. g \in [0..m -> V]
    <3>1. f[m - 1] \in V
      BY <2>1, <2>3
    <3>2. step[m][f[m - 1]] \in V
      BY <3>1
    <3>3. \A i \in 0..m : i # m => f[i] \in V
      BY <2>1, <2>3
    <3> QED
      BY <3>2, <3>3
  <2>5. g[0] = a
    BY <1>4, <2>3
  <2>6. ASSUME NEW i \in 1..m
        PROVE  g[i] = step[i][g[i - 1]]
    BY <1>4, <2>1, <2>3
  <2>7. Good(m)
    <3> HIDE DEF g
    <3> QED
      BY <2>4, <2>5, <2>6 DEF Computed
  <2> QED
    BY <1>2, <2>7
<1> QED
  <2> HIDE DEF Good
  <2> QED
    BY <1>2, <1>3, <1>4

\* First returns the least of a set.
LEMMA FirstIs ==
  ASSUME NEW S \in SUBSET Nat, NEW s \in S, \A t \in S : s <= t
  PROVE  First(S) = s
<1>1. \A u \in S : (\A t \in S : u <= t) => u = s
  OBVIOUS
<1> DEFINE u == CHOOSE i \in S : \A t \in S : i <= t
<1>2. u \in S /\ \A t \in S : u <= t
  OBVIOUS
<1>3. First(S) = u
  BY DEF First
<1> HIDE DEF u
<1> QED
  BY <1>1, <1>2, <1>3
-----------------------------------------------------------------------------
(* The loops of the allocators                                             *)

\* The variables of a scanning loop.
ScanStates == [k : Nat, start : Nat, found : BOOLEAN]

\* What the loop knows after bit b, if it looks for the first of the blocks C
\* and begins blocks at pages of A: a block that was found is the first one; else
\* the block being counted is free up to b and none of C begins before it.
Scanned(bm, n, A, C, r, b) ==
  /\ r \in ScanStates
  /\ r.found => r.start \in C /\ \A s \in C : r.start <= s
  /\ ~r.found =>
       /\ r.k > 0 => /\ r.start + r.k = b + 1 /\ r.start \in A
                     /\ \A p \in r.start..b : bm[p]
       /\ C # {} => r.k < n
       /\ \A s \in C : s <= b => r.k > 0 /\ r.start <= s

\* The pages of the bitmap are an interval.
LEMMA Pages == WORDS * BITS - 1 \in Nat /\ Page = 0..(WORDS * BITS - 1)
<1>1. WORDS \in Nat \ {0} /\ BITS \in Nat \ {0}
  BY AllocatorAssumption, BitmapAssumption
<1>2. WORDS * BITS \in Nat \ {0}
  BY <1>1, Z3
<1> QED
  BY <1>2 DEF Page

\* Before the first bit the loop knows nothing.
LEMMA ScanBegins ==
  ASSUME NEW bm \in [Page -> BOOLEAN], NEW n \in Nat, NEW A, NEW C \in SUBSET Fits(bm, n)
  PROVE  Scanned(bm, n, A, C, ScanStart, -1)
<1>1. C # {} => n > 0
  BY DEF Fits
<1>2. \A s \in C : s \in Nat
  BY Pages DEF Fits
<1> QED
  BY <1>1, <1>2 DEF Scanned, ScanStates, ScanStart

\* After the last bit it has the first block, or there is none.
LEMMA ScanEnds ==
  ASSUME NEW bm \in [Page -> BOOLEAN], NEW n \in Nat, NEW A, NEW C \in SUBSET Fits(bm, n),
         NEW r, Scanned(bm, n, A, C, r, WORDS * BITS - 1)
  PROVE  First(C) = IF r.found THEN r.start ELSE NULL
<1> DEFINE N == WORDS * BITS - 1
<1>1. N \in Nat /\ Page = 0..N
  BY Pages
<1> HIDE DEF N
<1>2. C \in SUBSET Nat
  BY <1>1 DEF Fits
<1>3. CASE r.found
  <2>1. r.start \in C /\ \A s \in C : r.start <= s
    BY <1>3 DEF Scanned
  <2> QED
    BY <1>2, <1>3, <2>1, FirstIs
<1>4. CASE ~r.found
  <2>1. SUFFICES ASSUME NEW s \in C PROVE FALSE
    BY <1>4 DEF First
  <2>2. s \in 0..N /\ n > 0 /\ s + n - 1 <= N
    <3>1. s \in DOMAIN bm /\ n > 0 /\ \A p \in Run(s, n) : p \in DOMAIN bm
      BY DEF Fits
    <3>2. s + n - 1 \in Run(s, n)
      BY <1>2, <3>1 DEF Run
    <3> QED
      BY <1>1, <3>1, <3>2
  <2>3. r.k > 0 /\ r.start <= s /\ r.start + r.k = N + 1 /\ r.k < n
    BY <1>1, <1>4, <2>2 DEF Scanned, N
  <2>4. r.k \in Nat /\ r.start \in Nat
    BY DEF Scanned, ScanStates
  <2> QED
    BY <1>1, <2>2, <2>3, <2>4
<1> QED
  BY <1>3, <1>4

\* One bit of the loop of pmm_allocate_pages.
LEMMA ScanBitStep ==
  ASSUME NEW bm \in [Page -> BOOLEAN], NEW n \in Nat, NEW r, NEW b \in Page,
         Scanned(bm, n, Page, Fits(bm, n), r, b - 1)
  PROVE  Scanned(bm, n, Page, Fits(bm, n), ScanBit(r, b, bm[b], n), b)
<1> DEFINE C == Fits(bm, n)
           v == ScanBit(r, b, bm[b], n)
<1>0. b \in Nat /\ bm[b] \in BOOLEAN
  BY Pages
<1>1. \A s \in C : /\ s \in Page /\ s \in Nat /\ n > 0
                   /\ \A p \in Run(s, n) : p \in Page /\ bm[p]
  BY Pages DEF Fits
<1>2. r \in ScanStates /\ r.k \in Nat /\ r.start \in Nat /\ r.found \in BOOLEAN
  BY DEF Scanned, ScanStates
<1>3. CASE r.found
  BY <1>3 DEF Scanned, ScanBit
<1>4. CASE ~r.found /\ ~bm[b]
  <2>1. v = [r EXCEPT !.k = 0]
    BY <1>4 DEF ScanBit
  <2>2. v \in ScanStates /\ ~v.found /\ v.k = 0
    BY <1>2, <1>4, <2>1 DEF ScanStates
  <2>3. ASSUME NEW s \in C, s <= b PROVE FALSE
    <3>1. b \notin Run(s, n)
      BY <1>1, <1>4
    <3>2. s < b /\ s + n - 1 < b
      BY <1>0, <1>1, <2>3, <3>1 DEF Run
    <3>3. r.k > 0 /\ r.start <= s /\ r.start + r.k = b /\ r.k < n
      BY <1>0, <1>1, <1>4, <3>2 DEF Scanned
    <3> QED
      BY <1>0, <1>1, <1>2, <3>2, <3>3
  <2>4. C # {} => v.k < n
    BY <1>1, <2>2
  <2> HIDE DEF C, v
  <2> QED
    BY <2>2, <2>3, <2>4 DEF Scanned, C, v
<1>5. CASE ~r.found /\ bm[b]
  <2> DEFINE start == IF r.k = 0 THEN b ELSE r.start
  <2>1. v = [k |-> r.k + 1, start |-> start, found |-> r.k + 1 = n]
    BY <1>5 DEF ScanBit
  <2>2. v \in ScanStates /\ v.k = r.k + 1 /\ v.start = start /\ (v.found <=> r.k + 1 = n)
    <3>1. r.k + 1 \in Nat /\ start \in Nat
      BY <1>0, <1>2
    <3>2. (r.k + 1 = n) \in BOOLEAN
      OBVIOUS
    <3> HIDE DEF start, v
    <3>3. v \in ScanStates
      BY <2>1, <3>1, <3>2 DEF ScanStates
    <3>4. v.k = r.k + 1 /\ v.start = start
      BY <2>1
    <3>5. v.found <=> r.k + 1 = n
      BY <2>1
    <3> QED
      BY <3>3, <3>4, <3>5
  <2>3. start \in Nat /\ start + r.k = b /\ start <= b
    BY <1>0, <1>2, <1>5 DEF Scanned
  <2>4. \A p \in start..b : p \in Page /\ bm[p]
    <3>1. \A p \in start..b : p \in Page
      BY <1>0, <2>3, Pages
    <3>2. \A p \in start..b : p = b \/ (r.k > 0 /\ p \in r.start..(b - 1))
      BY <1>0, <1>2, <2>3
    <3> QED
      BY <1>5, <3>1, <3>2 DEF Scanned
  <2>5. ASSUME NEW s \in C, s <= b PROVE start <= s
    BY <1>0, <1>1, <1>2, <1>5, <2>3, <2>5 DEF Scanned
  <2>6. start \in Page
    BY <2>3, <2>4
  <2>7. CASE r.k + 1 = n
    <3>1. Run(start, n) = start..b /\ n > 0
      BY <1>0, <1>2, <2>3, <2>7 DEF Run
    <3>2. start \in C
      BY <2>4, <2>6, <3>1 DEF Fits
    <3>3. \A s \in C : start <= s
      BY <1>0, <1>1, <2>3, <2>5
    <3> HIDE DEF C, v, start
    <3> QED
      BY <2>2, <2>7, <3>2, <3>3 DEF Scanned, C, v
  <2>8. CASE r.k + 1 # n
    <3>1. C # {} => r.k + 1 < n
      BY <1>1, <1>2, <1>5, <2>8 DEF Scanned
    <3> HIDE DEF C, v, start
    <3>2. v.start + v.k = b + 1
      BY <1>0, <1>2, <2>2, <2>3
    <3>3. v.k > 0
      BY <1>2, <2>2
    <3> QED
      BY <2>2, <2>4, <2>5, <2>6, <2>8, <3>1, <3>2, <3>3 DEF Scanned, C, v
  <2> QED
    BY <2>7, <2>8
<1> QED
  BY <1>0, <1>2, <1>3, <1>4, <1>5

\* One bit of the loop of pmm_allocate_aligned_pages, which begins a block at
\* aligned pages only and completes it on pages after the first.
LEMMA AlignedBitStep ==
  ASSUME NEW bm \in [Page -> BOOLEAN], NEW n \in Nat, NEW align \in Nat \ {0},
         NEW A, A = {s \in Page : s % align = 0},
         NEW C, C = {s \in Fits(bm, n) : n > 1 /\ s % align = 0},
         NEW r, NEW b \in Page, Scanned(bm, n, A, C, r, b - 1)
  PROVE  Scanned(bm, n, A, C, AlignedScanBit(r, b, bm[b], n, align), b)
<1> DEFINE v == AlignedScanBit(r, b, bm[b], n, align)
<1>0. b \in Nat /\ bm[b] \in BOOLEAN
  BY Pages
<1>1. \A s \in C : /\ s \in Page /\ s \in Nat /\ n > 1 /\ s \in A
                   /\ \A p \in Run(s, n) : p \in Page /\ bm[p]
  BY Pages DEF Fits
<1>2. r \in ScanStates /\ r.k \in Nat /\ r.start \in Nat /\ r.found \in BOOLEAN
  BY DEF Scanned, ScanStates
<1>3. CASE r.found
  BY <1>3 DEF Scanned, AlignedScanBit
<1>4. CASE ~r.found /\ ~bm[b]
  <2>1. v = [r EXCEPT !.k = 0]
    BY <1>4 DEF AlignedScanBit
  <2>2. v \in ScanStates /\ ~v.found /\ v.k = 0
    BY <1>2, <1>4, <2>1 DEF ScanStates
  <2>3. ASSUME NEW s \in C, s <= b PROVE FALSE
    <3>1. b \notin Run(s, n)
      BY <1>1, <1>4
    <3>2. s < b /\ s + n - 1 < b
      BY <1>0, <1>1, <2>3, <3>1 DEF Run
    <3>3. r.k > 0 /\ r.start <= s /\ r.start + r.k = b /\ r.k < n
      BY <1>0, <1>1, <1>4, <3>2 DEF Scanned
    <3> QED
      BY <1>0, <1>1, <1>2, <3>2, <3>3
  <2>4. C # {} => v.k < n
    BY <1>1, <2>2
  <2> HIDE DEF v
  <2> QED
    BY <2>2, <2>3, <2>4 DEF Scanned, v
<1>5. CASE ~r.found /\ bm[b] /\ r.k = 0
  <2>1. \A s \in C : ~(s <= b - 1)
    BY <1>2, <1>5 DEF Scanned
  <2>2. \A s \in C : s <= b => s = b
    BY <1>0, <1>1, <2>1
  <2>3. CASE b % align # 0
    <3>1. v = r
      BY <1>5, <2>3 DEF AlignedScanBit
    <3>2. \A s \in C : ~(s <= b)
      BY <1>1, <2>2, <2>3
    <3>3. C # {} => r.k < n
      BY <1>5 DEF Scanned
    <3>4. Scanned(bm, n, A, C, r, b)
      BY <1>2, <1>5, <3>2, <3>3 DEF Scanned
    <3> QED
      BY <3>1, <3>4
  <2>4. CASE b % align = 0
    <3>1. v = [r EXCEPT !.k = 1, !.start = b]
      BY <1>5, <2>4 DEF AlignedScanBit
    <3>2. v \in ScanStates /\ v.k = 1 /\ v.start = b /\ ~v.found
      <4> HIDE DEF v
      <4>1. v \in ScanStates
        BY <1>0, <1>2, <3>1 DEF ScanStates
      <4>2. v.k = 1 /\ v.start = b
        BY <1>2, <3>1 DEF ScanStates
      <4>3. v.found = r.found
        BY <1>2, <3>1 DEF ScanStates
      <4> QED
        BY <1>5, <4>1, <4>2, <4>3
    <3>3. \A p \in b..b : bm[p]
      BY <1>0, <1>5
    <3>4. C # {} => v.k < n
      BY <1>1, <3>2
    <3>5. b \in A
      BY <2>4
    <3>6. \A s \in C : s <= b => v.start <= s
      BY <1>0, <2>2, <3>2
    <3>7. v.start + v.k = b + 1 /\ v.k > 0
      BY <1>0, <3>2
    <3> HIDE DEF v
    <3> QED
      BY <3>2, <3>3, <3>4, <3>5, <3>6, <3>7 DEF Scanned, v
  <2> QED
    BY <2>3, <2>4
<1>6. CASE ~r.found /\ bm[b] /\ r.k # 0
  <2>1. v = [r EXCEPT !.k = r.k + 1, !.found = (r.k = n - 1)]
    BY <1>6 DEF AlignedScanBit
  <2>2. v \in ScanStates /\ v.k = r.k + 1 /\ v.start = r.start /\ (v.found <=> r.k = n - 1)
    <3>1. r.k + 1 \in Nat /\ (r.k = n - 1) \in BOOLEAN
      BY <1>2
    <3> HIDE DEF v
    <3>2. v \in ScanStates
      BY <1>2, <2>1, <3>1 DEF ScanStates
    <3>3. v.k = r.k + 1 /\ v.start = r.start
      BY <1>2, <2>1 DEF ScanStates
    <3>4. v.found <=> r.k = n - 1
      BY <1>2, <2>1 DEF ScanStates
    <3> QED
      BY <3>2, <3>3, <3>4
  <2>3. r.k > 0 /\ r.start + r.k = b /\ r.start \in A
    BY <1>0, <1>2, <1>6 DEF Scanned
  <2>4. \A p \in r.start..b : p \in Page /\ bm[p]
    <3>1. \A p \in r.start..b : p \in Page
      BY <1>0, <1>2, <2>3, Pages
    <3>2. \A p \in r.start..b : p = b \/ p \in r.start..(b - 1)
      BY <1>0, <1>2, <2>3
    <3> QED
      BY <1>6, <2>3, <3>1, <3>2 DEF Scanned
  <2>5. ASSUME NEW s \in C, s <= b PROVE r.start <= s
    BY <1>0, <1>1, <1>2, <1>6, <2>3, <2>5 DEF Scanned
  <2>7. CASE r.k = n - 1
    <3>1. Run(r.start, n) = r.start..b /\ n > 1
      BY <1>0, <1>2, <2>3, <2>7 DEF Run
    <3>2. r.start \in Page /\ r.start % align = 0
      BY <2>3
    <3>4. r.start \in Fits(bm, n)
      <4>1. n > 0 /\ DOMAIN bm = Page
        BY <3>1
      <4>2. \A p \in Run(r.start, n) : p \in DOMAIN bm /\ bm[p]
        BY <2>4, <3>1, <4>1
      <4> QED
        BY <3>2, <4>1, <4>2 DEF Fits
    <3>5. r.start \in C
      BY <3>1, <3>2, <3>4
    <3>3. \A s \in C : r.start <= s
      BY <1>0, <1>1, <1>2, <2>3, <2>5
    <3> HIDE DEF v
    <3> QED
      BY <2>2, <2>7, <3>3, <3>5 DEF Scanned, v
  <2>8. CASE r.k # n - 1
    <3>1. C # {} => r.k + 1 < n
      BY <1>1, <1>2, <1>6, <2>8 DEF Scanned
    <3> HIDE DEF v
    <3>2. v.start + v.k = b + 1
      BY <1>0, <1>2, <2>2, <2>3, SMTT(30)
    <3>3. v.k > 0
      BY <1>2, <2>2
    <3> QED
      BY <2>2, <2>3, <2>4, <2>5, <2>8, <3>1, <3>2, <3>3 DEF Scanned, v
  <2> QED
    BY <2>7, <2>8
<1> QED
  BY <1>0, <1>2, <1>3, <1>4, <1>5, <1>6

\* A loop whose steps keep Scanned returns the first block: there is no least
\* bit at which Scanned fails.
LEMMA ScanAll ==
  ASSUME NEW bm \in [Page -> BOOLEAN], NEW n \in Nat, NEW A, NEW C \in SUBSET Fits(bm, n),
         NEW f,
         \A b \in Page :
           Scanned(bm, n, A, C, IF b = 0 THEN ScanStart ELSE f[b - 1], b - 1)
             => Scanned(bm, n, A, C, f[b], b)
  PROVE  First(C) = IF f[WORDS * BITS - 1].found THEN f[WORDS * BITS - 1].start ELSE NULL
<1> DEFINE N == WORDS * BITS - 1
           Bad == {b \in Page : ~Scanned(bm, n, A, C, f[b], b)}
<1>1. N \in Nat /\ Page = 0..N
  BY Pages
<1>2. ASSUME Bad # {} PROVE FALSE
  <2>1. Bad \in SUBSET Nat
    BY <1>1
  <2>2. PICK b \in Bad : \A c \in Bad : b <= c
    <3> HIDE DEF Bad
    <3> QED
      BY <1>2, <2>1, Least
  <2>3. b \in Page /\ b \in Nat /\ ~Scanned(bm, n, A, C, f[b], b)
    BY <1>1
  <2>4. CASE b = 0
    BY <2>3, <2>4, ScanBegins
  <2>5. CASE b # 0
    <3>1. b - 1 \in Page /\ b - 1 \notin Bad
      <4>1. b - 1 \in Page
        BY <1>1, <2>3, <2>5
      <4> HIDE DEF Bad
      <4> QED
        BY <2>1, <2>2, <2>3, <4>1
    <3>2. Scanned(bm, n, A, C, f[b - 1], b - 1)
      BY <3>1
    <3> QED
      BY <2>3, <2>5, <3>2
  <2> QED
    BY <2>4, <2>5
<1>3. N \in Page
  BY <1>1
<1>4. Scanned(bm, n, A, C, f[N], N)
  BY <1>2, <1>3
<1> QED
  BY <1>4, ScanEnds

\* The scan ends with the last page.
LEMMA LastPage ==
  ASSUME NEW bm \in [Page -> BOOLEAN]
  PROVE  (CHOOSE b \in DOMAIN bm : b + 1 \notin DOMAIN bm) = WORDS * BITS - 1
<1> DEFINE N == WORDS * BITS - 1
<1>1. N \in Nat /\ Page = 0..N
  BY Pages
<1> HIDE DEF N
<1>2. \A b \in 0..N : b + 1 \notin 0..N <=> b = N
  BY <1>1
<1>3. N \in 0..N
  BY <1>1
<1>4. DOMAIN bm = 0..N
  BY <1>1
<1> DEFINE c == CHOOSE b \in DOMAIN bm : b + 1 \notin DOMAIN bm
<1>5. c \in 0..N /\ c + 1 \notin 0..N
  BY <1>2, <1>3, <1>4
<1> HIDE DEF c
<1>6. c = N
  BY <1>2, <1>5
<1> QED
  BY <1>6 DEF c, N

\* The loop of pmm_allocate_pages returns the first fitting block.
LEMMA ScanFinds ==
  ASSUME NEW bm \in [Page -> BOOLEAN], NEW n \in Nat
  PROVE  Scan(bm, n) = FirstFit(bm, n)
<1> DEFINE N == WORDS * BITS - 1
           Step(g) == [b \in DOMAIN bm \cup {0} |->
                         ScanBit(IF b = 0 THEN ScanStart ELSE g[b - 1], b, bm[b], n)]
           scan == CHOOSE g : g = Step(g)
           last == CHOOSE b \in DOMAIN bm : b + 1 \notin DOMAIN bm
<1>1. N \in Nat /\ Page = 0..N /\ DOMAIN bm \cup {0} = 0..N
  BY Pages
<1>2. \E g : g = Step(g)
  <2> DEFINE step == [i \in Nat |-> [r \in ScanStates |-> ScanBit(r, i, i \in Page /\ bm[i], n)]]
             a == ScanBit(ScanStart, 0, bm[0], n)
  <2>1. \A i \in Nat : \A bit \in BOOLEAN : \A r \in ScanStates : ScanBit(r, i, bit, n) \in ScanStates
    BY DEF ScanBit, ScanStates
  <2>2. ScanStart \in ScanStates
    BY DEF ScanStart, ScanStates
  <2>3. a \in ScanStates
    BY <1>1, <2>1, <2>2
  <2>4. step \in [Nat -> [ScanStates -> ScanStates]]
    <3>1. \A i \in Nat : (i \in Page /\ bm[i]) \in BOOLEAN
      OBVIOUS
    <3> QED
      BY <2>1, <3>1
  <2>5. \A i \in 1..N, r \in ScanStates : step[i][r] = ScanBit(r, i, bm[i], n)
    <3>1. \A i \in 1..N : i \in Nat /\ i \in Page /\ bm[i] \in BOOLEAN /\ (i \in Page /\ bm[i]) = bm[i]
      BY <1>1
    <3> QED
      BY <3>1
  <2> HIDE DEF step, a, N
  <2>6. PICK g : /\ g \in [0..N -> ScanStates] /\ g[0] = a
                 /\ \A i \in 1..N : g[i] = step[i][g[i - 1]]
    <3>1. N \in Nat
      BY <1>1
    <3>2. \E g : Computed(g, N, ScanStates, a, step)
      BY <2>3, <2>4, <3>1, Recursion
    <3> QED
      BY <3>2 DEF Computed
  <2>7. ASSUME NEW b \in 0..N
        PROVE  g[b] = ScanBit(IF b = 0 THEN ScanStart ELSE g[b - 1], b, bm[b], n)
    <3>1. CASE b = 0
      BY <2>6, <3>1 DEF a
    <3>2. CASE b # 0
      <4>1. b \in 1..N /\ b - 1 \in 0..N
        BY <1>1, <3>2
      <4> QED
        BY <2>5, <2>6, <3>2, <4>1
    <3> QED
      BY <3>1, <3>2
  <2>8. g = Step(g)
    BY <1>1, <2>6, <2>7
  <2> QED
    BY <2>8
<1>3. scan = Step(scan)
  <2> HIDE DEF Step
  <2> QED
    BY <1>2
<1>4. \A b \in Page : scan[b] = ScanBit(IF b = 0 THEN ScanStart ELSE scan[b - 1], b, bm[b], n)
  <2> HIDE DEF scan
  <2> QED
    BY <1>3
<1>5. Scan(bm, n) = IF scan[last].found THEN scan[last].start ELSE NULL
  BY DEF Scan
<1>6. last = WORDS * BITS - 1
  BY LastPage
<1> HIDE DEF scan, last, Step, N
<1>7. First(Fits(bm, n)) = IF scan[WORDS * BITS - 1].found THEN scan[WORDS * BITS - 1].start ELSE NULL
  <2>1. ASSUME NEW b \in Page,
               Scanned(bm, n, Page, Fits(bm, n), IF b = 0 THEN ScanStart ELSE scan[b - 1], b - 1)
        PROVE  Scanned(bm, n, Page, Fits(bm, n), scan[b], b)
    <3> DEFINE r == IF b = 0 THEN ScanStart ELSE scan[b - 1]
    <3>1. scan[b] = ScanBit(r, b, bm[b], n) /\ Scanned(bm, n, Page, Fits(bm, n), r, b - 1)
      BY <1>4, <2>1
    <3> HIDE DEF r
    <3> QED
      BY <3>1, ScanBitStep
  <2> QED
    BY <2>1, ScanAll
<1> QED
  BY <1>5, <1>6, <1>7 DEF FirstFit

\* The loop of pmm_allocate_aligned_pages returns the first aligned one.
LEMMA AlignedScanFinds ==
  ASSUME NEW bm \in [Page -> BOOLEAN], NEW n \in Nat, NEW align \in Nat \ {0}
  PROVE  AlignedScan(bm, n, align) = AlignedFit(bm, n, align)
<1> DEFINE N == WORDS * BITS - 1
           Step(g) == [b \in DOMAIN bm \cup {0} |->
                         AlignedScanBit(IF b = 0 THEN ScanStart ELSE g[b - 1], b, bm[b], n, align)]
           scan == CHOOSE g : g = Step(g)
           last == CHOOSE b \in DOMAIN bm : b + 1 \notin DOMAIN bm
           A == {s \in Page : s % align = 0}
           C == {s \in Fits(bm, n) : n > 1 /\ s % align = 0}
<1>1. N \in Nat /\ Page = 0..N /\ DOMAIN bm \cup {0} = 0..N
  BY Pages
<1>2. \E g : g = Step(g)
  <2> DEFINE step == [i \in Nat |-> [r \in ScanStates |->
                        AlignedScanBit(r, i, i \in Page /\ bm[i], n, align)]]
             a == AlignedScanBit(ScanStart, 0, bm[0], n, align)
  <2>1. \A i \in Nat : \A bit \in BOOLEAN : \A r \in ScanStates :
          AlignedScanBit(r, i, bit, n, align) \in ScanStates
    <3> SUFFICES ASSUME NEW i \in Nat, NEW bit \in BOOLEAN, NEW r \in ScanStates
                 PROVE  AlignedScanBit(r, i, bit, n, align) \in ScanStates
      OBVIOUS
    <3>1. r.k + 1 \in Nat /\ (r.k = n - 1) \in BOOLEAN
      BY DEF ScanStates
    <3>2. /\ [r EXCEPT !.k = 0] \in ScanStates
          /\ [r EXCEPT !.k = 1, !.start = i] \in ScanStates
          /\ [r EXCEPT !.k = r.k + 1, !.found = (r.k = n - 1)] \in ScanStates
      BY <3>1 DEF ScanStates
    <3> QED
      BY <3>2 DEF AlignedScanBit
  <2>2. ScanStart \in ScanStates
    BY DEF ScanStart, ScanStates
  <2>3. a \in ScanStates
    BY <1>1, <2>1, <2>2
  <2>4. step \in [Nat -> [ScanStates -> ScanStates]]
    <3>1. \A i \in Nat : (i \in Page /\ bm[i]) \in BOOLEAN
      OBVIOUS
    <3> QED
      BY <2>1, <3>1
  <2>5. \A i \in 1..N, r \in ScanStates : step[i][r] = AlignedScanBit(r, i, bm[i], n, align)
    <3>1. \A i \in 1..N : i \in Nat /\ i \in Page /\ bm[i] \in BOOLEAN /\ (i \in Page /\ bm[i]) = bm[i]
      BY <1>1
    <3> QED
      BY <3>1
  <2> HIDE DEF step, a, N
  <2>6. PICK g : /\ g \in [0..N -> ScanStates] /\ g[0] = a
                 /\ \A i \in 1..N : g[i] = step[i][g[i - 1]]
    <3>1. N \in Nat
      BY <1>1
    <3>2. \E g : Computed(g, N, ScanStates, a, step)
      BY <2>3, <2>4, <3>1, Recursion
    <3> QED
      BY <3>2 DEF Computed
  <2>7. ASSUME NEW b \in 0..N
        PROVE  g[b] = AlignedScanBit(IF b = 0 THEN ScanStart ELSE g[b - 1], b, bm[b], n, align)
    <3>1. CASE b = 0
      BY <2>6, <3>1 DEF a
    <3>2. CASE b # 0
      <4>1. b \in 1..N /\ b - 1 \in 0..N
        BY <1>1, <3>2
      <4> QED
        BY <2>5, <2>6, <3>2, <4>1
    <3> QED
      BY <3>1, <3>2
  <2>8. g = Step(g)
    BY <1>1, <2>6, <2>7
  <2> QED
    BY <2>8
<1>3. scan = Step(scan)
  <2> HIDE DEF Step
  <2> QED
    BY <1>2
<1>4. \A b \in Page :
        scan[b] = AlignedScanBit(IF b = 0 THEN ScanStart ELSE scan[b - 1], b, bm[b], n, align)
  <2> HIDE DEF scan
  <2> QED
    BY <1>3
<1>5. AlignedScan(bm, n, align) = IF scan[last].found THEN scan[last].start ELSE NULL
  BY DEF AlignedScan
<1>6. last = WORDS * BITS - 1
  BY LastPage
<1>7. C \in SUBSET Fits(bm, n)
  OBVIOUS
<1>8. ASSUME NEW b \in Page,
             Scanned(bm, n, A, C, IF b = 0 THEN ScanStart ELSE scan[b - 1], b - 1)
      PROVE  Scanned(bm, n, A, C, scan[b], b)
  <2> DEFINE r == IF b = 0 THEN ScanStart ELSE scan[b - 1]
  <2>1. A = {s \in Page : s % align = 0} /\ C = {s \in Fits(bm, n) : n > 1 /\ s % align = 0}
    OBVIOUS
  <2>2. Scanned(bm, n, A, C, r, b - 1)
    BY <1>8
  <2>3. scan[b] = AlignedScanBit(r, b, bm[b], n, align)
    BY <1>4
  <2> HIDE DEF scan, A, C, r
  <2> QED
    BY <2>1, <2>2, <2>3, AlignedBitStep
<1> HIDE DEF scan, last, Step, N, A, C
<1>9. First(C) = IF scan[WORDS * BITS - 1].found THEN scan[WORDS * BITS - 1].start ELSE NULL
  BY <1>7, <1>8, ScanAll
<1> QED
  BY <1>5, <1>6, <1>9 DEF AlignedFit, C

\* The marking loop, word by word with a first and a last bit in each, clears
\* the bits of the block and no other.
LEMMA MarkedRun ==
  ASSUME NEW start \in Nat, NEW n \in Nat \ {0}
  PROVE  Marked(start, start + n - 1) = Run(start, n)
<1> DEFINE end == start + n - 1
           first == start \div BITS
           final == end \div BITS
           from(i) == IF i = first THEN start % BITS ELSE 0
           to(i) == IF i = final THEN end % BITS ELSE BITS - 1
<1>0. BITS \in Nat \ {0} /\ end \in Nat /\ start <= end
  BY BitmapAssumption
<1>1. /\ first \in Nat /\ start % BITS \in 0..(BITS - 1) /\ start = first * BITS + (start % BITS)
      /\ final \in Nat /\ end % BITS \in 0..(BITS - 1) /\ end = final * BITS + (end % BITS)
      /\ first <= final
  BY <1>0, DivMod, DivLess
<1>2. Marked(start, end) = UNION {{i * BITS + j : j \in from(i)..to(i)} : i \in first..final}
  BY DEF Marked
<1>3. ASSUME NEW i \in first..final, NEW j \in from(i)..to(i)
      PROVE  i * BITS + j \in start..end
  <2>1. i \in Nat /\ j \in 0..(BITS - 1) /\ first <= i /\ i <= final
    BY <1>0, <1>1
  <2>2. i * BITS \in Nat /\ first * BITS \in Nat /\ final * BITS \in Nat
    BY <1>0, <1>1, <2>1, Z3
  <2>3. start <= i * BITS + j
    <3>1. CASE i = first
      BY <1>0, <1>1, <2>1, <2>2, <3>1
    <3>2. CASE i # first
      <4>1. first * BITS + BITS <= i * BITS
        BY <1>0, <1>1, <2>1, <3>2, MulMono
      <4> HIDE DEF first, final, end
      <4> QED
        BY <1>0, <1>1, <2>1, <2>2, <4>1
    <3> QED
      BY <3>1, <3>2
  <2>4. i * BITS + j <= end
    <3>1. CASE i = final
      BY <1>0, <1>1, <2>1, <2>2, <3>1
    <3>2. CASE i # final
      <4>1. i * BITS + BITS <= final * BITS
        BY <1>0, <1>1, <2>1, <3>2, MulMono
      <4> HIDE DEF first, final, end
      <4> QED
        BY <1>0, <1>1, <2>1, <2>2, <4>1
    <3> QED
      BY <3>1, <3>2
  <2> QED
    BY <1>0, <2>1, <2>2, <2>3, <2>4
<1>4. ASSUME NEW p \in start..end
      PROVE  \E i \in first..final : \E j \in from(i)..to(i) : p = i * BITS + j
  <2> DEFINE i == p \div BITS
             j == p % BITS
  <2>1. p \in Nat /\ start <= p /\ p <= end
    BY <1>0
  <2>2. i \in Nat /\ j \in 0..(BITS - 1) /\ p = i * BITS + j
    BY <1>0, <2>1, DivMod
  <2>3. i \in first..final
    <3>1. first <= i
      BY <1>0, <2>1, DivLess
    <3>2. i <= final
      BY <1>0, <2>1, DivLess
    <3> HIDE DEF first, final, i
    <3> QED
      BY <1>1, <2>2, <3>1, <3>2
  <2> HIDE DEF i, j
  <2>4. i = first => start % BITS <= j
    <3> HIDE DEF first, end
    <3> QED
      BY <1>0, <1>1, <2>1, <2>2
  <2>5. i = final => j <= end % BITS
    <3> HIDE DEF final, end
    <3> QED
      BY <1>0, <1>1, <2>1, <2>2
  <2>6. j \in from(i)..to(i)
    BY <1>0, <1>1, <2>2, <2>4, <2>5
  <2> HIDE DEF from, to
  <2> QED
    BY <2>2, <2>3, <2>6
<1> HIDE DEF from, to, first, final, end
<1>5. UNION {{i * BITS + j : j \in from(i)..to(i)} : i \in first..final} = start..end
  BY <1>3, <1>4
<1> QED
  BY <1>2, <1>5 DEF Run, end

\* In every reachable state and for every request the scanning loops of pmm.c
\* return the first fitting block and the marking loop clears exactly its bits,
\* for words and bitmaps of any size.
THEOREM LoopsFindFirst == Spec => []LoopsComputeFirstFit
<1>1. ASSUME TypeOK PROVE LoopsComputeFirstFit
  <2> SUFFICES ASSUME NEW n \in 0..MaxBlock
               PROVE  /\ Scan(bitmap, n) = FirstFit(bitmap, n)
                      /\ AlignedScan(bitmap, n, ALIGN) = AlignedFit(bitmap, n, ALIGN)
                      /\ FirstFit(bitmap, n) # NULL =>
                           Marked(FirstFit(bitmap, n), FirstFit(bitmap, n) + n - 1)
                             = Run(FirstFit(bitmap, n), n)
    BY DEF LoopsComputeFirstFit
  <2>1. n \in Nat /\ bitmap \in [Page -> BOOLEAN] /\ ALIGN \in Nat \ {0}
    BY <1>1, AllocatorAssumption DEF TypeOK
  <2>2. ASSUME FirstFit(bitmap, n) # NULL
        PROVE  FirstFit(bitmap, n) \in Nat /\ n \in Nat \ {0}
    <3>1. Fits(bitmap, n) \in SUBSET Nat
      BY <2>1, Pages DEF Fits
    <3>2. FirstFit(bitmap, n) \in Fits(bitmap, n)
      BY <2>2, <3>1, FirstPage DEF FirstFit, First
    <3> QED
      BY <2>1, <3>1, <3>2 DEF Fits
  <2> QED
    BY <2>1, <2>2, ScanFinds, AlignedScanFinds, MarkedRun
<1> QED
  BY <1>1, PagesConserved, PTL DEF Conserved

-----------------------------------------------------------------------------
(* The heap                                                                *)

\* An element of a sequence is in the set the sequence is over.
LEMMA SeqElem ==
  ASSUME NEW S, NEW s \in Seq(S), NEW i \in 1..Len(s)
  PROVE  s[i] \in S
OBVIOUS

\* A set B of headers, z the sizes they hold: the blocks follow each other without a
\* gap from one end of the heap to the other.
Behind(z, b) == b + 12 + z[b]
Tiling(B, z) ==
  /\ B \subseteq Word /\ 0 \in B /\ z \in [B -> Nat]
  /\ \A b \in B : z[b] > 0 /\ Behind(z, b) \in B \cup {HEAP_SIZE}
  /\ \A b, c \in B : b < c => Behind(z, b) <= c
  /\ \A c \in B \ {0} : \E b \in B : Behind(z, b) = c

\* The memory holds the sizes of B; its flags say which blocks are in U, but for the
\* block x; every block but e knows the size of the one before; and no two free
\* blocks are neighbours, but for x.
Sized(m, B, z) == m \in [Word -> Nat] /\ \A b \in B : m[b + 8] = z[b]
Flagged(m, B, U, x) == U \subseteq B /\ \A b \in B \ {x} : m[b + 4] % 2 = 1 <=> b \in U
Known(m, B, z, e) ==
  \A b \in B : Behind(z, b) \in B /\ Behind(z, b) # e => m[Behind(z, b)] = z[b]
Separate(B, z, U, x) ==
  \A b \in B : Behind(z, b) \in B /\ b # x /\ Behind(z, b) # x => b \in U \/ Behind(z, b) \in U

\* U are the blocks of the allocated memory l, each long enough; the first is never
\* freed, and never the whole heap.
At(l, i) == l[i].at - HEADER
Owned(l, z, U) ==
  /\ l \in Seq([at : Nat, size : Nat]) /\ Len(l) >= 1 /\ At(l, 1) = 0
  /\ \A i \in 1..Len(l) : At(l, i) \in U /\ 0 < l[i].size /\ l[i].size <= z[At(l, i)]
  /\ \A i, j \in 1..Len(l) : At(l, i) = At(l, j) => i = j
  /\ \A b \in U : \E i \in 1..Len(l) : At(l, i) = b
  /\ Behind(z, 0) # HEAP_SIZE

Heap(m, l, B, z, U) ==
  /\ Tiling(B, z) /\ Sized(m, B, z) /\ Flagged(m, B, U, HEAP_SIZE)
  /\ Known(m, B, z, HEAP_SIZE) /\ Separate(B, z, U, HEAP_SIZE) /\ Owned(l, z, U)

\* The invariant of the heap, until a block misses that its neighbour was shortened.
HeapInv == stale \in BOOLEAN /\ (~stale => \E B, z, U : Heap(mem, live, B, z, U))

\* What the assumption says of the size of the heap.
LEMMA HeapFacts == /\ HEAP_SIZE \in Nat /\ HEAP_SIZE % 4 = 0 /\ HEAP_SIZE > 36
BY HeapAssumption

\* The fields of a header that fits are words of the heap.
LEMMA WordFacts ==
  ASSUME NEW b \in Nat, b % 4 = 0, b + 12 <= HEAP_SIZE
  PROVE  b \in Word /\ b + 4 \in Word /\ b + 8 \in Word
BY HeapFacts DEF Word

\* The remainder of two whole numbers of words is one.
LEMMA Remainder ==
  ASSUME NEW x \in Nat, NEW a \in Nat, a > 0, x % 4 = 0, a % 4 = 0
  PROVE  (x % a) % 4 = 0
<1>1. PICK j \in Nat : x = 4 * j
  <2>1. x \div 4 \in Nat /\ x = 4 * (x \div 4)
    OBVIOUS
  <2> QED
    BY <2>1
<1>2. PICK k \in Nat : a = 4 * k
  <2>1. a \div 4 \in Nat /\ a = 4 * (a \div 4)
    OBVIOUS
  <2> QED
    BY <2>1
<1>3. PICK d \in Nat, r \in 0..(a - 1) : x = d * a + r /\ x % a = r
  <2>1. x \div a \in Nat /\ x % a \in 0..(a - 1) /\ x = (x \div a) * a + (x % a)
    BY DivMod
  <2> QED
    BY <2>1
<1>4. d * a = 4 * (d * k) /\ d * k \in Nat
  BY <1>2, Z3
<1>5. r = 4 * j - 4 * (d * k)
  BY <1>1, <1>3, <1>4
<1> DEFINE q == d * k
<1>6. r = 4 * j - 4 * q /\ q \in Nat
  BY <1>4, <1>5
<1> HIDE DEF q
<1>7. r % 4 = 0
  BY <1>3, <1>6
<1> QED
  BY <1>3, <1>7

\* The padding is a whole number of words, and at least one.
LEMMA Padding ==
  ASSUME NEW b \in Nat, b % 4 = 0, NEW a \in Nat, a > 0, a % 4 = 0
  PROVE  padding(b, a) \in Nat /\ padding(b, a) > 0 /\ padding(b, a) % 4 = 0
<1> DEFINE r == (b + 12) % a
<1>1. r \in 0..(a - 1)
  BY DivMod
<1>2. r % 4 = 0
  <2>1. b + 12 \in Nat /\ (b + 12) % 4 = 0
    OBVIOUS
  <2> QED
    BY <2>1, Remainder
<1>3. padding(b, a) = a - r
  BY DEF padding, HEADER
<1> HIDE DEF r
<1> QED
  BY <1>1, <1>2, <1>3

\* The numbers of one block.
LEMMA BlockNumbers ==
  ASSUME NEW b \in Word, NEW s \in Nat, s > 0, NEW e, e = b + 12 + s,
         e \in Word \/ e = HEAP_SIZE
  PROVE  /\ b \in Nat /\ b % 4 = 0 /\ s % 4 = 0 /\ e \in Nat /\ e % 4 = 0
         /\ e <= HEAP_SIZE /\ b + 12 < HEAP_SIZE /\ b + 4 \in Word /\ b + 8 \in Word
         /\ b < HEAP_SIZE
<1>1. b \in Nat /\ b % 4 = 0 /\ b < HEAP_SIZE /\ e \in Nat /\ e % 4 = 0 /\ e <= HEAP_SIZE
  BY HeapFacts DEF Word
<1>2. b + 12 < HEAP_SIZE /\ s % 4 = 0
  BY <1>1, HeapFacts
<1> QED
  BY <1>1, <1>2, WordFacts, HeapFacts

\* What a tiling says of one of its blocks.
LEMMA TilingFacts ==
  ASSUME NEW B, NEW z, Tiling(B, z)
  PROVE  /\ \A b \in B : /\ b \in Nat /\ b % 4 = 0 /\ z[b] \in Nat /\ z[b] > 0 /\ z[b] % 4 = 0
                         /\ Behind(z, b) = b + 12 + z[b] /\ Behind(z, b) \in Nat
                         /\ Behind(z, b) <= HEAP_SIZE /\ b + 12 < HEAP_SIZE
                         /\ b \in Word /\ b + 4 \in Word /\ b + 8 \in Word
         /\ HEAP_SIZE \notin B /\ HEAP_SIZE \in Nat
<1>1. ASSUME NEW b \in B
      PROVE  /\ b \in Nat /\ b % 4 = 0 /\ z[b] \in Nat /\ z[b] > 0 /\ z[b] % 4 = 0
             /\ Behind(z, b) = b + 12 + z[b] /\ Behind(z, b) \in Nat
             /\ Behind(z, b) <= HEAP_SIZE /\ b + 12 < HEAP_SIZE
             /\ b \in Word /\ b + 4 \in Word /\ b + 8 \in Word
  <2>1. b \in Word /\ z[b] \in Nat /\ z[b] > 0 /\ Behind(z, b) = b + 12 + z[b]
        /\ (Behind(z, b) \in Word \/ Behind(z, b) = HEAP_SIZE)
    BY DEF Tiling, Behind
  <2> QED
    BY <2>1, BlockNumbers
<1>2. HEAP_SIZE \notin Word
  BY HeapFacts DEF Word
<1> QED
  BY <1>1, <1>2, HeapFacts DEF Tiling

\* Two blocks lie one behind the other.
LEMMA Apart ==
  ASSUME NEW B, NEW z, Tiling(B, z), NEW b \in B, NEW c \in B, b # c
  PROVE  Behind(z, b) <= c \/ Behind(z, c) <= b
<1>1. b \in Nat /\ c \in Nat
  BY TilingFacts
<1>2. b < c \/ c < b
  BY <1>1
<1> QED
  BY <1>2 DEF Tiling

\* The words of two headers are different ones, and a block has one predecessor.
LEMMA HeadersApart ==
  ASSUME NEW B, NEW z, Tiling(B, z), NEW b \in B, NEW c \in B
  PROVE  /\ b + 4 # c /\ b + 8 # c /\ b + 4 # c + 8
         /\ b + 4 = c + 4 => b = c
         /\ b + 8 = c + 8 => b = c
         /\ Behind(z, b) = Behind(z, c) => b = c
         /\ Behind(z, b) # b /\ b < Behind(z, b)
<1>1. /\ b \in Nat /\ c \in Nat /\ z[b] \in Nat /\ z[c] \in Nat /\ z[b] > 0 /\ z[c] > 0
      /\ Behind(z, b) = b + 12 + z[b] /\ Behind(z, c) = c + 12 + z[c]
  BY TilingFacts
<1>2. b # c => Behind(z, b) <= c \/ Behind(z, c) <= b
  BY Apart
<1> DEFINE u == Behind(z, b)
           v == Behind(z, c)
           s == z[b]
           t == z[c]
<1>3. /\ b \in Nat /\ c \in Nat /\ s \in Nat /\ t \in Nat /\ s > 0 /\ t > 0
      /\ u = b + 12 + s /\ v = c + 12 + t /\ (b # c => u <= c \/ v <= b)
  BY <1>1, <1>2
<1> HIDE DEF u, v, s, t
<1>4. /\ b + 4 # c /\ b + 8 # c /\ b + 4 # c + 8
      /\ b + 4 = c + 4 => b = c
      /\ b + 8 = c + 8 => b = c
      /\ u = v => b = c
      /\ u # b /\ b < u
  BY <1>3
<1> QED
  BY <1>4 DEF u, v

\* M_LAST_BLOCK finds the block before.
LEMMA LastIs ==
  ASSUME NEW m, NEW B, NEW z, Tiling(B, z), Known(m, B, z, HEAP_SIZE), NEW c \in B, c # 0
  PROVE  /\ M_LAST_BLOCK(m, c) \in B /\ Behind(z, M_LAST_BLOCK(m, c)) = c
         /\ M_LAST_BLOCK(m, c) < c
<1>1. PICK b \in B : Behind(z, b) = c
  BY DEF Tiling
<1>2. m[c] = z[b]
  BY <1>1, TilingFacts DEF Known
<1>3. b \in Nat /\ z[b] \in Nat /\ c = b + 12 + z[b]
  BY <1>1, TilingFacts
<1>4. M_LAST_BLOCK(m, c) = b /\ b < c
  BY <1>2, <1>3 DEF M_LAST_BLOCK, prev_size, HEADER
<1> QED
  BY <1>1, <1>4

\* M_NEXT_BLOCK finds the block behind.
LEMMA NextIs ==
  ASSUME NEW m, NEW B, NEW z, Tiling(B, z), Sized(m, B, z), NEW b \in B
  PROVE  M_NEXT_BLOCK(m, b) = Behind(z, b)
<1>1. m[b + 8] = z[b] /\ b \in Nat /\ z[b] \in Nat
  BY TilingFacts DEF Sized
<1> QED
  BY <1>1 DEF M_NEXT_BLOCK, size, HEADER, Behind

\* The walk from heap_start meets the headers of the tiling and nothing else: it
\* stays among them, 12 bytes or more a step, and the first one it missed would have
\* a predecessor it met.
LEMMA WalkIs ==
  ASSUME NEW m, NEW B, NEW z, Tiling(B, z), Sized(m, B, z)
  PROVE  Blocks(m) = B
<1> DEFINE K == HEAP_SIZE \div HEADER
           V == B \cup {HEAP_SIZE}
           next(b) == IF size(b) \in Word THEN M_NEXT_BLOCK(m, b) ELSE HEAP_SIZE
           Step(w) == [i \in 0..K |-> IF i = 0 THEN 0 ELSE next(w[i - 1])]
           walk == CHOOSE w : w = Step(w)
           stp == [i \in Nat |-> [x \in V |-> next(x)]]
<1>1. K \in Nat /\ K = HEAP_SIZE \div 12
  BY HeapFacts DEF HEADER
<1>2. \A b \in B : next(b) = Behind(z, b) /\ size(b) \in Word
  BY TilingFacts, NextIs DEF size
<1>3. next(HEAP_SIZE) = HEAP_SIZE /\ size(HEAP_SIZE) \notin Word
  BY HeapFacts DEF size, Word
<1>4. \A b \in B : Behind(z, b) \in V
  BY DEF Tiling
<1> HIDE DEF next, V, K
<1>5. \A x \in V : next(x) \in V
  BY <1>2, <1>3, <1>4 DEF V
<1>6. 0 \in V
  BY DEF V, Tiling
<1>7. walk = Step(walk)
  <2>1. stp \in [Nat -> [V -> V]]
    BY <1>5
  <2> HIDE DEF stp
  <2>2. PICK f : Computed(f, K, V, 0, stp)
    BY <1>1, <1>6, <2>1, Recursion
  <2>3. f \in [0..K -> V] /\ f[0] = 0 /\ \A i \in 1..K : f[i] = stp[i][f[i - 1]]
    BY <2>2 DEF Computed
  <2>4. ASSUME NEW i \in 0..K PROVE f[i] = IF i = 0 THEN 0 ELSE next(f[i - 1])
    <3>1. CASE i = 0
      BY <2>3, <3>1
    <3>2. CASE i # 0
      <4>1. i \in 1..K /\ i - 1 \in 0..K /\ i \in Nat
        BY <1>1, <3>2
      <4>2. f[i - 1] \in V
        BY <2>3, <4>1
      <4>3. stp[i][f[i - 1]] = next(f[i - 1])
        BY <4>1, <4>2 DEF stp
      <4> QED
        BY <2>3, <3>2, <4>1, <4>3
    <3> QED
      BY <3>1, <3>2
  <2>5. f = Step(f)
    BY <2>3, <2>4
  <2>6. \E w : w = Step(w)
    BY <2>5
  <2> HIDE DEF Step
  <2> QED
    BY <2>6
<1>8. \A i \in 0..K : walk[i] = IF i = 0 THEN 0 ELSE next(walk[i - 1])
  <2> HIDE DEF walk
  <2> QED
    BY <1>7
<1>9. Blocks(m) = {b \in {walk[i] : i \in 0..K} : size(b) \in Word}
  BY DEF Blocks, walk, Step, next, K
<1> HIDE DEF walk
<1> DEFINE Met(i) == walk[i] = HEAP_SIZE \/ (walk[i] \in B /\ 12 * i <= walk[i])
<1>10. \A i \in 0..K : Met(i)
  <2> DEFINE Bad == {i \in 0..K : ~Met(i)}
  <2>1. SUFFICES ASSUME Bad # {} PROVE FALSE
    OBVIOUS
  <2>2. Bad \in SUBSET Nat
    BY <1>1
  <2>3. PICK i \in Bad : \A j \in Bad : i <= j
    <3> HIDE DEF Bad
    <3> QED
      BY <2>1, <2>2, Least
  <2>4. i \in 0..K /\ ~Met(i)
    OBVIOUS
  <2>5. i # 0
    <3>1. i = 0 => walk[i] = 0 /\ 0 \in B /\ 12 * i = 0
      BY <1>8, <2>4 DEF Tiling
    <3> QED
      BY <2>4, <3>1
  <2>6. i - 1 \in 0..K /\ ~(i <= i - 1)
    BY <1>1, <2>4, <2>5
  <2>7. i - 1 \notin Bad
    <3> HIDE DEF Bad
    <3> QED
      BY <2>3, <2>6
  <2>8. Met(i - 1)
    BY <2>6, <2>7
  <2>9. walk[i] = next(walk[i - 1])
    BY <1>8, <2>4, <2>5
  <2>10. CASE walk[i - 1] = HEAP_SIZE
    BY <1>3, <2>4, <2>9, <2>10
  <2>11. CASE walk[i - 1] \in B /\ 12 * (i - 1) <= walk[i - 1]
    <3> DEFINE b == walk[i - 1]
               e == Behind(z, b)
    <3>1. b \in B /\ 12 * (i - 1) <= b /\ e \in V /\ walk[i] = e
      BY <1>2, <1>4, <2>9, <2>11
    <3>2. b \in Nat /\ z[b] \in Nat /\ e = b + 12 + z[b] /\ i \in Nat
      BY <2>4, <3>1, TilingFacts
    <3>3. 12 * i <= e
      <4> HIDE DEF b, e
      <4> QED
        BY <3>1, <3>2
    <3> QED
      BY <2>4, <3>1, <3>3 DEF V
  <2> QED
    BY <2>8, <2>10, <2>11
<1>11. Blocks(m) \subseteq B
  <2> SUFFICES ASSUME NEW b \in Blocks(m) PROVE b \in B
    OBVIOUS
  <2>1. PICK i \in 0..K : b = walk[i]
    BY <1>9
  <2>2. size(b) \in Word
    BY <1>9
  <2> QED
    BY <1>3, <1>10, <2>1, <2>2
<1>12. B \subseteq {walk[i] : i \in 0..K}
  <2> DEFINE Bad == {b \in B : b \notin {walk[i] : i \in 0..K}}
  <2>1. SUFFICES ASSUME Bad # {} PROVE FALSE
    OBVIOUS
  <2>2. Bad \in SUBSET Nat
    BY TilingFacts
  <2>3. PICK c \in Bad : \A j \in Bad : c <= j
    <3> HIDE DEF Bad
    <3> QED
      BY <2>1, <2>2, Least
  <2>4. c \in B /\ c \notin {walk[i] : i \in 0..K}
    OBVIOUS
  <2>5. c # 0
    <3>1. 0 \in 0..K /\ walk[0] = 0
      BY <1>1, <1>8
    <3> QED
      BY <2>4, <3>1
  <2>6. PICK b \in B : Behind(z, b) = c
    BY <2>4, <2>5 DEF Tiling
  <2>7. b \in Nat /\ c \in Nat /\ b + 12 <= c /\ c < HEAP_SIZE
    <3>1. b \in Nat /\ z[b] \in Nat /\ c = b + 12 + z[b] /\ c \in Nat /\ c + 12 < HEAP_SIZE
      BY <2>4, <2>6, TilingFacts
    <3> QED
      BY <3>1, HeapFacts
  <2>8. b \notin Bad
    <3>1. ~(c <= b)
      BY <2>7
    <3> HIDE DEF Bad
    <3> QED
      BY <2>3, <3>1
  <2>9. PICK i \in 0..K : b = walk[i]
    BY <2>8
  <2>10. 12 * i <= b
    <3>1. walk[i] # HEAP_SIZE
      BY <2>9, TilingFacts
    <3> QED
      BY <1>10, <2>9, <3>1
  <2>11. i + 1 \in 0..K /\ i + 1 # 0 /\ (i + 1) - 1 = i
    <3>1. 12 * (i + 1) <= HEAP_SIZE /\ i \in Nat
      BY <2>7, <2>10, HeapFacts
    <3> QED
      BY <1>1, <3>1, HeapFacts
  <2>12. walk[i + 1] = c
    BY <1>2, <1>8, <2>6, <2>9, <2>11
  <2> QED
    BY <2>4, <2>11, <2>12
<1> QED
  BY <1>2, <1>9, <1>11, <1>12

\* The smallest of a set of blocks is one of them.
LEMMA BestOfIn ==
  ASSUME NEW m, NEW S \in SUBSET Nat, S # {}, \A b \in S : m[size(b)] \in Nat
  PROVE  BestOf(m, S) \in S
<1> DEFINE Z == {m[size(b)] : b \in S}
<1>1. PICK s \in Z : \A t \in Z : s <= t
  <2>1. Z \in SUBSET Nat /\ Z # {}
    OBVIOUS
  <2> HIDE DEF Z
  <2> QED
    BY <2>1, Least
<1> DEFINE T == {b \in S : m[size(b)] = s}
<1>2. PICK b \in T : \A c \in T : b <= c
  <2>1. T \in SUBSET Nat /\ T # {}
    BY <1>1
  <2> HIDE DEF T
  <2> QED
    BY <2>1, Least
<1>3. ASSUME NEW c \in S
      PROVE  m[size(b)] < m[size(c)] \/ (m[size(b)] = m[size(c)] /\ b <= c)
  <2>1. m[size(b)] = s /\ s \in Nat /\ m[size(c)] \in Nat /\ s <= m[size(c)]
    BY <1>1, <1>2
  <2>2. CASE m[size(c)] = s
    BY <1>2, <2>1, <2>2
  <2>3. CASE m[size(c)] # s
    BY <2>1, <2>3
  <2> QED
    BY <2>2, <2>3
<1>4. b \in S
  BY <1>2
<1> HIDE DEF Z, T
<1> QED
  BY <1>3, <1>4, Zenon DEF BestOf

\* A block and the one behind it become one.
Joined(B, z, b) ==
  [x \in B \ {Behind(z, b)} |-> IF x = b THEN z[b] + 12 + z[Behind(z, b)] ELSE z[x]]

LEMMA JoinTiles ==
  ASSUME NEW B, NEW z, Tiling(B, z), NEW b \in B, Behind(z, b) \in B,
         NEW B2, B2 = B \ {Behind(z, b)}, NEW z2, z2 = Joined(B, z, b)
  PROVE  /\ Tiling(B2, z2) /\ b \in B2
         /\ Behind(z2, b) = Behind(z, Behind(z, b))
         /\ z2[b] = z[b] + 12 + z[Behind(z, b)]
         /\ \A x \in B2 : x # b => z2[x] = z[x] /\ Behind(z2, x) = Behind(z, x)
<1> DEFINE c == Behind(z, b)
<1>1. b \in Nat /\ c \in Nat /\ z[b] \in Nat /\ z[c] \in Nat /\ z[b] > 0 /\ z[c] > 0
      /\ c = b + 12 + z[b] /\ Behind(z, c) = c + 12 + z[c]
  BY TilingFacts
<1>2. b \in B2 /\ B2 \subseteq B /\ b # c
  BY HeadersApart
<1>3. z2[b] = z[b] + 12 + z[c] /\ \A x \in B2 : x # b => z2[x] = z[x]
  BY <1>2 DEF Joined
<1>4. Behind(z2, b) = Behind(z, c)
  <2>1. Behind(z2, b) = b + 12 + (z[b] + 12 + z[c])
    BY <1>3 DEF Behind
  <2> HIDE DEF c
  <2> QED
    BY <1>1, <2>1
<1>5. \A x \in B2 : x # b => Behind(z2, x) = Behind(z, x)
  BY <1>3 DEF Behind
<1>6. B2 \subseteq Word /\ 0 \in B2
  <2>1. c # 0
    BY <1>1
  <2> QED
    BY <1>2, <2>1 DEF Tiling
<1>7. z2 \in [B2 -> Nat]
  <2>1. \A x \in B2 : (IF x = b THEN z[b] + 12 + z[c] ELSE z[x]) \in Nat
    BY <1>1, <1>2, TilingFacts
  <2> QED
    BY <2>1 DEF Joined
<1> HIDE DEF c
<1>8. ASSUME NEW x \in B2 PROVE z2[x] > 0 /\ Behind(z2, x) \in B2 \cup {HEAP_SIZE}
  <2>1. CASE x = b
    <3>1. Behind(z, c) \in B \cup {HEAP_SIZE} /\ Behind(z, c) # c
      BY HeadersApart DEF Tiling, c
    <3> QED
      BY <1>1, <1>3, <1>4, <2>1, <3>1 DEF c
  <2>2. CASE x # b
    <3>1. Behind(z, x) \in B \cup {HEAP_SIZE} /\ z[x] > 0 /\ Behind(z, x) # c
      BY <1>2, <2>2, HeadersApart DEF Tiling, c
    <3> QED
      BY <1>3, <1>5, <2>2, <3>1 DEF c
  <2> QED
    BY <2>1, <2>2
<1>9. ASSUME NEW x \in B2, NEW y \in B2, x < y PROVE Behind(z2, x) <= y
  <2>1. CASE x = b
    <3>1. y # c /\ c \in B /\ y \in B
      BY DEF c
    <3>2. Behind(z, b) <= y
      BY <1>9, <2>1 DEF Tiling
    <3>3. c < y
      <4>1. y \in Nat
        BY TilingFacts
      <4> QED
        BY <1>1, <3>1, <3>2, <4>1 DEF c
    <3>4. Behind(z, c) <= y
      BY <3>1, <3>3 DEF Tiling
    <3> QED
      BY <1>4, <2>1, <3>4
  <2>2. CASE x # b
    BY <1>2, <1>5, <1>9, <2>2 DEF Tiling
  <2> QED
    BY <2>1, <2>2
<1>10. ASSUME NEW y \in B2 \ {0} PROVE \E x \in B2 : Behind(z2, x) = y
  <2>1. PICK x \in B : Behind(z, x) = y
    BY <1>2 DEF Tiling
  <2>2. CASE x = c
    BY <1>2, <1>4, <2>1, <2>2
  <2>3. CASE x # c
    <3>1. x \in B2 /\ x # b
      BY <2>1, <2>3 DEF c
    <3> QED
      BY <1>5, <2>1, <3>1
  <2> QED
    BY <2>2, <2>3
<1>11. Tiling(B2, z2)
  BY <1>6, <1>7, <1>8, <1>9, <1>10 DEF Tiling
<1> QED
  BY <1>2, <1>3, <1>4, <1>5, <1>11 DEF c

\* The first n bytes of a block stay in it, the rest becomes a block.
Cut(B, z, b, n) ==
  [x \in B \cup {b + n + 12} |-> IF x = b THEN n
                                 ELSE IF x = b + n + 12 THEN z[b] - 12 - n ELSE z[x]]

LEMMA CutNumbers ==
  ASSUME NEW b \in Nat, NEW s \in Nat, NEW n \in Nat, b % 4 = 0, s % 4 = 0, n % 4 = 0, n > 0,
         s > n + 12, b + 12 + s <= HEAP_SIZE
  PROVE  /\ b + n + 12 \in Nat /\ (b + n + 12) % 4 = 0 /\ s - 12 - n \in Nat /\ s - 12 - n > 0
         /\ (s - 12 - n) % 4 = 0 /\ (b + n + 12) + 12 + (s - 12 - n) = b + 12 + s
         /\ b + n + 12 < b + 12 + s /\ b + n + 12 \in Word /\ b < b + n + 12
<1>1. /\ b + n + 12 \in Nat /\ (b + n + 12) % 4 = 0 /\ s - 12 - n \in Nat /\ s - 12 - n > 0
      /\ (s - 12 - n) % 4 = 0 /\ (b + n + 12) + 12 + (s - 12 - n) = b + 12 + s
      /\ b + n + 12 < b + 12 + s /\ b < b + n + 12
  OBVIOUS
<1> QED
  BY <1>1, HeapFacts DEF Word

LEMMA CutTiles ==
  ASSUME NEW B, NEW z, Tiling(B, z), NEW b \in B, NEW n \in Nat, n > 0, n % 4 = 0, z[b] > n + 12,
         NEW c, c = b + n + 12, NEW B2, B2 = B \cup {c}, NEW z2, z2 = Cut(B, z, b, n)
  PROVE  /\ Tiling(B2, z2) /\ c \notin B /\ z2[b] = n /\ z2[c] = z[b] - 12 - n
         /\ Behind(z2, b) = c /\ Behind(z2, c) = Behind(z, b)
         /\ \A x \in B : x # b => z2[x] = z[x] /\ Behind(z2, x) = Behind(z, x)
<1> DEFINE s == z[b]
           e == Behind(z, b)
           r == s - 12 - n
<1>1. b \in Nat /\ s \in Nat /\ b % 4 = 0 /\ s % 4 = 0 /\ e = b + 12 + s /\ e <= HEAP_SIZE /\ e \in Nat
  BY TilingFacts
<1>2. /\ c \in Nat /\ r \in Nat /\ r > 0 /\ c + 12 + r = e /\ c < e /\ c \in Word /\ b < c
      /\ b + 12 + n = c
  <2>1. s > n + 12 /\ b + 12 + s <= HEAP_SIZE
    BY <1>1
  <2> HIDE DEF s, e
  <2>2. /\ b + n + 12 \in Nat /\ s - 12 - n \in Nat /\ s - 12 - n > 0
        /\ (b + n + 12) + 12 + (s - 12 - n) = b + 12 + s
        /\ b + n + 12 < b + 12 + s /\ b + n + 12 \in Word /\ b < b + n + 12
    BY <1>1, <2>1, CutNumbers
  <2>3. b + 12 + n = c
    BY <1>1
  <2> QED
    BY <1>1, <2>2, <2>3
<1>3. c \notin B
  <2> SUFFICES ASSUME c \in B PROVE FALSE
    OBVIOUS
  <2>1. e <= c
    BY <1>2 DEF Tiling
  <2> HIDE DEF s, e, r
  <2> QED
    BY <1>1, <1>2, <2>1
<1>4. z2[b] = n /\ z2[c] = r /\ \A x \in B : x # b => z2[x] = z[x]
  <2>1. b # c
    BY <1>1, <1>2
  <2> HIDE DEF s, e
  <2> QED
    BY <1>3, <2>1 DEF Cut, r, s
<1>5. Behind(z2, b) = c /\ Behind(z2, c) = e /\ \A x \in B : x # b => Behind(z2, x) = Behind(z, x)
  <2>1. Behind(z2, b) = b + 12 + n /\ Behind(z2, c) = c + 12 + r
    BY <1>4 DEF Behind
  <2>2. \A x \in B : x # b => Behind(z2, x) = Behind(z, x)
    BY <1>4 DEF Behind
  <2> HIDE DEF s, e, r
  <2> QED
    BY <1>2, <2>1, <2>2
<1>6. B2 \subseteq Word /\ 0 \in B2
  BY <1>2 DEF Tiling
<1>7. z2 \in [B2 -> Nat]
  <2>1. \A x \in B2 : (IF x = b THEN n ELSE IF x = c THEN r ELSE z[x]) \in Nat
    BY <1>2, TilingFacts
  <2> QED
    BY <2>1 DEF Cut
<1> HIDE DEF s, e, r
<1>8. ASSUME NEW x \in B2 PROVE z2[x] > 0 /\ Behind(z2, x) \in B2 \cup {HEAP_SIZE}
  <2>1. e \in B \cup {HEAP_SIZE}
    BY DEF Tiling, e
  <2>2. CASE x = b
    BY <1>4, <1>5, <2>2
  <2>3. CASE x = c
    BY <1>2, <1>4, <1>5, <2>1, <2>3
  <2>4. CASE x \in B /\ x # b
    BY <1>4, <1>5, <2>4 DEF Tiling
  <2> QED
    BY <2>2, <2>3, <2>4
<1>9. ASSUME NEW x \in B2, NEW y \in B2, x < y PROVE Behind(z2, x) <= y
  <2>0. \A w \in B : w \in Nat
    BY TilingFacts
  <2>1. CASE x = b
    <3>1. CASE y = c
      BY <1>2, <1>5, <2>1, <3>1
    <3>2. CASE y \in B
      <4>1. e <= y /\ y \in Nat
        BY <1>9, <2>0, <2>1, <3>2 DEF Tiling, e
      <4> QED
        BY <1>1, <1>2, <1>5, <2>1, <4>1
    <3> QED
      BY <3>1, <3>2
  <2>2. CASE x = c
    <3>1. y \in B /\ y \in Nat /\ b < y
      BY <1>1, <1>2, <1>9, <2>0, <2>2
    <3>2. e <= y
      BY <3>1 DEF Tiling, e
    <3> QED
      BY <1>5, <2>2, <3>2
  <2>3. CASE x \in B /\ x # b
    <3>1. CASE y = c
      <4>1. x < b
        <5>1. ASSUME ~(x < b) PROVE FALSE
          <6>1. b < x /\ x \in Nat
            BY <1>1, <2>0, <2>3, <5>1
          <6>2. e <= x
            BY <2>3, <6>1 DEF Tiling, e
          <6> QED
            BY <1>1, <1>2, <1>9, <3>1, <6>1, <6>2
        <5> QED
          BY <5>1
      <4>2. Behind(z, x) <= b /\ Behind(z, x) \in Nat
        BY <2>3, <4>1, TilingFacts DEF Tiling
      <4> QED
        BY <1>1, <1>2, <1>5, <2>3, <3>1, <4>2
    <3>2. CASE y \in B
      BY <1>5, <1>9, <2>3, <3>2 DEF Tiling
    <3> QED
      BY <3>1, <3>2
  <2> QED
    BY <2>1, <2>2, <2>3
<1>10. ASSUME NEW y \in B2 \ {0} PROVE \E x \in B2 : Behind(z2, x) = y
  <2>1. CASE y = c
    BY <1>5, <2>1
  <2>2. CASE y \in B
    <3>1. PICK x \in B : Behind(z, x) = y
      BY <2>2 DEF Tiling
    <3>2. CASE x = b
      BY <1>5, <3>1, <3>2 DEF e
    <3>3. CASE x # b
      BY <1>5, <3>1, <3>3
    <3> QED
      BY <3>2, <3>3
  <2> QED
    BY <2>1, <2>2
<1>11. Tiling(B2, z2)
  BY <1>6, <1>7, <1>8, <1>9, <1>10 DEF Tiling
<1> QED
  BY <1>3, <1>4, <1>5, <1>11 DEF e, r, s

\* The start of the last block c moves up by pad bytes, which the block a before it
\* gets.
Shifted(B, z, a, c, pad) ==
  [x \in (B \ {c}) \cup {c + pad} |->
     IF x = a THEN z[a] + pad ELSE IF x = c + pad THEN z[c] - pad ELSE z[x]]

LEMMA ShiftTiles ==
  ASSUME NEW B, NEW z, Tiling(B, z), NEW c \in B, Behind(z, c) = HEAP_SIZE,
         NEW a \in B, Behind(z, a) = c, NEW pad \in Nat, pad > 0, pad % 4 = 0, pad < z[c],
         NEW d, d = c + pad, NEW B2, B2 = (B \ {c}) \cup {d}, NEW z2, z2 = Shifted(B, z, a, c, pad)
  PROVE  /\ Tiling(B2, z2) /\ z2[a] = z[a] + pad /\ z2[d] = z[c] - pad /\ a # c /\ a # d
         /\ Behind(z2, a) = d /\ Behind(z2, d) = HEAP_SIZE
         /\ \A x \in B : x # c => Behind(z, x) <= c
         /\ \A x \in B : x # a /\ x # c => z2[x] = z[x] /\ Behind(z2, x) = Behind(z, x) /\ x # d
<1> DEFINE s == z[c]
           t == z[a]
           r == s - pad
           u == t + pad
<1>1. /\ a \in Nat /\ c \in Nat /\ s \in Nat /\ t \in Nat /\ c % 4 = 0 /\ s % 4 = 0
      /\ c = a + 12 + t /\ c + 12 + s = HEAP_SIZE /\ a # c
  <2>1. Behind(z, a) = a + 12 + z[a] /\ Behind(z, c) = c + 12 + z[c]
    BY DEF Behind
  <2> QED
    BY <2>1, TilingFacts, HeadersApart
<1>2. pad < s /\ r = s - pad /\ u = t + pad
  OBVIOUS
<1> HIDE DEF s, t, r, u
<1>3. /\ d \in Nat /\ r \in Nat /\ r > 0 /\ u \in Nat /\ u > 0 /\ d + 12 + r = HEAP_SIZE
      /\ a + 12 + u = d /\ c < d /\ a < d /\ d < HEAP_SIZE /\ d \in Word /\ d # 0
  <2>1. /\ d \in Nat /\ r \in Nat /\ r > 0 /\ u \in Nat /\ u > 0 /\ d + 12 + r = HEAP_SIZE
        /\ a + 12 + u = d /\ c < d /\ a < d /\ d # 0
    BY <1>1, <1>2, HeapFacts
  <2>2. d % 4 = 0
    BY <1>1
  <2>3. d < HEAP_SIZE
    BY <2>1, HeapFacts
  <2> QED
    BY <2>1, <2>2, <2>3, HeapFacts DEF Word
<1>4. ASSUME NEW x \in B, x # c PROVE Behind(z, x) <= c /\ x < c
  <2>1. x \in Nat /\ Behind(z, x) \in Nat /\ x < Behind(z, x)
    BY TilingFacts, HeadersApart
  <2>2. ~(c < x)
    <3> SUFFICES ASSUME c < x PROVE FALSE
      OBVIOUS
    <3>1. HEAP_SIZE <= x /\ x + 12 < HEAP_SIZE
      BY <1>4, TilingFacts DEF Tiling
    <3> QED
      BY <2>1, <3>1, HeapFacts
  <2>3. x < c
    BY <1>1, <1>4, <2>1, <2>2
  <2> QED
    BY <1>4, <2>3 DEF Tiling
<1>5. d \notin B /\ a # d
  <2>1. d # c /\ ~(d < c) /\ a # d
    BY <1>1, <1>3
  <2> QED
    BY <1>4, <2>1
<1>6. z2[a] = u /\ z2[d] = r /\ \A x \in B : x # a /\ x # c => z2[x] = z[x]
  <2>1. a \in B2 /\ d \in B2 /\ \A x \in B : x # c => x \in B2
    BY <1>1
  <2>2. \A x \in B2 : z2[x] = IF x = a THEN z[a] + pad ELSE IF x = d THEN z[c] - pad ELSE z[x]
    BY DEF Shifted
  <2> QED
    BY <1>5, <2>1, <2>2 DEF u, r, s, t
<1>7. /\ Behind(z2, a) = d /\ Behind(z2, d) = HEAP_SIZE
      /\ \A x \in B : x # a /\ x # c => Behind(z2, x) = Behind(z, x)
  <2>1. Behind(z2, a) = a + 12 + u /\ Behind(z2, d) = d + 12 + r
    BY <1>6 DEF Behind
  <2>2. \A x \in B : x # a /\ x # c => Behind(z2, x) = Behind(z, x)
    BY <1>6 DEF Behind
  <2> QED
    BY <1>3, <2>1, <2>2
<1>8. B2 \subseteq Word /\ 0 \in B2
  <2>1. c # 0
    BY <1>1
  <2> QED
    BY <1>3, <2>1 DEF Tiling
<1>9. z2 \in [B2 -> Nat]
  <2>1. \A x \in B2 : (IF x = a THEN u ELSE IF x = d THEN r ELSE z[x]) \in Nat
    BY <1>3, TilingFacts
  <2> QED
    BY <2>1 DEF Shifted, u, r, s, t
<1>10. ASSUME NEW x \in B2 PROVE z2[x] > 0 /\ Behind(z2, x) \in B2 \cup {HEAP_SIZE}
  <2>1. CASE x = a
    BY <1>3, <1>6, <1>7, <2>1
  <2>2. CASE x = d
    BY <1>3, <1>6, <1>7, <2>2
  <2>3. CASE x \in B /\ x # a /\ x # c
    <3>1. Behind(z, x) \in B \cup {HEAP_SIZE} /\ z[x] > 0 /\ Behind(z, x) # c
      BY <2>3, HeadersApart DEF Tiling
    <3> QED
      BY <1>6, <1>7, <2>3, <3>1
  <2> QED
    BY <2>1, <2>2, <2>3
<1>11. ASSUME NEW x \in B2, NEW y \in B2, x < y PROVE Behind(z2, x) <= y
  <2>1. CASE x = a
    <3>1. CASE y = d
      BY <1>3, <1>7, <2>1, <3>1
    <3>2. CASE y \in B /\ y # c
      <4>1. c <= y /\ y < c /\ y \in Nat
        BY <1>4, <1>11, <2>1, <3>2, TilingFacts DEF Tiling
      <4> QED
        BY <1>1, <4>1
    <3> QED
      BY <3>1, <3>2
  <2>2. CASE x = d
    <3>1. CASE y = d
      BY <1>3, <1>11, <2>2, <3>1
    <3>2. CASE y \in B /\ y # c
      <4>1. y < c /\ y \in Nat
        BY <1>4, <3>2, TilingFacts
      <4> QED
        BY <1>1, <1>3, <1>11, <2>2, <4>1
    <3> QED
      BY <3>1, <3>2
  <2>3. CASE x \in B /\ x # a /\ x # c
    <3>1. Behind(z, x) <= c /\ Behind(z, x) \in Nat
      BY <1>4, <2>3, TilingFacts
    <3>2. CASE y = d
      BY <1>1, <1>3, <1>7, <2>3, <3>1, <3>2
    <3>3. CASE y \in B /\ y # c
      BY <1>7, <1>11, <2>3, <3>3 DEF Tiling
    <3> QED
      BY <3>2, <3>3
  <2> QED
    BY <2>1, <2>2, <2>3
<1>12. ASSUME NEW y \in B2 \ {0} PROVE \E x \in B2 : Behind(z2, x) = y
  <2>1. CASE y = d
    BY <1>1, <1>7, <2>1
  <2>2. CASE y \in B /\ y # c
    <3>1. PICK x \in B : Behind(z, x) = y
      BY <2>2 DEF Tiling
    <3>2. x # a /\ x # c
      <4>1. y # HEAP_SIZE
        BY <2>2, TilingFacts
      <4> QED
        BY <2>2, <3>1, <4>1
    <3> QED
      BY <1>7, <3>1, <3>2
  <2> QED
    BY <2>1, <2>2
<1>13. Tiling(B2, z2)
  BY <1>8, <1>9, <1>10, <1>11, <1>12 DEF Tiling
<1> QED
  BY <1>1, <1>4, <1>5, <1>6, <1>7, <1>13 DEF u, r, s, t

\* The n bytes of a new block are owned, whatever becomes of the others.
LEMMA OwnedMore ==
  ASSUME NEW l, NEW z, NEW U, Owned(l, z, U), NEW b \in Nat, b \notin U, NEW n \in Nat, n > 0,
         NEW z2, n <= z2[b], \A x \in U : z[x] \in Nat /\ z2[x] \in Nat /\ z[x] <= z2[x],
         Behind(z2, 0) # HEAP_SIZE
  PROVE  Owned(Append(l, [at |-> b + HEADER, size |-> n]), z2, U \cup {b})
<1> DEFINE k == Len(l)
           e == [at |-> b + HEADER, size |-> n]
           l2 == Append(l, e)
           R == [at : Nat, size : Nat]
<1>1. l \in Seq(R) /\ e \in R /\ k \in Nat /\ k >= 1 /\ At(l, 1) = 0
  BY DEF Owned, HEADER
<1>2. ASSUME NEW i \in 1..k
      PROVE  /\ At(l, i) \in U /\ 0 < l[i].size /\ l[i].size <= z[At(l, i)] /\ l[i].size \in Nat
  <2>1. l[i] \in R
    BY <1>1, SeqElem
  <2> QED
    BY <2>1 DEF Owned
<1>3. /\ \A i, j \in 1..k : At(l, i) = At(l, j) => i = j
      /\ \A x \in U : \E i \in 1..k : At(l, i) = x
  BY DEF Owned
<1> HIDE DEF R, e
<1>4. l2 \in Seq(R) /\ Len(l2) = k + 1 /\ l2[k + 1] = e /\ \A i \in 1..k : l2[i] = l[i]
  BY <1>1
<1> HIDE DEF l2, k
<1>5. \A i \in 1..k : At(l2, i) = At(l, i) /\ l2[i].size = l[i].size
  BY <1>4 DEF At
<1>6. At(l2, k + 1) = b /\ l2[k + 1].size = n
  BY <1>4 DEF At, e, HEADER
<1>7. ASSUME NEW i \in 1..(k + 1)
      PROVE  At(l2, i) \in U \cup {b} /\ 0 < l2[i].size /\ l2[i].size <= z2[At(l2, i)]
  <2>1. CASE i \in 1..k
    <3>1. At(l, i) \in U /\ 0 < l[i].size /\ l[i].size <= z[At(l, i)] /\ l[i].size \in Nat
      BY <1>2, <2>1
    <3>2. z[At(l, i)] \in Nat /\ z2[At(l, i)] \in Nat /\ z[At(l, i)] <= z2[At(l, i)]
      BY <3>1
    <3>3. l[i].size <= z2[At(l, i)]
      BY <3>1, <3>2
    <3> QED
      BY <1>5, <2>1, <3>1, <3>3
  <2>2. CASE i = k + 1
    BY <1>6, <2>2
  <2> QED
    BY <1>1, <2>1, <2>2
<1>8. ASSUME NEW i \in 1..(k + 1), NEW j \in 1..(k + 1), At(l2, i) = At(l2, j) PROVE i = j
  <2>1. \A x \in 1..k : At(l2, x) \in U
    BY <1>2, <1>5
  <2>2. CASE i \in 1..k /\ j \in 1..k
    BY <1>3, <1>5, <1>8, <2>2
  <2>3. CASE ~(i \in 1..k /\ j \in 1..k)
    BY <1>1, <1>6, <1>8, <2>1, <2>3
  <2> QED
    BY <2>2, <2>3
<1>9. ASSUME NEW x \in U \cup {b} PROVE \E i \in 1..(k + 1) : At(l2, i) = x
  <2>1. CASE x \in U
    <3>1. PICK i \in 1..k : At(l, i) = x
      BY <1>3, <2>1
    <3>2. i \in 1..(k + 1)
      BY <1>1
    <3> QED
      BY <1>5, <3>1, <3>2
  <2>2. CASE x = b
    BY <1>1, <1>6, <2>2
  <2> QED
    BY <2>1, <2>2
<1>10. Len(l2) >= 1 /\ At(l2, 1) = 0
  BY <1>1, <1>4, <1>5
<1> QED
  BY <1>4, <1>7, <1>8, <1>9, <1>10 DEF Owned, l2, e, R

\* What prepareBestBlock finds: the block b is free or its flags are not yet written.
Ready(m, l, B, z, U, b) ==
  /\ Tiling(B, z) /\ Sized(m, B, z) /\ Flagged(m, B, U, b) /\ Known(m, B, z, HEAP_SIZE)
  /\ Separate(B, z, U, b) /\ Owned(l, z, U) /\ b \in B /\ b \notin U

\* Without a split the whole block becomes allocated.
LEMMA PlacedWhole ==
  ASSUME NEW m, NEW l, NEW B, NEW z, NEW U, NEW b, Ready(m, l, B, z, U, b),
         NEW n \in Nat, n > 0, n <= z[b], ~(z[b] > n + 12)
  PROVE  Heap(prepareBestBlock(m, b, n), Append(l, [at |-> b + HEADER, size |-> n]), B, z, U \cup {b})
<1> DEFINE m2 == prepareBestBlock(m, b, n)
<1>1. /\ Tiling(B, z) /\ Sized(m, B, z) /\ Flagged(m, B, U, b) /\ Known(m, B, z, HEAP_SIZE)
      /\ Separate(B, z, U, b) /\ Owned(l, z, U) /\ b \in B /\ b \notin U
  BY DEF Ready
<1>2. m2 = [m EXCEPT ![b + 4] = 1]
  <2>1. m[b + 8] = z[b]
    BY <1>1 DEF Sized
  <2> QED
    BY <2>1 DEF prepareBestBlock, size, flags, HEADER
<1>3. m \in [Word -> Nat] /\ b + 4 \in Word /\ \A x \in B : x \in Word /\ x + 4 \in Word /\ x + 8 \in Word
  BY <1>1, TilingFacts DEF Sized
<1> HIDE DEF m2
<1>4. /\ m2 \in [Word -> Nat] /\ m2[b + 4] = 1 /\ \A w \in Word : w # b + 4 => m2[w] = m[w]
  BY <1>2, <1>3
<1>5. \A x \in B : m2[x] = m[x] /\ m2[x + 8] = m[x + 8] /\ (x # b => m2[x + 4] = m[x + 4])
  <2>1. \A x \in B : x # b + 4 /\ x + 8 # b + 4 /\ (x + 4 = b + 4 => x = b)
    BY <1>1, HeadersApart
  <2> QED
    BY <1>3, <1>4, <2>1
<1>6. Sized(m2, B, z) /\ Known(m2, B, z, HEAP_SIZE)
  BY <1>1, <1>4, <1>5 DEF Sized, Known
<1>7. Flagged(m2, B, U \cup {b}, HEAP_SIZE)
  BY <1>1, <1>4, <1>5 DEF Flagged
<1>8. Separate(B, z, U \cup {b}, HEAP_SIZE)
  BY <1>1 DEF Separate
<1>9. Owned(Append(l, [at |-> b + HEADER, size |-> n]), z, U \cup {b})
  <2>1. \A x \in U : z[x] \in Nat /\ z[x] <= z[x]
    BY <1>1, TilingFacts DEF Flagged
  <2>2. b \in Nat /\ Behind(z, 0) # HEAP_SIZE
    BY <1>1, TilingFacts DEF Owned
  <2> QED
    BY <1>1, <2>1, <2>2, OwnedMore
<1> QED
  BY <1>1, <1>6, <1>7, <1>8, <1>9 DEF Heap, m2

\* The last block is split.  The word that next misses by a header lies in the new
\* free block: it may be the flags of that block, and then it is 4, which still means
\* free.
LEMMA PlacedSplit ==
  ASSUME NEW m, NEW l, NEW B, NEW z, NEW U, NEW b, Ready(m, l, B, z, U, b),
         NEW n \in Nat, n > 0, n % 4 = 0, z[b] > n + 12, Behind(z, b) = HEAP_SIZE
  PROVE  \E B2, z2 : Heap(prepareBestBlock(m, b, n),
                          Append(l, [at |-> b + HEADER, size |-> n]), B2, z2, U \cup {b})
<1> DEFINE m2 == prepareBestBlock(m, b, n)
           c == b + n + 12
           s == z[b]
           r == s - 12 - n
           f == b + s
           B2 == B \cup {c}
           z2 == Cut(B, z, b, n)
           U2 == U \cup {b}
<1>1. /\ Tiling(B, z) /\ Sized(m, B, z) /\ Flagged(m, B, U, b) /\ Known(m, B, z, HEAP_SIZE)
      /\ Separate(B, z, U, b) /\ Owned(l, z, U) /\ b \in B /\ b \notin U
  BY DEF Ready
<1>2. /\ Tiling(B2, z2) /\ c \notin B /\ z2[b] = n /\ z2[c] = r
      /\ Behind(z2, b) = c /\ Behind(z2, c) = HEAP_SIZE
      /\ \A x \in B : x # b => z2[x] = z[x] /\ Behind(z2, x) = Behind(z, x)
  BY <1>1, CutTiles
<1>3. /\ b \in Nat /\ s \in Nat /\ b % 4 = 0 /\ s % 4 = 0 /\ b + 12 + s = HEAP_SIZE
      /\ b \in Word /\ b + 4 \in Word /\ b + 8 \in Word /\ m \in [Word -> Nat]
  BY <1>1, TilingFacts DEF Sized
<1>4. /\ c \in Nat /\ c \in Word /\ c + 4 \in Word /\ c + 8 \in Word /\ r \in Nat /\ r > 0
  BY <1>2, TilingFacts
<1>5. m2 = [m EXCEPT ![c] = n, ![c + 4] = 0, ![c + 8] = r, ![f] = r, ![b + 8] = n, ![b + 4] = 1]
  <2>1. m[b + 8] = s
    BY <1>1 DEF Sized
  <2> QED
    BY <2>1 DEF prepareBestBlock, size, flags, prev_size, HEADER
<1> HIDE DEF m2, z2, B2, s
<1>6. f \in Word /\ f = c + r /\ r % 4 = 0 /\ r % 2 = 0
  <2>1. f \in Nat /\ f % 4 = 0 /\ f < HEAP_SIZE /\ f = c + r /\ r % 4 = 0 /\ r % 2 = 0
    BY <1>3, <1>4
  <2> QED
    BY <2>1, HeapFacts DEF Word
<1>7. c > b + 8 /\ c = b + n + 12
  BY <1>3
<1> HIDE DEF c, r, f
<1>8. /\ m2 \in [Word -> Nat]
      /\ \A w \in Word : m2[w] = IF w = b + 4 THEN 1 ELSE IF w = b + 8 THEN n
                                 ELSE IF w = f THEN r ELSE IF w = c + 8 THEN r
                                 ELSE IF w = c + 4 THEN 0 ELSE IF w = c THEN n ELSE m[w]
  BY <1>3, <1>4, <1>5, <1>6
<1>9. m2[b + 4] = 1 /\ m2[b + 8] = n /\ m2[b] = m[b]
  <2>1. /\ b # b + 4 /\ b # b + 8 /\ b # f /\ b # c + 8 /\ b # c + 4 /\ b # c /\ b + 8 # b + 4
    BY <1>3, <1>4, <1>6, <1>7
  <2> QED
    BY <1>3, <1>8, <2>1
<1>10. m2[c] = n /\ m2[c + 8] = r /\ m2[c + 4] % 2 = 0
  <2>1. /\ c # b + 4 /\ c # b + 8 /\ c # f /\ c # c + 8 /\ c # c + 4
        /\ c + 4 # b + 4 /\ c + 4 # b + 8 /\ c + 4 # c + 8 /\ c + 8 # b + 4 /\ c + 8 # b + 8
    BY <1>3, <1>4, <1>6, <1>7
  <2>2. m2[c + 4] \in {0, r} /\ m2[c] = n /\ m2[c + 8] = r
    BY <1>4, <1>8, <2>1
  <2> QED
    BY <1>6, <2>2
<1>11. ASSUME NEW x \in B, x # b
       PROVE  m2[x] = m[x] /\ m2[x + 8] = m[x + 8] /\ m2[x + 4] = m[x + 4] /\ Behind(z, x) <= b
  <2>1. x \in Nat /\ x \in Word /\ x + 4 \in Word /\ x + 8 \in Word /\ x + 12 < HEAP_SIZE
        /\ Behind(z, x) = x + 12 + z[x] /\ z[x] \in Nat
    BY <1>1, TilingFacts
  <2>2. Behind(z, x) <= b
    <3>1. Behind(z, x) <= b \/ HEAP_SIZE <= x
      BY <1>1, <1>11, Apart
    <3> QED
      BY <2>1, <3>1, HeapFacts
  <2>3. x + 8 < b
    BY <1>3, <2>1, <2>2
  <2>4. \A w \in {x, x + 4, x + 8} : w \in Word /\ w # b + 4 /\ w # b + 8 /\ w # f /\ w # c + 8
                                     /\ w # c + 4 /\ w # c
    BY <1>3, <1>4, <1>6, <1>7, <2>1, <2>3
  <2> QED
    BY <1>8, <2>2, <2>4
<1>12. Sized(m2, B2, z2)
  <2>1. ASSUME NEW x \in B2 PROVE m2[x + 8] = z2[x]
    <3>1. CASE x = b
      BY <1>2, <1>9, <3>1
    <3>2. CASE x = c
      BY <1>2, <1>10, <3>2
    <3>3. CASE x \in B /\ x # b
      BY <1>1, <1>2, <1>11, <3>3 DEF Sized
    <3> QED
      BY <3>1, <3>2, <3>3 DEF B2
  <2> QED
    BY <1>8, <2>1 DEF Sized
<1>13. Flagged(m2, B2, U2, HEAP_SIZE)
  <2>1. U \subseteq B /\ c \notin U2
    BY <1>1, <1>2 DEF Flagged
  <2>2. ASSUME NEW x \in B2 PROVE m2[x + 4] % 2 = 1 <=> x \in U2
    <3>1. CASE x = b
      BY <1>9, <3>1
    <3>2. CASE x = c
      BY <1>10, <2>1, <3>2
    <3>3. CASE x \in B /\ x # b
      BY <1>1, <1>11, <3>3 DEF Flagged
    <3> QED
      BY <3>1, <3>2, <3>3 DEF B2
  <2> QED
    BY <1>1, <2>1, <2>2 DEF Flagged, B2
<1>14. Known(m2, B2, z2, HEAP_SIZE)
  <2> SUFFICES ASSUME NEW x \in B2, Behind(z2, x) \in B2 PROVE m2[Behind(z2, x)] = z2[x]
    BY DEF Known
  <2>1. CASE x = b
    BY <1>2, <1>10, <2>1
  <2>2. CASE x = c
    BY <1>2, <2>2, TilingFacts
  <2>3. CASE x \in B /\ x # b
    <3>1. Behind(z2, x) = Behind(z, x) /\ z2[x] = z[x] /\ Behind(z, x) <= b
      BY <1>2, <1>11, <2>3
    <3>2. Behind(z, x) \in B
      <4>1. ~(c <= b)
        BY <1>3, <1>7
      <4> QED
        BY <3>1, <4>1 DEF B2
    <3>3. m[Behind(z, x)] = z[x]
      BY <1>1, <2>3, <3>2, TilingFacts DEF Known
    <3>4. m2[Behind(z, x)] = m[Behind(z, x)]
      BY <1>9, <1>11, <3>2
    <3> QED
      BY <3>1, <3>3, <3>4
  <2> QED
    BY <2>1, <2>2, <2>3 DEF B2
<1>15. Separate(B2, z2, U2, HEAP_SIZE)
  <2> SUFFICES ASSUME NEW x \in B2, Behind(z2, x) \in B2 PROVE x \in U2 \/ Behind(z2, x) \in U2
    BY DEF Separate
  <2>1. CASE x = b
    BY <2>1
  <2>2. CASE x = c
    BY <1>2, <2>2, TilingFacts
  <2>3. CASE x \in B /\ x # b
    <3>1. Behind(z2, x) = Behind(z, x) /\ Behind(z, x) <= b
      BY <1>2, <1>11, <2>3
    <3>2. Behind(z, x) \in B
      <4>1. ~(c <= b)
        BY <1>3, <1>7
      <4> QED
        BY <3>1, <4>1 DEF B2
    <3> QED
      BY <1>1, <2>3, <3>1, <3>2 DEF Separate
  <2> QED
    BY <2>1, <2>2, <2>3 DEF B2
<1>16. Owned(Append(l, [at |-> b + HEADER, size |-> n]), z2, U2)
  <2>1. \A x \in U : z[x] \in Nat /\ z2[x] \in Nat /\ z[x] <= z2[x]
    <3>1. \A x \in U : x \in B /\ x # b
      BY <1>1 DEF Flagged
    <3>2. \A x \in B : z[x] \in Nat
      BY <1>1, TilingFacts
    <3>3. \A x \in U : z[x] \in Nat /\ z2[x] = z[x]
      BY <1>2, <3>1, <3>2
    <3> QED
      BY <3>3
  <2>2. Behind(z2, 0) # HEAP_SIZE
    <3>1. 0 \in U /\ 0 \in B
      BY <1>1 DEF Owned, Tiling
    <3>2. Behind(z2, 0) = Behind(z, 0)
      BY <1>1, <1>2, <3>1
    <3> QED
      BY <1>1, <3>2 DEF Owned
  <2>3. n <= z2[b] /\ b \in Nat
    BY <1>2, <1>3
  <2> QED
    BY <1>1, <2>1, <2>2, <2>3, OwnedMore
<1>17. Heap(m2, Append(l, [at |-> b + HEADER, size |-> n]), B2, z2, U2)
  BY <1>2, <1>12, <1>13, <1>14, <1>15, <1>16 DEF Heap
<1> QED
  BY <1>17 DEF m2

\* kmalloc_align moves the start of the last block c up, behind the block a.
MovedUp(m, z, a, c, pad) ==
  [m EXCEPT ![a + 8] = z[a] + pad, ![c + pad] = z[a] + pad, ![c + pad + 8] = z[c] - pad]

\* Its old flags stay behind.
LEMMA Moved ==
  ASSUME NEW m, NEW l, NEW B, NEW z, NEW U, Heap(m, l, B, z, U),
         NEW c \in B, c \notin U, Behind(z, c) = HEAP_SIZE, NEW a \in B, Behind(z, a) = c,
         NEW pad \in Nat, pad > 0, pad % 4 = 0, pad < z[c],
         NEW m2, m2 = MovedUp(m, z, a, c, pad)
  PROVE  \E B2, z2 : /\ Ready(m2, l, B2, z2, U, c + pad) /\ z2[c + pad] = z[c] - pad
                     /\ Behind(z2, c + pad) = HEAP_SIZE
<1> DEFINE d == c + pad
           B2 == (B \ {c}) \cup {d}
           z2 == Shifted(B, z, a, c, pad)
           p == z[a] + pad
           r == z[c] - pad
<1>1. /\ Tiling(B, z) /\ Sized(m, B, z) /\ Flagged(m, B, U, HEAP_SIZE)
      /\ Known(m, B, z, HEAP_SIZE) /\ Separate(B, z, U, HEAP_SIZE) /\ Owned(l, z, U)
  BY DEF Heap
<1>2. /\ Tiling(B2, z2) /\ z2[a] = p /\ z2[d] = r /\ a # c /\ a # d
      /\ Behind(z2, a) = d /\ Behind(z2, d) = HEAP_SIZE
      /\ \A x \in B : x # c => Behind(z, x) <= c
      /\ \A x \in B : x # a /\ x # c => z2[x] = z[x] /\ Behind(z2, x) = Behind(z, x) /\ x # d
  BY <1>1, ShiftTiles
<1>3. /\ a \in Nat /\ c \in Nat /\ z[a] \in Nat /\ a \in Word /\ a + 8 \in Word /\ a + 8 < c
      /\ m \in [Word -> Nat] /\ c < d /\ d \in Nat
  <2>1. a \in Nat /\ c \in Nat /\ z[a] \in Nat /\ a \in Word /\ a + 8 \in Word
        /\ Behind(z, a) = a + 12 + z[a] /\ m \in [Word -> Nat]
    BY <1>1, TilingFacts DEF Sized
  <2> QED
    BY <2>1
<1>4. d \in B2 /\ d \in Word /\ d + 4 \in Word /\ d + 8 \in Word /\ r \in Nat /\ p \in Nat
  <2>1. d \in B2 /\ a \in B2
    BY <1>2
  <2> QED
    BY <1>2, <2>1, TilingFacts
<1> HIDE DEF z2, B2, p, r
<1>5. /\ m2 \in [Word -> Nat]
      /\ \A w \in Word : m2[w] = IF w = d + 8 THEN r ELSE IF w = d THEN p
                                 ELSE IF w = a + 8 THEN p ELSE m[w]
  <2>1. m2 = [m EXCEPT ![a + 8] = p, ![d] = p, ![d + 8] = r]
    BY DEF p, r, MovedUp
  <2>2. a + 8 \in Word /\ d \in Word /\ d + 8 \in Word /\ r \in Nat /\ p \in Nat /\ m \in [Word -> Nat]
    BY <1>3, <1>4
  <2> HIDE DEF d
  <2>3. m2 \in [Word -> Nat]
    BY <2>1, <2>2
  <2> QED
    BY <2>1, <2>2, <2>3
<1> HIDE DEF d
<1>6. m2[d] = p /\ m2[d + 8] = r /\ m2[a + 8] = p /\ m2[a + 4] = m[a + 4] /\ m2[a] = m[a]
  <2>1. /\ a + 8 # d /\ a + 8 # d + 8 /\ d # d + 8 /\ a # d /\ a # d + 8 /\ a # a + 8
        /\ a + 4 # d /\ a + 4 # d + 8 /\ a + 4 # a + 8
    BY <1>3
  <2>2. a + 4 \in Word
    BY <1>1, TilingFacts
  <2> QED
    BY <1>3, <1>4, <1>5, <2>1, <2>2
<1>7. ASSUME NEW x \in B, x # a, x # c
      PROVE  m2[x] = m[x] /\ m2[x + 8] = m[x + 8] /\ m2[x + 4] = m[x + 4]
  <2>1. x \in Nat /\ x \in Word /\ x + 4 \in Word /\ x + 8 \in Word
        /\ Behind(z, x) = x + 12 + z[x] /\ z[x] \in Nat /\ Behind(z, x) <= c
    BY <1>1, <1>2, <1>7, TilingFacts
  <2>2. x + 8 < c
    BY <1>3, <2>1
  <2>3. x # a + 8 /\ x + 4 # a + 8 /\ x + 8 # a + 8
    BY <1>1, <1>7, HeadersApart
  <2>4. \A w \in {x, x + 4, x + 8} : w \in Word /\ w # d + 8 /\ w # d /\ w # a + 8
    BY <1>3, <2>1, <2>2, <2>3
  <2> QED
    BY <1>5, <2>4
<1>8. \A x \in B2 : x = a \/ x = d \/ (x \in B /\ x # a /\ x # c)
  BY DEF B2
<1>9. Sized(m2, B2, z2)
  <2>1. ASSUME NEW x \in B2 PROVE m2[x + 8] = z2[x]
    <3>1. CASE x \in B /\ x # a /\ x # c
      BY <1>1, <1>2, <1>7, <3>1 DEF Sized
    <3> QED
      BY <1>2, <1>6, <1>8, <3>1
  <2> QED
    BY <1>5, <2>1 DEF Sized
<1>10. U \subseteq B2 /\ d \notin U
  <2>1. d \notin B
    <3>1. ASSUME d \in B PROVE FALSE
      <4>1. Behind(z, d) <= c /\ Behind(z, d) = d + 12 + z[d] /\ z[d] \in Nat
        BY <1>1, <1>2, <1>3, <3>1, TilingFacts
      <4> QED
        BY <1>3, <4>1
    <3> QED
      BY <3>1
  <2> QED
    BY <1>1, <2>1 DEF Flagged, B2
<1>11. Flagged(m2, B2, U, d)
  <2>1. ASSUME NEW x \in B2 \ {d} PROVE m2[x + 4] % 2 = 1 <=> x \in U
    <3>1. x \in B /\ m2[x + 4] = m[x + 4] /\ x # HEAP_SIZE
      <4>1. x = a \/ (x \in B /\ x # a /\ x # c)
        BY <1>8
      <4>2. x \in B /\ m2[x + 4] = m[x + 4]
        BY <1>6, <1>7, <4>1
      <4> QED
        BY <1>1, <4>2, TilingFacts
    <3> QED
      BY <1>1, <3>1 DEF Flagged
  <2> QED
    BY <1>10, <2>1 DEF Flagged
<1>12. Known(m2, B2, z2, HEAP_SIZE)
  <2> SUFFICES ASSUME NEW x \in B2, Behind(z2, x) \in B2 PROVE m2[Behind(z2, x)] = z2[x]
    BY DEF Known
  <2>1. CASE x = a
    BY <1>2, <1>6, <2>1
  <2>2. CASE x = d
    BY <1>2, <2>2, TilingFacts
  <2>3. CASE x \in B /\ x # a /\ x # c
    <3>1. Behind(z2, x) = Behind(z, x) /\ z2[x] = z[x] /\ Behind(z, x) # c /\ Behind(z, x) <= c
      BY <1>1, <1>2, <2>3, HeadersApart
    <3>2. Behind(z, x) \in B /\ Behind(z, x) # c
      <4>1. ~(d <= c)
        BY <1>3
      <4> QED
        BY <3>1, <4>1 DEF B2
    <3>3. m[Behind(z, x)] = z[x]
      BY <1>1, <2>3, <3>2, TilingFacts DEF Known
    <3>4. m2[Behind(z, x)] = m[Behind(z, x)]
      BY <1>6, <1>7, <3>2
    <3> QED
      BY <3>1, <3>3, <3>4
  <2> QED
    BY <1>8, <2>1, <2>2, <2>3
<1>13. Separate(B2, z2, U, d)
  <2> SUFFICES ASSUME NEW x \in B2, Behind(z2, x) \in B2, x # d, Behind(z2, x) # d
               PROVE  x \in U \/ Behind(z2, x) \in U
    BY DEF Separate
  <2>1. x \in B /\ x # a /\ x # c
    BY <1>2, <1>8
  <2>2. Behind(z2, x) = Behind(z, x) /\ Behind(z, x) \in B
    BY <1>2, <2>1 DEF B2
  <2> QED
    BY <1>1, <2>1, <2>2, TilingFacts DEF Separate
<1>14. Owned(l, z2, U)
  <2>1. ASSUME NEW x \in U PROVE z[x] \in Nat /\ z2[x] \in Nat /\ z[x] <= z2[x]
    <3>1. x \in B /\ x # c /\ z[x] \in Nat
      BY <1>1, TilingFacts DEF Flagged
    <3>2. CASE x = a
      <4>1. z2[x] = z[x] + pad
        BY <1>2, <3>2 DEF p
      <4> QED
        BY <3>1, <4>1
    <3>3. CASE x # a
      <4>1. z2[x] = z[x]
        BY <1>2, <3>1, <3>3
      <4> QED
        BY <3>1, <4>1
    <3> QED
      BY <3>2, <3>3
  <2>2. ASSUME NEW i \in 1..Len(l) PROVE l[i].size <= z2[At(l, i)]
    <3>1. At(l, i) \in U /\ l[i].size <= z[At(l, i)]
      BY <1>1 DEF Owned
    <3>2. l[i].size \in Nat
      <4>1. l[i] \in [at : Nat, size : Nat]
        BY <1>1, SeqElem DEF Owned
      <4> QED
        BY <4>1
    <3>3. z[At(l, i)] \in Nat /\ z2[At(l, i)] \in Nat /\ z[At(l, i)] <= z2[At(l, i)]
      BY <2>1, <3>1
    <3> QED
      BY <3>1, <3>2, <3>3
  <2>3. Behind(z2, 0) # HEAP_SIZE
    <3>1. 0 \in U /\ 0 \in B /\ 0 # c
      BY <1>1 DEF Owned, Tiling
    <3>2. CASE a = 0
      <4>1. d # HEAP_SIZE
        BY <1>2, <1>4, TilingFacts
      <4> QED
        BY <1>2, <3>2, <4>1
    <3>3. CASE a # 0
      BY <1>1, <1>2, <3>1, <3>3 DEF Owned
    <3> QED
      BY <3>2, <3>3
  <2> QED
    BY <1>1, <2>2, <2>3 DEF Owned
<1>15. Ready(m2, l, B2, z2, U, d)
  BY <1>2, <1>4, <1>9, <1>10, <1>11, <1>12, <1>13, <1>14 DEF Ready
<1> QED
  BY <1>2, <1>15 DEF d, r

\* Two sequences in a row.
LEMMA Concat ==
  ASSUME NEW R, NEW a \in Seq(R), NEW b \in Seq(R)
  PROVE  /\ a \o b \in Seq(R) /\ Len(a \o b) = Len(a) + Len(b)
         /\ \A j \in 1..Len(a) : (a \o b)[j] = a[j]
         /\ \A j \in 1..(Len(a) + Len(b)) : ~(j <= Len(a)) => (a \o b)[j] = b[j - Len(a)]
OBVIOUS

\* Without the i-th block the rest is owned.
LEMMA OwnedLess ==
  ASSUME NEW l, NEW z, NEW U, Owned(l, z, U), NEW i \in 2..Len(l),
         NEW z2, \A x \in U : x # At(l, i) => z2[x] = z[x],
         NEW l2, l2 = SubSeq(l, 1, i - 1) \o SubSeq(l, i + 1, Len(l))
  PROVE  Owned(l2, z2, U \ {At(l, i)}) /\ At(l, i) # 0
<1> DEFINE k == Len(l)
           R == [at : Nat, size : Nat]
           l1 == SubSeq(l, 1, i - 1)
           l3 == SubSeq(l, i + 1, k)
           up(j) == IF j < i THEN j ELSE j + 1
<1>1. l \in Seq(R) /\ k \in Nat /\ k >= 1 /\ At(l, 1) = 0
  BY DEF Owned
<1>2. /\ \A j \in 1..k : At(l, j) \in U /\ 0 < l[j].size /\ l[j].size <= z[At(l, j)]
      /\ \A a, b \in 1..k : At(l, a) = At(l, b) => a = b
      /\ \A x \in U : \E j \in 1..k : At(l, j) = x
      /\ Behind(z, 0) # HEAP_SIZE
  BY DEF Owned
<1>3. i \in 1..k /\ i \in Nat /\ i >= 2 /\ i <= k
  BY <1>1
<1> HIDE DEF R, k
<1>4. l2 \in Seq(R) /\ Len(l2) = k - 1 /\ \A j \in 1..(k - 1) : l2[j] = l[up(j)]
  <2>1. l1 \in Seq(R) /\ Len(l1) = i - 1 /\ \A j \in 1..(i - 1) : l1[j] = l[j]
    BY <1>1, <1>3 DEF k
  <2>2. l3 \in Seq(R) /\ Len(l3) = k - i /\ \A j \in 1..(k - i) : l3[j] = l[i + j]
    <3>1. l3 \in Seq(R)
      BY <1>1, <1>3 DEF k
    <3>2. Len(l3) = k - i
      BY <1>1, <1>3 DEF k
    <3>3. ASSUME NEW j \in 1..(k - i) PROVE l3[j] = l[i + j]
      <4>1. l3[j] = l[(i + 1) + j - 1]
        BY <1>1, <1>3 DEF k
      <4>2. (i + 1) + j - 1 = i + j
        BY <1>3
      <4> QED
        BY <4>1, <4>2
    <3> QED
      BY <3>1, <3>2, <3>3
  <2>3. l2 = l1 \o l3
    BY DEF k
  <2> HIDE DEF l1, l3
  <2>4. /\ l1 \o l3 \in Seq(R) /\ Len(l1 \o l3) = Len(l1) + Len(l3)
        /\ \A j \in 1..Len(l1) : (l1 \o l3)[j] = l1[j]
        /\ \A j \in 1..(Len(l1) + Len(l3)) : ~(j <= Len(l1)) => (l1 \o l3)[j] = l3[j - Len(l1)]
    <3>1. l1 \in Seq(R) /\ l3 \in Seq(R)
      BY <2>1, <2>2
    <3> QED
      BY <3>1, Concat, Zenon
  <2>5. /\ l2 \in Seq(R) /\ Len(l2) = Len(l1) + Len(l3)
        /\ \A j \in 1..Len(l1) : l2[j] = l1[j]
        /\ \A j \in 1..(Len(l1) + Len(l3)) : ~(j <= Len(l1)) => l2[j] = l3[j - Len(l1)]
    BY <2>3, <2>4, Zenon
  <2>6. l2 \in Seq(R) /\ Len(l2) = k - 1
    <3>1. l2 \in Seq(R) /\ Len(l2) = Len(l1) + Len(l3)
      BY <2>5
    <3>2. (i - 1) + (k - i) = k - 1
      BY <1>1, <1>3
    <3> QED
      BY <2>1, <2>2, <3>1, <3>2
  <2>7. ASSUME NEW j \in 1..(k - 1) PROVE l2[j] = l[up(j)]
    <3>1. CASE j < i
      <4>1. j \in 1..Len(l1)
        BY <1>1, <1>3, <2>1, <3>1
      <4>2. l2[j] = l1[j]
        BY <4>1, <2>5
      <4> QED
        BY <2>1, <3>1, <4>1, <4>2
    <3>2. CASE ~(j < i)
      <4>1. j - (i - 1) \in 1..(k - i) /\ i + (j - (i - 1)) = j + 1 /\ j \in 1..(Len(l1) + Len(l3))
            /\ ~(j <= Len(l1))
        BY <1>1, <1>3, <2>1, <2>2, <3>2
      <4>2. l2[j] = l3[j - Len(l1)]
        BY <4>1, <2>5
      <4> QED
        BY <2>1, <2>2, <3>2, <4>1, <4>2
    <3> QED
      BY <3>1, <3>2
  <2> QED
    BY <2>6, <2>7
<1>5. /\ \A j \in 1..(k - 1) : up(j) \in 1..k /\ up(j) # i
      /\ \A a, b \in 1..(k - 1) : up(a) = up(b) => a = b
      /\ up(1) = 1 /\ 1 \in 1..(k - 1) /\ k - 1 >= 1 /\ 1 \in 1..k /\ 1 # i
  BY <1>1, <1>3
<1>6. ASSUME NEW j \in 1..k, j # i PROVE \E a \in 1..(k - 1) : up(a) = j
  <2>1. CASE j < i
    <3>1. j \in 1..(k - 1) /\ up(j) = j
      BY <1>1, <1>3, <2>1
    <3> QED
      BY <3>1
  <2>2. CASE ~(j < i)
    <3>1. j - 1 \in 1..(k - 1) /\ up(j - 1) = j
      BY <1>1, <1>3, <1>6, <2>2
    <3> QED
      BY <3>1
  <2> QED
    BY <2>1, <2>2
<1> HIDE DEF up
<1>7. \A j \in 1..(k - 1) : At(l2, j) = At(l, up(j)) /\ l2[j].size = l[up(j)].size
  BY <1>4 DEF At
<1> DEFINE V == U \ {At(l, i)}
<1>8. ASSUME NEW j \in 1..(k - 1)
      PROVE  At(l2, j) \in V /\ 0 < l2[j].size /\ l2[j].size <= z2[At(l2, j)]
  <2>1. At(l, up(j)) \in U /\ 0 < l[up(j)].size /\ l[up(j)].size <= z[At(l, up(j))]
        /\ At(l, up(j)) # At(l, i)
    BY <1>2, <1>3, <1>5
  <2> QED
    BY <1>7, <2>1
<1>9. \A a, b \in 1..(k - 1) : At(l2, a) = At(l2, b) => a = b
  BY <1>2, <1>5, <1>7
<1>10. ASSUME NEW x \in V PROVE \E j \in 1..(k - 1) : At(l2, j) = x
  <2>1. PICK j \in 1..k : At(l, j) = x
    BY <1>2
  <2>2. PICK a \in 1..(k - 1) : up(a) = j
    BY <1>6, <2>1
  <2> QED
    BY <1>7, <2>1, <2>2
<1>11. At(l2, 1) = 0 /\ At(l, i) # 0
  BY <1>1, <1>2, <1>3, <1>5, <1>7
<1>12. Behind(z2, 0) # HEAP_SIZE
  <2>1. 0 \in U
    BY <1>1, <1>2, <1>5
  <2>2. z2[0] = z[0]
    BY <1>11, <2>1
  <2> QED
    BY <1>2, <2>2 DEF Behind
<1> QED
  BY <1>4, <1>5, <1>8, <1>9, <1>10, <1>11, <1>12 DEF Owned, R

\* What kfree works on: x is the block that grows, and the block e behind it does not
\* yet know its size.
Growing(m, B, z, U, x, e) ==
  /\ Tiling(B, z) /\ Sized(m, B, z) /\ Flagged(m, B, U, HEAP_SIZE) /\ Known(m, B, z, e)
  /\ x \in B /\ Behind(z, x) = e

\* One word is written.
Wrote(m, m2, a, v) == m2 \in [Word -> Nat] /\ m2[a] = v /\ \A w \in Word : w # a => m2[w] = m[w]

\* The other blocks keep their sizes.
LEMMA JoinedElsewhere ==
  ASSUME NEW B, NEW z, NEW b, NEW c, Behind(z, b) = c, NEW x \in B \ {c}, x # b
  PROVE  Joined(B, z, b)[x] = z[x]
BY DEF Joined

\* A block takes in the one behind it.
LEMMA JoinKeeps ==
  ASSUME NEW m, NEW B, NEW z, NEW U, NEW b, NEW c \in B, Growing(m, B, z, U, b, c),
         NEW m2, NEW a, a = b + 8, NEW v, v = z[b] + 12 + z[c], Wrote(m, m2, a, v)
  PROVE  Growing(m2, B \ {c}, Joined(B, z, b), U \ {c}, b, Behind(z, c))
<1> DEFINE B2 == B \ {c}
           z2 == Joined(B, z, b)
<1>1. /\ Tiling(B, z) /\ Sized(m, B, z) /\ Flagged(m, B, U, HEAP_SIZE) /\ Known(m, B, z, c)
      /\ b \in B /\ Behind(z, b) = c
  BY DEF Growing
<1>2. /\ Tiling(B2, z2) /\ b \in B2 /\ Behind(z2, b) = Behind(z, c) /\ z2[b] = z[b] + 12 + z[c]
      /\ \A x \in B2 : x # b => z2[x] = z[x] /\ Behind(z2, x) = Behind(z, x)
  BY <1>1, JoinTiles
<1> HIDE DEF z2
<1>3. /\ m \in [Word -> Nat] /\ b + 8 \in Word /\ z[b] \in Nat /\ z[c] \in Nat /\ m[b + 8] = z[b]
      /\ \A x \in B : x \in Word /\ x + 4 \in Word /\ x + 8 \in Word
  BY <1>1, TilingFacts DEF Sized
<1> DEFINE s == z[b] + 12 + z[c]
<1>4. s \in Nat
  BY <1>3
<1>5. m2 \in [Word -> Nat] /\ m2[b + 8] = s /\ \A w \in Word : w # b + 8 => m2[w] = m[w]
  BY DEF Wrote
<1>6. \A x \in B : m2[x] = m[x] /\ m2[x + 4] = m[x + 4] /\ (x # b => m2[x + 8] = m[x + 8])
  <2>1. \A x \in B : x # b + 8 /\ x + 4 # b + 8 /\ (x + 8 = b + 8 => x = b)
    BY <1>1, HeadersApart
  <2> QED
    BY <1>3, <1>5, <2>1
<1> HIDE DEF s
<1>7. Sized(m2, B2, z2)
  <2>1. ASSUME NEW x \in B2 PROVE m2[x + 8] = z2[x]
    <3>1. CASE x = b
      BY <1>2, <1>5, <3>1 DEF s
    <3>2. CASE x # b
      BY <1>1, <1>2, <1>6, <3>2 DEF Sized
    <3> QED
      BY <3>1, <3>2
  <2> QED
    BY <1>5, <2>1 DEF Sized
<1>8. Flagged(m2, B2, U \ {c}, HEAP_SIZE)
  BY <1>1, <1>6 DEF Flagged
<1>9. Known(m2, B2, z2, Behind(z, c))
  <2> SUFFICES ASSUME NEW x \in B2, Behind(z2, x) \in B2, Behind(z2, x) # Behind(z, c)
               PROVE  m2[Behind(z2, x)] = z2[x]
    BY DEF Known
  <2>1. x # b /\ x \in B /\ Behind(z2, x) = Behind(z, x) /\ z2[x] = z[x]
    BY <1>2
  <2>2. Behind(z, x) \in B /\ Behind(z, x) # c
    BY <2>1
  <2>3. m[Behind(z, x)] = z[x]
    BY <1>1, <2>1, <2>2 DEF Known
  <2> QED
    BY <1>6, <2>1, <2>2, <2>3
<1> QED
  BY <1>2, <1>7, <1>8, <1>9 DEF Growing, z2

\* kfree first takes the block into the one before, if that is free.
LEMMA FreedBefore ==
  ASSUME NEW m, NEW l, NEW B, NEW z, NEW U, Heap(m, l, B, z, U), NEW old \in U, old # 0,
         NEW last, last = M_LAST_BLOCK(m, old), NEW current, NEW m1,
         current = (IF last >= 0 /\ M_IS_FREE(m, last) THEN last ELSE old),
         m1 = (IF last >= 0 /\ M_IS_FREE(m, last)
               THEN [m EXCEPT ![size(last)] = @ + HEADER + m[size(old)]] ELSE m)
  PROVE  \E B1, z1, U1 :
           /\ Growing(m1, B1, z1, U1, current, Behind(z, old))
           /\ B1 \subseteq B /\ U1 \ {current} = U \ {old}
           /\ \A x \in B1 : x # current => x # old /\ z1[x] = z[x]
           /\ \A x \in B1 : Behind(z1, x) = current => x \in U
<1>1. /\ Tiling(B, z) /\ Sized(m, B, z) /\ Flagged(m, B, U, HEAP_SIZE)
      /\ Known(m, B, z, HEAP_SIZE) /\ Separate(B, z, U, HEAP_SIZE) /\ old \in B
  BY DEF Heap, Flagged
<1>2. last \in B /\ Behind(z, last) = old /\ last # old
  BY <1>1, LastIs, HeadersApart
<1>3. (last >= 0 /\ M_IS_FREE(m, last)) <=> last \notin U
  <2>1. last \in Nat /\ last \in B \ {HEAP_SIZE} /\ m[last + 4] \in Nat
    BY <1>1, <1>2, TilingFacts DEF Sized
  <2>2. M_IS_FREE(m, last) <=> m[last + 4] % 2 = 0
    BY DEF M_IS_FREE, flags
  <2>3. m[last + 4] % 2 = 1 <=> last \in U
    BY <1>1, <2>1 DEF Flagged
  <2>4. m[last + 4] % 2 = 0 \/ m[last + 4] % 2 = 1
    BY <2>1
  <2>5. last >= 0
    BY <2>1
  <2>6. M_IS_FREE(m, last) <=> last \notin U
    BY <2>2, <2>3, <2>4
  <2> QED
    BY <2>5, <2>6
<1>4. CASE last \notin U
  <2>1. /\ current = last /\ m1 \in [Word -> Nat] /\ m1[last + 8] = z[last] + 12 + z[old]
        /\ \A w \in Word : w # last + 8 => m1[w] = m[w]
    <3>1. /\ m[last + 8] = z[last] /\ m[old + 8] = z[old] /\ m \in [Word -> Nat] /\ last + 8 \in Word
          /\ z[last] \in Nat /\ z[old] \in Nat
      BY <1>1, <1>2, TilingFacts DEF Sized
    <3>2. m1 = [m EXCEPT ![last + 8] = z[last] + 12 + z[old]]
      BY <1>3, <1>4, <3>1 DEF size, HEADER
    <3> QED
      BY <1>3, <1>4, <3>1, <3>2
  <2>2. Growing(m, B, z, U, last, old)
    BY <1>1, <1>2, TilingFacts DEF Growing, Known
  <2> DEFINE B1 == B \ {old}
             z1 == Joined(B, z, last)
             U1 == U \ {old}
  <2>3. /\ Growing(m1, B1, z1, U1, last, Behind(z, old))
        /\ \A x \in B1 : x # last => z1[x] = z[x]
    <3>1. Wrote(m, m1, last + 8, z[last] + 12 + z[old])
      BY <2>1 DEF Wrote
    <3> QED
      BY <1>1, <1>2, <2>2, <3>1, JoinKeeps, JoinedElsewhere
  <2> HIDE DEF z1
  <2>4. ASSUME NEW x \in B1, Behind(z1, x) = last PROVE x \in U
    <3>1. x # last
      BY <2>3, <2>4, HeadersApart DEF Growing
    <3>2. Behind(z, x) = last
      BY <2>3, <2>4, <3>1 DEF Behind
    <3> QED
      BY <1>1, <1>2, <1>4, <3>2, TilingFacts DEF Separate
  <2> QED
    BY <1>4, <2>1, <2>3, <2>4
<1>5. CASE last \in U
  <2>1. current = old /\ m1 = m
    BY <1>3, <1>5
  <2>2. Growing(m, B, z, U, old, Behind(z, old))
    BY <1>1, TilingFacts DEF Growing, Known
  <2>3. \A x \in B : Behind(z, x) = old => x \in U
    BY <1>1, <1>2, <1>5, HeadersApart
  <2> QED
    BY <2>1, <2>2, <2>3
<1> QED
  BY <1>4, <1>5

\* Then it takes in the block behind, if that is free.
LEMMA FreedBehind ==
  ASSUME NEW m, NEW B, NEW z, NEW U, NEW b, NEW next, Growing(m, B, z, U, b, next),
         \A c \in B : c # b /\ c \notin U /\ Behind(z, c) \in B => Behind(z, c) \in U,
         NEW m2, m2 = (IF next < HEAP_SIZE /\ M_IS_FREE(m, next)
                       THEN [m EXCEPT ![size(b)] = @ + HEADER + m[size(next)]] ELSE m),
         NEW after, after = (IF m2 = m THEN next ELSE M_NEXT_BLOCK(m2, b))
  PROVE  \E B2, z2 :
           /\ Growing(m2, B2, z2, U, b, after) /\ B2 \subseteq B
           /\ \A x \in B2 : x # b => z2[x] = z[x]
           /\ after \in B2 => after \in U
           /\ next < HEAP_SIZE \/ after = HEAP_SIZE
<1>1. /\ Tiling(B, z) /\ Sized(m, B, z) /\ Flagged(m, B, U, HEAP_SIZE) /\ Known(m, B, z, next)
      /\ b \in B /\ Behind(z, b) = next
  BY DEF Growing
<1>2. next \in B \cup {HEAP_SIZE} /\ next \in Nat /\ next <= HEAP_SIZE /\ HEAP_SIZE \in Nat
  BY <1>1, TilingFacts DEF Tiling
<1>3. CASE next < HEAP_SIZE /\ M_IS_FREE(m, next)
  <2>1. next \in B /\ next < HEAP_SIZE /\ M_IS_FREE(m, next)
    BY <1>2, <1>3
  <2>2. next \notin U /\ next # HEAP_SIZE
    <3>1. m[next + 4] % 2 = 0
      BY <2>1 DEF M_IS_FREE, flags
    <3>2. next # HEAP_SIZE
      BY <1>2, <2>1
    <3> QED
      BY <1>1, <2>1, <3>1, <3>2 DEF Flagged
  <2>3. /\ m2 \in [Word -> Nat] /\ m2[b + 8] = z[b] + 12 + z[next]
        /\ \A w \in Word : w # b + 8 => m2[w] = m[w]
    <3>1. /\ m[b + 8] = z[b] /\ m[next + 8] = z[next] /\ m \in [Word -> Nat] /\ b + 8 \in Word
          /\ z[b] \in Nat /\ z[next] \in Nat
      BY <1>1, <2>1, TilingFacts DEF Sized
    <3>2. m2 = [m EXCEPT ![b + 8] = z[b] + 12 + z[next]]
      BY <1>3, <3>1 DEF size, HEADER
    <3> QED
      BY <1>3, <3>1, <3>2
  <2> DEFINE B2 == B \ {next}
             z2 == Joined(B, z, b)
  <2>4. /\ Growing(m2, B2, z2, U \ {next}, b, Behind(z, next)) /\ b # next
        /\ \A x \in B2 : x # b => z2[x] = z[x]
        /\ m2 # m
    <3>1. Wrote(m, m2, b + 8, z[b] + 12 + z[next])
      BY <2>3 DEF Wrote
    <3>2. Growing(m, B, z, U, b, next)
      OBVIOUS
    <3>3. Growing(m2, B2, z2, U \ {next}, b, Behind(z, next))
      BY <2>1, <3>1, <3>2, JoinKeeps
    <3>4. \A x \in B2 : x # b => z2[x] = z[x]
      BY <1>1, JoinedElsewhere
    <3>5. b # next /\ m2 # m
      <4>1. m[b + 8] = z[b] /\ z[b] \in Nat /\ z[next] \in Nat /\ b # next
        BY <1>1, <2>1, TilingFacts, HeadersApart DEF Sized
      <4>2. m2[b + 8] # m[b + 8]
        BY <2>3, <4>1
      <4> QED
        BY <4>1, <4>2
    <3> QED
      BY <3>3, <3>4, <3>5
  <2> HIDE DEF z2
  <2>5. U \ {next} = U
    BY <2>2
  <2>6. after = Behind(z, next)
    <3>1. M_NEXT_BLOCK(m2, b) = Behind(z2, b) /\ Behind(z2, b) = Behind(z, next)
      BY <2>4, NextIs DEF Growing
    <3> QED
      BY <2>4, <3>1
  <2>7. after \in B2 => after \in U
    BY <2>1, <2>2, <2>4, <2>6
  <2> QED
    BY <2>1, <2>4, <2>5, <2>6, <2>7
<1>4. CASE ~(next < HEAP_SIZE /\ M_IS_FREE(m, next))
  <2>1. m2 = m /\ after = next
    BY <1>4
  <2>2. next \in B => next \in U
    <3> SUFFICES ASSUME next \in B PROVE next \in U
      OBVIOUS
    <3>1. next # HEAP_SIZE /\ m[next + 4] \in Nat
      BY <1>1, TilingFacts DEF Sized
    <3>2. ~M_IS_FREE(m, next)
      BY <1>2, <1>4, <3>1
    <3>3. m[next + 4] % 2 = 1
      <4>1. m[next + 4] % 2 # 0
        BY <3>2 DEF M_IS_FREE, flags
      <4> QED
        BY <3>1, <4>1
    <3> QED
      BY <1>1, <3>1, <3>3 DEF Flagged
  <2>3. next < HEAP_SIZE \/ next = HEAP_SIZE
    BY <1>2
  <2> QED
    BY <2>1, <2>2, <2>3
<1> QED
  BY <1>3, <1>4

\* The block behind learns the size.
LEMMA FreedTells ==
  ASSUME NEW m, NEW B, NEW z, NEW U, NEW b, NEW after, Growing(m, B, z, U, b, after),
         after \in B, NEW m3, NEW v, v = z[b], Wrote(m, m3, after, v)
  PROVE  Growing(m3, B, z, U, b, after) /\ Known(m3, B, z, HEAP_SIZE)
<1>1. /\ Tiling(B, z) /\ Sized(m, B, z) /\ Flagged(m, B, U, HEAP_SIZE) /\ Known(m, B, z, after)
      /\ b \in B /\ Behind(z, b) = after
  BY DEF Growing
<1>2. m3 \in [Word -> Nat] /\ m3[after] = z[b] /\ \A w \in Word : w # after => m3[w] = m[w]
  BY DEF Wrote
<1>3. \A x \in B : x \in Word /\ x + 4 \in Word /\ x + 8 \in Word
  BY <1>1, TilingFacts
<1>4. \A x \in B : m3[x + 4] = m[x + 4] /\ m3[x + 8] = m[x + 8] /\ (x # after => m3[x] = m[x])
  <2>1. \A x \in B : x + 8 # after /\ x + 4 # after
    BY <1>1, HeadersApart
  <2> QED
    BY <1>2, <1>3, <2>1
<1>5. Sized(m3, B, z) /\ Flagged(m3, B, U, HEAP_SIZE)
  BY <1>1, <1>2, <1>4 DEF Sized, Flagged
<1>6. ASSUME NEW x \in B, Behind(z, x) \in B PROVE m3[Behind(z, x)] = z[x]
  <2>1. CASE Behind(z, x) = after
    BY <1>1, <1>2, <2>1, HeadersApart
  <2>2. CASE Behind(z, x) # after
    BY <1>1, <1>4, <1>6, <2>2 DEF Known
  <2> QED
    BY <2>1, <2>2
<1> QED
  BY <1>1, <1>5, <1>6 DEF Growing, Known

\* At last the grown block is marked free.
LEMMA FreedMarks ==
  ASSUME NEW m, NEW B, NEW z, NEW U, NEW b, NEW after, Growing(m, B, z, U, b, after),
         Known(m, B, z, HEAP_SIZE), NEW m4, NEW a, a = b + 4, Wrote(m, m4, a, 0)
  PROVE  Sized(m4, B, z) /\ Flagged(m4, B, U \ {b}, HEAP_SIZE) /\ Known(m4, B, z, HEAP_SIZE)
<1>1. Tiling(B, z) /\ Sized(m, B, z) /\ Flagged(m, B, U, HEAP_SIZE) /\ b \in B
  BY DEF Growing
<1>2. m4 \in [Word -> Nat] /\ m4[b + 4] = 0 /\ \A w \in Word : w # b + 4 => m4[w] = m[w]
  BY DEF Wrote
<1>3. \A x \in B : x \in Word /\ x + 4 \in Word /\ x + 8 \in Word
  BY <1>1, TilingFacts
<1>4. \A x \in B : m4[x] = m[x] /\ m4[x + 8] = m[x + 8] /\ (x # b => m4[x + 4] = m[x + 4])
  <2>1. \A x \in B : x # b + 4 /\ x + 8 # b + 4 /\ (x + 4 = b + 4 => x = b)
    BY <1>1, HeadersApart
  <2> QED
    BY <1>2, <1>3, <2>1
<1>5. Sized(m4, B, z) /\ Known(m4, B, z, HEAP_SIZE)
  BY <1>1, <1>2, <1>4 DEF Sized, Known
<1>6. ASSUME NEW x \in B \ {HEAP_SIZE} PROVE m4[x + 4] % 2 = 1 <=> x \in U \ {b}
  <2>1. CASE x = b
    BY <1>2, <2>1
  <2>2. CASE x # b
    BY <1>1, <1>4, <2>2 DEF Flagged
  <2> QED
    BY <2>1, <2>2
<1>7. U \subseteq B
  BY <1>1 DEF Flagged
<1> QED
  BY <1>5, <1>6, <1>7 DEF Flagged

\* A block freed in any order leaves a heap of the others.
LEMMA Freed ==
  ASSUME NEW m, NEW l, NEW B, NEW z, NEW U, Heap(m, l, B, z, U), NEW i \in 2..Len(l)
  PROVE  \E B2, z2, U2 :
           Heap(Released(m, l[i].at), SubSeq(l, 1, i - 1) \o SubSeq(l, i + 1, Len(l)), B2, z2, U2)
<1> DEFINE old == l[i].at - HEADER
           last == M_LAST_BLOCK(m, old)
           next == M_NEXT_BLOCK(m, old)
           merge == last >= 0 /\ M_IS_FREE(m, last)
           current == IF merge THEN last ELSE old
           m1 == IF merge THEN [m EXCEPT ![size(last)] = @ + HEADER + m[size(old)]] ELSE m
           join == next < HEAP_SIZE /\ M_IS_FREE(m1, next)
           m2 == IF join THEN [m1 EXCEPT ![size(current)] = @ + HEADER + m1[size(next)]] ELSE m1
           after == IF m2 = m1 THEN next ELSE M_NEXT_BLOCK(m2, current)
           known == next < HEAP_SIZE /\ after < HEAP_SIZE
           m3 == IF known THEN [m2 EXCEPT ![prev_size(after)] = m2[size(current)]] ELSE m2
           m4 == [m3 EXCEPT ![flags(current)] = 0]
           l2 == SubSeq(l, 1, i - 1) \o SubSeq(l, i + 1, Len(l))
<1>1. Released(m, l[i].at) = m4
  BY DEF Released
<1>2. /\ Tiling(B, z) /\ Sized(m, B, z) /\ Flagged(m, B, U, HEAP_SIZE)
      /\ Separate(B, z, U, HEAP_SIZE) /\ Owned(l, z, U)
  BY DEF Heap
<1>3. old \in U /\ old \in B /\ old = At(l, i)
  <2>1. i \in 1..Len(l) /\ old = At(l, i)
    BY <1>2 DEF Owned, At
  <2> QED
    BY <1>2, <2>1 DEF Owned, Flagged
<1>4. old # 0
  <2> HIDE DEF old
  <2> QED
    BY <1>2, <1>3, OwnedLess
<1>5. next = Behind(z, old)
  <2> HIDE DEF old
  <2> QED
    BY <1>2, <1>3, NextIs
<1>6. \E B1, z1, U1 :
        /\ Growing(m1, B1, z1, U1, current, Behind(z, old))
        /\ B1 \subseteq B /\ U1 \ {current} = U \ {old}
        /\ \A x \in B1 : x # current => x # old /\ z1[x] = z[x]
        /\ \A x \in B1 : Behind(z1, x) = current => x \in U
  <2>1. /\ current = (IF last >= 0 /\ M_IS_FREE(m, last) THEN last ELSE old)
        /\ last = M_LAST_BLOCK(m, old)
        /\ m1 = (IF last >= 0 /\ M_IS_FREE(m, last)
                 THEN [m EXCEPT ![size(last)] = @ + HEADER + m[size(old)]] ELSE m)
    OBVIOUS
  <2> HIDE DEF m1, current, merge, last, old
  <2> QED
    BY <1>3, <1>4, <2>1, FreedBefore
<1> HIDE DEF m1, current, merge, last, old
<1>7. PICK B1, z1, U1 :
        /\ Growing(m1, B1, z1, U1, current, next)
        /\ B1 \subseteq B /\ U1 \ {current} = U \ {old}
        /\ \A x \in B1 : x # current => x # old /\ z1[x] = z[x]
        /\ \A x \in B1 : Behind(z1, x) = current => x \in U
  BY <1>5, <1>6
<1> HIDE DEF next
<1>8. \A c \in B1 : c # current /\ c \notin U1 /\ Behind(z1, c) \in B1 => Behind(z1, c) \in U1
  <2> SUFFICES ASSUME NEW c \in B1, c # current, c \notin U1, Behind(z1, c) \in B1
               PROVE  Behind(z1, c) \in U1
    OBVIOUS
  <2>1. c \in B /\ c # old /\ c \notin U
    BY <1>7
  <2>2. Behind(z1, c) # current
    BY <1>7, <2>1
  <2>3. Behind(z1, c) = Behind(z, c) /\ Behind(z, c) \in B /\ Behind(z, c) # old
    BY <1>7, <2>2 DEF Behind
  <2>4. Behind(z, c) \in U
    BY <1>2, <2>1, <2>3, TilingFacts DEF Separate
  <2> QED
    BY <1>7, <2>3, <2>4
<1>9. \E B2, z2 :
        /\ Growing(m2, B2, z2, U1, current, after) /\ B2 \subseteq B1
        /\ \A x \in B2 : x # current => z2[x] = z1[x]
        /\ after \in B2 => after \in U1
        /\ next < HEAP_SIZE \/ after = HEAP_SIZE
  <2>1. /\ m2 = (IF next < HEAP_SIZE /\ M_IS_FREE(m1, next)
                 THEN [m1 EXCEPT ![size(current)] = @ + HEADER + m1[size(next)]] ELSE m1)
        /\ after = (IF m2 = m1 THEN next ELSE M_NEXT_BLOCK(m2, current))
    OBVIOUS
  <2> HIDE DEF join, m2, after
  <2> QED
    BY <1>7, <1>8, <2>1, FreedBehind
<1> HIDE DEF join, m2, after
<1>10. PICK B2, z2 :
         /\ Growing(m2, B2, z2, U1, current, after) /\ B2 \subseteq B1
         /\ \A x \in B2 : x # current => z2[x] = z1[x]
         /\ after \in B2 => after \in U1
         /\ next < HEAP_SIZE \/ after = HEAP_SIZE
  BY <1>9
<1> DEFINE U2 == U \ {old}
<1>11. /\ Tiling(B2, z2) /\ Flagged(m2, B2, U1, HEAP_SIZE) /\ current \in B2
       /\ Behind(z2, current) = after
  BY <1>10 DEF Growing
<1>12. Sized(m4, B2, z2) /\ Flagged(m4, B2, U2, HEAP_SIZE) /\ Known(m4, B2, z2, HEAP_SIZE)
  <2>1. known <=> after < HEAP_SIZE
    <3>1. after = HEAP_SIZE => ~(after < HEAP_SIZE)
      BY HeapFacts
    <3> QED
      BY <1>10, <3>1
  <2>2. /\ m2 \in [Word -> Nat] /\ m2[current + 8] = z2[current] /\ z2[current] \in Nat
        /\ current + 4 \in Word /\ (after < HEAP_SIZE => after \in B2 /\ after \in Word)
        /\ (after < HEAP_SIZE => after # current + 4)
    <3>1. /\ m2 \in [Word -> Nat] /\ m2[current + 8] = z2[current] /\ z2[current] \in Nat
          /\ current + 4 \in Word
      BY <1>10, <1>11, TilingFacts DEF Growing, Sized
    <3>2. after \in B2 \cup {HEAP_SIZE} /\ ~(HEAP_SIZE < HEAP_SIZE)
      BY <1>11, HeapFacts DEF Tiling
    <3> QED
      BY <1>11, <3>1, <3>2, TilingFacts, HeadersApart
  <2>3. Growing(m3, B2, z2, U1, current, after) /\ Known(m3, B2, z2, HEAP_SIZE)
    <3>1. CASE after < HEAP_SIZE
      <4>1. m3 = [m2 EXCEPT ![after] = z2[current]]
        BY <2>1, <2>2, <3>1 DEF prev_size, size
      <4> HIDE DEF m3
      <4>2. Wrote(m2, m3, after, z2[current])
        BY <2>2, <3>1, <4>1 DEF Wrote
      <4> QED
        BY <1>10, <2>2, <3>1, <4>2, FreedTells
    <3>2. CASE ~(after < HEAP_SIZE)
      <4>1. m3 = m2
        BY <2>1, <3>2
      <4>2. after = HEAP_SIZE
        <5>1. after \in B2 \cup {HEAP_SIZE}
          BY <1>11 DEF Tiling
        <5>2. after \in B2 => after \in Nat /\ after + 12 < HEAP_SIZE
          BY <1>11, TilingFacts
        <5> QED
          BY <3>2, <5>1, <5>2, HeapFacts
      <4> QED
        BY <1>10, <4>1, <4>2 DEF Growing
    <3> QED
      BY <3>1, <3>2
  <2> HIDE DEF m3
  <2>4. Sized(m4, B2, z2) /\ Flagged(m4, B2, U1 \ {current}, HEAP_SIZE) /\ Known(m4, B2, z2, HEAP_SIZE)
    <3>1. m3 \in [Word -> Nat]
      BY <2>3 DEF Growing, Sized
    <3>2. m4 = [m3 EXCEPT ![current + 4] = 0]
      BY DEF flags
    <3> HIDE DEF m4
    <3>3. Wrote(m3, m4, current + 4, 0)
      BY <2>2, <3>1, <3>2 DEF Wrote
    <3> QED
      BY <2>3, <3>3, FreedMarks
  <2> QED
    BY <1>7, <2>4
<1> HIDE DEF m3, m4, known
<1>13. Separate(B2, z2, U2, HEAP_SIZE)
  <2> SUFFICES ASSUME NEW x \in B2, Behind(z2, x) \in B2 PROVE x \in U2 \/ Behind(z2, x) \in U2
    BY DEF Separate
  <2>1. CASE x = current
    <3>1. Behind(z2, x) = after /\ after \in U1 /\ after # current
      BY <1>10, <1>11, <2>1, HeadersApart
    <3> QED
      BY <1>7, <3>1
  <2>2. CASE x # current /\ Behind(z2, x) = current
    <3>1. Behind(z1, x) = current
      BY <1>10, <2>2 DEF Behind
    <3> QED
      BY <1>7, <1>10, <2>2, <3>1
  <2>3. CASE x # current /\ Behind(z2, x) # current
    <3>1. x \in B /\ x # old /\ Behind(z2, x) \in B /\ Behind(z2, x) # old
      BY <1>7, <1>10, <2>3
    <3>2. Behind(z2, x) = Behind(z, x)
      BY <1>7, <1>10, <2>3 DEF Behind
    <3>3. x \in U \/ Behind(z, x) \in U
      BY <1>2, <3>1, <3>2, TilingFacts DEF Separate
    <3> QED
      BY <3>1, <3>2, <3>3
  <2> QED
    BY <2>1, <2>2, <2>3
<1>14. Owned(l2, z2, U2)
  <2>1. \A x \in U : x # old => z2[x] = z[x]
    <3>1. \A x \in U : x # old => x \in U1 /\ x # current
      BY <1>7
    <3>2. \A x \in U1 : x \in B2 /\ x \in B1
      BY <1>10, <1>11 DEF Flagged
    <3> QED
      BY <1>7, <1>10, <3>1, <3>2
  <2> QED
    BY <1>2, <1>3, <2>1, OwnedLess
<1>15. Heap(m4, l2, B2, z2, U2)
  BY <1>11, <1>12, <1>13, <1>14 DEF Heap
<1> QED
  BY <1>1, <1>15

\* Every block that is not allocated is free.
LEMMA FreeBlocks ==
  ASSUME NEW m, NEW l, NEW B, NEW z, NEW U, Heap(m, l, B, z, U), NEW b \in B
  PROVE  M_IS_FREE(m, b) <=> b \notin U
<1>1. m[b + 4] \in Nat /\ b # HEAP_SIZE
  BY TilingFacts DEF Heap, Sized
<1>2. m[b + 4] % 2 = 1 <=> b \in U
  BY <1>1 DEF Heap, Flagged
<1>3. m[b + 4] % 2 = 0 \/ m[b + 4] % 2 = 1
  BY <1>1
<1> QED
  BY <1>2, <1>3 DEF M_IS_FREE, flags

\* kmalloc keeps the invariant.
LEMMA KmallocKeeps ==
  ASSUME HeapInv, NEW n \in Sizes, kmalloc(n)
  PROVE  HeapInv'
<1> DEFINE fits == {b \in Blocks(mem) : M_IS_FREE(mem, b) /\ mem[size(b)] >= n}
           best == BestOf(mem, fits)
<1>1. /\ fits # {} /\ mem' = prepareBestBlock(mem, best, n)
      /\ live' = Append(live, [at |-> best + HEADER, size |-> n])
      /\ IF mem[size(best)] > n + HEADER
         THEN stale' = (stale \/ M_NEXT_BLOCK(mem, best) # HEAP_SIZE) ELSE stale' = stale
  BY DEF kmalloc, Allocated, Shortened
<1>2. stale' \in BOOLEAN
  BY <1>1 DEF HeapInv
<1>3. SUFFICES ASSUME ~stale' PROVE \E B, z, U : Heap(mem', live', B, z, U)
  BY <1>2 DEF HeapInv
<1>4. ~stale /\ (mem[size(best)] > n + HEADER => M_NEXT_BLOCK(mem, best) = HEAP_SIZE)
  BY <1>1, <1>3
<1>5. PICK B, z, U : Heap(mem, live, B, z, U)
  BY <1>4 DEF HeapInv
<1>6. /\ Tiling(B, z) /\ Sized(mem, B, z) /\ Flagged(mem, B, U, HEAP_SIZE)
      /\ Known(mem, B, z, HEAP_SIZE) /\ Separate(B, z, U, HEAP_SIZE) /\ Owned(live, z, U)
  BY <1>5 DEF Heap
<1>7. Blocks(mem) = B
  BY <1>6, WalkIs
<1>8. best \in fits
  <2>1. \A b \in B : b \in Nat /\ mem[size(b)] \in Nat
    BY <1>6, TilingFacts DEF Sized, size
  <2>2. fits \in SUBSET Nat /\ \A b \in fits : mem[size(b)] \in Nat
    BY <1>7, <2>1
  <2> HIDE DEF fits
  <2> QED
    BY <1>1, <2>2, BestOfIn
<1>9. best \in B /\ best \notin U /\ z[best] >= n /\ mem[size(best)] = z[best]
      /\ M_NEXT_BLOCK(mem, best) = Behind(z, best)
  <2>1. best \in B /\ M_IS_FREE(mem, best) /\ mem[size(best)] >= n
    BY <1>7, <1>8
  <2> HIDE DEF best
  <2> QED
    BY <1>5, <1>6, <2>1, FreeBlocks, NextIs DEF Sized, size
<1> HIDE DEF best, fits
<1>10. Ready(mem, live, B, z, U, best)
  <2>1. Flagged(mem, B, U, best) /\ Separate(B, z, U, best)
    BY <1>6, TilingFacts DEF Flagged, Separate
  <2> QED
    BY <1>6, <1>9, <2>1 DEF Ready
<1>11. n \in Nat /\ n > 0 /\ n % 4 = 0
  BY HeapAssumption
<1>12. CASE z[best] > n + 12
  <2>1. Behind(z, best) = HEAP_SIZE
    BY <1>4, <1>9, <1>12 DEF HEADER
  <2> QED
    BY <1>1, <1>10, <1>11, <1>12, <2>1, PlacedSplit
<1>13. CASE ~(z[best] > n + 12)
  <2>1. n <= z[best]
    BY <1>6, <1>9, <1>11, TilingFacts
  <2> QED
    BY <1>1, <1>10, <1>11, <1>13, <2>1, PlacedWhole
<1> QED
  BY <1>12, <1>13

\* kmalloc_align keeps the invariant.
LEMMA KmallocAlignKeeps ==
  ASSUME HeapInv, NEW n \in Sizes, NEW align \in Aligns, kmalloc_align(n, align)
  PROVE  HeapInv'
<1> DEFINE fits == {b \in Blocks(mem) :
                      /\ M_IS_FREE(mem, b)
                      /\ padding(b, align) < mem[size(b)]
                      /\ mem[size(b)] - padding(b, align) >= n}
           old == BestOf(mem, fits)
           last == M_LAST_BLOCK(mem, old)
           pad == padding(old, align)
           best == old + pad
           longer == mem[size(last)] + pad
           moved == [mem EXCEPT ![size(last)] = longer, ![prev_size(best)] = longer,
                                ![size(best)] = mem[size(old)] - pad]
<1>1. /\ fits # {} /\ mem' = prepareBestBlock(moved, best, n)
      /\ live' = Append(live, [at |-> best + HEADER, size |-> n])
      /\ stale' = (stale \/ M_NEXT_BLOCK(mem, old) # HEAP_SIZE)
  BY DEF kmalloc_align, Allocated, Shortened
<1>2. stale' \in BOOLEAN
  BY <1>1 DEF HeapInv
<1>3. SUFFICES ASSUME ~stale' PROVE \E B, z, U : Heap(mem', live', B, z, U)
  BY <1>2 DEF HeapInv
<1>4. ~stale /\ M_NEXT_BLOCK(mem, old) = HEAP_SIZE
  BY <1>1, <1>3
<1>5. PICK B, z, U : Heap(mem, live, B, z, U)
  BY <1>4 DEF HeapInv
<1>6. /\ Tiling(B, z) /\ Sized(mem, B, z) /\ Flagged(mem, B, U, HEAP_SIZE)
      /\ Known(mem, B, z, HEAP_SIZE) /\ Owned(live, z, U)
  BY <1>5 DEF Heap
<1>7. Blocks(mem) = B
  BY <1>6, WalkIs
<1>8. old \in fits
  <2>1. \A b \in B : b \in Nat /\ mem[size(b)] \in Nat
    BY <1>6, TilingFacts DEF Sized, size
  <2>2. fits \in SUBSET Nat /\ \A b \in fits : mem[size(b)] \in Nat
    BY <1>7, <2>1
  <2> HIDE DEF fits
  <2> QED
    BY <1>1, <2>2, BestOfIn
<1>9. /\ old \in B /\ old \notin U /\ mem[size(old)] = z[old]
      /\ pad < z[old] /\ z[old] - pad >= n /\ Behind(z, old) = HEAP_SIZE
  <2>1. /\ old \in B /\ M_IS_FREE(mem, old) /\ pad < mem[size(old)] /\ mem[size(old)] - pad >= n
    BY <1>7, <1>8
  <2> HIDE DEF old, pad
  <2> QED
    BY <1>4, <1>5, <1>6, <2>1, FreeBlocks, NextIs DEF Sized, size
<1> HIDE DEF old, fits
<1>10. last \in B /\ Behind(z, last) = old
  <2>1. old # 0
    <3>1. 0 \in U
      BY <1>6 DEF Owned
    <3> QED
      BY <1>9, <3>1
  <2> QED
    BY <1>6, <1>9, <2>1, LastIs
<1>11. n \in Nat /\ n > 0 /\ n % 4 = 0 /\ align \in Nat /\ align > 0 /\ align % 4 = 0
  BY HeapAssumption
<1>12. pad \in Nat /\ pad > 0 /\ pad % 4 = 0
  BY <1>6, <1>9, <1>11, TilingFacts, Padding
<1>13. moved = MovedUp(mem, z, last, old, pad)
  <2>1. mem[size(last)] = z[last]
    BY <1>6, <1>10 DEF Sized, size
  <2>2. size(last) = last + 8 /\ prev_size(best) = old + pad /\ size(best) = old + pad + 8
    BY DEF size, prev_size
  <2> HIDE DEF pad, last
  <2> QED
    BY <1>9, <2>1, <2>2 DEF MovedUp
<1> HIDE DEF moved, last, pad
<1>14. \E B2, z2 : /\ Ready(moved, live, B2, z2, U, old + pad) /\ z2[old + pad] = z[old] - pad
                   /\ Behind(z2, old + pad) = HEAP_SIZE
  BY <1>5, <1>9, <1>10, <1>12, <1>13, Moved
<1>15. PICK B2, z2 : /\ Ready(moved, live, B2, z2, U, best) /\ z2[best] = z[old] - pad
                     /\ Behind(z2, best) = HEAP_SIZE
  BY <1>14
<1> HIDE DEF best
<1>16. CASE z2[best] > n + 12
  BY <1>1, <1>11, <1>15, <1>16, PlacedSplit
<1>17. CASE ~(z2[best] > n + 12)
  <2>1. z2[best] \in Nat
    BY <1>15, TilingFacts DEF Ready
  <2>2. n <= z2[best]
    BY <1>9, <1>11, <1>15, <2>1
  <2> QED
    BY <1>1, <1>11, <1>15, <1>17, <2>2, PlacedWhole
<1> QED
  BY <1>16, <1>17

\* kfree keeps the invariant, whichever block is freed.
LEMMA KfreeKeeps ==
  ASSUME HeapInv, NEW i \in 2..Len(live), kfree(i)
  PROVE  HeapInv'
<1>1. /\ mem' = Released(mem, live[i].at) /\ stale' = stale
      /\ live' = SubSeq(live, 1, i - 1) \o SubSeq(live, i + 1, Len(live))
  BY DEF kfree
<1>2. stale' \in BOOLEAN
  BY <1>1 DEF HeapInv
<1>3. SUFFICES ASSUME ~stale' PROVE \E B, z, U : Heap(mem', live', B, z, U)
  BY <1>2 DEF HeapInv
<1>4. PICK B, z, U : Heap(mem, live, B, z, U)
  BY <1>1, <1>3 DEF HeapInv
<1> QED
  BY <1>1, <1>4, Freed

\* init_heap and the first allocation establish the invariant.
LEMMA HeapStarts ==
  ASSUME HeapInit
  PROVE  HeapInv
<1> DEFINE rest == HEAP_SIZE - 36
           next == HEAP_SIZE - 12
           m == init_heap
           B == {0, 24}
           z == [x \in B |-> IF x = 0 THEN 12 ELSE rest]
<1>1. /\ rest \in Nat /\ rest > 0 /\ rest % 4 = 0 /\ rest % 2 = 0 /\ 24 + 12 + rest = HEAP_SIZE
      /\ next \in Nat /\ next % 4 = 0 /\ next < HEAP_SIZE /\ next >= 28
      /\ next = 24 + rest /\ (HEAP_SIZE - 12) - 12 - 12 = rest
      /\ HEAP_SIZE - 12 > 12 + 12 /\ HEAP_SIZE # 24 /\ HEAP_SIZE # 0
  BY HeapFacts
<1>2. /\ 0 \in Word /\ 4 \in Word /\ 8 \in Word /\ 24 \in Word /\ 28 \in Word /\ 32 \in Word
      /\ next \in Word
  BY <1>1, HeapFacts DEF Word
<1>3. m \in [Word -> Nat] /\ m[8] = HEAP_SIZE - 12 /\ m[0] = 0 /\ m[4] = 0
  BY <1>1, <1>2 DEF init_heap, size, HEADER
<1>4. mem = [m EXCEPT ![24] = 12, ![28] = 0, ![32] = rest, ![next] = rest, ![8] = 12, ![4] = 1]
  <2>1. mem = prepareBestBlock(m, 0, 12)
    BY DEF HeapInit, BootBlock
  <2>2. /\ size(0) = 8 /\ flags(0) = 4 /\ prev_size(24) = 24 /\ flags(24) = 28 /\ size(24) = 32
        /\ 0 + 12 + HEADER = 24 /\ 0 + m[8] = next /\ m[8] - HEADER - 12 = rest
        /\ m[8] > 12 + HEADER /\ prev_size(next) = next
    BY <1>1, <1>3 DEF size, flags, prev_size, HEADER
  <2> HIDE DEF m, rest, next
  <2> QED
    BY <2>1, <2>2 DEF prepareBestBlock
<1> HIDE DEF m, next, rest
<1>5. mem \in [Word -> Nat] /\ mem[24] = 12 /\ mem[32] = rest /\ mem[8] = 12 /\ mem[4] = 1
      /\ mem[28] \in {0, rest}
  <2>1. next # 8 /\ next # 4 /\ next # 24 /\ (next = 32 \/ next # 32)
    BY <1>1
  <2> QED
    BY <1>1, <1>2, <1>3, <1>4, <2>1
<1>6. live = <<[at |-> 12, size |-> 12]>> /\ stale = FALSE
  BY DEF HeapInit, HEADER, BootBlock
<1>7. /\ Len(live) = 1 /\ live[1] = [at |-> 12, size |-> 12]
      /\ live \in Seq([at : Nat, size : Nat])
  BY <1>6
<1>8. At(live, 1) = 0 /\ live[1].size = 12
  BY <1>7 DEF At, HEADER
<1>9. z \in [B -> Nat] /\ z[0] = 12 /\ z[24] = rest
  BY <1>1
<1> HIDE DEF z
<1>10. Behind(z, 0) = 24 /\ Behind(z, 24) = HEAP_SIZE
  BY <1>1, <1>9 DEF Behind
<1>11. Tiling(B, z)
  <2>1. \A x \in B : z[x] > 0 /\ Behind(z, x) \in B \cup {HEAP_SIZE}
    BY <1>1, <1>9, <1>10
  <2>2. \A b, c \in B : b < c => Behind(z, b) <= c
    BY <1>10
  <2>3. \A c \in B \ {0} : \E b \in B : Behind(z, b) = c
    BY <1>10
  <2> QED
    BY <1>2, <1>9, <2>1, <2>2, <2>3 DEF Tiling
<1>12. Sized(mem, B, z)
  <2>1. 0 + 8 = 8 /\ 24 + 8 = 32
    OBVIOUS
  <2> QED
    BY <1>5, <1>9, <2>1 DEF Sized
<1>13. Flagged(mem, B, {0}, HEAP_SIZE)
  <2>1. 0 + 4 = 4 /\ 24 + 4 = 28 /\ 1 % 2 = 1 /\ 0 % 2 = 0
    OBVIOUS
  <2>2. mem[28] % 2 = 0
    BY <1>1, <1>5
  <2>3. mem[0 + 4] % 2 = 1 /\ mem[24 + 4] % 2 # 1
    BY <1>5, <2>1, <2>2
  <2> QED
    BY <2>3 DEF Flagged
<1>14. Known(mem, B, z, HEAP_SIZE) /\ Separate(B, z, {0}, HEAP_SIZE)
  BY <1>1, <1>5, <1>9, <1>10 DEF Known, Separate
<1>15. Owned(live, z, {0})
  <2>1. 1..1 = {1}
    OBVIOUS
  <2>2. Behind(z, 0) # HEAP_SIZE
    BY <1>1, <1>10
  <2> QED
    BY <1>7, <1>8, <1>9, <2>1, <2>2 DEF Owned
<1>16. Heap(mem, live, B, z, {0})
  BY <1>11, <1>12, <1>13, <1>14, <1>15 DEF Heap
<1> QED
  BY <1>6, <1>16 DEF HeapInv

\* The invariant implies what kmalloc and kfree promise.
LEMMA InvSound ==
  ASSUME HeapInv
  PROVE  HeapSound
<1>1. SUFFICES ASSUME ~stale PROVE LiveDisjoint /\ WellFormed /\ Coalesced
  BY DEF HeapSound
<1>2. PICK B, z, U : Heap(mem, live, B, z, U)
  BY <1>1 DEF HeapInv
<1>3. /\ Tiling(B, z) /\ Sized(mem, B, z) /\ Flagged(mem, B, U, HEAP_SIZE)
      /\ Known(mem, B, z, HEAP_SIZE) /\ Separate(B, z, U, HEAP_SIZE) /\ Owned(live, z, U)
  BY <1>2 DEF Heap
<1>4. Blocks(mem) = B
  BY <1>3, WalkIs
<1> DEFINE k == Len(live)
<1>5. /\ live \in Seq([at : Nat, size : Nat]) /\ k \in Nat /\ DOMAIN live = 1..k /\ At(live, 1) = 0
      /\ \A i, j \in 1..k : At(live, i) = At(live, j) => i = j
      /\ \A b \in U : \E i \in 1..k : At(live, i) = b
      /\ U \subseteq B
  BY <1>3 DEF Owned, Flagged
<1>6. ASSUME NEW i \in 1..k
      PROVE  /\ At(live, i) \in U /\ At(live, i) \in B /\ At(live, i) \in Nat
             /\ live[i].at = At(live, i) + 12 /\ live[i].size \in Nat
             /\ At(live, i) + 12 + live[i].size <= Behind(z, At(live, i))
             /\ Behind(z, At(live, i)) \in Nat
  <2>1. live[i] \in [at : Nat, size : Nat]
    BY <1>5, SeqElem
  <2>2. live[i].at \in Nat /\ live[i].size \in Nat
    BY <2>1
  <2>3. At(live, i) \in U /\ live[i].size <= z[At(live, i)]
    BY <1>3 DEF Owned
  <2>4. /\ At(live, i) \in B /\ At(live, i) \in Nat /\ z[At(live, i)] \in Nat
        /\ Behind(z, At(live, i)) = At(live, i) + 12 + z[At(live, i)]
        /\ Behind(z, At(live, i)) \in Nat
    BY <1>3, <1>5, <2>3, TilingFacts
  <2>5. live[i].at = At(live, i) + 12
    BY <2>2 DEF At, HEADER
  <2>6. At(live, i) + 12 + live[i].size <= Behind(z, At(live, i))
    BY <2>2, <2>3, <2>4
  <2> QED
    BY <2>2, <2>3, <2>4, <2>5, <2>6
<1> HIDE DEF k
<1>7. LiveDisjoint
  <2>1. ASSUME NEW i \in 1..k, NEW j \in 1..k, Behind(z, At(live, i)) <= At(live, j), NEW w \in Word,
               w \in Extent(live[i]), w \in Extent(live[j])
        PROVE  FALSE
    <3>1. w < live[i].at + live[i].size /\ w >= live[j].at - 12 /\ w \in Nat
      BY <2>1 DEF Extent, HEADER, Word
    <3>2. /\ live[i].at = At(live, i) + 12 /\ live[j].at = At(live, j) + 12
          /\ At(live, i) + 12 + live[i].size <= Behind(z, At(live, i))
          /\ Behind(z, At(live, i)) \in Nat
          /\ At(live, i) \in Nat /\ At(live, j) \in Nat /\ live[i].size \in Nat
      BY <1>6
    <3> QED
      BY <2>1, <3>1, <3>2
  <2>2. ASSUME NEW i \in 1..k, NEW j \in 1..k, i # j
        PROVE  Behind(z, At(live, i)) <= At(live, j) \/ Behind(z, At(live, j)) <= At(live, i)
    <3>1. At(live, i) # At(live, j) /\ At(live, i) \in B /\ At(live, j) \in B
      BY <1>5, <1>6, <2>2
    <3> QED
      BY <1>3, <3>1, Apart
  <2>3. \A i \in 1..k : Extent(live[i]) \subseteq Word
    BY DEF Extent
  <2>4. ASSUME NEW i \in 1..k, NEW j \in 1..k, i # j, NEW w \in Extent(live[i]) \cap Extent(live[j])
        PROVE  FALSE
    BY <2>1, <2>2, <2>3, <2>4
  <2> QED
    BY <1>5, <2>4 DEF LiveDisjoint
<1>8. WellFormed
  <2> SUFFICES ASSUME NEW b \in B
               PROVE  /\ M_NEXT_BLOCK(mem, b) \in B \cup {HEAP_SIZE}
                      /\ M_NEXT_BLOCK(mem, b) \in B => mem[M_NEXT_BLOCK(mem, b)] = mem[size(b)]
                      /\ M_IS_FREE(mem, b) <=> \A i \in 1..k : live[i].at # b + HEADER
    BY <1>4, <1>5 DEF WellFormed, prev_size
  <2>1. M_NEXT_BLOCK(mem, b) = Behind(z, b) /\ mem[size(b)] = z[b] /\ b \in Nat
    BY <1>3, NextIs, TilingFacts DEF Sized, size
  <2>2. Behind(z, b) \in B \cup {HEAP_SIZE} /\ (Behind(z, b) \in B => mem[Behind(z, b)] = z[b])
    BY <1>3, TilingFacts DEF Tiling, Known
  <2>3. b \in U <=> \E i \in 1..k : live[i].at = b + HEADER
    <3>1. ASSUME NEW i \in 1..k PROVE live[i].at = b + 12 <=> At(live, i) = b
      <4>1. live[i].at = At(live, i) + 12 /\ At(live, i) \in Nat
        BY <1>6
      <4> QED
        BY <2>1, <4>1
    <3>2. ASSUME b \in U PROVE \E i \in 1..k : live[i].at = b + 12
      <4>1. PICK i \in 1..k : At(live, i) = b
        BY <1>5, <3>2
      <4> QED
        BY <3>1, <4>1
    <3>3. ASSUME NEW i \in 1..k, live[i].at = b + 12 PROVE b \in U
      BY <1>6, <3>1, <3>3
    <3> QED
      BY <3>2, <3>3 DEF HEADER
  <2>4. M_IS_FREE(mem, b) <=> b \notin U
    BY <1>2, FreeBlocks
  <2> QED
    BY <2>1, <2>2, <2>3, <2>4
<1>9. Coalesced
  <2> SUFFICES ASSUME k = 1 PROVE B = {0, M_NEXT_BLOCK(mem, 0)}
    BY <1>4 DEF Coalesced, k
  <2> DEFINE c == Behind(z, 0)
  <2>1. 0 \in B /\ M_NEXT_BLOCK(mem, 0) = c /\ U = {0}
    <3>1. 0 \in B
      BY <1>3 DEF Tiling
    <3>2. 1..k = {1}
      OBVIOUS
    <3> QED
      BY <1>3, <1>5, <1>6, <3>1, <3>2, NextIs
  <2>2. c \in B /\ c # 0
    BY <1>3, <2>1, HeadersApart DEF Tiling, Owned
  <2> HIDE DEF c
  <2>3. Behind(z, c) = HEAP_SIZE
    <3> SUFFICES ASSUME Behind(z, c) # HEAP_SIZE PROVE FALSE
      OBVIOUS
    <3>1. Behind(z, c) \in B
      BY <1>3, <2>2 DEF Tiling
    <3>2. Behind(z, c) # 0
      <4>1. c \in Nat /\ c < Behind(z, c)
        BY <1>3, <2>2, HeadersApart, TilingFacts
      <4> QED
        BY <4>1
    <3> QED
      BY <1>3, <2>1, <2>2, <3>1, <3>2, TilingFacts DEF Separate
  <2>4. ASSUME NEW x \in B, x # 0, x # c PROVE FALSE
    <3>1. Behind(z, 0) <= x \/ Behind(z, x) <= 0
      BY <1>3, <2>1, <2>4, Apart
    <3>2. Behind(z, c) <= x \/ Behind(z, x) <= c
      BY <1>3, <2>2, <2>4, Apart
    <3>3. x \in Nat /\ c \in Nat /\ x + 12 < HEAP_SIZE /\ Behind(z, x) \in Nat /\ x < Behind(z, x)
      BY <1>3, <2>2, TilingFacts, HeadersApart
    <3>4. Behind(z, 0) = c
      BY DEF c
    <3> QED
      BY <2>3, <3>1, <3>2, <3>3, <3>4, HeapFacts
  <2> QED
    BY <2>1, <2>2, <2>4
<1> QED
  BY <1>7, <1>8, <1>9

\* Whatever is allocated and in whatever order it is freed: until an allocation
\* shortens a free block that another one follows (prepareBestBlock, vmm.c:457, and
\* kmalloc_align do not tell that one), allocated blocks never overlap, the headers
\* stay a list from one end of the heap to the other with matching sizes, and
\* freeing everything leaves one free block: for a heap of every size and requests
\* of every size and alignment in words.
THEOREM HeapSoundHolds == HeapSpec => []HeapSound
<1>1. HeapInit => HeapInv
  BY HeapStarts
<1>2. HeapInv /\ [HeapNext]_heap_vars => HeapInv'
  <2> SUFFICES ASSUME HeapInv, [HeapNext]_heap_vars PROVE HeapInv'
    OBVIOUS
  <2>1. ASSUME NEW n \in Sizes, kmalloc(n) PROVE HeapInv'
    BY <2>1, KmallocKeeps
  <2>2. ASSUME NEW n \in Sizes, NEW align \in Aligns, kmalloc_align(n, align) PROVE HeapInv'
    BY <2>2, KmallocAlignKeeps
  <2>3. ASSUME NEW i \in 2..Len(live), kfree(i) PROVE HeapInv'
    BY <2>3, KfreeKeeps
  <2>4. CASE UNCHANGED heap_vars
    BY <2>4 DEF heap_vars, HeapInv
  <2> QED
    BY <2>1, <2>2, <2>3, <2>4 DEF HeapNext
<1>3. HeapInv => HeapSound
  BY InvSound
<1> QED
  BY <1>1, <1>2, <1>3, PTL DEF HeapSpec
=============================================================================
