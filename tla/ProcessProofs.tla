---------------------------- MODULE ProcessProofs ----------------------------
(***************************************************************************)
(* What the kernel keeps of a trustlet's process: the memory lent to it for *)
(* a call, for any number of processes, pages, frames and references of any *)
(* size; and its file handles, for any number of them.                      *)
(***************************************************************************)
EXTENDS TaskMemory, FileHandles, Integers, FiniteSetTheorems, WellFoundedInduction, TLAPS

\* The assumptions on the constants, together.
LentHyp ==
  /\ BITS \in Nat \ {0} /\ NULL \notin Nat
  /\ PAGES \in Nat \ {0} /\ FRAMES \in Nat \ {0} /\ PAGE_SIZE \in Nat \ {0}
  /\ Sizes \subseteq Nat /\ MaxParams \in Nat

-----------------------------------------------------------------------------
(* The memory lent for a call                                              *)

\* The physical pages allocated for a reference, of which its frames show the
\* first.
Backing(t, r) == Run(pd[t][r.uaddr], needed_pages(r.size))

\* The frames of a reference are marked used, and show the first page of its
\* backing, which is allocated.
Held(t, r) ==
  /\ \A f \in Run(r.uaddr, needed_pages(r.size)) : f \in Frame /\ ~membitmap[t][f]
  /\ pd[t][r.uaddr] \in PhysPage
  /\ \A p \in Backing(t, r) : p \in PhysPage /\ ~pmm[p]

\* No page backs two references, of one process or of two.
BackingApart ==
  \A t, u \in Procs : \A r \in refs[t], q \in refs[u] :
    <<u, q>> # <<t, r>> => Backing(t, r) \cap Backing(u, q) = {}

LentInv ==
  /\ TypeOK
  /\ \A t \in Procs : \A r \in refs[t] : Held(t, r)
  /\ BackingApart

\* A nonempty set of pages has a first one.
LEMMA FirstPage ==
  ASSUME NEW S \in SUBSET Nat, S # {}
  PROVE  First(S) \in S
<1>1. PICK i \in S : \A j \in S : ~ (<<j, i>> \in OpToRel(<, Nat))
  BY WFMin, NatLessThanWellFounded, Zenon
<1>2. \A j \in S : ~ (j < i)
  BY <1>1 DEF OpToRel
<1>3. \A j \in S : i <= j
  BY <1>2
<1> QED
  BY <1>3 DEF First

\* The block a bitmap's manager chooses is free.
LEMMA BlockFree ==
  ASSUME LentHyp, NEW N \in Nat, NEW bm \in [0..(N - 1) -> BOOLEAN], NEW n \in Nat,
         FirstFit(bm, n) # NULL
  PROVE  /\ FirstFit(bm, n) \in 0..(N - 1)
         /\ \A s \in Run(FirstFit(bm, n), n) : s \in 0..(N - 1) /\ bm[s]
<1> DEFINE S == Fits(bm, n)
<1>1. S \in SUBSET Nat
  BY DEF Fits
<1>2. First(S) \in S
  BY <1>1, FirstPage DEF First, FirstFit
<1> QED
  BY <1>1, <1>2 DEF Fits, FirstFit

\* As many pages are freed as were allocated, or one less.
LEMMA FreedPages ==
  ASSUME LentHyp, NEW size \in Nat
  PROVE  /\ needed_pages(size) \in Nat \ {0} /\ freed_pages(size) \in Nat
         /\ freed_pages(size) <= needed_pages(size)
<1> DEFINE d == PAGE_SIZE
<1>1. d \in Nat /\ d > 0
  BY DEF LentHyp
<1> HIDE DEF d
<1>2. \A x \in Nat : x \div d \in Nat /\ d * (x \div d) <= x /\ x < d * (x \div d) + d
  BY <1>1
<1>3. \A x, y \in Nat : x < y => d * x + d <= d * y
  <2> TAKE x \in Nat, y \in Nat
  <2> HAVE x < y
  <2>1. PICK z \in Nat : y = x + 1 + z
    <3>1. y - x - 1 \in Nat /\ y = x + 1 + (y - x - 1)
      OBVIOUS
    <3> QED
      BY <3>1
  <2>2. d * y = d * x + d + d * z
    BY <1>1, <2>1
  <2>3. d * z >= 0
    BY <1>1
  <2>4. d * x \in Int /\ d * y \in Int /\ d * z \in Int
    BY <1>1
  <2> QED
    BY <1>1, <2>2, <2>3, <2>4
<1> DEFINE f == (size + d - 1) \div d
           q == size \div d
<1>4. f \in Nat /\ d * f <= size + d - 1 /\ size + d - 1 < d * f + d
  BY <1>1, <1>2
<1>5. q \in Nat /\ d * q <= size /\ size < d * q + d
  BY <1>2
<1> HIDE DEF f, q
<1>6. d * f \in Int /\ d * q \in Int /\ d * (q + 1) = d * q + d
  BY <1>1, <1>4, <1>5
<1>7. f <= q + 1
  <2>1. SUFFICES ASSUME q + 1 < f
                 PROVE  FALSE
    BY <1>4, <1>5
  <2>2. d * (q + 1) + d <= d * f
    BY <1>3, <1>4, <1>5, <2>1
  <2> QED
    BY <1>1, <1>4, <1>5, <1>6, <2>2
<1> QED
  BY <1>4, <1>5, <1>7 DEF freed_pages, needed_pages, f, q, d

\* A reference is lent: fresh pages, fresh frames; nothing of the references
\* before is touched, even when the process has no frames and the page is
\* mapped at address 0.
LEMMA LendStep ==
  ASSUME LentHyp, LentInv, NEW t \in Procs, NEW size \in Sizes, parameters_to_userspace(t, size)
  PROVE  LentInv'
<1> DEFINE n == needed_pages(size)
<1>0. PICK page, start : page = FirstFit(pmm, n) /\ start = FirstFit(membitmap[t], n)
  OBVIOUS
<1>1. /\ n \in Nat \ {0} /\ size \in Nat /\ NULL \notin Nat /\ PAGES \in Nat /\ FRAMES \in Nat
      /\ TypeOK /\ Low \in VirtPage /\ Low \notin Frame
  BY FreedPages DEF LentHyp, LentInv, Low, VirtPage, Frame
<1>2. page # NULL => /\ page \in PhysPage
                     /\ \A p \in Run(page, n) : p \in PhysPage /\ pmm[p]
  BY <1>0, <1>1, BlockFree DEF TypeOK, PhysPage
<1>3. start # NULL => /\ start \in Frame
                      /\ \A f \in Run(start, n) : f \in Frame /\ membitmap[t][f]
  <2>1. membitmap[t] \in [0..(FRAMES - 1) -> BOOLEAN]
    BY <1>1 DEF TypeOK, Frame
  <2> QED
    BY <1>0, <1>1, <2>1, BlockFree DEF Frame
<1>4. refs' = [refs EXCEPT ![t] = IF page = NULL \/ start = NULL THEN {}
                                  ELSE @ \cup {[uaddr |-> start, size |-> size]}]
  BY <1>0 DEF parameters_to_userspace
<1>5. page # NULL => pmm' = Take(pmm, page, n) /\ map_mem_to_task(t, page, n)
  BY <1>0 DEF parameters_to_userspace
<1>6. page = NULL => UNCHANGED <<pmm, membitmap, pd>>
  BY <1>0 DEF parameters_to_userspace
<1>7. page # NULL /\ start = NULL =>
        pd' = [pd EXCEPT ![t][Low] = page] /\ UNCHANGED membitmap
  BY <1>0, <1>5 DEF map_mem_to_task
<1>8. page # NULL /\ start # NULL =>
        /\ membitmap' = [membitmap EXCEPT ![t] = Take(@, start, n)]
        /\ pd' = [pd EXCEPT ![t] = [v \in VirtPage |->
                    IF v \in Run(start, n) THEN page ELSE pd[t][v]]]
  BY <1>0, <1>5 DEF map_mem_to_task
<1>9. Frame \subseteq VirtPage
  BY DEF VirtPage
\* What the steps of the bitmaps and the directory come to.
<1>10. pmm' \in [PhysPage -> BOOLEAN]
       /\ \A p \in PhysPage : pmm'[p] <=> pmm[p] /\ ~(page # NULL /\ p \in Run(page, n))
  BY <1>1, <1>5, <1>6 DEF TypeOK, Take
<1>11. /\ membitmap' \in [Procs -> [Frame -> BOOLEAN]]
       /\ \A u \in Procs, f \in Frame : membitmap'[u][f] <=>
            membitmap[u][f] /\ ~(u = t /\ page # NULL /\ start # NULL /\ f \in Run(start, n))
  <2>1. CASE page = NULL \/ start = NULL
    BY <1>1, <1>6, <1>7, <2>1 DEF TypeOK
  <2>2. CASE page # NULL /\ start # NULL
    <3>1. membitmap[t] \in [Frame -> BOOLEAN]
      BY <1>1 DEF TypeOK
    <3> DEFINE mb == Take(membitmap[t], start, n)
    <3>2. mb \in [Frame -> BOOLEAN]
          /\ \A f \in Frame : mb[f] <=> membitmap[t][f] /\ f \notin Run(start, n)
      BY <3>1 DEF Take
    <3> HIDE DEF mb
    <3>3. membitmap' = [membitmap EXCEPT ![t] = mb]
      BY <1>8, <2>2 DEF mb
    <3> QED
      BY <1>1, <2>2, <3>2, <3>3 DEF TypeOK
  <2> QED
    BY <2>1, <2>2
<1>12. pd' \in [Procs -> [VirtPage -> PhysPage \cup {NULL}]]
  <2>1. CASE page = NULL
    BY <1>1, <1>6, <2>1 DEF TypeOK
  <2>2. CASE page # NULL /\ start = NULL
    <3>1. [pd[t] EXCEPT ![Low] = page] \in [VirtPage -> PhysPage \cup {NULL}]
      BY <1>1, <1>2, <2>2 DEF TypeOK
    <3>2. pd' = [pd EXCEPT ![t] = [pd[t] EXCEPT ![Low] = page]]
      BY <1>7, <2>2
    <3> QED
      BY <1>1, <3>1, <3>2 DEF TypeOK
  <2>3. CASE page # NULL /\ start # NULL
    <3>1. [v \in VirtPage |-> IF v \in Run(start, n) THEN page ELSE pd[t][v]]
            \in [VirtPage -> PhysPage \cup {NULL}]
      BY <1>1, <1>2, <2>3 DEF TypeOK
    <3> QED
      BY <1>1, <1>8, <2>3, <3>1 DEF TypeOK
  <2> QED
    BY <2>1, <2>2, <2>3
<1>13. ASSUME NEW u \in Procs, NEW f \in Frame
       PROVE  pd'[u][f] = IF u = t /\ page # NULL /\ start # NULL /\ f \in Run(start, n)
                          THEN page ELSE pd[u][f]
  <2>1. f # Low /\ f \in VirtPage
    BY <1>1, <1>9
  <2>2. CASE page = NULL
    BY <1>6, <2>2
  <2>3. CASE page # NULL /\ start = NULL
    BY <1>1, <1>7, <2>1, <2>3, SMTT(30) DEF TypeOK
  <2>4. CASE page # NULL /\ start # NULL
    BY <1>1, <1>8, <2>1, <2>4 DEF TypeOK
  <2> QED
    BY <2>2, <2>3, <2>4
<1> DEFINE new == [uaddr |-> start, size |-> size]
<1>14. /\ refs' \in [Procs -> SUBSET [uaddr : Frame, size : Sizes]]
       /\ \A u \in Procs : \A r \in refs'[u] :
            r \in refs[u] \/ (u = t /\ r = new /\ page # NULL /\ start # NULL)
  BY <1>1, <1>3, <1>4 DEF TypeOK
<1>15. TypeOK'
  <2>1. small' \in BOOLEAN
    BY <1>1 DEF TypeOK, parameters_to_userspace
  <2> QED
    BY <1>10, <1>11, <1>12, <1>14, <2>1 DEF TypeOK
\* References of before.
<1>16. ASSUME NEW u \in Procs, NEW r \in refs[u]
       PROVE  pd'[u][r.uaddr] = pd[u][r.uaddr] /\ Held(u, r)' /\ Backing(u, r)' = Backing(u, r)
  <2>1. Held(u, r) /\ r \in [uaddr : Frame, size : Sizes] /\ Sizes \subseteq Nat
    BY <1>1 DEF LentInv, TypeOK, LentHyp
  <2>2. r.uaddr \in Run(r.uaddr, needed_pages(r.size)) /\ r.uaddr \in Frame
    <3>1. r.size \in Nat /\ r.uaddr \in Frame
      BY <2>1
    <3>3. r.uaddr \in Nat
      BY <1>1, <3>1 DEF Frame
    <3>2. needed_pages(r.size) \in Nat \ {0}
      BY <3>1, FreedPages
    <3> QED
      BY <3>1, <3>2, <3>3 DEF Run
  <2>3. ~membitmap[u][r.uaddr]
    BY <2>1, <2>2 DEF Held
  <2>4. pd'[u][r.uaddr] = pd[u][r.uaddr]
    BY <1>3, <1>13, <2>2, <2>3
  <2>5. Backing(u, r)' = Backing(u, r)
    BY <2>4 DEF Backing
  <2>6. \A f \in Run(r.uaddr, needed_pages(r.size)) : f \in Frame /\ ~membitmap'[u][f]
    BY <1>11, <2>1 DEF Held
  <2>7. \A p \in Backing(u, r) : p \in PhysPage /\ ~pmm'[p]
    BY <1>10, <2>1 DEF Held
  <2> QED
    BY <2>1, <2>4, <2>5, <2>6, <2>7 DEF Held
\* The new one.
<1>17. ASSUME page # NULL, start # NULL
       PROVE  Held(t, new)' /\ Backing(t, new)' = Run(page, n)
  <2>1. new.uaddr = start /\ new.size = size /\ start \in Run(start, n) /\ start \in Frame
    BY <1>1, <1>3, <1>17 DEF Run, Frame
  <2>2. pd'[t][start] = page
    BY <1>13, <1>17, <2>1
  <2>3. Backing(t, new)' = Run(page, n)
    BY <2>1, <2>2 DEF Backing
  <2>4. \A f \in Run(start, n) : f \in Frame /\ ~membitmap'[t][f]
    BY <1>3, <1>11, <1>17
  <2>5. \A p \in Run(page, n) : p \in PhysPage /\ ~pmm'[p]
    BY <1>2, <1>10, <1>17
  <2> QED
    BY <1>2, <1>17, <2>1, <2>2, <2>3, <2>4, <2>5 DEF Held
<1> HIDE DEF new
<1>18. \A u \in Procs : \A r \in refs'[u] : Held(u, r)'
  BY <1>14, <1>16, <1>17
<1>19. ASSUME page # NULL, NEW u \in Procs, NEW r \in refs[u]
       PROVE  Backing(u, r) \cap Run(page, n) = {}
  BY <1>2, <1>19 DEF LentInv, Held
<1>20. BackingApart'
  <2>1. SUFFICES ASSUME NEW u \in Procs, NEW v \in Procs, NEW r \in refs'[u], NEW q \in refs'[v],
                        <<v, q>> # <<u, r>>
                 PROVE  Backing(u, r)' \cap Backing(v, q)' = {}
    BY DEF BackingApart
  <2>2. CASE r \in refs[u] /\ q \in refs[v]
    BY <1>16, <2>1, <2>2 DEF LentInv, BackingApart
  <2>3. CASE r \notin refs[u]
    BY <1>14, <1>16, <1>17, <1>19, <2>1, <2>3
  <2>4. CASE q \notin refs[v]
    BY <1>14, <1>16, <1>17, <1>19, <2>1, <2>4
  <2> QED
    BY <2>2, <2>3, <2>4
<1> QED
  BY <1>15, <1>18, <1>20 DEF LentInv

\* References are taken back: what is freed backs references of this call alone.
LEMMA TakeBackStep ==
  ASSUME LentHyp, LentInv, NEW t \in Procs, NEW used \in SUBSET refs[t],
         free_mem_from_task(t, used)
  PROVE  LentInv'
<1>1. /\ pd' = [pd EXCEPT ![t] = [v \in VirtPage |->
                  IF \E r \in used : r.uaddr = v /\ r.size > 0 THEN NULL ELSE pd[t][v]]]
      /\ pmm' = [p \in PhysPage |-> pmm[p] \/ \E r \in used :
                   p \in Run(pd[t][r.uaddr], freed_pages(r.size))]
      /\ refs' = [refs EXCEPT ![t] = {}] /\ membitmap' = membitmap /\ small' = small
  BY DEF free_mem_from_task, unmap_mem_from_task
<1>2. TypeOK /\ TypeOK'
  BY <1>1 DEF LentInv, TypeOK
<1>3. ASSUME NEW r \in refs[t]
      PROVE  Run(pd[t][r.uaddr], freed_pages(r.size)) \subseteq Backing(t, r)
  <2>1. r.size \in Nat /\ pd[t][r.uaddr] \in Nat
    <3>1. r.size \in Sizes
      BY <1>2 DEF TypeOK
    <3>2. pd[t][r.uaddr] \in PhysPage
      BY DEF LentInv, Held
    <3>3. r.size \in Nat
      BY <3>1 DEF LentHyp
    <3>4. pd[t][r.uaddr] \in Nat
      BY <3>2 DEF LentHyp, PhysPage
    <3> QED
      BY <3>3, <3>4
  <2> QED
    BY <2>1, FreedPages DEF Backing, Run
<1>4. ASSUME NEW u \in Procs, NEW q \in refs'[u]
      PROVE  u # t /\ q \in refs[u] /\ pd'[u] = pd[u]
  BY <1>1, <1>2, <1>4 DEF TypeOK
<1>5. ASSUME NEW u \in Procs, NEW q \in refs'[u]
      PROVE  Held(u, q)' /\ Backing(u, q)' = Backing(u, q)
  <2>1. u # t /\ q \in refs[u] /\ pd'[u] = pd[u] /\ Held(u, q)
    BY <1>4, <1>5 DEF LentInv
  <2>2. \A r \in refs[t] : Backing(t, r) \cap Backing(u, q) = {}
    BY <2>1 DEF LentInv, BackingApart
  <2>3. \A p \in Backing(u, q) : p \in PhysPage /\ ~pmm'[p]
    BY <1>1, <1>3, <2>1, <2>2 DEF Held
  <2> QED
    BY <1>1, <2>1, <2>3 DEF Held, Backing
<1>6. BackingApart'
  BY <1>4, <1>5 DEF BackingApart, LentInv
<1> QED
  BY <1>2, <1>5, <1>6 DEF LentInv

\* A call that is refused or answered takes back some of its references.
LEMMA TakesBack ==
  ASSUME NEW t \in Procs, parameters_refused(t) \/ parameters_from_userspace(t)
  PROVE  \E used \in SUBSET refs[t] : free_mem_from_task(t, used)
<1>1. {} \in SUBSET refs[t]
      /\ {r \in refs[t] : \A q \in refs[t] : q.uaddr <= r.uaddr} \in SUBSET refs[t]
  OBVIOUS
<1> QED
  BY <1>1 DEF parameters_refused, parameters_from_userspace

\* Every step keeps the references backed.
LEMMA LentStep ==
  ASSUME LentHyp, LentInv, [Next]_vars
  PROVE  LentInv'
<1>1. CASE UNCHANGED vars
  BY <1>1, ZenonT(40) DEF vars, LentInv, TypeOK, Held, Backing, BackingApart
<1> QED
  BY <1>1, LendStep, TakesBack, TakeBackStep DEF Next

\* References of less than a page each.
SmallRefs == \A t \in Procs : \A r \in refs[t] : r.size < PAGE_SIZE

\* Every page that a process sees is allocated, and seen at one place.
SeenOnce ==
  /\ \A t \in Procs, v \in VirtPage : pd[t][v] # NULL => ~pmm[pd[t][v]]
  /\ \A t, u \in Procs, v, w \in VirtPage :
       pd[t][v] # NULL /\ pd[t][v] = pd[u][w] => t = u /\ v = w

\* Less than a page is one page, and none is given back of an empty reference.
LEMMA SmallPages ==
  ASSUME LentHyp, NEW size \in Nat, size < PAGE_SIZE
  PROVE  /\ needed_pages(size) = 1
         /\ freed_pages(size) \in {0, 1}
         /\ size = 0 => freed_pages(size) = 0
<1>1. needed_pages(size) = 1
  BY DEF needed_pages, LentHyp
<1>2. freed_pages(size) \in {0, 1}
  BY <1>1, FreedPages
<1>3. size = 0 => freed_pages(size) = 0
  BY DEF freed_pages, LentHyp
<1> QED
  BY <1>1, <1>2, <1>3

\* A page that is lent was free, so nobody saw it.
LEMMA SeenLend ==
  ASSUME LentHyp, small, LentInv, SmallRefs, SeenOnce, NEW t \in Procs, NEW size \in Sizes,
         parameters_to_userspace(t, size)
  PROVE  SmallRefs' /\ SeenOnce'
<1>0. PICK page, start : page = FirstFit(pmm, 1) /\ start = FirstFit(membitmap[t], 1)
  OBVIOUS
<1>1. /\ needed_pages(size) = 1 /\ NULL \notin Nat /\ PAGES \in Nat /\ FRAMES \in Nat
      /\ TypeOK /\ size < PAGE_SIZE
  BY SmallPages DEF LentHyp, LentInv, parameters_to_userspace
<1>6. SmallRefs'
  <2>1. refs'[t] \subseteq refs[t] \cup {[uaddr |-> FirstFit(membitmap[t], needed_pages(size)), size |-> size]}
        /\ \A u \in Procs \ {t} : refs'[u] = refs[u]
    BY <1>1 DEF parameters_to_userspace, TypeOK
  <2> QED
    BY <1>1, <2>1 DEF SmallRefs
<1>2. page # NULL => page \in PhysPage /\ page \in Nat /\ Run(page, 1) = {page} /\ pmm[page]
  <2>1. page # NULL => /\ page \in 0..(PAGES - 1)
                       /\ \A p \in Run(page, 1) : p \in 0..(PAGES - 1) /\ pmm[p]
    BY <1>0, <1>1, BlockFree DEF TypeOK, PhysPage
  <2>2. page # NULL => page \in Nat
    BY <1>1, <2>1
  <2>3. page # NULL => Run(page, 1) = {page}
    BY <2>2 DEF Run
  <2> QED
    BY <2>1, <2>2, <2>3 DEF PhysPage
<1>3. start # NULL => start \in Frame /\ start \in Nat
  <2>1. membitmap[t] \in [0..(FRAMES - 1) -> BOOLEAN]
    BY <1>1 DEF TypeOK, Frame
  <2>2. start # NULL => start \in 0..(FRAMES - 1)
    BY <1>0, <1>1, <2>1, BlockFree
  <2> QED
    BY <1>1, <2>2 DEF Frame
<1>4. ASSUME page = NULL
      PROVE  SeenOnce'
  BY <1>0, <1>1, <1>4 DEF parameters_to_userspace, SeenOnce
<1>5. ASSUME page # NULL
      PROVE  SeenOnce'
  <2>1. pmm' = Take(pmm, page, 1) /\ map_mem_to_task(t, page, 1)
    BY <1>0, <1>1, <1>5 DEF parameters_to_userspace
  <2>2. PICK w \in VirtPage : pd' = [pd EXCEPT ![t] = [v \in VirtPage |->
                                                            IF v = w THEN page ELSE pd[t][v]]]
    <3>1. CASE start = NULL
      <4>1. pd' = [pd EXCEPT ![t] = [pd[t] EXCEPT ![Low] = page]]
        BY <1>0, <2>1, <3>1 DEF map_mem_to_task
      <4>2. [pd[t] EXCEPT ![Low] = page] = [v \in VirtPage |->
               IF v = Low THEN page ELSE pd[t][v]]
        BY <1>1 DEF TypeOK
      <4>3. Low \in VirtPage
        BY DEF VirtPage
      <4> QED
        BY <4>1, <4>2, <4>3
    <3>2. CASE start # NULL
      <4>1. Run(start, 1) = {start} /\ start \in VirtPage
        BY <1>3, <3>2 DEF Run, VirtPage
      <4>2. pd' = [pd EXCEPT ![t] = [v \in VirtPage |->
                     IF v \in {start} THEN page ELSE pd[t][v]]]
        BY <1>0, <2>1, <3>2, <4>1 DEF map_mem_to_task
      <4> QED
        BY <4>1, <4>2
    <3> QED
      BY <3>1, <3>2
  <2>3. \A u \in Procs, v \in VirtPage :
          pd'[u][v] = IF u = t /\ v = w THEN page ELSE pd[u][v]
    BY <1>1, <2>2 DEF TypeOK
  <2>4. \A p \in PhysPage : pmm'[p] <=> pmm[p] /\ p # page
    BY <1>1, <1>2, <1>5, <2>1 DEF Take, TypeOK
  <2>5. \A u \in Procs, v \in VirtPage : pd[u][v] \in PhysPage \cup {NULL}
    BY <1>1 DEF TypeOK
  <2>6. \A u \in Procs, v \in VirtPage : pd[u][v] # page
    BY <1>2, <1>5, <2>5 DEF SeenOnce
  <2>7. \A u \in Procs, v \in VirtPage : pd'[u][v] # NULL => ~pmm'[pd'[u][v]]
    BY <1>2, <1>5, <2>3, <2>4, <2>5 DEF SeenOnce
  <2>8. \A u, x \in Procs, v, y \in VirtPage :
          pd'[u][v] # NULL /\ pd'[u][v] = pd'[x][y] => u = x /\ v = y
    BY <2>3, <2>6 DEF SeenOnce
  <2> QED
    BY <2>7, <2>8 DEF SeenOnce
<1> QED
  BY <1>4, <1>5, <1>6

\* A page that is freed was seen where it is unmapped, and nowhere else.
LEMMA SeenTakeBack ==
  ASSUME LentHyp, LentInv, SmallRefs, SeenOnce, NEW t \in Procs,
         NEW used \in SUBSET refs[t], free_mem_from_task(t, used)
  PROVE  SmallRefs' /\ SeenOnce'
<1>1. /\ pd' = [pd EXCEPT ![t] = [v \in VirtPage |->
                  IF \E r \in used : r.uaddr = v /\ r.size > 0 THEN NULL ELSE pd[t][v]]]
      /\ pmm' = [p \in PhysPage |-> pmm[p] \/ \E r \in used :
                   p \in Run(pd[t][r.uaddr], freed_pages(r.size))]
  BY DEF free_mem_from_task, unmap_mem_from_task
<1>2. /\ TypeOK /\ NULL \notin Nat /\ PAGES \in Nat
      /\ \A u \in Procs, v \in VirtPage : pd[u][v] \in PhysPage \cup {NULL}
  BY DEF LentInv, TypeOK, LentHyp
<1>3. \A u \in Procs, v \in VirtPage :
        pd'[u][v] = IF u = t /\ \E r \in used : r.uaddr = v /\ r.size > 0 THEN NULL ELSE pd[u][v]
  BY <1>1, <1>2 DEF TypeOK
<1>4. ASSUME NEW r \in refs[t], NEW p, p \in Run(pd[t][r.uaddr], freed_pages(r.size))
      PROVE  p = pd[t][r.uaddr] /\ r.size > 0 /\ r.uaddr \in VirtPage /\ p \in Nat
  <2>1. r \in [uaddr : Frame, size : Sizes]
    BY <1>2 DEF TypeOK
  <2>2. r.size \in Nat /\ r.size < PAGE_SIZE /\ r.uaddr \in VirtPage
    BY <2>1 DEF LentHyp, SmallRefs, VirtPage
  <2>3. pd[t][r.uaddr] \in PhysPage
    BY DEF LentInv, Held
  <2>4. pd[t][r.uaddr] \in Nat
    BY <1>2, <2>3 DEF PhysPage
  <2>5. freed_pages(r.size) \in {0, 1} /\ (r.size = 0 => freed_pages(r.size) = 0)
    BY <2>2, SmallPages
  <2> DEFINE a == pd[t][r.uaddr]
             f == freed_pages(r.size)
  <2>6. a \in Nat /\ f \in {0, 1} /\ p \in a .. (a + f - 1)
    BY <1>4, <2>4, <2>5 DEF Run
  <2> HIDE DEF a, f
  <2>7. p = a /\ f = 1
    BY <2>6
  <2> QED
    BY <2>2, <2>5, <2>6, <2>7 DEF a, f
<1>5. ASSUME NEW u \in Procs, NEW v \in VirtPage, pd'[u][v] # NULL, pmm'[pd'[u][v]]
      PROVE  FALSE
  <2>1. pd'[u][v] = pd[u][v] /\ pd[u][v] \in PhysPage /\ ~pmm[pd[u][v]]
    BY <1>2, <1>3, <1>5 DEF SeenOnce
  <2>2. PICK r \in used : pd[u][v] \in Run(pd[t][r.uaddr], freed_pages(r.size))
    BY <1>1, <1>5, <2>1
  <2>3. pd[u][v] = pd[t][r.uaddr] /\ r.size > 0 /\ r.uaddr \in VirtPage
    BY <1>4, <2>2
  <2>4. u = t /\ v = r.uaddr
    BY <1>5, <2>1, <2>3 DEF SeenOnce
  <2> QED
    BY <1>3, <1>5, <2>3, <2>4
<1>6. \A u, x \in Procs, v, y \in VirtPage :
        pd'[u][v] # NULL /\ pd'[u][v] = pd'[x][y] => u = x /\ v = y
  BY <1>3 DEF SeenOnce
<1>7. SmallRefs'
  BY <1>2 DEF SmallRefs, free_mem_from_task, TypeOK
<1> QED
  BY <1>5, <1>6, <1>7 DEF SeenOnce

\* The two parts of what the run checks follow from the invariants.
LEMMA LentImplies ==
  ASSUME LentHyp, LentInv, small => SeenOnce
  PROVE  LentIsBacked
<1>1. ASSUME NEW t \in Procs, NEW r \in refs[t]
      PROVE  pd[t][r.uaddr] \in Backing(t, r) /\ pd[t][r.uaddr] # NULL
  <2>1. r.size \in Sizes
    BY DEF LentInv, TypeOK
  <2>4. pd[t][r.uaddr] \in PhysPage
    BY DEF LentInv, Held
  <2>5. r.size \in Nat
    BY <2>1 DEF LentHyp
  <2>2. r.size \in Nat /\ pd[t][r.uaddr] \in Nat
    BY <2>4, <2>5 DEF LentHyp, PhysPage
  <2>3. needed_pages(r.size) \in Nat \ {0}
    BY <2>2, FreedPages
  <2> QED
    BY <2>2, <2>3 DEF Backing, Run, LentHyp
<1>2. RefsBacked
  <2>1. SUFFICES ASSUME NEW t \in Procs, NEW r \in refs[t]
        PROVE  /\ \A f \in Run(r.uaddr, needed_pages(r.size)) :
                    f \in Frame /\ ~membitmap[t][f]
               /\ pd[t][r.uaddr] # NULL /\ ~pmm[pd[t][r.uaddr]]
               /\ \A u \in Procs : \A q \in refs[u] :
                    <<u, q>> # <<t, r>> => pd[u][q.uaddr] # pd[t][r.uaddr]
    BY DEF RefsBacked, LentInv
  <2>2. Held(t, r)
    BY DEF LentInv
  <2>3. \A u \in Procs : \A q \in refs[u] :
          <<u, q>> # <<t, r>> => pd[u][q.uaddr] # pd[t][r.uaddr]
    BY <1>1 DEF LentInv, BackingApart
  <2> QED
    BY <1>1, <2>2, <2>3 DEF Held
<1>3. small => NoStaleMapping
  BY DEF SeenOnce, NoStaleMapping, Pages
<1> QED
  BY <1>2, <1>3 DEF LentIsBacked

\* For any number of processes, pages and frames: the memory lent for a call in
\* progress has frames and pages of its own, whatever was mapped, unmapped and
\* refused before, although free_mem_from_task gives back a page less than was
\* allocated and no frame at all; and with references of less than a page no
\* process keeps sight of a page it gave back (umm.c:168, 187).
THEOREM LentStaysBacked == Spec => []LentIsBacked
<1> DEFINE Inv == LentInv /\ (small => SmallRefs /\ SeenOnce)
<1>0. LentHyp
  BY BitmapAssumption, TaskMemoryAssumption DEF LentHyp
<1>1. Init => Inv
  BY DEF Init, LentInv, TypeOK, BackingApart, SmallRefs, SeenOnce
<1>2. Inv /\ [Next]_vars => Inv'
  <2>1. SUFFICES ASSUME Inv, [Next]_vars
                 PROVE  Inv'
    OBVIOUS
  <2>2. LentInv'
    BY <1>0, <2>1, LentStep
  <2>3. small' = small
    BY <2>1, TakesBack DEF Next, vars, parameters_to_userspace, free_mem_from_task
  <2>4. ASSUME small
        PROVE  SmallRefs' /\ SeenOnce'
    <3>1. CASE UNCHANGED vars
      BY <2>1, <2>4, <3>1 DEF vars, SmallRefs, SeenOnce
    <3> QED
      BY <1>0, <2>1, <2>4, <3>1, SeenLend, TakesBack, SeenTakeBack DEF Next
  <2> QED
    BY <2>2, <2>3, <2>4
<1>3. Inv => LentIsBacked
  BY <1>0, LentImplies
<1> HIDE DEF Inv
<1> QED
  BY <1>1, <1>2, <1>3, PTL DEF Spec

-----------------------------------------------------------------------------
(* The file handles                                                        *)

\* A nonempty set of naturals has a least element.
LEMMA Least ==
  ASSUME NEW S \in SUBSET Nat, S # {}
  PROVE  \E i \in S : \A j \in S : i <= j
<1>1. PICK i \in S : \A j \in S : ~ (<<j, i>> \in OpToRel(<, Nat))
  BY WFMin, NatLessThanWellFounded, Zenon
<1>2. \A j \in S : ~ (j < i)
  BY <1>1 DEF OpToRel
<1> QED
  BY <1>2

\* Division with remainder.
LEMMA DivMod ==
  ASSUME NEW a \in Nat, NEW b \in Nat \ {0}
  PROVE  a \div b \in Nat /\ a % b \in 0..(b - 1) /\ a = (a \div b) * b + (a % b)
BY Z3

\* The remainder is the only number below the divisor that it can be.
LEMMA DivUnique ==
  ASSUME NEW n \in Nat \ {0}, NEW q \in Nat, NEW r \in 0..(n - 1)
  PROVE  (q * n + r) % n = r
BY Z3

\* The next remainder, around the end.
LEMMA ModStep ==
  ASSUME NEW n \in Nat \ {0}, NEW i \in Nat \ {0}
  PROVE  i % n = IF (i - 1) % n = n - 1 THEN 0 ELSE ((i - 1) % n) + 1
<1> DEFINE q == (i - 1) \div n
           r == (i - 1) % n
<1>1. q \in Nat /\ r \in 0..(n - 1) /\ i - 1 = q * n + r
  <2>1. i - 1 \in Nat
    OBVIOUS
  <2> QED
    BY <2>1, DivMod
<1> HIDE DEF q, r
<1>2. CASE r = n - 1
  <2>1. (q + 1) * n = q * n + n
    BY <1>1, Z3
  <2>2. q * n \in Nat
    BY <1>1, Z3
  <2>3. i = (q + 1) * n + 0
    BY <1>1, <1>2, <2>1, <2>2
  <2>4. q + 1 \in Nat /\ 0 \in 0..(n - 1)
    BY <1>1
  <2>5. i % n = 0
    BY <2>3, <2>4, DivUnique
  <2> QED
    BY <1>2, <2>5 DEF r
<1>3. CASE r # n - 1
  <2>1. q * n \in Nat
    BY <1>1, Z3
  <2>2. i = q * n + (r + 1) /\ r + 1 \in 0..(n - 1)
    BY <1>1, <1>3, <2>1
  <2>3. i % n = r + 1
    BY <1>1, <2>2, DivUnique
  <2> QED
    BY <1>3, <2>3 DEF r
<1> QED
  BY <1>2, <1>3

\* A number below the divisor is its own remainder.
LEMMA ModSmall ==
  ASSUME NEW n \in Nat \ {0}, NEW i \in 0..(n - 1)
  PROVE  i % n = i
<1>1. 0 * n + i = i
  OBVIOUS
<1> QED
  BY <1>1, DivUnique

\* The places behind and before the i-th of n elements, around the end.
Succ(n, i) == IF i = n THEN 1 ELSE i + 1
Pred(n, i) == IF i = 1 THEN n ELSE i - 1

\* The list is a ring of the nodes of s: each once, next and prev in their order,
\* and the head is the first.
RingOf(ll, s) ==
  /\ s \in Seq(Nodes)
  /\ ll.head = IF Len(s) = 0 THEN NULL ELSE s[1]
  /\ \A i, j \in 1..Len(s) : s[i] = s[j] => i = j
  /\ \A i \in 1..Len(s) : /\ ll.next[s[i]] = s[Succ(Len(s), i)]
                          /\ ll.prev[s[i]] = s[Pred(Len(s), i)]

\* The lists of file handles.
Lists ==
  [head : Nodes \cup {NULL}, next : [Nodes -> Nodes \cup {NULL}],
   prev : [Nodes -> Nodes \cup {NULL}], data : [Nodes -> Blocks \cup {NULL}]]

\* Nodes are numbers, and NULL is neither a node nor a block.
LEMMA NodeFacts ==
  /\ Cardinality(Nodes) \in Nat /\ Nodes = 1..Cardinality(Nodes) /\ Nodes \subseteq Nat
  /\ NULL \notin Nodes /\ NULL \notin Blocks
<1>1. Cardinality(Nodes) \in Nat
  BY HandlesAssumption, FS_CardinalityType
<1> QED
  BY <1>1, HandlesAssumption

\* The nodes of a ring, and what a sequence is.
LEMMA RingFacts ==
  ASSUME NEW ll, NEW s, RingOf(ll, s)
  PROVE  /\ Len(s) \in Nat /\ \A i \in 1..Len(s) : s[i] \in Nodes
         /\ s = [i \in 1..Len(s) |-> s[i]]
BY DEF RingOf

\* Following next from the head meets the nodes of the ring in their order, and
\* then the head again.  The ring, repeated, is a function as Steps defines one,
\* and there is no least step at which another such function could differ.
LEMMA StepsAre ==
  ASSUME NEW ll, NEW s, RingOf(ll, s), Len(s) # 0, Len(s) <= Cardinality(Nodes)
  PROVE  /\ \A i \in 0..(Len(s) - 1) : Steps(ll)[i] = s[i + 1]
         /\ Steps(ll)[Len(s)] = s[1]
<1> DEFINE n == Len(s)
           C == Cardinality(Nodes)
           Step(w) == [i \in 0..C |-> IF i = 0 THEN ll.head ELSE ll.next[w[i - 1]]]
           at == CHOOSE w : w = Step(w)
           W == [i \in 0..C |-> s[(i % n) + 1]]
<1>1. n \in Nat \ {0} /\ C \in Nat /\ n <= C
  BY RingFacts, NodeFacts
<1>2. ll.head = s[1]
  BY DEF RingOf
<1>3. \A i \in 1..n : ll.next[s[i]] = s[IF i = n THEN 1 ELSE i + 1]
  BY DEF RingOf, Succ
<1> HIDE DEF n, C
<1>4. \A i \in 0..C : W[i] = IF i = 0 THEN ll.head ELSE ll.next[W[i - 1]]
  <2> SUFFICES ASSUME NEW i \in 0..C PROVE W[i] = IF i = 0 THEN ll.head ELSE ll.next[W[i - 1]]
    OBVIOUS
  <2>1. CASE i = 0
    <3>1. 0 % n = 0
      BY <1>1, ModSmall
    <3> QED
      BY <1>1, <1>2, <2>1, <3>1
  <2>2. CASE i # 0
    <3> DEFINE r == (i - 1) % n
    <3>1. i - 1 \in Nat /\ i - 1 \in 0..C /\ i \in Nat \ {0}
      BY <1>1, <2>2
    <3>2. r \in 0..(n - 1)
      BY <1>1, <3>1, DivMod
    <3>3. i % n = IF r = n - 1 THEN 0 ELSE r + 1
      BY <1>1, <3>1, ModStep
    <3>4. W[i - 1] = s[r + 1] /\ W[i] = s[(i % n) + 1]
      BY <3>1
    <3> HIDE DEF r, W
    <3>5. r + 1 \in 1..n /\ (i % n) + 1 = IF r + 1 = n THEN 1 ELSE (r + 1) + 1
      BY <1>1, <3>2, <3>3
    <3>6. ll.next[s[r + 1]] = s[(i % n) + 1]
      BY <1>3, <3>5
    <3> QED
      BY <2>2, <3>4, <3>6
  <2> QED
    BY <2>1, <2>2
<1>5. W = Step(W)
  BY <1>4
<1>6. at = Step(at)
  <2>1. \E w : w = Step(w)
    BY <1>5
  <2> HIDE DEF Step, W
  <2> QED
    BY <2>1
<1>7. \A i \in 0..C : at[i] = IF i = 0 THEN ll.head ELSE ll.next[at[i - 1]]
  <2> HIDE DEF at
  <2> QED
    BY <1>6
<1>8. Steps(ll) = at
  BY DEF Steps, C
<1> HIDE DEF at, W
<1>9. \A i \in 0..C : at[i] = W[i]
  <2> DEFINE Bad == {i \in 0..C : at[i] # W[i]}
  <2>1. SUFFICES ASSUME Bad # {} PROVE FALSE
    OBVIOUS
  <2>2. Bad \in SUBSET Nat
    BY <1>1
  <2>3. PICK i \in Bad : \A j \in Bad : i <= j
    <3> HIDE DEF Bad
    <3> QED
      BY <2>1, <2>2, Least
  <2>4. i \in 0..C /\ at[i] # W[i]
    OBVIOUS
  <2>5. i # 0
    BY <1>4, <1>7, <2>4
  <2>6. i - 1 \in 0..C /\ ~(i <= i - 1)
    BY <1>1, <2>4, <2>5
  <2>7. i - 1 \notin Bad
    <3> HIDE DEF Bad
    <3> QED
      BY <2>3, <2>6
  <2>8. at[i - 1] = W[i - 1]
    BY <2>6, <2>7
  <2> QED
    BY <1>4, <1>7, <2>4, <2>5, <2>8
<1>10. ASSUME NEW i \in 0..(n - 1) PROVE at[i] = s[i + 1]
  <2>1. i % n = i
    BY <1>1, ModSmall
  <2>2. i \in 0..C
    BY <1>1
  <2> QED
    BY <1>9, <2>1, <2>2 DEF W
<1>11. at[n] = s[1]
  <2>1. n \in 0..C /\ n - 1 \in 0..(n - 1) /\ n \in 1..n /\ n # 0 /\ (n - 1) + 1 = n
    BY <1>1
  <2>2. at[n] = ll.next[at[n - 1]]
    BY <1>7, <2>1
  <2>3. at[n - 1] = s[n]
    BY <1>10, <2>1
  <2> QED
    BY <1>3, <2>1, <2>2, <2>3
<1> QED
  BY <1>8, <1>10, <1>11 DEF n

\* The iteration over a ring meets each of its nodes once.
LEMMA ElementsAre ==
  ASSUME NEW ll, NEW s, RingOf(ll, s), Len(s) <= Cardinality(Nodes)
  PROVE  Length(ll) = Len(s) /\ Elements(ll) = s
<1> DEFINE n == Len(s)
           at == Steps(ll)
           C == Cardinality(Nodes)
<1>1. n \in Nat /\ C \in Nat /\ n <= C /\ s = [i \in 1..n |-> s[i]]
  BY RingFacts, NodeFacts
<1>2. CASE n = 0
  <2>1. Length(ll) = 0
    BY <1>2 DEF Length, RingOf
  <2>2. Elements(ll) = [i \in 1..0 |-> at[i - 1]]
    BY <2>1 DEF Elements
  <2>3. s = [i \in 1..0 |-> s[i]] /\ 1..0 = {}
    BY <1>1, <1>2
  <2>4. [i \in 1..0 |-> at[i - 1]] = [i \in 1..0 |-> s[i]]
    BY <2>3
  <2> QED
    BY <1>2, <2>1, <2>2, <2>3, <2>4
<1>3. CASE n # 0
  <2>1. ll.head = s[1] /\ s[1] \in Nodes /\ NULL \notin Nodes
    BY <1>1, <1>3, RingFacts, NodeFacts DEF RingOf
  <2>2. \A i \in 0..(n - 1) : at[i] = s[i + 1]
    BY <1>3, StepsAre
  <2>3. at[n] = s[1]
    BY <1>3, StepsAre
  <2>4. \A i, j \in 1..n : s[i] = s[j] => i = j
    BY DEF RingOf
  <2> HIDE DEF n, at, C
  <2>5. \A i \in 1..(n - 1) : at[i] # s[1]
    <3> SUFFICES ASSUME NEW i \in 1..(n - 1), at[i] = s[1] PROVE FALSE
      OBVIOUS
    <3>1. i \in 0..(n - 1) /\ i + 1 \in 1..n /\ 1 \in 1..n /\ i + 1 # 1
      BY <1>1
    <3> QED
      BY <2>2, <2>4, <3>1
  <2> DEFINE First1(i) == at[i] = ll.head /\ \A j \in 1..(i - 1) : at[j] # ll.head
  <2>6. First1(n) /\ n \in 1..C
    <3>1. n \in 1..C
      BY <1>1, <1>3
    <3>2. First1(n)
      BY <2>1, <2>3, <2>5
    <3> QED
      BY <3>1, <3>2
  <2>7. ASSUME NEW i \in 1..C, First1(i) PROVE i = n
    <3>1. ~(i < n)
      <4>1. i < n => i \in 1..(n - 1)
        BY <1>1
      <4> QED
        BY <2>1, <2>5, <2>7, <4>1
    <3>2. ~(n < i)
      <4>1. n < i => n \in 1..(i - 1)
        BY <1>1, <1>3
      <4> QED
        BY <2>1, <2>3, <2>7, <4>1
    <3> QED
      BY <1>1, <3>1, <3>2
  <2>8. Length(ll) = CHOOSE i \in 1..C : First1(i)
    BY <2>1 DEF Length, at, C
  <2>9. Length(ll) = n
    <3> HIDE DEF First1
    <3> QED
      BY <2>6, <2>7, <2>8
  <2>10. Elements(ll) = [i \in 1..n |-> at[i - 1]]
    BY <2>9 DEF Elements, at
  <2>11. \A i \in 1..n : at[i - 1] = s[i]
    <3> SUFFICES ASSUME NEW i \in 1..n PROVE at[i - 1] = s[i]
      OBVIOUS
    <3>1. i - 1 \in 0..(n - 1) /\ (i - 1) + 1 = i
      BY <1>1
    <3> QED
      BY <2>2, <3>1
  <2>12. Elements(ll) = [i \in 1..n |-> s[i]]
    BY <2>10, <2>11
  <2> QED
    BY <1>1, <2>9, <2>12 DEF n
<1> QED
  BY <1>2, <1>3

\* proc_get_fhandle returns the block of an element with the descriptor, or there
\* is none.
LEMMA LookupIs ==
  ASSUME NEW s, RingOf(files, s), Len(s) <= Cardinality(Nodes), NEW fd
  PROVE  \/ /\ proc_get_fhandle(files, fd) = NULL
            /\ \A i \in 1..Len(s) : user_fd[files.data[s[i]]] # fd
         \/ \E i \in 1..Len(s) : /\ proc_get_fhandle(files, fd) = files.data[s[i]]
                                 /\ user_fd[files.data[s[i]]] = fd
<1> DEFINE hits == {i \in 1..Len(s) : user_fd[files.data[s[i]]] = fd}
           least == CHOOSE i \in hits : \A j \in hits : i <= j
<1>1. proc_get_fhandle(files, fd) = IF hits = {} THEN NULL ELSE files.data[s[least]]
  <2>1. Length(files) = Len(s) /\ Elements(files) = s
    BY ElementsAre
  <2> QED
    BY <2>1 DEF proc_get_fhandle
<1>2. ASSUME hits # {} PROVE least \in hits
  <2>1. hits \in SUBSET Nat
    BY RingFacts
  <2>2. \E i \in hits : \A j \in hits : i <= j
    <3> HIDE DEF hits
    <3> QED
      BY <1>2, <2>1, Least
  <2> HIDE DEF hits
  <2> QED
    BY <2>2
<1>3. CASE hits = {}
  BY <1>1, <1>3
<1>4. CASE hits # {}
  <2>1. least \in 1..Len(s) /\ user_fd[files.data[s[least]]] = fd
    BY <1>2, <1>4
  <2> HIDE DEF least
  <2> QED
    BY <1>1, <1>4, <2>1, SMTT(30)
<1> QED
  BY <1>3, <1>4

\* find_data returns an element with the data that is not the first, or there is
\* none.
LEMMA FindIs ==
  ASSUME NEW ll, NEW s, RingOf(ll, s), Len(s) <= Cardinality(Nodes), NEW d
  PROVE  \/ /\ find_data(ll, d) = NULL
            /\ \A i \in 2..Len(s) : ll.data[s[i]] # d
         \/ \E i \in 2..Len(s) : /\ find_data(ll, d) = s[i] /\ s[i] # NULL
                                 /\ ll.data[s[i]] = d
<1> DEFINE hits == {i \in 2..Len(s) : ll.data[s[i]] = d}
           least == CHOOSE i \in hits : \A j \in hits : i <= j
<1>1. find_data(ll, d) = IF hits = {} THEN NULL ELSE s[least]
  <2>1. Length(ll) = Len(s) /\ Elements(ll) = s
    BY ElementsAre
  <2> QED
    BY <2>1 DEF find_data
<1>2. ASSUME hits # {} PROVE least \in hits
  <2>1. hits \in SUBSET Nat
    BY RingFacts
  <2>2. \E i \in hits : \A j \in hits : i <= j
    <3> HIDE DEF hits
    <3> QED
      BY <1>2, <2>1, Least
  <2> HIDE DEF hits
  <2> QED
    BY <2>2
<1>3. CASE hits = {}
  BY <1>1, <1>3
<1>4. CASE hits # {}
  <2>1. least \in 2..Len(s) /\ ll.data[s[least]] = d
    BY <1>2, <1>4
  <2> HIDE DEF least
  <2>2. s[least] \in Nodes
    BY <2>1, RingFacts
  <2> QED
    BY <1>1, <1>4, <2>1, <2>2, NodeFacts
<1> QED
  BY <1>3, <1>4


\* A node added to an empty list is a ring of one.
LEMMA RingFirst ==
  ASSUME NEW ll \in Lists, NEW s, RingOf(ll, s), Len(s) = 0,
         NEW node \in Nodes, NEW d \in Blocks
  PROVE  /\ locked_list_add(ll, node, d) \in Lists
         /\ locked_list_add(ll, node, d).data = [ll.data EXCEPT ![node] = d]
         /\ RingOf(locked_list_add(ll, node, d), Append(s, node))
<1> DEFINE l2 == locked_list_add(ll, node, d)
           s2 == Append(s, node)
<1>1. ll.head = NULL
  BY DEF RingOf
<1>2. l2 = [[ll EXCEPT !.data[node] = d] EXCEPT !.head = node, !.next[node] = node, !.prev[node] = node]
  BY <1>1 DEF locked_list_add, locked_list_is_empty
<1>3. /\ l2.head = node /\ l2.data = [ll.data EXCEPT ![node] = d]
      /\ l2.next = [ll.next EXCEPT ![node] = node] /\ l2.prev = [ll.prev EXCEPT ![node] = node]
      /\ l2 \in Lists
  <2> HIDE DEF l2
  <2> QED
    BY <1>2 DEF Lists
<1>4. l2.next[node] = node /\ l2.prev[node] = node
  <2> HIDE DEF l2
  <2> QED
    BY <1>3 DEF Lists
<1>5. s2 \in Seq(Nodes) /\ Len(s2) = 1 /\ s2[1] = node
  BY DEF RingOf
<1>6. RingOf(l2, s2)
  <2> HIDE DEF l2, s2
  <2>1. \A i \in 1..1 : i = 1
    OBVIOUS
  <2> QED
    BY <1>3, <1>4, <1>5, <2>1 DEF RingOf, Succ, Pred
<1> QED
  BY <1>3, <1>6

\* A node added to a ring is its last.
LEMMA RingMore ==
  ASSUME NEW ll \in Lists, NEW s, RingOf(ll, s), Len(s) # 0,
         NEW node \in Nodes, NEW d \in Blocks, \A i \in 1..Len(s) : s[i] # node
  PROVE  /\ locked_list_add(ll, node, d) \in Lists
         /\ locked_list_add(ll, node, d).data = [ll.data EXCEPT ![node] = d]
         /\ RingOf(locked_list_add(ll, node, d), Append(s, node))
<1> DEFINE l2 == locked_list_add(ll, node, d)
           s2 == Append(s, node)
           n == Len(s)
           h == s[1]
           e == s[n]
<1>1. n \in Nat \ {0} /\ 1 \in 1..n /\ n \in 1..n /\ \A i \in 1..n : s[i] \in Nodes
  BY RingFacts
<1>2. ll.head = h /\ h \in Nodes /\ e \in Nodes /\ h # node /\ e # node /\ h # NULL
  BY <1>1, NodeFacts DEF RingOf
<1>3. \A i \in 1..n : /\ ll.next[s[i]] = s[IF i = n THEN 1 ELSE i + 1]
                      /\ ll.prev[s[i]] = s[IF i = 1 THEN n ELSE i - 1]
  BY DEF RingOf, Succ, Pred
<1>4. ll.prev[h] = e
  BY <1>1, <1>3
<1>5. \A i, j \in 1..n : s[i] = s[j] => i = j
  BY DEF RingOf
<1>6. s2 \in Seq(Nodes) /\ Len(s2) = n + 1 /\ s2[n + 1] = node /\ \A i \in 1..n : s2[i] = s[i]
  BY DEF RingOf
<1>7. l2 = link([ll EXCEPT !.data[node] = d], e, h, node)
  BY <1>2, <1>4 DEF locked_list_add, locked_list_is_empty
<1> HIDE DEF l2, s2, n, h, e
<1>8. l2 = [[ll EXCEPT !.data[node] = d] EXCEPT
               !.prev[h] = node, !.next[node] = h, !.prev[node] = e, !.next[e] = node]
  BY <1>7 DEF link
<1>9. /\ l2.head = h /\ l2.data = [ll.data EXCEPT ![node] = d]
      /\ l2.next = [ll.next EXCEPT ![node] = h, ![e] = node]
      /\ l2.prev = [ll.prev EXCEPT ![h] = node, ![node] = e]
      /\ l2 \in Lists
  BY <1>2, <1>8 DEF Lists
<1>10. /\ l2.next[node] = h /\ l2.next[e] = node
       /\ \A x \in Nodes : x # node /\ x # e => l2.next[x] = ll.next[x]
       /\ l2.prev[node] = e /\ l2.prev[h] = node
       /\ \A x \in Nodes : x # node /\ x # h => l2.prev[x] = ll.prev[x]
  <2>1. ll.next \in [Nodes -> Nodes \cup {NULL}] /\ ll.prev \in [Nodes -> Nodes \cup {NULL}]
    BY DEF Lists
  <2> QED
    BY <1>2, <1>9, <2>1
<1>11. ASSUME NEW i \in 1..(n + 1)
       PROVE  /\ l2.next[s2[i]] = s2[IF i = n + 1 THEN 1 ELSE i + 1]
              /\ l2.prev[s2[i]] = s2[IF i = 1 THEN n + 1 ELSE i - 1]
  <2>1. s2[1] = h /\ s2[n] = e
    BY <1>1, <1>6 DEF h, e
  <2>2. CASE i = n + 1
    <3>1. i # 1 /\ i - 1 = n
      BY <1>1, <2>2
    <3> QED
      BY <1>6, <1>10, <2>1, <2>2, <3>1
  <2>3. CASE i # n + 1
    <3>1. i \in 1..n /\ s2[i] = s[i] /\ s[i] \in Nodes /\ s[i] # node
      BY <1>1, <1>6, <2>3 DEF n
    <3>2. l2.next[s[i]] = s2[i + 1]
      <4>1. CASE i = n
        BY <1>6, <1>10, <4>1 DEF e
      <4>2. CASE i # n
        <5>1. i + 1 \in 1..n /\ s[i] # e
          BY <1>1, <1>5, <3>1, <4>2 DEF e
        <5>2. ll.next[s[i]] = s[i + 1]
          BY <1>3, <3>1, <4>2
        <5> QED
          BY <1>6, <1>10, <3>1, <5>1, <5>2
      <4> QED
        BY <4>1, <4>2
    <3>3. l2.prev[s[i]] = s2[IF i = 1 THEN n + 1 ELSE i - 1]
      <4>1. CASE i = 1
        BY <1>6, <1>10, <4>1 DEF h
      <4>2. CASE i # 1
        <5>1. i - 1 \in 1..n /\ s[i] # h
          BY <1>1, <1>5, <3>1, <4>2 DEF h
        <5>2. ll.prev[s[i]] = s[i - 1]
          BY <1>3, <3>1, <4>2
        <5> QED
          BY <1>6, <1>10, <3>1, <4>2, <5>1, <5>2
      <4> QED
        BY <4>1, <4>2
    <3> QED
      BY <2>3, <3>1, <3>2, <3>3
  <2> QED
    BY <2>2, <2>3
<1>12. \A i, j \in 1..(n + 1) : s2[i] = s2[j] => i = j
  <2>1. \A i \in 1..(n + 1) : i \in 1..n \/ i = n + 1
    BY <1>1
  <2>2. \A i \in 1..n : s[i] # node
    BY DEF n
  <2> QED
    BY <1>5, <1>6, <2>1, <2>2
<1>13. n + 1 # 0 /\ s2[1] = h
  BY <1>1, <1>6 DEF h
<1>14. RingOf(l2, s2)
  <2>1. s2 \in Seq(Nodes) /\ Len(s2) = n + 1 /\ l2.head = IF Len(s2) = 0 THEN NULL ELSE s2[1]
    BY <1>6, <1>9, <1>13
  <2>2. ASSUME NEW k \in 1..Len(s2)
        PROVE  l2.next[s2[k]] = s2[Succ(Len(s2), k)] /\ l2.prev[s2[k]] = s2[Pred(Len(s2), k)]
    <3>1. k \in 1..(n + 1)
      BY <2>1
    <3> QED
      BY <1>11, <2>1, <3>1 DEF Succ, Pred
  <2>3. \A k, j \in 1..Len(s2) : s2[k] = s2[j] => k = j
    BY <1>12, <2>1
  <2> QED
    BY <2>1, <2>2, <2>3 DEF RingOf
<1> QED
  BY <1>9, <1>14 DEF l2, s2

\* Where the k-th element was before the i-th was taken out, and the elements left.
Old(i, k) == IF k < i THEN k ELSE k + 1
Cut(s, i) == [k \in 1..(Len(s) - 1) |-> s[Old(i, k)]]

\* A ring without an element that is not the first is a ring.
LEMMA RingLess ==
  ASSUME NEW ll \in Lists, NEW s, RingOf(ll, s), NEW i \in 2..Len(s)
  PROVE  /\ remove(ll, s[i]) \in Lists /\ remove(ll, s[i]).data = ll.data
         /\ RingOf(remove(ll, s[i]), Cut(s, i)) /\ Len(Cut(s, i)) = Len(s) - 1
<1> DEFINE n == Len(s)
           l2 == remove(ll, s[i])
           s2 == Cut(s, i)
           a == s[i - 1]
           c == s[IF i = n THEN 1 ELSE i + 1]
           x == s[i]
<1>1. n \in Nat /\ n >= 2 /\ i \in 1..n /\ i - 1 \in 1..n /\ 1 \in 1..n /\ i # 1
      /\ (IF i = n THEN 1 ELSE i + 1) \in 1..n
  BY RingFacts
<1>2. \A k \in 1..n : s[k] \in Nodes
  BY RingFacts
<1>3. \A k \in 1..n : /\ ll.next[s[k]] = s[IF k = n THEN 1 ELSE k + 1]
                      /\ ll.prev[s[k]] = s[IF k = 1 THEN n ELSE k - 1]
  BY DEF RingOf, Succ, Pred
<1>4. \A k, j \in 1..n : s[k] = s[j] => k = j
  BY DEF RingOf
<1>5. /\ ll.next[x] = c /\ ll.prev[x] = a /\ a \in Nodes /\ c \in Nodes /\ x \in Nodes
      /\ a # x /\ c # x /\ x # s[1] /\ ll.head = s[1]
  <2>1. ll.next[x] = c /\ ll.prev[x] = a
    BY <1>1, <1>3
  <2>2. i - 1 # i /\ (IF i = n THEN 1 ELSE i + 1) # i
    BY <1>1
  <2>3. a # x /\ c # x /\ x # s[1]
    BY <1>1, <1>4, <2>2
  <2>4. ll.head = s[1]
    BY <1>1 DEF RingOf
  <2> QED
    BY <1>1, <1>2, <2>1, <2>3, <2>4
<1> HIDE DEF n, l2, s2, a, c, x
<1>6. l2 = [unlink(ll, x) EXCEPT !.head = s[1]]
  BY <1>5 DEF remove, l2, x
<1>7. unlink(ll, x) = [ll EXCEPT !.prev[c] = a, !.next[a] = c, !.next[x] = x, !.prev[x] = x]
  BY <1>5 DEF unlink
<1>8. /\ l2.head = s[1] /\ l2.data = ll.data /\ l2 \in Lists
      /\ l2.next = [ll.next EXCEPT ![a] = c, ![x] = x]
      /\ l2.prev = [ll.prev EXCEPT ![c] = a, ![x] = x]
  <2>1. s[1] \in Nodes
    BY <1>1, <1>2
  <2> DEFINE u == unlink(ll, x)
  <2>2. /\ u.next = [ll.next EXCEPT ![a] = c, ![x] = x]
        /\ u.prev = [ll.prev EXCEPT ![c] = a, ![x] = x]
        /\ u.data = ll.data /\ u \in Lists
    <3> HIDE DEF u
    <3>1. u = [ll EXCEPT !.prev[c] = a, !.next[a] = c, !.next[x] = x, !.prev[x] = x]
      BY <1>7 DEF u
    <3> QED
      BY <1>5, <3>1 DEF Lists
  <2>3. l2 = [u EXCEPT !.head = s[1]]
    BY <1>6
  <2> HIDE DEF u
  <2> QED
    BY <2>1, <2>2, <2>3 DEF Lists
<1>9. /\ l2.next[a] = c /\ \A y \in Nodes : y # a /\ y # x => l2.next[y] = ll.next[y]
      /\ l2.prev[c] = a /\ \A y \in Nodes : y # c /\ y # x => l2.prev[y] = ll.prev[y]
  <2>1. ll.next \in [Nodes -> Nodes \cup {NULL}] /\ ll.prev \in [Nodes -> Nodes \cup {NULL}]
    BY DEF Lists
  <2> QED
    BY <1>5, <1>8, <2>1
<1>10. \A k \in 1..(n - 1) : Old(i, k) \in 1..n /\ Old(i, k) # i
  BY <1>1 DEF Old
<1>11. /\ s2 \in Seq(Nodes) /\ Len(s2) = n - 1
       /\ \A k \in 1..(n - 1) : s2[k] = s[Old(i, k)]
  <2>1. \A k \in 1..(n - 1) : s[Old(i, k)] \in Nodes
    BY <1>2, <1>10
  <2>2. s2 = [k \in 1..(n - 1) |-> s[Old(i, k)]] /\ n - 1 \in Nat
    BY <1>1 DEF s2, Cut, n
  <2> QED
    BY <2>1, <2>2
<1>12. ASSUME NEW k \in 1..(n - 1)
       PROVE  l2.next[s2[k]] = s2[IF k = n - 1 THEN 1 ELSE k + 1]
  <2> DEFINE o == Old(i, k)
  <2>1. o \in 1..n /\ o # i /\ s2[k] = s[o] /\ s[o] \in Nodes /\ s[o] # x
    BY <1>1, <1>2, <1>4, <1>10, <1>11 DEF x
  <2>2. CASE k = i - 1
    <3>1. o = i - 1
      BY <1>1, <2>2 DEF Old
    <3>2. l2.next[s2[k]] = c
      BY <1>9, <2>1, <3>1 DEF a
    <3>3. CASE i = n
      <4>1. k = n - 1 /\ Old(i, 1) = 1 /\ 1 \in 1..(n - 1)
        BY <1>1, <2>2, <3>3 DEF Old
      <4> QED
        BY <1>11, <3>2, <3>3, <4>1 DEF c
    <3>4. CASE i # n
      <4>1. k # n - 1 /\ Old(i, k + 1) = i + 1 /\ k + 1 \in 1..(n - 1)
        BY <1>1, <2>2, <3>4 DEF Old
      <4> QED
        BY <1>11, <3>2, <3>4, <4>1 DEF c
    <3> QED
      BY <3>3, <3>4
  <2>3. CASE k # i - 1
    <3>1. o # i - 1
      BY <1>1, <2>3 DEF Old
    <3>2. s[o] # a
      BY <1>1, <1>4, <2>1, <3>1 DEF a
    <3>3. l2.next[s2[k]] = s[IF o = n THEN 1 ELSE o + 1]
      BY <1>3, <1>9, <2>1, <3>2
    <3>4. CASE o = n
      <4>1. k = n - 1 /\ Old(i, 1) = 1 /\ 1 \in 1..(n - 1)
        BY <1>1, <2>1, <2>3, <3>4 DEF Old
      <4> QED
        BY <1>11, <3>3, <3>4, <4>1
    <3>5. CASE o # n
      <4>1. k # n - 1 /\ Old(i, k + 1) = o + 1 /\ k + 1 \in 1..(n - 1)
        BY <1>1, <2>1, <2>3, <3>5 DEF Old
      <4> QED
        BY <1>11, <3>3, <3>5, <4>1
    <3> QED
      BY <3>4, <3>5
  <2> QED
    BY <2>2, <2>3
<1>13. ASSUME NEW k \in 1..(n - 1)
       PROVE  l2.prev[s2[k]] = s2[IF k = 1 THEN n - 1 ELSE k - 1]
  <2> DEFINE o == Old(i, k)
             f == IF i = n THEN 1 ELSE i + 1
  <2>1. o \in 1..n /\ o # i /\ s2[k] = s[o] /\ s[o] \in Nodes /\ s[o] # x
    BY <1>1, <1>2, <1>4, <1>10, <1>11 DEF x
  <2>2. CASE o = f
    <3>1. l2.prev[s2[k]] = s[i - 1]
      BY <1>9, <2>1, <2>2 DEF c, a
    <3>2. CASE i = n
      <4>1. k = 1 /\ Old(i, n - 1) = i - 1 /\ n - 1 \in 1..(n - 1)
        BY <1>1, <2>2, <3>2 DEF Old
      <4> QED
        BY <1>11, <3>1, <4>1
    <3>3. CASE i # n
      <4>1. k = i /\ k # 1 /\ Old(i, k - 1) = i - 1 /\ k - 1 \in 1..(n - 1)
        BY <1>1, <2>2, <3>3 DEF Old
      <4> QED
        BY <1>11, <3>1, <4>1
    <3> QED
      BY <3>2, <3>3
  <2>3. CASE o # f
    <3>1. s[o] # c
      BY <1>1, <1>4, <2>1, <2>3 DEF c
    <3>2. l2.prev[s2[k]] = s[IF o = 1 THEN n ELSE o - 1]
      BY <1>3, <1>9, <2>1, <3>1, ZenonT(40)
    <3>3. CASE o = 1
      <4>1. k = 1 /\ i # n /\ Old(i, n - 1) = n /\ n - 1 \in 1..(n - 1)
        BY <1>1, <2>3, <3>3 DEF Old
      <4> QED
        BY <1>11, <3>2, <3>3, <4>1
    <3>4. CASE o # 1
      <4>1. k # 1 /\ k - 1 \in 1..(n - 1)
        BY <1>1, <2>1, <3>4 DEF Old
      <4>2. Old(i, k - 1) = o - 1
        BY <1>1, <2>1, <2>3, <4>1 DEF Old
      <4> QED
        BY <1>11, <3>2, <3>4, <4>1, <4>2
    <3> QED
      BY <3>3, <3>4
  <2> QED
    BY <2>2, <2>3
<1>14. \A k, j \in 1..(n - 1) : s2[k] = s2[j] => k = j
  <2>1. \A k, j \in 1..(n - 1) : Old(i, k) = Old(i, j) => k = j
    BY <1>1 DEF Old
  <2> QED
    BY <1>4, <1>10, <1>11, <2>1
<1>15. n - 1 # 0 /\ s2[1] = s[1]
  <2>1. 1 \in 1..(n - 1) /\ Old(i, 1) = 1
    BY <1>1 DEF Old
  <2> QED
    BY <1>1, <1>11, <2>1
<1>16. RingOf(l2, s2)
  <2>1. s2 \in Seq(Nodes) /\ Len(s2) = n - 1 /\ l2.head = IF Len(s2) = 0 THEN NULL ELSE s2[1]
    BY <1>8, <1>11, <1>15
  <2>2. ASSUME NEW k \in 1..Len(s2)
        PROVE  l2.next[s2[k]] = s2[Succ(Len(s2), k)] /\ l2.prev[s2[k]] = s2[Pred(Len(s2), k)]
    <3>1. k \in 1..(n - 1)
      BY <2>1
    <3> QED
      BY <1>12, <1>13, <2>1, <3>1 DEF Succ, Pred
  <2>3. \A k, j \in 1..Len(s2) : s2[k] = s2[j] => k = j
    BY <1>14, <2>1
  <2> QED
    BY <2>1, <2>2, <2>3 DEF RingOf
<1> QED
  BY <1>8, <1>11, <1>16 DEF l2, s2, x, n

\* The types of the variables.  Nodes are allocated in the order of their numbers.
HandlesType ==
  /\ files \in Lists
  /\ nodes = 1..Cardinality(nodes) /\ nodes \subseteq Nodes
  /\ block \in [Blocks -> {"free", "handle", "other"}]
  /\ user_fd \in [Blocks -> Nat]
  /\ open \in [Fds -> Blocks \cup {NULL}]
  /\ others \in BOOLEAN

\* The elements are allocated nodes, and point to blocks.
Filled(s) ==
  /\ \A i \in 1..Len(s) : s[i] \in nodes /\ files.data[s[i]] \in Blocks
  /\ Len(s) <= Cardinality(nodes)

\* When the blocks are used for handles alone: every element but the first points
\* to a handle of its own; the first may point to a freed one, or to one that was
\* allocated again.  Blocks in the list with the same descriptor are the same, and
\* the block of an open file is in the list with its descriptor.
Leads(s) ==
  /\ \A b \in Blocks : block[b] # "other"
  /\ \A i \in 2..Len(s) : block[files.data[s[i]]] = "handle"
  /\ \A i, j \in 2..Len(s) : files.data[s[i]] = files.data[s[j]] => i = j
  /\ \A i, j \in 1..Len(s) :
       user_fd[files.data[s[i]]] = user_fd[files.data[s[j]]]
         => files.data[s[i]] = files.data[s[j]]
  /\ \A fd \in Fds : open[fd] # NULL =>
       /\ block[open[fd]] = "handle" /\ user_fd[open[fd]] = fd
       /\ \E i \in 1..Len(s) : files.data[s[i]] = open[fd]

\* The invariant: the list is some ring.
HandlesInv ==
  /\ HandlesType
  /\ \E s : RingOf(files, s) /\ Filled(s) /\ (~others => Leads(s))

\* The allocated nodes are finitely many.
LEMMA NodesCount ==
  ASSUME HandlesType
  PROVE  /\ Cardinality(nodes) \in Nat /\ Cardinality(nodes) <= Cardinality(Nodes)
         /\ IsFiniteSet(nodes)
<1>1. IsFiniteSet(nodes) /\ Cardinality(nodes) <= Cardinality(Nodes)
  BY HandlesAssumption, FS_Subset DEF HandlesType
<1> QED
  BY <1>1, FS_CardinalityType

\* The ring is no longer than there are nodes.
LEMMA Short ==
  ASSUME HandlesType, NEW s, RingOf(files, s), Filled(s)
  PROVE  Len(s) \in Nat /\ Len(s) <= Cardinality(Nodes)
BY NodesCount, RingFacts, NodeFacts DEF Filled

\* swi_open keeps the invariant: no block in the list has the new descriptor, the
\* stale one of the first element included.
LEMMA OpenKeeps ==
  ASSUME HandlesInv, swi_open
  PROVE  HandlesInv'
<1>1. PICK s : RingOf(files, s) /\ Filled(s) /\ (~others => Leads(s))
  BY DEF HandlesInv
<1>2. HandlesType
  BY DEF HandlesInv
<1> DEFINE node == Cardinality(nodes) + 1
           n == Len(s)
<1>3. PICK hdl \in Blocks, fd \in proc_get_next_fd(files) :
        /\ block[hdl] = "free" /\ node \in Nodes
        /\ block' = [block EXCEPT ![hdl] = "handle"]
        /\ user_fd' = [user_fd EXCEPT ![hdl] = fd]
        /\ files' = locked_list_add(files, node, hdl)
        /\ nodes' = nodes \cup {node}
        /\ open' = [open EXCEPT ![fd] = hdl]
        /\ others' = others
  BY DEF swi_open
<1>4. fd \in Fds /\ fd \in Nat /\ proc_get_fhandle(files, fd) = NULL
  BY HandlesAssumption DEF proc_get_next_fd
<1>5. /\ Cardinality(nodes) \in Nat /\ IsFiniteSet(nodes) /\ node \notin nodes
      /\ n \in Nat /\ n <= Cardinality(Nodes) /\ n <= Cardinality(nodes)
  <2>1. Cardinality(nodes) \in Nat /\ IsFiniteSet(nodes)
    BY <1>2, NodesCount
  <2>2. nodes = 1..Cardinality(nodes)
    BY <1>2 DEF HandlesType
  <2>3. node \notin 1..Cardinality(nodes)
    BY <2>1
  <2> QED
    BY <1>1, <1>2, <2>1, <2>2, <2>3, Short DEF Filled
<1>6. /\ \A i \in 1..n : s[i] \in nodes /\ s[i] \in Nodes /\ s[i] # node
      /\ \A i \in 1..n : files.data[s[i]] \in Blocks
  BY <1>1, <1>5, RingFacts DEF Filled
<1> HIDE DEF node
<1>a. PICK t : t = Append(s, node)
  OBVIOUS
<1>7. /\ files' \in Lists /\ files'.data = [files.data EXCEPT ![node] = hdl]
      /\ RingOf(files', t)
  <2>1. files \in Lists
    BY <1>2 DEF HandlesType
  <2> QED
    BY <1>1, <1>3, <1>6, <2>1, RingFirst, RingMore, <1>a
<1>8. Cardinality(nodes') = Cardinality(nodes) + 1
  BY <1>3, <1>5, FS_AddElement
<1>9. nodes' = 1..Cardinality(nodes') /\ nodes' \subseteq Nodes
  <2>1. nodes = 1..Cardinality(nodes) /\ nodes \subseteq Nodes
    BY <1>2 DEF HandlesType
  <2>2. 1..(Cardinality(nodes) + 1) = 1..Cardinality(nodes) \cup {Cardinality(nodes) + 1}
    BY <1>5
  <2> QED
    BY <1>3, <1>8, <2>1, <2>2 DEF node
<1>10. HandlesType'
  BY <1>2, <1>3, <1>4, <1>7, <1>9 DEF HandlesType
<1>11. /\ Len(t) = n + 1 /\ t[n + 1] = node /\ \A i \in 1..n : t[i] = s[i]
  <2>1. s \in Seq(Nodes)
    BY <1>1 DEF RingOf
  <2> QED
    BY <1>3, <1>a, <2>1
<1>12. /\ files'.data[node] = hdl
       /\ \A i \in 1..n : files'.data[s[i]] = files.data[s[i]]
  <2>1. files.data \in [Nodes -> Blocks \cup {NULL}]
    BY <1>2 DEF HandlesType, Lists
  <2> QED
    BY <1>3, <1>6, <1>7, <2>1
<1> DEFINE D(i) == files.data[s[i]]
           E(i) == files'.data[t[i]]
<1>13. \A i \in 1..(n + 1) : i \in 1..n \/ i = n + 1
  BY <1>5
<1>14. E(n + 1) = hdl /\ \A i \in 1..n : E(i) = D(i)
  BY <1>11, <1>12
<1>15. Filled(t)'
  <2>1. \A i \in 1..(n + 1) : t[i] \in nodes' /\ E(i) \in Blocks
    BY <1>3, <1>6, <1>11, <1>13, <1>14
  <2>2. n + 1 <= Cardinality(nodes')
    BY <1>5, <1>8
  <2> QED
    BY <1>11, <2>1, <2>2 DEF Filled
<1>16. ASSUME ~others PROVE Leads(t)'
  <2>1. /\ \A b \in Blocks : block[b] # "other"
        /\ \A i \in 2..n : block[D(i)] = "handle"
        /\ \A i, j \in 2..n : D(i) = D(j) => i = j
        /\ \A i, j \in 1..n : user_fd[D(i)] = user_fd[D(j)] => D(i) = D(j)
        /\ \A g \in Fds : open[g] # NULL =>
             /\ block[open[g]] = "handle" /\ user_fd[open[g]] = g
             /\ \E i \in 1..n : D(i) = open[g]
    BY <1>1, <1>16 DEF Leads
  <2>2. \A i \in 1..n : D(i) \in Blocks
    BY <1>6
  <2>3. \A i \in 1..n : user_fd[D(i)] # fd
    <3>1. ~ \E i \in 1..n : /\ proc_get_fhandle(files, fd) = files.data[s[i]]
                           /\ user_fd[files.data[s[i]]] = fd
      BY <1>4, <1>6, NodeFacts
    <3> QED
      BY <1>1, <1>5, <3>1, LookupIs
  <2>4. block \in [Blocks -> {"free", "handle", "other"}] /\ user_fd \in [Blocks -> Nat]
        /\ open \in [Fds -> Blocks \cup {NULL}]
    BY <1>2 DEF HandlesType
  <2>5. /\ block'[hdl] = "handle" /\ \A b \in Blocks : b # hdl => block'[b] = block[b]
        /\ user_fd'[hdl] = fd /\ \A b \in Blocks : b # hdl => user_fd'[b] = user_fd[b]
        /\ open'[fd] = hdl /\ \A g \in Fds : g # fd => open'[g] = open[g]
    BY <1>3, <1>4, <2>4
  <2> HIDE DEF D, E
  <2>6. \A b \in Blocks : block'[b] # "other"
    BY <2>1, <2>5
  <2>7. \A i \in 2..(n + 1) : i \in 1..(n + 1) /\ (i \in 2..n \/ i = n + 1)
    BY <1>5
  <2>8. \A i \in 2..n : i \in 1..n
    BY <1>5
  <2>9. \A i \in 2..(n + 1) : block'[E(i)] = "handle"
    BY <1>14, <2>1, <2>2, <2>5, <2>7, <2>8
  <2>10. \A i \in 2..n : D(i) # hdl
    BY <1>3, <2>1
  <2>11. \A i, j \in 2..(n + 1) : E(i) = E(j) => i = j
    BY <1>14, <2>1, <2>7, <2>8, <2>10
  <2>12. \A i \in 1..n : D(i) # hdl => user_fd'[D(i)] # fd
    BY <2>2, <2>3, <2>5
  <2>13. \A i, j \in 1..(n + 1) : user_fd'[E(i)] = user_fd'[E(j)] => E(i) = E(j)
    <3> SUFFICES ASSUME NEW i \in 1..(n + 1), NEW j \in 1..(n + 1),
                        user_fd'[E(i)] = user_fd'[E(j)]
                 PROVE  E(i) = E(j)
      OBVIOUS
    <3>1. CASE E(i) = hdl
      BY <1>13, <1>14, <2>5, <2>12, <3>1
    <3>2. CASE E(j) = hdl
      BY <1>13, <1>14, <2>5, <2>12, <3>2
    <3>3. CASE E(i) # hdl /\ E(j) # hdl
      <4>1. i \in 1..n /\ j \in 1..n /\ E(i) = D(i) /\ E(j) = D(j)
        BY <1>13, <1>14, <3>3
      <4> QED
        BY <2>1, <2>2, <2>5, <3>3, <4>1
    <3> QED
      BY <3>1, <3>2, <3>3
  <2>14. \A i \in 1..n : i \in 1..(n + 1)
    BY <1>5
  <2>15. ASSUME NEW g \in Fds, open'[g] # NULL
         PROVE  /\ block'[open'[g]] = "handle" /\ user_fd'[open'[g]] = g
                /\ \E i \in 1..(n + 1) : E(i) = open'[g]
    <3>1. CASE g = fd
      <4>1. n + 1 \in 1..(n + 1)
        BY <1>5
      <4> QED
        BY <1>14, <2>5, <3>1, <4>1
    <3>2. CASE g # fd
      <4>1. open'[g] = open[g] /\ open[g] # NULL /\ open[g] \in Blocks
        BY <2>4, <2>5, <2>15, <3>2
      <4>2. block[open[g]] = "handle" /\ user_fd[open[g]] = g
            /\ \E i \in 1..n : D(i) = open[g]
        BY <2>1, <4>1
      <4>3. open[g] # hdl
        BY <1>3, <4>2
      <4> QED
        BY <1>14, <2>5, <2>14, <4>1, <4>2, <4>3
    <3> QED
      BY <3>1, <3>2
  <2> QED
    BY <1>11, <2>6, <2>9, <2>11, <2>13, <2>15 DEF Leads, E
<1> QED
  BY <1>3, <1>7, <1>10, <1>15, <1>16 DEF HandlesInv

\* swi_close keeps the invariant, whether it takes the handle's node out, leaves
\* it as the first one, or finds no handle.
LEMMA CloseKeeps ==
  ASSUME HandlesInv, NEW fd \in Fds, swi_close(fd)
  PROVE  HandlesInv'
<1>1. PICK s : RingOf(files, s) /\ Filled(s) /\ (~others => Leads(s))
  BY DEF HandlesInv
<1>2. HandlesType
  BY DEF HandlesInv
<1> DEFINE n == Len(s)
           hdl == proc_get_fhandle(files, fd)
           D(i) == files.data[s[i]]
<1>3. /\ open' = [open EXCEPT ![fd] = NULL]
      /\ nodes' = nodes /\ user_fd' = user_fd /\ others' = others
      /\ hdl = NULL => files' = files /\ block' = block
      /\ hdl # NULL => /\ files' = locked_list_remove_match(files, hdl)
                       /\ block' = [block EXCEPT ![hdl] = "free"]
  BY DEF swi_close
<1>4. n \in Nat /\ n <= Cardinality(Nodes) /\ n <= Cardinality(nodes) /\ Cardinality(nodes) \in Nat
  BY <1>1, <1>2, Short, NodesCount DEF Filled
<1>5. \A i \in 1..n : s[i] \in nodes /\ D(i) \in Blocks
  BY <1>1 DEF Filled
<1>6. hdl # NULL => \E i \in 1..n : hdl = D(i) /\ user_fd[D(i)] = fd
  BY <1>1, <1>4, LookupIs
<1>7. /\ block \in [Blocks -> {"free", "handle", "other"}] /\ user_fd \in [Blocks -> Nat]
      /\ open \in [Fds -> Blocks \cup {NULL}] /\ files \in Lists
  BY <1>2 DEF HandlesType
<1>8. open'[fd] = NULL /\ \A g \in Fds : g # fd => open'[g] = open[g]
  BY <1>3, <1>7
<1>9. hdl # NULL => hdl \in Blocks
  BY <1>5, <1>6
<1>10. block' \in [Blocks -> {"free", "handle", "other"}]
  BY <1>3, <1>7, <1>9
<1>11. ASSUME ~others
       PROVE  /\ \A b \in Blocks : block[b] # "other"
              /\ \A i \in 2..n : block[D(i)] = "handle"
              /\ \A i, j \in 2..n : D(i) = D(j) => i = j
              /\ \A i, j \in 1..n : user_fd[D(i)] = user_fd[D(j)] => D(i) = D(j)
              /\ \A g \in Fds : open[g] # NULL =>
                   /\ block[open[g]] = "handle" /\ user_fd[open[g]] = g
                   /\ \E i \in 1..n : D(i) = open[g]
  BY <1>1, <1>11 DEF Leads
<1> HIDE DEF hdl
<1>13. ASSUME ~others, NEW g \in Fds, open'[g] # NULL
       PROVE  /\ open'[g] = open[g] /\ open[g] # hdl /\ open[g] \in Blocks
              /\ block'[open[g]] = "handle" /\ user_fd'[open[g]] = g
              /\ \E i \in 1..n : D(i) = open[g]
  <2>1. g # fd /\ open'[g] = open[g] /\ open[g] # NULL /\ open[g] \in Blocks
    BY <1>7, <1>8, <1>13
  <2>2. /\ block[open[g]] = "handle" /\ user_fd[open[g]] = g
        /\ \E i \in 1..n : D(i) = open[g]
    <3> HIDE DEF D
    <3> QED
      BY <1>11, <1>13, <2>1
  <2>3. hdl # NULL => user_fd[hdl] = fd
    BY <1>6
  <2>4. open[g] # hdl
    BY <2>1, <2>2, <2>3
  <2>5. block'[open[g]] = block[open[g]]
    BY <1>3, <1>7, <1>9, <2>1, <2>4
  <2> QED
    BY <1>3, <2>1, <2>2, <2>4, <2>5
<1>14. ASSUME ~others PROVE \A b \in Blocks : block'[b] # "other"
  <2> HIDE DEF D
  <2> QED
    BY <1>3, <1>7, <1>9, <1>11, <1>14
<1>15. ASSUME ~others, NEW i \in 2..n, D(i) # hdl PROVE block'[D(i)] = "handle"
  <2>1. D(i) \in Blocks /\ block[D(i)] = "handle"
    <3>1. i \in 1..n
      BY <1>4
    <3> HIDE DEF D
    <3> QED
      BY <1>5, <1>11, <1>15, <3>1
  <2> HIDE DEF D
  <2> QED
    BY <1>3, <1>7, <1>9, <1>15, <2>1
<1>16. CASE files' = files /\ \A i \in 2..n : D(i) # hdl
  <2>1. HandlesType'
    BY <1>2, <1>3, <1>8, <1>10, <1>16, HandlesAssumption DEF HandlesType
  <2>2. RingOf(files', s) /\ Filled(s)'
    BY <1>1, <1>3, <1>16 DEF Filled
  <2>3. ASSUME ~others PROVE Leads(s)'
    <3>1. /\ \A i \in 2..n : block'[D(i)] = "handle"
          /\ \A i, j \in 2..n : D(i) = D(j) => i = j
          /\ \A i, j \in 1..n : user_fd'[D(i)] = user_fd'[D(j)] => D(i) = D(j)
      <4> HIDE DEF D
      <4> QED
        BY <1>3, <1>11, <1>15, <1>16, <2>3
    <3>2. \A g \in Fds : open'[g] # NULL =>
            /\ block'[open'[g]] = "handle" /\ user_fd'[open'[g]] = g
            /\ \E i \in 1..n : D(i) = open'[g]
      <4> HIDE DEF D
      <4> QED
        BY <1>13, <2>3
    <3>3. \A b \in Blocks : block'[b] # "other"
      BY <1>14, <2>3
    <3> QED
      BY <1>16, <3>1, <3>2, <3>3 DEF Leads
  <2> QED
    BY <1>3, <2>1, <2>2, <2>3 DEF HandlesInv
<1>17. CASE hdl = NULL
  <2>1. \A i \in 2..n : i \in 1..n
    BY <1>4
  <2>2. \A i \in 2..n : D(i) # hdl
    BY <1>5, <1>17, <2>1, NodeFacts
  <2> QED
    BY <1>3, <1>16, <1>17, <2>2
<1>18. CASE hdl # NULL /\ find_data(files, hdl) = NULL
  <2>1. files' = files
    BY <1>3, <1>18 DEF locked_list_remove_match
  <2>2. \A i \in 2..n : D(i) # hdl
    BY <1>1, <1>4, <1>18, FindIs
  <2> QED
    BY <1>16, <2>1, <2>2
<1>19. CASE hdl # NULL /\ find_data(files, hdl) # NULL
  <2>1. PICK i \in 2..n : find_data(files, hdl) = s[i] /\ D(i) = hdl
    BY <1>1, <1>4, <1>19, FindIs
  <2> DEFINE s2 == Cut(s, i)
             m == n - 1
             E(k) == files.data[s2[k]]
  <2>2. files' = remove(files, s[i])
    BY <1>3, <1>19, <2>1 DEF locked_list_remove_match
  <2>3. /\ files' \in Lists /\ files'.data = files.data
        /\ RingOf(files', s2) /\ Len(s2) = m
    BY <1>1, <1>7, <2>2, RingLess
  <2>4. HandlesType'
    BY <1>2, <1>3, <1>8, <1>10, <2>3, HandlesAssumption DEF HandlesType
  <2>5. \A k \in 1..m : Old(i, k) \in 1..n /\ Old(i, k) # i /\ s2[k] = s[Old(i, k)]
    BY <1>4 DEF Old, Cut
  <2>6. \A k \in 1..m : E(k) = D(Old(i, k))
    BY <2>5
  <2>7. Filled(s2)'
    <3>1. m <= Cardinality(nodes)
      BY <1>4
    <3>2. \A k \in 1..m : s2[k] \in nodes /\ files.data[s2[k]] \in Blocks
      BY <1>5, <2>5
    <3> QED
      BY <1>3, <2>3, <3>1, <3>2 DEF Filled
  <2>8. ASSUME ~others PROVE Leads(s2)'
    <3>1. /\ \A k \in 2..m : Old(i, k) \in 2..n /\ k \in 1..m
          /\ \A k, j \in 1..m : Old(i, k) = Old(i, j) => k = j
          /\ \A j \in 1..n : j # i => \E k \in 1..m : Old(i, k) = j
      <4>1. ASSUME NEW j \in 1..n, j # i PROVE \E k \in 1..m : Old(i, k) = j
        <5>1. CASE j < i
          <6>1. j \in 1..m /\ Old(i, j) = j
            BY <1>4, <5>1 DEF Old
          <6> QED
            BY <6>1
        <5>2. CASE ~(j < i)
          <6>1. j - 1 \in 1..m /\ Old(i, j - 1) = j
            BY <1>4, <4>1, <5>2 DEF Old
          <6> QED
            BY <6>1
        <5> QED
          BY <5>1, <5>2
      <4> QED
        BY <1>4, <4>1 DEF Old
    <3> HIDE DEF D, E, s2, m
    <3>2. \A k \in 2..m : E(k) # hdl /\ block'[E(k)] = "handle"
      <4> SUFFICES ASSUME NEW k \in 2..m PROVE E(k) # hdl /\ block'[E(k)] = "handle"
        OBVIOUS
      <4>1. Old(i, k) \in 2..n /\ Old(i, k) # i /\ E(k) = D(Old(i, k))
        BY <2>5, <2>6, <3>1
      <4>2. D(Old(i, k)) # hdl
        BY <1>11, <2>1, <2>8, <4>1
      <4> QED
        BY <1>15, <2>8, <4>1, <4>2
    <3>3. \A k, j \in 2..m : E(k) = E(j) => k = j
      BY <1>11, <2>6, <2>8, <3>1
    <3>4. \A k, j \in 1..m : user_fd'[E(k)] = user_fd'[E(j)] => E(k) = E(j)
      BY <1>3, <1>11, <2>5, <2>6, <2>8
    <3>5. ASSUME NEW g \in Fds, open'[g] # NULL
          PROVE  /\ block'[open'[g]] = "handle" /\ user_fd'[open'[g]] = g
                 /\ \E k \in 1..m : E(k) = open'[g]
      <4>1. /\ open'[g] = open[g] /\ open[g] # hdl
            /\ block'[open[g]] = "handle" /\ user_fd'[open[g]] = g
            /\ \E j \in 1..n : D(j) = open[g]
        BY <1>13, <2>8, <3>5
      <4>2. PICK j \in 1..n : D(j) = open[g]
        BY <4>1
      <4>3. j # i
        BY <2>1, <4>1, <4>2
      <4>4. PICK k \in 1..m : Old(i, k) = j
        BY <3>1, <4>3
      <4>5. E(k) = open[g]
        BY <2>6, <4>2, <4>4
      <4> QED
        BY <4>1, <4>5
    <3>6. \A b \in Blocks : block'[b] # "other"
      BY <1>14, <2>8
    <3> QED
      BY <2>3, <3>2, <3>3, <3>4, <3>5, <3>6 DEF Leads, E
  <2> QED
    BY <1>3, <2>3, <2>4, <2>7, <2>8 DEF HandlesInv
<1> QED
  BY <1>17, <1>18, <1>19

\* Other users of the blocks leave the list alone.
LEMMA OthersKeep ==
  ASSUME HandlesInv, kmalloc \/ kfree
  PROVE  HandlesInv'
<1>1. PICK s : RingOf(files, s) /\ Filled(s) /\ (~others => Leads(s))
  BY DEF HandlesInv
<1>2. HandlesType
  BY DEF HandlesInv
<1>3. files' = files /\ nodes' = nodes /\ open' = open /\ others' = others
  BY DEF kmalloc, kfree
<1>4. HandlesType'
  <2>1. CASE kmalloc
    BY <1>2, <1>3, <2>1, HandlesAssumption DEF HandlesType, kmalloc
  <2>2. CASE kfree
    BY <1>2, <1>3, <2>2 DEF HandlesType, kfree
  <2> QED
    BY <2>1, <2>2
<1>5. others
  <2>1. CASE kmalloc
    BY <2>1 DEF kmalloc
  <2>2. CASE kfree
    BY <1>1, <2>2 DEF kfree, Leads
  <2> QED
    BY <2>1, <2>2
<1>6. RingOf(files', s) /\ Filled(s)'
  BY <1>1, <1>3 DEF Filled
<1> QED
  BY <1>3, <1>4, <1>5, <1>6 DEF HandlesInv

\* A new process has an empty list.
LEMMA HandlesStart ==
  ASSUME HandlesInit
  PROVE  HandlesInv
<1>1. /\ files.head = NULL /\ files.data \in [Nodes -> Blocks \cup {NULL}] /\ files \in Lists
      /\ nodes = {}
  BY DEF HandlesInit, locked_list_init, Lists
<1>2. Cardinality(nodes) = 0 /\ 1..0 = {}
  BY <1>1, FS_EmptySet
<1>3. HandlesType
  BY <1>1, <1>2 DEF HandlesType, HandlesInit
<1> DEFINE s == << >>
<1>4. s \in Seq(Nodes) /\ Len(s) = 0 /\ 2..0 = {}
  OBVIOUS
<1>5. RingOf(files, s) /\ Filled(s)
  <2> HIDE DEF s
  <2> QED
    BY <1>1, <1>2, <1>4 DEF RingOf, Filled
<1>6. Leads(s)
  <2>1. /\ \A b \in Blocks : block[b] = "free"
        /\ \A fd \in Fds : open[fd] = NULL
    BY DEF HandlesInit
  <2> HIDE DEF s
  <2> QED
    BY <1>2, <1>4, <2>1 DEF Leads
<1> QED
  BY <1>3, <1>5, <1>6 DEF HandlesInv

\* The invariant implies the property.
LEMMA InvMeansFile ==
  ASSUME HandlesInv
  PROVE  FdMeansFile
<1>1. PICK s : RingOf(files, s) /\ Filled(s) /\ (~others => Leads(s))
  BY DEF HandlesInv
<1>2. HandlesType
  BY DEF HandlesInv
<1> DEFINE n == Len(s)
<1>3. n \in Nat /\ n <= Cardinality(Nodes)
  BY <1>1, <1>2, Short
<1>4. Length(files) = n /\ Elements(files) = s
  BY <1>1, <1>3, ElementsAre
<1>5. InList = {s[i] : i \in 1..n}
  BY <1>4 DEF InList
<1>6. \A i \in 1..n : s[i] \in nodes
  BY <1>1 DEF Filled
<1>7. ASSUME NEW i \in 1..n
      PROVE  files.next[files.prev[s[i]]] = s[i] /\ files.prev[files.next[s[i]]] = s[i]
  <2>1. \A k \in 1..n : /\ files.next[s[k]] = s[Succ(n, k)] /\ files.prev[s[k]] = s[Pred(n, k)]
    BY <1>1 DEF RingOf
  <2>2. /\ Succ(n, i) \in 1..n /\ Pred(n, i) \in 1..n
        /\ Succ(n, Pred(n, i)) = i /\ Pred(n, Succ(n, i)) = i
    BY <1>3 DEF Succ, Pred
  <2> HIDE DEF n
  <2> QED
    BY <2>1, <2>2
<1>8. Cardinality(InList) = n
  <2>1. \A i, j \in 1..n : s[i] = s[j] => i = j
    BY <1>1 DEF RingOf
  <2> DEFINE f == [i \in 1..n |-> s[i]]
  <2>2. f \in [1..n -> InList]
    BY <1>5
  <2>3. f \in Bijection(1..n, InList)
    <3>1. \A i, j \in 1..n : f[i] = f[j] => i = j
      BY <2>1
    <3>2. \A x \in InList : \E i \in 1..n : f[i] = x
      BY <1>5
    <3> HIDE DEF f, n
    <3> QED
      BY <2>2, <3>1, <3>2 DEF Bijection, Injection, IsInjective, Surjection
  <2>4. ExistsBijection(1..n, InList)
    <3> HIDE DEF f
    <3> QED
      BY <2>3 DEF ExistsBijection
  <2> QED
    BY <1>3, <2>4, FS_CountingElements
<1>9. RingIntact
  <2>1. InList \subseteq nodes /\ Cardinality(InList) = Length(files)
    BY <1>4, <1>5, <1>6, <1>8
  <2>2. ASSUME NEW x \in InList
        PROVE  files.next[files.prev[x]] = x /\ files.prev[files.next[x]] = x
    <3>1. PICK i \in 1..n : x = s[i]
      BY <1>5
    <3> QED
      BY <1>7, <3>1
  <2> QED
    BY <2>1, <2>2 DEF RingIntact
<1>10. ASSUME ~others PROVE OpenLeads
  <2> SUFFICES ASSUME NEW fd \in Fds, open[fd] # NULL
               PROVE  proc_get_fhandle(files, fd) = open[fd] /\ block[open[fd]] = "handle"
    BY DEF OpenLeads
  <2> DEFINE D(i) == files.data[s[i]]
  <2>1. /\ block[open[fd]] = "handle" /\ user_fd[open[fd]] = fd
        /\ \E i \in 1..n : D(i) = open[fd]
        /\ \A i, j \in 1..n : user_fd[D(i)] = user_fd[D(j)] => D(i) = D(j)
    BY <1>1, <1>10 DEF Leads
  <2>2. PICK i \in 1..n : D(i) = open[fd]
    BY <2>1
  <2>3. \E j \in 1..n : proc_get_fhandle(files, fd) = D(j) /\ user_fd[D(j)] = fd
    <3>1. ~ \A j \in 1..n : user_fd[files.data[s[j]]] # fd
      BY <2>1, <2>2
    <3>2. RingOf(files, s) /\ Len(s) <= Cardinality(Nodes)
      BY <1>1, <1>3
    <3>3. \/ \A j \in 1..n : user_fd[files.data[s[j]]] # fd
          \/ \E j \in 1..n : proc_get_fhandle(files, fd) = files.data[s[j]] /\ user_fd[files.data[s[j]]] = fd
      BY <3>2, LookupIs, SMTT(30)
    <3> QED
      BY <3>1, <3>3, Zenon
  <2>4. PICK j \in 1..n : proc_get_fhandle(files, fd) = D(j) /\ user_fd[D(j)] = fd
    BY <2>3
  <2>5. D(j) = D(i)
    <3> HIDE DEF D
    <3> QED
      BY <2>1, <2>2, <2>4
  <2> QED
    BY <2>1, <2>2, <2>4, <2>5
<1> QED
  BY <1>9, <1>10 DEF FdMeansFile

\* For any number of nodes, blocks and descriptors, and whatever is opened and
\* closed in whatever order: the list of handles stays a ring of allocated nodes,
\* and the descriptor of an open file leads to its handle as long as nobody else
\* uses the blocks, although the first handle is never taken out of the list.
THEOREM FdMeansFileHolds == HandlesSpec => []FdMeansFile
<1>1. HandlesInit => HandlesInv
  BY HandlesStart
<1>2. HandlesInv /\ [HandlesNext]_handle_vars => HandlesInv'
  <2> SUFFICES ASSUME HandlesInv, [HandlesNext]_handle_vars PROVE HandlesInv'
    OBVIOUS
  <2>1. CASE swi_open
    BY <2>1, OpenKeeps
  <2>2. ASSUME NEW fd \in Fds, swi_close(fd) PROVE HandlesInv'
    BY <2>2, CloseKeeps
  <2>3. CASE kmalloc \/ kfree
    BY <2>3, OthersKeep
  <2>4. CASE UNCHANGED handle_vars
    <3>1. /\ files' = files /\ nodes' = nodes /\ block' = block /\ user_fd' = user_fd
          /\ open' = open /\ others' = others
      BY <2>4 DEF handle_vars
    <3>2. PICK s : RingOf(files, s) /\ Filled(s) /\ (~others => Leads(s))
      BY DEF HandlesInv
    <3>3. RingOf(files', s) /\ Filled(s)' /\ (~others' => Leads(s)')
      BY <3>1, <3>2 DEF Filled, Leads
    <3>4. HandlesType'
      BY <3>1 DEF HandlesInv, HandlesType
    <3> QED
      BY <3>3, <3>4 DEF HandlesInv
  <2> QED
    BY <2>1, <2>2, <2>3, <2>4 DEF HandlesNext
<1>3. HandlesInv => FdMeansFile
  BY InvMeansFile
<1> QED
  BY <1>1, <1>2, <1>3, PTL DEF HandlesSpec
=============================================================================
