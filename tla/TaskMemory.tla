----------------------------- MODULE TaskMemory -----------------------------
(***************************************************************************)
(* The memory a trustlet is lent for the parameters of one call.           *)
(* parameters_to_userspace copies every memory reference of the client     *)
(* into fresh pages mapped to the trustlet's process, and                  *)
(* parameters_from_userspace takes them back when the trustlet answers.    *)
(* pmm is the physical memory manager; every process has a bitmap of       *)
(* mappable frames and a page directory of its own.                        *)
(***************************************************************************)
EXTENDS PageBitmap, FiniteSets

CONSTANTS
  Procs,      \* user processes: the trustlets
  PAGES,      \* physical pages of the secure world
  FRAMES,     \* mappable frames of a process
  PAGE_SIZE,  \* bytes of a page, 4096 in the code
  Sizes,      \* sizes, in bytes, of the memory references
  MaxParams   \* memory references of one call, at most 4 in the code

ASSUME TaskMemoryAssumption ==
  /\ PAGES \in Nat \ {0} /\ FRAMES \in Nat \ {0} /\ PAGE_SIZE \in Nat \ {0}
  /\ Sizes \subseteq Nat /\ MaxParams \in Nat

PhysPage == 0..(PAGES - 1)
Frame == 0..(FRAMES - 1)

\* Virtual pages of a process: the frames from USER_START_MAPPED_MEM on, and
\* one more for those at address 0, the null pointer trap.
Low == FRAMES
VirtPage == {Low} \cup Frame

VARIABLES
  pmm,        \* secure_phy_mem: TRUE for a free physical page
  membitmap,  \* per process, TRUE for a free frame
  pd,         \* vuserPD: per process, the page a virtual page shows, or NULL
  refs,       \* per process, the references lent for the call it is in
  small       \* TRUE in the behaviours whose references are all of less than
              \* a page

vars == <<pmm, membitmap, pd, refs, small>>

\* needed_pages(0, size): one page more than size / PAGE_SIZE, rounded down.
needed_pages(size) == size \div PAGE_SIZE + 1

\* The pages free_mem_from_task gives back: size / PAGE_SIZE, rounded up.
freed_pages(size) == (size + PAGE_SIZE - 1) \div PAGE_SIZE

Init ==
  /\ pmm = [p \in PhysPage |-> TRUE]
  /\ membitmap = [t \in Procs |-> [f \in Frame |-> TRUE]]
  /\ pd = [t \in Procs |-> [v \in VirtPage |-> NULL]]
  /\ refs = [t \in Procs |-> {}]
  /\ small \in BOOLEAN

\* A version that forgets to mark the frames.
map_mem_to_task_unmarked(t, page, n) ==
  LET start == FirstFit(membitmap[t], n)
  IN  /\ pd' = [pd EXCEPT ![t] = [v \in VirtPage |->
                  IF start # NULL /\ v \in Run(start, n) THEN page ELSE pd[t][v]]]
      /\ UNCHANGED membitmap

\* map_mem_to_task maps every frame of the block to the block's first page.
\* The frames are taken from the bitmap before anything else; without frames
\* frame_start is 0 and the page is mapped at address 0 instead.
map_mem_to_task(t, page, n) ==
  LET start == FirstFit(membitmap[t], n)
  IN  IF start = NULL
      THEN /\ pd' = [pd EXCEPT ![t][Low] = page]
           /\ UNCHANGED membitmap
      ELSE /\ membitmap' = [membitmap EXCEPT ![t] = Take(@, start, n)]
           /\ pd' = [pd EXCEPT ![t] = [v \in VirtPage |->
                       IF v \in Run(start, n) THEN page ELSE pd[t][v]]]

\* allocate_map_mem_to_task, for one memory reference of a call.  When the
\* process has no frames left the physical pages are not given back, and when
\* either memory is exhausted the call is refused with an error and the
\* references lent before stay where they are: nobody will take them back.
parameters_to_userspace(t, size) ==
  LET n == needed_pages(size)
      page == FirstFit(pmm, n)
      start == FirstFit(membitmap[t], n)
  IN  /\ small => size < PAGE_SIZE
      /\ Cardinality(refs[t]) < MaxParams
      /\ IF page = NULL
         THEN UNCHANGED <<pmm, membitmap, pd>>
         ELSE /\ pmm' = Take(pmm, page, n)
              /\ map_mem_to_task(t, page, n)
      /\ refs' = [refs EXCEPT ![t] =
                    IF page = NULL \/ start = NULL THEN {}
                    ELSE @ \cup {[uaddr |-> start, size |-> size]}]
      /\ UNCHANGED small

\* unmap_mem_from_task unmaps the first page of each block, once per page of
\* the block, and leaves the frames marked used.
unmap_mem_from_task(t, used) ==
  [pd EXCEPT ![t] = [v \in VirtPage |->
     IF \E r \in used : r.uaddr = v /\ r.size > 0 THEN NULL ELSE pd[t][v]]]

\* free_mem_from_task for the given references of the call, which is then over:
\* nobody will take the others back.  The physical pages to free start where a
\* reference is mapped.
free_mem_from_task(t, used) ==
  /\ pd' = unmap_mem_from_task(t, used)
  /\ pmm' = [p \in PhysPage |->
       pmm[p] \/ \E r \in used : p \in Run(pd[t][r.uaddr], freed_pages(r.size))]
  /\ refs' = [refs EXCEPT ![t] = {}]
  /\ UNCHANGED <<membitmap, small>>

\* parameters_to_userspace gives up on a parameter after references were lent:
\* a memory it does not know or whose bounds it exceeds, or the last one lent,
\* whose memory map_phys_mem cannot map to copy from.  Only that one is freed.
\* Frames are never returned, so the references were lent in their order.
parameters_refused(t) ==
  /\ refs[t] # {}
  /\ \/ free_mem_from_task(t, {})
     \/ free_mem_from_task(t, {r \in refs[t] : \A q \in refs[t] : q.uaddr <= r.uaddr})

\* The trustlet answers: the references are freed one after the other, up to
\* one whose memory is not found or cannot be mapped.
parameters_from_userspace(t) ==
  /\ refs[t] # {}
  /\ \E used \in SUBSET refs[t] :
       /\ \A r \in used, q \in refs[t] \ used : r.uaddr < q.uaddr
       /\ free_mem_from_task(t, used)

Next ==
  \E t \in Procs :
    \/ \E size \in Sizes : parameters_to_userspace(t, size)
    \/ parameters_refused(t)
    \/ parameters_from_userspace(t)

Spec == Init /\ [][Next]_vars

-----------------------------------------------------------------------------

Pages(t) == {pd[t][v] : v \in VirtPage} \ {NULL}

\* TypeOK: the types of the bitmaps, the directories and the references.
TypeOK ==
  /\ pmm \in [PhysPage -> BOOLEAN]
  /\ membitmap \in [Procs -> [Frame -> BOOLEAN]]
  /\ pd \in [Procs -> [VirtPage -> PhysPage \cup {NULL}]]
  /\ refs \in [Procs -> SUBSET [uaddr : Frame, size : Sizes]]
  /\ small \in BOOLEAN

\* While a call is in progress the memory lent for it is there: the frames of
\* the references do not overlap, are marked used, and show an allocated page
\* that no other reference shows, whatever was mapped and unmapped before.
RefsBacked ==
  TypeOK /\ \A t \in Procs : \A r \in refs[t] :
    /\ \A f \in Run(r.uaddr, needed_pages(r.size)) : f \in Frame /\ ~membitmap[t][f]
    /\ pd[t][r.uaddr] # NULL /\ ~pmm[pd[t][r.uaddr]]
    /\ \A u \in Procs : \A q \in refs[u] :
         <<u, q>> # <<t, r>> => pd[u][q.uaddr] # pd[t][r.uaddr]

\* unmap_mem_from_task "Unmaps memory from task" (umm.h): a process that has
\* given its references back sees no page that is free, or that is lent to
\* another process.
NoStaleMapping ==
  \A t \in Procs : \A p \in Pages(t) :
    /\ ~pmm[p]
    /\ \A u \in Procs \ {t} : p \notin Pages(u)

\* The memory lent for a call in progress is backed by pages of its own,
\* whatever earlier calls left behind; and with references of less than a page no
\* process keeps sight of a page it gave back (umm.c:168, 187).
LentIsBacked == RefsBacked /\ (small => NoStaleMapping)

\* free_mem_from_task "Fress memory from task" (umm.h): with no call in
\* progress every frame of every process is free again.
FramesReturned ==
  (\A t \in Procs : refs[t] = {}) => \A t \in Procs, f \in Frame : membitmap[t][f]
=============================================================================
