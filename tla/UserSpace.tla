----------------------------- MODULE UserSpace -----------------------------
(***************************************************************************)
(* The address space of a user process: the image setup_elf loads, the     *)
(* block of its main thread (thread-local storage and stack) and the heap  *)
(* that the C library grows and shrinks with sbrk.  Memory is bytes in     *)
(* pages; a byte is Stale (what the page held before), 0, or a + 1 for the *)
(* byte the ELF file has for address a.                                    *)
(***************************************************************************)
EXTENDS PageBitmap, Integers, FiniteSets, FiniteSetsExt, SequencesExt

CONSTANTS
  Procs,          \* user processes
  Images,         \* what may be loaded: its segments and its TLS segment
  PAGES,          \* physical pages of the secure world
  PAGE_SIZE,      \* bytes of a page, 4096 in the code
  WORD,           \* bytes of an uint32_t, 4 in the code
  VPAGES,         \* virtual pages of a process
  THREAD_PAGE,    \* THREAD_VMEM_START, a page number
  SPACING,        \* THREAD_LOCAL_PAGES_SPACING, 64 in the code
  STACK_PAGES,    \* DEFAULT_USER_STACK_PAGES, 8 in the code
  EARLY_CHUNKS,   \* blocks a process allocates before the last one is loaded
  Requests,       \* sizes of the blocks a trustlet allocates
  MINSIZE,        \* the smallest chunk of the allocator, 16 bytes
  TRIM_THRESHOLD  \* bytes free at the heap's end that are given back, 128 KB

\* What the constants are.
UserSpaceAssumption ==
  /\ PAGES \in Nat /\ VPAGES \in Nat /\ SPACING \in Nat /\ STACK_PAGES \in Nat
  /\ WORD \in Nat \ {0} /\ PAGE_SIZE % WORD = 0 /\ PAGE_SIZE > MINSIZE
  /\ STACK_PAGES < SPACING /\ THREAD_PAGE + SPACING <= VPAGES
  /\ Requests \subseteq Nat /\ MINSIZE \in Nat \ {0} /\ TRIM_THRESHOLD \in Nat

VirtPage == 0..(VPAGES - 1)

\* The physical pages, and those at address 0, which pmm does not manage.
PhysPage == 0..(PAGES - 1)
Zero(i) == PAGES + i
Stale == -1

VARIABLES
  pmm,       \* secure_phy_mem: TRUE for a free page
  bytes,     \* what the physical pages hold
  proc,      \* the processes: page table, image, heap, the allocator's state,
             \* and as history the highest end the heap ever had
  panicked   \* kpanic was called

vars == <<pmm, bytes, proc, panicked>>

\* The page of an address, and the first page that begins there or behind.
PageOf(a) == a \div PAGE_SIZE
PageUp(a) == (a + PAGE_SIZE - 1) \div PAGE_SIZE

NoImage == [load |-> <<>>, tls |-> [start |-> 0, filesz |-> 0, memsz |-> 0]]
NoProcess == [running |-> FALSE, image |-> NoImage, vheap |-> 0, heapstart |-> 0, peak |-> 0,
              chunks |-> {}, top |-> NULL, pd |-> [v \in VirtPage |-> NULL]]

Init ==
  /\ pmm = [f \in PhysPage |-> TRUE]
  /\ bytes = [f \in 0..(PAGES + VPAGES - 1) |-> [o \in 0..(PAGE_SIZE - 1) |-> Stale]]
  /\ proc = [p \in Procs |-> NoProcess]
  /\ panicked = FALSE

\* main_task lets every process run when it has created it.
Booted == \A p \in Procs : proc[p].running

-----------------------------------------------------------------------------
(* A space is what the kernel code below changes: s.pmm, s.bytes, s.pd,    *)
(* s.vheap and s.panicked.                                                 *)

SpaceOf(p) == [pmm |-> pmm, bytes |-> bytes, pd |-> proc[p].pd,
               vheap |-> proc[p].vheap, panicked |-> panicked]

\* map_memory_v of a small page: a page that is mapped stays as it is.
map_memory_v(s, v, f) == IF s.pd[v] = NULL THEN [s EXCEPT !.pd[v] = f] ELSE s

\* Stores of the kernel through the page table: val(a) at the addresses A.
Store(s, A, val(_)) ==
  LET at(f, o) == {a \in A : s.pd[PageOf(a)] = f /\ a % PAGE_SIZE = o}
  IN  [s EXCEPT !.bytes = [f \in DOMAIN s.bytes |-> [o \in 0..(PAGE_SIZE - 1) |->
         IF at(f, o) = {} THEN s.bytes[f][o] ELSE val(Max(at(f, o)))]]]

Load(s, a) == s.bytes[s.pd[PageOf(a)]][a % PAGE_SIZE]

Bytes(start, n) == start .. (start + n - 1)

\* pmm_allocate_page and map_memory_v for a page of the process, or a panic.
MapNewPage(s, v) ==
  LET f == FirstFit(s.pmm, 1)
  IN  IF s.panicked THEN s
      ELSE IF f = NULL THEN [s EXCEPT !.panicked = TRUE]
      ELSE map_memory_v([s EXCEPT !.pmm = Take(@, f, 1)], v, f)

\* n pages from page first on, one after the other, by step.
ForPages(step(_, _), s, first, n) ==
  FoldLeft(step, s, [i \in 1..n |-> first + i - 1])

-----------------------------------------------------------------------------
(* Loading.                                                                *)

\* The pages of a segment, from its first to its last one, and one more.
pgcount(seg) == PageUp(seg.vaddr + seg.memsz) - PageOf(seg.vaddr) + 1

\* A copy of all bytes but those of the last word.
filled_bytes_short(seg) == ((seg.filesz - 1) \div WORD) * WORD

\* The bytes that are copied: whole words.
filled_bytes(seg) == (seg.filesz \div WORD) * WORD

\* One PT_LOAD header: pages are allocated in one block, not checked to be
\* there, and mapped; they are cleared, and the whole words of the file's
\* part are copied.  The heap starts behind the highest page.
load_segment(s, seg) ==
  LET first == PageOf(seg.vaddr)
      n == pgcount(seg)
      f == FirstFit(s.pmm, n)
      frame(v) == IF f = NULL THEN Zero(v - first) ELSE f + v - first
      taken == [s EXCEPT !.pmm = IF f = NULL THEN @ ELSE Take(@, f, n)]
      mapped == ForPages(LAMBDA t, v : map_memory_v(t, v, frame(v)), taken, first, n)
      cleared == Store(mapped, Bytes(first * PAGE_SIZE, n * PAGE_SIZE), LAMBDA a : 0)
      filled == Store(cleared, Bytes(seg.vaddr, filled_bytes(seg)), LAMBDA a : a + 1)
  IN  [filled EXCEPT !.vheap = Max({s.vheap, (first + n) * PAGE_SIZE})]

setup_elf(s, image) ==
  FoldLeft(load_segment, [s EXCEPT !.vheap = 0], image.load)

\* The template's size: all of the TLS segment, not just what the file has.
tls_size(image) == image.tls.memsz

\* The block of the main thread, in a fresh address space the first one.
\* The TLS pages take a copy of the template and are cleared behind it; the
\* stack lies under the guard page at the block's end.  Without pages the
\* thread is not created, and create_user_process panics.
create_user_thread(s, image) ==
  LET base == THREAD_PAGE * PAGE_SIZE
      size == tls_size(image)
      pages == size \div PAGE_SIZE + 1
      first_page == THREAD_PAGE + SPACING - 1 - STACK_PAGES
      tls == ForPages(MapNewPage, s, THREAD_PAGE, pages)
      copied == Store(tls, Bytes(base, size), LAMBDA a : Load(tls, image.tls.start + a - base))
      clear == Store(copied, Bytes(base + size, pages * PAGE_SIZE - size), LAMBDA a : 0)
      withTls == IF image.tls.start = 0 \/ size = 0 THEN s
                 ELSE IF tls.panicked THEN tls ELSE clear
      stack == ForPages(MapNewPage, withTls, first_page, STACK_PAGES)
  IN  IF stack.panicked THEN stack
      ELSE Store(stack, Bytes(first_page * PAGE_SIZE, STACK_PAGES * PAGE_SIZE), LAMBDA a : 0)

\* What a step makes of the space of process p, and of r, its other fields.
Becomes(p, s, r) ==
  /\ pmm' = s.pmm /\ bytes' = s.bytes /\ panicked' = s.panicked
  /\ proc' = [proc EXCEPT ![p] = [r EXCEPT !.pd = s.pd, !.vheap = s.vheap,
                                          !.peak = Max({@, s.vheap})]]

create_user_process(p, image) ==
  LET loaded == setup_elf(SpaceOf(p), image)
  IN  /\ ~panicked /\ ~proc[p].running
      /\ Becomes(p, create_user_thread(loaded, image),
                 [proc[p] EXCEPT !.running = TRUE, !.image = image, !.heapstart = loaded.vheap])

-----------------------------------------------------------------------------
(* The heap.                                                               *)

\* A version that counts the byte at the heap's end among those left.
left_on_page_whole(heap) == PAGE_SIZE - (heap % PAGE_SIZE)

\* A version that takes the page to end a byte earlier.
left_on_page_less(heap) == (PAGE_SIZE - 2) - (heap % PAGE_SIZE)

\* The bytes swi_sbrk takes to be left on the page of the heap's end.
left_on_page(heap) == (PAGE_SIZE - 1) - (heap % PAGE_SIZE)

\* The system call.  Pages are mapped from the one that holds the heap's end
\* while the increment exceeds what is left; a page that is mapped already is
\* a panic.  A negative increment unmaps nothing.
swi_sbrk(s, incr) ==
  LET over == incr - left_on_page(s.vheap)
      grow(t, v) == IF t.panicked THEN t
                    ELSE IF t.pd[v] # NULL THEN [MapNewPage(t, v) EXCEPT !.panicked = TRUE]
                    ELSE MapNewPage(t, v)
      mapped == ForPages(grow, s, PageOf(s.vheap), IF over > 0 THEN PageUp(over) ELSE 0)
  IN  IF mapped.panicked THEN mapped ELSE [mapped EXCEPT !.vheap = s.vheap + incr]

\* The library's _sbrk refuses to grow beyond its own stack frame.
StackPointer == (THREAD_PAGE + SPACING - 1) * PAGE_SIZE - WORD
Refused(s, incr) == s.vheap + incr > StackPointer
_sbrk(s, incr) == IF s.panicked \/ Refused(s, incr) THEN s ELSE swi_sbrk(s, incr)

\* malloc(nb) of newlib, on a heap whose other chunks are in use.  A block is
\* cut from the chunk at the end, top; malloc_extend_top enlarges that first
\* when it is too small.  The first request is made as it comes and followed
\* by one that brings the heap's end to a page boundary, later ones are whole
\* pages.
malloc(p, nb) ==
  LET s == SpaceOf(p)
      r == proc[p]
      size == nb + MINSIZE
      whole == PageUp(size) * PAGE_SIZE
      top == IF r.top = NULL THEN r.heapstart ELSE r.top
      cut == [r EXCEPT !.chunks = @ \cup {top}, !.top = top + nb]
      extended == _sbrk(s, size)
      corrected == _sbrk(extended, PAGE_SIZE - (extended.vheap % PAGE_SIZE))
  IN  /\ r.running /\ ~panicked
      /\ Booted \/ Cardinality(r.chunks) < EARLY_CHUNKS
      /\ \/ r.top = NULL /\ ~Refused(s, size) /\ Becomes(p, corrected, cut)
         \/ r.top # NULL /\ top + size <= s.vheap /\ Becomes(p, s, cut)
         \/ r.top # NULL /\ top + size > s.vheap
            /\ ~Refused(s, whole) /\ Becomes(p, _sbrk(s, whole), cut)

\* free of the chunk at t when those behind it are free: it joins the top,
\* and malloc_trim gives all but the last page of a large top back.
free(p, t) ==
  LET s == SpaceOf(p)
      top_size == s.vheap - t
      extra == (PageUp(top_size - MINSIZE) - 1) * PAGE_SIZE
      trims == top_size >= TRIM_THRESHOLD /\ extra >= PAGE_SIZE
  IN  /\ ~panicked
      /\ t \in proc[p].chunks
      /\ Becomes(p, IF trims THEN _sbrk(s, -extra) ELSE s,
                 [proc[p] EXCEPT !.top = t, !.chunks = {c \in @ : c < t}])

Next ==
  \E p \in Procs :
    \/ \E image \in Images : create_user_process(p, image)
    \/ \E nb \in Requests : malloc(p, nb)
    \/ \E t \in proc[p].chunks : free(p, t)

Spec == Init /\ [][Next]_vars

-----------------------------------------------------------------------------
Running == IF panicked THEN {} ELSE {p \in Procs : proc[p].running}

\* Every byte the allocator has obtained is backed by a page: the heap's end
\* is on a page boundary whenever malloc is done, and the pages under it were
\* mapped although swi_sbrk leaves out the one that holds an end inside a
\* page (swi_newlib.c:293, mallocr.c:2199).
HeapBacked ==
  \A p \in Running : \A v \in VirtPage :
    (v * PAGE_SIZE >= proc[p].heapstart /\ v * PAGE_SIZE < proc[p].vheap)
       => proc[p].pd[v] # NULL

\* A physical page appears once in the page tables of all processes, and only
\* while it is allocated: image, stack and heap never overlap, within a
\* process or between two.
FramesOwn ==
  \A p, q \in Running : \A v, w \in VirtPage :
    proc[p].pd[v] # NULL =>
      /\ proc[p].pd[v] \in PhysPage /\ ~pmm[proc[p].pd[v]]
      /\ proc[p].pd[v] = proc[q].pd[w] => p = q /\ v = w

\* The kernel panics for want of memory, or in the swi_sbrk of a process that
\* has given heap back: it grows again over pages that were left mapped
\* (swi_newlib.c:318).  The growing of the allocator alone, in odd sizes and
\* from ends inside a page, never asks for a page twice.
PanicOnlyWhenFull ==
  panicked => \/ FirstFit(pmm, 1) = NULL
              \/ \E p \in Procs : proc[p].vheap < proc[p].peak

\* What a process finds at address a of a segment: the byte of the file, up to
\* the last whole word of the file's part (p_filesz / 4), and 0 behind it.
Initial(seg, a) == IF a < seg.vaddr + seg.filesz - (seg.filesz % WORD) THEN a + 1 ELSE 0

\* A process starts with its segments in memory, but for the bytes of the file
\* behind the last whole word, which are 0 (loader.c:171).
ImageLoaded ==
  \A p \in Running : \A i \in DOMAIN proc[p].image.load :
    LET seg == proc[p].image.load[i]
    IN  \A a \in Bytes(seg.vaddr, seg.memsz) :
          Load(SpaceOf(p), a) = Initial(seg, a)

\* The main thread starts with its own copy of the initial values of the TLS
\* template (user_process.c:82).  Nothing is said of the variables without an
\* initial value: the template is taken to be p_memsz long (loader.c:181), and
\* they get the bytes that lie behind it in the image.
TlsInitialised ==
  \A p \in Running : \A i \in DOMAIN proc[p].image.load :
    LET seg == proc[p].image.load[i]
        tls == proc[p].image.tls
    IN  \A o \in 0..(tls.filesz - 1) :
          tls.start + o \in Bytes(seg.vaddr, seg.memsz) =>
            Load(SpaceOf(p), THREAD_PAGE * PAGE_SIZE + o) = Initial(seg, tls.start + o)
=============================================================================
