--------------------------- MODULE KernelMappings ---------------------------
(***************************************************************************)
(* The mappings of physical memory into the kernel's address space, region *)
(* by region (map_phys_mem, map_io_mem and unmap_memory of mm/mm.c and     *)
(* mm/mmm.c, map_kernel_sections and the descriptors of mm/mmu.c) and what *)
(* the processor keeps of them in its TLB.  Virtual pages are slots of the *)
(* mapable area, TABLE of them to a coarse page table.  The users are the  *)
(* drivers, the loading of the guest, the three windows of the monitor and *)
(* the temporary references of a trustlet call.                            *)
(*                                                                         *)
(* Every physical address is the start of a page, as those of all callers. *)
(* No page table allocation fails.                                         *)
(***************************************************************************)
EXTENDS PageBitmap, FiniteSets

CONSTANTS
  SLOTS,         \* pages of the mapable area
  TABLE,         \* pages of a coarse table, 256 in the code
  PAGE_SIZE,
  IO_SIZE,       \* bytes of the driver's registers
  PAYLOAD_SIZES, \* bytes of the guest
  TEMP_SIZES,    \* bytes of a temporary reference
  Callers,       \* numbers: calls with three pages of their own each
  MAX_TEMPS,     \* temporary references in use at a time
  TLB_ENTRIES    \* translations the processor holds at a time

\* What the constants are.
KernelMappingsAssumption ==
  /\ {SLOTS, TABLE, PAGE_SIZE} \subseteq Nat \ {0}
  /\ {IO_SIZE, MAX_TEMPS, TLB_ENTRIES} \subseteq Nat
  /\ PAYLOAD_SIZES \subseteq Nat /\ TEMP_SIZES \subseteq Nat /\ Callers \subseteq Nat

Slot == 0 .. SLOTS - 1
Tables == 0 .. (SLOTS - 1) \div TABLE

\* Physical pages, far enough apart.
IoPage == 1000
PayloadPage == 2000
AtagsPage == 3000
TempPage == 4000
CallPage(c, i) == 10 * c + i

WindowUsers == {"package", "tee", "com"}
Users == {"io", "payload", "atags"} \cup WindowUsers

VARIABLES
  boot,     \* the step of the boot
  km,       \* mmm: the bitmap; l1: the coarse tables with the world they are
            \* for; l2: the page a slot shows; at: the regions in use, by user
  temps,    \* the regions of the temporary references in use
  tlb,      \* the translations the processor holds
  single    \* TRUE in the behaviours whose guest is of less than a page and
            \* whose calls pass no temporary reference: every region that is
            \* unmapped is of one page

vars == <<boot, km, temps, tlb, single>>

NoRegion == [slot |-> NULL, page |-> 0, size |-> 0, nonsecure |-> FALSE]

Init ==
  /\ boot = "io"
  /\ km = [mmm |-> [s \in Slot |-> TRUE], l1 |-> [t \in Tables |-> NULL],
           l2 |-> [s \in Slot |-> NULL], at |-> [u \in Users |-> NoRegion]]
  /\ temps = {}
  /\ tlb = [s \in Slot |-> NULL]
  /\ single \in BOOLEAN

-----------------------------------------------------------------------------
\* needed_pages of an address at the start of a page.
needed_pages(size) == size \div PAGE_SIZE + 1

\* The pages of map_io_mem and of the loops that unmap temporary references.
frames(size) == (size + PAGE_SIZE - 1) \div PAGE_SIZE

\* map_memory_v for the slots of a block: a coarse table is made for the first
\* page in it, with the world of that page; the descriptors follow.
map_memory_v(k, slot, n, page, nonsecure) ==
  [k EXCEPT !.l1 = [t \in Tables |->
                      IF @[t] = NULL /\ \E s \in Run(slot, n) : s \div TABLE = t
                      THEN nonsecure ELSE @[t]],
            !.l2 = [s \in Slot |-> IF s \in Run(slot, n) THEN page + (s - slot) ELSE @[s]]]

\* All pages of the block, or none if one is mapped already: the pages before
\* it are unmapped again, their coarse tables stay.
map_kernel_sections(k, slot, n, page, nonsecure) ==
  LET mapped == {s \in Run(slot, n) : k.l2[s] # NULL}
  IN  IF mapped = {} THEN map_memory_v(k, slot, n, page, nonsecure)
      ELSE [map_memory_v(k, slot, First(mapped) - slot, page, nonsecure) EXCEPT !.l2 = k.l2]

\* A block of n slots for the region; the slots stay taken if mapping fails.
map_region(k, n, page, size, nonsecure) ==
  LET slot == FirstFit(k.mmm, n)
      taken == [k EXCEPT !.mmm = Take(@, slot, n)]
      new == map_kernel_sections(taken, slot, n, page, nonsecure)
      ok == \A s \in Run(slot, n) : k.l2[s] = NULL
  IN  IF slot = NULL THEN [k |-> k, region |-> NoRegion]
      ELSE [k |-> new,
            region |-> IF ok THEN [slot |-> slot, page |-> page, size |-> size,
                                   nonsecure |-> nonsecure]
                       ELSE NoRegion]

map_phys_mem(k, page, size, nonsecure) ==
  map_region(k, needed_pages(size), page, size, nonsecure)

\* The region becomes the one of user u.
For(r, u) == [r.k EXCEPT !.at[u] = r.region]

\* A version that frees no slot.
unmap_memory_keep(k, u) ==
  LET slot == k.at[u].slot
  IN  IF slot = NULL THEN k ELSE [k EXCEPT !.at[u] = NoRegion, !.l2[slot] = NULL]

\* unmap_memory: the loop looks at the end of the first block, which
\* vmm_get_virt_block_size leaves 0 for a page that is not executable, and
\* never goes on to the next page.
unmap_memory(k, u) ==
  LET slot == k.at[u].slot
  IN  IF slot = NULL THEN k
      ELSE [k EXCEPT !.at[u] = NoRegion, !.l2[slot] = NULL, !.mmm = Free(@, slot)]
-----------------------------------------------------------------------------
\* The boot: a driver maps its registers, load_linux maps the place of the
\* guest, copies it and unmaps the place, and maps the page of the tags.
map_io_mem ==
  /\ boot = "io"
  /\ km' = For(map_region(km, frames(IO_SIZE), IoPage, IO_SIZE, FALSE), "io")
  /\ boot' = "payload"
  /\ UNCHANGED <<temps, tlb, single>>

payload_map(size) ==
  /\ boot = "payload"
  /\ single => size < PAGE_SIZE
  /\ km' = For(map_phys_mem(km, PayloadPage, size, FALSE), "payload")
  /\ boot' = "copied"
  /\ UNCHANGED <<temps, tlb, single>>

payload_unmap ==
  /\ boot = "copied"
  /\ km' = unmap_memory(km, "payload")
  /\ boot' = "atags"
  /\ UNCHANGED <<temps, tlb, single>>

load_atags ==
  /\ boot = "atags"
  /\ km' = For(map_phys_mem(km, AtagsPage, PAGE_SIZE - 1, FALSE), "atags")
  /\ boot' = "done"
  /\ UNCHANGED <<temps, tlb, single>>

\* The windows: freed all, then mapped one after the other, all or none.
free_tz_package(k) == unmap_memory(unmap_memory(unmap_memory(k, "package"), "tee"), "com")

set_tz_package(c) ==
  LET window(k, u, i) == For(map_phys_mem(k, CallPage(c, i), PAGE_SIZE - 1, TRUE), u)
      k1 == window(free_tz_package(km), "package", 1)
      k2 == window(k1, "tee", 2)
      k3 == window(k2, "com", 3)
  IN  /\ boot = "done"
      /\ km' = IF k1.at["package"].slot = NULL THEN k1
               ELSE IF k2.at["tee"].slot = NULL THEN free_tz_package(k2)
               ELSE IF k3.at["com"].slot = NULL THEN free_tz_package(k3) ELSE k3
      /\ UNCHANGED <<boot, temps, tlb, single>>

\* The answer of a call: the windows go.
monitor_return ==
  /\ boot = "done" /\ km.at["package"].slot # NULL
  /\ km' = free_tz_package(km)
  /\ UNCHANGED <<boot, temps, tlb, single>>

\* swi_map_tee_temp_ref and swi_unmap_tee_temp_ref: the pages are unmapped one
\* by one, as many as the size rounded up has, and their slots are not freed.
swi_map_tee_temp_ref(size) ==
  /\ ~single
  /\ boot = "done" /\ km.at["com"].slot # NULL /\ Cardinality(temps) < MAX_TEMPS
  /\ LET r == map_phys_mem(km, TempPage, size, FALSE)
     IN  /\ km' = r.k
         /\ temps' = IF r.region = NoRegion THEN temps ELSE temps \cup {r.region}
  /\ UNCHANGED <<boot, tlb, single>>

swi_unmap_tee_temp_ref(r) ==
  /\ r \in temps
  /\ km' = [km EXCEPT !.l2 = [s \in Slot |->
              IF s \in Run(r.slot, frames(r.size)) THEN NULL ELSE @[s]]]
  /\ temps' = temps \ {r}
  /\ UNCHANGED <<boot, tlb, single>>
-----------------------------------------------------------------------------
Regions == {km.at[u] : u \in {v \in Users : km.at[v].slot # NULL}} \cup temps
Pages(r) == Run(r.slot, frames(r.size))

\* The kernel reads or writes a page of a region, which fetches its
\* translation; the processor drops translations when it likes.
Access(s) ==
  /\ \E r \in Regions : s \in Pages(r)
  /\ tlb[s] = NULL /\ Cardinality({t \in Slot : tlb[t] # NULL}) < TLB_ENTRIES
  /\ tlb' = [tlb EXCEPT ![s] = km.l2[s]]
  /\ UNCHANGED <<boot, km, temps, single>>

Evict(s) ==
  /\ tlb[s] # NULL
  /\ tlb' = [tlb EXCEPT ![s] = NULL]
  /\ UNCHANGED <<boot, km, temps, single>>

\* mon_switch to a thread of another process.
invalidate_tlb ==
  /\ boot = "done"
  /\ tlb' = [s \in Slot |-> NULL]
  /\ UNCHANGED <<boot, km, temps, single>>

Next ==
  \/ map_io_mem \/ payload_unmap \/ load_atags
  \/ \E size \in PAYLOAD_SIZES : payload_map(size)
  \/ \E c \in Callers : set_tz_package(c)
  \/ monitor_return
  \/ \E size \in TEMP_SIZES : swi_map_tee_temp_ref(size)
  \/ \E r \in temps : swi_unmap_tee_temp_ref(r)
  \/ \E s \in Slot : Access(s) \/ Evict(s)
  \/ invalidate_tlb

Spec == Init /\ [][Next]_vars
-----------------------------------------------------------------------------
\* A slot that mmm may hand out shows nothing: map_kernel_sections never meets
\* "L2 Already mapped" half way through a region, although three different
\* loops undo mappings.
FreeIsUnmapped == \A s \in Slot : km.mmm[s] => km.l2[s] = NULL

\* Every byte of every region in use is translated by the page tables to its
\* own place, whatever was mapped and unmapped before.
MappedAsAsked ==
  \A r \in Regions : \A b \in 0 .. r.size - 1 :
    km.l2[r.slot + b \div PAGE_SIZE] = r.page + b \div PAGE_SIZE

\* "Unmap memory from the kernel space": a slot that is taken belongs to a
\* region in use.
SlotsReturned ==
  \A s \in Slot : km.mmm[s] \/ \E r \in Regions : s \in Run(r.slot, needed_pages(r.size))

\* Every region shows what it was mapped for, and what mmm may hand out shows
\* nothing; with regions of one page a slot that is taken belongs to a region
\* in use, however many calls came and went (mm.c:217, 301).
RegionsShown == FreeIsUnmapped /\ MappedAsAsked /\ (single => SlotsReturned)

\* What the monitor reads through a window is the page it has mapped there, not
\* what was mapped at the same place for an earlier call.
WindowsShown ==
  \A u \in WindowUsers :
    LET s == km.at[u].slot IN s # NULL => tlb[s] \in {NULL, km.at[u].page}

\* A region is accessed as memory of the world that map_phys_mem was given.
WorldAsAsked ==
  \A r \in Regions : \A s \in Pages(r) : km.l1[s \div TABLE] = r.nonsecure
=============================================================================
