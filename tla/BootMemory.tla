----------------------------- MODULE BootMemory -----------------------------
(***************************************************************************)
(* How the boot divides the physical memory between the worlds.  init_vmm  *)
(* (mm/vmm.c) reads the banks of memory from the boot loader's ATAGs and   *)
(* finds the one the kernel lies in: its first SECURE_MEMORY_SIZE bytes    *)
(* are secure, the rest and all other banks belong to the normal world.    *)
(* The secure part is handed to pmm, locked with the watermark of the      *)
(* memory controller (pmm_protect_secure_mem, imx_m4if.c) and left out of  *)
(* the memory tags for the guest (atag_generate_nonsecure).  The same end  *)
(* of the secure part is computed four times, as a limit that is included  *)
(* or not.  From then on the normal world accesses memory, and an access   *)
(* to protected memory ends in the monitor (mon_DA).                       *)
(*                                                                         *)
(* Addresses are scaled down: PAGE bytes to a page, WORD pages to a word   *)
(* of pmm's bitmap.  A tag list holds only its ATAG_MEM tags, which is     *)
(* what atag_get_next_mem_tag walks.  No allocation fails: the heap is new.*)
(***************************************************************************)
EXTENDS Integers, Sequences

CONSTANTS PAGE,                \* 4096
          WORD,                \* 32, the pages of a word of the bitmap
          SECURE_MEMORY_SIZE,
          CS0_START, CS0_BORDER, CS0_END,
          CS1_START, CS1_BORDER, CS1_END,
          PAYLOAD,             \* 0x70008000, where the guest is loaded
          BOARDS,              \* [kernel, phys_heap_end, tzmem]
          TAG_LISTS            \* the lists of banks a boot loader may pass

Span(start, size) == start .. start + size - 1

\* The bank a board's kernel and its heap lie in.
Holds(b, bank) == b.kernel - 1 .. b.phys_heap_end \subseteq Span(bank.start, bank.size)

\* What the constants are: banks of whole pages that do not overlap, and a
\* kernel in the first SECURE_MEMORY_SIZE bytes of its bank.
BootMemoryAssumption ==
    /\ {PAGE, WORD, SECURE_MEMORY_SIZE} \subseteq Nat \ {0}
    /\ SECURE_MEMORY_SIZE % PAGE = 0
    /\ BOARDS \subseteq [kernel : Nat, phys_heap_end : Nat, tzmem : BOOLEAN]
    /\ \A b \in BOARDS : b.kernel <= b.phys_heap_end
    /\ TAG_LISTS \subseteq Seq([start : Nat, size : Nat])
    /\ \A l \in TAG_LISTS : \A i, j \in DOMAIN l :
           /\ l[i].start % PAGE = 0 /\ l[i].size % PAGE = 0
           /\ i # j => Span(l[i].start, l[i].size) \cap Span(l[j].start, l[j].size) = {}
           /\ \A b \in BOARDS :
                  Holds(b, l[i]) => b.phys_heap_end <= l[i].start + SECURE_MEMORY_SIZE

\* The guest is loaded into a bank, and if that is the kernel's, behind the
\* secure part of it.
GuestPlaced ==
    \A l \in TAG_LISTS : \E i \in DOMAIN l :
        /\ PAYLOAD \in Span(l[i].start, l[i].size)
        /\ \A b \in BOARDS :
               Holds(b, l[i]) => PAYLOAD >= l[i].start + SECURE_MEMORY_SIZE

\* No other bank begins where a kernel's bank ends that is secure as a whole.
NoNeighbour ==
    \A b \in BOARDS, l \in TAG_LISTS : \A i, j \in DOMAIN l :
        b.tzmem /\ Holds(b, l[i]) /\ l[i].size <= SECURE_MEMORY_SIZE
            => l[j].start # l[i].start + l[i].size

VARIABLES board, tags,
          pc,       \* the step of the boot, "normal" when the guest runs
          mem,      \* the tag the loops of init_vmm are at
          pmm,      \* phys_start_addr, phys_end_addr and the pages of the bitmap
          physical_mem_list,
          cs,       \* m4if->cs0 and m4if->cs1
          wm,       \* the watermark registers of both chip selects
          given,    \* the memory tags of the guest, as a set
          dfar      \* the address of an access the controller refused

vars == <<board, tags, pc, mem, pmm, physical_mem_list, cs, wm, given, dfar>>

SECURE == "secure"
UNSECURE == "unsecure"
None == -1

Area(pstart, pend, type) == [pstart |-> pstart, pend |-> pend, type |-> type]
\* The test of init_vmm for "our memory segment".
Ours(bank) == board.kernel > bank.start /\ board.kernel < bank.start + bank.size

Large(bank) == bank.size > SECURE_MEMORY_SIZE

Init ==
    /\ board \in BOARDS
    /\ tags \in TAG_LISTS
    /\ \E i \in DOMAIN tags : Holds(board, tags[i])
    /\ pc = "segment" /\ mem = 1
    /\ pmm = [start |-> 0, end |-> 0, pages |-> 0]
    /\ physical_mem_list = <<>>
    /\ cs = [c \in 0 .. 1 |-> [start |-> None, end |-> None]]
    /\ wm = [c \in 0 .. 1 |-> [on |-> FALSE, start |-> 0, end |-> 0]]
    /\ given = {} /\ dfar = None

-----------------------------------------------------------------------------
\* The bitmap has a bit for each page, in whole words.
pmm_init(phys_start, phys_end) ==
    [start |-> phys_start, end |-> phys_end,
     pages |-> ((phys_end - phys_start) \div (PAGE * WORD)) * WORD]

pmm_end(bank) ==
    bank.start + IF Large(bank) THEN SECURE_MEMORY_SIZE ELSE bank.size

\* The first loop of init_vmm: up to the segment of the kernel.
init_vmm_segment ==
    /\ pc = "segment" /\ mem <= Len(tags)
    /\ IF Ours(tags[mem])
       THEN /\ pmm' = pmm_init(board.phys_heap_end, pmm_end(tags[mem]))
            /\ pc' = "areas" /\ mem' = 1
       ELSE mem' = mem + 1 /\ UNCHANGED <<pmm, pc>>
    /\ UNCHANGED <<board, tags, physical_mem_list, cs, wm, given, dfar>>

\* A version that forgets the remainder of the kernel's bank.
init_vmm_areas_lost(bank) ==
    IF ~Ours(bank)
    THEN <<Area(bank.start, bank.start + bank.size, UNSECURE)>>
    ELSE <<Area(bank.start, bank.start + SECURE_MEMORY_SIZE - 1, SECURE)>>

\* The areas of one bank.
init_vmm_areas(bank) ==
    IF ~Ours(bank)
    THEN <<Area(bank.start, bank.start + bank.size, UNSECURE)>>
    ELSE IF Large(bank)
    THEN <<Area(bank.start + SECURE_MEMORY_SIZE, bank.start + bank.size, UNSECURE),
           Area(bank.start, bank.start + SECURE_MEMORY_SIZE - 1, SECURE)>>
    ELSE <<Area(bank.start, bank.start + bank.size, SECURE)>>

\* The second loop: pmm_add_phys_mem_area for every bank.
init_vmm_add ==
    /\ pc = "areas"
    /\ IF mem <= Len(tags)
       THEN /\ physical_mem_list' = physical_mem_list \o init_vmm_areas(tags[mem])
            /\ mem' = mem + 1 /\ UNCHANGED pc
       ELSE pc' = "protect" /\ mem' = 1 /\ UNCHANGED physical_mem_list
    /\ UNCHANGED <<board, tags, pmm, cs, wm, given, dfar>>
-----------------------------------------------------------------------------
\* A region must lie in one half of a chip select; -1 otherwise.
imx_m4if_get_cs(start, size) ==
    LET in(low, high) == start >= low /\ start + size < high
    IN  IF in(CS1_BORDER, CS1_END) \/ in(CS1_START, CS1_BORDER) THEN 1
        ELSE IF in(CS0_BORDER, CS0_END) \/ in(CS0_START, CS0_BORDER) THEN 0
        ELSE None

\* A version that computes the end from the size in pages.
imx_m4if_protect_mem_size(start, size, c) ==
    /\ cs' = [cs EXCEPT ![c] = [start |-> start, end |-> start + size]]
    /\ wm' = [wm EXCEPT ![c] = [on |-> TRUE, start |-> start \div PAGE,
                                 end |-> start \div PAGE + (size \div PAGE) - 1]]

\* Sets the watermark of chip select c to the pages from start to the one that
\* start + size is in.
imx_m4if_protect_mem(start, size, c) ==
    /\ cs' = [cs EXCEPT ![c] = [start |-> start, end |-> start + size]]
    /\ wm' = [wm EXCEPT ![c] = [on |-> TRUE, start |-> start \div PAGE,
                                 end |-> (start + size) \div PAGE]]

\* pmm_protect_secure_mem and its caller: without a controller the boot goes
\* on; an area that cannot be locked stops it.
pmm_protect_secure_mem ==
    /\ pc = "protect"
    /\ IF ~board.tzmem \/ mem > Len(physical_mem_list)
       THEN pc' = "load" /\ UNCHANGED <<mem, cs, wm>>
       ELSE LET area == physical_mem_list[mem]
                size == area.pend - area.pstart
                c == imx_m4if_get_cs(area.pstart, size)
            IN  IF area.type # SECURE
                THEN mem' = mem + 1 /\ UNCHANGED <<pc, cs, wm>>
                ELSE IF c # None /\ cs[c].start = None
                THEN /\ imx_m4if_protect_mem(area.pstart, size, c)
                     /\ mem' = mem + 1 /\ UNCHANGED pc
                ELSE pc' = "panic" /\ UNCHANGED <<mem, cs, wm>>
    /\ UNCHANGED <<board, tags, pmm, physical_mem_list, given, dfar>>

\* The memory tags of atag_generate_nonsecure.
nonsecure_tags(areas) ==
    { [start |-> areas[i].pstart, size |-> areas[i].pend - areas[i].pstart] :
        i \in {j \in DOMAIN areas : areas[j].type = UNSECURE} }

\* load_linux and load_android: the guest is copied to PAYLOAD, its tags are
\* written, and the normal world starts.  A failed mapping stops the system.
load_guest ==
    /\ pc = "load"
    /\ \/ given' = nonsecure_tags(physical_mem_list) /\ pc' = "normal"
       \/ pc' = "panic" /\ UNCHANGED given
    /\ UNCHANGED <<board, tags, mem, pmm, physical_mem_list, cs, wm, dfar>>
-----------------------------------------------------------------------------
\* The addresses the controller refuses to the normal world.
Locked == UNION { Span(wm[c].start * PAGE, (wm[c].end - wm[c].start + 1) * PAGE) :
                  c \in {d \in 0 .. 1 : wm[d].on} }

SecureAreas ==
    { physical_mem_list[i] : i \in {j \in DOMAIN physical_mem_list :
                                       physical_mem_list[j].type = SECURE} }

\* The normal world accesses an address of a bank; the controller aborts an
\* access to a locked page.
normal_access ==
    /\ pc = "normal"
    /\ \E i \in DOMAIN tags : \E a \in Span(tags[i].start, tags[i].size) \cap Locked :
           dfar' = a
    /\ pc' = "abort"
    /\ UNCHANGED <<board, tags, mem, pmm, physical_mem_list, cs, wm, given>>

\* pmm_stop_on_protected_mem: whether the system stops for this address.
pmm_stop_on_protected_mem(addr) ==
    \E area \in SecureAreas : area.pstart >= addr /\ area.pend <= addr

\* mon_DA: stop, or hand the abort to the normal world's own vector.
mon_DA ==
    /\ pc = "abort"
    /\ pc' = IF pmm_stop_on_protected_mem(dfar) THEN "panic" ELSE "normal"
    /\ UNCHANGED <<board, tags, mem, pmm, physical_mem_list, cs, wm, given, dfar>>

Next ==
    \/ init_vmm_segment \/ init_vmm_add \/ pmm_protect_secure_mem \/ load_guest
    \/ normal_access \/ mon_DA

Spec == Init /\ [][Next]_vars
-----------------------------------------------------------------------------
\* What the secure world keeps in memory: the kernel with its heap, and every
\* page pmm can hand out.
SecureMemory ==
    (board.kernel .. board.phys_heap_end - 1) \cup Span(pmm.start, pmm.pages * PAGE)

NormalMemory == UNION { Span(t.start, t.size) : t \in given }

\* No byte of the kernel, of its heap or of a page that pmm hands out is in a
\* memory tag of the guest: the four computations of the end of the secure part
\* (vmm.c:156, 178 and 179, pmm.c:75) agree for every bank.
WorldsApart == SecureMemory \cap NormalMemory = {}

\* Where there is a controller, the normal world does not start before the
\* kernel, its heap and all pages of pmm are locked, whichever bank and chip
\* select they are in.
SecureLocked ==
    pc \in {"normal", "abort"} /\ board.tzmem => SecureMemory \subseteq Locked

\* The watermark, which rounds its end up to a page, takes nothing from the
\* guest: memory that its tags promise is memory it may use.
GuestMayUse == pc \in {"normal", "abort"} => NormalMemory \cap Locked = {}

\* The guest is copied into memory that its own tags name.
GuestInItsMemory == pc \in {"normal", "abort"} => PAYLOAD \in NormalMemory

\* No memory is lost between the worlds: a byte of a bank that the guest does
\* not get is in the first SECURE_MEMORY_SIZE bytes of the kernel's bank.
NothingLost ==
    pc = "normal" =>
        \A i \in DOMAIN tags : \A a \in Span(tags[i].start, tags[i].size) :
            a \notin NormalMemory =>
                Ours(tags[i]) /\ a < tags[i].start + SECURE_MEMORY_SIZE

\* "Stops the system if addr is in protected memory region": after an abort of
\* the normal world for an address in a secure area the system is stopped.
ProtectedAccessStops ==
    [][pc = "abort" /\ (\E area \in SecureAreas : dfar \in area.pstart .. area.pend)
       => pc' = "panic"]_vars

\* imx_m4if_get_cs finds the chip select of every secure area: it is at most
\* one half of a chip select and starts where the half does, so that the boot
\* never stops for want of protection.
SecureAreaFits == [][pc = "protect" => pc' # "panic"]_vars
=============================================================================
