----------------------------- MODULE KernelProofs -----------------------------
(***************************************************************************)
(* Parts of the secure kernel: the interrupts, for controllers of any size, *)
(* the mappings into the kernel's address space, for page tables, regions   *)
(* and callers of any number and size, and the division of the memory at    *)
(* boot, for all boards and banks.                                          *)
(***************************************************************************)
EXTENDS KernelParts, Integers, SequenceTheorems, WellFoundedInduction, TLAPS

-----------------------------------------------------------------------------
(* Interrupts                                                              *)

\* At most one interrupt is being registered or freed, and while one is being
\* freed, when its handler is still there and it is no longer secure, the
\* controller is off and no FIQ is under way.
IrqInv ==
  /\ Irq!TypeOK /\ Irq!HandlersSecure
  /\ caught = Irq!None \/ released = Irq!None
  /\ released # Irq!None => ~intctrl /\ ~scan.on

\* The loops of imx_tzic_do_pending stay within the interrupts.
LEMMA ScanType ==
  ASSUME Irq!InterruptsAssumption, Irq!TypeOK, NEW word \in BOOLEAN
  PROVE  Irq!next_bit(word) \in [on : BOOLEAN, pass : {1, 2}, irq : Irq!Irqs, word : BOOLEAN]
<1>1. scan.irq \in Irq!Irqs /\ MAX_IRQ \in Nat /\ MAX_IRQ > 0
  BY DEF Irq!TypeOK, Irq!InterruptsAssumption
<1>2. 0 \in Irq!Irqs /\ (scan.irq + 1 < MAX_IRQ => scan.irq + 1 \in Irq!Irqs)
  BY <1>1 DEF Irq!Irqs
<1>3. Irq!Idle \in [on : BOOLEAN, pass : {1, 2}, irq : Irq!Irqs, word : BOOLEAN]
  BY <1>2 DEF Irq!Idle
<1> QED
  BY <1>2, <1>3 DEF Irq!next_bit, Irq!TypeOK

\* Every step keeps the invariant, and quiets no source of the normal world
\* while a FIQ is under way.
LEMMA IrqStep ==
  ASSUME Irq!InterruptsAssumption, IrqInv, [Irq!Next]_(Irq!vars)
  PROVE  /\ IrqInv'
         /\ scan.on => \A irq \in src \ src' : irq \in secure
<1> USE DEF IrqInv, Irq!TypeOK, Irq!HandlersSecure, Irq!kernel, Irq!controller
<1>1. MAX_IRQ \in Nat \ {0} /\ Irq!None \notin Irq!Irqs
  BY DEF Irq!InterruptsAssumption, Irq!None, Irq!Irqs
<1>2. CASE UNCHANGED Irq!vars
  BY <1>2 DEF Irq!vars
<1>3. ASSUME NEW irq \in Irq!Irqs, Irq!Raise(irq) \/ Irq!normal_enable(irq) \/ Irq!normal_irq(irq)
      PROVE  IrqInv' /\ (scan.on => \A i \in src \ src' : i \in secure)
  BY <1>3 DEF Irq!Raise, Irq!normal_enable, Irq!normal_irq, Irq!NormalRuns
<1>4. ASSUME NEW irq \in Irq!Irqs, Irq!irq_register_handler(irq)
      PROVE  IrqInv' /\ (scan.on => \A i \in src \ src' : i \in secure)
  BY <1>1, <1>4 DEF Irq!irq_register_handler, Irq!KernelRuns, Irq!imx_tzic_catch,
       Irq!imx_tzic_set_secure, Irq!imx_tzic_set_enable
<1>5. ASSUME NEW irq \in Irq!Irqs, Irq!irq_free(irq)
      PROVE  IrqInv' /\ (scan.on => \A i \in src \ src' : i \in secure)
  BY <1>1, <1>5 DEF Irq!irq_free, Irq!KernelRuns, Irq!imx_tzic_release, Irq!imx_tzic_unset_secure,
       Irq!imx_tzic_unset_enable
<1>6. CASE Irq!irq_register_handler_max
  BY <1>6 DEF Irq!irq_register_handler_max
<1>7. CASE Irq!irq_registered
  BY <1>1, <1>7 DEF Irq!irq_registered
<1>8. CASE Irq!irq_freed
  BY <1>1, <1>8 DEF Irq!irq_freed
<1>9. CASE Irq!fiq
  <2>1. scan' \in [on : BOOLEAN, pass : {1, 2}, irq : Irq!Irqs, word : BOOLEAN]
    <3>1. 0 \in Irq!Irqs
      BY <1>1 DEF Irq!Irqs
    <3>2. Irq!Idle \in [on : BOOLEAN, pass : {1, 2}, irq : Irq!Irqs, word : BOOLEAN]
      BY <3>1 DEF Irq!Idle
    <3> QED
      BY <1>9, <3>2 DEF Irq!fiq
  <2> QED
    BY <1>9, <2>1 DEF Irq!fiq
<1>10. CASE Irq!imx_tzic_do_pending
  <2>1. PICK word \in BOOLEAN : scan' = Irq!next_bit(word)
    BY <1>10 DEF Irq!imx_tzic_do_pending
  <2>2. scan' \in [on : BOOLEAN, pass : {1, 2}, irq : Irq!Irqs, word : BOOLEAN]
    BY <2>1, ScanType
  <2>3. released = Irq!None /\ src' \subseteq src /\ src \ src' \subseteq handler
    BY <1>10 DEF Irq!imx_tzic_do_pending, Irq!irq_handle
  <2> QED
    BY <1>1, <1>10, <2>2, <2>3 DEF Irq!imx_tzic_do_pending
<1> QED
  BY <1>2, <1>3, <1>4, <1>5, <1>6, <1>7, <1>8, <1>9, <1>10 DEF Irq!Next

\* The controller starts with nothing secure and nothing enabled.
LEMMA IrqInit ==
  ASSUME Irq!InterruptsAssumption
  PROVE  Irq!Init => IrqInv
<1>1. 0 \in Irq!Irqs
  BY DEF Irq!InterruptsAssumption, Irq!Irqs
<1> QED
  BY <1>1 DEF Irq!Init, IrqInv, Irq!TypeOK, Irq!HandlersSecure, Irq!Idle

\* For a controller of any size: an interrupt is secure if and only if it has
\* a handler, but for the one being registered or freed, and a FIQ, which goes
\* through all pending interrupts, never quiets one of the normal world; not
\* even one whose handler is just being freed, because IRQ_RELEASE leaves the
\* controller off (interrupt_controller.c:124, imx_tzic.c:245).
THEOREM SourcesStayApart == Irq!Spec => SourcesApart
<1>0. Irq!InterruptsAssumption
  BY KernelPartsAssumption
<1>1. Irq!Init => IrqInv
  BY <1>0, IrqInit
<1>2. IrqInv /\ [Irq!Next]_(Irq!vars) => IrqInv'
  BY <1>0, IrqStep
<1>3. IrqInv /\ [Irq!Next]_(Irq!vars) =>
        [scan.on => \A irq \in src \ src' : irq \in secure]_(Irq!vars)
  BY <1>0, IrqStep
<1>4. IrqInv => Irq!HandlersSecure
  BY DEF IrqInv
<1> QED
  BY <1>1, <1>2, <1>3, <1>4, PTL
     DEF Irq!Spec, SourcesApart, Irq!SourcesApart, Irq!NormalSourcesKept

-----------------------------------------------------------------------------
(* Mappings                                                                *)

Region == [slot : Nat \cup {NULL}, page : Nat, size : Nat, nonsecure : BOOLEAN]
MapState == [mmm : [Mappings!Slot -> BOOLEAN], l1 : [Mappings!Tables -> BOOLEAN \cup {NULL}],
             l2 : [Mappings!Slot -> Nat \cup {NULL}], at : [Mappings!Users -> Region]]

\* The slots a region needs: its pages, and the first one even if it is empty.
Own(r) == Mappings!Pages(r) \cup {r.slot}

\* The slots of a region are taken and show its pages.
Shows(k, r) ==
  /\ Own(r) \subseteq Mappings!Slot
  /\ \A s \in Own(r) : ~k.mmm[s]
  /\ \A s \in Mappings!Pages(r) : k.l2[s] = r.page + (s - r.slot)

\* No slot is needed by two regions, whether they are held by users or by
\* temporary references.
Apart(k, refs) ==
  /\ \A u, v \in Mappings!Users :
       u # v /\ k.at[u].slot # NULL /\ k.at[v].slot # NULL => Own(k.at[u]) \cap Own(k.at[v]) = {}
  /\ \A u \in Mappings!Users, r \in refs :
       k.at[u].slot # NULL => Own(k.at[u]) \cap Own(r) = {}
  /\ \A q, r \in refs : q # r => Own(q) \cap Own(r) = {}

\* A slot that is free shows nothing.
FreeShowsNothing(k) == \A s \in Mappings!Slot : k.mmm[s] => k.l2[s] = NULL

\* The invariant, of a state of the tables and a set of temporary references:
\* an action goes through several such states.
MapInv(k, refs) ==
  /\ k \in MapState
  /\ FreeShowsNothing(k)
  /\ \A u \in Mappings!Users : k.at[u].slot # NULL => Shows(k, k.at[u])
  /\ refs \subseteq {r \in Region : r.slot # NULL}
  /\ \A r \in refs : Shows(k, r)
  /\ Apart(k, refs)

\* The assumptions on the constants.
MapHyp == NULL \notin Nat /\ Mappings!KernelMappingsAssumption

\* Quotients: the page of a byte is one of those that map_io_mem counts, and
\* needed_pages counts as many or one more.
LEMMA PageCounts ==
  ASSUME MapHyp, NEW size \in Nat
  PROVE  /\ Mappings!frames(size) \in Nat /\ Mappings!needed_pages(size) \in Nat
         /\ Mappings!needed_pages(size) > 0
         /\ Mappings!frames(size) <= Mappings!needed_pages(size)
         /\ \A b \in 0 .. size - 1 : b \div PAGE_SIZE \in 0 .. Mappings!frames(size) - 1
<1> DEFINE d == PAGE_SIZE
<1>1. d \in Nat /\ d > 0
  BY DEF MapHyp, Mappings!KernelMappingsAssumption
<1> HIDE DEF d
<1>2. \A x \in Nat : x \div d \in Nat /\ d * (x \div d) <= x /\ x < d * (x \div d) + d
  BY <1>1
<1>3. \A x, y \in Nat : x < y => d * x + d <= d * y
  <2> TAKE x \in Nat, y \in Nat
  <2> HAVE x < y
  <2>1. PICK z \in Nat : y = x + 1 + z
    <3>1. y - x - 1 \in Nat /\ y = x + 1 + (y - x - 1)
      OBVIOUS
    <3> QED
      BY <3>1
  <2>2. d * y = d * x + d + d * z
    BY <1>1, <2>1
  <2>3. d * z >= 0
    BY <1>1
  <2>4. d * x \in Int /\ d * y \in Int /\ d * z \in Int
    BY <1>1
  <2> QED
    BY <1>1, <2>2, <2>3, <2>4
<1> DEFINE f == (size + d - 1) \div d
           q == size \div d
<1>4. f \in Nat /\ d * f <= size + d - 1 /\ size + d - 1 < d * f + d
  BY <1>1, <1>2
<1>5. q \in Nat /\ d * q <= size /\ size < d * q + d
  BY <1>2
<1> HIDE DEF f, q
<1>6. d * f \in Int /\ d * q \in Int /\ d * (q + 1) = d * q + d
  BY <1>1, <1>4, <1>5
<1>7. f <= q + 1
  <2>1. SUFFICES ASSUME q + 1 < f
                 PROVE  FALSE
    BY <1>4, <1>5
  <2>2. d * (q + 1) + d <= d * f
    BY <1>3, <1>4, <1>5, <2>1
  <2> QED
    BY <1>1, <1>4, <1>5, <1>6, <2>2
<1>8. ASSUME NEW b \in 0 .. size - 1
      PROVE  b \div d \in 0 .. f - 1
  <2>1. b \div d \in Nat /\ d * (b \div d) <= b
    BY <1>2
  <2> DEFINE p == b \div d
  <2> HIDE DEF p
  <2>2. p \in Nat /\ d * p <= b
    BY <2>1 DEF p
  <2>3. SUFFICES ASSUME f <= p
                 PROVE  FALSE
    BY <1>4, <2>2 DEF p
  <2>4. d * f <= d * p
    <3>1. CASE f = p
      BY <1>6, <3>1
    <3>2. CASE f < p
      <4>1. d * f + d <= d * p
        BY <1>3, <1>4, <2>2, <3>2
      <4>2. d * p \in Int
        BY <1>1, <2>2
      <4> QED
        BY <1>1, <1>6, <4>1, <4>2
    <3> QED
      BY <1>4, <2>2, <2>3, <3>1, <3>2
  <2>5. d * p \in Int
    BY <1>1, <2>2
  <2> QED
    BY <1>1, <1>4, <1>6, <2>2, <2>4, <2>5
<1> QED
  BY <1>4, <1>5, <1>7, <1>8 DEF Mappings!frames, Mappings!needed_pages, f, q, d

\* A nonempty set of slots has a first one.
LEMMA FirstSlot ==
  ASSUME NEW S \in SUBSET Nat, S # {}
  PROVE  Mappings!First(S) \in S
<1>1. PICK i \in S : \A j \in S : ~ (<<j, i>> \in OpToRel(<, Nat))
  BY WFMin, NatLessThanWellFounded, Zenon
<1>2. \A j \in S : ~ (j < i)
  BY <1>1 DEF OpToRel
<1>3. \A j \in S : i <= j
  BY <1>2
<1> QED
  BY <1>3 DEF Mappings!First

\* The block mmm chooses is inside the mapable area and free.
LEMMA BlockFree ==
  ASSUME MapHyp, NEW bm \in [Mappings!Slot -> BOOLEAN], NEW n \in Nat,
         Mappings!FirstFit(bm, n) # NULL
  PROVE  /\ Mappings!FirstFit(bm, n) \in Nat /\ n > 0
         /\ \A s \in Mappings!Run(Mappings!FirstFit(bm, n), n) : s \in Mappings!Slot /\ bm[s]
<1> DEFINE S == Mappings!Fits(bm, n)
<1>1. S \in SUBSET Nat
  BY DEF Mappings!Fits, Mappings!Slot
<1>2. Mappings!First(S) \in S
  BY <1>1, FirstSlot DEF Mappings!First, Mappings!FirstFit
<1> QED
  BY <1>1, <1>2 DEF Mappings!Fits, Mappings!FirstFit

\* What a call that maps a region leaves: the region, if there is one, shows
\* its pages, apart from all others, those are as they were, and no slot is
\* taken but those of the region.
Mapped(k, refs, n, size, res) ==
  /\ MapInv(res.k, refs)
  /\ res.k.at = k.at
  /\ res.region \in Region
  /\ res.region.slot # NULL =>
       /\ Shows(res.k, res.region)
       /\ \A u \in Mappings!Users :
            k.at[u].slot # NULL => Own(k.at[u]) \cap Own(res.region) = {}
       /\ \A r \in refs : Own(r) \cap Own(res.region) = {}
       /\ res.region.size = size
  /\ \A s \in Mappings!Slot :
       \/ res.k.mmm[s] = k.mmm[s]
       \/ res.region.slot # NULL /\ s \in Mappings!Run(res.region.slot, n)

\* Mapping a region: no page of the block is found to be mapped, the new
\* region shows its pages, and no other region is disturbed.
LEMMA MapRegion ==
  ASSUME MapHyp, NEW k, NEW refs, MapInv(k, refs), NEW n \in Nat, NEW page \in Nat,
         NEW size \in Nat, NEW ns \in BOOLEAN, Mappings!frames(size) <= n
  PROVE  Mapped(k, refs, n, size, Mappings!map_region(k, n, page, size, ns))
<1> DEFINE slot == Mappings!FirstFit(k.mmm, n)
           res == Mappings!map_region(k, n, page, size, ns)
           reg == [slot |-> slot, page |-> page, size |-> size, nonsecure |-> ns]
<1>1. /\ k \in MapState /\ FreeShowsNothing(k) /\ NULL \notin Nat
      /\ Mappings!frames(size) \in Nat /\ SLOTS \in Nat
  BY PageCounts DEF MapInv, MapHyp, Mappings!KernelMappingsAssumption
<1>2. CASE slot = NULL
  <2>1. res.k = k /\ res.region = Mappings!NoRegion
    BY <1>2 DEF Mappings!map_region
  <2>2. Mappings!NoRegion \in Region /\ Mappings!NoRegion.slot = NULL
    BY DEF Region, Mappings!NoRegion
  <2> QED
    BY <2>1, <2>2 DEF Mapped
<1>3. CASE slot # NULL
  <2>1. slot \in Nat /\ n > 0 /\ \A s \in Mappings!Run(slot, n) : s \in Mappings!Slot /\ k.mmm[s]
    BY <1>1, <1>3, BlockFree DEF MapState
  <2>2. \A s \in Mappings!Run(slot, n) : k.l2[s] = NULL
    BY <1>1, <2>1 DEF FreeShowsNothing
  <2> DEFINE taken == [k EXCEPT !.mmm = Mappings!Take(@, slot, n)]
             new == Mappings!map_memory_v(taken, slot, n, page, ns)
             l2 == [s \in Mappings!Slot |->
                      IF s \in Mappings!Run(slot, n) THEN page + (s - slot) ELSE k.l2[s]]
             l1 == [t \in Mappings!Tables |->
                      IF k.l1[t] = NULL /\ \E s \in Mappings!Run(slot, n) : s \div TABLE = t
                      THEN ns ELSE k.l1[t]]
  <2>0. /\ taken \in MapState
        /\ taken.mmm = Mappings!Take(k.mmm, slot, n) /\ taken.l1 = k.l1 /\ taken.l2 = k.l2
        /\ taken.at = k.at
    <3>1. Mappings!Take(k.mmm, slot, n) \in [Mappings!Slot -> BOOLEAN]
      BY <1>1 DEF MapState, Mappings!Take
    <3> QED
      BY <1>1, <3>1 DEF MapState
  <2>3. res.k = new /\ res.region = reg
    <3>1. {s \in Mappings!Run(slot, n) : k.l2[s] # NULL} = {}
      BY <2>2
    <3>2. Mappings!map_kernel_sections(taken, slot, n, page, ns) = new
      BY <2>0, <3>1 DEF Mappings!map_kernel_sections
    <3>3. res = [k |-> Mappings!map_kernel_sections(taken, slot, n, page, ns), region |-> reg]
      BY <1>3, <2>2 DEF Mappings!map_region
    <3> QED
      BY <3>2, <3>3
  <2> HIDE DEF taken
  <2>5. new \in MapState /\ new.at = k.at /\ new.mmm = taken.mmm /\ new.l2 = l2
    <3>1. \A s \in Mappings!Run(slot, n) : page + (s - slot) \in Nat
      BY <2>1 DEF Mappings!Run
    <3>2. l2 \in [Mappings!Slot -> Nat \cup {NULL}]
      BY <1>1, <3>1 DEF MapState
    <3>3. l1 \in [Mappings!Tables -> BOOLEAN \cup {NULL}]
      BY <1>1 DEF MapState
    <3>4. new = [taken EXCEPT !.l1 = l1, !.l2 = l2]
      BY <2>0 DEF Mappings!map_memory_v
    <3> HIDE DEF l1, l2, new
    <3> QED
      BY <2>0, <3>2, <3>3, <3>4 DEF MapState
  <2>4. /\ \A s \in Mappings!Slot : new.mmm[s] <=> k.mmm[s] /\ s \notin Mappings!Run(slot, n)
        /\ \A s \in Mappings!Slot :
             new.l2[s] = IF s \in Mappings!Run(slot, n) THEN page + (s - slot) ELSE k.l2[s]
    <3> HIDE DEF new
    <3> QED
      BY <1>1, <2>0, <2>5 DEF MapState, Mappings!Take
  <2> HIDE DEF new, slot
  <2>6. FreeShowsNothing(new)
    BY <1>1, <2>4 DEF FreeShowsNothing
  <2>7. ASSUME NEW r, Shows(k, r)
        PROVE  Shows(new, r) /\ Own(r) \cap Mappings!Run(slot, n) = {}
    <3>1. Own(r) \cap Mappings!Run(slot, n) = {}
      BY <2>1, <2>7 DEF Shows
    <3> QED
      BY <2>4, <2>7, <3>1 DEF Shows, Own
  <2>8. MapInv(new, refs)
    BY <2>5, <2>6, <2>7 DEF MapInv, Apart
  <2>9. reg \in Region /\ reg.slot = slot
    BY <2>1 DEF Region
  <2>10. Own(reg) \subseteq Mappings!Run(slot, n) /\ Mappings!Pages(reg) \subseteq Mappings!Run(slot, n)
    BY <1>1, <2>1 DEF Own, Mappings!Pages, Mappings!Run
  <2>11. Shows(new, reg)
    BY <2>1, <2>4, <2>10 DEF Shows
  <2>12. /\ \A u \in Mappings!Users : k.at[u].slot # NULL => Own(k.at[u]) \cap Own(reg) = {}
         /\ \A r \in refs : Own(r) \cap Own(reg) = {}
    BY <2>7, <2>10 DEF MapInv
  <2>13. \A s \in Mappings!Slot : new.mmm[s] = k.mmm[s] \/ s \in Mappings!Run(reg.slot, n)
    BY <1>1, <2>4, <2>5, <2>9 DEF MapState
  <2> QED
    <3>1. reg.size = size
      OBVIOUS
    <3> HIDE DEF reg, res
    <3>2. Mapped(k, refs, n, size, res)
      BY <1>3, <2>3, <2>5, <2>8, <2>9, <2>11, <2>12, <2>13, <3>1 DEF Mapped
    <3> QED
      BY <3>2 DEF res
<1> QED
  BY <1>2, <1>3

\* The region that a call maps becomes that of its user.
LEMMA MapFor ==
  ASSUME MapHyp, NEW k, NEW refs, MapInv(k, refs), NEW n \in Nat, NEW page \in Nat,
         NEW size \in Nat, NEW ns \in BOOLEAN, Mappings!frames(size) <= n,
         NEW u \in Mappings!Users
  PROVE  MapInv(Mappings!For(Mappings!map_region(k, n, page, size, ns), u), refs)
<1> DEFINE res == Mappings!map_region(k, n, page, size, ns)
           new == Mappings!For(res, u)
<1>1. /\ MapInv(res.k, refs) /\ res.k.at = k.at /\ res.region \in Region
      /\ res.region.slot # NULL =>
           /\ Shows(res.k, res.region)
           /\ \A v \in Mappings!Users : k.at[v].slot # NULL => Own(k.at[v]) \cap Own(res.region) = {}
           /\ \A r \in refs : Own(r) \cap Own(res.region) = {}
  <2>1. Mapped(k, refs, n, size, res)
    BY MapRegion
  <2> QED
    BY <2>1 DEF Mapped
<1>2. /\ new \in MapState /\ new.mmm = res.k.mmm /\ new.l2 = res.k.l2
      /\ \A v \in Mappings!Users : new.at[v] = IF v = u THEN res.region ELSE k.at[v]
  BY <1>1 DEF Mappings!For, MapState, MapInv
<1> HIDE DEF new, res
<1>3. \A r : Shows(res.k, r) => Shows(new, r)
  BY <1>2 DEF Shows
<1>4. FreeShowsNothing(new)
  BY <1>1, <1>2 DEF FreeShowsNothing, MapInv
<1>5. Apart(new, refs)
  BY <1>1, <1>2 DEF Apart, MapInv
<1> QED
  BY <1>1, <1>2, <1>3, <1>4, <1>5 DEF MapInv, new, res

\* unmap_memory gives the first slot of a region back and takes its page away:
\* no other region needs it.
LEMMA Unmap ==
  ASSUME MapHyp, NEW k, NEW refs, MapInv(k, refs), NEW u \in Mappings!Users
  PROVE  MapInv(Mappings!unmap_memory(k, u), refs)
<1> DEFINE slot == k.at[u].slot
           new == Mappings!unmap_memory(k, u)
<1>1. CASE slot = NULL
  BY <1>1 DEF Mappings!unmap_memory
<1>2. CASE slot # NULL
  <2>1. k \in MapState /\ Shows(k, k.at[u]) /\ slot \in Own(k.at[u]) /\ slot \in Mappings!Slot
    BY <1>2 DEF MapInv, Shows, Own
  <2>2. new = [k EXCEPT !.at[u] = Mappings!NoRegion, !.l2[slot] = NULL,
                        !.mmm = Mappings!Free(@, slot)]
    BY <1>2 DEF Mappings!unmap_memory
  <2>3. Mappings!NoRegion \in Region /\ Mappings!NoRegion.slot = NULL
    BY DEF Region, Mappings!NoRegion
  <2>4. /\ new \in MapState
        /\ new.mmm = [k.mmm EXCEPT ![slot] = TRUE]
        /\ new.l2 = [k.l2 EXCEPT ![slot] = NULL]
        /\ new.at = [k.at EXCEPT ![u] = Mappings!NoRegion]
    <3> DEFINE mmm == [k.mmm EXCEPT ![slot] = TRUE]
               l2 == [k.l2 EXCEPT ![slot] = NULL]
               at == [k.at EXCEPT ![u] = Mappings!NoRegion]
    <3>1. /\ mmm \in [Mappings!Slot -> BOOLEAN] /\ l2 \in [Mappings!Slot -> Nat \cup {NULL}]
          /\ at \in [Mappings!Users -> Region]
      BY <2>1, <2>3 DEF MapState
    <3>2. new = [[[k EXCEPT !.at = at] EXCEPT !.l2 = l2] EXCEPT !.mmm = mmm]
      BY <2>1, <2>2 DEF MapState, Mappings!Free
    <3> HIDE DEF mmm, l2, at, new
    <3>3. new \in MapState /\ new.mmm = mmm /\ new.l2 = l2 /\ new.at = at
      BY <2>1, <3>1, <3>2 DEF MapState
    <3> QED
      BY <3>3 DEF mmm, l2, at
  <2> HIDE DEF new
  <2>5. FreeShowsNothing(new)
    BY <2>1, <2>4 DEF FreeShowsNothing, MapInv, MapState
  <2>6. ASSUME NEW r, Shows(k, r), Own(k.at[u]) \cap Own(r) = {}
        PROVE  Shows(new, r)
    <3>1. slot \notin Own(r) /\ Mappings!Pages(r) \subseteq Own(r)
      BY <2>1, <2>6 DEF Own
    <3> QED
      BY <2>1, <2>4, <2>6, <3>1 DEF Shows, MapState
  <2>7. \A v \in Mappings!Users : new.at[v] = IF v = u THEN Mappings!NoRegion ELSE k.at[v]
    BY <2>1, <2>4 DEF MapState
  <2>8. \A v \in Mappings!Users : new.at[v].slot # NULL => Shows(new, new.at[v])
    BY <1>2, <2>3, <2>6, <2>7 DEF MapInv, Apart
  <2>9. \A r \in refs : Shows(new, r)
    BY <1>2, <2>6 DEF MapInv, Apart
  <2>10. Apart(new, refs)
    BY <2>3, <2>7 DEF MapInv, Apart
  <2> QED
    <3>1. refs \subseteq {r \in Region : r.slot # NULL}
      BY DEF MapInv
    <3>2. MapInv(new, refs)
      BY <2>4, <2>5, <2>8, <2>9, <2>10, <3>1 DEF MapInv
    <3> QED
      BY <3>2 DEF new
<1> QED
  BY <1>1, <1>2

\* free_tz_package, and a window that is mapped anew.
LEMMA Windows ==
  ASSUME MapHyp, NEW k, NEW refs, MapInv(k, refs)
  PROVE  /\ MapInv(Mappings!free_tz_package(k), refs)
         /\ \A page \in Nat, u \in Mappings!Users :
              MapInv(Mappings!For(Mappings!map_phys_mem(k, page, PAGE_SIZE - 1, TRUE), u), refs)
<1>1. {"package", "tee", "com"} \subseteq Mappings!Users
  BY DEF Mappings!Users, Mappings!WindowUsers
<1>2. MapInv(Mappings!free_tz_package(k), refs)
  <2> DEFINE k1 == Mappings!unmap_memory(k, "package")
             k2 == Mappings!unmap_memory(k1, "tee")
             k3 == Mappings!unmap_memory(k2, "com")
  <2>1. MapInv(k1, refs)
    BY <1>1, Unmap
  <2> HIDE DEF k1
  <2>2. MapInv(k2, refs)
    BY <1>1, <2>1, Unmap
  <2> HIDE DEF k2
  <2>3. MapInv(k3, refs)
    BY <1>1, <2>2, Unmap
  <2> QED
    BY <2>3 DEF k1, k2, k3, Mappings!free_tz_package
<1>3. PAGE_SIZE - 1 \in Nat
  BY DEF MapHyp, Mappings!KernelMappingsAssumption
<1>4. ASSUME NEW page \in Nat, NEW u \in Mappings!Users
      PROVE  MapInv(Mappings!For(Mappings!map_phys_mem(k, page, PAGE_SIZE - 1, TRUE), u), refs)
  BY <1>3, PageCounts, MapFor DEF Mappings!map_phys_mem
<1> QED
  BY <1>2, <1>4

\* A call of a client frees the windows and maps them for itself, all or none.
LEMMA PackageStep ==
  ASSUME MapHyp, MapInv(km, temps), NEW c \in Callers, Mappings!set_tz_package(c)
  PROVE  MapInv(km', temps')
<1> DEFINE window(k, u, i) ==
             Mappings!For(Mappings!map_phys_mem(k, Mappings!CallPage(c, i), PAGE_SIZE - 1, TRUE), u)
           k0 == Mappings!free_tz_package(km)
           k1 == window(k0, "package", 1)
           k2 == window(k1, "tee", 2)
           k3 == window(k2, "com", 3)
<1>1. {"package", "tee", "com"} \subseteq Mappings!Users
  BY DEF Mappings!Users, Mappings!WindowUsers
<1>2. {Mappings!CallPage(c, 1), Mappings!CallPage(c, 2), Mappings!CallPage(c, 3)} \subseteq Nat
  <2>1. c \in Nat
    BY DEF MapHyp, Mappings!KernelMappingsAssumption
  <2> QED
    BY <2>1 DEF Mappings!CallPage
<1>3. MapInv(k0, temps)
  BY Windows
<1> HIDE DEF k0
<1>4. MapInv(k1, temps)
  BY <1>1, <1>2, <1>3, Windows
<1> HIDE DEF k1
<1>5. MapInv(k2, temps) /\ MapInv(Mappings!free_tz_package(k2), temps)
  <2>1. MapInv(k2, temps)
    BY <1>1, <1>2, <1>4, Windows
  <2> HIDE DEF k2
  <2> QED
    BY <2>1, Windows
<1> HIDE DEF k2
<1>6. MapInv(k3, temps) /\ MapInv(Mappings!free_tz_package(k3), temps)
  <2>1. MapInv(k3, temps)
    BY <1>1, <1>2, <1>5, Windows
  <2> HIDE DEF k3
  <2> QED
    BY <2>1, Windows
<1> HIDE DEF k3
<1>7. km' \in {k1, Mappings!free_tz_package(k2), Mappings!free_tz_package(k3), k3} /\ temps' = temps
  BY DEF Mappings!set_tz_package, k0, k1, k2, k3
<1> QED
  BY <1>4, <1>5, <1>6, <1>7

\* A temporary reference is mapped.
LEMMA TempMapStep ==
  ASSUME MapHyp, MapInv(km, temps), NEW size \in TEMP_SIZES, Mappings!swi_map_tee_temp_ref(size)
  PROVE  MapInv(km', temps')
<1> DEFINE res == Mappings!map_phys_mem(km, Mappings!TempPage, size, FALSE)
<1>1. size \in Nat /\ Mappings!TempPage \in Nat
  BY DEF MapHyp, Mappings!KernelMappingsAssumption, Mappings!TempPage
<1>2. Mapped(km, temps, Mappings!needed_pages(size), size, res)
  BY <1>1, PageCounts, MapRegion DEF Mappings!map_phys_mem
<1>3. km' = res.k /\ temps' = IF res.region = Mappings!NoRegion THEN temps ELSE temps \cup {res.region}
  BY DEF Mappings!swi_map_tee_temp_ref
<1>4. res.region = Mappings!NoRegion \/ res.region.slot # NULL
  <2> DEFINE slot == Mappings!FirstFit(km.mmm, Mappings!needed_pages(size))
  <2>1. CASE slot = NULL
    BY <2>1 DEF Mappings!map_phys_mem, Mappings!map_region
  <2>2. CASE slot # NULL
    BY <2>2 DEF Mappings!map_phys_mem, Mappings!map_region
  <2> QED
    BY <2>1, <2>2
<1> HIDE DEF res
<1>5. CASE res.region = Mappings!NoRegion
  BY <1>2, <1>3, <1>5 DEF Mapped
<1>6. CASE res.region # Mappings!NoRegion
  <2>1. /\ MapInv(km', temps) /\ km'.at = km.at /\ res.region \in Region /\ res.region.slot # NULL
        /\ Shows(km', res.region) /\ temps' = temps \cup {res.region}
        /\ \A u \in Mappings!Users :
             km.at[u].slot # NULL => Own(km.at[u]) \cap Own(res.region) = {}
        /\ \A r \in temps : Own(r) \cap Own(res.region) = {}
    BY <1>2, <1>3, <1>4, <1>6 DEF Mapped
  <2>2. Apart(km', temps')
    BY <2>1 DEF Apart, MapInv
  <2>3. temps' \subseteq {r \in Region : r.slot # NULL} /\ \A r \in temps' : Shows(km', r)
    BY <2>1 DEF MapInv
  <2> QED
    BY <2>1, <2>2, <2>3 DEF MapInv
<1> QED
  BY <1>5, <1>6

\* The pages of a temporary reference are unmapped one by one.
LEMMA TempUnmapStep ==
  ASSUME MapHyp, MapInv(km, temps), NEW r \in temps, Mappings!swi_unmap_tee_temp_ref(r)
  PROVE  MapInv(km', temps')
<1> DEFINE l2 == [s \in Mappings!Slot |-> IF s \in Mappings!Pages(r) THEN NULL ELSE km.l2[s]]
<1>1. km' = [km EXCEPT !.l2 = l2] /\ temps' = temps \ {r} /\ km \in MapState
  BY DEF Mappings!swi_unmap_tee_temp_ref, Mappings!Pages, MapInv
<1>2. l2 \in [Mappings!Slot -> Nat \cup {NULL}]
  BY <1>1 DEF MapState
<1>3. \A s \in Mappings!Slot : l2[s] = IF s \in Mappings!Pages(r) THEN NULL ELSE km.l2[s]
  OBVIOUS
<1> HIDE DEF l2
<1>4. km' \in MapState /\ km'.l2 = l2 /\ km'.mmm = km.mmm /\ km'.at = km.at
  BY <1>1, <1>2 DEF MapState
<1>5. FreeShowsNothing(km')
  BY <1>3, <1>4 DEF FreeShowsNothing, MapInv
<1>6. ASSUME NEW q, Shows(km, q), Own(q) \cap Own(r) = {}
      PROVE  Shows(km', q)
  BY <1>3, <1>4, <1>6 DEF Shows, Own
<1>7. \A u \in Mappings!Users : km'.at[u].slot # NULL => Shows(km', km'.at[u])
  BY <1>4, <1>6 DEF MapInv, Apart
<1>8. \A q \in temps' : Shows(km', q)
  BY <1>1, <1>6 DEF MapInv, Apart
<1>9. Apart(km', temps')
  BY <1>1, <1>4 DEF Apart, MapInv
<1>10. temps' \subseteq {q \in Region : q.slot # NULL}
  BY <1>1 DEF MapInv
<1> QED
  BY <1>4, <1>5, <1>7, <1>8, <1>9, <1>10 DEF MapInv

\* Every step keeps the regions shown and apart.
LEMMA MapStep ==
  ASSUME MapHyp, MapInv(km, temps), [Mappings!Next]_(Mappings!vars)
  PROVE  MapInv(km, temps)'
<1>0. {"io", "payload", "atags"} \subseteq Mappings!Users
  BY DEF Mappings!Users
<1>1. {IO_SIZE, PAGE_SIZE - 1} \subseteq Nat /\ PAYLOAD_SIZES \subseteq Nat
  BY DEF MapHyp, Mappings!KernelMappingsAssumption
<1>2. {Mappings!IoPage, Mappings!PayloadPage, Mappings!AtagsPage} \subseteq Nat
  BY DEF Mappings!IoPage, Mappings!PayloadPage, Mappings!AtagsPage
<1>3. CASE UNCHANGED Mappings!vars
  BY <1>3 DEF Mappings!vars
<1>4. CASE Mappings!map_io_mem
  <2>1. Mappings!frames(IO_SIZE) \in Nat /\ Mappings!frames(IO_SIZE) <= Mappings!frames(IO_SIZE)
    BY <1>1, PageCounts
  <2>2. MapInv(Mappings!For(Mappings!map_region(km, Mappings!frames(IO_SIZE), Mappings!IoPage,
                                                IO_SIZE, FALSE), "io"), temps)
    BY <1>0, <1>1, <1>2, <2>1, MapFor
  <2> QED
    BY <1>4, <2>2 DEF Mappings!map_io_mem
<1>5. ASSUME NEW size \in PAYLOAD_SIZES, Mappings!payload_map(size)
      PROVE  MapInv(km, temps)'
  <2>1. MapInv(Mappings!For(Mappings!map_phys_mem(km, Mappings!PayloadPage, size, FALSE),
                            "payload"), temps)
    BY <1>0, <1>1, <1>2, PageCounts, MapFor DEF Mappings!map_phys_mem
  <2> QED
    BY <1>5, <2>1 DEF Mappings!payload_map
<1>6. CASE Mappings!payload_unmap
  <2>1. MapInv(Mappings!unmap_memory(km, "payload"), temps)
    BY <1>0, Unmap
  <2> QED
    BY <1>6, <2>1 DEF Mappings!payload_unmap
<1>7. CASE Mappings!load_atags
  <2>1. MapInv(Mappings!For(Mappings!map_phys_mem(km, Mappings!AtagsPage, PAGE_SIZE - 1, FALSE),
                            "atags"), temps)
    BY <1>0, <1>1, <1>2, PageCounts, MapFor DEF Mappings!map_phys_mem
  <2> QED
    BY <1>7, <2>1 DEF Mappings!load_atags
<1>8. ASSUME NEW c \in Callers, Mappings!set_tz_package(c)
      PROVE  MapInv(km, temps)'
  BY <1>8, PackageStep
<1>9. CASE Mappings!monitor_return
  <2>1. MapInv(Mappings!free_tz_package(km), temps)
    BY Windows
  <2> QED
    BY <1>9, <2>1 DEF Mappings!monitor_return
<1>10. ASSUME NEW size \in TEMP_SIZES, Mappings!swi_map_tee_temp_ref(size)
       PROVE  MapInv(km, temps)'
  BY <1>10, TempMapStep
<1>11. ASSUME NEW r \in temps, Mappings!swi_unmap_tee_temp_ref(r)
       PROVE  MapInv(km, temps)'
  BY <1>11, TempUnmapStep
<1>12. ASSUME NEW s \in Mappings!Slot, Mappings!Access(s) \/ Mappings!Evict(s)
       PROVE  MapInv(km, temps)'
  BY <1>12 DEF Mappings!Access, Mappings!Evict
<1>13. CASE Mappings!invalidate_tlb
  BY <1>13 DEF Mappings!invalidate_tlb
<1> QED
  BY <1>3, <1>4, <1>5, <1>6, <1>7, <1>8, <1>9, <1>10, <1>11, <1>12, <1>13 DEF Mappings!Next

\* Before the boot nothing is mapped.
LEMMA MapInit ==
  ASSUME MapHyp, Mappings!Init
  PROVE  MapInv(km, temps)
<1>1. Mappings!NoRegion \in Region /\ Mappings!NoRegion.slot = NULL
  BY DEF Region, Mappings!NoRegion
<1>2. km \in MapState /\ temps = {} /\ \A u \in Mappings!Users : km.at[u] = Mappings!NoRegion
  BY <1>1 DEF Mappings!Init, MapState
<1>3. FreeShowsNothing(km)
  BY DEF Mappings!Init, FreeShowsNothing
<1> QED
  BY <1>1, <1>2, <1>3 DEF MapInv, Apart

\* The regions of the invariant translate every byte to its own place.
LEMMA RegionsTranslated ==
  ASSUME MapHyp, MapInv(km, temps)
  PROVE  Mappings!FreeIsUnmapped /\ Mappings!MappedAsAsked
<1>1. Mappings!FreeIsUnmapped
  BY DEF MapInv, FreeShowsNothing, Mappings!FreeIsUnmapped
<1>2. ASSUME NEW r \in Mappings!Regions, NEW b \in 0 .. r.size - 1
      PROVE  km.l2[r.slot + b \div PAGE_SIZE] = r.page + b \div PAGE_SIZE
  <2>1. r \in Region /\ r.slot # NULL /\ Shows(km, r)
    BY <1>2 DEF Mappings!Regions, MapInv, MapState
  <2>2. r.slot \in Nat /\ r.page \in Nat /\ r.size \in Nat
    BY <2>1 DEF Region
  <2>3. Mappings!frames(r.size) \in Nat /\ b \div PAGE_SIZE \in 0 .. Mappings!frames(r.size) - 1
    BY <2>2, PageCounts
  <2> DEFINE p == b \div PAGE_SIZE
  <2>4. p \in 0 .. Mappings!frames(r.size) - 1
    BY <2>3
  <2> HIDE DEF p
  <2>5. r.slot + p \in Mappings!Pages(r)
    BY <2>2, <2>3, <2>4 DEF Mappings!Pages, Mappings!Run
  <2>6. km.l2[r.slot + p] = r.page + ((r.slot + p) - r.slot)
    BY <2>1, <2>5 DEF Shows
  <2>7. km.l2[r.slot + p] = r.page + p
    BY <2>2, <2>3, <2>4, <2>6
  <2> QED
    BY <2>7 DEF p
<1> QED
  BY <1>1, <1>2 DEF Mappings!MappedAsAsked

\* Behaviours whose regions are of one page: every region but
\* the registers of the driver has one slot, and the slots that are taken are
\* those of the regions in use.
Returned(k) ==
  /\ \A s \in Mappings!Slot : k.mmm[s] \/ \E u \in Mappings!Users :
       /\ k.at[u].slot # NULL
       /\ s \in Mappings!Run(k.at[u].slot, Mappings!needed_pages(k.at[u].size))
  /\ \A u \in Mappings!Users \ {"io"} :
       k.at[u].slot # NULL => Mappings!needed_pages(k.at[u].size) = 1

\* The same with the progress of the boot: a region is mapped where none is.
ReturnInv ==
  /\ MapInv(km, temps) /\ Returned(km) /\ temps = {}
  /\ boot = "io" => km.at["io"].slot = NULL
  /\ boot \in {"io", "payload"} => km.at["payload"].slot = NULL
  /\ boot \in {"io", "payload", "copied", "atags"} => km.at["atags"].slot = NULL

\* What is smaller than a page needs one.
LEMMA OnePage ==
  ASSUME MapHyp, NEW size \in Nat, size < PAGE_SIZE
  PROVE  Mappings!needed_pages(size) = 1
BY DEF MapHyp, Mappings!KernelMappingsAssumption, Mappings!needed_pages

\* What is left of k when user u has got a region.
MappedFor(k, new, u) ==
  /\ MapInv(new, {}) /\ Returned(new)
  /\ \A v \in Mappings!Users : v # u => new.at[v] = k.at[v]

\* A region mapped for a user that has none takes no slot but its own.
LEMMA ReturnedMap ==
  ASSUME MapHyp, NEW k, MapInv(k, {}), Returned(k), NEW n \in Nat, NEW page \in Nat,
         NEW size \in Nat, NEW ns \in BOOLEAN, Mappings!frames(size) <= n,
         n <= Mappings!needed_pages(size),
         NEW u \in Mappings!Users, k.at[u].slot = NULL,
         u # "io" => Mappings!needed_pages(size) = 1
  PROVE  MappedFor(k, Mappings!For(Mappings!map_region(k, n, page, size, ns), u), u)
<1> DEFINE res == Mappings!map_region(k, n, page, size, ns)
           new == Mappings!For(res, u)
<1>1. Mapped(k, {}, n, size, res)
  BY MapRegion
<1>2. MapInv(new, {})
  BY MapFor
<1>3. res.k \in MapState /\ k \in MapState /\ res.k.at = k.at /\ res.region \in Region
  BY <1>1 DEF Mapped, MapInv
<1>4. /\ new.mmm = res.k.mmm
      /\ \A v \in Mappings!Users : new.at[v] = IF v = u THEN res.region ELSE k.at[v]
  BY <1>3 DEF Mappings!For, MapState
<1>5. res.region.slot # NULL => res.region.slot \in Nat /\ res.region.size = size
  BY <1>1, <1>3 DEF Mapped, Region
<1>6. \A s \in Mappings!Slot :
        \/ new.mmm[s] = k.mmm[s]
        \/ res.region.slot # NULL /\ s \in Mappings!Run(res.region.slot, n)
  BY <1>1, <1>4 DEF Mapped
<1> HIDE DEF new, res
<1>7. Mappings!needed_pages(size) \in Nat
  BY PageCounts
<1>8. \A s \in Mappings!Slot :
        res.region.slot # NULL /\ s \in Mappings!Run(res.region.slot, n) =>
          s \in Mappings!Run(res.region.slot, Mappings!needed_pages(size))
  BY <1>5, <1>7 DEF Mappings!Run
<1>9. ASSUME NEW s \in Mappings!Slot, ~new.mmm[s]
      PROVE  \E v \in Mappings!Users :
               /\ new.at[v].slot # NULL
               /\ s \in Mappings!Run(new.at[v].slot, Mappings!needed_pages(new.at[v].size))
  <2>1. CASE res.region.slot # NULL /\ s \in Mappings!Run(res.region.slot, n)
    BY <1>4, <1>5, <1>8, <2>1
  <2>2. CASE new.mmm[s] = k.mmm[s]
    <3>1. PICK v \in Mappings!Users :
            /\ k.at[v].slot # NULL
            /\ s \in Mappings!Run(k.at[v].slot, Mappings!needed_pages(k.at[v].size))
      BY <1>9, <2>2 DEF Returned
    <3> QED
      BY <1>4, <3>1
  <2> QED
    BY <1>6, <2>1, <2>2
<1>10. Returned(new)
  BY <1>4, <1>5, <1>9 DEF Returned
<1> QED
  BY <1>2, <1>4, <1>10 DEF new, res, MappedFor

\* unmap_memory returns the one slot of a region.
LEMMA ReturnedUnmap ==
  ASSUME MapHyp, NEW k, MapInv(k, {}), Returned(k), NEW u \in Mappings!Users \ {"io"}
  PROVE  LET new == Mappings!unmap_memory(k, u)
         IN  /\ MapInv(new, {}) /\ Returned(new) /\ new.at[u].slot = NULL
             /\ \A v \in Mappings!Users : v # u => new.at[v] = k.at[v]
<1> DEFINE slot == k.at[u].slot
           new == Mappings!unmap_memory(k, u)
<1>1. MapInv(new, {})
  BY Unmap
<1>2. CASE slot = NULL
  BY <1>1, <1>2 DEF Mappings!unmap_memory
<1>3. CASE slot # NULL
  <2>1. k \in MapState /\ slot \in Mappings!Slot /\ slot \in Nat
    BY <1>3 DEF MapInv, Shows, Own, Mappings!Slot
  <2>2. new = [k EXCEPT !.at[u] = Mappings!NoRegion, !.l2[slot] = NULL,
                        !.mmm = Mappings!Free(@, slot)]
    BY <1>3 DEF Mappings!unmap_memory
  <2>3. /\ new.mmm = [k.mmm EXCEPT ![slot] = TRUE]
        /\ new.at = [k.at EXCEPT ![u] = Mappings!NoRegion]
    BY <2>1, <2>2 DEF MapState, Mappings!Free
  <2>4. Mappings!NoRegion.slot = NULL
    BY DEF Mappings!NoRegion
  <2> HIDE DEF new
  <2>5. \A v \in Mappings!Users : new.at[v] = IF v = u THEN Mappings!NoRegion ELSE k.at[v]
    BY <2>1, <2>3 DEF MapState
  <2>6. \A s \in Mappings!Slot : new.mmm[s] = IF s = slot THEN TRUE ELSE k.mmm[s]
    BY <2>1, <2>3 DEF MapState
  <2>7. Mappings!Run(slot, Mappings!needed_pages(k.at[u].size)) = {slot}
    BY <1>3, <2>1 DEF Returned, Mappings!Run
  <2>8. ASSUME NEW s \in Mappings!Slot, ~new.mmm[s]
        PROVE  \E v \in Mappings!Users :
                 /\ new.at[v].slot # NULL
                 /\ s \in Mappings!Run(new.at[v].slot, Mappings!needed_pages(new.at[v].size))
    <3>1. s # slot /\ ~k.mmm[s]
      BY <2>6, <2>8
    <3>2. PICK v \in Mappings!Users :
            /\ k.at[v].slot # NULL
            /\ s \in Mappings!Run(k.at[v].slot, Mappings!needed_pages(k.at[v].size))
      BY <3>1 DEF Returned
    <3> QED
      BY <2>5, <2>7, <3>1, <3>2
  <2>9. Returned(new)
    BY <2>4, <2>5, <2>8 DEF Returned
  <2> QED
    BY <1>1, <2>4, <2>5, <2>9 DEF new
<1> QED
  BY <1>2, <1>3

\* The windows are freed, all three.
LEMMA ReturnedFree ==
  ASSUME MapHyp, NEW k, MapInv(k, {}), Returned(k)
  PROVE  LET new == Mappings!free_tz_package(k)
         IN  /\ MapInv(new, {}) /\ Returned(new)
             /\ \A v \in Mappings!Users :
                  IF v \in Mappings!WindowUsers THEN new.at[v].slot = NULL ELSE new.at[v] = k.at[v]
<1> DEFINE k1 == Mappings!unmap_memory(k, "package")
           k2 == Mappings!unmap_memory(k1, "tee")
           k3 == Mappings!unmap_memory(k2, "com")
<1>1. {"package", "tee", "com"} \subseteq Mappings!Users \ {"io"}
  BY DEF Mappings!Users, Mappings!WindowUsers
<1>2. /\ MapInv(k1, {}) /\ Returned(k1) /\ k1.at["package"].slot = NULL
      /\ \A v \in Mappings!Users : v # "package" => k1.at[v] = k.at[v]
  BY <1>1, ReturnedUnmap
<1> HIDE DEF k1
<1>3. /\ MapInv(k2, {}) /\ Returned(k2) /\ k2.at["tee"].slot = NULL
      /\ \A v \in Mappings!Users : v # "tee" => k2.at[v] = k1.at[v]
  BY <1>1, <1>2, ReturnedUnmap
<1> HIDE DEF k2
<1>4. /\ MapInv(k3, {}) /\ Returned(k3) /\ k3.at["com"].slot = NULL
      /\ \A v \in Mappings!Users : v # "com" => k3.at[v] = k2.at[v]
  BY <1>1, <1>3, ReturnedUnmap
<1>5. k3 = Mappings!free_tz_package(k)
  BY DEF k1, k2, k3, Mappings!free_tz_package
<1> HIDE DEF k3
<1>6. \A v \in Mappings!Users :
        IF v \in Mappings!WindowUsers THEN k3.at[v].slot = NULL ELSE k3.at[v] = k.at[v]
  BY <1>1, <1>2, <1>3, <1>4 DEF Mappings!WindowUsers
<1> QED
  BY <1>4, <1>5, <1>6

\* A window is mapped where none is.
LEMMA ReturnedWindow ==
  ASSUME MapHyp, NEW k, MapInv(k, {}), Returned(k), NEW page \in Nat,
         NEW u \in Mappings!Users \ {"io"}, k.at[u].slot = NULL,
         NEW size \in Nat, size < PAGE_SIZE, NEW ns \in BOOLEAN
  PROVE  MappedFor(k, Mappings!For(Mappings!map_phys_mem(k, page, size, ns), u), u)
<1>1. /\ Mappings!needed_pages(size) \in Nat /\ Mappings!frames(size) <= Mappings!needed_pages(size)
      /\ Mappings!needed_pages(size) <= Mappings!needed_pages(size)
      /\ Mappings!needed_pages(size) = 1
  BY PageCounts, OnePage
<1> QED
  BY <1>1, ReturnedMap DEF Mappings!map_phys_mem

\* A call frees the windows and maps them for itself.
LEMMA PackageReturns ==
  ASSUME MapHyp, ReturnInv, NEW c \in Callers, Mappings!set_tz_package(c)
  PROVE  ReturnInv'
<1> DEFINE window(k, u, i) ==
             Mappings!For(Mappings!map_phys_mem(k, Mappings!CallPage(c, i), PAGE_SIZE - 1, TRUE), u)
           k0 == Mappings!free_tz_package(km)
           k1 == window(k0, "package", 1)
           k2 == window(k1, "tee", 2)
           k3 == window(k2, "com", 3)
           Good(k) == /\ MapInv(k, {}) /\ Returned(k)
                      /\ \A v \in Mappings!Users \ Mappings!WindowUsers : k.at[v] = km.at[v]
<1>1. {"package", "tee", "com"} \subseteq Mappings!Users \ {"io"}
  BY DEF Mappings!Users, Mappings!WindowUsers
<1>2. {Mappings!CallPage(c, 1), Mappings!CallPage(c, 2), Mappings!CallPage(c, 3)} \subseteq Nat
  <2>1. c \in Nat
    BY DEF MapHyp, Mappings!KernelMappingsAssumption
  <2> QED
    BY <2>1 DEF Mappings!CallPage
<1>3. PAGE_SIZE - 1 \in Nat /\ PAGE_SIZE - 1 < PAGE_SIZE
  BY DEF MapHyp, Mappings!KernelMappingsAssumption
<1>4. Good(k0) /\ \A v \in Mappings!WindowUsers : k0.at[v].slot = NULL
  <2>1. /\ MapInv(k0, {}) /\ Returned(k0)
        /\ \A v \in Mappings!Users :
             IF v \in Mappings!WindowUsers THEN k0.at[v].slot = NULL ELSE k0.at[v] = km.at[v]
    BY ReturnedFree DEF ReturnInv
  <2> HIDE DEF k0
  <2> QED
    BY <2>1 DEF Mappings!Users
<1> HIDE DEF k0
<1>5. Good(k1) /\ k1.at["tee"].slot = NULL /\ k1.at["com"].slot = NULL
  <2>1. MappedFor(k0, k1, "package")
    <3>1. "package" \in Mappings!WindowUsers
      BY DEF Mappings!WindowUsers
    <3> QED
      BY <1>1, <1>2, <1>3, <1>4, <3>1, ReturnedWindow
  <2> HIDE DEF k1
  <2> QED
    BY <1>1, <1>4, <2>1 DEF Mappings!WindowUsers, MappedFor
<1> HIDE DEF k1
<1>6. Good(k2) /\ k2.at["com"].slot = NULL
  <2>1. MappedFor(k1, k2, "tee")
    BY <1>1, <1>2, <1>3, <1>5, ReturnedWindow
  <2> HIDE DEF k2
  <2> QED
    BY <1>1, <1>5, <2>1 DEF Mappings!WindowUsers, MappedFor
<1> HIDE DEF k2
<1>7. Good(k3)
  <2>1. MappedFor(k2, k3, "com")
    BY <1>1, <1>2, <1>3, <1>6, ReturnedWindow
  <2> HIDE DEF k3
  <2> QED
    BY <1>1, <1>6, <2>1 DEF Mappings!WindowUsers, MappedFor
<1> HIDE DEF k3
<1>8. ASSUME NEW k, Good(k)
      PROVE  Good(Mappings!free_tz_package(k))
  BY <1>8, ReturnedFree
<1>9. km' \in {k1, Mappings!free_tz_package(k2), Mappings!free_tz_package(k3), k3}
      /\ temps' = temps /\ boot' = boot
  BY DEF Mappings!set_tz_package, k0, k1, k2, k3
<1>10. Good(km')
  BY <1>5, <1>6, <1>7, <1>8, <1>9
<1>11. {"io", "payload", "atags"} \subseteq Mappings!Users \ Mappings!WindowUsers
  BY DEF Mappings!Users, Mappings!WindowUsers
<1> QED
  BY <1>9, <1>10, <1>11 DEF ReturnInv

\* Every step keeps the slots that are taken those of the regions in use.
LEMMA ReturnStep ==
  ASSUME MapHyp, single, ReturnInv, [Mappings!Next]_(Mappings!vars)
  PROVE  ReturnInv'
<1>0. /\ {"io", "payload", "atags"} \subseteq Mappings!Users \ Mappings!WindowUsers
      /\ {"payload", "atags"} \subseteq Mappings!Users \ {"io"}
  BY DEF Mappings!Users, Mappings!WindowUsers
<1>1. /\ {IO_SIZE, PAGE_SIZE - 1} \subseteq Nat /\ PAYLOAD_SIZES \subseteq Nat
      /\ PAGE_SIZE - 1 < PAGE_SIZE
  BY DEF MapHyp, Mappings!KernelMappingsAssumption
<1>2. {Mappings!IoPage, Mappings!PayloadPage, Mappings!AtagsPage} \subseteq Nat
  BY DEF Mappings!IoPage, Mappings!PayloadPage, Mappings!AtagsPage
<1>a. MapInv(km, {}) /\ Returned(km)
  BY DEF ReturnInv
<1>3. CASE UNCHANGED Mappings!vars
  BY <1>3 DEF Mappings!vars, ReturnInv
<1>4. CASE Mappings!map_io_mem
  <2> DEFINE n == Mappings!frames(IO_SIZE)
             new == Mappings!For(Mappings!map_region(km, n, Mappings!IoPage, IO_SIZE, FALSE), "io")
  <2>1. n \in Nat /\ n <= n /\ n <= Mappings!needed_pages(IO_SIZE)
    BY <1>1, PageCounts
  <2>2. km.at["io"].slot = NULL /\ km.at["payload"].slot = NULL /\ km.at["atags"].slot = NULL
    BY <1>4 DEF ReturnInv, Mappings!map_io_mem
  <2>3. MappedFor(km, new, "io")
    BY <1>0, <1>1, <1>2, <1>a, <2>1, <2>2, ReturnedMap
  <2>4. km' = new /\ temps' = temps /\ boot' = "payload"
    BY <1>4 DEF Mappings!map_io_mem, n
  <2> HIDE DEF new
  <2> QED
    BY <1>0, <2>2, <2>3, <2>4 DEF ReturnInv, MappedFor
<1>5. ASSUME NEW size \in PAYLOAD_SIZES, Mappings!payload_map(size)
      PROVE  ReturnInv'
  <2> DEFINE new == Mappings!For(Mappings!map_phys_mem(km, Mappings!PayloadPage, size,
                                                       FALSE), "payload")
  <2>2. km.at["payload"].slot = NULL /\ km.at["atags"].slot = NULL /\ size < PAGE_SIZE
    BY <1>5 DEF ReturnInv, Mappings!payload_map
  <2>3. MappedFor(km, new, "payload")
    BY <1>0, <1>1, <1>2, <1>a, <2>2, ReturnedWindow
  <2>4. km' = new /\ temps' = temps /\ boot' = "copied"
    BY <1>5 DEF Mappings!payload_map
  <2> HIDE DEF new
  <2> QED
    BY <1>0, <2>2, <2>3, <2>4 DEF ReturnInv, MappedFor
<1>6. CASE Mappings!payload_unmap
  <2> DEFINE new == Mappings!unmap_memory(km, "payload")
  <2>2. km.at["atags"].slot = NULL
    BY <1>6 DEF ReturnInv, Mappings!payload_unmap
  <2>3. /\ MapInv(new, {}) /\ Returned(new) /\ new.at["payload"].slot = NULL
        /\ \A v \in Mappings!Users : v # "payload" => new.at[v] = km.at[v]
    BY <1>0, <1>a, ReturnedUnmap
  <2>4. km' = new /\ temps' = temps /\ boot' = "atags"
    BY <1>6 DEF Mappings!payload_unmap
  <2> HIDE DEF new
  <2> QED
    BY <1>0, <2>2, <2>3, <2>4 DEF ReturnInv, MappedFor
<1>7. CASE Mappings!load_atags
  <2> DEFINE new == Mappings!For(Mappings!map_phys_mem(km, Mappings!AtagsPage, PAGE_SIZE - 1,
                                                       FALSE), "atags")
  <2>2. km.at["atags"].slot = NULL
    BY <1>7 DEF ReturnInv, Mappings!load_atags
  <2>3. MappedFor(km, new, "atags")
    BY <1>0, <1>1, <1>2, <1>a, <2>2, ReturnedWindow
  <2>4. km' = new /\ temps' = temps /\ boot' = "done"
    BY <1>7 DEF Mappings!load_atags
  <2> HIDE DEF new
  <2> QED
    BY <1>0, <2>2, <2>3, <2>4 DEF ReturnInv, MappedFor
<1>8. ASSUME NEW c \in Callers, Mappings!set_tz_package(c)
      PROVE  ReturnInv'
  BY <1>8, PackageReturns
<1>9. CASE Mappings!monitor_return
  <2> DEFINE new == Mappings!free_tz_package(km)
  <2>1. /\ MapInv(new, {}) /\ Returned(new)
        /\ \A v \in Mappings!Users :
             IF v \in Mappings!WindowUsers THEN new.at[v].slot = NULL ELSE new.at[v] = km.at[v]
    BY <1>a, ReturnedFree
  <2>2. km' = new /\ temps' = temps /\ boot' = boot
    BY <1>9 DEF Mappings!monitor_return
  <2> HIDE DEF new
  <2> QED
    BY <1>0, <2>1, <2>2 DEF ReturnInv
<1>10. ~(\E size \in TEMP_SIZES : Mappings!swi_map_tee_temp_ref(size))
       /\ ~(\E r \in temps : Mappings!swi_unmap_tee_temp_ref(r))
  BY DEF ReturnInv, Mappings!swi_map_tee_temp_ref
<1>11. ASSUME NEW s \in Mappings!Slot, Mappings!Access(s) \/ Mappings!Evict(s)
       PROVE  ReturnInv'
  BY <1>11 DEF Mappings!Access, Mappings!Evict, ReturnInv
<1>12. CASE Mappings!invalidate_tlb
  BY <1>12 DEF Mappings!invalidate_tlb, ReturnInv
<1> QED
  BY <1>3, <1>4, <1>5, <1>6, <1>7, <1>8, <1>9, <1>10, <1>11, <1>12 DEF Mappings!Next

\* For page tables, regions and callers of any number and size: a slot that
\* mmm may hand out shows nothing, so that map_kernel_sections never meets
\* "L2 Already mapped", and every byte of every region in use is translated to
\* its own place, although one of the three loops that undo mappings gives
\* back one slot only and another gives back none; and with regions of one
\* page, as the windows of the calls are, every slot that is taken belongs to a
\* region in use, however many calls came and went: for them it does no harm
\* that unmap_memory stops after one page (mm.c:217, 301).
THEOREM RegionsStayShown == Mappings!Spec => []RegionsShown
<1> DEFINE Inv == MapInv(km, temps) /\ (single => ReturnInv)
<1>0. MapHyp
  BY BitmapAssumption, KernelPartsAssumption DEF MapHyp
<1>1. Mappings!Init => Inv
  <2> SUFFICES ASSUME Mappings!Init PROVE Inv
    OBVIOUS
  <2>1. MapInv(km, temps)
    BY <1>0, MapInit
  <2>2. /\ \A s \in Mappings!Slot : km.mmm[s]
        /\ temps = {}
        /\ \A u \in Mappings!Users : km.at[u] = Mappings!NoRegion
    BY DEF Mappings!Init
  <2>3. Mappings!NoRegion.slot = NULL /\ {"io", "payload", "atags"} \subseteq Mappings!Users
    BY DEF Mappings!NoRegion, Mappings!Users
  <2> QED
    BY <2>1, <2>2, <2>3 DEF ReturnInv, Returned
<1>2. Inv /\ [Mappings!Next]_(Mappings!vars) => Inv'
  <2>1. SUFFICES ASSUME Inv, [Mappings!Next]_(Mappings!vars)
                 PROVE  Inv'
    OBVIOUS
  <2>2. MapInv(km, temps)'
    BY <1>0, <2>1, MapStep
  <2>3. single' = single
    BY <2>1 DEF Mappings!Next, Mappings!vars, Mappings!map_io_mem, Mappings!payload_map,
         Mappings!payload_unmap, Mappings!load_atags, Mappings!set_tz_package,
         Mappings!monitor_return, Mappings!swi_map_tee_temp_ref,
         Mappings!swi_unmap_tee_temp_ref, Mappings!Access, Mappings!Evict,
         Mappings!invalidate_tlb
  <2>4. single => ReturnInv'
    BY <1>0, <2>1, ReturnStep
  <2> QED
    BY <2>2, <2>3, <2>4
<1>3. Inv => RegionsShown
  <2>1. SUFFICES ASSUME Inv
                 PROVE  RegionsShown
    OBVIOUS
  <2>2. Mappings!FreeIsUnmapped /\ Mappings!MappedAsAsked
    BY <1>0, <2>1, RegionsTranslated
  <2>3. ASSUME single, NEW s \in Mappings!Slot, ~km.mmm[s]
        PROVE  \E r \in Mappings!Regions :
                 s \in Mappings!Run(r.slot, Mappings!needed_pages(r.size))
    <3>1. PICK u \in Mappings!Users :
            /\ km.at[u].slot # NULL
            /\ s \in Mappings!Run(km.at[u].slot, Mappings!needed_pages(km.at[u].size))
      BY <2>1, <2>3 DEF ReturnInv, Returned
    <3>2. km.at[u] \in Mappings!Regions
      BY <3>1 DEF Mappings!Regions
    <3> QED
      BY <3>1, <3>2
  <2> QED
    BY <2>2, <2>3 DEF RegionsShown, Mappings!RegionsShown, Mappings!SlotsReturned
<1> HIDE DEF Inv
<1> QED
  BY <1>1, <1>2, <1>3, PTL DEF Mappings!Spec

-----------------------------------------------------------------------------
(* The memory at boot                                                      *)

Areas == [pstart : Nat, pend : Int, type : {"secure", "unsecure"}]

\* The areas init_vmm makes of a bank, and the registers that lock one.
AreasOf(bank) ==
  { Memory!init_vmm_areas(bank)[m] : m \in DOMAIN Memory!init_vmm_areas(bank) }
LockOf(area) == [on |-> TRUE, start |-> area.pstart \div PAGE, end |-> area.pend \div PAGE]

\* The board and its banks, one of which holds the kernel.
BoardInv ==
  /\ board \in BOARDS /\ tags \in TAG_LISTS
  /\ \E i \in DOMAIN tags : Memory!Holds(board, tags[i])

\* pmm has the pages of the kernel's bank from the first loop of init_vmm on.
PmmInv ==
  IF pc = "segment" THEN pmm = [start |-> 0, end |-> 0, pages |-> 0]
  ELSE \E i \in DOMAIN tags :
         /\ Memory!Ours(tags[i])
         /\ pmm = Memory!pmm_init(board.phys_heap_end, Memory!pmm_end(tags[i]))

\* The list has areas of the banks, and all of them when the second loop is
\* done.
AreaInv ==
  /\ physical_mem_list \in Seq(Areas) /\ tag \in Nat \ {0}
  /\ \A n \in DOMAIN physical_mem_list : \E j \in DOMAIN tags :
       physical_mem_list[n] \in AreasOf(tags[j])
  /\ \A j \in DOMAIN tags : pc # "segment" /\ (pc = "areas" => j < tag) =>
       \A a \in AreasOf(tags[j]) : \E n \in DOMAIN physical_mem_list : physical_mem_list[n] = a

\* The guest has the tags of the areas that are not secure, or none yet.
GivenInv ==
  \/ given = {} /\ pc \in {"segment", "areas", "protect", "load", "panic"}
  \/ given = Memory!nonsecure_tags(physical_mem_list) /\ pc \in {"normal", "abort", "panic"}

\* A watermark that is set is one of a secure area; those that the loop of
\* pmm_protect_secure_mem has passed are locked.
LockInv ==
  /\ wm \in [0 .. 1 -> [on : BOOLEAN, start : Int, end : Int]]
  /\ cs \in [0 .. 1 -> [start : Int, end : Int]]
  /\ \A c \in 0 .. 1 : wm[c].on <=> cs[c].start # Memory!None
  /\ \A c \in 0 .. 1 : wm[c].on =>
       /\ pc \notin {"segment", "areas"} /\ board.tzmem
       /\ \E n \in DOMAIN physical_mem_list :
            physical_mem_list[n].type = "secure" /\ wm[c] = LockOf(physical_mem_list[n])
  /\ board.tzmem /\ pc \in {"protect", "load", "normal", "abort"} =>
       \A n \in DOMAIN physical_mem_list :
         (pc = "protect" => n < tag) /\ physical_mem_list[n].type = "secure" =>
           \E c \in 0 .. 1 : wm[c] = LockOf(physical_mem_list[n])

MemoryInv == BoardInv /\ PmmInv /\ AreaInv /\ GivenInv /\ LockInv

MemoryHyp == Memory!BootMemoryAssumption

\* The bank of the kernel: init_vmm takes it for its own, and no other.
LEMMA HomeBank ==
  ASSUME MemoryHyp, BoardInv
  PROVE  \E h \in DOMAIN tags :
           /\ Memory!Ours(tags[h]) /\ Memory!Holds(board, tags[h])
           /\ \A j \in DOMAIN tags : Memory!Ours(tags[j]) => j = h
           /\ tags[h].start < board.kernel /\ board.kernel <= board.phys_heap_end
           /\ board.phys_heap_end < tags[h].start + tags[h].size
           /\ board.phys_heap_end <= tags[h].start + SECURE_MEMORY_SIZE
<1>1. PICK h \in DOMAIN tags : Memory!Holds(board, tags[h])
  BY DEF BoardInv
<1>2. /\ board.kernel \in Nat /\ board.phys_heap_end \in Nat /\ board.kernel <= board.phys_heap_end
      /\ \A j \in DOMAIN tags : tags[j].start \in Nat /\ tags[j].size \in Nat
      /\ board.phys_heap_end <= tags[h].start + SECURE_MEMORY_SIZE
      /\ \A j \in DOMAIN tags : j # h =>
           Memory!Span(tags[h].start, tags[h].size) \cap Memory!Span(tags[j].start, tags[j].size) = {}
  <2>1. board \in [kernel : Nat, phys_heap_end : Nat, tzmem : BOOLEAN]
    BY DEF MemoryHyp, Memory!BootMemoryAssumption, BoardInv
  <2>2. tags \in Seq([start : Nat, size : Nat])
    BY DEF MemoryHyp, Memory!BootMemoryAssumption, BoardInv
  <2>3. \A j \in DOMAIN tags : tags[j] \in [start : Nat, size : Nat]
    BY <2>2, ElementOfSeq, LenProperties
  <2> QED
    BY <1>1, <2>1, <2>3 DEF MemoryHyp, Memory!BootMemoryAssumption, BoardInv
<1>3. /\ board.kernel - 1 \in Memory!Span(tags[h].start, tags[h].size)
      /\ board.kernel \in Memory!Span(tags[h].start, tags[h].size)
      /\ board.phys_heap_end \in Memory!Span(tags[h].start, tags[h].size)
  BY <1>1, <1>2 DEF Memory!Holds
<1>4. ASSUME NEW j \in DOMAIN tags, Memory!Ours(tags[j])
      PROVE  j = h
  <2>1. board.kernel \in Memory!Span(tags[j].start, tags[j].size)
    BY <1>2, <1>4 DEF Memory!Ours, Memory!Span
  <2> QED
    BY <1>2, <1>3, <2>1
<1>5. /\ tags[h].start < board.kernel /\ board.phys_heap_end < tags[h].start + tags[h].size
  BY <1>2, <1>3 DEF Memory!Span
<1>6. Memory!Ours(tags[h])
  BY <1>2, <1>5 DEF Memory!Ours
<1> QED
  BY <1>1, <1>2, <1>4, <1>5, <1>6

\* What init_vmm makes of a bank: the end of a secure area is included when there
\* is a remainder and not included when there is none.
LEMMA BankAreas ==
  ASSUME MemoryHyp, NEW bank \in [start : Nat, size : Nat]
  PROVE  /\ Memory!init_vmm_areas(bank) \in Seq(Areas)
         /\ \A a \in AreasOf(bank) :
              /\ a \in Areas
              /\ a.type = "unsecure" =>
                   /\ a.pend = bank.start + bank.size
                   /\ IF Memory!Ours(bank)
                      THEN Memory!Large(bank) /\ a.pstart = bank.start + SECURE_MEMORY_SIZE
                      ELSE a.pstart = bank.start
              /\ a.type = "secure" =>
                   /\ Memory!Ours(bank) /\ a.pstart = bank.start
                   /\ a.pend = IF Memory!Large(bank) THEN bank.start + SECURE_MEMORY_SIZE - 1
                               ELSE bank.start + bank.size
         /\ ~Memory!Ours(bank) => \E a \in AreasOf(bank) :
              /\ a.type = "unsecure" /\ a.pstart = bank.start /\ a.pend = bank.start + bank.size
         /\ Memory!Ours(bank) /\ Memory!Large(bank) => \E a \in AreasOf(bank) :
              /\ a.type = "unsecure" /\ a.pstart = bank.start + SECURE_MEMORY_SIZE
              /\ a.pend = bank.start + bank.size
         /\ Memory!Ours(bank) => \E a \in AreasOf(bank) : a.type = "secure"
<1>1. bank.start \in Nat /\ bank.size \in Nat /\ SECURE_MEMORY_SIZE \in Nat
  BY DEF MemoryHyp, Memory!BootMemoryAssumption
<1> DEFINE all == Memory!Area(bank.start, bank.start + bank.size, "unsecure")
           rest == Memory!Area(bank.start + SECURE_MEMORY_SIZE, bank.start + bank.size, "unsecure")
           low == Memory!Area(bank.start, bank.start + SECURE_MEMORY_SIZE - 1, "secure")
           own == Memory!Area(bank.start, bank.start + bank.size, "secure")
<1>2. {all, rest, low, own} \subseteq Areas
  BY <1>1 DEF Memory!Area, Areas
<1>3. CASE ~Memory!Ours(bank)
  <2>1. Memory!init_vmm_areas(bank) = <<all>>
    BY <1>3 DEF Memory!init_vmm_areas, Memory!UNSECURE
  <2>2. AreasOf(bank) = {all}
    BY <2>1 DEF AreasOf
  <2>3. <<all>> \in Seq(Areas)
    BY <1>2
  <2> QED
    BY <1>2, <1>3, <2>1, <2>2, <2>3 DEF Memory!Area
<1>4. CASE Memory!Ours(bank) /\ Memory!Large(bank)
  <2>1. Memory!init_vmm_areas(bank) = <<rest, low>>
    BY <1>4 DEF Memory!init_vmm_areas, Memory!UNSECURE, Memory!SECURE
  <2>2. AreasOf(bank) = {rest, low}
    BY <2>1 DEF AreasOf
  <2>3. <<rest, low>> \in Seq(Areas)
    BY <1>2
  <2> QED
    BY <1>2, <1>4, <2>1, <2>2, <2>3 DEF Memory!Area
<1>5. CASE Memory!Ours(bank) /\ ~Memory!Large(bank)
  <2>1. Memory!init_vmm_areas(bank) = <<own>>
    BY <1>5 DEF Memory!init_vmm_areas, Memory!SECURE
  <2>2. AreasOf(bank) = {own}
    BY <2>1 DEF AreasOf
  <2>3. <<own>> \in Seq(Areas)
    BY <1>2
  <2> QED
    BY <1>2, <1>5, <2>1, <2>2, <2>3 DEF Memory!Area
<1> QED
  BY <1>3, <1>4, <1>5

\* The banks that init_vmm reads from the tags have starts and sizes.
LEMMA TagTypes ==
  ASSUME MemoryHyp, BoardInv
  PROVE  /\ tags \in Seq([start : Nat, size : Nat])
         /\ \A j \in DOMAIN tags : tags[j] \in [start : Nat, size : Nat]
<1>1. tags \in Seq([start : Nat, size : Nat])
  BY DEF MemoryHyp, Memory!BootMemoryAssumption, BoardInv
<1> QED
  BY <1>1, ElementOfSeq, LenProperties

\* The first loop of init_vmm, which hands the pages of the kernel's bank to pmm,
\* keeps the invariant.
LEMMA SegmentStep ==
  ASSUME MemoryHyp, MemoryInv, Memory!init_vmm_segment
  PROVE  MemoryInv'
<1>1. /\ BoardInv' /\ board' = board /\ tags' = tags /\ physical_mem_list' = physical_mem_list
      /\ cs' = cs /\ wm' = wm /\ given' = given /\ pc = "segment"
      /\ tag' \in Nat \ {0}
  BY DEF MemoryInv, Memory!init_vmm_segment, BoardInv, AreaInv
<1>2. pc' \in {"segment", "areas"} /\ (pc' = "areas" => tag' = 1)
  BY DEF MemoryInv, Memory!init_vmm_segment
<1>3. PmmInv'
  <2>1. tag \in DOMAIN tags
    <3>1. tags \in Seq([start : Nat, size : Nat]) /\ tag \in Nat \ {0} /\ tag <= Len(tags)
      BY TagTypes DEF MemoryInv, AreaInv, Memory!init_vmm_segment
    <3> QED
      BY <3>1, LenProperties
  <2>2. CASE Memory!Ours(tags[tag])
    BY <1>1, <2>1, <2>2 DEF Memory!init_vmm_segment, PmmInv, Memory!Ours, Memory!pmm_end,
         Memory!pmm_init, Memory!Large
  <2>3. CASE ~Memory!Ours(tags[tag])
    BY <1>1, <2>3 DEF MemoryInv, Memory!init_vmm_segment, PmmInv
  <2> QED
    BY <2>2, <2>3
<1>4. AreaInv'
  <2>1. \A j \in DOMAIN tags : j \in Nat \ {0}
    BY TagTypes, LenProperties DEF MemoryInv
  <2>2. \A j \in DOMAIN tags : AreasOf(tags[j])' = AreasOf(tags[j])
    BY <1>1 DEF AreasOf, Memory!init_vmm_areas, Memory!Ours, Memory!Large, Memory!Area,
         Memory!SECURE, Memory!UNSECURE
  <2> QED
    BY <1>1, <1>2, <2>1, <2>2 DEF MemoryInv, AreaInv
<1>5. GivenInv' /\ LockInv'
  BY <1>1, <1>2 DEF MemoryInv, GivenInv, LockInv, LockOf
<1> QED
  BY <1>1, <1>3, <1>4, <1>5 DEF MemoryInv

\* The elements of two sequences put together, as pmm_add_phys_mem_area appends.
LEMMA Joined ==
  ASSUME NEW S, NEW s \in Seq(S), NEW t \in Seq(S)
  PROVE  /\ s \o t \in Seq(S)
         /\ \A n \in DOMAIN s : n \in DOMAIN (s \o t) /\ (s \o t)[n] = s[n]
         /\ \A m \in DOMAIN t : \E n \in DOMAIN (s \o t) : (s \o t)[n] = t[m]
         /\ \A n \in DOMAIN (s \o t) :
              \/ n \in DOMAIN s /\ (s \o t)[n] = s[n]
              \/ \E m \in DOMAIN t : (s \o t)[n] = t[m]
<1>1. /\ Len(s) \in Nat /\ Len(t) \in Nat /\ DOMAIN s = 1 .. Len(s) /\ DOMAIN t = 1 .. Len(t)
  BY LenProperties
<1>2. /\ s \o t \in Seq(S) /\ Len(s \o t) = Len(s) + Len(t)
      /\ \A i \in 1 .. Len(s) + Len(t) :
           (s \o t)[i] = IF i <= Len(s) THEN s[i] ELSE t[i - Len(s)]
  BY ConcatProperties
<1>3. DOMAIN (s \o t) = 1 .. Len(s) + Len(t)
  BY <1>2, LenProperties
<1> DEFINE st == s \o t
<1> HIDE DEF st
<1>4. /\ DOMAIN st = 1 .. Len(s) + Len(t)
      /\ \A i \in 1 .. Len(s) + Len(t) : st[i] = IF i <= Len(s) THEN s[i] ELSE t[i - Len(s)]
  BY <1>2, <1>3 DEF st
<1>5. \A n \in DOMAIN s : n \in DOMAIN st /\ st[n] = s[n]
  BY <1>1, <1>4
<1>6. \A m \in DOMAIN t : \E n \in DOMAIN st : st[n] = t[m]
  <2> TAKE m \in DOMAIN t
  <2>1. Len(s) + m \in DOMAIN st /\ st[Len(s) + m] = t[m]
    BY <1>1, <1>4
  <2> QED
    BY <2>1
<1>7. ASSUME NEW n \in DOMAIN st
      PROVE  \/ n \in DOMAIN s /\ st[n] = s[n]
             \/ \E m \in DOMAIN t : st[n] = t[m]
  <2>1. CASE n <= Len(s)
    BY <1>1, <1>4, <2>1
  <2>2. CASE ~(n <= Len(s))
    <3>1. n - Len(s) \in DOMAIN t /\ st[n] = t[n - Len(s)]
      BY <1>1, <1>4, <2>2
    <3> QED
      BY <3>1
  <2> QED
    BY <2>1, <2>2
<1> QED
  BY <1>2, <1>5, <1>6, <1>7 DEF st

\* The second loop of init_vmm, which makes the list of areas bank by bank, keeps
\* the invariant.
LEMMA AddStep ==
  ASSUME MemoryHyp, MemoryInv, Memory!init_vmm_add
  PROVE  MemoryInv'
<1>1. /\ BoardInv' /\ board' = board /\ tags' = tags /\ pmm' = pmm
      /\ cs' = cs /\ wm' = wm /\ given' = given /\ pc = "areas" /\ tag \in Nat \ {0}
      /\ tag' \in Nat \ {0} /\ physical_mem_list \in Seq(Areas)
  BY DEF MemoryInv, Memory!init_vmm_add, BoardInv, AreaInv
<1>2. /\ tags \in Seq([start : Nat, size : Nat]) /\ DOMAIN tags = 1 .. Len(tags)
      /\ Len(tags) \in Nat
  BY TagTypes, LenProperties DEF MemoryInv
<1>3. \A j \in DOMAIN tags : AreasOf(tags[j])' = AreasOf(tags[j])
  BY <1>1 DEF AreasOf, Memory!init_vmm_areas, Memory!Ours, Memory!Large, Memory!Area,
       Memory!SECURE, Memory!UNSECURE
<1>4. PmmInv'
  <2>1. pc' # "segment"
    BY <1>1 DEF Memory!init_vmm_add
  <2> QED
    BY <1>1, <2>1 DEF MemoryInv, PmmInv, Memory!Ours, Memory!pmm_end, Memory!pmm_init, Memory!Large
<1>5. \A c \in 0 .. 1 : ~wm[c].on
  BY <1>1 DEF MemoryInv, LockInv
<1>6. CASE tag <= Len(tags)
  <2> DEFINE new == Memory!init_vmm_areas(tags[tag])
             old == physical_mem_list
  <2>1. /\ physical_mem_list' = old \o new /\ tag' = tag + 1 /\ pc' = pc
    BY <1>6 DEF Memory!init_vmm_add
  <2>2. tag \in DOMAIN tags /\ new \in Seq(Areas)
    BY <1>1, <1>2, <1>6, TagTypes, BankAreas DEF MemoryInv
  <2>3. AreasOf(tags[tag]) = {new[m] : m \in DOMAIN new}
    BY DEF AreasOf
  <2> HIDE DEF new
  <2>4. /\ old \o new \in Seq(Areas)
        /\ \A n \in DOMAIN old : n \in DOMAIN (old \o new) /\ (old \o new)[n] = old[n]
        /\ \A m \in DOMAIN new : \E n \in DOMAIN (old \o new) : (old \o new)[n] = new[m]
        /\ \A n \in DOMAIN (old \o new) :
             \/ n \in DOMAIN old /\ (old \o new)[n] = old[n]
             \/ \E m \in DOMAIN new : (old \o new)[n] = new[m]
    BY <1>1, <2>2, Joined
  <2> DEFINE list == old \o new
  <2> HIDE DEF list
  <2>5. \A n \in DOMAIN list : \E j \in DOMAIN tags : list[n] \in AreasOf(tags[j])
    BY <2>2, <2>3, <2>4 DEF MemoryInv, AreaInv, list
  <2>6. ASSUME NEW j \in DOMAIN tags, j < tag + 1, NEW a \in AreasOf(tags[j])
        PROVE  \E n \in DOMAIN list : list[n] = a
    <3>1. CASE j < tag
      <4>1. PICK n \in DOMAIN old : old[n] = a
        BY <1>1, <2>6, <3>1 DEF MemoryInv, AreaInv
      <4> QED
        BY <2>4, <4>1 DEF list
    <3>2. CASE j = tag
      BY <2>3, <2>4, <2>6, <3>2 DEF list
    <3> QED
      BY <1>1, <1>2, <2>6, <3>1, <3>2
  <2>7. AreaInv'
    <3>1. physical_mem_list' = list /\ list \in Seq(Areas)
      BY <2>1, <2>4 DEF list
    <3> QED
      BY <1>1, <1>3, <2>1, <2>5, <2>6, <3>1 DEF AreaInv
  <2>8. GivenInv' /\ LockInv'
    BY <1>1, <1>5, <2>1 DEF MemoryInv, GivenInv, LockInv
  <2> QED
    BY <1>1, <1>4, <2>7, <2>8 DEF MemoryInv
<1>7. CASE ~(tag <= Len(tags))
  <2>1. physical_mem_list' = physical_mem_list /\ tag' = 1 /\ pc' = "protect"
    BY <1>7 DEF Memory!init_vmm_add
  <2>2. \A j \in DOMAIN tags : j < tag
    BY <1>1, <1>2, <1>7
  <2>3. AreaInv'
    BY <1>1, <1>3, <2>1, <2>2 DEF MemoryInv, AreaInv
  <2>4. \A n \in DOMAIN physical_mem_list : n \in Nat /\ ~(n < 1)
    BY <1>1, LenProperties
  <2>5. GivenInv' /\ LockInv'
    BY <1>1, <1>5, <2>1, <2>4 DEF MemoryInv, GivenInv, LockInv
  <2> QED
    BY <1>1, <1>4, <2>3, <2>5 DEF MemoryInv
<1> QED
  BY <1>6, <1>7

\* The steps of the boot that leave banks, pmm and list alone.
LEMMA Unmoved ==
  ASSUME MemoryHyp, MemoryInv, UNCHANGED <<board, tags, pmm, physical_mem_list>>,
         pc \in {"protect", "load", "normal", "abort"},
         pc' \in {"protect", "load", "normal", "abort", "panic"}, tag' \in Nat \ {0}
  PROVE  BoardInv' /\ PmmInv' /\ AreaInv'
<1>1. BoardInv'
  BY DEF MemoryInv, BoardInv
<1>2. PmmInv'
  BY DEF MemoryInv, PmmInv, Memory!Ours, Memory!pmm_end, Memory!pmm_init, Memory!Large
<1>3. \A j \in DOMAIN tags : AreasOf(tags[j])' = AreasOf(tags[j])
  BY DEF AreasOf, Memory!init_vmm_areas, Memory!Ours, Memory!Large, Memory!Area,
       Memory!SECURE, Memory!UNSECURE
<1>4. AreaInv'
  BY <1>3 DEF MemoryInv, AreaInv
<1> QED
  BY <1>1, <1>2, <1>4

\* pmm_protect_secure_mem sets the watermark of a chip select that has none.
LEMMA ProtectStep ==
  ASSUME MemoryHyp, MemoryInv, Memory!pmm_protect_secure_mem
  PROVE  MemoryInv'
<1> DEFINE list == physical_mem_list
<1>1. /\ pc = "protect" /\ list \in Seq(Areas) /\ tag \in Nat \ {0}
      /\ UNCHANGED <<board, tags, pmm, physical_mem_list, given>>
  BY DEF MemoryInv, Memory!pmm_protect_secure_mem, AreaInv
<1>2. /\ DOMAIN list = 1 .. Len(list) /\ Len(list) \in Nat
      /\ \A n \in DOMAIN list : list[n] \in Areas
  BY <1>1, ElementOfSeq, LenProperties
<1>3. LockInv
  BY DEF MemoryInv
<1>4. GivenInv' /\ pc' \in {"protect", "load", "panic"} /\ tag' \in Nat \ {0}
  BY <1>1 DEF MemoryInv, GivenInv, Memory!pmm_protect_secure_mem
<1>5. CASE ~board.tzmem \/ tag > Len(list)
  <2>1. pc' = "load" /\ UNCHANGED <<tag, cs, wm>>
    BY <1>5 DEF Memory!pmm_protect_secure_mem
  <2>2. LockInv'
    BY <1>1, <1>2, <1>3, <1>5, <2>1 DEF LockInv
  <2> QED
    BY <1>1, <1>4, <2>2, Unmoved DEF MemoryInv
<1>6. CASE board.tzmem /\ ~(tag > Len(list))
  <2> DEFINE area == list[tag]
             size == area.pend - area.pstart
             c == Memory!imx_m4if_get_cs(area.pstart, size)
  <2>1. tag \in DOMAIN list /\ area \in Areas
    BY <1>1, <1>2, <1>6
  <2>2. CASE area.type # "secure"
    <3>1. tag' = tag + 1 /\ UNCHANGED <<pc, cs, wm>>
      BY <1>6, <2>2 DEF Memory!pmm_protect_secure_mem, Memory!SECURE
    <3>2. \A n \in DOMAIN list : n < tag + 1 /\ list[n].type = "secure" => n < tag
      BY <1>1, <1>2, <2>2
    <3>3. LockInv'
      BY <1>1, <1>3, <3>1, <3>2 DEF LockInv
    <3> QED
      BY <1>1, <1>4, <3>3, Unmoved DEF MemoryInv
  <2>3. CASE area.type = "secure" /\ c # Memory!None /\ cs[c].start = Memory!None
    <3>1. tag' = tag + 1 /\ pc' = pc /\ Memory!imx_m4if_protect_mem(area.pstart, size, c)
      BY <1>6, <2>3 DEF Memory!pmm_protect_secure_mem, Memory!SECURE
    <3>2. c \in 0 .. 1
      BY <2>3 DEF Memory!imx_m4if_get_cs
    <3> HIDE DEF c
    <3>3. area.pstart \in Nat /\ area.pend \in Int /\ area.pstart + size = area.pend
      BY <2>1 DEF Areas
    <3>4. /\ cs' = [cs EXCEPT ![c] = [start |-> area.pstart, end |-> area.pend]]
          /\ wm' = [wm EXCEPT ![c] = LockOf(area)]
      BY <3>1, <3>3 DEF Memory!imx_m4if_protect_mem, LockOf
    <3>5. LockOf(area) \in [on : BOOLEAN, start : Int, end : Int] /\ LockOf(area).on
      <4>1. PAGE \in Nat \ {0}
        BY DEF MemoryHyp, Memory!BootMemoryAssumption
      <4>2. area.pstart \div PAGE \in Int /\ area.pend \div PAGE \in Int
        BY <3>3, <4>1
      <4> QED
        BY <4>2 DEF LockOf
    <3> DEFINE lock == LockOf(area)
    <3> HIDE DEF lock
    <3>6. /\ wm' \in [0 .. 1 -> [on : BOOLEAN, start : Int, end : Int]]
          /\ \A d \in 0 .. 1 : wm'[d] = IF d = c THEN lock ELSE wm[d]
      BY <1>3, <3>2, <3>4, <3>5 DEF LockInv, lock
    <3>7. /\ cs' \in [0 .. 1 -> [start : Int, end : Int]]
          /\ \A d \in 0 .. 1 : d # c => cs'[d] = cs[d]
          /\ cs'[c].start = area.pstart
      BY <1>3, <3>2, <3>3, <3>4 DEF LockInv
    <3>8. area.pstart # Memory!None /\ ~wm[c].on
      BY <1>3, <2>3, <3>2, <3>3 DEF Memory!None, LockInv
    <3>9. \A d \in 0 .. 1 : wm'[d].on <=> cs'[d].start # Memory!None
      BY <1>3, <3>2, <3>5, <3>6, <3>7, <3>8 DEF LockInv, lock
    <3>10. \A d \in 0 .. 1 : wm'[d].on => \E n \in DOMAIN list :
             list[n].type = "secure" /\ wm'[d] = LockOf(list[n])
      BY <1>3, <2>1, <2>3, <3>2, <3>6 DEF LockInv, lock
    <3>11. ASSUME NEW n \in DOMAIN list, n < tag + 1, list[n].type = "secure"
           PROVE  \E d \in 0 .. 1 : wm'[d] = LockOf(list[n])
      <4>1. CASE n = tag
        BY <3>2, <3>6, <4>1 DEF lock
      <4>2. CASE n # tag
        <5>1. n < tag
          BY <1>1, <1>2, <3>11, <4>2
        <5>2. PICK d \in 0 .. 1 : wm[d] = LockOf(list[n])
          BY <1>1, <1>3, <1>6, <3>11, <5>1 DEF LockInv
        <5>3. wm[d].on
          BY <5>2 DEF LockOf
        <5> QED
          BY <3>6, <3>8, <5>2, <5>3
      <4> QED
        BY <4>1, <4>2
    <3>12. LockInv'
      <4>1. \A n \in DOMAIN list : LockOf(list[n])' = LockOf(list[n])
        BY <1>1 DEF LockOf
      <4> QED
        BY <1>1, <1>6, <3>1, <3>6, <3>7, <3>9, <3>10, <3>11, <4>1 DEF LockInv
    <3> QED
      BY <1>1, <1>4, <3>12, Unmoved DEF MemoryInv
  <2>4. CASE area.type = "secure" /\ ~(c # Memory!None /\ cs[c].start = Memory!None)
    <3>1. pc' = "panic" /\ UNCHANGED <<tag, cs, wm>>
      BY <1>6, <2>4 DEF Memory!pmm_protect_secure_mem, Memory!SECURE
    <3>2. LockInv'
      BY <1>1, <1>3, <3>1 DEF LockInv
    <3> QED
      BY <1>1, <1>4, <3>2, Unmoved DEF MemoryInv
  <2> QED
    BY <2>2, <2>3, <2>4
<1> QED
  BY <1>5, <1>6

\* load_linux starts the guest and it accesses memory: both keep the invariant.
LEMMA GuestStep ==
  ASSUME MemoryHyp, MemoryInv,
         Memory!load_guest \/ Memory!normal_access \/ Memory!mon_DA
  PROVE  MemoryInv'
<1>1. /\ pc \in {"load", "normal", "abort"} /\ pc' \in {"normal", "abort", "panic"}
      /\ UNCHANGED <<board, tags, tag, pmm, physical_mem_list, cs, wm>>
  BY DEF Memory!load_guest, Memory!normal_access, Memory!mon_DA
<1>2. tag' \in Nat \ {0}
  BY <1>1 DEF MemoryInv, AreaInv
<1>3. GivenInv'
  BY DEF MemoryInv, GivenInv, Memory!load_guest, Memory!normal_access, Memory!mon_DA,
       Memory!nonsecure_tags, Memory!UNSECURE
<1>4. LockInv'
  BY <1>1 DEF MemoryInv, LockInv, LockOf
<1> QED
  BY <1>1, <1>2, <1>3, <1>4, Unmoved DEF MemoryInv

\* Every step of the boot and of the guest keeps the invariant.
LEMMA MemoryStep ==
  ASSUME MemoryHyp, MemoryInv, [Memory!Next]_(Memory!vars)
  PROVE  MemoryInv'
<1>1. CASE UNCHANGED Memory!vars
  <2>1. UNCHANGED <<board, tags, pc, tag, pmm, physical_mem_list, cs, wm, given>>
    BY <1>1 DEF Memory!vars
  <2>2. BoardInv' /\ GivenInv' /\ LockInv'
    BY <2>1 DEF MemoryInv, BoardInv, GivenInv, LockInv, LockOf, Memory!nonsecure_tags,
         Memory!UNSECURE
  <2>3. PmmInv'
    BY <2>1 DEF MemoryInv, PmmInv, Memory!Ours, Memory!pmm_end, Memory!pmm_init, Memory!Large
  <2>4. \A j \in DOMAIN tags : AreasOf(tags[j])' = AreasOf(tags[j])
    BY <2>1 DEF AreasOf, Memory!init_vmm_areas, Memory!Ours, Memory!Large, Memory!Area,
         Memory!SECURE, Memory!UNSECURE
  <2>5. AreaInv'
    BY <2>1, <2>4 DEF MemoryInv, AreaInv
  <2> QED
    BY <2>2, <2>3, <2>5 DEF MemoryInv
<1> QED
  BY <1>1, SegmentStep, AddStep, ProtectStep, GuestStep DEF Memory!Next

\* Before init_vmm no area is known, given or locked.
LEMMA MemoryInit ==
  ASSUME MemoryHyp, Memory!Init
  PROVE  MemoryInv
<1>1. BoardInv /\ PmmInv /\ GivenInv
  BY DEF Memory!Init, BoardInv, PmmInv, GivenInv
<1>2. AreaInv
  BY DEF Memory!Init, AreaInv
<1>3. LockInv
  BY DEF Memory!Init, LockInv, Memory!None
<1> QED
  BY <1>1, <1>2, <1>3 DEF MemoryInv

\* pmm_init rounds down to whole words of pages: no byte behind the end.
LEMMA WholeWords ==
  ASSUME MemoryHyp, NEW x \in Nat
  PROVE  ((x \div (PAGE * WORD)) * WORD) * PAGE \in 0 .. x
<1> DEFINE d == PAGE * WORD
           q == x \div d
<1>1. PAGE \in Nat \ {0} /\ WORD \in Nat \ {0}
  BY DEF MemoryHyp, Memory!BootMemoryAssumption
<1>2. d \in Nat \ {0}
  BY <1>1
<1>3. (q * WORD) * PAGE = d * q
  <2>1. \A y \in Int : (y * WORD) * PAGE = (PAGE * WORD) * y
    BY <1>1
  <2> HIDE DEF d
  <2>2. q \in Int
    BY <1>2
  <2> HIDE DEF q
  <2> QED
    BY <2>1, <2>2 DEF d
<1>4. d * q \in 0 .. x
  <2> HIDE DEF d
  <2> QED
    BY <1>2
<1> QED
  BY <1>3, <1>4

\* The memory of the secure world is at the start of the kernel's bank.
LEMMA SecurePart ==
  ASSUME MemoryHyp, MemoryInv, NEW h \in DOMAIN tags, Memory!Ours(tags[h]),
         \A j \in DOMAIN tags : Memory!Ours(tags[j]) => j = h,
         tags[h].start < board.kernel, board.kernel <= board.phys_heap_end,
         board.phys_heap_end < tags[h].start + tags[h].size,
         board.phys_heap_end <= tags[h].start + SECURE_MEMORY_SIZE,
         NEW a \in Memory!SecureMemory
  PROVE  /\ a \in Nat /\ tags[h].start <= a /\ a < tags[h].start + tags[h].size
         /\ a < tags[h].start + SECURE_MEMORY_SIZE
<1> DEFINE start == tags[h].start
           size == tags[h].size
           heap == board.phys_heap_end
           end == Memory!pmm_end(tags[h])
<1>1. /\ start \in Nat /\ size \in Nat /\ SECURE_MEMORY_SIZE \in Nat /\ heap \in Nat
      /\ board.kernel \in Nat
  <2>1. tags[h] \in [start : Nat, size : Nat]
    BY TagTypes DEF MemoryInv
  <2>2. board \in [kernel : Nat, phys_heap_end : Nat, tzmem : BOOLEAN]
    BY DEF MemoryInv, BoardInv, MemoryHyp, Memory!BootMemoryAssumption
  <2> QED
    BY <2>1, <2>2 DEF MemoryHyp, Memory!BootMemoryAssumption
<1>2. /\ end \in Nat /\ heap <= end /\ end <= start + size /\ end <= start + SECURE_MEMORY_SIZE
  BY <1>1 DEF Memory!pmm_end, Memory!Large
<1>3. CASE a \in board.kernel .. board.phys_heap_end - 1
  BY <1>1, <1>3
<1>4. CASE a \in Memory!Span(pmm.start, pmm.pages * PAGE)
  <2>0. PAGE \in Nat
    BY DEF MemoryHyp, Memory!BootMemoryAssumption
  <2>1. pc # "segment"
    <3>1. SUFFICES ASSUME pc = "segment"
                   PROVE  FALSE
      OBVIOUS
    <3>2. pmm.start = 0 /\ pmm.pages * PAGE = 0
      BY <2>0, <3>1 DEF MemoryInv, PmmInv
    <3> QED
      BY <1>4, <3>2 DEF Memory!Span
  <2>2. pmm = Memory!pmm_init(heap, end)
    BY <2>1 DEF MemoryInv, PmmInv
  <2> HIDE DEF end, heap
  <2>3. /\ pmm.start = heap
        /\ pmm.pages = ((end - heap) \div (PAGE * WORD)) * WORD
    BY <2>2 DEF Memory!pmm_init
  <2>4. end - heap \in Nat
    BY <1>1, <1>2
  <2>5. pmm.pages * PAGE \in 0 .. end - heap
    BY <2>3, <2>4, WholeWords
  <2> DEFINE n == pmm.pages * PAGE
  <2> HIDE DEF n
  <2>6. a \in heap .. heap + n - 1 /\ n \in 0 .. end - heap
    BY <1>4, <2>3, <2>5 DEF Memory!Span, n
  <2>7. a \in Nat /\ heap <= a /\ a < end
    BY <1>1, <1>2, <2>6
  <2>8. start < heap
    BY <1>1 DEF heap
  <2> QED
    BY <1>1, <1>2, <2>7, <2>8
<1> QED
  BY <1>3, <1>4 DEF Memory!SecureMemory

\* What atag_generate_nonsecure gives to the guest lies in a bank, and behind
\* the secure part if it is the bank of the kernel.
LEMMA NormalPart ==
  ASSUME MemoryHyp, MemoryInv, NEW a \in Memory!NormalMemory
  PROVE  \E j \in DOMAIN tags :
           /\ a \in Memory!Span(tags[j].start, tags[j].size)
           /\ Memory!Ours(tags[j]) => /\ Memory!Large(tags[j])
                                      /\ a >= tags[j].start + SECURE_MEMORY_SIZE
<1> DEFINE list == physical_mem_list
<1>1. PICK t \in given : a \in Memory!Span(t.start, t.size)
  BY DEF Memory!NormalMemory
<1>2. given = Memory!nonsecure_tags(list)
  BY <1>1 DEF MemoryInv, GivenInv
<1>3. PICK n \in DOMAIN list :
        /\ list[n].type = "unsecure"
        /\ t = [start |-> list[n].pstart, size |-> list[n].pend - list[n].pstart]
  BY <1>1, <1>2 DEF Memory!nonsecure_tags, Memory!UNSECURE
<1>4. PICK j \in DOMAIN tags : list[n] \in AreasOf(tags[j])
  BY DEF MemoryInv, AreaInv
<1>5. tags[j] \in [start : Nat, size : Nat]
  BY TagTypes DEF MemoryInv
<1>6. /\ list[n] \in Areas
      /\ list[n].pend = tags[j].start + tags[j].size
      /\ IF Memory!Ours(tags[j])
         THEN Memory!Large(tags[j]) /\ list[n].pstart = tags[j].start + SECURE_MEMORY_SIZE
         ELSE list[n].pstart = tags[j].start
  BY <1>3, <1>4, <1>5, BankAreas
<1>7. SECURE_MEMORY_SIZE \in Nat /\ list[n].pstart \in Nat /\ list[n].pend \in Int
  BY <1>6 DEF Areas, MemoryHyp, Memory!BootMemoryAssumption
<1>8. a \in list[n].pstart .. list[n].pend - 1
  BY <1>1, <1>3, <1>7 DEF Memory!Span
<1>9. /\ a \in Memory!Span(tags[j].start, tags[j].size)
      /\ Memory!Ours(tags[j]) => Memory!Large(tags[j]) /\ a >= tags[j].start + SECURE_MEMORY_SIZE
  BY <1>5, <1>6, <1>7, <1>8 DEF Memory!Span
<1> QED
  BY <1>9

\* All of a bank but its secure part is in a tag of atag_generate_nonsecure.
LEMMA GivenPart ==
  ASSUME MemoryHyp, MemoryInv, pc \in {"normal", "abort"}, NEW j \in DOMAIN tags,
         NEW a \in Memory!Span(tags[j].start, tags[j].size),
         Memory!Ours(tags[j]) => a >= tags[j].start + SECURE_MEMORY_SIZE
  PROVE  a \in Memory!NormalMemory
<1> DEFINE list == physical_mem_list
<1>1. given = Memory!nonsecure_tags(list)
  BY DEF MemoryInv, GivenInv
<1>2. /\ tags[j] \in [start : Nat, size : Nat] /\ SECURE_MEMORY_SIZE \in Nat
  BY TagTypes DEF MemoryInv, MemoryHyp, Memory!BootMemoryAssumption
<1>3. Memory!Ours(tags[j]) => Memory!Large(tags[j])
  BY <1>2 DEF Memory!Span, Memory!Large
<1>4. PICK r \in AreasOf(tags[j]) :
        /\ r.type = "unsecure" /\ r.pend = tags[j].start + tags[j].size
        /\ r.pstart = IF Memory!Ours(tags[j]) THEN tags[j].start + SECURE_MEMORY_SIZE
                      ELSE tags[j].start
  BY <1>2, <1>3, BankAreas
<1>5. PICK n \in DOMAIN list : list[n] = r
  BY <1>4 DEF MemoryInv, AreaInv
<1>6. [start |-> r.pstart, size |-> r.pend - r.pstart] \in given
  BY <1>1, <1>4, <1>5 DEF Memory!nonsecure_tags, Memory!UNSECURE
<1>7. a \in Memory!Span(r.pstart, r.pend - r.pstart)
  BY <1>2, <1>4 DEF Memory!Span
<1> QED
  BY <1>6, <1>7 DEF Memory!NormalMemory

\* What init_vmm hands to pmm and what it leaves for the tags of the guest are
\* apart, make up all of the banks, and the guest is in the second.
LEMMA Divided ==
  ASSUME MemoryHyp, MemoryInv, Memory!GuestPlaced
  PROVE  MemoryDivided
<1>1. PICK h \in DOMAIN tags :
           /\ Memory!Ours(tags[h]) /\ Memory!Holds(board, tags[h])
           /\ \A j \in DOMAIN tags : Memory!Ours(tags[j]) => j = h
           /\ tags[h].start < board.kernel /\ board.kernel <= board.phys_heap_end
           /\ board.phys_heap_end < tags[h].start + tags[h].size
           /\ board.phys_heap_end <= tags[h].start + SECURE_MEMORY_SIZE
  BY HomeBank DEF MemoryInv
<1>2. /\ \A j \in DOMAIN tags : tags[j].start \in Nat /\ tags[j].size \in Nat
      /\ SECURE_MEMORY_SIZE \in Nat
      /\ \A i, j \in DOMAIN tags : i # j =>
           Memory!Span(tags[i].start, tags[i].size) \cap Memory!Span(tags[j].start, tags[j].size) = {}
  <2>1. \A j \in DOMAIN tags : tags[j] \in [start : Nat, size : Nat]
    BY TagTypes DEF MemoryInv
  <2> QED
    BY <2>1 DEF MemoryInv, BoardInv, MemoryHyp, Memory!BootMemoryAssumption
<1>3. Memory!WorldsApart
  <2>1. SUFFICES ASSUME NEW a \in Memory!SecureMemory, a \in Memory!NormalMemory
                 PROVE  FALSE
    BY DEF Memory!WorldsApart
  <2>2. /\ a \in Nat /\ tags[h].start <= a /\ a < tags[h].start + tags[h].size
        /\ a < tags[h].start + SECURE_MEMORY_SIZE
    BY <1>1, <2>1, SecurePart
  <2>3. PICK j \in DOMAIN tags :
           /\ a \in Memory!Span(tags[j].start, tags[j].size)
           /\ Memory!Ours(tags[j]) => /\ Memory!Large(tags[j])
                                      /\ a >= tags[j].start + SECURE_MEMORY_SIZE
    BY <2>1, NormalPart
  <2>4. a \in Memory!Span(tags[h].start, tags[h].size)
    BY <1>2, <2>2 DEF Memory!Span
  <2>5. j = h
    BY <1>2, <2>3, <2>4
  <2> QED
    BY <1>1, <1>2, <2>2, <2>3, <2>5
<1>4. Memory!NothingLost
  <2>1. SUFFICES ASSUME pc = "normal", NEW i \in DOMAIN tags,
                        NEW a \in Memory!Span(tags[i].start, tags[i].size),
                        a \notin Memory!NormalMemory
                 PROVE  Memory!Ours(tags[i]) /\ a < tags[i].start + SECURE_MEMORY_SIZE
    BY DEF Memory!NothingLost
  <2>2. Memory!Ours(tags[i]) /\ ~(a >= tags[i].start + SECURE_MEMORY_SIZE)
    BY <2>1, GivenPart
  <2>3. a \in Int
    BY <1>2 DEF Memory!Span
  <2> QED
    BY <1>2, <2>2, <2>3
<1>5. Memory!GuestInItsMemory
  <2>1. SUFFICES ASSUME pc \in {"normal", "abort"}
                 PROVE  PAYLOAD \in Memory!NormalMemory
    BY DEF Memory!GuestInItsMemory
  <2>2. PICK i \in DOMAIN tags :
          /\ PAYLOAD \in Memory!Span(tags[i].start, tags[i].size)
          /\ Memory!Holds(board, tags[i]) => PAYLOAD >= tags[i].start + SECURE_MEMORY_SIZE
    BY DEF MemoryInv, BoardInv, Memory!GuestPlaced
  <2>3. Memory!Ours(tags[i]) => PAYLOAD >= tags[i].start + SECURE_MEMORY_SIZE
    BY <1>1, <2>2
  <2> QED
    BY <2>1, <2>2, <2>3, GivenPart
<1> QED
  BY <1>3, <1>4, <1>5 DEF MemoryDivided

\* The page of an address, as imx_m4if_protect_mem computes it.
LEMMA PageOf ==
  ASSUME MemoryHyp, NEW x \in Int
  PROVE  /\ x \div PAGE \in Int
         /\ (x \div PAGE) * PAGE <= x /\ x < (x \div PAGE) * PAGE + PAGE
         /\ x % PAGE = 0 => (x \div PAGE) * PAGE = x
<1>1. PAGE \in Nat \ {0}
  BY DEF MemoryHyp, Memory!BootMemoryAssumption
<1> QED
  BY <1>1

\* Of two different page boundaries one is a page behind the other.
LEMMA PagesApart ==
  ASSUME MemoryHyp, NEW m \in Int, NEW n \in Int, m * PAGE < n * PAGE
  PROVE  m * PAGE + PAGE <= n * PAGE
<1>1. PAGE \in Nat \ {0}
  BY DEF MemoryHyp, Memory!BootMemoryAssumption
<1>2. m < n
  <2>1. SUFFICES ASSUME n <= m
                 PROVE  n * PAGE <= m * PAGE
    BY <1>1
  <2>2. m - n \in Nat
    BY <2>1
  <2>3. (m - n) * PAGE >= 0
    BY <1>1, <2>2
  <2>4. (m - n) * PAGE = m * PAGE - n * PAGE
    BY <1>1
  <2> QED
    BY <1>1, <2>3, <2>4
<1>3. n - m - 1 \in Nat
  BY <1>2
<1>4. (n - m - 1) * PAGE >= 0
  BY <1>1, <1>3
<1>5. (n - m - 1) * PAGE = n * PAGE - m * PAGE - PAGE
  BY <1>1
<1> QED
  BY <1>1, <1>4, <1>5

\* The watermark of a secure area covers the pages from the one its start is in
\* to the one its end is in.
LEMMA LockedPages ==
  ASSUME MemoryHyp, NEW area, area.pstart \in Nat, area.pend \in Int
  PROVE  Memory!Span(LockOf(area).start * PAGE,
                     (LockOf(area).end - LockOf(area).start + 1) * PAGE)
           = (area.pstart \div PAGE) * PAGE .. (area.pend \div PAGE) * PAGE + PAGE - 1
<1>1. PAGE \in Nat \ {0}
  BY DEF MemoryHyp, Memory!BootMemoryAssumption
<1> DEFINE first == area.pstart \div PAGE
           last == area.pend \div PAGE
<1>2. first \in Int /\ last \in Int
  BY PageOf
<1>3. LockOf(area).start = first /\ LockOf(area).end = last
  BY DEF LockOf
<1> HIDE DEF first, last
<1>4. first * PAGE \in Int /\ last * PAGE \in Int
  BY <1>1, <1>2
<1>5. (last - first + 1) * PAGE = last * PAGE - first * PAGE + PAGE
  BY <1>1, <1>2
<1>6. Memory!Span(first * PAGE, (last - first + 1) * PAGE) = first * PAGE .. last * PAGE + PAGE - 1
  <2> DEFINE f == first * PAGE
             l == last * PAGE
  <2>1. f \in Int /\ l \in Int /\ PAGE \in Int
    BY <1>1, <1>4
  <2>2. Memory!Span(first * PAGE, (last - first + 1) * PAGE) = f .. f + (l - f + PAGE) - 1
    BY <1>5 DEF Memory!Span
  <2> HIDE DEF f, l
  <2>3. f + (l - f + PAGE) - 1 = l + PAGE - 1
    BY <2>1
  <2> QED
    BY <2>2, <2>3 DEF f, l
<1> QED
  BY <1>3, <1>6 DEF first, last

\* The watermarks that are set lock the secure area of the kernel's bank: its
\* first SECURE_MEMORY_SIZE bytes, or the whole of it and the page behind.
LEMMA LockedArea ==
  ASSUME MemoryHyp, MemoryInv, NEW a \in Memory!Locked
  PROVE  /\ board.tzmem
         /\ \E j \in DOMAIN tags :
              /\ Memory!Ours(tags[j]) /\ a \in Int /\ tags[j].start <= a
              /\ a < IF Memory!Large(tags[j]) THEN tags[j].start + SECURE_MEMORY_SIZE
                     ELSE tags[j].start + tags[j].size + PAGE
<1> DEFINE list == physical_mem_list
<1>1. PICK c \in 0 .. 1 :
        wm[c].on /\ a \in Memory!Span(wm[c].start * PAGE, (wm[c].end - wm[c].start + 1) * PAGE)
  BY DEF Memory!Locked
<1>2. PICK n \in DOMAIN list : list[n].type = "secure" /\ wm[c] = LockOf(list[n])
  BY <1>1 DEF MemoryInv, LockInv
<1>3. PICK j \in DOMAIN tags : list[n] \in AreasOf(tags[j])
  BY DEF MemoryInv, AreaInv
<1>4. /\ tags[j] \in [start : Nat, size : Nat] /\ SECURE_MEMORY_SIZE \in Nat /\ PAGE \in Nat \ {0}
      /\ tags[j].start % PAGE = 0 /\ tags[j].size % PAGE = 0 /\ SECURE_MEMORY_SIZE % PAGE = 0
  BY TagTypes DEF MemoryInv, BoardInv, MemoryHyp, Memory!BootMemoryAssumption
<1>5. /\ list[n] \in Areas /\ Memory!Ours(tags[j]) /\ list[n].pstart = tags[j].start
      /\ list[n].pend = IF Memory!Large(tags[j]) THEN tags[j].start + SECURE_MEMORY_SIZE - 1
                        ELSE tags[j].start + tags[j].size
  BY <1>2, <1>3, <1>4, BankAreas
<1> DEFINE start == tags[j].start
           end == list[n].pend
<1>6. start \in Nat /\ end \in Int /\ tags[j].size \in Nat /\ list[n].pstart = start
  BY <1>4, <1>5 DEF Areas
<1>7. a \in (start \div PAGE) * PAGE .. (end \div PAGE) * PAGE + PAGE - 1
  BY <1>1, <1>2, <1>6, LockedPages
<1>8. (start \div PAGE) * PAGE = start
  BY <1>4, <1>6, PageOf
<1> DEFINE last == (end \div PAGE) * PAGE
<1>9. last \in Int /\ last <= end
  <2>1. end \div PAGE \in Int /\ last <= end
    BY <1>6, PageOf
  <2> QED
    BY <1>4, <2>1
<1> HIDE DEF last
<1>10. a \in Int /\ start <= a /\ a < last + PAGE
  BY <1>4, <1>6, <1>7, <1>8, <1>9 DEF last
<1> DEFINE bound == IF Memory!Large(tags[j]) THEN start + SECURE_MEMORY_SIZE
                    ELSE start + tags[j].size + PAGE
<1>11. ASSUME Memory!Large(tags[j])
       PROVE  a < bound
  <2> DEFINE limit == start + SECURE_MEMORY_SIZE
  <2>1. limit \in Nat /\ last < limit
    BY <1>4, <1>5, <1>6, <1>9, <1>11
  <2>2. (start \div PAGE) * PAGE = start /\ start \div PAGE \in Int
    BY <1>4, <1>6, PageOf
  <2>3. (SECURE_MEMORY_SIZE \div PAGE) * PAGE = SECURE_MEMORY_SIZE /\ SECURE_MEMORY_SIZE \div PAGE \in Int
    BY <1>4, PageOf
  <2> DEFINE m == end \div PAGE
             p == start \div PAGE
             q == SECURE_MEMORY_SIZE \div PAGE
  <2>4. m \in Int /\ p \in Int /\ q \in Int
    BY <1>6, <2>2, <2>3, PageOf
  <2>5. p * PAGE = start /\ q * PAGE = SECURE_MEMORY_SIZE /\ m * PAGE = last
    BY <2>2, <2>3 DEF last
  <2> HIDE DEF m, p, q, limit
  <2>6. (p + q) * PAGE = p * PAGE + q * PAGE
    BY <1>4, <2>4
  <2>7. p + q \in Int /\ m * PAGE < (p + q) * PAGE /\ (p + q) * PAGE = limit
    BY <2>1, <2>4, <2>5, <2>6 DEF limit
  <2>8. m * PAGE + PAGE <= (p + q) * PAGE
    BY <2>4, <2>7, PagesApart
  <2>9. a < limit
    BY <1>4, <1>9, <1>10, <2>1, <2>5, <2>7, <2>8
  <2> QED
    BY <1>11, <2>9 DEF limit
<1>12. ASSUME ~Memory!Large(tags[j])
       PROVE  a < bound
  <2>1. a < start + tags[j].size + PAGE
    BY <1>4, <1>5, <1>6, <1>9, <1>10, <1>12
  <2> QED
    BY <1>12, <2>1
<1>13. board.tzmem
  BY <1>1 DEF MemoryInv, LockInv
<1>14. a < bound
  BY <1>11, <1>12
<1> QED
  BY <1>5, <1>10, <1>13, <1>14

\* pmm_protect_secure_mem has locked what the secure world keeps when the guest
\* runs, and the guest's memory tags name nothing that is locked.
LEMMA Protected ==
  ASSUME MemoryHyp, MemoryInv, Memory!NoNeighbour
  PROVE  SecureLocked
<1>1. PICK h \in DOMAIN tags :
           /\ Memory!Ours(tags[h]) /\ Memory!Holds(board, tags[h])
           /\ \A j \in DOMAIN tags : Memory!Ours(tags[j]) => j = h
           /\ tags[h].start < board.kernel /\ board.kernel <= board.phys_heap_end
           /\ board.phys_heap_end < tags[h].start + tags[h].size
           /\ board.phys_heap_end <= tags[h].start + SECURE_MEMORY_SIZE
  BY HomeBank DEF MemoryInv
<1> DEFINE list == physical_mem_list
           start == tags[h].start
           size == tags[h].size
<1>2. /\ \A j \in DOMAIN tags : tags[j] \in [start : Nat, size : Nat]
      /\ \A j \in DOMAIN tags : tags[j].start \in Nat /\ tags[j].size \in Nat
      /\ SECURE_MEMORY_SIZE \in Nat \ {0} /\ PAGE \in Nat \ {0}
      /\ \A j \in DOMAIN tags : tags[j].start % PAGE = 0 /\ tags[j].size % PAGE = 0
      /\ \A i, j \in DOMAIN tags : i # j =>
           Memory!Span(tags[i].start, tags[i].size) \cap Memory!Span(tags[j].start, tags[j].size) = {}
      /\ board.kernel \in Nat /\ board.phys_heap_end \in Nat
  <2>1. \A j \in DOMAIN tags : tags[j] \in [start : Nat, size : Nat]
    BY TagTypes DEF MemoryInv
  <2>2. board \in [kernel : Nat, phys_heap_end : Nat, tzmem : BOOLEAN]
    BY DEF MemoryInv, BoardInv, MemoryHyp, Memory!BootMemoryAssumption
  <2> QED
    BY <2>1, <2>2 DEF MemoryInv, BoardInv, MemoryHyp, Memory!BootMemoryAssumption
<1>3. Memory!SecureLocked
  <2>1. SUFFICES ASSUME pc \in {"normal", "abort"}, board.tzmem, NEW a \in Memory!SecureMemory
                 PROVE  a \in Memory!Locked
    BY DEF Memory!SecureLocked
  <2>2. /\ a \in Nat /\ start <= a /\ a < start + size /\ a < start + SECURE_MEMORY_SIZE
    BY <1>1, <2>1, SecurePart
  <2>3. PICK r \in AreasOf(tags[h]) : r.type = "secure"
    BY <1>1, <1>2, BankAreas
  <2>4. /\ r \in Areas /\ r.pstart = start
        /\ r.pend = IF Memory!Large(tags[h]) THEN start + SECURE_MEMORY_SIZE - 1
                    ELSE start + size
    BY <1>2, <2>3, BankAreas
  <2>5. PICK n \in DOMAIN list : list[n] = r
    BY <2>1, <2>3 DEF MemoryInv, AreaInv
  <2>6. PICK c \in 0 .. 1 : wm[c] = LockOf(r)
    BY <2>1, <2>3, <2>5 DEF MemoryInv, LockInv
  <2>7. r.pstart \in Nat /\ r.pend \in Int /\ r.pstart <= a /\ a <= r.pend
    BY <1>2, <2>2, <2>4 DEF Areas
  <2>8. a \in (r.pstart \div PAGE) * PAGE .. (r.pend \div PAGE) * PAGE + PAGE - 1
    <3> DEFINE bottom == (r.pstart \div PAGE) * PAGE
               top == (r.pend \div PAGE) * PAGE
    <3>1. bottom \in Int /\ bottom <= r.pstart
      <4>1. r.pstart \div PAGE \in Int /\ bottom <= r.pstart
        BY <2>7, PageOf
      <4> QED
        BY <1>2, <4>1
    <3>2. top \in Int /\ r.pend < top + PAGE
      <4>1. r.pend \div PAGE \in Int /\ r.pend < top + PAGE
        BY <2>7, PageOf
      <4> QED
        BY <1>2, <4>1
    <3> HIDE DEF bottom, top
    <3>3. a \in bottom .. top + PAGE - 1
      BY <1>2, <2>2, <2>7, <3>1, <3>2
    <3> QED
      BY <3>3 DEF bottom, top
  <2>9. a \in Memory!Span(wm[c].start * PAGE, (wm[c].end - wm[c].start + 1) * PAGE)
    BY <2>6, <2>7, <2>8, LockedPages
  <2>10. wm[c].on
    BY <2>6 DEF LockOf
  <2> QED
    BY <2>9, <2>10 DEF Memory!Locked
<1>4. Memory!GuestMayUse
  <2>1. SUFFICES ASSUME NEW a \in Memory!NormalMemory, a \in Memory!Locked
                 PROVE  FALSE
    BY DEF Memory!GuestMayUse
  <2>2. /\ board.tzmem /\ a \in Int /\ start <= a
        /\ a < IF Memory!Large(tags[h]) THEN start + SECURE_MEMORY_SIZE
               ELSE start + size + PAGE
    BY <1>1, <2>1, LockedArea
  <2>3. PICK j \in DOMAIN tags :
           /\ a \in Memory!Span(tags[j].start, tags[j].size)
           /\ Memory!Ours(tags[j]) => /\ Memory!Large(tags[j])
                                      /\ a >= tags[j].start + SECURE_MEMORY_SIZE
    BY <2>1, NormalPart
  <2>4. ~(j = h)
    BY <1>1, <1>2, <2>2, <2>3
  <2>5. a \notin Memory!Span(start, size)
    BY <1>2, <2>3, <2>4
  <2>6. a >= start + size
    BY <1>2, <2>2, <2>5 DEF Memory!Span
  <2>7. ~Memory!Large(tags[h])
    BY <1>2, <2>2, <2>6 DEF Memory!Large
  <2> DEFINE end == start + size
             next == tags[j].start
  <2>8. end - 1 \in Memory!Span(start, size) /\ end \in Nat /\ next \in Nat
    <3>1. start \in Nat /\ size \in Nat /\ next \in Nat
      BY <1>2
    <3>2. 1 <= size
      <4>1. board.kernel \in Nat /\ board.phys_heap_end \in Nat
        BY <1>2
      <4>2. /\ start < board.kernel /\ board.kernel <= board.phys_heap_end
            /\ board.phys_heap_end < start + size
        BY <1>1
      <4> HIDE DEF start, size
      <4> QED
        BY <3>1, <4>1, <4>2
    <3> HIDE DEF start, size
    <3>3. end - 1 \in start .. end - 1 /\ end \in Nat
      BY <3>1, <3>2
    <3> QED
      BY <3>1, <3>3 DEF Memory!Span
  <2>9. end - 1 \notin Memory!Span(next, tags[j].size)
    BY <1>2, <2>4, <2>8
  <2>10. next >= end
    BY <1>2, <2>3, <2>6, <2>8, <2>9 DEF Memory!Span
  <2>11. next # end
    <3>1. size <= SECURE_MEMORY_SIZE
      BY <1>2, <2>7 DEF Memory!Large
    <3> QED
      BY <1>1, <2>2, <3>1 DEF Memory!NoNeighbour, MemoryInv, BoardInv
  <2>12. end + PAGE <= next
    <3> DEFINE p == start \div PAGE
               q == size \div PAGE
               m == next \div PAGE
    <3>1. /\ p \in Int /\ q \in Int /\ m \in Int
          /\ p * PAGE = start /\ q * PAGE = size /\ m * PAGE = next
      BY <1>2, PageOf
    <3> HIDE DEF p, q, m
    <3>2. (p + q) * PAGE = p * PAGE + q * PAGE
      BY <1>2, <3>1
    <3>3. (p + q) * PAGE = end
      BY <3>1, <3>2
    <3> HIDE DEF end, next
    <3>4. p + q \in Int /\ (p + q) * PAGE < m * PAGE
      BY <2>8, <2>10, <2>11, <3>1, <3>3
    <3> QED
      BY <3>1, <3>3, <3>4, PagesApart DEF next
  <2>13. a < end + PAGE /\ a >= next
    BY <1>2, <2>2, <2>3, <2>7 DEF Memory!Span
  <2> QED
    BY <1>2, <2>2, <2>8, <2>12, <2>13
<1> QED
  BY <1>3, <1>4 DEF SecureLocked

\* Whatever the banks a boot loader passes and wherever in its bank the kernel
\* is loaded, the memory is divided: no byte of the kernel, its heap or the
\* pages of pmm is in a tag of the guest, every other byte of the banks is, and
\* the guest is copied to memory of its own (init_vmm,
\* atag_generate_nonsecure).
THEOREM MemoryStaysDivided ==
  ASSUME Memory!GuestPlaced
  PROVE  Memory!Spec => []MemoryDivided
<1>1. Memory!Init => MemoryInv
  BY KernelPartsAssumption, MemoryInit DEF MemoryHyp
<1>2. MemoryInv /\ [Memory!Next]_(Memory!vars) => MemoryInv'
  BY KernelPartsAssumption, MemoryStep DEF MemoryHyp
<1>3. MemoryInv => MemoryDivided
  BY KernelPartsAssumption, Divided DEF MemoryHyp
<1> QED
  BY <1>1, <1>2, <1>3, PTL DEF Memory!Spec

\* The normal world never runs on a board with a memory controller before all
\* that the secure world keeps is locked, and the watermarks lock nothing that
\* the guest was given (pmm_protect_secure_mem, imx_m4if_protect_mem).
THEOREM SecureStaysLocked ==
  ASSUME Memory!NoNeighbour
  PROVE  Memory!Spec => []SecureLocked
<1>1. Memory!Init => MemoryInv
  BY KernelPartsAssumption, MemoryInit DEF MemoryHyp
<1>2. MemoryInv /\ [Memory!Next]_(Memory!vars) => MemoryInv'
  BY KernelPartsAssumption, MemoryStep DEF MemoryHyp
<1>3. MemoryInv => SecureLocked
  BY KernelPartsAssumption, Protected DEF MemoryHyp
<1> QED
  BY <1>1, <1>2, <1>3, PTL DEF Memory!Spec
=============================================================================
