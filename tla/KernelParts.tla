---------------------------- MODULE KernelParts ----------------------------
(***************************************************************************)
(* The mappings into the kernel's address space, the division of the       *)
(* memory at boot and the interrupts of the secure world: three parts of   *)
(* the kernel that share no state.                                         *)
(***************************************************************************)
EXTENDS PageBitmap

CONSTANTS
  SLOTS, TABLE, PAGE_SIZE, IO_SIZE, PAYLOAD_SIZES, TEMP_SIZES, Callers,
  MAX_TEMPS, TLB_ENTRIES,                              \* KernelMappings
  PAGE, WORD, SECURE_MEMORY_SIZE, CS0_START, CS0_BORDER, CS0_END, CS1_START,
  CS1_BORDER, CS1_END, PAYLOAD, BOARDS, TAG_LISTS,     \* BootMemory
  MAX_IRQ, IRQ_BITS, MayFree                           \* Interrupts

VARIABLES
  boot, km, temps, tlb, single,                        \* KernelMappings
  board, tags, pc, tag, pmm, physical_mem_list, cs, wm, given, dfar,
                                                       \* BootMemory
  handler, caught, released, freed, intctrl, secure, enset, high, src, scan
                                                       \* Interrupts

mapping_vars == <<boot, km, temps, tlb, single>>
memory_vars == <<board, tags, pc, tag, pmm, physical_mem_list, cs, wm, given, dfar>>
irq_vars == <<handler, caught, released, freed, intctrl, secure, enset, high, src, scan>>

Mappings == INSTANCE KernelMappings
Memory == INSTANCE BootMemory WITH mem <- tag
Irq == INSTANCE Interrupts WITH BITS <- IRQ_BITS

\* What the constants of the three are.
ASSUME KernelPartsAssumption ==
  /\ Mappings!KernelMappingsAssumption /\ Memory!BootMemoryAssumption
  /\ Irq!InterruptsAssumption
-----------------------------------------------------------------------------
\* What mmm may hand out shows nothing and every byte of a region in use is
\* translated to its own place; with regions of one page a slot that is taken
\* belongs to a region in use, however many calls came and went (mm.c:217, 301).
RegionsShown == Mappings!RegionsShown

\* The memory given to the guest and the secure world's are apart, what the guest
\* does not get is in the secure part, and the guest lies in memory of its own
\* (vmm.c:178, linux_loader.c:53).
MemoryDivided == Memory!WorldsApart /\ Memory!NothingLost /\ Memory!GuestInItsMemory

\* The guest does not start before the secure part is locked, and the lock takes
\* nothing it was promised (pmm.c:148, imx_m4if.c:148).
SecureLocked == Memory!SecureLocked /\ Memory!GuestMayUse

\* Interrupts are secure if and only if they have a handler, and irq_do quiets no
\* source of the normal world (interrupt_controller.c:124, imx_tzic.c:245).
SourcesApart == Irq!SourcesApart
=============================================================================
