------------------------------ MODULE MCKernel ------------------------------
(***************************************************************************)
(* Parts of the secure kernel that share no state, for one run: the page   *)
(* allocator, the heap, the mappings, the division of the memory at boot   *)
(* and the interrupts.  A behaviour of all of them is an interleaving of   *)
(* behaviours of each, and every property below is about one: it holds of  *)
(* all interleavings if it holds of those in which the other parts stay    *)
(* where they start.  part says which part moves.  The heap moves as long  *)
(* as HeapSound says something of it.                                      *)
(***************************************************************************)
EXTENDS PageAllocator, KernelHeap, KernelParts

VARIABLE part

-----------------------------------------------------------------------------
(* Boards and banks with 16 bytes for 256 MB: 0x70000000 is 7 * 16.        *)

M256 == 16
Bank(start, length) == [start |-> start, size |-> length]

\* The i.MX53 board, with the kernel at 0xB0008000 and a controller, and the
\* emulated board with the kernel at 0x60010000 and none.
Imx53 == [kernel |-> 11 * M256 + 1, phys_heap_end |-> 11 * M256 + 4, tzmem |-> TRUE]
Vexpress == [kernel |-> 6 * M256 + 1, phys_heap_end |-> 6 * M256 + 4, tzmem |-> FALSE]

\* A bank at each chip select, of 64 MB to 512 MB, in either order; or the
\* upper one split in two by the boot loader, with a gap.  The emulated board
\* has one bank from 0x60000000.
Lengths == {M256 \div 4, M256 \div 2, M256 - 2, M256, M256 + 2, M256 + 6, 2 * M256}
Pairs == { <<Bank(7 * M256, s), Bank(11 * M256, t)>> : s \in Lengths, t \in Lengths }
Reversed == { <<l[2], l[1]>> : l \in Pairs }
Three == { <<Bank(7 * M256, s), Bank(11 * M256, t), Bank(12 * M256 + 4, M256 \div 4)>> :
             s \in Lengths, t \in {u \in Lengths : u <= M256 + 2} }
Emulated == { <<Bank(6 * M256, M256 + s)>> : s \in Lengths }

Boards == {Imx53, Vexpress}
TagLists == Pairs \cup Reversed \cup Three \cup Emulated

\* The banks are such that the guest has its place, and the lock takes no page
\* of another bank.
ASSUME BanksAssumption == Memory!GuestPlaced /\ Memory!NoNeighbour

-----------------------------------------------------------------------------
KInit ==
  /\ part \in {"pages", "heap", "mappings", "memory", "interrupts"}
  /\ Init /\ HeapInit /\ Mappings!Init /\ Memory!Init /\ Irq!Init
  /\ part # "mappings" => ~single
  /\ part # "memory" => tags = <<Bank(6 * M256, 2 * M256)>>

KNext ==
  \/ /\ part = "pages" /\ Next
     /\ UNCHANGED <<part, heap_vars, mapping_vars, memory_vars, irq_vars>>
  \/ /\ part = "heap" /\ ~stale /\ HeapNext
     /\ UNCHANGED <<part, vars, mapping_vars, memory_vars, irq_vars>>
  \/ /\ part = "mappings" /\ Mappings!Next
     /\ UNCHANGED <<part, vars, heap_vars, memory_vars, irq_vars>>
  \/ /\ part = "memory" /\ Memory!Next
     /\ UNCHANGED <<part, vars, heap_vars, mapping_vars, irq_vars>>
  \/ /\ part = "interrupts" /\ Irq!Next
     /\ UNCHANGED <<part, vars, heap_vars, mapping_vars, memory_vars>>

\* No fair action of Interrupts is enabled where it starts.
KSpec ==
  /\ KInit
  /\ [][KNext]_<<part, vars, heap_vars, mapping_vars, memory_vars, irq_vars>>
  /\ Irq!Fairness
-----------------------------------------------------------------------------
\* A registered interrupt is handled, unless the controller is switched off
\* or its handler freed (imx_tzic.c:225).
RaisedIsHandled == Irq!RaisedIsHandled
=============================================================================
