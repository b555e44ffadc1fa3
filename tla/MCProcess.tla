----------------------------- MODULE MCProcess -----------------------------
(***************************************************************************)
(* What the kernel keeps of a trustlet's process, for one run: the memory  *)
(* lent to it for a call, its address space and its file handles.  The     *)
(* three share no state but the pages of pmm, of which each run has its    *)
(* own; part says which one moves.                                         *)
(***************************************************************************)
EXTENDS TaskMemory, FileHandles

VARIABLES
  part,
  frames, bytes, proc, panicked            \* UserSpace

space_vars == <<frames, bytes, proc, panicked>>

\* Images in pages of 4 bytes and words of 2: text, and data whose part in the
\* file ends inside a word, without and with a TLS template that has variables
\* without an initial value.
Segment(vaddr, filesz, memsz) == [vaddr |-> vaddr, filesz |-> filesz, memsz |-> memsz]
Image(start, filesz, memsz) ==
  [load |-> <<Segment(4, 4, 4), Segment(14, 5, 7)>>,
   tls |-> [start |-> start, filesz |-> filesz, memsz |-> memsz]]

Space == INSTANCE UserSpace WITH
           pmm <- frames, BITS <- 8, Images <- {Image(0, 0, 0), Image(14, 2, 3)},
           PAGES <- 21,
           PAGE_SIZE <- 4, WORD <- 2, VPAGES <- 30, THREAD_PAGE <- 24, SPACING <- 5,
           STACK_PAGES <- 2, EARLY_CHUNKS <- 1, Requests <- {2, 5, 200}, MINSIZE <- 1,
           TRIM_THRESHOLD <- 12

ASSUME ProcessAssumption == Space!UserSpaceAssumption

-----------------------------------------------------------------------------
PInit ==
  /\ part \in {"lent", "space", "handles"}
  /\ Init /\ Space!Init /\ HandlesInit
  /\ part # "lent" => ~small
  /\ part # "handles" => ~others

PNext ==
  \/ part = "lent" /\ Next /\ UNCHANGED <<part, space_vars, handle_vars>>
  \/ part = "space" /\ Space!Next /\ UNCHANGED <<part, vars, handle_vars>>
  \/ part = "handles" /\ HandlesNext /\ UNCHANGED <<part, vars, space_vars>>

PSpec == PInit /\ [][PNext]_<<part, vars, space_vars, handle_vars>>
-----------------------------------------------------------------------------
\* The heap a trustlet was given lies on pages of its page table, and no page is
\* shared by two processes or by two uses (swi_newlib.c:293, loader.c:139).
SpaceBacked == part = "space" => Space!HeapBacked /\ Space!FramesOwn

\* sbrk stops the kernel only when there is no memory left or the process had
\* made its heap smaller before (swi_newlib.c:318).
PanicOnlyWhenFull == part = "space" => Space!PanicOnlyWhenFull

\* The process finds its image as the ELF file has it, but for an end of the
\* file's part inside a word, and its thread-local variables with their initial
\* values, where they have one (loader.c:171, 181).
ImageLoaded == part = "space" => Space!ImageLoaded /\ Space!TlsInitialised
=============================================================================
