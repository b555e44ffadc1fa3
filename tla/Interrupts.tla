----------------------------- MODULE Interrupts -----------------------------
(***************************************************************************)
(* Interrupts of the secure world: the handler table of                    *)
(* interrupt_controller.c and the TrustZone interrupt controller behind    *)
(* it.  A secure interrupt is signalled as FIQ, which the monitor takes    *)
(* and answers with irq_do; the normal world serves the others.            *)
(*                                                                         *)
(* The controller is hardware: an interrupt is pending while its source is *)
(* asserted and it is enabled; writing a register of the kind "set" sets   *)
(* the bits that are written as 1 and leaves the others alone.             *)
(***************************************************************************)
EXTENDS Naturals, FiniteSets

CONSTANTS
  MAX_IRQ,   \* interrupts of the controller, 128 in the code
  BITS,      \* interrupts of a register, 32 in the code
  MayFree    \* TRUE when handlers are also freed

\* What the constants are.
InterruptsAssumption ==
  /\ MAX_IRQ \in Nat \ {0} /\ BITS \in Nat \ {0} /\ MAX_IRQ % BITS = 0
  /\ MayFree \in BOOLEAN

Irqs == 0..(MAX_IRQ - 1)
None == MAX_IRQ

VARIABLES
  handler,   \* handler_table: the interrupts with a handler
  caught,    \* the interrupt between IRQ_CATCH and its entry in the table
  released,  \* the interrupt between IRQ_RELEASE and the removal of its entry
  freed,     \* interrupts whose handler was freed and not registered again
  intctrl,   \* the controller signals interrupts
  secure,    \* INTSEC, bits 0: the interrupts of the secure world
  enset,     \* ENSET: the enabled interrupts
  high,      \* interrupts whose priority was raised
  src,       \* asserted sources
  scan       \* how far irq_do has come

kernel == <<handler, caught, released, freed>>
controller == <<intctrl, secure, enset, high>>
vars == <<handler, caught, released, freed, intctrl, secure, enset, high, src, scan>>

Idle == [on |-> FALSE, pass |-> 1, irq |-> 0, word |-> FALSE]

Init ==
  /\ handler = {} /\ caught = None /\ released = None /\ freed = {}
  /\ intctrl = TRUE /\ secure = {} /\ enset = {} /\ high = {}
  /\ src = {} /\ scan = Idle

\* The registers PENDING and HIPENDING.
pending == src \cap enset
hipending == pending \cap high

\* A device asserts its source.
Raise(irq) ==
  /\ irq \in Irqs \ src
  /\ src' = src \cup {irq}
  /\ UNCHANGED <<kernel, controller, scan>>

\* The normal world, when it has the processor, enables what it needs and
\* serves what is its own.
NormalRuns == ~scan.on /\ caught = None /\ released = None

normal_enable(irq) ==
  /\ NormalRuns
  /\ irq \in Irqs \ (secure \cup enset)
  /\ enset' = enset \cup {irq}
  /\ UNCHANGED <<kernel, intctrl, secure, high, src, scan>>

normal_irq(irq) ==
  /\ NormalRuns /\ intctrl
  /\ irq \in pending \ secure
  /\ src' = src \ {irq}
  /\ UNCHANGED <<kernel, controller, scan>>

-----------------------------------------------------------------------------
(* The kernel.  It is interrupted by FIQ at any point; what it does while  *)
(* the controller is disabled is one step.                                 *)

KernelRuns == ~scan.on

\* A version that leaves the register as it is.
imx_tzic_set_enable_not(irq) == UNCHANGED enset

\* A secure interrupt is one of high priority, also when it is no longer
\* secure.
imx_tzic_set_secure(irq) == secure' = secure \cup {irq} /\ high' = high \cup {irq}
imx_tzic_unset_secure(irq) == secure' = secure \ {irq} /\ UNCHANGED high

\* Both write ENSET, where a 0 changes nothing.
imx_tzic_set_enable(irq) == enset' = enset \cup {irq}
imx_tzic_unset_enable(irq) == UNCHANGED enset

\* IRQ_CATCH.
imx_tzic_catch(irq) ==
  /\ imx_tzic_set_secure(irq)
  /\ imx_tzic_set_enable(irq)
  /\ intctrl' = TRUE

\* IRQ_RELEASE, after which the controller stays disabled.
imx_tzic_release(irq) ==
  /\ imx_tzic_unset_secure(irq)
  /\ imx_tzic_unset_enable(irq)
  /\ intctrl' = FALSE

\* irq_register_handler up to the controller's answer.  The range check lets
\* MAX_IRQ pass; what lies behind the table decides whether the controller
\* is asked, which refuses and enables itself again.
irq_register_handler(irq) ==
  /\ KernelRuns /\ caught = None /\ released = None
  /\ irq \in Irqs \ handler
  /\ imx_tzic_catch(irq)
  /\ caught' = irq
  /\ UNCHANGED <<handler, released, freed, src, scan>>

irq_register_handler_max ==
  /\ KernelRuns /\ caught = None /\ released = None
  /\ intctrl' \in {intctrl, TRUE}
  /\ UNCHANGED <<kernel, secure, enset, high, src, scan>>

\* The handler is entered in the table.
irq_registered ==
  /\ KernelRuns /\ caught # None
  /\ handler' = handler \cup {caught}
  /\ freed' = freed \ {caught}
  /\ caught' = None
  /\ UNCHANGED <<released, controller, src, scan>>

irq_free(irq) ==
  /\ MayFree
  /\ KernelRuns /\ caught = None /\ released = None
  /\ irq \in handler
  /\ imx_tzic_release(irq)
  /\ released' = irq
  /\ UNCHANGED <<handler, caught, freed, src, scan>>

irq_freed ==
  /\ KernelRuns /\ released # None
  /\ handler' = handler \ {released}
  /\ freed' = freed \cup {released}
  /\ released' = None
  /\ UNCHANGED <<caught, controller, src, scan>>

-----------------------------------------------------------------------------
(* FIQ: imx_tzic_do_pending walks through the high-priority and then all   *)
(* pending interrupts, register by register, reading them again each time. *)

fiq ==
  /\ ~scan.on
  /\ intctrl /\ pending \cap secure # {}
  /\ scan' = [Idle EXCEPT !.on = TRUE]
  /\ UNCHANGED <<kernel, controller, src>>

WordOf(irq) == {i \in Irqs : i \div BITS = irq \div BITS}

\* A version that quiets the source of an interrupt without handler.
irq_handle_any(irq) == src' = src \ {irq}

\* irq_handle: the handler of the interrupt, if there is one, quiets its
\* source.
irq_handle(irq) == src' = IF irq \in handler THEN src \ {irq} ELSE src

\* The loops over passes, registers and bits.
next_bit(word) ==
  IF scan.irq + 1 < MAX_IRQ
  THEN [scan EXCEPT !.irq = @ + 1, !.word = word]
  ELSE IF scan.pass = 1 THEN [Idle EXCEPT !.on = TRUE, !.pass = 2] ELSE Idle

\* One turn of the inner loop.  At its first bit a register is looked at as
\* a whole: it is passed over when no secure interrupt is pending in it.
imx_tzic_do_pending ==
  LET p == IF scan.pass = 1 THEN hipending ELSE pending
      word == IF scan.irq % BITS = 0 THEN WordOf(scan.irq) \cap p \cap secure # {}
              ELSE scan.word
  IN  /\ scan.on
      /\ IF word /\ scan.irq \in p THEN irq_handle(scan.irq) ELSE UNCHANGED src
      /\ scan' = next_bit(word)
      /\ UNCHANGED <<kernel, controller>>

Next ==
  \/ \E irq \in Irqs : \/ Raise(irq)
                       \/ normal_enable(irq)
                       \/ normal_irq(irq)
                       \/ irq_register_handler(irq)
                       \/ irq_free(irq)
  \/ irq_register_handler_max \/ irq_registered \/ irq_freed
  \/ fiq \/ imx_tzic_do_pending

\* The monitor takes a FIQ that is signalled, its handler comes to its end,
\* and the kernel finishes a registration that it began.
Fairness ==
  /\ WF_vars(fiq) /\ WF_vars(imx_tzic_do_pending)
  /\ WF_vars(irq_registered) /\ WF_vars(irq_freed)

Spec == Init /\ [][Next]_vars /\ Fairness

-----------------------------------------------------------------------------
TypeOK ==
  /\ handler \subseteq Irqs /\ secure \subseteq Irqs /\ enset \subseteq Irqs
  /\ high \subseteq Irqs /\ src \subseteq Irqs /\ freed \subseteq Irqs
  /\ caught \in Irqs \cup {None} /\ released \in Irqs \cup {None}
  /\ intctrl \in BOOLEAN
  /\ scan \in [on : BOOLEAN, pass : {1, 2}, irq : Irqs, word : BOOLEAN]

\* A secure interrupt has a handler and a handler a secure interrupt, but for
\* the one that is being registered or freed (interrupt_controller.c:108).
HandlersSecure ==
  /\ secure = (handler \ {released}) \cup ({caught} \ {None})
  /\ handler \cap {caught} = {}

\* irq_do never quiets a source of the normal world, although it goes through
\* all pending interrupts of a register in which a secure one is pending
\* (imx_tzic.c:245).
NormalSourcesKept ==
  [][scan.on => \A irq \in src \ src' : irq \in secure]_vars

\* The sources of the two worlds stay apart (interrupt_controller.c:124,
\* imx_tzic.c:245).
SourcesApart == []HandlersSecure /\ NormalSourcesKept

\* A registered interrupt that is raised is handled, unless its handler is
\* freed or the controller switched off before, as IRQ_RELEASE leaves it
\* (imx_tzic.c:225, 309).
RaisedIsHandled ==
  \A irq \in Irqs :
    (irq \in handler /\ irq \in src) ~> (irq \notin src \/ irq \notin handler \/ ~intctrl)

\* The same for as long as the interrupts stay registered, whatever others are
\* freed.
RaisedIsServed ==
  \A irq \in Irqs : (irq \in handler /\ irq \in src) ~> (irq \notin src \/ irq \notin handler)

\* An interrupt whose handler was freed is disabled (imx_tzic.c:169).
FreedIsDisabled == freed \cap enset = {}
=============================================================================
