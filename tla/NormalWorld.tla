---------------------------- MODULE NormalWorld ----------------------------
(***************************************************************************)
(* The normal world's side of a call: the client library in a process, the *)
(* control mailbox with the daemon, and the pages of calls in the driver.  *)
(* Each is modelled with what is below it left open, and they share no     *)
(* state; part says which one moves while the others stay where they       *)
(* start.  The constants say which faults happen.                          *)
(***************************************************************************)
EXTENDS Integers, FiniteSets

CONSTANTS
  NULL,
  Threads, Refused, Ioctls, Devices, Returns, LIBRARY_CALLS,     \* ClientLib
  Copies, Crashes, MAX_REQUESTS,                                 \* CtrlMailbox
  Callers, Pages, Others, DRIVER_CALLS, MAX_SERVICES             \* DriverPages

VARIABLES
  part,
  commMutex, comm, tee_fd, pc, op, calls, answer, got,           \* ClientLib
  ctrl_mutex, pending, page, client_pc, daemon_pc, daemon_comm, executed,
                                                                 \* CtrlMailbox
  free, others, content, caller_pc, teemem, ctrlspace, package,  \* DriverPages
  ctrl_pages_1, ctrlspace_1, ctrlspace_2, caller_calls, services, caller_got,
  taken, dangling

library_vars == <<commMutex, comm, tee_fd, pc, op, calls, answer, got>>
mailbox_vars == <<ctrl_mutex, pending, page, client_pc, daemon_pc, daemon_comm, executed>>
page_vars == <<free, others, content, caller_pc, teemem, ctrlspace, package, ctrl_pages_1,
               ctrlspace_1, ctrlspace_2, caller_calls, services, caller_got, taken, dangling>>

Library == INSTANCE ClientLib WITH MAX_CALLS <- LIBRARY_CALLS
Mailbox == INSTANCE CtrlMailbox WITH comm <- daemon_comm

CallPages == INSTANCE DriverPages WITH
               pc <- caller_pc, calls <- caller_calls, got <- caller_got,
               MAX_CALLS <- DRIVER_CALLS

\* What the theorems of NormalWorldProofs assume of the constants.
ASSUME NormalWorldAssumption ==
  /\ NULL \notin Threads /\ NULL \notin Pages
  /\ {LIBRARY_CALLS, MAX_REQUESTS, DRIVER_CALLS} \subseteq Nat

-----------------------------------------------------------------------------
\* A daemon that was never started concerns the mailbox only.
NInit ==
  /\ part \in {"library", "mailbox", "pages"}
  /\ Library!Init /\ Mailbox!Init /\ CallPages!Init
  /\ part # "mailbox" => daemon_pc = "poll"

NNext ==
  \/ part = "library" /\ Library!Next /\ UNCHANGED <<part, mailbox_vars, page_vars>>
  \/ part = "mailbox" /\ Mailbox!Next /\ UNCHANGED <<part, library_vars, page_vars>>
  \/ part = "pages" /\ CallPages!Next /\ UNCHANGED <<part, library_vars, mailbox_vars>>

\* The fairness of ClientLib and of CtrlMailbox, each for the part that moves.
NSpec ==
  /\ NInit /\ [][NNext]_<<part, library_vars, mailbox_vars, page_vars>>
  /\ \A t \in Threads : WF_library_vars(part = "library" /\ Library!step(t))
  /\ WF_mailbox_vars(part = "mailbox" /\ Mailbox!client_step)
  /\ WF_mailbox_vars(part = "mailbox" /\ Mailbox!main)
  /\ SF_mailbox_vars(part = "mailbox" /\ Mailbox!poll_ctrl_task_to_ns)
  /\ SF_mailbox_vars(part = "mailbox" /\ Mailbox!dispatch_ctrl)
  /\ SF_mailbox_vars(part = "mailbox" /\ Mailbox!push_ctrl_task_from_ns)
-----------------------------------------------------------------------------
\* A call of the library that was answered reports the result of its own
\* answer (tz_application_library/main.c:49, 244), unless postProcessParameters,
\* which returns nothing, makes it an error (235).
AnswerDelivered == Library!AnswerDelivered

\* A handle that was answered never goes to another call, whatever fails
\* (tz_application_library/main.c:49).
HandleOwn == Library!HandleOwn

\* Every call of every thread returns, unless the error return of
\* TEEC_InitializeContext or TEEC_RegisterSharedMemory kept the lock
\* (tz_application_library/main.c:60, 106).
CallsReturn == Library!CallsReturn

\* A file operation is executed once before its call is continued
\* (ctrl_mem.c:67).
ExecutedOnce == Mailbox!ExecutedOnce

\* A call that waits for the daemon is continued, unless a failed copy left
\* ctrl_mutex locked (ctrl_mem.c:73, 105) or the daemon died between poll and
\* push (ctrl_mem.c:67).
WaiterServed == Mailbox!WaiterServed

\* The pages of a call belong to it alone until it frees them, once
\* (tee_logic.c:136).
HeldPagesOwn == CallPages!HeldPagesOwn

\* The pages the secure world is given are the call's own, unless an
\* allocation failed in it (tee_logic.c:136), and the caller gets the answer
\* of its call, unless its page was taken between free and copy (329).
AnswerReachesCaller == CallPages!SharedPageOwn /\ CallPages!AnswerReachesCaller
=============================================================================
