------------------------------- MODULE Andix -------------------------------
(***************************************************************************)
(* The whole path of a TEE call: client processes of the normal world and  *)
(* the kernel driver they call (tz_application_mod), the service daemon    *)
(* (tz_service_daemon) with the driver's control mailbox, and, below the   *)
(* monitor calls, the secure world.                                        *)
(*                                                                         *)
(* All of the normal world runs in the context of one thread of the secure *)
(* scheduler, "ns": its actions need the CPU to be there, and a client     *)
(* inside a monitor call stops the others with it.  Between monitor calls  *)
(* the clients and the daemon interleave freely.                           *)
(***************************************************************************)
EXTENDS SecureWorld

VARIABLES
  client_pc,    \* "idle": in user mode; "tmem", "cmem": about to make the
                \* monitor call of that name; "smc": in it or just back from
                \* it; "poll": waiting for the daemon
  callbit,      \* the bit of the client's current or latest call
  pending,      \* the state of the control mailbox
  ctrlspace,    \* the client whose control page the mailbox points to
  daemon_pc,    \* "poll": about to poll; "push": about to push comm
  comm          \* the daemon's copy of a control request

normalVars == <<client_pc, callbit, pending, ctrlspace, daemon_pc, comm>>
vars == <<schedVars, monVars, secureVars, normalVars>>

NormalTypeOK ==
  /\ client_pc \in [Clients -> {"idle", "tmem", "smc", "poll", "cmem"}]
  /\ callbit \in [Clients -> {0, 1}]
  /\ pending \in {"CTRL_IDLE", "CTRL_PENDING_FROM_S", "CTRL_PENDING_IN_NS",
                  "CTRL_RESPONSE_FROM_NS"}
  /\ ctrlspace \in Clients \cup {NULL}
  /\ daemon_pc \in {"poll", "push"}
  /\ comm \in CtrlSpaces

Call(c) == <<c, callbit[c]>>

-----------------------------------------------------------------------------
(* tee_process and tz_process_ctrl_mem: a client inside the driver         *)

Goto(c, pc) == client_pc' = [client_pc EXCEPT ![c] = pc]

\* tee_process up to the monitor call: fresh pages, the request copied in.
client_call(c, op) ==
  /\ Runs("ns") /\ client_pc[c] = "idle"
  /\ callbit' = [callbit EXCEPT ![c] = 1 - @]
  /\ package_result' = [package_result EXCEPT ![c] = "0"]
  /\ tee_page' = [tee_page EXCEPT
                    ![c] = [id |-> <<c, 1 - callbit[c]>>, op |-> op, ret |-> Unset]]
  /\ ctrl_page' = [ctrl_page EXCEPT ![c] = NoRequest]
  /\ executed' = [executed EXCEPT ![c] = 0]
  /\ Goto(c, "tmem")
  /\ UNCHANGED <<schedVars, windowVars, panic, main_pc, teeVars, taVars,
                 serviceVars, pending, ctrlspace, daemon_pc, comm>>

\* __smc_1(SMC_PROCESS_TMEM, package)
client_tmem(c) ==
  /\ Runs("ns") /\ client_pc[c] = "tmem"
  /\ smc_process_tmem(c)
  /\ Goto(c, "smc")
  /\ UNCHANGED <<thread_list, pageVars, panic, secureVars, callbit, pending,
                 ctrlspace, daemon_pc, comm>>

\* Back from a monitor call with CTRL_STRUCT: push_ctrl_task_from_s stores
\* the page if the mailbox is idle; its result is not looked at.
client_push(c) ==
  /\ Runs("ns") /\ client_pc[c] = "smc"
  /\ package_result[c] = "CTRL_STRUCT"
  /\ IF pending = "CTRL_IDLE"
     THEN pending' = "CTRL_PENDING_FROM_S" /\ ctrlspace' = c
     ELSE UNCHANGED <<pending, ctrlspace>>
  /\ Goto(c, "poll")
  /\ UNCHANGED <<schedVars, monVars, secureVars, callbit, daemon_pc, comm>>

\* Mutant: poll_ctrl_task_to_s takes a request the daemon still works on.
client_poll_early(c) ==
  /\ Runs("ns") /\ client_pc[c] = "poll"
  /\ pending \in {"CTRL_PENDING_IN_NS", "CTRL_RESPONSE_FROM_NS"}
  /\ pending' = "CTRL_IDLE"
  /\ Goto(c, "cmem")
  /\ UNCHANGED <<schedVars, monVars, secureVars, callbit, ctrlspace, daemon_pc,
                 comm>>

\* poll_ctrl_task_to_s finds a response; until then the client schedules.
client_poll(c) ==
  /\ Runs("ns") /\ client_pc[c] = "poll"
  /\ pending = "CTRL_RESPONSE_FROM_NS"
  /\ pending' = "CTRL_IDLE"
  /\ Goto(c, "cmem")
  /\ UNCHANGED <<schedVars, monVars, secureVars, callbit, ctrlspace, daemon_pc,
                 comm>>

\* Mutant: the response is sent with SMC_PROCESS_TMEM.
client_cmem_as_tmem(c) ==
  /\ Runs("ns") /\ client_pc[c] = "cmem"
  /\ smc_process_tmem(c)
  /\ Goto(c, "smc")
  /\ UNCHANGED <<thread_list, pageVars, panic, secureVars, callbit, pending,
                 ctrlspace, daemon_pc, comm>>

\* __smc_1(SMC_PROCESS_CMEM, package), with a copy of the control page.
client_cmem(c) ==
  /\ Runs("ns") /\ client_pc[c] = "cmem"
  /\ smc_process_cmem(c)
  /\ Goto(c, "smc")
  /\ UNCHANGED <<thread_list, pageVars, secureVars, callbit, pending,
                 ctrlspace, daemon_pc, comm>>

\* Back from a monitor call with anything else: the answer goes to the user
\* and the pages are freed.
client_return(c) ==
  /\ Runs("ns") /\ client_pc[c] = "smc"
  /\ package_result[c] # "CTRL_STRUCT"
  /\ ctrl_page' = [ctrl_page EXCEPT ![c] = NoRequest]
  /\ Goto(c, "idle")
  /\ UNCHANGED <<schedVars, windowVars, package_result, tee_page, panic,
                 secureVars, callbit, pending, ctrlspace, daemon_pc, comm>>

-----------------------------------------------------------------------------
(* dispatcher_loop of the service daemon, with the driver's ioctls         *)

\* ANDIX_CTRL_POLL copies a pending request out, dispatch_ctrl processes it.
daemon_poll ==
  /\ Runs("ns") /\ daemon_pc = "poll"
  /\ pending = "CTRL_PENDING_FROM_S"
  /\ pending' = "CTRL_PENDING_IN_NS"
  /\ comm' = [ctrl_page[ctrlspace] EXCEPT !.done = TRUE]
  /\ daemon_pc' = "push"
  /\ UNCHANGED <<schedVars, monVars, secureVars, client_pc, callbit, ctrlspace>>

\* ANDIX_CTRL_PUSH copies the response back if the mailbox still waits for
\* it; the daemon's copy is dead until the next poll overwrites it.
daemon_push ==
  /\ Runs("ns") /\ daemon_pc = "push"
  /\ IF pending = "CTRL_PENDING_IN_NS"
     THEN /\ pending' = "CTRL_RESPONSE_FROM_NS"
          /\ ctrl_page' = [ctrl_page EXCEPT ![ctrlspace] = comm]
     ELSE UNCHANGED <<pending, ctrl_page>>
  /\ daemon_pc' = "poll"
  /\ comm' = NoRequest
  /\ UNCHANGED <<schedVars, windowVars, package_result, tee_page, panic,
                 secureVars, client_pc, callbit, ctrlspace>>

-----------------------------------------------------------------------------

Init ==
  /\ SecureInit
  /\ package_result = [c \in Clients |-> "0"]
  /\ tee_page = [c \in Clients |-> [id |-> <<c, 0>>, op |-> "local", ret |-> Unset]]
  /\ ctrl_page = [c \in Clients |-> NoRequest]
  /\ client_pc = [c \in Clients |-> "idle"]
  /\ callbit = [c \in Clients |-> 0]
  /\ pending = "CTRL_IDLE" /\ ctrlspace = NULL
  /\ daemon_pc = "poll" /\ comm = NoRequest

\* The handler of a data abort ends in a loop: the CPU never leaves it.
abort_loop == panic /\ UNCHANGED vars

client_step(c) ==
  \/ client_tmem(c) \/ client_push(c) \/ client_poll(c) \/ client_cmem(c)
  \/ client_return(c)

daemon_step == daemon_poll \/ daemon_push

Next ==
  \/ SecureNext /\ UNCHANGED normalVars
  \/ \E c \in Clients : (\E op \in Ops : client_call(c, op)) \/ client_step(c)
  \/ daemon_step
  \/ abort_loop

Spec == Init /\ [][Next]_vars

\* What the scheduling guarantees: the CPU does not stop in the secure world
\* (the trustlets' code between two system calls is assumed to end), and the
\* scheduler of the normal world runs every process that can run.
Fairness ==
  /\ WF_vars(SecureNext /\ UNCHANGED normalVars)
  /\ \A c \in Clients : WF_vars(client_step(c))
  /\ WF_vars(daemon_step)

FairSpec == Spec /\ Fairness

-----------------------------------------------------------------------------
(* Properties                                                              *)

\* Every variable holds what the code's types allow.
TypeOK == SchedTypeOK /\ MonTypeOK /\ SecureTypeOK /\ NormalTypeOK

\* sched_thread_switched keeps one thread RUNNING: no other thread than the
\* current one ever counts itself as running, whichever monitor calls, yields
\* and direct switches came before.
OneRunning ==
  \A t \in Threads : state[t] = "RUNNING" => t = current_thread

\* set_tz_package and free_tz_package bracket every visit to the secure world:
\* while the normal world runs nothing of it is mapped, and a secure thread it
\* entered through works on three windows that show the pages of one client.
WindowsFollowWorld ==
  IF current_thread = "ns" \/ state["main"] # "BLOCKED"
  THEN package = NULL /\ tee_mem = NULL /\ com_mem = NULL
  ELSE \E c \in Clients :
         /\ package # NULL /\ vmap[package] = Page("package", c)
         /\ tee_mem # NULL /\ vmap[tee_mem] = Page("tee", c)
         /\ com_mem # NULL /\ vmap[com_mem] = Page("ctrl", c)

\* The kernel stops in one way only: a trustlet has temporary memory to be
\* mapped when the leaked slots are used up (swi_secure.c:66).  No thread follows
\* a NULL or stale window pointer (tee_task_entry, service_entry and the
\* monitor's handlers dereference them unchecked) and service_entry never meets
\* a request that is already ready.
StopsOnlyOutOfSlots == panic => current_thread \in Trustlets /\ SlotsUsedUp

\* tee_task_entry keeps the pointer tee across the trustlet's run, in which
\* the windows may be unmapped and mapped again: when the TEE task writes the
\* answer, the pointer shows the page of the client whose request it read.
TeePointerFresh ==
  tee_pc = "ta" /\ current_thread # "ns" =>
    vmap[tee] = Page("tee", space.id[1])

\* swi_get_secure_request answers through tee_rpc, a pointer to the TEE task's
\* copy: while a trustlet works on a request the TEE task waits for it and its
\* copy is still that request.
ServesCurrentCall ==
  \A t \in Trustlets :
    ta_pc[t] \in {"run", "service"} =>
      tee_pc = "ta" /\ tee_rpc[t] /\ ta_call[t].id = space.id

\* tee_process hands its caller the answer to its own request, computed in one
\* execution of it (TEE_STRUCT); a session that was closed gets no result.
AnswerIntegrity ==
  \A c \in Clients :
    /\ client_pc[c] = "smc" /\ current_thread = "ns"
    /\ package_result[c] = "TEE_STRUCT"
    => /\ executed[c] = 1
       /\ tee_page[c].id = Call(c)
       /\ tee_page[c].ret \in
            IF tee_page[c].op = "close" THEN {Unset, Error} ELSE {Call(c), Error}

\* service_do_request returns when its request is marked ready: the trustlet
\* then finds the daemon's response to this very request, through the control
\* page, the mailbox and the daemon's own copy.
ServiceIntegrity ==
  \A t \in Trustlets :
    ta_pc[t] = "service" /\ ready[t] =>
      ctrl_space[t] = [id |-> <<t, ta_reqbit[t]>>, done |-> TRUE]

\* queue_put overwrites the element a full queue holds: a request that waits
\* is nevertheless in the queue or in the hands of the service task.
NoLostRequest ==
  \A t \in Trustlets :
    ta_pc[t] = "service" /\ ~ready[t] =>
      \/ service_queue = <<t>>
      \/ request = t /\ service_pc # "top"

\* push_ctrl_task_from_s ignores a page when the mailbox is not idle, and its
\* result is not looked at: a client that waits for the daemon is nevertheless
\* the one the mailbox points to, and the mailbox reports a response exactly
\* when the control page holds one.
MailboxServesWaiter ==
  \A c \in Clients :
    client_pc[c] = "poll" =>
      /\ pending # "CTRL_IDLE" /\ ctrlspace = c
      /\ pending = "CTRL_RESPONSE_FROM_NS" <=> ctrl_page[c].done

\* The pointers kept across a return to the normal world, tee and tee_rpc, still
\* lead to the call they were taken for (tee_task.c:292, swi_secure.c:346).
PointersFresh == TeePointerFresh /\ ServesCurrentCall

\* A file operation on its whole way through queue, service task, control page,
\* mailbox and daemon (service_task.c:126, queue.c:82, ctrl_mem.c:129).
ServiceInOrder == ServiceIntegrity /\ NoLostRequest /\ MailboxServesWaiter

\* service_do_request loops until its request is served: it does return.
RequestsServed ==
  \A t \in Trustlets : ta_pc[t] = "service" ~> ta_pc[t] = "run"

\* Once entry_main_task has given the CPU to the normal world the secure world
\* never takes a step of boot again: main stays blocked, every trustlet has
\* come to its first wait, and the thread list is fixed.
BootOnce ==
  [][current_thread = "ns" =>
       /\ \A t \in Trustlets : ta_pc[t] # "start"
       /\ state'["main"] = "BLOCKED" /\ thread_list' = thread_list]_vars

\* The abstract call: executed when the TEE task dispatches the request,
\* answered when the driver returns.  executed and callbit tell the phases.
Answers(c, bit, op) ==
  IF op = "close" THEN {Unset, Error} ELSE {<<c, bit>>, Error}

Remote == INSTANCE RemoteCall WITH
  NoAnswer <- NULL, stopped <- panic,
  phase <- [c \in Clients |-> IF client_pc[c] = "idle" THEN "idle"
                              ELSE IF executed[c] = 0 THEN "called"
                              ELSE "executed"],
  call <- [c \in Clients |-> [op |-> tee_page[c].op, bit |-> callbit[c]]],
  answer <- [c \in Clients |->
               IF client_pc[c] = "idle" /\ package_result[c] = "TEE_STRUCT"
               THEN tee_page[c].ret ELSE NULL]

\* The driver, the monitor and the secure world together implement the
\* abstract call: each call is executed once, then returns its own answer,
\* unless the kernel stops in the middle of one.
ImplementsRemoteCall == Remote!Spec
=============================================================================
