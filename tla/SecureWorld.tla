---------------------------- MODULE SecureWorld ----------------------------
(***************************************************************************)
(* The threads of the secure world: entry_main_task (kernel/main_task.c),  *)
(* which creates the others; the TEE task (task/tee_task.c), which takes   *)
(* requests of the normal world; the trustlets, which serve sessions and   *)
(* wait in swi_get_secure_request (swi/swi_secure.c); and the service task *)
(* (task/service_task.c), through which a trustlet has a file operation    *)
(* done by the normal world.                                               *)
(*                                                                         *)
(* The scheduling is cooperative: what a thread does from one monitor call *)
(* to the next is one action, the effect of the call included.  A pc names *)
(* the call a thread will return from when it gets the CPU again.          *)
(***************************************************************************)
EXTENDS Monitor

CONSTANTS
  BootOrder,    \* the trustlets in the order entry_main_task starts them
  MaxRequests   \* bound: service requests a trustlet makes while it serves
                \* one call

ASSUME SecureWorldAssumption ==
  /\ BootOrder \in Seq(Trustlets)
  /\ \A t \in Trustlets : \E i \in DOMAIN BootOrder : BootOrder[i] = t
  /\ MaxRequests \in Nat

\* The threads entry_main_task creates, in order: the non-secure thread last.
Created == <<"service", "tee">> \o BootOrder \o <<"ns">>

VARIABLES
  main_pc,        \* index in Created of the next thread to create
  tee_pc,         \* "top": at the head of the loop or returning into it;
                  \* "ta": in switch_to_thread, waiting for a trustlet
  tee,            \* local of tee_task_entry: slot the request was read from
  space,          \* local of tee_task_entry: copy of the request
  ta_pc,          \* "start": not yet run; "wait": in the loop of
                  \* swi_get_secure_request; "run": serving a request;
                  \* "service": in service_do_request
  tee_rpc,        \* tee_context.tee_rpc # NULL: it points to space
  ta_call,        \* the request a trustlet serves (its TA_RPC)
  ta_requests,    \* service requests made for it so far
  ta_reqbit,      \* bit of the trustlet's latest service request
  ta_unmapped,    \* the trustlets whose request has temporary memory to be
                  \* written that is mapped nowhere: its vaddr is NULL
  service_queue,  \* the requests in the service queue
  service_pc,     \* "top" as for the TEE task; "reply": in mon_ctrl_request;
                  \* "noctrl": in switch_to_thread for want of a window
  request,        \* local of service_entry: the request being processed
  ready,          \* service_request.ready of every trustlet's request
  ctrl_space,     \* its TZ_CTLR_SPACE
  executed        \* history: how often the TEE task has dispatched a request
                  \* of a client since the client's latest call

teeVars == <<tee_pc, tee, space>>
taVars == <<ta_pc, tee_rpc, ta_call, ta_requests, ta_reqbit, ta_unmapped>>
serviceVars == <<service_queue, service_pc, request, ready, ctrl_space>>
secureVars == <<main_pc, teeVars, taVars, serviceVars, executed>>

SecureTypeOK ==
  /\ main_pc \in 1..(Len(Created) + 1)
  /\ tee_pc \in {"top", "ta"}
  /\ tee \in Slot \cup {NULL}
  /\ space \in TeeSpaces \cup {NULL}
  /\ ta_pc \in [Trustlets -> {"start", "wait", "run", "service"}]
  /\ tee_rpc \in [Trustlets -> BOOLEAN]
  /\ ta_call \in [Trustlets -> TeeSpaces \cup {NULL}]
  /\ ta_requests \in [Trustlets -> 0..MaxRequests]
  /\ ta_reqbit \in [Trustlets -> {0, 1}]
  /\ ta_unmapped \subseteq Trustlets
  /\ service_queue \in Seq(Trustlets)
  /\ service_pc \in {"top", "reply", "noctrl"}
  /\ request \in Trustlets \cup {NULL}
  /\ ready \in [Trustlets -> BOOLEAN]
  /\ ctrl_space \in [Trustlets -> CtrlSpaces]
  /\ executed \in [Clients -> 0..2]

\* Thread t has the CPU; after a panic nothing runs.
Runs(t) == current_thread = t /\ ~panic

-----------------------------------------------------------------------------
(* entry_main_task                                                         *)

\* Mutant: entry_main_task does not block itself at its end.
main_create_stays_ready ==
  /\ Runs("main")
  /\ main_pc <= Len(Created)
  /\ sched_add_thread(Created[main_pc])
  /\ yield(thread_list', state)
  /\ main_pc' = main_pc + 1
  /\ UNCHANGED <<monVars, teeVars, taVars, serviceVars, executed>>

\* Creates the next thread and yields.  The non-secure thread is the last;
\* with it the main thread blocks itself for good before it yields.
main_create ==
  /\ Runs("main")
  /\ main_pc <= Len(Created)
  /\ LET t == Created[main_pc]
     IN /\ sched_add_thread(t)
        /\ yield(thread_list', IF t = "ns" THEN Become("BLOCKED") ELSE state)
  /\ main_pc' = main_pc + 1
  /\ UNCHANGED <<monVars, teeVars, taVars, serviceVars, executed>>

-----------------------------------------------------------------------------
(* tee_task_entry                                                          *)

\* Slot s shows the TEE page of a client.
ShowsTeePage(s) == s # NULL /\ vmap[s] # NULL /\ vmap[s].kind = "tee"

\* The end of the loop body: the copy of the request with its answer goes
\* back through the pointer s, the TEE task blocks and calls the normal world.
tee_respond(s, sp) ==
  IF ShowsTeePage(s)
  THEN /\ tee_page' = [tee_page EXCEPT ![vmap[s].of] = sp]
       /\ ssc_nons_service("TEE_STRUCT", Become("BLOCKED"))
       /\ UNCHANGED <<thread_list, ctrl_page>>
  ELSE /\ panic' = TRUE
       /\ UNCHANGED <<schedVars, windowVars, pageVars>>

\* The request the TEE window shows, as read at the head of the loop.
Request == tee_page[vmap[tee_mem].of]

\* History: one more dispatch of the request, counted up to two.
CountExecution ==
  executed' = [executed EXCEPT ![Request.id[1]] = IF @ = 2 THEN 2 ELSE @ + 1]

\* No window: the TEE task blocks, yields and looks again.
tee_idle ==
  /\ Runs("tee") /\ tee_pc = "top"
  /\ tee_mem = NULL
  /\ yield(thread_list, Become("BLOCKED"))
  /\ UNCHANGED <<thread_list, monVars, secureVars>>

\* A request answered without a trustlet: a context or memory operation,
\* with its result or an error, or a session operation whose context,
\* session or application is not found.
tee_local ==
  /\ Runs("tee") /\ tee_pc = "top"
  /\ tee_mem # NULL
  /\ \E ret \in {Request.id, Error} :
       /\ Request.op # "local" => ret = Error
       /\ space' = [Request EXCEPT !.ret = ret]
       /\ tee_respond(tee_mem, [Request EXCEPT !.ret = ret])
  /\ tee' = tee_mem
  /\ CountExecution
  /\ UNCHANGED <<main_pc, tee_pc, taVars, serviceVars>>

\* Mutant: the TEE task blocks itself before it switches to the trustlet.
tee_to_trustlet_blocks(t) ==
  /\ Runs("tee") /\ tee_pc = "top"
  /\ tee_mem # NULL
  /\ Request.op # "local"
  /\ tee' = tee_mem
  /\ space' = Request
  /\ tee_rpc' = [tee_rpc EXCEPT ![t] = TRUE]
  /\ tee_pc' = "ta"
  /\ CountExecution
  /\ switch_to_thread(Become("BLOCKED"), t)
  /\ UNCHANGED <<thread_list, monVars, main_pc, ta_pc, ta_call, ta_requests,
                 ta_reqbit, ta_unmapped, serviceVars>>

\* tee_open_session, tee_close_session, tee_invoke: the application of the
\* session gets a pointer to the TEE task's copy, and the CPU.
tee_to_trustlet(t) ==
  /\ Runs("tee") /\ tee_pc = "top"
  /\ tee_mem # NULL
  /\ Request.op # "local"
  /\ tee' = tee_mem
  /\ space' = Request
  /\ tee_rpc' = [tee_rpc EXCEPT ![t] = TRUE]
  /\ tee_pc' = "ta"
  /\ CountExecution
  /\ switch_to_thread(state, t)
  /\ UNCHANGED <<thread_list, monVars, main_pc, ta_pc, ta_call, ta_requests,
                 ta_reqbit, ta_unmapped, serviceVars>>

\* switch_to_thread returns: whatever ret holds is the answer, and it goes
\* through the pointer taken before the trustlet ran.
tee_from_trustlet ==
  /\ Runs("tee") /\ tee_pc = "ta"
  /\ tee_respond(tee, space)
  /\ tee_pc' = "top"
  /\ UNCHANGED <<main_pc, tee, space, taVars, serviceVars, executed>>

-----------------------------------------------------------------------------
(* Trustlets: __ta_main around swi_get_secure_request                      *)

\* Back to the TEE task, to be resumed in the loop of swi_get_secure_request.
WaitForRequest(t) ==
  /\ switch_to_thread(Become("BLOCKED"), "tee")
  /\ ta_pc' = [ta_pc EXCEPT ![t] = "wait"]

\* The first call of a trustlet finds no request to answer.
ta_start(t) ==
  /\ Runs(t) /\ ta_pc[t] = "start"
  /\ WaitForRequest(t)
  /\ UNCHANGED <<thread_list, monVars, main_pc, teeVars, tee_rpc, ta_call,
                 ta_requests, ta_reqbit, ta_unmapped, serviceVars, executed>>

\* swi_map_tee_temp_ref maps temporary memory of the client into a slot of the
\* kernel that nobody gives back, swi_unmap_tee_temp_ref neither.
MapTemporary(t) ==
  \E s \in Slot : /\ mmm_allocate_page(vmap, s)
                  /\ vmap' = [vmap EXCEPT ![s] = Page("tmp", t)]

SlotsUsedUp == \A s \in Slot : vmap[s] # NULL

\* The loop of swi_get_secure_request takes a request: it is translated for
\* user mode and the trustlet's entry point runs.  Without a free slot the
\* address of temporary memory is NULL, which nobody looks at.
ta_accept(t) ==
  /\ Runs(t) /\ ta_pc[t] = "wait" /\ tee_rpc[t]
  /\ \/ UNCHANGED <<vmap, ta_unmapped>>
     \/ space.op = "call" /\ MapTemporary(t) /\ UNCHANGED ta_unmapped
     \/ /\ space.op = "call" /\ SlotsUsedUp
        /\ ta_unmapped' = ta_unmapped \cup {t}
        /\ UNCHANGED vmap
  /\ ta_call' = [ta_call EXCEPT ![t] = space]
  /\ ta_pc' = [ta_pc EXCEPT ![t] = "run"]
  /\ UNCHANGED <<schedVars, package, tee_mem, com_mem, pageVars, panic, main_pc,
                 teeVars, tee_rpc, ta_requests, ta_reqbit, serviceVars, executed>>

\* The copy of temporary memory whose address is NULL: from it when the
\* request is taken (an input), to it when the request is answered (an
\* output).  The data abort stops the kernel.
ta_abort(t) ==
  /\ Runs(t) /\ tee_rpc[t] /\ space.op = "call"
  /\ \/ ta_pc[t] = "wait" /\ SlotsUsedUp
     \/ ta_pc[t] = "run" /\ t \in ta_unmapped
  /\ panic' = TRUE
  /\ UNCHANGED <<schedVars, windowVars, pageVars, secureVars>>

\* Mutant: the error of parameters_to_userspace is not stored in tee->ret.
ta_refuse_silently(t) ==
  /\ Runs(t) /\ ta_pc[t] = "wait"
  /\ tee_rpc[t] => space.op = "call"
  /\ WaitForRequest(t)
  /\ UNCHANGED <<thread_list, monVars, main_pc, teeVars, tee_rpc, ta_call,
                 ta_requests, ta_reqbit, ta_unmapped, serviceVars, executed>>

\* The loop goes round: there is no request, or its parameters cannot be
\* translated, which is reported to the TEE task; what was mapped for them
\* stays.  tee_rpc is not cleared.
ta_refuse(t) ==
  /\ Runs(t) /\ ta_pc[t] = "wait"
  /\ tee_rpc[t] => space.op = "call"
  /\ space' = IF tee_rpc[t] THEN [space EXCEPT !.ret = Error] ELSE space
  /\ UNCHANGED vmap \/ (tee_rpc[t] /\ MapTemporary(t))
  /\ WaitForRequest(t)
  /\ UNCHANGED <<thread_list, package, tee_mem, com_mem, pageVars, panic, main_pc,
                 tee_pc, tee, tee_rpc, ta_call, ta_requests, ta_reqbit,
                 ta_unmapped, serviceVars, executed>>

\* The trustlet is done: swi_get_secure_request writes the result into the
\* request tee_rpc points to, by the operation found there (a close session
\* sets none), and waits for the next one, with the TA_RPC cleared.  It comes
\* by memory that is mapped nowhere only when an earlier parameter fails.
ta_answer(t) ==
  /\ Runs(t) /\ ta_pc[t] = "run"
  /\ \E ret \in {ta_call[t].id, Error} :
       /\ t \in ta_unmapped /\ tee_rpc[t] /\ space.op = "call" => ret = Error
       /\ space' = IF tee_rpc[t] /\ space.op = "call"
                   THEN [space EXCEPT !.ret = ret] ELSE space
  /\ tee_rpc' = [tee_rpc EXCEPT ![t] = FALSE]
  /\ ta_call' = [ta_call EXCEPT ![t] = NULL]
  /\ ta_requests' = [ta_requests EXCEPT ![t] = 0]
  /\ ta_unmapped' = ta_unmapped \ {t}
  /\ WaitForRequest(t)
  /\ UNCHANGED <<thread_list, monVars, main_pc, tee_pc, tee, ta_reqbit,
                 serviceVars, executed>>

-----------------------------------------------------------------------------
(* The service queue and service_entry                                     *)

\* queue_put replaces the first element whether or not the queue holds one.
queue_put(q, t) == <<t>>

\* Mutant: service_do_request yields, with the service task left blocked.
ta_request_yields(t) ==
  /\ Runs(t) /\ ta_pc[t] = "run"
  /\ ta_requests[t] < MaxRequests
  /\ ta_requests' = [ta_requests EXCEPT ![t] = @ + 1]
  /\ ta_reqbit' = [ta_reqbit EXCEPT ![t] = 1 - @]
  /\ ctrl_space' = [ctrl_space EXCEPT
                      ![t] = [id |-> <<t, 1 - ta_reqbit[t]>>, done |-> FALSE]]
  /\ ready' = [ready EXCEPT ![t] = FALSE]
  /\ service_queue' = queue_put(service_queue, t)
  /\ ta_pc' = [ta_pc EXCEPT ![t] = "service"]
  /\ yield(thread_list, state)
  /\ UNCHANGED <<thread_list, monVars, main_pc, teeVars, tee_rpc, ta_call,
                 ta_unmapped, service_pc, request, executed>>

\* service_do_request: the trustlet queues a request kept on its own stack
\* and gives the CPU to the service task.
ta_request(t) ==
  /\ Runs(t) /\ ta_pc[t] = "run"
  /\ ta_requests[t] < MaxRequests
  /\ ta_requests' = [ta_requests EXCEPT ![t] = @ + 1]
  /\ ta_reqbit' = [ta_reqbit EXCEPT ![t] = 1 - @]
  /\ ctrl_space' = [ctrl_space EXCEPT
                      ![t] = [id |-> <<t, 1 - ta_reqbit[t]>>, done |-> FALSE]]
  /\ ready' = [ready EXCEPT ![t] = FALSE]
  /\ service_queue' = queue_put(service_queue, t)
  /\ ta_pc' = [ta_pc EXCEPT ![t] = "service"]
  /\ switch_to_thread([state EXCEPT !["service"] = "READY"], "service")
  /\ UNCHANGED <<thread_list, monVars, main_pc, teeVars, tee_rpc, ta_call,
                 ta_unmapped, service_pc, request, executed>>

\* The loop at the end of service_do_request: back to the trustlet's code
\* once the request is marked ready (and gone, with the stack it was on),
\* else to the service task again.
ta_request_done(t) ==
  /\ Runs(t) /\ ta_pc[t] = "service"
  /\ IF ready[t]
     THEN /\ ta_pc' = [ta_pc EXCEPT ![t] = "run"]
          /\ ready' = [ready EXCEPT ![t] = FALSE]
          /\ ctrl_space' = [ctrl_space EXCEPT ![t] = NoRequest]
          /\ UNCHANGED schedVars
     ELSE /\ switch_to_thread(state, "service")
          /\ UNCHANGED <<ta_pc, thread_list, ready, ctrl_space>>
  /\ UNCHANGED <<monVars, main_pc, teeVars, tee_rpc, ta_call, ta_requests,
                 ta_reqbit, ta_unmapped, service_queue, service_pc, request,
                 executed>>

\* Nothing in the queue: the service task blocks and yields.
service_idle ==
  /\ Runs("service") /\ service_pc = "top"
  /\ service_queue = << >>
  /\ request' = NULL
  /\ yield(thread_list, Become("BLOCKED"))
  /\ UNCHANGED <<thread_list, monVars, main_pc, teeVars, taVars, service_queue,
                 service_pc, ready, ctrl_space, executed>>

\* queue_get takes the oldest request out of the queue.
queue_get(q) == Tail(q)

\* A request: it is copied into the control window and the normal world is
\* called.  A request already marked ready stops the kernel (DEBUG_STOP);
\* without a window the CPU goes back to the requesting trustlet.
service_start ==
  /\ Runs("service") /\ service_pc = "top"
  /\ service_queue # << >>
  /\ LET t == Head(service_queue)
     IN  /\ request' = t
         /\ IF ready[t]
            THEN /\ panic' = TRUE
                 /\ UNCHANGED <<schedVars, windowVars, pageVars, service_pc>>
            ELSE IF com_mem = NULL
            THEN /\ switch_to_thread(state, t)
                 /\ service_pc' = "noctrl"
                 /\ UNCHANGED <<thread_list, monVars>>
            ELSE /\ ctrl_page' = [ctrl_page EXCEPT ![vmap[com_mem].of] = ctrl_space[t]]
                 /\ ssc_nons_service("CTRL_STRUCT", state)
                 /\ service_pc' = "reply"
                 /\ UNCHANGED <<thread_list, tee_page>>
  /\ service_queue' = queue_get(service_queue)
  /\ UNCHANGED <<main_pc, teeVars, taVars, ready, ctrl_space, executed>>

\* Mutant: request->ready is not set.
service_reply_unready ==
  /\ Runs("service") /\ service_pc \in {"reply", "noctrl"}
  /\ ctrl_space' = [ctrl_space EXCEPT ![request] = ctrl_page[vmap[com_mem].of]]
  /\ switch_to_thread(state, request)
  /\ service_pc' = "top"
  /\ UNCHANGED <<thread_list, monVars, ready, main_pc, teeVars, taVars,
                 service_queue, request, executed>>

\* mon_ctrl_request returns: the control window, looked up again, is copied
\* to the trustlet, which gets the CPU.  Resumed without a window the copy
\* is an access through NULL.
service_reply ==
  /\ Runs("service") /\ service_pc \in {"reply", "noctrl"}
  /\ IF service_pc = "noctrl" \/ com_mem = NULL
     THEN /\ panic' = TRUE
          /\ UNCHANGED <<schedVars, windowVars, pageVars, service_pc, ready,
                         ctrl_space>>
     ELSE /\ ctrl_space' = [ctrl_space EXCEPT ![request] = ctrl_page[vmap[com_mem].of]]
          /\ ready' = [ready EXCEPT ![request] = TRUE]
          /\ switch_to_thread(state, request)
          /\ service_pc' = "top"
          /\ UNCHANGED <<thread_list, monVars>>
  /\ UNCHANGED <<main_pc, teeVars, taVars, service_queue, request, executed>>

-----------------------------------------------------------------------------

SecureInit ==
  /\ current_thread = "main"
  /\ state = [t \in Threads |-> IF t = "main" THEN "RUNNING" ELSE "READY"]
  /\ thread_list = <<"main">>
  /\ vmap = [s \in Slot |-> NULL]
  /\ package = NULL /\ tee_mem = NULL /\ com_mem = NULL
  /\ panic = FALSE
  /\ main_pc = 1
  /\ tee_pc = "top" /\ tee = NULL /\ space = NULL
  /\ ta_pc = [t \in Trustlets |-> "start"]
  /\ tee_rpc = [t \in Trustlets |-> FALSE]
  /\ ta_call = [t \in Trustlets |-> NULL]
  /\ ta_requests = [t \in Trustlets |-> 0]
  /\ ta_reqbit = [t \in Trustlets |-> 0]
  /\ ta_unmapped = {}
  /\ service_queue = << >> /\ service_pc = "top" /\ request = NULL
  /\ ready = [t \in Trustlets |-> FALSE]
  /\ ctrl_space = [t \in Trustlets |-> NoRequest]
  /\ executed = [c \in Clients |-> 0]

\* One step of the secure world.
SecureNext ==
  \/ main_create
  \/ tee_idle \/ tee_local \/ tee_from_trustlet
  \/ \E t \in Trustlets :
       \/ tee_to_trustlet(t)
       \/ ta_start(t) \/ ta_accept(t) \/ ta_refuse(t) \/ ta_answer(t)
       \/ ta_abort(t)
       \/ ta_request(t) \/ ta_request_done(t)
  \/ service_idle \/ service_start \/ service_reply
=============================================================================
