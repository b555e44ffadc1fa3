------------------------- MODULE SingleClientProofs -------------------------
(***************************************************************************)
(* What holds of a call when one client calls at a time, as the lock that  *)
(* the driver's comments ask for would have it: for any number of          *)
(* trustlets, slots and file operations every pointer is fresh, every call *)
(* and every operation gets its own answer, and the whole path implements  *)
(* RemoteCall step by step.  And, for any number of clients, that boot     *)
(* happens once.                                                           *)
(***************************************************************************)
EXTENDS AndixProofs

USE DEF vars, schedVars, monVars, windowVars, pageVars, secureVars, teeVars,
        taVars, serviceVars, normalVars

OneClient == \E c : Clients = {c}

\* The hypotheses of every step below, for a client c.
Single(c) ==
  /\ OneClient /\ c \in Clients /\ IInv /\ PhaseInv(c) /\ MailInv(c)

-----------------------------------------------------------------------------
(* The pages of the one client                                             *)

\* Once main has created all threads it blocks itself, and stays so.
LEMMA SameBoot ==
  ASSUME IInv, IInv', main_pc' = main_pc
  PROVE  Booting' <=> Booting
<1>1. Len(Created)' = Len(Created)
  BY DEF Created
<1> QED
  BY <1>1 DEF IInv, ListInv

\* The windows show the pages of the one client there is.
LEMMA OwnWindows ==
  ASSUME NEW c, Single(c), ~Booting, current_thread # "ns"
  PROVE  /\ package = 1 /\ tee_mem = 2 /\ com_mem = 3
         /\ vmap[1].of = c /\ vmap[2].of = c /\ vmap[3].of = c
         /\ vmap[2] = Page("tee", c)
         /\ Request = tee_page[c] /\ tee_page[c] \in TeeSpaces
<1>1. PICK d \in Clients : /\ vmap[1] = Page("package", d)
                           /\ vmap[2] = Page("tee", d)
                           /\ vmap[3] = Page("ctrl", d)
  BY DEF Single, IInv, WindowInv
<1>2. d = c
  BY DEF Single, OneClient
<1>3. package = 1 /\ tee_mem = 2 /\ com_mem = 3
  BY DEF Single, IInv, WindowInv
<1>4. tee_page[c] \in TeeSpaces
  BY DEF Single, IInv, TypeOK, MonTypeOK
<1> QED
  BY <1>1, <1>2, <1>3, <1>4 DEF Page, Request

\* A return to the normal world leaves its result in the client's package.
LEMMA OwnReturn ==
  ASSUME NEW c, Single(c), ~Booting, current_thread # "ns",
         NEW result, NEW st, ssc_nons_service(result, st)
  PROVE  current_thread' = "ns" /\ package_result' = [package_result EXCEPT ![c] = result]
BY OwnWindows, SlotFacts DEF ssc_nons_service, sched_thread_switched

\* The TEE task's answer goes to the client's page.
LEMMA OwnAnswer ==
  ASSUME NEW c, Single(c), ~Booting, current_thread # "ns",
         NEW sp, tee_respond(2, sp)
  PROVE  /\ current_thread' = "ns" /\ tee_page' = [tee_page EXCEPT ![c] = sp]
         /\ package_result' = [package_result EXCEPT ![c] = "TEE_STRUCT"]
         /\ ctrl_page' = ctrl_page
<1>1. ShowsTeePage(2) /\ vmap[2].of = c
  BY OwnWindows, WindowFacts, SlotFacts DEF ShowsTeePage, Single
<1>2. /\ tee_page' = [tee_page EXCEPT ![c] = sp] /\ ctrl_page' = ctrl_page
      /\ ssc_nons_service("TEE_STRUCT", Become("BLOCKED"))
  BY <1>1 DEF tee_respond
<1> QED
  BY <1>2, OwnReturn

\* The one request of the client is counted.
LEMMA OwnCount ==
  ASSUME NEW c, Single(c), ~Booting, current_thread # "ns", Asked(c), CountExecution
  PROVE  executed'[c] = 1
<1>1. Request.id[1] = c
  BY OwnWindows DEF Asked, Call
<1>2. executed \in [Clients -> 0..2] /\ executed[c] = 0 /\ c \in Clients
  BY DEF Single, IInv, TypeOK, SecureTypeOK, Asked
<1>3. executed' = [executed EXCEPT ![c] = IF executed[c] = 2 THEN 2 ELSE executed[c] + 1]
  BY <1>1 DEF CountExecution
<1> QED
  BY <1>2, <1>3

-----------------------------------------------------------------------------
(* Steps of the secure world                                               *)

\* The TEE task answers a request by itself: it was asked for and is answered.
LEMMA TeeLocalCall ==
  ASSUME NEW c, Single(c), IInv', tee_local, UNCHANGED normalVars
  PROVE  PhaseInv(c)' /\ MailInv(c)'
<1>1. current_thread = "tee" /\ tee_pc = "top" /\ ~Booting /\ ~Booting'
  BY SameBoot DEF tee_local, Runs, Single, IInv, BootInv
<1>2. Quiet /\ Asked(c) /\ client_pc[c] = "smc"
  BY <1>1 DEF Single, PhaseInv, InTeeTask, Taken
<1>3. PICK ret \in {Request.id, Error} :
        /\ Request.op # "local" => ret = Error
        /\ tee_respond(tee_mem, [Request EXCEPT !.ret = ret])
  BY DEF tee_local
<1>4. Request = tee_page[c] /\ tee_mem = 2 /\ tee_page[c] \in TeeSpaces
  BY <1>1, OwnWindows
<1>5. /\ current_thread' = "ns"
      /\ tee_page' = [tee_page EXCEPT ![c] = [tee_page[c] EXCEPT !.ret = ret]]
      /\ package_result' = [package_result EXCEPT ![c] = "TEE_STRUCT"]
      /\ ctrl_page' = ctrl_page
  BY <1>1, <1>3, <1>4, OwnAnswer
<1>6. executed'[c] = 1
  BY <1>1, <1>2, OwnCount DEF tee_local
<1>7. package_result'[c] = "TEE_STRUCT" /\ tee_page'[c] = [tee_page[c] EXCEPT !.ret = ret]
  BY <1>5 DEF Single, IInv, TypeOK, MonTypeOK
<1>8. Answered(c, tee_page[c])'
  <2>1. /\ tee_page'[c].id = tee_page[c].id /\ tee_page'[c].op = tee_page[c].op
        /\ tee_page'[c].ret = ret
    BY <1>4, <1>7 DEF TeeSpaces
  <2>2. ret \in {Call(c), Error} /\ (tee_page[c].op = "close" => ret = Error)
    BY <1>2, <1>3, <1>4 DEF Asked
  <2> QED
    BY <1>2, <2>1, <2>2 DEF Answered, Answers, Call, Asked
<1>9. Quiet'
  BY <1>2 DEF Quiet, NoService, Waiting, tee_local
<1> QED
  BY <1>1, <1>2, <1>5, <1>6, <1>7, <1>8, <1>9 DEF PhaseInv, InNormalWorld, MailInv, Single

\* The TEE task hands the request to a trustlet.
LEMMA TeeToTrustletCall ==
  ASSUME NEW c, Single(c), IInv', NEW t \in Trustlets, tee_to_trustlet(t),
         UNCHANGED normalVars
  PROVE  PhaseInv(c)' /\ MailInv(c)'
<1> USE ThreadFacts
<1>1. current_thread = "tee" /\ tee_pc = "top" /\ ~Booting /\ ~Booting'
  BY SameBoot DEF tee_to_trustlet, Runs, Single, IInv, BootInv
<1>2. Quiet /\ Asked(c) /\ client_pc[c] = "smc"
  BY <1>1 DEF Single, PhaseInv, InTeeTask, Taken
<1>3. Request = tee_page[c]
  BY <1>1, OwnWindows
<1>4. /\ current_thread' = t /\ tee_pc' = "ta" /\ space' = tee_page[c] /\ tee_page[c].op # "local"
      /\ tee_rpc' = [tee_rpc EXCEPT ![t] = TRUE]
      /\ UNCHANGED <<monVars, ta_pc, ta_call, serviceVars>>
  BY <1>3, SwitchTo DEF tee_to_trustlet, sched_thread_switched
<1>5. executed'[c] = 1
  BY <1>1, <1>2, OwnCount DEF tee_to_trustlet
<1>6. tee_rpc'[t]
  BY <1>4 DEF Single, IInv, TypeOK, SecureTypeOK
<1>7. Taken(c)' /\ space'.ret = Unset
  BY <1>2, <1>4, <1>5 DEF Taken, Asked, Call
<1>8. InTrustlet(c, t)'
  BY <1>2, <1>4, <1>6, <1>7
  DEF InTrustlet, Serves, NoService, Waiting, Quiet
<1> QED
  BY <1>1, <1>2, <1>4, <1>8 DEF PhaseInv, MailInv, Single

\* The TEE task writes the trustlet's answer.
LEMMA TeeFromTrustletCall ==
  ASSUME NEW c, Single(c), IInv', tee_from_trustlet, UNCHANGED normalVars
  PROVE  PhaseInv(c)' /\ MailInv(c)'
<1>1. /\ current_thread = "tee" /\ tee_pc = "ta" /\ ~Booting /\ ~Booting'
      /\ tee = 2 /\ tee_respond(2, space)
  BY SameBoot DEF tee_from_trustlet, Runs, Single, IInv, BootInv, PointerInv
<1>2. /\ Taken(c) /\ NoService /\ Waiting(Trustlets) /\ Answered(c, space)
      /\ client_pc[c] = "smc"
  BY <1>1 DEF Single, PhaseInv, InTeeTask, Quiet
<1>3. /\ current_thread' = "ns" /\ tee_page' = [tee_page EXCEPT ![c] = space]
      /\ package_result' = [package_result EXCEPT ![c] = "TEE_STRUCT"]
      /\ ctrl_page' = ctrl_page
  BY <1>1, OwnAnswer
<1>4. tee_page'[c] = space /\ package_result'[c] = "TEE_STRUCT"
  BY <1>3 DEF Single, IInv, TypeOK, MonTypeOK
<1>5. Quiet' /\ executed'[c] = 1 /\ Answered(c, tee_page[c])'
  BY <1>2, <1>4 DEF tee_from_trustlet, Quiet, NoService, Waiting, Taken, Answered, Call, Answers
<1> QED
  BY <1>1, <1>2, <1>3, <1>4, <1>5 DEF PhaseInv, InNormalWorld, MailInv, Single

\* Of a trustlet that runs after boot: it serves the client's call.
LEMMA TrustletServes ==
  ASSUME NEW c, Single(c), NEW t \in Trustlets, current_thread = t, ~Booting
  PROVE  InTrustlet(c, t) /\ client_pc[c] = "smc"
BY ThreadFacts DEF Single, PhaseInv

\* A trustlet takes the request: its TA_RPC is the TEE task's copy.
LEMMA TaAcceptCall ==
  ASSUME NEW c, Single(c), IInv', NEW t \in Trustlets, ta_accept(t),
         UNCHANGED normalVars
  PROVE  PhaseInv(c)' /\ MailInv(c)'
<1> USE ThreadFacts
<1>1. current_thread = t /\ ta_pc[t] = "wait" /\ ~Booting /\ ~Booting'
  BY SameBoot, TrustletAfterBoot DEF ta_accept, Runs, Single
<1>2. InTrustlet(c, t) /\ client_pc[c] = "smc"
  BY <1>1, TrustletServes
<1>3. /\ ta_call' = [ta_call EXCEPT ![t] = space] /\ ta_pc' = [ta_pc EXCEPT ![t] = "run"]
      /\ UNCHANGED <<schedVars, pageVars, teeVars, tee_rpc, serviceVars, executed>>
  BY DEF ta_accept
<1>4. ta_call'[t] = space /\ ta_pc'[t] = "run" /\ \A u \in Trustlets \ {t} : ta_pc'[u] = ta_pc[u]
  BY <1>3 DEF Single, IInv, TypeOK, SecureTypeOK
<1>5. InTrustlet(c, t)'
  BY <1>2, <1>3, <1>4
  DEF InTrustlet, Serves, NoService, Waiting, Taken, Call
<1> QED
  BY <1>1, <1>2, <1>3, <1>5 DEF PhaseInv, MailInv, Single

\* A trustlet that waits again leaves the answer, or the error, to the TEE task.
LEMMA WaitCall ==
  ASSUME NEW c, Single(c), IInv', NEW t \in Trustlets, ~Booting, current_thread = t,
         WaitForRequest(t), main_pc' = main_pc, Answered(c, space'),
         space'.op = space.op,
         UNCHANGED <<tee_pc, tee_page, ctrl_page, package_result, serviceVars, executed, normalVars>>
  PROVE  PhaseInv(c)' /\ MailInv(c)'
<1> USE ThreadFacts
<1>1. ~Booting' /\ current_thread' = "tee" /\ ta_pc' = [ta_pc EXCEPT ![t] = "wait"]
  BY SameBoot, SwitchTo DEF WaitForRequest, sched_thread_switched, Single
<1>2. InTrustlet(c, t) /\ client_pc[c] = "smc"
  BY TrustletServes
<1>3. Waiting(Trustlets)'
  BY <1>1, <1>2 DEF InTrustlet, Serves, Waiting, Single, IInv, TypeOK, SecureTypeOK
<1>4. Taken(c)' /\ NoService' /\ Answered(c, space)'
  BY <1>2 DEF InTrustlet, Serves, Taken, NoService, Answered, Call, Answers
<1> QED
  BY <1>1, <1>2, <1>3, <1>4 DEF PhaseInv, InTeeTask, MailInv, Single

\* A request whose parameters cannot be translated is answered with an error.
LEMMA TaRefuseCall ==
  ASSUME NEW c, Single(c), IInv', NEW t \in Trustlets, ta_refuse(t),
         UNCHANGED normalVars
  PROVE  PhaseInv(c)' /\ MailInv(c)'
<1>1. /\ current_thread = t /\ ta_pc[t] = "wait" /\ ~Booting /\ WaitForRequest(t)
      /\ main_pc' = main_pc
      /\ UNCHANGED <<tee_pc, tee_page, ctrl_page, package_result, serviceVars, executed, normalVars>>
  BY TrustletAfterBoot DEF ta_refuse, Runs, Single
<1>2. Taken(c) /\ tee_rpc[t]
  BY <1>1, TrustletServes DEF InTrustlet, Serves
<1>3. space.op = "call" /\ space' = [space EXCEPT !.ret = Error] /\ space \in TeeSpaces
  BY <1>2 DEF ta_refuse, Single, IInv, PointerInv
<1>4. space'.id = space.id /\ space'.op = "call" /\ space'.ret = Error
  BY <1>3 DEF TeeSpaces
<1>5. Answered(c, space')
  BY <1>2, <1>4 DEF Answered, Answers, Taken
<1> QED
  BY <1>1, <1>3, <1>4, <1>5, WaitCall

\* The trustlet's result goes to the call it was computed for.
LEMMA TaAnswerCall ==
  ASSUME NEW c, Single(c), IInv', NEW t \in Trustlets, ta_answer(t),
         UNCHANGED normalVars
  PROVE  PhaseInv(c)' /\ MailInv(c)'
<1>1. /\ current_thread = t /\ ta_pc[t] = "run" /\ ~Booting /\ WaitForRequest(t)
      /\ main_pc' = main_pc
      /\ UNCHANGED <<tee_pc, tee_page, ctrl_page, package_result, serviceVars, executed, normalVars>>
  BY TrustletAfterBoot DEF ta_answer, Runs, Single
<1>2. Taken(c) /\ tee_rpc[t] /\ space.ret = Unset /\ ta_call[t].id = Call(c)
  BY <1>1, TrustletServes DEF InTrustlet, Serves, Taken
<1>3. space \in TeeSpaces
  BY <1>2 DEF Single, IInv, PointerInv
<1>4. PICK ret \in {Call(c), Error} :
        space' = IF space.op = "call" THEN [space EXCEPT !.ret = ret] ELSE space
  BY <1>2 DEF ta_answer
<1>5. space'.id = space.id /\ space'.op = space.op
      /\ space'.ret = IF space.op = "call" THEN ret ELSE Unset
  BY <1>2, <1>3, <1>4 DEF TeeSpaces
<1>6. space.op \in {"call", "close"}
  BY <1>2, <1>3 DEF TeeSpaces, Ops, Taken
<1>7. Answered(c, space')
  BY <1>2, <1>4, <1>5, <1>6 DEF Answered, Answers, Taken, Call
<1> QED
  BY <1>1, <1>5, <1>7, WaitCall

\* A trustlet asks for a file operation, in an empty queue.
LEMMA TaRequestCall ==
  ASSUME NEW c, Single(c), IInv', NEW t \in Trustlets, ta_request(t),
         UNCHANGED normalVars
  PROVE  PhaseInv(c)' /\ MailInv(c)'
<1> USE ThreadFacts
<1>1. current_thread = t /\ ta_pc[t] = "run" /\ ~Booting /\ ~Booting'
  BY SameBoot, TrustletAfterBoot DEF ta_request, Runs, Single
<1>2. NoService /\ Serves(c, t) /\ client_pc[c] = "smc"
  BY <1>1, TrustletServes DEF InTrustlet
<1>3. /\ current_thread' = "service" /\ service_queue' = <<t>> /\ service_pc' = service_pc
      /\ ta_reqbit' = [ta_reqbit EXCEPT ![t] = 1 - ta_reqbit[t]]
      /\ ctrl_space' = [ctrl_space EXCEPT
                          ![t] = [id |-> <<t, 1 - ta_reqbit[t]>>, done |-> FALSE]]
      /\ ready' = [ready EXCEPT ![t] = FALSE]
      /\ ta_pc' = [ta_pc EXCEPT ![t] = "service"]
      /\ UNCHANGED <<monVars, teeVars, tee_rpc, ta_call, executed>>
  BY SwitchTo DEF ta_request, queue_put, sched_thread_switched
<1>4. /\ ta_reqbit'[t] = 1 - ta_reqbit[t] /\ ~ready'[t] /\ ta_pc'[t] = "service"
      /\ ctrl_space'[t] = [id |-> <<t, 1 - ta_reqbit[t]>>, done |-> FALSE]
      /\ \A u \in Trustlets \ {t} : ta_pc'[u] = ta_pc[u]
  BY <1>3 DEF Single, IInv, TypeOK, SecureTypeOK
<1>5. ctrl_space'[t] = Operation(t, FALSE)'
  BY <1>4 DEF Operation
<1>6. AwaitsService(c, t)'
  BY <1>1, <1>2, <1>3, <1>4 DEF AwaitsService, Serves, Taken, Waiting, Call
<1>7. InServiceTask(c)'
  BY <1>2, <1>3, <1>5, <1>6 DEF InServiceTask, NoService
<1> QED
  BY <1>1, <1>2, <1>3, <1>7 DEF PhaseInv, MailInv, Single

\* A trustlet that runs in service_do_request finds its request ready.
LEMMA TaRequestDoneCall ==
  ASSUME NEW c, Single(c), IInv', NEW t \in Trustlets, ta_request_done(t),
         UNCHANGED normalVars
  PROVE  PhaseInv(c)' /\ MailInv(c)'
<1> USE ThreadFacts
<1>1. current_thread = t /\ ta_pc[t] = "service" /\ ~Booting /\ ~Booting'
  BY SameBoot, TrustletAfterBoot DEF ta_request_done, Runs, Single
<1>2. NoService /\ Serves(c, t) /\ ready[t] /\ client_pc[c] = "smc"
  BY <1>1, TrustletServes DEF InTrustlet
<1>3. /\ ta_pc' = [ta_pc EXCEPT ![t] = "run"]
      /\ UNCHANGED <<schedVars, monVars, teeVars, tee_rpc, ta_call, executed,
                     service_queue, service_pc>>
  BY <1>2 DEF ta_request_done
<1>4. ta_pc'[t] = "run" /\ \A u \in Trustlets \ {t} : ta_pc'[u] = ta_pc[u]
  BY <1>3 DEF Single, IInv, TypeOK, SecureTypeOK
<1>5. InTrustlet(c, t)'
  BY <1>1, <1>2, <1>3, <1>4 DEF InTrustlet, Serves, NoService, Taken, Waiting, Call
<1> QED
  BY <1>1, <1>2, <1>3, <1>5 DEF PhaseInv, MailInv, Single

\* The request goes to the control page of the client.
LEMMA ServiceStartCall ==
  ASSUME NEW c, Single(c), IInv', service_start, UNCHANGED normalVars
  PROVE  PhaseInv(c)' /\ MailInv(c)'
<1> USE ThreadFacts
<1>1. /\ current_thread = "service" /\ service_pc = "top" /\ service_queue # << >>
      /\ ~Booting /\ ~Booting'
  BY SameBoot DEF service_start, Runs, Single, IInv, BootInv
<1>2. client_pc[c] = "smc" /\ InServiceTask(c)
  BY <1>1 DEF Single, PhaseInv
<1>3. PICK t \in Trustlets : /\ service_queue = <<t>> /\ AwaitsService(c, t)
                             /\ ctrl_space[t] = Operation(t, FALSE)
  BY <1>1, <1>2 DEF InServiceTask, Away
<1>4. Head(service_queue) = t /\ ~ready[t] /\ service_queue' = << >>
  BY <1>3 DEF AwaitsService, service_start, queue_get
<1>5. com_mem = 3 /\ com_mem # NULL /\ vmap[3].of = c
  BY <1>1, OwnWindows, SlotFacts
<1>6. /\ ctrl_page' = [ctrl_page EXCEPT ![c] = ctrl_space[t]]
      /\ ssc_nons_service("CTRL_STRUCT", state)
      /\ service_pc' = "reply" /\ request' = t
      /\ UNCHANGED <<tee_page, teeVars, taVars, ready, executed>>
  BY <1>4, <1>5 DEF service_start
<1>7. current_thread' = "ns" /\ package_result'[c] = "CTRL_STRUCT"
  BY <1>1, <1>6, OwnReturn DEF Single, IInv, TypeOK, MonTypeOK
<1>8. ctrl_page'[c] = Operation(t, FALSE)'
  BY <1>3, <1>6 DEF Operation, Single, IInv, TypeOK, MonTypeOK
<1>9. AwaitsService(c, t)'
  BY <1>3, <1>6 DEF AwaitsService, Serves, Taken, Waiting, Call
<1>10. Away(c, {FALSE})'
  BY <1>4, <1>6, <1>8, <1>9 DEF Away
<1> QED
  BY <1>1, <1>2, <1>7, <1>10 DEF PhaseInv, InNormalWorld, MailInv, Single

\* The response of the control page goes to the trustlet that asked for it.
LEMMA ServiceReplyCall ==
  ASSUME NEW c, Single(c), IInv', service_reply, UNCHANGED normalVars
  PROVE  PhaseInv(c)' /\ MailInv(c)'
<1> USE ThreadFacts
<1>1. /\ current_thread = "service" /\ service_pc = "reply" /\ ~Booting /\ ~Booting'
  BY SameBoot DEF service_reply, Runs, Single, IInv, BootInv, ServiceInv
<1>2. client_pc[c] = "smc" /\ Away(c, {TRUE})
  BY <1>1 DEF Single, PhaseInv, InServiceTask
<1>3. PICK t \in Trustlets : /\ t = request /\ AwaitsService(c, t) /\ service_queue = << >>
                             /\ ctrl_page[c] = Operation(t, TRUE)
  BY <1>2 DEF Away
<1>4. com_mem = 3 /\ com_mem # NULL /\ vmap[3].of = c
  BY <1>1, OwnWindows, SlotFacts
<1>5. /\ ctrl_space' = [ctrl_space EXCEPT ![t] = ctrl_page[c]]
      /\ ready' = [ready EXCEPT ![t] = TRUE]
      /\ switch_to_thread(state, t) /\ service_pc' = "top"
      /\ UNCHANGED <<monVars, teeVars, taVars, service_queue, executed>>
  BY <1>1, <1>3, <1>4 DEF service_reply
<1>6. current_thread' = t
  BY <1>5, SwitchTo DEF sched_thread_switched
<1>7. ready'[t] /\ ctrl_space'[t] = Operation(t, TRUE)'
  BY <1>3, <1>5 DEF Operation, Single, IInv, TypeOK, SecureTypeOK
<1>8. Serves(c, t)'
  BY <1>3, <1>5 DEF AwaitsService, Serves, Taken, Waiting, Call
<1>9. InTrustlet(c, t)'
  BY <1>3, <1>5, <1>7, <1>8 DEF InTrustlet, NoService
<1> QED
  BY <1>1, <1>2, <1>5, <1>6, <1>9 DEF PhaseInv, MailInv, Single

-----------------------------------------------------------------------------
(* Boot                                                                    *)

\* No thread is blocked by another's yield.
LEMMA YieldBlocks ==
  ASSUME NEW list \in Seq(Threads), NEW st \in [Threads -> States], yield(list, st),
         NEW u \in Threads, st[u] # "BLOCKED"
  PROVE  state'[u] # "BLOCKED"
<1>1. CASE state' = st
  BY <1>1
<1>2. CASE \E i \in DOMAIN list : sched_thread_switched(st, list[i])
  BY <1>2 DEF sched_thread_switched
<1> QED
  BY <1>1, <1>2, Yield

\* When main creates the non-secure thread all trustlets are blocked, and the
\* normal world gets the CPU.
LEMMA BootEnds ==
  ASSUME IInv, IInv', main_create, main_pc = Len(Created)
  PROVE  /\ ~Booting' /\ current_thread' = "ns"
         /\ \A t \in Trustlets : state[t] = "BLOCKED"
<1> USE ThreadFacts
<1>1. /\ current_thread = "main" /\ Booting /\ main_pc \in 2..Len(Created)
      /\ Created[main_pc] = "ns" /\ Len(Created) \in Nat
  BY CreatedFacts DEF main_create, Runs, IInv, RunInv
<1> DEFINE list == Append(thread_list, "ns")
           st == Become("BLOCKED")
<1>2. thread_list' = list /\ yield(list, st) /\ main_pc' = main_pc + 1
  BY <1>1 DEF main_create, sched_add_thread
<1>3. /\ state \in [Threads -> States] /\ st \in [Threads -> States]
      /\ thread_list \in Seq(Threads) /\ list \in Seq(Threads)
      /\ Len(thread_list) = main_pc /\ thread_list[1] = "main"
  BY DEF IInv, TypeOK, SchedTypeOK, Become, States, ListInv
<1>4. \A i \in 2..main_pc : /\ thread_list[i] = Created[i - 1] /\ thread_list[i] \in Threads
                            /\ thread_list[i] # "main" /\ state[thread_list[i]] = "BLOCKED"
  <2>1. \A i \in 2..main_pc : thread_list[i] = Created[i - 1]
    BY DEF IInv, ListInv
  <2>2. \A i \in 2..main_pc : Created[i - 1] \in Threads /\ Created[i - 1] # "main"
    BY <1>1, CreatedFacts
  <2> QED
    BY <1>1, <2>1, <2>2 DEF IInv, BootInv
<1>5. ~Booting' /\ current_thread' # "main"
  <2>1. ~(main_pc' <= Len(Created)') /\ Len(Created)' = Len(Created)
    BY <1>1, <1>2 DEF Created
  <2> QED
    BY <2>1 DEF IInv, ListInv, RunInv
<1>6. current_thread' = "ns"
  <2>1. st["main"] = "BLOCKED" /\ \A i \in 2..main_pc : st[thread_list[i]] = "BLOCKED"
    BY <1>1, <1>3, <1>4 DEF Become
  <2>2. \A i \in DOMAIN list : i = 1 \/ i \in 2..main_pc \/ i = main_pc + 1
    BY <1>1, <1>3
  <2>3. /\ list[1] = "main" /\ list[main_pc + 1] = "ns"
        /\ \A i \in 2..main_pc : list[i] = thread_list[i]
    BY <1>1, <1>3
  <2> HIDE DEF list, st
  <2>4. \A i \in DOMAIN list : st[list[i]] = "READY" => list[i] = "ns"
    BY <2>1, <2>2, <2>3
  <2>5. CASE current_thread' = current_thread
    BY <1>1, <1>5, <2>5
  <2>6. CASE \E i \in DOMAIN list : sched_thread_switched(st, list[i]) /\ st[list[i]] = "READY"
    BY <2>4, <2>6 DEF sched_thread_switched
  <2> QED
    BY <1>2, <1>3, <2>5, <2>6, Yield
<1>7. ASSUME NEW t \in Trustlets
      PROVE  state[t] = "BLOCKED"
  <2>1. PICK i \in 1..Len(Created) : Created[i] = t
    <3>1. PICK j \in 1..Len(BootOrder) : BootOrder[j] = t
      BY SecureWorldAssumption
    <3>2. BootOrder \in Seq(Threads) /\ Len(BootOrder) \in Nat
      BY SecureWorldAssumption DEF Threads
    <3>3. Created[j + 2] = t /\ j + 2 \in 1..Len(Created)
      BY <3>1, <3>2 DEF Created
    <3> QED
      BY <3>3
  <2>2. i # Len(Created)
    BY <2>1, CreatedFacts
  <2>3. i + 1 \in 2..main_pc /\ (i + 1) - 1 = i
    BY <1>1, <2>1, <2>2
  <2> QED
    BY <1>4, <2>1, <2>3
<1> QED
  BY <1>5, <1>6, <1>7

\* The normal world starts with everything at rest.
LEMMA MainCall ==
  ASSUME NEW c, Single(c), IInv', StartedInv, main_create, UNCHANGED normalVars
  PROVE  PhaseInv(c)' /\ MailInv(c)'
<1>1. /\ Booting /\ client_pc[c] = "idle" /\ current_thread = "main"
      /\ UNCHANGED <<teeVars, taVars, serviceVars>>
  BY DEF main_create, Runs, Single, IInv, RunInv, PhaseInv
<1>2. MailInv(c)'
  BY <1>1 DEF MailInv, Single
<1>3. CASE Booting'
  BY <1>1, <1>2, <1>3 DEF PhaseInv
<1>4. CASE ~Booting'
  <2>1. main_pc = Len(Created)
    <3>1. main_pc \in Nat /\ main_pc <= Len(Created) /\ main_pc' = main_pc + 1 /\ Len(Created) \in Nat
      BY CreatedFacts DEF main_create, Single, IInv, TypeOK, SecureTypeOK
    <3>2. ~(main_pc' <= Len(Created))
      BY <1>4 DEF IInv, ListInv, Created
    <3> QED
      BY <3>1, <3>2
  <2>2. current_thread' = "ns" /\ \A t \in Trustlets : state[t] = "BLOCKED"
    BY <2>1, BootEnds DEF Single
  <2>3. Waiting(Trustlets)
    BY <1>1, <2>2 DEF StartedInv, Waiting, Single, IInv, BootInv
  <2>4. Quiet'
    BY <1>1, <2>3 DEF Quiet, NoService, Waiting, Single, IInv, BootInv
  <2> QED
    BY <1>1, <1>2, <1>4, <2>2, <2>4 DEF PhaseInv, InNormalWorld
<1> QED
  BY <1>3, <1>4

\* The other threads run to their first wait while the normal world has not
\* begun: no yield is left after that.
LEMMA BootCall ==
  ASSUME NEW c, Single(c), IInv', UNCHANGED normalVars,
         tee_idle \/ service_idle \/ \E t \in Trustlets : ta_start(t), StartedInv
  PROVE  PhaseInv(c)' /\ MailInv(c)'
<1> USE ThreadFacts
<1>1. Booting
  <2>1. CASE tee_idle
    BY <2>1, OwnWindows, SlotFacts DEF tee_idle, Runs
  <2>2. CASE service_idle
    BY <2>2 DEF service_idle, Runs, Single, PhaseInv, InServiceTask, Away
  <2>3. CASE \E t \in Trustlets : ta_start(t)
    BY <2>3 DEF ta_start, StartedInv
  <2> QED
    BY <2>1, <2>2, <2>3
<1>2. Booting'
  BY <1>1, SameBoot DEF tee_idle, service_idle, ta_start, Single
<1> QED
  BY <1>1, <1>2 DEF PhaseInv, MailInv, Single

-----------------------------------------------------------------------------
(* Steps of the normal world                                               *)

\* Only a normal world that has begun takes steps.
LEMMA NormalWorld ==
  ASSUME NEW c, Single(c), current_thread = "ns"
  PROVE  ~Booting /\ InNormalWorld(c)
BY DEF Single, IInv, BootInv, PhaseInv

\* The predicates below the phase that a step of the normal world leaves alone.
LEMMA QuietStays ==
  ASSUME Quiet, UNCHANGED <<teeVars, taVars, serviceVars>>
  PROVE  Quiet'
BY DEF Quiet, NoService, Waiting

LEMMA AwaitsStays ==
  ASSUME NEW c, NEW t, AwaitsService(c, t),
         UNCHANGED <<teeVars, taVars, serviceVars, executed, callbit, tee_page>>
  PROVE  AwaitsService(c, t)'
BY DEF AwaitsService, Serves, Taken, Waiting, Call

\* While the operation is away its page holds its request or its response.
LEMMA AwayStays ==
  ASSUME NEW c, NEW Done, NEW Done2, Away(c, Done),
         UNCHANGED <<teeVars, taVars, serviceVars, executed, callbit, tee_page>>,
         \E done \in Done2 : ctrl_page'[c] = Operation(request, done)
  PROVE  Away(c, Done2)'
<1>1. PICK t : t = request /\ t \in Trustlets /\ AwaitsService(c, t)
  BY DEF Away
<1>2. AwaitsService(c, t)'
  BY <1>1, AwaitsStays
<1>3. PICK done \in Done2 : ctrl_page'[c] = Operation(t, done)
  BY <1>1
<1>4. ctrl_page'[c] = Operation(t, done)'
  BY <1>3 DEF Operation
<1> QED
  BY <1>1, <1>2, <1>4 DEF Away

\* A new call: its request is in its page, not yet executed.
LEMMA CallCall ==
  ASSUME NEW c, Single(c), IInv', NEW op \in Ops, client_call(c, op)
  PROVE  PhaseInv(c)' /\ MailInv(c)'
<1>1. current_thread = "ns" /\ client_pc[c] = "idle" /\ UNCHANGED <<schedVars, main_pc>>
  BY DEF client_call, Runs
<1>2. ~Booting' /\ current_thread' = "ns" /\ Quiet
  BY <1>1, NormalWorld, SameBoot DEF Single, InNormalWorld
<1>3. Quiet'
  BY <1>2, QuietStays DEF client_call
<1>4. /\ client_pc'[c] = "tmem" /\ executed'[c] = 0 /\ callbit'[c] = 1 - callbit[c]
      /\ tee_page'[c] = [id |-> <<c, 1 - callbit[c]>>, op |-> op, ret |-> Unset]
  <2>1. /\ client_pc \in [Clients -> {"idle", "tmem", "smc", "poll", "cmem"}]
        /\ executed \in [Clients -> 0..2] /\ callbit \in [Clients -> {0, 1}]
        /\ tee_page \in [Clients -> TeeSpaces] /\ c \in Clients
    BY DEF Single, IInv, TypeOK, MonTypeOK, SecureTypeOK, NormalTypeOK
  <2> QED
    BY <2>1 DEF client_call, Goto
<1>5. Asked(c)'
  BY <1>4 DEF Asked, Call
<1>6. MailInv(c)'
  BY <1>1, <1>4 DEF MailInv, Single, client_call
<1> QED
  BY <1>2, <1>3, <1>4, <1>5, <1>6 DEF PhaseInv, InNormalWorld

\* SMC_PROCESS_TMEM gives the CPU to the TEE task, SMC_PROCESS_CMEM to the
\* service task: the windows are mapped, since slots 1, 2 and 3 are free.
LEMMA EnterCall ==
  ASSUME NEW c, Single(c), IInv', client_tmem(c) \/ client_cmem(c)
  PROVE  PhaseInv(c)' /\ MailInv(c)'
<1>1. /\ current_thread = "ns" /\ set_tz_package(c) /\ main_pc' = main_pc
      /\ UNCHANGED <<pageVars, secureVars, callbit, pending, ctrlspace, daemon_pc, comm>>
      /\ client_pc' = [client_pc EXCEPT ![c] = "smc"]
  BY DEF client_tmem, client_cmem, smc_process_tmem, smc_process_cmem, Runs, Goto
<1>2. ~Booting /\ InNormalWorld(c) /\ ~Booting'
  BY <1>1, NormalWorld, SameBoot DEF Single
<1>3. tee_mem' = 2 /\ com_mem' = 3 /\ 2 # NULL /\ 3 # NULL
  <2>1. /\ vmap \in [Slot -> Pages \cup {NULL}] /\ c \in Clients
        /\ package = NULL /\ tee_mem = NULL /\ com_mem = NULL
        /\ vmap[1] = NULL /\ vmap[2] = NULL /\ vmap[3] = NULL
    BY <1>1, <1>2 DEF Single, IInv, TypeOK, MonTypeOK, WindowInv
  <2> QED
    BY <1>1, <2>1, SetPackage, SlotFacts
<1>4. client_pc'[c] = "smc" /\ client_pc[c] \in {"tmem", "cmem"}
  BY <1>1 DEF Single, IInv, TypeOK, NormalTypeOK, client_tmem, client_cmem
<1>5. MailInv(c)'
  BY <1>1, <1>4 DEF MailInv, Single
<1>6. CASE client_tmem(c)
  <2>1. current_thread' = "tee"
    BY <1>3, <1>6 DEF client_tmem, smc_process_tmem, sched_thread_switched
  <2>2. Quiet' /\ Asked(c)'
    BY <1>1, <1>2, <1>6, QuietStays DEF client_tmem, InNormalWorld, Asked, Call
  <2> QED
    BY <1>2, <1>4, <1>5, <2>1, <2>2, ThreadFacts DEF PhaseInv, InTeeTask
<1>7. CASE client_cmem(c)
  <2>1. current_thread' = "service"
    BY <1>3, <1>7 DEF client_cmem, smc_process_cmem, sched_thread_switched
  <2>2. Away(c, {TRUE})
    BY <1>2, <1>7 DEF client_cmem, InNormalWorld
  <2>3. Away(c, {TRUE})'
    <3>1. \E done \in {TRUE} : ctrl_page'[c] = Operation(request, done)
      BY <1>1, <2>2 DEF Away
    <3> QED
      BY <1>1, <2>2, <3>1, AwayStays
  <2> QED
    BY <1>2, <1>4, <1>5, <2>1, <2>3, ThreadFacts DEF PhaseInv, InServiceTask
<1> QED
  BY <1>6, <1>7

\* A control page put into the mailbox, which is idle, and taken from it again.
LEMMA MailCall ==
  ASSUME NEW c, Single(c), IInv', client_push(c) \/ client_poll(c)
  PROVE  PhaseInv(c)' /\ MailInv(c)'
<1>1. /\ current_thread = "ns" /\ UNCHANGED <<schedVars, monVars, secureVars, callbit, daemon_pc, comm>>
  BY DEF client_push, client_poll, Runs
<1>2. ~Booting /\ InNormalWorld(c) /\ ~Booting' /\ current_thread' = "ns"
  BY <1>1, NormalWorld, SameBoot DEF Single
<1>3. client_pc \in [Clients -> {"idle", "tmem", "smc", "poll", "cmem"}] /\ c \in Clients
  BY DEF Single, IInv, TypeOK, NormalTypeOK
<1>4. CASE client_push(c)
  <2>1. client_pc[c] = "smc" /\ client_pc'[c] = "poll" /\ Away(c, {FALSE})
    BY <1>2, <1>3, <1>4 DEF client_push, Goto, InNormalWorld
  <2>2. Away(c, BOOLEAN)' /\ ctrl_page'[c].done = FALSE
    <3>1. ctrl_page'[c] = Operation(request, FALSE)
      BY <1>1, <2>1 DEF Away
    <3>2. \E done \in BOOLEAN : ctrl_page'[c] = Operation(request, done)
      BY <3>1
    <3>3. Away(c, BOOLEAN)'
      BY <1>1, <2>1, <3>2, AwayStays
    <3> QED
      BY <3>1, <3>3 DEF Operation
  <2>3. pending' = "CTRL_PENDING_FROM_S" /\ ctrlspace' = c /\ daemon_pc' = "poll"
    BY <1>1, <1>4, <2>1 DEF client_push, MailInv, Single
  <2> QED
    BY <1>2, <2>1, <2>2, <2>3 DEF PhaseInv, InNormalWorld, MailInv
<1>5. CASE client_poll(c)
  <2>1. /\ client_pc[c] = "poll" /\ client_pc'[c] = "cmem" /\ Away(c, BOOLEAN)
        /\ pending = "CTRL_RESPONSE_FROM_NS" /\ pending' = "CTRL_IDLE"
    BY <1>2, <1>3, <1>5 DEF client_poll, Goto, InNormalWorld
  <2>2. ctrl_page[c].done /\ daemon_pc = "poll"
    BY <2>1 DEF MailInv, Single
  <2>3. PICK done \in BOOLEAN : ctrl_page[c] = Operation(request, done)
    BY <2>1 DEF Away
  <2>4. done = TRUE
    BY <2>2, <2>3 DEF Operation
  <2>5. Away(c, {TRUE})'
    BY <1>1, <2>1, <2>3, <2>4, AwayStays
  <2> QED
    BY <1>1, <1>2, <2>1, <2>2, <2>5 DEF PhaseInv, InNormalWorld, MailInv
<1> QED
  BY <1>4, <1>5

\* The answer goes to the caller, with everything at rest.
LEMMA ReturnCall ==
  ASSUME NEW c, Single(c), IInv', client_return(c)
  PROVE  PhaseInv(c)' /\ MailInv(c)'
<1>1. /\ current_thread = "ns" /\ client_pc[c] = "smc" /\ UNCHANGED <<schedVars, secureVars, pending, daemon_pc>>
      /\ client_pc' = [client_pc EXCEPT ![c] = "idle"]
  BY DEF client_return, Runs, Goto
<1>2. ~Booting /\ InNormalWorld(c) /\ ~Booting' /\ current_thread' = "ns"
  BY <1>1, NormalWorld, SameBoot DEF Single
<1>3. client_pc'[c] = "idle"
  BY <1>1 DEF Single, IInv, TypeOK, NormalTypeOK
<1>4. Quiet'
  BY <1>1, <1>2, QuietStays DEF InNormalWorld, client_return
<1> QED
  BY <1>1, <1>2, <1>3, <1>4 DEF PhaseInv, InNormalWorld, MailInv, Single

\* The daemon takes the client's operation and puts its response into the page.
LEMMA DaemonCall ==
  ASSUME NEW c, Single(c), IInv', daemon_step
  PROVE  PhaseInv(c)' /\ MailInv(c)'
<1>1. /\ current_thread = "ns" /\ UNCHANGED <<schedVars, secureVars, tee_page, client_pc, callbit, ctrlspace>>
  BY DEF daemon_step, daemon_poll, daemon_push, Runs
<1>2. ~Booting /\ InNormalWorld(c) /\ ~Booting' /\ current_thread' = "ns"
  BY <1>1, NormalWorld, SameBoot DEF Single
<1>3. /\ client_pc[c] = "poll" /\ ctrlspace = c /\ pending # "CTRL_IDLE"
      /\ pending = "CTRL_PENDING_IN_NS" <=> daemon_pc = "push"
  BY DEF daemon_step, daemon_poll, daemon_push, MailInv, Single
<1>4. PICK done \in BOOLEAN : ctrl_page[c] = Operation(request, done)
  BY <1>2, <1>3 DEF InNormalWorld, Away
<1>5. ctrl_page \in [Clients -> CtrlSpaces] /\ c \in Clients /\ ctrl_page[c] \in CtrlSpaces
  BY DEF Single, IInv, TypeOK, MonTypeOK
<1>6. CASE daemon_poll
  <2>1. /\ ~ctrl_page[c].done /\ pending' = "CTRL_PENDING_IN_NS" /\ daemon_pc' = "push"
        /\ comm' = [ctrl_page[c] EXCEPT !.done = TRUE] /\ ctrl_page' = ctrl_page
    BY <1>3, <1>6 DEF daemon_poll, MailInv, Single
  <2>2. Away(c, BOOLEAN)'
    BY <1>1, <1>2, <1>3, <1>4, <2>1, AwayStays DEF InNormalWorld
  <2> QED
    BY <1>1, <1>2, <1>3, <2>1, <2>2 DEF PhaseInv, InNormalWorld, MailInv
<1>7. CASE daemon_push
  <2>1. /\ pending' = "CTRL_RESPONSE_FROM_NS" /\ daemon_pc' = "poll"
        /\ ctrl_page' = [ctrl_page EXCEPT ![c] = [ctrl_page[c] EXCEPT !.done = TRUE]]
    BY <1>3, <1>7 DEF daemon_push, MailInv, Single
  <2>2. ctrl_page'[c] = Operation(request, TRUE) /\ ctrl_page'[c].done = TRUE
    <3>1. ctrl_page'[c] = [ctrl_page[c] EXCEPT !.done = TRUE]
      BY <1>5, <2>1
    <3> DEFINE i == <<request, ta_reqbit[request]>>
    <3>2. ctrl_page[c].id = i /\ Operation(request, TRUE) = [id |-> i, done |-> TRUE]
      BY <1>4 DEF Operation
    <3> HIDE DEF i
    <3>3. ctrl_page'[c] = Operation(request, TRUE)
      <4>1. /\ ctrl_page'[c] \in CtrlSpaces /\ ctrl_page'[c].id = i
            /\ ctrl_page'[c].done = TRUE /\ i \in ReqIds \cup {Unset}
        BY <1>5, <3>1, <3>2 DEF CtrlSpaces
      <4> QED
        BY <3>2, <4>1 DEF CtrlSpaces
    <3> QED
      BY <3>3 DEF Operation
  <2>3. Away(c, BOOLEAN)'
    BY <1>1, <1>2, <1>3, <2>2, AwayStays DEF InNormalWorld
  <2> QED
    BY <1>1, <1>2, <1>3, <2>1, <2>2, <2>3 DEF PhaseInv, InNormalWorld, MailInv
<1> QED
  BY <1>6, <1>7 DEF daemon_step

-----------------------------------------------------------------------------
(* The theorems                                                            *)

\* A thread that is not running cannot leave the start of its code, and none
\* goes back to it.
LEMMA StartedStep ==
  ASSUME IInv, IInv', StartedInv, [Next]_vars
  PROVE  StartedInv'
<1> USE ThreadFacts
<1>1. SUFFICES ASSUME NEW u \in Trustlets, ta_pc'[u] = "start"
               PROVE  Booting' /\ state'[u] # "BLOCKED"
  BY DEF StartedInv
<1>2. CASE UNCHANGED <<state, ta_pc>>
  BY <1>1, <1>2 DEF StartedInv, Booting
<1>3. /\ ta_pc \in [Trustlets -> {"start", "wait", "run", "service"}]
      /\ state \in [Threads -> States] /\ thread_list \in Seq(Threads)
  BY DEF IInv, TypeOK, SchedTypeOK, SecureTypeOK
<1>4. ASSUME ta_pc[u] = "start"
      PROVE  Booting /\ state[u] # "BLOCKED"
  BY <1>4 DEF StartedInv
<1>5. CASE main_create
  <2>1. ta_pc' = ta_pc /\ current_thread = "main"
    BY <1>5 DEF main_create, Runs
  <2>2. Booting /\ state[u] # "BLOCKED"
    BY <1>1, <1>4, <2>1
  <2>3. main_pc # Len(Created)
    BY <1>5, <2>2, BootEnds
  <2>4. Booting'
    <3>1. main_pc \in Nat /\ main_pc <= Len(Created) /\ main_pc' = main_pc + 1 /\ Len(Created) \in Nat
      BY <1>5, CreatedFacts DEF main_create, IInv, TypeOK, SecureTypeOK
    <3>2. main_pc' <= Len(Created)
      BY <2>3, <3>1
    <3> QED
      BY <3>2 DEF IInv, ListInv, Created
  <2>5. PICK list, st : /\ list \in Seq(Threads) /\ st \in [Threads -> States] /\ st[u] # "BLOCKED"
                        /\ yield(list, st)
    <3>1. thread_list' \in Seq(Threads)
      BY DEF IInv, TypeOK, SchedTypeOK
    <3>2. /\ Become("BLOCKED") \in [Threads -> States]
          /\ Become("BLOCKED")[u] # "BLOCKED"
      BY <1>3, <2>1, <2>2 DEF Become, States
    <3> QED
      BY <1>3, <1>5, <2>2, <3>1, <3>2 DEF main_create
  <2> QED
    BY <2>4, <2>5, YieldBlocks
<1>6. CASE tee_idle \/ service_idle
  <2>1. ta_pc' = ta_pc /\ current_thread \in {"tee", "service"} /\ main_pc' = main_pc
        /\ yield(thread_list, Become("BLOCKED"))
    BY <1>6 DEF tee_idle, service_idle, Runs
  <2>2. Booting /\ state[u] # "BLOCKED" /\ Booting'
    BY <1>1, <1>4, <2>1, SameBoot
  <2>3. Become("BLOCKED") \in [Threads -> States] /\ Become("BLOCKED")[u] # "BLOCKED"
    BY <1>3, <2>1, <2>2 DEF Become, States
  <2> QED
    BY <1>3, <2>1, <2>2, <2>3, YieldBlocks
<1>7. CASE \E t \in Trustlets : ta_start(t)
  <2>1. PICK t \in Trustlets : ta_start(t)
    BY <1>7
  <2>2. /\ ta_pc' = [ta_pc EXCEPT ![t] = "wait"] /\ current_thread = t /\ main_pc' = main_pc
        /\ sched_thread_switched(Become("BLOCKED"), "tee")
    BY <2>1, SwitchTo DEF ta_start, WaitForRequest, Runs
  <2>3. u # t /\ ta_pc[u] = "start"
    BY <1>1, <1>3, <2>2
  <2>4. Booting /\ state[u] # "BLOCKED" /\ Booting'
    BY <1>4, <2>2, <2>3, SameBoot
  <2> QED
    BY <1>3, <2>2, <2>3, <2>4 DEF sched_thread_switched, Become
<1>8. CASE ~Booting
  <2>1. ta_pc[u] # "start"
    BY <1>4, <1>8
  <2>2. ta_pc'[u] \in {ta_pc[u], "wait", "run", "service"}
    BY <1>3 DEF Next, SecureNext, main_create, tee_idle, tee_local, tee_from_trustlet,
      tee_to_trustlet, ta_start, ta_accept, ta_refuse, ta_answer, ta_request, ta_request_done,
      ta_abort, abort_loop,
      service_idle, service_start, service_reply, WaitForRequest, client_step, client_call,
      client_tmem, client_push, client_poll, client_cmem, client_return, daemon_step,
      daemon_poll, daemon_push
  <2> QED
    BY <1>1, <2>1, <2>2
<1>9. CASE Booting /\ SecureNext /\ UNCHANGED normalVars
  <2>1. /\ current_thread # "ns" /\ tee_mem = NULL /\ tee_pc = "top" /\ service_pc = "top"
        /\ service_queue = << >> /\ \A t \in Trustlets : ta_pc[t] \in {"start", "wait"} /\ ~tee_rpc[t]
    BY <1>9 DEF IInv, BootInv
  <2>2. ~tee_local /\ ~tee_from_trustlet /\ ~service_start /\ ~service_reply
    BY <2>1 DEF tee_local, tee_from_trustlet, service_start, service_reply
  <2>3. \A t \in Trustlets : /\ ~tee_to_trustlet(t) /\ ~ta_accept(t) /\ ~ta_answer(t)
                             /\ ~ta_request(t) /\ ~ta_request_done(t) /\ ~ta_abort(t)
    BY <2>1 DEF tee_to_trustlet, ta_accept, ta_answer, ta_request, ta_request_done, ta_abort
  <2>4. \A t \in Trustlets : ~ta_refuse(t)
    <3> SUFFICES ASSUME NEW t \in Trustlets, ta_refuse(t) PROVE FALSE
      OBVIOUS
    <3> QED
      BY <1>9, TrustletAfterBoot DEF ta_refuse, Runs
  <2> QED
    BY <1>5, <1>6, <1>7, <1>9, <2>2, <2>3, <2>4 DEF SecureNext
<1>10. CASE Booting /\ (daemon_step \/ \E c \in Clients : (\E op \in Ops : client_call(c, op)) \/ client_step(c))
  <2>1. current_thread # "ns"
    BY <1>10 DEF IInv, BootInv
  <2> QED
    BY <1>10, <2>1 DEF daemon_step, daemon_poll, daemon_push, client_call, client_step,
      client_tmem, client_push, client_poll, client_cmem, client_return, Runs
<1> QED
  BY <1>2, <1>8, <1>9, <1>10 DEF Next, abort_loop

\* Every step keeps the one client's call where it belongs.
LEMMA CallStep ==
  ASSUME OneClient, IInv, IInv', StartedInv, CallInv, [Next]_vars
  PROVE  CallInv'
<1> SUFFICES ASSUME NEW c \in Clients
             PROVE  PhaseInv(c)' /\ MailInv(c)'
  BY DEF CallInv
<1>1. Single(c)
  BY DEF Single, CallInv
<1>2. ASSUME UNCHANGED <<schedVars, pageVars, secureVars, normalVars>>
      PROVE  PhaseInv(c)' /\ MailInv(c)'
  <2>1. UNCHANGED <<Quiet, Asked(c), Taken(c), NoService, Waiting(Trustlets), Booting>>
    BY <1>2 DEF Quiet, NoService, Waiting, Asked, Taken, Call, Booting
  <2>2. Answered(c, space)' = Answered(c, space) /\ Answered(c, tee_page[c])' = Answered(c, tee_page[c])
    BY <1>2 DEF Answered, Call
  <2>3. \A t \in Trustlets : UNCHANGED <<Serves(c, t), AwaitsService(c, t)>>
    BY <1>2 DEF AwaitsService, Serves, Taken, Waiting, Call
  <2>4. \A t \in Trustlets : UNCHANGED <<Operation(t, TRUE), Operation(t, FALSE)>>
    BY <1>2 DEF Operation
  <2>5. UNCHANGED <<Away(c, {TRUE}), Away(c, {FALSE}), Away(c, BOOLEAN)>>
    BY <1>2, <2>3, <2>4 DEF Away
  <2>6. InNormalWorld(c)' = InNormalWorld(c) /\ InTeeTask(c)' = InTeeTask(c)
    BY <1>2, <2>1, <2>2, <2>5 DEF InNormalWorld, InTeeTask
  <2>7. InServiceTask(c)' = InServiceTask(c)
    BY <1>2, <2>3, <2>4, <2>5 DEF InServiceTask
  <2>8. \A t \in Trustlets : InTrustlet(c, t)' = InTrustlet(c, t)
    BY <1>2, <2>1, <2>3, <2>4 DEF InTrustlet
  <2>9. PhaseInv(c)'
    BY <1>1, <1>2, <2>1, <2>6, <2>7, <2>8 DEF Single, PhaseInv
  <2> QED
    BY <1>1, <1>2, <2>9 DEF Single, MailInv
<1>6. CASE \E t \in Trustlets : ta_abort(t) /\ UNCHANGED normalVars
  BY <1>2, <1>6 DEF ta_abort
<1>3. CASE SecureNext /\ UNCHANGED normalVars
  BY <1>1, <1>3, <1>6, MainCall, BootCall, TeeLocalCall, TeeFromTrustletCall, TeeToTrustletCall,
     TaAcceptCall, TaRefuseCall, TaAnswerCall, TaRequestCall, TaRequestDoneCall,
     ServiceStartCall, ServiceReplyCall
  DEF SecureNext
<1>4. CASE \E d \in Clients : (\E op \in Ops : client_call(d, op)) \/ client_step(d)
  <2>1. (\E op \in Ops : client_call(c, op)) \/ client_step(c)
    BY <1>4 DEF OneClient
  <2> QED
    BY <1>1, <2>1, CallCall, EnterCall, MailCall, ReturnCall DEF client_step
<1>5. CASE daemon_step
  BY <1>1, <1>5, DaemonCall
<1> QED
  BY <1>2, <1>3, <1>4, <1>5 DEF Next, abort_loop, vars, monVars

\* Boot has everything still to do.
LEMMA InitCall ==
  ASSUME Init
  PROVE  StartedInv /\ CallInv
<1>1. Booting /\ \A t \in Trustlets : state[t] # "BLOCKED"
  BY ThreadFacts DEF Init, SecureInit, Booting
<1>2. \A c \in Clients : client_pc[c] = "idle" /\ pending = "CTRL_IDLE" /\ daemon_pc = "poll"
  BY DEF Init
<1> QED
  BY <1>1, <1>2 DEF StartedInv, CallInv, PhaseInv, MailInv

\* The call of the one client is always in one of the places CallInv lists.
LEMMA CallInvariance ==
  ASSUME OneClient
  PROVE  Spec => [](IInv /\ StartedInv /\ CallInv)
<1>1. Init => StartedInv /\ CallInv
  BY InitCall
<1>2. IInv /\ IInv' /\ StartedInv /\ [Next]_vars => StartedInv'
  BY StartedStep
<1>3. IInv /\ IInv' /\ StartedInv /\ CallInv /\ [Next]_vars => CallInv'
  BY CallStep
<1> QED
  BY <1>1, <1>2, <1>3, Invariance, PTL DEF Spec

\* A trustlet at work serves the client's call; where the call is follows from
\* who has the CPU.
LEMMA Working ==
  ASSUME NEW c \in Clients, IInv, CallInv, NEW t \in Trustlets, ta_pc[t] \in {"run", "service"}
  PROVE  ~Booting /\ Serves(c, t)
<1>1. ~Booting
  BY DEF IInv, BootInv
<1>2. current_thread \in Threads /\ current_thread # "main" /\ PhaseInv(c)
  BY <1>1 DEF IInv, RunInv, TypeOK, SchedTypeOK, CallInv
<1>3. ~Waiting(Trustlets)
  BY DEF Waiting
<1>4. PICK u \in Trustlets : Serves(c, u)
  <2>1. CASE current_thread = "ns"
    <3>1. client_pc[c] \in {"idle", "tmem", "smc", "poll", "cmem"}
      BY DEF IInv, TypeOK, NormalTypeOK
    <3> QED
      BY <1>1, <1>2, <1>3, <2>1, <3>1 DEF PhaseInv, InNormalWorld, Quiet, Away, AwaitsService
  <2>2. CASE current_thread = "tee"
    BY <1>1, <1>2, <1>3, <2>2 DEF PhaseInv, InTeeTask, Quiet
  <2>3. CASE current_thread = "service"
    BY <1>1, <1>2, <2>3 DEF PhaseInv, InServiceTask, Away, AwaitsService
  <2>4. CASE current_thread \in Trustlets
    BY <1>1, <1>2, <2>4, ThreadFacts DEF PhaseInv, InTrustlet
  <2> QED
    BY <1>2, <2>1, <2>2, <2>3, <2>4 DEF Threads, KernelThreads
<1>5. u = t
  BY <1>4 DEF Serves, Waiting
<1> QED
  BY <1>1, <1>4, <1>5

\* However the windows were unmapped and mapped again since they were taken:
\* tee shows the page of the client whose request the TEE task read, and a
\* trustlet's tee_rpc leads to the call it works on (tee_task.c:292,
\* swi_secure.c:346).
THEOREM PointersStayFresh ==
  ASSUME OneClient
  PROVE  Spec => []PointersFresh
<1>1. IInv /\ StartedInv /\ CallInv => PointersFresh
  <2> SUFFICES ASSUME IInv, CallInv
               PROVE  TeePointerFresh /\ ServesCurrentCall
    BY DEF PointersFresh
  <2>1. ASSUME tee_pc = "ta", current_thread # "ns"
        PROVE  vmap[tee] = Page("tee", space.id[1])
    <3>1. ~Booting /\ tee = 2
      BY <2>1 DEF IInv, BootInv, PointerInv
    <3>2. PICK c \in Clients : vmap[2] = Page("tee", c)
      BY <2>1, <3>1 DEF IInv, WindowInv
    <3>3. PhaseInv(c) /\ current_thread # "main" /\ current_thread \in Threads
      BY <3>1 DEF CallInv, IInv, RunInv, TypeOK, SchedTypeOK
    <3>4. Taken(c)
      <4>1. CASE current_thread = "tee"
        BY <2>1, <3>1, <3>3, <4>1 DEF PhaseInv, InTeeTask, Quiet
      <4>2. CASE current_thread = "service"
        BY <2>1, <3>1, <3>3, <4>2 DEF PhaseInv, InServiceTask, Away, AwaitsService, Serves
      <4>3. CASE current_thread \in Trustlets
        BY <2>1, <3>1, <3>3, <4>3 DEF PhaseInv, InTrustlet, Serves
      <4> QED
        BY <2>1, <3>3, <4>1, <4>2, <4>3 DEF Threads, KernelThreads
    <3>5. space.id[1] = c
      BY <3>4 DEF Taken, Call
    <3> QED
      BY <3>1, <3>2, <3>5
  <2>2. PICK c \in Clients : TRUE
    BY DEF OneClient
  <2>3. ServesCurrentCall
    BY <2>2, Working DEF ServesCurrentCall, Serves, Taken
  <2> QED
    BY <2>1, <2>3 DEF TeePointerFresh
<1> QED
  BY <1>1, CallInvariance, PTL

\* tee_process returns with the answer to its own request, executed once, or
\* with an error, after any number of file operations in between
\* (tee_logic.c:171).
THEOREM AnswersIntact ==
  ASSUME OneClient
  PROVE  Spec => []AnswerIntegrity
<1>1. IInv /\ StartedInv /\ CallInv => AnswerIntegrity
  <2> SUFFICES ASSUME IInv, CallInv, NEW c \in Clients, client_pc[c] = "smc",
                      current_thread = "ns", package_result[c] = "TEE_STRUCT"
               PROVE  /\ executed[c] = 1 /\ tee_page[c].id = Call(c)
                      /\ tee_page[c].ret \in
                           IF tee_page[c].op = "close" THEN {Unset, Error} ELSE {Call(c), Error}
    BY DEF AnswerIntegrity
  <2>1. ~Booting /\ PhaseInv(c)
    BY DEF IInv, BootInv, CallInv
  <2>2. executed[c] = 1 /\ Answered(c, tee_page[c])
    BY <2>1 DEF PhaseInv, InNormalWorld
  <2> QED
    BY <2>2 DEF Answered, Answers, Call
<1> QED
  BY <1>1, CallInvariance, PTL

\* A file operation of a trustlet is in the queue or in the hands of the service
\* task until it is ready, and then the trustlet has the response to this very
\* operation; the mailbox never answers a client for another page
\* (service_task.c:126, queue.c:82, ctrl_mem.c:129).
THEOREM ServiceStaysInOrder ==
  ASSUME OneClient
  PROVE  Spec => []ServiceInOrder
<1>1. IInv /\ StartedInv /\ CallInv => ServiceInOrder
  <2> SUFFICES ASSUME IInv, CallInv PROVE ServiceInOrder
    OBVIOUS
  <2>1. PICK c \in Clients : \A d \in Clients : d = c
    BY DEF OneClient
  <2>2. PhaseInv(c) /\ MailInv(c)
    BY DEF CallInv
  <2>3. ASSUME NEW t \in Trustlets, ta_pc[t] = "service"
        PROVE  /\ ready[t] => ctrl_space[t] = Operation(t, TRUE)
               /\ ~ready[t] => service_queue = <<t>> \/ (request = t /\ service_pc # "top")
    <3>1. ~Booting /\ Serves(c, t)
      BY <2>3, Working
    <3>2. \A u \in Trustlets : ta_pc[u] # "wait" => u = t
      BY <3>1 DEF Serves, Waiting
    <3>3. current_thread \in Threads /\ current_thread # "main" /\ ~Waiting(Trustlets)
      BY <2>3, <3>1 DEF IInv, RunInv, TypeOK, SchedTypeOK, Waiting
    <3>4. CASE current_thread = "ns"
      <4>1. client_pc[c] \in {"idle", "tmem", "smc", "poll", "cmem"}
        BY DEF IInv, TypeOK, NormalTypeOK
      <4>2. \E D : Away(c, D)
        BY <2>2, <3>1, <3>3, <3>4, <4>1 DEF PhaseInv, InNormalWorld, Quiet
      <4> QED
        BY <3>2, <4>2 DEF Away, AwaitsService
    <3>5. CASE current_thread = "tee"
      BY <2>2, <3>1, <3>3, <3>5 DEF PhaseInv, InTeeTask, Quiet
    <3>6. CASE current_thread = "service"
      <4>1. InServiceTask(c)
        BY <2>2, <3>1, <3>6, ThreadFacts DEF PhaseInv
      <4>2. CASE Away(c, {TRUE})
        BY <3>2, <4>2 DEF Away, AwaitsService
      <4>3. CASE \E u \in Trustlets : service_queue = <<u>> /\ AwaitsService(c, u)
        <5>1. PICK u \in Trustlets : service_queue = <<u>> /\ AwaitsService(c, u)
          BY <4>3
        <5>2. u = t /\ ~ready[u]
          BY <3>2, <5>1 DEF AwaitsService
        <5>3. service_queue = <<t>> /\ ~ready[t]
          BY <5>1, <5>2, Zenon
        <5> QED
          BY <5>3, Zenon
      <4> QED
        BY <4>1, <4>2, <4>3 DEF InServiceTask
    <3>7. CASE current_thread \in Trustlets
      <4>1. PICK u \in Trustlets : u = current_thread /\ InTrustlet(c, u)
        BY <2>2, <3>1, <3>7, ThreadFacts DEF PhaseInv
      <4>2. u = t
        BY <2>3, <4>1 DEF InTrustlet, Serves, Waiting
      <4> QED
        BY <2>3, <4>1, <4>2 DEF InTrustlet
    <3> QED
      BY <3>3, <3>4, <3>5, <3>6, <3>7 DEF Threads, KernelThreads
  <2>4. ServiceIntegrity /\ NoLostRequest
    BY <2>3 DEF ServiceIntegrity, NoLostRequest, Operation
  <2>5. MailboxServesWaiter
    BY <2>1, <2>2 DEF MailboxServesWaiter, MailInv
  <2> QED
    BY <2>4, <2>5 DEF ServiceInOrder
<1> QED
  BY <1>1, CallInvariance, PTL

\* With any number of clients: once the normal world runs, main stays blocked,
\* every trustlet has come to its first wait and no thread is created
\* (scheduler.c:109, main_task.c).
THEOREM BootsOnce == Spec => BootOnce
<1> DEFINE Stays == current_thread = "ns" =>
                      /\ \A t \in Trustlets : ta_pc[t] # "start"
                      /\ state'["main"] = "BLOCKED" /\ thread_list' = thread_list
<1>1. ASSUME IInv, IInv', StartedInv, [Next]_vars
      PROVE  [Stays]_vars
  <2> SUFFICES ASSUME current_thread = "ns", Next PROVE Stays
    BY <1>1
  <2>1. ~Booting /\ \A t \in Trustlets : ta_pc[t] # "start"
    BY <1>1 DEF IInv, BootInv, StartedInv
  <2>2. ~(SecureNext /\ UNCHANGED normalVars)
    BY ThreadFacts DEF SecureNext, main_create, tee_idle, tee_local, tee_from_trustlet,
       tee_to_trustlet, ta_start, ta_accept, ta_refuse, ta_answer, ta_request,
       ta_request_done, ta_abort, service_idle, service_start, service_reply, Runs
  <2>3. main_pc' = main_pc /\ thread_list' = thread_list
    BY <2>2 DEF Next, abort_loop, client_step, client_call, client_tmem, client_push,
       client_poll, client_cmem, client_return, daemon_step, daemon_poll, daemon_push
  <2>4. ~Booting'
    BY <1>1, <2>1, <2>3, SameBoot
  <2> QED
    BY <2>1, <2>3, <2>4 DEF Booting
<1>2. Init => StartedInv
  BY InitCall
<1>3. IInv /\ IInv' /\ StartedInv /\ [Next]_vars => StartedInv'
  BY StartedStep
<1> QED
  BY <1>1, <1>2, <1>3, Invariance, PTL DEF Spec, BootOnce

-----------------------------------------------------------------------------
(* The path of a call implements RemoteCall                                *)

\* The state of the abstract call of client c, as Andix maps it.
Phase(c) ==
  IF client_pc[c] = "idle" THEN "idle"
  ELSE IF executed[c] = 0 THEN "called" ELSE "executed"
AbstractCall(c) == [op |-> tee_page[c].op, bit |-> callbit[c]]
Answer(c) ==
  IF client_pc[c] = "idle" /\ package_result[c] = "TEE_STRUCT" THEN tee_page[c].ret ELSE NULL

\* With one client the abstract state is the client's.
LEMMA RemoteStutter ==
  ASSUME NEW c, Clients = {c}, Phase(c)' = Phase(c), AbstractCall(c)' = AbstractCall(c),
         Answer(c)' = Answer(c), UNCHANGED panic
  PROVE  UNCHANGED Remote!callVars
BY DEF Remote!callVars, Phase, AbstractCall, Answer

LEMMA RemoteInvoke ==
  ASSUME NEW c, Clients = {c}, Phase(c) = "idle", Phase(c)' = "called", Answer(c)' = NULL,
         NEW op \in Ops, AbstractCall(c)' = [op |-> op, bit |-> 1 - callbit[c]],
         ~panic, UNCHANGED panic
  PROVE  Remote!Next
<1> DEFINE phase == [d \in Clients |-> Phase(d)]
           call == [d \in Clients |-> AbstractCall(d)]
           answer == [d \in Clients |-> Answer(d)]
<1>1. call[c].bit = callbit[c] /\ call'[c] = [op |-> op, bit |-> 1 - callbit[c]]
  BY DEF AbstractCall
<1>2. call' = [call EXCEPT ![c] = [op |-> op, bit |-> 1 - call[c].bit]]
  BY <1>1
<1>3. /\ phase[c] = "idle" /\ phase' = [phase EXCEPT ![c] = "called"]
      /\ answer' = [answer EXCEPT ![c] = NULL]
  OBVIOUS
<1> QED
  BY <1>2, <1>3 DEF Remote!Next, Remote!Invoke, Phase, AbstractCall, Answer

LEMMA RemoteExecute ==
  ASSUME NEW c, Clients = {c}, Phase(c) = "called", Phase(c)' = "executed",
         AbstractCall(c)' = AbstractCall(c), Answer(c)' = Answer(c),
         ~panic, UNCHANGED panic
  PROVE  Remote!Next
BY DEF Remote!Next, Remote!Execute, Phase, AbstractCall, Answer

LEMMA RemoteReturn ==
  ASSUME NEW c, Clients = {c}, Phase(c) = "executed", Phase(c)' = "idle",
         AbstractCall(c)' = AbstractCall(c),
         Answer(c)' \in Answers(c, callbit[c], tee_page[c].op),
         ~panic, UNCHANGED panic
  PROVE  Remote!Next
BY DEF Remote!Next, Remote!Return, Phase, AbstractCall, Answer

LEMMA RemoteStop ==
  ASSUME NEW c, Clients = {c}, Phase(c) = "executed", Phase(c)' = Phase(c),
         AbstractCall(c)' = AbstractCall(c), Answer(c)' = Answer(c),
         ~panic, panic' = TRUE
  PROVE  Remote!Next
BY DEF Remote!Next, Remote!Stop, Phase, AbstractCall, Answer

\* A step that leaves the CPU to no trustlet has not stopped the kernel.
LEMMA StillGoing ==
  ASSUME IInv, IInv', ~panic, current_thread' \notin Trustlets
  PROVE  UNCHANGED panic
BY DEF IInv, StopInv, StopsOnlyOutOfSlots, TypeOK, MonTypeOK

\* The call is executed when the TEE task dispatches the request, returns when
\* the driver does, and no other step of either world shows.
LEMMA RemoteStep ==
  ASSUME NEW c, Clients = {c}, IInv, IInv', StartedInv, CallInv, CallInv', [Next]_vars
  PROVE  [Remote!Next]_(Remote!callVars)
<1> USE ThreadFacts
<1>1. Single(c)
  BY DEF Single, OneClient, CallInv
<1>2. /\ client_pc \in [Clients -> {"idle", "tmem", "smc", "poll", "cmem"}]
      /\ executed \in [Clients -> 0..2] /\ callbit \in [Clients -> {0, 1}]
      /\ tee_page \in [Clients -> TeeSpaces] /\ package_result \in [Clients -> Results]
      /\ c \in Clients /\ tee_page[c] \in TeeSpaces
  BY DEF IInv, TypeOK, MonTypeOK, SecureTypeOK, NormalTypeOK
<1>3. ASSUME UNCHANGED <<client_pc, executed, callbit, tee_page, package_result, panic>>
      PROVE  UNCHANGED Remote!callVars
  BY <1>3, RemoteStutter DEF Phase, AbstractCall, Answer
<1>4. ASSUME client_pc[c] # "idle", client_pc'[c] # "idle", executed' = executed, callbit' = callbit,
             tee_page'[c].op = tee_page[c].op, UNCHANGED panic
      PROVE  UNCHANGED Remote!callVars
  BY <1>4, RemoteStutter DEF Phase, AbstractCall, Answer
<1>5. ASSUME client_pc' = client_pc, client_pc[c] = "smc", executed[c] = 0, executed'[c] = 1,
             callbit' = callbit, tee_page'[c].op = tee_page[c].op, ~panic, UNCHANGED panic
      PROVE  Remote!Next
  <2>1. Phase(c) = "called" /\ Phase(c)' = "executed"
    BY <1>5 DEF Phase
  <2>2. AbstractCall(c)' = AbstractCall(c) /\ Answer(c)' = Answer(c)
    BY <1>5 DEF AbstractCall, Answer
  <2> QED
    BY <1>5, <2>1, <2>2, RemoteExecute
<1>6. CASE tee_local /\ UNCHANGED normalVars
  <2>1. current_thread = "tee" /\ tee_pc = "top" /\ ~Booting /\ ~panic
    BY <1>6 DEF tee_local, Runs, IInv, BootInv
  <2>2. Asked(c) /\ client_pc[c] = "smc"
    BY <1>1, <2>1 DEF Single, PhaseInv, InTeeTask, Taken
  <2>3. executed'[c] = 1
    BY <1>1, <1>6, <2>1, <2>2, OwnCount DEF tee_local
  <2>4. PICK ret : tee_respond(tee_mem, [Request EXCEPT !.ret = ret])
    BY <1>6 DEF tee_local
  <2>5. Request = tee_page[c] /\ tee_mem = 2
    BY <1>1, <2>1, OwnWindows
  <2>6. tee_page' = [tee_page EXCEPT ![c] = [tee_page[c] EXCEPT !.ret = ret]]
        /\ current_thread' = "ns"
    BY <1>1, <2>1, <2>4, <2>5, OwnAnswer
  <2>7. tee_page'[c] = [tee_page[c] EXCEPT !.ret = ret]
    BY <1>2, <2>6
  <2>8. tee_page'[c].op = tee_page[c].op
    BY <1>2, <2>7 DEF TeeSpaces
  <2> QED
    BY <1>5, <1>6, <2>1, <2>2, <2>3, <2>6, <2>8, StillGoing DEF Asked
<1>7. CASE \E t \in Trustlets : tee_to_trustlet(t) /\ UNCHANGED normalVars
  <2>1. PICK t \in Trustlets : tee_to_trustlet(t) /\ UNCHANGED normalVars
    BY <1>7
  <2>2. current_thread = "tee" /\ tee_pc = "top" /\ ~Booting /\ ~panic
    BY <2>1 DEF tee_to_trustlet, Runs, IInv, BootInv
  <2>3. Asked(c) /\ client_pc[c] = "smc"
    BY <1>1, <2>2 DEF Single, PhaseInv, InTeeTask, Taken
  <2>4. executed'[c] = 1 /\ tee_page' = tee_page /\ UNCHANGED panic
    BY <1>1, <2>1, <2>2, <2>3, OwnCount DEF tee_to_trustlet
  <2> QED
    BY <1>5, <2>1, <2>2, <2>3, <2>4 DEF Asked
<1>8. CASE tee_from_trustlet /\ UNCHANGED normalVars
  <2>1. /\ current_thread = "tee" /\ tee_pc = "ta" /\ ~Booting
        /\ tee_respond(2, space) /\ executed' = executed /\ ~panic
    BY <1>8 DEF tee_from_trustlet, Runs, IInv, BootInv, PointerInv
  <2>2. Taken(c) /\ client_pc[c] = "smc"
    BY <1>1, <2>1 DEF Single, PhaseInv, InTeeTask, Quiet
  <2>3. tee_page'[c] = space /\ current_thread' = "ns"
    BY <1>1, <1>2, <2>1, OwnAnswer
  <2>4. UNCHANGED panic
    BY <2>1, <2>3, StillGoing
  <2> QED
    BY <1>4, <1>8, <2>1, <2>2, <2>3, <2>4 DEF Taken
<1>9. CASE service_start /\ UNCHANGED normalVars
  <2>1. current_thread = "service" /\ service_queue # << >> /\ executed' = executed /\ ~panic
    BY <1>9 DEF service_start, Runs
  <2>2. ~Booting
    BY <2>1 DEF IInv, BootInv
  <2>3. client_pc[c] = "smc"
    BY <1>1, <2>1, <2>2 DEF Single, PhaseInv
  <2>4. tee_page' = tee_page
    BY <1>9 DEF service_start
  <2>5. panic' = panic \/ current_thread' = "service"
    BY <1>9, <2>1 DEF service_start, ssc_nons_service
  <2>6. UNCHANGED panic
    BY <2>1, <2>5, StillGoing
  <2> QED
    BY <1>4, <1>9, <2>1, <2>3, <2>4, <2>6
<1>10. CASE \E op \in Ops : client_call(c, op)
  <2>1. PICK op \in Ops : client_call(c, op)
    BY <1>10
  <2>2. /\ client_pc[c] = "idle" /\ client_pc'[c] = "tmem" /\ executed'[c] = 0
        /\ callbit'[c] = 1 - callbit[c]
        /\ tee_page'[c] = [id |-> <<c, 1 - callbit[c]>>, op |-> op, ret |-> Unset]
        /\ ~panic /\ UNCHANGED panic
    BY <1>2, <2>1 DEF client_call, Goto, Runs
  <2>3. Phase(c) = "idle" /\ Phase(c)' = "called" /\ Answer(c)' = NULL
    BY <2>2 DEF Phase, Answer
  <2>4. AbstractCall(c)' = [op |-> op, bit |-> 1 - callbit[c]]
    BY <2>2 DEF AbstractCall
  <2> QED
    BY <2>2, <2>3, <2>4, RemoteInvoke
<1>11. CASE client_return(c)
  <2>1. /\ current_thread = "ns" /\ client_pc[c] = "smc" /\ client_pc'[c] = "idle"
        /\ package_result[c] # "CTRL_STRUCT"
        /\ UNCHANGED <<package_result, tee_page, executed, callbit, panic>> /\ ~panic
    BY <1>2, <1>11 DEF client_return, Runs, Goto
  <2>2. ~Booting /\ InNormalWorld(c)
    BY <1>1, <2>1, NormalWorld
  <2>3. package_result[c] = "TEE_STRUCT" /\ executed[c] = 1 /\ Answered(c, tee_page[c])
    BY <2>1, <2>2 DEF InNormalWorld
  <2>4. /\ Phase(c) = "executed" /\ Phase(c)' = "idle" /\ AbstractCall(c)' = AbstractCall(c)
        /\ Answer(c)' \in Answers(c, callbit[c], tee_page[c].op)
    BY <2>1, <2>3 DEF Phase, AbstractCall, Answer, Answered
  <2> QED
    BY <2>1, <2>4, RemoteReturn
<1>12. CASE client_tmem(c) \/ client_push(c) \/ client_poll(c) \/ client_cmem(c)
  <2>1. /\ client_pc[c] \in {"tmem", "smc", "poll", "cmem"}
        /\ client_pc' \in {[client_pc EXCEPT ![c] = p] : p \in {"smc", "poll", "cmem"}}
        /\ UNCHANGED <<tee_page, executed, callbit>>
    BY <1>12 DEF client_tmem, client_push, client_poll, client_cmem, Goto
  <2>2. client_pc'[c] # "idle"
    BY <1>2, <2>1
  <2>3. ~panic /\ current_thread = "ns" /\ (panic' = panic \/ current_thread' = current_thread)
    BY <1>12 DEF client_tmem, client_push, client_poll, client_cmem, Runs, smc_process_cmem
  <2>4. UNCHANGED panic
    BY <2>3, StillGoing
  <2> QED
    BY <1>4, <2>1, <2>2, <2>4
<1>13. CASE daemon_step
  BY <1>3, <1>13 DEF daemon_step, daemon_poll, daemon_push
<1>14. CASE SecureNext /\ UNCHANGED normalVars
  <2>1. CASE main_create \/ tee_idle \/ service_idle \/ service_reply
    <3>1. /\ UNCHANGED <<client_pc, executed, callbit, tee_page, package_result>> /\ ~panic
          /\ panic' = panic \/ current_thread' = "service"
      BY <1>14, <2>1 DEF main_create, tee_idle, service_idle, service_reply, Runs
    <3> QED
      BY <1>3, <3>1, StillGoing
  <2>2. CASE \E t \in Trustlets : \/ ta_start(t) \/ ta_accept(t) \/ ta_refuse(t) \/ ta_answer(t)
                                  \/ ta_request(t) \/ ta_request_done(t)
    BY <1>3, <1>14, <2>2 DEF ta_start, ta_accept, ta_refuse, ta_answer, ta_request, ta_request_done
  <2>3. CASE \E t \in Trustlets : ta_abort(t)
    <3>1. PICK t \in Trustlets : ta_abort(t)
      BY <2>3
    <3>2. /\ current_thread = t /\ ta_pc[t] # "start" /\ ~panic /\ panic' = TRUE
          /\ UNCHANGED <<client_pc, executed, callbit, tee_page, package_result>>
      BY <1>14, <3>1 DEF ta_abort, Runs
    <3>3. ~Booting
      BY <3>2, TrustletAfterBoot
    <3>4. client_pc[c] = "smc" /\ executed[c] = 1
      BY <1>1, <3>2, <3>3 DEF Single, PhaseInv, InTrustlet, Serves, Taken
    <3>5. Phase(c) = "executed" /\ UNCHANGED <<Phase(c), AbstractCall(c), Answer(c)>>
      BY <3>2, <3>4 DEF Phase, AbstractCall, Answer
    <3> QED
      BY <3>2, <3>5, RemoteStop
  <2> QED
    BY <1>6, <1>7, <1>8, <1>9, <1>14, <2>1, <2>2, <2>3 DEF SecureNext
<1>15. CASE UNCHANGED vars
  BY <1>3, <1>15
<1> QED
  BY <1>10, <1>11, <1>12, <1>13, <1>14, <1>15 DEF Next, client_step, abort_loop

\* Driver, monitor and secure world together implement the abstract call: with
\* one client each call is executed exactly once and then returns with an
\* answer computed from it or an error, or the kernel stops in the middle of
\* it.  (That it returns unless the kernel stops is left to TLC.)
THEOREM ImplementsCallSteps ==
  ASSUME OneClient
  PROVE  Spec => Remote!Init /\ [][Remote!Next]_(Remote!callVars)
<1>1. PICK c : Clients = {c}
  BY DEF OneClient
<1>2. Init => Remote!Init
  BY <1>1 DEF Init, SecureInit, Remote!Init, Ops
<1>3. IInv /\ StartedInv /\ CallInv /\ (IInv /\ StartedInv /\ CallInv)' /\ [Next]_vars
        => [Remote!Next]_(Remote!callVars)
  BY <1>1, RemoteStep
<1> QED
  BY <1>2, <1>3, CallInvariance, PTL DEF Spec
=============================================================================
