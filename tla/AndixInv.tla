----------------------------- MODULE AndixInv -----------------------------
(***************************************************************************)
(* The inductive invariant behind the safety of the secure kernel with any *)
(* number of clients.  Its idea: boot is strictly sequential and hands the *)
(* CPU to the normal world with every other thread blocked; from then on   *)
(* the windows sit in slots 1, 2 and 3 whenever the secure world runs, so  *)
(* that even the stale pointers its threads keep show pages of the right   *)
(* kind; and the one yield that can still happen, the service task's,      *)
(* cannot reach the normal world because the TEE task is ready before it.  *)
(***************************************************************************)
EXTENDS Andix

Booting == state["main"] # "BLOCKED"

\* The thread list is what entry_main_task has created so far, and it is done
\* when it has blocked itself.
ListInv ==
  /\ Len(thread_list) = main_pc
  /\ thread_list[1] = "main"
  /\ \A i \in 2..main_pc : thread_list[i] = Created[i - 1]
  /\ Booting <=> main_pc <= Len(Created)

\* Until the normal world exists: nothing is mapped or asked for, at most one
\* thread besides main is not blocked, and it is the one that runs.
BootInv ==
  Booting =>
    /\ package = NULL /\ tee_mem = NULL /\ com_mem = NULL
    /\ vmap[1] = NULL /\ vmap[2] = NULL /\ vmap[3] = NULL
    /\ tee_pc = "top" /\ service_pc = "top" /\ service_queue = << >>
    /\ current_thread # "ns"
    /\ state[current_thread] = "RUNNING" /\ state["ns"] = "READY"
    /\ current_thread # "main" => state["main"] = "READY"
    /\ \A i \in 2..main_pc :
         thread_list[i] # current_thread => state[thread_list[i]] = "BLOCKED"
    /\ \A t \in Trustlets :
         /\ ta_pc[t] \in {"start", "wait"} /\ ~tee_rpc[t]
         /\ state[t] # "BLOCKED" => ta_pc[t] = "start"

\* The windows of the running secure world are in slots 1, 2 and 3.
WindowInv ==
  ~Booting =>
    IF current_thread = "ns"
    THEN /\ package = NULL /\ tee_mem = NULL /\ com_mem = NULL
         /\ vmap[1] = NULL /\ vmap[2] = NULL /\ vmap[3] = NULL
    ELSE /\ package = 1 /\ tee_mem = 2 /\ com_mem = 3
         /\ \E c \in Clients : /\ vmap[1] = Page("package", c)
                               /\ vmap[2] = Page("tee", c)
                               /\ vmap[3] = Page("ctrl", c)

\* Once boot is over: who may be ready while the normal world is.
RunInv ==
  ~Booting =>
    /\ current_thread # "main"
    /\ current_thread = "tee" => state["tee"] = "RUNNING"
    /\ current_thread \notin {"ns", "tee"} /\ state["ns"] = "READY" =>
         state["tee"] = "READY"

\* A queued or a processed service request is one a trustlet waits for, and
\* it is not both.
ServiceInv ==
  /\ \/ service_queue = << >>
     \/ \E t \in Trustlets :
          /\ service_queue = <<t>> /\ ta_pc[t] = "service" /\ ~ready[t]
          /\ service_pc = "reply" => request # t
  /\ service_pc \in {"top", "reply"}
  /\ service_pc = "reply" =>
       request \in Trustlets /\ ta_pc[request] = "service" /\ ~ready[request]

\* The pointers that are followed are set.
PointerInv ==
  /\ tee_pc = "ta" => tee = 2 /\ space \in TeeSpaces
  /\ \A t \in Trustlets :
       /\ tee_rpc[t] => space \in TeeSpaces
       /\ ta_pc[t] \in {"run", "service"} => ta_call[t] \in TeeSpaces
  /\ pending # "CTRL_IDLE" => ctrlspace \in Clients

\* A trustlet whose memory is mapped nowhere met all slots in use, and only
\* those of the windows are ever given back.
SlotInv ==
  ta_unmapped # {} => \A s \in Slot : s > 3 => vmap[s] # NULL

StopInv == StopsOnlyOutOfSlots /\ SlotInv

\* All of it together is inductive: it implies OneRunning, WindowsFollowWorld
\* and StopsOnlyOutOfSlots whatever the clients, the trustlets and the daemon do.
IInv ==
  /\ TypeOK /\ OneRunning /\ StopInv
  /\ ListInv /\ BootInv /\ WindowInv /\ RunInv /\ ServiceInv /\ PointerInv
-----------------------------------------------------------------------------
(* One client.  A call is then the only thing that goes on, and where it is *)
(* follows from who has the CPU.                                            *)

\* Trustlets have come to their first wait when they first lose the CPU.
StartedInv ==
  \A t \in Trustlets : (Booting => state[t] = "BLOCKED") => ta_pc[t] # "start"

NoService == service_pc = "top" /\ service_queue = << >>
Waiting(S) == \A t \in S : ta_pc[t] = "wait"
Quiet == tee_pc = "top" /\ NoService /\ Waiting(Trustlets)

\* The request of c is in its page and has not been looked at.
Asked(c) == tee_page[c].id = Call(c) /\ tee_page[c].ret = Unset /\ executed[c] = 0

\* The TEE task waits with a copy of it, after its only execution.
Taken(c) ==
  /\ tee_pc = "ta" /\ executed[c] = 1
  /\ space.id = Call(c) /\ space.op # "local" /\ space.op = tee_page[c].op

Answered(c, sp) == sp.id = Call(c) /\ sp.ret \in Answers(c, callbit[c], sp.op)

\* Trustlet t works on it, and nobody else on anything.
Serves(c, t) ==
  /\ Taken(c) /\ space.ret = Unset /\ tee_rpc[t] /\ Waiting(Trustlets \ {t})
  /\ ta_pc[t] \in {"run", "service"} => ta_call[t].id = space.id

\* A file operation of the trustlet, and the trustlet waiting for it.
Operation(t, done) == [id |-> <<t, ta_reqbit[t]>>, done |-> done]
AwaitsService(c, t) == Serves(c, t) /\ ta_pc[t] = "service" /\ ~ready[t]

\* The operation is in the normal world.
Away(c, Done) ==
  /\ service_pc = "reply" /\ service_queue = << >>
  /\ request \in Trustlets /\ AwaitsService(c, request)
  /\ \E done \in Done : ctrl_page[c] = Operation(request, done)

InNormalWorld(c) ==
  /\ client_pc[c] \in {"idle", "tmem"} => Quiet
  /\ client_pc[c] = "tmem" => Asked(c)
  /\ client_pc[c] = "smc" =>
       IF package_result[c] = "CTRL_STRUCT" THEN Away(c, {FALSE})
       ELSE /\ package_result[c] = "TEE_STRUCT" /\ Quiet
            /\ executed[c] = 1 /\ Answered(c, tee_page[c])
  /\ client_pc[c] = "poll" => Away(c, BOOLEAN)
  /\ client_pc[c] = "cmem" => Away(c, {TRUE})

InTeeTask(c) ==
  \/ Quiet /\ Asked(c)
  \/ Taken(c) /\ NoService /\ Waiting(Trustlets) /\ Answered(c, space)

InTrustlet(c, t) ==
  /\ NoService /\ Serves(c, t)
  /\ ta_pc[t] = "service" => ready[t] /\ ctrl_space[t] = Operation(t, TRUE)

InServiceTask(c) ==
  \/ Away(c, {TRUE})
  \/ /\ service_pc = "top"
     /\ \E t \in Trustlets : /\ service_queue = <<t>> /\ AwaitsService(c, t)
                              /\ ctrl_space[t] = Operation(t, FALSE)

PhaseInv(c) ==
  IF Booting THEN client_pc[c] = "idle"
  ELSE IF current_thread = "ns" THEN InNormalWorld(c)
  ELSE /\ client_pc[c] = "smc"
       /\ current_thread = "tee" => InTeeTask(c)
       /\ current_thread \in Trustlets => InTrustlet(c, current_thread)
       /\ current_thread = "service" => InServiceTask(c)

\* The mailbox is idle but while the client polls it; the daemon has the
\* client's request, and the page shows the response when the mailbox says so.
MailInv(c) ==
  IF client_pc[c] # "poll" THEN pending = "CTRL_IDLE" /\ daemon_pc = "poll"
  ELSE /\ pending # "CTRL_IDLE" /\ ctrlspace = c
       /\ pending = "CTRL_RESPONSE_FROM_NS" <=> ctrl_page[c].done
       /\ IF pending = "CTRL_PENDING_IN_NS"
          THEN daemon_pc = "push" /\ comm = [ctrl_page[c] EXCEPT !.done = TRUE]
          ELSE daemon_pc = "poll"

\* Inductive together with IInv when there is one client.
CallInv == \A c \in Clients : PhaseInv(c) /\ MailInv(c)
=============================================================================
