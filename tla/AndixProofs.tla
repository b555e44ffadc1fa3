---------------------------- MODULE AndixProofs ----------------------------
(***************************************************************************)
(* Proofs of the secure kernel's safety, for any number of clients,        *)
(* trustlets, slots (three or more) and service requests.                  *)
(***************************************************************************)
EXTENDS AndixInv, WellFoundedInduction, TLAPS

-----------------------------------------------------------------------------
(* What the scheduler's operators do, for every list and every state       *)

\* A nonempty set of naturals has a least element.
LEMMA LeastElement ==
  ASSUME NEW S \in SUBSET Nat, S # {}
  PROVE  \E i \in S : \A j \in S : i <= j
<1>1. PICK i \in S : \A j \in S : ~ (<<j, i>> \in OpToRel(<, Nat))
  BY WFMin, NatLessThanWellFounded, Zenon
<1>2. \A j \in S : ~ (j < i)
  BY <1>1 DEF OpToRel
<1> QED
  BY <1>2

\* sched_get_next_ready_thread returns NULL exactly when no thread of the list
\* is READY, and else a READY thread with none before it in the list.
LEMMA NextReady ==
  ASSUME NEW list \in Seq(Threads), NEW st \in [Threads -> States]
  PROVE  \/ /\ sched_get_next_ready_thread(list, st) = NULL
            /\ \A i \in DOMAIN list : st[list[i]] # "READY"
         \/ \E i \in DOMAIN list :
              /\ sched_get_next_ready_thread(list, st) = list[i]
              /\ st[list[i]] = "READY"
              /\ \A j \in DOMAIN list : j < i => st[list[j]] # "READY"
<1> DEFINE hits == {i \in DOMAIN list : st[list[i]] = "READY"}
<1>1. CASE hits = {}
  BY <1>1 DEF sched_get_next_ready_thread
<1>2. CASE hits # {}
  <2>1. hits \in SUBSET Nat
    OBVIOUS
  <2> DEFINE first == CHOOSE i \in hits : \A j \in hits : i <= j
  <2>2. first \in hits /\ \A j \in hits : first <= j
    <3>1. \E i \in hits : \A j \in hits : i <= j
      <4> HIDE DEF hits
      <4> QED
        BY <1>2, <2>1, LeastElement
    <3> HIDE DEF hits
    <3> QED
      BY <3>1
  <2>3. sched_get_next_ready_thread(list, st) = list[first]
    BY <1>2 DEF sched_get_next_ready_thread
  <2>4. first \in DOMAIN list /\ st[list[first]] = "READY"
    BY <2>2
  <2>5. \A j \in DOMAIN list : j < first => st[list[j]] # "READY"
    <3> SUFFICES ASSUME NEW j \in DOMAIN list, j < first, st[list[j]] = "READY"
                 PROVE  FALSE
      OBVIOUS
    <3>1. j \in hits
      OBVIOUS
    <3>2. first <= j
      BY <2>2, <3>1
    <3>3. first \in Nat /\ j \in Nat
      BY <2>1, <2>2, <3>1
    <3> HIDE DEF first
    <3> QED
      BY <3>2, <3>3
  <2> HIDE DEF first
  <2> QED
    BY <2>3, <2>4, <2>5
<1> QED
  BY <1>1, <1>2

\* sched_thread_switched gives the CPU to the thread and a state of its type
\* to every thread.
LEMMA SwitchedType ==
  ASSUME NEW st \in [Threads -> States], NEW thread \in Threads,
         sched_thread_switched(st, thread)
  PROVE  /\ current_thread' = thread
         /\ state' \in [Threads -> States]
         /\ state'[thread] = "RUNNING"
BY DEF sched_thread_switched, States

\* A switch leaves one thread RUNNING if only the current one was.
LEMMA SwitchedOne ==
  ASSUME NEW st \in [Threads -> States], NEW thread \in Threads,
         \A t \in Threads : st[t] = "RUNNING" => t = current_thread,
         sched_thread_switched(st, thread)
  PROVE  \A t \in Threads : state'[t] = "RUNNING" => t = current_thread'
BY DEF sched_thread_switched, States

\* switch_to_thread to an existing thread is a switch.
LEMMA SwitchTo ==
  ASSUME NEW st, NEW thread \in Threads, switch_to_thread(st, thread)
  PROVE  sched_thread_switched(st, thread)
BY ThreadsAssumption DEF switch_to_thread

\* yield is a switch to the first READY thread of the list, or returns to a
\* caller that keeps the CPU.
LEMMA Yield ==
  ASSUME NEW list \in Seq(Threads), NEW st \in [Threads -> States],
         yield(list, st)
  PROVE  \/ /\ \A i \in DOMAIN list : st[list[i]] # "READY"
            /\ state' = st /\ current_thread' = current_thread
         \/ \E i \in DOMAIN list :
              /\ sched_thread_switched(st, list[i])
              /\ list[i] \in Threads
              /\ st[list[i]] = "READY"
              /\ \A j \in DOMAIN list : j < i => st[list[j]] # "READY"
<1> DEFINE next == sched_get_next_ready_thread(list, st)
<1>1. \A i \in DOMAIN list : list[i] \in Threads
  OBVIOUS
<1>2. switch_to_thread(st, next)
  BY DEF yield
<1>3. CASE next = NULL
  <2>1. \A i \in DOMAIN list : st[list[i]] # "READY"
    BY <1>1, <1>3, NextReady, ThreadsAssumption
  <2> QED
    BY <1>2, <1>3, <2>1 DEF switch_to_thread
<1>4. CASE next # NULL
  <2>1. PICK i \in DOMAIN list :
          /\ next = list[i] /\ st[list[i]] = "READY"
          /\ \A j \in DOMAIN list : j < i => st[list[j]] # "READY"
    BY <1>4, NextReady
  <2>2. sched_thread_switched(st, list[i])
    BY <1>2, <1>4, <2>1 DEF switch_to_thread
  <2> QED
    BY <1>1, <2>1, <2>2
<1> QED
  BY <1>3, <1>4

\* A yield leaves the scheduler's variables in their types and one thread
\* RUNNING, if only the current one was.
LEMMA YieldOne ==
  ASSUME NEW list \in Seq(Threads), NEW st \in [Threads -> States],
         current_thread \in Threads,
         \A t \in Threads : st[t] = "RUNNING" => t = current_thread,
         yield(list, st)
  PROVE  /\ current_thread' \in Threads /\ state' \in [Threads -> States]
         /\ \A t \in Threads : state'[t] = "RUNNING" => t = current_thread'
<1>1. CASE state' = st /\ current_thread' = current_thread
  BY <1>1
<1>2. CASE \E i \in DOMAIN list :
             sched_thread_switched(st, list[i]) /\ list[i] \in Threads
  BY <1>2, SwitchedType, SwitchedOne
<1> QED
  BY <1>1, <1>2, Yield

-----------------------------------------------------------------------------
USE DEF vars, schedVars, monVars, windowVars, pageVars, secureVars, teeVars,
        taVars, serviceVars, normalVars

-----------------------------------------------------------------------------
(* Facts about the constants and the data                                  *)

\* The threads created at boot: the TEE task is the second, the non-secure
\* thread the last and only the last.
LEMMA CreatedFacts ==
  /\ Len(Created) \in Nat /\ Len(Created) >= 3
  /\ Created[2] = "tee"
  /\ \A i \in 1..Len(Created) :
       /\ Created[i] \in Threads /\ Created[i] # "main"
       /\ Created[i] = "ns" <=> i = Len(Created)
BY ThreadsAssumption, SecureWorldAssumption DEF Created, Threads, KernelThreads

\* The threads of the kernel are distinct and none of them is NULL.
LEMMA ThreadFacts ==
  /\ "main" \in Threads /\ "service" \in Threads /\ "tee" \in Threads
  /\ "ns" \in Threads
  /\ \A t \in Trustlets : t \in Threads /\ t \notin {"main", "service", "tee", "ns"}
BY ThreadsAssumption DEF Threads, KernelThreads

\* The values a TEE page can hold.
LEMMA TeeSpaceFacts ==
  ASSUME NEW sp \in TeeSpaces
  PROVE  /\ sp.id \in CallIds /\ sp.id[1] \in Clients
         /\ \A r \in CallIds \cup {Unset, Error} : [sp EXCEPT !.ret = r] \in TeeSpaces
BY DEF TeeSpaces, CallIds

\* An empty request is a control page content, and so is an answered one.
LEMMA CtrlSpaceFacts ==
  /\ NoRequest \in CtrlSpaces
  /\ \A cs \in CtrlSpaces : [cs EXCEPT !.done = TRUE] \in CtrlSpaces
  /\ \A t \in Trustlets, b \in {0, 1} :
       [id |-> <<t, b>>, done |-> FALSE] \in CtrlSpaces
BY DEF CtrlSpaces, NoRequest, ReqIds

\* The kernel has the three mapping slots that the windows take.
LEMMA SlotFacts ==
  /\ {1, 2, 3} \subseteq Slot
  /\ NULL \notin Slot /\ NULL \notin Pages
  /\ \A k \in Kinds, c \in Clients \cup Trustlets : Page(k, c) \in Pages
BY MonitorAssumption DEF Slot, Pages, Page

-----------------------------------------------------------------------------

\* The invariant holds at power-on.
LEMMA InitIInv == Init => IInv
<1> SUFFICES ASSUME Init PROVE IInv
  OBVIOUS
<1>1. SchedTypeOK
  BY ThreadFacts DEF Init, SecureInit, SchedTypeOK, States
<1>2. MonTypeOK
  BY CtrlSpaceFacts
  DEF Init, SecureInit, MonTypeOK, TeeSpaces, CallIds, Ops, Unset, Results
<1>3. SecureTypeOK /\ NormalTypeOK
  BY CreatedFacts, CtrlSpaceFacts, SecureWorldAssumption
  DEF Init, SecureInit, SecureTypeOK, NormalTypeOK
<1>4. OneRunning /\ WindowInv /\ RunInv /\ ServiceInv /\ PointerInv
  BY ThreadFacts DEF Init, SecureInit, OneRunning, WindowInv, RunInv,
     ServiceInv, PointerInv, Booting
<1>7. StopInv
  BY DEF Init, SecureInit, StopInv, StopsOnlyOutOfSlots, SlotInv
<1>5. ListInv
  BY CreatedFacts, ThreadFacts DEF Init, SecureInit, ListInv, Booting
<1>6. BootInv
  BY CreatedFacts, ThreadFacts, SlotFacts DEF Init, SecureInit, BootInv, Booting
<1> QED
  BY <1>1, <1>2, <1>3, <1>4, <1>5, <1>6, <1>7 DEF IInv, TypeOK

-----------------------------------------------------------------------------
(* The windows                                                             *)

\* With the windows unmapped and slots 1, 2 and 3 free, set_tz_package maps the
\* pages of the caller into these slots.
LEMMA SetPackage ==
  ASSUME vmap \in [Slot -> Pages \cup {NULL}],
         package = NULL, tee_mem = NULL, com_mem = NULL,
         vmap[1] = NULL, vmap[2] = NULL, vmap[3] = NULL,
         NEW c \in Clients, set_tz_package(c)
  PROVE  /\ package' = 1 /\ tee_mem' = 2 /\ com_mem' = 3
         /\ vmap' \in [Slot -> Pages \cup {NULL}]
         /\ vmap'[1] = Page("package", c) /\ vmap'[2] = Page("tee", c)
         /\ vmap'[3] = Page("ctrl", c)
         /\ \A s \in Slot : s > 3 => vmap'[s] = vmap[s]
<1>1. Unmapped = vmap
  BY SlotFacts DEF Unmapped
<1>2. <<1, 2, 3>> \in Windows(c)
  BY <1>1, SlotFacts DEF Windows, mmm_allocate_page, Kinds
<1>3. \A w \in Windows(c) : w = <<1, 2, 3>>
  <2> SUFFICES ASSUME NEW w \in Windows(c) PROVE w = <<1, 2, 3>>
    OBVIOUS
  <2>1. w \in Slot \X Slot \X Slot /\ mmm_allocate_page(vmap, w[1])
    BY <1>1 DEF Windows
  <2>2. w[1] = 1
    BY <2>1, SlotFacts DEF mmm_allocate_page, Slot
  <2>3. w[2] = 2
    BY <1>1, <2>1, <2>2, SlotFacts DEF Windows, mmm_allocate_page, Slot, Kinds
  <2>4. w[3] = 3
    BY <1>1, <2>1, <2>2, <2>3, SlotFacts DEF Windows, mmm_allocate_page, Slot, Kinds
  <2> QED
    BY <2>1, <2>2, <2>3, <2>4
<1>4. /\ vmap' = [vmap EXCEPT ![1] = Page("package", c), ![2] = Page("tee", c),
                             ![3] = Page("ctrl", c)]
      /\ package' = 1 /\ tee_mem' = 2 /\ com_mem' = 3
  BY <1>1, <1>2, <1>3 DEF set_tz_package
<1> QED
  BY <1>4, SlotFacts DEF Kinds

\* free_tz_package gives the slots of the windows back.
LEMMA FreePackage ==
  ASSUME vmap \in [Slot -> Pages \cup {NULL}],
         package = 1, tee_mem = 2, com_mem = 3, free_tz_package
  PROVE  /\ package' = NULL /\ tee_mem' = NULL /\ com_mem' = NULL
         /\ vmap' \in [Slot -> Pages \cup {NULL}]
         /\ vmap'[1] = NULL /\ vmap'[2] = NULL /\ vmap'[3] = NULL
         /\ \A s \in Slot : s > 3 => vmap'[s] = vmap[s]
BY SlotFacts DEF free_tz_package, Unmapped

\* A step of a running kernel that does not stop it and gives no slot back but
\* those of the windows.
LEMMA GoesOn ==
  ASSUME IInv, ~panic, ~panic', ta_unmapped' \subseteq ta_unmapped,
         \A s \in Slot : s > 3 /\ vmap[s] # NULL => vmap'[s] # NULL
  PROVE  StopInv'
BY DEF IInv, StopInv, StopsOnlyOutOfSlots, SlotInv

-----------------------------------------------------------------------------
(* The scheduler's part of the invariant                                   *)

SchedInv == SchedTypeOK /\ OneRunning /\ ListInv /\ RunInv

\* After boot, a secure thread that hands the CPU to another secure thread
\* keeps the scheduler's part.
LEMMA SecureSwitch ==
  ASSUME SchedInv, ~Booting, current_thread # "ns",
         NEW x \in Threads, x # "ns", x # "main",
         NEW st \in [Threads -> States],
         \A t \in Threads : st[t] = "RUNNING" => t = current_thread,
         st["main"] = state["main"], st["ns"] = state["ns"], st["tee"] = state["tee"],
         sched_thread_switched(st, x), UNCHANGED <<thread_list, main_pc>>
  PROVE  SchedInv' /\ ~Booting' /\ current_thread' = x
<1> USE ThreadFacts
<1>1. SchedTypeOK' /\ current_thread' = x
  BY SwitchedType DEF SchedInv, SchedTypeOK
<1>2. OneRunning'
  BY SwitchedOne DEF OneRunning
<1>3. ~Booting'
  BY DEF Booting, sched_thread_switched
<1>4. ListInv'
  BY <1>3 DEF SchedInv, ListInv
<1>5. RunInv'
  BY <1>1, <1>3 DEF SchedInv, RunInv, sched_thread_switched
<1> QED
  BY <1>1, <1>2, <1>3, <1>4, <1>5 DEF SchedInv

\* After boot, a secure thread that returns to the normal world keeps it.
LEMMA SwitchToNs ==
  ASSUME SchedInv, ~Booting, current_thread # "ns",
         NEW st \in [Threads -> States],
         \A t \in Threads : st[t] = "RUNNING" => t = current_thread,
         st["main"] = state["main"],
         sched_thread_switched(st, "ns"), UNCHANGED <<thread_list, main_pc>>
  PROVE  SchedInv' /\ ~Booting' /\ current_thread' = "ns"
<1> USE ThreadFacts
<1>1. SchedTypeOK' /\ current_thread' = "ns"
  BY SwitchedType DEF SchedInv, SchedTypeOK
<1>2. OneRunning'
  BY SwitchedOne DEF OneRunning
<1>3. ~Booting'
  BY DEF Booting, sched_thread_switched
<1>4. ListInv' /\ RunInv'
  BY <1>1, <1>3 DEF SchedInv, ListInv, RunInv
<1> QED
  BY <1>1, <1>2, <1>3, <1>4 DEF SchedInv

\* While booting, a thread other than main that blocks and yields gives the
\* CPU to main, the head of the list and the only READY thread in it.
LEMMA BootYield ==
  ASSUME IInv, Booting, current_thread # "main",
         yield(thread_list, Become("BLOCKED")),
         UNCHANGED <<thread_list, main_pc, vmap, package, tee_mem, com_mem, tee_pc,
                     service_pc, service_queue, ta_pc, tee_rpc>>
  PROVE  SchedInv' /\ BootInv' /\ Booting'
<1> DEFINE st == Become("BLOCKED")
<1> USE ThreadFacts
<1>1. /\ st \in [Threads -> States] /\ thread_list \in Seq(Threads)
      /\ current_thread \in Threads
  BY DEF Become, IInv, TypeOK, SchedTypeOK, States
<1>2. st["main"] = "READY" /\ thread_list[1] = "main" /\ 1 \in DOMAIN thread_list
  BY CreatedFacts DEF Become, IInv, TypeOK, SchedTypeOK, SecureTypeOK, BootInv, ListInv
<1>3. sched_thread_switched(st, "main")
  BY <1>1, <1>2, Yield
<1>4. \A t \in Threads : st[t] = "RUNNING" => t = current_thread
  BY DEF Become, IInv, OneRunning, TypeOK, SchedTypeOK
<1>5. SchedTypeOK' /\ OneRunning' /\ current_thread' = "main"
  BY <1>1, <1>3, <1>4, SwitchedType, SwitchedOne
  DEF IInv, TypeOK, SchedTypeOK, OneRunning
<1>6. state' = [state EXCEPT !["main"] = "RUNNING", ![current_thread] = "BLOCKED"]
  BY <1>1, <1>3 DEF sched_thread_switched, Become, IInv, TypeOK, SchedTypeOK
<1>7. Booting' /\ ListInv' /\ RunInv'
  BY <1>5, <1>6 DEF Booting, ListInv, RunInv, IInv, TypeOK, SchedTypeOK
<1>8. BootInv'
  <2>1. \A i \in 2..main_pc : thread_list[i] \in Threads
    BY <1>1, CreatedFacts DEF IInv, ListInv, TypeOK, SecureTypeOK
  <2> QED
    BY <1>1, <1>5, <1>6, <1>7, <2>1 DEF BootInv, IInv, TypeOK, SchedTypeOK
<1> QED
  BY <1>5, <1>7, <1>8 DEF SchedInv

-----------------------------------------------------------------------------
(* Every action keeps the invariant                                        *)

\* A client's steps in the driver touch only the pages, the mailbox and its
\* own program counter.
LEMMA ClientStep ==
  ASSUME IInv, NEW c \in Clients,
         \/ client_push(c) \/ client_poll(c) \/ client_return(c)
         \/ \E op \in Ops : client_call(c, op)
  PROVE  IInv'
<1> USE DEF IInv
<1>1. UNCHANGED <<schedVars, windowVars, panic, main_pc, teeVars, taVars, serviceVars>>
  BY DEF client_push, client_poll, client_return, client_call
<1>2. /\ client_pc' \in [Clients -> {"idle", "tmem", "smc", "poll", "cmem"}]
      /\ package_result' \in [Clients -> Results]
      /\ executed' \in [Clients -> 0..2]
  <2>1. client_pc' \in [Clients -> {"idle", "tmem", "smc", "poll", "cmem"}]
    BY DEF TypeOK, NormalTypeOK, Goto, client_push, client_poll, client_return,
       client_call
  <2>2. package_result' \in [Clients -> Results]
    BY DEF TypeOK, MonTypeOK, Results, client_push, client_poll, client_return,
       client_call
  <2>3. executed' \in [Clients -> 0..2]
    <3>1. executed' \in {executed, [executed EXCEPT ![c] = 0]}
      BY DEF client_push, client_poll, client_return, client_call
    <3>2. executed \in [Clients -> 0..2]
      BY DEF TypeOK, SecureTypeOK
    <3> HIDE DEF IInv
    <3> QED
      BY <3>1, <3>2
  <2> QED
    BY <2>1, <2>2, <2>3
<1>9. callbit' \in [Clients -> {0, 1}]
  <2>1. callbit \in [Clients -> {0, 1}]
    BY DEF TypeOK, NormalTypeOK
  <2>2. 1 - callbit[c] \in {0, 1}
    BY <2>1
  <2>3. callbit' \in {callbit, [callbit EXCEPT ![c] = 1 - callbit[c]]}
    BY DEF client_push, client_poll, client_return, client_call
  <2> QED
    BY <2>1, <2>2, <2>3
<1>3. tee_page' \in [Clients -> TeeSpaces]
  BY DEF TypeOK, MonTypeOK, NormalTypeOK, TeeSpaces, CallIds,
     client_push, client_poll, client_return, client_call
<1>4. ctrl_page' \in [Clients -> CtrlSpaces] /\ comm' \in CtrlSpaces
  BY CtrlSpaceFacts DEF TypeOK, MonTypeOK, NormalTypeOK, PointerInv,
     client_push, client_poll, client_return, client_call
<1>5. /\ pending' \in {"CTRL_IDLE", "CTRL_PENDING_FROM_S", "CTRL_PENDING_IN_NS",
                       "CTRL_RESPONSE_FROM_NS"}
      /\ ctrlspace' \in Clients \cup {NULL} /\ daemon_pc' \in {"poll", "push"}
      /\ pending' # "CTRL_IDLE" => ctrlspace' \in Clients
  BY DEF TypeOK, NormalTypeOK, PointerInv, client_push, client_poll,
     client_return, client_call
<1>6. TypeOK'
  BY <1>1, <1>2, <1>9, <1>3, <1>4, <1>5
  DEF TypeOK, SchedTypeOK, MonTypeOK, SecureTypeOK, NormalTypeOK
<1>7. (OneRunning /\ ListInv /\ BootInv /\ WindowInv /\ RunInv)'
  BY <1>1 DEF OneRunning, ListInv, BootInv, WindowInv, RunInv, Booting
<1>10. StopInv'
  <2>1. ~panic
    BY DEF client_push, client_poll, client_return, client_call, Runs
  <2> QED
    BY <1>1, <2>1, GoesOn
<1>8. (ServiceInv /\ PointerInv)'
  BY <1>1, <1>5 DEF ServiceInv, PointerInv
<1> QED
  BY <1>6, <1>7, <1>8, <1>10

\* The daemon's steps: they touch the mailbox, and the control page of the
\* client the mailbox points to.
LEMMA DaemonStep ==
  ASSUME IInv, daemon_step
  PROVE  IInv'
<1> USE DEF IInv
<1>1. UNCHANGED <<schedVars, windowVars, panic, main_pc, teeVars, taVars, serviceVars,
                  tee_page, package_result, executed, client_pc, callbit, ctrlspace>>
  BY DEF daemon_step, daemon_poll, daemon_push, monVars, secureVars, windowVars
<1>2. ctrl_page' \in [Clients -> CtrlSpaces] /\ comm' \in CtrlSpaces
  BY CtrlSpaceFacts DEF TypeOK, MonTypeOK, NormalTypeOK, PointerInv, daemon_step,
     daemon_poll, daemon_push
<1>3. /\ pending' \in {"CTRL_IDLE", "CTRL_PENDING_FROM_S", "CTRL_PENDING_IN_NS",
                       "CTRL_RESPONSE_FROM_NS"}
      /\ daemon_pc' \in {"poll", "push"}
      /\ pending' # "CTRL_IDLE" => ctrlspace' \in Clients
  BY DEF TypeOK, NormalTypeOK, PointerInv, daemon_step, daemon_poll, daemon_push
<1>4. TypeOK'
  BY <1>1, <1>2, <1>3
  DEF TypeOK, SchedTypeOK, MonTypeOK, SecureTypeOK, NormalTypeOK
<1>5. (OneRunning /\ ListInv /\ BootInv /\ WindowInv /\ RunInv)'
  BY <1>1 DEF OneRunning, ListInv, BootInv, WindowInv, RunInv, Booting
<1>7. StopInv'
  <2>1. ~panic
    BY DEF daemon_step, daemon_poll, daemon_push, Runs
  <2> QED
    BY <1>1, <2>1, GoesOn
<1>6. (ServiceInv /\ PointerInv)'
  BY <1>1, <1>3 DEF ServiceInv, PointerInv
<1> QED
  BY <1>4, <1>5, <1>6, <1>7

\* The monitor calls of a client: the windows get slots 1, 2 and 3 and the CPU
\* goes to the TEE task or the service task.
LEMMA EnterStep ==
  ASSUME IInv, NEW c \in Clients, client_tmem(c) \/ client_cmem(c)
  PROVE  IInv'
<1> USE DEF IInv
<1>0. current_thread = "ns" /\ set_tz_package(c) /\ ~panic
  BY DEF client_tmem, client_cmem, smc_process_tmem, smc_process_cmem, Runs
<1>2. ~Booting
  BY <1>0 DEF BootInv
<1>3. /\ package' = 1 /\ tee_mem' = 2 /\ com_mem' = 3
      /\ vmap' \in [Slot -> Pages \cup {NULL}]
      /\ vmap'[1] = Page("package", c) /\ vmap'[2] = Page("tee", c)
      /\ vmap'[3] = Page("ctrl", c)
      /\ \A s \in Slot : s > 3 => vmap'[s] = vmap[s]
  BY <1>0, <1>2, SetPackage DEF WindowInv, TypeOK, MonTypeOK
<1>1. /\ current_thread = "ns" /\ Goto(c, "smc")
      /\ UNCHANGED <<thread_list, pageVars, panic, secureVars, callbit, pending,
                     ctrlspace, daemon_pc, comm>>
  BY <1>0, <1>3, SlotFacts
  DEF client_tmem, client_cmem, smc_process_tmem, smc_process_cmem
<1>4. /\ SchedInv' /\ ~Booting' /\ current_thread' \in {"tee", "service"}
  <2>1. CASE client_tmem(c)
    <3> DEFINE st == [state EXCEPT !["tee"] = "READY"]
    <3>1. sched_thread_switched(st, "tee")
      BY <1>3, <2>1, SlotFacts DEF client_tmem, smc_process_tmem
    <3>2. /\ st \in [Threads -> States]
          /\ \A t \in Threads : st[t] = "RUNNING" => t = current_thread
      BY ThreadFacts DEF TypeOK, SchedTypeOK, OneRunning, States
    <3>3. SchedTypeOK' /\ OneRunning' /\ current_thread' = "tee"
          /\ state'["tee"] = "RUNNING"
      BY <1>1, <3>1, <3>2, SwitchedType, SwitchedOne, ThreadFacts
      DEF TypeOK, SchedTypeOK, OneRunning
    <3>4. ~Booting'
      BY <1>1, <1>2, <3>1, ThreadFacts
      DEF sched_thread_switched, Booting, TypeOK, SchedTypeOK
    <3> QED
      BY <1>1, <1>2, <3>3, <3>4 DEF SchedInv, ListInv, RunInv
  <2>2. CASE client_cmem(c)
    <3> DEFINE st == [Become("BLOCKED") EXCEPT !["service"] = "READY"]
    <3>1. sched_thread_switched(st, "service")
      BY <1>3, <2>2, SlotFacts DEF client_cmem, smc_process_cmem
    <3>2. /\ st \in [Threads -> States]
          /\ \A t \in Threads : st[t] = "RUNNING" => t = current_thread
      BY ThreadFacts DEF TypeOK, SchedTypeOK, OneRunning, States, Become
    <3>3. SchedTypeOK' /\ OneRunning' /\ current_thread' = "service"
      BY <1>1, <3>1, <3>2, SwitchedType, SwitchedOne, ThreadFacts
      DEF TypeOK, SchedTypeOK, OneRunning
    <3>4. ~Booting' /\ state'["ns"] = "BLOCKED"
      BY <1>1, <1>2, <3>1, ThreadFacts
      DEF sched_thread_switched, Booting, TypeOK, SchedTypeOK, Become
    <3> QED
      BY <1>1, <1>2, <3>3, <3>4 DEF SchedInv, ListInv, RunInv
  <2> QED
    BY <2>1, <2>2
<1>5. TypeOK'
  <2>1. MonTypeOK'
    BY <1>1, <1>3, SlotFacts DEF TypeOK, MonTypeOK
  <2>2. SecureTypeOK' /\ NormalTypeOK'
    BY <1>1 DEF TypeOK, SecureTypeOK, NormalTypeOK, Goto
  <2> QED
    BY <1>4, <2>1, <2>2 DEF TypeOK, SchedInv
<1>6. WindowInv' /\ BootInv'
  BY <1>3, <1>4 DEF WindowInv, BootInv
<1>7. (ServiceInv /\ PointerInv)'
  BY <1>1 DEF ServiceInv, PointerInv
<1>8. StopInv'
  BY <1>0, <1>1, <1>3, GoesOn
<1> QED
  BY <1>4, <1>5, <1>6, <1>7, <1>8 DEF SchedInv

\* entry_main_task creates a thread: a secure one runs to its first block, and
\* the non-secure one takes the CPU for good.
LEMMA MainStep ==
  ASSUME IInv, main_create, UNCHANGED normalVars
  PROVE  IInv'
<1> USE DEF IInv
<1> USE ThreadFacts
<1> DEFINE t == Created[main_pc]
           st == IF t = "ns" THEN Become("BLOCKED") ELSE state
           list == Append(thread_list, t)
<1>1. /\ current_thread = "main" /\ Booting /\ state["main"] = "RUNNING"
      /\ main_pc \in 1..Len(Created) /\ t \in Threads /\ t # "main"
      /\ t = "ns" <=> main_pc = Len(Created)
  BY CreatedFacts DEF main_create, Runs, RunInv, BootInv, TypeOK, SecureTypeOK
<1>2. /\ thread_list' = list /\ yield(list, st) /\ main_pc' = main_pc + 1
      /\ UNCHANGED <<monVars, teeVars, taVars, serviceVars, executed>>
  BY DEF main_create, sched_add_thread
<1>3. /\ state \in [Threads -> States] /\ st \in [Threads -> States]
      /\ thread_list \in Seq(Threads) /\ list \in Seq(Threads)
  BY <1>1 DEF TypeOK, SchedTypeOK, Become, States
<1>4. /\ Len(list) = main_pc + 1 /\ list[1] = "main" /\ list[main_pc + 1] = t
      /\ \A i \in 2..main_pc : list[i] = thread_list[i] /\ list[i] = Created[i - 1]
      /\ \A i \in 2..main_pc : list[i] \in Threads /\ state[list[i]] = "BLOCKED"
  <2>1. \A i \in 1..main_pc : list[i] = thread_list[i]
    BY <1>1, <1>3 DEF ListInv
  <2>2. \A i \in 2..main_pc : thread_list[i] = Created[i - 1]
    BY DEF ListInv
  <2>3. \A i \in 2..main_pc : Created[i - 1] \in Threads /\ Created[i - 1] # "main"
    BY <1>1, CreatedFacts
  <2>4. \A i \in 2..main_pc : state[thread_list[i]] = "BLOCKED"
    BY <1>1, <2>2, <2>3 DEF BootInv
  <2>5. Len(list) = main_pc + 1 /\ list[main_pc + 1] = t /\ list[1] = "main"
    BY <1>1, <1>3, <2>1 DEF ListInv
  <2> HIDE DEF list
  <2> QED
    BY <1>1, <2>1, <2>2, <2>3, <2>4, <2>5
<1>5. DOMAIN list = 1..(main_pc + 1)
  BY <1>3, <1>4
<1>6. \A u \in Threads : st[u] = "RUNNING" => u = current_thread
  BY <1>1, <1>3 DEF Become, OneRunning
<1>7. SchedTypeOK' /\ OneRunning'
  <2> HIDE DEF list, st
  <2> QED
    BY <1>1, <1>2, <1>3, <1>6, YieldOne DEF SchedTypeOK, OneRunning
<1>8. MonTypeOK' /\ SecureTypeOK' /\ NormalTypeOK'
  <2>1. MonTypeOK' /\ NormalTypeOK'
    BY <1>2 DEF TypeOK, MonTypeOK, NormalTypeOK
  <2>2. main_pc' \in 1..(Len(Created) + 1)
    BY <1>1, <1>2, CreatedFacts
  <2> QED
    BY <1>2, <2>1, <2>2 DEF TypeOK, SecureTypeOK
<1>9. (StopInv /\ ServiceInv /\ PointerInv)'
  <2>1. ~panic
    BY DEF main_create, Runs
  <2>2. StopInv'
    BY <1>2, <2>1, GoesOn
  <2> QED
    BY <1>2, <2>2 DEF ServiceInv, PointerInv
<1>10. CASE t = "ns"
  <2>1. sched_thread_switched(st, "ns")
    <3>1. st["main"] = "BLOCKED" /\ st["ns"] = "READY"
          /\ \A i \in 2..main_pc : st[list[i]] = "BLOCKED"
      BY <1>1, <1>3, <1>4, <1>10 DEF Become, BootInv
    <3>2. \A i \in DOMAIN list : st[list[i]] = "READY" => i = main_pc + 1
      BY <1>1, <1>4, <1>5, <3>1
    <3>3. main_pc + 1 \in DOMAIN list
      BY <1>1, <1>5
    <3>4. st[list[main_pc + 1]] = "READY"
      BY <1>4, <1>10, <3>1
    <3> HIDE DEF list, st
    <3>5. PICK i \in DOMAIN list :
            sched_thread_switched(st, list[i]) /\ st[list[i]] = "READY"
      BY <1>2, <1>3, <3>3, <3>4, Yield
    <3>6. list[i] = "ns"
      BY <1>4, <1>10, <3>2, <3>5
    <3> QED
      BY <3>5, <3>6
  <2>2. current_thread' = "ns" /\ state'["main"] = "BLOCKED"
    BY <1>1, <1>3, <1>10, <2>1 DEF sched_thread_switched, Become
  <2>3. ~Booting' /\ RunInv' /\ BootInv'
    BY <2>2 DEF Booting, RunInv, BootInv
  <2>4. WindowInv'
    BY <1>1, <1>2, <2>2 DEF BootInv, WindowInv
  <2>5. ListInv'
    <3> HIDE DEF list
    <3> QED
      BY <1>1, <1>2, <1>4, <1>10, <2>3 DEF ListInv
  <2> QED
    BY <1>7, <1>8, <1>9, <2>3, <2>4, <2>5 DEF TypeOK
<1>11. CASE t # "ns"
  <2>1. st = state
    BY <1>11
  <2>2. \/ state[t] = "BLOCKED" /\ state' = state /\ current_thread' = "main"
        \/ state[t] = "READY" /\ sched_thread_switched(state, t)
    <3>1. \A i \in DOMAIN list : state[list[i]] = "READY" => i = main_pc + 1
      BY <1>1, <1>4, <1>5
    <3>2. main_pc + 1 \in DOMAIN list
      BY <1>1, <1>5
    <3>3. state[t] # "RUNNING" /\ state[t] \in States
      BY <1>1, <1>3 DEF OneRunning
    <3> HIDE DEF list, st
    <3>4. CASE state' = state /\ current_thread' = current_thread
               /\ \A i \in DOMAIN list : state[list[i]] # "READY"
      <4>1. state[t] # "READY"
        BY <1>4, <3>2, <3>4
      <4> QED
        BY <1>1, <3>3, <3>4, <4>1 DEF States
    <3>5. CASE \E i \in DOMAIN list : /\ sched_thread_switched(state, list[i])
                                      /\ state[list[i]] = "READY"
      BY <1>4, <3>1, <3>5
    <3> QED
      BY <1>2, <1>3, <2>1, <3>4, <3>5, Yield
  <2>3. /\ Booting' /\ current_thread' \in {"main", t}
        /\ state'[current_thread'] = "RUNNING"
        /\ current_thread' # "main" => state'["main"] = "READY"
        /\ \A u \in Threads : u \notin {"main", t} => state'[u] = state[u]
        /\ current_thread' = "main" => state'[t] = "BLOCKED"
        /\ current_thread' = t => state[t] = "READY"
    BY <1>1, <1>3, <2>2 DEF sched_thread_switched, Booting
  <2>4. ListInv'
    <3>1. main_pc < Len(Created)
      BY <1>1, <1>11, CreatedFacts
    <3> HIDE DEF list
    <3> QED
      BY <1>1, <1>2, <1>4, <2>3, <3>1, CreatedFacts DEF ListInv
  <2>5. \A i \in 2..main_pc' :
          thread_list'[i] # current_thread' => state'[thread_list'[i]] = "BLOCKED"
    <3> SUFFICES ASSUME NEW i \in 2..(main_pc + 1), list[i] # current_thread'
                 PROVE  state'[list[i]] = "BLOCKED"
      BY <1>2
    <3>1. CASE i = main_pc + 1
      <4>1. list[i] = t
        BY <1>4, <3>1
      <4> HIDE DEF list, t
      <4> QED
        BY <2>3, <4>1
    <3>2. CASE i \in 2..main_pc
      <4>1. list[i] \in Threads /\ state[list[i]] = "BLOCKED" /\ list[i] # "main"
        BY <1>1, <1>4, <3>2, CreatedFacts
      <4> HIDE DEF list, t
      <4>2. CASE list[i] = t
        BY <2>3, <4>2
      <4>3. CASE list[i] # t
        BY <2>3, <4>1, <4>3
      <4> QED
        BY <4>2, <4>3
    <3>3. i = main_pc + 1 \/ i \in 2..main_pc
      BY <1>1, CreatedFacts
    <3> QED
      BY <3>1, <3>2, <3>3
  <2>6. \A u \in Trustlets : state'[u] # "BLOCKED" => ta_pc[u] = "start"
    BY <1>1, <2>3 DEF BootInv
  <2>7. BootInv'
    BY <1>1, <1>2, <1>11, <2>3, <2>5, <2>6 DEF BootInv
  <2> QED
    BY <1>7, <1>8, <1>9, <2>3, <2>4, <2>7 DEF TypeOK, WindowInv, RunInv
<1> QED
  BY <1>10, <1>11

\* The TEE task finds no window: that happens during boot only.
LEMMA TeeIdleStep ==
  ASSUME IInv, tee_idle, UNCHANGED normalVars
  PROVE  IInv'
<1>1. current_thread = "tee" /\ Booting
  BY SlotFacts DEF tee_idle, Runs, IInv, WindowInv
<1>2. SchedInv' /\ BootInv' /\ Booting'
  BY <1>1, BootYield DEF tee_idle
<1>3. (MonTypeOK /\ SecureTypeOK /\ NormalTypeOK)'
  BY DEF tee_idle, IInv, TypeOK, MonTypeOK, SecureTypeOK, NormalTypeOK
<1>4. (StopInv /\ ServiceInv /\ PointerInv)'
  <2>1. StopInv'
    BY GoesOn DEF tee_idle, Runs
  <2> QED
    BY <2>1 DEF tee_idle, IInv, ServiceInv, PointerInv
<1> QED
  BY <1>2, <1>3, <1>4 DEF IInv, TypeOK, SchedInv, WindowInv

\* The service task finds no request.  After boot its yield does not reach the
\* normal world: either that is blocked, or the TEE task is READY before it.
LEMMA ServiceIdleStep ==
  ASSUME IInv, service_idle, UNCHANGED normalVars
  PROVE  IInv'
<1> USE ThreadFacts
<1>1. /\ current_thread = "service" /\ service_pc = "top" /\ ~panic
      /\ yield(thread_list, Become("BLOCKED")) /\ request' = NULL
      /\ UNCHANGED <<thread_list, monVars, main_pc, teeVars, taVars, service_queue,
                     service_pc, ready, ctrl_space, executed>>
  BY DEF service_idle, Runs
<1>2. (MonTypeOK /\ SecureTypeOK /\ NormalTypeOK)'
  BY <1>1 DEF IInv, TypeOK, MonTypeOK, SecureTypeOK, NormalTypeOK
<1>3. (StopInv /\ ServiceInv /\ PointerInv)'
  <2>1. StopInv'
    BY <1>1, GoesOn
  <2> QED
    BY <1>1, <2>1 DEF IInv, ServiceInv, PointerInv
<1>4. CASE Booting
  <2>1. SchedInv' /\ BootInv' /\ Booting'
    BY <1>1, <1>4, BootYield
  <2> QED
    BY <1>2, <1>3, <2>1 DEF IInv, TypeOK, SchedInv, WindowInv
<1>5. CASE ~Booting
  <2> DEFINE st == Become("BLOCKED")
  <2>1. /\ SchedInv /\ st \in [Threads -> States] /\ thread_list \in Seq(Threads)
        /\ \A t \in Threads : st[t] = "RUNNING" => t = current_thread
        /\ st["main"] = state["main"] /\ st["ns"] = state["ns"]
        /\ st["tee"] = state["tee"]
    BY <1>1 DEF IInv, SchedInv, TypeOK, SchedTypeOK, OneRunning, Become, States
  <2>2. SchedInv' /\ ~Booting' /\ current_thread' # "ns"
    <3>1. CASE state' = st /\ current_thread' = current_thread
      <4>1. SchedTypeOK' /\ OneRunning'
        BY <1>1, <2>1, <3>1 DEF SchedInv, SchedTypeOK, OneRunning
      <4>2. ~Booting' /\ ListInv' /\ RunInv'
        BY <1>1, <1>5, <2>1, <3>1 DEF SchedInv, Booting, ListInv, RunInv
      <4> QED
        BY <1>1, <3>1, <4>1, <4>2 DEF SchedInv
    <3>2. CASE \E i \in DOMAIN thread_list :
                 /\ sched_thread_switched(st, thread_list[i])
                 /\ thread_list[i] \in Threads /\ st[thread_list[i]] = "READY"
                 /\ \A j \in DOMAIN thread_list :
                      j < i => st[thread_list[j]] # "READY"
      <4>1. PICK i \in DOMAIN thread_list :
              /\ sched_thread_switched(st, thread_list[i])
              /\ thread_list[i] \in Threads /\ st[thread_list[i]] = "READY"
              /\ \A j \in DOMAIN thread_list :
                   j < i => st[thread_list[j]] # "READY"
        BY <3>2
      <4>2. thread_list[i] # "main"
        BY <1>5, <2>1, <4>1 DEF Booting
      <4>3. thread_list[i] # "ns"
        <5> SUFFICES ASSUME thread_list[i] = "ns" PROVE FALSE
          OBVIOUS
        <5>1. DOMAIN thread_list = 1..main_pc /\ main_pc = Len(Created) + 1
          BY <1>5, <2>1, CreatedFacts DEF IInv, ListInv, TypeOK, SecureTypeOK
        <5>2. thread_list[3] = "tee" /\ 3 \in DOMAIN thread_list
          BY <5>1, CreatedFacts DEF IInv, ListInv
        <5>3. i = main_pc
          BY <4>1, <5>1, CreatedFacts DEF IInv, ListInv
        <5>4. state["tee"] = "READY"
          BY <1>1, <1>5, <2>1, <4>1 DEF IInv, RunInv
        <5>5. 3 < i
          BY <5>1, <5>3, CreatedFacts
        <5>6. st[thread_list[3]] = "READY"
          BY <2>1, <5>2, <5>4
        <5> HIDE DEF st
        <5> QED
          BY <4>1, <5>2, <5>5, <5>6
      <4> QED
        BY <1>1, <1>5, <2>1, <4>1, <4>2, <4>3, SecureSwitch
    <3> QED
      BY <1>1, <2>1, <3>1, <3>2, Yield
  <2>3. WindowInv' /\ BootInv'
    BY <1>1, <1>5, <2>2 DEF IInv, WindowInv, BootInv
  <2> QED
    BY <1>2, <1>3, <2>2, <2>3 DEF IInv, TypeOK, SchedInv
<1> QED
  BY <1>4, <1>5

\* What an action of the TEE task or of a trustlet may rely on after boot: the
\* windows and the request they show.
LEMMA WindowFacts ==
  ASSUME IInv, ~Booting, current_thread # "ns"
  PROVE  /\ package = 1 /\ tee_mem = 2 /\ com_mem = 3
         /\ vmap[1] # NULL /\ vmap[2] # NULL /\ vmap[3] # NULL
         /\ vmap[1].of \in Clients /\ vmap[2].of \in Clients /\ vmap[3].of \in Clients
         /\ vmap[2].kind = "tee"
         /\ Request \in TeeSpaces
<1>1. PICK c \in Clients : /\ vmap[1] = Page("package", c)
                           /\ vmap[2] = Page("tee", c)
                           /\ vmap[3] = Page("ctrl", c)
  BY DEF IInv, WindowInv
<1>2. package = 1 /\ tee_mem = 2 /\ com_mem = 3
  BY DEF IInv, WindowInv
<1>3. tee_page[c] \in TeeSpaces
  BY DEF IInv, TypeOK, MonTypeOK
<1> QED
  BY <1>1, <1>2, <1>3, SlotFacts DEF Page, Kinds, Request

\* A response to the normal world by a secure thread, which may have blocked
\* itself: the windows are freed and the CPU goes there.
LEMMA Respond ==
  ASSUME IInv, ~Booting, current_thread # "ns",
         NEW result \in Results,
         NEW st \in {state, Become("BLOCKED")},
         ssc_nons_service(result, st), UNCHANGED <<thread_list, main_pc, taVars>>,
         ~panic
  PROVE  /\ SchedInv' /\ ~Booting' /\ current_thread' = "ns"
         /\ WindowInv' /\ BootInv' /\ StopInv'
         /\ vmap' \in [Slot -> Pages \cup {NULL}]
         /\ package' = NULL /\ tee_mem' = NULL /\ com_mem' = NULL
         /\ package_result' \in [Clients -> Results] /\ panic' = panic
<1> USE ThreadFacts
<1>1. /\ package_result' = [package_result EXCEPT ![vmap[package].of] = result]
      /\ free_tz_package /\ sched_thread_switched(st, "ns") /\ UNCHANGED panic
  BY WindowFacts, SlotFacts DEF ssc_nons_service
<1>2. /\ package' = NULL /\ tee_mem' = NULL /\ com_mem' = NULL
      /\ vmap' \in [Slot -> Pages \cup {NULL}]
      /\ vmap'[1] = NULL /\ vmap'[2] = NULL /\ vmap'[3] = NULL
      /\ \A s \in Slot : s > 3 => vmap'[s] = vmap[s]
  BY <1>1, WindowFacts, FreePackage DEF IInv, TypeOK, MonTypeOK
<1>3. /\ SchedInv /\ st \in [Threads -> States]
      /\ \A t \in Threads : st[t] = "RUNNING" => t = current_thread
      /\ st["main"] = state["main"]
  BY DEF IInv, SchedInv, TypeOK, SchedTypeOK, OneRunning, Become, States, RunInv
<1>4. SchedInv' /\ ~Booting' /\ current_thread' = "ns"
  BY <1>1, <1>3, SwitchToNs
<1>5. package_result' \in [Clients -> Results]
  BY <1>1 DEF IInv, TypeOK, MonTypeOK
<1>6. WindowInv' /\ BootInv' /\ StopInv'
  <2>1. StopInv'
    BY <1>1, <1>2, GoesOn
  <2> QED
    BY <1>1, <1>2, <1>4, <2>1 DEF WindowInv, BootInv, IInv
<1> QED
  BY <1>1, <1>2, <1>4, <1>5, <1>6

\* The TEE task writes an answer and returns to the normal world.
LEMMA TeeRespond ==
  ASSUME IInv, ~Booting, current_thread # "ns",
         NEW sp \in TeeSpaces, tee_respond(2, sp), UNCHANGED <<main_pc, taVars>>,
         ~panic
  PROVE  /\ SchedInv' /\ ~Booting' /\ WindowInv' /\ BootInv' /\ StopInv'
         /\ MonTypeOK'
<1>1. /\ tee_page' = [tee_page EXCEPT ![vmap[2].of] = sp]
      /\ ssc_nons_service("TEE_STRUCT", Become("BLOCKED"))
      /\ UNCHANGED <<thread_list, ctrl_page>>
  BY WindowFacts, SlotFacts DEF tee_respond, ShowsTeePage
<1>2. /\ SchedInv' /\ ~Booting' /\ WindowInv' /\ BootInv' /\ StopInv'
      /\ vmap' \in [Slot -> Pages \cup {NULL}]
      /\ package' = NULL /\ tee_mem' = NULL /\ com_mem' = NULL
      /\ package_result' \in [Clients -> Results] /\ panic' = panic
  BY <1>1, Respond DEF Results
<1>3. tee_page' \in [Clients -> TeeSpaces]
  BY <1>1 DEF IInv, TypeOK, MonTypeOK
<1>4. MonTypeOK'
  BY <1>1, <1>2, <1>3 DEF IInv, TypeOK, MonTypeOK
<1> QED
  BY <1>2, <1>4

\* CountExecution keeps the counters' type.
LEMMA CountType ==
  ASSUME IInv, Request \in TeeSpaces, CountExecution
  PROVE  executed' \in [Clients -> 0..2]
<1> DEFINE c == Request.id[1]
<1>1. c \in Clients
  BY TeeSpaceFacts
<1>2. executed \in [Clients -> 0..2]
  BY DEF IInv, TypeOK, SecureTypeOK
<1>3. executed' = [executed EXCEPT ![c] = IF executed[c] = 2 THEN 2 ELSE executed[c] + 1]
  BY DEF CountExecution
<1>4. (IF executed[c] = 2 THEN 2 ELSE executed[c] + 1) \in 0..2
  BY <1>1, <1>2
<1> HIDE DEF c
<1> QED
  BY <1>1, <1>2, <1>3, <1>4

\* The TEE task answers a request by itself.
LEMMA TeeLocalStep ==
  ASSUME IInv, tee_local, UNCHANGED normalVars
  PROVE  IInv'
<1> USE ThreadFacts
<1>1. current_thread = "tee" /\ ~Booting /\ ~panic
  BY DEF tee_local, Runs, IInv, BootInv
<1>2. tee_mem = 2 /\ Request \in TeeSpaces
  BY <1>1, WindowFacts
<1>3. PICK sp \in TeeSpaces : space' = sp /\ tee_respond(2, sp)
  <2>1. PICK ret \in {Request.id, Error} :
          /\ space' = [Request EXCEPT !.ret = ret]
          /\ tee_respond(tee_mem, [Request EXCEPT !.ret = ret])
    BY DEF tee_local
  <2>2. [Request EXCEPT !.ret = ret] \in TeeSpaces
    BY <1>2, TeeSpaceFacts
  <2> QED
    BY <1>2, <2>1, <2>2
<1>4. /\ tee' = tee_mem /\ CountExecution
      /\ UNCHANGED <<main_pc, tee_pc, taVars, serviceVars>>
  BY DEF tee_local
<1>5. SchedInv' /\ ~Booting' /\ WindowInv' /\ BootInv' /\ StopInv' /\ MonTypeOK'
  BY <1>1, <1>3, <1>4, TeeRespond
<1>6. executed' \in [Clients -> 0..2]
  BY <1>2, <1>4, CountType
<1>7. (SecureTypeOK /\ NormalTypeOK)'
  BY <1>2, <1>3, <1>4, <1>6, SlotFacts
  DEF IInv, TypeOK, SecureTypeOK, NormalTypeOK
<1>8. (ServiceInv /\ PointerInv)'
  BY <1>2, <1>3, <1>4 DEF IInv, ServiceInv, PointerInv
<1> QED
  BY <1>5, <1>7, <1>8 DEF IInv, TypeOK, SchedInv

\* The TEE task gives a request and the CPU to a trustlet.
LEMMA TeeToTrustletStep ==
  ASSUME IInv, NEW t \in Trustlets, tee_to_trustlet(t), UNCHANGED normalVars
  PROVE  IInv'
<1> USE ThreadFacts
<1>1. current_thread = "tee" /\ ~Booting /\ ~panic
  BY DEF tee_to_trustlet, Runs, IInv, BootInv
<1>2. tee_mem = 2 /\ Request \in TeeSpaces
  BY <1>1, WindowFacts
<1>3. /\ tee' = 2 /\ space' = Request /\ CountExecution
      /\ tee_rpc' = [tee_rpc EXCEPT ![t] = TRUE] /\ tee_pc' = "ta"
      /\ switch_to_thread(state, t)
      /\ UNCHANGED <<thread_list, monVars, main_pc, ta_pc, ta_call, ta_requests,
                     ta_reqbit, ta_unmapped, serviceVars>>
  BY <1>2 DEF tee_to_trustlet
<1>4. /\ SchedInv' /\ ~Booting' /\ current_thread' = t
  <2>1. SchedInv /\ state \in [Threads -> States]
    BY DEF IInv, SchedInv, TypeOK, SchedTypeOK
  <2> QED
    BY <1>1, <1>3, <2>1, SwitchTo, SecureSwitch DEF SchedInv, OneRunning
<1>5. executed' \in [Clients -> 0..2]
  BY <1>2, <1>3, CountType
<1>6. (MonTypeOK /\ SecureTypeOK /\ NormalTypeOK)'
  <2>1. (MonTypeOK /\ NormalTypeOK)'
    BY <1>3 DEF IInv, TypeOK, MonTypeOK, NormalTypeOK
  <2>2. tee_rpc' \in [Trustlets -> BOOLEAN]
    BY <1>3 DEF IInv, TypeOK, SecureTypeOK
  <2> QED
    BY <1>2, <1>3, <1>5, <2>1, <2>2, SlotFacts DEF IInv, TypeOK, SecureTypeOK
<1>7. (WindowInv /\ BootInv)'
  BY <1>1, <1>3, <1>4 DEF IInv, WindowInv, BootInv
<1>8. (StopInv /\ ServiceInv /\ PointerInv)'
  <2>1. StopInv'
    BY <1>1, <1>3, GoesOn
  <2> QED
    BY <1>2, <1>3, <2>1 DEF IInv, ServiceInv, PointerInv
<1> QED
  BY <1>4, <1>6, <1>7, <1>8 DEF IInv, TypeOK, SchedInv

\* The TEE task returns from the trustlet and answers through its old pointer.
LEMMA TeeFromTrustletStep ==
  ASSUME IInv, tee_from_trustlet, UNCHANGED normalVars
  PROVE  IInv'
<1> USE ThreadFacts
<1>1. current_thread = "tee" /\ ~Booting /\ ~panic
  BY DEF tee_from_trustlet, Runs, IInv, BootInv
<1>2. tee = 2 /\ space \in TeeSpaces /\ tee_respond(2, space)
  BY DEF tee_from_trustlet, IInv, PointerInv
<1>3. /\ tee_pc' = "top"
      /\ UNCHANGED <<main_pc, tee, space, taVars, serviceVars, executed>>
  BY DEF tee_from_trustlet
<1>4. SchedInv' /\ ~Booting' /\ WindowInv' /\ BootInv' /\ StopInv' /\ MonTypeOK'
  BY <1>1, <1>2, <1>3, TeeRespond
<1>5. (SecureTypeOK /\ NormalTypeOK)'
  BY <1>3 DEF IInv, TypeOK, SecureTypeOK, NormalTypeOK
<1>6. (ServiceInv /\ PointerInv)'
  BY <1>3 DEF IInv, ServiceInv, PointerInv
<1> QED
  BY <1>4, <1>5, <1>6 DEF IInv, TypeOK, SchedInv

\* A trustlet that has run once runs again only after boot.
LEMMA TrustletAfterBoot ==
  ASSUME IInv, NEW t \in Trustlets, current_thread = t, ta_pc[t] # "start"
  PROVE  ~Booting
BY DEF IInv, BootInv

\* A trustlet waits for its next request: the CPU goes to the TEE task.
LEMMA Wait ==
  ASSUME IInv, ~Booting, NEW t \in Trustlets, current_thread = t, WaitForRequest(t),
         UNCHANGED <<thread_list, main_pc>>
  PROVE  /\ SchedInv' /\ ~Booting' /\ current_thread' = "tee"
         /\ ta_pc' = [ta_pc EXCEPT ![t] = "wait"]
<1> USE ThreadFacts
<1> DEFINE st == Become("BLOCKED")
<1>1. /\ SchedInv /\ st \in [Threads -> States]
      /\ \A u \in Threads : st[u] = "RUNNING" => u = current_thread
      /\ st["main"] = state["main"] /\ st["ns"] = state["ns"]
      /\ st["tee"] = state["tee"]
  BY DEF IInv, SchedInv, TypeOK, SchedTypeOK, OneRunning, Become, States
<1>2. sched_thread_switched(st, "tee")
  BY SwitchTo DEF WaitForRequest
<1> HIDE DEF st
<1> QED
  BY <1>1, <1>2, SecureSwitch DEF WaitForRequest

\* The first call of a trustlet, during boot.
LEMMA TaStartStep ==
  ASSUME IInv, NEW t \in Trustlets, ta_start(t), UNCHANGED normalVars
  PROVE  IInv'
<1> USE ThreadFacts
<1>1. /\ current_thread = t /\ ta_pc[t] = "start" /\ WaitForRequest(t) /\ ~panic
      /\ UNCHANGED <<thread_list, monVars, main_pc, teeVars, tee_rpc, ta_call,
                     ta_requests, ta_reqbit, ta_unmapped, serviceVars, executed>>
  BY DEF ta_start, Runs
<1>2. ta_pc' = [ta_pc EXCEPT ![t] = "wait"]
  BY <1>1 DEF WaitForRequest
<1>3. (MonTypeOK /\ SecureTypeOK /\ NormalTypeOK)'
  <2>1. ta_pc' \in [Trustlets -> {"start", "wait", "run", "service"}]
    BY <1>2 DEF IInv, TypeOK, SecureTypeOK
  <2> QED
    BY <1>1, <2>1 DEF IInv, TypeOK, MonTypeOK, SecureTypeOK, NormalTypeOK
<1>4. StopInv' /\ PointerInv'
  <2>1. StopInv'
    BY <1>1, GoesOn
  <2> QED
    BY <1>1, <1>2, <2>1 DEF IInv, PointerInv, TypeOK, SecureTypeOK
<1>5. ServiceInv'
  BY <1>1, <1>2 DEF IInv, ServiceInv, TypeOK, SecureTypeOK
<1>6. CASE ~Booting
  <2>1. SchedInv' /\ ~Booting' /\ current_thread' = "tee"
    BY <1>1, <1>6, Wait
  <2>2. WindowInv' /\ BootInv'
    BY <1>1, <1>6, <2>1 DEF IInv, WindowInv, BootInv
  <2> QED
    BY <1>3, <1>4, <1>5, <2>1, <2>2 DEF IInv, TypeOK, SchedInv
<1>7. CASE Booting
  <2> DEFINE st == Become("BLOCKED")
  <2>1. /\ st \in [Threads -> States] /\ st = [state EXCEPT ![t] = "BLOCKED"]
        /\ \A u \in Threads : st[u] = "RUNNING" => u = current_thread
    BY <1>1 DEF IInv, TypeOK, SchedTypeOK, OneRunning, Become, States
  <2>2. sched_thread_switched(st, "tee")
    BY <1>1, SwitchTo DEF WaitForRequest
  <2>3. state' = [state EXCEPT ![t] = "BLOCKED", !["tee"] = "RUNNING"]
    BY <1>1, <2>1, <2>2 DEF sched_thread_switched, IInv, TypeOK, SchedTypeOK
  <2>4. SchedTypeOK' /\ OneRunning' /\ current_thread' = "tee"
    <3> HIDE DEF st
    <3> QED
      BY <1>1, <2>1, <2>2, SwitchedType, SwitchedOne
      DEF IInv, TypeOK, SchedTypeOK, OneRunning
  <2>5. Booting' /\ ListInv' /\ RunInv'
    BY <1>1, <1>7, <2>3, <2>4 DEF Booting, ListInv, RunInv, IInv, TypeOK, SchedTypeOK
  <2>6. \A i \in 2..main_pc : thread_list[i] \in Threads
    BY CreatedFacts DEF IInv, ListInv, TypeOK, SchedTypeOK, SecureTypeOK
  <2>7. BootInv'
    BY <1>1, <1>2, <1>7, <2>3, <2>4, <2>6
    DEF BootInv, IInv, TypeOK, SchedTypeOK, SecureTypeOK
  <2> QED
    BY <1>3, <1>4, <1>5, <2>4, <2>5, <2>7 DEF IInv, TypeOK, WindowInv
<1> QED
  BY <1>6, <1>7

\* Temporary memory goes into a free slot, which is none of the windows'.
LEMMA TemporarySlot ==
  ASSUME IInv, ~Booting, NEW t \in Trustlets, current_thread = t,
         UNCHANGED vmap \/ MapTemporary(t)
  PROVE  /\ vmap' \in [Slot -> Pages \cup {NULL}]
         /\ vmap'[1] = vmap[1] /\ vmap'[2] = vmap[2] /\ vmap'[3] = vmap[3]
         /\ \A s \in Slot : vmap[s] # NULL => vmap'[s] # NULL
<1> USE ThreadFacts
<1>1. vmap \in [Slot -> Pages \cup {NULL}]
  BY DEF IInv, TypeOK, MonTypeOK
<1>2. vmap[1] # NULL /\ vmap[2] # NULL /\ vmap[3] # NULL
  BY WindowFacts
<1>3. \/ vmap' = vmap
      \/ \E r \in Slot : vmap[r] = NULL /\ vmap' = [vmap EXCEPT ![r] = Page("tmp", t)]
  BY DEF MapTemporary, mmm_allocate_page
<1>4. Page("tmp", t) \in Pages /\ Page("tmp", t) # NULL
  BY SlotFacts DEF Kinds
<1> QED
  BY <1>1, <1>2, <1>3, <1>4, SlotFacts

\* A trustlet takes a request.
LEMMA TaAcceptStep ==
  ASSUME IInv, NEW t \in Trustlets, ta_accept(t), UNCHANGED normalVars
  PROVE  IInv'
<1> USE ThreadFacts
<1>1. /\ current_thread = t /\ ta_pc[t] = "wait" /\ tee_rpc[t] /\ ~panic
      /\ ta_call' = [ta_call EXCEPT ![t] = space]
      /\ ta_pc' = [ta_pc EXCEPT ![t] = "run"]
      /\ UNCHANGED <<schedVars, package, tee_mem, com_mem, pageVars, panic, main_pc,
                     teeVars, tee_rpc, ta_requests, ta_reqbit, serviceVars, executed>>
  BY DEF ta_accept, Runs
<1>2. ~Booting
  BY <1>1, TrustletAfterBoot
<1>3. /\ vmap' \in [Slot -> Pages \cup {NULL}]
      /\ vmap'[1] = vmap[1] /\ vmap'[2] = vmap[2] /\ vmap'[3] = vmap[3]
      /\ \A s \in Slot : vmap[s] # NULL => vmap'[s] # NULL
  BY <1>1, <1>2, TemporarySlot DEF ta_accept
<1>4. space \in TeeSpaces
  BY <1>1 DEF IInv, PointerInv
<1>5. TypeOK'
  <2>1. /\ ta_pc' \in [Trustlets -> {"start", "wait", "run", "service"}]
        /\ ta_call' \in [Trustlets -> TeeSpaces \cup {NULL}]
    BY <1>1, <1>4 DEF IInv, TypeOK, SecureTypeOK
  <2>2. ta_unmapped' \subseteq Trustlets
    BY DEF ta_accept, IInv, TypeOK, SecureTypeOK
  <2> QED
    BY <1>1, <1>3, <2>1, <2>2
    DEF IInv, TypeOK, SchedTypeOK, MonTypeOK, SecureTypeOK, NormalTypeOK
<1>6. (OneRunning /\ ListInv /\ RunInv)' /\ ~Booting'
  BY <1>1, <1>2 DEF IInv, OneRunning, ListInv, RunInv, Booting
<1>7. WindowInv' /\ BootInv'
  BY <1>1, <1>2, <1>3, <1>6 DEF IInv, WindowInv, BootInv
<1>8. ServiceInv'
  BY <1>1 DEF IInv, ServiceInv, TypeOK, SecureTypeOK
<1>9. PointerInv'
  BY <1>1, <1>4 DEF IInv, PointerInv, TypeOK, SecureTypeOK
<1>10. StopInv'
  <2>1. CASE UNCHANGED ta_unmapped
    BY <1>1, <1>3, <2>1, GoesOn
  <2>2. CASE SlotsUsedUp
    BY <1>1, <1>3, <2>2 DEF SlotsUsedUp, StopInv, StopsOnlyOutOfSlots, SlotInv
  <2> QED
    BY <2>1, <2>2 DEF ta_accept
<1> QED
  BY <1>5, <1>6, <1>7, <1>8, <1>9, <1>10 DEF IInv

\* The kernel stops in a trustlet's system call, out of slots.
LEMMA TaAbortStep ==
  ASSUME IInv, NEW t \in Trustlets, ta_abort(t), UNCHANGED normalVars
  PROVE  IInv'
<1> USE ThreadFacts
<1>1. /\ current_thread = t /\ ta_pc[t] # "start" /\ panic'
      /\ SlotsUsedUp \/ t \in ta_unmapped
      /\ UNCHANGED <<schedVars, windowVars, pageVars, secureVars>>
  BY DEF ta_abort, Runs
<1>2. panic' \in BOOLEAN
  BY DEF ta_abort
<1>3. SlotsUsedUp
  <2>1. \A s \in Slot : s \in {1, 2, 3} => vmap[s] # NULL
    BY <1>1, TrustletAfterBoot, WindowFacts
  <2>2. \A s \in Slot : s \in {1, 2, 3} \/ s > 3
    BY DEF Slot
  <2> QED
    BY <1>1, <2>1, <2>2 DEF IInv, StopInv, SlotInv, SlotsUsedUp
<1>4. StopInv'
  BY <1>1, <1>3 DEF IInv, StopInv, StopsOnlyOutOfSlots, SlotsUsedUp, SlotInv
<1>5. TypeOK'
  BY <1>1, <1>2 DEF IInv, TypeOK, SchedTypeOK, MonTypeOK, SecureTypeOK, NormalTypeOK
<1>6. (OneRunning /\ ListInv /\ BootInv /\ WindowInv /\ RunInv)'
  BY <1>1 DEF IInv, OneRunning, ListInv, BootInv, WindowInv, RunInv, Booting
<1>7. (ServiceInv /\ PointerInv)'
  BY <1>1 DEF IInv, ServiceInv, PointerInv
<1> QED
  BY <1>4, <1>5, <1>6, <1>7 DEF IInv

\* A trustlet refuses a request or finds none.
LEMMA TaRefuseStep ==
  ASSUME IInv, NEW t \in Trustlets, ta_refuse(t), UNCHANGED normalVars
  PROVE  IInv'
<1> USE ThreadFacts
<1>1. /\ current_thread = t /\ ta_pc[t] = "wait" /\ WaitForRequest(t) /\ ~panic
      /\ space' = IF tee_rpc[t] THEN [space EXCEPT !.ret = Error] ELSE space
      /\ UNCHANGED <<thread_list, package, tee_mem, com_mem, pageVars, panic, main_pc,
                     tee_pc, tee, tee_rpc, ta_call, ta_requests, ta_reqbit,
                     ta_unmapped, serviceVars, executed>>
  BY DEF ta_refuse, Runs
<1>2. ~Booting
  BY <1>1, TrustletAfterBoot
<1>3. SchedInv' /\ ~Booting' /\ current_thread' = "tee" /\ ta_pc' = ta_pc
  BY <1>1, <1>2, Wait DEF IInv, TypeOK, SecureTypeOK
<1>4. space' \in TeeSpaces \cup {NULL} /\ (space \in TeeSpaces => space' \in TeeSpaces)
  BY <1>1, TeeSpaceFacts DEF IInv, PointerInv, TypeOK, SecureTypeOK
<1>8. /\ vmap' \in [Slot -> Pages \cup {NULL}]
      /\ vmap'[1] = vmap[1] /\ vmap'[2] = vmap[2] /\ vmap'[3] = vmap[3]
      /\ \A s \in Slot : vmap[s] # NULL => vmap'[s] # NULL
  BY <1>1, <1>2, TemporarySlot DEF ta_refuse
<1>5. (MonTypeOK /\ SecureTypeOK /\ NormalTypeOK)'
  BY <1>1, <1>3, <1>4, <1>8 DEF IInv, TypeOK, MonTypeOK, SecureTypeOK, NormalTypeOK
<1>6. WindowInv' /\ BootInv'
  BY <1>1, <1>2, <1>3, <1>8 DEF IInv, WindowInv, BootInv
<1>7. (ServiceInv /\ PointerInv)'
  BY <1>1, <1>3, <1>4 DEF IInv, ServiceInv, PointerInv
<1>9. StopInv'
  BY <1>1, <1>8, GoesOn
<1> QED
  BY <1>3, <1>5, <1>6, <1>7, <1>9 DEF IInv, TypeOK, SchedInv

\* A trustlet answers through tee_rpc.
LEMMA TaAnswerStep ==
  ASSUME IInv, NEW t \in Trustlets, ta_answer(t), UNCHANGED normalVars
  PROVE  IInv'
<1> USE ThreadFacts
<1>1. /\ current_thread = t /\ ta_pc[t] = "run" /\ WaitForRequest(t) /\ ~panic
      /\ ta_unmapped' = ta_unmapped \ {t}
      /\ tee_rpc' = [tee_rpc EXCEPT ![t] = FALSE]
      /\ ta_call' = [ta_call EXCEPT ![t] = NULL]
      /\ ta_requests' = [ta_requests EXCEPT ![t] = 0]
      /\ UNCHANGED <<thread_list, monVars, main_pc, tee_pc, tee, ta_reqbit,
                     serviceVars, executed>>
  BY DEF ta_answer, Runs
<1>2. ~Booting
  BY <1>1, TrustletAfterBoot
<1>3. /\ SchedInv' /\ ~Booting' /\ current_thread' = "tee"
      /\ ta_pc' = [ta_pc EXCEPT ![t] = "wait"]
  BY <1>1, <1>2, Wait
<1>4. space' \in TeeSpaces \cup {NULL} /\ (space \in TeeSpaces => space' \in TeeSpaces)
  <2>1. ta_call[t] \in TeeSpaces /\ (tee_rpc[t] => space \in TeeSpaces)
    BY <1>1 DEF IInv, PointerInv
  <2>2. PICK ret \in {ta_call[t].id, Error} :
          space' = IF tee_rpc[t] /\ space.op = "call"
                   THEN [space EXCEPT !.ret = ret] ELSE space
    BY DEF ta_answer
  <2>3. ret \in CallIds \cup {Unset, Error}
    BY <2>1, TeeSpaceFacts
  <2> QED
    BY <2>1, <2>2, <2>3, TeeSpaceFacts DEF IInv, TypeOK, SecureTypeOK
<1>5. (MonTypeOK /\ SecureTypeOK /\ NormalTypeOK)'
  <2>1. /\ tee_rpc' \in [Trustlets -> BOOLEAN]
        /\ ta_call' \in [Trustlets -> TeeSpaces \cup {NULL}]
        /\ ta_pc' \in [Trustlets -> {"start", "wait", "run", "service"}]
    BY <1>1, <1>3 DEF IInv, TypeOK, SecureTypeOK
  <2>2. ta_requests' \in [Trustlets -> 0..MaxRequests]
    BY <1>1, SecureWorldAssumption DEF IInv, TypeOK, SecureTypeOK
  <2> QED
    BY <1>1, <1>4, <2>1, <2>2 DEF IInv, TypeOK, MonTypeOK, SecureTypeOK, NormalTypeOK
<1>6. WindowInv' /\ BootInv'
  BY <1>1, <1>2, <1>3 DEF IInv, WindowInv, BootInv
<1>7. StopInv' /\ ServiceInv'
  <2>1. StopInv'
    BY <1>1, GoesOn
  <2> QED
    BY <1>1, <1>3, <2>1 DEF IInv, ServiceInv, TypeOK, SecureTypeOK
<1>8. PointerInv'
  BY <1>1, <1>3, <1>4 DEF IInv, PointerInv, TypeOK, SecureTypeOK
<1> QED
  BY <1>3, <1>5, <1>6, <1>7, <1>8 DEF IInv, TypeOK, SchedInv

\* A trustlet queues a service request.
LEMMA TaRequestStep ==
  ASSUME IInv, NEW t \in Trustlets, ta_request(t), UNCHANGED normalVars
  PROVE  IInv'
<1> USE ThreadFacts
<1> DEFINE st == [state EXCEPT !["service"] = "READY"]
<1>1. /\ current_thread = t /\ ta_pc[t] = "run" /\ ta_requests[t] < MaxRequests
      /\ ~panic
      /\ ta_requests' = [ta_requests EXCEPT ![t] = ta_requests[t] + 1]
      /\ ta_reqbit' = [ta_reqbit EXCEPT ![t] = 1 - ta_reqbit[t]]
      /\ ctrl_space' = [ctrl_space EXCEPT
                          ![t] = [id |-> <<t, 1 - ta_reqbit[t]>>, done |-> FALSE]]
      /\ ready' = [ready EXCEPT ![t] = FALSE]
      /\ service_queue' = <<t>>
      /\ ta_pc' = [ta_pc EXCEPT ![t] = "service"]
      /\ switch_to_thread(st, "service")
      /\ UNCHANGED <<thread_list, monVars, main_pc, teeVars, tee_rpc, ta_call,
                     ta_unmapped, service_pc, request, executed>>
  BY DEF ta_request, Runs, queue_put
<1>2. ~Booting
  BY <1>1, TrustletAfterBoot
<1>3. SchedInv' /\ ~Booting' /\ current_thread' = "service"
  <2>1. /\ SchedInv /\ st \in [Threads -> States]
        /\ \A u \in Threads : st[u] = "RUNNING" => u = current_thread
        /\ st["main"] = state["main"] /\ st["ns"] = state["ns"]
        /\ st["tee"] = state["tee"]
    BY DEF IInv, SchedInv, TypeOK, SchedTypeOK, OneRunning, States
  <2>2. sched_thread_switched(st, "service")
    BY <1>1, SwitchTo
  <2> HIDE DEF st
  <2> QED
    BY <1>1, <1>2, <2>1, <2>2, SecureSwitch
<1>4. SecureTypeOK'
  <2>1. ta_requests' \in [Trustlets -> 0..MaxRequests]
    BY <1>1, SecureWorldAssumption, SMTT(30) DEF IInv, TypeOK, SecureTypeOK
  <2>0. ta_reqbit \in [Trustlets -> {0, 1}]
    BY DEF IInv, TypeOK, SecureTypeOK
  <2>2. 1 - ta_reqbit[t] \in {0, 1}
    BY <2>0
  <2>3. ta_reqbit' \in [Trustlets -> {0, 1}]
    BY <1>1, <2>2 DEF IInv, TypeOK, SecureTypeOK
  <2>4. ctrl_space' \in [Trustlets -> CtrlSpaces]
    BY <1>1, <2>2, CtrlSpaceFacts DEF IInv, TypeOK, SecureTypeOK
  <2>5. /\ ta_pc' \in [Trustlets -> {"start", "wait", "run", "service"}]
        /\ ready' \in [Trustlets -> BOOLEAN] /\ service_queue' \in Seq(Trustlets)
    BY <1>1 DEF IInv, TypeOK, SecureTypeOK
  <2> QED
    BY <1>1, <2>1, <2>3, <2>4, <2>5 DEF IInv, TypeOK, SecureTypeOK
<1>5. (MonTypeOK /\ NormalTypeOK)'
  BY <1>1 DEF IInv, TypeOK, MonTypeOK, NormalTypeOK
<1>6. WindowInv' /\ BootInv'
  BY <1>1, <1>2, <1>3 DEF IInv, WindowInv, BootInv
<1>7. ServiceInv'
  BY <1>1 DEF IInv, ServiceInv, TypeOK, SecureTypeOK
<1>8. StopInv' /\ PointerInv'
  <2>1. StopInv'
    BY <1>1, GoesOn
  <2> QED
    BY <1>1, <2>1 DEF IInv, PointerInv, TypeOK, SecureTypeOK
<1> QED
  BY <1>3, <1>4, <1>5, <1>6, <1>7, <1>8 DEF IInv, TypeOK, SchedInv

\* A trustlet finds its request ready, or gives the CPU back.
LEMMA TaRequestDoneStep ==
  ASSUME IInv, NEW t \in Trustlets, ta_request_done(t), UNCHANGED normalVars
  PROVE  IInv'
<1> USE ThreadFacts
<1>1. /\ current_thread = t /\ ta_pc[t] = "service" /\ ~panic
      /\ UNCHANGED <<monVars, main_pc, teeVars, tee_rpc, ta_call, ta_requests,
                     ta_reqbit, ta_unmapped, service_queue, service_pc, request,
                     executed>>
  BY DEF ta_request_done, Runs
<1>2. ~Booting
  BY <1>1, TrustletAfterBoot
<1>5. StopInv'
  BY <1>1, GoesOn
<1>3. CASE ready[t]
  <2>1. /\ ta_pc' = [ta_pc EXCEPT ![t] = "run"]
        /\ ready' = [ready EXCEPT ![t] = FALSE]
        /\ ctrl_space' = [ctrl_space EXCEPT ![t] = NoRequest]
        /\ UNCHANGED schedVars
    BY <1>3 DEF ta_request_done
  <2>2. TypeOK'
    <3>1. /\ ta_pc' \in [Trustlets -> {"start", "wait", "run", "service"}]
          /\ ready' \in [Trustlets -> BOOLEAN]
          /\ ctrl_space' \in [Trustlets -> CtrlSpaces]
      BY <2>1, CtrlSpaceFacts DEF IInv, TypeOK, SecureTypeOK
    <3> QED
      BY <1>1, <2>1, <3>1
      DEF IInv, TypeOK, SchedTypeOK, MonTypeOK, SecureTypeOK, NormalTypeOK
  <2>3. (OneRunning /\ ListInv /\ RunInv /\ WindowInv)' /\ ~Booting'
    BY <1>1, <1>2, <2>1
    DEF IInv, OneRunning, ListInv, RunInv, WindowInv, Booting
  <2>4. ServiceInv'
    BY <1>1, <1>3, <2>1 DEF IInv, ServiceInv, TypeOK, SecureTypeOK
  <2>5. PointerInv' /\ BootInv'
    BY <1>1, <2>1, <2>3 DEF IInv, PointerInv, BootInv, TypeOK, SecureTypeOK
  <2> QED
    BY <1>5, <2>2, <2>3, <2>4, <2>5 DEF IInv
<1>4. CASE ~ready[t]
  <2>1. switch_to_thread(state, "service") /\ UNCHANGED <<ta_pc, thread_list, ready, ctrl_space>>
    BY <1>4 DEF ta_request_done
  <2>2. SchedInv' /\ ~Booting' /\ current_thread' = "service"
    <3>1. SchedInv /\ state \in [Threads -> States]
      BY DEF IInv, SchedInv, TypeOK, SchedTypeOK
    <3> QED
      BY <1>1, <1>2, <2>1, <3>1, SwitchTo, SecureSwitch DEF SchedInv, OneRunning
  <2>3. (MonTypeOK /\ SecureTypeOK /\ NormalTypeOK)'
    BY <1>1, <2>1 DEF IInv, TypeOK, MonTypeOK, SecureTypeOK, NormalTypeOK
  <2>4. WindowInv' /\ BootInv'
    BY <1>1, <1>2, <2>2 DEF IInv, WindowInv, BootInv
  <2>5. (ServiceInv /\ PointerInv)'
    BY <1>1, <2>1 DEF IInv, ServiceInv, PointerInv
  <2> QED
    BY <1>5, <2>2, <2>3, <2>4, <2>5 DEF IInv, TypeOK, SchedInv
<1> QED
  BY <1>3, <1>4

\* The service task takes a request, which is not ready, into the window, which
\* is there, and returns to the normal world.
LEMMA ServiceStartStep ==
  ASSUME IInv, service_start, UNCHANGED normalVars
  PROVE  IInv'
<1> USE ThreadFacts
<1>1. /\ current_thread = "service" /\ service_pc = "top" /\ service_queue # << >>
      /\ ~panic
      /\ service_queue' = Tail(service_queue)
      /\ UNCHANGED <<main_pc, teeVars, taVars, ready, ctrl_space, executed>>
  BY DEF service_start, Runs, queue_get
<1>2. PICK t \in Trustlets :
        service_queue = <<t>> /\ ta_pc[t] = "service" /\ ~ready[t]
  BY <1>1 DEF IInv, ServiceInv
<1>3. Head(service_queue) = t /\ service_queue' = << >> /\ ~Booting
  BY <1>1, <1>2 DEF IInv, BootInv
<1>4. com_mem = 3 /\ com_mem # NULL /\ vmap[3].of \in Clients
  BY <1>1, <1>3, WindowFacts, SlotFacts
<1>5. /\ request' = t /\ service_pc' = "reply"
      /\ ctrl_page' = [ctrl_page EXCEPT ![vmap[3].of] = ctrl_space[t]]
      /\ ssc_nons_service("CTRL_STRUCT", state)
      /\ UNCHANGED <<thread_list, tee_page>>
  BY <1>2, <1>3, <1>4 DEF service_start
<1>6. /\ SchedInv' /\ ~Booting' /\ current_thread' = "ns"
      /\ WindowInv' /\ BootInv' /\ StopInv'
      /\ vmap' \in [Slot -> Pages \cup {NULL}]
      /\ package' = NULL /\ tee_mem' = NULL /\ com_mem' = NULL
      /\ package_result' \in [Clients -> Results] /\ panic' = panic
  BY <1>1, <1>3, <1>5, Respond DEF Results
<1>7. MonTypeOK'
  <2>1. ctrl_page' \in [Clients -> CtrlSpaces]
    BY <1>4, <1>5 DEF IInv, TypeOK, MonTypeOK, SecureTypeOK
  <2> QED
    BY <1>5, <1>6, <2>1 DEF IInv, TypeOK, MonTypeOK
<1>8. (SecureTypeOK /\ NormalTypeOK)'
  BY <1>1, <1>3, <1>5 DEF IInv, TypeOK, SecureTypeOK, NormalTypeOK
<1>9. ServiceInv' /\ PointerInv'
  BY <1>1, <1>2, <1>3, <1>5 DEF IInv, ServiceInv, PointerInv
<1> QED
  BY <1>6, <1>7, <1>8, <1>9 DEF IInv, TypeOK, SchedInv

\* The service task is back with a response and resumes the trustlet.
LEMMA ServiceReplyStep ==
  ASSUME IInv, service_reply, UNCHANGED normalVars
  PROVE  IInv'
<1> USE ThreadFacts
<1>1. /\ current_thread = "service" /\ service_pc = "reply" /\ ~panic
      /\ UNCHANGED <<main_pc, teeVars, taVars, service_queue, request, executed>>
  BY DEF service_reply, Runs, IInv, ServiceInv
<1>2. ~Booting /\ request \in Trustlets
  BY <1>1 DEF IInv, BootInv, ServiceInv
<1>3. com_mem = 3 /\ com_mem # NULL /\ vmap[3].of \in Clients
  BY <1>1, <1>2, WindowFacts, SlotFacts
<1>4. /\ ctrl_space' = [ctrl_space EXCEPT ![request] = ctrl_page[vmap[3].of]]
      /\ ready' = [ready EXCEPT ![request] = TRUE]
      /\ switch_to_thread(state, request)
      /\ service_pc' = "top"
      /\ UNCHANGED <<thread_list, monVars>>
  BY <1>1, <1>3 DEF service_reply
<1>5. SchedInv' /\ ~Booting' /\ current_thread' = request
  <2>1. SchedInv /\ state \in [Threads -> States]
    BY DEF IInv, SchedInv, TypeOK, SchedTypeOK
  <2> QED
    BY <1>1, <1>2, <1>4, <2>1, SwitchTo, SecureSwitch DEF SchedInv, OneRunning
<1>6. (MonTypeOK /\ SecureTypeOK /\ NormalTypeOK)'
  <2>1. /\ ctrl_space' \in [Trustlets -> CtrlSpaces]
        /\ ready' \in [Trustlets -> BOOLEAN]
    BY <1>2, <1>3, <1>4 DEF IInv, TypeOK, MonTypeOK, SecureTypeOK
  <2> QED
    BY <1>1, <1>4, <2>1 DEF IInv, TypeOK, MonTypeOK, SecureTypeOK, NormalTypeOK
<1>7. WindowInv' /\ BootInv'
  BY <1>1, <1>2, <1>4, <1>5 DEF IInv, WindowInv, BootInv
<1>8. ServiceInv'
  BY <1>1, <1>2, <1>4 DEF IInv, ServiceInv, TypeOK, SecureTypeOK
<1>9. StopInv' /\ PointerInv'
  <2>1. StopInv'
    BY <1>1, <1>4, GoesOn
  <2> QED
    BY <1>1, <1>4, <2>1 DEF IInv, PointerInv
<1> QED
  BY <1>5, <1>6, <1>7, <1>8, <1>9 DEF IInv, TypeOK, SchedInv

-----------------------------------------------------------------------------
(* The theorems                                                            *)

\* Every step keeps the invariant: one case per actor.
LEMMA NextIInv == IInv /\ [Next]_vars => IInv'
<1> SUFFICES ASSUME IInv, [Next]_vars PROVE IInv'
  OBVIOUS
<1>1. CASE UNCHANGED vars
  BY <1>1 DEF IInv, TypeOK, SchedTypeOK, MonTypeOK, SecureTypeOK, NormalTypeOK,
     OneRunning, StopInv, StopsOnlyOutOfSlots, SlotsUsedUp, SlotInv, ListInv, BootInv, WindowInv, RunInv, ServiceInv,
     PointerInv, Booting
<1>2. CASE SecureNext /\ UNCHANGED normalVars
  BY <1>2, MainStep, TeeIdleStep, TeeLocalStep, TeeFromTrustletStep,
     TeeToTrustletStep, TaStartStep, TaAcceptStep, TaRefuseStep, TaAnswerStep,
     TaAbortStep,
     TaRequestStep, TaRequestDoneStep, ServiceIdleStep, ServiceStartStep,
     ServiceReplyStep
  DEF SecureNext
<1>3. CASE \E c \in Clients : (\E op \in Ops : client_call(c, op)) \/ client_step(c)
  BY <1>3, ClientStep, EnterStep DEF client_step
<1>4. CASE daemon_step
  BY <1>4, DaemonStep
<1> QED
  BY <1>1, <1>2, <1>3, <1>4 DEF Next, abort_loop

\* IInv is an invariant of the system, whatever its constants.
THEOREM Invariance == Spec => []IInv
<1>1. Init => IInv
  BY InitIInv
<1>2. IInv /\ [Next]_vars => IInv'
  BY NextIInv
<1> QED
  BY <1>1, <1>2, PTL DEF Spec

\* Every variable keeps its type.
THEOREM TypeCorrect == Spec => []TypeOK
<1>1. IInv => TypeOK
  BY DEF IInv
<1> QED
  BY <1>1, Invariance, PTL

\* The scheduler never has two running threads.
THEOREM OneRunningThread == Spec => []OneRunning
<1>1. IInv => OneRunning
  BY DEF IInv
<1> QED
  BY <1>1, Invariance, PTL

\* The windows are mapped exactly while the secure world runs for a client,
\* and show the pages of one client.
THEOREM WindowsInStep == Spec => []WindowsFollowWorld
<1>1. IInv => WindowsFollowWorld
  BY SlotFacts DEF IInv, WindowInv, BootInv, Booting, WindowsFollowWorld
<1> QED
  BY <1>1, Invariance, PTL

\* The secure kernel stops in one way only, by the unchecked mapping of
\* temporary memory once the slots are used up; no thread ever follows a NULL or
\* a stale pointer into a window, however many clients race through the driver.
THEOREM StopsOnlyOutOfSlotsHolds == Spec => []StopsOnlyOutOfSlots
<1>1. IInv => StopsOnlyOutOfSlots
  BY DEF IInv, StopInv
<1> QED
  BY <1>1, Invariance, PTL
=============================================================================
