------------------------------ MODULE Monitor ------------------------------
(***************************************************************************)
(* The TrustZone monitor (monitor/monitor.c): the three windows through    *)
(* which the secure kernel sees the memory of a normal-world caller, and   *)
(* the secure monitor calls that move the CPU between the worlds.          *)
(*                                                                         *)
(* A normal-world process (a client) owns three pages: the package, the    *)
(* TEE page with its request, and the control page with which the secure   *)
(* world asks it for a file operation.  Every entry from the normal world  *)
(* maps the caller's pages into virtual page slots of the kernel, every    *)
(* return to it unmaps them.  The slots are handed out first fit           *)
(* (mm/mmm.c), and other mappings of the kernel share them: a pointer into *)
(* a window that a thread keeps across a return to the normal world is     *)
(* only as good as the allocator's habit of handing out the same slot.     *)
(***************************************************************************)
EXTENDS Scheduler

CONSTANTS
  Clients,      \* processes of the normal world that have the driver open
  Slots         \* number of page slots of the mapable memory

\* What a slot may map: one of a client's three pages, or the temporary
\* memory of a client that a trustlet works on.
Kinds == {"package", "tee", "ctrl", "tmp"}
Pages == [kind : Kinds, of : Clients \cup Trustlets]
Slot == 1..Slots

ASSUME MonitorAssumption ==
  /\ Slots \in Nat /\ Slots >= 3
  /\ Clients \cap Trustlets = {}
  /\ NULL \notin Clients \cup Slot \cup Pages

\* Requests are told apart by the client and by a bit that flips from one
\* call of the client to the next; control requests by the trustlet and a
\* bit.  An answer is named by the request it was computed from.
CallIds == Clients \X {0, 1}
ReqIds == Trustlets \X {0, 1}

\* local: handled by the TEE task itself (contexts, memory regions);
\* call: open session and invoke command; close: close session.
Ops == {"local", "call", "close"}

\* TZ_TEE_SPACE: the request, its operation, and the field ret, which holds
\* what the caller left there until someone writes the answer or an error.
Unset == <<NULL, 0>>
Error == <<NULL, 1>>
TeeSpaces == [id : CallIds, op : Ops, ret : CallIds \cup {Unset, Error}]

\* TZ_CTLR_SPACE: the request (none in a zeroed page) and whether the daemon
\* has processed it.
CtrlSpaces == [id : ReqIds \cup {Unset}, done : BOOLEAN]
NoRequest == [id |-> Unset, done |-> FALSE]
Results == {"0", "CTRL_STRUCT", "TEE_STRUCT"}

VARIABLES
  vmap,             \* page slot -> page mapped there, or NULL
  package,          \* slot of the package window, or NULL
  tee_mem,          \* slot of the TEE window, or NULL
  com_mem,          \* slot of the control window, or NULL
  package_result,   \* the result field of every client's package
  tee_page,         \* the TEE page of every client
  ctrl_page,        \* the control page of every client
  panic             \* the secure kernel took a data abort and stopped

windowVars == <<vmap, package, tee_mem, com_mem>>
pageVars == <<package_result, tee_page, ctrl_page>>
monVars == <<windowVars, pageVars, panic>>

MonTypeOK ==
  /\ vmap \in [Slot -> Pages \cup {NULL}]
  /\ package \in Slot \cup {NULL}
  /\ tee_mem \in Slot \cup {NULL}
  /\ com_mem \in Slot \cup {NULL}
  /\ package_result \in [Clients -> Results]
  /\ tee_page \in [Clients -> TeeSpaces]
  /\ ctrl_page \in [Clients -> CtrlSpaces]
  /\ panic \in BOOLEAN

-----------------------------------------------------------------------------
(* Mapping and unmapping the windows                                       *)

Page(kind, of) == [kind |-> kind, of |-> of]

\* mmm_allocate_page, first fit: s is the lowest slot that is free in vm.
mmm_allocate_page(vm, s) == vm[s] = NULL /\ \A r \in 1..(s - 1) : vm[r] # NULL

\* unmap_memory of the slots of the windows.
Unmapped == [s \in Slot |-> IF s \in {package, tee_mem, com_mem} THEN NULL
                            ELSE vmap[s]]

\* Mutant: free_tz_communication_memory is not called.
free_tz_package_keeps_control ==
  /\ vmap' = [s \in Slot |-> IF s \in {package, tee_mem} THEN NULL ELSE vmap[s]]
  /\ package' = NULL /\ tee_mem' = NULL /\ UNCHANGED com_mem

\* Mutant: the package window is forgotten without being unmapped.
free_tz_package_leaks ==
  /\ vmap' = [s \in Slot |-> IF s \in {tee_mem, com_mem} THEN NULL ELSE vmap[s]]
  /\ package' = NULL /\ tee_mem' = NULL /\ com_mem' = NULL

\* free_tz_package
free_tz_package ==
  /\ vmap' = Unmapped
  /\ package' = NULL /\ tee_mem' = NULL /\ com_mem' = NULL

\* The slots map_phys_mem gets for the package, the TEE page and the control
\* page of client c, mapped in this order; none when it runs out of slots.
Windows(c) ==
  {w \in Slot \X Slot \X Slot :
     LET v1 == [Unmapped EXCEPT ![w[1]] = Page("package", c)]
         v2 == [v1 EXCEPT ![w[2]] = Page("tee", c)]
     IN  /\ mmm_allocate_page(Unmapped, w[1])
         /\ mmm_allocate_page(v1, w[2])
         /\ mmm_allocate_page(v2, w[3])}

\* set_tz_package: the old windows are freed, the caller's pages mapped; a
\* mapping that fails undoes all of them.
set_tz_package(c) ==
  IF Windows(c) = {}
  THEN free_tz_package
  ELSE \E w \in Windows(c) :
         /\ vmap' = [Unmapped EXCEPT ![w[1]] = Page("package", c),
                                     ![w[2]] = Page("tee", c),
                                     ![w[3]] = Page("ctrl", c)]
         /\ package' = w[1] /\ tee_mem' = w[2] /\ com_mem' = w[3]

-----------------------------------------------------------------------------
(* The secure monitor calls                                                *)

\* mon_smc_non_secure_handler, SMC_PROCESS_TMEM: a request of client c goes
\* to the TEE task.  The normal world is not marked BLOCKED, so it is READY
\* while the TEE runs.
smc_process_tmem(c) ==
  /\ set_tz_package(c)
  /\ IF tee_mem' = NULL
     THEN UNCHANGED <<current_thread, state>>
     ELSE sched_thread_switched([state EXCEPT !["tee"] = "READY"], "tee")

\* mon_smc_non_secure_handler, SMC_PROCESS_CMEM: the answer to a control
\* request goes to the service task; the normal world is BLOCKED meanwhile.
\* The control window is read, for a message, before it is compared with NULL.
smc_process_cmem(c) ==
  /\ set_tz_package(c)
  /\ IF com_mem' = NULL
     THEN panic' = TRUE /\ UNCHANGED <<current_thread, state>>
     ELSE /\ sched_thread_switched([Become("BLOCKED") EXCEPT
                                      !["service"] = "READY"], "service")
          /\ UNCHANGED panic

\* mon_smc_secure_handler, SSC_NONS_SERVICE: result is stored in the package
\* window, the windows are freed and the normal world goes on.  Without a
\* package window the store is a write through NULL.
ssc_nons_service(result, st) ==
  IF package = NULL
  THEN /\ panic' = TRUE
       /\ state' = st
       /\ UNCHANGED <<current_thread, windowVars, package_result>>
  ELSE /\ package_result' = [package_result EXCEPT ![vmap[package].of] = result]
       /\ free_tz_package
       /\ sched_thread_switched(st, "ns")
       /\ UNCHANGED panic
=============================================================================
