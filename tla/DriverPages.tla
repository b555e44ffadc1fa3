---------------------------- MODULE DriverPages ----------------------------
(***************************************************************************)
(* The pages a call of the driver allocates, shares with the secure world  *)
(* and frees (tee_process, tz_process_ctrl_mem, shared_mem.c), among calls *)
(* of other processes and other users of the kernel's memory.              *)
(***************************************************************************)
EXTENDS Naturals, FiniteSets

CONSTANTS
  Callers,      \* processes inside ANDIX_TEE_PUSH
  Pages,        \* the kernel's pages
  NULL,
  Others,       \* TRUE: the rest of the kernel takes and returns pages
  MAX_CALLS,    \* bounds on the calls of a process
  MAX_SERVICES  \* and on the file operations of a call

VARIABLES
  free,         \* pages nobody has
  others,       \* pages the rest of the kernel has
  content,      \* what a page holds
  pc,           \* of a caller: "user"; "smc": in the secure world; "copy":
                \* the daemon answered; "free"; "send"; "oops"
  teemem, ctrlspace, package,         \* the pages of tee_process
  ctrl_pages_1, ctrlspace_1,          \* the page, and the pointer, of the
  ctrlspace_2,                        \* latest copy of the control page
  calls, services,
  got,          \* what send_to_user copied to the caller
  taken,        \* history: the callers whose freed request page somebody
                \* took before it was copied to them
  dangling      \* history: the callers whose copy of the control page could
                \* not be allocated while the pointer to the freed one stayed

vars == <<free, others, content, pc, teemem, ctrlspace, package, ctrl_pages_1,
          ctrlspace_1, ctrlspace_2, calls, services, got, taken, dangling>>
locals == <<teemem, ctrlspace, package, ctrl_pages_1, ctrlspace_1, ctrlspace_2>>

Goto(c, l) == pc' = [pc EXCEPT ![c] = l]
Set(f, c, v) == [f EXCEPT ![c] = v]
Answer(c) == <<c, calls[c]>>
Zero == <<NULL, 0>>

\* The pages S are allocated: the callers who still have to copy from one.
Losers(S) == {c \in Callers : pc[c] = "send" /\ teemem[c] \in S}

-----------------------------------------------------------------------------

\* Three allocations; when one fails those before it are returned, and the
\* call fails with nothing changed.
tee_process(c) ==
  /\ pc[c] = "user" /\ calls[c] < MAX_CALLS
  /\ \E t \in free : \E k \in free \ {t} : \E p \in free \ {t, k} :
       /\ free' = free \ {t, k, p}
       /\ content' = [content EXCEPT ![t] = Zero, ![k] = Zero, ![p] = Zero]
       /\ teemem' = Set(teemem, c, t)
       /\ ctrlspace' = Set(ctrlspace, c, k)
       /\ package' = Set(package, c, p)
       /\ ctrlspace_1' = Set(ctrlspace_1, c, k)
       /\ taken' = (taken \ {c}) \cup Losers({t, k, p})
  /\ ctrl_pages_1' = Set(ctrl_pages_1, c, NULL)
  /\ ctrlspace_2' = Set(ctrlspace_2, c, NULL)
  /\ calls' = Set(calls, c, calls[c] + 1)
  /\ services' = Set(services, c, 0)
  /\ got' = Set(got, c, Zero)
  /\ Goto(c, "smc")
  /\ UNCHANGED <<others, dangling>>

\* The monitor call comes back with TEE_STRUCT, or the hook before it failed:
\* the answer is in teemem, the loop's copy of the control page is freed.
smc_answer(c) ==
  /\ pc[c] = "smc"
  /\ content' = Set(content, teemem[c], Answer(c))
  /\ free' = free \cup ({ctrl_pages_1[c]} \ {NULL})
  /\ ctrl_pages_1' = Set(ctrl_pages_1, c, NULL)
  /\ Goto(c, "free")
  /\ UNCHANGED <<others, teemem, ctrlspace, package, ctrlspace_1, ctrlspace_2, calls, services, got, taken, dangling>>

\* It comes back with CTRL_STRUCT, and the daemon writes its response into
\* the page ctrlspace_1 points to.
smc_service(c) ==
  /\ pc[c] = "smc" /\ services[c] < MAX_SERVICES
  /\ services' = Set(services, c, services[c] + 1)
  /\ content' = Set(content, ctrlspace_1[c], <<c, calls[c]>>)
  /\ Goto(c, "copy")
  /\ UNCHANGED <<free, others, locals, calls, got, taken, dangling>>

\* The response goes to the secure world in a fresh copy of the page.
copy_ctrl(c) ==
  /\ pc[c] = "copy"
  /\ \E p \in free :
       /\ free' = (free \cup ({ctrl_pages_1[c]} \ {NULL})) \ {p}
       /\ content' = Set(content, p, content[ctrlspace_1[c]])
       /\ ctrl_pages_1' = Set(ctrl_pages_1, c, p)
       /\ ctrlspace_1' = Set(ctrlspace_1, c, p)
       /\ ctrlspace_2' = Set(ctrlspace_2, c, p)
       /\ taken' = taken \cup Losers({p})
  /\ Goto(c, "smc")
  /\ UNCHANGED <<others, teemem, ctrlspace, package, calls, services, got, dangling>>

\* Mutant: ctrl_pages_1 is not replaced by the failed allocation's NULL.
copy_ctrl_no_memory_kept(c) ==
  /\ pc[c] = "copy" /\ free = {} /\ ctrlspace_2[c] # NULL
  /\ free' = free \cup ({ctrl_pages_1[c]} \ {NULL})
  /\ Goto(c, "smc")
  /\ UNCHANGED <<others, content, locals, calls, services, got, taken, dangling>>

\* The allocation fails, unchecked, and leaves ctrlspace_2 as it was: NULL,
\* which memcpy follows, or the copy before, which is freed and still used.
copy_ctrl_no_memory(c) ==
  /\ pc[c] = "copy" /\ free = {}
  /\ IF ctrlspace_2[c] = NULL
     THEN Goto(c, "oops") /\ UNCHANGED <<free, locals, dangling>>
     ELSE /\ free' = free \cup ({ctrl_pages_1[c]} \ {NULL})
          /\ ctrl_pages_1' = Set(ctrl_pages_1, c, NULL)
          /\ ctrlspace_1' = Set(ctrlspace_1, c, ctrlspace_2[c])
          /\ dangling' = dangling \cup {c}
          /\ Goto(c, "smc")
          /\ UNCHANGED <<teemem, ctrlspace, package, ctrlspace_2>>
  /\ UNCHANGED <<others, content, calls, services, got, taken>>

\* The end of tee_process frees two pages ...
free_pages(c) ==
  /\ pc[c] = "free"
  /\ free' = free \cup {teemem[c], ctrlspace[c]}
  /\ Goto(c, "send")
  /\ UNCHANGED <<others, content, locals, calls, services, got, taken, dangling>>

\* Mutant: the control page is copied to the caller.
send_to_user_ctrl(c) ==
  /\ pc[c] = "send"
  /\ got' = Set(got, c, content[ctrlspace[c]])
  /\ Goto(c, "user")
  /\ UNCHANGED <<free, others, content, locals, calls, services, taken, dangling>>

\* ... and then copies the answer out of one of them.
send_to_user(c) ==
  /\ pc[c] = "send"
  /\ got' = Set(got, c, content[teemem[c]])
  /\ Goto(c, "user")
  /\ UNCHANGED <<free, others, content, locals, calls, services, taken, dangling>>

\* The rest of the kernel, and processes that use its memory.
alloc_pages ==
  /\ Others
  /\ \E p \in free :
       /\ free' = free \ {p} /\ others' = others \cup {p}
       /\ content' = Set(content, p, Zero)
       /\ taken' = taken \cup Losers({p})
  /\ UNCHANGED <<pc, locals, calls, services, got, dangling>>

__free_pages ==
  /\ \E p \in others : free' = free \cup {p} /\ others' = others \ {p}
  /\ UNCHANGED <<content, pc, locals, calls, services, got, taken, dangling>>

-----------------------------------------------------------------------------

Init ==
  /\ free = Pages /\ others = {} /\ content = [p \in Pages |-> Zero]
  /\ pc = [c \in Callers |-> "user"]
  /\ teemem = [c \in Callers |-> NULL] /\ ctrlspace = [c \in Callers |-> NULL]
  /\ package = [c \in Callers |-> NULL] /\ ctrl_pages_1 = [c \in Callers |-> NULL]
  /\ ctrlspace_1 = [c \in Callers |-> NULL] /\ ctrlspace_2 = [c \in Callers |-> NULL]
  /\ calls = [c \in Callers |-> 0] /\ services = [c \in Callers |-> 0]
  /\ got = [c \in Callers |-> Zero] /\ taken = {} /\ dangling = {}

Next ==
  \/ \E c \in Callers :
       \/ tee_process(c) \/ smc_answer(c) \/ smc_service(c)
       \/ copy_ctrl(c) \/ copy_ctrl_no_memory(c) \/ free_pages(c) \/ send_to_user(c)
  \/ alloc_pages \/ __free_pages

Spec == Init /\ [][Next]_vars

-----------------------------------------------------------------------------

InCall(c) == pc[c] \in {"smc", "copy", "free"}
Held(c) == {teemem[c], ctrlspace[c], package[c]} \cup ({ctrl_pages_1[c]} \ {NULL})

\* tee_process frees pages through its variables: up to its end they are its
\* own, neither free nor another's, even after an allocation failed.
HeldPagesOwn ==
  \A c \in Callers : InCall(c) =>
    /\ Held(c) \cap (free \cup others) = {}
    /\ Cardinality(Held(c)) = IF ctrl_pages_1[c] = NULL THEN 3 ELSE 4
    /\ \A d \in Callers \ {c} : InCall(d) => Held(c) \cap Held(d) = {}

\* The control page the daemon and the secure world work on belongs to the
\* call, unless the allocation of a copy failed in it.
SharedPageOwn ==
  \A c \in Callers \ dangling : pc[c] \in {"smc", "copy"} => ctrlspace_1[c] \in Held(c)

\* The caller gets the answer that the secure world wrote to its request,
\* unless somebody took the page between free and copy, or some call went on
\* with a freed control page, into which its daemon writes.
AnswerReachesCaller ==
  \A c \in Callers :
    pc[c] = "user" /\ teemem[c] # NULL /\ c \notin taken /\ dangling = {} => got[c] = Answer(c)

\* When no call is under way every page the driver took is free again.
PagesReturned ==
  (\A c \in Callers : pc[c] = "user") => free \cup others = Pages
=============================================================================
