----------------------------- MODULE TeeTables -----------------------------
(***************************************************************************)
(* The tables of the secure world in which the TEE task keeps contexts,     *)
(* sessions and registered memory, and the operations of the TEE task on    *)
(* them (tee_task.c, tee_context.c, tee_session.c, tee_memory.c).           *)
(***************************************************************************)
EXTENDS Integers, FiniteSets

CONSTANTS
  NULL,
  Processes,  \* processes of the normal world, by their pid
  MAX_IDS,    \* identifiers handed out in a behaviour
  Shortage    \* TRUE: kmalloc of the secure kernel may fail

ASSUME TablesAssumption ==
  Processes \subseteq Nat \ {0} /\ MAX_IDS \in Nat /\ Shortage \in BOOLEAN

VARIABLES
  tee_context_list,  \* identifiers of contexts
  tee_session_list,  \* sessions: identifier, context, trustlet, who opened it
  tee_memory_list,   \* registered memory: identifier, context, address
  teemem,            \* the request page of each process, NULL without request
  ids                \* identifiers handed out, in either world

svars == <<tee_context_list, tee_session_list, tee_memory_list>>

OK == 0
REFUSED == 1
MAGIC == -1     \* 0xDEADC, which no context has as identifier

\* random_next32 and get_random_bytes, drawn until the identifier is unused.
\* That an identifier of the past comes back is left out.
fresh == ids + 1
Draw == ids < MAX_IDS /\ ids' = fresh

At(p, stage) == teemem[p] # NULL /\ teemem[p].at = stage

\* The TEE task's copy of the page goes back with the result.
Answer(p, r, ret) ==
  teemem' = [teemem EXCEPT ![p] = [r EXCEPT !.at = "post", !.ret = ret]]

-----------------------------------------------------------------------------

tee_session_find(id) == {e \in tee_session_list : e.id = id}
tee_memory_find(id) == {e \in tee_memory_list : e.id = id}

\* tee_context_create comes before the check of the magic number.
tee_context_create ==
  /\ Draw
  /\ tee_context_list' = tee_context_list \cup {fresh}

tee_init_context(p) ==
  LET r == teemem[p]
  IN  /\ r.op = "init"
      /\ \/ /\ tee_context_create
            /\ IF r.context = MAGIC THEN Answer(p, [r EXCEPT !.context = fresh], OK)
               ELSE Answer(p, r, REFUSED)
         \/ /\ Shortage
            /\ Answer(p, r, REFUSED)
            /\ UNCHANGED <<tee_context_list, ids>>
      /\ UNCHANGED <<tee_session_list, tee_memory_list>>

\* Sessions and memory of the context stay where they are.
tee_finalize_context(p) ==
  LET r == teemem[p]
  IN  /\ r.op = "fin"
      /\ Answer(p, r, IF r.context \in tee_context_list THEN OK ELSE REFUSED)
      /\ tee_context_list' = tee_context_list \ {r.context}
      /\ UNCHANGED <<tee_session_list, tee_memory_list, ids>>

tee_memory_create(ctx, paddr) ==
  /\ Draw
  /\ tee_memory_list' = tee_memory_list \cup {[id |-> fresh, ctx |-> ctx, paddr |-> paddr]}

tee_register_mem(p) ==
  LET r == teemem[p]
  IN  /\ r.op = "reg"
      /\ \/ /\ r.context \in tee_context_list
            /\ tee_memory_create(r.context, r.paddr)
            /\ Answer(p, [r EXCEPT !.memid = fresh], OK)
         \/ /\ Shortage \/ r.context \notin tee_context_list
            /\ Answer(p, r, REFUSED)
            /\ UNCHANGED <<tee_memory_list, ids>>
      /\ UNCHANGED <<tee_context_list, tee_session_list>>

\* tee_memory_destroy, mappings into tasks included.
tee_release_mem(p) ==
  LET r == teemem[p]
  IN  /\ r.op = "rel"
      /\ Answer(p, r, IF tee_memory_find(r.memid) # {} THEN OK ELSE REFUSED)
      /\ tee_memory_list' = tee_memory_list \ tee_memory_find(r.memid)
      /\ UNCHANGED <<tee_context_list, tee_session_list, ids>>

tee_session_create(ctx, app, owner) ==
  /\ Draw
  /\ tee_session_list' = tee_session_list \cup {[id |-> fresh, ctx |-> ctx, app |-> app, owner |-> owner]}

\* The session exists before its trustlet is looked for, and stays when there
\* is none; the caller learns its identifier only if there is one.
tee_open_session(p) ==
  LET r == teemem[p]
  IN  /\ r.op = "open"
      /\ \/ /\ r.context \in tee_context_list
            /\ tee_session_create(r.context, r.app, <<p, r.s>>)
            /\ IF r.app
               THEN \E ret \in {OK, REFUSED} : Answer(p, [r EXCEPT !.session = fresh], ret)
               ELSE Answer(p, r, REFUSED)
         \/ /\ Shortage \/ r.context \notin tee_context_list
            /\ Answer(p, r, REFUSED)
            /\ UNCHANGED <<tee_session_list, ids>>
      /\ UNCHANGED <<tee_context_list, tee_memory_list>>

\* The trustlet is told; the session stays in the list (tee_session_destroy
\* is never called).
tee_close_session(p) ==
  LET r == teemem[p]
  IN  /\ r.op = "close"
      /\ Answer(p, r, IF tee_session_find(r.session) # {} THEN OK ELSE REFUSED)
      /\ UNCHANGED <<svars, ids>>

\* tee_invoke, and in the trustlet's system call the search for its session
\* and its memory.  by: history, for whom the session was opened.
tee_invoke(p) ==
  LET r == teemem[p]
  IN  /\ r.op = "invoke"
      /\ \/ \E e \in tee_session_find(r.session) :
              /\ r.memid = 0 \/ tee_memory_find(r.memid) # {}
              /\ Answer(p, [r EXCEPT !.by = e.owner,
                                     !.paddr = IF r.memid = 0 THEN 0
                                               ELSE (CHOOSE mm \in tee_memory_find(r.memid) : TRUE).paddr], OK)
         \/ /\ tee_session_find(r.session) = {} \/ (r.memid # 0 /\ tee_memory_find(r.memid) = {})
            /\ Answer(p, r, REFUSED)
      /\ UNCHANGED <<svars, ids>>

\* One round of the loop of the TEE task.
tee_task(p) ==
  /\ At(p, "tz")
  /\ \/ tee_init_context(p) \/ tee_finalize_context(p)
     \/ tee_register_mem(p) \/ tee_release_mem(p)
     \/ tee_open_session(p) \/ tee_close_session(p) \/ tee_invoke(p)
=============================================================================
