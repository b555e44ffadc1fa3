---------------------------- MODULE DriverTables ----------------------------
(***************************************************************************)
(* The tables of the normal world driver (tee_context.c, tee_session.c,     *)
(* tee_memory.c) and the hooks that tee_process runs before and after the   *)
(* secure world, which translate the identifiers of one world into those    *)
(* of the other (tee_operations.c).  The driver has no lock: the hooks of   *)
(* different processes interleave.                                          *)
(***************************************************************************)
EXTENDS TeeTables

CONSTANTS
  Wild,     \* what a search of an empty table may return besides NULL: the
            \* search returns a variable that nothing was assigned to
  Faults    \* TRUE: copies from and to user memory may fail

ASSUME DriverAssumption == Wild \notin Int /\ Faults \in BOOLEAN

VARIABLES
  tee_contexts,      \* contexts: structure, id, tz_id
  tee_sessions,      \* sessions: structure, id, tz_id, structure of the context
  tee_memories,      \* memory: structure (its com_paddr too), id, tz_id, context
  tee_tmp_memories   \* temporary memory, by process and by the operation it was
                     \* copied for: "open" or "invoke"
dvars == <<tee_contexts, tee_sessions, tee_memories, tee_tmp_memories>>

\* Structures are numbered as they are allocated.  tee_list_add appends, so a
\* table has the order of these numbers, and a search, which returns the first
\* entry that fits, finds the one with the lowest.
find(table, fits) ==
  IF fits # {} THEN {e \in fits : \A f \in fits : e.obj <= f.obj}
  ELSE IF table = {} THEN {NULL, Wild} ELSE {NULL}

find_by_id(table, id) == find(table, {e \in table : e.id = id})
find_by_tzid(table, tzid) == find(table, {e \in table : e.tz_id = tzid})

WithTzid(table, obj, tzid) ==
  { IF e.obj = obj THEN [e EXCEPT !.tz_id = tzid] ELSE e : e \in table }

Goes(p, r, stage) == teemem' = [teemem EXCEPT ![p] = [r EXCEPT !.at = stage]]

\* err_ret of tee_process.
Fails(p) == Goes(p, [teemem[p] EXCEPT !.ret = REFUSED], "back")

\* A hook that found no entry, or followed a pointer that is none.
Lost(p, e) ==
  \/ e = NULL /\ Fails(p)
  \/ e = Wild /\ Goes(p, teemem[p], "oops")

Missed(p, e) == Lost(p, e) /\ UNCHANGED <<dvars, ids>>

Kept(p, r) == Goes(p, r, "tz") /\ UNCHANGED <<dvars, ids>>

-----------------------------------------------------------------------------
(* Contexts. *)

tee_ctx_init_pre(p) == Kept(p, [teemem[p] EXCEPT !.context = MAGIC])

\* A version that gives every context the same identifier.
tee_context_add_constant(p, tz) == [obj |-> fresh, id |-> 1, tz_id |-> tz]

\* tee_context_add draws an identifier and replaces it by the process's own.
tee_context_add(p, tz) == [obj |-> fresh, id |-> p, tz_id |-> tz]

\* Whatever the secure world answered, the context is entered.
tee_ctx_init_post(p) ==
  /\ Draw
  /\ tee_contexts' = tee_contexts \cup {tee_context_add(p, teemem[p].context)}
  /\ Goes(p, [teemem[p] EXCEPT !.context = tee_context_add(p, 0).id], "back")
  /\ UNCHANGED <<tee_sessions, tee_memories, tee_tmp_memories>>

tee_ctx_finalize_pre(p) ==
  \E e \in find_by_id(tee_contexts, teemem[p].context) :
    \/ e \in {NULL, Wild} /\ Missed(p, e)
    \/ e \notin {NULL, Wild} /\ Kept(p, [teemem[p] EXCEPT !.context = e.tz_id])

\* The context goes with its sessions and memory.  The search for one more
\* session, or memory, to free may be one of an empty table.
tee_ctx_finalize_post(p) ==
  \E e \in find_by_tzid(tee_contexts, teemem[p].context) :
    LET sessions == {x \in tee_sessions : x.ctx # e.obj}
        memories == {x \in tee_memories : x.ctx # e.obj}
    IN
    \/ e \in {NULL, Wild} /\ Goes(p, teemem[p], "back") /\ UNCHANGED <<dvars, ids>>
    \/ /\ e \notin {NULL, Wild}
       /\ tee_contexts' = tee_contexts \ {e}
       /\ tee_sessions' = sessions
       /\ tee_memories' = memories
       /\ Goes(p, [teemem[p] EXCEPT !.context = 0], "back")
       /\ UNCHANGED <<tee_tmp_memories, ids>>
    \/ /\ e \notin {NULL, Wild} /\ Wild # NULL
       /\ tee_sessions' = sessions
       /\ \/ sessions = {} /\ UNCHANGED tee_memories
          \/ memories = {} /\ tee_memories' = memories
       /\ Goes(p, teemem[p], "oops")
       /\ UNCHANGED <<tee_contexts, tee_tmp_memories, ids>>

-----------------------------------------------------------------------------
(* Registered memory.  Its kernel copy is named by the structure. *)

tee_mem_reg_pre(p) ==
  \E e \in find_by_id(tee_contexts, teemem[p].context) :
    \/ e \in {NULL, Wild} /\ Missed(p, e)
    \/ /\ e \notin {NULL, Wild}
       /\ Draw
       /\ tee_memories' = tee_memories \cup
            {[obj |-> fresh, id |-> fresh, tz_id |-> 0, ctx |-> e.obj, user |-> teemem[p].user]}
       /\ Goes(p, [teemem[p] EXCEPT !.paddr = fresh, !.context = e.tz_id], "tz")
       /\ UNCHANGED <<tee_contexts, tee_sessions, tee_tmp_memories>>

tee_mem_reg_post(p) ==
  \E e \in find_by_tzid(tee_contexts, teemem[p].context),
     mem \in find(tee_memories, {x \in tee_memories : x.obj = teemem[p].paddr}) :
    \/ e \in {NULL, Wild} /\ Missed(p, e)
    \/ e \notin {NULL, Wild} /\ mem \in {NULL, Wild} /\ Missed(p, mem)
    \/ /\ e \notin {NULL, Wild} /\ mem \notin {NULL, Wild}
       /\ tee_memories' = WithTzid(tee_memories, mem.obj, teemem[p].memid)
       /\ Goes(p, [teemem[p] EXCEPT !.memid = mem.id], "back")
       /\ UNCHANGED <<tee_contexts, tee_sessions, tee_tmp_memories, ids>>

tee_mem_rel_pre(p) ==
  \E mem \in find_by_id(tee_memories, teemem[p].memid) :
    \/ mem \in {NULL, Wild} /\ Missed(p, mem)
    \/ /\ mem \notin {NULL, Wild}
       /\ IF mem.user # teemem[p].user THEN Missed(p, NULL)
          ELSE Kept(p, [teemem[p] EXCEPT !.memid = mem.tz_id])

tee_mem_rel_post(p) ==
  \E mem \in find_by_tzid(tee_memories, teemem[p].memid) :
    \/ mem \in {NULL, Wild} /\ Missed(p, mem)
    \/ /\ mem \notin {NULL, Wild}
       /\ tee_memories' = tee_memories \ {mem}
       /\ Goes(p, teemem[p], "back")
       /\ UNCHANGED <<tee_contexts, tee_sessions, tee_tmp_memories, ids>>

-----------------------------------------------------------------------------
(* Parameters: memory registered before (memid), or temporary memory that   *)
(* is copied for the call.                                                  *)

\* A bound: copies fail until so many temporaries were left behind.
MAX_LOST == 1

\* Stands for the memory of a parameter that names none.
NoMemory == [obj |-> 0, id |-> 0, tz_id |-> 0, ctx |-> 0, user |-> NULL]

\* Temporaries that were copied before one that cannot be stay in the table.
tee_translate_parameter_to_tz(p, r) ==
  \/ \E mem \in IF r.memid = 0 THEN {NoMemory} ELSE find_by_id(tee_memories, r.memid) :
       \/ mem \in {NULL, Wild} /\ Lost(p, mem) /\ UNCHANGED tee_tmp_memories
       \/ /\ mem \notin {NULL, Wild}
          /\ tee_tmp_memories' = [tee_tmp_memories EXCEPT ![p][r.op] = @ + r.tmp]
          /\ Goes(p, [r EXCEPT !.memid = mem.tz_id], "tz")
  \/ /\ Faults /\ (r.memid # 0 \/ r.tmp > 0) /\ tee_tmp_memories[p][r.op] < MAX_LOST
     /\ \E n \in 0..r.tmp : tee_tmp_memories' = [tee_tmp_memories EXCEPT ![p][r.op] = @ + n]
     /\ Fails(p)

\* A version that frees the temporary memory it copies back only.
tee_translate_parameter_from_tz_output(p, r) ==
  \E mem \in IF r.memid = 0 THEN {NoMemory} ELSE find_by_tzid(tee_memories, r.memid) :
    \/ mem \in {NULL, Wild} /\ Lost(p, mem) /\ UNCHANGED tee_tmp_memories
    \/ /\ mem \notin {NULL, Wild}
       /\ tee_tmp_memories' = [tee_tmp_memories EXCEPT ![p][r.op] = IF r.tmp = 2 THEN @ - 1 ELSE @ - r.tmp]
       /\ Goes(p, [r EXCEPT !.memid = mem.id], "back")

tee_translate_parameter_from_tz(p, r) ==
  \/ \E mem \in IF r.memid = 0 THEN {NoMemory} ELSE find_by_tzid(tee_memories, r.memid) :
       \/ mem \in {NULL, Wild} /\ Lost(p, mem) /\ UNCHANGED tee_tmp_memories
       \/ /\ mem \notin {NULL, Wild}
          /\ tee_tmp_memories' = [tee_tmp_memories EXCEPT ![p][r.op] = @ - r.tmp]
          /\ Goes(p, [r EXCEPT !.memid = mem.id], "back")
  \/ /\ Faults /\ tee_tmp_memories[p][r.op] - r.tmp < MAX_LOST
     /\ \E n \in 0..r.tmp :
          /\ r.memid # 0 \/ n < r.tmp
          /\ tee_tmp_memories' = [tee_tmp_memories EXCEPT ![p][r.op] = @ - n]
     /\ Fails(p)

-----------------------------------------------------------------------------
(* Sessions. *)

\* The new session's tz_id is not set before the secure world has answered.
\* The session stays in the table when its parameters cannot be translated.
tee_session_open_pre(p) ==
  \E e \in find_by_id(tee_contexts, teemem[p].context) :
    \/ e \in {NULL, Wild} /\ Missed(p, e)
    \/ /\ e \notin {NULL, Wild}
       /\ Draw
       /\ tee_sessions' = tee_sessions \cup {[obj |-> fresh, id |-> fresh, tz_id |-> 0, ctx |-> e.obj]}
       /\ tee_translate_parameter_to_tz(p, [teemem[p] EXCEPT !.tmpid = fresh, !.context = e.tz_id])
       /\ UNCHANGED <<tee_contexts, tee_memories>>

\* A version that takes the first session of the table for it.
tee_session_opened_first(p) == find(tee_sessions, tee_sessions)

tee_session_opened(p) == find_by_id(tee_sessions, teemem[p].tmpid)

\* Nothing translates the parameters back or returns their temporaries.
tee_session_open_post(p) ==
  \E e \in find_by_tzid(tee_contexts, teemem[p].context), ses \in tee_session_opened(p) :
    \/ e \in {NULL, Wild} /\ Missed(p, e)
    \/ e \notin {NULL, Wild} /\ ses \in {NULL, Wild} /\ Missed(p, ses)
    \/ /\ e \notin {NULL, Wild} /\ ses \notin {NULL, Wild}
       /\ tee_sessions' = WithTzid(tee_sessions, ses.obj, teemem[p].session)
       /\ Goes(p, [teemem[p] EXCEPT !.session = ses.id, !.context = e.id], "back")
       /\ UNCHANGED <<tee_contexts, tee_memories, tee_tmp_memories, ids>>

tee_session_close_pre(p) ==
  \E ses \in find_by_id(tee_sessions, teemem[p].session) :
    \/ ses \in {NULL, Wild} /\ Missed(p, ses)
    \/ ses \notin {NULL, Wild} /\ Kept(p, [teemem[p] EXCEPT !.session = ses.tz_id])

tee_session_close_post(p) ==
  \E ses \in find_by_tzid(tee_sessions, teemem[p].session) :
    \/ ses \in {NULL, Wild} /\ Missed(p, ses)
    \/ /\ ses \notin {NULL, Wild}
       /\ tee_sessions' = tee_sessions \ {ses}
       /\ Goes(p, [teemem[p] EXCEPT !.session = ses.id], "back")
       /\ UNCHANGED <<tee_contexts, tee_memories, tee_tmp_memories, ids>>

tee_invoke_pre(p) ==
  \E ses \in find_by_id(tee_sessions, teemem[p].session) :
    \/ ses \in {NULL, Wild} /\ Missed(p, ses)
    \/ /\ ses \notin {NULL, Wild}
       /\ tee_translate_parameter_to_tz(p, [teemem[p] EXCEPT !.session = ses.tz_id])
       /\ UNCHANGED <<tee_contexts, tee_sessions, tee_memories, ids>>

tee_invoke_post(p) ==
  \E ses \in find_by_tzid(tee_sessions, teemem[p].session) :
    \/ ses \in {NULL, Wild} /\ Missed(p, ses)
    \/ /\ ses \notin {NULL, Wild}
       /\ tee_translate_parameter_from_tz(p, [teemem[p] EXCEPT !.session = ses.id])
       /\ UNCHANGED <<tee_contexts, tee_sessions, tee_memories, ids>>

-----------------------------------------------------------------------------

\* tee_process up to the secure world, and after it.
tee_process_pre(p) ==
  /\ At(p, "pre")
  /\ CASE teemem[p].op = "init" -> tee_ctx_init_pre(p)
       [] teemem[p].op = "fin" -> tee_ctx_finalize_pre(p)
       [] teemem[p].op = "reg" -> tee_mem_reg_pre(p)
       [] teemem[p].op = "rel" -> tee_mem_rel_pre(p)
       [] teemem[p].op = "open" -> tee_session_open_pre(p)
       [] teemem[p].op = "close" -> tee_session_close_pre(p)
       [] teemem[p].op = "invoke" -> tee_invoke_pre(p)
  /\ UNCHANGED svars

tee_process_post(p) ==
  /\ At(p, "post")
  /\ CASE teemem[p].op = "init" -> tee_ctx_init_post(p)
       [] teemem[p].op = "fin" -> tee_ctx_finalize_post(p)
       [] teemem[p].op = "reg" -> tee_mem_reg_post(p)
       [] teemem[p].op = "rel" -> tee_mem_rel_post(p)
       [] teemem[p].op = "open" -> tee_session_open_post(p)
       [] teemem[p].op = "close" -> tee_session_close_post(p)
       [] teemem[p].op = "invoke" -> tee_invoke_post(p)
  /\ UNCHANGED svars

\* tz_driver_release, when a process ends: the contexts whose pid is that of
\* the process.  Nothing ever sets pid, so any of them may seem to fit.
tz_driver_release(p) ==
  /\ tee_contexts' \in SUBSET tee_contexts
  /\ UNCHANGED <<tee_sessions, tee_memories, tee_tmp_memories>>
=============================================================================
