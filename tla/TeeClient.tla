----------------------------- MODULE TeeClient -----------------------------
(***************************************************************************)
(* Client processes that call the driver through the client library, one   *)
(* call at a time in each process (lockComm), the driver's tables and those *)
(* of the secure world.                                                     *)
(***************************************************************************)
EXTENDS DriverTables

CONSTANTS
  Contexts,  \* TEEC_Context objects of a process
  Sessions,  \* TEEC_Session objects of a process
  Memories,  \* TEEC_SharedMemory objects of a process
  Exits      \* TRUE: a process may end without finalizing anything

VARIABLES
  context,   \* per process and object, the identifier in it, 0 if none
  session,   \* per process and object: identifier, and the context object
  memory     \* per process and object: identifier, and the context object

cvars == <<context, session, memory>>
vars == <<svars, teemem, ids, dvars, cvars>>

Closed == [id |-> 0, c |-> NULL]

\* The operations of a call.  s, m and c are the objects it is about; app,
\* whether there is a trustlet with the UUID; tmp, its temporary memory.
Call(op) ==
  [op |-> op, at |-> "pre", ret |-> OK, context |-> 0, session |-> 0, tmpid |-> 0, memid |-> 0,
   paddr |-> 0, user |-> NULL, app |-> TRUE, tmp |-> 0, c |-> NULL, s |-> NULL, m |-> NULL, by |-> NULL]

-----------------------------------------------------------------------------
(* What is in a page, and in the driver's tables. *)

Ops == {"init", "fin", "reg", "rel", "open", "close", "invoke"}
Stages == {"pre", "tz", "post", "back", "oops"}
Results == {OK, REFUSED}
Temporaries == {0, 2}
Contexts0 == Contexts \cup {NULL}
Sessions0 == Sessions \cup {NULL}
Memories0 == Memories \cup {NULL}
Users == (Processes \X Memories) \cup {NULL}
Owners == (Processes \X Sessions0) \cup {NULL}

Requests ==
  [op : Ops, at : Stages, ret : Results, context : Int, session : Int, tmpid : Int, memid : Int,
   paddr : Int, user : Users, app : BOOLEAN, tmp : Temporaries,
   c : Contexts0, s : Sessions0, m : Memories0, by : Owners]

CtxEntry == [obj : Int, id : Processes, tz_id : Int]
SesEntry == [obj : Int, id : Int, tz_id : Int, ctx : Int]
MemEntry == [obj : Int, id : Int, tz_id : Int, ctx : Int, user : Users]

\* No pointer is NULL, or wild, and that of a structure as well.
ASSUME ClientAssumption ==
  /\ NULL \notin Requests
  /\ \A x \in {NULL, Wild} : x \notin CtxEntry /\ x \notin SesEntry /\ x \notin MemEntry

-----------------------------------------------------------------------------

\* processComm, with the objects' fields in the page.
processComm(p, r) ==
  /\ teemem[p] = NULL
  /\ teemem' = [teemem EXCEPT ![p] = r]
  /\ UNCHANGED <<svars, ids, dvars>>

\* A bound on the identifiers: a call takes at most two.
Within == ids + 2 * Cardinality(Processes) <= MAX_IDS

TEEC_InitializeContext(p, c) ==
  /\ Within /\ context[p][c] = 0
  /\ processComm(p, [Call("init") EXCEPT !.c = c])
  /\ UNCHANGED cvars

\* A client closes its sessions first (tz_closeSession, tz_encrypter).
TEEC_FinalizeContext(p, c) ==
  /\ context[p][c] # 0
  /\ \A s \in Sessions : session[p][s].c # c
  /\ processComm(p, [Call("fin") EXCEPT !.c = c, !.context = context[p][c]])
  /\ context' = [context EXCEPT ![p][c] = 0]
  /\ memory' = [memory EXCEPT ![p] = [m \in Memories |-> IF @[m].c = c THEN Closed ELSE @[m]]]
  /\ UNCHANGED session

TEEC_RegisterSharedMemory(p, c, m) ==
  /\ Within /\ context[p][c] # 0 /\ memory[p][m] = Closed
  /\ processComm(p, [Call("reg") EXCEPT !.c = c, !.m = m, !.context = context[p][c], !.user = <<p, m>>])
  /\ UNCHANGED cvars

\* The call clears the object whatever the answer is.  The encrypter also
\* releases memory whose registration failed.
TEEC_ReleaseSharedMemory(p, m) ==
  /\ \E c \in Contexts : context[p][c] # 0
  /\ processComm(p, [Call("rel") EXCEPT !.memid = memory[p][m].id, !.user = <<p, m>>])
  /\ memory' = [memory EXCEPT ![p][m] = Closed]
  /\ UNCHANGED <<context, session>>

\* A bound on the temporary memory of open sessions that is in the table.
MAX_KEPT == 2

\* The call may have parameters of its own.  The identifier that a closed
\* TEEC_Session still has goes along; the driver overwrites it, or gives it as
\* tz_id to a session that was refused, whose own identifier nobody learns.
TEEC_OpenSession(p, c, s, app, m, tmp) ==
  /\ Within /\ context[p][c] # 0 /\ session[p][s] = Closed
  /\ m # NULL => memory[p][m] # Closed
  /\ tmp > 0 => \A q \in Processes : tee_tmp_memories[q]["open"] + tmp <= MAX_KEPT
  /\ processComm(p, [Call("open") EXCEPT !.c = c, !.s = s, !.app = app, !.context = context[p][c],
                                         !.m = m, !.tmp = tmp,
                                         !.memid = IF m = NULL THEN 0 ELSE memory[p][m].id])
  /\ UNCHANGED cvars

\* No client uses a session it has closed, although its identifier stays in
\* the object.
TEEC_CloseSession(p, s) ==
  /\ session[p][s] # Closed
  /\ processComm(p, [Call("close") EXCEPT !.session = session[p][s].id])
  /\ session' = [session EXCEPT ![p][s] = Closed]
  /\ UNCHANGED <<context, memory>>

\* preProcessParameters: a memref is named by the identifier of its parent.
TEEC_InvokeCommand(p, s, m, tmp) ==
  /\ session[p][s] # Closed
  /\ m # NULL => memory[p][m] # Closed
  /\ processComm(p, [Call("invoke") EXCEPT !.session = session[p][s].id, !.s = s, !.m = m, !.tmp = tmp,
                                           !.memid = IF m = NULL THEN 0 ELSE memory[p][m].id])
  /\ UNCHANGED cvars

\* The rest of the call: what the library keeps of the answer.
TEEC_return(p) ==
  LET r == teemem[p]
      kept == [id |-> 0, c |-> r.c]
      done == r.ret = OK
  IN  /\ At(p, "back")
      /\ teemem' = [teemem EXCEPT ![p] = NULL]
      /\ context' = IF r.op = "init" /\ done THEN [context EXCEPT ![p][r.c] = r.context] ELSE context
      /\ session' = IF r.op = "open" /\ done
                    THEN [session EXCEPT ![p][r.s] = [kept EXCEPT !.id = r.session]] ELSE session
      /\ memory' = IF r.op = "reg" /\ done
                   THEN [memory EXCEPT ![p][r.m] = [kept EXCEPT !.id = r.memid]] ELSE memory
      /\ UNCHANGED <<svars, ids, dvars>>

\* The process ends; another one may get its number.
exit(p) ==
  /\ Exits /\ teemem[p] = NULL
  /\ \E c \in Contexts : context[p][c] # 0
  /\ tz_driver_release(p)
  /\ context' = [context EXCEPT ![p] = [c \in Contexts |-> 0]]
  /\ session' = [session EXCEPT ![p] = [s \in Sessions |-> Closed]]
  /\ memory' = [memory EXCEPT ![p] = [m \in Memories |-> Closed]]
  /\ UNCHANGED <<svars, teemem, ids>>

-----------------------------------------------------------------------------

Init ==
  /\ tee_context_list = {} /\ tee_session_list = {} /\ tee_memory_list = {}
  /\ teemem = [p \in Processes |-> NULL]
  /\ ids = 0
  /\ tee_contexts = {} /\ tee_sessions = {} /\ tee_memories = {}
  /\ tee_tmp_memories = [p \in Processes |-> [op \in {"open", "invoke"} |-> 0]]
  /\ context = [p \in Processes |-> [c \in Contexts |-> 0]]
  /\ session = [p \in Processes |-> [s \in Sessions |-> Closed]]
  /\ memory = [p \in Processes |-> [m \in Memories |-> Closed]]

Calls(p) ==
  \/ \E c \in Contexts : TEEC_InitializeContext(p, c) \/ TEEC_FinalizeContext(p, c)
  \/ \E c \in Contexts, m \in Memories : TEEC_RegisterSharedMemory(p, c, m)
  \/ \E m \in Memories : TEEC_ReleaseSharedMemory(p, m)
  \/ \E c \in Contexts, s \in Sessions, app \in BOOLEAN :
       \/ \E m \in Memories0 : TEEC_OpenSession(p, c, s, app, m, 0)
       \/ TEEC_OpenSession(p, c, s, app, NULL, 2)
  \/ \E s \in Sessions : TEEC_CloseSession(p, s)
  \/ \E s \in Sessions, m \in Memories : TEEC_InvokeCommand(p, s, m, 0)
  \/ \E s \in Sessions : TEEC_InvokeCommand(p, s, NULL, 2)

Next ==
  \E p \in Processes :
    \/ Calls(p)
    \/ tee_process_pre(p) /\ UNCHANGED cvars
    \/ tee_task(p) /\ UNCHANGED <<dvars, cvars>>
    \/ tee_process_post(p) /\ UNCHANGED cvars
    \/ TEEC_return(p)
    \/ exit(p)

Spec == Init /\ [][Next]_vars

-----------------------------------------------------------------------------

\* A command that is executed is executed in the session that was opened for
\* the object it names, on the memory that was registered for its parameter,
\* whatever failed, was closed or ended before: tz_ids never cross.
ServedByOwn ==
  \A p \in Processes :
    At(p, "post") /\ teemem[p].op = "invoke" /\ teemem[p].ret = OK =>
      /\ teemem[p].by = <<p, teemem[p].s>>
      /\ teemem[p].m # NULL => \E e \in tee_memories :
                                 e.obj = teemem[p].paddr /\ e.user = <<p, teemem[p].m>>

\* A command in a session that the client has opened and not closed is
\* executed: no call of another process ends it ("save the TZ session with the
\* RSA object", eng_main.c:243).
OpenSessionWorks ==
  \A p \in Processes : At(p, "back") /\ teemem[p].op = "invoke" => teemem[p].ret = OK

\* With a context it was given a client can open a session whose trustlet is
\* there, unless the trustlet itself refuses: the context's tz_id is one of
\* the secure world ("save tz context id", tee_operations.c:73).
ContextKnown ==
  \A p \in Processes, c \in Contexts :
    context[p][c] # 0 /\ teemem[p] = NULL =>
      \E e \in find_by_id(tee_contexts, context[p][c]) : e # NULL /\ e.tz_id \in tee_context_list

\* A process that has finalized its contexts leaves none in the driver's tables,
\* and no registered memory.
NothingLeftBehind ==
  \A p \in Processes :
    teemem[p] = NULL /\ (\A c \in Contexts : context[p][c] = 0) =>
      /\ \A e \in tee_contexts : e.id # p
      /\ \A e \in tee_memories : e.user[1] # p

\* No session is left without its context, and none of a failed call either,
\* once every context is gone.
SessionsFollowContexts ==
  \A e \in tee_sessions : \E x \in tee_contexts : x.obj = e.ctx

\* Between its calls a process has no temporary memory of a command in the
\* driver.
TemporariesReturned ==
  \A p \in Processes : teemem[p] = NULL => tee_tmp_memories[p]["invoke"] = 0

\* Of a process with one context: the context can be used, and a session in it,
\* for as long as the client does not end it, whatever other processes do.  The
\* second context of a process has the identifier of its first (tee_context.c:74).
SessionsWork == ContextKnown /\ OpenSessionWorks

\* Of processes that finalize their contexts before they end, and whose copies
\* succeed: what a command or a context needed is gone when it is over
\* (tee_operations.c:110, 400).  Left out is the temporary memory of the
\* operation of an open session, which nothing returns (tee_operations.c:455).
NothingKept == NothingLeftBehind /\ SessionsFollowContexts /\ TemporariesReturned

\* "no such memory!" and its like (tee_operations.c:231): a search for
\* something that is not there returns NULL.
NoWildPointer == \A p \in Processes : ~At(p, "oops")
=============================================================================
