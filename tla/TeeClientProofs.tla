-------------------------- MODULE TeeClientProofs --------------------------
(***************************************************************************)
(* What the handles of the two worlds mean, for every number of processes, *)
(* contexts, sessions and memories.                                        *)
(***************************************************************************)
EXTENDS TeeClient, TLAPS

\* The types of the tables, the pages and the clients' objects.
TypeInv ==
  /\ ids \in Nat
  /\ tee_context_list \subseteq Int
  /\ tee_session_list \subseteq [id : Int, ctx : Int, app : BOOLEAN, owner : Owners]
  /\ tee_memory_list \subseteq [id : Int, ctx : Int, paddr : Int]
  /\ teemem \in [Processes -> Requests \cup {NULL}]
  /\ tee_contexts \subseteq CtxEntry /\ tee_sessions \subseteq SesEntry /\ tee_memories \subseteq MemEntry
  /\ tee_tmp_memories \in [Processes -> [{"open", "invoke"} -> Int]]
  /\ context \in [Processes -> [Contexts -> Int]]
  /\ session \in [Processes -> [Sessions -> [id : Int, c : Contexts \cup {NULL}]]]
  /\ memory \in [Processes -> [Memories -> [id : Int, c : Contexts \cup {NULL}]]]

\* p has a request for one of the operations op, at one of the stages at.
Is(p, op, at) == teemem[p] # NULL /\ teemem[p].op \in op /\ teemem[p].at \in at
Inside(p) == teemem[p] # NULL /\ teemem[p].at \in {"tz", "post"}

\* The context that the secure world has just made for p is known to nobody else.
NewContext(p) ==
  /\ teemem[p].context > 0
  /\ \A e \in tee_contexts : e.tz_id # teemem[p].context
  /\ \A q \in Processes : q # p /\ Inside(q) => teemem[q].context # teemem[p].context

\* What the context field of the request of p means at each stage.  MAGIC stands
\* for a context that the secure world has refused to make.
CtxReq(p) ==
  /\ Is(p, {"fin", "reg", "open"}, {"pre"}) => teemem[p].context = p
  /\ Inside(p) => teemem[p].context <= ids
  /\ Is(p, {"rel", "close", "invoke"}, Stages) => teemem[p].context = 0
  /\ Is(p, {"init"}, {"tz"}) => teemem[p].context = MAGIC
  /\ Is(p, {"init"}, {"post"}) => teemem[p].context = MAGIC \/ NewContext(p)
  /\ Is(p, {"init"}, {"back"}) => teemem[p].context = p
  /\ Is(p, {"fin"}, {"tz", "post"}) =>
       teemem[p].context = MAGIC \/ \A e \in tee_contexts : e.tz_id = teemem[p].context => e.id = p

\* Contexts: structures and tz_ids are the driver's and the secure world's own, two
\* contexts with one tz_id are of one process, and a client holds its own number.
CtxInv ==
  /\ \A e \in tee_contexts : e.obj \in 1..ids /\ e.tz_id \in {MAGIC} \cup 1..ids
  /\ tee_context_list \subseteq 1..ids
  /\ \A d, e \in tee_contexts : d.tz_id = e.tz_id /\ d.tz_id # MAGIC => d.id = e.id
  /\ \A d, e \in tee_contexts : d.obj = e.obj => d = e
  /\ \A p \in Processes : CtxReq(p) /\ \A c \in Contexts : context[p][c] \in {0, p}

\* The session id of the driver, and the session tz of the secure world, were
\* opened for owner, if they are there at all.
Means(id, owner) ==
  \A e \in tee_sessions, f \in tee_session_list : e.id = id /\ f.id = e.tz_id => f.owner = owner
Owned(tz, owner) == \A f \in tee_session_list : f.id = tz => f.owner = owner

\* The session that is being opened for p is known to nobody else.
NewSession(p) ==
  /\ teemem[p].tmpid \in 1..ids
  /\ \A q \in Processes, s \in Sessions : session[q][s].id # teemem[p].tmpid
  /\ \A q \in Processes : q # p /\ teemem[q] # NULL => teemem[q].tmpid # teemem[p].tmpid

\* What the session field of the request of p means at each stage.
SesReq(p) ==
  LET r == teemem[p]
      own == <<p, r.s>>
  IN  r # NULL =>
        /\ r.session \in 0..ids
        /\ r.tmpid # 0 => r.op = "open" /\ NewSession(p)
        /\ r.op \in {"open", "invoke"} => r.s \in Sessions
        /\ Is(p, {"open"}, {"pre"}) => r.tmpid = 0 /\ r.session = 0
        /\ Is(p, {"open"}, {"tz"}) => r.session = 0
        /\ Is(p, {"open"}, {"tz", "post"}) =>
             /\ r.tmpid # 0 /\ Owned(r.session, own)
             /\ \A e \in tee_sessions : e.id = r.tmpid => e.tz_id = 0
        /\ Is(p, {"open"}, {"back"}) /\ r.ret = OK => r.session = r.tmpid /\ r.tmpid # 0 /\ Means(r.session, own)
        /\ Is(p, {"invoke"}, {"pre"}) => r.session = session[p][r.s].id
        /\ Is(p, {"invoke"}, {"tz"}) => Owned(r.session, own)
        /\ Is(p, {"invoke"}, {"post"}) /\ r.ret = OK => r.by = own

\* Sessions: what an object of a client names was opened for that object.
SesInv ==
  /\ \A e \in tee_sessions : e.id \in 1..ids /\ e.obj = e.id /\ e.tz_id \in 0..ids
  /\ \A f \in tee_session_list : f.id \in 1..ids
  /\ \A p \in Processes : SesReq(p)
  /\ \A p \in Processes, s \in Sessions :
       session[p][s].id \in 0..ids /\ Means(session[p][s].id, <<p, s>>)

\* Memory id of the driver is registered for user; memory tz of the secure world is.
Mine(id, user) == \A e \in tee_memories : e.id = id => e.user = user /\ e.tz_id # 0
Holds(tz, user) == tz # 0 /\ \E e \in tee_memories : e.tz_id = tz /\ e.user = user

\* The memory that the secure world has just registered for p has a tz_id that is
\* in no entry yet, and means the address p gave.
NewMemory(p) ==
  LET r == teemem[p] IN
  /\ r.memid > 0 /\ r.context # MAGIC
  /\ \A e \in tee_memories : e.tz_id # r.memid
  /\ \A g \in tee_memory_list : g.id = r.memid => g.paddr = r.paddr
  /\ \A q \in Processes : q # p /\ Is(q, {"reg"}, {"post"}) => teemem[q].memid # r.memid

\* What the memory fields of the request of p mean at each stage.
MemReq(p) ==
  LET r == teemem[p]
      own == <<p, r.m>>
  IN  r # NULL =>
        /\ r.memid \in 0..ids /\ r.paddr \in 0..ids
        /\ r.op = "reg" => r.m \in Memories /\ r.user = own
        /\ Is(p, {"reg"}, {"pre", "tz"}) => r.memid = 0
        /\ Is(p, {"reg"}, {"tz", "post"}) =>
             \A e \in tee_memories : e.obj = r.paddr =>
               e.user = own /\ e.tz_id = 0 /\ \A x \in tee_contexts : x.obj = e.ctx => x.tz_id = r.context
        /\ Is(p, {"reg"}, {"post"}) => NewMemory(p) \/ (r.memid = 0 /\ r.ret # OK)
        /\ Is(p, {"reg"}, {"back"}) /\ r.ret = OK => r.memid > 0 /\ Mine(r.memid, own)
        /\ r.op = "rel" => r.user \in {p} \X Memories
        /\ Is(p, {"rel"}, {"pre"}) => Mine(r.memid, r.user)
        /\ Is(p, {"rel"}, {"tz", "post"}) => Holds(r.memid, r.user)
        /\ r.op = "invoke" => (r.m = NULL => r.memid = 0) /\ (r.m # NULL => r.m \in Memories)
        /\ Is(p, {"invoke"}, {"pre"}) /\ r.m # NULL => r.memid # 0 /\ Mine(r.memid, own)
        /\ Is(p, {"invoke"}, {"tz"}) /\ r.m # NULL => Holds(r.memid, own)
        /\ Is(p, {"invoke"}, {"post"}) /\ r.ret = OK /\ r.m # NULL =>
             r.memid # 0 /\ \E e \in tee_memories : e.tz_id = r.memid /\ e.obj = r.paddr /\ e.user = own

\* The table of memory: a tz_id is in one entry only, the secure world has the
\* entry's address for it, and the entry's context is that of its user.
MemTable ==
  /\ \A e \in tee_memories :
       /\ e.id \in 1..ids /\ e.obj = e.id /\ e.tz_id \in 0..ids /\ e.ctx \in 1..ids
       /\ e.user \in Processes \X Memories
       /\ \A g \in tee_memory_list : g.id = e.tz_id => g.paddr = e.obj
       /\ \A x \in tee_contexts : x.obj = e.ctx =>
            x.id = e.user[1] /\ (e.tz_id # 0 => x.tz_id # MAGIC)
  /\ \A d, e \in tee_memories :
       d.obj = e.obj \/ (d.tz_id = e.tz_id /\ e.tz_id # 0) => d = e
  /\ \A g \in tee_memory_list : g.id \in 1..ids

\* What an object of p names was registered for that object.
MemObject(p) ==
  \A m \in Memories :
    /\ memory[p][m].id \in 0..ids /\ (memory[p][m] # Closed => memory[p][m].id # 0)
    /\ Mine(memory[p][m].id, <<p, m>>)

MemInv == MemTable /\ \A p \in Processes : MemReq(p) /\ MemObject(p)

-----------------------------------------------------------------------------
(* Types. *)

\* A search of a table returns an entry that fits, unless it finds none.
LEMMA Found ==
  ASSUME NEW table, NEW fits, NEW e \in find(table, fits), e \notin {NULL, Wild}
  PROVE  e \in fits
BY DEF find

\* A call starts with the fields it sets, and the others empty.
LEMMA CallFields ==
  ASSUME NEW op \in Ops
  PROVE  /\ Call(op) \in Requests
         /\ Call(op).op = op /\ Call(op).at = "pre" /\ Call(op).context = 0 /\ Call(op).session = 0
         /\ Call(op).tmpid = 0 /\ Call(op).memid = 0 /\ Call(op).paddr = 0 /\ Call(op).tmp = 0
<1>1. "pre" \in Stages /\ OK \in Results /\ NULL \in Users /\ 0 \in Temporaries /\ NULL \in Contexts0
      /\ NULL \in Sessions0 /\ NULL \in Memories0 /\ NULL \in Owners
  BY DEF Stages, OK, REFUSED, Results, Users, Temporaries, Contexts0, Sessions0, Memories0, Owners
<1> QED
  BY <1>1 DEF Requests, Call

\* Members of the small sets a request is made of.
LEMMA Constants ==
  /\ Stages = {"pre", "tz", "post", "back", "oops"} /\ OK \in Results /\ REFUSED \in Results
  /\ 0 \in Temporaries /\ 2 \in Temporaries
  /\ "init" \in Ops /\ "fin" \in Ops /\ "reg" \in Ops /\ "rel" \in Ops /\ "open" \in Ops /\ "close" \in Ops
  /\ "invoke" \in Ops
  /\ Contexts \subseteq Contexts0 /\ Sessions \subseteq Sessions0 /\ Memories \subseteq Memories0
  /\ NULL \in Contexts0 /\ NULL \in Sessions0 /\ NULL \in Memories0
  /\ Processes \X Memories \subseteq Users /\ Processes \X Sessions \subseteq Owners
  /\ MAGIC \in Int /\ Processes \subseteq Int
BY TablesAssumption DEF Stages, Results, OK, REFUSED, Temporaries, Ops, Contexts0, Sessions0, Memories0, Users,
   Owners, MAGIC

\* A step that leaves a request of the right type in the page, and the tables
\* as they are.
LEMMA PageTypes ==
  ASSUME TypeInv, NEW p \in Processes, NEW r \in Requests, teemem' = [teemem EXCEPT ![p] = r]
  PROVE  teemem' \in [Processes -> Requests \cup {NULL}]
BY DEF TypeInv

\* A request that a hook passes on is one again.
LEMMA GoesTypes ==
  ASSUME TypeInv, NEW p \in Processes, NEW r \in Requests, NEW at \in Stages, Goes(p, r, at)
  PROVE  teemem' \in [Processes -> Requests \cup {NULL}]
<1>1. [r EXCEPT !.at = at] \in Requests
  BY DEF Requests
<1> QED
  BY <1>1, PageTypes DEF Goes

\* So is one that the TEE task answers.
LEMMA AnswerTypes ==
  ASSUME TypeInv, NEW p \in Processes, NEW r \in Requests, NEW ret \in Results, Answer(p, r, ret)
  PROVE  teemem' \in [Processes -> Requests \cup {NULL}]
<1>1. [r EXCEPT !.at = "post", !.ret = ret] \in Requests
  BY Constants DEF Requests
<1> QED
  BY <1>1, PageTypes DEF Answer

\* A hook that fails, or follows a wild pointer, leaves a request in the page.
LEMMA LostTypes ==
  ASSUME TypeInv, NEW p \in Processes, NEW e, teemem[p] # NULL, Lost(p, e) \/ Fails(p)
  PROVE  teemem' \in [Processes -> Requests \cup {NULL}]
<1>1. teemem[p] \in Requests
  BY DEF TypeInv
<1>2. [teemem[p] EXCEPT !.ret = REFUSED] \in Requests
  BY <1>1, Constants DEF Requests
<1> QED
  BY <1>1, <1>2, Constants, GoesTypes DEF Lost, Fails

\* A hook that finds no entry, or follows a wild pointer, keeps the types.
LEMMA MissedTypes ==
  ASSUME TypeInv, NEW p \in Processes, NEW e, teemem[p] # NULL, Missed(p, e), UNCHANGED <<svars, cvars>>
  PROVE  TypeInv'
<1>1. teemem' \in [Processes -> Requests \cup {NULL}]
  BY LostTypes DEF Missed
<1> QED
  BY <1>1 DEF TypeInv, Missed, svars, cvars, dvars

\* The calls of the client library put requests into the page.
LEMMA CallTypes ==
  ASSUME TypeInv, NEW p \in Processes, Calls(p)
  PROVE  TypeInv'
<1>0. \A c \in Contexts : context[p][c] \in Int
  BY DEF TypeInv
<1>1. \A s \in Sessions : session[p][s].id \in Int
  BY DEF TypeInv
<1>2. \A m \in Memories : memory[p][m].id \in Int
  BY DEF TypeInv
<1>11. \A m \in Memories : <<p, m>> \in Users
  BY Constants
<1>3. ASSUME NEW r \in Requests, processComm(p, r), UNCHANGED cvars PROVE TypeInv'
  <2>1. teemem' \in [Processes -> Requests \cup {NULL}]
    BY <1>3, PageTypes DEF processComm
  <2> QED
    BY <2>1, <1>3 DEF TypeInv, processComm, svars, dvars, cvars
<1>4. ASSUME NEW c \in Contexts, TEEC_InitializeContext(p, c) PROVE TypeInv'
  <2>1. [Call("init") EXCEPT !.c = c] \in Requests
    BY CallFields, Constants DEF Requests
  <2> QED
    BY <2>1, <1>3, <1>4 DEF TEEC_InitializeContext
<1>5. ASSUME NEW c \in Contexts, TEEC_FinalizeContext(p, c) PROVE TypeInv'
  <2>0. \A r \in Requests, x \in Int : [r EXCEPT !.c = c, !.context = x] \in Requests
    BY Constants DEF Requests
  <2>1. [Call("fin") EXCEPT !.c = c, !.context = context[p][c]] \in Requests
    BY <2>0, CallFields, Constants, <1>0
  <2>2. teemem' \in [Processes -> Requests \cup {NULL}]
    BY <2>1, <1>5, PageTypes DEF TEEC_FinalizeContext, processComm
  <2> QED
    BY <2>2, <1>5 DEF TypeInv, TEEC_FinalizeContext, processComm, svars, dvars, cvars, Closed
<1>6. ASSUME NEW c \in Contexts, NEW m \in Memories, TEEC_RegisterSharedMemory(p, c, m) PROVE TypeInv'
  <2>0. \A r \in Requests, x \in Int, u \in Users : [r EXCEPT !.c = c, !.m = m, !.context = x, !.user = u] \in Requests
    BY Constants, ZenonT(40) DEF Requests
  <2>1. [Call("reg") EXCEPT !.c = c, !.m = m, !.context = context[p][c], !.user = <<p, m>>] \in Requests
    BY <2>0, CallFields, Constants, <1>0, <1>11
  <2> QED
    BY <2>1, <1>3, <1>6 DEF TEEC_RegisterSharedMemory
<1>7. ASSUME NEW m \in Memories, TEEC_ReleaseSharedMemory(p, m) PROVE TypeInv'
  <2>0. \A r \in Requests, x \in Int, u \in Users : [r EXCEPT !.memid = x, !.user = u] \in Requests
    BY Constants DEF Requests
  <2>1. [Call("rel") EXCEPT !.memid = memory[p][m].id, !.user = <<p, m>>] \in Requests
    BY <2>0, CallFields, Constants, <1>2, <1>11
  <2>2. teemem' \in [Processes -> Requests \cup {NULL}]
    BY <2>1, <1>7, PageTypes DEF TEEC_ReleaseSharedMemory, processComm
  <2> QED
    BY <2>2, <1>7 DEF TypeInv, TEEC_ReleaseSharedMemory, processComm, svars, dvars, cvars, Closed
<1>8. ASSUME NEW c \in Contexts, NEW s \in Sessions, NEW app \in BOOLEAN, NEW m \in Memories \cup {NULL},
             NEW tmp \in Temporaries, TEEC_OpenSession(p, c, s, app, m, tmp)
      PROVE  TypeInv'
  <2> DEFINE id == IF m = NULL THEN 0 ELSE memory[p][m].id
  <2>0. id \in Int
    BY <1>2
  <2>3. \A r \in Requests, x, y \in Int :
          [r EXCEPT !.c = c, !.s = s, !.app = app, !.context = x, !.m = m, !.tmp = tmp, !.memid = y] \in Requests
    BY Constants, ZenonT(40) DEF Requests, Memories0
  <2> HIDE DEF id
  <2>1. [Call("open") EXCEPT !.c = c, !.s = s, !.app = app, !.context = context[p][c], !.m = m, !.tmp = tmp,
                             !.memid = id] \in Requests
    BY CallFields, Constants, <1>0, <2>0, <2>3
  <2> USE DEF id
  <2> QED
    BY <2>1, <1>3, <1>8 DEF TEEC_OpenSession
<1>9. ASSUME NEW s \in Sessions, TEEC_CloseSession(p, s) PROVE TypeInv'
  <2>1. [Call("close") EXCEPT !.session = session[p][s].id] \in Requests
    BY CallFields, Constants, <1>1 DEF Requests
  <2>2. teemem' \in [Processes -> Requests \cup {NULL}]
    BY <2>1, <1>9, PageTypes DEF TEEC_CloseSession, processComm
  <2> QED
    BY <2>2, <1>9 DEF TypeInv, TEEC_CloseSession, processComm, svars, dvars, cvars, Closed
<1>10. ASSUME NEW s \in Sessions, NEW m \in Memories \cup {NULL}, NEW tmp \in Temporaries,
              TEEC_InvokeCommand(p, s, m, tmp)
       PROVE  TypeInv'
  <2> DEFINE id == IF m = NULL THEN 0 ELSE memory[p][m].id
  <2>0. id \in Int
    BY <1>2
  <2>3. \A r \in Requests, x, y \in Int :
          [r EXCEPT !.session = x, !.s = s, !.m = m, !.tmp = tmp, !.memid = y] \in Requests
    BY Constants, ZenonT(40) DEF Requests, Memories0
  <2> HIDE DEF id
  <2>1. [Call("invoke") EXCEPT !.session = session[p][s].id, !.s = s, !.m = m, !.tmp = tmp, !.memid = id] \in Requests
    BY CallFields, Constants, <1>1, <2>0, <2>3
  <2> USE DEF id
  <2> QED
    BY <2>1, <1>3, <1>10 DEF TEEC_InvokeCommand
<1> QED
  BY <1>4, <1>5, <1>6, <1>7, <1>8, <1>9, <1>10, Constants DEF Calls, Memories0

\* The fields that the hooks and the TEE task set, with numbers.
LEMMA Setters ==
  ASSUME NEW r \in Requests, NEW x \in Int
  PROVE  /\ [r EXCEPT !.context = x] \in Requests /\ [r EXCEPT !.session = x] \in Requests
         /\ [r EXCEPT !.memid = x] \in Requests
         /\ \A o \in Owners : [r EXCEPT !.by = o, !.paddr = x] \in Requests
BY DEF Requests

\* The two fields that tee_invoke sets.
LEMMA Setters2 ==
  ASSUME NEW r \in Requests, NEW x \in Int, NEW y \in Int
  PROVE  /\ [r EXCEPT !.paddr = x, !.context = y] \in Requests
         /\ [r EXCEPT !.tmpid = x, !.context = y] \in Requests
         /\ [r EXCEPT !.session = x, !.context = y] \in Requests
BY DEF Requests

\* What stands for the memory of a parameter without any is an entry.
LEMMA NoMemoryType ==
  NoMemory \in MemEntry /\ NoMemory.id = 0 /\ NoMemory.tz_id = 0
BY Constants DEF NoMemory, MemEntry, Users

\* The memory that a parameter names, in either direction: an entry, or none.
LEMMA ParameterMemory ==
  ASSUME TypeInv, NEW r \in Requests,
         NEW mem \in IF r.memid = 0 THEN {NoMemory}
                     ELSE find_by_id(tee_memories, r.memid) \cup find_by_tzid(tee_memories, r.memid),
         mem \notin {NULL, Wild}
  PROVE  mem.tz_id \in Int /\ mem.id \in Int
<1>1. CASE r.memid = 0
  BY <1>1, NoMemoryType
<1>2. CASE r.memid # 0
  <2>1. mem \in tee_memories
    BY <1>2, Found DEF find_by_id, find_by_tzid
  <2> QED
    BY <2>1 DEF TypeInv, MemEntry
<1> QED
  BY <1>1, <1>2

\* tee_translate_parameter_to_tz and _from_tz keep the types.
LEMMA ParameterTypes ==
  ASSUME TypeInv, NEW p \in Processes, NEW r \in Requests, teemem[p] # NULL, r.op \in {"open", "invoke"},
         tee_translate_parameter_to_tz(p, r) \/ tee_translate_parameter_from_tz(p, r)
  PROVE  /\ teemem' \in [Processes -> Requests \cup {NULL}]
         /\ tee_tmp_memories' \in [Processes -> [{"open", "invoke"} -> Int]]
<1>0. r.tmp \in Int /\ r.memid \in Int /\ tee_tmp_memories \in [Processes -> [{"open", "invoke"} -> Int]]
  BY DEF TypeInv, Requests, Temporaries
<1>1. ASSUME NEW n \in Int, \/ tee_tmp_memories' = [tee_tmp_memories EXCEPT ![p][r.op] = @ + n]
                            \/ tee_tmp_memories' = [tee_tmp_memories EXCEPT ![p][r.op] = @ - n]
      PROVE  tee_tmp_memories' \in [Processes -> [{"open", "invoke"} -> Int]]
  BY <1>0, <1>1
<1>2. \A n \in 0..r.tmp : n \in Int
  BY <1>0
<1>3. ASSUME NEW mem, Lost(p, mem) \/ Fails(p) PROVE teemem' \in [Processes -> Requests \cup {NULL}]
  BY <1>3, LostTypes
<1>6. ASSUME NEW x \in Int, NEW at \in {"tz", "back"}, Goes(p, [r EXCEPT !.memid = x], at)
      PROVE  teemem' \in [Processes -> Requests \cup {NULL}]
  <2>1. [r EXCEPT !.memid = x] \in Requests /\ at \in Stages
    BY <1>6, Setters, Constants
  <2> QED
    BY <2>1, <1>6, GoesTypes
<1>4. CASE tee_translate_parameter_to_tz(p, r)
  <2>1. ASSUME NEW mem \in IF r.memid = 0 THEN {NoMemory} ELSE find_by_id(tee_memories, r.memid),
               mem \notin {NULL, Wild}
        PROVE  mem.tz_id \in Int
    BY <2>1, ParameterMemory
  <2> QED
    BY <1>0, <1>1, <1>2, <1>3, <1>4, <1>6, <2>1 DEF tee_translate_parameter_to_tz
<1>5. CASE tee_translate_parameter_from_tz(p, r)
  <2>1. ASSUME NEW mem \in IF r.memid = 0 THEN {NoMemory} ELSE find_by_tzid(tee_memories, r.memid),
               mem \notin {NULL, Wild}
        PROVE  mem.id \in Int
    BY <2>1, ParameterMemory
  <2> QED
    BY <1>0, <1>1, <1>2, <1>3, <1>5, <1>6, <2>1 DEF tee_translate_parameter_from_tz
<1> QED
  BY <1>4, <1>5

\* A search of the table of contexts returns one of its entries, with numbers in
\* its fields; so do those of the sessions and of the memory.
LEMMA FoundContext ==
  ASSUME TypeInv, NEW x,
         NEW e \in find_by_id(tee_contexts, x) \cup find_by_tzid(tee_contexts, x), e \notin {NULL, Wild}
  PROVE  e \in tee_contexts /\ e.tz_id \in Int /\ e.id \in Int /\ e.id \in Processes /\ e.obj \in Int
<1>1. e \in tee_contexts
  BY Found DEF find_by_id, find_by_tzid
<1> QED
  BY <1>1, Constants DEF TypeInv, CtxEntry

\* As FoundContext, for sessions.
LEMMA FoundSession ==
  ASSUME TypeInv, NEW x,
         NEW e \in find_by_id(tee_sessions, x) \cup find_by_tzid(tee_sessions, x), e \notin {NULL, Wild}
  PROVE  e \in tee_sessions /\ e.tz_id \in Int /\ e.id \in Int /\ e.obj \in Int
<1>1. e \in tee_sessions
  BY Found DEF find_by_id, find_by_tzid
<1> QED
  BY <1>1 DEF TypeInv, SesEntry

\* As FoundContext, for memory.
LEMMA FoundMemory ==
  ASSUME TypeInv, NEW x,
         NEW e \in find_by_id(tee_memories, x) \cup find_by_tzid(tee_memories, x)
                     \cup find(tee_memories, {y \in tee_memories : y.obj = x}),
         e \notin {NULL, Wild}
  PROVE  e \in tee_memories /\ e.tz_id \in Int /\ e.id \in Int /\ e.obj \in Int
<1>1. e \in tee_memories
  BY Found DEF find_by_id, find_by_tzid
<1> QED
  BY <1>1 DEF TypeInv, MemEntry

\* Writing a tz_id into a table leaves the other fields.
LEMMA WithTzidTypes ==
  ASSUME TypeInv, NEW obj \in Int, NEW tzid \in Int
  PROVE  WithTzid(tee_memories, obj, tzid) \subseteq MemEntry /\ WithTzid(tee_sessions, obj, tzid) \subseteq SesEntry
<1>1. \A e \in MemEntry : [e EXCEPT !.tz_id = tzid] \in MemEntry
  BY DEF MemEntry
<1>2. \A e \in SesEntry : [e EXCEPT !.tz_id = tzid] \in SesEntry
  BY DEF SesEntry
<1> QED
  BY <1>1, <1>2 DEF WithTzid, TypeInv

\* The hooks before the secure world keep the types.
LEMMA PreTypes ==
  ASSUME TypeInv, NEW p \in Processes, tee_process_pre(p), UNCHANGED cvars
  PROVE  TypeInv'
<1>0. teemem[p] # NULL /\ teemem[p] \in Requests
  BY DEF TypeInv, tee_process_pre, At
<1>1. UNCHANGED <<svars, cvars>>
  BY DEF tee_process_pre
<1>2. teemem[p].op \in Ops /\ ids \in Int /\ fresh \in Nat /\ fresh \in Int /\ teemem[p].user \in Users
  BY <1>0 DEF TypeInv, Requests, fresh
<1>3. ASSUME NEW e, Missed(p, e) PROVE TypeInv'
  BY <1>0, <1>1, <1>3, MissedTypes
<1>4. ASSUME NEW r \in Requests, Kept(p, r) PROVE TypeInv'
  <2>1. teemem' \in [Processes -> Requests \cup {NULL}]
    BY <1>4, GoesTypes, Constants DEF Kept
  <2> QED
    BY <2>1, <1>1, <1>4 DEF TypeInv, Kept, svars, cvars, dvars
<1>5. CASE tee_ctx_init_pre(p)
  BY <1>0, <1>4, <1>5, Setters, Constants DEF tee_ctx_init_pre
<1>6. CASE tee_ctx_finalize_pre(p)
  BY <1>0, <1>3, <1>4, <1>6, Setters, FoundContext DEF tee_ctx_finalize_pre
<1>7. CASE tee_mem_reg_pre(p)
  <2>1. ASSUME NEW e \in find_by_id(tee_contexts, teemem[p].context), e \notin {NULL, Wild},
               Draw,
               tee_memories' = tee_memories \cup
                 {[obj |-> fresh, id |-> fresh, tz_id |-> 0, ctx |-> e.obj, user |-> teemem[p].user]},
               Goes(p, [teemem[p] EXCEPT !.paddr = fresh, !.context = e.tz_id], "tz"),
               UNCHANGED <<tee_contexts, tee_sessions, tee_tmp_memories>>
        PROVE  TypeInv'
    <3>1. e.obj \in Int /\ e.tz_id \in Int
      BY <2>1, FoundContext, SMTT(30)
    <3>2. [teemem[p] EXCEPT !.paddr = fresh, !.context = e.tz_id] \in Requests
      BY <1>0, <1>2, <3>1, Setters2
    <3>3. teemem' \in [Processes -> Requests \cup {NULL}]
      BY <2>1, <3>2, GoesTypes, Constants
    <3>4. [obj |-> fresh, id |-> fresh, tz_id |-> 0, ctx |-> e.obj, user |-> teemem[p].user] \in MemEntry
      BY <1>2, <1>7, <3>1 DEF MemEntry
    <3> QED
      BY <1>1, <1>2, <2>1, <3>3, <3>4 DEF TypeInv, svars, cvars, Draw
  <2> QED
    BY <1>3, <1>7, <2>1 DEF tee_mem_reg_pre
<1>8. CASE tee_mem_rel_pre(p)
  BY <1>0, <1>3, <1>4, <1>8, Setters, FoundMemory DEF tee_mem_rel_pre
<1>9. CASE teemem[p].op = "open" /\ tee_session_open_pre(p)
  <2>1. ASSUME NEW e \in find_by_id(tee_contexts, teemem[p].context), e \notin {NULL, Wild},
               Draw,
               tee_sessions' = tee_sessions \cup {[obj |-> fresh, id |-> fresh, tz_id |-> 0, ctx |-> e.obj]},
               tee_translate_parameter_to_tz(p, [teemem[p] EXCEPT !.tmpid = fresh, !.context = e.tz_id]),
               UNCHANGED <<tee_contexts, tee_memories>>
        PROVE  TypeInv'
    <3>1. e.obj \in Int /\ e.tz_id \in Int
      BY <2>1, FoundContext, SMTT(30)
    <3>2. PICK n \in Requests : n = [teemem[p] EXCEPT !.tmpid = fresh, !.context = e.tz_id]
      BY <1>0, <1>2, <3>1, Setters2
    <3>5. n.op = "open"
      BY <1>0, <1>9, <3>2 DEF Requests
    <3>3. /\ teemem' \in [Processes -> Requests \cup {NULL}]
          /\ tee_tmp_memories' \in [Processes -> [{"open", "invoke"} -> Int]]
      BY <1>0, <2>1, <3>2, <3>5, ParameterTypes
    <3>4. [obj |-> fresh, id |-> fresh, tz_id |-> 0, ctx |-> e.obj] \in SesEntry
      BY <1>2, <3>1 DEF SesEntry
    <3> QED
      BY <1>1, <1>2, <2>1, <3>3, <3>4 DEF TypeInv, svars, cvars, Draw
  <2> QED
    BY <1>3, <1>9, <2>1 DEF tee_session_open_pre
<1>10. CASE tee_session_close_pre(p)
  BY <1>0, <1>3, <1>4, <1>10, Setters, FoundSession DEF tee_session_close_pre
<1>11. CASE teemem[p].op = "invoke" /\ tee_invoke_pre(p)
  <2>1. ASSUME NEW ses \in find_by_id(tee_sessions, teemem[p].session), ses \notin {NULL, Wild},
               tee_translate_parameter_to_tz(p, [teemem[p] EXCEPT !.session = ses.tz_id]),
               UNCHANGED <<tee_contexts, tee_sessions, tee_memories, ids>>
        PROVE  TypeInv'
    <3>1. PICK n \in Requests : n = [teemem[p] EXCEPT !.session = ses.tz_id]
      BY <1>0, <2>1, FoundSession, Setters
    <3>2. n.op = "invoke"
      BY <1>0, <1>11, <3>1 DEF Requests
    <3>3. /\ teemem' \in [Processes -> Requests \cup {NULL}]
          /\ tee_tmp_memories' \in [Processes -> [{"open", "invoke"} -> Int]]
      BY <1>0, <2>1, <3>1, <3>2, ParameterTypes
    <3> QED
      BY <1>1, <2>1, <3>3 DEF TypeInv, svars, cvars
  <2> QED
    BY <1>3, <1>11, <2>1 DEF tee_invoke_pre
<1> QED
  BY <1>2, <1>5, <1>6, <1>7, <1>8, <1>9, <1>10, <1>11 DEF tee_process_pre, Ops

\* The hooks after the secure world keep the types.
LEMMA PostTypes ==
  ASSUME TypeInv, NEW p \in Processes, tee_process_post(p), UNCHANGED cvars
  PROVE  TypeInv'
<1>0. teemem[p] # NULL /\ teemem[p] \in Requests
  BY DEF TypeInv, tee_process_post, At
<1>1. UNCHANGED <<svars, cvars>>
  BY DEF tee_process_post
<1>2. /\ teemem[p].op \in Ops /\ ids \in Int /\ fresh \in Nat /\ fresh \in Int /\ teemem[p].context \in Int
      /\ teemem[p].memid \in Int /\ teemem[p].session \in Int
  BY <1>0 DEF TypeInv, Requests, fresh
<1>3. ASSUME NEW e, Missed(p, e) PROVE TypeInv'
  BY <1>0, <1>1, <1>3, MissedTypes
<1>4. ASSUME NEW r \in Requests, NEW at \in {"back", "oops"}, Goes(p, r, at), UNCHANGED tee_tmp_memories,
             ids' \in Nat, tee_contexts' \subseteq CtxEntry, tee_sessions' \subseteq SesEntry,
             tee_memories' \subseteq MemEntry
      PROVE  TypeInv'
  <2>1. teemem' \in [Processes -> Requests \cup {NULL}]
    BY <1>4, GoesTypes, Constants
  <2> QED
    BY <2>1, <1>1, <1>4 DEF TypeInv, svars, cvars
<1>13. /\ ids \in Nat /\ tee_contexts \subseteq CtxEntry /\ tee_sessions \subseteq SesEntry
       /\ tee_memories \subseteq MemEntry
  BY DEF TypeInv
<1>5. CASE tee_ctx_init_post(p)
  <2>1. tee_context_add(p, teemem[p].context) \in CtxEntry
    BY <1>2 DEF tee_context_add, CtxEntry
  <2>2. tee_context_add(p, 0).id \in Int
    BY Constants DEF tee_context_add
  <2>3. [teemem[p] EXCEPT !.context = tee_context_add(p, 0).id] \in Requests
    BY <1>0, <2>2, Setters
  <2> QED
    BY <2>1, <2>3, <1>2, <1>4, <1>5, <1>13 DEF tee_ctx_init_post, Draw
<1>6. CASE tee_ctx_finalize_post(p)
  <2>0. 0 \in Int
    OBVIOUS
  <2>1. [teemem[p] EXCEPT !.context = 0] \in Requests
    BY <1>0, <2>0, Setters
  <2> QED
    BY <2>1, <1>0, <1>4, <1>6, <1>13 DEF tee_ctx_finalize_post, dvars
<1>7. CASE tee_mem_reg_post(p)
  <2>1. ASSUME NEW mem \in find(tee_memories, {x \in tee_memories : x.obj = teemem[p].paddr}),
               mem \notin {NULL, Wild},
               tee_memories' = WithTzid(tee_memories, mem.obj, teemem[p].memid),
               Goes(p, [teemem[p] EXCEPT !.memid = mem.id], "back"),
               UNCHANGED <<tee_contexts, tee_sessions, tee_tmp_memories, ids>>
        PROVE  TypeInv'
    <3>1. mem.obj \in Int /\ mem.id \in Int
      BY <2>1, FoundMemory
    <3>2. tee_memories' \subseteq MemEntry
      BY <2>1, <3>1, <1>2, WithTzidTypes
    <3>3. [teemem[p] EXCEPT !.memid = mem.id] \in Requests
      BY <1>0, <3>1, Setters
    <3> QED
      BY <3>2, <3>3, <2>1, <1>4, <1>13
  <2> QED
    BY <1>3, <1>7, <2>1 DEF tee_mem_reg_post
<1>8. CASE tee_mem_rel_post(p)
  BY <1>0, <1>3, <1>4, <1>8, <1>13 DEF tee_mem_rel_post
<1>9. CASE tee_session_open_post(p)
  <2>1. ASSUME NEW e \in find_by_tzid(tee_contexts, teemem[p].context), e \notin {NULL, Wild},
               NEW ses \in tee_session_opened(p), ses \notin {NULL, Wild},
               tee_sessions' = WithTzid(tee_sessions, ses.obj, teemem[p].session),
               Goes(p, [teemem[p] EXCEPT !.session = ses.id, !.context = e.id], "back"),
               UNCHANGED <<tee_contexts, tee_memories, tee_tmp_memories, ids>>
        PROVE  TypeInv'
    <3>1. ses.obj \in Int /\ ses.id \in Int
      BY <2>1, FoundSession DEF tee_session_opened
    <3>2. e.id \in Int
      BY <2>1, FoundContext
    <3>3. tee_sessions' \subseteq SesEntry
      BY <2>1, <3>1, <1>2, WithTzidTypes, SMTT(30)
    <3>4. [teemem[p] EXCEPT !.session = ses.id, !.context = e.id] \in Requests
      BY <1>0, <3>1, <3>2, Setters2
    <3> QED
      BY <3>3, <3>4, <2>1, <1>4, <1>13
  <2> QED
    BY <1>3, <1>9, <2>1 DEF tee_session_open_post
<1>10. CASE tee_session_close_post(p)
  <2>1. ASSUME NEW ses \in find_by_tzid(tee_sessions, teemem[p].session), ses \notin {NULL, Wild},
               tee_sessions' = tee_sessions \ {ses},
               Goes(p, [teemem[p] EXCEPT !.session = ses.id], "back"),
               UNCHANGED <<tee_contexts, tee_memories, tee_tmp_memories, ids>>
        PROVE  TypeInv'
    <3>1. [teemem[p] EXCEPT !.session = ses.id] \in Requests
      BY <2>1, <1>0, Setters, FoundSession
    <3> QED
      BY <3>1, <2>1, <1>4, <1>13
  <2> QED
    BY <1>3, <1>10, <2>1 DEF tee_session_close_post
<1>11. CASE teemem[p].op = "invoke" /\ tee_invoke_post(p)
  <2>1. ASSUME NEW ses \in find_by_tzid(tee_sessions, teemem[p].session), ses \notin {NULL, Wild},
               tee_translate_parameter_from_tz(p, [teemem[p] EXCEPT !.session = ses.id]),
               UNCHANGED <<tee_contexts, tee_sessions, tee_memories, ids>>
        PROVE  TypeInv'
    <3>1. PICK n \in Requests : n = [teemem[p] EXCEPT !.session = ses.id]
      BY <1>0, <2>1, FoundSession, Setters
    <3>2. n.op = "invoke"
      BY <1>0, <1>11, <3>1 DEF Requests
    <3>3. /\ teemem' \in [Processes -> Requests \cup {NULL}]
          /\ tee_tmp_memories' \in [Processes -> [{"open", "invoke"} -> Int]]
      BY <1>0, <2>1, <3>1, <3>2, ParameterTypes
    <3> QED
      BY <1>1, <2>1, <3>3 DEF TypeInv, svars, cvars
  <2> QED
    BY <1>3, <1>11, <2>1 DEF tee_invoke_post
<1> QED
  BY <1>2, <1>5, <1>6, <1>7, <1>8, <1>9, <1>10, <1>11 DEF tee_process_post, Ops

\* One round of the TEE task keeps the types.
LEMMA TaskTypes ==
  ASSUME TypeInv, NEW p \in Processes, tee_task(p), UNCHANGED <<dvars, cvars>>
  PROVE  TypeInv'
<1> DEFINE r == teemem[p]
<1>0. r # NULL /\ r \in Requests
  BY DEF TypeInv, tee_task, At
<1>1. /\ ids \in Nat /\ ids + 1 \in Nat /\ ids + 1 \in Int /\ r.context \in Int /\ r.paddr \in Int /\ r.app \in BOOLEAN
      /\ r.s \in Sessions0
  BY <1>0 DEF TypeInv, Requests
<1>2. ASSUME NEW x \in Requests, NEW ret \in Results, Answer(p, x, ret), ids' \in Nat,
             tee_context_list' \subseteq Int,
             tee_session_list' \subseteq [id : Int, ctx : Int, app : BOOLEAN, owner : Owners],
             tee_memory_list' \subseteq [id : Int, ctx : Int, paddr : Int]
      PROVE  TypeInv'
  <2>1. teemem' \in [Processes -> Requests \cup {NULL}]
    BY <1>2, AnswerTypes
  <2> QED
    BY <2>1, <1>2 DEF TypeInv, dvars, cvars
<1>3. /\ tee_context_list \subseteq Int
      /\ tee_session_list \subseteq [id : Int, ctx : Int, app : BOOLEAN, owner : Owners]
      /\ tee_memory_list \subseteq [id : Int, ctx : Int, paddr : Int]
  BY DEF TypeInv
<1>4. [r EXCEPT !.context = fresh] \in Requests /\ [r EXCEPT !.memid = fresh] \in Requests
      /\ [r EXCEPT !.session = fresh] \in Requests
  BY <1>0, <1>1, Setters DEF fresh
<1> HIDE DEF r
<1>5. CASE tee_init_context(p)
  BY <1>0, <1>1, <1>2, <1>3, <1>4, <1>5, Constants DEF tee_init_context, tee_context_create, Draw, fresh, r
<1>6. CASE tee_finalize_context(p)
  BY <1>0, <1>1, <1>2, <1>3, <1>6, Constants DEF tee_finalize_context, r
<1>7. CASE tee_register_mem(p)
  <2>1. ASSUME Draw PROVE tee_memory_list \cup {[id |-> fresh, ctx |-> r.context, paddr |-> r.paddr]}
                             \subseteq [id : Int, ctx : Int, paddr : Int]
    BY <1>1, <1>3, <2>1 DEF fresh
  <2> QED
    BY <1>0, <1>1, <1>2, <1>3, <1>4, <1>7, <2>1, Constants DEF tee_register_mem, tee_memory_create, Draw, fresh, r
<1>8. CASE tee_release_mem(p)
  BY <1>0, <1>1, <1>2, <1>3, <1>8, Constants DEF tee_release_mem, r
<1>9. CASE tee_open_session(p)
  <2>1. <<p, r.s>> \in Owners => tee_session_list \cup {[id |-> fresh, ctx |-> r.context, app |-> r.app, owner |-> <<p, r.s>>]}
             \subseteq [id : Int, ctx : Int, app : BOOLEAN, owner : Owners]
    BY <1>1, <1>3 DEF fresh
  <2>2. <<p, r.s>> \in Owners
    BY <1>1 DEF Owners
  <2> QED
    BY <1>0, <1>1, <1>2, <1>3, <1>4, <1>9, <2>1, <2>2, Constants DEF tee_open_session, tee_session_create,
       Draw, fresh, r
<1>10. CASE tee_close_session(p)
  BY <1>0, <1>1, <1>2, <1>3, <1>10, Constants DEF tee_close_session, svars, r
<1>11. CASE tee_invoke(p)
  <2> DEFINE mm == CHOOSE g \in tee_memory_find(r.memid) : TRUE
             a == IF r.memid = 0 THEN 0 ELSE mm.paddr
  <2>1. ASSUME r.memid = 0 \/ tee_memory_find(r.memid) # {} PROVE a \in Int
    BY <2>1, <1>3 DEF tee_memory_find
  <2>2. ASSUME NEW e \in tee_session_find(r.session), r.memid = 0 \/ tee_memory_find(r.memid) # {}
        PROVE  [r EXCEPT !.by = e.owner, !.paddr = a] \in Requests
    <3>1. e.owner \in Owners
      BY <2>2, <1>3 DEF tee_session_find
    <3> HIDE DEF a
    <3> QED
      BY <3>1, <2>1, <2>2, <1>0, Setters
  <2> QED
    BY <1>0, <1>1, <1>2, <1>3, <1>11, <2>2, Constants DEF tee_invoke, svars, r
<1> QED
  BY <1>5, <1>6, <1>7, <1>8, <1>9, <1>10, <1>11 DEF tee_task

\* What the client library takes over from an answer has the objects' types.
LEMMA ReturnTypes ==
  ASSUME TypeInv, NEW p \in Processes, TEEC_return(p)
  PROVE  TypeInv'
<1> DEFINE r == teemem[p]
<1>0. r # NULL /\ r \in Requests
  BY DEF TypeInv, TEEC_return, At
<1>1. r.c \in Contexts \cup {NULL} /\ r.context \in Int /\ r.session \in Int /\ r.memid \in Int
  BY <1>0 DEF Requests, Contexts0
<1>2. context' \in [Processes -> [Contexts -> Int]]
  BY <1>1 DEF TypeInv, TEEC_return
<1>3. \A id \in Int : [[id |-> 0, c |-> r.c] EXCEPT !.id = id] \in [id : Int, c : Contexts \cup {NULL}]
  BY <1>1
<1>4. session' \in [Processes -> [Sessions -> [id : Int, c : Contexts \cup {NULL}]]]
  <2>1. [[id |-> 0, c |-> r.c] EXCEPT !.id = r.session] \in [id : Int, c : Contexts \cup {NULL}]
    BY <1>1, <1>3
  <2> HIDE DEF r
  <2> QED
  BY <2>1 DEF TypeInv, TEEC_return, r
<1>5. memory' \in [Processes -> [Memories -> [id : Int, c : Contexts \cup {NULL}]]]
  <2>1. [[id |-> 0, c |-> r.c] EXCEPT !.id = r.memid] \in [id : Int, c : Contexts \cup {NULL}]
    BY <1>1, <1>3
  <2> QED
  BY <2>1 DEF TypeInv, TEEC_return
<1>6. teemem' \in [Processes -> Requests \cup {NULL}]
  BY DEF TypeInv, TEEC_return
<1> QED
  BY <1>2, <1>4, <1>5, <1>6 DEF TypeInv, TEEC_return, svars, dvars

\* The end of a process keeps the types.
LEMMA ExitTypes ==
  ASSUME TypeInv, NEW p \in Processes, exit(p)
  PROVE  TypeInv'
BY DEF TypeInv, exit, tz_driver_release, svars, Closed

\* Every step keeps the types.
LEMMA NextTypes ==
  ASSUME TypeInv, [Next]_vars
  PROVE  TypeInv'
<1>1. CASE UNCHANGED vars
  BY <1>1 DEF TypeInv, vars, svars, dvars, cvars
<1> QED
  BY <1>1, CallTypes, PreTypes, TaskTypes, PostTypes, ReturnTypes, ExitTypes DEF Next

\* The tables are empty and the objects closed at first.
LEMMA InitTypes ==
  Init => TypeInv
BY DEF Init, TypeInv, Closed

-----------------------------------------------------------------------------
(* What each step does, with the fields of the page it leaves. *)

\* The fields of a request that goes on, and of one that is answered.
LEMMA GoesFields ==
  ASSUME TypeInv, NEW p \in Processes, NEW r \in Requests, NEW at, Goes(p, r, at)
  PROVE  /\ \A q \in Processes : q # p => teemem'[q] = teemem[q]
         /\ teemem'[p].at = at /\ teemem'[p].op = r.op /\ teemem'[p].ret = r.ret
         /\ teemem'[p].context = r.context /\ teemem'[p].session = r.session
         /\ teemem'[p].tmpid = r.tmpid /\ teemem'[p].memid = r.memid /\ teemem'[p].paddr = r.paddr
         /\ teemem'[p].user = r.user /\ teemem'[p].tmp = r.tmp /\ teemem'[p].app = r.app
         /\ teemem'[p].c = r.c /\ teemem'[p].s = r.s /\ teemem'[p].m = r.m /\ teemem'[p].by = r.by
BY DEF TypeInv, Requests, Goes

\* As GoesFields, for an answer of the TEE task.
LEMMA AnswerFields ==
  ASSUME TypeInv, NEW p \in Processes, NEW r \in Requests, NEW ret, Answer(p, r, ret)
  PROVE  /\ \A q \in Processes : q # p => teemem'[q] = teemem[q]
         /\ teemem'[p].at = "post" /\ teemem'[p].op = r.op /\ teemem'[p].ret = ret
         /\ teemem'[p].context = r.context /\ teemem'[p].session = r.session
         /\ teemem'[p].tmpid = r.tmpid /\ teemem'[p].memid = r.memid /\ teemem'[p].paddr = r.paddr
         /\ teemem'[p].user = r.user /\ teemem'[p].tmp = r.tmp /\ teemem'[p].app = r.app
         /\ teemem'[p].c = r.c /\ teemem'[p].s = r.s /\ teemem'[p].m = r.m /\ teemem'[p].by = r.by
BY DEF TypeInv, Requests, Answer

\* The request of a hook that misses: back, refused, or nowhere.
LEMMA MissedFields ==
  ASSUME TypeInv, NEW p \in Processes, NEW e, teemem[p] # NULL, Missed(p, e)
  PROVE  /\ \A q \in Processes : q # p => teemem'[q] = teemem[q]
         /\ teemem'[p].at \in {"back", "oops"} /\ (teemem'[p].at = "back" => teemem'[p].ret = REFUSED)
         /\ teemem'[p].op = teemem[p].op
         /\ teemem'[p].context = teemem[p].context /\ teemem'[p].session = teemem[p].session
         /\ teemem'[p].tmpid = teemem[p].tmpid /\ teemem'[p].memid = teemem[p].memid
         /\ teemem'[p].paddr = teemem[p].paddr
         /\ teemem'[p].user = teemem[p].user /\ teemem'[p].tmp = teemem[p].tmp /\ teemem'[p].app = teemem[p].app
         /\ teemem'[p].c = teemem[p].c /\ teemem'[p].s = teemem[p].s /\ teemem'[p].m = teemem[p].m
         /\ teemem'[p].by = teemem[p].by
         /\ UNCHANGED <<dvars, ids>>
<1>1. teemem[p] \in Requests
  BY DEF TypeInv
<1>2. [teemem[p] EXCEPT !.ret = REFUSED] \in Requests
  BY <1>1, Constants DEF Requests
<1>3. CASE Fails(p)
  <2>1. Goes(p, [teemem[p] EXCEPT !.ret = REFUSED], "back")
    BY <1>3 DEF Fails
  <2> QED
    BY <2>1, <1>1, <1>2, GoesFields DEF Requests, Missed
<1>4. CASE Goes(p, teemem[p], "oops")
  BY <1>1, <1>4, GoesFields DEF Missed
<1> QED
  BY <1>3, <1>4 DEF Missed, Lost

\* A search by identifier and one by tz_id return entries that have it.
LEMMA FoundId ==
  ASSUME NEW table, NEW x, NEW e \in find_by_id(table, x), e \notin {NULL, Wild}
  PROVE  e \in table /\ e.id = x
BY Found DEF find_by_id

\* As FoundId, by tz_id.
LEMMA FoundTzid ==
  ASSUME NEW table, NEW x, NEW e \in find_by_tzid(table, x), e \notin {NULL, Wild}
  PROVE  e \in table /\ e.tz_id = x
BY Found DEF find_by_tzid

\* What a step has made of the page of p, field by field; the fields that only the
\* client sets are as they were.
Became(p, at, ret, context1, session1, tmpid, memid, paddr, by) ==
  /\ \A q \in Processes : q # p => teemem'[q] = teemem[q]
  /\ teemem'[p] # NULL
  /\ teemem'[p].at = at /\ teemem'[p].ret = ret /\ teemem'[p].context = context1
  /\ teemem'[p].session = session1 /\ teemem'[p].tmpid = tmpid /\ teemem'[p].memid = memid
  /\ teemem'[p].paddr = paddr /\ teemem'[p].by = by
  /\ teemem'[p].op = teemem[p].op /\ teemem'[p].user = teemem[p].user /\ teemem'[p].tmp = teemem[p].tmp
  /\ teemem'[p].app = teemem[p].app /\ teemem'[p].c = teemem[p].c /\ teemem'[p].s = teemem[p].s
  /\ teemem'[p].m = teemem[p].m

\* The tables stay as they are.
Still == UNCHANGED <<svars, cvars, dvars, ids>>

\* The call is over, refused, or has followed a wild pointer.
Gone(p) ==
  LET r == teemem[p] IN
  \E at \in {"back", "oops"}, ret \in Results :
    /\ at = "back" => ret = REFUSED
    /\ Became(p, at, ret, r.context, r.session, r.tmpid, r.memid, r.paddr, r.by)

\* It is, and the tables are as they were.
Stopped(p) ==
  /\ Gone(p)
  /\ UNCHANGED <<svars, cvars, tee_contexts, tee_sessions, tee_memories, ids>>
  /\ \A q \in Processes : q # p => tee_tmp_memories'[q] = tee_tmp_memories[q]
  /\ Faults \/ UNCHANGED tee_tmp_memories

NoContext(x) == \A e \in tee_contexts : e.id # x
NoTzContext(x) == \A e \in tee_contexts : e.tz_id # x

\* There is no memory x; memory x, or none, is memory tz of the secure world.
NoParameter(x) == x # 0 /\ \A e \in tee_memories : e.id # x
Parameter(x, tz) == IF x = 0 THEN tz = 0 ELSE \E e \in tee_memories : e.id = x /\ e.tz_id = tz

\* The effects of the hooks before the secure world, one for each operation.
InitPre(p) ==
  LET r == teemem[p] IN
  Still /\ Became(p, "tz", r.ret, MAGIC, r.session, r.tmpid, r.memid, r.paddr, r.by)

FinPre(p) ==
  LET r == teemem[p] IN
  \/ Stopped(p) /\ NoContext(r.context)
  \/ \E e \in tee_contexts :
       /\ e.id = r.context /\ Still
       /\ Became(p, "tz", r.ret, e.tz_id, r.session, r.tmpid, r.memid, r.paddr, r.by)

RegPre(p) ==
  LET r == teemem[p] IN
  \/ Stopped(p) /\ NoContext(r.context)
  \/ \E e \in tee_contexts :
       /\ e.id = r.context
       /\ Became(p, "tz", r.ret, e.tz_id, r.session, r.tmpid, r.memid, ids + 1, r.by)
       /\ ids' = ids + 1
       /\ tee_memories' = tee_memories \cup
            {[obj |-> ids + 1, id |-> ids + 1, tz_id |-> 0, ctx |-> e.obj, user |-> r.user]}
       /\ UNCHANGED <<svars, cvars, tee_contexts, tee_sessions, tee_tmp_memories>>

RelPre(p) ==
  LET r == teemem[p] IN
  \/ /\ Stopped(p)
     /\ \/ \A e \in tee_memories : e.id # r.memid
        \/ \E e \in tee_memories : e.id = r.memid /\ e.user # r.user
  \/ \E e \in tee_memories :
       /\ e.id = r.memid /\ e.user = r.user /\ Still
       /\ Became(p, "tz", r.ret, r.context, r.session, r.tmpid, e.tz_id, r.paddr, r.by)

OpenPre(p) ==
  LET r == teemem[p] IN
  \/ Stopped(p) /\ NoContext(r.context)
  \/ \E e \in tee_contexts :
       /\ e.id = r.context
       /\ \/ \E memid \in Int :
               /\ Parameter(r.memid, memid)
               /\ Became(p, "tz", r.ret, e.tz_id, r.session, ids + 1, memid, r.paddr, r.by)
          \/ Gone(p) /\ (NoParameter(r.memid) \/ Faults)
       /\ ids' = ids + 1
       /\ tee_sessions' = tee_sessions \cup {[obj |-> ids + 1, id |-> ids + 1, tz_id |-> 0, ctx |-> e.obj]}
       /\ \A q \in Processes : tee_tmp_memories'[q]["invoke"] = tee_tmp_memories[q]["invoke"]
       /\ UNCHANGED <<svars, cvars, tee_contexts, tee_memories>>

ClosePre(p) ==
  LET r == teemem[p] IN
  \/ Stopped(p) /\ \A e \in tee_sessions : e.id # r.session
  \/ \E e \in tee_sessions :
       /\ e.id = r.session /\ Still
       /\ Became(p, "tz", r.ret, r.context, e.tz_id, r.tmpid, r.memid, r.paddr, r.by)

InvokePre(p) ==
  LET r == teemem[p] IN
  \/ /\ Stopped(p)
     /\ \/ \A e \in tee_sessions : e.id # r.session
        \/ NoParameter(r.memid)
        \/ Faults
  \/ \E e \in tee_sessions, memid \in Int :
       /\ e.id = r.session
       /\ Parameter(r.memid, memid)
       /\ Became(p, "tz", r.ret, r.context, e.tz_id, r.tmpid, memid, r.paddr, r.by)
       /\ tee_tmp_memories' = [tee_tmp_memories EXCEPT ![p]["invoke"] = @ + r.tmp]
       /\ UNCHANGED <<svars, cvars, tee_contexts, tee_sessions, tee_memories, ids>>

\* A search that finds nothing says so of the table.
LEMMA NotFound ==
  ASSUME TypeInv, NEW table \in {tee_contexts, tee_sessions, tee_memories}, NEW fits \in SUBSET table,
         NEW e \in find(table, fits), e \in {NULL, Wild}
  PROVE  fits = {}
BY ClientAssumption DEF find, TypeInv

\* A request that is changed is still one.
LEMMA PageNotNull ==
  ASSUME TypeInv, NEW p \in Processes, NEW r \in Requests, teemem' = [teemem EXCEPT ![p] = r]
  PROVE  teemem'[p] # NULL
BY ClientAssumption DEF TypeInv

\* A hook that passes a request on leaves the fields the client has set.
LEMMA GoesBecame ==
  ASSUME TypeInv, NEW p \in Processes, NEW r \in Requests, NEW at \in Stages, Goes(p, r, at),
         r.op = teemem[p].op, r.user = teemem[p].user, r.tmp = teemem[p].tmp, r.app = teemem[p].app,
         r.c = teemem[p].c, r.s = teemem[p].s, r.m = teemem[p].m
  PROVE  Became(p, at, r.ret, r.context, r.session, r.tmpid, r.memid, r.paddr, r.by)
<1>1. [r EXCEPT !.at = at] \in Requests
  BY DEF Requests
<1>2. teemem'[p] # NULL
  BY <1>1, PageNotNull DEF Goes
<1> QED
  BY <1>2, GoesFields DEF Became

\* err_ret of tee_process: the request goes back refused, its fields as they were.
LEMMA FailsStops ==
  ASSUME TypeInv, NEW p \in Processes, teemem[p] # NULL, Fails(p)
  PROVE  \E ret \in Results : /\ ret = REFUSED
            /\ Became(p, "back", ret, teemem[p].context, teemem[p].session, teemem[p].tmpid, teemem[p].memid,
                      teemem[p].paddr, teemem[p].by)
<1>1. teemem[p] \in Requests
  BY DEF TypeInv
<1> DEFINE r == [teemem[p] EXCEPT !.ret = REFUSED]
<1>2. /\ r \in Requests /\ r.op = teemem[p].op /\ r.user = teemem[p].user /\ r.tmp = teemem[p].tmp
      /\ r.app = teemem[p].app /\ r.c = teemem[p].c /\ r.s = teemem[p].s /\ r.m = teemem[p].m
      /\ r.ret = REFUSED /\ r.context = teemem[p].context /\ r.session = teemem[p].session
      /\ r.tmpid = teemem[p].tmpid /\ r.memid = teemem[p].memid /\ r.paddr = teemem[p].paddr /\ r.by = teemem[p].by
  BY <1>1, Constants DEF Requests
<1>3. Goes(p, r, "back")
  BY DEF Fails
<1>4. "back" \in Stages
  BY Constants
<1> HIDE DEF r
<1>5. Became(p, "back", r.ret, r.context, r.session, r.tmpid, r.memid, r.paddr, r.by)
  BY <1>2, <1>3, <1>4, GoesBecame
<1> QED
  BY <1>2, <1>5, Constants

\* A hook that misses ends the call.
LEMMA LostGone ==
  ASSUME TypeInv, NEW p \in Processes, NEW e, teemem[p] # NULL, Lost(p, e) \/ Fails(p)
  PROVE  Gone(p)
<1>2. CASE Fails(p)
  BY <1>2, FailsStops DEF Gone
<1>3. CASE Goes(p, teemem[p], "oops")
  <2>1. teemem[p] \in Requests /\ "oops" \in Stages /\ teemem[p].ret \in Results
    BY Constants DEF TypeInv, Requests
  <2>2. Became(p, "oops", teemem[p].ret, teemem[p].context, teemem[p].session, teemem[p].tmpid, teemem[p].memid,
                      teemem[p].paddr, teemem[p].by)
    BY <1>3, <2>1, GoesBecame
  <2> QED
    BY <2>1, <2>2 DEF Gone
<1> QED
  BY <1>2, <1>3 DEF Lost

\* A hook that misses stops the call and leaves the tables alone.
LEMMA MissedStops ==
  ASSUME TypeInv, NEW p \in Processes, NEW e, teemem[p] # NULL, Missed(p, e), UNCHANGED <<svars, cvars>>
  PROVE  Stopped(p)
BY LostGone DEF Missed, Stopped, dvars

\* A hook that only translates a field leaves the tables alone.
LEMMA KeptBecame ==
  ASSUME TypeInv, NEW p \in Processes, NEW r \in Requests, Kept(p, r), UNCHANGED <<svars, cvars>>,
         r.op = teemem[p].op, r.user = teemem[p].user, r.tmp = teemem[p].tmp, r.app = teemem[p].app,
         r.c = teemem[p].c, r.s = teemem[p].s, r.m = teemem[p].m
  PROVE  Still /\ Became(p, "tz", r.ret, r.context, r.session, r.tmpid, r.memid, r.paddr, r.by)
<1>1. "tz" \in Stages
  BY Constants
<1> QED
  BY <1>1, GoesBecame DEF Kept, Still

\* The fields a hook changes, and those it leaves.
LEMMA SetContext ==
  ASSUME NEW r \in Requests, NEW x \in Int, NEW n \in Requests, n = [r EXCEPT !.context = x]
  PROVE  /\ n.op = r.op /\ n.user = r.user /\ n.tmp = r.tmp /\ n.app = r.app /\ n.c = r.c /\ n.s = r.s /\ n.m = r.m
         /\ n.at = r.at /\ n.ret = r.ret /\ n.context = x /\ n.session = r.session /\ n.tmpid = r.tmpid
         /\ n.memid = r.memid /\ n.paddr = r.paddr /\ n.by = r.by
BY DEF Requests

\* As SetContext, for the session.
LEMMA SetSession ==
  ASSUME NEW r \in Requests, NEW x \in Int, NEW n \in Requests, n = [r EXCEPT !.session = x]
  PROVE  /\ n.op = r.op /\ n.user = r.user /\ n.tmp = r.tmp /\ n.app = r.app /\ n.c = r.c /\ n.s = r.s /\ n.m = r.m
         /\ n.at = r.at /\ n.ret = r.ret /\ n.context = r.context /\ n.session = x /\ n.tmpid = r.tmpid
         /\ n.memid = r.memid /\ n.paddr = r.paddr /\ n.by = r.by
BY DEF Requests

\* As SetContext, for the memory.
LEMMA SetMemid ==
  ASSUME NEW r \in Requests, NEW x \in Int, NEW n \in Requests, n = [r EXCEPT !.memid = x]
  PROVE  /\ n.op = r.op /\ n.user = r.user /\ n.tmp = r.tmp /\ n.app = r.app /\ n.c = r.c /\ n.s = r.s /\ n.m = r.m
         /\ n.at = r.at /\ n.ret = r.ret /\ n.context = r.context /\ n.session = r.session /\ n.tmpid = r.tmpid
         /\ n.memid = x /\ n.paddr = r.paddr /\ n.by = r.by
BY DEF Requests

\* A parameter without a memory is none that is missing.
LEMMA NoMemoryThere ==
  NoMemory \notin {NULL, Wild}
BY NoMemoryType, ClientAssumption

\* The parameters on their way to the secure world: the call is over, or goes on.
LEMMA ToTz ==
  ASSUME TypeInv, NEW p \in Processes, teemem[p] # NULL, NEW n \in Requests, n.op \in {"open", "invoke"},
         n.op = teemem[p].op, n.user = teemem[p].user, n.tmp = teemem[p].tmp, n.app = teemem[p].app,
         n.c = teemem[p].c, n.s = teemem[p].s, n.m = teemem[p].m, tee_translate_parameter_to_tz(p, n)
  PROVE  /\ \A q \in Processes, op \in {"open", "invoke"} :
              q # p \/ op # n.op => tee_tmp_memories'[q][op] = tee_tmp_memories[q][op]
         /\ \A q \in Processes : q # p => tee_tmp_memories'[q] = tee_tmp_memories[q]
         /\ \/ Gone(p) /\ (Faults \/ (UNCHANGED tee_tmp_memories /\ NoParameter(n.memid)))
            \/ \E memid \in Int :
                 /\ Parameter(n.memid, memid)
                 /\ Became(p, "tz", n.ret, n.context, n.session, n.tmpid, memid, n.paddr, n.by)
                 /\ tee_tmp_memories' = [tee_tmp_memories EXCEPT ![p][n.op] = @ + n.tmp]
<1> DEFINE Mems == IF n.memid = 0 THEN {NoMemory} ELSE find_by_id(tee_memories, n.memid)
<1>1. tee_tmp_memories \in [Processes -> [{"open", "invoke"} -> Int]] /\ "tz" \in Stages
  BY Constants DEF TypeInv
<1>2. ASSUME NEW mem \in Mems, mem \in {NULL, Wild}, Lost(p, mem)
      PROVE  Gone(p) /\ NoParameter(n.memid)
  <2>1. n.memid # 0
    BY <1>2, NoMemoryThere
  <2>2. {x \in tee_memories : x.id = n.memid} = {}
    BY <1>2, <2>1, NotFound DEF find_by_id
  <2>3. Gone(p)
    BY <1>2, LostGone
  <2> QED
    BY <2>1, <2>2, <2>3 DEF NoParameter
<1>3. ASSUME NEW mem \in Mems, mem \notin {NULL, Wild}, Goes(p, [n EXCEPT !.memid = mem.tz_id], "tz")
      PROVE  /\ mem.tz_id \in Int /\ Parameter(n.memid, mem.tz_id)
             /\ Became(p, "tz", n.ret, n.context, n.session, n.tmpid, mem.tz_id, n.paddr, n.by)
  <2>1. mem.tz_id \in Int
    BY <1>3, ParameterMemory
  <2>2. Parameter(n.memid, mem.tz_id)
    <3>1. CASE n.memid = 0
      BY <1>3, <3>1, NoMemoryType DEF Parameter
    <3>2. CASE n.memid # 0
      BY <1>3, <3>2, FoundId DEF Parameter
    <3> QED
      BY <3>1, <3>2
  <2>3. PICK k \in Requests : k = [n EXCEPT !.memid = mem.tz_id]
    BY <2>1, Setters
  <2>4. /\ k.op = n.op /\ k.user = n.user /\ k.tmp = n.tmp /\ k.app = n.app /\ k.c = n.c /\ k.s = n.s /\ k.m = n.m
        /\ k.ret = n.ret /\ k.context = n.context /\ k.session = n.session /\ k.tmpid = n.tmpid
        /\ k.memid = mem.tz_id /\ k.paddr = n.paddr /\ k.by = n.by
    BY <2>1, <2>3, SetMemid
  <2>5. Became(p, "tz", k.ret, k.context, k.session, k.tmpid, k.memid, k.paddr, k.by)
    BY <1>1, <1>3, <2>3, <2>4, GoesBecame
  <2> QED
    BY <2>1, <2>2, <2>4, <2>5
<1>4. ASSUME Fails(p) PROVE Gone(p)
  BY <1>4, LostGone
<1> HIDE DEF Mems
<1>5. \/ \E mem \in Mems :
           \/ mem \in {NULL, Wild} /\ Lost(p, mem) /\ UNCHANGED tee_tmp_memories
           \/ /\ mem \notin {NULL, Wild}
              /\ tee_tmp_memories' = [tee_tmp_memories EXCEPT ![p][n.op] = @ + n.tmp]
              /\ Goes(p, [n EXCEPT !.memid = mem.tz_id], "tz")
      \/ /\ Faults /\ Fails(p)
         /\ \E k \in 0..n.tmp : tee_tmp_memories' = [tee_tmp_memories EXCEPT ![p][n.op] = @ + k]
  BY DEF tee_translate_parameter_to_tz, Mems
<1>6. \/ UNCHANGED tee_tmp_memories
      \/ \E k : tee_tmp_memories' = [tee_tmp_memories EXCEPT ![p][n.op] = @ + k]
  BY <1>5
<1>7. /\ \A q \in Processes, op \in {"open", "invoke"} :
           q # p \/ op # n.op => tee_tmp_memories'[q][op] = tee_tmp_memories[q][op]
      /\ \A q \in Processes : q # p => tee_tmp_memories'[q] = tee_tmp_memories[q]
  BY <1>1, <1>6
<1> QED
  BY <1>2, <1>3, <1>4, <1>5, <1>7

\* The hooks before the secure world.
LEMMA PreEffect ==
  ASSUME TypeInv, NEW p \in Processes, tee_process_pre(p), UNCHANGED cvars
  PROVE  /\ teemem[p] # NULL /\ teemem[p] \in Requests /\ teemem[p].at = "pre"
         /\ \/ teemem[p].op = "init" /\ InitPre(p)
            \/ teemem[p].op = "fin" /\ FinPre(p)
            \/ teemem[p].op = "reg" /\ RegPre(p)
            \/ teemem[p].op = "rel" /\ RelPre(p)
            \/ teemem[p].op = "open" /\ OpenPre(p)
            \/ teemem[p].op = "close" /\ ClosePre(p)
            \/ teemem[p].op = "invoke" /\ InvokePre(p)
<1> DEFINE r == teemem[p]
<1>0. r # NULL /\ r \in Requests /\ r.at = "pre"
  BY DEF TypeInv, tee_process_pre, At
<1>1. UNCHANGED <<svars, cvars>>
  BY DEF tee_process_pre
<1>2. /\ r.op \in Ops /\ ids + 1 \in Int /\ r.user \in Users /\ "tz" \in Stages /\ fresh = ids + 1 /\ fresh \in Int /\ MAGIC \in Int
  BY <1>0, Constants DEF TypeInv, Requests, fresh
<1>3. ASSUME NEW e, Missed(p, e) PROVE Stopped(p)
  BY <1>0, <1>1, <1>3, MissedStops
<1>4. ASSUME NEW n \in Requests, Kept(p, n),
         n.op = r.op, n.user = r.user, n.tmp = r.tmp, n.app = r.app, n.c = r.c, n.s = r.s, n.m = r.m
      PROVE  Still /\ Became(p, "tz", n.ret, n.context, n.session, n.tmpid, n.memid, n.paddr, n.by)
  BY <1>1, <1>4, KeptBecame
<1>12. ASSUME NEW e \in find_by_id(tee_contexts, r.context), e \in {NULL, Wild} PROVE NoContext(r.context)
  <2>1. {x \in tee_contexts : x.id = r.context} = {}
    BY <1>12, NotFound DEF find_by_id
  <2> QED
    BY <2>1 DEF NoContext
<1>13. ASSUME NEW e \in find_by_id(tee_contexts, r.context), e \notin {NULL, Wild}
       PROVE  e \in tee_contexts /\ e.id = r.context /\ e.tz_id \in Int
  <2>1. e \in find_by_id(tee_contexts, r.context) \cup find_by_tzid(tee_contexts, r.context)
    BY <1>13
  <2> QED
    BY <1>13, <2>1, FoundId, FoundContext
<1>14. ASSUME NEW e \in find_by_id(tee_sessions, r.session), e \in {NULL, Wild}
       PROVE  \A x \in tee_sessions : x.id # r.session
  <2>1. {x \in tee_sessions : x.id = r.session} = {}
    BY <1>14, NotFound DEF find_by_id
  <2> QED
    BY <2>1
<1>15. ASSUME NEW e \in find_by_id(tee_sessions, r.session), e \notin {NULL, Wild}
       PROVE  e \in tee_sessions /\ e.id = r.session /\ e.tz_id \in Int
  <2>1. e \in find_by_id(tee_sessions, r.session) \cup find_by_tzid(tee_sessions, r.session)
    BY <1>15
  <2> QED
    BY <1>15, <2>1, FoundId, FoundSession
<1>16. ASSUME NEW e \in find_by_id(tee_memories, r.memid), e \in {NULL, Wild}
       PROVE  \A x \in tee_memories : x.id # r.memid
  <2>1. {x \in tee_memories : x.id = r.memid} = {}
    BY <1>16, NotFound DEF find_by_id
  <2> QED
    BY <2>1
<1>17. ASSUME NEW e \in find_by_id(tee_memories, r.memid), e \notin {NULL, Wild}
       PROVE  e \in tee_memories /\ e.id = r.memid /\ e.tz_id \in Int
  <2>1. e \in tee_memories /\ e.id = r.memid
    BY <1>17, FoundId
  <2> QED
    BY <2>1 DEF TypeInv, MemEntry
<1>5. ASSUME tee_ctx_init_pre(p) PROVE InitPre(p)
  <2>1. PICK n \in Requests : n = [r EXCEPT !.context = MAGIC]
    BY <1>0, <1>2, Setters
  <2>2. Kept(p, n)
    BY <1>5, <2>1 DEF tee_ctx_init_pre
  <2> QED
    <3>1. /\ n.op = r.op /\ n.user = r.user /\ n.tmp = r.tmp /\ n.app = r.app /\ n.c = r.c /\ n.s = r.s /\ n.m = r.m
          /\ n.ret = r.ret /\ n.context = MAGIC /\ n.session = r.session /\ n.tmpid = r.tmpid
          /\ n.memid = r.memid /\ n.paddr = r.paddr /\ n.by = r.by
      BY <1>0, <1>2, <2>1, SetContext
    <3> QED
      BY <1>4, <2>2, <3>1 DEF InitPre
<1>6. ASSUME tee_ctx_finalize_pre(p) PROVE FinPre(p)
  <2>1. ASSUME NEW e \in find_by_id(tee_contexts, r.context), e \notin {NULL, Wild},
               Kept(p, [r EXCEPT !.context = e.tz_id])
        PROVE  FinPre(p)
    <3>1. PICK n \in Requests : n = [r EXCEPT !.context = e.tz_id]
      BY <1>0, <1>13, <2>1, Setters
    <3> QED
      BY <1>0, <1>4, <1>13, <2>1, <3>1, SetContext DEF FinPre
  <2>2. ASSUME NEW e \in find_by_id(tee_contexts, r.context), e \in {NULL, Wild}, Missed(p, e) PROVE FinPre(p)
    BY <1>3, <1>12, <2>2 DEF FinPre
  <2> QED
    BY <1>6, <2>1, <2>2 DEF tee_ctx_finalize_pre
<1>7. ASSUME tee_mem_reg_pre(p) PROVE RegPre(p)
  <2>1. ASSUME NEW e \in find_by_id(tee_contexts, r.context), e \notin {NULL, Wild},
               Draw, Goes(p, [r EXCEPT !.paddr = fresh, !.context = e.tz_id], "tz"),
               tee_memories' = tee_memories \cup
                 {[obj |-> fresh, id |-> fresh, tz_id |-> 0, ctx |-> e.obj, user |-> r.user]},
               UNCHANGED <<tee_contexts, tee_sessions, tee_tmp_memories>>
        PROVE  RegPre(p)
    <3>1. PICK n \in Requests : n = [r EXCEPT !.paddr = fresh, !.context = e.tz_id]
      BY <1>0, <1>2, <1>13, <2>1, Setters2
    <3>2. /\ n.op = r.op /\ n.user = r.user /\ n.tmp = r.tmp /\ n.app = r.app /\ n.c = r.c /\ n.s = r.s /\ n.m = r.m
          /\ n.ret = r.ret /\ n.context = e.tz_id /\ n.session = r.session /\ n.tmpid = r.tmpid
          /\ n.memid = r.memid /\ n.paddr = fresh /\ n.by = r.by
      <4>1. e.tz_id \in Int
        BY <1>13, <2>1
      <4> QED
        BY <1>0, <1>2, <4>1, <3>1 DEF Requests
    <3>3. Became(p, "tz", n.ret, n.context, n.session, n.tmpid, n.memid, n.paddr, n.by)
      BY <1>2, <2>1, <3>1, <3>2, GoesBecame
    <3> QED
      BY <1>1, <1>2, <1>13, <2>1, <3>2, <3>3 DEF RegPre, Draw
  <2>2. ASSUME NEW e \in find_by_id(tee_contexts, r.context), e \in {NULL, Wild}, Missed(p, e) PROVE RegPre(p)
    BY <1>3, <1>12, <2>2 DEF RegPre
  <2> QED
    BY <1>7, <2>1, <2>2 DEF tee_mem_reg_pre
<1>8. ASSUME tee_mem_rel_pre(p) PROVE RelPre(p)
  <2>1. ASSUME NEW e \in find_by_id(tee_memories, r.memid), e \notin {NULL, Wild}, e.user = r.user,
               Kept(p, [r EXCEPT !.memid = e.tz_id])
        PROVE  RelPre(p)
    <3>1. PICK n \in Requests : n = [r EXCEPT !.memid = e.tz_id]
      BY <1>0, <1>17, <2>1, Setters
    <3> QED
      BY <1>0, <1>4, <1>17, <2>1, <3>1, SetMemid DEF RelPre
  <2>2. ASSUME NEW e \in find_by_id(tee_memories, r.memid), e \in {NULL, Wild}, Missed(p, e)
        PROVE  RelPre(p)
    BY <1>3, <1>16, <2>2 DEF RelPre
  <2>3. ASSUME NEW e \in find_by_id(tee_memories, r.memid), e \notin {NULL, Wild}, e.user # r.user, Missed(p, NULL)
        PROVE  RelPre(p)
    BY <1>3, <1>17, <2>3 DEF RelPre
  <2> QED
    BY <1>8, <2>1, <2>2, <2>3 DEF tee_mem_rel_pre
<1>9. ASSUME r.op = "open", tee_session_open_pre(p) PROVE OpenPre(p)
  <2>1. ASSUME NEW e \in find_by_id(tee_contexts, r.context), e \notin {NULL, Wild}, Draw,
               tee_sessions' = tee_sessions \cup {[obj |-> fresh, id |-> fresh, tz_id |-> 0, ctx |-> e.obj]},
               tee_translate_parameter_to_tz(p, [r EXCEPT !.tmpid = fresh, !.context = e.tz_id]),
               UNCHANGED <<tee_contexts, tee_memories>>
        PROVE  OpenPre(p)
    <3>1. PICK n \in Requests : n = [r EXCEPT !.tmpid = fresh, !.context = e.tz_id]
      BY <1>0, <1>2, <1>13, <2>1, Setters2
    <3>2. /\ n.op = r.op /\ n.user = r.user /\ n.tmp = r.tmp /\ n.app = r.app /\ n.c = r.c /\ n.s = r.s /\ n.m = r.m
          /\ n.ret = r.ret /\ n.context = e.tz_id /\ n.session = r.session /\ n.tmpid = fresh
          /\ n.memid = r.memid /\ n.paddr = r.paddr /\ n.by = r.by
      <4>1. e.tz_id \in Int
        BY <1>13, <2>1
      <4> QED
        BY <1>0, <1>2, <4>1, <3>1 DEF Requests
    <3>3. tee_translate_parameter_to_tz(p, n)
      BY <2>1, <3>1
    <3>4. /\ \A q \in Processes : tee_tmp_memories'[q]["invoke"] = tee_tmp_memories[q]["invoke"]
          /\ \/ Gone(p) /\ (NoParameter(r.memid) \/ Faults)
             \/ \E memid \in Int :
                  /\ Parameter(r.memid, memid)
                  /\ Became(p, "tz", r.ret, e.tz_id, r.session, fresh, memid, r.paddr, r.by)
      BY <1>0, <1>9, <3>2, <3>3, ToTz
    <3> QED
      BY <1>1, <1>2, <1>13, <2>1, <3>4 DEF OpenPre, Draw
  <2>2. ASSUME NEW e \in find_by_id(tee_contexts, r.context), e \in {NULL, Wild}, Missed(p, e) PROVE OpenPre(p)
    BY <1>3, <1>12, <2>2 DEF OpenPre
  <2> QED
    BY <1>9, <2>1, <2>2 DEF tee_session_open_pre
<1>10. ASSUME tee_session_close_pre(p) PROVE ClosePre(p)
  <2>1. ASSUME NEW e \in find_by_id(tee_sessions, r.session), e \notin {NULL, Wild},
               Kept(p, [r EXCEPT !.session = e.tz_id])
        PROVE  ClosePre(p)
    <3>1. PICK n \in Requests : n = [r EXCEPT !.session = e.tz_id]
      BY <1>0, <1>15, <2>1, Setters
    <3> QED
      BY <1>0, <1>4, <1>15, <2>1, <3>1, SetSession DEF ClosePre
  <2>2. ASSUME NEW e \in find_by_id(tee_sessions, r.session), e \in {NULL, Wild}, Missed(p, e) PROVE ClosePre(p)
    BY <1>3, <1>14, <2>2 DEF ClosePre
  <2> QED
    BY <1>10, <2>1, <2>2 DEF tee_session_close_pre
<1>11. ASSUME r.op = "invoke", tee_invoke_pre(p) PROVE InvokePre(p)
  <2>1. ASSUME NEW e \in find_by_id(tee_sessions, r.session), e \in {NULL, Wild}, Missed(p, e) PROVE InvokePre(p)
    BY <1>3, <1>14, <2>1 DEF InvokePre
  <2>2. ASSUME NEW e \in find_by_id(tee_sessions, r.session), e \notin {NULL, Wild},
               tee_translate_parameter_to_tz(p, [r EXCEPT !.session = e.tz_id]),
               UNCHANGED <<tee_contexts, tee_sessions, tee_memories, ids>>
        PROVE  InvokePre(p)
    <3>1. PICK n \in Requests : n = [r EXCEPT !.session = e.tz_id]
      BY <1>0, <1>15, <2>2, Setters
    <3>2. /\ n.op = r.op /\ n.user = r.user /\ n.tmp = r.tmp /\ n.app = r.app /\ n.c = r.c /\ n.s = r.s /\ n.m = r.m
          /\ n.ret = r.ret /\ n.context = r.context /\ n.session = e.tz_id /\ n.tmpid = r.tmpid
          /\ n.memid = r.memid /\ n.paddr = r.paddr /\ n.by = r.by
      BY <1>0, <1>15, <2>2, <3>1, SetSession
    <3>3. tee_translate_parameter_to_tz(p, n)
      BY <2>2, <3>1
    <3>4. /\ \A q \in Processes : q # p => tee_tmp_memories'[q] = tee_tmp_memories[q]
          /\ \/ Gone(p) /\ (Faults \/ (UNCHANGED tee_tmp_memories /\ NoParameter(r.memid)))
             \/ \E memid \in Int :
                  /\ Parameter(r.memid, memid)
                  /\ Became(p, "tz", r.ret, r.context, e.tz_id, r.tmpid, memid, r.paddr, r.by)
                  /\ tee_tmp_memories' = [tee_tmp_memories EXCEPT ![p]["invoke"] = @ + r.tmp]
      BY <1>0, <1>11, <3>2, <3>3, ToTz
    <3>5. e \in tee_sessions /\ e.id = r.session
      BY <1>15, <2>2
    <3> QED
      BY <1>1, <2>2, <3>4, <3>5 DEF InvokePre, Stopped
  <2> QED
    BY <1>11, <2>1, <2>2 DEF tee_invoke_pre
<1> QED
  BY <1>0, <1>2, <1>5, <1>6, <1>7, <1>8, <1>9, <1>10, <1>11 DEF tee_process_pre, Ops

\* The effects of the TEE task.
InitTz(p) ==
  LET r == teemem[p] IN
  /\ \/ /\ ids' = ids + 1 /\ tee_context_list' = tee_context_list \cup {ids + 1}
        /\ IF r.context = MAGIC
           THEN Became(p, "post", OK, ids + 1, r.session, r.tmpid, r.memid, r.paddr, r.by)
           ELSE Became(p, "post", REFUSED, r.context, r.session, r.tmpid, r.memid, r.paddr, r.by)
     \/ /\ Shortage /\ UNCHANGED <<ids, tee_context_list>>
        /\ Became(p, "post", REFUSED, r.context, r.session, r.tmpid, r.memid, r.paddr, r.by)
  /\ UNCHANGED <<tee_session_list, tee_memory_list, dvars, cvars>>

FinTz(p) ==
  LET r == teemem[p] IN
  /\ tee_context_list' = tee_context_list \ {r.context}
  /\ \E ret \in Results : Became(p, "post", ret, r.context, r.session, r.tmpid, r.memid, r.paddr, r.by)
  /\ UNCHANGED <<ids, tee_session_list, tee_memory_list, dvars, cvars>>

RegTz(p) ==
  LET r == teemem[p] IN
  /\ \/ /\ r.context \in tee_context_list /\ ids' = ids + 1
        /\ tee_memory_list' = tee_memory_list \cup {[id |-> ids + 1, ctx |-> r.context, paddr |-> r.paddr]}
        /\ Became(p, "post", OK, r.context, r.session, r.tmpid, ids + 1, r.paddr, r.by)
     \/ /\ Shortage \/ r.context \notin tee_context_list
        /\ UNCHANGED <<ids, tee_memory_list>>
        /\ Became(p, "post", REFUSED, r.context, r.session, r.tmpid, r.memid, r.paddr, r.by)
  /\ UNCHANGED <<tee_context_list, tee_session_list, dvars, cvars>>

RelTz(p) ==
  LET r == teemem[p] IN
  /\ tee_memory_list' = {g \in tee_memory_list : g.id # r.memid}
  /\ \E ret \in Results : Became(p, "post", ret, r.context, r.session, r.tmpid, r.memid, r.paddr, r.by)
  /\ UNCHANGED <<ids, tee_context_list, tee_session_list, dvars, cvars>>

OpenTz(p) ==
  LET r == teemem[p] IN
  /\ \/ /\ r.context \in tee_context_list /\ ids' = ids + 1
        /\ tee_session_list' = tee_session_list \cup
             {[id |-> ids + 1, ctx |-> r.context, app |-> r.app, owner |-> <<p, r.s>>]}
        /\ \/ \E ret \in Results : Became(p, "post", ret, r.context, ids + 1, r.tmpid, r.memid, r.paddr, r.by)
           \/ Became(p, "post", REFUSED, r.context, r.session, r.tmpid, r.memid, r.paddr, r.by)
     \/ /\ Shortage \/ r.context \notin tee_context_list
        /\ UNCHANGED <<ids, tee_session_list>>
        /\ Became(p, "post", REFUSED, r.context, r.session, r.tmpid, r.memid, r.paddr, r.by)
  /\ UNCHANGED <<tee_context_list, tee_memory_list, dvars, cvars>>

CloseTz(p) ==
  LET r == teemem[p] IN
  /\ Still
  /\ \E ret \in Results : Became(p, "post", ret, r.context, r.session, r.tmpid, r.memid, r.paddr, r.by)

InvokeTz(p) ==
  LET r == teemem[p] IN
  /\ Still
  /\ \/ \E f \in tee_session_list, paddr \in Int :
          /\ f.id = r.session
          /\ IF r.memid = 0 THEN paddr = 0
             ELSE \E g \in tee_memory_list : g.id = r.memid /\ g.paddr = paddr
          /\ Became(p, "post", OK, r.context, r.session, r.tmpid, r.memid, paddr, f.owner)
     \/ /\ \/ \A f \in tee_session_list : f.id # r.session
           \/ r.memid # 0 /\ \A g \in tee_memory_list : g.id # r.memid
        /\ Became(p, "post", REFUSED, r.context, r.session, r.tmpid, r.memid, r.paddr, r.by)

\* The TEE task answers, and leaves the fields the client has set.
LEMMA AnswerBecame ==
  ASSUME TypeInv, NEW p \in Processes, NEW r \in Requests, NEW ret \in Results, Answer(p, r, ret),
         r.op = teemem[p].op, r.user = teemem[p].user, r.tmp = teemem[p].tmp, r.app = teemem[p].app,
         r.c = teemem[p].c, r.s = teemem[p].s, r.m = teemem[p].m
  PROVE  Became(p, "post", ret, r.context, r.session, r.tmpid, r.memid, r.paddr, r.by)
<1>1. [r EXCEPT !.at = "post", !.ret = ret] \in Requests
  BY Constants DEF Requests
<1>2. teemem'[p] # NULL
  BY <1>1, PageNotNull DEF Answer
<1> QED
  BY <1>2, AnswerFields DEF Became

\* The TEE task.
LEMMA TaskEffect ==
  ASSUME TypeInv, NEW p \in Processes, tee_task(p), UNCHANGED <<dvars, cvars>>
  PROVE  /\ teemem[p] # NULL /\ teemem[p] \in Requests /\ teemem[p].at = "tz"
         /\ \/ teemem[p].op = "init" /\ InitTz(p)
            \/ teemem[p].op = "fin" /\ FinTz(p)
            \/ teemem[p].op = "reg" /\ RegTz(p)
            \/ teemem[p].op = "rel" /\ RelTz(p)
            \/ teemem[p].op = "open" /\ OpenTz(p)
            \/ teemem[p].op = "close" /\ CloseTz(p)
            \/ teemem[p].op = "invoke" /\ InvokeTz(p)
<1> DEFINE r == teemem[p]
<1>0. r # NULL /\ r \in Requests /\ r.at = "tz"
  BY DEF TypeInv, tee_task, At
<1>1. fresh = ids + 1 /\ fresh \in Int /\ OK \in Results /\ REFUSED \in Results
  BY Constants DEF TypeInv, fresh
<1>2. ASSUME NEW ret \in Results, Answer(p, r, ret)
      PROVE  Became(p, "post", ret, r.context, r.session, r.tmpid, r.memid, r.paddr, r.by)
  BY <1>0, <1>2, AnswerBecame
<1>3. ASSUME tee_init_context(p) PROVE InitTz(p)
  <2>1. ASSUME Answer(p, [r EXCEPT !.context = fresh], OK)
        PROVE  Became(p, "post", OK, fresh, r.session, r.tmpid, r.memid, r.paddr, r.by)
    <3>1. PICK n \in Requests : n = [r EXCEPT !.context = fresh]
      BY <1>0, <1>1, Setters
    <3>2. /\ n.op = r.op /\ n.user = r.user /\ n.tmp = r.tmp /\ n.app = r.app /\ n.c = r.c /\ n.s = r.s /\ n.m = r.m
          /\ n.ret = r.ret /\ n.context = fresh /\ n.session = r.session /\ n.tmpid = r.tmpid
          /\ n.memid = r.memid /\ n.paddr = r.paddr /\ n.by = r.by
      BY <1>0, <1>1, <3>1, SetContext
    <3> QED
      BY <1>1, <2>1, <3>1, <3>2, AnswerBecame
  <2> QED
    BY <1>0, <1>1, <1>2, <1>3, <2>1 DEF tee_init_context, tee_context_create, Draw, InitTz
<1>4. ASSUME tee_finalize_context(p) PROVE FinTz(p)
  BY <1>0, <1>1, <1>2, <1>4 DEF tee_finalize_context, FinTz
<1>5. ASSUME tee_register_mem(p) PROVE RegTz(p)
  <2>1. ASSUME Answer(p, [r EXCEPT !.memid = fresh], OK)
        PROVE  Became(p, "post", OK, r.context, r.session, r.tmpid, fresh, r.paddr, r.by)
    <3>1. PICK n \in Requests : n = [r EXCEPT !.memid = fresh]
      BY <1>0, <1>1, Setters
    <3>2. /\ n.op = r.op /\ n.user = r.user /\ n.tmp = r.tmp /\ n.app = r.app /\ n.c = r.c /\ n.s = r.s /\ n.m = r.m
          /\ n.ret = r.ret /\ n.context = r.context /\ n.session = r.session /\ n.tmpid = r.tmpid
          /\ n.memid = fresh /\ n.paddr = r.paddr /\ n.by = r.by
      BY <1>0, <1>1, <3>1, SetMemid
    <3> QED
      BY <1>1, <2>1, <3>1, <3>2, AnswerBecame
  <2> QED
    BY <1>0, <1>1, <1>2, <1>5, <2>1 DEF tee_register_mem, tee_memory_create, Draw, RegTz
<1>6. ASSUME tee_release_mem(p) PROVE RelTz(p)
  <2>1. tee_memory_list' = {g \in tee_memory_list : g.id # r.memid}
    BY <1>6 DEF tee_release_mem, tee_memory_find
  <2>2. PICK ret \in Results : Answer(p, r, ret)
    BY <1>1, <1>6 DEF tee_release_mem
  <2> QED
    BY <1>2, <1>6, <2>1, <2>2 DEF tee_release_mem, RelTz
<1>7. ASSUME tee_open_session(p) PROVE OpenTz(p)
  <2>1. ASSUME NEW ret \in Results, Answer(p, [r EXCEPT !.session = fresh], ret)
        PROVE  Became(p, "post", ret, r.context, fresh, r.tmpid, r.memid, r.paddr, r.by)
    <3>1. PICK n \in Requests : n = [r EXCEPT !.session = fresh]
      BY <1>0, <1>1, Setters
    <3>2. /\ n.op = r.op /\ n.user = r.user /\ n.tmp = r.tmp /\ n.app = r.app /\ n.c = r.c /\ n.s = r.s /\ n.m = r.m
          /\ n.ret = r.ret /\ n.context = r.context /\ n.session = fresh /\ n.tmpid = r.tmpid
          /\ n.memid = r.memid /\ n.paddr = r.paddr /\ n.by = r.by
      BY <1>0, <1>1, <3>1, SetSession
    <3> QED
      BY <1>1, <2>1, <3>1, <3>2, AnswerBecame
  <2>2. ASSUME r.context \in tee_context_list, tee_session_create(r.context, r.app, <<p, r.s>>),
               IF r.app THEN \E ret \in {OK, REFUSED} : Answer(p, [r EXCEPT !.session = fresh], ret)
               ELSE Answer(p, r, REFUSED),
               UNCHANGED <<tee_context_list, tee_memory_list>>
        PROVE  OpenTz(p)
    BY <1>1, <1>2, <2>1, <2>2 DEF tee_session_create, Draw, OpenTz
  <2>3. ASSUME Shortage \/ r.context \notin tee_context_list, Answer(p, r, REFUSED),
               UNCHANGED <<tee_session_list, ids>>, UNCHANGED <<tee_context_list, tee_memory_list>>
        PROVE  OpenTz(p)
    BY <1>1, <1>2, <2>3 DEF OpenTz
  <2> QED
    BY <1>7, <2>2, <2>3 DEF tee_open_session
<1>8. ASSUME tee_close_session(p) PROVE CloseTz(p)
  <2>1. PICK ret \in Results : Answer(p, r, ret)
    BY <1>1, <1>8, SMTT(30) DEF tee_close_session
  <2> QED
    BY <1>2, <1>8, <2>1 DEF tee_close_session, CloseTz, Still
<1>9. ASSUME tee_invoke(p) PROVE InvokeTz(p)
  <2> DEFINE mm == CHOOSE g \in tee_memory_find(r.memid) : TRUE
             a == IF r.memid = 0 THEN 0 ELSE mm.paddr
  <2>0. Still
    BY <1>9 DEF tee_invoke, Still
  <2>1. ASSUME NEW f \in tee_session_find(r.session), r.memid = 0 \/ tee_memory_find(r.memid) # {},
               Answer(p, [r EXCEPT !.by = f.owner, !.paddr = a], OK)
        PROVE  InvokeTz(p)
    <3>1. a \in Int /\ IF r.memid = 0 THEN a = 0 ELSE \E g \in tee_memory_list : g.id = r.memid /\ g.paddr = a
      <4>1. CASE r.memid = 0
        BY <4>1
      <4>2. CASE r.memid # 0
        <5>1. mm \in tee_memory_find(r.memid)
          BY <2>1, <4>2
        <5>2. mm \in tee_memory_list /\ mm.id = r.memid /\ mm.paddr \in Int
          BY <5>1 DEF tee_memory_find, TypeInv
        <5>3. a = mm.paddr
          BY <4>2
        <5> HIDE DEF a, mm
        <5> QED
          BY <4>2, <5>2, <5>3
      <4> QED
        BY <4>1, <4>2
    <3>2. f \in tee_session_list /\ f.id = r.session /\ f.owner \in Owners
      BY <2>1 DEF tee_session_find, TypeInv
    <3> HIDE DEF a
    <3>3. PICK n \in Requests : n = [r EXCEPT !.by = f.owner, !.paddr = a]
      BY <1>0, <3>1, <3>2, Setters
    <3>4. /\ n.op = r.op /\ n.user = r.user /\ n.tmp = r.tmp /\ n.app = r.app /\ n.c = r.c /\ n.s = r.s /\ n.m = r.m
          /\ n.ret = r.ret /\ n.context = r.context /\ n.session = r.session /\ n.tmpid = r.tmpid
          /\ n.memid = r.memid /\ n.paddr = a /\ n.by = f.owner
      BY <1>0, <3>1, <3>2, <3>3 DEF Requests
    <3>5. Became(p, "post", OK, r.context, r.session, r.tmpid, r.memid, a, f.owner)
      BY <1>1, <2>1, <3>3, <3>4, AnswerBecame
    <3> QED
      BY <2>0, <3>1, <3>2, <3>5 DEF InvokeTz
  <2>2. ASSUME tee_session_find(r.session) = {} \/ (r.memid # 0 /\ tee_memory_find(r.memid) = {}),
               Answer(p, r, REFUSED)
        PROVE  InvokeTz(p)
    <3>1. \/ \A f \in tee_session_list : f.id # r.session
          \/ r.memid # 0 /\ \A g \in tee_memory_list : g.id # r.memid
      BY <2>2 DEF tee_session_find, tee_memory_find
    <3>2. Became(p, "post", REFUSED, r.context, r.session, r.tmpid, r.memid, r.paddr, r.by)
      BY <1>1, <1>2, <2>2
    <3> QED
      BY <2>0, <3>1, <3>2 DEF InvokeTz
  <2> QED
    BY <1>9, <2>1, <2>2 DEF tee_invoke
<1>10. /\ tee_init_context(p) => r.op = "init"
       /\ tee_finalize_context(p) => r.op = "fin"
       /\ tee_register_mem(p) => r.op = "reg"
       /\ tee_release_mem(p) => r.op = "rel"
       /\ tee_open_session(p) => r.op = "open"
       /\ tee_close_session(p) => r.op = "close"
       /\ tee_invoke(p) => r.op = "invoke"
  BY DEF tee_init_context, tee_finalize_context, tee_register_mem, tee_release_mem, tee_open_session,
         tee_close_session, tee_invoke
<1> QED
  BY <1>0, <1>3, <1>4, <1>5, <1>6, <1>7, <1>8, <1>9, <1>10 DEF tee_task

\* The effects of the hooks after the secure world.
InitPost(p) ==
  LET r == teemem[p] IN
  /\ ids' = ids + 1
  /\ tee_contexts' = tee_contexts \cup {[obj |-> ids + 1, id |-> p, tz_id |-> r.context]}
  /\ Became(p, "back", r.ret, p, r.session, r.tmpid, r.memid, r.paddr, r.by)
  /\ UNCHANGED <<svars, cvars, tee_sessions, tee_memories, tee_tmp_memories>>

FinPost(p) ==
  LET r == teemem[p] IN
  \/ /\ NoTzContext(r.context) /\ Still
     /\ Became(p, "back", r.ret, r.context, r.session, r.tmpid, r.memid, r.paddr, r.by)
  \/ \E e \in tee_contexts :
       /\ e.tz_id = r.context
       /\ tee_contexts' = tee_contexts \ {e}
       /\ tee_sessions' = {x \in tee_sessions : x.ctx # e.obj}
       /\ tee_memories' = {x \in tee_memories : x.ctx # e.obj}
       /\ Became(p, "back", r.ret, 0, r.session, r.tmpid, r.memid, r.paddr, r.by)
       /\ UNCHANGED <<svars, cvars, tee_tmp_memories, ids>>
  \/ \E e \in tee_contexts :
       /\ e.tz_id = r.context
       /\ tee_sessions' = {x \in tee_sessions : x.ctx # e.obj}
       /\ tee_memories' \in {tee_memories, {x \in tee_memories : x.ctx # e.obj}}
       /\ Became(p, "oops", r.ret, r.context, r.session, r.tmpid, r.memid, r.paddr, r.by)
       /\ UNCHANGED <<svars, cvars, tee_contexts, tee_tmp_memories, ids>>

RegPost(p) ==
  LET r == teemem[p] IN
  \/ Stopped(p) /\ (NoTzContext(r.context) \/ \A x \in tee_memories : x.obj # r.paddr)
  \/ \E e \in tee_contexts, mem \in tee_memories :
       /\ e.tz_id = r.context /\ mem.obj = r.paddr
       /\ tee_memories' = WithTzid(tee_memories, r.paddr, r.memid)
       /\ Became(p, "back", r.ret, r.context, r.session, r.tmpid, mem.id, r.paddr, r.by)
       /\ UNCHANGED <<svars, cvars, tee_contexts, tee_sessions, tee_tmp_memories, ids>>

RelPost(p) ==
  LET r == teemem[p] IN
  \/ Stopped(p) /\ \A x \in tee_memories : x.tz_id # r.memid
  \/ \E mem \in tee_memories :
       /\ mem.tz_id = r.memid
       /\ tee_memories' = tee_memories \ {mem}
       /\ Became(p, "back", r.ret, r.context, r.session, r.tmpid, r.memid, r.paddr, r.by)
       /\ UNCHANGED <<svars, cvars, tee_contexts, tee_sessions, tee_tmp_memories, ids>>

OpenPost(p) ==
  LET r == teemem[p] IN
  \/ Stopped(p) /\ (NoTzContext(r.context) \/ \A x \in tee_sessions : x.id # r.tmpid)
  \/ \E e \in tee_contexts, ses \in tee_sessions :
       /\ e.tz_id = r.context /\ ses.id = r.tmpid
       /\ tee_sessions' = WithTzid(tee_sessions, ses.obj, r.session)
       /\ Became(p, "back", r.ret, e.id, ses.id, r.tmpid, r.memid, r.paddr, r.by)
       /\ UNCHANGED <<svars, cvars, tee_contexts, tee_memories, tee_tmp_memories, ids>>

ClosePost(p) ==
  LET r == teemem[p] IN
  \/ Stopped(p) /\ \A x \in tee_sessions : x.tz_id # r.session
  \/ \E ses \in tee_sessions :
       /\ ses.tz_id = r.session
       /\ tee_sessions' = tee_sessions \ {ses}
       /\ Became(p, "back", r.ret, r.context, ses.id, r.tmpid, r.memid, r.paddr, r.by)
       /\ UNCHANGED <<svars, cvars, tee_contexts, tee_memories, tee_tmp_memories, ids>>

InvokePost(p) ==
  LET r == teemem[p] IN
  \/ /\ Stopped(p)
     /\ \/ \A e \in tee_sessions : e.tz_id # r.session
        \/ r.memid # 0 /\ \A e \in tee_memories : e.tz_id # r.memid
        \/ Faults
  \/ \E e \in tee_sessions, memid \in Int :
       /\ e.tz_id = r.session
       /\ IF r.memid = 0 THEN memid = 0 ELSE \E x \in tee_memories : x.tz_id = r.memid /\ x.id = memid
       /\ Became(p, "back", r.ret, r.context, e.id, r.tmpid, memid, r.paddr, r.by)
       /\ tee_tmp_memories' = [tee_tmp_memories EXCEPT ![p]["invoke"] = @ - r.tmp]
       /\ UNCHANGED <<svars, cvars, tee_contexts, tee_sessions, tee_memories, ids>>

\* The parameters on their way back: the call is over in either case.
LEMMA FromTz ==
  ASSUME TypeInv, NEW p \in Processes, teemem[p] # NULL, NEW n \in Requests, n.op \in {"open", "invoke"},
         n.op = teemem[p].op, n.user = teemem[p].user, n.tmp = teemem[p].tmp, n.app = teemem[p].app,
         n.c = teemem[p].c, n.s = teemem[p].s, n.m = teemem[p].m, tee_translate_parameter_from_tz(p, n)
  PROVE  /\ \A q \in Processes : q # p => tee_tmp_memories'[q] = tee_tmp_memories[q]
         /\ \/ /\ Gone(p)
               /\ \/ Faults
                  \/ UNCHANGED tee_tmp_memories /\ n.memid # 0 /\ \A x \in tee_memories : x.tz_id # n.memid
            \/ \E memid \in Int :
                 /\ IF n.memid = 0 THEN memid = 0 ELSE \E x \in tee_memories : x.tz_id = n.memid /\ x.id = memid
                 /\ Became(p, "back", n.ret, n.context, n.session, n.tmpid, memid, n.paddr, n.by)
                 /\ tee_tmp_memories' = [tee_tmp_memories EXCEPT ![p][n.op] = @ - n.tmp]
<1> DEFINE Mems == IF n.memid = 0 THEN {NoMemory} ELSE find_by_tzid(tee_memories, n.memid)
<1>1. tee_tmp_memories \in [Processes -> [{"open", "invoke"} -> Int]] /\ "back" \in Stages
  BY Constants DEF TypeInv
<1>2. ASSUME NEW mem \in Mems, mem \in {NULL, Wild}, Lost(p, mem)
      PROVE  Gone(p) /\ n.memid # 0 /\ \A x \in tee_memories : x.tz_id # n.memid
  <2>1. n.memid # 0
    BY <1>2, NoMemoryThere
  <2>2. {x \in tee_memories : x.tz_id = n.memid} = {}
    BY <1>2, <2>1, NotFound DEF find_by_tzid
  <2>3. Gone(p)
    BY <1>2, LostGone
  <2> QED
    BY <2>1, <2>2, <2>3
<1>3. ASSUME NEW mem \in Mems, mem \notin {NULL, Wild}, Goes(p, [n EXCEPT !.memid = mem.id], "back")
      PROVE  /\ mem.id \in Int
             /\ IF n.memid = 0 THEN mem.id = 0 ELSE \E x \in tee_memories : x.tz_id = n.memid /\ x.id = mem.id
             /\ Became(p, "back", n.ret, n.context, n.session, n.tmpid, mem.id, n.paddr, n.by)
  <2>1. mem.id \in Int
    BY <1>3, ParameterMemory
  <2>2. IF n.memid = 0 THEN mem.id = 0 ELSE \E x \in tee_memories : x.tz_id = n.memid /\ x.id = mem.id
    <3>1. CASE n.memid = 0
      BY <1>3, <3>1, NoMemoryType
    <3>2. CASE n.memid # 0
      BY <1>3, <3>2, FoundTzid
    <3> QED
      BY <3>1, <3>2
  <2>3. PICK k \in Requests : k = [n EXCEPT !.memid = mem.id]
    BY <2>1, Setters
  <2>4. /\ k.op = n.op /\ k.user = n.user /\ k.tmp = n.tmp /\ k.app = n.app /\ k.c = n.c /\ k.s = n.s /\ k.m = n.m
        /\ k.ret = n.ret /\ k.context = n.context /\ k.session = n.session /\ k.tmpid = n.tmpid
        /\ k.memid = mem.id /\ k.paddr = n.paddr /\ k.by = n.by
    BY <2>1, <2>3, SetMemid
  <2>5. Became(p, "back", k.ret, k.context, k.session, k.tmpid, k.memid, k.paddr, k.by)
    BY <1>1, <1>3, <2>3, <2>4, GoesBecame
  <2> QED
    BY <2>1, <2>2, <2>4, <2>5
<1>4. ASSUME Fails(p) PROVE Gone(p)
  BY <1>4, LostGone
<1> HIDE DEF Mems
<1>5. \/ \E mem \in Mems :
           \/ mem \in {NULL, Wild} /\ Lost(p, mem) /\ UNCHANGED tee_tmp_memories
           \/ /\ mem \notin {NULL, Wild}
              /\ tee_tmp_memories' = [tee_tmp_memories EXCEPT ![p][n.op] = @ - n.tmp]
              /\ Goes(p, [n EXCEPT !.memid = mem.id], "back")
      \/ /\ Faults /\ Fails(p)
         /\ \E k \in 0..n.tmp : tee_tmp_memories' = [tee_tmp_memories EXCEPT ![p][n.op] = @ - k]
  BY DEF tee_translate_parameter_from_tz, Mems
<1>6. \/ UNCHANGED tee_tmp_memories
      \/ \E k : tee_tmp_memories' = [tee_tmp_memories EXCEPT ![p][n.op] = @ - k]
  BY <1>5
<1>7. \A q \in Processes : q # p => tee_tmp_memories'[q] = tee_tmp_memories[q]
  BY <1>1, <1>6
<1> QED
  BY <1>2, <1>3, <1>4, <1>5, <1>7

\* The hooks after the secure world.
LEMMA PostEffect ==
  ASSUME TypeInv, NEW p \in Processes, tee_process_post(p), UNCHANGED cvars
  PROVE  /\ teemem[p] # NULL /\ teemem[p] \in Requests /\ teemem[p].at = "post"
         /\ \/ teemem[p].op = "init" /\ InitPost(p)
            \/ teemem[p].op = "fin" /\ FinPost(p)
            \/ teemem[p].op = "reg" /\ RegPost(p)
            \/ teemem[p].op = "rel" /\ RelPost(p)
            \/ teemem[p].op = "open" /\ OpenPost(p)
            \/ teemem[p].op = "close" /\ ClosePost(p)
            \/ teemem[p].op = "invoke" /\ InvokePost(p)
<1> DEFINE r == teemem[p]
<1>0. r # NULL /\ r \in Requests /\ r.at = "post"
  BY DEF TypeInv, tee_process_post, At
<1>1. UNCHANGED <<svars, cvars>>
  BY DEF tee_process_post
<1>2. /\ r.op \in Ops /\ fresh = ids + 1 /\ fresh \in Int /\ "back" \in Stages /\ "oops" \in Stages
      /\ r.context \in Int /\ r.session \in Int /\ r.memid \in Int /\ p \in Int /\ 0 \in Int
  BY <1>0, Constants DEF TypeInv, Requests, fresh
<1>3. ASSUME NEW e, Missed(p, e) PROVE Stopped(p)
  BY <1>0, <1>1, <1>3, MissedStops
<1>4. ASSUME NEW at \in {"back", "oops"}, Goes(p, r, at)
      PROVE  Became(p, at, r.ret, r.context, r.session, r.tmpid, r.memid, r.paddr, r.by)
  BY <1>0, <1>2, <1>4, GoesBecame
<1>12. ASSUME NEW e \in find_by_tzid(tee_contexts, r.context), e \in {NULL, Wild} PROVE NoTzContext(r.context)
  <2>1. {x \in tee_contexts : x.tz_id = r.context} = {}
    BY <1>12, NotFound DEF find_by_tzid
  <2> QED
    BY <2>1 DEF NoTzContext
<1>13. ASSUME NEW e \in find_by_tzid(tee_contexts, r.context), e \notin {NULL, Wild}
       PROVE  e \in tee_contexts /\ e.tz_id = r.context /\ e.id \in Int
  <2>1. e \in tee_contexts /\ e.tz_id = r.context
    BY <1>13, FoundTzid
  <2> QED
    BY <2>1, Constants DEF TypeInv, CtxEntry
<1>14. ASSUME NEW e \in find_by_tzid(tee_sessions, r.session), e \in {NULL, Wild}
       PROVE  \A x \in tee_sessions : x.tz_id # r.session
  <2>1. {x \in tee_sessions : x.tz_id = r.session} = {}
    BY <1>14, NotFound DEF find_by_tzid
  <2> QED
    BY <2>1
<1>15. ASSUME NEW e \in find_by_tzid(tee_sessions, r.session), e \notin {NULL, Wild}
       PROVE  e \in tee_sessions /\ e.tz_id = r.session /\ e.id \in Int
  <2>1. e \in tee_sessions /\ e.tz_id = r.session
    BY <1>15, FoundTzid
  <2> QED
    BY <2>1 DEF TypeInv, SesEntry
<1>16. ASSUME NEW e \in find_by_tzid(tee_memories, r.memid), e \in {NULL, Wild}
       PROVE  \A x \in tee_memories : x.tz_id # r.memid
  <2>1. {x \in tee_memories : x.tz_id = r.memid} = {}
    BY <1>16, NotFound DEF find_by_tzid
  <2> QED
    BY <2>1
<1>17. ASSUME NEW e \in find_by_tzid(tee_memories, r.memid), e \notin {NULL, Wild}
       PROVE  e \in tee_memories /\ e.tz_id = r.memid /\ e.id \in Int
  <2>1. e \in tee_memories /\ e.tz_id = r.memid
    BY <1>17, FoundTzid
  <2> QED
    BY <2>1 DEF TypeInv, MemEntry
<1>5. ASSUME tee_ctx_init_post(p) PROVE InitPost(p)
  <2>0. /\ tee_context_add(p, r.context) = [obj |-> ids + 1, id |-> p, tz_id |-> r.context]
        /\ tee_context_add(p, 0).id = p
    BY <1>2 DEF tee_context_add
  <2>1. PICK n \in Requests : n = [r EXCEPT !.context = p]
    BY <1>0, <1>2, Setters
  <2>2. /\ n.op = r.op /\ n.user = r.user /\ n.tmp = r.tmp /\ n.app = r.app /\ n.c = r.c /\ n.s = r.s /\ n.m = r.m
        /\ n.ret = r.ret /\ n.context = p /\ n.session = r.session /\ n.tmpid = r.tmpid
        /\ n.memid = r.memid /\ n.paddr = r.paddr /\ n.by = r.by
    BY <1>0, <1>2, <2>1, SetContext
  <2>3. Goes(p, n, "back")
    BY <1>5, <2>0, <2>1 DEF tee_ctx_init_post
  <2>4. Became(p, "back", n.ret, n.context, n.session, n.tmpid, n.memid, n.paddr, n.by)
    BY <1>2, <2>2, <2>3, GoesBecame
  <2> QED
    BY <1>1, <1>2, <1>5, <2>0, <2>2, <2>4 DEF tee_ctx_init_post, InitPost, Draw
<1>6. ASSUME tee_ctx_finalize_post(p) PROVE FinPost(p)
  <2>1. ASSUME NEW e \in find_by_tzid(tee_contexts, r.context), e \in {NULL, Wild}, Goes(p, r, "back"),
               UNCHANGED <<dvars, ids>>
        PROVE  FinPost(p)
    BY <1>1, <1>4, <1>12, <2>1 DEF FinPost, Still
  <2>2. ASSUME NEW e \in find_by_tzid(tee_contexts, r.context), e \notin {NULL, Wild},
               tee_contexts' = tee_contexts \ {e}, tee_sessions' = {x \in tee_sessions : x.ctx # e.obj},
               tee_memories' = {x \in tee_memories : x.ctx # e.obj},
               Goes(p, [r EXCEPT !.context = 0], "back"), UNCHANGED <<tee_tmp_memories, ids>>
        PROVE  FinPost(p)
    <3>1. PICK n \in Requests : n = [r EXCEPT !.context = 0]
      BY <1>0, <1>2, Setters
    <3>2. /\ n.op = r.op /\ n.user = r.user /\ n.tmp = r.tmp /\ n.app = r.app /\ n.c = r.c /\ n.s = r.s /\ n.m = r.m
          /\ n.ret = r.ret /\ n.context = 0 /\ n.session = r.session /\ n.tmpid = r.tmpid
          /\ n.memid = r.memid /\ n.paddr = r.paddr /\ n.by = r.by
      BY <1>0, <1>2, <3>1, SetContext
    <3>3. Became(p, "back", n.ret, n.context, n.session, n.tmpid, n.memid, n.paddr, n.by)
      BY <1>2, <2>2, <3>1, <3>2, GoesBecame
    <3> QED
      BY <1>1, <1>13, <2>2, <3>2, <3>3 DEF FinPost
  <2>3. ASSUME NEW e \in find_by_tzid(tee_contexts, r.context), e \notin {NULL, Wild},
               tee_sessions' = {x \in tee_sessions : x.ctx # e.obj},
               tee_memories' \in {tee_memories, {x \in tee_memories : x.ctx # e.obj}},
               Goes(p, r, "oops"), UNCHANGED <<tee_contexts, tee_tmp_memories, ids>>
        PROVE  FinPost(p)
    BY <1>1, <1>4, <1>13, <2>3 DEF FinPost
  <2> QED
    BY <1>6, <2>1, <2>2, <2>3 DEF tee_ctx_finalize_post
<1>7. ASSUME tee_mem_reg_post(p) PROVE RegPost(p)
  <2>1. ASSUME NEW e \in find_by_tzid(tee_contexts, r.context), e \in {NULL, Wild}, Missed(p, e) PROVE RegPost(p)
    BY <1>3, <1>12, <2>1 DEF RegPost
  <2>2. ASSUME NEW mem \in find(tee_memories, {x \in tee_memories : x.obj = r.paddr}), mem \in {NULL, Wild},
               Missed(p, mem)
        PROVE  RegPost(p)
    <3>1. {x \in tee_memories : x.obj = r.paddr} = {}
      BY <2>2, NotFound
    <3> QED
      BY <3>1, <1>3, <2>2 DEF RegPost
  <2>3. ASSUME NEW e \in find_by_tzid(tee_contexts, r.context), e \notin {NULL, Wild},
               NEW mem \in find(tee_memories, {x \in tee_memories : x.obj = r.paddr}), mem \notin {NULL, Wild},
               tee_memories' = WithTzid(tee_memories, mem.obj, r.memid),
               Goes(p, [r EXCEPT !.memid = mem.id], "back"),
               UNCHANGED <<tee_contexts, tee_sessions, tee_tmp_memories, ids>>
        PROVE  RegPost(p)
    <3>0. mem \in tee_memories /\ mem.obj = r.paddr /\ mem.id \in Int
      <4>1. mem \in {x \in tee_memories : x.obj = r.paddr}
        BY <2>3, Found
      <4> QED
        BY <4>1 DEF TypeInv, MemEntry
    <3>1. PICK n \in Requests : n = [r EXCEPT !.memid = mem.id]
      BY <1>0, <3>0, Setters
    <3>2. /\ n.op = r.op /\ n.user = r.user /\ n.tmp = r.tmp /\ n.app = r.app /\ n.c = r.c /\ n.s = r.s /\ n.m = r.m
          /\ n.ret = r.ret /\ n.context = r.context /\ n.session = r.session /\ n.tmpid = r.tmpid
          /\ n.memid = mem.id /\ n.paddr = r.paddr /\ n.by = r.by
      BY <1>0, <3>0, <3>1, SetMemid
    <3>3. Became(p, "back", n.ret, n.context, n.session, n.tmpid, n.memid, n.paddr, n.by)
      BY <1>2, <2>3, <3>1, <3>2, GoesBecame
    <3> QED
      BY <1>1, <1>13, <2>3, <3>0, <3>2, <3>3 DEF RegPost
  <2> QED
    BY <1>7, <2>1, <2>2, <2>3 DEF tee_mem_reg_post
<1>8. ASSUME tee_mem_rel_post(p) PROVE RelPost(p)
  <2>1. ASSUME NEW e \in find_by_tzid(tee_memories, r.memid), e \in {NULL, Wild}, Missed(p, e) PROVE RelPost(p)
    BY <1>3, <1>16, <2>1 DEF RelPost
  <2>2. ASSUME NEW e \in find_by_tzid(tee_memories, r.memid), e \notin {NULL, Wild},
               tee_memories' = tee_memories \ {e},
               Goes(p, r, "back"), UNCHANGED <<tee_contexts, tee_sessions, tee_tmp_memories, ids>>
        PROVE  RelPost(p)
    BY <1>1, <1>4, <1>17, <2>2 DEF RelPost
  <2> QED
    BY <1>8, <2>1, <2>2 DEF tee_mem_rel_post
<1>9. ASSUME tee_session_open_post(p) PROVE OpenPost(p)
  <2>1. ASSUME NEW e \in find_by_tzid(tee_contexts, r.context), e \in {NULL, Wild}, Missed(p, e) PROVE OpenPost(p)
    BY <1>3, <1>12, <2>1 DEF OpenPost
  <2>2. ASSUME NEW ses \in tee_session_opened(p), ses \in {NULL, Wild}, Missed(p, ses)
        PROVE  OpenPost(p)
    <3>1. {x \in tee_sessions : x.id = r.tmpid} = {}
      BY <2>2, NotFound DEF tee_session_opened, find_by_id
    <3> QED
      BY <3>1, <1>3, <2>2 DEF OpenPost
  <2>3. ASSUME NEW e \in find_by_tzid(tee_contexts, r.context), e \notin {NULL, Wild},
               NEW ses \in tee_session_opened(p), ses \notin {NULL, Wild},
               tee_sessions' = WithTzid(tee_sessions, ses.obj, r.session),
               Goes(p, [r EXCEPT !.session = ses.id, !.context = e.id], "back"),
               UNCHANGED <<tee_contexts, tee_memories, tee_tmp_memories, ids>>
        PROVE  OpenPost(p)
    <3>0. ses \in tee_sessions /\ ses.id = r.tmpid /\ ses.id \in Int
      <4>1. ses \in tee_sessions /\ ses.id = r.tmpid
        BY <2>3, FoundId DEF tee_session_opened
      <4> QED
        BY <4>1 DEF TypeInv, SesEntry
    <3>4. e \in tee_contexts /\ e.tz_id = r.context /\ e.id \in Int
      BY <1>13, <2>3, SMTT(30)
    <3>1. PICK n \in Requests : n = [r EXCEPT !.session = ses.id, !.context = e.id]
      BY <1>0, <3>0, <3>4, Setters2
    <3>2. /\ n.op = r.op /\ n.user = r.user /\ n.tmp = r.tmp /\ n.app = r.app /\ n.c = r.c /\ n.s = r.s /\ n.m = r.m
          /\ n.ret = r.ret /\ n.context = e.id /\ n.session = ses.id /\ n.tmpid = r.tmpid
          /\ n.memid = r.memid /\ n.paddr = r.paddr /\ n.by = r.by
      BY <1>0, <3>0, <3>4, <3>1 DEF Requests
    <3>3. Became(p, "back", n.ret, n.context, n.session, n.tmpid, n.memid, n.paddr, n.by)
      BY <1>2, <2>3, <3>1, <3>2, GoesBecame
    <3> QED
      BY <1>1, <2>3, <3>0, <3>2, <3>3, <3>4 DEF OpenPost
  <2> QED
    BY <1>9, <2>1, <2>2, <2>3 DEF tee_session_open_post
<1>10. ASSUME tee_session_close_post(p) PROVE ClosePost(p)
  <2>1. ASSUME NEW e \in find_by_tzid(tee_sessions, r.session), e \in {NULL, Wild}, Missed(p, e) PROVE ClosePost(p)
    BY <1>3, <1>14, <2>1 DEF ClosePost
  <2>2. ASSUME NEW e \in find_by_tzid(tee_sessions, r.session), e \notin {NULL, Wild},
               tee_sessions' = tee_sessions \ {e},
               Goes(p, [r EXCEPT !.session = e.id], "back"),
               UNCHANGED <<tee_contexts, tee_memories, tee_tmp_memories, ids>>
        PROVE  ClosePost(p)
    <3>1. PICK n \in Requests : n = [r EXCEPT !.session = e.id]
      BY <1>0, <1>15, <2>2, Setters
    <3>2. /\ n.op = r.op /\ n.user = r.user /\ n.tmp = r.tmp /\ n.app = r.app /\ n.c = r.c /\ n.s = r.s /\ n.m = r.m
          /\ n.ret = r.ret /\ n.context = r.context /\ n.session = e.id /\ n.tmpid = r.tmpid
          /\ n.memid = r.memid /\ n.paddr = r.paddr /\ n.by = r.by
      BY <1>0, <1>15, <2>2, <3>1, SetSession
    <3>3. Became(p, "back", n.ret, n.context, n.session, n.tmpid, n.memid, n.paddr, n.by)
      BY <1>2, <2>2, <3>1, <3>2, GoesBecame
    <3> QED
      BY <1>1, <1>15, <2>2, <3>2, <3>3 DEF ClosePost
  <2> QED
    BY <1>10, <2>1, <2>2 DEF tee_session_close_post
<1>11. ASSUME r.op = "invoke", tee_invoke_post(p) PROVE InvokePost(p)
  <2>1. ASSUME NEW e \in find_by_tzid(tee_sessions, r.session), e \in {NULL, Wild}, Missed(p, e) PROVE InvokePost(p)
    BY <1>3, <1>14, <2>1 DEF InvokePost
  <2>2. ASSUME NEW e \in find_by_tzid(tee_sessions, r.session), e \notin {NULL, Wild},
               tee_translate_parameter_from_tz(p, [r EXCEPT !.session = e.id]),
               UNCHANGED <<tee_contexts, tee_sessions, tee_memories, ids>>
        PROVE  InvokePost(p)
    <3>1. PICK n \in Requests : n = [r EXCEPT !.session = e.id]
      BY <1>0, <1>15, <2>2, Setters
    <3>2. /\ n.op = r.op /\ n.user = r.user /\ n.tmp = r.tmp /\ n.app = r.app /\ n.c = r.c /\ n.s = r.s /\ n.m = r.m
          /\ n.ret = r.ret /\ n.context = r.context /\ n.session = e.id /\ n.tmpid = r.tmpid
          /\ n.memid = r.memid /\ n.paddr = r.paddr /\ n.by = r.by
      BY <1>0, <1>15, <2>2, <3>1, SetSession
    <3>3. tee_translate_parameter_from_tz(p, n)
      BY <2>2, <3>1
    <3>4. /\ \A q \in Processes : q # p => tee_tmp_memories'[q] = tee_tmp_memories[q]
          /\ \/ /\ Gone(p)
                /\ Faults \/ (UNCHANGED tee_tmp_memories /\ r.memid # 0 /\ \A x \in tee_memories : x.tz_id # r.memid)
             \/ \E memid \in Int :
                  /\ IF r.memid = 0 THEN memid = 0 ELSE \E x \in tee_memories : x.tz_id = r.memid /\ x.id = memid
                  /\ Became(p, "back", r.ret, r.context, e.id, r.tmpid, memid, r.paddr, r.by)
                  /\ tee_tmp_memories' = [tee_tmp_memories EXCEPT ![p]["invoke"] = @ - r.tmp]
      BY <1>0, <1>11, <3>2, <3>3, FromTz
    <3>5. e \in tee_sessions /\ e.tz_id = r.session
      BY <1>15, <2>2
    <3> QED
      BY <1>1, <2>2, <3>4, <3>5 DEF InvokePost, Stopped
  <2> QED
    BY <1>11, <2>1, <2>2 DEF tee_invoke_post
<1> QED
  BY <1>0, <1>2, <1>5, <1>6, <1>7, <1>8, <1>9, <1>10, <1>11 DEF tee_process_post, Ops

\* A call begins: the page of p, which was free, holds the request.
Began(p, op, context1, session1, memid, user, tmp, c, s, m) ==
  /\ teemem[p] = NULL
  /\ \A q \in Processes : q # p => teemem'[q] = teemem[q]
  /\ teemem'[p] # NULL
  /\ teemem'[p].op = op /\ teemem'[p].at = "pre" /\ teemem'[p].ret = OK /\ teemem'[p].context = context1
  /\ teemem'[p].session = session1 /\ teemem'[p].tmpid = 0 /\ teemem'[p].memid = memid /\ teemem'[p].paddr = 0
  /\ teemem'[p].user = user /\ teemem'[p].tmp = tmp
  /\ teemem'[p].c = c /\ teemem'[p].s = s /\ teemem'[p].m = m
  /\ UNCHANGED <<svars, ids, dvars>>

\* The effects of the calls of the client library.
BeginInit(p) ==
  \E c \in Contexts : /\ context[p][c] = 0 /\ UNCHANGED cvars
                      /\ Began(p, "init", 0, 0, 0, NULL, 0, c, NULL, NULL)
BeginFin(p) ==
  \E c \in Contexts :
    /\ context[p][c] # 0 /\ \A s \in Sessions : session[p][s].c # c
    /\ Began(p, "fin", context[p][c], 0, 0, NULL, 0, c, NULL, NULL)
    /\ context' = [context EXCEPT ![p][c] = 0]
    /\ memory' = [memory EXCEPT ![p] = [m \in Memories |-> IF @[m].c = c THEN Closed ELSE @[m]]]
    /\ UNCHANGED session
BeginReg(p) ==
  \E c \in Contexts, m \in Memories :
    /\ context[p][c] # 0 /\ memory[p][m] = Closed /\ UNCHANGED cvars
    /\ Began(p, "reg", context[p][c], 0, 0, <<p, m>>, 0, c, NULL, m)
BeginRel(p) ==
  \E m \in Memories :
    /\ \E c \in Contexts : context[p][c] # 0
    /\ Began(p, "rel", 0, 0, memory[p][m].id, <<p, m>>, 0, NULL, NULL, NULL)
    /\ memory' = [memory EXCEPT ![p][m] = Closed]
    /\ UNCHANGED <<context, session>>
BeginOpen(p) ==
  \E c \in Contexts, s \in Sessions, m \in Memories0, tmp \in Temporaries :
    /\ context[p][c] # 0 /\ session[p][s] = Closed /\ UNCHANGED cvars
    /\ m # NULL => m \in Memories /\ memory[p][m] # Closed
    /\ Began(p, "open", context[p][c], 0, IF m = NULL THEN 0 ELSE memory[p][m].id, NULL, tmp, c, s, m)
BeginClose(p) ==
  \E s \in Sessions :
    /\ session[p][s] # Closed
    /\ Began(p, "close", 0, session[p][s].id, 0, NULL, 0, NULL, NULL, NULL)
    /\ session' = [session EXCEPT ![p][s] = Closed]
    /\ UNCHANGED <<context, memory>>
BeginInvoke(p) ==
  \E s \in Sessions, m \in Memories0, tmp \in Temporaries :
    /\ session[p][s] # Closed /\ UNCHANGED cvars
    /\ m # NULL => m \in Memories /\ memory[p][m] # Closed
    /\ Began(p, "invoke", 0, session[p][s].id, IF m = NULL THEN 0 ELSE memory[p][m].id, NULL, tmp, NULL, s, m)

\* The calls of the client library, up to the driver.
LEMMA CallEffect ==
  ASSUME TypeInv, NEW p \in Processes, Calls(p)
  PROVE  \/ BeginInit(p) \/ BeginFin(p) \/ BeginReg(p) \/ BeginRel(p) \/ BeginOpen(p) \/ BeginClose(p)
         \/ BeginInvoke(p)
<1>0. \A c \in Contexts : context[p][c] \in Int
  BY DEF TypeInv
<1>1. \A s \in Sessions : session[p][s].id \in Int
  BY DEF TypeInv
<1>2. \A m \in Memories : memory[p][m].id \in Int
  BY DEF TypeInv
<1>11. \A m \in Memories : <<p, m>> \in Users
  BY Constants
<1>12. \A r \in Requests : processComm(p, r) =>
         /\ teemem[p] = NULL
         /\ \A q \in Processes : q # p => teemem'[q] = teemem[q]
         /\ teemem'[p] = r /\ r # NULL /\ UNCHANGED <<svars, ids, dvars>>
  BY ClientAssumption DEF processComm, TypeInv
<1>4. ASSUME NEW c \in Contexts, TEEC_InitializeContext(p, c) PROVE BeginInit(p)
  <2>1. PICK k \in Requests : k = Call("init")
    BY CallFields, Constants
  <2>2. /\ k.op = "init" /\ k.at = "pre" /\ k.ret = OK /\ k.context = 0 /\ k.session = 0 /\ k.tmpid = 0 /\ k.memid = 0
        /\ k.paddr = 0 /\ k.user = NULL /\ k.tmp = 0 /\ k.c = NULL /\ k.s = NULL /\ k.m = NULL
    BY <2>1 DEF Call
  <2>3. PICK r \in Requests : r = [k EXCEPT !.c = c]
    BY Constants DEF Requests
  <2>4. /\ r.op = "init" /\ r.at = "pre" /\ r.ret = OK /\ r.context = 0 /\ r.session = 0 /\ r.tmpid = 0 /\ r.memid = 0
        /\ r.paddr = 0 /\ r.user = NULL /\ r.tmp = 0 /\ r.c = c /\ r.s = NULL /\ r.m = NULL
    BY <2>2, <2>3, Constants DEF Requests
  <2>5. processComm(p, r)
    BY <1>4, <2>1, <2>3 DEF TEEC_InitializeContext
  <2> QED
    BY <1>4, <1>12, <2>4, <2>5 DEF TEEC_InitializeContext, BeginInit, Began
<1>5. ASSUME NEW c \in Contexts, TEEC_FinalizeContext(p, c) PROVE BeginFin(p)
  <2>1. PICK k \in Requests : k = Call("fin")
    BY CallFields, Constants
  <2>2. /\ k.op = "fin" /\ k.at = "pre" /\ k.ret = OK /\ k.context = 0 /\ k.session = 0 /\ k.tmpid = 0 /\ k.memid = 0
        /\ k.paddr = 0 /\ k.user = NULL /\ k.tmp = 0 /\ k.c = NULL /\ k.s = NULL /\ k.m = NULL
    BY <2>1 DEF Call
  <2>6. PICK x \in Int : x = context[p][c]
    BY <1>0
  <2>3. PICK r \in Requests : r = [k EXCEPT !.c = c, !.context = x]
    BY Constants DEF Requests
  <2>4. /\ r.op = "fin" /\ r.at = "pre" /\ r.ret = OK /\ r.context = x /\ r.session = 0 /\ r.tmpid = 0 /\ r.memid = 0
        /\ r.paddr = 0 /\ r.user = NULL /\ r.tmp = 0 /\ r.c = c /\ r.s = NULL /\ r.m = NULL
    BY <2>2, <2>3, Constants DEF Requests
  <2>5. processComm(p, r)
    BY <1>5, <2>1, <2>3, <2>6 DEF TEEC_FinalizeContext
  <2> QED
    BY <1>5, <1>12, <2>4, <2>5, <2>6 DEF TEEC_FinalizeContext, BeginFin, Began
<1>6. ASSUME NEW c \in Contexts, NEW m \in Memories, TEEC_RegisterSharedMemory(p, c, m) PROVE BeginReg(p)
  <2>1. PICK k \in Requests : k = Call("reg")
    BY CallFields, Constants
  <2>2. /\ k.op = "reg" /\ k.at = "pre" /\ k.ret = OK /\ k.context = 0 /\ k.session = 0 /\ k.tmpid = 0 /\ k.memid = 0
        /\ k.paddr = 0 /\ k.user = NULL /\ k.tmp = 0 /\ k.c = NULL /\ k.s = NULL /\ k.m = NULL
    BY <2>1 DEF Call
  <2>6. PICK x \in Int : x = context[p][c]
    BY <1>0, <1>11
  <2>7. PICK u \in Users : u = <<p, m>>
    BY <1>0, <1>11
  <2>3. PICK r \in Requests : r = [k EXCEPT !.c = c, !.m = m, !.context = x, !.user = u]
    BY Constants DEF Requests
  <2>4. /\ r.op = "reg" /\ r.at = "pre" /\ r.ret = OK /\ r.context = x /\ r.session = 0 /\ r.tmpid = 0 /\ r.memid = 0
        /\ r.paddr = 0 /\ r.user = u /\ r.tmp = 0 /\ r.c = c /\ r.s = NULL /\ r.m = m
    BY <2>2, <2>3, Constants DEF Requests
  <2>5. processComm(p, r)
    BY <1>6, <2>1, <2>3, <2>6, <2>7 DEF TEEC_RegisterSharedMemory
  <2> QED
    BY <1>6, <1>12, <2>4, <2>5, <2>6, <2>7 DEF TEEC_RegisterSharedMemory, BeginReg, Began
<1>7. ASSUME NEW m \in Memories, TEEC_ReleaseSharedMemory(p, m) PROVE BeginRel(p)
  <2>1. PICK k \in Requests : k = Call("rel")
    BY CallFields, Constants
  <2>2. /\ k.op = "rel" /\ k.at = "pre" /\ k.ret = OK /\ k.context = 0 /\ k.session = 0 /\ k.tmpid = 0 /\ k.memid = 0
        /\ k.paddr = 0 /\ k.user = NULL /\ k.tmp = 0 /\ k.c = NULL /\ k.s = NULL /\ k.m = NULL
    BY <2>1 DEF Call
  <2>6. PICK x \in Int : x = memory[p][m].id
    BY <1>2, <1>11
  <2>7. PICK u \in Users : u = <<p, m>>
    BY <1>2, <1>11
  <2>3. PICK r \in Requests : r = [k EXCEPT !.memid = x, !.user = u]
    BY Constants DEF Requests
  <2>4. /\ r.op = "rel" /\ r.at = "pre" /\ r.ret = OK /\ r.context = 0 /\ r.session = 0 /\ r.tmpid = 0 /\ r.memid = x
        /\ r.paddr = 0 /\ r.user = u /\ r.tmp = 0 /\ r.c = NULL /\ r.s = NULL /\ r.m = NULL
    BY <2>2, <2>3, Constants DEF Requests
  <2>5. processComm(p, r)
    BY <1>7, <2>1, <2>3, <2>6, <2>7 DEF TEEC_ReleaseSharedMemory
  <2> QED
    BY <1>7, <1>12, <2>4, <2>5, <2>6, <2>7 DEF TEEC_ReleaseSharedMemory, BeginRel, Began
<1>8. ASSUME NEW c \in Contexts, NEW s \in Sessions, NEW app \in BOOLEAN, NEW m \in Memories0,
             NEW tmp \in Temporaries, TEEC_OpenSession(p, c, s, app, m, tmp)
      PROVE  BeginOpen(p)
  <2> DEFINE id == IF m = NULL THEN 0 ELSE memory[p][m].id
  <2>0. id \in Int /\ (m # NULL => m \in Memories)
    BY <1>2 DEF Memories0
  <2> HIDE DEF id
  <2>1. PICK k \in Requests : k = Call("open")
    BY CallFields, Constants
  <2>2. /\ k.op = "open" /\ k.at = "pre" /\ k.ret = OK /\ k.context = 0 /\ k.session = 0 /\ k.tmpid = 0 /\ k.memid = 0
        /\ k.paddr = 0 /\ k.user = NULL /\ k.tmp = 0 /\ k.c = NULL /\ k.s = NULL /\ k.m = NULL
    BY <2>1 DEF Call
  <2>6. PICK x \in Int : x = context[p][c]
    BY <1>0
  <2>8. PICK y \in Int : y = id
    BY <1>1, <2>0
  <2>3. PICK r \in Requests : r = [k EXCEPT !.c = c, !.s = s, !.app = app, !.context = x, !.m = m, !.tmp = tmp,
                                            !.memid = y]
    BY Constants DEF Requests
  <2>4. /\ r.op = "open" /\ r.at = "pre" /\ r.ret = OK /\ r.context = x /\ r.session = 0 /\ r.tmpid = 0 /\ r.memid = y
        /\ r.paddr = 0 /\ r.user = NULL /\ r.tmp = tmp /\ r.c = c /\ r.s = s /\ r.m = m
    BY <2>2, <2>3, Constants DEF Requests
  <2>5. processComm(p, r)
    BY <1>8, <2>1, <2>3, <2>6, <2>8 DEF TEEC_OpenSession, id
  <2> QED
    BY <1>8, <1>12, <2>0, <2>4, <2>5, <2>6, <2>8 DEF TEEC_OpenSession, BeginOpen, Began, id
<1>9. ASSUME NEW s \in Sessions, TEEC_CloseSession(p, s) PROVE BeginClose(p)
  <2>1. PICK k \in Requests : k = Call("close")
    BY CallFields, Constants
  <2>2. /\ k.op = "close" /\ k.at = "pre" /\ k.ret = OK /\ k.context = 0 /\ k.session = 0 /\ k.tmpid = 0 /\ k.memid = 0
        /\ k.paddr = 0 /\ k.user = NULL /\ k.tmp = 0 /\ k.c = NULL /\ k.s = NULL /\ k.m = NULL
    BY <2>1 DEF Call
  <2>6. PICK x \in Int : x = session[p][s].id
    BY <1>1
  <2>3. PICK r \in Requests : r = [k EXCEPT !.session = x]
    BY Constants DEF Requests
  <2>4. /\ r.op = "close" /\ r.at = "pre" /\ r.ret = OK /\ r.context = 0 /\ r.session = x /\ r.tmpid = 0 /\ r.memid = 0
        /\ r.paddr = 0 /\ r.user = NULL /\ r.tmp = 0 /\ r.c = NULL /\ r.s = NULL /\ r.m = NULL
    BY <2>2, <2>3, Constants DEF Requests
  <2>5. processComm(p, r)
    BY <1>9, <2>1, <2>3, <2>6 DEF TEEC_CloseSession
  <2> QED
    BY <1>9, <1>12, <2>4, <2>5, <2>6 DEF TEEC_CloseSession, BeginClose, Began
<1>10. ASSUME NEW s \in Sessions, NEW m \in Memories0, NEW tmp \in Temporaries, TEEC_InvokeCommand(p, s, m,
              tmp) PROVE BeginInvoke(p)
  <2> DEFINE id == IF m = NULL THEN 0 ELSE memory[p][m].id
  <2>0. id \in Int /\ (m # NULL => m \in Memories)
    BY <1>2 DEF Memories0
  <2> HIDE DEF id
  <2>1. PICK k \in Requests : k = Call("invoke")
    BY CallFields, Constants
  <2>2. /\ k.op = "invoke" /\ k.at = "pre" /\ k.ret = OK /\ k.context = 0 /\ k.session = 0 /\ k.tmpid = 0 /\ k.memid = 0
        /\ k.paddr = 0 /\ k.user = NULL /\ k.tmp = 0 /\ k.c = NULL /\ k.s = NULL /\ k.m = NULL
    BY <2>1 DEF Call
  <2>6. PICK x \in Int : x = session[p][s].id
    BY <1>1, <2>0
  <2>8. PICK y \in Int : y = id
    BY <1>1, <2>0
  <2>3. PICK r \in Requests : r = [k EXCEPT !.session = x, !.s = s, !.m = m, !.tmp = tmp, !.memid = y]
    BY Constants DEF Requests
  <2>4. /\ r.op = "invoke" /\ r.at = "pre" /\ r.ret = OK /\ r.context = 0 /\ r.session = x /\ r.tmpid = 0 /\ r.memid = y
        /\ r.paddr = 0 /\ r.user = NULL /\ r.tmp = tmp /\ r.c = NULL /\ r.s = s /\ r.m = m
    BY <2>2, <2>3, Constants DEF Requests
  <2>5. processComm(p, r)
    BY <1>10, <2>1, <2>3, <2>6, <2>8 DEF TEEC_InvokeCommand, id
  <2> QED
    BY <1>10, <1>12, <2>0, <2>4, <2>5, <2>6, <2>8 DEF TEEC_InvokeCommand, BeginInvoke, Began, id
<1> QED
  BY <1>4, <1>5, <1>6, <1>7, <1>8, <1>9, <1>10, Constants DEF Calls

\* The library has the answer.
LEMMA ReturnEffect ==
  ASSUME TypeInv, NEW p \in Processes, TEEC_return(p)
  PROVE  LET r == teemem[p] IN
         /\ r # NULL /\ r \in Requests /\ r.at = "back" /\ teemem'[p] = NULL
         /\ \A q \in Processes : q # p => teemem'[q] = teemem[q]
         /\ \A q \in Processes, c \in Contexts :
              context'[q][c] = IF q = p /\ r.op = "init" /\ r.ret = OK /\ c = r.c THEN r.context ELSE context[q][c]
         /\ \A q \in Processes, s \in Sessions :
              session'[q][s] = IF q = p /\ r.op = "open" /\ r.ret = OK /\ s = r.s
                               THEN [id |-> r.session, c |-> r.c] ELSE session[q][s]
         /\ \A q \in Processes, m \in Memories :
              memory'[q][m] = IF q = p /\ r.op = "reg" /\ r.ret = OK /\ m = r.m
                              THEN [id |-> r.memid, c |-> r.c] ELSE memory[q][m]
         /\ UNCHANGED <<svars, ids, dvars>>
<1> DEFINE r == teemem[p]
<1>1. r # NULL /\ r \in Requests /\ r.at = "back" /\ teemem'[p] = NULL
  BY DEF TypeInv, TEEC_return, At
<1>2. \A q \in Processes : q # p => teemem'[q] = teemem[q]
  BY DEF TypeInv, TEEC_return
<1>3. \A q \in Processes, c \in Contexts :
        context'[q][c] = IF q = p /\ r.op = "init" /\ r.ret = OK /\ c = r.c THEN r.context ELSE context[q][c]
  BY DEF TypeInv, TEEC_return
<1>4. \A x : [[id |-> 0, c |-> r.c] EXCEPT !.id = x] = [id |-> x, c |-> r.c]
  OBVIOUS
<1>5. \A q \in Processes, s \in Sessions :
        session'[q][s] = IF q = p /\ r.op = "open" /\ r.ret = OK /\ s = r.s
                         THEN [id |-> r.session, c |-> r.c] ELSE session[q][s]
  BY <1>4 DEF TypeInv, TEEC_return
<1>6. \A q \in Processes, m \in Memories :
        memory'[q][m] = IF q = p /\ r.op = "reg" /\ r.ret = OK /\ m = r.m
                        THEN [id |-> r.memid, c |-> r.c] ELSE memory[q][m]
  BY <1>4 DEF TypeInv, TEEC_return
<1> QED
  BY <1>1, <1>2, <1>3, <1>5, <1>6 DEF TEEC_return

-----------------------------------------------------------------------------
(* Contexts. *)

\* What a step of p leaves of the requests of other processes, and what the
\* context of its own may be.
CtxStep(p) ==
  /\ \A q \in Processes : q # p => teemem'[q] = teemem[q]
  /\ ids' \in Nat /\ ids <= ids'
  /\ \A e \in tee_contexts' :
       \/ e \in tee_contexts
       \/ /\ Is(p, {"init"}, {"post"})
          /\ e = [obj |-> fresh, id |-> p, tz_id |-> teemem[p].context] /\ ids' = fresh
  /\ tee_context_list' \subseteq 1..ids'
  /\ Inside(p)' => \/ Inside(p) /\ teemem'[p].context = teemem[p].context
                   \/ teemem'[p].context \in {MAGIC, 0}
                   \/ \E e \in tee_contexts : e.tz_id = teemem'[p].context
                   \/ teemem'[p].context = fresh /\ ids' = fresh
  /\ \A q \in Processes, c \in Contexts : context'[q][c] \in {0, q}

\* A step that is a CtxStep of p, and does for p itself what CtxReq asks, keeps
\* the invariant of the contexts: the other processes' requests keep their meaning.
LEMMA CtxStepInv ==
  ASSUME TypeInv, CtxInv, NEW p \in Processes, CtxStep(p), CtxReq(p)', TypeInv'
  PROVE  CtxInv'
<1>1. \A q \in Processes : Inside(q) => teemem[q].context \in Int /\ teemem[q].context <= ids
  BY DEF CtxInv, CtxReq, Inside, TypeInv, Requests
<1>2. \A e \in tee_contexts : e.obj \in 1..ids /\ e.tz_id \in {MAGIC} \cup 1..ids
  BY DEF CtxInv
<1>3. ids \in Nat /\ ids' \in Nat /\ ids <= ids' /\ MAGIC = -1
  BY DEF CtxStep, TypeInv, MAGIC
<1>4. Is(p, {"init"}, {"post"}) => teemem[p].context \in {MAGIC} \cup 1..ids
  <2>1. SUFFICES ASSUME Is(p, {"init"}, {"post"}) PROVE teemem[p].context \in {MAGIC} \cup 1..ids
    OBVIOUS
  <2>2. Inside(p)
    BY <2>1 DEF Is, Inside
  <2>3. teemem[p].context = MAGIC \/ teemem[p].context > 0
    BY <2>1 DEF CtxInv, CtxReq, NewContext
  <2> QED
    BY <2>2, <2>3, <1>1
<1>5. \A e \in tee_contexts' : e.obj \in 1..ids' /\ e.tz_id \in {MAGIC} \cup 1..ids'
  BY <1>2, <1>3, <1>4 DEF CtxStep, fresh
<1>6. ASSUME NEW d \in tee_contexts', NEW e \in tee_contexts', d.tz_id = e.tz_id, d.tz_id # MAGIC
      PROVE  d.id = e.id
  <2>1. Is(p, {"init"}, {"post"}) /\ teemem[p].context # MAGIC =>
          \A x \in tee_contexts : x.tz_id # teemem[p].context
    BY DEF CtxInv, CtxReq, NewContext
  <2> QED
    BY <1>6, <2>1 DEF CtxStep, CtxInv
<1>7. ASSUME NEW q \in Processes, q # p PROVE CtxReq(q)'
  <2>1. teemem'[q] = teemem[q]
    BY <1>7 DEF CtxStep
  <2>2. CtxReq(q)
    BY DEF CtxInv
  <2>3. Inside(q) => teemem[q].context <= ids'
    BY <1>1, <1>3
  <2>4. ASSUME Is(q, {"init"}, {"post"}), NewContext(q) PROVE NewContext(q)'
    <3>1. Inside(q)
      BY <2>4 DEF Is, Inside
    <3>2. \A e \in tee_contexts' : e.tz_id # teemem[q].context
      <4>1. Is(p, {"init"}, {"post"}) => Inside(p)
        BY DEF Is, Inside
      <4> QED
        BY <2>4, <4>1, <1>7 DEF CtxStep, NewContext
    <3>3. ASSUME NEW z \in Processes, z # q, Inside(z)' PROVE teemem'[z].context # teemem[q].context
      <4>1. CASE z = p
        BY <4>1, <3>1, <3>3, <1>1, <1>3, <1>7, <2>4 DEF CtxStep, NewContext, fresh, MAGIC
      <4>2. CASE z # p
        BY <4>2, <3>3, <2>4 DEF CtxStep, NewContext, Inside
      <4> QED
        BY <4>1, <4>2
    <3> QED
      BY <3>2, <3>3, <2>1, <2>4 DEF NewContext
  <2>5. ASSUME Is(q, {"fin"}, {"tz", "post"}), teemem[q].context # MAGIC,
               NEW e \in tee_contexts', e.tz_id = teemem[q].context
        PROVE  e.id = q
    <3>1. Inside(q)
      BY <2>5 DEF Is, Inside
    <3>2. CASE e \in tee_contexts
      BY <3>2, <2>2, <2>5 DEF CtxReq
    <3>3. CASE e \notin tee_contexts
      <4>1. Is(p, {"init"}, {"post"}) /\ e.tz_id = teemem[p].context
        BY <3>3 DEF CtxStep
      <4>2. NewContext(p)
        BY <4>1, <2>5 DEF CtxInv, CtxReq
      <4> QED
        BY <4>1, <4>2, <3>1, <1>7, <2>5 DEF NewContext
    <3> QED
      BY <3>2, <3>3
  <2> QED
    BY <2>1, <2>2, <2>3, <2>4, <2>5 DEF CtxReq, Is, Inside
<1>8. \A d, e \in tee_contexts' : d.obj = e.obj => d = e
  <2>1. \A d, e \in tee_contexts : d.obj = e.obj => d = e
    BY DEF CtxInv
  <2>2. \A e \in tee_contexts' : e \in tee_contexts \/ e = [obj |-> fresh, id |-> p, tz_id |-> teemem[p].context]
    BY DEF CtxStep
  <2>3. \A e \in tee_contexts : e.obj # fresh
    BY <1>2, <1>3 DEF fresh
  <2> QED
    BY <2>1, <2>2, <2>3
<1> QED
  BY <1>5, <1>6, <1>7, <1>8 DEF CtxInv, CtxStep

\* A step that keeps contexts, and puts into the page a context that is known.
LEMMA CtxQuiet ==
  ASSUME TypeInv, TypeInv', CtxInv, NEW p \in Processes,
         \A q \in Processes : q # p => teemem'[q] = teemem[q],
         ids <= ids', UNCHANGED <<tee_contexts, tee_context_list, context>>,
         Inside(p)' => \/ Inside(p) /\ teemem'[p].context = teemem[p].context
                       \/ teemem'[p].context \in {MAGIC, 0}
                       \/ \E e \in tee_contexts : e.tz_id = teemem'[p].context
                       \/ teemem'[p].context = fresh /\ ids' = fresh,
         CtxReq(p)'
  PROVE  CtxInv'
<1>1. CtxStep(p)
  BY DEF CtxStep, CtxInv, TypeInv
<1> QED
  BY <1>1, CtxStepInv

\* A call that is over keeps it.
LEMMA CtxGone ==
  ASSUME TypeInv, TypeInv', CtxInv, NEW p \in Processes, teemem[p] # NULL, teemem[p].op # "init", Gone(p),
         ids <= ids', UNCHANGED <<tee_contexts, tee_context_list, context>>
  PROVE  CtxInv'
<1>1. /\ \A q \in Processes : q # p => teemem'[q] = teemem[q]
      /\ teemem'[p] # NULL /\ teemem'[p].at \in {"back", "oops"}
      /\ teemem'[p].op = teemem[p].op /\ teemem'[p].context = teemem[p].context
  BY DEF Gone, Became
<1>2. teemem[p].op \in {"rel", "close", "invoke"} => teemem[p].context = 0
  BY DEF CtxInv, CtxReq, Is, TypeInv, Requests
<1>3. CtxReq(p)'
  BY <1>1, <1>2 DEF CtxReq, Inside, Is
<1>4. ids <= ids' /\ ~Inside(p)'
  BY <1>1 DEF TypeInv, Inside
<1> QED
  BY <1>1, <1>3, <1>4, CtxQuiet

\* So does one that stops.
LEMMA CtxStopped ==
  ASSUME TypeInv, TypeInv', CtxInv, NEW p \in Processes, teemem[p] # NULL, teemem[p].op # "init", Stopped(p)
  PROVE  CtxInv'
<1>1. ids <= ids' /\ Gone(p) /\ UNCHANGED <<tee_contexts, tee_context_list, context>>
  BY DEF TypeInv, Stopped, svars, cvars
<1> QED
  BY <1>1, CtxGone

\* One step of the request of p that leaves the contexts as they are.
LEMMA CtxMove ==
  ASSUME TypeInv, TypeInv', CtxInv, NEW p \in Processes, teemem[p] # NULL,
         NEW at, NEW ret, NEW context1, NEW session1, NEW tmpid, NEW memid, NEW paddr, NEW by,
         Became(p, at, ret, context1, session1, tmpid, memid, paddr, by),
         ids <= ids', UNCHANGED <<tee_contexts, tee_context_list, context>>,
         at \in {"tz", "post"} => \/ Inside(p) /\ context1 = teemem[p].context
                                  \/ context1 \in {MAGIC, 0}
                                  \/ \E e \in tee_contexts : e.tz_id = context1,
         CtxReq(p)'
  PROVE  CtxInv'
BY CtxQuiet DEF Became, Inside

\* The hooks before the secure world keep it: an identifier of the driver becomes
\* the tz_id of the process's own context (tee_operations.c).
LEMMA CtxPre ==
  ASSUME TypeInv, TypeInv', CtxInv, NEW p \in Processes, tee_process_pre(p), UNCHANGED cvars
  PROVE  CtxInv'
<1> DEFINE r == teemem[p]
<1>0. /\ r # NULL /\ r \in Requests /\ r.at = "pre" /\ r.op \in Ops /\ CtxReq(p) /\ ids \in Nat /\ ids' \in Nat
  BY PreEffect DEF TypeInv, Requests, CtxInv
<1>1. r.op \in {"rel", "close", "invoke"} => r.context = 0
  BY <1>0 DEF CtxReq, Is, Stages
<1>2. r.op \in {"fin", "reg", "open"} => r.context = p
  BY <1>0 DEF CtxReq, Is
<1>3. CASE Stopped(p) /\ r.op # "init"
  BY <1>0, <1>3, CtxStopped
<1>4. ASSUME NEW e \in tee_contexts, e.id = p, r.op \in {"fin", "reg", "open"}, ids <= ids',
             NEW tmpid, NEW memid, NEW paddr, Became(p, "tz", r.ret, e.tz_id, r.session, tmpid, memid, paddr, r.by),
             UNCHANGED <<tee_contexts, tee_context_list, context>>
      PROVE  CtxInv'
  <2>1. /\ teemem'[p].op = r.op /\ teemem'[p].at = "tz" /\ teemem'[p].context = e.tz_id
    BY <1>4 DEF Became
  <2>2. \A d \in tee_contexts : d.tz_id = e.tz_id /\ e.tz_id # MAGIC => d.id = p
    BY <1>4 DEF CtxInv
  <2>3. e.tz_id <= ids'
    <3>1. e.tz_id \in {MAGIC} \cup 1..ids
      BY <1>4 DEF CtxInv
    <3> QED
      BY <3>1, <1>0, <1>4 DEF MAGIC
  <2>4. CtxReq(p)'
    BY <2>1, <2>2, <2>3, <1>4 DEF CtxReq, Is, Inside
  <2> QED
    BY <2>4, <1>0, <1>4, CtxMove
<1>5. ASSUME r.op \in {"rel", "close", "invoke"}, NEW session1, NEW memid,
             Became(p, "tz", r.ret, r.context, session1, r.tmpid, memid, r.paddr, r.by),
             UNCHANGED <<tee_contexts, tee_context_list, context, ids>>
      PROVE  CtxInv'
  <2>1. /\ teemem'[p].op = r.op /\ teemem'[p].at = "tz" /\ teemem'[p].context = 0
    BY <1>1, <1>5 DEF Became
  <2>2. CtxReq(p)'
    BY <2>1, <1>0, <1>5 DEF CtxReq, Is, Inside
  <2>3. ids <= ids'
    BY <1>0, <1>5
  <2> QED
    BY <2>2, <2>3, <1>0, <1>1, <1>5, CtxMove
<1>6. CASE r.op = "init" /\ InitPre(p)
  <2>1. teemem'[p].op = "init" /\ teemem'[p].at = "tz" /\ teemem'[p].context = MAGIC
        /\ UNCHANGED <<tee_contexts, tee_context_list, context, ids>>
    BY <1>6 DEF InitPre, Became, Still, dvars, svars, cvars
  <2>2. CtxReq(p)'
    BY <2>1, <1>0 DEF CtxReq, Is, Inside, MAGIC
  <2>3. ids <= ids'
    BY <2>1, <1>0
  <2> QED
    BY <2>1, <2>2, <2>3, <1>0, <1>6, CtxMove DEF InitPre
<1>7. CASE r.op = "fin" /\ FinPre(p)
  BY <1>0, <1>2, <1>3, <1>4, <1>7 DEF FinPre, Still, dvars, svars, cvars
<1>8. CASE r.op = "reg" /\ RegPre(p)
  BY <1>0, <1>2, <1>3, <1>4, <1>8 DEF RegPre, svars, cvars
<1>9. CASE r.op = "open" /\ OpenPre(p)
  BY <1>0, <1>2, <1>3, <1>4, <1>9, CtxGone DEF OpenPre, svars, cvars
<1>10. CASE r.op = "rel" /\ RelPre(p)
  BY <1>3, <1>5, <1>10 DEF RelPre, Still, dvars, svars, cvars
<1>11. CASE r.op = "close" /\ ClosePre(p)
  BY <1>3, <1>5, <1>11 DEF ClosePre, Still, dvars, svars, cvars
<1>12. CASE r.op = "invoke" /\ InvokePre(p)
  BY <1>3, <1>5, <1>12 DEF InvokePre, svars, cvars
<1> QED
  BY <1>6, <1>7, <1>8, <1>9, <1>10, <1>11, <1>12, PreEffect

\* The TEE task keeps it: the identifier it draws for a context is new.
LEMMA CtxTask ==
  ASSUME TypeInv, TypeInv', CtxInv, NEW p \in Processes, tee_task(p), UNCHANGED <<dvars, cvars>>
  PROVE  CtxInv'
<1> DEFINE r == teemem[p]
<1>0. /\ r # NULL /\ r \in Requests /\ r.at = "tz" /\ r.op \in Ops /\ CtxReq(p) /\ ids \in Nat /\ ids' \in Nat
      /\ UNCHANGED <<tee_contexts, context>> /\ Inside(p) /\ r.context \in Int /\ r.context <= ids
  BY TaskEffect DEF TypeInv, Requests, CtxInv, dvars, cvars, CtxReq, Inside
<1>1. ASSUME NEW ret, NEW session1, NEW memid, NEW paddr, NEW by, r.op # "init", ids <= ids',
             Became(p, "post", ret, r.context, session1, r.tmpid, memid, paddr, by),
             tee_context_list' \subseteq tee_context_list
      PROVE  CtxInv'
  <2>1. teemem'[p].op = r.op /\ teemem'[p].at = "post" /\ teemem'[p].context = r.context
    BY <1>1 DEF Became
  <2>2. CtxReq(p)'
    BY <2>1, <1>0, <1>1 DEF CtxReq, Is, Inside, Stages
  <2>3. tee_context_list' \subseteq 1..ids'
    BY <1>0, <1>1 DEF CtxInv
  <2>4. CtxStep(p)
    BY <1>0, <1>1, <2>3 DEF CtxStep, Became, CtxInv
  <2> QED
    BY <2>2, <2>4, CtxStepInv
<1>2. CASE r.op = "init" /\ InitTz(p)
  <2>0. r.context = MAGIC /\ MAGIC = -1
    BY <1>0, <1>2 DEF CtxReq, Is, MAGIC
  <2>1. CASE ids' = ids + 1 /\ tee_context_list' = tee_context_list \cup {ids + 1}
             /\ Became(p, "post", OK, ids + 1, r.session, r.tmpid, r.memid, r.paddr, r.by)
    <3>1. teemem'[p].op = "init" /\ teemem'[p].at = "post" /\ teemem'[p].context = ids + 1
      BY <1>2, <2>1 DEF Became
    <3>2. NewContext(p)'
      <4>1. \A e \in tee_contexts' : e.tz_id # ids + 1
        BY <1>0 DEF CtxInv, MAGIC
      <4>2. ASSUME NEW q \in Processes, q # p, Inside(q)' PROVE teemem'[q].context # ids + 1
        <5>1. teemem'[q] = teemem[q] /\ Inside(q)
          BY <2>1, <4>2 DEF Became, Inside
        <5>2. teemem[q].context <= ids /\ teemem[q].context \in Int
          BY <5>1 DEF CtxInv, CtxReq, Inside, TypeInv, Requests
        <5> QED
          BY <1>0, <5>1, <5>2
      <4> QED
        BY <1>0, <3>1, <4>1, <4>2 DEF NewContext
    <3>3. CtxReq(p)'
      BY <1>0, <2>1, <3>1, <3>2 DEF CtxReq, Is, Inside
    <3>4. tee_context_list' \subseteq 1..ids'
      <4>1. tee_context_list \subseteq 1..ids
        BY DEF CtxInv
      <4>2. ids \in Nat /\ ids + 1 \in 1..(ids + 1) /\ 1..ids \subseteq 1..(ids + 1)
        BY <1>0
      <4>3. tee_context_list \subseteq 1..(ids + 1)
        BY <4>1, <4>2
      <4> QED
        BY <2>1, <4>2, <4>3
    <3>5. CtxStep(p)
      BY <1>0, <2>1, <3>1, <3>4 DEF CtxStep, Became, CtxInv, fresh
    <3> QED
      BY <3>3, <3>5, CtxStepInv
  <2>2. CASE /\ UNCHANGED <<ids, tee_context_list>>
             /\ Became(p, "post", REFUSED, r.context, r.session, r.tmpid, r.memid, r.paddr, r.by)
    <3>1. teemem'[p].op = "init" /\ teemem'[p].at = "post" /\ teemem'[p].context = MAGIC
      BY <1>2, <2>0, <2>2 DEF Became
    <3>2. CtxReq(p)'
      BY <1>0, <2>0, <2>2, <3>1 DEF CtxReq, Is, Inside
    <3> QED
      BY <1>0, <2>2, <3>2, CtxMove
  <2> QED
    BY <1>2, <2>0, <2>1, <2>2 DEF InitTz
<1>3. ids <= ids + 1 /\ ids <= ids
  BY <1>0
<1>4. CASE r.op = "fin" /\ FinTz(p)
  BY <1>0, <1>1, <1>3, <1>4 DEF FinTz
<1>5. CASE r.op = "reg" /\ RegTz(p)
  BY <1>0, <1>1, <1>3, <1>5 DEF RegTz
<1>6. CASE r.op = "rel" /\ RelTz(p)
  BY <1>0, <1>1, <1>3, <1>6 DEF RelTz
<1>7. CASE r.op = "open" /\ OpenTz(p)
  BY <1>0, <1>1, <1>3, <1>7 DEF OpenTz
<1>8. CASE r.op = "close" /\ CloseTz(p)
  BY <1>0, <1>1, <1>3, <1>8 DEF CloseTz, Still, svars
<1>9. CASE r.op = "invoke" /\ InvokeTz(p)
  BY <1>0, <1>1, <1>3, <1>9 DEF InvokeTz, Still, svars
<1> QED
  BY <1>2, <1>4, <1>5, <1>6, <1>7, <1>8, <1>9, TaskEffect

\* The hooks after the secure world keep it: a context that is entered has the
\* process's number and a tz_id that no other one has, unless the secure world
\* refused it (MAGIC).
LEMMA CtxPost ==
  ASSUME TypeInv, TypeInv', CtxInv, NEW p \in Processes, tee_process_post(p), UNCHANGED cvars
  PROVE  CtxInv'
<1> DEFINE r == teemem[p]
<1>0. /\ r # NULL /\ r \in Requests /\ r.at = "post" /\ r.op \in Ops /\ CtxReq(p) /\ ids \in Nat /\ ids' \in Nat
      /\ UNCHANGED <<tee_context_list, context>>
  BY PostEffect DEF TypeInv, Requests, CtxInv, tee_process_post, svars, cvars
<1>1. r.op \in {"rel", "close", "invoke"} => r.context = 0
  BY <1>0 DEF CtxReq, Is, Stages
<1>2. CASE Stopped(p) /\ r.op # "init"
  BY <1>0, <1>2, CtxStopped
<1>3. ASSUME NEW ret, NEW context1, NEW session1, NEW tmpid, NEW memid, NEW paddr, NEW by, r.op # "init", ids' = ids,
             NEW at \in {"back", "oops"}, Became(p, at, ret, context1, session1, tmpid, memid, paddr, by),
             r.op \in {"rel", "close", "invoke"} => context1 = 0, tee_contexts' \subseteq tee_contexts
      PROVE  CtxInv'
  <2>1. teemem'[p].op = r.op /\ teemem'[p].at \in {"back", "oops"} /\ teemem'[p].context = context1
    BY <1>3 DEF Became
  <2>2. CtxReq(p)'
    BY <2>1, <1>0, <1>3 DEF CtxReq, Is, Inside
  <2>3. CtxStep(p)
    BY <1>0, <1>3, <2>1 DEF CtxStep, Became, CtxInv, Inside
  <2> QED
    BY <2>2, <2>3, CtxStepInv
<1>4. CASE r.op = "init" /\ InitPost(p)
  <2>1. teemem'[p].op = "init" /\ teemem'[p].at = "back" /\ teemem'[p].context = p
    BY <1>4 DEF InitPost, Became
  <2>2. CtxReq(p)'
    BY <2>1 DEF CtxReq, Is, Inside
  <2>3. tee_context_list' \subseteq 1..ids'
    BY <1>0, <1>4 DEF CtxInv, InitPost
  <2>4. \A e \in tee_contexts' :
          e \in tee_contexts \/ (e = [obj |-> ids + 1, id |-> p, tz_id |-> r.context] /\ ids' = ids + 1)
    BY <1>4 DEF InitPost
  <2>5. CtxStep(p)
    BY <1>0, <1>4, <2>1, <2>3, <2>4 DEF CtxStep, InitPost, Became, CtxInv, Inside, Is, fresh
  <2> QED
    BY <2>2, <2>5, CtxStepInv
<1>5. CASE r.op = "fin" /\ FinPost(p)
  BY <1>3, <1>5 DEF FinPost, Still, dvars
<1>6. CASE r.op = "reg" /\ RegPost(p)
  BY <1>2, <1>3, <1>6 DEF RegPost
<1>7. CASE r.op = "rel" /\ RelPost(p)
  BY <1>1, <1>2, <1>3, <1>7 DEF RelPost
<1>8. CASE r.op = "open" /\ OpenPost(p)
  BY <1>2, <1>3, <1>8 DEF OpenPost
<1>9. CASE r.op = "close" /\ ClosePost(p)
  BY <1>1, <1>2, <1>3, <1>9 DEF ClosePost
<1>10. CASE r.op = "invoke" /\ InvokePost(p)
  BY <1>1, <1>2, <1>3, <1>10 DEF InvokePost
<1> QED
  BY <1>4, <1>5, <1>6, <1>7, <1>8, <1>9, <1>10, PostEffect

\* The calls of the client keep it: they name the process's own number.
LEMMA CtxCalls ==
  ASSUME TypeInv, TypeInv', CtxInv, NEW p \in Processes, Calls(p)
  PROVE  CtxInv'
<1>1. ASSUME NEW op, NEW context1, NEW session1, NEW memid, NEW user, NEW tmp, NEW c, NEW s, NEW m,
             Began(p, op, context1, session1, memid, user, tmp, c, s, m),
             op \in {"fin", "reg", "open"} => context1 = p, op \in {"rel", "close", "invoke"} => context1 = 0,
             \A q \in Processes, d \in Contexts : context'[q][d] \in {0, context[q][d]}
      PROVE  CtxInv'
  <2>1. teemem'[p].op = op /\ teemem'[p].at = "pre" /\ teemem'[p].context = context1
    BY <1>1 DEF Began
  <2>2. CtxReq(p)'
    BY <2>1, <1>1 DEF CtxReq, Is, Inside
  <2>3. CtxStep(p)
    BY <2>1, <1>1 DEF CtxStep, Began, CtxInv, Inside, svars, dvars, TypeInv
  <2> QED
    BY <2>2, <2>3, CtxStepInv
<1>2. \A c \in Contexts : context[p][c] # 0 => context[p][c] = p
  BY DEF CtxInv
<1>3. CASE BeginInit(p)
  BY <1>1, <1>3 DEF BeginInit, cvars
<1>4. CASE BeginFin(p)
  <2>1. PICK c \in Contexts : /\ context[p][c] # 0
                              /\ Began(p, "fin", context[p][c], 0, 0, NULL, 0, c, NULL, NULL)
                              /\ context' = [context EXCEPT ![p][c] = 0]
    BY <1>4 DEF BeginFin
  <2>2. \A q \in Processes, d \in Contexts : context'[q][d] \in {0, context[q][d]}
    BY <2>1 DEF TypeInv
  <2> QED
    BY <1>1, <1>2, <2>1, <2>2
<1>5. CASE BeginReg(p)
  BY <1>1, <1>2, <1>5 DEF BeginReg, cvars
<1>6. CASE BeginRel(p)
  BY <1>1, <1>6 DEF BeginRel
<1>7. CASE BeginOpen(p)
  BY <1>1, <1>2, <1>7 DEF BeginOpen, cvars
<1>8. CASE BeginClose(p)
  BY <1>1, <1>8 DEF BeginClose
<1>9. CASE BeginInvoke(p)
  BY <1>1, <1>9 DEF BeginInvoke, cvars
<1> QED
  BY <1>3, <1>4, <1>5, <1>6, <1>7, <1>8, <1>9, CallEffect

\* What the identifiers and tz_ids of contexts mean is kept by every step.
LEMMA CtxNext ==
  ASSUME TypeInv, TypeInv', CtxInv, [Next]_vars
  PROVE  CtxInv'
<1>1. CASE UNCHANGED vars
  BY <1>1 DEF CtxInv, CtxReq, NewContext, Is, Inside, vars, svars, dvars, cvars
<1>2. ASSUME NEW p \in Processes, TEEC_return(p) PROVE CtxInv'
  <2> DEFINE r == teemem[p]
  <2>0. /\ r # NULL /\ r.at = "back" /\ teemem'[p] = NULL
        /\ \A q \in Processes : q # p => teemem'[q] = teemem[q]
        /\ \A q \in Processes, c \in Contexts :
             context'[q][c] = IF q = p /\ r.op = "init" /\ r.ret = OK /\ c = r.c THEN r.context ELSE context[q][c]
        /\ UNCHANGED <<svars, ids, dvars>>
    BY <1>2, ReturnEffect
  <2>1. CtxReq(p)'
    BY <2>0 DEF CtxReq, Is, Inside
  <2>2. r.op = "init" => r.context = p
    BY <2>0 DEF CtxInv, CtxReq, Is
  <2>3. \A q \in Processes, c \in Contexts : context'[q][c] \in {0, q}
    BY <2>0, <2>2 DEF CtxInv
  <2>4. UNCHANGED <<tee_context_list, tee_contexts>> /\ ids' \in Nat /\ ids <= ids' /\ ~Inside(p)'
    BY <2>0 DEF svars, dvars, TypeInv, Inside
  <2>5. CtxStep(p)
    BY <2>0, <2>3, <2>4 DEF CtxStep, CtxInv
  <2> QED
    BY <2>1, <2>5, CtxStepInv
<1>3. ASSUME NEW p \in Processes, exit(p) PROVE CtxInv'
  <2>1. CtxReq(p)'
    BY <1>3 DEF exit, CtxReq, Is, Inside
  <2>2. \A q \in Processes, c \in Contexts : context'[q][c] \in {0, q}
    BY <1>3 DEF exit, CtxInv, TypeInv
  <2>3. CtxStep(p)
    BY <1>3, <2>2 DEF exit, tz_driver_release, CtxStep, CtxInv, Inside, svars, dvars, TypeInv
  <2> QED
    BY <2>1, <2>3, CtxStepInv
<1> QED
  BY <1>1, <1>2, <1>3, CtxCalls, CtxPre, CtxTask, CtxPost DEF Next

-----------------------------------------------------------------------------
(* Sessions. *)

\* What an entry of a table is after its tz_id was written, and that none is
\* lost.
LEMMA WithTzidSession ==
  ASSUME TypeInv, NEW obj \in Int, NEW tzid \in Int
  PROVE  /\ \A x \in WithTzid(tee_sessions, obj, tzid) :
              \/ x \in tee_sessions /\ x.obj # obj
              \/ \E e \in tee_sessions : /\ e.obj = obj /\ x.obj = obj /\ x.id = e.id /\ x.ctx = e.ctx
                                         /\ x.tz_id = tzid
         /\ \A e \in tee_sessions :
              \/ e.obj # obj /\ e \in WithTzid(tee_sessions, obj, tzid)
              \/ e.obj = obj /\ \E x \in WithTzid(tee_sessions, obj, tzid) :
                   x.obj = obj /\ x.id = e.id /\ x.ctx = e.ctx /\ x.tz_id = tzid
         /\ \A x, y \in WithTzid(tee_sessions, obj, tzid) :
              x.obj = obj /\ y.obj = obj /\ (\A d, e \in tee_sessions : d.obj = e.obj => d = e) => x = y
<1>1. \A e \in SesEntry : /\ [e EXCEPT !.tz_id = tzid].obj = e.obj /\ [e EXCEPT !.tz_id = tzid].id = e.id
                          /\ [e EXCEPT !.tz_id = tzid].ctx = e.ctx /\ [e EXCEPT !.tz_id = tzid].tz_id = tzid
  BY DEF SesEntry
<1>2. tee_sessions \subseteq SesEntry
  BY DEF TypeInv
<1>3. ASSUME NEW e \in tee_sessions, e.obj = obj
      PROVE  [e EXCEPT !.tz_id = tzid] \in WithTzid(tee_sessions, obj, tzid)
  BY <1>3 DEF WithTzid
<1>4. ASSUME NEW e \in tee_sessions, e.obj # obj PROVE e \in WithTzid(tee_sessions, obj, tzid)
  BY <1>4 DEF WithTzid
<1>5. ASSUME NEW x \in WithTzid(tee_sessions, obj, tzid)
      PROVE  \E e \in tee_sessions : x = IF e.obj = obj THEN [e EXCEPT !.tz_id = tzid] ELSE e
  BY DEF WithTzid
<1>6. \A x \in WithTzid(tee_sessions, obj, tzid) :
        \/ x \in tee_sessions /\ x.obj # obj
        \/ \E e \in tee_sessions : e.obj = obj /\ x.obj = obj /\ x.id = e.id /\ x.ctx = e.ctx /\ x.tz_id = tzid
  <2>1. SUFFICES ASSUME NEW x \in WithTzid(tee_sessions, obj, tzid), ~(x \in tee_sessions /\ x.obj # obj)
                 PROVE  \E e \in tee_sessions : /\ e.obj = obj /\ x.obj = obj /\ x.id = e.id /\ x.ctx = e.ctx
                                                /\ x.tz_id = tzid
    OBVIOUS
  <2>2. PICK e \in tee_sessions : x = IF e.obj = obj THEN [e EXCEPT !.tz_id = tzid] ELSE e
    BY <1>5
  <2>3. e.obj = obj /\ x = [e EXCEPT !.tz_id = tzid]
    BY <2>1, <2>2
  <2> QED
    BY <1>1, <1>2, <2>3
<1>7. ASSUME NEW x \in WithTzid(tee_sessions, obj, tzid), NEW y \in WithTzid(tee_sessions, obj, tzid),
             x.obj = obj, y.obj = obj, \A d, e \in tee_sessions : d.obj = e.obj => d = e
      PROVE  x = y
  <2>1. PICK d \in tee_sessions : x = IF d.obj = obj THEN [d EXCEPT !.tz_id = tzid] ELSE d
    BY <1>5
  <2>2. PICK e \in tee_sessions : y = IF e.obj = obj THEN [e EXCEPT !.tz_id = tzid] ELSE e
    BY <1>5
  <2>3. d.obj = obj /\ e.obj = obj
    BY <1>1, <1>2, <1>7, <2>1, <2>2
  <2> QED
    BY <1>7, <2>1, <2>2, <2>3
<1>8. \A e \in tee_sessions :
        \/ e.obj # obj /\ e \in WithTzid(tee_sessions, obj, tzid)
        \/ e.obj = obj /\ \E x \in WithTzid(tee_sessions, obj, tzid) :
             x.obj = obj /\ x.id = e.id /\ x.ctx = e.ctx /\ x.tz_id = tzid
  BY <1>1, <1>2, <1>3, <1>4
<1> QED
  BY <1>6, <1>7, <1>8

\* What a step of p may do to the sessions of the two worlds.
SesStep(p) ==
  /\ \A q \in Processes : q # p => teemem'[q] = teemem[q]
  /\ ids' \in Nat /\ ids <= ids'
  /\ \A x \in tee_sessions' :
       \/ x \in tee_sessions
       \/ ids' = ids + 1 /\ x.id = ids + 1 /\ x.obj = ids + 1 /\ x.tz_id = 0
       \/ /\ Is(p, {"open"}, {"post"}) /\ x.id = teemem[p].tmpid /\ x.obj = x.id
          /\ x.tz_id = teemem[p].session
  /\ \A f \in tee_session_list' : f \in tee_session_list \/ (ids' = ids + 1 /\ f.id = ids + 1)
  /\ teemem'[p] # NULL => \/ teemem'[p].tmpid = 0
                          \/ teemem[p] # NULL /\ teemem'[p].tmpid = teemem[p].tmpid
                          \/ ids' = ids + 1 /\ teemem'[p].tmpid = ids + 1
  /\ \A q \in Processes, s \in Sessions :
       \/ session'[q][s] = session[q][s]
       \/ q = p /\ session'[q][s].id = 0
       \/ /\ q = p /\ Is(p, {"open"}, {"back"}) /\ teemem[p].ret = OK /\ s = teemem[p].s
          /\ session'[q][s].id = teemem[p].session

\* A step that is a SesStep of p, and does for p itself what SesReq asks, keeps the
\* invariant of the sessions.
LEMMA SesStepInv ==
  ASSUME TypeInv, SesInv, NEW p \in Processes, SesStep(p), SesReq(p)'
  PROVE  SesInv'
<1>0. ids \in Nat /\ ids' \in Nat /\ ids <= ids'
  BY DEF SesStep, TypeInv
<1>1. \A e \in tee_sessions : e.id \in 1..ids /\ e.obj = e.id /\ e.tz_id \in 0..ids
  BY DEF SesInv
<1>2. Is(p, {"open"}, {"post"}) =>
        /\ teemem[p].tmpid \in 1..ids /\ teemem[p].session \in 0..ids /\ NewSession(p)
        /\ Owned(teemem[p].session, <<p, teemem[p].s>>)
  BY DEF SesInv, SesReq, Is, NewSession
<1>3. \A x \in tee_sessions' : x.id \in 1..ids' /\ x.obj = x.id /\ x.tz_id \in 0..ids'
  BY <1>0, <1>1, <1>2 DEF SesStep
<1>4. \A f \in tee_session_list' : f.id \in 1..ids'
  BY <1>0 DEF SesStep, SesInv
<1>5. ASSUME NEW id \in 0..ids, NEW owner, Means(id, owner), Is(p, {"open"}, {"post"}) => id # teemem[p].tmpid
      PROVE  \A x \in tee_sessions', f \in tee_session_list' : x.id = id /\ f.id = x.tz_id => f.owner = owner
  <2>1. SUFFICES ASSUME NEW x \in tee_sessions', NEW f \in tee_session_list', x.id = id, f.id = x.tz_id
                 PROVE  f.owner = owner
    OBVIOUS
  <2>2. x \in tee_sessions
    BY <1>0, <1>5, <2>1 DEF SesStep
  <2>3. f \in tee_session_list
    BY <1>0, <1>1, <2>1, <2>2 DEF SesStep
  <2> QED
    BY <1>5, <2>1, <2>2, <2>3 DEF Means
<1>6. ASSUME NEW tz \in 0..ids, NEW owner, Owned(tz, owner)
      PROVE  \A f \in tee_session_list' : f.id = tz => f.owner = owner
  BY <1>0, <1>6 DEF Owned, SesStep
<1>7. ASSUME NEW q \in Processes, NEW s \in Sessions
      PROVE  /\ session'[q][s].id \in 0..ids'
             /\ \A x \in tee_sessions', f \in tee_session_list' :
                  x.id = session'[q][s].id /\ f.id = x.tz_id => f.owner = <<q, s>>
  <2>1. CASE session'[q][s].id = 0
    BY <2>1, <1>0, <1>3
  <2>2. CASE session'[q][s] = session[q][s] /\ session[q][s].id # 0
    <3>1. session[q][s].id \in 0..ids /\ Means(session[q][s].id, <<q, s>>)
      BY DEF SesInv
    <3>2. Is(p, {"open"}, {"post"}) => session[q][s].id # teemem[p].tmpid
      BY <1>2 DEF NewSession
    <3> QED
      BY <1>0, <1>5, <2>2, <3>1, <3>2
  <2>3. CASE /\ q = p /\ Is(p, {"open"}, {"back"}) /\ teemem[p].ret = OK /\ s = teemem[p].s
             /\ session'[q][s].id = teemem[p].session
    <3>1. teemem[p].session \in 0..ids /\ Means(teemem[p].session, <<p, s>>)
      BY <2>3 DEF SesInv, SesReq, Is, NewSession
    <3>2. ~Is(p, {"open"}, {"post"})
      BY <2>3 DEF Is
    <3> QED
      BY <1>0, <1>5, <2>3, <3>1, <3>2
  <2> QED
    BY <2>1, <2>2, <2>3 DEF SesStep
<1>8. ASSUME NEW q \in Processes, q # p, teemem[q] # NULL PROVE SesReq(q)'
  <2> DEFINE r == teemem[q]
  <2>0. teemem'[q] = r /\ SesReq(q)
    BY <1>8 DEF SesStep, SesInv
  <2>1. r.session \in 0..ids /\ r.session \in 0..ids'
    BY <1>0, <1>8, <2>0 DEF SesReq
  <2>2. ASSUME r.tmpid # 0 PROVE NewSession(q)'
    <3>1. NewSession(q)
      BY <1>8, <2>0, <2>2 DEF SesReq
    <3>2. ASSUME NEW z \in Processes, NEW s \in Sessions PROVE session'[z][s].id # r.tmpid
      <4>1. Is(p, {"open"}, {"back"}) /\ teemem[p].ret = OK => teemem[p].session = teemem[p].tmpid /\ teemem[p] # NULL
        BY DEF SesInv, SesReq, Is
      <4>2. teemem[p] # NULL => teemem[p].tmpid # r.tmpid
        BY <1>8, <3>1 DEF NewSession
      <4> QED
        BY <2>2, <3>1, <4>1, <4>2 DEF SesStep, NewSession
    <3>3. ASSUME NEW z \in Processes, z # q, teemem'[z] # NULL PROVE teemem'[z].tmpid # r.tmpid
      <4>1. CASE z = p
        BY <1>0, <2>2, <3>1, <3>3, <4>1 DEF SesStep, NewSession
      <4>2. CASE z # p
        BY <3>1, <3>3, <4>2 DEF SesStep, NewSession
      <4> QED
        BY <4>1, <4>2
    <3>4. r.tmpid \in 1..ids'
      BY <1>0, <3>1 DEF NewSession
    <3> QED
      BY <2>0, <3>2, <3>3, <3>4 DEF NewSession
  <2>3. ASSUME r.op = "open", r.at \in {"tz", "post"}
        PROVE  /\ Owned(r.session, <<q, r.s>>)' /\ r.tmpid # 0
               /\ \A x \in tee_sessions' : x.id = r.tmpid => x.tz_id = 0
    <3>1. /\ Owned(r.session, <<q, r.s>>) /\ r.tmpid # 0 /\ NewSession(q)
          /\ \A x \in tee_sessions : x.id = r.tmpid => x.tz_id = 0
      BY <1>8, <2>0, <2>3 DEF SesReq, Is
    <3>2. \A f \in tee_session_list' : f.id = r.session => f.owner = <<q, r.s>>
      BY <1>6, <2>1, <3>1
    <3>3. Is(p, {"open"}, {"post"}) => r.tmpid # teemem[p].tmpid
      BY <1>8, <3>1 DEF NewSession, Is
    <3>4. \A x \in tee_sessions' : x.id = r.tmpid => x.tz_id = 0
      BY <3>1, <3>3 DEF SesStep
    <3> QED
      BY <2>0, <3>1, <3>2, <3>4 DEF Owned
  <2>4. ASSUME r.op = "open", r.at = "back", r.ret = OK
        PROVE  r.session = r.tmpid /\ r.tmpid # 0 /\ Means(r.session, <<q, r.s>>)'
    <3>1. r.session = r.tmpid /\ r.tmpid # 0 /\ Means(r.session, <<q, r.s>>) /\ NewSession(q)
      BY <1>8, <2>0, <2>4 DEF SesReq, Is
    <3>2. Is(p, {"open"}, {"post"}) => r.session # teemem[p].tmpid
      BY <1>8, <3>1 DEF NewSession, Is
    <3>3. \A x \in tee_sessions', f \in tee_session_list' : x.id = r.session /\ f.id = x.tz_id => f.owner = <<q, r.s>>
      BY <1>5, <2>1, <3>1, <3>2
    <3> QED
      BY <2>0, <3>1, <3>3 DEF Means
  <2>5. ASSUME r.op = "invoke", r.at = "pre" PROVE r.session = session'[q][r.s].id
    BY <1>8, <2>0, <2>5 DEF SesReq, Is, SesStep
  <2>6. ASSUME r.op = "invoke", r.at = "tz" PROVE Owned(r.session, <<q, r.s>>)'
    <3>1. Owned(r.session, <<q, r.s>>)
      BY <1>8, <2>0, <2>6 DEF SesReq, Is
    <3>2. \A f \in tee_session_list' : f.id = r.session => f.owner = <<q, r.s>>
      BY <1>6, <2>1, <3>1
    <3> QED
      BY <2>0, <3>2 DEF Owned
  <2> QED
    BY <2>0, <2>1, <2>2, <2>3, <2>4, <2>5, <2>6, <1>8 DEF SesReq, Is
<1>9. \A q \in Processes : SesReq(q)'
  BY <1>8 DEF SesReq, SesStep
<1> QED
  BY <1>3, <1>4, <1>7, <1>9 DEF SesInv, Means

\* A step of a request that is about no session, or closes one.
LEMMA SesOther ==
  ASSUME TypeInv, TypeInv', SesInv, NEW p \in Processes, teemem[p] # NULL, teemem[p].op \notin {"open", "invoke"},
         NEW at, NEW ret, NEW context1, NEW session1, NEW memid, NEW paddr, NEW by,
         Became(p, at, ret, context1, session1, teemem[p].tmpid, memid, paddr, by),
         session1 \in 0..ids, ids <= ids', tee_sessions' \subseteq tee_sessions,
         UNCHANGED <<tee_session_list, session>>
  PROVE  SesInv'
<1>0. ids \in Nat /\ ids' \in Nat /\ teemem[p].tmpid = 0
  BY DEF TypeInv, SesInv, SesReq
<1>1. SesStep(p)
  BY <1>0 DEF SesStep, Became
<1>2. SesReq(p)'
  BY <1>0 DEF SesReq, Became, Is
<1> QED
  BY <1>1, <1>2, SesStepInv

\* A call that stops keeps it.
LEMMA SesStopped ==
  ASSUME TypeInv, TypeInv', SesInv, NEW p \in Processes, teemem[p] # NULL, Stopped(p)
  PROVE  SesInv'
<1> DEFINE r == teemem[p]
<1>1. /\ \A q \in Processes : q # p => teemem'[q] = teemem[q]
      /\ teemem'[p] # NULL /\ teemem'[p].at \in {"back", "oops"}
      /\ teemem'[p].at = "back" => teemem'[p].ret = REFUSED
      /\ teemem'[p].op = r.op /\ teemem'[p].session = r.session /\ teemem'[p].tmpid = r.tmpid
      /\ teemem'[p].s = r.s
      /\ UNCHANGED <<tee_sessions, tee_session_list, session, ids>>
  BY DEF Stopped, Gone, Became, svars, cvars
<1>0. ids \in Nat
  BY DEF TypeInv
<1>2. SesStep(p)
  BY <1>0, <1>1 DEF SesStep
<1>3. SesReq(p) /\ REFUSED # OK
  BY DEF SesInv, REFUSED, OK
<1>4. r.tmpid # 0 => NewSession(p)'
  BY <1>1, <1>3 DEF SesReq, NewSession
<1>5. SesReq(p)'
  BY <1>1, <1>3, <1>4 DEF SesReq, Is
<1> QED
  BY <1>2, <1>5, SesStepInv

\* The hooks before the secure world keep it: a session that is being opened has no
\* tz_id yet, and an identifier of a client becomes the tz_id of its own session.
LEMMA SesPre ==
  ASSUME TypeInv, TypeInv', SesInv, NEW p \in Processes, tee_process_pre(p), UNCHANGED cvars
  PROVE  SesInv'
<1> DEFINE r == teemem[p]
<1>0. /\ r # NULL /\ r \in Requests /\ r.at = "pre" /\ r.op \in Ops /\ SesReq(p) /\ ids \in Nat /\ ids' \in Nat
      /\ r.session \in 0..ids /\ ids <= ids + 1 /\ ids <= ids
  BY PreEffect DEF TypeInv, Requests, SesInv, SesReq
<1>1. CASE Stopped(p)
  BY <1>0, <1>1, SesStopped
<1>2. \A e \in tee_sessions : e.tz_id \in 0..ids /\ e.id \in 1..ids /\ e.obj = e.id
  BY DEF SesInv
<1>3. CASE r.op = "init" /\ InitPre(p)
  BY <1>0, <1>3, SesOther DEF InitPre, Still, svars, cvars, dvars
<1>4. CASE r.op = "fin" /\ FinPre(p)
  BY <1>0, <1>1, <1>4, SesOther DEF FinPre, Still, svars, cvars, dvars
<1>5. CASE r.op = "reg" /\ RegPre(p)
  BY <1>0, <1>1, <1>5, SesOther DEF RegPre, svars, cvars
<1>6. CASE r.op = "rel" /\ RelPre(p)
  BY <1>0, <1>1, <1>6, SesOther DEF RelPre, Still, svars, cvars, dvars
<1>7. CASE r.op = "close" /\ ClosePre(p)
  BY <1>0, <1>1, <1>2, <1>7, SesOther DEF ClosePre, Still, svars, cvars, dvars
<1>8. CASE r.op = "open" /\ OpenPre(p)
  <2>1. ASSUME NEW e \in tee_contexts,
               NEW memid, Became(p, "tz", r.ret, e.tz_id, r.session, ids + 1, memid, r.paddr, r.by), ids' = ids + 1,
               tee_sessions' = tee_sessions \cup {[obj |-> ids + 1, id |-> ids + 1, tz_id |-> 0, ctx |-> e.obj]},
               UNCHANGED <<tee_session_list, session>>
        PROVE  SesInv'
    <3>1. SesStep(p)
      BY <1>0, <2>1 DEF SesStep, Became
    <3>2. /\ teemem'[p].op = "open" /\ teemem'[p].at = "tz" /\ teemem'[p].session = r.session
          /\ teemem'[p].tmpid = ids + 1 /\ teemem'[p].s = r.s
          /\ \A q \in Processes : q # p => teemem'[q] = teemem[q]
      BY <1>8, <2>1 DEF Became
    <3>3. r.session = 0 /\ r.s \in Sessions
      BY <1>0, <1>8 DEF SesReq, Is
    <3>4. NewSession(p)'
      <4>1. \A q \in Processes, s \in Sessions : session'[q][s].id # ids + 1
        <5>1. \A q \in Processes, s \in Sessions : session[q][s].id \in 0..ids
          BY DEF SesInv
        <5> QED
          BY <1>0, <2>1, <5>1
      <4>2. \A q \in Processes : q # p /\ teemem'[q] # NULL => teemem'[q].tmpid # ids + 1
        <5>1. SUFFICES ASSUME NEW q \in Processes, q # p, teemem[q] # NULL PROVE teemem[q].tmpid # ids + 1
          BY <3>2
        <5>2. teemem[q].tmpid = 0 \/ teemem[q].tmpid \in 1..ids
          BY <5>1 DEF SesInv, SesReq, NewSession
        <5> QED
          BY <5>2, <1>0
      <4> QED
        BY <1>0, <2>1, <3>2, <4>1, <4>2 DEF NewSession
    <3>5. Owned(0, <<p, r.s>>)'
      BY <2>1 DEF Owned, SesInv
    <3>6. \A x \in tee_sessions' : x.id = ids + 1 => x.tz_id = 0
      BY <1>0, <1>2, <2>1
    <3>7. SesReq(p)'
      BY <1>0, <2>1, <3>2, <3>3, <3>4, <3>5, <3>6 DEF SesReq, Is
    <3> QED
      BY <3>1, <3>7, SesStepInv
  <2>2. ASSUME NEW e \in tee_contexts, Gone(p), ids' = ids + 1,
               tee_sessions' = tee_sessions \cup {[obj |-> ids + 1, id |-> ids + 1, tz_id |-> 0, ctx |-> e.obj]},
               UNCHANGED <<tee_session_list, session>>
        PROVE  SesInv'
    <3>1. /\ teemem'[p].op = "open" /\ teemem'[p].at \in {"back", "oops"} /\ teemem'[p].session = r.session
          /\ teemem'[p].at = "back" => teemem'[p].ret = REFUSED
          /\ teemem'[p].tmpid = r.tmpid /\ teemem'[p].s = r.s
          /\ \A q \in Processes : q # p => teemem'[q] = teemem[q]
      BY <1>8, <2>2 DEF Gone, Became
    <3>2. SesStep(p)
      BY <1>0, <2>2, <3>1 DEF SesStep
    <3>3. r.tmpid = 0 /\ r.session = 0 /\ r.s \in Sessions /\ REFUSED # OK
      BY <1>0, <1>8 DEF SesReq, Is, OK, REFUSED
    <3>4. SesReq(p)'
      BY <1>0, <2>2, <3>1, <3>3 DEF SesReq, Is
    <3> QED
      BY <3>2, <3>4, SesStepInv
  <2> QED
    BY <1>1, <1>8, <2>1, <2>2 DEF OpenPre, svars, cvars
<1>9. CASE r.op = "invoke" /\ InvokePre(p)
  <2>1. ASSUME NEW e \in tee_sessions, e.id = r.session, NEW memid,
               Became(p, "tz", r.ret, r.context, e.tz_id, r.tmpid, memid, r.paddr, r.by),
               UNCHANGED <<tee_sessions, tee_session_list, session, ids>>
        PROVE  SesInv'
    <3>1. r.tmpid = 0 /\ r.session = session[p][r.s].id /\ r.s \in Sessions
      BY <1>0, <1>9 DEF SesReq, Is
    <3>2. SesStep(p)
      BY <1>0, <2>1, <3>1 DEF SesStep, Became
    <3>3. /\ teemem'[p].op = "invoke" /\ teemem'[p].at = "tz" /\ teemem'[p].session = e.tz_id
          /\ teemem'[p].tmpid = 0 /\ teemem'[p].s = r.s
      BY <1>9, <2>1, <3>1 DEF Became
    <3>4. Means(session[p][r.s].id, <<p, r.s>>)
      BY <3>1 DEF SesInv
    <3>5. \A f \in tee_session_list : f.id = e.tz_id => f.owner = <<p, r.s>>
      BY <2>1, <3>1, <3>4 DEF Means
    <3>6. SesReq(p)'
      BY <1>0, <1>2, <2>1, <3>1, <3>3, <3>5 DEF SesReq, Is, Owned
    <3> QED
      BY <3>2, <3>6, SesStepInv
  <2> QED
    BY <1>1, <1>9, <2>1 DEF InvokePre, svars, cvars
<1> QED
  BY <1>3, <1>4, <1>5, <1>6, <1>7, <1>8, <1>9, PreEffect

\* The TEE task keeps it: it remembers for whom it opened a session, and a command
\* is executed for the owner of the session that it names.
LEMMA SesTask ==
  ASSUME TypeInv, TypeInv', SesInv, NEW p \in Processes, tee_task(p), UNCHANGED <<dvars, cvars>>
  PROVE  SesInv'
<1> DEFINE r == teemem[p]
<1>0. /\ r # NULL /\ r \in Requests /\ r.at = "tz" /\ r.op \in Ops /\ SesReq(p) /\ ids \in Nat /\ ids' \in Nat
      /\ r.session \in 0..ids /\ UNCHANGED <<tee_sessions, session>> /\ ids <= ids + 1 /\ ids <= ids
  BY TaskEffect DEF TypeInv, Requests, SesInv, SesReq, dvars, cvars
<1>2. CASE r.op = "init" /\ InitTz(p)
  BY <1>0, <1>2, SesOther DEF InitTz
<1>3. CASE r.op = "fin" /\ FinTz(p)
  BY <1>0, <1>3, SesOther DEF FinTz
<1>4. CASE r.op = "reg" /\ RegTz(p)
  BY <1>0, <1>4, SesOther DEF RegTz
<1>5. CASE r.op = "rel" /\ RelTz(p)
  BY <1>0, <1>5, SesOther DEF RelTz
<1>6. CASE r.op = "close" /\ CloseTz(p)
  BY <1>0, <1>6, SesOther DEF CloseTz, Still, svars
<1>7. CASE r.op = "open" /\ OpenTz(p)
  <2>0. /\ r.session = 0 /\ r.tmpid # 0 /\ NewSession(p) /\ r.s \in Sessions
        /\ \A x \in tee_sessions : x.id = r.tmpid => x.tz_id = 0
    BY <1>0, <1>7 DEF SesReq, Is
  <2>1. ASSUME NEW ret, NEW session1 \in 0..ids',
               Became(p, "post", ret, r.context, session1, r.tmpid, r.memid, r.paddr, r.by), ids <= ids',
               \A f \in tee_session_list' : f \in tee_session_list \/ (ids' = ids + 1 /\ f.id = ids + 1),
               \A f \in tee_session_list' : f.id = session1 => f.owner = <<p, r.s>>
        PROVE  SesInv'
    <3>1. SesStep(p)
      BY <1>0, <2>1 DEF SesStep, Became
    <3>2. /\ teemem'[p].op = "open" /\ teemem'[p].at = "post" /\ teemem'[p].session = session1
          /\ teemem'[p].tmpid = r.tmpid /\ teemem'[p].s = r.s
          /\ \A q \in Processes : q # p => teemem'[q] = teemem[q]
      BY <1>7, <2>1 DEF Became
    <3>3. NewSession(p)'
      BY <1>0, <2>0, <2>1, <3>2 DEF NewSession
    <3>4. SesReq(p)'
      BY <1>0, <2>0, <2>1, <3>2, <3>3 DEF SesReq, Is, Owned
    <3> QED
      BY <3>1, <3>4, SesStepInv
  <2>2. \A f \in tee_session_list : f.id \in 1..ids
    BY DEF SesInv
  <2>3. CASE /\ r.context \in tee_context_list /\ ids' = ids + 1
             /\ tee_session_list' = tee_session_list \cup
                  {[id |-> ids + 1, ctx |-> r.context, app |-> r.app, owner |-> <<p, r.s>>]}
             /\ \/ \E ret \in Results : Became(p, "post", ret, r.context, ids + 1, r.tmpid, r.memid, r.paddr, r.by)
                \/ Became(p, "post", REFUSED, r.context, r.session, r.tmpid, r.memid, r.paddr, r.by)
    <3>1. /\ \A f \in tee_session_list' : f \in tee_session_list \/ (ids' = ids + 1 /\ f.id = ids + 1)
          /\ \A f \in tee_session_list' : f.id = ids + 1 => f.owner = <<p, r.s>>
          /\ \A f \in tee_session_list' : f.id = 0 => f.owner = <<p, r.s>>
          /\ ids + 1 \in 0..ids' /\ 0 \in 0..ids'
      BY <1>0, <2>2, <2>3
    <3> QED
      BY <1>0, <2>0, <2>1, <2>3, <3>1
  <2>4. CASE /\ UNCHANGED <<ids, tee_session_list>>
             /\ Became(p, "post", REFUSED, r.context, r.session, r.tmpid, r.memid, r.paddr, r.by)
    <3>1. \A f \in tee_session_list' : f.id = 0 => f.owner = <<p, r.s>>
      BY <2>2, <2>4
    <3> QED
      BY <1>0, <2>0, <2>1, <2>4, <3>1
  <2> QED
    BY <1>7, <2>3, <2>4 DEF OpenTz
<1>8. CASE r.op = "invoke" /\ InvokeTz(p)
  <2>0. r.tmpid = 0 /\ r.s \in Sessions /\ Owned(r.session, <<p, r.s>>)
    BY <1>0, <1>8 DEF SesReq, Is
  <2>1. ASSUME NEW ret, NEW by, NEW paddr,
               Became(p, "post", ret, r.context, r.session, r.tmpid, r.memid, paddr, by),
               ret = OK => by = <<p, r.s>>
        PROVE  SesInv'
    <3>0. UNCHANGED <<ids, tee_session_list>>
      BY <1>8 DEF InvokeTz, Still, svars
    <3>1. SesStep(p)
      BY <1>0, <2>0, <2>1, <3>0 DEF SesStep, Became
    <3>2. /\ teemem'[p].op = "invoke" /\ teemem'[p].at = "post" /\ teemem'[p].session = r.session
          /\ teemem'[p].tmpid = 0 /\ teemem'[p].s = r.s /\ teemem'[p].ret = ret /\ teemem'[p].by = by
      BY <1>8, <2>0, <2>1 DEF Became
    <3>3. SesReq(p)'
      BY <1>0, <2>0, <2>1, <3>0, <3>2 DEF SesReq, Is
    <3> QED
      BY <3>1, <3>3, SesStepInv
  <2>2. REFUSED # OK
    BY DEF REFUSED, OK
  <2> QED
    BY <1>8, <2>0, <2>1, <2>2 DEF InvokeTz, Owned
<1> QED
  BY <1>2, <1>3, <1>4, <1>5, <1>6, <1>7, <1>8, TaskEffect

\* The hooks after the secure world keep it: the tz_id goes to the session that was
\* entered for this call (tee_session_open_post), not to another one.
LEMMA SesPost ==
  ASSUME TypeInv, TypeInv', SesInv, NEW p \in Processes, tee_process_post(p), UNCHANGED cvars
  PROVE  SesInv'
<1> DEFINE r == teemem[p]
<1>0. /\ r # NULL /\ r \in Requests /\ r.at = "post" /\ r.op \in Ops /\ SesReq(p) /\ ids \in Nat /\ ids' \in Nat
      /\ r.session \in 0..ids /\ UNCHANGED <<tee_session_list, session>> /\ ids <= ids + 1 /\ ids <= ids
  <2>1. r # NULL /\ r \in Requests /\ r.at = "post"
    BY PostEffect
  <2>2. r.op \in Ops /\ ids \in Nat /\ ids' \in Nat
    BY <2>1 DEF TypeInv, Requests
  <2>3. SesReq(p) /\ r.session \in 0..ids
    BY <2>1 DEF SesInv, SesReq
  <2>4. UNCHANGED <<tee_session_list, session>>
    BY DEF tee_process_post, svars, cvars
  <2> QED
    BY <2>1, <2>2, <2>3, <2>4
<1>1. CASE Stopped(p)
  BY <1>0, <1>1, SesStopped
<1>2. \A e \in tee_sessions : e.tz_id \in 0..ids /\ e.id \in 1..ids /\ e.obj = e.id /\ e.id \in 0..ids
  BY <1>0 DEF SesInv
<1>3. CASE r.op = "init" /\ InitPost(p)
  BY <1>0, <1>3, SesOther DEF InitPost
<1>4. CASE r.op = "fin" /\ FinPost(p)
  BY <1>0, <1>4, SesOther DEF FinPost, Still, dvars
<1>5. CASE r.op = "reg" /\ RegPost(p)
  BY <1>0, <1>1, <1>5, SesOther DEF RegPost
<1>6. CASE r.op = "rel" /\ RelPost(p)
  BY <1>0, <1>1, <1>6, SesOther DEF RelPost
<1>7. CASE r.op = "close" /\ ClosePost(p)
  BY <1>0, <1>1, <1>2, <1>7, SesOther DEF ClosePost
<1>8. CASE r.op = "open" /\ OpenPost(p)
  <2>0. /\ r.tmpid # 0 /\ NewSession(p) /\ r.s \in Sessions /\ Owned(r.session, <<p, r.s>>)
        /\ r.session \in Int
    BY <1>0, <1>8 DEF SesReq, Is
  <2>1. ASSUME NEW e \in tee_contexts, NEW ses \in tee_sessions, ses.id = r.tmpid,
               tee_sessions' = WithTzid(tee_sessions, ses.obj, r.session),
               Became(p, "back", r.ret, e.id, ses.id, r.tmpid, r.memid, r.paddr, r.by), UNCHANGED ids
        PROVE  SesInv'
    <3>0. ses.obj = r.tmpid /\ ses.obj \in Int
      BY <1>0, <1>2, <2>1
    <3>1. \A x \in tee_sessions' :
            \/ x \in tee_sessions /\ x.obj # r.tmpid
            \/ x.id = r.tmpid /\ x.obj = x.id /\ x.tz_id = r.session
      BY <1>2, <2>0, <2>1, <3>0, WithTzidSession
    <3>2. SesStep(p)
      BY <1>0, <1>8, <2>1, <3>1 DEF SesStep, Became, Is
    <3>3. /\ teemem'[p].op = "open" /\ teemem'[p].at = "back" /\ teemem'[p].session = r.tmpid
          /\ teemem'[p].tmpid = r.tmpid /\ teemem'[p].s = r.s
          /\ \A q \in Processes : q # p => teemem'[q] = teemem[q]
      BY <1>8, <2>1 DEF Became
    <3>4. NewSession(p)'
      BY <1>0, <2>0, <2>1, <3>3 DEF NewSession
    <3>5. \A x \in tee_sessions', f \in tee_session_list' : x.id = r.tmpid /\ f.id = x.tz_id => f.owner = <<p, r.s>>
      BY <1>0, <1>2, <2>0, <3>1 DEF Owned
    <3>6. r.tmpid \in 0..ids'
      BY <1>2, <2>1
    <3>7. SesReq(p)'
      BY <2>0, <3>3, <3>4, <3>5, <3>6 DEF SesReq, Is, Means
    <3> QED
      BY <3>2, <3>7, SesStepInv
  <2> QED
    BY <1>1, <1>8, <2>1 DEF OpenPost
<1>9. CASE r.op = "invoke" /\ InvokePost(p)
  <2>0. r.tmpid = 0 /\ r.s \in Sessions
    BY <1>0, <1>9 DEF SesReq
  <2>1. ASSUME NEW e \in tee_sessions, NEW memid,
               Became(p, "back", r.ret, r.context, e.id, r.tmpid, memid, r.paddr, r.by),
               UNCHANGED <<tee_sessions, ids>>
        PROVE  SesInv'
    <3>1. SesStep(p)
      BY <1>0, <2>0, <2>1 DEF SesStep, Became
    <3>2. /\ teemem'[p].op = "invoke" /\ teemem'[p].at = "back" /\ teemem'[p].session = e.id
          /\ teemem'[p].tmpid = 0 /\ teemem'[p].s = r.s
      BY <1>9, <2>0, <2>1 DEF Became
    <3>3. SesReq(p)'
      BY <1>2, <2>0, <2>1, <3>2 DEF SesReq, Is
    <3> QED
      BY <3>1, <3>3, SesStepInv
  <2> QED
    BY <1>1, <1>9, <2>1 DEF InvokePost
<1> QED
  BY <1>3, <1>4, <1>5, <1>6, <1>7, <1>8, <1>9, PostEffect

\* The calls of the client keep it: an object names the session opened for it.
LEMMA SesCalls ==
  ASSUME TypeInv, TypeInv', SesInv, NEW p \in Processes, Calls(p)
  PROVE  SesInv'
<1>0. ids \in Nat /\ \A s \in Sessions : session[p][s].id \in 0..ids
  BY DEF TypeInv, SesInv
<1>1. ASSUME NEW op, NEW context1, NEW session1 \in 0..ids, NEW memid, NEW user, NEW tmp, NEW c, NEW s, NEW m,
             Began(p, op, context1, session1, memid, user, tmp, c, s, m),
             op \in {"open", "invoke"} => s \in Sessions,
             op = "open" => session1 = 0,
             op = "invoke" => session1 = session[p][s].id /\ UNCHANGED session,
             \A q \in Processes, d \in Sessions :
                session'[q][d] = session[q][d] \/ (q = p /\ session'[q][d].id = 0)
      PROVE  SesInv'
  <2>1. /\ teemem'[p].op = op /\ teemem'[p].at = "pre" /\ teemem'[p].session = session1 /\ teemem'[p].tmpid = 0
        /\ teemem'[p].s = s /\ UNCHANGED <<ids, tee_sessions, tee_session_list>>
    BY <1>1 DEF Began, svars, dvars
  <2>2. SesStep(p)
    BY <1>0, <1>1, <2>1 DEF SesStep, Began
  <2>3. SesReq(p)'
    BY <1>1, <2>1 DEF SesReq, Is
  <2> QED
    BY <2>2, <2>3, SesStepInv
<1>2. 0 \in 0..ids
  BY <1>0
<1>3. CASE BeginInit(p)
  BY <1>1, <1>2, <1>3 DEF BeginInit, cvars
<1>4. CASE BeginFin(p)
  BY <1>1, <1>2, <1>4 DEF BeginFin
<1>5. CASE BeginReg(p)
  BY <1>1, <1>2, <1>5 DEF BeginReg, cvars
<1>6. CASE BeginRel(p)
  BY <1>1, <1>2, <1>6 DEF BeginRel
<1>7. CASE BeginOpen(p)
  BY <1>1, <1>2, <1>7 DEF BeginOpen, cvars
<1>8. CASE BeginClose(p)
  <2>1. PICK s \in Sessions : /\ Began(p, "close", 0, session[p][s].id, 0, NULL, 0, NULL, NULL, NULL)
                              /\ session' = [session EXCEPT ![p][s] = Closed]
    BY <1>8 DEF BeginClose
  <2>2. \A q \in Processes, d \in Sessions : session'[q][d] = session[q][d] \/ (q = p /\ session'[q][d].id = 0)
    BY <2>1 DEF TypeInv, Closed
  <2> QED
    BY <1>0, <1>1, <2>1, <2>2
<1>9. CASE BeginInvoke(p)
  BY <1>0, <1>1, <1>9 DEF BeginInvoke, cvars
<1> QED
  BY <1>3, <1>4, <1>5, <1>6, <1>7, <1>8, <1>9, CallEffect

\* What the identifiers and tz_ids of sessions mean is kept by every step.
LEMMA SesNext ==
  ASSUME TypeInv, TypeInv', SesInv, [Next]_vars
  PROVE  SesInv'
<1>0. ids \in Nat
  BY DEF TypeInv
<1>1. CASE UNCHANGED vars
  BY <1>1 DEF SesInv, SesReq, NewSession, Means, Owned, Is, vars, svars, dvars, cvars
<1>2. ASSUME NEW p \in Processes, TEEC_return(p) PROVE SesInv'
  <2> DEFINE r == teemem[p]
  <2>1. /\ r # NULL /\ r.at = "back" /\ teemem'[p] = NULL
        /\ \A q \in Processes : q # p => teemem'[q] = teemem[q]
        /\ \A q \in Processes, s \in Sessions :
             session'[q][s] = IF q = p /\ r.op = "open" /\ r.ret = OK /\ s = r.s
                              THEN [id |-> r.session, c |-> r.c] ELSE session[q][s]
        /\ UNCHANGED <<tee_sessions, tee_session_list, ids>>
    BY <1>2, ReturnEffect DEF svars, dvars
  <2>2. SesStep(p)
    BY <1>0, <2>1 DEF SesStep, Is
  <2>3. SesReq(p)'
    BY <2>1 DEF SesReq
  <2> QED
    BY <2>2, <2>3, SesStepInv
<1>3. ASSUME NEW p \in Processes, exit(p) PROVE SesInv'
  <2>1. /\ teemem' = teemem /\ teemem[p] = NULL /\ UNCHANGED <<tee_sessions, tee_session_list, ids>>
    BY <1>3 DEF exit, tz_driver_release, svars
  <2>2. \A q \in Processes, s \in Sessions : session'[q][s] = session[q][s] \/ (q = p /\ session'[q][s].id = 0)
    BY <1>3 DEF exit, TypeInv, Closed
  <2>3. SesStep(p)
    BY <1>0, <2>1, <2>2 DEF SesStep
  <2>4. SesReq(p)'
    BY <2>1 DEF SesReq
  <2> QED
    BY <2>3, <2>4, SesStepInv
<1> QED
  BY <1>1, <1>2, <1>3, SesCalls, SesPre, SesTask, SesPost DEF Next

-----------------------------------------------------------------------------
(* Registered memory. *)

\* As WithTzidSession, for the table of memory.
LEMMA WithTzidMemory ==
  ASSUME TypeInv, NEW obj \in Int, NEW tzid \in Int
  PROVE  /\ \A x \in WithTzid(tee_memories, obj, tzid) :
              \/ x \in tee_memories /\ x.obj # obj
              \/ \E e \in tee_memories : /\ e.obj = obj /\ x.obj = obj /\ x.id = e.id /\ x.ctx = e.ctx
                                         /\ x.user = e.user /\ x.tz_id = tzid
         /\ \A e \in tee_memories : e.obj # obj => e \in WithTzid(tee_memories, obj, tzid)
         /\ \A e \in tee_memories : e.obj = obj =>
              \E x \in WithTzid(tee_memories, obj, tzid) :
                x.obj = obj /\ x.id = e.id /\ x.ctx = e.ctx /\ x.user = e.user /\ x.tz_id = tzid
         /\ \A x, y \in WithTzid(tee_memories, obj, tzid) :
              x.obj = obj /\ y.obj = obj /\ (\A d, e \in tee_memories : d.obj = e.obj => d = e) => x = y
<1>1. \A e \in MemEntry : /\ [e EXCEPT !.tz_id = tzid].obj = e.obj /\ [e EXCEPT !.tz_id = tzid].id = e.id
                          /\ [e EXCEPT !.tz_id = tzid].ctx = e.ctx /\ [e EXCEPT !.tz_id = tzid].user = e.user
                          /\ [e EXCEPT !.tz_id = tzid].tz_id = tzid
  BY DEF MemEntry
<1>2. tee_memories \subseteq MemEntry
  BY DEF TypeInv
<1>3. \A e \in tee_memories : e.obj = obj => [e EXCEPT !.tz_id = tzid] \in WithTzid(tee_memories, obj, tzid)
  BY DEF WithTzid
<1>4. \A e \in tee_memories : e.obj # obj => e \in WithTzid(tee_memories, obj, tzid)
  BY DEF WithTzid
<1>5. \A x \in WithTzid(tee_memories, obj, tzid) :
        \E e \in tee_memories : x = IF e.obj = obj THEN [e EXCEPT !.tz_id = tzid] ELSE e
  BY DEF WithTzid
<1>6. \A x \in WithTzid(tee_memories, obj, tzid) :
        \/ x \in tee_memories /\ x.obj # obj
        \/ \E e \in tee_memories : /\ e.obj = obj /\ x.obj = obj /\ x.id = e.id /\ x.ctx = e.ctx
                                   /\ x.user = e.user /\ x.tz_id = tzid
  <2>1. SUFFICES ASSUME NEW x \in WithTzid(tee_memories, obj, tzid), ~(x \in tee_memories /\ x.obj # obj)
                 PROVE  \E e \in tee_memories : /\ e.obj = obj /\ x.obj = obj /\ x.id = e.id /\ x.ctx = e.ctx
                                                /\ x.user = e.user /\ x.tz_id = tzid
    OBVIOUS
  <2>2. PICK e \in tee_memories : x = IF e.obj = obj THEN [e EXCEPT !.tz_id = tzid] ELSE e
    BY <1>5
  <2>3. e.obj = obj /\ x = [e EXCEPT !.tz_id = tzid]
    BY <2>1, <2>2
  <2> QED
    BY <1>1, <1>2, <2>3
<1>7. ASSUME NEW x \in WithTzid(tee_memories, obj, tzid), NEW y \in WithTzid(tee_memories, obj, tzid),
             x.obj = obj, y.obj = obj, \A d, e \in tee_memories : d.obj = e.obj => d = e
      PROVE  x = y
  <2>1. PICK d \in tee_memories : x = IF d.obj = obj THEN [d EXCEPT !.tz_id = tzid] ELSE d
    BY <1>5
  <2>2. PICK e \in tee_memories : y = IF e.obj = obj THEN [e EXCEPT !.tz_id = tzid] ELSE e
    BY <1>5
  <2>3. d.obj = obj /\ e.obj = obj
    BY <1>1, <1>2, <1>7, <2>1, <2>2
  <2> QED
    BY <1>7, <2>1, <2>2, <2>3
<1>8. \A e \in tee_memories : e.obj = obj =>
        \E x \in WithTzid(tee_memories, obj, tzid) :
           x.obj = obj /\ x.id = e.id /\ x.ctx = e.ctx /\ x.user = e.user /\ x.tz_id = tzid
  BY <1>1, <1>2, <1>3
<1> QED
  BY <1>4, <1>6, <1>7, <1>8

\* What a step of p may do to the memory of other processes.
MemStep(p) ==
  /\ \A q \in Processes : q # p => teemem'[q] = teemem[q]
  /\ ids' \in Nat /\ ids <= ids'
  /\ \A x \in tee_contexts' : x \in tee_contexts \/ x.obj = ids + 1
  /\ \A g \in tee_memory_list' : g \in tee_memory_list \/ (ids' = ids + 1 /\ g.id = ids + 1)
  /\ \A x \in tee_memories' :
       \/ x \in tee_memories
       \/ x.obj = ids + 1 /\ x.id = ids + 1 /\ x.tz_id = 0
       \/ /\ Is(p, {"reg"}, {"post"}) /\ x.tz_id = teemem[p].memid
          /\ \E e \in tee_memories : /\ e.obj = teemem[p].paddr /\ x.obj = e.obj /\ x.id = e.id /\ x.ctx = e.ctx
                                     /\ x.user = e.user
  /\ \A e \in tee_memories : e.tz_id # 0 /\ e.user[1] # p => e \in tee_memories'
  /\ Is(p, {"reg"}, {"post"})' => \/ Is(p, {"reg"}, {"post"}) /\ teemem'[p].memid = teemem[p].memid
                                  \/ teemem'[p].memid = 0
                                  \/ ids' = ids + 1 /\ teemem'[p].memid = ids + 1
  /\ \A q \in Processes : q # p => memory'[q] = memory[q]

\* A MemStep of p leaves the requests and objects of the other processes with their
\* meaning.
LEMMA MemOthers ==
  ASSUME TypeInv, MemInv, NEW p \in Processes, MemStep(p), NEW q \in Processes, q # p
  PROVE  MemReq(q)' /\ MemObject(q)'
<1> DEFINE r == teemem[q]
<1>0. /\ ids \in Nat /\ ids' \in Nat /\ ids <= ids' /\ teemem'[q] = r /\ MemReq(q) /\ memory'[q] = memory[q]
      /\ MemObject(q)
  BY DEF MemStep, TypeInv, MemInv
<1>1. \A e \in tee_memories : /\ e.id \in 1..ids /\ e.obj = e.id /\ e.tz_id \in 0..ids /\ e.ctx \in 1..ids
                              /\ e.user \in Processes \X Memories
  BY DEF MemInv, MemTable
<1>2. Is(p, {"reg"}, {"post"}) =>
        /\ teemem[p].paddr <= ids
        /\ \A e \in tee_memories : e.obj = teemem[p].paddr => e.user[1] = p
  <2>1. SUFFICES ASSUME Is(p, {"reg"}, {"post"})
                 PROVE  /\ teemem[p].paddr \in 0..ids
                        /\ \A e \in tee_memories : e.obj = teemem[p].paddr => e.user = <<p, teemem[p].m>>
    BY <1>0
  <2>2. MemReq(p)
    BY DEF MemInv
  <2> QED
    BY <2>1, <2>2 DEF MemReq, Is
<1>3. ASSUME NEW id \in 0..ids, NEW m, Mine(id, <<q, m>>)
      PROVE  \A e \in tee_memories' : e.id = id => e.user = <<q, m>> /\ e.tz_id # 0
  <2>1. SUFFICES ASSUME NEW e \in tee_memories', e.id = id PROVE e \in tee_memories
    BY <1>3 DEF Mine
  <2>2. e.id # ids + 1
    BY <1>0, <2>1
  <2>3. ASSUME Is(p, {"reg"}, {"post"}), NEW d \in tee_memories, d.obj = teemem[p].paddr, e.id = d.id, e.user = d.user
        PROVE  FALSE
    <3>1. d.user[1] = p /\ d.user = <<q, m>>
      BY <1>2, <1>3, <2>1, <2>3 DEF Mine
    <3> QED
      BY <3>1
  <2> QED
    BY <2>2, <2>3 DEF MemStep
<1>4. ASSUME NEW tz, NEW m, Holds(tz, <<q, m>>)
      PROVE  \E e \in tee_memories' : e.tz_id = tz /\ e.user = <<q, m>>
  <2>1. PICK e \in tee_memories : e.tz_id = tz /\ e.user = <<q, m>>
    BY <1>4 DEF Holds
  <2>2. e.user[1] # p /\ e.tz_id # 0
    BY <1>4, <2>1 DEF Holds
  <2> QED
    BY <2>1, <2>2 DEF MemStep
<1>5. MemObject(q)'
  <2>0. \A m \in Memories : memory[q][m].id \in 0..ids
    BY <1>0 DEF MemObject
  <2>1. \A m \in Memories : memory[q][m].id \in 0..ids'
    BY <1>0, <2>0
  <2> QED
    BY <1>0, <1>3, <2>1 DEF MemObject, Mine
<1>6. ASSUME r # NULL PROVE r.memid \in 0..ids /\ r.memid \in 0..ids' /\ r.paddr \in 0..ids'
  <2>1. r.memid \in 0..ids /\ r.paddr \in 0..ids
    BY <1>0, <1>6 DEF MemReq
  <2> QED
    BY <1>0, <2>1
<1>7. ASSUME Is(q, {"reg"}, {"tz", "post"})
      PROVE  \A e \in tee_memories' : e.obj = r.paddr =>
               e.user = <<q, r.m>> /\ e.tz_id = 0 /\ \A x \in tee_contexts' : x.obj = e.ctx => x.tz_id = r.context
  <2>1. /\ r.paddr <= ids
        /\ \A e \in tee_memories : e.obj = r.paddr =>
             e.user = <<q, r.m>> /\ e.tz_id = 0 /\ \A x \in tee_contexts : x.obj = e.ctx => x.tz_id = r.context
    BY <1>0, <1>7 DEF MemReq, Is
  <2>2. SUFFICES ASSUME NEW e \in tee_memories', e.obj = r.paddr
                 PROVE  e.user = <<q, r.m>> /\ e.tz_id = 0 /\ \A x \in tee_contexts' : x.obj = e.ctx => x.tz_id = r.context
    OBVIOUS
  <2>3. e.obj # ids + 1
    BY <1>0, <2>1, <2>2
  <2>4. e \in tee_memories
    <3>1. ASSUME Is(p, {"reg"}, {"post"}), NEW d \in tee_memories, d.obj = teemem[p].paddr, e.obj = d.obj
          PROVE  FALSE
      <4>1. d.user[1] = p /\ d.user = <<q, r.m>>
        BY <1>2, <2>1, <2>2, <3>1
      <4> QED
        BY <4>1
    <3> QED
      BY <2>3, <3>1 DEF MemStep
  <2>5. \A x \in tee_contexts' : x.obj = e.ctx => x \in tee_contexts
    <3>1. e.ctx # ids + 1
      BY <1>0, <1>1, <2>4
    <3> QED
      BY <3>1 DEF MemStep
  <2> QED
    BY <2>1, <2>2, <2>4, <2>5
<1>8. ASSUME Is(q, {"reg"}, {"post"}), NewMemory(q) PROVE NewMemory(q)'
  <2>0. r.memid > 0 /\ r.memid <= ids /\ r.memid \in Int /\ r.context # MAGIC
    BY <1>0, <1>8 DEF NewMemory, MemReq, Is, TypeInv, Requests
  <2>1. \A e \in tee_memories' : e.tz_id # r.memid
    <3>1. Is(p, {"reg"}, {"post"}) => teemem[p].memid # r.memid
      BY <1>8 DEF NewMemory
    <3> QED
      BY <1>8, <2>0, <3>1 DEF MemStep, NewMemory
  <2>2. \A g \in tee_memory_list' : g.id = r.memid => g.paddr = r.paddr
    BY <1>0, <1>8, <2>0 DEF MemStep, NewMemory
  <2>3. ASSUME NEW z \in Processes, z # q, Is(z, {"reg"}, {"post"})' PROVE teemem'[z].memid # r.memid
    <3>1. CASE z = p
      BY <1>0, <1>8, <2>0, <2>3, <3>1 DEF MemStep, NewMemory
    <3>2. CASE z # p
      <4>1. teemem'[z] = teemem[z] /\ Is(z, {"reg"}, {"post"})
        BY <2>3, <3>2 DEF MemStep, Is
      <4> QED
        BY <1>8, <2>3, <4>1 DEF NewMemory
    <3> QED
      BY <3>1, <3>2
  <2> QED
    BY <1>0, <2>0, <2>1, <2>2, <2>3 DEF NewMemory
<1>9. ASSUME r # NULL, r.op = "reg", r.at = "back", r.ret = OK
      PROVE  r.memid > 0 /\ \A e \in tee_memories' : e.id = r.memid => e.user = <<q, r.m>> /\ e.tz_id # 0
  <2>1. r.memid > 0 /\ r.memid \in 0..ids /\ Mine(r.memid, <<q, r.m>>)
    BY <1>0, <1>9 DEF MemReq, Is, TypeInv, Requests
  <2> QED
    BY <1>3, <2>1
<1>10. ASSUME r # NULL, r.op = "rel"
       PROVE  /\ r.at = "pre" => \A e \in tee_memories' : e.id = r.memid => e.user = r.user /\ e.tz_id # 0
              /\ r.at \in {"tz", "post"} => r.memid # 0 /\ \E e \in tee_memories' : e.tz_id = r.memid /\ e.user = r.user
  <2>1. PICK m \in Memories : r.user = <<q, m>>
    BY <1>0, <1>10 DEF MemReq
  <2>2. r.at = "pre" => Mine(r.memid, <<q, m>>)
    BY <1>0, <1>10, <2>1 DEF MemReq, Is
  <2>3. r.at \in {"tz", "post"} => Holds(r.memid, <<q, m>>)
    BY <1>0, <1>10, <2>1 DEF MemReq, Is
  <2> QED
    BY <1>3, <1>4, <1>6, <1>10, <2>1, <2>2, <2>3 DEF Holds
<1>11. ASSUME r # NULL, r.op = "invoke", r.m # NULL
       PROVE  /\ r.at = "pre" => \A e \in tee_memories' : e.id = r.memid => e.user = <<q, r.m>> /\ e.tz_id # 0
              /\ r.at = "tz" =>
                   r.memid # 0 /\ \E e \in tee_memories' : e.tz_id = r.memid /\ e.user = <<q, r.m>>
              /\ r.at = "post" /\ r.ret = OK =>
                   r.memid # 0 /\ \E e \in tee_memories' : e.tz_id = r.memid /\ e.obj = r.paddr /\ e.user = <<q, r.m>>
  <2>1. r.at = "pre" => Mine(r.memid, <<q, r.m>>)
    BY <1>0, <1>11 DEF MemReq, Is
  <2>2. r.at = "tz" => Holds(r.memid, <<q, r.m>>)
    BY <1>0, <1>11 DEF MemReq, Is
  <2>3. ASSUME r.at = "post", r.ret = OK
        PROVE  r.memid # 0 /\ \E e \in tee_memories' : e.tz_id = r.memid /\ e.obj = r.paddr /\ e.user = <<q, r.m>>
    <3>1. /\ r.memid # 0
          /\ \E e \in tee_memories : e.tz_id = r.memid /\ e.obj = r.paddr /\ e.user = <<q, r.m>>
      BY <1>0, <1>11, <2>3 DEF MemReq, Is
    <3> QED
      BY <3>1 DEF MemStep
  <2> QED
    BY <1>3, <1>4, <1>6, <1>11, <2>1, <2>2, <2>3 DEF Holds
<1>12. ASSUME r # NULL PROVE MemReq(q)'
  <2>1. r.op = "reg" => r.m \in Memories /\ r.user = <<q, r.m>>
    BY <1>0, <1>12 DEF MemReq
  <2>2. Is(q, {"reg"}, {"pre", "tz"}) => r.memid = 0
    BY <1>0, <1>12 DEF MemReq
  <2>3. Is(q, {"reg"}, {"post"}) => NewMemory(q) \/ (r.memid = 0 /\ r.ret # OK)
    BY <1>0, <1>12 DEF MemReq
  <2>4. /\ r.op = "rel" => r.user \in {q} \X Memories
        /\ r.op = "invoke" => (r.m = NULL => r.memid = 0) /\ (r.m # NULL => r.m \in Memories)
        /\ Is(q, {"invoke"}, {"pre"}) /\ r.m # NULL => r.memid # 0
    BY <1>0, <1>12 DEF MemReq
  <2> QED
    BY <1>0, <1>6, <1>7, <1>8, <1>9, <1>10, <1>11, <1>12, <2>1, <2>2, <2>3, <2>4 DEF MemReq, Is, Mine, Holds
<1> QED
  BY <1>0, <1>5, <1>12 DEF MemReq

\* The step keeps the table of memory, and does for the process itself what
\* MemReq and MemObject ask.
LEMMA MemStepInv ==
  ASSUME TypeInv, MemInv, NEW p \in Processes, MemStep(p), MemTable', MemReq(p)', MemObject(p)'
  PROVE  MemInv'
<1>1. \A q \in Processes : q # p => MemReq(q)' /\ MemObject(q)'
  BY MemOthers
<1> QED
  BY <1>1 DEF MemInv

\* Memory that is taken away, and contexts or registrations with a new number,
\* do not disturb the table.
LEMMA MemTableKept ==
  ASSUME TypeInv, TypeInv', MemInv, ids <= ids', tee_memories' \subseteq tee_memories,
         \A x \in tee_contexts' : x \in tee_contexts \/ x.obj = ids + 1,
         \A g \in tee_memory_list' : g \in tee_memory_list \/ (ids' = ids + 1 /\ g.id = ids + 1)
  PROVE  MemTable'
<1>0. ids \in Nat /\ ids' \in Nat /\ MemTable
  BY DEF TypeInv, MemInv
<1>1. \A e \in tee_memories : /\ e.id \in 1..ids /\ e.obj = e.id /\ e.tz_id \in 0..ids /\ e.ctx \in 1..ids
                              /\ e.user \in Processes \X Memories
  BY <1>0 DEF MemTable
<1>2. \A e \in tee_memories : /\ e.id \in 1..ids' /\ e.tz_id \in 0..ids' /\ e.ctx \in 1..ids'
                              /\ e.tz_id # ids + 1 /\ e.ctx # ids + 1
  BY <1>0, <1>1
<1>3. \A e \in tee_memories', g \in tee_memory_list' : g.id = e.tz_id => g.paddr = e.obj
  BY <1>0, <1>2 DEF MemTable
<1>4. \A e \in tee_memories', x \in tee_contexts' : x.obj = e.ctx =>
        x.id = e.user[1] /\ (e.tz_id # 0 => x.tz_id # MAGIC)
  BY <1>0, <1>2 DEF MemTable
<1>5. \A d, e \in tee_memories' : d.obj = e.obj \/ (d.tz_id = e.tz_id /\ e.tz_id # 0) => d = e
  BY <1>0 DEF MemTable
<1>6. \A g \in tee_memory_list' : g.id \in 1..ids'
  <2>1. \A g \in tee_memory_list : g.id \in 1..ids
    BY <1>0 DEF MemTable
  <2> QED
    BY <1>0, <2>1
<1> QED
  BY <1>1, <1>2, <1>3, <1>4, <1>5, <1>6 DEF MemTable

\* Objects of the client that keep their memory, or are cleared.
LEMMA MemObjectKept ==
  ASSUME TypeInv, TypeInv', MemInv, NEW p \in Processes, ids <= ids',
         \A x \in tee_memories' : x \in tee_memories \/ x.id = ids + 1,
         MemTable', \A m \in Memories : memory'[p][m] \in {memory[p][m], Closed}
  PROVE  MemObject(p)'
<1>0. ids \in Nat /\ ids' \in Nat /\ MemObject(p)
  BY DEF TypeInv, MemInv
<1>1. \A x \in tee_memories' : x.id # 0
  BY <1>0 DEF MemTable
<1>2. SUFFICES ASSUME NEW m \in Memories
               PROVE  /\ memory'[p][m].id \in 0..ids' /\ (memory'[p][m] # Closed => memory'[p][m].id # 0)
                      /\ \A x \in tee_memories' : x.id = memory'[p][m].id => x.user = <<p, m>> /\ x.tz_id # 0
  BY DEF MemObject, Mine
<1>3. CASE memory'[p][m] = Closed
  BY <1>0, <1>1, <1>3 DEF Closed
<1>4. CASE memory'[p][m] = memory[p][m]
  <2>1. /\ memory[p][m].id \in 0..ids /\ (memory[p][m] # Closed => memory[p][m].id # 0)
        /\ \A x \in tee_memories : x.id = memory[p][m].id => x.user = <<p, m>> /\ x.tz_id # 0
    BY <1>0 DEF MemObject, Mine
  <2>2. memory[p][m].id \in 0..ids' /\ memory[p][m].id # ids + 1
    BY <1>0, <2>1
  <2> QED
    BY <1>4, <2>1, <2>2
<1> QED
  BY <1>2, <1>3, <1>4

\* A step of a request that is about no memory.  Memory that is taken away is
\* the process's own, or was not registered in the secure world.
LEMMA MemOther ==
  ASSUME TypeInv, TypeInv', MemInv, NEW p \in Processes, teemem[p] # NULL, teemem[p].op \notin {"reg", "rel",
         "invoke"},
         NEW at, NEW ret, NEW context1, NEW session1, NEW tmpid, NEW memid \in 0..ids, NEW by,
         Became(p, at, ret, context1, session1, tmpid, memid, teemem[p].paddr, by),
         ids <= ids', tee_memories' \subseteq tee_memories,
         \A x \in tee_contexts' : x \in tee_contexts \/ x.obj = ids + 1,
         \A e \in tee_memories : e.tz_id # 0 /\ e.user[1] # p => e \in tee_memories',
         UNCHANGED <<tee_memory_list, memory>>
  PROVE  MemInv'
<1>0. /\ ids \in Nat /\ ids' \in Nat /\ teemem[p].memid \in 0..ids /\ teemem[p].paddr \in 0..ids
  BY DEF TypeInv, MemInv, MemReq
<1>1. MemTable'
  BY MemTableKept
<1>2. MemObject(p)'
  BY <1>1, MemObjectKept
<1>3. /\ teemem'[p].op \notin {"reg", "rel", "invoke"} /\ teemem'[p].memid \in 0..ids'
      /\ teemem'[p].paddr \in 0..ids'
  BY <1>0 DEF Became
<1>4. MemReq(p)'
  BY <1>3 DEF MemReq, Is
<1>5. MemStep(p)
  BY <1>0, <1>3 DEF MemStep, Became, Is
<1> QED
  BY <1>1, <1>2, <1>4, <1>5, MemStepInv

\* A step of p that leaves the memory of both worlds, and the objects, alone.
LEMMA MemQuiet ==
  ASSUME TypeInv, TypeInv', MemInv, NEW p \in Processes,
         \A q \in Processes : q # p => teemem'[q] = teemem[q],
         UNCHANGED <<tee_contexts, tee_memories, ids, memory>>,
         tee_memory_list' \subseteq tee_memory_list,
         ~Is(p, {"reg"}, {"post"})', MemReq(p)'
  PROVE  MemInv'
<1>0. ids \in Nat /\ ids' \in Nat /\ ids <= ids'
  BY DEF TypeInv
<1>1. MemTable'
  BY <1>0, MemTableKept
<1>2. MemObject(p)'
  BY <1>0, <1>1, MemObjectKept
<1>3. MemStep(p)
  BY <1>0 DEF MemStep
<1> QED
  BY <1>1, <1>2, <1>3, MemStepInv

\* A call that stops keeps it.
LEMMA MemStopped ==
  ASSUME TypeInv, TypeInv', MemInv, NEW p \in Processes, teemem[p] # NULL, Stopped(p)
  PROVE  MemInv'
<1> DEFINE r == teemem[p]
<1>1. /\ \A q \in Processes : q # p => teemem'[q] = teemem[q]
      /\ teemem'[p] # NULL /\ teemem'[p].at \in {"back", "oops"}
      /\ teemem'[p].at = "back" => teemem'[p].ret = REFUSED
      /\ teemem'[p].op = r.op /\ teemem'[p].memid = r.memid /\ teemem'[p].paddr = r.paddr
      /\ teemem'[p].m = r.m /\ teemem'[p].user = r.user
      /\ UNCHANGED <<tee_contexts, tee_memories, tee_memory_list, memory, ids>>
  BY DEF Stopped, Gone, Became, svars, cvars
<1>2. MemReq(p) /\ REFUSED # OK
  BY DEF MemInv, REFUSED, OK
<1>3. MemReq(p)' /\ ~Is(p, {"reg"}, {"post"})'
  BY <1>1, <1>2 DEF MemReq, Is
<1> QED
  BY <1>1, <1>3, MemQuiet

\* The hooks before the secure world: an identifier of the client becomes the
\* tz_id of memory that is its own.
LEMMA MemPre ==
  ASSUME TypeInv, TypeInv', CtxInv, MemInv, NEW p \in Processes, tee_process_pre(p), UNCHANGED cvars
  PROVE  MemInv'
<1> DEFINE r == teemem[p]
<1>0. /\ r # NULL /\ r \in Requests /\ r.at = "pre" /\ r.op \in Ops /\ MemReq(p) /\ ids \in Nat /\ ids' \in Nat
      /\ ids <= ids + 1 /\ ids <= ids
  BY PreEffect DEF TypeInv, Requests, MemInv
<1>1. CASE Stopped(p)
  BY <1>0, <1>1, MemStopped
<1>2. /\ r.memid \in 0..ids /\ r.paddr \in 0..ids
      /\ \A e \in tee_memories : e.id \in 1..ids /\ e.obj = e.id /\ e.tz_id \in 0..ids /\ e.ctx \in 1..ids
  BY <1>0 DEF MemInv, MemTable, MemReq
<1>3. CASE r.op = "init" /\ InitPre(p)
  BY <1>0, <1>2, <1>3, MemOther DEF InitPre, Still, svars, cvars, dvars
<1>4. CASE r.op = "fin" /\ FinPre(p)
  BY <1>0, <1>1, <1>2, <1>4, MemOther DEF FinPre, Still, svars, cvars, dvars
<1>5. CASE r.op = "open" /\ OpenPre(p)
  <2>1. ASSUME NEW at, NEW ret, NEW context1, NEW tmpid, NEW memid, memid = r.memid \/ Parameter(r.memid, memid),
               Became(p, at, ret, context1, r.session, tmpid, memid, r.paddr, r.by), ids' = ids + 1,
               UNCHANGED <<tee_contexts, tee_memories, tee_memory_list, memory>>
        PROVE  MemInv'
    <3>1. memid \in 0..ids
      BY <1>0, <1>2, <2>1 DEF Parameter
    <3> QED
      BY <1>0, <1>5, <2>1, <3>1, MemOther
  <2> QED
    BY <1>1, <1>5, <2>1 DEF OpenPre, Gone, svars, cvars
<1>6. CASE r.op = "close" /\ ClosePre(p)
  BY <1>0, <1>1, <1>2, <1>6, MemOther DEF ClosePre, Still, svars, cvars, dvars
<1>7. CASE r.op = "rel" /\ RelPre(p)
  <2>1. ASSUME NEW e \in tee_memories, e.id = r.memid, e.user = r.user,
               Became(p, "tz", r.ret, r.context, r.session, r.tmpid, e.tz_id, r.paddr, r.by), Still
        PROVE  MemInv'
    <3>1. r.user \in {p} \X Memories /\ Mine(r.memid, r.user)
      BY <1>0, <1>7 DEF MemReq, Is
    <3>2. Holds(e.tz_id, r.user)
      BY <2>1, <3>1 DEF Mine, Holds
    <3>3. /\ teemem'[p].op = "rel" /\ teemem'[p].at = "tz" /\ teemem'[p].memid = e.tz_id
          /\ teemem'[p].paddr = r.paddr /\ teemem'[p].user = r.user
          /\ \A q \in Processes : q # p => teemem'[q] = teemem[q]
      BY <1>7, <2>1 DEF Became
    <3>4. UNCHANGED <<tee_contexts, tee_memories, ids, memory, tee_memory_list>>
      BY <2>1 DEF Still, svars, cvars, dvars
    <3>5. Holds(e.tz_id, r.user)'
      BY <3>2, <3>3, <3>4, <2>1 DEF Holds
    <3>6. MemReq(p)' /\ ~Is(p, {"reg"}, {"post"})'
      BY <1>2, <3>1, <3>2, <3>3, <3>4 DEF MemReq, Is, Holds
    <3> QED
      BY <3>3, <3>4, <3>6, MemQuiet
  <2> QED
    BY <1>1, <1>7, <2>1 DEF RelPre
<1>8. CASE r.op = "invoke" /\ InvokePre(p)
  <2>1. ASSUME NEW memid \in Int, NEW session1,
               Parameter(r.memid, memid),
               Became(p, "tz", r.ret, r.context, session1, r.tmpid, memid, r.paddr, r.by),
               UNCHANGED <<tee_contexts, tee_memories, ids, memory, tee_memory_list>>
        PROVE  MemInv'
    <3>1. /\ r.m = NULL => r.memid = 0
          /\ r.m # NULL => r.m \in Memories /\ r.memid # 0 /\ Mine(r.memid, <<p, r.m>>)
      BY <1>0, <1>8 DEF MemReq, Is
    <3>2. r.m # NULL => Holds(memid, <<p, r.m>>)
      BY <2>1, <3>1 DEF Mine, Holds, Parameter
    <3>3. memid \in 0..ids /\ (r.m = NULL => memid = 0)
      BY <1>0, <1>2, <2>1, <3>1 DEF Parameter
    <3>4. /\ teemem'[p].op = "invoke" /\ teemem'[p].at = "tz" /\ teemem'[p].memid = memid
          /\ teemem'[p].paddr = r.paddr /\ teemem'[p].m = r.m
          /\ \A q \in Processes : q # p => teemem'[q] = teemem[q]
      BY <1>8, <2>1 DEF Became
    <3>5. MemReq(p)' /\ ~Is(p, {"reg"}, {"post"})'
      BY <1>2, <2>1, <3>1, <3>2, <3>3, <3>4 DEF MemReq, Is, Holds
    <3> QED
      BY <2>1, <3>4, <3>5, MemQuiet
  <2> QED
    BY <1>1, <1>8, <2>1 DEF InvokePre, svars, cvars
<1>9. CASE r.op = "reg" /\ RegPre(p)
  <2>1. ASSUME NEW e \in tee_contexts, e.id = r.context,
               Became(p, "tz", r.ret, e.tz_id, r.session, r.tmpid, r.memid, ids + 1, r.by), ids' = ids + 1,
               tee_memories' = tee_memories \cup
                 {[obj |-> ids + 1, id |-> ids + 1, tz_id |-> 0, ctx |-> e.obj, user |-> r.user]},
               UNCHANGED <<tee_contexts, tee_memory_list, memory>>
        PROVE  MemInv'
    <3>1. /\ r.m \in Memories /\ r.user = <<p, r.m>> /\ r.memid = 0
      BY <1>0, <1>9 DEF MemReq, Is
    <3>2. r.context = p /\ e.obj \in 1..ids /\ \A x \in tee_contexts : x.obj = e.obj => x = e
      BY <1>0, <1>9 DEF CtxInv, CtxReq, Is
    <3> DEFINE new == [obj |-> ids + 1, id |-> ids + 1, tz_id |-> 0, ctx |-> e.obj, user |-> r.user]
    <3>3. /\ new.obj = ids + 1 /\ new.id = ids + 1 /\ new.tz_id = 0 /\ new.ctx = e.obj /\ new.user = <<p, r.m>>
          /\ tee_memories' = tee_memories \cup {new}
      BY <2>1, <3>1
    <3> HIDE DEF new
    <3>4. MemTable'
      <4>0. MemTable
        BY DEF MemInv
      <4>1. \A x \in tee_memories : x.obj # ids + 1
        BY <1>0, <1>2
      <4>2. /\ \A x \in tee_memories' : /\ x.id \in 1..ids' /\ x.obj = x.id /\ x.tz_id \in 0..ids'
                                        /\ x.ctx \in 1..ids'
        BY <1>0, <1>2, <2>1, <3>2, <3>3
      <4>3. \A x \in tee_memories' : x.user \in Processes \X Memories
        <5>1. new.user \in Processes \X Memories
          BY <3>1, <3>3
        <5>2. \A x \in tee_memories : x.user \in Processes \X Memories
          BY <4>0 DEF MemTable
        <5> QED
          BY <3>3, <5>1, <5>2
      <4>4. \A x \in tee_memories', g \in tee_memory_list : g.id = x.tz_id => g.paddr = x.obj
        BY <3>3, <4>0 DEF MemTable
      <4>5. \A x \in tee_memories', y \in tee_contexts : y.obj = x.ctx =>
              y.id = x.user[1] /\ (x.tz_id # 0 => y.tz_id # MAGIC)
        BY <2>1, <3>2, <3>3, <4>0 DEF MemTable
      <4>6. \A d, x \in tee_memories' : d.obj = x.obj \/ (d.tz_id = x.tz_id /\ x.tz_id # 0) => d = x
        BY <3>3, <4>0, <4>1 DEF MemTable
      <4>7. \A g \in tee_memory_list : g.id \in 1..ids'
        BY <1>0, <2>1, <4>0 DEF MemTable
      <4> QED
        BY <2>1, <4>2, <4>3, <4>4, <4>5, <4>6, <4>7 DEF MemTable
    <3>5. MemObject(p)'
      BY <1>0, <2>1, <3>3, <3>4, MemObjectKept
    <3>6. /\ teemem'[p].op = "reg" /\ teemem'[p].at = "tz" /\ teemem'[p].memid = 0 /\ teemem'[p].paddr = ids + 1
          /\ teemem'[p].m = r.m /\ teemem'[p].user = r.user /\ teemem'[p].context = e.tz_id
          /\ \A q \in Processes : q # p => teemem'[q] = teemem[q]
      BY <1>9, <2>1, <3>1 DEF Became
    <3>7. \A x \in tee_memories' : x.obj = ids + 1 =>
            x.user = <<p, r.m>> /\ x.tz_id = 0 /\ \A y \in tee_contexts : y.obj = x.ctx => y.tz_id = e.tz_id
      BY <1>0, <1>2, <3>2, <3>3
    <3>8. MemReq(p)'
      BY <1>0, <2>1, <3>1, <3>6, <3>7 DEF MemReq, Is
    <3>9. MemStep(p)
      BY <1>0, <2>1, <3>3, <3>6 DEF MemStep, Is
    <3> QED
      BY <3>4, <3>5, <3>8, <3>9, MemStepInv
  <2> QED
    BY <1>1, <1>9, <2>1 DEF RegPre, svars, cvars
<1> QED
  BY <1>3, <1>4, <1>5, <1>6, <1>7, <1>8, <1>9, PreEffect

\* The TEE task: the memory that a command works on is that of its tz_id.
LEMMA MemTask ==
  ASSUME TypeInv, TypeInv', CtxInv, MemInv, NEW p \in Processes, tee_task(p), UNCHANGED <<dvars, cvars>>
  PROVE  MemInv'
<1> DEFINE r == teemem[p]
<1>0. /\ r # NULL /\ r \in Requests /\ r.at = "tz" /\ r.op \in Ops /\ MemReq(p) /\ ids \in Nat /\ ids' \in Nat
      /\ UNCHANGED <<tee_memories, tee_contexts, memory>> /\ ids <= ids + 1 /\ ids <= ids
  BY TaskEffect DEF TypeInv, Requests, MemInv, dvars, cvars
<1>1. /\ r.memid \in 0..ids /\ r.paddr \in 0..ids
      /\ \A e \in tee_memories : e.id \in 1..ids /\ e.obj = e.id /\ e.tz_id \in 0..ids /\ e.ctx \in 1..ids
  BY <1>0 DEF MemInv, MemTable, MemReq
<1>2. CASE r.op = "init" /\ InitTz(p)
  BY <1>0, <1>1, <1>2, MemOther DEF InitTz
<1>3. CASE r.op = "fin" /\ FinTz(p)
  BY <1>0, <1>1, <1>3, MemOther DEF FinTz
<1>4. CASE r.op = "open" /\ OpenTz(p)
  BY <1>0, <1>1, <1>4, MemOther DEF OpenTz
<1>5. CASE r.op = "close" /\ CloseTz(p)
  BY <1>0, <1>1, <1>5, MemOther DEF CloseTz, Still, svars
<1>6. CASE r.op = "rel" /\ RelTz(p)
  <2>1. ASSUME NEW ret, Became(p, "post", ret, r.context, r.session, r.tmpid, r.memid, r.paddr, r.by),
               tee_memory_list' \subseteq tee_memory_list, UNCHANGED ids
        PROVE  MemInv'
    <3>1. r.user \in {p} \X Memories /\ Holds(r.memid, r.user)
      BY <1>0, <1>6 DEF MemReq, Is
    <3>2. /\ teemem'[p].op = "rel" /\ teemem'[p].at = "post" /\ teemem'[p].memid = r.memid
          /\ teemem'[p].paddr = r.paddr /\ teemem'[p].user = r.user
          /\ \A q \in Processes : q # p => teemem'[q] = teemem[q]
      BY <1>6, <2>1 DEF Became
    <3>3. MemReq(p)' /\ ~Is(p, {"reg"}, {"post"})'
      BY <1>0, <1>1, <2>1, <3>1, <3>2 DEF MemReq, Is, Holds
    <3> QED
      BY <1>0, <2>1, <3>2, <3>3, MemQuiet
  <2> QED
    BY <1>6, <2>1 DEF RelTz
<1>7. CASE r.op = "invoke" /\ InvokeTz(p)
  <2>1. ASSUME NEW ret, NEW paddr \in Int, NEW by,
               Became(p, "post", ret, r.context, r.session, r.tmpid, r.memid, paddr, by), Still,
               \/ /\ ret = OK
                  /\ IF r.memid = 0 THEN paddr = 0 ELSE \E g \in tee_memory_list : g.id = r.memid /\ g.paddr = paddr
               \/ ret # OK /\ paddr = r.paddr
        PROVE  MemInv'
    <3>1. /\ r.m = NULL => r.memid = 0
          /\ r.m # NULL => r.m \in Memories /\ Holds(r.memid, <<p, r.m>>)
      BY <1>0, <1>7 DEF MemReq, Is
    <3>2. ret = OK /\ r.m # NULL =>
            /\ r.memid # 0
            /\ \E e \in tee_memories : e.tz_id = r.memid /\ e.obj = paddr /\ e.user = <<p, r.m>>
      <4>1. \A e \in tee_memories, g \in tee_memory_list : g.id = e.tz_id => g.paddr = e.obj
        BY DEF MemInv, MemTable
      <4> QED
        BY <2>1, <3>1, <4>1 DEF Holds
    <3>3. paddr \in 0..ids
      <4>1. r.memid = 0 \/ r.m # NULL
        BY <3>1
      <4> QED
        BY <1>0, <1>1, <2>1, <3>2, <4>1
    <3>4. /\ teemem'[p].op = "invoke" /\ teemem'[p].at = "post" /\ teemem'[p].memid = r.memid
          /\ teemem'[p].paddr = paddr /\ teemem'[p].m = r.m /\ teemem'[p].ret = ret
          /\ \A q \in Processes : q # p => teemem'[q] = teemem[q]
      BY <1>7, <2>1 DEF Became
    <3>5. UNCHANGED <<tee_contexts, tee_memories, ids, memory, tee_memory_list>>
      BY <2>1 DEF Still, svars, cvars, dvars
    <3>6. MemReq(p)' /\ ~Is(p, {"reg"}, {"post"})'
      BY <1>1, <3>1, <3>2, <3>3, <3>4, <3>5 DEF MemReq, Is
    <3> QED
      BY <3>4, <3>5, <3>6, MemQuiet
  <2>2. r.paddr \in Int /\ OK # REFUSED
    BY <1>0 DEF Requests, OK, REFUSED
  <2> QED
    BY <1>7, <2>1, <2>2 DEF InvokeTz
<1>8. CASE r.op = "reg" /\ RegTz(p)
  <2>0. /\ r.m \in Memories /\ r.user = <<p, r.m>> /\ r.memid = 0
        /\ \A e \in tee_memories : e.obj = r.paddr =>
             e.user = <<p, r.m>> /\ e.tz_id = 0 /\ \A x \in tee_contexts : x.obj = e.ctx => x.tz_id = r.context
    BY <1>0, <1>8 DEF MemReq, Is
  <2>1. CASE /\ r.context \in tee_context_list /\ ids' = ids + 1
             /\ tee_memory_list' = tee_memory_list \cup {[id |-> ids + 1, ctx |-> r.context, paddr |-> r.paddr]}
             /\ Became(p, "post", OK, r.context, r.session, r.tmpid, ids + 1, r.paddr, r.by)
    <3>1. MemTable'
      BY <1>0, <2>1, MemTableKept
    <3>2. MemObject(p)'
      BY <1>0, <2>1, <3>1, MemObjectKept
    <3>3. /\ teemem'[p].op = "reg" /\ teemem'[p].at = "post" /\ teemem'[p].memid = ids + 1
          /\ teemem'[p].paddr = r.paddr /\ teemem'[p].m = r.m /\ teemem'[p].user = r.user
          /\ teemem'[p].context = r.context /\ teemem'[p].ret = OK
          /\ \A q \in Processes : q # p => teemem'[q] = teemem[q]
      BY <1>8, <2>1 DEF Became
    <3>4. NewMemory(p)'
      <4>1. r.context # MAGIC
        BY <2>1 DEF CtxInv, MAGIC
      <4>2. \A e \in tee_memories' : e.tz_id # ids + 1
        BY <1>0, <1>1
      <4>3. \A g \in tee_memory_list' : g.id = ids + 1 => g.paddr = r.paddr
        <5>1. \A g \in tee_memory_list : g.id \in 1..ids
          BY DEF MemInv, MemTable
        <5> QED
          BY <1>0, <2>1, <5>1
      <4>4. ASSUME NEW q \in Processes, q # p, Is(q, {"reg"}, {"post"})' PROVE teemem'[q].memid # ids + 1
        <5>1. teemem'[q] = teemem[q] /\ teemem[q] # NULL
          BY <3>3, <4>4 DEF Is
        <5>2. teemem[q].memid \in 0..ids
          BY <5>1 DEF MemInv, MemReq
        <5> QED
          BY <1>0, <5>1, <5>2
      <4> QED
        BY <1>0, <3>3, <4>1, <4>2, <4>3, <4>4 DEF NewMemory
    <3>5. r.paddr \in 0..ids' /\ ids + 1 \in 0..ids'
      BY <1>0, <1>1, <2>1
    <3>6. MemReq(p)'
      BY <1>0, <2>0, <3>3, <3>4, <3>5 DEF MemReq, Is
    <3>7. MemStep(p)
      BY <1>0, <2>1, <3>3 DEF MemStep, Is
    <3> QED
      BY <3>1, <3>2, <3>6, <3>7, MemStepInv
  <2>2. CASE /\ UNCHANGED <<ids, tee_memory_list>>
             /\ Became(p, "post", REFUSED, r.context, r.session, r.tmpid, r.memid, r.paddr, r.by)
    <3>1. MemTable'
      BY <1>0, <2>2, MemTableKept
    <3>2. MemObject(p)'
      BY <1>0, <2>2, <3>1, MemObjectKept
    <3>3. /\ teemem'[p].op = "reg" /\ teemem'[p].at = "post" /\ teemem'[p].memid = 0
          /\ teemem'[p].paddr = r.paddr /\ teemem'[p].m = r.m /\ teemem'[p].user = r.user
          /\ teemem'[p].context = r.context /\ teemem'[p].ret # OK
          /\ \A q \in Processes : q # p => teemem'[q] = teemem[q]
      BY <1>8, <2>0, <2>2 DEF Became, OK, REFUSED
    <3>5. r.paddr \in 0..ids' /\ 0 \in 0..ids'
      BY <1>0, <1>1, <2>2
    <3>6. MemReq(p)'
      BY <1>0, <2>0, <3>3, <3>5 DEF MemReq, Is
    <3>7. MemStep(p)
      BY <1>0, <2>2, <3>3 DEF MemStep, Is
    <3> QED
      BY <3>1, <3>2, <3>6, <3>7, MemStepInv
  <2> QED
    BY <1>8, <2>1, <2>2 DEF RegTz
<1> QED
  BY <1>2, <1>3, <1>4, <1>5, <1>6, <1>7, <1>8, TaskEffect

\* The hooks after the secure world: memory gets its tz_id, and is taken away
\* only by the process whose it is.
LEMMA MemPost ==
  ASSUME TypeInv, TypeInv', CtxInv, MemInv, NEW p \in Processes, tee_process_post(p), UNCHANGED cvars
  PROVE  MemInv'
<1> DEFINE r == teemem[p]
<1>0. /\ r # NULL /\ r \in Requests /\ r.at = "post" /\ r.op \in Ops /\ MemReq(p) /\ ids \in Nat /\ ids' \in Nat
      /\ UNCHANGED <<tee_memory_list, memory>> /\ ids <= ids + 1 /\ ids <= ids
  <2>1. UNCHANGED <<tee_memory_list, memory>>
    BY DEF tee_process_post, svars, cvars
  <2> QED
    BY <2>1, PostEffect DEF TypeInv, Requests, MemInv
<1>1. CASE Stopped(p)
  BY <1>0, <1>1, MemStopped
<1>2. /\ r.memid \in 0..ids /\ r.paddr \in 0..ids
      /\ \A e \in tee_memories : e.id \in 1..ids /\ e.obj = e.id /\ e.tz_id \in 0..ids /\ e.ctx \in 1..ids
  BY <1>0 DEF MemInv, MemTable, MemReq
<1>3. CASE r.op = "init" /\ InitPost(p)
  <2>1. /\ Became(p, "back", r.ret, p, r.session, r.tmpid, r.memid, r.paddr, r.by) /\ ids' = ids + 1
        /\ UNCHANGED tee_memories
    BY <1>3 DEF InitPost
  <2>2. \A x \in tee_contexts' : x \in tee_contexts \/ x.obj = ids + 1
    BY <1>3 DEF InitPost
  <2> QED
    BY <1>0, <1>2, <1>3, <2>1, <2>2, MemOther
<1>4. CASE r.op = "fin" /\ FinPost(p)
  <2>1. CASE Still /\ Became(p, "back", r.ret, r.context, r.session, r.tmpid, r.memid, r.paddr, r.by)
    BY <1>0, <1>2, <1>4, <2>1, MemOther DEF Still, dvars
  <2>2. ASSUME NEW e \in tee_contexts, e.tz_id = r.context, tee_contexts' \subseteq tee_contexts,
               tee_memories' \in {tee_memories, {x \in tee_memories : x.ctx # e.obj}}, NEW at, NEW context1,
               Became(p, at, r.ret, context1, r.session, r.tmpid, r.memid, r.paddr, r.by), UNCHANGED ids
        PROVE  MemInv'
    <3>1. r.context = MAGIC \/ e.id = p
      BY <1>0, <1>4, <2>2 DEF CtxInv, CtxReq, Is
    <3>2. ASSUME NEW x \in tee_memories, x.tz_id # 0, x.user[1] # p PROVE x.ctx # e.obj
      <4>1. x.ctx = e.obj => e.id = x.user[1] /\ e.tz_id # MAGIC
        BY <3>2 DEF MemInv, MemTable
      <4> QED
        BY <2>2, <3>1, <3>2, <4>1
    <3>3. \A x \in tee_memories : x.tz_id # 0 /\ x.user[1] # p => x \in tee_memories'
      BY <2>2, <3>2
    <3> QED
      BY <1>0, <1>2, <1>4, <2>2, <3>3, MemOther
  <2> QED
    BY <1>4, <2>1, <2>2 DEF FinPost
<1>5. CASE r.op = "open" /\ OpenPost(p)
  BY <1>0, <1>1, <1>2, <1>5, MemOther DEF OpenPost
<1>6. CASE r.op = "close" /\ ClosePost(p)
  BY <1>0, <1>1, <1>2, <1>6, MemOther DEF ClosePost
<1>7. CASE r.op = "rel" /\ RelPost(p)
  <2>1. ASSUME NEW mem \in tee_memories, mem.tz_id = r.memid, tee_memories' = tee_memories \ {mem},
               Became(p, "back", r.ret, r.context, r.session, r.tmpid, r.memid, r.paddr, r.by),
               UNCHANGED <<tee_contexts, ids>>
        PROVE  MemInv'
    <3>1. r.user \in {p} \X Memories /\ Holds(r.memid, r.user)
      BY <1>0, <1>7 DEF MemReq, Is
    <3>2. mem.user[1] = p
      <4>1. \A d, e \in tee_memories : d.tz_id = e.tz_id /\ e.tz_id # 0 => d = e
        BY DEF MemInv, MemTable
      <4>2. mem.user = r.user
        BY <2>1, <3>1, <4>1 DEF Holds
      <4> QED
        BY <3>1, <4>2
    <3>3. MemTable'
      BY <1>0, <2>1, MemTableKept
    <3>4. MemObject(p)'
      BY <1>0, <2>1, <3>3, MemObjectKept
    <3>5. /\ teemem'[p].op = "rel" /\ teemem'[p].at = "back" /\ teemem'[p].memid = r.memid
          /\ teemem'[p].paddr = r.paddr /\ teemem'[p].user = r.user
          /\ \A q \in Processes : q # p => teemem'[q] = teemem[q]
      BY <1>7, <2>1 DEF Became
    <3>6. MemReq(p)'
      BY <1>2, <2>1, <3>1, <3>5 DEF MemReq, Is
    <3>7. MemStep(p)
      BY <1>0, <2>1, <3>2, <3>5 DEF MemStep, Is
    <3> QED
      BY <3>3, <3>4, <3>6, <3>7, MemStepInv
  <2> QED
    BY <1>1, <1>7, <2>1 DEF RelPost
<1>8. CASE r.op = "invoke" /\ InvokePost(p)
  <2>1. ASSUME NEW session1, NEW memid,
               IF r.memid = 0 THEN memid = 0 ELSE \E x \in tee_memories : x.tz_id = r.memid /\ x.id = memid,
               Became(p, "back", r.ret, r.context, session1, r.tmpid, memid, r.paddr, r.by),
               UNCHANGED <<tee_contexts, tee_memories, ids>>
        PROVE  MemInv'
    <3>1. (r.m = NULL => r.memid = 0) /\ (r.m # NULL => r.m \in Memories)
      BY <1>0, <1>8 DEF MemReq
    <3>2. memid \in 0..ids /\ (r.m = NULL => memid = 0)
      BY <1>0, <1>2, <2>1, <3>1
    <3>3. /\ teemem'[p].op = "invoke" /\ teemem'[p].at = "back" /\ teemem'[p].memid = memid
          /\ teemem'[p].paddr = r.paddr /\ teemem'[p].m = r.m
          /\ \A q \in Processes : q # p => teemem'[q] = teemem[q]
      BY <1>8, <2>1 DEF Became
    <3>4. MemReq(p)' /\ ~Is(p, {"reg"}, {"post"})'
      BY <1>2, <2>1, <3>1, <3>2, <3>3 DEF MemReq, Is
    <3> QED
      BY <1>0, <2>1, <3>3, <3>4, MemQuiet
  <2> QED
    BY <1>1, <1>8, <2>1 DEF InvokePost
<1>9. CASE r.op = "reg" /\ RegPost(p)
  <2>0. /\ r.m \in Memories /\ r.user = <<p, r.m>>
        /\ \A e \in tee_memories : e.obj = r.paddr =>
             e.user = <<p, r.m>> /\ e.tz_id = 0 /\ \A x \in tee_contexts : x.obj = e.ctx => x.tz_id = r.context
        /\ NewMemory(p) \/ (r.memid = 0 /\ r.ret # OK)
    BY <1>0, <1>9 DEF MemReq, Is
  <2>1. ASSUME NEW mem \in tee_memories, mem.obj = r.paddr,
               tee_memories' = WithTzid(tee_memories, r.paddr, r.memid),
               Became(p, "back", r.ret, r.context, r.session, r.tmpid, mem.id, r.paddr, r.by),
               UNCHANGED <<tee_contexts, ids>>
        PROVE  MemInv'
    <3>0. /\ r.paddr \in Int /\ r.memid \in Int /\ mem.id = r.paddr /\ mem.id \in 1..ids
          /\ mem.user = <<p, r.m>> /\ mem.tz_id = 0
      BY <1>0, <1>2, <2>0, <2>1
    <3>1. \A d, e \in tee_memories : d.obj = e.obj \/ (d.tz_id = e.tz_id /\ e.tz_id # 0) => d = e
      BY DEF MemInv, MemTable
    <3>2. /\ \A x \in tee_memories' :
               \/ x \in tee_memories /\ x.obj # r.paddr
               \/ x.obj = r.paddr /\ x.id = mem.id /\ x.ctx = mem.ctx /\ x.user = mem.user /\ x.tz_id = r.memid
          /\ \A e \in tee_memories : e.obj # r.paddr => e \in tee_memories'
          /\ \A x, y \in tee_memories' : x.obj = r.paddr /\ y.obj = r.paddr => x = y
      BY <2>1, <3>0, <3>1, WithTzidMemory, SMTT(30)
    <3>3. MemTable'
      <4>0. MemTable
        BY DEF MemInv
      <4>1. \A x \in tee_memories' : /\ x.id \in 1..ids /\ x.obj = x.id /\ x.tz_id \in 0..ids /\ x.ctx \in 1..ids
        BY <1>2, <2>1, <3>0, <3>2
      <4>2. \A x \in tee_memories' : x.user \in Processes \X Memories
        <5>1. \A x \in tee_memories : x.user \in Processes \X Memories
          BY <4>0 DEF MemTable
        <5> QED
          BY <3>2, <5>1
      <4>3. \A x \in tee_memories', g \in tee_memory_list : g.id = x.tz_id => g.paddr = x.obj
        <5>1. \A x \in tee_memories, g \in tee_memory_list : g.id = x.tz_id => g.paddr = x.obj
          BY <4>0 DEF MemTable
        <5>2. \A g \in tee_memory_list : g.id # 0
          BY <4>0 DEF MemTable
        <5>3. \A g \in tee_memory_list : g.id = r.memid => g.paddr = r.paddr
          BY <2>0, <5>2 DEF NewMemory
        <5> QED
          BY <3>2, <5>1, <5>3
      <4>4. \A x \in tee_memories', y \in tee_contexts : y.obj = x.ctx =>
              y.id = x.user[1] /\ (x.tz_id # 0 => y.tz_id # MAGIC)
        <5>1. \A x \in tee_memories, y \in tee_contexts : y.obj = x.ctx =>
                y.id = x.user[1] /\ (x.tz_id # 0 => y.tz_id # MAGIC)
          BY <4>0 DEF MemTable
        <5>2. r.memid # 0 => r.context # MAGIC
          BY <2>0 DEF NewMemory
        <5>3. \A y \in tee_contexts : y.obj = mem.ctx => y.tz_id = r.context
          BY <2>0, <2>1
        <5> QED
          BY <3>2, <5>1, <5>2, <5>3, <2>1
      <4>5. \A d, x \in tee_memories' : d.obj = x.obj \/ (d.tz_id = x.tz_id /\ x.tz_id # 0) => d = x
        <5>1. r.memid # 0 => \A x \in tee_memories : x.tz_id # r.memid
          BY <2>0 DEF NewMemory
        <5> QED
          BY <3>1, <3>2, <5>1
      <4>6. \A g \in tee_memory_list : g.id \in 1..ids
        BY <4>0 DEF MemTable
      <4> QED
        BY <1>0, <2>1, <4>1, <4>2, <4>3, <4>4, <4>5, <4>6 DEF MemTable
    <3>4. MemObject(p)'
      <4>0. MemObject(p)
        BY DEF MemInv
      <4>1. SUFFICES ASSUME NEW m \in Memories
                     PROVE  \A x \in tee_memories' : x.id = memory[p][m].id => x.user = <<p, m>> /\ x.tz_id # 0
        BY <1>0, <2>1, <4>0 DEF MemObject, Mine
      <4>2. \A x \in tee_memories : x.id = memory[p][m].id => x.user = <<p, m>> /\ x.tz_id # 0
        BY <4>0 DEF MemObject, Mine
      <4> QED
        BY <2>1, <3>0, <3>2, <4>2
    <3>5. /\ teemem'[p].op = "reg" /\ teemem'[p].at = "back" /\ teemem'[p].memid = mem.id
          /\ teemem'[p].paddr = r.paddr /\ teemem'[p].m = r.m /\ teemem'[p].user = r.user
          /\ teemem'[p].ret = r.ret
          /\ \A q \in Processes : q # p => teemem'[q] = teemem[q]
      BY <1>9, <2>1 DEF Became
    <3>6. r.ret = OK => \A x \in tee_memories' : x.id = mem.id => x.user = <<p, r.m>> /\ x.tz_id # 0
      <4>1. r.ret = OK => r.memid # 0
        BY <2>0 DEF NewMemory
      <4>2. \A x \in tee_memories : x.obj = x.id
        BY <1>2
      <4> QED
        BY <3>0, <3>2, <4>1, <4>2
    <3>7. MemReq(p)'
      BY <1>0, <1>2, <2>0, <2>1, <3>0, <3>5, <3>6 DEF MemReq, Is, Mine
    <3>8. MemStep(p)
      <4>1. Is(p, {"reg"}, {"post"})
        BY <1>0, <1>9 DEF Is
      <4>2. \A x \in tee_memories' :
              \/ x \in tee_memories
              \/ /\ x.tz_id = r.memid /\ mem.obj = r.paddr /\ x.obj = mem.obj /\ x.id = mem.id /\ x.ctx = mem.ctx
                 /\ x.user = mem.user
        BY <2>1, <3>2
      <4>3. \A e \in tee_memories : e.tz_id # 0 /\ e.user[1] # p => e \in tee_memories'
        BY <2>0, <3>2
      <4> QED
        BY <1>0, <2>1, <3>5, <4>1, <4>2, <4>3 DEF MemStep, Is
    <3> QED
      BY <3>3, <3>4, <3>7, <3>8, MemStepInv
  <2> QED
    BY <1>1, <1>9, <2>1 DEF RegPost
<1> QED
  BY <1>3, <1>4, <1>5, <1>6, <1>7, <1>8, <1>9, PostEffect

\* The calls of the client: what an object names is its own memory.
LEMMA MemCalls ==
  ASSUME TypeInv, TypeInv', MemInv, NEW p \in Processes, Calls(p)
  PROVE  MemInv'
<1>0. /\ ids \in Nat /\ \A m \in Memories : memory[p][m].id \in 0..ids
  BY DEF TypeInv, MemInv, MemObject
<1>5. \A m \in Memories : /\ Mine(memory[p][m].id, <<p, m>>)
                          /\ memory[p][m] # Closed => memory[p][m].id # 0
  BY DEF MemInv, MemObject
<1>1. ASSUME NEW op, NEW context1, NEW session1, NEW memid \in 0..ids, NEW user, NEW tmp, NEW c, NEW s, NEW m,
             Began(p, op, context1, session1, memid, user, tmp, c, s, m),
             op = "reg" => m \in Memories /\ user = <<p, m>> /\ memid = 0,
             op = "rel" => user \in {p} \X Memories /\ Mine(memid, user),
             op = "invoke" => (m = NULL => memid = 0) /\ (m # NULL => m \in Memories /\ memid # 0 /\ Mine(memid, <<p, m>>)),
             \A q \in Processes : q # p => memory'[q] = memory[q],
             \A d \in Memories : memory'[p][d] \in {memory[p][d], Closed}
      PROVE  MemInv'
  <2>1. /\ teemem'[p].op = op /\ teemem'[p].at = "pre" /\ teemem'[p].memid = memid /\ teemem'[p].paddr = 0
        /\ teemem'[p].m = m /\ teemem'[p].user = user
        /\ \A q \in Processes : q # p => teemem'[q] = teemem[q]
        /\ UNCHANGED <<ids, tee_contexts, tee_memories, tee_memory_list>>
    BY <1>1 DEF Began, svars, dvars
  <2>2. MemTable'
    BY <1>0, <2>1, MemTableKept
  <2>3. MemObject(p)'
    BY <1>0, <1>1, <2>1, <2>2, MemObjectKept
  <2>4. MemReq(p)'
    BY <1>0, <1>1, <2>1 DEF MemReq, Is, Mine
  <2>5. MemStep(p)
    BY <1>0, <1>1, <2>1 DEF MemStep, Is
  <2> QED
    BY <2>2, <2>3, <2>4, <2>5, MemStepInv
<1>2. 0 \in 0..ids
  BY <1>0
<1>3. CASE BeginInit(p)
  BY <1>1, <1>2, <1>3 DEF BeginInit, cvars
<1>4. CASE BeginFin(p)
  <2>1. PICK c \in Contexts :
          /\ Began(p, "fin", context[p][c], 0, 0, NULL, 0, c, NULL, NULL)
          /\ memory' = [memory EXCEPT ![p] = [m \in Memories |-> IF @[m].c = c THEN Closed ELSE @[m]]]
    BY <1>4 DEF BeginFin
  <2>2. /\ \A q \in Processes : q # p => memory'[q] = memory[q]
        /\ \A d \in Memories : memory'[p][d] \in {memory[p][d], Closed}
    BY <2>1 DEF TypeInv
  <2> QED
    BY <1>1, <1>2, <2>1, <2>2
<1>6. CASE BeginReg(p)
  BY <1>1, <1>2, <1>6 DEF BeginReg, cvars
<1>7. CASE BeginRel(p)
  <2>1. PICK m \in Memories :
          /\ Began(p, "rel", 0, 0, memory[p][m].id, <<p, m>>, 0, NULL, NULL, NULL)
          /\ memory' = [memory EXCEPT ![p][m] = Closed]
    BY <1>7 DEF BeginRel
  <2>2. /\ \A q \in Processes : q # p => memory'[q] = memory[q]
        /\ \A d \in Memories : memory'[p][d] \in {memory[p][d], Closed}
    BY <2>1 DEF TypeInv
  <2>3. <<p, m>> \in {p} \X Memories
    OBVIOUS
  <2> QED
    BY <1>0, <1>1, <1>5, <2>1, <2>2, <2>3
<1>8. CASE BeginOpen(p)
  <2>1. PICK c \in Contexts, s \in Sessions, m \in Memories0, tmp \in Temporaries :
          /\ m # NULL => m \in Memories
          /\ Began(p, "open", context[p][c], 0, IF m = NULL THEN 0 ELSE memory[p][m].id, NULL, tmp, c, s, m)
          /\ UNCHANGED memory
    BY <1>8 DEF BeginOpen, cvars
  <2>2. PICK memid \in 0..ids : memid = IF m = NULL THEN 0 ELSE memory[p][m].id
    BY <1>0, <1>2, <2>1
  <2> QED
    BY <1>1, <2>1, <2>2
<1>9. CASE BeginClose(p)
  BY <1>1, <1>2, <1>9 DEF BeginClose
<1>10. CASE BeginInvoke(p)
  <2>1. PICK s \in Sessions, m \in Memories0, tmp \in Temporaries :
          /\ m # NULL => m \in Memories /\ memory[p][m] # Closed
          /\ Began(p, "invoke", 0, session[p][s].id, IF m = NULL THEN 0 ELSE memory[p][m].id, NULL, tmp, NULL, s, m)
          /\ UNCHANGED memory
    BY <1>10 DEF BeginInvoke, cvars
  <2> DEFINE id == IF m = NULL THEN 0 ELSE memory[p][m].id
  <2>2. /\ id \in 0..ids /\ (m = NULL => id = 0)
        /\ m # NULL => m \in Memories /\ id # 0 /\ Mine(id, <<p, m>>)
    BY <1>0, <1>2, <1>5, <2>1
  <2>3. Began(p, "invoke", 0, session[p][s].id, id, NULL, tmp, NULL, s, m)
    BY <2>1
  <2> HIDE DEF id
  <2> QED
    BY <1>1, <2>1, <2>2, <2>3
<1> QED
  BY <1>3, <1>4, <1>6, <1>7, <1>8, <1>9, <1>10, CallEffect

\* What the identifiers and tz_ids of memory mean is kept by every step.
LEMMA MemNext ==
  ASSUME TypeInv, TypeInv', CtxInv, MemInv, [Next]_vars
  PROVE  MemInv'
<1>0. ids \in Nat
  BY DEF TypeInv
<1>1. CASE UNCHANGED vars
  BY <1>1 DEF MemInv, MemTable, MemReq, MemObject, NewMemory, Mine, Holds, Is, vars, svars, dvars, cvars
<1>2. ASSUME NEW p \in Processes, TEEC_return(p) PROVE MemInv'
  <2> DEFINE r == teemem[p]
  <2>1. /\ r # NULL /\ r.at = "back" /\ teemem'[p] = NULL
        /\ \A q \in Processes : q # p => teemem'[q] = teemem[q]
        /\ \A q \in Processes, m \in Memories :
             memory'[q][m] = IF q = p /\ r.op = "reg" /\ r.ret = OK /\ m = r.m
                             THEN [id |-> r.memid, c |-> r.c] ELSE memory[q][m]
        /\ UNCHANGED <<tee_memories, tee_contexts, tee_memory_list, ids>>
    BY <1>2, ReturnEffect DEF svars, dvars
  <2>2. MemTable'
    BY <1>0, <2>1, MemTableKept
  <2>3. MemReq(p)'
    BY <2>1 DEF MemReq
  <2>4. \A q \in Processes : q # p => memory'[q] = memory[q]
    BY <2>1 DEF TypeInv
  <2>5. MemObject(p)'
    <3>1. MemObject(p) /\ MemReq(p)
      BY DEF MemInv
    <3>2. SUFFICES ASSUME NEW m \in Memories
                   PROVE  /\ memory'[p][m].id \in 0..ids /\ (memory'[p][m] # Closed => memory'[p][m].id # 0)
                          /\ \A x \in tee_memories : x.id = memory'[p][m].id => x.user = <<p, m>> /\ x.tz_id # 0
      BY <2>1 DEF MemObject, Mine
    <3>3. CASE memory'[p][m] = memory[p][m]
      BY <3>1, <3>3 DEF MemObject, Mine
    <3>4. CASE r.op = "reg" /\ r.ret = OK /\ m = r.m /\ memory'[p][m] = [id |-> r.memid, c |-> r.c]
      <4>1. r.memid > 0 /\ r.memid \in 0..ids /\ Mine(r.memid, <<p, m>>)
        BY <2>1, <3>1, <3>4 DEF MemReq, Is
      <4> QED
        BY <3>4, <4>1 DEF Mine
    <3> QED
      BY <2>1, <3>2, <3>3, <3>4
  <2>6. MemStep(p)
    BY <1>0, <2>1, <2>4 DEF MemStep, Is
  <2> QED
    BY <2>2, <2>3, <2>5, <2>6, MemStepInv
<1>3. ASSUME NEW p \in Processes, exit(p) PROVE MemInv'
  <2>1. /\ teemem' = teemem /\ teemem[p] = NULL /\ UNCHANGED <<tee_memories, tee_memory_list, ids>>
        /\ tee_contexts' \subseteq tee_contexts
    BY <1>3 DEF exit, tz_driver_release, svars
  <2>2. /\ \A q \in Processes : q # p => memory'[q] = memory[q]
        /\ \A d \in Memories : memory'[p][d] \in {memory[p][d], Closed}
    BY <1>3 DEF exit, TypeInv
  <2>3. MemTable'
    BY <1>0, <2>1, MemTableKept
  <2>4. MemObject(p)'
    BY <1>0, <2>1, <2>2, <2>3, MemObjectKept
  <2>5. MemReq(p)' /\ MemStep(p)
    BY <1>0, <2>1, <2>2 DEF MemReq, MemStep, Is
  <2> QED
    BY <2>3, <2>4, <2>5, MemStepInv
<1> QED
  BY <1>1, <1>2, <1>3, MemCalls, MemPre, MemTask, MemPost DEF Next

-----------------------------------------------------------------------------
(* The theorems. *)

\* The invariant of the handles.
HandleInv == TypeInv /\ CtxInv /\ SesInv /\ MemInv

\* It holds at first.
LEMMA HandleInit ==
  ASSUME Init
  PROVE  HandleInv
<1>1. TypeInv
  BY InitTypes
<1>2. CtxInv
  BY DEF Init, CtxInv, CtxReq, Is, Inside
<1>3. SesInv
  BY DEF Init, SesInv, SesReq, Means, Closed
<1>4. MemInv
  BY DEF Init, MemInv, MemTable, MemReq, MemObject, Mine, Closed
<1> QED
  BY <1>1, <1>2, <1>3, <1>4 DEF HandleInv

\* Every step keeps it, part by part.
LEMMA HandleNext ==
  ASSUME HandleInv, [Next]_vars
  PROVE  HandleInv'
<1>1. TypeInv'
  BY NextTypes DEF HandleInv
<1> QED
  BY <1>1, CtxNext, SesNext, MemNext DEF HandleInv

\* For any number of processes, contexts, sessions and memories, with any shortage
\* of memory, failing copy, wild pointer and ended process: an identifier that a
\* client holds, and the tz_id that it is translated into, mean what was opened or
\* registered for that very object (tee_operations.c, tee_task.c).
THEOREM HandleInvariant == Spec => []HandleInv
<1> QED
  BY HandleInit, HandleNext, PTL DEF Spec

\* A command that the secure world executes is executed in the session that was
\* opened for the object the client names, on the memory that was registered for
\* its parameter: the identifiers of two clients, or of two objects of one, never
\* cross in the translation of the driver (tee_operations.c: tee_invoke_pre).
THEOREM ServedByOwnHolds == Spec => []ServedByOwn
<1>1. ASSUME HandleInv PROVE ServedByOwn
  <2>1. SUFFICES ASSUME NEW p \in Processes, At(p, "post"), teemem[p].op = "invoke", teemem[p].ret = OK
                 PROVE  /\ teemem[p].by = <<p, teemem[p].s>>
                        /\ teemem[p].m # NULL => \E e \in tee_memories :
                                                   e.obj = teemem[p].paddr /\ e.user = <<p, teemem[p].m>>
    BY DEF ServedByOwn
  <2>2. Is(p, {"invoke"}, {"post"}) /\ teemem[p] # NULL /\ SesReq(p) /\ MemReq(p)
    BY <1>1, <2>1 DEF Is, At, HandleInv, SesInv, MemInv
  <2>3. teemem[p].by = <<p, teemem[p].s>>
    BY <2>1, <2>2 DEF SesReq
  <2>4. teemem[p].m # NULL => \E e \in tee_memories : e.obj = teemem[p].paddr /\ e.user = <<p, teemem[p].m>>
    BY <2>1, <2>2 DEF MemReq
  <2> QED
    BY <2>3, <2>4
<1> QED
  BY <1>1, HandleInvariant, PTL

-----------------------------------------------------------------------------
(* Handles that work.  For clients that have one context each, do not end    *)
(* without finalizing it, and meet neither a shortage of memory nor a copy   *)
(* that fails.                                                               *)

\* Clients that are careful, on a machine that has enough memory.
Careful == /\ ~Shortage /\ ~Faults /\ ~Exits
           /\ \A c, d \in Contexts : c = d

\* The driver has a context of p.
Opened(p) ==
  IF teemem[p] = NULL THEN \E c \in Contexts : context[p][c] # 0
  ELSE IF teemem[p].op = "init" THEN teemem[p].at = "back"
  ELSE IF teemem[p].op = "fin" THEN teemem[p].at # "back" ELSE TRUE

\* What is known of the context of p while it is made, used and finalized.
WorkCtxReq(p) ==
  LET r == teemem[p] IN
  r # NULL =>
    /\ r.op = "init" => r.ret = OK /\ r.c \in Contexts /\ r.at # "oops" /\ \A c \in Contexts : context[p][c] = 0
    /\ Is(p, {"init"}, {"post"}) => r.context \in tee_context_list
    /\ r.op = "fin" => /\ \A c \in Contexts : context[p][c] = 0
                       /\ \A s \in Sessions : session[p][s] = Closed
                       /\ \A m \in Memories : memory[p][m] = Closed
    /\ r.op \notin {"init", "fin"} => \E c \in Contexts : context[p][c] # 0
    /\ Is(p, {"fin"}, {"tz", "post"}) => \E e \in tee_contexts : e.id = p /\ e.tz_id = r.context

\* A process has one context in the driver's table while it holds one, and none
\* otherwise, and the secure world has it too, unless it is being finalized.
WorkCtx ==
  /\ \A e \in tee_contexts : Opened(e.id)
  /\ \A d, e \in tee_contexts : d.id = e.id => d = e
  /\ \A e \in tee_contexts : e.tz_id # MAGIC /\ (e.tz_id \in tee_context_list \/ Is(e.id, {"fin"}, {"post", "oops"}))
  /\ \A p \in Processes : Opened(p) => \E e \in tee_contexts : e.id = p
  /\ \A p \in Processes : WorkCtxReq(p)

\* The structure ctx is the context of p.
Of(p, ctx) == \E x \in tee_contexts : x.obj = ctx /\ x.id = p

\* Session id is in the driver's table, in a context of p, and in the secure world.
Works(p, id) ==
  \E e \in tee_sessions : /\ e.id = id /\ e.tz_id # 0 /\ Of(p, e.ctx)
                          /\ \E f \in tee_session_list : f.id = e.tz_id

\* The session that the secure world has just opened for p has a tz_id that is in no
\* entry yet.
NewTz(p) ==
  /\ \A e \in tee_sessions : e.tz_id # teemem[p].session
  /\ \A q \in Processes : q # p /\ Is(q, {"open"}, {"post"}) => teemem[q].session # teemem[p].session
  /\ \E f \in tee_session_list : f.id = teemem[p].session

\* What is known of the session of a request of p at each stage.
WorkSesReq(p) ==
  LET r == teemem[p] IN
  r # NULL =>
    /\ r.op = "open" => r.c \in Contexts
    /\ Is(p, {"open"}, {"tz", "post"}) => \A e \in tee_sessions : e.id = r.tmpid => Of(p, e.ctx)
    /\ Is(p, {"open"}, {"post"}) => (r.session # 0 => NewTz(p)) /\ (r.ret = OK => r.session # 0)
    /\ Is(p, {"open"}, {"back"}) /\ r.ret = OK => Works(p, r.session)
    /\ Is(p, {"close"}, {"pre"}) =>
         \E e \in tee_sessions : /\ e.id = r.session /\ e.tz_id # 0 /\ Of(p, e.ctx)
                                 /\ \A s \in Sessions : session[p][s].id # e.id
    /\ Is(p, {"close"}, {"tz", "post"}) =>
         \E e \in tee_sessions : /\ e.tz_id = r.session /\ e.tz_id # 0 /\ Of(p, e.ctx)
                                 /\ \A s \in Sessions : session[p][s].id # e.id
    /\ Is(p, {"invoke"}, {"pre", "tz", "post"}) => session[p][r.s] # Closed
    /\ Is(p, {"invoke"}, {"tz", "post"}) =>
         \E e \in tee_sessions : e.id = session[p][r.s].id /\ e.tz_id = r.session

\* Sessions are entered once, in a context that is there, and those that clients
\* hold work.
WorkSes ==
  /\ \A d, e \in tee_sessions : d.obj = e.obj \/ (d.tz_id = e.tz_id /\ e.tz_id # 0) => d = e
  /\ \A e \in tee_sessions : \E x \in tee_contexts : x.obj = e.ctx
  /\ \A p \in Processes, s \in Sessions : session[p][s] # Closed =>
       /\ session[p][s].c \in Contexts /\ Works(p, session[p][s].id)
       /\ \E c \in Contexts : context[p][c] # 0
  /\ \A p \in Processes : WorkSesReq(p)

\* Memory id is in the driver's table and in the secure world.
Backed(id) ==
  \E e \in tee_memories : e.id = id /\ e.tz_id # 0 /\ \E g \in tee_memory_list : g.id = e.tz_id

\* What is known of the memory of a request of p at each stage.
WorkMemReq(p) ==
  LET r == teemem[p] IN
  r # NULL =>
    /\ r.op = "reg" => r.c \in Contexts
    /\ Is(p, {"reg"}, {"post"}) /\ r.ret = OK => \E g \in tee_memory_list : g.id = r.memid
    /\ Is(p, {"reg"}, {"back"}) /\ r.ret = OK => Backed(r.memid)
    /\ r.op = "rel" => memory[p][r.user[2]] = Closed
    /\ Is(p, {"invoke"}, {"pre"}) /\ r.m # NULL => memory[p][r.m] # Closed /\ r.memid = memory[p][r.m].id
    /\ Is(p, {"invoke"}, {"tz", "post"}) /\ r.m # NULL =>
         /\ memory[p][r.m] # Closed
         /\ \E e \in tee_memories : e.id = memory[p][r.m].id /\ e.tz_id = r.memid

\* Memory is in a context that is there, and both worlds have what clients hold.
WorkMem ==
  /\ \A e \in tee_memories : \E x \in tee_contexts : x.obj = e.ctx
  /\ \A p \in Processes, m \in Memories : memory[p][m] # Closed =>
       /\ memory[p][m].c \in Contexts /\ Backed(memory[p][m].id)
       /\ \E c \in Contexts : context[p][c] # 0
  /\ \A p \in Processes : WorkMemReq(p)

\* Temporary memory is there while its command is in the secure world, and no
\* command is refused.
TmpReq(p) ==
  /\ tee_tmp_memories[p]["invoke"] = IF Is(p, {"invoke"}, {"tz", "post"}) THEN teemem[p].tmp ELSE 0
  /\ teemem[p] # NULL /\ teemem[p].op = "invoke" => teemem[p].ret = OK /\ teemem[p].at # "oops"

WorkTmp == \A p \in Processes : TmpReq(p)

\* A step of p keeps the contexts of the other processes.
CtxKept(p) ==
  /\ \A q \in Processes : q # p => /\ teemem'[q] = teemem[q] /\ context'[q] = context[q]
                                   /\ session'[q] = session[q] /\ memory'[q] = memory[q]
  /\ \A e \in tee_contexts' : e \in tee_contexts \/ e.id = p
  /\ \A e \in tee_contexts : e.id # p => e \in tee_contexts'
  /\ \A t \in tee_context_list :
       t \in tee_context_list' \/ \E e \in tee_contexts : e.id = p /\ e.tz_id = t /\ t # MAGIC

\* A step of p that keeps the others' contexts, and leaves p with one context that
\* the secure world has or with none, keeps the invariant of the contexts.
LEMMA WorkCtxStep ==
  ASSUME TypeInv, TypeInv', CtxInv, WorkCtx, NEW p \in Processes, CtxKept(p),
         \A d, e \in tee_contexts' : d.id = p /\ e.id = p => d = e,
         \A e \in tee_contexts' : e.id = p =>
           Opened(p)' /\ e.tz_id # MAGIC /\ (e.tz_id \in tee_context_list' \/ Is(p, {"fin"}, {"post", "oops"})'),
         Opened(p)' => \E e \in tee_contexts' : e.id = p,
         WorkCtxReq(p)'
  PROVE  WorkCtx'
<1>0. \A e \in tee_contexts' : e.id \in Processes
  BY DEF TypeInv, CtxEntry
<1>1. ASSUME NEW q \in Processes, q # p PROVE (Opened(q)' <=> Opened(q)) /\ 
             (Is(q, {"fin"}, {"post", "oops"}) => Is(q, {"fin"}, {"post", "oops"})')
  BY <1>1 DEF CtxKept, Opened, Is
<1>2. \A e \in tee_contexts' : Opened(e.id)'
  <2>1. SUFFICES ASSUME NEW e \in tee_contexts', e.id # p PROVE Opened(e.id)'
    BY DEF Opened
  <2>2. e \in tee_contexts /\ Opened(e.id) /\ e.id \in Processes
    BY <1>0, <2>1 DEF CtxKept, WorkCtx
  <2>3. teemem'[e.id] = teemem[e.id] /\ context'[e.id] = context[e.id]
    BY <2>1, <2>2 DEF CtxKept
  <2> QED
    BY <2>2, <2>3 DEF Opened
<1>3. \A d, e \in tee_contexts' : d.id = e.id => d = e
  BY DEF CtxKept, WorkCtx
<1>4. ASSUME NEW e \in tee_contexts', e.id # p
      PROVE  e.tz_id # MAGIC /\ (e.tz_id \in tee_context_list' \/ Is(e.id, {"fin"}, {"post", "oops"})')
  <2>1. e \in tee_contexts
    BY <1>4 DEF CtxKept
  <2>2. e.tz_id # MAGIC /\ (e.tz_id \in tee_context_list \/ Is(e.id, {"fin"}, {"post", "oops"}))
    BY <2>1 DEF WorkCtx
  <2>3. \A d \in tee_contexts : d.id = p => d.tz_id # e.tz_id
    BY <1>4, <2>1, <2>2 DEF CtxInv
  <2>4. e.tz_id \in tee_context_list => e.tz_id \in tee_context_list'
    BY <2>3 DEF CtxKept
  <2>5. teemem'[e.id] = teemem[e.id]
    BY <1>0, <1>4 DEF CtxKept
  <2> QED
    BY <2>2, <2>4, <2>5 DEF Is
<1>5. \A e \in tee_contexts' : e.tz_id # MAGIC /\ (e.tz_id \in tee_context_list' \/ Is(e.id, {"fin"}, {"post", "oops"})')
  BY <1>4 DEF Is
<1>6. \A q \in Processes : Opened(q)' => \E e \in tee_contexts' : e.id = q
  <2>1. SUFFICES ASSUME NEW q \in Processes, q # p, Opened(q)' PROVE \E e \in tee_contexts' : e.id = q
    OBVIOUS
  <2>2. \E e \in tee_contexts : e.id = q
    BY <1>1, <2>1 DEF WorkCtx
  <2> QED
    BY <2>1, <2>2 DEF CtxKept
<1>7. ASSUME NEW q \in Processes, q # p, teemem[q] # NULL PROVE WorkCtxReq(q)'
  <2> DEFINE r == teemem[q]
  <2>0. /\ teemem'[q] = r /\ context'[q] = context[q] /\ session'[q] = session[q] /\ memory'[q] = memory[q]
        /\ WorkCtxReq(q)
    BY <1>7 DEF CtxKept, WorkCtx
  <2>1. ASSUME r.op = "init", r.at = "post" PROVE r.context \in tee_context_list'
    <3>1. r.context \in tee_context_list
      BY <1>7, <2>0, <2>1 DEF WorkCtxReq, Is
    <3>2. r.context # MAGIC
      BY <3>1 DEF CtxInv, MAGIC
    <3>3. \A e \in tee_contexts : e.tz_id # r.context
      BY <1>7, <2>1, <3>2 DEF CtxInv, CtxReq, NewContext, Is
    <3> QED
      BY <3>1, <3>3 DEF CtxKept
  <2>2. ASSUME r.op = "fin", r.at \in {"tz", "post"} PROVE \E e \in tee_contexts' : e.id = q /\ e.tz_id = r.context
    <3>1. \E e \in tee_contexts : e.id = q /\ e.tz_id = r.context
      BY <1>7, <2>0, <2>2 DEF WorkCtxReq, Is
    <3> QED
      BY <1>7, <3>1 DEF CtxKept
  <2> QED
    BY <1>7, <2>0, <2>1, <2>2 DEF WorkCtxReq, Is
<1>8. \A q \in Processes : WorkCtxReq(q)'
  BY <1>7 DEF WorkCtxReq, CtxKept
<1> QED
  BY <1>2, <1>3, <1>5, <1>6, <1>8 DEF WorkCtx, Opened, Is

\* A step of a request that neither opens nor finalizes a context.
LEMMA WorkCtxOther ==
  ASSUME TypeInv, TypeInv', CtxInv, WorkCtx, NEW p \in Processes, teemem[p] # NULL, teemem'[p] # NULL,
         teemem[p].op \notin {"init", "fin"}, teemem'[p].op = teemem[p].op,
         \A q \in Processes : q # p => teemem'[q] = teemem[q],
         UNCHANGED <<tee_contexts, tee_context_list, cvars>>
  PROVE  WorkCtx'
<1>1. CtxKept(p)
  BY DEF CtxKept, cvars
<1>2. Opened(p) /\ Opened(p)' /\ WorkCtxReq(p) /\ ~Is(p, {"fin"}, {"post", "oops"})
  BY DEF Opened, WorkCtx, Is
<1>3. WorkCtxReq(p)'
  BY <1>2 DEF WorkCtxReq, Is, cvars
<1>4. \A e \in tee_contexts' : e.id = p =>
        e.tz_id # MAGIC /\ (e.tz_id \in tee_context_list' \/ Is(p, {"fin"}, {"post", "oops"})')
  BY <1>2 DEF WorkCtx
<1> QED
  BY <1>1, <1>2, <1>3, <1>4, WorkCtxStep DEF WorkCtx

\* The hooks before the secure world keep it.
LEMMA WorkCtxPre ==
  ASSUME TypeInv, TypeInv', CtxInv, WorkCtx, NEW p \in Processes, tee_process_pre(p), UNCHANGED cvars
  PROVE  WorkCtx'
<1> DEFINE r == teemem[p]
<1>0. /\ r # NULL /\ r.at = "pre" /\ r.op \in Ops /\ WorkCtxReq(p) /\ CtxReq(p)
  BY PreEffect DEF TypeInv, Requests, CtxInv, WorkCtx
<1>1. CASE r.op = "init" /\ InitPre(p)
  <2>1. /\ teemem'[p] # NULL /\ teemem'[p].op = "init" /\ teemem'[p].at = "tz" /\ teemem'[p].ret = r.ret
        /\ teemem'[p].c = r.c
        /\ \A q \in Processes : q # p => teemem'[q] = teemem[q]
        /\ UNCHANGED <<tee_contexts, tee_context_list, context, session, memory>>
    BY <1>1 DEF InitPre, Became, Still, svars, cvars, dvars
  <2>2. ~Opened(p) /\ ~Opened(p)'
    BY <1>0, <1>1, <2>1 DEF Opened
  <2>3. \A e \in tee_contexts : e.id # p
    BY <2>2 DEF WorkCtx
  <2>4. WorkCtxReq(p)'
    BY <1>0, <1>1, <2>1 DEF WorkCtxReq, Is
  <2>5. CtxKept(p)
    BY <2>1 DEF CtxKept
  <2> QED
    BY <2>1, <2>2, <2>3, <2>4, <2>5, WorkCtxStep
<1>2. CASE r.op = "fin" /\ FinPre(p)
  <2>1. Opened(p)
    BY <1>0, <1>2 DEF Opened
  <2>2. r.context = p
    BY <1>0, <1>2 DEF CtxReq, Is
  <2>3. ~NoContext(r.context)
    BY <2>1, <2>2 DEF WorkCtx, NoContext
  <2>4. PICK e \in tee_contexts : /\ e.id = p /\ Still
                                  /\ Became(p, "tz", r.ret, e.tz_id, r.session, r.tmpid, r.memid, r.paddr, r.by)
    BY <1>2, <2>2, <2>3 DEF FinPre
  <2>5. /\ teemem'[p] # NULL /\ teemem'[p].op = "fin" /\ teemem'[p].at = "tz" /\ teemem'[p].context = e.tz_id
        /\ \A q \in Processes : q # p => teemem'[q] = teemem[q]
        /\ UNCHANGED <<tee_contexts, tee_context_list, context, session, memory>>
    BY <1>2, <2>4 DEF Became, Still, svars, cvars, dvars
  <2>6. CtxKept(p) /\ Opened(p)'
    BY <2>5 DEF CtxKept, Opened
  <2>7. WorkCtxReq(p)'
    BY <1>0, <1>2, <2>4, <2>5 DEF WorkCtxReq, Is
  <2>8. \A d \in tee_contexts : d.id = p => d.tz_id # MAGIC /\ d.tz_id \in tee_context_list /\ d = e
    BY <1>0, <2>4 DEF WorkCtx, Is
  <2> QED
    BY <2>4, <2>5, <2>6, <2>7, <2>8, WorkCtxStep
<1>3. CASE r.op \notin {"init", "fin"}
  <2>1. /\ teemem'[p] # NULL /\ teemem'[p].op = r.op
        /\ \A q \in Processes : q # p => teemem'[q] = teemem[q]
        /\ UNCHANGED <<tee_contexts, tee_context_list>>
    <3>1. CASE Stopped(p)
      BY <3>1 DEF Stopped, Gone, Became, svars
    <3>2. CASE RegPre(p)
      BY <3>1, <3>2 DEF RegPre, Became, svars
    <3>3. CASE RelPre(p)
      BY <3>1, <3>3 DEF RelPre, Became, Still, svars, dvars
    <3>4. CASE OpenPre(p)
      BY <3>1, <3>4 DEF OpenPre, Gone, Became, svars
    <3>5. CASE ClosePre(p)
      BY <3>1, <3>5 DEF ClosePre, Became, Still, svars, dvars
    <3>6. CASE InvokePre(p)
      BY <3>1, <3>6 DEF InvokePre, Became, svars
    <3> QED
      BY <1>0, <1>3, <3>2, <3>3, <3>4, <3>5, <3>6, PreEffect DEF Ops
  <2> QED
    BY <1>0, <1>3, <2>1, WorkCtxOther
<1> QED
  BY <1>1, <1>2, <1>3, PreEffect

\* The TEE task keeps it: without a shortage it gives every context it is asked for,
\* and it takes away only that of the process that finalizes.
LEMMA WorkCtxTask ==
  ASSUME TypeInv, TypeInv', CtxInv, WorkCtx, ~Shortage,
         NEW p \in Processes, tee_task(p), UNCHANGED <<dvars, cvars>>
  PROVE  WorkCtx'
<1> DEFINE r == teemem[p]
<1>0. /\ r # NULL /\ r.at = "tz" /\ r.op \in Ops /\ WorkCtxReq(p) /\ CtxReq(p) /\ ids \in Nat
      /\ UNCHANGED <<tee_contexts, context, session, memory>>
  BY TaskEffect DEF TypeInv, Requests, CtxInv, WorkCtx, dvars, cvars
<1>1. CASE r.op = "init" /\ InitTz(p)
  <2>0. r.context = MAGIC
    BY <1>0, <1>1 DEF CtxReq, Is
  <2>1. /\ teemem'[p] # NULL /\ teemem'[p].op = "init" /\ teemem'[p].at = "post" /\ teemem'[p].ret = OK
        /\ teemem'[p].c = r.c /\ teemem'[p].context = ids + 1
        /\ \A q \in Processes : q # p => teemem'[q] = teemem[q]
        /\ tee_context_list' = tee_context_list \cup {ids + 1}
    BY <1>1, <2>0 DEF InitTz, Became
  <2>2. ~Opened(p) /\ ~Opened(p)'
    BY <1>0, <1>1, <2>1 DEF Opened
  <2>3. \A e \in tee_contexts : e.id # p
    BY <2>2 DEF WorkCtx
  <2>4. WorkCtxReq(p)'
    BY <1>0, <1>1, <2>1 DEF WorkCtxReq, Is
  <2>5. CtxKept(p)
    BY <1>0, <2>1 DEF CtxKept
  <2> QED
    BY <1>0, <2>1, <2>2, <2>3, <2>4, <2>5, WorkCtxStep
<1>2. CASE r.op = "fin" /\ FinTz(p)
  <2>1. PICK e \in tee_contexts : e.id = p /\ e.tz_id = r.context
    BY <1>0, <1>2 DEF WorkCtxReq, Is
  <2>2. /\ teemem'[p] # NULL /\ teemem'[p].op = "fin" /\ teemem'[p].at = "post" /\ teemem'[p].context = r.context
        /\ \A q \in Processes : q # p => teemem'[q] = teemem[q]
        /\ tee_context_list' = tee_context_list \ {r.context}
    BY <1>2 DEF FinTz, Became
  <2>3. e.tz_id # MAGIC
    BY DEF WorkCtx
  <2>4. CtxKept(p) /\ Opened(p)' /\ Is(p, {"fin"}, {"post", "oops"})'
    BY <1>0, <2>1, <2>2, <2>3 DEF CtxKept, Opened, Is
  <2>5. WorkCtxReq(p)'
    BY <1>0, <1>2, <2>1, <2>2 DEF WorkCtxReq, Is
  <2>6. \A d \in tee_contexts : d.id = p => d = e
    BY <2>1 DEF WorkCtx
  <2> QED
    BY <1>0, <2>1, <2>2, <2>3, <2>4, <2>5, <2>6, WorkCtxStep
<1>3. CASE r.op \notin {"init", "fin"}
  <2>1. /\ teemem'[p] # NULL /\ teemem'[p].op = r.op
        /\ \A q \in Processes : q # p => teemem'[q] = teemem[q]
        /\ UNCHANGED tee_context_list
    <3>2. CASE RegTz(p)
      BY <3>2 DEF RegTz, Became
    <3>3. CASE RelTz(p)
      BY <3>3 DEF RelTz, Became
    <3>4. CASE OpenTz(p)
      BY <3>4 DEF OpenTz, Became
    <3>5. CASE CloseTz(p)
      BY <3>5 DEF CloseTz, Became, Still, svars
    <3>6. CASE InvokeTz(p)
      BY <3>6 DEF InvokeTz, Became, Still, svars
    <3> QED
      BY <1>0, <1>3, <3>2, <3>3, <3>4, <3>5, <3>6, TaskEffect DEF Ops
  <2> QED
    BY <1>0, <1>3, <2>1, WorkCtxOther DEF cvars
<1> QED
  BY <1>1, <1>2, <1>3, TaskEffect

\* The hooks after the secure world keep it: tee_ctx_finalize_post takes the
\* process's own context out of the table.
LEMMA WorkCtxPost ==
  ASSUME TypeInv, TypeInv', CtxInv, WorkCtx, NEW p \in Processes, tee_process_post(p), UNCHANGED cvars
  PROVE  WorkCtx'
<1> DEFINE r == teemem[p]
<1>4. UNCHANGED <<tee_context_list, context, session, memory>>
  BY DEF tee_process_post, svars, cvars
<1>0. /\ r # NULL /\ r.at = "post" /\ r.op \in Ops /\ WorkCtxReq(p) /\ CtxReq(p)
  BY PostEffect DEF TypeInv, Requests, CtxInv, WorkCtx
<1>1. CASE r.op = "init" /\ InitPost(p)
  <2>1. /\ teemem'[p] # NULL /\ teemem'[p].op = "init" /\ teemem'[p].at = "back" /\ teemem'[p].ret = r.ret
        /\ teemem'[p].c = r.c
        /\ \A q \in Processes : q # p => teemem'[q] = teemem[q]
    BY <1>1 DEF InitPost, Became
  <2> DEFINE new == [obj |-> ids + 1, id |-> p, tz_id |-> r.context]
  <2>2. tee_contexts' = tee_contexts \cup {new} /\ new.id = p /\ new.tz_id = r.context
    BY <1>1 DEF InitPost
  <2> HIDE DEF new
  <2>3. ~Opened(p) /\ Opened(p)'
    BY <1>0, <1>1, <2>1 DEF Opened
  <2>4. \A e \in tee_contexts : e.id # p
    BY <2>3 DEF WorkCtx
  <2>5. r.context \in tee_context_list
    BY <1>0, <1>1 DEF WorkCtxReq, Is
  <2>6. r.context # MAGIC
    BY <2>5 DEF CtxInv, MAGIC
  <2>7. WorkCtxReq(p)'
    BY <1>0, <1>1, <1>4, <2>1 DEF WorkCtxReq, Is
  <2>8. CtxKept(p)
    BY <1>4, <2>1, <2>2 DEF CtxKept
  <2> QED
    BY <1>4, <2>2, <2>3, <2>4, <2>5, <2>6, <2>7, <2>8, WorkCtxStep
<1>2. CASE r.op = "fin" /\ FinPost(p)
  <2>1. PICK d \in tee_contexts : d.id = p /\ d.tz_id = r.context
    BY <1>0, <1>2 DEF WorkCtxReq, Is
  <2>2. PICK e \in tee_contexts, at \in {"back", "oops"}, context1 \in {0, r.context} :
          /\ e.tz_id = r.context /\ tee_contexts' = IF at = "back" THEN tee_contexts \ {e} ELSE tee_contexts
          /\ Became(p, at, r.ret, context1, r.session, r.tmpid, r.memid, r.paddr, r.by)
    BY <1>2, <2>1 DEF FinPost, NoTzContext
  <2>3. e = d
    <3>1. d.tz_id # MAGIC
      BY DEF WorkCtx
    <3>2. e.id = d.id
      BY <2>1, <2>2, <3>1 DEF CtxInv
    <3> QED
      BY <3>2 DEF WorkCtx
  <2>4. /\ teemem'[p] # NULL /\ teemem'[p].op = "fin" /\ teemem'[p].at = at
        /\ \A q \in Processes : q # p => teemem'[q] = teemem[q]
    BY <1>2, <2>2 DEF Became
  <2>5. Opened(p)' <=> at = "oops"
    BY <2>2, <2>4 DEF Opened
  <2>6. /\ at = "back" => \A x \in tee_contexts' : x.id # p
        /\ at = "oops" => /\ d \in tee_contexts' /\ d.tz_id # MAGIC /\ Is(p, {"fin"}, {"post", "oops"})'
                          /\ \A x \in tee_contexts' : x.id = p => x = d
    BY <2>1, <2>2, <2>3, <2>4 DEF WorkCtx, Is
  <2>7. WorkCtxReq(p)'
    BY <1>0, <1>2, <1>4, <2>4 DEF WorkCtxReq, Is
  <2>8. CtxKept(p)
    BY <1>4, <2>1, <2>2, <2>3, <2>4 DEF CtxKept
  <2> QED
    BY <2>1, <2>2, <2>5, <2>6, <2>7, <2>8, WorkCtxStep
<1>3. CASE r.op \notin {"init", "fin"}
  <2>1. /\ teemem'[p] # NULL /\ teemem'[p].op = r.op
        /\ \A q \in Processes : q # p => teemem'[q] = teemem[q]
        /\ UNCHANGED tee_contexts
    <3>1. CASE Stopped(p)
      BY <3>1 DEF Stopped, Gone, Became
    <3>2. CASE RegPost(p)
      BY <3>1, <3>2 DEF RegPost, Became
    <3>3. CASE RelPost(p)
      BY <3>1, <3>3 DEF RelPost, Became
    <3>4. CASE OpenPost(p)
      BY <3>1, <3>4 DEF OpenPost, Became
    <3>5. CASE ClosePost(p)
      BY <3>1, <3>5 DEF ClosePost, Became
    <3>6. CASE InvokePost(p)
      BY <3>1, <3>6 DEF InvokePost, Became
    <3> QED
      BY <1>0, <1>3, <3>2, <3>3, <3>4, <3>5, <3>6, PostEffect DEF Ops
  <2> QED
    BY <1>0, <1>3, <1>4, <2>1, WorkCtxOther DEF cvars
<1> QED
  BY <1>1, <1>2, <1>3, PostEffect

\* The calls of the client keep it.  With one context there is nothing of the
\* client left to be used once it is finalized.
LEMMA WorkCtxCalls ==
  ASSUME TypeInv, TypeInv', CtxInv, WorkCtx, WorkSes, WorkMem, \A c, d \in Contexts : c = d,
         NEW p \in Processes, Calls(p)
  PROVE  WorkCtx'
<1>1. ASSUME NEW op, NEW context1, NEW session1, NEW memid, NEW user, NEW tmp, NEW c, NEW s, NEW m,
             Began(p, op, context1, session1, memid, user, tmp, c, s, m),
             \A q \in Processes : q # p => /\ context'[q] = context[q] /\ session'[q] = session[q]
                                           /\ memory'[q] = memory[q],
             op = "init" => c \in Contexts /\ \A d \in Contexts : context[p][d] = 0 /\ context'[p][d] = 0,
             op = "fin" => /\ \E d \in Contexts : context[p][d] # 0
                           /\ \A d \in Contexts : context'[p][d] = 0
                           /\ \A d \in Sessions : session'[p][d] = Closed
                           /\ \A d \in Memories : memory'[p][d] = Closed,
             op \notin {"init", "fin"} => context'[p] = context[p] /\ \E d \in Contexts : context[p][d] # 0
      PROVE  WorkCtx'
  <2>1. /\ teemem[p] = NULL /\ teemem'[p] # NULL /\ teemem'[p].op = op /\ teemem'[p].at = "pre"
        /\ teemem'[p].ret = OK /\ teemem'[p].c = c
        /\ \A q \in Processes : q # p => teemem'[q] = teemem[q]
        /\ UNCHANGED <<tee_contexts, tee_context_list>>
    BY <1>1 DEF Began, svars, dvars
  <2>2. CtxKept(p)
    BY <1>1, <2>1 DEF CtxKept
  <2>3. Opened(p)' <=> Opened(p)
    BY <1>1, <2>1 DEF Opened
  <2>4. WorkCtxReq(p)'
    BY <1>1, <2>1 DEF WorkCtxReq, Is
  <2>5. \A e \in tee_contexts : e.id = p => Opened(p) /\ e.tz_id # MAGIC /\ e.tz_id \in tee_context_list
    BY <2>1 DEF WorkCtx, Is
  <2>6. /\ Opened(p) => \E e \in tee_contexts : e.id = p
        /\ \A d, e \in tee_contexts : d.id = p /\ e.id = p => d = e
    BY DEF WorkCtx
  <2> QED
    BY <2>1, <2>2, <2>3, <2>4, <2>5, <2>6, WorkCtxStep
<1>2. \A s \in Sessions : session[p][s] # Closed =>
        session[p][s].c \in Contexts /\ \E c \in Contexts : context[p][c] # 0
  BY DEF WorkSes
<1>3. \A m \in Memories : memory[p][m] # Closed => memory[p][m].c \in Contexts
  BY DEF WorkMem
<1>4. CASE BeginInit(p)
  BY <1>1, <1>4 DEF BeginInit, cvars
<1>5. CASE BeginFin(p)
  <2>1. PICK c \in Contexts :
          /\ context[p][c] # 0 /\ \A s \in Sessions : session[p][s].c # c
          /\ Began(p, "fin", context[p][c], 0, 0, NULL, 0, c, NULL, NULL)
          /\ context' = [context EXCEPT ![p][c] = 0]
          /\ memory' = [memory EXCEPT ![p] = [m \in Memories |-> IF @[m].c = c THEN Closed ELSE @[m]]]
          /\ UNCHANGED session
    BY <1>5 DEF BeginFin
  <2>2. /\ \A q \in Processes : q # p => context'[q] = context[q]
        /\ \A d \in Contexts : context'[p][d] = 0
    BY <2>1 DEF TypeInv
  <2>3. /\ \A q \in Processes : q # p => memory'[q] = memory[q]
        /\ \A d \in Memories : memory'[p][d] = IF memory[p][d].c = c THEN Closed ELSE memory[p][d]
    BY <2>1 DEF TypeInv
  <2>4. /\ \A d \in Memories : memory'[p][d] = Closed
        /\ \A d \in Sessions : session'[p][d] = Closed
    BY <1>2, <1>3, <2>1, <2>3
  <2> QED
    BY <1>1, <2>1, <2>2, <2>3, <2>4
<1>6. CASE BeginReg(p)
  BY <1>1, <1>6 DEF BeginReg, cvars
<1>7. CASE BeginRel(p)
  <2>1. PICK m \in Memories :
          /\ \E c \in Contexts : context[p][c] # 0
          /\ Began(p, "rel", 0, 0, memory[p][m].id, <<p, m>>, 0, NULL, NULL, NULL)
          /\ memory' = [memory EXCEPT ![p][m] = Closed] /\ UNCHANGED <<context, session>>
    BY <1>7 DEF BeginRel
  <2>2. \A q \in Processes : q # p => memory'[q] = memory[q]
    BY <2>1 DEF TypeInv
  <2> QED
    BY <1>1, <2>1, <2>2
<1>8. CASE BeginOpen(p)
  BY <1>1, <1>8 DEF BeginOpen, cvars
<1>9. CASE BeginClose(p)
  <2>1. PICK s \in Sessions :
          /\ session[p][s] # Closed
          /\ Began(p, "close", 0, session[p][s].id, 0, NULL, 0, NULL, NULL, NULL)
          /\ session' = [session EXCEPT ![p][s] = Closed] /\ UNCHANGED <<context, memory>>
    BY <1>9 DEF BeginClose
  <2>2. \A q \in Processes : q # p => session'[q] = session[q]
    BY <2>1 DEF TypeInv
  <2> QED
    BY <1>1, <1>2, <2>1, <2>2
<1>10. CASE BeginInvoke(p)
  BY <1>1, <1>2, <1>10 DEF BeginInvoke, cvars
<1> QED
  BY <1>4, <1>5, <1>6, <1>7, <1>8, <1>9, <1>10, CallEffect

\* The client library keeps the context of a call that succeeded.
LEMMA WorkCtxReturn ==
  ASSUME TypeInv, TypeInv', CtxInv, WorkCtx, NEW p \in Processes, TEEC_return(p)
  PROVE  WorkCtx'
<1> DEFINE r == teemem[p]
<1>1. /\ r # NULL /\ r \in Requests /\ r.at = "back" /\ teemem'[p] = NULL
      /\ \A q \in Processes : q # p => teemem'[q] = teemem[q]
      /\ \A q \in Processes, c \in Contexts :
           context'[q][c] = IF q = p /\ r.op = "init" /\ r.ret = OK /\ c = r.c THEN r.context ELSE context[q][c]
      /\ \A q \in Processes, s \in Sessions :
           session'[q][s] = IF q = p /\ r.op = "open" /\ r.ret = OK /\ s = r.s
                            THEN [id |-> r.session, c |-> r.c] ELSE session[q][s]
      /\ \A q \in Processes, m \in Memories :
           memory'[q][m] = IF q = p /\ r.op = "reg" /\ r.ret = OK /\ m = r.m
                           THEN [id |-> r.memid, c |-> r.c] ELSE memory[q][m]
      /\ UNCHANGED <<tee_contexts, tee_context_list>>
  BY ReturnEffect DEF svars, dvars
<1>2. WorkCtxReq(p) /\ CtxReq(p) /\ p # 0
  BY TablesAssumption DEF WorkCtx, CtxInv
<1>3. \A q \in Processes : q # p => context'[q] = context[q] /\ session'[q] = session[q] /\ memory'[q] = memory[q]
  BY <1>1 DEF TypeInv
<1>4. CtxKept(p)
  BY <1>1, <1>3 DEF CtxKept
<1>5. Opened(p)' <=> Opened(p)
  <2>1. CASE r.op = "init"
    <3>1. r.context = p /\ r.c \in Contexts /\ r.ret = OK
      BY <1>1, <1>2, <2>1 DEF WorkCtxReq, CtxReq, Is
    <3>2. context'[p][r.c] = p
      BY <1>1, <2>1, <3>1
    <3> QED
      BY <1>1, <1>2, <2>1, <3>1, <3>2 DEF Opened
  <2>2. CASE r.op = "fin"
    BY <1>1, <1>2, <2>2 DEF Opened, WorkCtxReq
  <2>3. CASE r.op \notin {"init", "fin"}
    BY <1>1, <1>2, <2>3 DEF Opened, WorkCtxReq
  <2> QED
    BY <2>1, <2>2, <2>3
<1>6. \A e \in tee_contexts : e.id = p => Opened(p) /\ e.tz_id # MAGIC /\ e.tz_id \in tee_context_list
  BY <1>1 DEF WorkCtx, Is
<1>7. /\ Opened(p) => \E e \in tee_contexts : e.id = p
      /\ \A d, e \in tee_contexts : d.id = p /\ e.id = p => d = e
  BY DEF WorkCtx
<1>8. WorkCtxReq(p)'
  BY <1>1 DEF WorkCtxReq
<1> QED
  BY <1>1, <1>4, <1>5, <1>6, <1>7, <1>8, WorkCtxStep

\* A step of p keeps the sessions of the other processes.
SesKept(p) ==
  /\ \A q \in Processes : q # p => /\ teemem'[q] = teemem[q] /\ context'[q] = context[q]
                                   /\ session'[q] = session[q]
  /\ ids' \in Nat /\ ids <= ids'
  /\ \A x \in tee_contexts : x.id # p => x \in tee_contexts'
  /\ \A x \in tee_sessions' :
       \/ x \in tee_sessions
       \/ x.id = ids + 1 /\ x.tz_id = 0
       \/ Is(p, {"open"}, {"post"}) /\ x.id = teemem[p].tmpid /\ x.tz_id = teemem[p].session
  /\ \A e \in tee_sessions, q \in Processes : q # p /\ e.tz_id # 0 /\ Of(q, e.ctx) => e \in tee_sessions'
  /\ tee_session_list \subseteq tee_session_list'
  /\ Is(p, {"open"}, {"post"})' => \/ Is(p, {"open"}, {"post"}) /\ teemem'[p].session = teemem[p].session
                                   \/ teemem'[p].session \in {0, ids + 1}

\* The three parts of WorkSes, for a step.
SesUnique == \A d, e \in tee_sessions : d.obj = e.obj \/ (d.tz_id = e.tz_id /\ e.tz_id # 0) => d = e
SesFollow == \A e \in tee_sessions : \E x \in tee_contexts : x.obj = e.ctx
SesObject(p) ==
  \A s \in Sessions : session[p][s] # Closed =>
    /\ session[p][s].c \in Contexts /\ Works(p, session[p][s].id)
    /\ \E c \in Contexts : context[p][c] # 0

\* A step of p that keeps the others' sessions and contexts, and leaves the objects
\* of p with sessions that work, keeps the invariant of the sessions.
LEMMA WorkSesStep ==
  ASSUME TypeInv, SesInv, WorkSes, NEW p \in Processes, SesKept(p), SesUnique', SesFollow', SesObject(p)',
         WorkSesReq(p)'
  PROVE  WorkSes'
<1>0. ids \in Nat /\ ids' \in Nat /\ ids <= ids'
  BY DEF TypeInv, SesKept
<1>1. ASSUME NEW q \in Processes, q # p, NEW ctx, Of(q, ctx)
      PROVE  \E x \in tee_contexts' : x.obj = ctx /\ x.id = q
  BY <1>1 DEF Of, SesKept
<1>2. ASSUME NEW q \in Processes, q # p, NEW e \in tee_sessions, e.tz_id # 0, Of(q, e.ctx)
      PROVE  e \in tee_sessions'
  BY <1>2 DEF SesKept
<1>3. ASSUME NEW q \in Processes, q # p, NEW id, Works(q, id)
      PROVE  \E e \in tee_sessions' : /\ e.id = id /\ e.tz_id # 0
                                      /\ \E x \in tee_contexts' : x.obj = e.ctx /\ x.id = q
                                      /\ \E f \in tee_session_list' : f.id = e.tz_id
  <2>1. PICK e \in tee_sessions : /\ e.id = id /\ e.tz_id # 0 /\ Of(q, e.ctx)
                                  /\ \E f \in tee_session_list : f.id = e.tz_id
    BY <1>3 DEF Works
  <2>2. \E f \in tee_session_list' : f.id = e.tz_id
    BY <2>1 DEF SesKept
  <2> QED
    BY <1>1, <1>2, <1>3, <2>1, <2>2
<1>4. ASSUME NEW q \in Processes, q # p PROVE SesObject(q)'
  <2>1. session'[q] = session[q] /\ context'[q] = context[q]
    BY <1>4 DEF SesKept
  <2>2. SUFFICES ASSUME NEW s \in Sessions, session[q][s] # Closed
                 PROVE  /\ session[q][s].c \in Contexts /\ Works(q, session[q][s].id)'
                        /\ \E c \in Contexts : context[q][c] # 0
    BY <2>1 DEF SesObject
  <2>3. /\ session[q][s].c \in Contexts /\ Works(q, session[q][s].id)
        /\ \E c \in Contexts : context[q][c] # 0
    BY <2>2 DEF WorkSes
  <2> QED
    BY <1>3, <1>4, <2>1, <2>3 DEF Works, Of
<1>5. ASSUME NEW q \in Processes, q # p, teemem[q] # NULL PROVE WorkSesReq(q)'
  <2> DEFINE r == teemem[q]
  <2>0. teemem'[q] = r /\ session'[q] = session[q] /\ WorkSesReq(q) /\ SesReq(q)
    BY <1>5 DEF SesKept, WorkSes, SesInv
  <2>1. ASSUME r.op = "open", r.at \in {"tz", "post"}, NEW x \in tee_sessions', x.id = r.tmpid
        PROVE  \E y \in tee_contexts' : y.obj = x.ctx /\ y.id = q
    <3>1. r.tmpid \in 1..ids /\ NewSession(q) /\ \A e \in tee_sessions : e.id = r.tmpid => Of(q, e.ctx)
      BY <1>5, <2>0, <2>1 DEF WorkSesReq, SesReq, Is, NewSession
    <3>2. Is(p, {"open"}, {"post"}) => teemem[p].tmpid # r.tmpid
      BY <1>5, <3>1 DEF NewSession, Is
    <3>3. x.id # ids + 1
      BY <1>0, <2>1, <3>1
    <3>4. x \in tee_sessions
      BY <2>1, <3>2, <3>3 DEF SesKept
    <3> QED
      BY <1>1, <1>5, <2>1, <3>1, <3>4
  <2>2. ASSUME r.op = "open", r.at = "post"
        PROVE  (r.session # 0 => NewTz(q)') /\ (r.ret = OK => r.session # 0)
    <3>1. (r.session # 0 => NewTz(q)) /\ (r.ret = OK => r.session # 0) /\ r.session \in 0..ids
      BY <1>5, <2>0, <2>2 DEF WorkSesReq, SesReq, Is
    <3>2. ASSUME r.session # 0 PROVE NewTz(q)'
      <4>1. NewTz(q) /\ Is(q, {"open"}, {"post"})
        BY <1>5, <2>2, <3>1, <3>2 DEF Is
      <4>2. \A x \in tee_sessions' : x.tz_id # r.session
        BY <1>5, <3>2, <4>1 DEF SesKept, NewTz
      <4>3. ASSUME NEW z \in Processes, z # q, Is(z, {"open"}, {"post"})' PROVE teemem'[z].session # r.session
        <5>1. CASE z = p
          <6>1. Is(p, {"open"}, {"post"}) => teemem[p].session # r.session
            BY <1>5, <4>1 DEF NewTz
          <6>2. r.session # ids + 1
            BY <1>0, <3>1
          <6> QED
            BY <3>2, <4>3, <5>1, <6>1, <6>2 DEF SesKept
        <5>2. CASE z # p
          BY <4>1, <4>3, <5>2 DEF NewTz, SesKept, Is
        <5> QED
          BY <5>1, <5>2
      <4>4. \E f \in tee_session_list' : f.id = r.session
        BY <4>1 DEF NewTz, SesKept
      <4> QED
        BY <2>0, <4>2, <4>3, <4>4 DEF NewTz
    <3> QED
      BY <3>1, <3>2
  <2>3. ASSUME r.op = "open", r.at = "back", r.ret = OK PROVE Works(q, r.session)'
    <3>1. Works(q, r.session)
      BY <1>5, <2>0, <2>3 DEF WorkSesReq, Is
    <3> QED
      BY <1>3, <1>5, <2>0, <3>1 DEF Works, Of
  <2>4. ASSUME r.op = "close", r.at = "pre"
        PROVE  \E e \in tee_sessions' : /\ e.id = r.session /\ e.tz_id # 0
                                        /\ \E x \in tee_contexts' : x.obj = e.ctx /\ x.id = q
                                        /\ \A s \in Sessions : session[q][s].id # e.id
    <3>1. PICK e \in tee_sessions : /\ e.id = r.session /\ e.tz_id # 0 /\ Of(q, e.ctx)
                                    /\ \A s \in Sessions : session[q][s].id # e.id
      BY <1>5, <2>0, <2>4 DEF WorkSesReq, Is
    <3> QED
      BY <1>1, <1>2, <1>5, <3>1
  <2>5. ASSUME r.op = "close", r.at \in {"tz", "post"}
        PROVE  \E e \in tee_sessions' : /\ e.tz_id = r.session /\ e.tz_id # 0
                                        /\ \E x \in tee_contexts' : x.obj = e.ctx /\ x.id = q
                                        /\ \A s \in Sessions : session[q][s].id # e.id
    <3>1. PICK e \in tee_sessions : /\ e.tz_id = r.session /\ e.tz_id # 0 /\ Of(q, e.ctx)
                                    /\ \A s \in Sessions : session[q][s].id # e.id
      BY <1>5, <2>0, <2>5 DEF WorkSesReq, Is
    <3> QED
      BY <1>1, <1>2, <1>5, <3>1
  <2>6. ASSUME r.op = "invoke", r.at \in {"tz", "post"}
        PROVE  \E e \in tee_sessions' : e.id = session[q][r.s].id /\ e.tz_id = r.session
    <3>1. PICK e \in tee_sessions : e.id = session[q][r.s].id /\ e.tz_id = r.session
      BY <1>5, <2>0, <2>6 DEF WorkSesReq, Is
    <3>2. r.s \in Sessions /\ session[q][r.s] # Closed
      BY <1>5, <2>0, <2>6 DEF WorkSesReq, SesReq, Is
    <3>3. PICK d \in tee_sessions : d.id = session[q][r.s].id /\ d.tz_id # 0 /\ Of(q, d.ctx)
      BY <3>2 DEF WorkSes, Works
    <3>4. d = e
      BY <3>1, <3>3 DEF WorkSes, SesInv
    <3> QED
      BY <1>2, <1>5, <3>1, <3>3, <3>4
  <2>7. /\ r.op = "open" => r.c \in Contexts
        /\ Is(q, {"invoke"}, {"pre", "tz", "post"}) => session[q][r.s] # Closed
    BY <1>5, <2>0 DEF WorkSesReq
  <2> QED
    BY <1>5, <2>0, <2>1, <2>2, <2>3, <2>4, <2>5, <2>6, <2>7 DEF WorkSesReq, Is, Of
<1>6. \A q \in Processes : WorkSesReq(q)'
  BY <1>5 DEF WorkSesReq, SesKept
<1>7. \A q \in Processes : SesObject(q)'
  BY <1>4
<1> QED
  BY <1>6, <1>7 DEF WorkSes, SesUnique, SesFollow, SesObject

\* Contexts and sessions stay: what the process's own objects name does too.
LEMMA WorkSesSame ==
  ASSUME WorkSes, NEW p \in Processes, tee_contexts \subseteq tee_contexts',
         tee_session_list \subseteq tee_session_list',
         UNCHANGED <<tee_sessions, session, context>>
  PROVE  SesUnique' /\ SesFollow' /\ SesObject(p)'
<1>1. SesUnique' /\ SesFollow'
  BY DEF WorkSes, SesUnique, SesFollow
<1>2. SUFFICES ASSUME NEW s \in Sessions, session[p][s] # Closed
               PROVE  /\ session[p][s].c \in Contexts /\ Works(p, session[p][s].id)'
                      /\ \E c \in Contexts : context[p][c] # 0
  BY <1>1 DEF SesObject
<1>3. /\ session[p][s].c \in Contexts /\ Works(p, session[p][s].id)
      /\ \E c \in Contexts : context[p][c] # 0
  BY <1>2 DEF WorkSes
<1> QED
  BY <1>3 DEF Works, Of

\* A step of a request that is about no session.
LEMMA WorkSesOther ==
  ASSUME TypeInv, TypeInv', SesInv, WorkSes, NEW p \in Processes, teemem'[p] # NULL,
         teemem'[p].op \notin {"open", "close", "invoke"}, ids <= ids',
         \A q \in Processes : q # p => teemem'[q] = teemem[q],
         tee_contexts \subseteq tee_contexts', tee_session_list \subseteq tee_session_list',
         UNCHANGED <<tee_sessions, session, context>>
  PROVE  WorkSes'
<1>1. SesUnique' /\ SesFollow' /\ SesObject(p)'
  BY WorkSesSame
<1>2. SesKept(p)
  BY DEF SesKept, TypeInv, Is
<1>3. WorkSesReq(p)'
  BY DEF WorkSesReq, Is
<1> QED
  BY <1>1, <1>2, <1>3, WorkSesStep

\* A call that stops keeps it.
LEMMA WorkSesStopped ==
  ASSUME TypeInv, TypeInv', SesInv, WorkSes, NEW p \in Processes, teemem[p] # NULL, Stopped(p)
  PROVE  WorkSes'
<1>1. /\ \A q \in Processes : q # p => teemem'[q] = teemem[q]
      /\ teemem'[p] # NULL /\ teemem'[p].at \in {"back", "oops"}
      /\ teemem'[p].at = "back" => teemem'[p].ret = REFUSED
      /\ teemem'[p].op = teemem[p].op /\ teemem'[p].c = teemem[p].c
      /\ UNCHANGED <<tee_contexts, tee_sessions, tee_session_list, session, context, ids>>
  BY DEF Stopped, Gone, Became, svars, cvars
<1>2. SesUnique' /\ SesFollow' /\ SesObject(p)'
  BY <1>1, WorkSesSame
<1>3. SesKept(p)
  BY <1>1 DEF SesKept, TypeInv, Is
<1>4. WorkSesReq(p) /\ REFUSED # OK
  BY DEF WorkSes, OK, REFUSED
<1>5. WorkSesReq(p)'
  BY <1>1, <1>4 DEF WorkSesReq, Is
<1> QED
  BY <1>2, <1>3, <1>5, WorkSesStep

\* The hooks before the secure world keep it: the session that is entered is in the
\* process's own context.
LEMMA WorkSesPre ==
  ASSUME TypeInv, TypeInv', CtxInv, SesInv, WorkSes, NEW p \in Processes, tee_process_pre(p), UNCHANGED cvars
  PROVE  WorkSes'
<1> DEFINE r == teemem[p]
<1>0. /\ r # NULL /\ r.at = "pre" /\ r.op \in Ops /\ WorkSesReq(p) /\ CtxReq(p) /\ SesReq(p)
      /\ ids \in Nat /\ ids' \in Nat /\ UNCHANGED <<session, context>> /\ ids <= ids + 1 /\ ids <= ids
  BY PreEffect DEF TypeInv, Requests, CtxInv, SesInv, WorkSes, cvars
<1>1. CASE Stopped(p)
  BY <1>0, <1>1, WorkSesStopped
<1>2. /\ \A e \in tee_sessions : e.id \in 1..ids /\ e.obj = e.id /\ e.tz_id \in 0..ids
      /\ SesUnique
  BY DEF SesInv, WorkSes, SesUnique
<1>3. CASE r.op \notin {"open", "close", "invoke"}
  <2>1. CASE ~Stopped(p)
    <3>1. /\ teemem'[p] # NULL /\ teemem'[p].op = r.op /\ ids <= ids'
          /\ \A q \in Processes : q # p => teemem'[q] = teemem[q]
          /\ UNCHANGED <<tee_contexts, tee_session_list, tee_sessions>>
      <4>1. CASE InitPre(p)
        BY <1>0, <4>1 DEF InitPre, Became, Still, svars, dvars
      <4>2. CASE FinPre(p)
        BY <1>0, <2>1, <4>2 DEF FinPre, Became, Still, svars, dvars
      <4>3. CASE RegPre(p)
        BY <1>0, <2>1, <4>3 DEF RegPre, Became, svars
      <4>4. CASE RelPre(p)
        BY <1>0, <2>1, <4>4 DEF RelPre, Became, Still, svars, dvars
      <4> QED
        BY <1>0, <1>3, <4>1, <4>2, <4>3, <4>4, PreEffect DEF Ops
    <3> QED
      BY <1>0, <1>3, <3>1, WorkSesOther
  <2> QED
    BY <1>1, <2>1
<1>4. CASE r.op = "open" /\ OpenPre(p)
  <2>1. ASSUME NEW e \in tee_contexts, e.id = r.context, NEW memid,
               \/ Became(p, "tz", r.ret, e.tz_id, r.session, ids + 1, memid, r.paddr, r.by)
               \/ Gone(p),
               ids' = ids + 1,
               tee_sessions' = tee_sessions \cup {[obj |-> ids + 1, id |-> ids + 1, tz_id |-> 0, ctx |-> e.obj]},
               UNCHANGED <<tee_contexts, tee_session_list>>
        PROVE  WorkSes'
    <3> DEFINE new == [obj |-> ids + 1, id |-> ids + 1, tz_id |-> 0, ctx |-> e.obj]
    <3>0. /\ new.obj = ids + 1 /\ new.id = ids + 1 /\ new.tz_id = 0 /\ new.ctx = e.obj
          /\ tee_sessions' = tee_sessions \cup {new}
      BY <2>1
    <3> HIDE DEF new
    <3>1. /\ teemem'[p] # NULL /\ teemem'[p].op = "open" /\ teemem'[p].c = r.c
          /\ \/ teemem'[p].at = "tz" /\ teemem'[p].tmpid = ids + 1
             \/ teemem'[p].at = "back" /\ teemem'[p].ret # OK
             \/ teemem'[p].at = "oops"
          /\ \A q \in Processes : q # p => teemem'[q] = teemem[q]
      BY <1>4, <2>1 DEF Became, Gone, OK, REFUSED
    <3>2. r.context = p /\ r.c \in Contexts
      BY <1>0, <1>4 DEF CtxReq, WorkSesReq, Is
    <3>3. \A x \in tee_sessions : x.obj # ids + 1 /\ x.id # ids + 1
      BY <1>0, <1>2
    <3>4. SesUnique'
      BY <1>2, <3>0, <3>3 DEF SesUnique
    <3>5. SesFollow'
      BY <2>1, <3>0 DEF SesFollow, WorkSes
    <3>6. SesObject(p)'
      <4>1. SUFFICES ASSUME NEW s \in Sessions, session[p][s] # Closed
                     PROVE  /\ session[p][s].c \in Contexts /\ Works(p, session[p][s].id)'
                            /\ \E c \in Contexts : context[p][c] # 0
        BY <1>0 DEF SesObject
      <4>2. /\ session[p][s].c \in Contexts /\ Works(p, session[p][s].id)
            /\ \E c \in Contexts : context[p][c] # 0
        BY <4>1 DEF WorkSes
      <4> QED
        BY <1>0, <2>1, <3>0, <4>2 DEF Works, Of
    <3>7. SesKept(p)
      BY <1>0, <2>1, <3>0, <3>1 DEF SesKept, Is
    <3>8. \A x \in tee_sessions' : x.id = ids + 1 => \E y \in tee_contexts : y.obj = x.ctx /\ y.id = p
      BY <2>1, <3>0, <3>2, <3>3
    <3>9. WorkSesReq(p)'
      BY <2>1, <3>1, <3>2, <3>8 DEF WorkSesReq, Is, Of
    <3> QED
      BY <3>4, <3>5, <3>6, <3>7, <3>9, WorkSesStep
  <2> QED
    BY <1>1, <1>4, <2>1 DEF OpenPre, svars
<1>5. ASSUME NEW e \in tee_sessions, e.id = r.session, NEW tmpid, NEW memid,
             Became(p, "tz", r.ret, r.context, e.tz_id, tmpid, memid, r.paddr, r.by),
             UNCHANGED <<tee_contexts, tee_sessions, tee_session_list, ids>>, r.op \in {"close", "invoke"}
      PROVE  WorkSes'
  <2>1. /\ teemem'[p] # NULL /\ teemem'[p].op = r.op /\ teemem'[p].at = "tz" /\ teemem'[p].session = e.tz_id
        /\ teemem'[p].s = r.s
        /\ \A q \in Processes : q # p => teemem'[q] = teemem[q]
    BY <1>5 DEF Became
  <2>2. SesUnique' /\ SesFollow' /\ SesObject(p)'
    BY <1>0, <1>5, WorkSesSame
  <2>3. SesKept(p)
    BY <1>0, <1>5, <2>1 DEF SesKept, Is
  <2>4. r.op = "close" => /\ e.tz_id # 0 /\ Of(p, e.ctx)
                          /\ \A s \in Sessions : session[p][s].id # e.id
    <3>1. SUFFICES ASSUME r.op = "close"
                   PROVE  e.tz_id # 0 /\ Of(p, e.ctx) /\ \A s \in Sessions : session[p][s].id # e.id
      OBVIOUS
    <3>2. PICK d \in tee_sessions : /\ d.id = r.session /\ d.tz_id # 0 /\ Of(p, d.ctx)
                                    /\ \A s \in Sessions : session[p][s].id # d.id
      BY <1>0, <3>1 DEF WorkSesReq, Is
    <3>3. d = e
      BY <1>2, <1>5, <3>2 DEF SesUnique
    <3> QED
      BY <3>2, <3>3
  <2>5. r.op = "invoke" => session[p][r.s] # Closed /\ r.session = session[p][r.s].id
    BY <1>0 DEF WorkSesReq, SesReq, Is
  <2>6. WorkSesReq(p)'
    BY <1>0, <1>5, <2>1, <2>4, <2>5 DEF WorkSesReq, Is, Of
  <2> QED
    BY <2>2, <2>3, <2>6, WorkSesStep
<1>6. CASE r.op = "close" /\ ClosePre(p)
  BY <1>1, <1>5, <1>6 DEF ClosePre, Still, svars, dvars
<1>7. CASE r.op = "invoke" /\ InvokePre(p)
  BY <1>1, <1>5, <1>7 DEF InvokePre, svars
<1> QED
  BY <1>3, <1>4, <1>6, <1>7, PreEffect

\* The TEE task keeps it: a session that was opened has a tz_id of its own, and
\* sessions are never taken out of the list (tee_session_destroy is not called).
LEMMA WorkSesTask ==
  ASSUME TypeInv, TypeInv', SesInv, WorkSes, NEW p \in Processes, tee_task(p), UNCHANGED <<dvars, cvars>>
  PROVE  WorkSes'
<1> DEFINE r == teemem[p]
<1>0. /\ r # NULL /\ r.at = "tz" /\ r.op \in Ops /\ WorkSesReq(p) /\ SesReq(p)
      /\ ids \in Nat /\ ids' \in Nat /\ ids <= ids + 1 /\ ids <= ids
      /\ UNCHANGED <<tee_contexts, tee_sessions, session, context>>
  BY TaskEffect DEF TypeInv, Requests, SesInv, WorkSes, dvars, cvars
<1>2. \A e \in tee_sessions : e.id \in 1..ids /\ e.obj = e.id /\ e.tz_id \in 0..ids
  BY DEF SesInv
<1>3. CASE r.op \notin {"open", "close", "invoke"}
  <2>1. /\ teemem'[p] # NULL /\ teemem'[p].op = r.op /\ ids <= ids'
        /\ \A q \in Processes : q # p => teemem'[q] = teemem[q]
        /\ UNCHANGED tee_session_list
    <3>1. CASE InitTz(p)
      BY <1>0, <3>1 DEF InitTz, Became
    <3>2. CASE FinTz(p)
      BY <1>0, <3>2 DEF FinTz, Became
    <3>3. CASE RegTz(p)
      BY <1>0, <3>3 DEF RegTz, Became
    <3>4. CASE RelTz(p)
      BY <1>0, <3>4 DEF RelTz, Became
    <3> QED
      BY <1>0, <1>3, <3>1, <3>2, <3>3, <3>4, TaskEffect DEF Ops
  <2> QED
    BY <1>0, <1>3, <2>1, WorkSesOther
<1>4. ASSUME NEW ret, NEW session1, NEW by, NEW paddr,
             Became(p, "post", ret, r.context, session1, r.tmpid, r.memid, paddr, by), ids <= ids',
             tee_session_list \subseteq tee_session_list',
             r.op \in {"open", "close", "invoke"}, r.op # "open" => session1 = r.session,
             r.op = "open" => \/ session1 = 0 /\ ret # OK
                              \/ session1 = ids + 1 /\ \E f \in tee_session_list' : f.id = ids + 1
      PROVE  WorkSes'
  <2>1. /\ teemem'[p] # NULL /\ teemem'[p].op = r.op /\ teemem'[p].at = "post" /\ teemem'[p].session = session1
        /\ teemem'[p].s = r.s /\ teemem'[p].c = r.c /\ teemem'[p].tmpid = r.tmpid /\ teemem'[p].ret = ret
        /\ \A q \in Processes : q # p => teemem'[q] = teemem[q]
    BY <1>4 DEF Became
  <2>2. SesUnique' /\ SesFollow' /\ SesObject(p)'
    BY <1>0, <1>4, WorkSesSame
  <2>3. SesKept(p)
    BY <1>0, <1>4, <2>1 DEF SesKept, Is
  <2>4. ASSUME r.op = "open", session1 # 0 PROVE NewTz(p)'
    <3>1. session1 = ids + 1 /\ \E f \in tee_session_list' : f.id = ids + 1
      BY <1>4, <2>4
    <3>2. \A e \in tee_sessions' : e.tz_id # ids + 1
      BY <1>0, <1>2
    <3>3. ASSUME NEW q \in Processes, q # p, Is(q, {"open"}, {"post"})' PROVE teemem'[q].session # ids + 1
      <4>1. teemem'[q] = teemem[q] /\ teemem[q] # NULL
        BY <2>1, <3>3 DEF Is
      <4>2. teemem[q].session \in 0..ids
        BY <4>1 DEF SesInv, SesReq
      <4> QED
        BY <1>0, <4>1, <4>2
    <3> QED
      BY <2>1, <3>1, <3>2, <3>3 DEF NewTz
  <2>5. r.op = "open" => /\ r.c \in Contexts /\ (ret = OK => session1 # 0)
                         /\ \A e \in tee_sessions : e.id = r.tmpid => Of(p, e.ctx)
    BY <1>0, <1>4 DEF WorkSesReq, Is
  <2>6. r.op = "close" => \E e \in tee_sessions : /\ e.tz_id = r.session /\ e.tz_id # 0 /\ Of(p, e.ctx)
                                                  /\ \A s \in Sessions : session[p][s].id # e.id
    BY <1>0 DEF WorkSesReq, Is
  <2>7. r.op = "invoke" => /\ session[p][r.s] # Closed
                           /\ \E e \in tee_sessions : e.id = session[p][r.s].id /\ e.tz_id = r.session
    BY <1>0 DEF WorkSesReq, Is
  <2>8. WorkSesReq(p)'
    BY <1>0, <1>4, <2>1, <2>4, <2>5, <2>6, <2>7 DEF WorkSesReq, Is, Of
  <2> QED
    BY <2>2, <2>3, <2>8, WorkSesStep
<1>5. CASE r.op = "open" /\ OpenTz(p)
  <2>1. r.session = 0 /\ REFUSED # OK
    BY <1>0, <1>5 DEF SesReq, Is, OK, REFUSED
  <2>2. CASE /\ ids' = ids + 1
             /\ tee_session_list' = tee_session_list \cup
                  {[id |-> ids + 1, ctx |-> r.context, app |-> r.app, owner |-> <<p, r.s>>]}
    <3> DEFINE new == [id |-> ids + 1, ctx |-> r.context, app |-> r.app, owner |-> <<p, r.s>>]
    <3>0. tee_session_list' = tee_session_list \cup {new} /\ new.id = ids + 1
      BY <2>2
    <3> HIDE DEF new
    <3>1. tee_session_list \subseteq tee_session_list' /\ \E f \in tee_session_list' : f.id = ids + 1
      BY <3>0
    <3>2. \E ret, session1 :
            /\ Became(p, "post", ret, r.context, session1, r.tmpid, r.memid, r.paddr, r.by)
            /\ (session1 = 0 /\ ret # OK) \/ session1 = ids + 1
      <4>1. CASE \E ret \in Results : Became(p, "post", ret, r.context, ids + 1, r.tmpid, r.memid, r.paddr, r.by)
        BY <4>1
      <4>2. CASE Became(p, "post", REFUSED, r.context, r.session, r.tmpid, r.memid, r.paddr, r.by)
        BY <2>1, <4>2
      <4> QED
        BY <1>0, <1>5, <2>2, <4>1, <4>2 DEF OpenTz
    <3> QED
      BY <1>0, <1>4, <1>5, <2>2, <3>1, <3>2
  <2>3. CASE /\ UNCHANGED <<ids, tee_session_list>>
             /\ Became(p, "post", REFUSED, r.context, r.session, r.tmpid, r.memid, r.paddr, r.by)
    BY <1>0, <1>4, <1>5, <2>1, <2>3
  <2> QED
    BY <1>5, <2>2, <2>3 DEF OpenTz
<1>6. CASE r.op = "close" /\ CloseTz(p)
  BY <1>0, <1>4, <1>6 DEF CloseTz, Still, svars
<1>7. CASE r.op = "invoke" /\ InvokeTz(p)
  BY <1>0, <1>4, <1>7 DEF InvokeTz, Still, svars
<1> QED
  BY <1>3, <1>5, <1>6, <1>7, TaskEffect

\* The hooks after the secure world keep it: a session is taken away only when its
\* client closed it or finalized its context.
LEMMA WorkSesPost ==
  ASSUME TypeInv, TypeInv', CtxInv, SesInv, WorkCtx, WorkSes, NEW p \in Processes, tee_process_post(p),
         UNCHANGED cvars
  PROVE  WorkSes'
<1> DEFINE r == teemem[p]
<1>a. UNCHANGED <<tee_session_list, session, context>>
  BY DEF tee_process_post, svars, cvars
<1>0. /\ r # NULL /\ r \in Requests /\ r.at = "post" /\ r.op \in Ops /\ WorkSesReq(p) /\ CtxReq(p) /\ SesReq(p) /\ WorkCtxReq(p)
      /\ ids \in Nat /\ ids' \in Nat /\ ids <= ids + 1 /\ ids <= ids
  BY PostEffect DEF TypeInv, Requests, CtxInv, SesInv, WorkSes, WorkCtx
<1>1. CASE Stopped(p)
  BY <1>0, <1>1, WorkSesStopped
<1>2. /\ \A e \in tee_sessions : e.id \in 1..ids /\ e.obj = e.id /\ e.tz_id \in 0..ids
      /\ SesUnique /\ SesFollow
  BY DEF SesInv, WorkSes, SesUnique, SesFollow
<1>3. \A x, y \in tee_contexts : x.obj = y.obj => x = y
  BY DEF CtxInv
<1>4. CASE r.op \in {"init", "reg", "rel"}
  <2>1. CASE ~Stopped(p)
    <3>1. /\ teemem'[p] # NULL /\ teemem'[p].op = r.op /\ ids <= ids'
          /\ \A q \in Processes : q # p => teemem'[q] = teemem[q]
          /\ tee_contexts \subseteq tee_contexts' /\ UNCHANGED tee_sessions
      <4>1. CASE InitPost(p)
        BY <1>0, <4>1 DEF InitPost, Became
      <4>3. CASE RegPost(p)
        BY <1>0, <2>1, <4>3 DEF RegPost, Became
      <4>4. CASE RelPost(p)
        BY <1>0, <2>1, <4>4 DEF RelPost, Became
      <4> QED
        BY <1>0, <1>4, <4>1, <4>3, <4>4, PostEffect DEF Ops
    <3> QED
      BY <1>0, <1>a, <1>4, <3>1, WorkSesOther
  <2> QED
    BY <1>1, <2>1
<1>5. CASE r.op = "fin" /\ FinPost(p)
  <2>1. PICK d \in tee_contexts : d.id = p /\ d.tz_id = r.context
    BY <1>0, <1>5 DEF WorkCtxReq, Is
  <2>2. PICK e \in tee_contexts, at \in {"back", "oops"}, context1 \in {0, r.context} :
          /\ e.tz_id = r.context /\ tee_contexts' \in {tee_contexts, tee_contexts \ {e}}
          /\ tee_sessions' = {x \in tee_sessions : x.ctx # e.obj} /\ UNCHANGED ids
          /\ Became(p, at, r.ret, context1, r.session, r.tmpid, r.memid, r.paddr, r.by)
    BY <1>5, <2>1 DEF FinPost, NoTzContext
  <2>3. e.id = p
    BY <2>1, <2>2 DEF CtxInv, WorkCtx
  <2>4. /\ teemem'[p] # NULL /\ teemem'[p].op = "fin" /\ teemem'[p].at \in {"back", "oops"}
        /\ \A q \in Processes : q # p => teemem'[q] = teemem[q]
    BY <1>5, <2>2 DEF Became
  <2>5. SesUnique' /\ WorkSesReq(p)'
    BY <1>2, <2>2, <2>4 DEF SesUnique, WorkSesReq, Is
  <2>6. SesFollow'
    BY <1>2, <2>2 DEF SesFollow
  <2>7. SesObject(p)'
    BY <1>0, <1>a, <1>5 DEF SesObject, WorkCtxReq
  <2>8. \A x \in tee_sessions, q \in Processes : q # p /\ Of(q, x.ctx) => x.ctx # e.obj
    BY <1>3, <2>2, <2>3 DEF Of
  <2>9. SesKept(p)
    BY <1>0, <1>a, <2>2, <2>3, <2>4, <2>8 DEF SesKept, Is
  <2> QED
    BY <2>5, <2>6, <2>7, <2>9, WorkSesStep
<1>6. CASE r.op = "open" /\ OpenPost(p)
  <2>0. /\ r.tmpid \in 1..ids /\ NewSession(p) /\ r.session \in 0..ids /\ r.session \in Int /\ r.c \in Contexts
        /\ \A e \in tee_sessions : e.id = r.tmpid => e.tz_id = 0 /\ Of(p, e.ctx)
        /\ (r.session # 0 => NewTz(p)) /\ (r.ret = OK => r.session # 0)
    BY <1>0, <1>6 DEF SesReq, WorkSesReq, Is, Requests, NewSession
  <2>1. ASSUME NEW ses \in tee_sessions, ses.id = r.tmpid,
               tee_sessions' = WithTzid(tee_sessions, ses.obj, r.session), NEW context1,
               Became(p, "back", r.ret, context1, ses.id, r.tmpid, r.memid, r.paddr, r.by), UNCHANGED <<tee_contexts, ids>>
        PROVE  WorkSes'
    <3>0. ses.obj = r.tmpid /\ ses.obj \in Int
      BY <1>0, <1>2, <2>0, <2>1
    <3>1. /\ \A x \in tee_sessions' :
               \/ x \in tee_sessions /\ x.obj # r.tmpid
               \/ x.obj = r.tmpid /\ x.id = r.tmpid /\ x.ctx = ses.ctx /\ x.tz_id = r.session
          /\ \A x \in tee_sessions : x.obj # r.tmpid => x \in tee_sessions'
          /\ \E x \in tee_sessions' : x.obj = r.tmpid /\ x.id = r.tmpid /\ x.ctx = ses.ctx /\ x.tz_id = r.session
          /\ \A x, y \in tee_sessions' : x.obj = r.tmpid /\ y.obj = r.tmpid => x = y
      <4>1. \A d, e \in tee_sessions : d.obj = e.obj => d = e
        BY <1>2 DEF SesUnique
      <4> QED
        BY <2>0, <2>1, <3>0, <4>1, WithTzidSession
    <3>2. /\ teemem'[p] # NULL /\ teemem'[p].op = "open" /\ teemem'[p].at = "back" /\ teemem'[p].session = r.tmpid
          /\ teemem'[p].c = r.c /\ teemem'[p].ret = r.ret
          /\ \A q \in Processes : q # p => teemem'[q] = teemem[q]
      BY <1>6, <2>1 DEF Became
    <3>3. SesUnique'
      <4>1. r.session # 0 => \A x \in tee_sessions : x.tz_id # r.session
        BY <2>0 DEF NewTz
      <4>2. \A d, e \in tee_sessions : d.obj = e.obj \/ (d.tz_id = e.tz_id /\ e.tz_id # 0) => d = e
        BY <1>2 DEF SesUnique
      <4> QED
        BY <3>1, <4>1, <4>2 DEF SesUnique
    <3>4. SesFollow'
      BY <1>2, <2>1, <3>1 DEF SesFollow
    <3>5. SesObject(p)'
      <4>1. SUFFICES ASSUME NEW s \in Sessions, session[p][s] # Closed
                     PROVE  /\ session[p][s].c \in Contexts /\ Works(p, session[p][s].id)'
                            /\ \E c \in Contexts : context[p][c] # 0
        BY <1>a DEF SesObject
      <4>2. /\ session[p][s].c \in Contexts /\ Works(p, session[p][s].id)
            /\ \E c \in Contexts : context[p][c] # 0 /\ session[p][s].id # r.tmpid
        BY <2>0, <4>1 DEF WorkSes, NewSession
      <4>3. PICK e \in tee_sessions : /\ e.id = session[p][s].id /\ e.tz_id # 0 /\ Of(p, e.ctx)
                                      /\ \E f \in tee_session_list : f.id = e.tz_id
        BY <4>2 DEF Works
      <4>4. e \in tee_sessions'
        BY <1>2, <3>1, <4>2, <4>3
      <4> QED
        BY <1>a, <2>1, <4>2, <4>3, <4>4 DEF Works, Of
    <3>6. SesKept(p)
      <4>1. \A e \in tee_sessions : e.tz_id # 0 => e \in tee_sessions'
        BY <1>2, <2>0, <3>1
      <4>2. Is(p, {"open"}, {"post"})
        BY <1>0, <1>6 DEF Is
      <4> QED
        BY <1>0, <1>a, <2>1, <3>1, <3>2, <4>1, <4>2 DEF SesKept, Is
    <3>7. r.ret = OK => \E x \in tee_sessions' : /\ x.id = teemem'[p].session /\ x.tz_id # 0
                                                /\ \E y \in tee_contexts' : y.obj = x.ctx /\ y.id = p
                                                /\ \E f \in tee_session_list' : f.id = x.tz_id
      <4>1. r.ret = OK => \E f \in tee_session_list' : f.id = r.session
        BY <1>a, <2>0 DEF NewTz
      <4>2. \E x \in tee_contexts' : x.obj = ses.ctx /\ x.id = p
        BY <2>0, <2>1 DEF Of
      <4> QED
        BY <2>0, <3>1, <3>2, <4>1, <4>2
    <3>8. WorkSesReq(p)'
      BY <2>0, <3>2, <3>7 DEF WorkSesReq, Is, Works, Of
    <3> QED
      BY <3>3, <3>4, <3>5, <3>6, <3>8, WorkSesStep
  <2> QED
    BY <1>1, <1>6, <2>1 DEF OpenPost
<1>7. CASE r.op = "close" /\ ClosePost(p)
  <2>1. ASSUME NEW ses \in tee_sessions, ses.tz_id = r.session, tee_sessions' = tee_sessions \ {ses},
               Became(p, "back", r.ret, r.context, ses.id, r.tmpid, r.memid, r.paddr, r.by), UNCHANGED <<tee_contexts, ids>>
        PROVE  WorkSes'
    <3>1. PICK d \in tee_sessions : /\ d.tz_id = r.session /\ d.tz_id # 0 /\ Of(p, d.ctx)
                                    /\ \A s \in Sessions : session[p][s].id # d.id
      BY <1>0, <1>7 DEF WorkSesReq, Is
    <3>2. d = ses
      BY <1>2, <2>1, <3>1 DEF SesUnique
    <3>3. /\ teemem'[p] # NULL /\ teemem'[p].op = "close" /\ teemem'[p].at = "back"
          /\ \A q \in Processes : q # p => teemem'[q] = teemem[q]
      BY <1>7, <2>1 DEF Became
    <3>4. SesUnique' /\ SesFollow' /\ WorkSesReq(p)'
      BY <1>2, <2>1, <3>3 DEF SesUnique, SesFollow, WorkSesReq, Is
    <3>5. SesObject(p)'
      <4>1. SUFFICES ASSUME NEW s \in Sessions, session[p][s] # Closed
                     PROVE  /\ session[p][s].c \in Contexts /\ Works(p, session[p][s].id)'
                            /\ \E c \in Contexts : context[p][c] # 0
        BY <1>a DEF SesObject
      <4>2. /\ session[p][s].c \in Contexts /\ Works(p, session[p][s].id)
            /\ \E c \in Contexts : context[p][c] # 0
        BY <4>1 DEF WorkSes
      <4>3. PICK e \in tee_sessions : /\ e.id = session[p][s].id /\ e.tz_id # 0 /\ Of(p, e.ctx)
                                      /\ \E f \in tee_session_list : f.id = e.tz_id
        BY <4>2 DEF Works
      <4>4. e \in tee_sessions'
        BY <2>1, <3>1, <3>2, <4>3
      <4> QED
        BY <1>a, <2>1, <4>2, <4>3, <4>4 DEF Works, Of
    <3>6. \A q \in Processes : q # p => ~Of(q, ses.ctx)
      BY <1>3, <3>1, <3>2 DEF Of
    <3>7. SesKept(p)
      BY <1>0, <1>a, <2>1, <3>3, <3>6 DEF SesKept, Is
    <3> QED
      BY <3>4, <3>5, <3>7, WorkSesStep
  <2> QED
    BY <1>1, <1>7, <2>1 DEF ClosePost
<1>8. CASE r.op = "invoke" /\ InvokePost(p)
  <2>1. CASE ~Stopped(p)
    <3>1. /\ teemem'[p] # NULL /\ teemem'[p].op = "invoke" /\ teemem'[p].at = "back"
          /\ \A q \in Processes : q # p => teemem'[q] = teemem[q]
          /\ UNCHANGED <<tee_contexts, tee_sessions, ids>>
      BY <1>8, <2>1 DEF InvokePost, Became
    <3>2. SesUnique' /\ SesFollow' /\ SesObject(p)'
      BY <1>a, <3>1, WorkSesSame
    <3>3. SesKept(p)
      BY <1>0, <1>a, <3>1 DEF SesKept, Is
    <3>4. WorkSesReq(p)'
      BY <3>1 DEF WorkSesReq, Is
    <3> QED
      BY <3>2, <3>3, <3>4, WorkSesStep
  <2> QED
    BY <1>1, <2>1
<1> QED
  BY <1>4, <1>5, <1>6, <1>7, <1>8, PostEffect

\* The calls of the client keep it: the session that is closed is that of no other
\* object.
LEMMA WorkSesCalls ==
  ASSUME TypeInv, TypeInv', SesInv, WorkSes, WorkMem, \A c, d \in Contexts : c = d, NEW p \in Processes, Calls(p)
  PROVE  WorkSes'
<1>0. ids \in Nat
  BY DEF TypeInv
<1>1. ASSUME NEW op, NEW context1, NEW session1, NEW memid, NEW user, NEW tmp, NEW c, NEW s, NEW m,
             Began(p, op, context1, session1, memid, user, tmp, c, s, m),
             \A q \in Processes : q # p => context'[q] = context[q] /\ session'[q] = session[q],
             op = "fin" => \A d \in Sessions : session'[p][d] = Closed,
             op # "fin" => context'[p] = context[p],
             \A d \in Sessions : session'[p][d] \in {session[p][d], Closed},
             op = "open" => c \in Contexts,
             op = "close" => \E e \in tee_sessions : /\ e.id = session1 /\ e.tz_id # 0 /\ Of(p, e.ctx)
                                                     /\ \A d \in Sessions : session'[p][d].id # e.id,
             op = "invoke" => session'[p][s] # Closed
      PROVE  WorkSes'
  <2>1. /\ teemem'[p] # NULL /\ teemem'[p].op = op /\ teemem'[p].at = "pre" /\ teemem'[p].c = c
        /\ teemem'[p].session = session1 /\ teemem'[p].s = s
        /\ \A q \in Processes : q # p => teemem'[q] = teemem[q]
        /\ UNCHANGED <<tee_contexts, tee_sessions, tee_session_list, ids>>
    BY <1>1 DEF Began, svars, dvars
  <2>2. SesUnique' /\ SesFollow'
    BY <2>1 DEF SesUnique, SesFollow, WorkSes
  <2>3. SesObject(p)'
    <3>1. SUFFICES ASSUME NEW d \in Sessions, session'[p][d] # Closed
                   PROVE  /\ session'[p][d].c \in Contexts
                          /\ \E e \in tee_sessions : /\ e.id = session'[p][d].id /\ e.tz_id # 0 /\ Of(p, e.ctx)
                                                     /\ \E f \in tee_session_list : f.id = e.tz_id
                          /\ \E x \in Contexts : context'[p][x] # 0
      BY <2>1 DEF SesObject, Works, Of
    <3>2. session'[p][d] = session[p][d] /\ context'[p] = context[p]
      BY <1>1, <3>1
    <3> QED
      BY <3>1, <3>2 DEF WorkSes, Works
  <2>4. SesKept(p)
    BY <1>0, <1>1, <2>1 DEF SesKept, Is
  <2>5. WorkSesReq(p)'
    BY <1>1, <2>1 DEF WorkSesReq, Is, Of
  <2> QED
    BY <2>2, <2>3, <2>4, <2>5, WorkSesStep
<1>2. \A s \in Sessions : session[p][s] # Closed => session[p][s].c \in Contexts
  BY DEF WorkSes
<1>4. CASE BeginInit(p)
  BY <1>1, <1>4 DEF BeginInit, cvars
<1>5. CASE BeginFin(p)
  <2>1. PICK c \in Contexts :
          /\ \A s \in Sessions : session[p][s].c # c
          /\ Began(p, "fin", context[p][c], 0, 0, NULL, 0, c, NULL, NULL)
          /\ context' = [context EXCEPT ![p][c] = 0]
          /\ UNCHANGED session
    BY <1>5 DEF BeginFin
  <2>2. \A q \in Processes : q # p => context'[q] = context[q]
    BY <2>1 DEF TypeInv
  <2>3. \A d \in Sessions : session'[p][d] = Closed
    BY <1>2, <2>1
  <2> QED
    BY <1>1, <2>1, <2>2, <2>3
<1>6. CASE BeginReg(p)
  BY <1>1, <1>6 DEF BeginReg, cvars
<1>7. CASE BeginRel(p)
  BY <1>1, <1>7 DEF BeginRel
<1>8. CASE BeginOpen(p)
  BY <1>1, <1>8 DEF BeginOpen, cvars
<1>9. CASE BeginClose(p)
  <2>1. PICK s \in Sessions :
          /\ session[p][s] # Closed
          /\ Began(p, "close", 0, session[p][s].id, 0, NULL, 0, NULL, NULL, NULL)
          /\ session' = [session EXCEPT ![p][s] = Closed] /\ UNCHANGED <<context, memory>>
    BY <1>9 DEF BeginClose
  <2>2. /\ \A q \in Processes : q # p => session'[q] = session[q]
        /\ session'[p][s] = Closed
        /\ \A d \in Sessions : d # s => session'[p][d] = session[p][d]
    BY <2>1 DEF TypeInv
  <2>3. PICK e \in tee_sessions : /\ e.id = session[p][s].id /\ e.tz_id # 0 /\ Of(p, e.ctx)
                                  /\ \E f \in tee_session_list : f.id = e.tz_id
    BY <2>1 DEF WorkSes, Works
  <2>4. PICK f \in tee_session_list : f.id = e.tz_id
    BY <2>3
  <2>5. ASSUME NEW d \in Sessions, session'[p][d].id = e.id PROVE FALSE
    <3>1. e.id # 0 /\ Closed.id = 0
      BY DEF SesInv, Closed
    <3>2. d # s
      BY <2>2, <2>5, <3>1
    <3>3. session[p][d].id = e.id
      BY <2>2, <2>5, <3>2
    <3>4. f.owner = <<p, d>> /\ f.owner = <<p, s>>
      BY <2>3, <2>4, <3>3 DEF SesInv, Means
    <3> QED
      BY <3>2, <3>4
  <2> QED
    BY <1>1, <2>1, <2>2, <2>3, <2>5
<1>10. CASE BeginInvoke(p)
  BY <1>1, <1>10 DEF BeginInvoke, cvars
<1> QED
  BY <1>4, <1>5, <1>6, <1>7, <1>8, <1>9, <1>10, CallEffect

\* The client library keeps the session of a call that succeeded.
LEMMA WorkSesReturn ==
  ASSUME TypeInv, TypeInv', SesInv, WorkCtx, WorkSes, NEW p \in Processes, TEEC_return(p)
  PROVE  WorkSes'
<1> DEFINE r == teemem[p]
<1>1. /\ r # NULL /\ r \in Requests /\ r.at = "back" /\ teemem'[p] = NULL
      /\ \A q \in Processes : q # p => teemem'[q] = teemem[q]
      /\ \A q \in Processes, c \in Contexts :
           context'[q][c] = IF q = p /\ r.op = "init" /\ r.ret = OK /\ c = r.c THEN r.context ELSE context[q][c]
      /\ \A q \in Processes, s \in Sessions :
           session'[q][s] = IF q = p /\ r.op = "open" /\ r.ret = OK /\ s = r.s
                            THEN [id |-> r.session, c |-> r.c] ELSE session[q][s]
      /\ UNCHANGED <<tee_contexts, tee_sessions, tee_session_list, ids>>
  BY ReturnEffect DEF svars, dvars
<1>2. WorkCtxReq(p) /\ WorkSesReq(p) /\ ids \in Nat
  BY DEF WorkCtx, WorkSes, TypeInv
<1>3. \A q \in Processes : q # p => context'[q] = context[q] /\ session'[q] = session[q]
  BY <1>1 DEF TypeInv
<1>4. SesKept(p)
  BY <1>1, <1>2, <1>3 DEF SesKept, Is
<1>5. SesUnique' /\ SesFollow' /\ WorkSesReq(p)'
  BY <1>1 DEF SesUnique, SesFollow, WorkSes, WorkSesReq
<1>6. SesObject(p)'
  <2>1. SUFFICES ASSUME NEW d \in Sessions, session'[p][d] # Closed
                 PROVE  /\ session'[p][d].c \in Contexts
                        /\ \E e \in tee_sessions : /\ e.id = session'[p][d].id /\ e.tz_id # 0 /\ Of(p, e.ctx)
                                                   /\ \E f \in tee_session_list : f.id = e.tz_id
                        /\ \E x \in Contexts : context'[p][x] # 0
    BY <1>1 DEF SesObject, Works, Of
  <2>2. CASE r.op = "open" /\ r.ret = OK /\ d = r.s
    <3>1. Works(p, r.session) /\ r.c \in Contexts /\ \E x \in Contexts : context[p][x] # 0
      BY <1>1, <1>2, <2>2 DEF WorkSesReq, WorkCtxReq, Is
    <3>2. session'[p][d].id = r.session /\ session'[p][d].c = r.c /\ \A x \in Contexts : context'[p][x] = context[p][x]
      BY <1>1, <2>2
    <3> QED
      BY <3>1, <3>2 DEF Works
  <2>3. CASE ~(r.op = "open" /\ r.ret = OK /\ d = r.s)
    <3>1. session'[p][d] = session[p][d]
      BY <1>1, <2>3
    <3>2. /\ session[p][d].c \in Contexts /\ Works(p, session[p][d].id)
          /\ \E x \in Contexts : context[p][x] # 0
      BY <2>1, <3>1 DEF WorkSes
    <3>3. r.op # "init"
      BY <1>1, <1>2, <3>2 DEF WorkCtxReq
    <3>4. \A x \in Contexts : context'[p][x] = context[p][x]
      BY <1>1, <3>3
    <3> QED
      BY <3>1, <3>2, <3>4 DEF Works
  <2> QED
    BY <2>2, <2>3
<1> QED
  BY <1>4, <1>5, <1>6, WorkSesStep

\* A step of p keeps the memory of the other processes.
MemKept(p) ==
  /\ \A q \in Processes : q # p => /\ teemem'[q] = teemem[q] /\ context'[q] = context[q]
                                   /\ memory'[q] = memory[q]
  /\ \A e \in tee_memories : e.tz_id # 0 /\ e.user[1] # p => e \in tee_memories'
  /\ \A g \in tee_memory_list :
       g \in tee_memory_list' \/ \E e \in tee_memories : e.tz_id = g.id /\ e.tz_id # 0 /\ e.user[1] = p

\* The two parts of WorkMem, for a step.
MemFollow == \A e \in tee_memories : \E x \in tee_contexts : x.obj = e.ctx
MemBacked(p) ==
  \A m \in Memories : memory[p][m] # Closed =>
    /\ memory[p][m].c \in Contexts /\ Backed(memory[p][m].id)
    /\ \E c \in Contexts : context[p][c] # 0

\* A step of p that keeps the others' memory, and leaves the objects of p with
\* memory that both worlds have, keeps the invariant of the memory.
LEMMA WorkMemStep ==
  ASSUME TypeInv, MemInv, WorkMem, NEW p \in Processes, MemKept(p), MemFollow', MemBacked(p)', WorkMemReq(p)'
  PROVE  WorkMem'
<1>0. \A d, e \in tee_memories : d.obj = e.obj \/ (d.tz_id = e.tz_id /\ e.tz_id # 0) => d = e
  BY DEF MemInv, MemTable
<1>1. ASSUME NEW q \in Processes, q # p, NEW id, NEW m, Mine(id, <<q, m>>), Backed(id)
      PROVE  \E e \in tee_memories' : e.id = id /\ e.tz_id # 0 /\ \E g \in tee_memory_list' : g.id = e.tz_id
  <2>1. PICK e \in tee_memories : e.id = id /\ e.tz_id # 0 /\ \E g \in tee_memory_list : g.id = e.tz_id
    BY <1>1 DEF Backed
  <2>2. e.user = <<q, m>>
    BY <1>1, <2>1 DEF Mine
  <2>3. e.user[1] # p
    BY <1>1, <2>2
  <2>4. PICK g \in tee_memory_list : g.id = e.tz_id
    BY <2>1
  <2>5. \A d \in tee_memories : d.tz_id = g.id /\ d.tz_id # 0 => d.user[1] # p
    BY <1>0, <2>1, <2>3, <2>4
  <2>6. g \in tee_memory_list' /\ e \in tee_memories'
    BY <2>1, <2>3, <2>5 DEF MemKept
  <2> QED
    BY <2>1, <2>4, <2>6
<1>2. ASSUME NEW q \in Processes, q # p PROVE MemBacked(q)'
  <2>1. memory'[q] = memory[q] /\ context'[q] = context[q] /\ MemObject(q)
    BY <1>2 DEF MemKept, MemInv
  <2>2. SUFFICES ASSUME NEW m \in Memories, memory[q][m] # Closed
                 PROVE  /\ memory[q][m].c \in Contexts /\ Backed(memory[q][m].id)'
                        /\ \E c \in Contexts : context[q][c] # 0
    BY <2>1 DEF MemBacked
  <2>3. /\ memory[q][m].c \in Contexts /\ Backed(memory[q][m].id)
        /\ \E c \in Contexts : context[q][c] # 0
    BY <2>2 DEF WorkMem
  <2>4. Mine(memory[q][m].id, <<q, m>>)
    BY <2>1 DEF MemObject
  <2> QED
    BY <1>1, <1>2, <2>1, <2>3, <2>4 DEF Backed
<1>3. ASSUME NEW q \in Processes, q # p, teemem[q] # NULL PROVE WorkMemReq(q)'
  <2> DEFINE r == teemem[q]
  <2>0. teemem'[q] = r /\ memory'[q] = memory[q] /\ WorkMemReq(q) /\ MemReq(q) /\ MemObject(q)
    BY <1>3 DEF MemKept, WorkMem, MemInv
  <2>1. ASSUME r.op = "reg", r.at = "post", r.ret = OK PROVE \E g \in tee_memory_list' : g.id = r.memid
    <3>1. PICK g \in tee_memory_list : g.id = r.memid
      BY <1>3, <2>0, <2>1 DEF WorkMemReq, Is
    <3>2. \A e \in tee_memories : e.tz_id # r.memid
      BY <1>3, <2>0, <2>1 DEF MemReq, Is, NewMemory
    <3> QED
      BY <3>1, <3>2 DEF MemKept
  <2>2. ASSUME r.op = "reg", r.at = "back", r.ret = OK PROVE Backed(r.memid)'
    <3>1. Backed(r.memid) /\ Mine(r.memid, <<q, r.m>>)
      BY <1>3, <2>0, <2>2 DEF WorkMemReq, MemReq, Is
    <3> QED
      BY <1>1, <1>3, <2>0, <3>1 DEF Backed
  <2>3. ASSUME r.op = "invoke", r.at \in {"tz", "post"}, r.m # NULL
        PROVE  \E e \in tee_memories' : e.id = memory[q][r.m].id /\ e.tz_id = r.memid
    <3>1. r.m \in Memories
      BY <1>3, <2>0, <2>3 DEF MemReq
    <3>2. PICK e \in tee_memories : e.id = memory[q][r.m].id /\ e.tz_id = r.memid
      BY <1>3, <2>0, <2>3 DEF WorkMemReq, Is
    <3>3. e.user = <<q, r.m>> /\ e.tz_id # 0
      BY <2>0, <3>1, <3>2 DEF MemObject, Mine
    <3>4. e.user[1] # p
      BY <1>3, <3>3
    <3> QED
      BY <3>2, <3>3, <3>4 DEF MemKept
  <2>4. /\ r.op = "reg" => r.c \in Contexts
        /\ r.op = "rel" => memory[q][r.user[2]] = Closed
        /\ r.op = "invoke" /\ r.at = "pre" /\ r.m # NULL => memory[q][r.m] # Closed /\ r.memid = memory[q][r.m].id
        /\ r.op = "invoke" /\ r.at \in {"tz", "post"} /\ r.m # NULL => memory[q][r.m] # Closed
    BY <1>3, <2>0 DEF WorkMemReq, Is
  <2> QED
    BY <1>3, <2>0, <2>1, <2>2, <2>3, <2>4 DEF WorkMemReq, Is
<1>4. \A q \in Processes : WorkMemReq(q)'
  BY <1>3 DEF WorkMemReq, MemKept
<1>5. \A q \in Processes : MemBacked(q)'
  BY <1>2
<1> QED
  BY <1>4, <1>5 DEF WorkMem, MemFollow, MemBacked

\* Contexts and memory stay: what the process's own objects name does too.
LEMMA WorkMemSame ==
  ASSUME WorkMem, NEW p \in Processes, tee_contexts \subseteq tee_contexts',
         tee_memory_list \subseteq tee_memory_list',
         UNCHANGED <<tee_memories, memory, context>>
  PROVE  MemFollow' /\ MemBacked(p)'
<1>1. MemFollow'
  BY DEF WorkMem, MemFollow
<1>2. SUFFICES ASSUME NEW m \in Memories, memory[p][m] # Closed
               PROVE  /\ memory[p][m].c \in Contexts /\ Backed(memory[p][m].id)'
                      /\ \E c \in Contexts : context[p][c] # 0
  BY <1>1 DEF MemBacked
<1>3. /\ memory[p][m].c \in Contexts /\ Backed(memory[p][m].id)
      /\ \E c \in Contexts : context[p][c] # 0
  BY <1>2 DEF WorkMem
<1> QED
  BY <1>3 DEF Backed

\* A step of p that leaves the memory alone.
LEMMA WorkMemQuiet ==
  ASSUME TypeInv, MemInv, WorkMem, NEW p \in Processes, WorkMemReq(p)',
         \A q \in Processes : q # p => teemem'[q] = teemem[q],
         tee_contexts \subseteq tee_contexts', tee_memory_list \subseteq tee_memory_list',
         UNCHANGED <<tee_memories, memory, context>>
  PROVE  WorkMem'
<1>1. MemFollow' /\ MemBacked(p)'
  BY WorkMemSame
<1>2. MemKept(p)
  BY DEF MemKept
<1> QED
  BY <1>1, <1>2, WorkMemStep

\* A step of a request that is about no memory.
LEMMA WorkMemOther ==
  ASSUME TypeInv, MemInv, WorkMem, NEW p \in Processes, teemem'[p] # NULL,
         teemem'[p].op \notin {"reg", "rel", "invoke"},
         \A q \in Processes : q # p => teemem'[q] = teemem[q],
         tee_contexts \subseteq tee_contexts',
         UNCHANGED <<tee_memories, tee_memory_list, memory, context>>
  PROVE  WorkMem'
<1>1. WorkMemReq(p)'
  BY DEF WorkMemReq, Is
<1> QED
  BY <1>1, WorkMemQuiet

\* A call that stops keeps it.
LEMMA WorkMemStopped ==
  ASSUME TypeInv, MemInv, WorkMem, NEW p \in Processes, teemem[p] # NULL, Stopped(p)
  PROVE  WorkMem'
<1>1. /\ \A q \in Processes : q # p => teemem'[q] = teemem[q]
      /\ teemem'[p] # NULL /\ teemem'[p].at \in {"back", "oops"}
      /\ teemem'[p].at = "back" => teemem'[p].ret = REFUSED
      /\ teemem'[p].op = teemem[p].op /\ teemem'[p].c = teemem[p].c /\ teemem'[p].user = teemem[p].user
      /\ UNCHANGED <<tee_contexts, tee_memories, tee_memory_list, memory, context>>
  BY DEF Stopped, Gone, Became, svars, cvars
<1>2. WorkMemReq(p) /\ REFUSED # OK
  BY DEF WorkMem, OK, REFUSED
<1>3. WorkMemReq(p)'
  BY <1>1, <1>2 DEF WorkMemReq, Is
<1> QED
  BY <1>1, <1>3, WorkMemQuiet

\* The hooks before the secure world keep it: memory that is being registered has
\* no object yet.
LEMMA WorkMemPre ==
  ASSUME TypeInv, TypeInv', MemInv, WorkMem, NEW p \in Processes, tee_process_pre(p), UNCHANGED cvars
  PROVE  WorkMem'
<1> DEFINE r == teemem[p]
<1>0. /\ r # NULL /\ r.at = "pre" /\ r.op \in Ops /\ WorkMemReq(p)
      /\ UNCHANGED <<memory, context>>
  BY PreEffect DEF TypeInv, Requests, WorkMem, cvars
<1>1. CASE Stopped(p)
  BY <1>0, <1>1, WorkMemStopped
<1>3. CASE r.op \notin {"reg", "rel", "invoke"}
  <2>1. CASE ~Stopped(p)
    <3>1. /\ teemem'[p] # NULL /\ teemem'[p].op = r.op
          /\ \A q \in Processes : q # p => teemem'[q] = teemem[q]
          /\ UNCHANGED <<tee_contexts, tee_memory_list, tee_memories>>
      <4>1. CASE InitPre(p)
        BY <1>0, <4>1 DEF InitPre, Became, Still, svars, dvars
      <4>2. CASE FinPre(p)
        BY <1>0, <2>1, <4>2 DEF FinPre, Became, Still, svars, dvars
      <4>3. CASE OpenPre(p)
        BY <1>0, <2>1, <4>3 DEF OpenPre, Gone, Became, svars
      <4>4. CASE ClosePre(p)
        BY <1>0, <2>1, <4>4 DEF ClosePre, Became, Still, svars, dvars
      <4> QED
        BY <1>0, <1>3, <4>1, <4>2, <4>3, <4>4, PreEffect DEF Ops
    <3> QED
      BY <1>0, <1>3, <3>1, WorkMemOther
  <2> QED
    BY <1>1, <2>1
<1>4. CASE r.op = "reg" /\ RegPre(p)
  <2>1. ASSUME NEW e \in tee_contexts, NEW paddr, NEW new, new.ctx = e.obj,
               Became(p, "tz", r.ret, e.tz_id, r.session, r.tmpid, r.memid, paddr, r.by),
               tee_memories' = tee_memories \cup {new},
               UNCHANGED <<tee_contexts, tee_memory_list>>
        PROVE  WorkMem'
    <3>1. /\ teemem'[p] # NULL /\ teemem'[p].op = "reg" /\ teemem'[p].at = "tz" /\ teemem'[p].c = r.c
          /\ \A q \in Processes : q # p => teemem'[q] = teemem[q]
      BY <1>4, <2>1 DEF Became
    <3>2. WorkMemReq(p)'
      BY <1>0, <1>4, <3>1 DEF WorkMemReq, Is
    <3>3. MemFollow'
      BY <2>1 DEF MemFollow, WorkMem
    <3>4. MemBacked(p)'
      <4>1. SUFFICES ASSUME NEW m \in Memories, memory[p][m] # Closed
                     PROVE  /\ memory[p][m].c \in Contexts /\ Backed(memory[p][m].id)'
                            /\ \E c \in Contexts : context[p][c] # 0
        BY <1>0 DEF MemBacked
      <4>2. /\ memory[p][m].c \in Contexts /\ Backed(memory[p][m].id)
            /\ \E c \in Contexts : context[p][c] # 0
        BY <4>1 DEF WorkMem
      <4> QED
        BY <1>0, <2>1, <4>2 DEF Backed
    <3>5. MemKept(p)
      BY <1>0, <2>1, <3>1 DEF MemKept
    <3> QED
      BY <3>2, <3>3, <3>4, <3>5, WorkMemStep
  <2>2. CASE ~Stopped(p)
    <3>1. PICK e \in tee_contexts :
            /\ Became(p, "tz", r.ret, e.tz_id, r.session, r.tmpid, r.memid, ids + 1, r.by)
            /\ tee_memories' = tee_memories \cup
                 {[obj |-> ids + 1, id |-> ids + 1, tz_id |-> 0, ctx |-> e.obj, user |-> r.user]}
            /\ UNCHANGED <<tee_contexts, tee_memory_list>>
      BY <1>4, <2>2 DEF RegPre, svars
    <3>2. [obj |-> ids + 1, id |-> ids + 1, tz_id |-> 0, ctx |-> e.obj, user |-> r.user].ctx = e.obj
      OBVIOUS
    <3> QED
      BY <2>1, <3>1, <3>2
  <2> QED
    BY <1>1, <2>2
<1>5. CASE r.op = "rel" /\ RelPre(p)
  <2>1. CASE ~Stopped(p)
    <3>1. /\ teemem'[p] # NULL /\ teemem'[p].op = "rel" /\ teemem'[p].user = r.user
          /\ \A q \in Processes : q # p => teemem'[q] = teemem[q]
          /\ UNCHANGED <<tee_contexts, tee_memory_list, tee_memories>>
      BY <1>5, <2>1 DEF RelPre, Became, Still, svars, dvars
    <3>2. WorkMemReq(p)'
      BY <1>0, <1>5, <3>1 DEF WorkMemReq, Is
    <3> QED
      BY <1>0, <3>1, <3>2, WorkMemQuiet
  <2> QED
    BY <1>1, <2>1
<1>6. CASE r.op = "invoke" /\ InvokePre(p)
  <2>1. ASSUME NEW session1, NEW memid,
               Parameter(r.memid, memid),
               Became(p, "tz", r.ret, r.context, session1, r.tmpid, memid, r.paddr, r.by),
               UNCHANGED <<tee_contexts, tee_memory_list, tee_memories>>
        PROVE  WorkMem'
    <3>1. /\ teemem'[p] # NULL /\ teemem'[p].op = "invoke" /\ teemem'[p].at = "tz" /\ teemem'[p].m = r.m
          /\ teemem'[p].memid = memid
          /\ \A q \in Processes : q # p => teemem'[q] = teemem[q]
      BY <1>6, <2>1 DEF Became
    <3>2. r.m # NULL => memory[p][r.m] # Closed /\ r.memid = memory[p][r.m].id /\ r.memid # 0
      BY <1>0, <1>6 DEF WorkMemReq, MemInv, MemReq, Is
    <3>3. WorkMemReq(p)'
      BY <1>0, <2>1, <3>1, <3>2 DEF WorkMemReq, Is, Parameter
    <3> QED
      BY <1>0, <2>1, <3>1, <3>3, WorkMemQuiet
  <2> QED
    BY <1>1, <1>6, <2>1 DEF InvokePre, svars
<1> QED
  BY <1>3, <1>4, <1>5, <1>6, PreEffect

\* The TEE task: registered memory is in its list, and memory that it takes
\* out of the list belongs to no object of the client.
LEMMA WorkMemTask ==
  ASSUME TypeInv, TypeInv', MemInv, WorkMem, NEW p \in Processes, tee_task(p), UNCHANGED <<dvars, cvars>>
  PROVE  WorkMem'
<1> DEFINE r == teemem[p]
<1>0. /\ r # NULL /\ r.at = "tz" /\ r.op \in Ops /\ WorkMemReq(p) /\ MemReq(p) /\ MemObject(p)
      /\ UNCHANGED <<tee_contexts, tee_memories, memory, context>>
  BY TaskEffect DEF TypeInv, Requests, MemInv, WorkMem, dvars, cvars
<1>3. CASE r.op \notin {"reg", "rel", "invoke"}
  <2>1. /\ teemem'[p] # NULL /\ teemem'[p].op = r.op
        /\ \A q \in Processes : q # p => teemem'[q] = teemem[q]
        /\ UNCHANGED tee_memory_list
    <3>1. CASE InitTz(p)
      BY <3>1 DEF InitTz, Became
    <3>2. CASE FinTz(p)
      BY <3>2 DEF FinTz, Became
    <3>3. CASE OpenTz(p)
      BY <3>3 DEF OpenTz, Became
    <3>4. CASE CloseTz(p)
      BY <3>4 DEF CloseTz, Became, Still, svars
    <3> QED
      BY <1>0, <1>3, <3>1, <3>2, <3>3, <3>4, TaskEffect DEF Ops
  <2> QED
    BY <1>0, <1>3, <2>1, WorkMemOther
<1>4. CASE r.op = "reg" /\ RegTz(p)
  <2>1. ASSUME NEW ret, NEW memid,
               Became(p, "post", ret, r.context, r.session, r.tmpid, memid, r.paddr, r.by),
               tee_memory_list \subseteq tee_memory_list',
               ret = OK => \E g \in tee_memory_list' : g.id = memid
        PROVE  WorkMem'
    <3>1. /\ teemem'[p] # NULL /\ teemem'[p].op = "reg" /\ teemem'[p].at = "post" /\ teemem'[p].c = r.c
          /\ teemem'[p].ret = ret /\ teemem'[p].memid = memid
          /\ \A q \in Processes : q # p => teemem'[q] = teemem[q]
      BY <1>4, <2>1 DEF Became
    <3>2. r.c \in Contexts
      BY <1>0, <1>4 DEF WorkMemReq
    <3>3. WorkMemReq(p)'
      BY <2>1, <3>1, <3>2 DEF WorkMemReq, Is
    <3> QED
      BY <1>0, <2>1, <3>1, <3>3, WorkMemQuiet
  <2>2. CASE /\ tee_memory_list' = tee_memory_list \cup {[id |-> ids + 1, ctx |-> r.context, paddr |-> r.paddr]}
             /\ Became(p, "post", OK, r.context, r.session, r.tmpid, ids + 1, r.paddr, r.by)
    <3> DEFINE new == [id |-> ids + 1, ctx |-> r.context, paddr |-> r.paddr]
    <3>0. tee_memory_list' = tee_memory_list \cup {new} /\ new.id = ids + 1
      BY <2>2
    <3> HIDE DEF new
    <3>1. tee_memory_list \subseteq tee_memory_list' /\ \E g \in tee_memory_list' : g.id = ids + 1
      BY <3>0
    <3> QED
      BY <2>1, <2>2, <3>1
  <2>3. CASE /\ UNCHANGED tee_memory_list
             /\ Became(p, "post", REFUSED, r.context, r.session, r.tmpid, r.memid, r.paddr, r.by)
    <3>1. REFUSED # OK
      BY DEF REFUSED, OK
    <3> QED
      BY <2>1, <2>3, <3>1
  <2> QED
    BY <1>4, <2>2, <2>3 DEF RegTz
<1>5. CASE r.op = "rel" /\ RelTz(p)
  <2>1. PICK ret \in Results :
          /\ tee_memory_list' = {g \in tee_memory_list : g.id # r.memid}
          /\ Became(p, "post", ret, r.context, r.session, r.tmpid, r.memid, r.paddr, r.by)
    BY <1>5 DEF RelTz
  <2>2. /\ teemem'[p] # NULL /\ teemem'[p].op = "rel" /\ teemem'[p].user = r.user
        /\ \A q \in Processes : q # p => teemem'[q] = teemem[q]
    BY <1>5, <2>1 DEF Became
  <2>3. r.user \in {p} \X Memories /\ Holds(r.memid, r.user) /\ memory[p][r.user[2]] = Closed
    BY <1>0, <1>5 DEF MemReq, WorkMemReq, Is
  <2>4. PICK d \in tee_memories : d.tz_id = r.memid /\ d.user = r.user /\ r.memid # 0
    BY <2>3 DEF Holds
  <2>5. WorkMemReq(p)'
    BY <1>0, <2>2, <2>3 DEF WorkMemReq, Is
  <2>6. MemKept(p)
    BY <1>0, <2>1, <2>2, <2>3, <2>4 DEF MemKept
  <2>7. MemFollow'
    BY <1>0 DEF MemFollow, WorkMem
  <2>8. MemBacked(p)'
    <3>1. SUFFICES ASSUME NEW m \in Memories, memory[p][m] # Closed
                   PROVE  /\ memory[p][m].c \in Contexts /\ Backed(memory[p][m].id)'
                          /\ \E c \in Contexts : context[p][c] # 0
      BY <1>0 DEF MemBacked
    <3>2. /\ memory[p][m].c \in Contexts /\ Backed(memory[p][m].id)
          /\ \E c \in Contexts : context[p][c] # 0
      BY <3>1 DEF WorkMem
    <3>3. PICK e \in tee_memories : e.id = memory[p][m].id /\ e.tz_id # 0 /\ \E g \in tee_memory_list : g.id = e.tz_id
      BY <3>2 DEF Backed
    <3>4. e.user = <<p, m>> /\ m # r.user[2]
      BY <1>0, <2>3, <3>1, <3>3 DEF MemObject, Mine
    <3>5. e.tz_id # r.memid
      <4>1. \A x, y \in tee_memories : x.tz_id = y.tz_id /\ y.tz_id # 0 => x = y
        BY DEF MemInv, MemTable
      <4> QED
        BY <2>4, <3>3, <3>4, <4>1
    <3> QED
      BY <1>0, <2>1, <3>2, <3>3, <3>5 DEF Backed
  <2> QED
    BY <2>5, <2>6, <2>7, <2>8, WorkMemStep
<1>6. CASE r.op = "invoke" /\ InvokeTz(p)
  <2>1. /\ teemem'[p] # NULL /\ teemem'[p].op = "invoke" /\ teemem'[p].at = "post" /\ teemem'[p].m = r.m
        /\ teemem'[p].memid = r.memid
        /\ \A q \in Processes : q # p => teemem'[q] = teemem[q]
        /\ UNCHANGED tee_memory_list
    BY <1>6 DEF InvokeTz, Became, Still, svars
  <2>2. r.m # NULL => /\ memory[p][r.m] # Closed
                      /\ \E e \in tee_memories : e.id = memory[p][r.m].id /\ e.tz_id = r.memid
    BY <1>0, <1>6 DEF WorkMemReq, Is
  <2>3. WorkMemReq(p)'
    BY <1>0, <2>1, <2>2 DEF WorkMemReq, Is
  <2> QED
    BY <1>0, <2>1, <2>3, WorkMemQuiet
<1> QED
  BY <1>3, <1>4, <1>5, <1>6, TaskEffect

\* The hooks after the secure world: memory that is registered is in both
\* tables, and the memory they take away belongs to no object of the client.
LEMMA WorkMemPost ==
  ASSUME TypeInv, TypeInv', CtxInv, MemInv, WorkCtx, WorkMem, NEW p \in Processes, tee_process_post(p),
         UNCHANGED cvars
  PROVE  WorkMem'
<1> DEFINE r == teemem[p]
<1>a. UNCHANGED <<tee_memory_list, memory, context>>
  BY DEF tee_process_post, svars, cvars
<1>0. /\ r # NULL /\ r.at = "post" /\ r.op \in Ops /\ WorkMemReq(p) /\ MemReq(p) /\ MemObject(p) /\ WorkCtxReq(p)
  BY PostEffect DEF TypeInv, Requests, MemInv, WorkMem, WorkCtx
<1>1. CASE Stopped(p)
  BY <1>0, <1>1, WorkMemStopped
<1>2. /\ \A e \in tee_memories : e.id \in 1..ids /\ e.obj = e.id
      /\ \A d, e \in tee_memories : d.obj = e.obj \/ (d.tz_id = e.tz_id /\ e.tz_id # 0) => d = e
      /\ \A e \in tee_memories, x \in tee_contexts : x.obj = e.ctx => x.id = e.user[1]
      /\ MemFollow
  BY DEF MemInv, MemTable, WorkMem, MemFollow
<1>3. CASE r.op \in {"init", "open", "close"}
  <2>1. CASE ~Stopped(p)
    <3>1. /\ teemem'[p] # NULL /\ teemem'[p].op = r.op
          /\ \A q \in Processes : q # p => teemem'[q] = teemem[q]
          /\ tee_contexts \subseteq tee_contexts' /\ UNCHANGED tee_memories
      <4>1. CASE InitPost(p)
        BY <1>0, <4>1 DEF InitPost, Became
      <4>3. CASE OpenPost(p)
        BY <1>0, <2>1, <4>3 DEF OpenPost, Became
      <4>4. CASE ClosePost(p)
        BY <1>0, <2>1, <4>4 DEF ClosePost, Became
      <4> QED
        BY <1>0, <1>3, <4>1, <4>3, <4>4, PostEffect DEF Ops
    <3> QED
      BY <1>0, <1>a, <1>3, <3>1, WorkMemOther
  <2> QED
    BY <1>1, <2>1
<1>4. CASE r.op = "fin" /\ FinPost(p)
  <2>1. PICK d \in tee_contexts : d.id = p /\ d.tz_id = r.context
    BY <1>0, <1>4 DEF WorkCtxReq, Is
  <2>2. PICK e \in tee_contexts, at \in {"back", "oops"}, context1 \in {0, r.context} :
          /\ e.tz_id = r.context
          /\ \/ tee_contexts' = tee_contexts /\ tee_memories' = tee_memories
             \/ /\ tee_contexts' \in {tee_contexts, tee_contexts \ {e}}
                /\ tee_memories' = {x \in tee_memories : x.ctx # e.obj}
          /\ Became(p, at, r.ret, context1, r.session, r.tmpid, r.memid, r.paddr, r.by)
    BY <1>4, <2>1 DEF FinPost, NoTzContext
  <2>3. e.id = p
    BY <2>1, <2>2 DEF CtxInv, WorkCtx
  <2>4. /\ teemem'[p] # NULL /\ teemem'[p].op = "fin"
        /\ \A q \in Processes : q # p => teemem'[q] = teemem[q]
    BY <1>4, <2>2 DEF Became
  <2>5. WorkMemReq(p)'
    BY <2>4 DEF WorkMemReq, Is
  <2>6. MemFollow'
    BY <1>2, <2>2 DEF MemFollow
  <2>7. MemBacked(p)'
    BY <1>0, <1>a, <1>4 DEF MemBacked, WorkCtxReq
  <2>8. \A x \in tee_memories : x.user[1] # p => x.ctx # e.obj
    BY <1>2, <2>2, <2>3
  <2>9. MemKept(p)
    BY <1>a, <2>2, <2>4, <2>8 DEF MemKept
  <2> QED
    BY <2>5, <2>6, <2>7, <2>9, WorkMemStep
<1>5. CASE r.op = "reg" /\ RegPost(p)
  <2>0. /\ r.m \in Memories /\ r.c \in Contexts /\ r.paddr \in Int /\ r.memid \in Int
        /\ \A e \in tee_memories : e.obj = r.paddr => e.user = <<p, r.m>> /\ e.tz_id = 0
        /\ NewMemory(p) \/ (r.memid = 0 /\ r.ret # OK)
        /\ r.ret = OK => \E g \in tee_memory_list : g.id = r.memid
    BY <1>0, <1>5 DEF MemReq, WorkMemReq, Is
  <2>1. ASSUME NEW mem \in tee_memories, mem.obj = r.paddr,
               tee_memories' = WithTzid(tee_memories, r.paddr, r.memid),
               Became(p, "back", r.ret, r.context, r.session, r.tmpid, mem.id, r.paddr, r.by),
               UNCHANGED tee_contexts
        PROVE  WorkMem'
    <3>1. /\ \A x \in tee_memories' :
               \/ x \in tee_memories /\ x.obj # r.paddr
               \/ x.obj = r.paddr /\ x.id = mem.id /\ x.ctx = mem.ctx /\ x.user = mem.user /\ x.tz_id = r.memid
          /\ \A e \in tee_memories : e.obj # r.paddr => e \in tee_memories'
          /\ \E x \in tee_memories' : x.id = mem.id /\ x.tz_id = r.memid
      BY <1>2, <2>0, <2>1, WithTzidMemory, SMTT(30)
    <3>2. /\ teemem'[p] # NULL /\ teemem'[p].op = "reg" /\ teemem'[p].at = "back" /\ teemem'[p].memid = mem.id
          /\ teemem'[p].c = r.c /\ teemem'[p].ret = r.ret
          /\ \A q \in Processes : q # p => teemem'[q] = teemem[q]
      BY <1>5, <2>1 DEF Became
    <3>3. MemFollow'
      BY <1>2, <2>1, <3>1 DEF MemFollow
    <3>4. \A e \in tee_memories : e.tz_id # 0 => e \in tee_memories'
      BY <2>0, <3>1
    <3>5. MemBacked(p)'
      <4>1. SUFFICES ASSUME NEW m \in Memories, memory[p][m] # Closed
                     PROVE  /\ memory[p][m].c \in Contexts /\ Backed(memory[p][m].id)'
                            /\ \E c \in Contexts : context[p][c] # 0
        BY <1>a DEF MemBacked
      <4>2. /\ memory[p][m].c \in Contexts /\ Backed(memory[p][m].id)
            /\ \E c \in Contexts : context[p][c] # 0
        BY <4>1 DEF WorkMem
      <4> QED
        BY <1>a, <3>4, <4>2 DEF Backed
    <3>6. MemKept(p)
      BY <1>a, <3>2, <3>4 DEF MemKept
    <3>7. r.ret = OK => \E x \in tee_memories' : /\ x.id = teemem'[p].memid /\ x.tz_id # 0
                                                /\ \E g \in tee_memory_list' : g.id = x.tz_id
      <4>1. r.ret = OK => r.memid # 0
        BY <2>0 DEF NewMemory
      <4> QED
        BY <1>a, <2>0, <3>1, <3>2, <4>1
    <3>8. WorkMemReq(p)'
      BY <2>0, <3>2, <3>7 DEF WorkMemReq, Is, Backed
    <3> QED
      BY <3>3, <3>5, <3>6, <3>8, WorkMemStep
  <2> QED
    BY <1>1, <1>5, <2>1 DEF RegPost
<1>6. CASE r.op = "rel" /\ RelPost(p)
  <2>1. ASSUME NEW mem \in tee_memories, mem.tz_id = r.memid, tee_memories' = tee_memories \ {mem},
               Became(p, "back", r.ret, r.context, r.session, r.tmpid, r.memid, r.paddr, r.by),
               UNCHANGED tee_contexts
        PROVE  WorkMem'
    <3>1. r.user \in {p} \X Memories /\ Holds(r.memid, r.user) /\ memory[p][r.user[2]] = Closed
      BY <1>0, <1>6 DEF MemReq, WorkMemReq, Is
    <3>2. mem.user = r.user
      BY <1>2, <2>1, <3>1 DEF Holds
    <3>3. /\ teemem'[p] # NULL /\ teemem'[p].op = "rel" /\ teemem'[p].user = r.user
          /\ \A q \in Processes : q # p => teemem'[q] = teemem[q]
      BY <1>6, <2>1 DEF Became
    <3>4. WorkMemReq(p)'
      BY <1>a, <3>1, <3>3 DEF WorkMemReq, Is
    <3>5. MemFollow'
      BY <1>2, <2>1 DEF MemFollow
    <3>6. MemKept(p)
      BY <1>a, <2>1, <3>1, <3>2, <3>3 DEF MemKept
    <3>7. MemBacked(p)'
      <4>1. SUFFICES ASSUME NEW m \in Memories, memory[p][m] # Closed
                     PROVE  /\ memory[p][m].c \in Contexts /\ Backed(memory[p][m].id)'
                            /\ \E c \in Contexts : context[p][c] # 0
        BY <1>a DEF MemBacked
      <4>2. /\ memory[p][m].c \in Contexts /\ Backed(memory[p][m].id)
            /\ \E c \in Contexts : context[p][c] # 0
        BY <4>1 DEF WorkMem
      <4>3. PICK e \in tee_memories : e.id = memory[p][m].id /\ e.tz_id # 0 /\ \E g \in tee_memory_list : g.id = e.tz_id
        BY <4>2 DEF Backed
      <4>4. e.user = <<p, m>> /\ m # r.user[2]
        BY <1>0, <3>1, <4>1, <4>3 DEF MemObject, Mine
      <4>5. e # mem
        BY <3>2, <4>4
      <4> QED
        BY <1>a, <2>1, <4>2, <4>3, <4>5 DEF Backed
    <3> QED
      BY <3>4, <3>5, <3>6, <3>7, WorkMemStep
  <2> QED
    BY <1>1, <1>6, <2>1 DEF RelPost
<1>7. CASE r.op = "invoke" /\ InvokePost(p)
  <2>1. CASE ~Stopped(p)
    <3>1. /\ teemem'[p] # NULL /\ teemem'[p].op = "invoke" /\ teemem'[p].at = "back"
          /\ \A q \in Processes : q # p => teemem'[q] = teemem[q]
          /\ UNCHANGED <<tee_contexts, tee_memories>>
      BY <1>7, <2>1 DEF InvokePost, Became
    <3>2. WorkMemReq(p)'
      BY <3>1 DEF WorkMemReq, Is
    <3> QED
      BY <1>a, <3>1, <3>2, WorkMemQuiet
  <2> QED
    BY <1>1, <2>1
<1> QED
  BY <1>3, <1>4, <1>5, <1>6, <1>7, PostEffect

\* The calls of the client.
LEMMA WorkMemCalls ==
  ASSUME TypeInv, TypeInv', MemInv, WorkMem, \A c, d \in Contexts : c = d, NEW p \in Processes, Calls(p)
  PROVE  WorkMem'
<1>1. ASSUME NEW op, NEW context1, NEW session1, NEW memid, NEW user, NEW tmp, NEW c, NEW s, NEW m,
             Began(p, op, context1, session1, memid, user, tmp, c, s, m),
             \A q \in Processes : q # p => context'[q] = context[q] /\ memory'[q] = memory[q],
             op = "fin" => \A d \in Memories : memory'[p][d] = Closed,
             op # "fin" => context'[p] = context[p],
             \A d \in Memories : memory'[p][d] \in {memory[p][d], Closed},
             op = "reg" => c \in Contexts,
             op = "rel" => memory'[p][user[2]] = Closed,
             op = "invoke" /\ m # NULL => memory'[p][m] # Closed /\ memid = memory'[p][m].id
      PROVE  WorkMem'
  <2>1. /\ teemem'[p] # NULL /\ teemem'[p].op = op /\ teemem'[p].at = "pre" /\ teemem'[p].c = c
        /\ teemem'[p].memid = memid /\ teemem'[p].m = m /\ teemem'[p].user = user
        /\ \A q \in Processes : q # p => teemem'[q] = teemem[q]
        /\ UNCHANGED <<tee_contexts, tee_memories, tee_memory_list>>
    BY <1>1 DEF Began, svars, dvars
  <2>2. MemFollow'
    BY <2>1 DEF MemFollow, WorkMem
  <2>3. MemBacked(p)'
    <3>1. SUFFICES ASSUME NEW d \in Memories, memory'[p][d] # Closed
                   PROVE  /\ memory'[p][d].c \in Contexts
                          /\ \E e \in tee_memories : /\ e.id = memory'[p][d].id /\ e.tz_id # 0
                                                     /\ \E g \in tee_memory_list : g.id = e.tz_id
                          /\ \E x \in Contexts : context'[p][x] # 0
      BY <2>1 DEF MemBacked, Backed
    <3>2. memory'[p][d] = memory[p][d] /\ context'[p] = context[p]
      BY <1>1, <3>1
    <3> QED
      BY <3>1, <3>2 DEF WorkMem, Backed
  <2>4. MemKept(p)
    BY <1>1, <2>1 DEF MemKept
  <2>5. WorkMemReq(p)'
    BY <1>1, <2>1 DEF WorkMemReq, Is
  <2> QED
    BY <2>2, <2>3, <2>4, <2>5, WorkMemStep
<1>2. \A m \in Memories : memory[p][m] # Closed => memory[p][m].c \in Contexts
  BY DEF WorkMem
<1>4. CASE BeginInit(p)
  BY <1>1, <1>4 DEF BeginInit, cvars
<1>5. CASE BeginFin(p)
  <2>1. PICK c \in Contexts :
          /\ Began(p, "fin", context[p][c], 0, 0, NULL, 0, c, NULL, NULL)
          /\ context' = [context EXCEPT ![p][c] = 0]
          /\ memory' = [memory EXCEPT ![p] = [m \in Memories |-> IF @[m].c = c THEN Closed ELSE @[m]]]
    BY <1>5 DEF BeginFin
  <2>2. \A q \in Processes : q # p => context'[q] = context[q] /\ memory'[q] = memory[q]
    BY <2>1 DEF TypeInv
  <2>3. \A d \in Memories : memory'[p][d] = Closed
    <3>1. \A d \in Memories : memory'[p][d] = IF memory[p][d].c = c THEN Closed ELSE memory[p][d]
      BY <2>1 DEF TypeInv
    <3> QED
      BY <1>2, <3>1
  <2> QED
    BY <1>1, <2>1, <2>2, <2>3
<1>6. CASE BeginReg(p)
  BY <1>1, <1>6 DEF BeginReg, cvars
<1>7. CASE BeginRel(p)
  <2>1. PICK m \in Memories :
          /\ Began(p, "rel", 0, 0, memory[p][m].id, <<p, m>>, 0, NULL, NULL, NULL)
          /\ memory' = [memory EXCEPT ![p][m] = Closed]
          /\ UNCHANGED context
    BY <1>7 DEF BeginRel
  <2>2. /\ \A q \in Processes : q # p => memory'[q] = memory[q]
        /\ \A d \in Memories : memory'[p][d] \in {memory[p][d], Closed}
        /\ memory'[p][<<p, m>>[2]] = Closed
    BY <2>1 DEF TypeInv
  <2> QED
    BY <1>1, <2>1, <2>2
<1>8. CASE BeginOpen(p)
  BY <1>1, <1>8 DEF BeginOpen, cvars
<1>9. CASE BeginClose(p)
  BY <1>1, <1>9 DEF BeginClose
<1>10. CASE BeginInvoke(p)
  BY <1>1, <1>10 DEF BeginInvoke, cvars
<1> QED
  BY <1>4, <1>5, <1>6, <1>7, <1>8, <1>9, <1>10, CallEffect

\* The client library keeps the memory of a call that succeeded.
LEMMA WorkMemReturn ==
  ASSUME TypeInv, TypeInv', MemInv, WorkCtx, WorkMem, NEW p \in Processes, TEEC_return(p)
  PROVE  WorkMem'
<1> DEFINE r == teemem[p]
<1>1. /\ r # NULL /\ r \in Requests /\ r.at = "back" /\ teemem'[p] = NULL
      /\ \A q \in Processes : q # p => teemem'[q] = teemem[q]
      /\ \A q \in Processes, c \in Contexts :
           context'[q][c] = IF q = p /\ r.op = "init" /\ r.ret = OK /\ c = r.c THEN r.context ELSE context[q][c]
      /\ \A q \in Processes, m \in Memories :
           memory'[q][m] = IF q = p /\ r.op = "reg" /\ r.ret = OK /\ m = r.m
                           THEN [id |-> r.memid, c |-> r.c] ELSE memory[q][m]
      /\ UNCHANGED <<tee_contexts, tee_memories, tee_memory_list>>
  BY ReturnEffect DEF svars, dvars
<1>2. WorkCtxReq(p) /\ WorkMemReq(p)
  BY DEF WorkCtx, WorkMem
<1>3. \A q \in Processes : q # p => context'[q] = context[q] /\ memory'[q] = memory[q]
  BY <1>1 DEF TypeInv
<1>4. MemKept(p)
  BY <1>1, <1>3 DEF MemKept
<1>5. MemFollow' /\ WorkMemReq(p)'
  BY <1>1 DEF MemFollow, WorkMem, WorkMemReq
<1>6. MemBacked(p)'
  <2>1. SUFFICES ASSUME NEW d \in Memories, memory'[p][d] # Closed
                 PROVE  /\ memory'[p][d].c \in Contexts
                        /\ \E e \in tee_memories : /\ e.id = memory'[p][d].id /\ e.tz_id # 0
                                                   /\ \E g \in tee_memory_list : g.id = e.tz_id
                        /\ \E x \in Contexts : context'[p][x] # 0
    BY <1>1 DEF MemBacked, Backed
  <2>2. CASE r.op = "reg" /\ r.ret = OK /\ d = r.m
    <3>1. Backed(r.memid) /\ r.c \in Contexts /\ \E x \in Contexts : context[p][x] # 0
      BY <1>1, <1>2, <2>2 DEF WorkMemReq, WorkCtxReq, Is
    <3>2. memory'[p][d].id = r.memid /\ memory'[p][d].c = r.c /\ \A x \in Contexts : context'[p][x] = context[p][x]
      BY <1>1, <2>2
    <3> QED
      BY <3>1, <3>2 DEF Backed
  <2>3. CASE ~(r.op = "reg" /\ r.ret = OK /\ d = r.m)
    <3>1. memory'[p][d] = memory[p][d]
      BY <1>1, <2>3
    <3>2. /\ memory[p][d].c \in Contexts /\ Backed(memory[p][d].id)
          /\ \E x \in Contexts : context[p][x] # 0
      BY <2>1, <3>1 DEF WorkMem
    <3>3. r.op # "init"
      BY <1>1, <1>2, <3>2 DEF WorkCtxReq
    <3>4. \A x \in Contexts : context'[p][x] = context[p][x]
      BY <1>1, <3>3
    <3> QED
      BY <3>1, <3>2, <3>4 DEF Backed
  <2> QED
    BY <2>2, <2>3
<1> QED
  BY <1>4, <1>5, <1>6, WorkMemStep

\* The temporary memory of a process is touched by its own calls only.
LEMMA WorkTmpStep ==
  ASSUME WorkTmp, NEW p \in Processes, TmpReq(p)',
         \A q \in Processes : q # p => /\ teemem'[q] = teemem[q]
                                       /\ tee_tmp_memories'[q]["invoke"] = tee_tmp_memories[q]["invoke"]
  PROVE  WorkTmp'
<1>1. ASSUME NEW q \in Processes, q # p PROVE TmpReq(q)'
  <2>1. TmpReq(q)
    BY DEF WorkTmp, TmpReq
  <2> QED
    BY <1>1, <2>1 DEF TmpReq, Is
<1> QED
  BY <1>1 DEF WorkTmp, TmpReq

\* A step of a call that is no command leaves the temporary memory alone.
LEMMA WorkTmpOther ==
  ASSUME WorkTmp, NEW p \in Processes, teemem[p] # NULL, teemem[p].op # "invoke",
         NEW at, NEW ret, NEW context1, NEW session1, NEW tmpid, NEW memid, NEW paddr, NEW by,
         Became(p, at, ret, context1, session1, tmpid, memid, paddr, by),
         \A q \in Processes : tee_tmp_memories'[q]["invoke"] = tee_tmp_memories[q]["invoke"]
  PROVE  WorkTmp'
<1>1. TmpReq(p)
  BY DEF WorkTmp, TmpReq
<1>2. TmpReq(p)'
  BY <1>1 DEF TmpReq, Is, Became
<1> QED
  BY <1>2, WorkTmpStep DEF Became

\* Without a fault a call that stops has taken no temporary memory.
LEMMA WorkTmpStopped ==
  ASSUME WorkTmp, ~Faults, NEW p \in Processes, teemem[p] # NULL, teemem[p].op # "invoke", Stopped(p)
  PROVE  WorkTmp'
<1>1. UNCHANGED tee_tmp_memories
  BY DEF Stopped
<1> QED
  BY <1>1, WorkTmpOther DEF Stopped, Gone

\* The session and the memory of a command that is on its way are in the
\* tables of both worlds.
LEMMA InvokeServed ==
  ASSUME TypeInv, SesInv, MemInv, WorkSes, WorkMem, NEW p \in Processes, teemem[p] # NULL, teemem[p].op = "invoke"
  PROVE  LET r == teemem[p] IN
         /\ r.at = "pre" => /\ \E e \in tee_sessions : e.id = r.session
                            /\ r.memid = 0 \/ \E e \in tee_memories : e.id = r.memid
         /\ r.at \in {"tz", "post"} => /\ \E e \in tee_sessions : e.tz_id = r.session
                                       /\ r.memid = 0 \/ \E e \in tee_memories : e.tz_id = r.memid
         /\ r.at = "tz" => /\ \E f \in tee_session_list : f.id = r.session
                           /\ r.memid = 0 \/ \E g \in tee_memory_list : g.id = r.memid
<1> DEFINE r == teemem[p]
<1>0. /\ SesReq(p) /\ MemReq(p) /\ WorkSesReq(p) /\ WorkMemReq(p)
  BY DEF SesInv, MemInv, WorkSes, WorkMem
<1>1. r.s \in Sessions /\ (r.memid = 0 \/ r.m # NULL) /\ (r.m # NULL => r.m \in Memories)
  BY <1>0 DEF SesReq, MemReq
<1>2. r.at = "pre" => session[p][r.s] # Closed /\ r.session = session[p][r.s].id
  BY <1>0 DEF SesReq, WorkSesReq, Is
<1>3. r.at \in {"tz", "post"} =>
        session[p][r.s] # Closed /\ \E e \in tee_sessions : e.id = session[p][r.s].id /\ e.tz_id = r.session
  BY <1>0 DEF WorkSesReq, Is
<1>4. r.m # NULL /\ r.at = "pre" => memory[p][r.m] # Closed /\ r.memid = memory[p][r.m].id
  BY <1>0 DEF WorkMemReq, Is
<1>5. r.m # NULL /\ r.at \in {"tz", "post"} =>
        memory[p][r.m] # Closed /\ \E e \in tee_memories : e.id = memory[p][r.m].id /\ e.tz_id = r.memid
  BY <1>0 DEF WorkMemReq, Is
<1>6. \A s \in Sessions : session[p][s] # Closed => Works(p, session[p][s].id)
  BY DEF WorkSes
<1>7. \A m \in Memories : memory[p][m] # Closed => Backed(memory[p][m].id)
  BY DEF WorkMem
<1>8. \A d, e \in tee_sessions : d.id = e.id => d = e
  BY DEF SesInv, WorkSes
<1>9. \A d, e \in tee_memories : d.id = e.id => d = e
  BY DEF MemInv, MemTable
<1>10. r.at = "pre" => /\ \E e \in tee_sessions : e.id = r.session
                       /\ r.memid = 0 \/ \E e \in tee_memories : e.id = r.memid
  BY <1>1, <1>2, <1>4, <1>6, <1>7 DEF Works, Backed
<1>11. r.at = "tz" => \E f \in tee_session_list : f.id = r.session
  BY <1>1, <1>3, <1>6, <1>8 DEF Works
<1>12. r.at = "tz" => r.memid = 0 \/ \E g \in tee_memory_list : g.id = r.memid
  BY <1>1, <1>5, <1>7, <1>9 DEF Backed
<1> QED
  BY <1>1, <1>3, <1>5, <1>10, <1>11, <1>12

\* A command finds its session and its memory, so its temporary memory is
\* there while it is in the secure world and given back after it.
LEMMA WorkTmpPre ==
  ASSUME TypeInv, SesInv, MemInv, WorkSes, WorkMem, WorkTmp, ~Faults, NEW p \in Processes, tee_process_pre(p),
         UNCHANGED cvars
  PROVE  WorkTmp'
<1> DEFINE r == teemem[p]
<1>0. /\ r # NULL /\ r.at = "pre" /\ r \in Requests /\ TmpReq(p)
      /\ tee_tmp_memories \in [Processes -> [{"open", "invoke"} -> Int]]
  BY PreEffect DEF WorkTmp, TmpReq, TypeInv
<1>1. CASE r.op # "invoke"
  <2>1. CASE Stopped(p)
    BY <1>0, <1>1, <2>1, WorkTmpStopped
  <2>2. CASE ~Stopped(p)
    <3>1. CASE InitPre(p)
      BY <1>0, <1>1, <3>1, WorkTmpOther DEF InitPre, Still, dvars
    <3>2. CASE FinPre(p)
      BY <1>0, <1>1, <2>2, <3>2, WorkTmpOther DEF FinPre, Still, dvars
    <3>3. CASE RegPre(p)
      BY <1>0, <1>1, <2>2, <3>3, WorkTmpOther DEF RegPre
    <3>4. CASE RelPre(p)
      BY <1>0, <1>1, <2>2, <3>4, WorkTmpOther DEF RelPre, Still, dvars
    <3>5. CASE OpenPre(p)
      BY <1>0, <1>1, <2>2, <3>5, WorkTmpOther DEF OpenPre, Gone
    <3>6. CASE ClosePre(p)
      BY <1>0, <1>1, <2>2, <3>6, WorkTmpOther DEF ClosePre, Still, dvars
    <3> QED
      BY <1>1, <3>1, <3>2, <3>3, <3>4, <3>5, <3>6, PreEffect
  <2> QED
    BY <2>1, <2>2
<1>2. CASE r.op = "invoke" /\ InvokePre(p)
  <2>1. /\ \E e \in tee_sessions : e.id = r.session
        /\ r.memid = 0 \/ \E e \in tee_memories : e.id = r.memid
    BY <1>0, <1>2, InvokeServed
  <2>2. PICK session1, memid :
          /\ Became(p, "tz", r.ret, r.context, session1, r.tmpid, memid, r.paddr, r.by)
          /\ tee_tmp_memories' = [tee_tmp_memories EXCEPT ![p]["invoke"] = @ + r.tmp]
    BY <1>2, <2>1 DEF InvokePre, NoParameter
  <2>3. r.tmp \in Int /\ r.ret = OK /\ tee_tmp_memories[p]["invoke"] = 0
    BY <1>0, <1>2 DEF Requests, Temporaries, TmpReq, Is
  <2>4. /\ \A q \in Processes : q # p => teemem'[q] = teemem[q] /\ tee_tmp_memories'[q] = tee_tmp_memories[q]
        /\ tee_tmp_memories'[p]["invoke"] = r.tmp /\ teemem'[p] # NULL /\ teemem'[p].op = "invoke" /\ teemem'[p].at = "tz"
        /\ teemem'[p].tmp = r.tmp /\ teemem'[p].ret = OK
    BY <1>0, <1>2, <2>2, <2>3 DEF Became
  <2>5. TmpReq(p)'
    BY <2>4 DEF TmpReq, Is
  <2> QED
    BY <2>4, <2>5, WorkTmpStep
<1> QED
  BY <1>1, <1>2, PreEffect

\* The TEE task executes the command: it knows the session and the memory.
LEMMA WorkTmpTask ==
  ASSUME TypeInv, SesInv, MemInv, WorkSes, WorkMem, WorkTmp, NEW p \in Processes, tee_task(p),
         UNCHANGED <<dvars, cvars>>
  PROVE  WorkTmp'
<1> DEFINE r == teemem[p]
<1>0. /\ r # NULL /\ r.at = "tz" /\ TmpReq(p) /\ UNCHANGED tee_tmp_memories
  BY TaskEffect DEF WorkTmp, TmpReq, dvars
<1>1. CASE r.op # "invoke"
  <2>1. CASE InitTz(p)
    BY <1>0, <1>1, <2>1, WorkTmpOther DEF InitTz
  <2>2. CASE FinTz(p)
    BY <1>0, <1>1, <2>2, WorkTmpOther DEF FinTz
  <2>3. CASE RegTz(p)
    BY <1>0, <1>1, <2>3, WorkTmpOther DEF RegTz
  <2>4. CASE RelTz(p)
    BY <1>0, <1>1, <2>4, WorkTmpOther DEF RelTz
  <2>5. CASE OpenTz(p)
    BY <1>0, <1>1, <2>5, WorkTmpOther DEF OpenTz
  <2>6. CASE CloseTz(p)
    BY <1>0, <1>1, <2>6, WorkTmpOther DEF CloseTz
  <2> QED
    BY <1>1, <2>1, <2>2, <2>3, <2>4, <2>5, <2>6, TaskEffect
<1>2. CASE r.op = "invoke" /\ InvokeTz(p)
  <2>1. /\ \E f \in tee_session_list : f.id = r.session
        /\ r.memid = 0 \/ \E g \in tee_memory_list : g.id = r.memid
    BY <1>0, <1>2, InvokeServed
  <2>2. PICK paddr, by : Became(p, "post", OK, r.context, r.session, r.tmpid, r.memid, paddr, by)
    BY <1>2, <2>1 DEF InvokeTz
  <2>3. /\ \A q \in Processes : q # p => teemem'[q] = teemem[q]
        /\ teemem'[p] # NULL /\ teemem'[p].op = "invoke" /\ teemem'[p].at = "post"
        /\ teemem'[p].tmp = r.tmp /\ teemem'[p].ret = OK
    BY <1>2, <2>2 DEF Became
  <2>4. TmpReq(p)'
    BY <1>0, <1>2, <2>3 DEF TmpReq, Is
  <2> QED
    BY <1>0, <2>3, <2>4, WorkTmpStep
<1> QED
  BY <1>1, <1>2, TaskEffect

\* tee_invoke_post finds both again, and gives the temporary memory back.
LEMMA WorkTmpPost ==
  ASSUME TypeInv, SesInv, MemInv, WorkSes, WorkMem, WorkTmp, ~Faults, NEW p \in Processes, tee_process_post(p),
         UNCHANGED cvars
  PROVE  WorkTmp'
<1> DEFINE r == teemem[p]
<1>0. /\ r # NULL /\ r.at = "post" /\ r \in Requests /\ TmpReq(p)
      /\ tee_tmp_memories \in [Processes -> [{"open", "invoke"} -> Int]]
  BY PostEffect DEF WorkTmp, TmpReq, TypeInv
<1>1. CASE r.op # "invoke"
  <2>1. CASE Stopped(p)
    BY <1>0, <1>1, <2>1, WorkTmpStopped
  <2>2. CASE ~Stopped(p)
    <3>1. CASE InitPost(p)
      BY <1>0, <1>1, <3>1, WorkTmpOther DEF InitPost
    <3>2. CASE FinPost(p)
      BY <1>0, <1>1, <3>2, WorkTmpOther DEF FinPost, Still, dvars
    <3>3. CASE RegPost(p)
      BY <1>0, <1>1, <2>2, <3>3, WorkTmpOther DEF RegPost
    <3>4. CASE RelPost(p)
      BY <1>0, <1>1, <2>2, <3>4, WorkTmpOther DEF RelPost
    <3>5. CASE OpenPost(p)
      BY <1>0, <1>1, <2>2, <3>5, WorkTmpOther DEF OpenPost
    <3>6. CASE ClosePost(p)
      BY <1>0, <1>1, <2>2, <3>6, WorkTmpOther DEF ClosePost
    <3> QED
      BY <1>1, <3>1, <3>2, <3>3, <3>4, <3>5, <3>6, PostEffect
  <2> QED
    BY <2>1, <2>2
<1>2. CASE r.op = "invoke" /\ InvokePost(p)
  <2>1. /\ \E e \in tee_sessions : e.tz_id = r.session
        /\ r.memid = 0 \/ \E e \in tee_memories : e.tz_id = r.memid
    BY <1>0, <1>2, InvokeServed
  <2>2. PICK session1, memid :
          /\ Became(p, "back", r.ret, r.context, session1, r.tmpid, memid, r.paddr, r.by)
          /\ tee_tmp_memories' = [tee_tmp_memories EXCEPT ![p]["invoke"] = @ - r.tmp]
    BY <1>2, <2>1 DEF InvokePost
  <2>3. r.tmp \in Int /\ r.ret = OK /\ tee_tmp_memories[p]["invoke"] = r.tmp
    BY <1>0, <1>2 DEF Requests, Temporaries, TmpReq, Is
  <2>4. /\ \A q \in Processes : q # p => teemem'[q] = teemem[q] /\ tee_tmp_memories'[q] = tee_tmp_memories[q]
        /\ tee_tmp_memories'[p]["invoke"] = 0 /\ teemem'[p] # NULL /\ teemem'[p].op = "invoke" /\ teemem'[p].at = "back"
        /\ teemem'[p].ret = OK
    BY <1>0, <1>2, <2>2, <2>3 DEF Became
  <2>5. TmpReq(p)'
    BY <2>4 DEF TmpReq, Is
  <2> QED
    BY <2>4, <2>5, WorkTmpStep
<1> QED
  BY <1>1, <1>2, PostEffect

\* A call begins and ends without temporary memory.
LEMMA WorkTmpCalls ==
  ASSUME TypeInv, WorkTmp, NEW p \in Processes, Calls(p) \/ TEEC_return(p)
  PROVE  WorkTmp'
<1>0. TmpReq(p)
  BY DEF WorkTmp, TmpReq
<1>1. CASE Calls(p)
  <2>1. ASSUME NEW op, NEW context1, NEW session1, NEW memid, NEW user, NEW tmp, NEW c, NEW s, NEW m,
               Began(p, op, context1, session1, memid, user, tmp, c, s, m)
        PROVE  WorkTmp'
    <3>1. /\ teemem[p] = NULL /\ teemem'[p] # NULL /\ teemem'[p].at = "pre" /\ teemem'[p].ret = OK
          /\ \A q \in Processes : q # p => teemem'[q] = teemem[q]
          /\ UNCHANGED tee_tmp_memories
      BY <2>1 DEF Began, dvars
    <3>2. TmpReq(p)'
      BY <1>0, <3>1 DEF TmpReq, Is
    <3> QED
      BY <3>1, <3>2, WorkTmpStep
  <2> QED
    BY <1>1, <2>1, CallEffect DEF BeginInit, BeginFin, BeginReg, BeginRel, BeginOpen, BeginClose, BeginInvoke
<1>2. CASE TEEC_return(p)
  <2>1. /\ teemem[p].at = "back" /\ teemem'[p] = NULL
        /\ \A q \in Processes : q # p => teemem'[q] = teemem[q]
        /\ UNCHANGED tee_tmp_memories
    BY <1>2, ReturnEffect DEF dvars
  <2>2. TmpReq(p)'
    BY <1>0, <2>1 DEF TmpReq, Is
  <2> QED
    BY <2>1, <2>2, WorkTmpStep
<1> QED
  BY <1>1, <1>2

\* All that is known of the handles of careful clients.
WorkInv == WorkCtx /\ WorkSes /\ WorkMem /\ WorkTmp

\* It holds at first.
LEMMA WorkInit ==
  Init => WorkInv
<1>1. SUFFICES ASSUME Init PROVE WorkInv
  OBVIOUS
<1>2. /\ tee_contexts = {} /\ tee_sessions = {} /\ tee_memories = {}
      /\ \A p \in Processes : /\ teemem[p] = NULL /\ tee_tmp_memories[p]["invoke"] = 0
                              /\ \A c \in Contexts : context[p][c] = 0
                              /\ \A s \in Sessions : session[p][s] = Closed
                              /\ \A m \in Memories : memory[p][m] = Closed
  BY <1>1 DEF Init
<1>3. WorkCtx
  BY <1>2 DEF WorkCtx, Opened, WorkCtxReq
<1>4. WorkSes
  BY <1>2 DEF WorkSes, WorkSesReq
<1>5. WorkMem
  BY <1>2 DEF WorkMem, WorkMemReq
<1>6. WorkTmp
  BY <1>2 DEF WorkTmp, TmpReq, Is
<1> QED
  BY <1>3, <1>4, <1>5, <1>6 DEF WorkInv

\* A stuttering step.
LEMMA WorkStutter ==
  ASSUME WorkInv, UNCHANGED vars
  PROVE  WorkInv'
<1>1. /\ UNCHANGED <<tee_context_list, tee_session_list, tee_memory_list, teemem, ids, tee_contexts, tee_sessions,
                     tee_memories, tee_tmp_memories, context, session, memory>>
  BY DEF vars, svars, dvars, cvars
<1>2. WorkCtx'
  BY <1>1 DEF WorkInv, WorkCtx, Opened, WorkCtxReq, Is
<1>3. WorkSes'
  BY <1>1 DEF WorkInv, WorkSes, WorkSesReq, Works, Of, NewTz, Is
<1>4. WorkMem'
  BY <1>1 DEF WorkInv, WorkMem, WorkMemReq, Backed, Is
<1>5. WorkTmp'
  BY <1>1 DEF WorkInv, WorkTmp, TmpReq, Is
<1> QED
  BY <1>2, <1>3, <1>4, <1>5 DEF WorkInv

\* Every step of careful clients keeps it, part by part.
LEMMA WorkNext ==
  ASSUME Careful, HandleInv, HandleInv', WorkInv, [Next]_vars
  PROVE  WorkInv'
<1>0. /\ ~Shortage /\ ~Faults /\ ~Exits /\ \A c, d \in Contexts : c = d
      /\ TypeInv /\ CtxInv /\ SesInv /\ MemInv /\ TypeInv'
      /\ WorkCtx /\ WorkSes /\ WorkMem /\ WorkTmp
  BY DEF Careful, HandleInv, WorkInv
<1>1. ASSUME NEW p \in Processes, Calls(p) PROVE WorkInv'
  BY <1>0, <1>1, WorkCtxCalls, WorkSesCalls, WorkMemCalls, WorkTmpCalls DEF WorkInv
<1>2. ASSUME NEW p \in Processes, tee_process_pre(p), UNCHANGED cvars PROVE WorkInv'
  BY <1>0, <1>2, WorkCtxPre, WorkSesPre, WorkMemPre, WorkTmpPre DEF WorkInv
<1>3. ASSUME NEW p \in Processes, tee_task(p), UNCHANGED <<dvars, cvars>> PROVE WorkInv'
  BY <1>0, <1>3, WorkCtxTask, WorkSesTask, WorkMemTask, WorkTmpTask DEF WorkInv
<1>4. ASSUME NEW p \in Processes, tee_process_post(p), UNCHANGED cvars PROVE WorkInv'
  BY <1>0, <1>4, WorkCtxPost, WorkSesPost, WorkMemPost, WorkTmpPost DEF WorkInv
<1>5. ASSUME NEW p \in Processes, TEEC_return(p) PROVE WorkInv'
  BY <1>0, <1>5, WorkCtxReturn, WorkSesReturn, WorkMemReturn, WorkTmpCalls DEF WorkInv
<1>6. ASSUME NEW p \in Processes, exit(p) PROVE WorkInv'
  BY <1>0, <1>6 DEF exit
<1> QED
  BY <1>1, <1>2, <1>3, <1>4, <1>5, <1>6, WorkStutter DEF Next

\* For any number of careful clients, sessions and memories, in any interleaving of
\* their calls with each other: contexts, sessions and memory that a client holds
\* are in the tables of both worlds (tee_context.c, tee_session.c, tee_memory.c).
THEOREM WorkInvariant ==
  ASSUME Careful PROVE Spec => []WorkInv
<1>1. HandleInv /\ HandleInv' /\ WorkInv /\ [Next]_vars => WorkInv'
  BY WorkNext
<1> QED
  BY <1>1, WorkInit, HandleInvariant, PTL DEF Spec

\* What the two invariants say between the calls of a process.
LEMMA HandlesWork ==
  ASSUME HandleInv, WorkInv
  PROVE  SessionsWork /\ NothingKept
<1>0. /\ TypeInv /\ CtxInv /\ MemInv /\ WorkCtx /\ WorkSes /\ WorkMem /\ WorkTmp
  BY DEF HandleInv, WorkInv
<1>1. OpenSessionWorks
  BY <1>0 DEF OpenSessionWorks, At, WorkTmp, TmpReq
<1>2. ASSUME NEW p \in Processes, NEW c \in Contexts, context[p][c] # 0, teemem[p] = NULL
      PROVE  \E e \in find_by_id(tee_contexts, context[p][c]) : e # NULL /\ e.tz_id \in tee_context_list
  <2>1. context[p][c] = p
    BY <1>0, <1>2 DEF CtxInv
  <2>2. Opened(p)
    BY <1>2 DEF Opened
  <2>3. PICK e \in tee_contexts : e.id = p
    BY <1>0, <2>2 DEF WorkCtx
  <2>4. e.tz_id \in tee_context_list
    BY <1>0, <1>2, <2>3 DEF WorkCtx, Is
  <2>5. e # NULL
    BY <1>0, <2>3, ClientAssumption DEF TypeInv
  <2>6. {x \in tee_contexts : x.id = p} = {e}
    BY <1>0, <2>3 DEF WorkCtx
  <2>7. e.obj \in Int
    BY <1>0, <2>3 DEF TypeInv, CtxEntry
  <2>8. e \in find_by_id(tee_contexts, p)
    BY <2>6, <2>7 DEF find_by_id, find
  <2> QED
    BY <2>1, <2>4, <2>5, <2>8
<1>3. SessionsFollowContexts /\ TemporariesReturned
  BY <1>0 DEF SessionsFollowContexts, TemporariesReturned, WorkSes, WorkTmp, TmpReq, Is
<1>4. ASSUME NEW p \in Processes, teemem[p] = NULL, \A c \in Contexts : context[p][c] = 0
      PROVE  /\ \A e \in tee_contexts : e.id # p
             /\ \A e \in tee_memories : e.user[1] # p
  <2>1. ~Opened(p)
    BY <1>4 DEF Opened
  <2>2. \A e \in tee_contexts : e.id # p
    BY <1>0, <2>1 DEF WorkCtx
  <2>3. \A e \in tee_memories : \E x \in tee_contexts : x.obj = e.ctx
    BY <1>0 DEF WorkMem
  <2>4. \A e \in tee_memories, x \in tee_contexts : x.obj = e.ctx => x.id = e.user[1]
    BY <1>0 DEF MemInv, MemTable
  <2> QED
    BY <2>2, <2>3, <2>4
<1> QED
  BY <1>1, <1>2, <1>3, <1>4 DEF SessionsWork, NothingKept, ContextKnown, NothingLeftBehind

\* For any number of careful clients a context that was opened can be used, and a
\* command in a session that was opened and not closed is executed, whatever the
\* other clients do meanwhile (tee_operations.c: tee_invoke_pre, tee_ctx_init_post).
THEOREM SessionsWorkHolds ==
  ASSUME Careful PROVE Spec => []SessionsWork
<1>1. HandleInv /\ WorkInv => SessionsWork
  BY HandlesWork
<1> QED
  BY <1>1, HandleInvariant, WorkInvariant, PTL

\* For any number of careful clients, what a call or a context needed is gone when
\* it is over: no context or memory of a process that has finalized, no session
\* without its context, no temporary memory between two calls (tz_file_ops.c,
\* tee_operations.c: tee_ctx_finalize_post, tee_invoke_post).
THEOREM NothingKeptHolds ==
  ASSUME Careful PROVE Spec => []NothingKept
<1>1. HandleInv /\ WorkInv => NothingKept
  BY HandlesWork
<1> QED
  BY <1>1, HandleInvariant, WorkInvariant, PTL
=============================================================================
