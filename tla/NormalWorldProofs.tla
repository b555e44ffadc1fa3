-------------------------- MODULE NormalWorldProofs --------------------------
(***************************************************************************)
(* The normal world's side of a call: the client library, the control      *)
(* mailbox and the pages of a call, each for any number of threads,        *)
(* requests, callers and pages, and whatever fails.                        *)
(***************************************************************************)
EXTENDS NormalWorld, FiniteSetTheorems, TLAPS

-----------------------------------------------------------------------------
(* The client library                                                      *)

\* What can be in the communication page, and in an answer.
Words == {"garbage", "none", "COMMS", "TEE", "TRUSTED_APP"}
CommPage == [ret : {"SUCCESS", "ERROR"}, handle : (Threads \cup {NULL}) \X Nat,
             origin : Words, invoked : Words]
Answers == [ret : {"none", "SUCCESS", "ERROR", "BAD_PARAMETERS"},
            handle : (Threads \cup {NULL}) \X Nat, origin : Words]

LibraryTypes ==
  /\ Library!TypeOK
  /\ op \in [Threads -> Library!Ops] /\ calls \in [Threads -> Nat]
  /\ answer \in [Threads -> Answers] /\ got \in [Threads -> Answers]
  /\ comm \in CommPage \cup {NULL}

\* The page of a thread that is past fill is there, and when the thread comes
\* back from the ioctl it holds what was answered to this thread, if anything.
PageOfHolder ==
  \A t \in Threads :
    /\ pc[t] \in {"ioctl", "back"} => comm \in CommPage
    /\ pc[t] \in {"lock", "fill", "ioctl"} => answer[t] = Library!NoAnswer
    /\ pc[t] = "back" /\ answer[t].ret # "none" =>
         comm.ret = answer[t].ret /\ (comm.ret = "SUCCESS" => comm.handle = answer[t].handle)

LibraryInv == LibraryTypes /\ PageOfHolder /\ Library!HandleOwn /\ Library!AnswerDelivered

\* The records the library builds are answers, and what malloc returns is a
\* page.
LEMMA LibraryRecords ==
  /\ Library!NoAnswer \in Answers
  /\ \A r \in {"SUCCESS", "ERROR"} : [Library!NoAnswer EXCEPT !.ret = r] \in Answers
  /\ [Library!NoAnswer EXCEPT !.ret = "BAD_PARAMETERS", !.origin = "COMMS"] \in Answers
  /\ [Library!NoAnswer EXCEPT !.ret = "BAD_PARAMETERS", !.origin = "COMMS"].ret = "BAD_PARAMETERS"
  /\ Library!FreshPages \subseteq CommPage
  /\ Library!NoAnswer.ret = "none"
  /\ \A r \in {"SUCCESS", "ERROR", "BAD_PARAMETERS"}, h \in (Threads \cup {NULL}) \X Nat, s \in Words :
       [ret |-> r, handle |-> h, origin |-> s] \in Answers
<1>1. Library!NoAnswer = [ret |-> "none", handle |-> <<NULL, 0>>, origin |-> "none"]
  BY DEF Library!NoAnswer
<1>2. <<NULL, 0>> \in (Threads \cup {NULL}) \X Nat
  OBVIOUS
<1>3. \A r \in {"none", "SUCCESS", "ERROR", "BAD_PARAMETERS"},
         h \in (Threads \cup {NULL}) \X Nat, s \in Words :
        [ret |-> r, handle |-> h, origin |-> s] \in Answers
  BY DEF Answers
<1>4. \A r \in {"SUCCESS", "ERROR"} :
        [Library!NoAnswer EXCEPT !.ret = r] = [ret |-> r, handle |-> <<NULL, 0>>, origin |-> "none"]
  BY <1>1
<1>5. [Library!NoAnswer EXCEPT !.ret = "BAD_PARAMETERS", !.origin = "COMMS"] \in Answers
  BY <1>1, <1>2 DEF Answers, Words
<1>6. [Library!NoAnswer EXCEPT !.ret = "BAD_PARAMETERS", !.origin = "COMMS"].ret = "BAD_PARAMETERS"
  BY <1>1
<1>7. Library!FreshPages \subseteq CommPage
  BY <1>2 DEF Library!FreshPages, CommPage, Words
<1>8. {"none", "COMMS"} \subseteq Words
  BY DEF Words
<1> QED
  BY <1>1, <1>2, <1>3, <1>4, <1>5, <1>6, <1>7, <1>8

\* The first call's page is one, and a page that is there stays.
LEMMA PageAllocated ==
  ASSUME comm \in CommPage \cup {NULL}, tee_fd \in {0, 3, -1}, Library!getCommSpace
  PROVE  /\ comm' \in CommPage /\ tee_fd' \in {0, 3, -1}
         /\ comm # NULL => comm' = comm
BY LibraryRecords DEF Library!getCommSpace, Library!openTEEDevice

\* The secure world's answer is one, and the page stays a page, with this
\* answer in it.
LEMMA PageAnswered ==
  ASSUME LibraryInv, NEW t \in Threads, Library!processComm(t)
  PROVE  /\ comm' \in CommPage /\ answer' \in [Threads -> Answers]
         /\ comm'.ret = answer'[t].ret /\ answer'[t].ret # "none"
         /\ comm'.ret = "SUCCESS" => comm'.handle = answer'[t].handle
<1> USE DEF LibraryInv, LibraryTypes
<1>1. comm \in CommPage /\ Library!Handle(t) \in (Threads \cup {NULL}) \X Nat
  BY DEF Library!processComm, PageOfHolder, Library!Handle
<1>2. PICK r \in {"SUCCESS", "ERROR"}, s \in Library!Origins \cup {"none"} :
        /\ answer' = [answer EXCEPT ![t] = [ret |-> r, handle |-> Library!Handle(t), origin |-> s]]
        /\ comm' = [comm EXCEPT !.ret = r,
                                !.handle = IF r = "SUCCESS" THEN Library!Handle(t) ELSE @,
                                !.origin = IF op[t] = "open" /\ s # "COMMS" THEN s ELSE @,
                                !.invoked = IF op[t] = "invoke" /\ s # "COMMS" THEN s ELSE @]
  BY DEF Library!processComm
<1>3. s \in Words
  BY DEF Library!Origins, Words
<1>4. comm' \in CommPage
  BY <1>1, <1>2, <1>3 DEF CommPage
<1>5. answer' \in [Threads -> Answers]
  BY <1>1, <1>2, <1>3, LibraryRecords
<1>6. /\ answer'[t].ret = r /\ comm'.ret = r /\ r # "none"
      /\ r = "SUCCESS" => comm'.handle = answer'[t].handle
  BY <1>1, <1>2 DEF CommPage
<1> QED
  BY <1>4, <1>5, <1>6

\* Only the thread that holds commMutex is between lockComm and unlockComm.
LEMMA LibraryTypeStep ==
  ASSUME NULL \notin Threads, LibraryInv, [Library!Next]_(Library!vars)
  PROVE  Library!TypeOK'
<1> USE DEF LibraryInv, LibraryTypes, Library!TypeOK
<1>1. CASE UNCHANGED Library!vars
  BY <1>1 DEF Library!vars
<1>2. ASSUME NEW t \in Threads, NEW o \in Library!Ops, Library!call(t, o)
      PROVE  Library!TypeOK'
  BY <1>2 DEF Library!call, Library!Goto
<1>3. ASSUME NEW t \in Threads, Library!step(t)
      PROVE  Library!TypeOK'
  <2>1. CASE Library!lockComm(t) \/ Library!processComm_failed(t) \/ Library!processComm(t)
    BY <2>1 DEF Library!lockComm, Library!processComm_failed, Library!processComm, Library!Goto
  <2>2. CASE Library!refuse(t) \/ Library!fill(t)
    BY <2>2, PageAllocated DEF Library!refuse, Library!fill, Library!unlockComm, Library!Goto
  <2>3. CASE Library!return_locked(t) \/ Library!return_void(t) \/ Library!return(t)
    BY <2>3 DEF Library!return_locked, Library!return_void, Library!return, Library!unlockComm,
         Library!Goto
  <2> QED
    BY <1>3, <2>1, <2>2, <2>3 DEF Library!step
<1> QED
  BY <1>1, <1>2, <1>3 DEF Library!Next

\* The variables of the library keep their types.
LEMMA LibraryTypesStep ==
  ASSUME LibraryInv, [Library!Next]_(Library!vars), Library!TypeOK'
  PROVE  LibraryTypes'
<1> USE DEF LibraryInv, LibraryTypes
<1>1. CASE UNCHANGED Library!vars
  BY <1>1 DEF Library!vars
<1>2. ASSUME NEW t \in Threads, NEW o \in Library!Ops, Library!call(t, o)
      PROVE  LibraryTypes'
  BY <1>2, LibraryRecords DEF Library!call
<1>3. ASSUME NEW t \in Threads, Library!lockComm(t) \/ Library!processComm_failed(t)
      PROVE  LibraryTypes'
  BY <1>3 DEF Library!lockComm, Library!processComm_failed
<1>4. ASSUME NEW t \in Threads, Library!refuse(t)
      PROVE  LibraryTypes'
  <2>1. comm' \in CommPage
    BY <1>4, PageAllocated DEF Library!refuse, Library!TypeOK
  <2> DEFINE bad == [Library!NoAnswer EXCEPT !.ret = "BAD_PARAMETERS", !.origin = "COMMS"]
  <2>2. /\ answer' = [answer EXCEPT ![t] = bad]
        /\ got' = [got EXCEPT ![t] = answer'[t]]
        /\ UNCHANGED <<op, calls>>
    BY <1>4 DEF Library!refuse, Library!unlockComm
  <2>3. bad \in Answers
    BY LibraryRecords
  <2> HIDE DEF bad
  <2> QED
    BY <2>1, <2>2, <2>3
<1>5. ASSUME NEW t \in Threads, Library!fill(t)
      PROVE  LibraryTypes'
  <2>1. comm' \in CommPage
    BY <1>5, PageAllocated DEF Library!fill, Library!TypeOK
  <2> QED
    BY <1>5, <2>1 DEF Library!fill
<1>6. ASSUME NEW t \in Threads, Library!processComm(t)
      PROVE  LibraryTypes'
  BY <1>6, PageAnswered DEF Library!processComm
<1>7. ASSUME NEW t \in Threads,
             Library!return_locked(t) \/ Library!return_void(t) \/ Library!return(t)
      PROVE  LibraryTypes'
  <2>1. comm \in CommPage
    BY <1>7 DEF Library!return_locked, Library!return_void, Library!return, PageOfHolder
  <2>2. comm.ret \in {"SUCCESS", "ERROR"} /\ comm.handle \in (Threads \cup {NULL}) \X Nat
        /\ comm.origin \in Words
    BY <2>1 DEF CommPage
  <2>3. PICK a \in Answers : got' = [got EXCEPT ![t] = a]
    <3>1. CASE Library!return_locked(t)
      BY <2>2, <3>1, LibraryRecords DEF Library!return_locked
    <3>2. CASE Library!return_void(t)
      BY <3>2, LibraryRecords DEF Library!return_void, Library!unlockComm
    <3>3. CASE Library!return(t)
      <4> DEFINE s == IF op[t] \in Library!WithOrigin THEN comm.origin ELSE "none"
      <4>1. s \in Words
        BY <2>2 DEF Words
      <4>2. got' = [got EXCEPT ![t] = [ret |-> comm.ret, handle |-> comm.handle, origin |-> s]]
        BY <3>3 DEF Library!return, Library!unlockComm
      <4> HIDE DEF s
      <4> QED
        BY <2>2, <4>1, <4>2, LibraryRecords
    <3> QED
      BY <1>7, <3>1, <3>2, <3>3
  <2> QED
    BY <1>7, <2>3 DEF Library!return_locked, Library!return_void, Library!return
<1> QED
  BY <1>1, <1>2, <1>3, <1>4, <1>5, <1>6, <1>7 DEF Library!Next, Library!step

\* What is in the page when a thread comes back from the ioctl is its answer:
\* no other thread touches the page in between.
LEMMA PageStep ==
  ASSUME NULL \notin Threads, LibraryInv, [Library!Next]_(Library!vars)
  PROVE  PageOfHolder'
<1> USE DEF LibraryInv, LibraryTypes, Library!TypeOK
<1>1. CASE UNCHANGED Library!vars
  BY <1>1 DEF Library!vars, PageOfHolder
<1>2. ASSUME NEW t \in Threads, NEW o \in Library!Ops, Library!call(t, o)
      PROVE  PageOfHolder'
  BY <1>2 DEF Library!call, Library!Goto, PageOfHolder
<1>3. ASSUME NEW t \in Threads, Library!lockComm(t) \/ Library!processComm_failed(t)
      PROVE  PageOfHolder'
  BY <1>3, LibraryRecords DEF Library!lockComm, Library!processComm_failed, Library!Goto, PageOfHolder
<1>4. ASSUME NEW t \in Threads, Library!refuse(t) \/ Library!fill(t)
      PROVE  PageOfHolder'
  <2>1. \A u \in Threads \ {t} : pc[u] \notin {"fill", "ioctl", "back"}
    BY <1>4 DEF Library!refuse, Library!fill
  <2>2. comm' \in CommPage
    BY <1>4, PageAllocated DEF Library!refuse, Library!fill
  <2> QED
    BY <1>4, <2>1, <2>2 DEF Library!refuse, Library!fill, Library!unlockComm, Library!Goto, PageOfHolder
<1>5. ASSUME NEW t \in Threads, Library!processComm(t)
      PROVE  PageOfHolder'
  <2>1. \A u \in Threads \ {t} : pc[u] \notin {"fill", "ioctl", "back"}
    BY <1>5 DEF Library!processComm
  <2>2. /\ comm' \in CommPage /\ comm'.ret = answer'[t].ret
        /\ comm'.ret = "SUCCESS" => comm'.handle = answer'[t].handle
    BY <1>5, PageAnswered
  <2> QED
    BY <1>5, <2>1, <2>2 DEF Library!processComm, Library!Goto, PageOfHolder
<1>6. ASSUME NEW t \in Threads,
             Library!return_locked(t) \/ Library!return_void(t) \/ Library!return(t)
      PROVE  PageOfHolder'
  BY <1>6 DEF Library!return_locked, Library!return_void, Library!return, Library!unlockComm,
       Library!Goto, PageOfHolder
<1> QED
  BY <1>1, <1>2, <1>3, <1>4, <1>5, <1>6 DEF Library!Next, Library!step

\* A call returns the handle of its own answer, if it has one.
LEMMA HandleStep ==
  ASSUME LibraryInv, [Library!Next]_(Library!vars)
  PROVE  Library!HandleOwn'
<1> USE DEF LibraryInv, LibraryTypes, Library!TypeOK, Library!HandleOwn, Library!Done, Library!Goto
<1>1. CASE UNCHANGED Library!vars
  BY <1>1 DEF Library!vars
<1>2. ASSUME NEW t \in Threads, NEW o \in Library!Ops, Library!call(t, o)
      PROVE  Library!HandleOwn'
  BY <1>2 DEF Library!call
<1>3. ASSUME NEW t \in Threads,
             \/ Library!lockComm(t) \/ Library!fill(t)
             \/ Library!processComm_failed(t) \/ Library!processComm(t)
      PROVE  Library!HandleOwn'
  BY <1>3, ZenonT(40) DEF Library!lockComm, Library!fill, Library!processComm_failed, Library!processComm
<1>4. ASSUME NEW t \in Threads, Library!refuse(t)
      PROVE  Library!HandleOwn'
  BY <1>4 DEF Library!refuse, Library!unlockComm, Library!NoAnswer
<1>5. ASSUME NEW t \in Threads, Library!return_locked(t) \/ Library!return_void(t)
      PROVE  Library!HandleOwn'
  <2>1. \E a : got' = [got EXCEPT ![t] = a] /\ a.ret # "SUCCESS"
    <3>1. [Library!NoAnswer EXCEPT !.ret = comm.ret].ret = comm.ret
      BY DEF Library!NoAnswer
    <3> QED
      BY <1>5, <3>1, LibraryRecords DEF Library!return_locked, Library!return_void, Library!unlockComm
  <2> QED
    BY <1>5, <2>1 DEF Library!return_locked, Library!return_void, Library!unlockComm
<1>6. ASSUME NEW t \in Threads, Library!return(t)
      PROVE  Library!HandleOwn'
  BY <1>6 DEF Library!return, Library!unlockComm, PageOfHolder
<1> QED
  BY <1>1, <1>2, <1>3, <1>4, <1>5, <1>6 DEF Library!Next, Library!step

\* A call that was answered returns the result of its answer.
LEMMA AnsweredStep ==
  ASSUME LibraryInv, [Library!Next]_(Library!vars)
  PROVE  Library!AnswerDelivered'
<1> USE DEF LibraryInv, LibraryTypes, Library!TypeOK,
       Library!AnswerDelivered, Library!Done, Library!Goto
<1>1. CASE UNCHANGED Library!vars
  BY <1>1 DEF Library!vars
<1>2. ASSUME NEW t \in Threads, NEW o \in Library!Ops, Library!call(t, o)
      PROVE  Library!AnswerDelivered'
  BY <1>2 DEF Library!call
<1>3. ASSUME NEW t \in Threads,
             \/ Library!lockComm(t) \/ Library!fill(t)
             \/ Library!processComm_failed(t) \/ Library!processComm(t)
      PROVE  Library!AnswerDelivered'
  <2>1. /\ UNCHANGED <<op, calls, got>> /\ pc'[t] # "idle"
        /\ \A u \in Threads \ {t} : pc'[u] = pc[u] /\ answer'[u] = answer[u]
    BY <1>3 DEF Library!lockComm, Library!fill, Library!processComm_failed, Library!processComm
  <2> QED
    BY <2>1
<1>4. ASSUME NEW t \in Threads, Library!refuse(t)
      PROVE  Library!AnswerDelivered'
  BY <1>4 DEF Library!refuse, Library!unlockComm, Library!NoAnswer
<1>5. ASSUME NEW t \in Threads, Library!return_locked(t)
      PROVE  Library!AnswerDelivered'
  <2>1. [Library!NoAnswer EXCEPT !.ret = comm.ret].ret = comm.ret
    BY DEF Library!NoAnswer
  <2> QED
    BY <1>5, <2>1 DEF Library!return_locked, PageOfHolder
<1>6. ASSUME NEW t \in Threads, Library!return_void(t)
      PROVE  Library!AnswerDelivered'
  BY <1>6, LibraryRecords DEF Library!return_void, Library!unlockComm
<1>7. ASSUME NEW t \in Threads, Library!return(t)
      PROVE  Library!AnswerDelivered'
  BY <1>7 DEF Library!return, Library!unlockComm, PageOfHolder
<1> QED
  BY <1>1, <1>2, <1>3, <1>4, <1>5, <1>6, <1>7 DEF Library!Next, Library!step

\* Before the first call the invariants hold.
LEMMA LibraryInit == Library!Init => LibraryInv
<1> SUFFICES ASSUME Library!Init PROVE LibraryInv
  OBVIOUS
<1>1. LibraryTypes
  BY LibraryRecords DEF Library!Init, LibraryTypes, Library!TypeOK, Library!Ops
<1>2. \A t \in Threads : pc[t] = "idle" /\ calls[t] = 0
  BY DEF Library!Init
<1>3. PageOfHolder
  BY <1>2 DEF PageOfHolder
<1>4. Library!HandleOwn /\ Library!AnswerDelivered
  BY <1>2 DEF Library!HandleOwn, Library!AnswerDelivered, Library!Done
<1> QED
  BY <1>1, <1>3, <1>4 DEF LibraryInv

\* Every reachable state of the library satisfies its invariant.
LEMMA LibraryInvariance ==
  ASSUME NULL \notin Threads
  PROVE  Library!Spec => []LibraryInv
<1>1. LibraryInv /\ [Library!Next]_(Library!vars) => LibraryInv'
  BY LibraryTypeStep, LibraryTypesStep, PageStep, HandleStep, AnsweredStep DEF LibraryInv
<1> QED
  BY <1>1, LibraryInit, PTL DEF Library!Spec

\* Whatever fails, is refused or keeps commMutex: the handle of a successful
\* call that was answered is the one in its own answer, never one that another
\* thread's call left in the communication page (main.c:49).
THEOREM HandlesOwn == Library!Spec => []HandleOwn
<1>1. LibraryInv => HandleOwn
  BY DEF LibraryInv, HandleOwn
<1>2. Library!Spec => []LibraryInv
  BY LibraryInvariance, NormalWorldAssumption
<1> QED
  BY <1>1, <1>2, PTL

\* For any number of threads, with ioctls that fail, a device that may be
\* missing, requests that are refused and the lock that some errors keep: a
\* call that was answered reports the result of its own answer, but for a
\* command whose postProcessParameters leaves an error (main.c:49, 235).
THEOREM AnswersDelivered == Library!Spec => []AnswerDelivered
<1>1. LibraryInv => AnswerDelivered
  BY DEF LibraryInv, AnswerDelivered
<1>2. Library!Spec => []LibraryInv
  BY LibraryInvariance, NormalWorldAssumption
<1> QED
  BY <1>1, <1>2, PTL

-----------------------------------------------------------------------------
(* The control mailbox                                                     *)

\* What is known of the request in the control page at each state of the
\* mailbox: where it is, and whether the daemon has executed it.
MailboxTypes ==
  /\ page \in [n : 0..MAX_REQUESTS, done : BOOLEAN]
  /\ daemon_comm \in [n : 0..MAX_REQUESTS, done : BOOLEAN]
  /\ executed \in [Mailbox!Requests -> {0, 1}]
  /\ pending \in {"CTRL_IDLE", "CTRL_PENDING_FROM_S", "CTRL_PENDING_IN_NS", "CTRL_RESPONSE_FROM_NS"}
  /\ client_pc \in {"secure", "push", "poll", "back"}
  /\ daemon_pc \in {"poll", "dispatch", "push", "dead"}

ClientWaits ==
  /\ client_pc = "poll" <=> pending # "CTRL_IDLE"
  /\ client_pc # "secure" => page.n >= 1

RequestState ==
  /\ \A n \in Mailbox!Requests : n > page.n => executed[n] = 0
  /\ client_pc = "push" \/ pending = "CTRL_PENDING_FROM_S" => executed[page.n] = 0
  /\ client_pc = "back" \/ pending = "CTRL_RESPONSE_FROM_NS" => executed[page.n] = 1 /\ page.done

DaemonState ==
  /\ daemon_pc \in {"dispatch", "push"} =>
       pending = "CTRL_PENDING_IN_NS" /\ daemon_comm.n = page.n
  /\ daemon_pc = "dispatch" => executed[page.n] = 0
  /\ daemon_pc = "push" => executed[page.n] = 1 /\ daemon_comm.done

MailboxInv == MailboxTypes /\ ClientWaits /\ RequestState /\ DaemonState

\* The mailbox starts empty.
LEMMA MailboxInit ==
  ASSUME MAX_REQUESTS \in Nat
  PROVE  Mailbox!Init => MailboxInv
BY DEF Mailbox!Init, MailboxInv, MailboxTypes, ClientWaits, RequestState, DaemonState,
  Mailbox!Requests, Mailbox!Page

\* The client's steps: a new request was never executed, and one that is
\* continued was.
LEMMA ClientStep ==
  ASSUME MAX_REQUESTS \in Nat, MailboxInv, Mailbox!ctrl_struct \/ Mailbox!client_step
  PROVE  MailboxInv'
<1> USE DEF MailboxInv, MailboxTypes, ClientWaits, RequestState, DaemonState, Mailbox!Requests
<1>1. CASE Mailbox!ctrl_struct
  <2>1. page' = [n |-> page.n + 1, done |-> FALSE] /\ page.n + 1 \in 1..MAX_REQUESTS
    BY <1>1 DEF Mailbox!ctrl_struct, Mailbox!Page
  <2>2. pending = "CTRL_IDLE" /\ daemon_pc \notin {"dispatch", "push"} /\ executed[page.n + 1] = 0
    BY <1>1, <2>1 DEF Mailbox!ctrl_struct
  <2>3. UNCHANGED <<pending, daemon_pc, daemon_comm, executed>> /\ client_pc' = "push"
    BY <1>1 DEF Mailbox!ctrl_struct
  <2>4. page' \in [n : 0..MAX_REQUESTS, done : BOOLEAN] /\ page'.n = page.n + 1
    BY <2>1
  <2> QED
    BY <2>1, <2>2, <2>3, <2>4
<1>2. CASE Mailbox!push_ctrl_task_from_s
  BY <1>2 DEF Mailbox!push_ctrl_task_from_s
<1>3. CASE Mailbox!poll_ctrl_task_to_s
  BY <1>3 DEF Mailbox!poll_ctrl_task_to_s
<1> QED
  BY <1>1, <1>2, <1>3 DEF Mailbox!client_step

\* The daemon's steps: it executes the request it fetched, and fetches each
\* once.
LEMMA DaemonStep ==
  ASSUME MAX_REQUESTS \in Nat, MailboxInv, Mailbox!daemon_step
  PROVE  MailboxInv'
<1> USE DEF MailboxInv, MailboxTypes, ClientWaits, RequestState, DaemonState, Mailbox!Requests
<1>1. CASE Mailbox!poll_ctrl_task_to_ns
  BY <1>1 DEF Mailbox!poll_ctrl_task_to_ns
<1>2. CASE Mailbox!dispatch_ctrl
  <2>1. daemon_comm.n = page.n /\ page.n \in 1..MAX_REQUESTS /\ executed[page.n] = 0
    BY <1>2 DEF Mailbox!dispatch_ctrl
  <2>2. executed' = [executed EXCEPT ![page.n] = 1]
    BY <1>2, <2>1 DEF Mailbox!dispatch_ctrl
  <2>3. /\ daemon_comm' \in [n : 0..MAX_REQUESTS, done : BOOLEAN]
        /\ daemon_comm'.n = page.n /\ daemon_comm'.done
    BY <1>2, <2>1 DEF Mailbox!dispatch_ctrl
  <2> QED
    BY <1>2, <2>1, <2>2, <2>3 DEF Mailbox!dispatch_ctrl
<1>3. CASE Mailbox!push_ctrl_task_from_ns
  BY <1>3 DEF Mailbox!push_ctrl_task_from_ns
<1>4. CASE Mailbox!main
  BY <1>4 DEF Mailbox!main
<1> QED
  BY <1>1, <1>2, <1>3, <1>4 DEF Mailbox!daemon_step

\* A copy that fails leaves the request where it is, and so does a daemon that
\* dies.
LEMMA DaemonFails ==
  ASSUME MAX_REQUESTS \in Nat, MailboxInv, Mailbox!copy_failed \/ Mailbox!die
  PROVE  MailboxInv'
<1> USE DEF MailboxInv, MailboxTypes, ClientWaits, RequestState, DaemonState, Mailbox!Requests
<1>1. CASE Mailbox!copy_failed
  BY <1>1 DEF Mailbox!copy_failed
<1>2. CASE Mailbox!die
  <2>1. daemon_comm' \in [n : 0..MAX_REQUESTS, done : BOOLEAN]
    BY <1>2 DEF Mailbox!die, Mailbox!Page
  <2> QED
    BY <1>2, <2>1 DEF Mailbox!die
<1> QED
  BY <1>1, <1>2

\* Every reachable state of the mailbox satisfies its invariant.
LEMMA MailboxInvariance ==
  ASSUME MAX_REQUESTS \in Nat
  PROVE  Mailbox!Spec => []MailboxInv
<1>1. MailboxInv /\ [Mailbox!Next]_(Mailbox!vars) => MailboxInv'
  <2>1. MailboxInv /\ UNCHANGED Mailbox!vars => MailboxInv'
    BY DEF Mailbox!vars, MailboxInv, MailboxTypes, ClientWaits, RequestState, DaemonState
  <2> QED
    BY <2>1, ClientStep, DaemonStep, DaemonFails DEF Mailbox!Next
<1> QED
  BY <1>1, MailboxInit, PTL DEF Mailbox!Spec

\* No file operation of the secure world is executed twice, and one that is
\* continued was executed, with its own response in the control page: for any
\* number of requests, and however often the daemon dies, is started again or
\* fails to copy (ctrl_mem.c:67).
THEOREM RequestsExecutedOnce == Mailbox!Spec => []ExecutedOnce
<1>1. MailboxInv => ExecutedOnce
  BY DEF MailboxInv, MailboxTypes, RequestState, ExecutedOnce, Mailbox!ExecutedOnce
<1>2. Mailbox!Spec => []MailboxInv
  BY MailboxInvariance, NormalWorldAssumption
<1> QED
  BY <1>1, <1>2, PTL

-----------------------------------------------------------------------------
(* The pages of a call                                                     *)

PageTypes ==
  /\ free \subseteq Pages /\ others \subseteq Pages /\ DOMAIN content = Pages
  /\ caller_pc \in [Callers -> {"user", "smc", "copy", "free", "send", "oops"}]
  /\ teemem \in [Callers -> Pages \cup {NULL}] /\ ctrlspace \in [Callers -> Pages \cup {NULL}]
  /\ package \in [Callers -> Pages \cup {NULL}] /\ ctrl_pages_1 \in [Callers -> Pages \cup {NULL}]
  /\ DOMAIN ctrlspace_1 = Callers /\ DOMAIN ctrlspace_2 = Callers /\ DOMAIN caller_got = Callers
  /\ caller_calls \in [Callers -> Nat]

\* The pages of a call are four, or three, of the kernel's; nobody else has
\* them.
CallHolds(c) ==
  /\ {teemem[c], ctrlspace[c], package[c]} \subseteq Pages
  /\ teemem[c] # ctrlspace[c] /\ teemem[c] # package[c] /\ ctrlspace[c] # package[c]
  /\ ctrl_pages_1[c] \notin {teemem[c], ctrlspace[c], package[c]}
  /\ CallPages!Held(c) \cap (free \cup others) = {}

HoldsApart(c, d) == CallPages!Held(c) \cap CallPages!Held(d) = {}

PagesInv ==
  /\ PageTypes /\ free \cap others = {}
  /\ \A c \in Callers : CallPages!InCall(c) => CallHolds(c)
  /\ \A c, d \in Callers :
       c # d /\ CallPages!InCall(c) /\ CallPages!InCall(d) => HoldsApart(c, d)

\* What a step of call c leaves alone: the pages of the other calls.
LEMMA OthersKeep ==
  ASSUME PagesInv, NEW c \in Callers, NEW d \in Callers, d # c,
         \/ CallPages!tee_process(c) \/ CallPages!smc_answer(c) \/ CallPages!smc_service(c)
         \/ CallPages!copy_ctrl(c) \/ CallPages!copy_ctrl_no_memory(c)
         \/ CallPages!free_pages(c) \/ CallPages!send_to_user(c)
  PROVE  /\ CallPages!InCall(d)' <=> CallPages!InCall(d)
         /\ CallPages!Held(d)' = CallPages!Held(d)
         /\ teemem'[d] = teemem[d] /\ ctrlspace'[d] = ctrlspace[d] /\ package'[d] = package[d]
         /\ ctrl_pages_1'[d] = ctrl_pages_1[d]
<1> USE DEF PagesInv, PageTypes, CallPages!Goto, CallPages!Set, CallPages!InCall, CallPages!Held,
       CallPages!locals
<1>1. CASE CallPages!tee_process(c)
  BY <1>1 DEF CallPages!tee_process
<1>2. CASE CallPages!smc_answer(c)
  BY <1>2 DEF CallPages!smc_answer
<1>3. CASE CallPages!smc_service(c)
  BY <1>3 DEF CallPages!smc_service
<1>4. CASE CallPages!copy_ctrl(c)
  BY <1>4 DEF CallPages!copy_ctrl
<1>5. CASE CallPages!copy_ctrl_no_memory(c)
  BY <1>5 DEF CallPages!copy_ctrl_no_memory
<1>6. CASE CallPages!free_pages(c)
  BY <1>6 DEF CallPages!free_pages
<1>7. CASE CallPages!send_to_user(c)
  BY <1>7 DEF CallPages!send_to_user
<1> QED
  BY <1>1, <1>2, <1>3, <1>4, <1>5, <1>6, <1>7

\* The variables of the driver keep their types.
LEMMA PageTypesStep ==
  ASSUME PagesInv, [CallPages!Next]_(CallPages!vars)
  PROVE  PageTypes'
<1> USE DEF PagesInv, PageTypes, CallPages!Goto, CallPages!Set, CallPages!locals
<1>1. CASE UNCHANGED CallPages!vars
  BY <1>1 DEF CallPages!vars
<1>2. ASSUME NEW c \in Callers, CallPages!tee_process(c)
      PROVE  PageTypes'
  BY <1>2 DEF CallPages!tee_process
<1>3. ASSUME NEW c \in Callers, CallPages!smc_answer(c)
      PROVE  PageTypes'
  BY <1>3 DEF CallPages!smc_answer
<1>4. ASSUME NEW c \in Callers, CallPages!smc_service(c) \/ CallPages!send_to_user(c)
      PROVE  PageTypes'
  BY <1>4 DEF CallPages!smc_service, CallPages!send_to_user
<1>5. ASSUME NEW c \in Callers, CallPages!copy_ctrl(c)
      PROVE  PageTypes'
  BY <1>5 DEF CallPages!copy_ctrl
<1>6. ASSUME NEW c \in Callers, CallPages!copy_ctrl_no_memory(c)
      PROVE  PageTypes'
  BY <1>6 DEF CallPages!copy_ctrl_no_memory
<1>7. ASSUME NEW c \in Callers, CallPages!free_pages(c)
      PROVE  PageTypes'
  BY <1>7 DEF CallPages!free_pages, CallPages!InCall, CallHolds
<1>8. CASE CallPages!alloc_pages \/ CallPages!__free_pages
  BY <1>8 DEF CallPages!alloc_pages, CallPages!__free_pages
<1> QED
  BY <1>1, <1>2, <1>3, <1>4, <1>5, <1>6, <1>7, <1>8 DEF CallPages!Next

\* After a step of call c its pages are still its own: either they were free
\* or its own before.
LEMMA CallKeeps ==
  ASSUME NULL \notin Pages, PagesInv, NEW c \in Callers,
         \/ CallPages!tee_process(c) \/ CallPages!smc_answer(c) \/ CallPages!smc_service(c)
         \/ CallPages!copy_ctrl(c) \/ CallPages!copy_ctrl_no_memory(c)
         \/ CallPages!free_pages(c) \/ CallPages!send_to_user(c)
  PROVE  /\ CallPages!InCall(c)' => CallHolds(c)'
         /\ CallPages!InCall(c)' =>
              CallPages!Held(c)' \subseteq free \cup IF CallPages!InCall(c) THEN CallPages!Held(c) ELSE {}
         /\ free' \subseteq free \cup IF CallPages!InCall(c) THEN CallPages!Held(c) ELSE {}
         /\ others' = others
<1> USE DEF PagesInv, PageTypes, CallPages!Goto, CallPages!Set, CallPages!InCall, CallPages!Held,
       CallPages!locals, CallHolds
<1>1. CASE CallPages!tee_process(c)
  BY <1>1 DEF CallPages!tee_process
<1>2. CASE CallPages!smc_answer(c)
  BY <1>2 DEF CallPages!smc_answer
<1>3. CASE CallPages!smc_service(c)
  BY <1>3 DEF CallPages!smc_service
<1>4. CASE CallPages!copy_ctrl(c)
  BY <1>4 DEF CallPages!copy_ctrl
<1>5. CASE CallPages!copy_ctrl_no_memory(c)
  BY <1>5 DEF CallPages!copy_ctrl_no_memory
<1>6. CASE CallPages!free_pages(c)
  BY <1>6 DEF CallPages!free_pages
<1>7. CASE CallPages!send_to_user(c)
  BY <1>7 DEF CallPages!send_to_user
<1> QED
  BY <1>1, <1>2, <1>3, <1>4, <1>5, <1>6, <1>7

\* Every step of the driver and of the rest of the kernel keeps the pages of
\* the calls apart.
LEMMA PagesStep ==
  ASSUME NULL \notin Pages, PagesInv, [CallPages!Next]_(CallPages!vars)
  PROVE  PagesInv'
<1>1. PageTypes'
  BY PageTypesStep
<1>2. CASE UNCHANGED CallPages!vars
  BY <1>1, <1>2 DEF CallPages!vars, PagesInv, CallPages!InCall, CallPages!Held, CallHolds, HoldsApart
<1>3. CASE CallPages!alloc_pages \/ CallPages!__free_pages
  <2>1. /\ free' \cap others' = {} /\ free' \cup others' = free \cup others
        /\ UNCHANGED <<caller_pc, CallPages!locals>>
    BY <1>3 DEF CallPages!alloc_pages, CallPages!__free_pages, PagesInv
  <2> QED
    BY <1>1, <2>1 DEF PagesInv, CallPages!InCall, CallPages!Held, CallHolds, HoldsApart, CallPages!locals
<1>4. ASSUME NEW c \in Callers,
             \/ CallPages!tee_process(c) \/ CallPages!smc_answer(c) \/ CallPages!smc_service(c)
             \/ CallPages!copy_ctrl(c) \/ CallPages!copy_ctrl_no_memory(c)
             \/ CallPages!free_pages(c) \/ CallPages!send_to_user(c)
      PROVE  PagesInv'
  <2> DEFINE mine == IF CallPages!InCall(c) THEN CallPages!Held(c) ELSE {}
  <2>1. /\ CallPages!InCall(c)' => CallHolds(c)' /\ CallPages!Held(c)' \subseteq free \cup mine
        /\ free' \subseteq free \cup mine /\ others' = others
    BY <1>4, CallKeeps
  <2>2. mine \cap (free \cup others) = {}
    BY DEF PagesInv, CallHolds
  <2>3. ASSUME NEW d \in Callers, d # c, CallPages!InCall(d)'
        PROVE  CallHolds(d)' /\ (CallPages!InCall(c)' => HoldsApart(c, d)')
    <3>1. /\ CallPages!InCall(d) /\ CallPages!Held(d)' = CallPages!Held(d)
          /\ teemem'[d] = teemem[d] /\ ctrlspace'[d] = ctrlspace[d] /\ package'[d] = package[d]
          /\ ctrl_pages_1'[d] = ctrl_pages_1[d]
      BY <1>4, <2>3, OthersKeep
    <3>2. mine \cap CallPages!Held(d) = {} /\ CallHolds(d)
      BY <2>3, <3>1 DEF PagesInv, HoldsApart
    <3>3. CallHolds(d)'
      BY <2>1, <3>1, <3>2 DEF CallHolds
    <3>4. CallPages!InCall(c)' => HoldsApart(c, d)'
      BY <2>1, <3>1, <3>2 DEF CallHolds, HoldsApart
    <3> QED
      BY <3>3, <3>4
  <2>4. ASSUME NEW d \in Callers, NEW e \in Callers, d # e, d # c, e # c,
               CallPages!InCall(d)', CallPages!InCall(e)'
        PROVE  HoldsApart(d, e)'
    BY <1>4, <2>4, OthersKeep DEF PagesInv, HoldsApart
  <2>5. ASSUME NEW d \in Callers, d # c, CallPages!InCall(d)', CallPages!InCall(c)'
        PROVE  HoldsApart(c, d)' /\ HoldsApart(d, c)'
    BY <2>3, <2>5 DEF HoldsApart
  <2>6. free' \cap others' = {}
    BY <2>1, <2>2 DEF PagesInv
  <2> HIDE DEF mine
  <2> QED
    BY <1>1, <2>1, <2>3, <2>4, <2>5, <2>6 DEF PagesInv
<1> QED
  BY <1>2, <1>3, <1>4 DEF CallPages!Next

\* At first no call is under way.
LEMMA PagesInit == CallPages!Init => PagesInv
BY DEF CallPages!Init, PagesInv, PageTypes, CallPages!InCall

\* Every reachable state of the driver satisfies its invariant.
LEMMA PagesInvariance ==
  ASSUME NULL \notin Pages
  PROVE  CallPages!Spec => []PagesInv
<1>1. PagesInv /\ [CallPages!Next]_(CallPages!vars) => PagesInv'
  BY PagesStep
<1> QED
  BY <1>1, PagesInit, PTL DEF CallPages!Spec

\* Three or four different pages are three or four.
LEMMA HeldCounted ==
  ASSUME NULL \notin Pages, NEW c \in Callers, CallHolds(c)
  PROVE  Cardinality(CallPages!Held(c)) = IF ctrl_pages_1[c] = NULL THEN 3 ELSE 4
<1> DEFINE a == teemem[c]  b == ctrlspace[c]  k == package[c]  x == ctrl_pages_1[c]
<1>1. a # b /\ k \notin {a, b} /\ x \notin {a, b, k}
  BY DEF CallHolds
<1> HIDE DEF a, b, k, x
<1>2. Cardinality({a} \cup {b}) = 2 /\ IsFiniteSet({a} \cup {b})
  <2>1. Cardinality({a}) = 1 /\ IsFiniteSet({a})
    BY FS_Singleton
  <2> QED
    BY <1>1, <2>1, FS_AddElement
<1>3. Cardinality({a, b} \cup {k}) = 3 /\ IsFiniteSet({a, b} \cup {k})
  <2>1. {a} \cup {b} = {a, b}
    OBVIOUS
  <2> DEFINE S == {a, b}
  <2>2. k \notin S /\ Cardinality(S) = 2 /\ IsFiniteSet(S)
    BY <1>1, <1>2, <2>1
  <2> HIDE DEF S
  <2>3. Cardinality(S \cup {k}) = 3 /\ IsFiniteSet(S \cup {k})
    BY <2>2, FS_AddElement
  <2> QED
    BY <2>3 DEF S
<1>4. Cardinality({a, b, k} \cup {x}) = 4
  <2>1. {a, b} \cup {k} = {a, b, k}
    OBVIOUS
  <2> DEFINE S == {a, b, k}
  <2>2. x \notin S /\ Cardinality(S) = 3 /\ IsFiniteSet(S)
    BY <1>1, <1>3, <2>1
  <2> HIDE DEF S
  <2>3. Cardinality(S \cup {x}) = 4
    BY <2>2, FS_AddElement
  <2> QED
    BY <2>3 DEF S
<1>5. CallPages!Held(c) = IF x = NULL THEN {a, b} \cup {k} ELSE {a, b, k} \cup {x}
  BY DEF CallPages!Held, a, b, k, x
<1> QED
  BY <1>3, <1>4, <1>5 DEF x

\* For any number of calls at a time and of pages, with the rest of the kernel
\* taking and returning pages as it likes and with allocations that fail: up
\* to its end tee_process has its pages for itself, neither free nor another
\* call's, and frees each of them once (tee_logic.c:136).
THEOREM PagesHeld == CallPages!Spec => []HeldPagesOwn
<1>1. PagesInv => HeldPagesOwn
  <2> SUFFICES ASSUME PagesInv PROVE CallPages!HeldPagesOwn
    BY DEF HeldPagesOwn
  <2>1. \A c \in Callers : CallPages!InCall(c) =>
          CallHolds(c) /\ \A d \in Callers \ {c} : CallPages!InCall(d) => HoldsApart(c, d)
    BY DEF PagesInv
  <2>2. \A c \in Callers : CallHolds(c) =>
          /\ CallPages!Held(c) \cap (free \cup others) = {}
          /\ Cardinality(CallPages!Held(c)) = IF ctrl_pages_1[c] = NULL THEN 3 ELSE 4
    BY HeldCounted, NormalWorldAssumption DEF CallHolds
  <2>3. \A S : CallPages!Cardinality(S) = Cardinality(S)
    BY DEF CallPages!Cardinality, CallPages!IsFiniteSet, Cardinality, IsFiniteSet
  <2> QED
    BY <2>1, <2>2, <2>3 DEF CallPages!HeldPagesOwn, HoldsApart
<1>2. CallPages!Spec => []PagesInv
  BY PagesInvariance, NormalWorldAssumption
<1> QED
  BY <1>1, <1>2, PTL

-----------------------------------------------------------------------------
(* What reaches the caller                                                 *)

\* As long as no call goes on with a freed control page, the answer is in the
\* page of the request until it is copied to the caller: the call holds the
\* page, or it is free and nobody took it.
AnswerInv ==
  /\ taken \subseteq Callers /\ dangling \subseteq Callers
  /\ CallPages!SharedPageOwn
  /\ \A c \in Callers :
       /\ caller_pc[c] = "free" /\ dangling = {} => content[teemem[c]] = CallPages!Answer(c)
       /\ caller_pc[c] = "send" /\ c \notin taken =>
            /\ teemem[c] \in free
            /\ dangling = {} => content[teemem[c]] = CallPages!Answer(c)
  /\ CallPages!AnswerReachesCaller

\* The control page of a call is one of its own, unless an allocation failed
\* in it.
LEMMA SharedStep ==
  ASSUME NULL \notin Pages, PagesInv, AnswerInv, [CallPages!Next]_(CallPages!vars)
  PROVE  taken' \subseteq Callers /\ dangling' \subseteq Callers /\ CallPages!SharedPageOwn'
<1> USE DEF PagesInv, PageTypes, AnswerInv, CallPages!SharedPageOwn, CallPages!Goto, CallPages!Set,
       CallPages!locals, CallPages!Held, CallPages!Losers
<1>1. CASE UNCHANGED CallPages!vars
  BY <1>1 DEF CallPages!vars
<1>2. CASE CallPages!alloc_pages \/ CallPages!__free_pages
  BY <1>2 DEF CallPages!alloc_pages, CallPages!__free_pages
<1>3. ASSUME NEW c \in Callers, CallPages!tee_process(c)
      PROVE  taken' \subseteq Callers /\ dangling' \subseteq Callers /\ CallPages!SharedPageOwn'
  BY <1>3 DEF CallPages!tee_process
<1>4. ASSUME NEW c \in Callers,
             CallPages!smc_answer(c) \/ CallPages!free_pages(c) \/ CallPages!send_to_user(c)
      PROVE  taken' \subseteq Callers /\ dangling' \subseteq Callers /\ CallPages!SharedPageOwn'
  BY <1>4 DEF CallPages!smc_answer, CallPages!free_pages, CallPages!send_to_user
<1>5. ASSUME NEW c \in Callers, CallPages!smc_service(c)
      PROVE  taken' \subseteq Callers /\ dangling' \subseteq Callers /\ CallPages!SharedPageOwn'
  BY <1>5 DEF CallPages!smc_service
<1>6. ASSUME NEW c \in Callers, CallPages!copy_ctrl(c)
      PROVE  taken' \subseteq Callers /\ dangling' \subseteq Callers /\ CallPages!SharedPageOwn'
  BY <1>6 DEF CallPages!copy_ctrl
<1>7. ASSUME NEW c \in Callers, CallPages!copy_ctrl_no_memory(c)
      PROVE  taken' \subseteq Callers /\ dangling' \subseteq Callers /\ CallPages!SharedPageOwn'
  BY <1>7 DEF CallPages!copy_ctrl_no_memory
<1> QED
  BY <1>1, <1>2, <1>3, <1>4, <1>5, <1>6, <1>7 DEF CallPages!Next

\* A page is written by the call that holds it, or when it is allocated.
LEMMA PageWritten ==
  ASSUME NULL \notin Pages, PagesInv, AnswerInv, NEW d \in Callers, dangling = {},
         \/ CallPages!smc_answer(d) \/ CallPages!smc_service(d)
  PROVE  \A p \in Pages : content'[p] = content[p] \/ p \in CallPages!Held(d)
BY DEF PagesInv, PageTypes, AnswerInv, CallPages!SharedPageOwn, CallPages!smc_answer,
  CallPages!smc_service, CallPages!Set, CallPages!Held

\* Every step keeps the answer of call c in its page until it is copied.
LEMMA AnswerStep ==
  ASSUME NULL \notin Pages, PagesInv, AnswerInv, [CallPages!Next]_(CallPages!vars)
  PROVE  AnswerInv'
<1> DEFINE Kept(c) ==
      /\ caller_pc[c] = "free" /\ dangling = {} => content[teemem[c]] = CallPages!Answer(c)
      /\ caller_pc[c] = "send" /\ c \notin taken =>
           /\ teemem[c] \in free
           /\ dangling = {} => content[teemem[c]] = CallPages!Answer(c)
      /\ caller_pc[c] = "user" /\ teemem[c] # NULL /\ c \notin taken /\ dangling = {} =>
           caller_got[c] = CallPages!Answer(c)
<1>1. taken' \subseteq Callers /\ dangling' \subseteq Callers /\ CallPages!SharedPageOwn'
  BY SharedStep
<1>2. (\A c \in Callers : Kept(c)) /\ ((\A c \in Callers : Kept(c)') => AnswerInv')
  BY <1>1 DEF AnswerInv, CallPages!AnswerReachesCaller
<1>3. \A c \in Callers : caller_pc[c] = "free" =>
        teemem[c] \in Pages /\ teemem[c] \in CallPages!Held(c) /\ teemem[c] \notin free
  BY DEF PagesInv, CallHolds, CallPages!InCall, CallPages!Held
<1>4. \A c, d \in Callers : c # d /\ caller_pc[c] = "free" /\ CallPages!InCall(d) =>
        teemem[c] \notin CallPages!Held(d)
  BY <1>3 DEF PagesInv, HoldsApart, CallPages!InCall
<1>5. \A d \in Callers : CallPages!InCall(d) => CallPages!Held(d) \cap free = {}
  BY DEF PagesInv, CallHolds
<1> SUFFICES ASSUME NEW c \in Callers PROVE Kept(c)'
  BY <1>1, <1>2
<1>6. CASE UNCHANGED CallPages!vars
  BY <1>2, <1>6 DEF CallPages!vars, CallPages!Answer
<1> USE DEF PagesInv, PageTypes, CallPages!Answer, CallPages!Goto, CallPages!Set, CallPages!locals
<1>7. CASE CallPages!alloc_pages \/ CallPages!__free_pages
  BY <1>2, <1>3, <1>7 DEF CallPages!alloc_pages, CallPages!__free_pages, CallPages!Losers
<1>8. ASSUME NEW d \in Callers, CallPages!tee_process(d)
      PROVE  Kept(c)'
  BY <1>2, <1>3, <1>8, SMTT(30) DEF CallPages!tee_process, CallPages!Losers
<1>9. ASSUME NEW d \in Callers, CallPages!smc_answer(d)
      PROVE  Kept(c)'
  <2>1. CASE c = d
    BY <1>9, <2>1 DEF CallPages!smc_answer, CallPages!InCall, CallHolds
  <2>2. CASE c # d
    <3>1. dangling = {} => \A p \in Pages : content'[p] = content[p] \/ p \in CallPages!Held(d)
      BY <1>9, PageWritten
    <3>2. CallPages!InCall(d) /\ free \subseteq free'
      BY <1>9 DEF CallPages!smc_answer, CallPages!InCall
    <3>3. caller_pc'[c] = caller_pc[c] /\ UNCHANGED <<teemem, caller_calls, caller_got, taken, dangling>>
      BY <1>9, <2>2 DEF CallPages!smc_answer
    <3> QED
      BY <1>2, <1>3, <1>4, <1>5, <2>2, <3>1, <3>2, <3>3
  <2> QED
    BY <2>1, <2>2
<1>10. ASSUME NEW d \in Callers, CallPages!smc_service(d)
       PROVE  Kept(c)'
  <2>1. CASE c = d
    BY <1>10, <2>1 DEF CallPages!smc_service
  <2>2. CASE c # d
    <3>1. dangling = {} => \A p \in Pages : content'[p] = content[p] \/ p \in CallPages!Held(d)
      BY <1>10, PageWritten
    <3>2. CallPages!InCall(d)
      BY <1>10 DEF CallPages!smc_service, CallPages!InCall
    <3>3. /\ caller_pc'[c] = caller_pc[c]
          /\ UNCHANGED <<free, teemem, caller_calls, caller_got, taken, dangling>>
      BY <1>10, <2>2 DEF CallPages!smc_service
    <3> QED
      BY <1>2, <1>3, <1>4, <1>5, <2>2, <3>1, <3>2, <3>3
  <2> QED
    BY <2>1, <2>2
<1>11. ASSUME NEW d \in Callers, CallPages!copy_ctrl(d)
       PROVE  Kept(c)'
  BY <1>2, <1>3, <1>11 DEF CallPages!copy_ctrl, CallPages!Losers
<1>12. ASSUME NEW d \in Callers, CallPages!copy_ctrl_no_memory(d)
       PROVE  Kept(c)'
  BY <1>2, <1>3, <1>12 DEF CallPages!copy_ctrl_no_memory
<1>13. ASSUME NEW d \in Callers, CallPages!free_pages(d)
       PROVE  Kept(c)'
  BY <1>2, <1>3, <1>13 DEF CallPages!free_pages
<1>14. ASSUME NEW d \in Callers, CallPages!send_to_user(d)
       PROVE  Kept(c)'
  BY <1>2, <1>3, <1>14 DEF CallPages!send_to_user
<1> QED
  BY <1>6, <1>7, <1>8, <1>9, <1>10, <1>11, <1>12, <1>13, <1>14 DEF CallPages!Next

\* For any number of calls at a time and of pages, with the rest of the kernel
\* taking and returning pages as it likes and with allocations that fail: the
\* secure world is given a control page of the call's own unless an allocation
\* failed in it (tee_logic.c:136), and the caller gets the answer to its own
\* request unless somebody took the page between free and copy
\* (tee_logic.c:329) or a call went on with a freed control page.
THEOREM AnswersReachCaller == CallPages!Spec => []AnswerReachesCaller
<1>1. CallPages!Init => AnswerInv
  BY DEF CallPages!Init, AnswerInv, CallPages!SharedPageOwn, CallPages!AnswerReachesCaller
<1>2. PagesInv /\ AnswerInv /\ [CallPages!Next]_(CallPages!vars) => AnswerInv'
  BY AnswerStep, NormalWorldAssumption
<1>3. AnswerInv => AnswerReachesCaller
  BY DEF AnswerInv, AnswerReachesCaller
<1>4. CallPages!Spec => []PagesInv
  BY PagesInvariance, NormalWorldAssumption
<1> QED
  BY <1>1, <1>2, <1>3, <1>4, PTL DEF CallPages!Spec
=============================================================================
