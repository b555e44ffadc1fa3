----------------------------- MODULE ClientLib -----------------------------
(***************************************************************************)
(* The client library inside one process (tz_application_library): its     *)
(* threads share one communication page, comm, and take turns on it with   *)
(* commMutex.  The driver and the secure world below the ioctl are one     *)
(* step that answers, refuses or fails; TeeClient and Andix look into it.  *)
(***************************************************************************)
EXTENDS Integers

CONSTANTS
  Threads,      \* the threads of the process
  NULL,
  Refused,      \* the operations the secure world may answer with an error
  Ioctls,       \* FALSE: an ioctl may fail (no memory in the driver)
  Devices,      \* FALSE: the device may be missing
  Returns,      \* what a void function may leave as its result
  MAX_CALLS     \* a bound on the calls of a thread

VARIABLES
  commMutex,    \* the thread that holds it, NULL if none
  comm,         \* the communication page, NULL before getCommSpace
  tee_fd,       \* 0: not opened; 3: open; -1: open failed
  pc,           \* of a thread: "idle", "lock", "fill", "ioctl", "back"
  op,           \* the operation of its current or latest call
  calls,        \* the calls it made
  answer,       \* what the secure world or the driver answered to the call
  got           \* what the call returned

vars == <<commMutex, comm, tee_fd, pc, op, calls, answer, got>>

Ops == {"init", "fin", "reg", "rel", "open", "close", "invoke"}
WithResult == {"init", "reg", "open", "invoke"}
WithOrigin == {"open", "invoke"}
WithOperation == {"open", "invoke"}
Origins == {"COMMS", "TEE", "TRUSTED_APP"}

\* A call's number stands for the handle that is answered to it.
Handle(t) == <<t, calls[t]>>

\* What malloc returns holds anything.  origin is the word that
\* openSession.returnOrigin names; invokeCommand.returnOrigin is another.
FreshPages == [ret : {"SUCCESS", "ERROR"}, handle : {<<NULL, 0>>}, origin : {"garbage"}, invoked : {"garbage"}]

NoAnswer == [ret |-> "none", handle |-> <<NULL, 0>>, origin |-> "none"]

Goto(t, l) == pc' = [pc EXCEPT ![t] = l]

-----------------------------------------------------------------------------

\* A thread calls TEEC_...; arguments that are NULL are refused before the
\* lock and change nothing.
call(t, o) ==
  /\ pc[t] = "idle" /\ calls[t] < MAX_CALLS
  /\ calls' = [calls EXCEPT ![t] = @ + 1]
  /\ op' = [op EXCEPT ![t] = o]
  /\ answer' = [answer EXCEPT ![t] = NoAnswer]
  /\ got' = [got EXCEPT ![t] = NoAnswer]
  /\ Goto(t, "lock")
  /\ UNCHANGED <<commMutex, comm, tee_fd>>

lockComm(t) ==
  /\ pc[t] = "lock" /\ commMutex = NULL
  /\ commMutex' = t
  /\ Goto(t, "fill")
  /\ UNCHANGED <<comm, tee_fd, op, calls, answer, got>>

\* The first call opens the device and allocates the page.  When the device
\* cannot be opened doexit cleans up, which closes nothing, and the page is
\* allocated nevertheless: no later call tries to open the device again.
openTEEDevice == tee_fd' \in IF tee_fd # 0 THEN {tee_fd} ELSE {3} \cup IF Devices THEN {} ELSE {-1}

getCommSpace ==
  IF comm = NULL
  THEN openTEEDevice /\ comm' \in FreshPages
  ELSE UNCHANGED <<tee_fd, comm>>

\* The rest of a call that reports r and gives the page back.
unlockComm(t, r) ==
  /\ commMutex' = NULL
  /\ got' = [got EXCEPT ![t] = r]
  /\ Goto(t, "idle")

\* Mutant: the return after a bad parameter forgets unlockComm.
refuse_locked(t) ==
  /\ pc[t] = "fill" /\ op[t] \in WithOperation
  /\ getCommSpace
  /\ answer' = [answer EXCEPT ![t] = [NoAnswer EXCEPT !.ret = "BAD_PARAMETERS", !.origin = "COMMS"]]
  /\ got' = [got EXCEPT ![t] = answer'[t]]
  /\ Goto(t, "idle")
  /\ UNCHANGED <<commMutex, op, calls>>

\* preProcessParameters meets an unknown parameter type.
refuse(t) ==
  /\ pc[t] = "fill" /\ op[t] \in WithOperation
  /\ getCommSpace
  /\ answer' = [answer EXCEPT ![t] = [NoAnswer EXCEPT !.ret = "BAD_PARAMETERS", !.origin = "COMMS"]]
  /\ unlockComm(t, answer'[t])
  /\ UNCHANGED <<op, calls>>

\* The request is in the page; nothing clears ret or an origin in it.
fill(t) ==
  /\ pc[t] = "fill"
  /\ getCommSpace
  /\ Goto(t, "ioctl")
  /\ UNCHANGED <<commMutex, op, calls, answer, got>>

\* The ioctl fails: the page stays as it is, and nobody looks at the result.
processComm_failed(t) ==
  /\ pc[t] = "ioctl"
  /\ tee_fd = -1 \/ ~Ioctls
  /\ Goto(t, "back")
  /\ UNCHANGED <<commMutex, comm, tee_fd, op, calls, answer, got>>

\* Mutant: processComm gives commMutex back for the time of the ioctl.
processComm_unlocked(t) ==
  /\ pc[t] = "ioctl" /\ tee_fd = 3
  /\ \E r \in {"SUCCESS"} \cup IF op[t] \in Refused THEN {"ERROR"} ELSE {} :
       /\ answer' = [answer EXCEPT ![t] = [ret |-> r, handle |-> Handle(t), origin |-> "TEE"]]
       /\ comm' = [comm EXCEPT !.ret = r, !.handle = IF r = "SUCCESS" THEN Handle(t) ELSE @]
  /\ commMutex' = NULL
  /\ Goto(t, "back")
  /\ UNCHANGED <<tee_fd, op, calls, got>>

\* The driver (COMMS), the TEE task (TEE) or the trustlet answer; only the
\* last two write an origin, each into the field of the operation.
processComm(t) ==
  /\ pc[t] = "ioctl" /\ tee_fd = 3
  /\ \E r \in {"SUCCESS"} \cup IF op[t] \in Refused THEN {"ERROR"} ELSE {},
        o \in IF op[t] \in WithOrigin THEN Origins ELSE {"none"} :
       /\ r = "SUCCESS" => o \in {"TRUSTED_APP", "none"}
       /\ answer' = [answer EXCEPT ![t] = [ret |-> r, handle |-> Handle(t), origin |-> o]]
       /\ comm' = [comm EXCEPT !.ret = r,
                               !.handle = IF r = "SUCCESS" THEN Handle(t) ELSE @,
                               !.origin = IF op[t] = "open" /\ o # "COMMS" THEN o ELSE @,
                               !.invoked = IF op[t] = "invoke" /\ o # "COMMS" THEN o ELSE @]
  /\ Goto(t, "back")
  /\ UNCHANGED <<commMutex, tee_fd, op, calls, got>>

\* TEEC_InitializeContext and TEEC_RegisterSharedMemory return an error
\* without unlockComm.
return_locked(t) ==
  /\ pc[t] = "back" /\ op[t] \in {"init", "reg"} /\ comm.ret # "SUCCESS"
  /\ got' = [got EXCEPT ![t] = [NoAnswer EXCEPT !.ret = comm.ret]]
  /\ Goto(t, "idle")
  /\ UNCHANGED <<commMutex, comm, tee_fd, op, calls, answer>>

\* TEEC_InvokeCommand compares the result of postProcessParameters, which
\* returns none, with TEEC_SUCCESS.
return_void(t) ==
  /\ pc[t] = "back" /\ op[t] = "invoke" /\ "garbage" \in Returns
  /\ unlockComm(t, [NoAnswer EXCEPT !.ret = "BAD_PARAMETERS", !.origin = "COMMS"])
  /\ UNCHANGED <<comm, tee_fd, op, calls, answer>>

\* The returns that take result, handle and origin from the page; a command
\* too reads openSession.returnOrigin.
return(t) ==
  /\ pc[t] = "back"
  /\ op[t] \in {"init", "reg"} => comm.ret = "SUCCESS"
  /\ op[t] = "invoke" => "TEEC_SUCCESS" \in Returns
  /\ unlockComm(t, [ret |-> comm.ret, handle |-> comm.handle,
                    origin |-> IF op[t] \in WithOrigin THEN comm.origin ELSE "none"])
  /\ UNCHANGED <<comm, tee_fd, op, calls, answer>>

-----------------------------------------------------------------------------

Init ==
  /\ commMutex = NULL /\ comm = NULL /\ tee_fd = 0
  /\ pc = [t \in Threads |-> "idle"]
  /\ op = [t \in Threads |-> "close"]
  /\ calls = [t \in Threads |-> 0]
  /\ answer = [t \in Threads |-> NoAnswer]
  /\ got = [t \in Threads |-> NoAnswer]

step(t) ==
  \/ lockComm(t) \/ refuse(t) \/ fill(t)
  \/ processComm_failed(t) \/ processComm(t)
  \/ return_locked(t) \/ return_void(t) \/ return(t)

Next == \E t \in Threads : (\E o \in Ops : call(t, o)) \/ step(t)

\* A thread that can run runs; an ioctl comes back (Andix: RequestsServed).
\* The calls are bounded, so that weak fairness is enough for the lock.
Spec == Init /\ [][Next]_vars /\ \A t \in Threads : WF_vars(step(t))

-----------------------------------------------------------------------------

Done(t) == pc[t] = "idle" /\ op[t] \in WithResult /\ calls[t] > 0

\* A TEEC_ call that an ioctl answered reports the result of its own answer,
\* whichever calls of other threads used the page before and after, were
\* refused, failed or kept the lock.  Left open are a call that no ioctl
\* answered, which reports what is in the page (nobody looks at the result of
\* processComm), and a command for which postProcessParameters, which returns
\* nothing, happens to leave an error.
AnswerDelivered ==
  \A t \in Threads : Done(t) /\ answer[t].ret # "none" =>
    \/ got[t].ret = answer[t].ret
    \/ op[t] = "invoke" /\ got[t].ret = "BAD_PARAMETERS" /\ "garbage" \in Returns

\* Whatever fails, is refused or keeps the lock: the handle of a successful
\* call that was answered is the one in its own answer, never one another
\* thread's call left in the page.
HandleOwn ==
  \A t \in Threads :
    Done(t) /\ answer[t].ret = "SUCCESS" /\ got[t].ret = "SUCCESS" => got[t].handle = answer[t].handle

\* returnOrigin of TEEC_OpenSession and TEEC_InvokeCommand names the layer
\* the result comes from.
OriginDelivered ==
  \A t \in Threads :
    Done(t) /\ op[t] \in WithOrigin /\ answer[t].ret # "none" => got[t].origin = answer[t].origin

\* The error returns of TEEC_InitializeContext and TEEC_RegisterSharedMemory
\* have left commMutex locked.
LockKept ==
  \E t \in Threads : commMutex = t /\ pc[t] = "idle" /\ op[t] \in {"init", "reg"} /\ got[t].ret = "ERROR"

\* As long as no context and no registration was refused every call returns:
\* every other path through the library, the failing ones too, gives
\* commMutex back.
CallsReturn == \A t \in Threads : <>LockKept \/ (pc[t] # "idle" ~> pc[t] = "idle")

\* The page belongs to the thread that holds commMutex.
TypeOK ==
  /\ commMutex \in Threads \cup {NULL} /\ tee_fd \in {0, 3, -1}
  /\ pc \in [Threads -> {"idle", "lock", "fill", "ioctl", "back"}]
  /\ \A t \in Threads : pc[t] \in {"fill", "ioctl", "back"} => commMutex = t
=============================================================================
