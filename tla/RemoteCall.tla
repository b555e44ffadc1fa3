----------------------------- MODULE RemoteCall -----------------------------
(***************************************************************************)
(* What a TEE call promises to a process of the normal world: a call is    *)
(* executed by the secure world exactly once and then returns, with the    *)
(* answer computed from this call's own request or with an error, as long  *)
(* as the secure world does not stop, which it may while it executes one.  *)
(* Nothing here says how: windows, mailbox and threads are Andix's         *)
(* business.                                                               *)
(***************************************************************************)
EXTENDS Naturals

CONSTANTS
  Clients,            \* the calling processes
  Ops,                \* the operations they may call
  Answers(_, _, _)    \* what call number b of client c with operation op may
                      \* be answered

VARIABLES
  phase,    \* of every client: "idle", "called" or "executed"
  call,     \* its current or latest call: operation and call bit
  answer,   \* in phase idle the answer of the latest call, else NoAnswer
  stopped   \* the secure world has stopped for good

CONSTANT NoAnswer

callVars == <<phase, call, answer, stopped>>

Init ==
  /\ phase = [c \in Clients |-> "idle"]
  /\ call \in [Clients -> [op : Ops, bit : {0}]]
  /\ answer = [c \in Clients |-> NoAnswer]
  /\ stopped = FALSE

Invoke(c) ==
  /\ phase[c] = "idle" /\ ~stopped
  /\ phase' = [phase EXCEPT ![c] = "called"]
  /\ \E op \in Ops :
       call' = [call EXCEPT ![c] = [op |-> op, bit |-> 1 - call[c].bit]]
  /\ answer' = [answer EXCEPT ![c] = NoAnswer]
  /\ UNCHANGED stopped

Execute(c) ==
  /\ phase[c] = "called" /\ ~stopped
  /\ phase' = [phase EXCEPT ![c] = "executed"]
  /\ UNCHANGED <<call, answer, stopped>>

Return(c) ==
  /\ phase[c] = "executed" /\ ~stopped
  /\ phase' = [phase EXCEPT ![c] = "idle"]
  /\ \E a \in Answers(c, call[c].bit, call[c].op) :
       answer' = [answer EXCEPT ![c] = a]
  /\ UNCHANGED <<call, stopped>>

\* The secure world stops in the middle of a call.
Stop(c) ==
  /\ phase[c] = "executed" /\ ~stopped
  /\ stopped' = TRUE
  /\ UNCHANGED <<phase, call, answer>>

Next == \E c \in Clients : Invoke(c) \/ Execute(c) \/ Return(c) \/ Stop(c)

Spec ==
  /\ Init /\ [][Next]_callVars
  /\ \A c \in Clients : WF_callVars(Execute(c)) /\ WF_callVars(Return(c))
=============================================================================
