---------------------------- MODULE CtrlMailbox ----------------------------
(***************************************************************************)
(* The control mailbox of the driver (ctrl_mem.c) between a call that waits *)
(* for the daemon and the daemon, with what Andix leaves out: ctrl_mutex,   *)
(* copies that fail and a daemon that dies and is started again.            *)
(*                                                                          *)
(* Every function of the mailbox runs under ctrl_mutex, so each is one step *)
(* that needs it free.  cleanup_ctrl does nothing: shared_ctrl_mem, which   *)
(* it tests, is never set.                                                  *)
(***************************************************************************)
EXTENDS Naturals

CONSTANTS
  NULL,
  Copies,         \* TRUE: copies to and from the daemon's memory succeed
  Crashes,        \* TRUE: the daemon may die
  MAX_REQUESTS    \* a bound on the file operations of the secure world

VARIABLES
  ctrl_mutex,     \* NULL, or "daemon"
  pending,        \* the state of the mailbox
  page,           \* the control page ctrlspace points to: request, and
                  \* whether the response is in it
  client_pc,      \* "secure": no file operation; "push", "poll"; "back"
  daemon_pc,      \* "poll", "dispatch", "push"; "dead"
  comm,           \* the daemon's copy of the page
  executed        \* how often the daemon executed each request

vars == <<ctrl_mutex, pending, page, client_pc, daemon_pc, comm, executed>>

Requests == 1 .. MAX_REQUESTS
Page(n, done) == [n |-> n, done |-> done]

-----------------------------------------------------------------------------
(* tz_process_ctrl_mem                                                      *)

\* A monitor call comes back with the next file operation.
ctrl_struct ==
  /\ client_pc \in {"secure", "back"} /\ page.n < MAX_REQUESTS
  /\ page' = Page(page.n + 1, FALSE)
  /\ client_pc' = "push"
  /\ UNCHANGED <<ctrl_mutex, pending, daemon_pc, comm, executed>>

\* CTRL_IDLE -> CTRL_PENDING_FROM_S; the result is not looked at.
push_ctrl_task_from_s ==
  /\ client_pc = "push" /\ ctrl_mutex = NULL
  /\ pending' = IF pending = "CTRL_IDLE" THEN "CTRL_PENDING_FROM_S" ELSE pending
  /\ client_pc' = "poll"
  /\ UNCHANGED <<ctrl_mutex, page, daemon_pc, comm, executed>>

\* CTRL_RESPONSE_FROM_NS -> CTRL_IDLE; before that the client schedules.
poll_ctrl_task_to_s ==
  /\ client_pc = "poll" /\ ctrl_mutex = NULL
  /\ pending = "CTRL_RESPONSE_FROM_NS"
  /\ pending' = "CTRL_IDLE"
  /\ client_pc' = "back"
  /\ UNCHANGED <<ctrl_mutex, page, daemon_pc, comm, executed>>

-----------------------------------------------------------------------------
(* dispatcher_loop and its ioctls                                           *)

\* Mutant: the mailbox goes on before the copy, as if it could not fail.
poll_ctrl_task_to_ns_again ==
  /\ daemon_pc = "poll" /\ ctrl_mutex = NULL
  /\ pending \in {"CTRL_PENDING_FROM_S", "CTRL_PENDING_IN_NS"}
  /\ comm' = page
  /\ pending' = "CTRL_PENDING_IN_NS"
  /\ daemon_pc' = "dispatch"
  /\ UNCHANGED <<ctrl_mutex, page, client_pc, executed>>

\* CTRL_PENDING_FROM_S -> CTRL_PENDING_IN_NS; without a request the daemon
\* sleeps and polls again.
poll_ctrl_task_to_ns ==
  /\ daemon_pc = "poll" /\ ctrl_mutex = NULL
  /\ pending = "CTRL_PENDING_FROM_S"
  /\ comm' = page
  /\ pending' = "CTRL_PENDING_IN_NS"
  /\ daemon_pc' = "dispatch"
  /\ UNCHANGED <<ctrl_mutex, page, client_pc, executed>>

dispatch_ctrl ==
  /\ daemon_pc = "dispatch"
  /\ executed' = [executed EXCEPT ![comm.n] = @ + 1]
  /\ comm' = [comm EXCEPT !.done = TRUE]
  /\ daemon_pc' = "push"
  /\ UNCHANGED <<ctrl_mutex, pending, page, client_pc>>

\* Mutant: a push that finds nothing to answer does not go back to polling.
push_ctrl_task_from_ns_silent ==
  /\ daemon_pc = "push" /\ ctrl_mutex = NULL
  /\ page' = IF pending = "CTRL_PENDING_IN_NS" THEN comm ELSE page
  /\ daemon_pc' = "poll"
  /\ UNCHANGED <<ctrl_mutex, pending, client_pc, comm, executed>>

\* CTRL_PENDING_IN_NS -> CTRL_RESPONSE_FROM_NS
push_ctrl_task_from_ns ==
  /\ daemon_pc = "push" /\ ctrl_mutex = NULL
  /\ IF pending = "CTRL_PENDING_IN_NS"
     THEN page' = comm /\ pending' = "CTRL_RESPONSE_FROM_NS"
     ELSE UNCHANGED <<page, pending>>
  /\ daemon_pc' = "poll"
  /\ UNCHANGED <<ctrl_mutex, client_pc, comm, executed>>

\* A copy fails: both functions return -1 without mutex_unlock, and the
\* daemon, which ignores it, polls again.
copy_failed ==
  /\ ~Copies /\ ctrl_mutex = NULL
  /\ \/ daemon_pc = "poll" /\ pending = "CTRL_PENDING_FROM_S"
     \/ daemon_pc = "push" /\ pending = "CTRL_PENDING_IN_NS"
  /\ ctrl_mutex' = "daemon"
  /\ daemon_pc' = "poll"
  /\ UNCHANGED <<pending, page, client_pc, comm, executed>>

\* The daemon ends (a signal, an error) and is started again.  One that waits
\* for ctrl_mutex cannot end, and a mutex left locked stays locked.  A daemon
\* that polled TZ_CTRL_OP_DEXIT, which nobody sends, leaves dispatcher_loop
\* without a push as well: it ends at "dispatch".
die ==
  /\ Crashes /\ daemon_pc # "dead"
  /\ ctrl_mutex = NULL
  /\ daemon_pc' = "dead"
  /\ comm' = Page(0, FALSE)
  /\ UNCHANGED <<ctrl_mutex, pending, page, client_pc, executed>>

main ==
  /\ daemon_pc = "dead"
  /\ daemon_pc' = "poll"
  /\ UNCHANGED <<ctrl_mutex, pending, page, client_pc, comm, executed>>

-----------------------------------------------------------------------------

\* initialize_ctrl
Init ==
  /\ ctrl_mutex = NULL /\ pending = "CTRL_IDLE"
  /\ page = Page(0, FALSE) /\ comm = Page(0, FALSE)
  /\ client_pc = "secure" /\ daemon_pc \in {"poll", "dead"}
  /\ executed = [n \in Requests |-> 0]

client_step == push_ctrl_task_from_s \/ poll_ctrl_task_to_s
daemon_step == poll_ctrl_task_to_ns \/ dispatch_ctrl \/ push_ctrl_task_from_ns \/ main

Next == ctrl_struct \/ client_step \/ daemon_step \/ copy_failed \/ die

\* Linux runs both processes, and a daemon that ended is started again.  A
\* daemon that dies over and over is not fair to anyone: strong fairness says
\* that it comes through a poll, a file operation and a push in the end.
Spec ==
  /\ Init /\ [][Next]_vars
  /\ WF_vars(client_step) /\ WF_vars(main)
  /\ SF_vars(poll_ctrl_task_to_ns) /\ SF_vars(dispatch_ctrl) /\ SF_vars(push_ctrl_task_from_ns)

-----------------------------------------------------------------------------

\* A failed copy left ctrl_mutex locked; the daemon died with the request, and
\* CTRL_PENDING_IN_NS remembers a request that nobody has.
MutexKept == ctrl_mutex # NULL
RequestLost == pending = "CTRL_PENDING_IN_NS" /\ comm.n # page.n

\* The loop of tz_process_ctrl_mem around poll_ctrl_task_to_s ends, and the
\* call that waits for the daemon is continued, unless a copy failed or the
\* daemon died between its poll and its push.  A daemon that dies at any other
\* point, starts late or was never there when the request came loses nothing.
WaiterServed == client_pc = "poll" ~> client_pc = "back" \/ MutexKept \/ RequestLost

\* No file operation of the secure world is executed twice, and one that is
\* continued was executed, with its own response in the control page: however
\* the daemon dies and is started again.
ExecutedOnce ==
  /\ \A n \in Requests : executed[n] <= 1
  /\ client_pc = "back" => executed[page.n] = 1 /\ page.done
=============================================================================
