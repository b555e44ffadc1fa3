----------------------------- MODULE Scheduler -----------------------------
(***************************************************************************)
(* The cooperative thread scheduler of the secure kernel                   *)
(* (kernel/scheduler.c): one CPU, a list of threads in creation order, the *)
(* current thread and every thread's state.  A thread runs until it makes  *)
(* a secure monitor call that switches to another one; nothing preempts    *)
(* it.  The operators below are the parts of one such call that touch the  *)
(* scheduler; the modules that extend this one use them in their actions.  *)
(***************************************************************************)
EXTENDS Naturals, Sequences

CONSTANT
  Trustlets,    \* the user processes of the secure world, one thread each
  NULL          \* the null pointer

\* The kernel threads: entry_main_task, the service task, the TEE task, and
\* the thread whose context is the whole non-secure operating system.
KernelThreads == {"main", "service", "tee", "ns"}
Threads == KernelThreads \cup Trustlets

\* thread_state_t; SLEEPING and DEAD are declared and never assigned.
States == {"READY", "RUNNING", "BLOCKED"}

ASSUME ThreadsAssumption ==
  /\ Trustlets \cap KernelThreads = {}
  /\ NULL \notin Threads

VARIABLES
  current_thread,   \* the thread the CPU runs
  state,            \* thread_t.state of every thread
  thread_list       \* the scheduler's list of threads, in creation order

schedVars == <<current_thread, state, thread_list>>

SchedTypeOK ==
  /\ current_thread \in Threads
  /\ state \in [Threads -> States]
  /\ thread_list \in Seq(Threads)

\* get_current_thread()->state = s, made by the thread that runs, before it
\* gives the CPU away in the same step.
Become(s) == [state EXCEPT ![current_thread] = s]

\* Mutant: the thread that loses the CPU keeps its state.
sched_thread_switched_keeps_state(st, thread) ==
  /\ current_thread' = thread
  /\ state' = [st EXCEPT ![thread] = "RUNNING"]

\* sched_thread_switched: the thread that loses the CPU becomes READY only
\* if it was RUNNING, so one that called itself BLOCKED stays BLOCKED.
sched_thread_switched(st, thread) ==
  /\ current_thread' = thread
  /\ state' = [t \in Threads |->
                 IF t = thread THEN "RUNNING"
                 ELSE IF t = current_thread /\ st[t] = "RUNNING" THEN "READY"
                 ELSE st[t]]

\* sched_get_next_ready_thread, "the completely unfair scheduler": the first
\* READY thread of the list, always searched from its head.
sched_get_next_ready_thread(list, st) ==
  LET ready == {i \in DOMAIN list : st[list[i]] = "READY"}
  IN  IF ready = {} THEN NULL
      ELSE list[CHOOSE i \in ready : \A j \in ready : i <= j]

\* sched_add_thread: a new thread is READY and last in the list.
sched_add_thread(thread) == thread_list' = Append(thread_list, thread)

\* switch_to_thread: SSC_TASK_SWITCH, ignored for a NULL thread.
switch_to_thread(st, thread) ==
  IF thread = NULL
  THEN state' = st /\ UNCHANGED current_thread
  ELSE sched_thread_switched(st, thread)

\* yield: SSC_TASK_SCHEDULE.  When no thread is READY the call returns to
\* the caller, which keeps the CPU in whatever state it gave itself.
yield(list, st) ==
  switch_to_thread(st, sched_get_next_ready_thread(list, st))
=============================================================================
