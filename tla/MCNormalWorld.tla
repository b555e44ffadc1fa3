--------------------------- MODULE MCNormalWorld ---------------------------
(***************************************************************************)
(* NormalWorld with a fourth part for TLC: the pages of calls again, with  *)
(* fewer pages, which the rest of the kernel takes and returns.            *)
(***************************************************************************)
EXTENDS NormalWorld, TLC

CONSTANT FewPages

Crowded == INSTANCE DriverPages WITH
             pc <- caller_pc, calls <- caller_calls, got <- caller_got,
             MAX_CALLS <- DRIVER_CALLS, Pages <- FewPages, Others <- TRUE

MCInit ==
  \/ NInit
  \/ part = "crowded" /\ Library!Init /\ Mailbox!Init /\ daemon_pc = "poll" /\ Crowded!Init

MCNext ==
  \/ NNext
  \/ part = "crowded" /\ Crowded!Next /\ UNCHANGED <<part, library_vars, mailbox_vars>>

\* Threads, callers and pages are interchangeable.
Symmetry ==
  Permutations(Threads) \cup Permutations(Callers)
    \cup Permutations(FewPages) \cup Permutations(Pages \ FewPages)

MCSpec == MCInit /\ [][MCNext]_<<part, library_vars, mailbox_vars, page_vars>>
=============================================================================
