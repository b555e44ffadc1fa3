---------------------------- MODULE FileHandles ----------------------------
(***************************************************************************)
(* The file handles of a trustlet's process (user_process.c, swi_newlib.c) *)
(* as they are kept: a locked_list of pointers to blocks of the kernel heap *)
(* that are freed and used again.  CryptoFs takes them for a function from  *)
(* descriptors to files; here is what the list makes of that.               *)
(***************************************************************************)
EXTENDS LockedList

CONSTANTS
  Blocks,   \* heap blocks of the size of a task_file_handle_t
  Fds       \* descriptors, numbers from proc_get_next_fd's first one on

ASSUME HandlesAssumption ==
  /\ IsFiniteSet(Nodes) /\ Nodes = 1 .. Cardinality(Nodes)
  /\ NULL \notin Nat /\ NULL \notin Blocks /\ Fds \subseteq Nat

VARIABLES
  files,    \* proc->files
  nodes,    \* list nodes that are allocated
  block,    \* what a block is: "free", "handle", "other"
  user_fd,  \* the word in a block that is the descriptor in a handle
  open,     \* the block swi_open returned a descriptor for, NULL if closed
  others    \* TRUE in the behaviours in which the rest of the kernel uses such
            \* blocks too

handle_vars == <<files, nodes, block, user_fd, open, others>>

-----------------------------------------------------------------------------

\* The first handle in the list with the descriptor; the pointers are
\* followed whatever the blocks are by now.
proc_get_fhandle(ll, fd) ==
  LET hits == {i \in 1 .. Length(ll) : user_fd[ll.data[Elements(ll)[i]]] = fd}
  IN  IF hits = {} THEN NULL
      ELSE ll.data[Elements(ll)[CHOOSE i \in hits : \A j \in hits : i <= j]]

\* Mutant: the number of handles gives the next descriptor.
proc_get_next_fd_count(ll) == {fd \in Fds : Cardinality({g \in Fds : g < fd}) = Length(ll)}

\* The lowest descriptor that no handle has.
proc_get_next_fd(ll) ==
  {fd \in Fds : /\ proc_get_fhandle(ll, fd) = NULL
                /\ \A g \in Fds : g < fd => proc_get_fhandle(ll, g) # NULL}

\* swi_open: the handle may get any block; until its descriptor is stored the
\* block holds what it held before.
swi_open ==
  \E hdl \in Blocks, fd \in proc_get_next_fd(files) :
    LET node == Cardinality(nodes) + 1 IN
    /\ block[hdl] = "free" /\ node \in Nodes
    /\ block' = [block EXCEPT ![hdl] = "handle"]
    /\ user_fd' = [user_fd EXCEPT ![hdl] = fd]
    /\ files' = locked_list_add(files, node, hdl)
    /\ nodes' = nodes \cup {node}
    /\ open' = [open EXCEPT ![fd] = hdl]
    /\ UNCHANGED others

\* swi_close, of any number a trustlet gives: the file is closed, the handle
\* taken out of the list if it is found there, its block freed.  Nothing frees
\* the list node.
swi_close(fd) ==
  LET hdl == proc_get_fhandle(files, fd)
  IN  /\ IF hdl = NULL
         THEN UNCHANGED <<files, block>>
         ELSE /\ files' = locked_list_remove_match(files, hdl)
              /\ block' = [block EXCEPT ![hdl] = "free"]
      /\ open' = [open EXCEPT ![fd] = NULL]
      /\ UNCHANGED <<nodes, user_fd, others>>

\* The rest of the kernel: a block and any value in the word.
kmalloc ==
  /\ others
  /\ \E b \in Blocks, w \in Fds :
       /\ block[b] = "free"
       /\ block' = [block EXCEPT ![b] = "other"]
       /\ user_fd' = [user_fd EXCEPT ![b] = w]
  /\ UNCHANGED <<files, nodes, open, others>>

kfree ==
  /\ \E b \in Blocks :
       block[b] = "other" /\ block' = [block EXCEPT ![b] = "free"]
  /\ UNCHANGED <<files, nodes, user_fd, open, others>>

-----------------------------------------------------------------------------

\* create_user_process; no block was used before.
HandlesInit ==
  /\ files = locked_list_init /\ nodes = {}
  /\ block = [b \in Blocks |-> "free"]
  /\ user_fd = [b \in Blocks |-> 0]
  /\ open = [fd \in Fds |-> NULL]
  /\ others \in BOOLEAN

HandlesNext == swi_open \/ (\E fd \in Fds : swi_close(fd)) \/ kmalloc \/ kfree

HandlesSpec == HandlesInit /\ [][HandlesNext]_handle_vars

-----------------------------------------------------------------------------

InList == {Elements(files)[i] : i \in 1 .. Length(files)}

\* link, unlink and remove keep proc->files a ring: next and prev are inverse
\* on its elements, and the elements are allocated nodes.
RingIntact ==
  /\ InList \subseteq nodes
  /\ \A n \in InList : files.next[files.prev[n]] = n /\ files.prev[files.next[n]] = n
  /\ Cardinality(InList) = Length(files)

\* The descriptor of an open file leads to its handle, however the files
\* before it were opened and closed and their blocks used again.
OpenLeads ==
  \A fd \in Fds : open[fd] # NULL =>
    proc_get_fhandle(files, fd) = open[fd] /\ block[open[fd]] = "handle"

\* The list of handles is a ring of allocated nodes, and an open descriptor leads
\* to the file it was returned for, as long as others do not use the blocks
\* (locked_list.c:33, user_process.c:198).
FdMeansFile == RingIntact /\ (~others => OpenLeads)

\* A descriptor that was closed leads to no handle: swi_close took it out of
\* the list before it freed the block.
ClosedIsClosed ==
  \A fd \in Fds : open[fd] = NULL =>
    \/ proc_get_fhandle(files, fd) = NULL
    \/ \E g \in Fds : open[g] = proc_get_fhandle(files, fd)

\* A file that is closed costs no memory: the list has a node per open file.
NodesReturned == Cardinality(nodes) = Cardinality({fd \in Fds : open[fd] # NULL})
=============================================================================
