----------------------------- MODULE LockedList -----------------------------
(***************************************************************************)
(* locked_list.c: a ring of nodes without a sentinel, head pointing to its *)
(* first element or NULL.  A list is a record [head, next, prev, data]; its *)
(* functions run under its mutex, on one CPU that switches threads only at  *)
(* yields, so each is one step.                                             *)
(***************************************************************************)
EXTENDS Pointers, Naturals, Sequences, FiniteSets

CONSTANT Nodes   \* addresses of struct list_element, numbered as they are allocated

locked_list_init ==
  [head |-> NULL, next |-> [n \in Nodes |-> NULL], prev |-> [n \in Nodes |-> NULL],
   data |-> [n \in Nodes |-> NULL]]

locked_list_is_empty(ll) == ll.head = NULL

link(ll, prev, next, node) ==
  [ll EXCEPT !.prev[next] = node, !.next[node] = next, !.prev[node] = prev, !.next[prev] = node]

unlink(ll, node) ==
  [ll EXCEPT !.prev[ll.next[node]] = ll.prev[node], !.next[ll.prev[node]] = ll.next[node],
             !.next[node] = node, !.prev[node] = node]

locked_list_add(ll, node, data) ==
  LET new == [ll EXCEPT !.data[node] = data]
  IN  IF locked_list_is_empty(ll)
      THEN [new EXCEPT !.head = node, !.next[node] = node, !.prev[node] = node]
      ELSE link(new, ll.prev[ll.head], ll.head, node)

\* The elements in the order of next, from the head until the head again.
Steps(ll) == LET at[i \in 0 .. Cardinality(Nodes)] == IF i = 0 THEN ll.head ELSE ll.next[at[i - 1]] IN at

Length(ll) ==
  IF ll.head = NULL THEN 0
  ELSE CHOOSE i \in 1 .. Cardinality(Nodes) :
         Steps(ll)[i] = ll.head /\ \A j \in 1 .. (i - 1) : Steps(ll)[j] # ll.head

\* locked_list_iter_init and locked_list_iter_next: every element, once.
Elements(ll) == [i \in 1 .. Length(ll) |-> Steps(ll)[i - 1]]

\* list_for_each starts behind its head, which in a list of list.c is no
\* element: here the first one is never looked at.
find_data(ll, data) ==
  LET found == {i \in 2 .. Length(ll) : ll.data[Elements(ll)[i]] = data}
  IN  IF found = {} THEN NULL
      ELSE Elements(ll)[CHOOSE i \in found : \A j \in found : i <= j]

remove(ll, node) ==
  LET head == IF node # ll.head THEN ll.head
              ELSE IF ll.next[ll.head] = ll.head THEN NULL ELSE ll.next[ll.head]
  IN  [unlink(ll, node) EXCEPT !.head = head]

locked_list_remove_match(ll, data) ==
  IF find_data(ll, data) = NULL THEN ll ELSE remove(ll, find_data(ll, data))
=============================================================================
