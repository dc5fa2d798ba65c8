----------------------------- MODULE LinkedList -----------------------------
(***************************************************************************)
(* linked_list.c: a bounded, circular, doubly linked list.  Every queue of *)
(* the system is one.  This module holds the operations and the invariants *)
(* of the pointers; ListCalls is the list on its own under any sequence of *)
(* calls, and Network uses the operations inside its own actions.          *)
(* The model is at the level of the pointers: Addr is the set of addresses *)
(* malloc can return for a Node, and next, previous and item are the       *)
(* fields of the nodes.  The fields of memory that is not allocated hold   *)
(* NULL, so that a read through a freed pointer shows.                     *)
(*                                                                         *)
(* order is a history variable: the nodes from tail to head.  No operation *)
(* depends on it (list_destroy names the nodes its walk visits by it);     *)
(* RingOK says that the pointers always agree with it.                     *)
(***************************************************************************)
EXTENDS SeqOps, FiniteSets

CONSTANTS Addr, NULL, Item, Capacity

ASSUME ListAssumption == /\ Capacity \in Nat \ {0}
                         /\ NULL \notin Addr
                         /\ NULL \notin Item

VARIABLES next, previous, item,   \* the fields of struct Node
          head, tail, item_count, \* the fields of struct LinkedList
          order

listVars == <<next, previous, item, head, tail, item_count, order>>

(* the nodes malloc has returned and free has not taken back *)
Allocated == {a \in Addr : next[a] # NULL}

list_is_full_late == item_count > Capacity

list_is_full == item_count = Capacity

list_is_empty == item_count = 0

(* list_create *)
ListInit == /\ next = [a \in Addr |-> NULL]
            /\ previous = [a \in Addr |-> NULL]
            /\ item = [a \in Addr |-> NULL]
            /\ head = NULL
            /\ tail = NULL
            /\ item_count = 0
            /\ order = << >>

-----------------------------------------------------------------------------
(* list_push(list, x) when malloc returns node n: the node is linked in
   between head and tail and becomes the head.  A full list, or a malloc that
   fails, leaves the list as it is. *)
list_push(x, n) ==
  /\ ~list_is_full
  /\ n \in Addr \ Allocated
  /\ item' = [item EXCEPT ![n] = x]
  /\ next' = IF head = NULL THEN [next EXCEPT ![n] = n]
                            ELSE [next EXCEPT ![head] = n, ![n] = tail]
  /\ previous' = IF head = NULL
                   THEN [previous EXCEPT ![n] = n]
                   ELSE [previous EXCEPT ![n] = head, ![tail] = n]
  /\ head' = n
  /\ tail' = IF head = NULL THEN n ELSE tail
  /\ item_count' = item_count + 1
  /\ order' = Append(order, n)

-----------------------------------------------------------------------------
(* The two pointers of the list after list_remove(list, node). *)
HeadAfterRemove(node) ==
  IF node = tail /\ node = head THEN NULL
  ELSE IF node = tail THEN head
  ELSE IF node = head THEN previous[node] ELSE head

TailAfterRemove(node) ==
  IF node = tail /\ node = head THEN NULL
  ELSE IF node = tail THEN next[node] ELSE tail

(* list_remove(list, node) for a node of the list: unlink, then free. *)
list_remove(node) ==
  /\ head' = HeadAfterRemove(node)
  /\ tail' = TailAfterRemove(node)
  /\ next' = [next EXCEPT ![previous[node]] = next[node], ![node] = NULL]
  /\ previous' = [previous EXCEPT ![next[node]] = previous[node],
                                  ![node] = NULL]
  /\ item' = [item EXCEPT ![node] = NULL]
  /\ item_count' = item_count - 1
  /\ order' = Without(order, IndexOf(order, node))

(* list_pop: list_remove(list, list->tail); nothing for an empty list. *)
list_pop_head == /\ tail # NULL
                 /\ list_remove(head)

list_pop == /\ tail # NULL
            /\ list_remove(tail)

(* list_prioritise(list, node): the ring stays, the two ends move.  It makes
   node the next one to be popped. *)
list_prioritise_tail_only(node) ==
  /\ tail' = node
  /\ order' = Rotated(order, IndexOf(order, node))
  /\ UNCHANGED <<next, previous, item, head, item_count>>

list_prioritise(node) ==
  /\ tail' = node
  /\ head' = previous[node]
  /\ order' = Rotated(order, IndexOf(order, node))
  /\ UNCHANGED <<next, previous, item, item_count>>

(* list_destroy frees every node by following next from tail once around;
   the list is gone until the next list_create. *)
list_destroy ==
  LET freed == {order[i] : i \in 1..Len(order)} IN
  /\ next' = [a \in Addr |-> IF a \in freed THEN NULL ELSE next[a]]
  /\ previous' = [a \in Addr |-> IF a \in freed THEN NULL ELSE previous[a]]
  /\ item' = [a \in Addr |-> IF a \in freed THEN NULL ELSE item[a]]
  /\ head' = NULL
  /\ tail' = NULL
  /\ item_count' = 0
  /\ order' = << >>

-----------------------------------------------------------------------------
(* Type invariant of the list: the pointer fields hold addresses or NULL, and
   item_count never leaves 0..Capacity (list_is_full compares with ==, so a
   count that overshot would never be full again). *)
ListTypeOK ==
  /\ next \in [Addr -> Addr \cup {NULL}]
  /\ previous \in [Addr -> Addr \cup {NULL}]
  /\ item \in [Addr -> Item \cup {NULL}]
  /\ head \in Addr \cup {NULL}
  /\ tail \in Addr \cup {NULL}
  /\ item_count \in 0..Capacity
  /\ order \in Seq(Addr)

Succ(i) == IF i = Len(order) THEN 1 ELSE i + 1

(* The nodes of order, and no others, are allocated, each once. *)
OrderCoversHeap ==
  /\ \A a \in Addr : next[a] # NULL => \E i \in 1..Len(order) : order[i] = a
  /\ \A i \in 1..Len(order) : next[order[i]] # NULL
  /\ \A i, j \in 1..Len(order) : order[i] = order[j] => i = j

(* The pointers of linked_list.c form exactly one ring through all allocated
   nodes: following next from tail visits order and returns to tail, previous
   is its inverse, head is the node before tail, and item_count is the number
   of nodes.  (Traversals such as network_interface_removed and hour_find stop
   only because of this; list_remove and list_prioritise must keep it.) *)
RingOK ==
  /\ OrderCoversHeap
  /\ item_count = Len(order)
  /\ \A i \in 1..Len(order) : /\ next[order[i]] = order[Succ(i)]
                              /\ previous[order[Succ(i)]] = order[i]
  /\ IF order = << >> THEN head = NULL /\ tail = NULL
                      ELSE head = order[Len(order)] /\ tail = order[1]

=============================================================================
