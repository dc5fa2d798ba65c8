----------------------------- MODULE ListCalls -----------------------------
(***************************************************************************)
(* linked_list.c under any sequence of calls by its users.  call is a      *)
(* history variable: the function called last and what it returned, which  *)
(* is all that a user sees of the list.  BoundedRing says what it promises *)
(* that user; ImplementsRing that the pointers keep the promise.           *)
(***************************************************************************)
EXTENDS LinkedList

VARIABLE call

callVars == <<listVars, call>>

CallInit == ListInit /\ call = <<"list_create", NULL>>

(* list_push returns false for a full list, and when malloc has no memory. *)
CallPush(x) ==
  \/ \E n \in Addr : list_push(x, n) /\ call' = <<"list_push", TRUE>>
  \/ UNCHANGED listVars /\ call' = <<"list_push", FALSE>>

(* list_pop hands out the item of the node it freed, NULL for an empty list. *)
CallPop ==
  \/ list_pop /\ call' = <<"list_pop", item[tail]>>
  \/ list_is_empty /\ UNCHANGED listVars /\ call' = <<"list_pop", NULL>>

CallRemove(node) == /\ list_remove(node)
                    /\ call' = <<"list_remove", item[node]>>

CallPrioritise(node) == /\ list_prioritise(node)
                        /\ call' = <<"list_prioritise", NULL>>

CallDestroy == list_destroy /\ call' = <<"list_destroy", NULL>>

CallNext == \/ \E x \in Item : CallPush(x)
            \/ CallPop
            \/ \E node \in Allocated : CallRemove(node) \/ CallPrioritise(node)
            \/ CallDestroy

CallSpec == CallInit /\ [][CallNext]_callVars

-----------------------------------------------------------------------------
(* What the users of the list see of it. *)
Contents == [i \in 1..Len(order) |-> item[order[i]]]

(* linked_list.c implements a bounded FIFO sequence, call by call: list_push
   appends, list_pop removes the oldest item and returns that item,
   list_remove deletes and returns the item of the node it is given and keeps
   the order of the others, and list_prioritise rotates. *)
Ring == INSTANCE BoundedRing WITH ring <- Contents
ImplementsRing == Ring!RingSpec

=============================================================================
