---------------------------- MODULE BoundedRing ----------------------------
(***************************************************************************)
(* What a ZejfMeteo LinkedList promises its users: a bounded FIFO sequence *)
(* of items from which an item can also be deleted out of turn.  Index 1   *)
(* is the item list_pop takes and list_peek shows (the "tail" of the C     *)
(* list); list_push appends at the other end (the "head").  call is the    *)
(* function called last with what it returned, so that a pop differs from  *)
(* a list_remove and may take nothing but the oldest item.                 *)
(*                                                                         *)
(* rx_queue and tx_queue (zejf_network.c), data_queue (zejf_data.c), the   *)
(* request queue (data_request.c) and the client list (server.c) are all   *)
(* such sequences; the modules of those components use this view.          *)
(***************************************************************************)
EXTENDS SeqOps

CONSTANTS Item,      \* what the list may hold
          Capacity,  \* the argument of list_create
          NULL       \* what a function without a result returns

VARIABLES ring,      \* the items, oldest first
          call

ringVars == <<ring, call>>

RingInit == ring = << >> /\ call = <<"list_create", NULL>>

Push(x) == /\ Len(ring) < Capacity
           /\ ring' = Append(ring, x)
           /\ call' = <<"list_push", TRUE>>

PushRefused == ring' = ring /\ call' = <<"list_push", FALSE>>

Pop == /\ ring # << >>
       /\ ring' = Without(ring, 1)
       /\ call' = <<"list_pop", ring[1]>>

PopNothing == /\ ring = << >>
              /\ ring' = ring
              /\ call' = <<"list_pop", NULL>>

Remove(i) == /\ ring' = Without(ring, i)
             /\ call' = <<"list_remove", ring[i]>>

Rotate(i) == /\ ring' = Rotated(ring, i)
             /\ call' = <<"list_prioritise", NULL>>

Clear == ring' = << >> /\ call' = <<"list_destroy", NULL>>

RingNext == \/ \E x \in Item : Push(x)
            \/ PushRefused
            \/ Pop
            \/ PopNothing
            \/ \E i \in 1..Len(ring) : Remove(i) \/ Rotate(i)
            \/ Clear

RingSpec == RingInit /\ [][RingNext]_ringVars

=============================================================================
