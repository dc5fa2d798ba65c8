--------------------------- MODULE NetworkProofs ---------------------------
(***************************************************************************)
(* Proofs about the packet queues of Network, for every queue size, every  *)
(* set of devices, interfaces and messages, and any result of sending.     *)
(*                                                                         *)
(* NetInv is inductive: the list is one ring (ListInv), the routing table  *)
(* is well formed (RoutingInv), and the pointers the loops and the cursor  *)
(* keep across steps point to queued packets (QueuesOK).  The effect of    *)
(* the list and table operations comes from LinkedListProofs and           *)
(* RoutingProofs.                                                          *)
(***************************************************************************)
EXTENDS Network, LinkedListProofs, RoutingProofs

(* the loops know where they are *)
LoopOK == /\ pc = "fanout" => fan >= 1
          /\ pc = "sweep" => node # NULL

QueuesOK ==
  /\ next_packet \in Addr \cup {NULL}
  /\ rx_queue \in Seq(Received) /\ Len(rx_queue) <= RX_QUEUE_SIZE
  /\ pc \in {"idle", "fanout", "sweep"}
  /\ fan \in 0..(ROUTING_TABLE_SIZE + 1)
  /\ node \in Addr \cup {NULL}
  /\ removed \in Interface \cup {NULL}
  /\ CursorLive
  /\ LoopOK

(* every node of tx_queue holds a packet *)
ItemsOK == \A a \in Addr : next[a] # NULL => item[a] \in Item

NetInv == ListInv /\ ItemsOK /\ RoutingInv /\ QueuesOK

(* list_push leaves the queued packets alone and adds one. *)
LEMMA PushFrame ==
  ASSUME ListInv, ItemsOK, NEW x \in Item, NEW n \in Addr, list_push(x, n)
  PROVE  /\ ListInv' /\ ItemsOK'
         /\ \A a \in Addr : next[a] # NULL => next'[a] # NULL /\ item'[a] = item[a]
         /\ \A a \in Addr : next'[a] # NULL => a = n \/ next[a] # NULL
         /\ next'[n] # NULL /\ item'[n] = x
<1>1. ListInv'
  BY ListPush
<1>2. /\ n \in Addr /\ next[n] = NULL
      /\ next \in [Addr -> Addr \cup {NULL}] /\ item \in [Addr -> Item \cup {NULL}]
      /\ head \in Addr \cup {NULL} /\ tail \in Addr \cup {NULL}
  BY DEF list_push, Allocated, ListInv, ListTypeOK
<1>5. head # NULL => tail \in Addr
  <2>1. CASE order = << >>
    BY <2>1 DEF ListInv, RingOK
  <2>2. CASE order # << >>
    <3>1. order \in Seq(Addr) /\ tail = order[1]
      BY <2>2 DEF ListInv, ListTypeOK, RingOK
    <3> QED  BY <2>2, <3>1
  <2> QED  BY <2>1, <2>2
<1>3. \A a \in Addr : next[a] # NULL => item'[a] = item[a]
  BY <1>2 DEF list_push
<1>4. \A a \in Addr : next[a] # NULL => next'[a] # NULL
  BY <1>2, <1>5, ListAssumption DEF list_push
<1>6. \A a \in Addr : next'[a] # NULL => a = n \/ next[a] # NULL
  BY <1>2, <1>5, ListAssumption DEF list_push, ListInv, RingOK, OrderCoversHeap
<1>7. item'[n] = x
  BY <1>2 DEF list_push
<1>8. next'[n] # NULL
  BY <1>2, <1>5, ListAssumption DEF list_push
<1> QED  BY <1>1, <1>3, <1>4, <1>6, <1>7, <1>8 DEF ItemsOK

(* list_remove frees its node and no other. *)
LEMMA RemoveFrame ==
  ASSUME ListInv, ItemsOK, NEW n \in Addr, next[n] # NULL, list_remove(n)
  PROVE  /\ ListInv' /\ ItemsOK'
         /\ next[n] \in Addr /\ next[next[n]] # NULL
         /\ \A a \in Addr : a # n /\ next[a] # NULL => next'[a] # NULL
         /\ \A a \in Addr : next'[a] # NULL => next[a] # NULL /\ item'[a] = item[a]
<1>1. ListInv'
  BY ListRemove
<1> DEFINE k == Len(order)
           r == IndexOf(order, n)
<1>2. /\ r \in 1..k /\ order[r] = n /\ k \in Nat
  BY NodeIndex
<1>3. next[n] = order[Succ(r)] /\ Succ(r) \in 1..k
  BY <1>2 DEF ListInv, RingOK, Succ
<1>4. next[n] \in Addr /\ next[next[n]] # NULL
  BY <1>3 DEF ListInv, ListTypeOK, RingOK, OrderCoversHeap
<1>5. \A a \in Addr : a # n /\ next[a] # NULL => next'[a] # NULL
  BY <1>4, ListAssumption DEF list_remove, ListInv, ListTypeOK
<1>6. \A a \in Addr : next'[a] # NULL => next[a] # NULL /\ item'[a] = item[a]
  <2> DEFINE P == IF r = 1 THEN k ELSE r - 1
  <2>1. P \in 1..k /\ Succ(P) = r
    BY <1>2 DEF Succ
  <2>2. previous[n] = order[P] /\ next[order[P]] # NULL
    BY <1>2, <2>1 DEF ListInv, RingOK, OrderCoversHeap
  <2>3. \A a \in Addr : next'[a] # NULL => a # n /\ next[a] # NULL
    BY <2>2, ListAssumption DEF list_remove, ListInv, ListTypeOK
  <2>4. \A a \in Addr : a # n => item'[a] = item[a]
    BY DEF list_remove, ListInv, ListTypeOK
  <2> QED  BY <2>3, <2>4
<1> QED  BY <1>1, <1>4, <1>5, <1>6 DEF ItemsOK

(* packet_remove moves the cursor off the node before it is freed. *)
LEMMA PacketRemove ==
  ASSUME ListInv, ItemsOK, NEW cursor \in Addr \cup {NULL},
         cursor # NULL => next[cursor] # NULL,
         NEW n \in Addr, next[n] # NULL, packet_remove(cursor, n)
  PROVE  /\ ListInv' /\ ItemsOK'
         /\ next_packet' \in Addr \cup {NULL}
         /\ next_packet' # NULL => next'[next_packet'] # NULL
<1>1. list_remove(n) /\ next_packet' = CursorAfterRemove(cursor, n)
  BY DEF packet_remove
<1>2. /\ ListInv' /\ ItemsOK'
      /\ next[n] \in Addr /\ next[next[n]] # NULL
      /\ \A a \in Addr : a # n /\ next[a] # NULL => next'[a] # NULL
  BY <1>1, RemoveFrame
<1> QED  BY <1>1, <1>2 DEF CursorAfterRemove

(* The packet network_send_tx works on is queued. *)
LEMMA CursorQueued ==
  ASSUME NetInv, TxReady
  PROVE  Cursor \in Addr /\ next[Cursor] # NULL /\ item[Cursor] \in Packet
<1>1. order # << >> /\ Len(order) \in Nat /\ order \in Seq(Addr)
  BY DEF NetInv, ListInv, ListTypeOK, RingOK, TxReady, list_is_empty
<1>2. 1 \in 1..Len(order) /\ tail = order[1]
  BY <1>1 DEF NetInv, ListInv, RingOK
<1>3. tail \in Addr /\ next[tail] # NULL
  BY <1>1, <1>2 DEF NetInv, ListInv, RingOK, OrderCoversHeap
<1>4. Cursor \in Addr /\ next[Cursor] # NULL
  BY <1>3 DEF Cursor, NetInv, QueuesOK, CursorLive
<1> QED  BY <1>4, NetworkAssumption DEF NetInv, ItemsOK

(* What a step that runs no loop has to show. *)
LEMMA IdleStep ==
  ASSUME NetInv, ListInv', ItemsOK', RoutingInv',
         pc = "idle", UNCHANGED loopVars,
         next_packet' \in Addr \cup {NULL},
         next_packet' # NULL => next'[next_packet'] # NULL,
         rx_queue' \in Seq(Received) /\ Len(rx_queue') <= RX_QUEUE_SIZE
  PROVE  NetInv'
BY DEF NetInv, QueuesOK, CursorLive, LoopOK, loopVars

(* The list is left alone. *)
LEMMA SameList ==
  ASSUME ListInv, ItemsOK, UNCHANGED listVars
  PROVE  /\ ListInv' /\ ItemsOK'
         /\ \A a \in Addr : next[a] # NULL => next'[a] # NULL /\ item'[a] = item[a]
BY DEF listVars, ListInv, ListTypeOK, RingOK, OrderCoversHeap, Succ, ItemsOK

(* The routing table is left alone. *)
LEMMA SameRoutes ==
  ASSUME RoutingInv, UNCHANGED routingVars
  PROVE  RoutingInv'
BY DEF routingVars, RoutingInv, RoutingTypeOK, RoutesUnique

(* network_send_packet drops a packet or queues it, and disturbs no other. *)
LEMMA EnqueueOK ==
  ASSUME NetInv, NEW p \in Packet, Enqueue(p)
  PROVE  /\ ListInv' /\ ItemsOK'
         /\ rx_queue' \in Seq(Received) /\ Len(rx_queue') <= RX_QUEUE_SIZE
         /\ \A a \in Addr : next[a] # NULL => next'[a] # NULL /\ item'[a] = item[a]
<1>0. ListInv /\ ItemsOK /\ rx_queue \in Seq(Received) /\ Len(rx_queue) <= RX_QUEUE_SIZE
  BY DEF NetInv, QueuesOK
<1>1. CASE Dropped(p)
  BY <1>0, <1>1, SameList DEF Enqueue
<1>2. CASE ~Dropped(p) /\ p.to = DEVICE_ID
  <2>1. /\ rx_queue' = Append(rx_queue, [from |-> p.from, command |-> p.command])
        /\ UNCHANGED listVars
    BY <1>2 DEF Enqueue
  <2>2. [from |-> p.from, command |-> p.command] \in Received
    BY DEF Packet, Received
  <2>3. Len(rx_queue) # RX_QUEUE_SIZE
    BY <1>2 DEF Dropped, QueueFull
  <2>4. rx_queue' \in Seq(Received) /\ Len(rx_queue') <= RX_QUEUE_SIZE
    BY <1>0, <2>1, <2>2, <2>3, NetworkAssumption
  <2> QED  BY <1>0, <2>1, <2>4, SameList
<1>3. CASE ~Dropped(p) /\ p.to # DEVICE_ID
  <2>1. rx_queue' = rx_queue /\ \E n \in Addr : list_push(p, n)
    BY <1>3 DEF Enqueue
  <2>2. p \in Item
    BY NetworkAssumption
  <2> QED  BY <1>0, <2>1, <2>2, PushFrame
<1> QED  BY <1>1, <1>2, <1>3

(* A packet this device makes is a packet. *)
LEMMA Prepared ==
  ASSUME NEW to \in Address, NEW command \in Command
  PROVE  network_prepare_packet(to, command) \in Packet
BY RoutingAssumption, NetworkAssumption DEF network_prepare_packet, Packet, Address

(* network_accept keeps the queues and the table in order, for any packet. *)
LEMMA AcceptInv ==
  ASSUME NetInv, NEW m \in Inbound, NEW f \in Interface, network_accept(m, f)
  PROVE  NetInv'
<1> DEFINE p == Arrived(m, f)
<1>0. /\ pc = "idle" /\ UNCHANGED loopVars /\ next_packet' = next_packet
      /\ m.ttl + 1 < PACKET_MAX_TTL
  BY DEF network_accept
<1>1. m \in Message
  BY NetworkAssumption
<1>2. m.ttl + 1 \in 0..(PACKET_MAX_TTL - 1) /\ m.ttl + 1 \in Distance
  BY <1>0, <1>1, RoutingAssumption DEF Message, Distance
<1>3. p \in Packet
  BY <1>1, <1>2, NetworkAssumption DEF Arrived, Message, Packet
<1>4. /\ p.from \in Device /\ p.source = f /\ p.ttl = m.ttl + 1
  BY <1>1 DEF Arrived, Message
<1> HIDE DEF p
<1>5. CASE accept_id_request(p)
  BY <1>0, <1>5, SameList, SameRoutes, IdleStep
     DEF accept_id_request, NetInv, QueuesOK, CursorLive
<1>6. CASE process_rip_packet(p, m.flags)
  <2>1. RoutingInv'
    BY <1>2, <1>4, <1>6, UpdateInv DEF process_rip_packet, NetInv
  <2> QED  BY <1>0, <1>6, <2>1, SameList, IdleStep
           DEF process_rip_packet, NetInv, QueuesOK, CursorLive
<1>7. CASE Enqueue(p) /\ UNCHANGED routingVars
  BY <1>0, <1>3, <1>7, EnqueueOK, SameRoutes, IdleStep DEF NetInv, QueuesOK, CursorLive
<1> QED  BY <1>5, <1>6, <1>7 DEF network_accept, p

(* The packets this device sends of its own accord. *)
LEMMA LocalInv ==
  ASSUME NetInv, NEW to \in LocalTargets, SendLocal(to)
  PROVE  NetInv'
<1>1. network_prepare_packet(to, "DATA_LOG") \in Packet
  BY Prepared, NetworkAssumption DEF Command
<1> QED  BY <1>1, EnqueueOK, SameRoutes, IdleStep
         DEF SendLocal, NetInv, QueuesOK, CursorLive

(* RIP packets are not queued. *)
LEMMA RoutingInfoInv == NetInv /\ network_send_routing_info => NetInv'
BY SameList, SameRoutes, IdleStep
   DEF network_send_routing_info, NetInv, QueuesOK, CursorLive

(* network_process_rx takes one packet out and may queue an answer. *)
LEMMA RxInv == NetInv /\ network_process_rx => NetInv'
<1> SUFFICES ASSUME NetInv, network_process_rx PROVE NetInv'
  OBVIOUS
<1>1. PICK p : p = Head(rx_queue)
  OBVIOUS
<1>2. /\ rx_queue \in Seq(Received) /\ rx_queue # << >>
      /\ Len(rx_queue) <= RX_QUEUE_SIZE /\ rx_queue' = Tail(rx_queue)
  BY DEF network_process_rx, NetInv, QueuesOK
<1>3. p \in Received
  BY <1>1, <1>2
<1>4. rx_queue' \in Seq(Received) /\ Len(rx_queue') <= RX_QUEUE_SIZE
  BY <1>2, NetworkAssumption
<1>5. network_prepare_packet(p.from, "TIME_CHECK") \in Item
  BY <1>3, Prepared, NetworkAssumption DEF Received, Command, Address
<1>6. \/ \E n \in Addr : list_push(network_prepare_packet(p.from, "TIME_CHECK"), n)
      \/ UNCHANGED listVars
  BY <1>1 DEF network_process_rx
<1>7. /\ ListInv' /\ ItemsOK'
      /\ \A a \in Addr : next[a] # NULL => next'[a] # NULL /\ item'[a] = item[a]
  BY <1>5, <1>6, PushFrame, SameList DEF NetInv
<1>8. RoutingInv'
  BY SameRoutes DEF network_process_rx, NetInv
<1> QED  BY <1>4, <1>7, <1>8, IdleStep
         DEF network_process_rx, NetInv, QueuesOK, CursorLive

-----------------------------------------------------------------------------
(* network_send_tx gets rid of the packet at the cursor. *)
LEMMA TxRemoveInv ==
  ASSUME NetInv, TxReady, packet_remove(Cursor, Cursor),
         UNCHANGED <<routingVars, rx_queue, loopVars>>
  PROVE  NetInv'
<1>1. PICK c \in Addr : c = Cursor /\ next[c] # NULL
  BY CursorQueued
<1>2. packet_remove(c, c)
  BY <1>1
<1>3. /\ ListInv' /\ ItemsOK'
      /\ next_packet' \in Addr \cup {NULL}
      /\ next_packet' # NULL => next'[next_packet'] # NULL
  BY <1>1, <1>2, PacketRemove DEF NetInv
<1>4. RoutingInv'
  BY SameRoutes DEF NetInv
<1> QED  BY <1>3, <1>4, IdleStep DEF NetInv, QueuesOK, TxReady

(* The packet after the cursor is queued too. *)
LEMMA NextQueued ==
  ASSUME NetInv, NEW c \in Addr, next[c] # NULL
  PROVE  next[c] \in Addr /\ next[next[c]] # NULL
<1> DEFINE k == Len(order)
           r == IndexOf(order, c)
<1>1. ListInv
  BY DEF NetInv
<1>2. r \in 1..k /\ order[r] = c /\ k \in Nat
  BY <1>1, NodeIndex
<1>3. next[c] = order[Succ(r)] /\ Succ(r) \in 1..k
  BY <1>1, <1>2 DEF ListInv, RingOK, Succ
<1> QED  BY <1>1, <1>3 DEF ListInv, ListTypeOK, RingOK, OrderCoversHeap

(* A packet that cannot be formatted stays, and the cursor moves on. *)
LEMMA UnformattedInv == NetInv /\ TxUnformatted => NetInv'
<1> SUFFICES ASSUME NetInv, TxUnformatted PROVE NetInv'
  OBVIOUS
<1>0. /\ TxReady /\ next_packet' = next[Cursor]
      /\ UNCHANGED <<listVars, routingVars, rx_queue, loopVars>>
  BY DEF TxUnformatted
<1>1. Cursor \in Addr /\ next[Cursor] # NULL
  BY <1>0, CursorQueued
<1>2. ListInv' /\ ItemsOK' /\ RoutingInv'
  BY <1>0, SameList, SameRoutes DEF NetInv
<1>3. next' = next /\ rx_queue' = rx_queue
  BY <1>0 DEF listVars
<1>4. next_packet' \in Addr /\ next'[next_packet'] # NULL
  BY <1>0, <1>1, <1>3, NextQueued
<1> QED  BY <1>0, <1>2, <1>3, <1>4, IdleStep DEF NetInv, QueuesOK, TxReady

(* A broadcast that fits starts the loop, with the cursor on it; one that does
   not fit stays, and the cursor moves on. *)
LEMMA BroadcastInv == NetInv /\ TxBroadcast => NetInv'
<1> SUFFICES ASSUME NetInv, TxBroadcast PROVE NetInv'
  OBVIOUS
<1>0. TxReady /\ item[Cursor].to = BROADCAST /\ UNCHANGED <<listVars, routingVars, rx_queue>>
  BY DEF TxBroadcast
<1>1. Cursor \in Addr /\ next[Cursor] # NULL
  BY <1>0, CursorQueued
<1>2. ListInv' /\ ItemsOK' /\ RoutingInv'
  BY <1>0, SameList, SameRoutes DEF NetInv
<1>3. next' = next /\ item' = item /\ rx_queue' = rx_queue
  BY <1>0 DEF listVars
<1>4. CASE FitsBroadcast(Len(routing_table))
  <2>1. /\ pc' = "fanout" /\ fan' = 1 /\ next_packet' = Cursor
        /\ node' = node /\ removed' = removed
    BY <1>4 DEF TxBroadcast
  <2>2. CursorLive' /\ LoopOK'
    BY <1>0, <1>1, <1>3, <2>1, ListAssumption DEF CursorLive, LoopOK
  <2>3. fan' \in 0..(ROUTING_TABLE_SIZE + 1)
    BY <2>1, RoutingAssumption
  <2> QED  BY <1>1, <1>2, <1>3, <2>1, <2>2, <2>3 DEF NetInv, QueuesOK
<1>5. CASE ~FitsBroadcast(Len(routing_table))
  <2>1. next_packet' = next[Cursor] /\ UNCHANGED loopVars
    BY <1>5 DEF TxBroadcast
  <2>2. next_packet' \in Addr /\ next'[next_packet'] # NULL
    BY <1>1, <1>3, <2>1, NextQueued
  <2> QED  BY <1>0, <1>2, <1>3, <2>1, <2>2, IdleStep DEF NetInv, QueuesOK, TxReady
<1> QED  BY <1>4, <1>5

(* One copy of a broadcast is queued; the broadcast stays where it is. *)
LEMMA FanoutInv == NetInv /\ Fanout => NetInv'
<1> SUFFICES ASSUME NetInv, Fanout PROVE NetInv'
  OBVIOUS
<1>1. PICK p : p = [network_prepare_packet(routing_table[fan].device_id,
                                           item[next_packet].command)
                      EXCEPT !.age = item[next_packet].age]
  OBVIOUS
<1>2. /\ next_packet \in Addr /\ next[next_packet] # NULL
      /\ item[next_packet].to = BROADCAST
      /\ item[next_packet] \in Packet
  BY NetworkAssumption DEF Fanout, NetInv, QueuesOK, CursorLive, ItemsOK
<1>3. /\ Len(routing_table) \in Nat /\ Len(routing_table) <= ROUTING_TABLE_SIZE
      /\ fan \in 1..Len(routing_table)
  BY DEF Fanout, NetInv, QueuesOK, LoopOK, RoutingInv, RoutingTypeOK
<1>4. routing_table[fan].device_id \in Device
  <2>1. routing_table[fan] \in Entry
    BY <1>3 DEF NetInv, RoutingInv, RoutingTypeOK
  <2> QED  BY <2>1 DEF Entry
<1>5. p \in Packet
  <2>1. item[next_packet].command \in Command
        /\ item[next_packet].age \in 0..PACKET_DELETE_TIMEOUT
    BY <1>2 DEF Packet
  <2>2. network_prepare_packet(routing_table[fan].device_id,
                               item[next_packet].command) \in Packet
    BY <1>4, <2>1, Prepared DEF Address
  <2> QED  BY <1>1, <2>1, <2>2 DEF Packet
<1>6. /\ ListInv' /\ ItemsOK'
      /\ rx_queue' \in Seq(Received) /\ Len(rx_queue') <= RX_QUEUE_SIZE
      /\ \A a \in Addr : next[a] # NULL => next'[a] # NULL /\ item'[a] = item[a]
  BY <1>1, <1>5, EnqueueOK DEF Fanout
<1>7. RoutingInv'
  BY SameRoutes DEF Fanout, NetInv
<1>8. /\ fan' \in 1..(ROUTING_TABLE_SIZE + 1) /\ next_packet' = next_packet
      /\ pc' = pc /\ node' = node /\ removed' = removed
  BY <1>3, RoutingAssumption DEF Fanout
<1>9. CursorLive' /\ LoopOK'
  BY <1>2, <1>6, <1>8 DEF CursorLive, LoopOK, NetInv, QueuesOK
<1>10. fan' \in 0..(ROUTING_TABLE_SIZE + 1)
  BY <1>8
<1> QED  BY <1>6, <1>7, <1>8, <1>9, <1>10 DEF NetInv, QueuesOK

(* The loop is over: the broadcast goes, the cursor moves on. *)
LEMMA FanoutEndInv == NetInv /\ FanoutEnd => NetInv'
<1> SUFFICES ASSUME NetInv, FanoutEnd PROVE NetInv'
  OBVIOUS
<1>1. PICK c \in Addr : c = next_packet /\ next[c] # NULL
  BY DEF FanoutEnd, NetInv, QueuesOK, CursorLive
<1>2. packet_remove(c, c)
  BY <1>1 DEF FanoutEnd
<1>3. /\ ListInv' /\ ItemsOK'
      /\ next_packet' \in Addr \cup {NULL}
      /\ next_packet' # NULL => next'[next_packet'] # NULL
  BY <1>1, <1>2, PacketRemove DEF NetInv
<1>4. RoutingInv'
  BY SameRoutes DEF FanoutEnd, NetInv
<1>5. /\ pc' = "idle" /\ fan' = 0 /\ UNCHANGED <<rx_queue, node, removed>>
  BY DEF FanoutEnd
<1>6. fan' \in 0..(ROUTING_TABLE_SIZE + 1)
  BY <1>5, RoutingAssumption
<1> QED  BY <1>3, <1>4, <1>5, <1>6 DEF NetInv, QueuesOK, CursorLive, LoopOK

(* Only fields of queued packets change. *)
LEMMA SameLinks ==
  ASSUME ListInv, UNCHANGED <<next, previous, head, tail, item_count, order>>,
         item' \in [Addr -> Item \cup {NULL}]
  PROVE  ListInv'
BY DEF ListInv, ListTypeOK, RingOK, OrderCoversHeap, Succ

(* A packet is sent, or stays queued with its destination and the cursor moves
   on. *)
LEMMA SendInv == NetInv /\ TxSend => NetInv'
<1> SUFFICES ASSUME NetInv, TxSend PROVE NetInv'
  OBVIOUS
<1>0. TxReady /\ HasRoute(item[Cursor].to) /\ UNCHANGED <<routingVars, rx_queue, loopVars>>
  BY DEF TxSend
<1>1. CASE packet_remove(Cursor, Cursor)
  BY <1>0, <1>1, TxRemoveInv
<1>2. CASE /\ item' = [item EXCEPT ![Cursor].destination
                           = RouteOf(item[Cursor].to).interface]
           /\ next_packet' = next[Cursor]
           /\ UNCHANGED <<next, previous, head, tail, item_count, order>>
  <2>1. Cursor \in Addr /\ next[Cursor] # NULL /\ item[Cursor] \in Packet
    BY <1>0, CursorQueued
  <2>2. RouteOf(item[Cursor].to).interface \in Interface
    <3>1. PICK i \in 1..Len(routing_table) :
            routing_table[i].device_id = item[Cursor].to
      BY <1>0 DEF HasRoute, routing_entry_find
    <3>2. RouteOf(item[Cursor].to) = routing_table[i]
      BY <3>1, RouteOfEntry DEF NetInv, RoutingInv
    <3>3. routing_table[i] \in Entry
      BY DEF NetInv, RoutingInv, RoutingTypeOK
    <3> QED  BY <3>2, <3>3 DEF Entry
  <2>3. [item[Cursor] EXCEPT !.destination = RouteOf(item[Cursor].to).interface]
          \in Item
    BY <2>1, <2>2, NetworkAssumption DEF Packet
  <2>4. /\ item \in [Addr -> Item \cup {NULL}]
        /\ item' = [item EXCEPT ![Cursor] =
              [item[Cursor] EXCEPT !.destination = RouteOf(item[Cursor].to).interface]]
    BY <1>2, <2>1 DEF NetInv, ListInv, ListTypeOK
  <2>5. item' \in [Addr -> Item \cup {NULL}] /\ ItemsOK'
    BY <1>2, <2>1, <2>3, <2>4 DEF ItemsOK, NetInv
  <2>6. ListInv' /\ RoutingInv'
    BY <1>0, <1>2, <2>5, SameLinks, SameRoutes DEF NetInv
  <2>7. next_packet' \in Addr /\ next'[next_packet'] # NULL
    BY <1>2, <2>1, NextQueued
  <2> QED  BY <1>0, <2>5, <2>6, <2>7, IdleStep DEF NetInv, QueuesOK, TxReady
<1> QED  BY <1>1, <1>2 DEF TxSend

-----------------------------------------------------------------------------
(* interface_removed changes only the table; the sweep starts at the tail. *)
LEMMA GoneInv ==
  ASSUME NetInv, NEW f \in Interface, InterfaceGone(f)
  PROVE  NetInv'
<1>0. /\ pc = "idle" /\ RemoveInterface(f) /\ UNCHANGED <<listVars, next_packet, rx_queue>>
  BY DEF InterfaceGone
<1>1. RoutingInv'
  <2>1. RoutingNext
    BY <1>0 DEF RoutingNext
  <2> QED  BY <2>1, RoutingStep DEF NetInv
<1>2. ListInv' /\ ItemsOK' /\ next' = next /\ item' = item
  BY <1>0, SameList DEF NetInv, listVars
<1>3. CASE UNCHANGED loopVars
  BY <1>0, <1>1, <1>2, <1>3, IdleStep DEF NetInv, QueuesOK, CursorLive
<1>4. CASE tail # NULL /\ pc' = "sweep" /\ node' = tail /\ removed' = f /\ fan' = fan
  <2>1. tail \in Addr \cup {NULL}
    BY DEF NetInv, ListInv, ListTypeOK
  <2>2. CursorLive' /\ LoopOK'
    BY <1>0, <1>2, <1>4 DEF NetInv, QueuesOK, CursorLive, LoopOK
  <2> QED  BY <1>0, <1>1, <1>2, <1>4, <2>1, <2>2 DEF NetInv, QueuesOK
<1> QED  BY <1>3, <1>4 DEF InterfaceGone

(* One iteration of network_interface_removed. *)
LEMMA SweepInv == NetInv /\ Sweep => NetInv'
<1> SUFFICES ASSUME NetInv, Sweep PROVE NetInv'
  OBVIOUS
<1>0. /\ pc = "sweep" /\ next[node] # NULL /\ UNCHANGED <<routingVars, rx_queue>>
  BY DEF Sweep
<1>1. PICK n \in Addr : n = node
  BY <1>0 DEF NetInv, QueuesOK, LoopOK
<1>2. next[n] \in Addr
  BY <1>0, <1>1, NextQueued
<1>3. PICK c \in Addr \cup {NULL} : c = next_packet /\ (c # NULL => next[c] # NULL)
  BY DEF NetInv, QueuesOK, CursorLive
<1>4. packet_remove(c, n) \/ UNCHANGED <<listVars, next_packet>>
  BY <1>1, <1>3 DEF Sweep
<1>5. /\ ListInv' /\ ItemsOK'
      /\ next_packet' \in Addr \cup {NULL}
      /\ next_packet' # NULL => next'[next_packet'] # NULL
  <2>1. CASE packet_remove(c, n)
    BY <1>0, <1>1, <1>3, <2>1, PacketRemove DEF NetInv
  <2>2. CASE UNCHANGED <<listVars, next_packet>>
    BY <1>3, <2>2, SameList DEF NetInv
  <2> QED  BY <1>4, <2>1, <2>2
<1>6. /\ node' \in Addr \cup {NULL} /\ removed' \in Interface \cup {NULL}
      /\ fan' = fan /\ pc' \in {"idle", "sweep"}
      /\ pc' = "sweep" => node' # NULL
  <2>1. \E last : SweepOn(next[n], last)
    BY <1>1 DEF Sweep
  <2> QED  BY <1>0, <1>2, <2>1, ListAssumption DEF SweepOn, NetInv, QueuesOK
<1>7. CursorLive' /\ LoopOK'
  BY <1>5, <1>6 DEF CursorLive, LoopOK
<1>8. RoutingInv'
  BY <1>0, SameRoutes DEF NetInv
<1> QED  BY <1>0, <1>5, <1>6, <1>7, <1>8 DEF NetInv, QueuesOK

(* The process is started again. *)
LEMMA RestartInv == NetInv /\ SweepFreed => NetInv'
<1> SUFFICES ASSUME NetInv, SweepFreed PROVE NetInv'
  OBVIOUS
<1>1. ListInv' /\ ItemsOK'
  <2>1. /\ next' = [a \in Addr |-> NULL] /\ previous' = [a \in Addr |-> NULL]
        /\ item' = [a \in Addr |-> NULL]
        /\ head' = NULL /\ tail' = NULL /\ item_count' = 0 /\ order' = << >>
    BY DEF SweepFreed
  <2> QED  BY <2>1, ListAssumption
           DEF ListInv, ListTypeOK, RingOK, OrderCoversHeap, ItemsOK
<1>2. RoutingInv'
  BY RoutingAssumption DEF SweepFreed, RoutingInv, RoutingTypeOK, RoutesUnique
<1>3. /\ next_packet' = NULL /\ rx_queue' = << >> /\ pc' = "idle" /\ fan' = 0
      /\ node' = NULL /\ removed' = NULL
  BY DEF SweepFreed
<1>4. /\ rx_queue' \in Seq(Received) /\ Len(rx_queue') <= RX_QUEUE_SIZE
      /\ fan' \in 0..(ROUTING_TABLE_SIZE + 1)
  BY <1>3, NetworkAssumption, RoutingAssumption
<1> QED  BY <1>1, <1>2, <1>3, <1>4 DEF NetInv, QueuesOK, CursorLive, LoopOK

(* Packets and routes grow older. *)
LEMMA ClockInv == NetInv /\ Tick => NetInv'
<1> SUFFICES ASSUME NetInv, Tick PROVE NetInv'
  OBVIOUS
<1>1. /\ pc = "idle" /\ RoutingTick
      /\ UNCHANGED <<next, previous, head, tail, item_count, order>>
      /\ UNCHANGED <<next_packet, rx_queue, loopVars>>
      /\ item' = [a \in Addr |-> IF item[a] = NULL THEN NULL
                    ELSE [item[a] EXCEPT !.age = Older(@, PACKET_DELETE_TIMEOUT)]]
  BY DEF Tick
<1>2. \A p \in Packet :
        [p EXCEPT !.age = Older(@, PACKET_DELETE_TIMEOUT)] \in Packet
  <2> SUFFICES ASSUME NEW p \in Packet
               PROVE  [p EXCEPT !.age = Older(@, PACKET_DELETE_TIMEOUT)] \in Packet
    OBVIOUS
  <2>1. Older(p.age, PACKET_DELETE_TIMEOUT) \in 0..PACKET_DELETE_TIMEOUT
    BY NetworkAssumption DEF Packet, Older
  <2> QED  BY <2>1 DEF Packet
<1>3. \A a \in Addr : /\ item[a] \in Packet \cup {NULL}
                      /\ item'[a] \in Packet \cup {NULL}
                      /\ item[a] \in Packet => item'[a] \in Packet
  <2>1. \A a \in Addr : item[a] \in Packet \cup {NULL}
    BY NetworkAssumption DEF NetInv, ListInv, ListTypeOK
  <2>2. NULL \notin Packet
    BY NetworkAssumption, ListAssumption
  <2> QED  BY <1>1, <1>2, <2>1, <2>2
<1>4. item' \in [Addr -> Item \cup {NULL}] /\ ItemsOK'
  BY <1>1, <1>3, NetworkAssumption DEF NetInv, ItemsOK
<1>5. ListInv' /\ RoutingInv'
  BY <1>1, <1>4, SameLinks, TickInv DEF NetInv
<1> QED  BY <1>1, <1>4, <1>5, IdleStep DEF NetInv, QueuesOK, CursorLive

(* An interface is added, or old routes are dropped: the queues stay. *)
LEMMA TableStepInv ==
  ASSUME NetInv, pc = "idle", RoutingNext,
         UNCHANGED <<listVars, next_packet, rx_queue, loopVars>>
  PROVE  NetInv'
<1>1. RoutingInv'
  BY RoutingStep DEF NetInv
<1>2. ListInv' /\ ItemsOK' /\ next' = next
  BY SameList DEF NetInv, listVars
<1> QED  BY <1>1, <1>2, IdleStep DEF NetInv, QueuesOK, CursorLive

(* Nothing happens. *)
LEMMA StutterInv == NetInv /\ UNCHANGED netVars => NetInv'
<1> SUFFICES ASSUME NetInv, UNCHANGED netVars PROVE NetInv'
  OBVIOUS
<1>1. /\ UNCHANGED listVars /\ UNCHANGED routingVars
      /\ UNCHANGED <<next, item, next_packet, rx_queue, pc, fan, node, removed>>
  BY DEF netVars, listVars, routingVars
<1>2. ListInv' /\ ItemsOK' /\ RoutingInv'
  BY <1>1, SameList, SameRoutes DEF NetInv
<1> QED  BY <1>1, <1>2 DEF NetInv, QueuesOK, CursorLive, LoopOK

(* network_init leaves empty queues. *)
LEMMA NetInitInv == NetInit => NetInv
<1> SUFFICES ASSUME NetInit PROVE NetInv
  OBVIOUS
<1>1. ListInv /\ RoutingInv
  BY ListInitInv, RoutingInitInv DEF NetInit
<1>2. ItemsOK
  BY DEF NetInit, ListInit, ItemsOK
<1>3. QueuesOK
  BY NetworkAssumption, RoutingAssumption
     DEF NetInit, QueuesOK, CursorLive, LoopOK
<1> QED  BY <1>1, <1>2, <1>3 DEF NetInv

(* Every function of zejf_network.c, and every iteration of its two loops,
   keeps the inductive invariant. *)
LEMMA NetStep == NetInv /\ [NetNext]_netVars => NetInv'
<1> SUFFICES ASSUME NetInv, [NetNext]_netVars PROVE NetInv'
  OBVIOUS
<1>1. ASSUME NEW m \in Inbound, NEW f \in Interface, network_accept(m, f)
      PROVE  NetInv'
  BY <1>1, AcceptInv
<1>2. ASSUME NEW to \in LocalTargets, SendLocal(to) PROVE NetInv'
  BY <1>2, LocalInv
<1>3. CASE network_send_routing_info
  BY <1>3, RoutingInfoInv
<1>4. CASE network_process_rx
  BY <1>4, RxInv
<1>5. CASE TxTimeout \/ TxNoRoute
  BY <1>5, TxRemoveInv DEF TxTimeout, TxNoRoute, TxRemove
<1>6. CASE TxBroadcast
  BY <1>6, BroadcastInv
<1>7. CASE TxSend \/ TxUnformatted
  BY <1>7, SendInv, UnformattedInv
<1>8. CASE Fanout \/ FanoutEnd
  BY <1>8, FanoutInv, FanoutEndInv
<1>9. ASSUME NEW f \in Interface, InterfaceGone(f) PROVE NetInv'
  BY <1>9, GoneInv
<1>10. ASSUME NEW f \in Interface, InterfaceNew(f) PROVE NetInv'
  <2>1. RoutingNext
    BY <1>10 DEF InterfaceNew, RoutingNext
  <2> QED  BY <1>10, <2>1, TableStepInv DEF InterfaceNew
<1>11. CASE Sweep \/ SweepFreed
  BY <1>11, SweepInv, RestartInv
<1>12. CASE CheckRoutes
  <2>1. RoutingNext
    BY <1>12 DEF CheckRoutes, RoutingNext
  <2> QED  BY <1>12, <2>1, TableStepInv DEF CheckRoutes
<1>13. CASE Tick
  BY <1>13, ClockInv
<1>14. CASE UNCHANGED netVars
  BY <1>14, StutterInv
<1> QED  BY <1>1, <1>2, <1>3, <1>4, <1>5, <1>6, <1>7, <1>8, <1>9, <1>10, <1>11,
            <1>12, <1>13, <1>14
         DEF NetNext

(* Whatever arrives, times out, is sent, expanded or swept, and wherever the two
   loops over tx_queue stand, the pointers of tx_queue form one ring over the
   queued packets, and next_packet, which network_send_tx dereferences without
   a check, is NULL or points to one of them. *)
THEOREM NetSafety == NetSpec => [](NetTypeOK /\ RingOK /\ CursorLive)
<1>1. NetInv => NetTypeOK /\ RingOK /\ CursorLive
  BY DEF NetInv, NetTypeOK, ListInv, RoutingInv, QueuesOK
<1> QED  BY <1>1, NetInitInv, NetStep, PTL DEF NetSpec

(* The type invariant of the queues, on its own. *)
THEOREM NetTypeSafety == NetSpec => []NetTypeOK
<1>1. NetTypeOK /\ RingOK /\ CursorLive => NetTypeOK
  OBVIOUS
<1> QED  BY <1>1, NetSafety, PTL

-----------------------------------------------------------------------------
(* What tx_queue holds.  A packet that network_send_packet lets through to
   tx_queue is for another device and knows where it came from, and RIP packets
   are never queued. *)
Queueable(p) == /\ p.to # DEVICE_ID
                /\ p.from # DEVICE_ID => p.source # NULL
                /\ p.command # "RIP"

AllQueueable == \A a \in Addr : next[a] # NULL => Queueable(item[a])

TxInv == NetInv /\ AllQueueable

(* A queued packet keeps its addresses; a new one is queueable. *)
OnlyQueueable ==
  \A a \in Addr : next'[a] # NULL =>
    \/ Queueable(item'[a])
    \/ /\ next[a] # NULL
       /\ item'[a].to = item[a].to /\ item'[a].from = item[a].from
       /\ item'[a].source = item[a].source /\ item'[a].command = item[a].command

(* network_send_packet queues queueable packets only. *)
LEMMA EnqueueAdds ==
  ASSUME NetInv, NEW p \in Packet, p.command # "RIP", Enqueue(p)
  PROVE  OnlyQueueable
<1>1. CASE UNCHANGED listVars
  BY <1>1 DEF listVars, OnlyQueueable
<1>2. CASE ~Dropped(p) /\ p.to # DEVICE_ID /\ \E n \in Addr : list_push(p, n)
  <2>1. PICK n \in Addr : list_push(p, n)
    BY <1>2
  <2>2. Queueable(p) /\ p \in Item
    BY <1>2, NetworkAssumption DEF Dropped, Queueable
  <2>3. /\ \A a \in Addr : next[a] # NULL => item'[a] = item[a]
        /\ \A a \in Addr : next'[a] # NULL => a = n \/ next[a] # NULL
        /\ item'[n] = p
    BY <2>1, <2>2, PushFrame DEF NetInv
  <2> QED  BY <2>2, <2>3 DEF OnlyQueueable
<1> QED  BY <1>1, <1>2 DEF Enqueue

(* Removing a packet adds none. *)
LEMMA RemoveAdds ==
  ASSUME NetInv, NEW cursor, NEW n \in Addr, next[n] # NULL, packet_remove(cursor, n)
  PROVE  OnlyQueueable
BY RemoveFrame DEF packet_remove, NetInv, OnlyQueueable

(* The steps of network_send_tx that get rid of the packet at the cursor. *)
LEMMA TxRemoveAdds ==
  ASSUME NetInv, TxReady, packet_remove(Cursor, Cursor)
  PROVE  OnlyQueueable
BY CursorQueued, RemoveAdds

(* Packets that are sent later keep what identifies them. *)
LEMMA SendAdds == NetInv /\ TxSend => OnlyQueueable
<1> SUFFICES ASSUME NetInv, TxSend PROVE OnlyQueueable
  OBVIOUS
<1>1. CASE packet_remove(Cursor, Cursor)
  BY <1>1, TxRemoveAdds DEF TxSend
<1>2. CASE /\ item' = [item EXCEPT ![Cursor].destination
                           = RouteOf(item[Cursor].to).interface]
           /\ UNCHANGED <<next, previous, head, tail, item_count, order>>
  <2>1. Cursor \in Addr /\ item[Cursor] \in Packet
    BY CursorQueued DEF TxSend
  <2>2. item \in [Addr -> Packet \cup {NULL}]
    BY NetworkAssumption DEF NetInv, ListInv, ListTypeOK
  <2>3. item' = [item EXCEPT ![Cursor] =
              [item[Cursor] EXCEPT !.destination = RouteOf(item[Cursor].to).interface]]
    BY <1>2
  <2>4. ASSUME NEW a \in Addr
        PROVE  /\ item'[a].to = item[a].to /\ item'[a].from = item[a].from
               /\ item'[a].source = item[a].source /\ item'[a].command = item[a].command
    <3>1. CASE a = Cursor
      <4>1. item'[a] = [item[a] EXCEPT !.destination = RouteOf(item[a].to).interface]
        BY <2>1, <2>2, <2>3, <3>1
      <4> QED  BY <2>1, <3>1, <4>1 DEF Packet
    <3>2. CASE a # Cursor
      BY <2>2, <2>3, <3>2
    <3> QED  BY <3>1, <3>2
  <2> QED  BY <1>2, <2>4 DEF OnlyQueueable
<1> QED  BY <1>1, <1>2 DEF TxSend

(* Time does not change what a packet is. *)
LEMMA ClockAdds == NetInv /\ Tick => OnlyQueueable
<1> SUFFICES ASSUME NetInv, Tick, NEW a \in Addr, next'[a] # NULL
             PROVE  /\ next[a] # NULL
                    /\ item'[a].to = item[a].to /\ item'[a].from = item[a].from
                    /\ item'[a].source = item[a].source
                    /\ item'[a].command = item[a].command
  BY DEF OnlyQueueable
<1>1. next[a] # NULL
  BY DEF Tick
<1>2. item[a] \in Packet
  BY <1>1, NetworkAssumption DEF NetInv, ItemsOK
<1>3. item'[a] = [item[a] EXCEPT !.age = Older(@, PACKET_DELETE_TIMEOUT)]
  BY <1>2, NetworkAssumption, ListAssumption DEF Tick
<1> QED  BY <1>1, <1>2, <1>3 DEF Packet

(* The packet that arrives is queued as it is; RIP and ID_REQUEST are not. *)
LEMMA AcceptAdds ==
  ASSUME NetInv, NEW m \in Inbound, NEW f \in Interface, network_accept(m, f)
  PROVE  OnlyQueueable
<1> DEFINE p == Arrived(m, f)
<1>1. m \in Message /\ m.ttl + 1 < PACKET_MAX_TTL
  BY NetworkAssumption DEF network_accept
<1>2. p \in Packet /\ p.command = m.command
  BY <1>1, RoutingAssumption, NetworkAssumption DEF Arrived, Message, Packet
<1> HIDE DEF p
<1>3. CASE UNCHANGED listVars
  BY <1>3 DEF listVars, OnlyQueueable
<1>4. CASE m.command # "RIP" /\ Enqueue(p)
  BY <1>2, <1>4, EnqueueAdds
<1>5. CASE OwnUndeliverable(p) /\ Enqueue(p)
  BY <1>3, <1>5 DEF Enqueue, Dropped
<1> QED  BY <1>3, <1>4, <1>5 DEF network_accept, accept_id_request, process_rip_packet, p

(* The answer of a handler goes to another device. *)
LEMMA AnswerAdds == NetInv /\ network_process_rx => OnlyQueueable
<1> SUFFICES ASSUME NetInv, network_process_rx PROVE OnlyQueueable
  OBVIOUS
<1> DEFINE answer == network_prepare_packet(Head(rx_queue).from, "TIME_CHECK")
<1>1. CASE UNCHANGED listVars
  BY <1>1 DEF listVars, OnlyQueueable
<1>2. CASE ~Dropped(answer) /\ \E n \in Addr : list_push(answer, n)
  <2>1. Head(rx_queue) \in Received
    BY DEF network_process_rx, NetInv, QueuesOK
  <2>2. answer \in Item
    BY <2>1, Prepared, NetworkAssumption DEF Received, Command, Address
  <2>3. /\ answer.from = DEVICE_ID /\ answer.to = Head(rx_queue).from
        /\ answer.command = "TIME_CHECK"
    BY DEF network_prepare_packet
  <2>4. Queueable(answer)
    BY <1>2, <2>3 DEF Queueable, Dropped, OwnUndeliverable
  <2> HIDE DEF answer
  <2>5. PICK n \in Addr : list_push(answer, n)
    BY <1>2
  <2>6. /\ \A a \in Addr : next[a] # NULL => item'[a] = item[a]
        /\ \A a \in Addr : next'[a] # NULL => a = n \/ next[a] # NULL
        /\ item'[n] = answer
    BY <2>2, <2>5, PushFrame DEF NetInv
  <2> QED  BY <2>4, <2>6 DEF OnlyQueueable
<1> QED  BY <1>1, <1>2 DEF network_process_rx

(* The packet that one iteration of process_broadcast_packet makes. *)
LEMMA CopyMade ==
  ASSUME NetInv, Fanout
  PROVE  \E p \in Packet :
           /\ Enqueue(p) /\ p.from = DEVICE_ID
           /\ p.to = routing_table[fan].device_id
           /\ p.command = item[next_packet].command
           /\ fan \in 1..Len(routing_table) /\ p.to \in Device
           /\ next_packet \in Addr /\ next[next_packet] # NULL
<1> DEFINE d == routing_table[fan].device_id
           q == item[next_packet]
           prepared == network_prepare_packet(d, q.command)
           p == [prepared EXCEPT !.age = q.age]
<1>1. next_packet \in Addr /\ next[next_packet] # NULL /\ q \in Packet
  BY NetworkAssumption DEF Fanout, NetInv, QueuesOK, CursorLive, ItemsOK
<1>2. fan \in 1..Len(routing_table)
  BY DEF Fanout, NetInv, QueuesOK, LoopOK, RoutingInv, RoutingTypeOK
<1>3. d \in Device
  <2>1. routing_table[fan] \in Entry
    BY <1>2 DEF NetInv, RoutingInv, RoutingTypeOK
  <2> QED  BY <2>1 DEF Entry
<1>4. q.command \in Command /\ q.age \in 0..PACKET_DELETE_TIMEOUT
  BY <1>1 DEF Packet
<1>5. prepared \in Packet /\ prepared.from = DEVICE_ID /\ prepared.to = d
      /\ prepared.command = q.command
  BY <1>3, <1>4, Prepared DEF Address, network_prepare_packet
<1>6. Enqueue(p)
  BY DEF Fanout
<1> HIDE DEF prepared
<1>7. p \in Packet /\ p.from = DEVICE_ID /\ p.to = d /\ p.command = q.command
  BY <1>4, <1>5 DEF Packet
<1> HIDE DEF p
<1> QED  BY <1>1, <1>2, <1>3, <1>6, <1>7

(* Every step queues queueable packets only. *)
LEMMA StepAdds ==
  ASSUME TxInv, [NetNext]_netVars
  PROVE  OnlyQueueable
<1>0. NetInv
  BY DEF TxInv
<1>1. ASSUME NEW m \in Inbound, NEW f \in Interface, network_accept(m, f)
      PROVE  OnlyQueueable
  BY <1>0, <1>1, AcceptAdds
<1>2. ASSUME NEW to \in LocalTargets, SendLocal(to) PROVE OnlyQueueable
  <2> DEFINE p == network_prepare_packet(to, "DATA_LOG")
  <2>1. p \in Packet /\ p.command = "DATA_LOG"
    BY Prepared, NetworkAssumption DEF Command, network_prepare_packet
  <2>2. Enqueue(p)
    BY <1>2 DEF SendLocal
  <2> HIDE DEF p
  <2> QED  BY <1>0, <2>1, <2>2, EnqueueAdds
<1>3. CASE network_process_rx
  BY <1>0, <1>3, AnswerAdds
<1>4. CASE TxTimeout \/ TxNoRoute
  BY <1>0, <1>4, TxRemoveAdds DEF TxTimeout, TxNoRoute, TxRemove
<1>5. CASE TxSend
  BY <1>0, <1>5, SendAdds
<1>6. CASE Fanout
  <2>1. PICK p \in Packet : /\ Enqueue(p) /\ p.command = item[next_packet].command
                           /\ next_packet \in Addr /\ next[next_packet] # NULL
    BY <1>0, <1>6, CopyMade
  <2>2. p.command # "RIP"
    BY <2>1 DEF TxInv, AllQueueable, Queueable
  <2> QED  BY <1>0, <2>1, <2>2, EnqueueAdds
<1>7. CASE FanoutEnd
  <2>1. next_packet \in Addr /\ next[next_packet] # NULL
    BY <1>0, <1>7 DEF FanoutEnd, NetInv, QueuesOK, CursorLive
  <2> QED  BY <1>0, <1>7, <2>1, RemoveAdds DEF FanoutEnd
<1>8. CASE Sweep
  <2>1. node \in Addr /\ next[node] # NULL
    BY <1>0, <1>8 DEF Sweep, NetInv, QueuesOK, LoopOK
  <2>2. CASE packet_remove(next_packet, node)
    BY <1>0, <2>1, <2>2, RemoveAdds
  <2>3. CASE UNCHANGED listVars
    BY <2>3 DEF listVars, OnlyQueueable
  <2> QED  BY <1>8, <2>2, <2>3 DEF Sweep
<1>9. CASE SweepFreed
  BY <1>9 DEF SweepFreed, OnlyQueueable
<1>10. CASE Tick
  BY <1>0, <1>10, ClockAdds
<1>11. CASE UNCHANGED listVars
  BY <1>11 DEF listVars, OnlyQueueable
<1> QED  BY <1>1, <1>2, <1>3, <1>4, <1>5, <1>6, <1>7, <1>8, <1>9, <1>10, <1>11
         DEF NetNext, netVars, network_send_routing_info, TxBroadcast, TxUnformatted,
             InterfaceGone, InterfaceNew, CheckRoutes

(* What tx_queue holds is inductive together with NetInv. *)
LEMMA TxStep == TxInv /\ [NetNext]_netVars => TxInv'
<1> SUFFICES ASSUME TxInv, [NetNext]_netVars PROVE TxInv'
  OBVIOUS
<1>1. NetInv'
  BY NetStep DEF TxInv
<1>2. OnlyQueueable
  BY StepAdds
<1>3. AllQueueable'
  BY <1>2 DEF OnlyQueueable, TxInv, AllQueueable, Queueable
<1> QED  BY <1>1, <1>3 DEF TxInv

(* The empty queue. *)
LEMMA TxInitInv == NetInit => TxInv
BY NetInitInv DEF NetInit, ListInit, TxInv, AllQueueable

(* Whatever arrives and however the queue is emptied, tx_queue holds no packet
   for this device, and every packet of another device remembers the interface
   it came over. *)
THEOREM TxQueueForeign == NetSpec => []TxForeign
<1>1. TxInv => TxForeign
  BY NetworkAssumption DEF TxInv, NetInv, ItemsOK, AllQueueable, Queueable, TxForeign, Allocated
<1> QED  BY <1>1, TxInitInv, TxStep, PTL DEF NetSpec

-----------------------------------------------------------------------------
(* A broadcast is expanded only if it fits. *)
LEMMA ExpansionStarts == NetInv /\ TxBroadcast => BroadcastComplete'
<1> SUFFICES ASSUME NetInv, TxBroadcast, pc' = "fanout"
             PROVE  BroadcastComplete'
  BY DEF BroadcastComplete
<1>1. FitsBroadcast(Len(routing_table)) /\ fan' = 1
  BY DEF TxBroadcast, TxReady, loopVars
<1>2. UNCHANGED <<routing_table, item_count>>
  BY DEF TxBroadcast, listVars, routingVars
<1>3. Len(routing_table) \in Nat
  BY DEF NetInv, RoutingInv, RoutingTypeOK
<1> QED  BY <1>1, <1>2, <1>3 DEF FitsBroadcast, BroadcastComplete

(* The room that was found is there for the next copy: it is queued, and the
   copies before it stay. *)
LEMMA CopyQueued == NetInv /\ BroadcastComplete /\ Fanout => BroadcastComplete'
<1> SUFFICES ASSUME NetInv, BroadcastComplete, Fanout PROVE BroadcastComplete'
  OBVIOUS
<1>1. PICK p \in Packet :
           /\ Enqueue(p) /\ p.from = DEVICE_ID
           /\ p.to = routing_table[fan].device_id
           /\ p.command = item[next_packet].command
           /\ fan \in 1..Len(routing_table) /\ p.to \in Device
           /\ next_packet \in Addr /\ next[next_packet] # NULL
  BY CopyMade
<1>2. /\ pc = "fanout" /\ fan' = fan + 1
      /\ UNCHANGED <<routing_table, interfaces, next_packet, pc>>
  BY DEF Fanout, routingVars
<1>3. /\ Len(routing_table) \in Nat /\ item_count \in Nat /\ Capacity \in Nat
      /\ fan \in Nat
  BY <1>1, ListAssumption DEF NetInv, RoutingInv, RoutingTypeOK, ListInv, ListTypeOK
<1>4. Len(routing_table) + 1 - fan <= Capacity - item_count
  BY <1>2 DEF BroadcastComplete
<1>5. ~list_is_full
  BY <1>1, <1>3, <1>4 DEF list_is_full
<1>6. p.to # DEVICE_ID /\ HasRoute(p.to)
  BY <1>1 DEF NetInv, RoutingInv, RoutesUnique, HasRoute, routing_entry_find
<1>7. ~Dropped(p)
  BY <1>1, <1>5, <1>6 DEF Dropped, OwnUndeliverable, QueueFull
<1>8. PICK n \in Addr : list_push(p, n)
  BY <1>1, <1>6, <1>7 DEF Enqueue
<1>9. /\ \A a \in Addr : next[a] # NULL => next'[a] # NULL /\ item'[a] = item[a]
      /\ next'[n] # NULL /\ item'[n] = p
  BY <1>8, PushFrame, NetworkAssumption DEF NetInv
<1>10. item_count' = item_count + 1
  BY <1>8 DEF list_push
<1>11. (Len(routing_table) + 1 - fan)' <= (Capacity - item_count)'
  BY <1>2, <1>3, <1>4, <1>10
<1>12. item'[next_packet'] = item[next_packet]
  BY <1>1, <1>2, <1>9
<1>13. ASSUME NEW i \in 1..(fan' - 1)
       PROVE  \E a \in Addr : /\ next'[a] # NULL
                              /\ item'[a].to = routing_table[i].device_id
                              /\ item'[a].from = DEVICE_ID
                              /\ item'[a].command = item[next_packet].command
  <2>1. CASE i = fan
    BY <1>1, <1>9, <2>1
  <2>2. CASE i # fan
    <3>1. i \in 1..(fan - 1)
      BY <1>2, <1>3, <2>2
    <3>2. PICK a \in Allocated : /\ item[a].to = routing_table[i].device_id
                                /\ item[a].from = DEVICE_ID
                                /\ item[a].command = item[next_packet].command
      BY <1>2, <3>1 DEF BroadcastComplete
    <3> QED  BY <1>9, <3>2 DEF Allocated
  <2> QED  BY <2>1, <2>2
<1> QED  BY <1>2, <1>11, <1>12, <1>13 DEF BroadcastComplete, Allocated

(* No other step is possible in the middle of an expansion. *)
LEMMA ExpansionStep ==
  NetInv /\ BroadcastComplete /\ [NetNext]_netVars => BroadcastComplete'
<1> SUFFICES ASSUME NetInv, BroadcastComplete, [NetNext]_netVars
             PROVE  BroadcastComplete'
  OBVIOUS
<1>1. CASE TxBroadcast
  BY <1>1, ExpansionStarts
<1>2. CASE Fanout
  BY <1>2, CopyQueued
<1>3. CASE pc' # "fanout"
  BY <1>3 DEF BroadcastComplete
<1>4. CASE Sweep
  BY <1>3, <1>4 DEF Sweep, SweepOn
<1>5. CASE UNCHANGED netVars
  <2>1. UNCHANGED <<pc, fan, routing_table, item_count, item, next, next_packet>>
    BY <1>5 DEF netVars, listVars, routingVars
  <2> QED  BY <2>1 DEF BroadcastComplete, Allocated
<1> QED  BY <1>1, <1>2, <1>3, <1>4, <1>5
         DEF NetNext, network_accept, SendLocal, network_send_routing_info,
             network_process_rx, TxTimeout, TxNoRoute, TxRemove, TxSend, TxUnformatted,
             TxReady,
             FanoutEnd, InterfaceGone, InterfaceNew, SweepFreed, CheckRoutes, Tick,
             loopVars

(* For every number of devices and every size of the queue, a broadcast that
   process_broadcast_packet begins to expand reaches every known device: its
   later copies find room. *)
THEOREM BroadcastsComplete == NetSpec => []BroadcastComplete
<1>1. NetInit => BroadcastComplete
  BY DEF NetInit, BroadcastComplete
<1> QED  BY <1>1, ExpansionStep, NetInitInv, NetStep, PTL DEF NetSpec

-----------------------------------------------------------------------------
(* why packet a may disappear in a step *)
Reason(a) == \/ TimedOut(item[a])
             \/ item[a].to # BROADCAST /\ ~HasRoute(item[a].to)
             \/ HasRoute(item[a].to) /\ Sent(RouteOf(item[a].to).interface, item[a]) \in wire'
             \/ pc = "fanout" /\ fan > Len(routing_table) /\ a = next_packet
             \/ pc = "sweep" /\ Concerns(item[a], removed)
             \/ SweepFreed

(* packet_remove frees one packet. *)
LEMMA OneRemoved ==
  ASSUME NetInv, NEW cursor, NEW n \in Addr, next[n] # NULL, packet_remove(cursor, n),
         Reason(n)
  PROVE  \A a \in Allocated : next'[a] # NULL \/ Reason(a)
BY RemoveFrame DEF packet_remove, NetInv, Allocated

(* Every removal has its reason. *)
LEMMA LossStep ==
  ASSUME NetInv, [NetNext]_netVars
  PROVE  \A a \in Allocated : next'[a] # NULL \/ Reason(a)
<1>1. CASE \A a \in Addr : next[a] # NULL => next'[a] # NULL
  BY <1>1 DEF Allocated
<1>2. CASE UNCHANGED listVars
  BY <1>1, <1>2 DEF listVars
<1>3. ASSUME NEW p \in Packet, Enqueue(p) PROVE \A a \in Addr : next[a] # NULL => next'[a] # NULL
  BY <1>3, EnqueueOK
<1>4. ASSUME NEW m \in Inbound, NEW f \in Interface, network_accept(m, f)
      PROVE  \A a \in Allocated : next'[a] # NULL \/ Reason(a)
  <2> DEFINE p == Arrived(m, f)
  <2>1. m \in Message /\ m.ttl + 1 < PACKET_MAX_TTL
    BY <1>4, NetworkAssumption DEF network_accept
  <2>2. p \in Packet
    BY <2>1, RoutingAssumption, NetworkAssumption DEF Arrived, Message, Packet
  <2> HIDE DEF p
  <2>3. Enqueue(p) \/ UNCHANGED listVars
    BY <1>4 DEF network_accept, accept_id_request, process_rip_packet, p
  <2> QED  BY <1>1, <1>2, <1>3, <2>2, <2>3
<1>5. ASSUME NEW to \in LocalTargets, SendLocal(to)
      PROVE  \A a \in Allocated : next'[a] # NULL \/ Reason(a)
  <2>1. network_prepare_packet(to, "DATA_LOG") \in Packet
    BY Prepared, NetworkAssumption DEF Command
  <2> QED  BY <1>1, <1>3, <1>5, <2>1 DEF SendLocal
<1>6. CASE network_process_rx
  <2> DEFINE answer == network_prepare_packet(Head(rx_queue).from, "TIME_CHECK")
  <2>1. Head(rx_queue) \in Received
    BY <1>6 DEF network_process_rx, NetInv, QueuesOK
  <2>2. answer \in Item
    BY <2>1, Prepared, NetworkAssumption DEF Received, Command, Address
  <2>3. (\E n \in Addr : list_push(answer, n)) \/ UNCHANGED listVars
    BY <1>6 DEF network_process_rx
  <2> HIDE DEF answer
  <2> QED  BY <1>1, <1>2, <2>2, <2>3, PushFrame DEF NetInv
<1>7. CASE TxTimeout \/ TxNoRoute
  <2>1. TxReady /\ packet_remove(Cursor, Cursor) /\ Reason(Cursor)
    BY <1>7 DEF TxTimeout, TxNoRoute, TxRemove, Reason
  <2> QED  BY <2>1, CursorQueued, OneRemoved
<1>8. CASE TxSend
  <2>1. TxReady /\ Reason(Cursor)
    BY <1>8 DEF TxSend, Reason
  <2>2. packet_remove(Cursor, Cursor) \/ next' = next
    BY <1>8 DEF TxSend
  <2> QED  BY <1>1, <2>1, <2>2, CursorQueued, OneRemoved
<1>9. CASE Fanout
  <2>1. \E p \in Packet : Enqueue(p)
    BY <1>9, CopyMade
  <2> QED  BY <1>1, <1>3, <2>1
<1>10. CASE FanoutEnd
  <2>1. /\ next_packet \in Addr /\ next[next_packet] # NULL
        /\ packet_remove(next_packet, next_packet) /\ Reason(next_packet)
    BY <1>10 DEF FanoutEnd, NetInv, QueuesOK, CursorLive, Reason
  <2> QED  BY <2>1, OneRemoved
<1>11. CASE Sweep
  <2>1. node \in Addr /\ next[node] # NULL
    BY <1>11 DEF Sweep, NetInv, QueuesOK, LoopOK
  <2>2. CASE packet_remove(next_packet, node) /\ Concerns(item[node], removed)
    <3>1. Reason(node)
      BY <1>11, <2>2 DEF Sweep, Reason
    <3> QED  BY <2>1, <2>2, <3>1, OneRemoved
  <2> QED  BY <1>2, <1>11, <2>2 DEF Sweep
<1>12. CASE SweepFreed
  BY <1>12 DEF Reason
<1>13. CASE next' = next
  BY <1>1, <1>13
<1> QED  BY <1>2, <1>4, <1>5, <1>6, <1>7, <1>8, <1>9, <1>10, <1>11, <1>12, <1>13
         DEF NetNext, netVars, network_send_routing_info, TxBroadcast, TxUnformatted,
             InterfaceGone, InterfaceNew, CheckRoutes, Tick

(* Whatever arrives and whatever network_send_via returns, a queued packet
   disappears only for one of the reasons PacketLossJustified lists: neither loop
   over tx_queue ever frees a neighbour. *)
THEOREM PacketsLostForAReason == NetSpec => PacketLossJustified
<1>1. NetInv /\ [NetNext]_netVars =>
        [\A a \in Allocated :
           \/ next'[a] # NULL
           \/ TimedOut(item[a])
           \/ item[a].to # BROADCAST /\ ~HasRoute(item[a].to)
           \/ HasRoute(item[a].to) /\ Sent(RouteOf(item[a].to).interface, item[a]) \in wire'
           \/ pc = "fanout" /\ fan > Len(routing_table) /\ a = next_packet
           \/ pc = "sweep" /\ Concerns(item[a], removed)
           \/ SweepFreed]_netVars
  BY LossStep DEF Reason
<1> QED  BY <1>1, NetInitInv, NetStep, PTL DEF NetSpec, PacketLossJustified

=============================================================================
