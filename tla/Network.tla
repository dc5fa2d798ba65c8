------------------------------ MODULE Network ------------------------------
(***************************************************************************)
(* zejf_network.c: the packet queues of one device, over the routing table *)
(* of Routing.  tx_queue is the pointer-level list of LinkedList, because  *)
(* next_packet points into it and network_interface_removed removes nodes  *)
(* while it walks it; rx_queue, which is only pushed and popped, is the    *)
(* sequence LinkedList implements.  The functions run under zejf_lock and  *)
(* are one step each, except the two loops that change tx_queue:           *)
(* process_broadcast_packet and network_interface_removed take one step    *)
(* per iteration, and no other step is possible until they end (pc).       *)
(*                                                                         *)
(* age is time - packet->time_received.  network_send_via is external: it  *)
(* returns any result of SendResult.                                       *)
(***************************************************************************)
EXTENDS LinkedList, Routing

CONSTANTS BROADCAST, NOBODY,      \* 0xFFFF, and the 0 that RIP packets carry
          Inbound,                \* packets that may arrive
          LocalTargets,           \* where this device's own packets may go
          RX_QUEUE_SIZE, PACKET_DELETE_TIMEOUT, SendResult

(* commands of zejf_defs.h; "TIME_REQUEST" stands for the ones that are
   answered, "DATA_LOG" for the ones that are not *)
Command == {"RIP", "ID_REQUEST", "ID_INFO", "TIME_REQUEST", "TIME_CHECK", "DATA_LOG"}

Address == Device \cup {BROADCAST, NOBODY}

(* a packet as it comes over an interface *)
Message == [from : Device, to : Address, command : Command,
            ttl : 0..PACKET_MAX_TTL, flags : {0, 1}]

(* a packet in tx_queue; source and destination are source_interface and
   destination_interface *)
Packet == [from : Device, to : Address, command : Command,
           ttl : 0..(PACKET_MAX_TTL - 1),
           source : Interface \cup {NULL}, destination : Interface \cup {NULL},
           age : 0..PACKET_DELETE_TIMEOUT]

(* a packet in rx_queue: what its handlers look at *)
Received == [from : Device, command : Command]

ASSUME NetworkAssumption ==
  /\ Item = Packet
  /\ BROADCAST \notin Device /\ NOBODY \notin Device /\ BROADCAST # NOBODY
  /\ NULL \notin Interface
  /\ Inbound \subseteq Message
  /\ LocalTargets \subseteq Address \ {DEVICE_ID}
  /\ RX_QUEUE_SIZE \in Nat \ {0}
  /\ PACKET_DELETE_TIMEOUT \in Nat \ {0}
  /\ SendResult \subseteq {"ZEJF_OK", "ZEJF_ERR_IO", "ZEJF_ERR_SEND_UNABLE"}

VARIABLES next_packet,   \* where network_send_tx goes on
          rx_queue,
          pc,            \* "idle", or the loop that holds zejf_lock
          fan,           \* i of process_broadcast_packet
          node, removed, \* node and interface of network_interface_removed
          wire           \* what the last step handed to network_send_via

netVars == <<listVars, routingVars, next_packet, rx_queue, pc, fan, node,
             removed, wire>>

loopVars == <<pc, fan, node, removed>>

(* network_init *)
NetInit == /\ ListInit
           /\ RoutingInit
           /\ next_packet = NULL
           /\ rx_queue = << >>
           /\ pc = "idle" /\ fan = 0 /\ node = NULL /\ removed = NULL
           /\ wire = {}

(* a transmission: packet p over interface f *)
Sent(f, p) == [via |-> f, to |-> p.to, command |-> p.command]

(* network_prepare_packet *)
network_prepare_packet(to, command) ==
  [from |-> DEVICE_ID, to |-> to, command |-> command, ttl |-> 0,
   source |-> NULL, destination |-> NULL, age |-> 0]

-----------------------------------------------------------------------------
(* The checks of network_send_packet, in its order: a packet of this device to
   itself or to a device it has no route to; a full queue; a packet of another
   device that came over no interface. *)
OwnUndeliverable(p) ==
  /\ p.from = DEVICE_ID
  /\ p.to = DEVICE_ID \/ (p.to # BROADCAST /\ ~HasRoute(p.to))

QueueFull_rx_unbounded(p) == p.to # DEVICE_ID /\ list_is_full

QueueFull(p) == IF p.to = DEVICE_ID THEN Len(rx_queue) = RX_QUEUE_SIZE
                                    ELSE list_is_full

Dropped(p) == \/ OwnUndeliverable(p)
              \/ QueueFull(p)
              \/ p.from # DEVICE_ID /\ p.source = NULL

(* network_send_packet of a packet that is neither RIP nor ID_REQUEST: dropped,
   or network_push_packet.  malloc is assumed to find memory for a node while
   the queue is not full. *)
Enqueue_all_tx(p) ==
  IF Dropped(p) THEN UNCHANGED <<rx_queue, listVars>>
  ELSE /\ \E n \in Addr : list_push(p, n)
       /\ UNCHANGED rx_queue

Enqueue(p) ==
  IF Dropped(p) THEN UNCHANGED <<rx_queue, listVars>>
  ELSE IF p.to = DEVICE_ID
    THEN /\ rx_queue' = Append(rx_queue, [from |-> p.from, command |-> p.command])
         /\ UNCHANGED listVars
  ELSE /\ \E n \in Addr : list_push(p, n)
       /\ UNCHANGED rx_queue

(* network_send_everywhere: EXCEPT BACKWARDS *)
Everywhere(p) == {Sent(f, p) : f \in interfaces \ {p.source}}

(* the packet that network_accept makes of message m from interface f *)
Arrived(m, f) ==
  [from |-> m.from, to |-> m.to, command |-> m.command, ttl |-> m.ttl + 1,
   source |-> f, destination |-> NULL, age |-> 0]

(* network_accept, for a packet whose ttl is not used up (the others are
   dropped): ID_REQUEST is answered at once if routing_find_free_id finds an id
   (DeviceIds), RIP is process_rip_packet, anything else is queued. *)
accept_id_request(p) ==
  /\ \/ wire' = {}
     \/ \E d \in Device :
          wire' = {Sent(p.source, network_prepare_packet(d, "ID_INFO"))}
  /\ UNCHANGED <<rx_queue, listVars, routingVars>>

process_rip_packet(p, flags) ==
  /\ routing_table_update(p.from, p.source, p.ttl)
  /\ wire' = IF UpdateOK(p.from, p.ttl) /\ flags # 0 THEN Everywhere(p) ELSE {}
  /\ UNCHANGED <<rx_queue, listVars>>

network_accept(m, f) ==
  /\ pc = "idle"
  /\ f \in interfaces
  /\ m.ttl + 1 < PACKET_MAX_TTL
  /\ LET p == Arrived(m, f) IN
     IF ~OwnUndeliverable(p) /\ m.command = "ID_REQUEST" THEN accept_id_request(p)
     ELSE IF ~OwnUndeliverable(p) /\ m.command = "RIP"
       THEN process_rip_packet(p, m.flags)
     ELSE /\ Enqueue(p)
          /\ wire' = {}
          /\ UNCHANGED routingVars
  /\ UNCHANGED <<next_packet, loopVars>>

(* Any part of the program sends a packet of its own: network_send_packet of
   network_prepare_packet(to, ...). *)
SendLocal(to) ==
  /\ pc = "idle"
  /\ Enqueue(network_prepare_packet(to, "DATA_LOG"))
  /\ wire' = {}
  /\ UNCHANGED <<routingVars, next_packet, loopVars>>

(* network_send_routing_info: a RIP packet of this device to every interface *)
network_send_routing_info ==
  /\ pc = "idle"
  /\ wire' = Everywhere(network_prepare_packet(NOBODY, "RIP"))
  /\ UNCHANGED <<listVars, routingVars, next_packet, rx_queue, loopVars>>

(* network_process_rx: the oldest packet is popped and handled; a handler may
   answer (time_request) *)
network_process_rx ==
  /\ pc = "idle" /\ rx_queue # << >>
  /\ LET p == Head(rx_queue)
         answer == network_prepare_packet(p.from, "TIME_CHECK")
     IN IF p.command = "TIME_REQUEST" /\ ~Dropped(answer)
          THEN \E n \in Addr : list_push(answer, n)
          ELSE UNCHANGED listVars
  /\ rx_queue' = Tail(rx_queue)
  /\ wire' = {}
  /\ UNCHANGED <<routingVars, next_packet, loopVars>>

-----------------------------------------------------------------------------
(* packet_remove(n): the cursor leaves the node first.  cursor is the value of
   next_packet at the call. *)
CursorAfterRemove_kept(cursor, n) == cursor

CursorAfterRemove(cursor, n) ==
  IF n # cursor THEN cursor
  ELSE IF next[n] = n THEN NULL ELSE next[n]

packet_remove_oldest(cursor, n) == /\ next_packet' = CursorAfterRemove(cursor, tail)
                                   /\ list_remove(tail)

packet_remove(cursor, n) == /\ next_packet' = CursorAfterRemove(cursor, n)
                            /\ list_remove(n)

(* network_send_tx works on the packet at the cursor, which starts at the tail *)
Cursor == IF next_packet = NULL THEN tail ELSE next_packet

TimedOut_never(p) == FALSE

TimedOut(p) == p.age >= PACKET_DELETE_TIMEOUT

TxReady == pc = "idle" /\ ~list_is_empty

(* goto remove *)
TxRemove == /\ packet_remove(Cursor, Cursor)
            /\ wire' = {}
            /\ UNCHANGED <<routingVars, rx_queue, loopVars>>

(* timeout hard *)
TxTimeout == TxReady /\ TimedOut(item[Cursor]) /\ TxRemove

(* no route to the device any more *)
TxNoRoute ==
  LET p == item[Cursor] IN
  /\ TxReady
  /\ ~TimedOut(p) /\ p.to # BROADCAST /\ ~HasRoute(p.to)
  /\ TxRemove

(* process_broadcast_packet: ZEJF_ERR_QUEUE_FULL if one packet per known device
   does not fit, else the loop starts *)
FitsBroadcast_one_more(n) == n <= Capacity

FitsBroadcast(n) == n <= Capacity - item_count

TxBroadcast ==
  LET p == item[Cursor] IN
  /\ TxReady
  /\ ~TimedOut(p) /\ p.to = BROADCAST
  /\ IF FitsBroadcast(Len(routing_table))
       THEN /\ pc' = "fanout" /\ fan' = 1
            /\ next_packet' = Cursor
            /\ UNCHANGED <<node, removed>>
       ELSE /\ next_packet' = next[Cursor]
            /\ UNCHANGED loopVars
  /\ wire' = {}
  /\ UNCHANGED <<listVars, routingVars, rx_queue>>

(* one iteration: a copy to the i-th known device, with the time_received of
   the broadcast *)
Fanout ==
  /\ pc = "fanout" /\ fan <= Len(routing_table)
  /\ Enqueue([network_prepare_packet(routing_table[fan].device_id,
                                     item[next_packet].command)
                EXCEPT !.age = item[next_packet].age])
  /\ fan' = fan + 1
  /\ wire' = {}
  /\ UNCHANGED <<routingVars, next_packet, pc, node, removed>>

(* the loop ends: back in network_send_tx, the broadcast is removed *)
FanoutEnd ==
  /\ pc = "fanout" /\ fan > Len(routing_table)
  /\ packet_remove(next_packet, next_packet)
  /\ pc' = "idle" /\ fan' = 0
  /\ wire' = {}
  /\ UNCHANGED <<routingVars, rx_queue, node, removed>>

(* prepare_and_send, once packet_to_string has succeeded: the packet is handed to network_send_via and stays queued
   only if that was ZEJF_ERR_SEND_UNABLE; destination_interface then says where
   it was going.  If the interface is dangling, network_send_via reads freed
   memory, and what it returns is as good as any. *)
TxSend ==
  LET p == item[Cursor] IN
  /\ TxReady
  /\ ~TimedOut(p) /\ p.to # BROADCAST /\ HasRoute(p.to)
  /\ \E rv \in SendResult :
       IF rv = "ZEJF_ERR_SEND_UNABLE"
         THEN /\ item' = [item EXCEPT ![Cursor].destination = RouteOf(p.to).interface]
              /\ next_packet' = next[Cursor]
              /\ UNCHANGED <<next, previous, head, tail, item_count, order>>
         ELSE packet_remove(Cursor, Cursor)
  /\ wire' = {Sent(RouteOf(p.to).interface, p)}
  /\ UNCHANGED <<routingVars, rx_queue, loopVars>>

(* prepare_and_send when packet_to_string fails: the packet stays queued, nothing
   was sent, and destination_interface is what it was. *)
TxUnformatted ==
  LET p == item[Cursor] IN
  /\ TxReady
  /\ ~TimedOut(p) /\ p.to # BROADCAST /\ HasRoute(p.to)
  /\ next_packet' = next[Cursor]
  /\ wire' = {}
  /\ UNCHANGED <<listVars, routingVars, rx_queue, loopVars>>

-----------------------------------------------------------------------------
(* interface_remove(f): the routes (interface_removed), then
   network_interface_removed starts at the tail of tx_queue *)
InterfaceGone(f) ==
  /\ pc = "idle"
  /\ RemoveInterface(f)
  /\ IF tail = NULL THEN UNCHANGED loopVars
     ELSE pc' = "sweep" /\ node' = tail /\ removed' = f /\ UNCHANGED fan
  /\ wire' = {}
  /\ UNCHANGED <<listVars, next_packet, rx_queue>>

Concerns(p, f) == p.destination = f \/ p.source = f

(* the test at the end of each iteration: node is the next node, last the tail
   the list now has *)
SweepOn(n, last) ==
  IF n = last
    THEN pc' = "idle" /\ node' = NULL /\ removed' = NULL /\ UNCHANGED fan
    ELSE node' = n /\ UNCHANGED <<pc, removed, fan>>

(* one iteration of network_interface_removed *)
Sweep ==
  /\ pc = "sweep" /\ next[node] # NULL
  /\ IF Concerns(item[node], removed)
       THEN /\ packet_remove(next_packet, node)
            /\ SweepOn(next[node], TailAfterRemove(node))
       ELSE /\ SweepOn(next[node], tail)
            /\ UNCHANGED <<listVars, next_packet>>
  /\ wire' = {}
  /\ UNCHANGED <<routingVars, rx_queue>>

(* The only packet was removed: tail is NULL, and the loop goes on with the
   node it has just freed, reading its packet and freeing both again.  The
   process dies of it, and is started again. *)
SweepFreed ==
  /\ pc = "sweep" /\ next[node] = NULL
  /\ next' = [a \in Addr |-> NULL]
  /\ previous' = [a \in Addr |-> NULL]
  /\ item' = [a \in Addr |-> NULL]
  /\ head' = NULL /\ tail' = NULL /\ item_count' = 0 /\ order' = << >>
  /\ routing_table' = << >>
  /\ interfaces' \in {{f} : f \in Interface}
  /\ next_packet' = NULL
  /\ rx_queue' = << >>
  /\ pc' = "idle" /\ fan' = 0 /\ node' = NULL /\ removed' = NULL
  /\ wire' = {}

InterfaceNew(f) ==
  /\ pc = "idle"
  /\ AddInterface(f)
  /\ wire' = {}
  /\ UNCHANGED <<listVars, next_packet, rx_queue, loopVars>>

CheckRoutes ==
  /\ pc = "idle"
  /\ routing_table_check
  /\ wire' = {}
  /\ UNCHANGED <<listVars, next_packet, rx_queue, loopVars>>

(* the clock moves *)
Tick ==
  /\ pc = "idle"
  /\ item' = [a \in Addr |-> IF item[a] = NULL THEN NULL
                ELSE [item[a] EXCEPT !.age = Older(@, PACKET_DELETE_TIMEOUT)]]
  /\ RoutingTick
  /\ wire' = {}
  /\ UNCHANGED <<next, previous, head, tail, item_count, order, next_packet,
                 rx_queue, loopVars>>

network_send_tx == \/ TxTimeout \/ TxNoRoute \/ TxBroadcast
                   \/ TxSend \/ TxUnformatted

(* something from outside: a packet, or an interface that comes or goes *)
Disturbance == \/ \E m \in Inbound, f \in Interface : network_accept(m, f)
               \/ \E to \in LocalTargets : SendLocal(to)
               \/ \E f \in Interface : InterfaceGone(f) \/ InterfaceNew(f)

NetNext ==
  \/ \E m \in Inbound, f \in Interface : network_accept(m, f)
  \/ \E to \in LocalTargets : SendLocal(to)
  \/ network_send_routing_info
  \/ network_process_rx
  \/ TxTimeout \/ TxNoRoute \/ TxBroadcast \/ TxSend \/ TxUnformatted
  \/ Fanout \/ FanoutEnd
  \/ \E f \in Interface : InterfaceGone(f) \/ InterfaceNew(f)
  \/ Sweep \/ SweepFreed
  \/ CheckRoutes
  \/ Tick

NetSpec == NetInit /\ [][NetNext]_netVars

(* packet_sender_start calls network_process_packets for as long as there are
   packets (on the Picos, the main loop does); a loop that holds zejf_lock runs
   to its end; and time passes. *)
FairNet == /\ NetSpec
           /\ WF_netVars(network_send_tx)
           /\ WF_netVars(network_process_rx)
           /\ WF_netVars(Fanout \/ FanoutEnd)
           /\ WF_netVars(Sweep \/ SweepFreed)
           /\ WF_netVars(Tick)

-----------------------------------------------------------------------------
(* Type invariant of the packet queues and the loops over them. *)
NetTypeOK ==
  /\ ListTypeOK
  /\ RoutingTypeOK
  /\ next_packet \in Addr \cup {NULL}
  /\ rx_queue \in Seq(Received) /\ Len(rx_queue) <= RX_QUEUE_SIZE
  /\ pc \in {"idle", "fanout", "sweep"}
  /\ fan \in 0..(ROUTING_TABLE_SIZE + 1)
  /\ node \in Addr \cup {NULL}
  /\ removed \in Interface \cup {NULL}

(* next_packet never dangles: whichever packet is removed - sent, timed out,
   expanded, or on its way over a removed interface - the cursor is NULL or
   points to a packet that is still queued; while a broadcast is expanded it
   is that broadcast.  network_send_tx dereferences it without a check. *)
CursorLive ==
  /\ next_packet # NULL => next[next_packet] # NULL
  /\ pc = "fanout" => next_packet # NULL /\ item[next_packet].to = BROADCAST

(* Nothing in tx_queue is for this device, and every queued packet of another
   device remembers the interface it came over. *)
TxForeign ==
  \A a \in Allocated :
    /\ item[a] \in Packet
    /\ item[a].to # DEVICE_ID
    /\ item[a].from # DEVICE_ID => item[a].source # NULL

(* A broadcast is expanded completely or not at all: the room that
   process_broadcast_packet found before its loop is still there for every
   iteration, so each known device has its copy when the broadcast is removed
   (and "THIS SHOULD HAVE NEVER HAPPENED" does not happen under the lock). *)
BroadcastComplete ==
  pc = "fanout" =>
    /\ Len(routing_table) + 1 - fan <= Capacity - item_count
    /\ \A i \in 1..(fan - 1) : \E a \in Allocated :
         /\ item[a].to = routing_table[i].device_id
         /\ item[a].from = DEVICE_ID
         /\ item[a].command = item[next_packet].command

(* A queued packet disappears only when it was handed to network_send_via, was
   too old, had lost its route, had been expanded, or concerned a removed
   interface (SweepFreed is the crash of the whole process). *)
PacketLossJustified ==
  [][\A a \in Allocated :
       \/ next'[a] # NULL
       \/ TimedOut(item[a])
       \/ item[a].to # BROADCAST /\ ~HasRoute(item[a].to)
       \/ HasRoute(item[a].to) /\ Sent(RouteOf(item[a].to).interface, item[a]) \in wire'
       \/ pc = "fanout" /\ fan > Len(routing_table) /\ a = next_packet
       \/ pc = "sweep" /\ Concerns(item[a], removed)
       \/ SweepFreed]_netVars

(* No packet stays for ever: once no more packets arrive and the interfaces stay
   as they are, tx_queue drains, even if network_send_via keeps returning
   ZEJF_ERR_SEND_UNABLE or a broadcast never finds room. *)
QueueDrains == <>[][~Disturbance]_netVars => []<>(item_count = 0)

(* "destroy packets that are going to the removed interface": when
   network_interface_removed returns, none is left. *)
SweepDestroysAll ==
  [][pc = "sweep" /\ pc' = "idle" =>
       \A a \in Addr : next'[a] # NULL => ~Concerns(item'[a], removed)]_netVars

=============================================================================
