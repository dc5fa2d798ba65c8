------------------------------ MODULE Routing ------------------------------
(***************************************************************************)
(* zejf_routing.c and the interface table of interface_manager.c: which    *)
(* device is reached over which interface.  RIP packets refresh entries,   *)
(* routing_table_check drops the ones not heard of, interface_removed the  *)
(* ones whose link is gone.  All of it runs under zejf_lock, so each       *)
(* function is one step.                                                   *)
(*                                                                         *)
(* An Interface is an address.  interface_remove is followed by free, so   *)
(* an address outside interfaces is dangling; malloc may return it again   *)
(* for another client.  Times are kept as ages: age is time - last_seen,   *)
(* counted in units of the routing timer and no further than the first     *)
(* value that is too old (AgeMax), which the code cannot tell from others. *)
(***************************************************************************)
EXTENDS Naturals, Sequences, FiniteSets

CONSTANTS Device, DEVICE_ID,      \* device ids, and the id of this device
          Interface,              \* addresses of Interface structs
          INTERFACES_MAX, ROUTING_TABLE_SIZE, ROUTING_ENTRY_TIMEOUT,
          PACKET_MAX_TTL

ASSUME RoutingAssumption ==
  /\ DEVICE_ID \in Device
  /\ INTERFACES_MAX \in Nat \ {0}
  /\ ROUTING_TABLE_SIZE \in Nat \ {0}
  /\ ROUTING_ENTRY_TIMEOUT \in Nat
  /\ PACKET_MAX_TTL \in Nat \ {0, 1}

VARIABLES routing_table,   \* routing_table[0 .. routing_table_top - 1]
          interfaces       \* all_interfaces[0 .. interface_count - 1]

routingVars == <<routing_table, interfaces>>

AgeMax == ROUTING_ENTRY_TIMEOUT + 1

(* the ttl network_accept leaves in a packet it keeps *)
Distance == 1..(PACKET_MAX_TTL - 1)

Entry == [device_id : Device, interface : Interface, distance : Distance,
          age : 0..AgeMax]

Older(age, bound) == IF age < bound THEN age + 1 ELSE bound

(* routing_init, interfaces_init (the USB interface is there from the start
   and may later be unplugged, like any other) *)
RoutingInit == /\ routing_table = << >>
               /\ interfaces \in {{f} : f \in Interface}

-----------------------------------------------------------------------------
(* routing_entry_find: the positions of the entries of device d.  The code
   takes the first; RoutesUnique says there is no other. *)
routing_entry_find(d) ==
  {i \in 1..Len(routing_table) : routing_table[i].device_id = d}

HasRoute(d) == routing_entry_find(d) # {}

RouteOf(d) == routing_table[CHOOSE i \in routing_entry_find(d) :
                               \A j \in routing_entry_find(d) : i <= j]

NewEntry(d, f, dist) ==
  [device_id |-> d, interface |-> f, distance |-> dist, age |-> 0]

(* What routing_table_update leaves of an entry of the same device: a shorter
   path replaces the interface, a path of equal length refreshes last_seen
   whichever interface it came over, a longer one is ignored. *)
UpdatedEntry_any_refresh(e, f, dist) ==
  IF e.distance > dist
    THEN [e EXCEPT !.interface = f, !.distance = dist, !.age = 0]
  ELSE [e EXCEPT !.age = 0]

UpdatedEntry(e, f, dist) ==
  IF e.distance > dist
    THEN [e EXCEPT !.interface = f, !.distance = dist, !.age = 0]
  ELSE IF e.distance = dist THEN [e EXCEPT !.age = 0]
  ELSE e

(* routing_table_update(d, f, dist, now) returned ZEJF_OK *)
UpdateOK(d, dist) ==
  /\ d # DEVICE_ID
  /\ IF HasRoute(d) THEN dist <= RouteOf(d).distance
                    ELSE Len(routing_table) < ROUTING_TABLE_SIZE

(* routing_table_update, with routing_table_insert *)
TableAfterUpdate_no_find(d, f, dist) ==
  IF d = DEVICE_ID \/ Len(routing_table) >= ROUTING_TABLE_SIZE
    THEN routing_table
    ELSE Append(routing_table, NewEntry(d, f, dist))

TableAfterUpdate_no_limit(d, f, dist) ==
  IF d = DEVICE_ID THEN routing_table
  ELSE IF HasRoute(d)
    THEN [i \in 1..Len(routing_table) |->
            IF i \in routing_entry_find(d)
              THEN UpdatedEntry(routing_table[i], f, dist)
              ELSE routing_table[i]]
  ELSE Append(routing_table, NewEntry(d, f, dist))

TableAfterUpdate(d, f, dist) ==
  IF d = DEVICE_ID THEN routing_table
  ELSE IF HasRoute(d)
    THEN [i \in 1..Len(routing_table) |->
            IF i \in routing_entry_find(d)
              THEN UpdatedEntry(routing_table[i], f, dist)
              ELSE routing_table[i]]
  ELSE IF Len(routing_table) < ROUTING_TABLE_SIZE
    THEN Append(routing_table, NewEntry(d, f, dist))
  ELSE routing_table

routing_table_update(d, f, dist) ==
  /\ routing_table' = TableAfterUpdate(d, f, dist)
  /\ UNCHANGED interfaces

-----------------------------------------------------------------------------
(* The loops of routing_table_check and interface_removed call
   routing_entry_remove(i) and then increment i all the same: the entry that
   moved down into position i is not examined.  An index of drop (the entries
   that meet the loop's condition) is therefore removed unless its predecessor
   was. *)
RemovedByScan_next(drop) ==
  {i \in 1..Len(routing_table) : i - 1 \in drop}

RemovedByScan_first(drop) == {i \in drop : \A j \in drop : i <= j}

RemovedByScan(drop) ==
  LET removed[i \in 0..Len(routing_table)] ==
        IF i = 0 THEN FALSE ELSE i \in drop /\ ~removed[i - 1]
  IN {i \in drop : removed[i]}

(* the one function that lists the numbers of K in increasing order *)
InOrder(K) ==
  {m \in [1..Cardinality(K) -> K] :
     /\ \A i, j \in 1..Cardinality(K) : i < j => m[i] < m[j]
     /\ \A k \in K : \E i \in 1..Cardinality(K) : m[i] = k}

(* routing_entry_remove for each index of gone: the rest moves down *)
RemoveEntries(gone) ==
  \E m \in InOrder((1..Len(routing_table)) \ gone) :
     routing_table' = [i \in DOMAIN m |-> routing_table[m[i]]]

(* time - entry->last_seen > ROUTING_ENTRY_TIMEOUT *)
Expired_not_last == {i \in 1..Len(routing_table) :
                       /\ i < Len(routing_table)
                       /\ routing_table[i].age > ROUTING_ENTRY_TIMEOUT}

Expired == {i \in 1..Len(routing_table) :
              routing_table[i].age > ROUTING_ENTRY_TIMEOUT}

(* routing_table_check; on an empty table it does nothing *)
routing_table_check == /\ routing_table # << >>
                       /\ RemoveEntries(RemovedByScan(Expired))
                       /\ UNCHANGED interfaces

Over(f) == {i \in 1..Len(routing_table) : routing_table[i].interface = f}

(* Entries that were left behind by an earlier removal: their interface
   pointer is to memory that was freed. *)
Dangling == {i \in 1..Len(routing_table) :
               routing_table[i].interface \notin interfaces}

(* The first loop of interface_removed(f), which compares uids through the
   interface pointers: what a dangling one compares to is not determined. *)
RoutesOverRemoved(f) ==
  \E alike \in SUBSET Dangling : RemoveEntries(RemovedByScan(Over(f) \cup alike))

-----------------------------------------------------------------------------
(* interface_add: uid and a slot of all_interfaces, unless the table is full *)
interface_add(f) ==
  /\ f \notin interfaces
  /\ Cardinality(interfaces) < INTERFACES_MAX
  /\ interfaces' = interfaces \cup {f}

AddInterface(f) == interface_add(f) /\ UNCHANGED routing_table

(* interface_remove: interface_removed, then the slot is closed; the caller
   frees the interface *)
RemoveInterface(f) ==
  /\ f \in interfaces
  /\ RoutesOverRemoved(f)
  /\ interfaces' = interfaces \ {f}

(* the clock moves *)
AgedTable == [i \in 1..Len(routing_table) |->
                [routing_table[i] EXCEPT !.age = Older(@, AgeMax)]]

RoutingTick == /\ routing_table' = AgedTable
               /\ UNCHANGED interfaces

(* process_rip_packet's part for the table: a RIP packet of device d that came
   over f after dist hops *)
Rip(d, f, dist) == f \in interfaces /\ routing_table_update(d, f, dist)

RoutingNext ==
  \/ \E d \in Device, f \in Interface, dist \in Distance : Rip(d, f, dist)
  \/ routing_table_check
  \/ \E f \in Interface : AddInterface(f) \/ RemoveInterface(f)
  \/ RoutingTick

RoutingSpec == RoutingInit /\ [][RoutingNext]_routingVars

-----------------------------------------------------------------------------
(* Type invariant of the routing table: it never exceeds ROUTING_TABLE_SIZE
   slots, and distances are those of packets that were not dropped for their
   ttl. *)
RoutingTypeOK ==
  /\ routing_table \in Seq(Entry)
  /\ Len(routing_table) <= ROUTING_TABLE_SIZE
  /\ interfaces \subseteq Interface

(* A device has at most one entry, and this device has none: what
   routing_entry_find returns does not depend on the order of the table, and a
   packet is never routed to the device itself.  Updates, both removal loops
   and their shifting of entries must all preserve it. *)
RoutesUnique ==
  /\ \A i, j \in 1..Len(routing_table) :
       routing_table[i].device_id = routing_table[j].device_id => i = j
  /\ \A i \in 1..Len(routing_table) : routing_table[i].device_id # DEVICE_ID

(* A device loses its route only for a reason: it had not been heard of for
   longer than ROUTING_ENTRY_TIMEOUT, or its interface is gone.  The loops of
   routing_table_check and interface_removed modify the table while they scan
   it; they may miss an entry but must never drop a neighbour. *)
RouteLossJustified ==
  [][\A d \in Device : HasRoute(d) =>
       \/ HasRoute(d)'
       \/ RouteOf(d).age > ROUTING_ENTRY_TIMEOUT
       \/ RouteOf(d).interface \notin interfaces']_routingVars

(* interface_removed leaves no route over the removed interface behind as long
   as no two such routes are neighbours in the table and none follows a route
   that dangles since an earlier removal.  (Of two neighbours the loop skips
   one, as in routing_table_check; a dangling neighbour may compare equal by
   what the freed memory holds, and is then the one that is removed.) *)
NoRouteLeftBehind ==
  [][\A f \in interfaces \ interfaces' :
       (\A i \in Over(f) : i + 1 \notin Over(f) /\ i - 1 \notin Dangling)
       => \A j \in 1..Len(routing_table') :
            routing_table'[j].interface # f]_routingVars

=============================================================================
