--------------------------- MODULE RoutingProofs ---------------------------
(***************************************************************************)
(* Proofs about the routing table of Routing, for every number of devices  *)
(* and interfaces, every table size and every timeout.                     *)
(*                                                                         *)
(* RoutingInv is inductive.  Everything that removes entries does it with  *)
(* RemoveEntries, so the argument rests on one lemma about that operator   *)
(* (Compaction): the table afterwards is the old one read through an       *)
(* increasing function, whatever the loop decided to remove.               *)
(***************************************************************************)
EXTENDS RouteHistory, FiniteSetTheorems, WellFoundedInduction, TLAPS

RoutingInv == RoutingTypeOK /\ RoutesUnique

(* Every entry of the new table is an old entry that was not removed, in the
   old order, and every old entry that was not removed is there. *)
Compacts(gone, m) ==
  LET n == Len(routing_table) IN
  /\ Len(routing_table') \in 0..n
  /\ m \in [1..Len(routing_table') -> (1..n) \ gone]
  /\ \A i, j \in 1..Len(routing_table') : m[i] = m[j] => i = j
  /\ \A k \in (1..n) \ gone : \E i \in 1..Len(routing_table') : m[i] = k
  /\ routing_table' = [i \in 1..Len(routing_table') |-> routing_table[m[i]]]

(* routing_entry_remove moves the rest of the table down and loses nothing. *)
LEMMA Compaction ==
  ASSUME RoutingTypeOK, NEW gone, RemoveEntries(gone)
  PROVE  \E m : Compacts(gone, m)
<1> DEFINE n == Len(routing_table)
           K == (1..n) \ gone
<1>1. n \in Nat
  BY DEF RoutingTypeOK
<1>2. PICK m \in InOrder(K) :
        routing_table' = [i \in DOMAIN m |-> routing_table[m[i]]]
  BY DEF RemoveEntries
<1>3. /\ IsFiniteSet(1..n) /\ Cardinality(1..n) = n
      /\ IsFiniteSet(K) /\ Cardinality(K) <= Cardinality(1..n)
  <2>1. ASSUME NEW p \in Nat
        PROVE  IsFiniteSet(1..p) /\ Cardinality(1..p) = p
    <3>1. p \in Int /\ 1 \in Int /\ (IF 1 > p THEN 0 ELSE p - 1 + 1) = p
      OBVIOUS
    <3> QED  BY ONLY <3>1, FS_Interval, Zenon
  <2>2. IsFiniteSet(1..n) /\ Cardinality(1..n) = n
    BY <1>1, <2>1
  <2> QED  BY <2>2, FS_Subset
<1>4. Cardinality(K) \in 0..n
  BY <1>1, <1>3, FS_CardinalityType
<1>5. /\ m \in [1..Cardinality(K) -> K]
      /\ \A i, j \in 1..Cardinality(K) : i < j => m[i] < m[j]
      /\ \A k \in K : \E i \in 1..Cardinality(K) : m[i] = k
  BY <1>2 DEF InOrder
<1>6. Len(routing_table') = Cardinality(K)
  BY <1>2, <1>4, <1>5
<1>7. \A i, j \in 1..Cardinality(K) : m[i] = m[j] => i = j
  <2> SUFFICES ASSUME NEW i \in 1..Cardinality(K), NEW j \in 1..Cardinality(K),
                      m[i] = m[j]
               PROVE  i = j
    OBVIOUS
  <2>1. m[i] \in K
    BY <1>5
  <2>2. m[i] \in Int /\ i \in Int /\ j \in Int
    BY <1>1, <1>4, <2>1
  <2>3. (i < j => m[i] < m[j]) /\ (j < i => m[j] < m[i])
    BY <1>5
  <2> QED  BY <2>2, <2>3
<1> WITNESS m
<1> QED  BY <1>2, <1>4, <1>5, <1>6, <1>7 DEF Compacts

(* Removing entries, any of them, keeps the table well formed. *)
LEMMA RemovalInv ==
  ASSUME RoutingInv, NEW gone, RemoveEntries(gone), interfaces' \subseteq interfaces
  PROVE  RoutingInv'
<1>1. PICK m : Compacts(gone, m)
  BY Compaction DEF RoutingInv
<1>2. /\ Len(routing_table) \in Nat /\ Len(routing_table') \in Nat
      /\ Len(routing_table') <= ROUTING_TABLE_SIZE
  BY <1>1, RoutingAssumption DEF RoutingInv, RoutingTypeOK, Compacts
<1>3. \A i \in 1..Len(routing_table') :
        /\ m[i] \in 1..Len(routing_table)
        /\ routing_table'[i] = routing_table[m[i]]
        /\ routing_table'[i] \in Entry
  BY <1>1 DEF RoutingInv, RoutingTypeOK, Compacts
<1>4. RoutingTypeOK'
  <2>1. routing_table' \in [1..Len(routing_table') -> Entry]
    BY <1>1, <1>3 DEF Compacts
  <2>2. routing_table' \in Seq(Entry)
    BY <1>2, <2>1
  <2> QED  BY <1>2, <2>2 DEF RoutingInv, RoutingTypeOK
<1>5. RoutesUnique'
  <2>1. \A i, j \in 1..Len(routing_table') :
          routing_table'[i].device_id = routing_table'[j].device_id => m[i] = m[j]
    BY <1>3 DEF RoutingInv, RoutesUnique
  <2>2. \A i \in 1..Len(routing_table') : routing_table'[i].device_id # DEVICE_ID
    BY <1>3 DEF RoutingInv, RoutesUnique
  <2>3. \A i, j \in 1..Len(routing_table') : m[i] = m[j] => i = j
    BY <1>1 DEF Compacts
  <2> QED  BY <2>1, <2>2, <2>3 DEF RoutesUnique
<1> QED  BY <1>4, <1>5 DEF RoutingInv

(* The entries an update touches keep their device; their distance and age stay
   in range. *)
LEMMA UpdatedEntryOK ==
  ASSUME NEW e \in Entry, NEW f \in Interface, NEW dist \in Distance
  PROVE  /\ UpdatedEntry(e, f, dist) \in Entry
         /\ UpdatedEntry(e, f, dist).device_id = e.device_id
<1>1. 0 \in 0..AgeMax
  BY RoutingAssumption DEF AgeMax
<1>2. /\ e.device_id \in Device /\ e.interface \in Interface
      /\ e.distance \in Distance /\ e.age \in 0..AgeMax
      /\ e = [device_id |-> e.device_id, interface |-> e.interface,
              distance |-> e.distance, age |-> e.age]
  BY DEF Entry
<1>3. /\ [e EXCEPT !.interface = f, !.distance = dist, !.age = 0] \in Entry
      /\ [e EXCEPT !.age = 0] \in Entry
  BY <1>1, <1>2 DEF Entry
<1>4. /\ [e EXCEPT !.interface = f, !.distance = dist, !.age = 0].device_id
           = e.device_id
      /\ [e EXCEPT !.age = 0].device_id = e.device_id
  BY <1>2
<1> QED  BY <1>3, <1>4 DEF UpdatedEntry

(* routing_table_update keeps the table well formed: it changes the entry of a
   device that has one, appends one for a device that has none while there is
   room, and never makes an entry for this device. *)
LEMMA UpdateInv ==
  ASSUME RoutingInv,
         NEW d \in Device, NEW f \in Interface, NEW dist \in Distance,
         routing_table_update(d, f, dist)
  PROVE  RoutingInv'
<1>1. routing_table \in Seq(Entry) /\ Len(routing_table) \in Nat
  BY DEF RoutingInv, RoutingTypeOK
<1>2. interfaces' = interfaces /\ routing_table' = TableAfterUpdate(d, f, dist)
  BY DEF routing_table_update
<1>3. CASE routing_table' = routing_table
  BY <1>2, <1>3 DEF RoutingInv, RoutingTypeOK, RoutesUnique
<1>4. CASE d # DEVICE_ID /\ HasRoute(d)
  <2>1. routing_table' =
          [i \in 1..Len(routing_table) |->
            IF i \in routing_entry_find(d)
              THEN UpdatedEntry(routing_table[i], f, dist)
              ELSE routing_table[i]]
    BY <1>2, <1>4 DEF TableAfterUpdate
  <2>2. \A i \in 1..Len(routing_table) :
          /\ routing_table'[i] \in Entry
          /\ routing_table'[i].device_id = routing_table[i].device_id
    BY <1>1, <2>1, UpdatedEntryOK
  <2>3. routing_table' \in Seq(Entry) /\ Len(routing_table') = Len(routing_table)
    <3>1. routing_table' \in [1..Len(routing_table) -> Entry]
      BY <2>1, <2>2
    <3> QED  BY <1>1, <3>1
  <2> QED  BY <1>2, <2>2, <2>3 DEF RoutingInv, RoutingTypeOK, RoutesUnique
<1>5. CASE /\ d # DEVICE_ID /\ ~HasRoute(d)
           /\ Len(routing_table) < ROUTING_TABLE_SIZE
  <2>1. routing_table' = Append(routing_table, NewEntry(d, f, dist))
    BY <1>2, <1>5 DEF TableAfterUpdate
  <2>2. NewEntry(d, f, dist) \in Entry /\ NewEntry(d, f, dist).device_id = d
    BY RoutingAssumption DEF NewEntry, Entry, AgeMax
  <2>3. \A i \in 1..Len(routing_table) : routing_table[i].device_id # d
    BY <1>5 DEF HasRoute, routing_entry_find
  <2>4. /\ routing_table' \in Seq(Entry)
        /\ Len(routing_table') = Len(routing_table) + 1
        /\ \A i \in 1..Len(routing_table) : routing_table'[i] = routing_table[i]
        /\ routing_table'[Len(routing_table) + 1] = NewEntry(d, f, dist)
    BY <1>1, <2>1, <2>2
  <2>5. RoutingTypeOK'
    BY <1>1, <1>2, <1>5, <2>4, RoutingAssumption DEF RoutingInv, RoutingTypeOK
  <2>6. RoutesUnique'
    <3>1. \A i \in 1..Len(routing_table') :
            i \in 1..Len(routing_table) \/ i = Len(routing_table) + 1
      BY <1>1, <2>4
    <3> QED  BY <1>5, <2>2, <2>3, <2>4, <3>1 DEF RoutingInv, RoutesUnique
  <2> QED  BY <2>5, <2>6 DEF RoutingInv
<1> QED  BY <1>2, <1>3, <1>4, <1>5 DEF TableAfterUpdate

(* Time passing keeps the table well formed. *)
LEMMA TickInv == RoutingInv /\ RoutingTick => RoutingInv'
<1> SUFFICES ASSUME RoutingInv, RoutingTick PROVE RoutingInv'
  OBVIOUS
<1>1. routing_table \in Seq(Entry) /\ Len(routing_table) \in Nat
  BY DEF RoutingInv, RoutingTypeOK
<1>2. routing_table' = AgedTable /\ interfaces' = interfaces
  BY DEF RoutingTick
<1>3. \A i \in 1..Len(routing_table) :
        /\ routing_table'[i] \in Entry
        /\ routing_table'[i].device_id = routing_table[i].device_id
  <2> SUFFICES ASSUME NEW i \in 1..Len(routing_table)
               PROVE  /\ routing_table'[i] \in Entry
                      /\ routing_table'[i].device_id = routing_table[i].device_id
    OBVIOUS
  <2>1. routing_table[i] \in Entry
    BY <1>1
  <2>2. routing_table'[i] =
          [routing_table[i] EXCEPT !.age = Older(routing_table[i].age, AgeMax)]
    BY <1>2, <2>1 DEF AgedTable, Entry
  <2>3. Older(routing_table[i].age, AgeMax) \in 0..AgeMax
    BY <2>1, RoutingAssumption DEF Entry, Older, AgeMax
  <2> QED  BY <2>1, <2>2, <2>3 DEF Entry
<1>4. routing_table' \in Seq(Entry) /\ Len(routing_table') = Len(routing_table)
  <2>1. routing_table' \in [1..Len(routing_table) -> Entry]
    BY <1>2, <1>3 DEF AgedTable
  <2> QED  BY <1>1, <2>1
<1> QED  BY <1>2, <1>3, <1>4 DEF RoutingInv, RoutingTypeOK, RoutesUnique

(* At the start the table is empty. *)
LEMMA RoutingInitInv == RoutingInit => RoutingInv
BY RoutingAssumption DEF RoutingInit, RoutingInv, RoutingTypeOK, RoutesUnique

(* No function of zejf_routing.c and interface_manager.c breaks the table. *)
LEMMA RoutingStep == RoutingInv /\ [RoutingNext]_routingVars => RoutingInv'
<1> SUFFICES ASSUME RoutingInv, [RoutingNext]_routingVars PROVE RoutingInv'
  OBVIOUS
<1>1. ASSUME NEW d \in Device, NEW f \in Interface, NEW dist \in Distance,
             Rip(d, f, dist)
      PROVE  RoutingInv'
  BY <1>1, UpdateInv DEF Rip
<1>2. CASE routing_table_check
  BY <1>2, RemovalInv DEF routing_table_check
<1>3. ASSUME NEW f \in Interface, AddInterface(f) PROVE RoutingInv'
  BY <1>3 DEF AddInterface, interface_add, RoutingInv, RoutingTypeOK, RoutesUnique
<1>4. ASSUME NEW f \in Interface, RemoveInterface(f) PROVE RoutingInv'
  <2>1. PICK alike : RemoveEntries(RemovedByScan(Over(f) \cup alike))
    BY <1>4 DEF RemoveInterface, RoutesOverRemoved
  <2> QED  BY <1>4, <2>1, RemovalInv DEF RemoveInterface
<1>5. CASE RoutingTick
  BY <1>5, TickInv
<1>6. CASE UNCHANGED routingVars
  BY <1>6 DEF routingVars, RoutingInv, RoutingTypeOK, RoutesUnique
<1> QED  BY <1>1, <1>2, <1>3, <1>4, <1>5, <1>6 DEF RoutingNext

(* A route of the old table that was not removed is in the new one. *)
LEMMA KeptRoute ==
  ASSUME RoutingInv, NEW gone, RemoveEntries(gone),
         NEW c, NEW i \in 1..Len(routing_table), i \notin gone,
         routing_table[i].device_id = c
  PROVE  HasRoute(c)'
<1>1. PICK m : Compacts(gone, m)
  BY Compaction DEF RoutingInv
<1>2. PICK j \in 1..Len(routing_table') : m[j] = i
  BY <1>1 DEF Compacts
<1>3. routing_table'[j] = routing_table[i]
  BY <1>1, <1>2 DEF Compacts
<1> QED  BY <1>2, <1>3 DEF HasRoute, routing_entry_find

(* With unique routes, RouteOf is the entry of the device. *)
LEMMA RouteOfEntry ==
  ASSUME RoutesUnique, RoutingTypeOK, NEW i \in 1..Len(routing_table)
  PROVE  RouteOf(routing_table[i].device_id) = routing_table[i]
<1> DEFINE d == routing_table[i].device_id
<1>1. routing_entry_find(d) = {i}
  BY DEF RoutesUnique, routing_entry_find
<1>2. i <= i
  BY DEF RoutingTypeOK
<1> QED  BY <1>1, <1>2 DEF RouteOf

(* A device keeps its route through a RIP packet of any device. *)
LEMMA UpdateKeeps ==
  ASSUME RoutingInv, NEW d \in Device, NEW f \in Interface, NEW dist \in Distance,
         routing_table_update(d, f, dist),
         NEW i \in 1..Len(routing_table)
  PROVE  /\ i \in 1..Len(routing_table')
         /\ routing_table'[i].device_id = routing_table[i].device_id
<1>1. routing_table \in Seq(Entry) /\ Len(routing_table) \in Nat
  BY DEF RoutingInv, RoutingTypeOK
<1>2. routing_table[i] \in Entry
  BY <1>1
<1> QED  BY <1>1, <1>2, UpdatedEntryOK
         DEF routing_table_update, TableAfterUpdate

(* The routing table never overflows its array, holds at most one entry per
   device and none for this device, through every update, both removal loops
   and the coming and going of interfaces. *)
THEOREM RoutingSafety == RoutingSpec => [](RoutingTypeOK /\ RoutesUnique)
<1>1. RoutingInv => RoutingTypeOK /\ RoutesUnique
  BY DEF RoutingInv
<1> QED  BY <1>1, RoutingInitInv, RoutingStep, PTL DEF RoutingSpec

(* The two removal loops never drop the route of a device that is heard of and
   whose interface is still there, although they shift the table while they
   scan it. *)
THEOREM LossJustified == RoutingSpec => RouteLossJustified
<1> DEFINE Justified ==
      \A d \in Device : HasRoute(d) =>
        \/ HasRoute(d)'
        \/ RouteOf(d).age > ROUTING_ENTRY_TIMEOUT
        \/ RouteOf(d).interface \notin interfaces'
<1>1. RoutingInv /\ RoutingNext => Justified
  <2> SUFFICES ASSUME RoutingInv, RoutingNext, NEW c \in Device, HasRoute(c)
               PROVE  \/ HasRoute(c)'
                      \/ RouteOf(c).age > ROUTING_ENTRY_TIMEOUT
                      \/ RouteOf(c).interface \notin interfaces'
    OBVIOUS
  <2>1. PICK i \in 1..Len(routing_table) : routing_table[i].device_id = c
    BY DEF HasRoute, routing_entry_find
  <2>2. RouteOf(c) = routing_table[i]
    BY <2>1, RouteOfEntry DEF RoutingInv
  <2>3. ASSUME NEW d \in Device, NEW f \in Interface, NEW dist \in Distance,
               Rip(d, f, dist)
        PROVE  HasRoute(c)'
    BY <2>1, <2>3, UpdateKeeps DEF Rip, HasRoute, routing_entry_find
  <2>4. CASE routing_table_check
    <3>1. RemovedByScan(Expired) \subseteq Expired
      BY DEF RemovedByScan
    <3>2. CASE i \in RemovedByScan(Expired)
      BY <2>2, <3>1, <3>2 DEF Expired
    <3>3. CASE i \notin RemovedByScan(Expired)
      <4>1. RemoveEntries(RemovedByScan(Expired))
        BY <2>4 DEF routing_table_check
      <4> QED  BY <2>1, <3>3, <4>1, KeptRoute
    <3> QED  BY <3>2, <3>3
  <2>5. ASSUME NEW f \in Interface, AddInterface(f) PROVE HasRoute(c)'
    BY <2>5 DEF AddInterface, HasRoute, routing_entry_find
  <2>6. ASSUME NEW f \in Interface, RemoveInterface(f)
        PROVE  HasRoute(c)' \/ RouteOf(c).interface \notin interfaces'
    <3>1. PICK alike \in SUBSET Dangling :
            RemoveEntries(RemovedByScan(Over(f) \cup alike))
      BY <2>6 DEF RemoveInterface, RoutesOverRemoved
    <3>2. RemovedByScan(Over(f) \cup alike) \subseteq Over(f) \cup Dangling
      BY DEF RemovedByScan
    <3>3. CASE i \in RemovedByScan(Over(f) \cup alike)
      BY <2>2, <2>6, <3>2, <3>3 DEF Over, Dangling, RemoveInterface
    <3>4. CASE i \notin RemovedByScan(Over(f) \cup alike)
      BY <2>1, <3>1, <3>4, KeptRoute
    <3> QED  BY <3>3, <3>4
  <2>7. CASE RoutingTick
    <3>1. /\ Len(routing_table) \in Nat /\ routing_table[i] \in Entry
          /\ routing_table' = AgedTable
      BY <2>7 DEF RoutingInv, RoutingTypeOK, RoutingTick
    <3>2. i \in 1..Len(routing_table') /\ routing_table'[i].device_id = c
      BY <2>1, <3>1 DEF AgedTable, Entry
    <3> QED  BY <3>2 DEF HasRoute, routing_entry_find
  <2> QED  BY <2>3, <2>4, <2>5, <2>6, <2>7 DEF RoutingNext
<1>2. RoutingInv /\ [RoutingNext]_routingVars => [Justified]_routingVars
  BY <1>1
<1> QED  BY <1>2, RoutingInitInv, RoutingStep, PTL
         DEF RoutingSpec, RouteLossJustified

(* What the record may hold. *)
Records == [Interface -> [Distance -> 0..Never]]

(* The record agrees with the entry of the watched device, and is empty while
   it has none. *)
HistoryInv ==
  /\ RoutingInv
  /\ heard \in Records
  /\ RouteAsHeard
  /\ ~HasRoute(Watched) => heard = Unheard

(* It is enough that the entry agrees with the record before Record cuts it:
   nothing that AsHeard reads is cut. *)
LEMMA RecordKeeps ==
  ASSUME RoutingInv', NEW h \in Records, Record(h),
         \A i \in 1..Len(routing_table') :
           routing_table'[i].device_id = Watched => AsHeard(h, routing_table'[i])
  PROVE  /\ heard' \in Records
         /\ RouteAsHeard'
         /\ ~HasRoute(Watched)' => heard' = Unheard
<1>0. Never \in 0..Never /\ (\A n \in Distance : n \in Nat)
  BY RoutingAssumption DEF Never, AgeMax, Distance
<1>1. heard' \in Records
  BY <1>0 DEF Record, Records
<1>2. ~HasRoute(Watched)' => heard' = Unheard
  BY DEF Record, Unheard
<1>3. ASSUME NEW i \in 1..Len(routing_table'),
             routing_table'[i].device_id = Watched
      PROVE  AsHeard(heard', routing_table'[i])
  <2>1. routing_entry_find(Watched)' = {i}
    BY <1>3 DEF RoutingInv, RoutesUnique, routing_entry_find
  <2>2. HasRoute(Watched)'
    BY <2>1 DEF HasRoute
  <2>3. i <= i
    BY <1>3 DEF RoutingInv, RoutingTypeOK
  <2>4. RouteOf(Watched)' = routing_table'[i]
    BY <2>1, <2>3 DEF RouteOf
  <2>5. PICK e : e = routing_table'[i]
    OBVIOUS
  <2>6. e \in Entry
    BY <1>3, <2>5 DEF RoutingInv, RoutingTypeOK
  <2>7. e.distance \in Distance /\ e.interface \in Interface
    BY <2>6 DEF Entry
  <2>8. \A f \in Interface, k \in Distance :
          k <= e.distance => heard'[f][k] = h[f][k]
    BY <2>2, <2>4, <2>5 DEF Record
  <2>9. AsHeard(h, e)
    BY <1>3, <2>5
  <2>10. e.distance <= e.distance
    BY <1>0, <2>7
  <2>11. /\ heard'[e.interface][e.distance] # Never
         /\ \E f \in Interface : heard'[f][e.distance] = e.age
         /\ \A f \in Interface : heard'[f][e.distance] >= e.age
    BY <2>7, <2>8, <2>9, <2>10 DEF AsHeard
  <2>12. \A f \in Interface, k \in Distance :
           k < e.distance => heard'[f][k] = Never
    BY <1>0, <2>7, <2>8, <2>9 DEF AsHeard
  <2> QED  BY <2>5, <2>11, <2>12 DEF AsHeard
<1>4. RouteAsHeard'
  BY <1>3 DEF RouteAsHeard
<1> QED  BY <1>1, <1>2, <1>4

(* A RIP packet of the watched device leaves its entry in agreement with the
   record that has the packet. *)
LEMMA UpdateAsHeard ==
  ASSUME NEW h \in Records, NEW e \in Entry, AsHeard(h, e),
         NEW f \in Interface, NEW dist \in Distance
  PROVE  AsHeard([g \in Interface |-> [n \in Distance |->
                    IF g = f /\ n = dist THEN 0 ELSE h[g][n]]],
                 UpdatedEntry(e, f, dist))
<1>1. PICK r : r = [g \in Interface |-> [n \in Distance |->
                      IF g = f /\ n = dist THEN 0 ELSE h[g][n]]]
  OBVIOUS
<1>2. \A g \in Interface, n \in Distance :
        r[g][n] = IF g = f /\ n = dist THEN 0 ELSE h[g][n]
  BY <1>1
<1>3. \A g \in Interface, n \in Distance : r[g][n] \in 0..Never
  BY <1>2, RoutingAssumption DEF Records, Never, AgeMax
<1>4. /\ (\A n \in Distance : n \in Nat) /\ Never \in Nat /\ Never > 0
      /\ e.distance \in Distance /\ e.interface \in Interface
      /\ e.age \in 0..AgeMax
  BY RoutingAssumption DEF Distance, Never, AgeMax, Entry
<1>5. PICK u : u = UpdatedEntry(e, f, dist)
  OBVIOUS
<1>6. CASE e.distance > dist
  <2>1. u = [e EXCEPT !.interface = f, !.distance = dist, !.age = 0]
    BY <1>5, <1>6 DEF UpdatedEntry
  <2>2. u.interface = f /\ u.distance = dist /\ u.age = 0
    BY <2>1 DEF Entry
  <2>3. \A g \in Interface, k \in Distance : k < dist => r[g][k] = Never
    BY <1>2, <1>4, <1>6 DEF AsHeard
  <2>4. r[f][dist] = 0 /\ \A g \in Interface : r[g][dist] >= 0
    BY <1>2, <1>3, <1>4
  <2>5. AsHeard(r, u)
    BY <1>4, <2>2, <2>3, <2>4 DEF AsHeard
  <2> QED  BY <1>1, <1>5, <2>5
<1>7. CASE e.distance = dist
  <2>1. u = [e EXCEPT !.age = 0]
    BY <1>4, <1>5, <1>7 DEF UpdatedEntry
  <2>2. u.interface = e.interface /\ u.distance = dist /\ u.age = 0
    BY <1>7, <2>1 DEF Entry
  <2>3. \A g \in Interface, k \in Distance : k < dist => r[g][k] = Never
    BY <1>2, <1>4, <1>7 DEF AsHeard
  <2>4. r[f][dist] = 0 /\ \A g \in Interface : r[g][dist] >= 0
    BY <1>2, <1>3, <1>4
  <2>5. r[e.interface][dist] # Never
    BY <1>2, <1>4, <1>7 DEF AsHeard
  <2>6. AsHeard(r, u)
    BY <1>4, <2>2, <2>3, <2>4, <2>5 DEF AsHeard
  <2> QED  BY <1>1, <1>5, <2>6
<1>8. CASE e.distance < dist
  <2>1. u = e
    BY <1>4, <1>5, <1>8 DEF UpdatedEntry
  <2>2. \A g \in Interface, k \in Distance :
          k <= e.distance => r[g][k] = h[g][k]
    BY <1>2, <1>4, <1>8
  <2>3. e.distance <= e.distance /\ \A k \in Distance : k < e.distance => k <= e.distance
    BY <1>4
  <2>4. AsHeard(r, e)
    BY <1>4, <2>2, <2>3 DEF AsHeard
  <2> QED  BY <1>1, <1>5, <2>1, <2>4
<1>9. e.distance > dist \/ e.distance = dist \/ e.distance < dist
  BY <1>4
<1> QED  BY <1>6, <1>7, <1>8, <1>9

(* Time passes alike for the entry and for the record. *)
LEMMA TickAsHeard ==
  ASSUME heard \in Records, NEW e \in Entry, AsHeard(heard, e)
  PROVE  AsHeard(AgedRecord, [e EXCEPT !.age = Older(@, AgeMax)])
<1>1. PICK r : r = AgedRecord
  OBVIOUS
<1>2. \A f \in Interface, k \in Distance :
        r[f][k] = IF heard[f][k] = Never THEN Never ELSE Older(heard[f][k], AgeMax)
  BY <1>1 DEF AgedRecord
<1>3. /\ (\A n \in Distance : n \in Nat) /\ AgeMax \in Nat /\ Never = AgeMax + 1
      /\ e.distance \in Distance /\ e.interface \in Interface
      /\ e.age \in 0..AgeMax
  BY RoutingAssumption DEF Distance, Never, AgeMax, Entry
<1>4. \A f \in Interface, k \in Distance : heard[f][k] \in 0..Never
  BY DEF Records
<1>5. PICK u : u = [e EXCEPT !.age = Older(@, AgeMax)]
  OBVIOUS
<1>6. u.interface = e.interface /\ u.distance = e.distance
      /\ u.age = Older(e.age, AgeMax)
  BY <1>5 DEF Entry
<1>7. \A f \in Interface, k \in Distance : (r[f][k] = Never) <=> (heard[f][k] = Never)
  <2>1. \A n \in 0..Never : n # Never => Older(n, AgeMax) # Never
    BY <1>3 DEF Older
  <2> QED  BY <1>2, <1>4, <2>1
<1>8. PICK f \in Interface : heard[f][e.distance] = e.age
  BY DEF AsHeard
<1>9. r[f][e.distance] = u.age
  BY <1>2, <1>3, <1>6, <1>8
<1>10. \A g \in Interface : r[g][e.distance] >= u.age
  <2> SUFFICES ASSUME NEW g \in Interface PROVE r[g][e.distance] >= u.age
    OBVIOUS
  <2>1. heard[g][e.distance] >= e.age /\ heard[g][e.distance] \in 0..Never
    BY <1>3, <1>4 DEF AsHeard
  <2>2. r[g][e.distance] = IF heard[g][e.distance] = Never THEN Never
                           ELSE Older(heard[g][e.distance], AgeMax)
    BY <1>2, <1>3
  <2>3. \A n \in 0..Never, a \in 0..AgeMax :
          n >= a => (IF n = Never THEN Never ELSE Older(n, AgeMax)) >= Older(a, AgeMax)
    BY <1>3 DEF Older
  <2> QED  BY <1>3, <1>6, <2>1, <2>2, <2>3
<1>11. r[e.interface][e.distance] # Never
  BY <1>3, <1>7 DEF AsHeard
<1>12. \A g \in Interface, k \in Distance : k < e.distance => r[g][k] = Never
  BY <1>7 DEF AsHeard
<1>13. AsHeard(r, u)
  BY <1>6, <1>9, <1>10, <1>11, <1>12 DEF AsHeard
<1> QED  BY <1>1, <1>5, <1>13

(* Removing entries leaves the others as they are. *)
LEMMA RemovalAsHeard ==
  ASSUME HistoryInv, NEW gone, RemoveEntries(gone), Record(heard), RoutingInv'
  PROVE  HistoryInv'
<1>1. PICK m : Compacts(gone, m)
  BY Compaction DEF HistoryInv, RoutingInv
<1>2. \A j \in 1..Len(routing_table') :
        /\ m[j] \in 1..Len(routing_table)
        /\ routing_table'[j] = routing_table[m[j]]
  BY <1>1 DEF Compacts
<1>3. \A j \in 1..Len(routing_table') :
        routing_table'[j].device_id = Watched => AsHeard(heard, routing_table'[j])
  BY <1>2 DEF HistoryInv, RouteAsHeard
<1> QED  BY <1>3, RecordKeeps DEF HistoryInv

(* A RIP packet of any device keeps the entry of the watched one and the record
   in agreement. *)
LEMMA RipAsHeard ==
  ASSUME HistoryInv, NEW d \in Device, NEW f \in Interface, NEW dist \in Distance,
         HistoryRip(d, f, dist)
  PROVE  HistoryInv'
<1>0. /\ routing_table \in Seq(Entry) /\ Len(routing_table) \in Nat
      /\ routing_table' = TableAfterUpdate(d, f, dist)
      /\ RoutingInv /\ heard \in Records
  BY DEF HistoryInv, RoutingInv, RoutingTypeOK, HistoryRip, Rip, routing_table_update
<1>1. RoutingInv'
  BY UpdateInv DEF HistoryInv, HistoryRip, Rip
<1>2. PICK h : h = IF d = Watched THEN HeardOver(f, dist) ELSE heard
  OBVIOUS
<1>3. h \in Records /\ Record(h)
  <2>1. 0 \in 0..Never
    BY RoutingAssumption DEF Never, AgeMax
  <2>2. HeardOver(f, dist) \in Records
    BY <1>0, <2>1 DEF HeardOver, Records
  <2> QED  BY <1>0, <1>2, <2>2 DEF HistoryRip
<1>4. ASSUME NEW j \in 1..Len(routing_table'),
             routing_table'[j].device_id = Watched
      PROVE  AsHeard(h, routing_table'[j])
  <2>0. Watched # DEVICE_ID
    BY <1>1, <1>4 DEF RoutingInv, RoutesUnique
  <2>1. CASE d = DEVICE_ID
    <3>1. routing_table' = routing_table /\ h = heard
      BY <1>0, <1>2, <2>0, <2>1 DEF TableAfterUpdate
    <3> QED  BY <1>4, <3>1 DEF HistoryInv, RouteAsHeard
  <2>2. CASE d # DEVICE_ID /\ HasRoute(d)
    <3>1. routing_table' =
            [i \in 1..Len(routing_table) |->
              IF i \in routing_entry_find(d)
                THEN UpdatedEntry(routing_table[i], f, dist)
                ELSE routing_table[i]]
      BY <1>0, <2>2 DEF TableAfterUpdate
    <3>2. j \in 1..Len(routing_table) /\ routing_table[j] \in Entry
      BY <1>0, <1>4, <3>1
    <3>3. routing_table[j].device_id = Watched
      BY <1>4, <3>1, <3>2, UpdatedEntryOK
    <3>4. AsHeard(heard, routing_table[j])
      BY <3>2, <3>3 DEF HistoryInv, RouteAsHeard
    <3>5. CASE d = Watched
      <4>1. routing_table'[j] = UpdatedEntry(routing_table[j], f, dist)
        BY <3>1, <3>2, <3>3, <3>5 DEF routing_entry_find
      <4>2. h = HeardOver(f, dist)
        BY <1>2, <3>5
      <4> QED  BY <1>0, <3>2, <3>4, <4>1, <4>2, UpdateAsHeard DEF HeardOver
    <3>6. CASE d # Watched
      <4>1. routing_table'[j] = routing_table[j]
        BY <3>1, <3>2, <3>3, <3>6 DEF routing_entry_find
      <4> QED  BY <1>2, <3>4, <3>6, <4>1
    <3> QED  BY <3>5, <3>6
  <2>3. CASE /\ d # DEVICE_ID /\ ~HasRoute(d)
             /\ Len(routing_table) < ROUTING_TABLE_SIZE
    <3>1. routing_table' = Append(routing_table, NewEntry(d, f, dist))
      BY <1>0, <2>3 DEF TableAfterUpdate
    <3>2. CASE j \in 1..Len(routing_table)
      <4>1. routing_table'[j] = routing_table[j]
        BY <1>0, <3>1, <3>2
      <4>2. d # Watched
        BY <1>4, <2>3, <3>2, <4>1 DEF HasRoute, routing_entry_find
      <4> QED  BY <1>2, <1>4, <3>2, <4>1, <4>2 DEF HistoryInv, RouteAsHeard
    <3>3. CASE j = Len(routing_table) + 1
      <4>1. routing_table'[j] = NewEntry(d, f, dist)
        BY <1>0, <3>1, <3>3
      <4>2. d = Watched
        BY <1>4, <4>1 DEF NewEntry
      <4>3. heard = Unheard
        BY <2>3, <4>2 DEF HistoryInv
      <4>4. h = HeardOver(f, dist)
        BY <1>2, <4>2
      <4>5. \A g \in Interface, n \in Distance :
              h[g][n] = IF g = f /\ n = dist THEN 0 ELSE Never
        BY <4>3, <4>4 DEF HeardOver, Unheard
      <4>6. Never \in Nat /\ Never # 0 /\ (\A n \in Distance : n \in Nat)
        BY RoutingAssumption DEF Never, AgeMax, Distance
      <4>7. PICK e : e = NewEntry(d, f, dist)
        OBVIOUS
      <4>8. e.interface = f /\ e.distance = dist /\ e.age = 0
        BY <4>7 DEF NewEntry
      <4>9. AsHeard(h, e)
        BY <4>5, <4>6, <4>8 DEF AsHeard
      <4> QED  BY <4>1, <4>7, <4>9
    <3>4. Len(routing_table') = Len(routing_table) + 1
      BY <1>0, <3>1
    <3> QED  BY <1>0, <1>4, <3>2, <3>3, <3>4
  <2>4. CASE /\ d # DEVICE_ID /\ ~HasRoute(d)
             /\ ~(Len(routing_table) < ROUTING_TABLE_SIZE)
    <3>1. routing_table' = routing_table
      BY <1>0, <2>4 DEF TableAfterUpdate
    <3>2. d # Watched
      BY <1>4, <2>4, <3>1 DEF HasRoute, routing_entry_find
    <3> QED  BY <1>2, <1>4, <3>1, <3>2 DEF HistoryInv, RouteAsHeard
  <2> QED  BY <2>1, <2>2, <2>3, <2>4
<1> QED  BY <1>1, <1>3, <1>4, RecordKeeps DEF HistoryInv

(* The passing of time keeps the entry and the record in agreement. *)
LEMMA HistoryTickInv ==
  ASSUME HistoryInv, HistoryTick
  PROVE  HistoryInv'
<1>1. RoutingInv'
  BY TickInv DEF HistoryInv, HistoryTick
<1>2. AgedRecord \in Records
  <2>1. ASSUME NEW f \in Interface, NEW k \in Distance
        PROVE  (IF heard[f][k] = Never THEN Never ELSE Older(heard[f][k], AgeMax))
                 \in 0..Never
    <3>1. heard[f][k] \in 0..Never /\ AgeMax \in Nat /\ Never = AgeMax + 1
      BY RoutingAssumption DEF HistoryInv, Records, AgeMax, Never
    <3> QED  BY <3>1 DEF Older
  <2> QED  BY <2>1 DEF AgedRecord, Records
<1>3. ASSUME NEW j \in 1..Len(routing_table'),
             routing_table'[j].device_id = Watched
      PROVE  AsHeard(AgedRecord, routing_table'[j])
  <2>0. routing_table \in Seq(Entry) /\ Len(routing_table) \in Nat
    BY DEF HistoryInv, RoutingInv, RoutingTypeOK
  <2>1. routing_table' = AgedTable
    BY DEF HistoryTick, RoutingTick
  <2>2. j \in 1..Len(routing_table) /\ routing_table[j] \in Entry
    BY <1>3, <2>0, <2>1 DEF AgedTable
  <2>3. routing_table'[j] = [routing_table[j] EXCEPT !.age = Older(@, AgeMax)]
    BY <2>1, <2>2 DEF AgedTable
  <2>4. routing_table[j].device_id = Watched
    BY <1>3, <2>2, <2>3 DEF Entry
  <2>5. AsHeard(heard, routing_table[j]) /\ heard \in Records
    BY <2>2, <2>4 DEF HistoryInv, RouteAsHeard
  <2> QED  BY <2>2, <2>3, <2>5, TickAsHeard
<1> QED  BY <1>1, <1>2, <1>3, RecordKeeps DEF HistoryTick, HistoryInv

(* Every step keeps the entry of the watched device and the record of what was
   heard of it in agreement. *)
LEMMA HistoryStep ==
  ASSUME HistoryInv, [HistoryNext]_historyVars
  PROVE  HistoryInv'
<1>1. ASSUME NEW d \in Device, NEW f \in Interface, NEW k \in Distance,
             HistoryRip(d, f, k)
      PROVE  HistoryInv'
  BY <1>1, RipAsHeard
<1>2. CASE HistoryCheck
  <2>1. RoutingInv'
    BY <1>2, RemovalInv DEF HistoryCheck, routing_table_check, HistoryInv
  <2> QED  BY <1>2, <2>1, RemovalAsHeard DEF HistoryCheck, routing_table_check
<1>3. ASSUME NEW f \in Interface, HistoryLinks(f) PROVE HistoryInv'
  <2>1. CASE AddInterface(f)
    <3>1. routing_table' = routing_table
      BY <2>1 DEF AddInterface
    <3>2. RoutingNext
      BY <2>1 DEF RoutingNext
    <3>3. RoutingInv'
      BY <3>2, RoutingStep DEF HistoryInv
    <3> QED  BY <1>3, <3>1, <3>3, RecordKeeps
             DEF HistoryLinks, HistoryInv, RouteAsHeard
  <2>2. CASE RemoveInterface(f)
    <3>1. PICK alike : RemoveEntries(RemovedByScan(Over(f) \cup alike))
      BY <2>2 DEF RemoveInterface, RoutesOverRemoved
    <3>2. RoutingNext
      BY <2>2 DEF RoutingNext
    <3>3. RoutingInv'
      BY <3>2, RoutingStep DEF HistoryInv
    <3> QED  BY <1>3, <3>1, <3>3, RemovalAsHeard DEF HistoryLinks
  <2> QED  BY <1>3, <2>1, <2>2 DEF HistoryLinks
<1>4. CASE HistoryTick
  BY <1>4, HistoryTickInv
<1>5. CASE UNCHANGED historyVars
  <2>1. RoutingInv'
    BY <1>5 DEF historyVars, HistoryInv, RoutingInv, RoutingTypeOK, RoutesUnique
  <2> QED  BY <1>5, <2>1 DEF historyVars, HistoryInv, RouteAsHeard, AsHeard,
                             HasRoute, routing_entry_find
<1> QED  BY <1>1, <1>2, <1>3, <1>4, <1>5 DEF HistoryNext

(* For every device, any number of links and any interleaving of their packets,
   the route is the shortest path offered since the entry exists, over a link
   that offered it, and it expires by the time since that distance was last
   offered over any link: this is how an entry may outlive its own link, and
   the only way. *)
THEOREM RoutesAsHeard == HistorySpec => []RouteAsHeard
<1>1. HistoryInit => HistoryInv
  <2> SUFFICES ASSUME HistoryInit PROVE HistoryInv
    OBVIOUS
  <2>1. RoutingInv
    BY RoutingInitInv DEF HistoryInit
  <2>2. heard \in Records /\ heard = Unheard
    BY RoutingAssumption DEF HistoryInit, Unheard, Records, Never, AgeMax
  <2>3. RouteAsHeard
    BY DEF HistoryInit, RoutingInit, RouteAsHeard
  <2> QED  BY <2>1, <2>2, <2>3 DEF HistoryInv
<1>2. HistoryInv /\ [HistoryNext]_historyVars => HistoryInv'
  BY HistoryStep
<1>3. HistoryInv => RouteAsHeard
  BY DEF HistoryInv
<1> QED  BY <1>1, <1>2, <1>3, PTL DEF HistorySpec

(* The type invariant of the table, on its own. *)
THEOREM RoutingTypeSafety == RoutingSpec => []RoutingTypeOK
<1>1. RoutingTypeOK /\ RoutesUnique => RoutingTypeOK
  OBVIOUS
<1> QED  BY <1>1, RoutingSafety, PTL

-----------------------------------------------------------------------------
(* Induction, for a set of numbers: the form of it that the provers can use. *)
LEMMA NatSetInduction ==
  ASSUME NEW S, 0 \in S, \A k \in Nat : k \in S => k + 1 \in S
  PROVE  Nat \subseteq S
<1> DEFINE T == Nat \ S
<1> SUFFICES ASSUME T # {} PROVE FALSE
  OBVIOUS
<1>1. IsWellFoundedOn(OpToRel(<,Nat), Nat)
  BY NatLessThanWellFounded, Zenon
<1>2. PICK x \in T : \A y \in T : ~(<<y, x>> \in OpToRel(<,Nat))
  BY <1>1, WFMin, Zenon
<1>3. x # 0 /\ x - 1 \in Nat
  OBVIOUS
<1>4. x - 1 \in T
  BY <1>3
<1>5. <<x - 1, x>> \in OpToRel(<,Nat)
  BY <1>3, SMT DEF OpToRel
<1> QED  BY <1>2, <1>4, <1>5, Zenon

(* The indices the removal loops remove, up to the n-th: one of drop is removed
   exactly if its predecessor was not. *)
LEMMA ScanSet ==
  ASSUME NEW drop, NEW n \in Nat
  PROVE  \E R \in SUBSET (1..n) :
           \A i \in 1..n : i \in R <=> (i \in drop /\ i - 1 \notin R)
<1> DEFINE Scans(R, k) == \A i \in 1..k : i \in R <=> (i \in drop /\ i - 1 \notin R)
           S == {k \in Nat : \E R \in SUBSET (1..k) : Scans(R, k)}
<1>1. 0 \in S
  <2>1. {} \in SUBSET (1..0) /\ Scans({}, 0)
    OBVIOUS
  <2> HIDE DEF Scans
  <2> QED  BY <2>1
<1>2. ASSUME NEW k \in Nat, k \in S PROVE k + 1 \in S
  <2>1. PICK R \in SUBSET (1..k) : Scans(R, k)
    BY <1>2
  <2> DEFINE Q == IF k + 1 \in drop /\ k \notin R THEN R \cup {k + 1} ELSE R
  <2>2. Q \in SUBSET (1..(k + 1))
    OBVIOUS
  <2>3. ASSUME NEW i \in 1..(k + 1)
        PROVE  i \in Q <=> (i \in drop /\ i - 1 \notin Q)
    <3>1. CASE i = k + 1
      BY <3>1
    <3>2. CASE i # k + 1
      <4>1. i \in 1..k /\ i - 1 # k + 1 /\ i # k + 1
        BY <3>2
      <4>2. (i \in Q <=> i \in R) /\ (i - 1 \in Q <=> i - 1 \in R)
        BY <4>1
      <4> QED  BY <2>1, <4>1, <4>2
    <3> QED  BY <3>1, <3>2
  <2> HIDE DEF Q
  <2>4. Scans(Q, k + 1)
    BY <2>3
  <2> QED  BY <2>2, <2>4
<1> HIDE DEF S
<1>3. Nat \subseteq S
  BY <1>1, <1>2, NatSetInduction
<1> QED  BY <1>3 DEF S

(* RemovedByScan is that set: an index of drop that does not follow another one
   is removed. *)
LEMMA ScanRemoves ==
  ASSUME RoutingTypeOK, NEW drop, NEW i \in drop,
         i \in 1..Len(routing_table), i - 1 \notin drop
  PROVE  i \in RemovedByScan(drop)
<1> DEFINE n == Len(routing_table)
           F(r) == [j \in 0..n |-> IF j = 0 THEN FALSE ELSE j \in drop /\ ~r[j - 1]]
           removed == CHOOSE r : r = F(r)
<1>0. n \in Nat
  BY DEF RoutingTypeOK
<1>1. PICK R \in SUBSET (1..n) :
        \A j \in 1..n : j \in R <=> (j \in drop /\ j - 1 \notin R)
  BY <1>0, ScanSet
<1> DEFINE r0 == [j \in 0..n |-> j \in R]
<1>2. r0 = F(r0)
  <2>1. ASSUME NEW j \in 0..n
        PROVE  (j \in R) = (IF j = 0 THEN FALSE ELSE j \in drop /\ ~r0[j - 1])
    <3>1. CASE j = 0
      <4>1. j \notin R
        BY <1>0, <3>1
      <4>2. (j \in R) = FALSE
        BY <4>1
      <4> HIDE DEF r0
      <4> QED  BY <3>1, <4>2, Zenon
    <3>2. CASE j # 0
      <4>1. j \in 1..n /\ j - 1 \in 0..n
        BY <1>0, <3>2
      <4>2. r0[j - 1] = (j - 1 \in R)
        BY <4>1, Zenon
      <4>3. (j \in R) = (j \in drop /\ j - 1 \notin R)
        BY <1>1, <4>1
      <4> QED  BY <3>2, <4>2, <4>3
    <3> QED  BY <3>1, <3>2, Zenon
  <2> QED  BY <2>1, Zenon
<1>3. removed = F(removed)
  <2> HIDE DEF F, r0
  <2> QED  BY <1>2, Zenon
<1>4. i \in 0..n /\ i - 1 \in 0..n /\ i # 0
  BY <1>0
<1> HIDE DEF removed
<1>5. removed[i] = (i \in drop /\ ~removed[i - 1])
  BY <1>3, <1>4, Zenon
<1>6. removed[i - 1] = (IF i - 1 = 0 THEN FALSE ELSE i - 1 \in drop /\ ~removed[(i - 1) - 1])
  BY <1>3, <1>4, Zenon
<1>7. removed[i]
  BY <1>5, <1>6, Zenon
<1> QED  BY <1>7, Zenon DEF RemovedByScan, removed

(* The condition under which interface_removed leaves nothing behind. *)
Apart(f) == \A i \in Over(f) : i + 1 \notin Over(f) /\ i - 1 \notin Dangling

(* The first loop of interface_removed finds all routes over the interface if no
   two entries that it removes are neighbours. *)
LEMMA SweptRoutes ==
  ASSUME RoutingInv, NEW f, RemoveInterface(f), Apart(f)
  PROVE  \A j \in 1..Len(routing_table') : routing_table'[j].interface # f
<1>1. PICK alike \in SUBSET Dangling : RemoveEntries(RemovedByScan(Over(f) \cup alike))
  BY DEF RemoveInterface, RoutesOverRemoved
<1> DEFINE drop == Over(f) \cup alike
<1>2. ASSUME NEW i \in Over(f) PROVE i \in RemovedByScan(drop)
  <2>1. i \in 1..Len(routing_table) /\ i \in Int
    BY DEF Over, RoutingInv, RoutingTypeOK
  <2>2. i - 1 \notin Over(f)
    <3> SUFFICES ASSUME i - 1 \in Over(f) PROVE FALSE
      OBVIOUS
    <3>1. (i - 1) + 1 \notin Over(f)
      BY DEF Apart
    <3>2. (i - 1) + 1 = i
      BY <2>1
    <3> QED  BY <3>1, <3>2
  <2>3. i - 1 \notin drop
    BY <2>2 DEF Apart
  <2> HIDE DEF drop
  <2>4. i \in drop
    BY DEF drop
  <2> QED  BY <2>1, <2>3, <2>4, ScanRemoves DEF RoutingInv
<1> HIDE DEF drop
<1>3. PICK m : Compacts(RemovedByScan(drop), m)
  BY <1>1, Compaction DEF RoutingInv, drop
<1>4. ASSUME NEW j \in 1..Len(routing_table') PROVE routing_table'[j].interface # f
  <2>1. m[j] \in (1..Len(routing_table)) \ RemovedByScan(drop)
    BY <1>3 DEF Compacts
  <2>2. routing_table'[j] = routing_table[m[j]]
    BY <1>3 DEF Compacts
  <2> QED  BY <1>2, <2>1, <2>2 DEF Over
<1> QED  BY <1>4

(* For every table: interface_removed leaves no route over the removed interface
   behind, unless two entries that its loop removes are neighbours. *)
THEOREM RoutesSwept == RoutingSpec => NoRouteLeftBehind
<1>1. RoutingInv /\ [RoutingNext]_routingVars =>
        [\A f \in interfaces \ interfaces' :
           (\A i \in Over(f) : i + 1 \notin Over(f) /\ i - 1 \notin Dangling)
           => \A j \in 1..Len(routing_table') :
                routing_table'[j].interface # f]_routingVars
  <2> SUFFICES ASSUME RoutingInv, RoutingNext, NEW f \in interfaces \ interfaces', Apart(f)
               PROVE  \A j \in 1..Len(routing_table') : routing_table'[j].interface # f
    BY DEF Apart
  <2>1. RemoveInterface(f)
    BY DEF RoutingNext, Rip, routing_table_update, routing_table_check, AddInterface,
           interface_add, RemoveInterface, RoutingTick
  <2> QED  BY <2>1, SweptRoutes
<1> QED  BY <1>1, RoutingInitInv, RoutingStep, PTL DEF RoutingSpec, NoRouteLeftBehind

=============================================================================
