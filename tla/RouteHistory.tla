---------------------------- MODULE RouteHistory ----------------------------
(***************************************************************************)
(* Routing with a record of the RIP packets that one device, Watched, was  *)
(* heard by.  heard is a history variable: for each interface and each     *)
(* distance, how long ago the last such packet came, as an age like those  *)
(* of the routing table, and Never when none came since the device has its *)
(* entry.  The table keeps one interface, one distance and one time of all *)
(* this; RouteAsHeard says which.                                          *)
(***************************************************************************)
EXTENDS Routing

CONSTANT Watched

ASSUME WatchedAssumption == Watched \in Device

VARIABLE heard

historyVars == <<routing_table, interfaces, heard>>

Never == AgeMax + 1

Unheard == [f \in Interface |-> [k \in Distance |-> Never]]

(* The record starts anew with every entry of the device.  Packets of paths
   that are longer than the route are not kept in it. *)
Record(h) ==
  heard' = [f \in Interface |-> [k \in Distance |->
              IF HasRoute(Watched)' /\ k <= RouteOf(Watched)'.distance
                THEN h[f][k] ELSE Never]]

HeardOver(f, k) == [g \in Interface |-> [n \in Distance |->
                      IF g = f /\ n = k THEN 0 ELSE heard[g][n]]]

AgedRecord == [f \in Interface |-> [k \in Distance |->
                 IF heard[f][k] = Never THEN Never
                                        ELSE Older(heard[f][k], AgeMax)]]

HistoryInit == RoutingInit /\ heard = Unheard

HistoryRip(d, f, k) ==
  /\ Rip(d, f, k)
  /\ Record(IF d = Watched THEN HeardOver(f, k) ELSE heard)

HistoryCheck == routing_table_check /\ Record(heard)

HistoryLinks(f) == (AddInterface(f) \/ RemoveInterface(f)) /\ Record(heard)

HistoryTick == RoutingTick /\ Record(AgedRecord)

HistoryNext ==
  \/ \E d \in Device, f \in Interface, k \in Distance : HistoryRip(d, f, k)
  \/ HistoryCheck
  \/ \E f \in Interface : HistoryLinks(f)
  \/ HistoryTick

HistorySpec == HistoryInit /\ [][HistoryNext]_historyVars

(* run_timer and zejf_pico_run call routing_table_check every ten seconds for
   as long as the program runs; nothing is assumed of the other steps. *)
FairRouting == HistorySpec /\ WF_historyVars(HistoryCheck)

-----------------------------------------------------------------------------
(* What an entry of the watched device must agree with, when h is the record. *)
AsHeard(h, e) ==
  /\ h[e.interface][e.distance] # Never
  /\ \E f \in Interface : h[f][e.distance] = e.age
  /\ \A f \in Interface : h[f][e.distance] >= e.age
  /\ \A f \in Interface, k \in Distance : k < e.distance => h[f][k] = Never

(* A route is what was heard, however the packets of several links interleave
   (routing_table_update): it has the shortest distance that was offered since
   the entry exists, over an interface that offered it, and the age by which
   routing_table_check drops it is the time since that distance was last
   offered over any interface.  So a route outlives its link only while another
   link offers the same distance, and packets of longer paths never keep it. *)
RouteAsHeard ==
  \A i \in 1..Len(routing_table) :
    routing_table[i].device_id = Watched => AsHeard(heard, routing_table[i])

(* A device that has gone silent does not keep its route: once an entry is too
   old it is removed or the device is heard again, although one call of
   routing_table_check may miss it.  (Watched stands for any device.) *)
SilentRouteGoes ==
  (HasRoute(Watched) /\ RouteOf(Watched).age > ROUTING_ENTRY_TIMEOUT)
    ~> (~HasRoute(Watched) \/ RouteOf(Watched).age <= ROUTING_ENTRY_TIMEOUT)

=============================================================================
