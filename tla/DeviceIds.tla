----------------------------- MODULE DeviceIds -----------------------------
(***************************************************************************)
(* The hub hands out device ids: process_id_request (zejf_network.c) calls *)
(* routing_find_free_id (zejf_routing.c).  The order of the routing table  *)
(* does not matter here, only which ids are in it (present).  Ids are      *)
(* uint16_t: IdSpace is 2^16 in the code and smaller for TLC.              *)
(***************************************************************************)
EXTENDS Naturals, FiniteSets

CONSTANTS IdSpace, RESERVED_DEVICE_IDS, DEVICE_ID, ROUTING_TABLE_SIZE

(* The table is smaller than the range of ids that are not reserved, so the
   search always ends and "return 0; // full" is never reached. *)
ASSUME IdAssumption ==
  /\ IdSpace \in Nat /\ RESERVED_DEVICE_IDS \in Nat \ {0}
  /\ ROUTING_TABLE_SIZE \in Nat
  /\ RESERVED_DEVICE_IDS + ROUTING_TABLE_SIZE < IdSpace
  /\ DEVICE_ID \in 1..(RESERVED_DEVICE_IDS - 1)

Id == 0..(IdSpace - 1)
BROADCAST == IdSpace - 1     \* 0xFFFF

VARIABLES present,        \* the device ids in the routing table
          next_free_id,
          answer,         \* the id in the last ID_INFO; 0: no answer was sent
          given,          \* history: the ids handed out so far
          wrapped         \* history: next_free_id has overflowed

idVars == <<present, next_free_id, answer, given, wrapped>>

IdInit == /\ present = {}
          /\ next_free_id = RESERVED_DEVICE_IDS
          /\ answer = 0
          /\ given = {}
          /\ wrapped = FALSE

(* the k-th id the search looks at *)
Probe(k) == IF next_free_id + k < IdSpace
              THEN next_free_id + k
              ELSE next_free_id + k - IdSpace + RESERVED_DEVICE_IDS

(* where the search stops *)
Found(k) == /\ Probe(k) \notin present
            /\ \A j \in 0..(k - 1) : Probe(j) \in present

NextFree_same(id) == id

NextFree_wide(id) == id + 1

NextFree(id) == (id + 1) % IdSpace

(* routing_find_free_id found id at the k-th probe: next_free_id becomes the
   id after it, and if that overflows it is id that is set to the first
   unreserved one.  process_id_request sends no answer for 0. *)
IdRequest ==
  \E k \in 0..ROUTING_TABLE_SIZE :
    /\ Found(k)
    /\ next_free_id' = NextFree(Probe(k))
    /\ answer' = IF next_free_id' = 0 THEN RESERVED_DEVICE_IDS ELSE Probe(k)
    /\ given' = IF answer' = 0 THEN given ELSE given \cup {answer'}
    /\ wrapped' = (wrapped \/ next_free_id' = 0)
    /\ UNCHANGED present

(* A RIP packet of a device with a reserved id or with one it was given
   (routing_table_insert; the device itself is never in its table). *)
Join(id) ==
  /\ id \notin present /\ id # DEVICE_ID
  /\ id \in given \cup 1..(RESERVED_DEVICE_IDS - 1)
  /\ Cardinality(present) < ROUTING_TABLE_SIZE
  /\ present' = present \cup {id}
  /\ UNCHANGED <<next_free_id, answer, given, wrapped>>

(* routing_table_check or interface_removed drops it again *)
Leave(id) ==
  /\ id \in present
  /\ present' = present \ {id}
  /\ UNCHANGED <<next_free_id, answer, given, wrapped>>

IdNext == \/ IdRequest
          \/ \E id \in Id : Join(id) \/ Leave(id)

IdSpec == IdInit /\ [][IdNext]_idVars

-----------------------------------------------------------------------------
(* Type invariant of the id allocator. *)
IdTypeOK == /\ present \subseteq Id
            /\ next_free_id \in Id
            /\ answer \in Id
            /\ given \subseteq Id
            /\ wrapped \in BOOLEAN

(* Until next_free_id overflows, every ID_INFO names an id nobody has: not
   reserved, not the broadcast address, not in the routing table, and not handed
   out before - in particular not to a client that asked a moment ago and has
   not yet announced itself with a RIP packet. *)
FreshUntilWrap ==
  [][IdRequest /\ ~wrapped' =>
       /\ answer' \in RESERVED_DEVICE_IDS..(BROADCAST - 1)
       /\ answer' \notin present
       /\ answer' \notin given]_idVars

=============================================================================
