-------------------------- MODULE DeviceIdsProofs --------------------------
(***************************************************************************)
(* Proofs about the id allocator of DeviceIds, for every size of the id    *)
(* space, of the reserved range and of the routing table.                  *)
(*                                                                         *)
(* FreshUntilWrap is not inductive by itself: it needs that next_free_id   *)
(* is ahead of everything that was ever handed out (AheadOfGiven).         *)
(***************************************************************************)
EXTENDS DeviceIds, TLAPS

(* Until it overflows, next_free_id is above every id that was handed out, and
   devices in the table have ids that are reserved or were handed out. *)
AheadOfGiven ==
  ~wrapped =>
    /\ next_free_id \in RESERVED_DEVICE_IDS..BROADCAST
    /\ given \subseteq RESERVED_DEVICE_IDS..(next_free_id - 1)
    /\ present \subseteq given \cup 1..(RESERVED_DEVICE_IDS - 1)

IdInv == IdTypeOK /\ AheadOfGiven

(* The search of routing_find_free_id only ever looks at valid ids. *)
LEMMA ProbeIsId ==
  ASSUME IdTypeOK, NEW k \in 0..ROUTING_TABLE_SIZE
  PROVE  Probe(k) \in Id
BY IdAssumption DEF IdTypeOK, Id, Probe

(* While next_free_id has not overflowed the search ends at its first probe,
   because everything in the table lies below. *)
LEMMA FirstProbe ==
  ASSUME IdInv, ~wrapped, NEW k \in 0..ROUTING_TABLE_SIZE, Found(k)
  PROVE  /\ k = 0
         /\ Probe(k) = next_free_id
<1>1. Probe(0) = next_free_id
  BY IdAssumption DEF IdInv, IdTypeOK, Id, Probe
<1>2. next_free_id \notin present
  BY IdAssumption DEF IdInv, AheadOfGiven, BROADCAST
<1>3. k # 0 => 0 \in 0..(k - 1)
  BY IdAssumption
<1> QED  BY <1>1, <1>2, <1>3, IdAssumption DEF Found

(* Before the first request the allocator is in order. *)
LEMMA IdInitInv == IdInit => IdInv
<1> SUFFICES ASSUME IdInit PROVE IdInv
  OBVIOUS
<1>1. /\ present \subseteq Id /\ next_free_id \in Id
      /\ answer \in Id /\ given \subseteq Id
  BY IdAssumption DEF IdInit, Id
<1>2. wrapped \in BOOLEAN
  BY DEF IdInit
<1>3. AheadOfGiven
  BY IdAssumption DEF IdInit, AheadOfGiven, BROADCAST
<1> QED  BY <1>1, <1>2, <1>3 DEF IdInv, IdTypeOK

(* What process_id_request does to the allocator: an id is in the id space, and
   until the overflow next_free_id moves past the id just handed out. *)
LEMMA IdRequestInv == IdInv /\ IdRequest => IdInv'
<1> SUFFICES ASSUME IdInv, NEW k \in 0..ROUTING_TABLE_SIZE,
                    Found(k),
                    next_free_id' = NextFree(Probe(k)),
                    answer' = IF next_free_id' = 0 THEN RESERVED_DEVICE_IDS
                                                   ELSE Probe(k),
                    given' = IF answer' = 0 THEN given ELSE given \cup {answer'},
                    wrapped' = (wrapped \/ next_free_id' = 0),
                    present' = present
             PROVE  IdInv'
  BY DEF IdRequest
<1>1. Probe(k) \in Id
  BY ProbeIsId DEF IdInv
<1>2. next_free_id' \in Id
  BY <1>1, IdAssumption DEF NextFree, Id
<1>3. IdTypeOK'
  <2>1. answer' \in Id
    BY <1>1, IdAssumption DEF Id
  <2>2. present' \subseteq Id /\ given' \subseteq Id
    BY <2>1 DEF IdInv, IdTypeOK
  <2>3. wrapped' \in BOOLEAN
    BY DEF IdInv, IdTypeOK
  <2> QED  BY <1>2, <2>1, <2>2, <2>3 DEF IdTypeOK
<1>4. ASSUME ~wrapped' PROVE AheadOfGiven'
  <2>1. ~wrapped /\ next_free_id' # 0
    BY <1>4
  <2>2. Probe(k) = next_free_id /\ next_free_id \in RESERVED_DEVICE_IDS..BROADCAST
    BY <2>1, FirstProbe DEF IdInv, AheadOfGiven
  <2>3. next_free_id' = next_free_id + 1 /\ next_free_id + 1 \in RESERVED_DEVICE_IDS..BROADCAST
    BY <2>1, <2>2, IdAssumption DEF NextFree, BROADCAST
  <2>4. answer' = next_free_id /\ given' = given \cup {next_free_id}
    BY <2>1, <2>2, IdAssumption DEF BROADCAST
  <2> QED  BY <2>1, <2>2, <2>3, <2>4, IdAssumption DEF IdInv, AheadOfGiven, BROADCAST
<1> QED  BY <1>3, <1>4 DEF IdInv, AheadOfGiven

(* Devices that come and go do not disturb the allocator. *)
LEMMA IdStep == IdInv /\ [IdNext]_idVars => IdInv'
<1> SUFFICES ASSUME IdInv, [IdNext]_idVars PROVE IdInv'
  OBVIOUS
<1>1. CASE IdRequest
  BY <1>1, IdRequestInv
<1>2. ASSUME NEW id \in Id, Join(id) PROVE IdInv'
  BY <1>2 DEF IdInv, IdTypeOK, AheadOfGiven, Join
<1>3. ASSUME NEW id \in Id, Leave(id) PROVE IdInv'
  BY <1>3 DEF IdInv, IdTypeOK, AheadOfGiven, Leave
<1>4. CASE UNCHANGED idVars
  BY <1>4 DEF IdInv, IdTypeOK, AheadOfGiven, idVars
<1> QED  BY <1>1, <1>2, <1>3, <1>4 DEF IdNext

(* process_id_request never sends an id outside the 16-bit range, and
   next_free_id stays within it. *)
THEOREM IdTypeSafety == IdSpec => []IdTypeOK
<1>1. IdInv => IdTypeOK
  BY DEF IdInv
<1> QED  BY <1>1, IdInitInv, IdStep, PTL DEF IdSpec

(* routing_find_free_id hands out every id at most once before next_free_id
   overflows: never a reserved one, never the broadcast address, never one in
   the routing table, whatever devices come and go between the requests. *)
THEOREM IdsFresh == IdSpec => FreshUntilWrap
<1>1. IdInv /\ [IdNext]_idVars =>
        [IdRequest /\ ~wrapped' =>
           /\ answer' \in RESERVED_DEVICE_IDS..(BROADCAST - 1)
           /\ answer' \notin present
           /\ answer' \notin given]_idVars
  <2> SUFFICES ASSUME IdInv, IdRequest, ~wrapped'
               PROVE  /\ answer' \in RESERVED_DEVICE_IDS..(BROADCAST - 1)
                      /\ answer' \notin present
                      /\ answer' \notin given
    OBVIOUS
  <2>1. PICK k \in 0..ROUTING_TABLE_SIZE :
          /\ Found(k)
          /\ next_free_id' = NextFree(Probe(k))
          /\ answer' = IF next_free_id' = 0 THEN RESERVED_DEVICE_IDS ELSE Probe(k)
          /\ wrapped' = (wrapped \/ next_free_id' = 0)
    BY DEF IdRequest
  <2>2. ~wrapped /\ next_free_id' # 0
    BY <2>1
  <2>3. answer' = next_free_id /\ next_free_id \in RESERVED_DEVICE_IDS..BROADCAST
    BY <2>1, <2>2, FirstProbe DEF IdInv, AheadOfGiven
  <2>4. next_free_id # BROADCAST
    BY <2>1, <2>2, FirstProbe, IdAssumption DEF NextFree, BROADCAST
  <2> QED  BY <2>2, <2>3, <2>4, IdAssumption DEF IdInv, AheadOfGiven, BROADCAST
<1> QED  BY <1>1, IdInitInv, IdStep, PTL DEF IdSpec, FreshUntilWrap

=============================================================================
