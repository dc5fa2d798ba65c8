---------------------------- MODULE SampleStore ----------------------------
(***************************************************************************)
(* What the data store of zejf_data.c promises when the disk works and the *)
(* process is not interrupted: one cell per hour and sample, whatever is   *)
(* cached, evicted, saved or loaded again.                                 *)
(***************************************************************************)
CONSTANTS Hour, Sample, Value, EMPTY, NOT_MEASURED

VARIABLE store    \* store[h][s]: the current sample

StoreInit == store = [h \in Hour |-> [s \in Sample |-> EMPTY]]

(* A measurement may be replaced by another one, never by a marker. *)
Log(h, s, v) == /\ store[h][s] \in Value => v \in Value
                /\ store' = [store EXCEPT ![h][s] = v]

(* The provider of a variable declares some empty samples of an hour as not
   measured. *)
MarkMissing(h) ==
  /\ store' \in [Hour -> [Sample -> Value \cup {EMPTY, NOT_MEASURED}]]
  /\ \A g \in Hour, s \in Sample :
       store'[g][s] # store[g][s] => /\ g = h
                                     /\ store[g][s] = EMPTY
                                     /\ store'[g][s] = NOT_MEASURED

StoreNext ==
  \/ \E h \in Hour, s \in Sample, v \in Value \cup {EMPTY, NOT_MEASURED} :
       Log(h, s, v)
  \/ \E h \in Hour : MarkMissing(h)

StoreSpec == StoreInit /\ [][StoreNext]_store

=============================================================================
