------------------------------ MODULE Replica ------------------------------
(***************************************************************************)
(* What the exchange of samples promises.  A slot is nothing, a marker or  *)
(* a value, in this order.  The source only gains; the copy never holds    *)
(* more than the source does, and keeps a value once it has it.            *)
(***************************************************************************)
EXTENDS Naturals

CONSTANT Slot

Nothing == 0
Marker == 1
Value == 2

VARIABLES source, copy

Init == /\ source = [s \in Slot |-> Nothing]
        /\ copy = [s \in Slot |-> Nothing]

(* slots of the source are filled *)
Fill == /\ source' \in [Slot -> {Nothing, Marker, Value}]
        /\ \A s \in Slot : source[s] <= source'[s]
        /\ UNCHANGED copy

(* one slot arrives at the copy, possibly as it was some time ago *)
Arrive(s) == /\ copy[s] # Value
             /\ \E v \in {Nothing, Marker, Value} :
                  v <= source[s] /\ copy' = [copy EXCEPT ![s] = v]
             /\ UNCHANGED source

Spec == Init /\ [][Fill \/ \E s \in Slot : Arrive(s)]_<<source, copy>>

=============================================================================
