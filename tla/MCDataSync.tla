----------------------------- MODULE MCDataSync -----------------------------
(* DataSync for TLC. *)
EXTENDS DataSync

(* On the hub link what matters is which hours the checks reach; on the viewer's,
   that an old marker arrives after the value. *)
MCHorizon == [hub |-> 2, viewer |-> 1]
MCMaxWire == [hub |-> 2, viewer |-> 2]

=============================================================================
