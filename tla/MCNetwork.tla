----------------------------- MODULE MCNetwork -----------------------------
(* Network for TLC: a hub with id 1 and two devices, 2 and 3, over two
   interfaces. *)
EXTENDS Network, TLC

Msg(from, to, command, ttl, flags) ==
  [from |-> from, to |-> to, command |-> command, ttl |-> ttl, flags |-> flags]

Rip2 == Msg(2, NOBODY, "RIP", 0, 1)
Rip3 == Msg(3, NOBODY, "RIP", 0, 0)

RipEcho == Msg(1, NOBODY, "RIP", 0, 1)
Data23 == Msg(2, 3, "DATA_LOG", 0, 0)
Old23 == Msg(2, 3, "DATA_LOG", 1, 0)
Ask21 == Msg(2, 1, "TIME_REQUEST", 0, 0)
Log21 == Msg(2, 1, "DATA_LOG", 0, 0)
IdReq == Msg(2, 1, "ID_REQUEST", 0, 0)

(* for the run on loss and broadcasts: an echo and an expired packet included *)
MCFewMessages == {Rip2, Rip3, RipEcho, Data23, Old23}

(* for the run on draining: packets for the hub itself, answered or not *)
MCLiveMessages == {Rip2, Rip3, Data23, Ask21, Log21, IdReq}

Symmetry == Permutations(Addr) \cup Permutations(Interface)

=============================================================================
