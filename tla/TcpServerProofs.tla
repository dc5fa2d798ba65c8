-------------------------- MODULE TcpServerProofs --------------------------
(***************************************************************************)
(* Proofs about the threads of the server, for every number of clients,    *)
(* file descriptors and interfaces, and every limit of the list and of the *)
(* table.                                                                  *)
(*                                                                         *)
(* What the threads need to know at each of their program points is the    *)
(* inductive invariant.  Its first part (Control) holds always; the second *)
(* part (Orderly) until a client is removed in the hands of the accept     *)
(* thread; the third part (Expected) until the watchdog removes a client   *)
(* that the poll thread has in its snapshot.                               *)
(***************************************************************************)
EXTENDS TcpServer, FiniteSetTheorems, WellFoundedInduction, TLAPS

AcceptPc == {"off", "bind", "accept", "push", "add", "wake", "join", "dead"}
PollPc == {"off", "snap", "poll", "drain", "next", "read", "accept", "handle",
           "close", "unlist", "dead"}
DogPc == {"start", "sleep", "scan", "close", "unlist", "dead"}
SerialPc == {"sleep", "lock", "send", "dead"}
MainPc == {"run", "serial", "dog", "accept", "poll"}

(* where client_connect has a client in hand; where clients_lock is held *)
Connecting == {"push", "add", "wake"}
Inside == {"read", "accept", "handle", "close", "unlist"}
Holders == {"poll", "dog"}

PcOf == [t \in Thread |-> CASE t = "accept" -> AcceptPc [] t = "poll" -> PollPc
                            [] t = "dog" -> DogPc [] t = "serial" -> SerialPc
                            [] t = "main" -> MainPc]

Pcs == DOMAIN pc = Thread /\ \A t \in Thread : pc[t] \in PcOf[t]

(* ServerTypeOK, in the groups in which variables change; for pipe see Wakes. *)
ListTypes ==
  /\ clients \in Seq(Client) /\ Len(clients) <= CLIENTS_MAX
  /\ client \in [Client -> [used : BOOLEAN, fd : Fd \cup {BadFd},
                            uid : 0..MaxConnects, late : BOOLEAN]]
  /\ interfaces \in Seq(Client \cup {USB}) /\ Len(interfaces) <= INTERFACES_MAX
KernelTypes == sock \in [Fd -> Socket] /\ pipe \in Nat
LockTypes == clients_lock \in Thread \cup {NoOne} /\ zejf_lock \in Thread \cup {NoOne}
StopTypes == cancelled \subseteq Thread /\ queues \in BOOLEAN
FlagTypes == server_running \in BOOLEAN /\ listening \in BOOLEAN
PollTypes == /\ fds \in Seq(Fd \cup {BadFd}) /\ todo \in Seq(Event)
             /\ again \in BOOLEAN /\ stale \in BOOLEAN
NewTypes == fresh \in Client \cup {NoOne} /\ connects \in 0..MaxConnects
NodeTypes == node \in [Thread -> 0..CLIENTS_MAX]
HistoryTypes == raced \in BOOLEAN /\ reaped \in BOOLEAN
ProcTypes == proc \in {"up", "ended", "crashed"}

Types == /\ ListTypes /\ KernelTypes /\ LockTypes /\ StopTypes /\ FlagTypes
         /\ PollTypes /\ NewTypes /\ NodeTypes /\ HistoryTypes /\ ProcTypes

(* Where the threads are.  Only one accept thread and one poll thread are ever
   alive, and the snapshot and the events are empty where they are not used. *)
Flow ==
  /\ ~server_running => pc["accept"] = "off"
  /\ ~listening => pc["poll"] = "off"
  /\ pc["main"] \notin {"run", "serial"} => ~queues
  /\ pc["poll"] \notin {"poll", "dead"} => fds = << >>
  /\ pc["poll"] \in {"off", "snap", "poll", "drain"} => todo = << >>

(* A thread inside has clients_lock, and its node is in the list. *)
Held ==
  \A t \in Holders :
    pc[t] \in Inside => clients_lock = t /\ node[t] \in 1..Len(clients)

InConnect == fresh # NoOne <=> pc["accept"] \in Connecting

(* Each connection wakes the poll thread once. *)
Wakes == /\ pipe <= connects
         /\ pc["accept"] \in Connecting => pipe < connects

Control == Types /\ Pcs /\ Flow /\ Held /\ InConnect /\ Wakes

(* c is being removed and its file descriptor is closed already *)
Going(c) == \E t \in Holders : pc[t] = "unlist" /\ clients[node[t]] = c

(* listed clients that client_connect is done with, as far as interface_add goes *)
Named == IF pc["accept"] = "add" THEN Listed \ {fresh} ELSE Listed

Distinct(s) == \A i, j \in 1..Len(s) : s[i] = s[j] => i = j

Members(s) == {s[i] : i \in 1..Len(s)}

(* The list: each client once, in use, with a file descriptor of its own that is
   open until the client is being removed. *)
ListOrder ==
  /\ Distinct(clients)
  /\ \A c \in Listed : client[c].used /\ client[c].fd \in Fd
  /\ \A c, d \in Listed : client[c].fd = client[d].fd => c = d
  /\ \A c \in Listed : sock[client[c].fd] = "closed" => Going(c)

(* The client in client_connect: until it is pushed, its file descriptor is that of
   no listed client, except of one that is being removed. *)
FreshOrder ==
  fresh # NoOne =>
    /\ client[fresh].used /\ client[fresh].fd \in Fd
    /\ pc["accept"] = "push" =>
         /\ fresh \notin Listed /\ sock[client[fresh].fd] # "closed"
         /\ \A c \in Listed : client[c].fd = client[fresh].fd => Going(c)
    /\ pc["accept"] \in {"add", "wake"} => fresh \in Listed

(* uids are given once, in the order of the connections. *)
UidOrder ==
  /\ \A c \in Named : /\ client[c].uid \in 1..connects
                      /\ pc["accept"] \in {"push", "add"} => client[c].uid < connects
  /\ \A c, d \in Named : client[c].uid = client[d].uid => c = d

(* The table: USB first, then the interfaces of the named clients, each once. *)
TableOrder ==
  /\ Len(interfaces) >= 1 /\ interfaces[1] = USB
  /\ Distinct(interfaces)
  /\ Members(interfaces) = Named \cup {USB}

Orderly == ~raced => ListOrder /\ FreshOrder /\ UidOrder /\ TableOrder

(* s: file descriptors of listed clients, each once *)
OfListed(s) ==
  /\ \A i \in 1..Len(s) : \E c \in Listed : client[c].fd = s[i]
  /\ Distinct(s)

TodoFds == [i \in 1..Len(todo) |-> todo[i][1]]

(* The clients of the snapshot and of the events to come are still there, and none
   of these is the one in hand. *)
Expected ==
  ~raced /\ ~reaped =>
    /\ OfListed(fds) /\ OfListed(TodoFds)
    /\ pc["poll"] \in Inside =>
         \A i \in 1..Len(todo) : todo[i][1] # client[InHand].fd

ServerInv == Control /\ Orderly /\ Expected /\ CrashExplained

-----------------------------------------------------------------------------
(* s without one of its elements *)
LEMMA WithoutOne ==
  ASSUME NEW S, NEW s \in Seq(S), NEW n \in 1..Len(s)
  PROVE  /\ Without(s, n) \in Seq(S) /\ Len(Without(s, n)) = Len(s) - 1
         /\ \A i \in 1..(Len(s) - 1) :
              Without(s, n)[i] = IF i < n THEN s[i] ELSE s[i + 1]
         /\ Distinct(s) => /\ Distinct(Without(s, n))
                           /\ Members(Without(s, n)) = Members(s) \ {s[n]}
  <1> DEFINE w == Without(s, n)
             l == Len(s)
  <1>0. l \in Nat \ {0} /\ n \in 1..l /\ \A i \in 1..l : s[i] \in S
    OBVIOUS
  <1>1. w = [i \in 1..(l - 1) |-> IF i < n THEN s[i] ELSE s[i + 1]]
    BY DEF Without
  <1>2. \A i \in 1..(l - 1) : w[i] \in S /\ w[i] = IF i < n THEN s[i] ELSE s[i + 1]
    BY <1>0, <1>1
  <1>3. w \in [1..(l - 1) -> S] /\ l - 1 \in Nat
    BY <1>0, <1>1, <1>2
  <1>4. w \in Seq(S) /\ Len(w) = l - 1
    BY <1>3
  <1> HIDE DEF w, l
  <1>5. ASSUME Distinct(s) PROVE Distinct(w) /\ Members(w) = Members(s) \ {s[n]}
    <2>1. \A i, j \in 1..l : s[i] = s[j] => i = j
      BY <1>5 DEF Distinct, l
    <2>2. Distinct(w)
      BY <1>0, <1>2, <1>4, <2>1 DEF Distinct
    <2>3. ASSUME NEW x \in Members(w) PROVE x \in Members(s) \ {s[n]}
      <3>1. PICK i \in 1..(l - 1) : x = w[i]
        BY <1>4, <2>3 DEF Members
      <3>2. PICK j \in 1..l : x = s[j] /\ j # n
        BY <1>0, <1>2, <3>1
      <3> QED BY <1>0, <2>1, <3>2 DEF Members, l
    <2>4. ASSUME NEW x \in Members(s) \ {s[n]} PROVE x \in Members(w)
      <3>1. PICK j \in 1..l : x = s[j] /\ j # n
        BY <2>4 DEF Members, l
      <3>2. PICK i \in 1..(l - 1) : i = IF j < n THEN j ELSE j - 1
        BY <1>0, <3>1
      <3>3. w[i] = x
        BY <1>0, <1>2, <3>1, <3>2
      <3> QED BY <1>4, <3>3 DEF Members
    <2> QED BY <2>2, <2>3, <2>4
  <1> QED BY <1>2, <1>4, <1>5 DEF w, l

(* A set of numbers that is not empty has a least one. *)
LEMMA Least ==
  ASSUME NEW S, S \subseteq Nat, S # {}
  PROVE  \E x \in S : \A y \in S : x <= y
  <1>1. IsWellFoundedOn(OpToRel(<,Nat), Nat)
    BY NatLessThanWellFounded, Zenon
  <1>2. PICK x \in S : \A y \in S : ~(<<y, x>> \in OpToRel(<,Nat))
    BY <1>1, WFMin, Zenon
  <1>3. ASSUME NEW y \in S PROVE x <= y
    <2>1. ~(<<y, x>> \in OpToRel(<,Nat)) /\ x \in Nat /\ y \in Nat
      BY <1>2
    <2> QED BY <2>1, SMT DEF OpToRel
  <1> QED BY <1>3

(* client_get and the watchdog find a node where there is one. *)
LEMMA FirstNodeIn ==
  ASSUME ServerTypeOK, NEW N, N \subseteq 1..Len(clients), N # {}
  PROVE  FirstNode(N) \in N /\ FirstNode(N) \in 1..Len(clients)
  <1>0. Len(clients) \in Nat
    BY DEF ServerTypeOK
  <1>1. \E i \in N : \A j \in N : i = j \/ VisitedBefore(i, j)
    <2>1. CASE Len(clients) \in N
      BY <2>1 DEF VisitedBefore
    <2>2. CASE Len(clients) \notin N
      <3>1. N \subseteq Nat
        BY <1>0
      <3>2. PICK x \in N : \A y \in N : x <= y
        BY <3>1, Least
      <3> QED BY <1>0, <2>2, <3>2 DEF VisitedBefore
    <2> QED BY <2>1, <2>2
  <1> QED BY <1>1 DEF FirstNode

(* interface_remove keeps a table a table. *)
LEMMA RemoveType ==
  ASSUME ServerTypeOK, NEW uid
  PROVE  /\ interface_remove(uid) \in Seq(Client \cup {USB})
         /\ Len(interface_remove(uid)) <= Len(interfaces)
  <1> DEFINE same == {i \in 1..Len(interfaces) : UidAt(i) = uid}
             k == CHOOSE i \in same : \A j \in same : i <= j
  <1>0. interfaces \in Seq(Client \cup {USB}) /\ Len(interfaces) \in Nat
    BY DEF ServerTypeOK
  <1>1. CASE same = {}
    BY <1>0, <1>1 DEF interface_remove
  <1>2. CASE same # {}
    <2>1. same \subseteq Nat
      BY <1>0
    <2>2. k \in same
      BY <1>2, <2>1, Least
    <2>3. k \in 1..Len(interfaces)
      BY <2>2
    <2>4. interface_remove(uid) = Without(interfaces, k)
      BY <1>2 DEF interface_remove
    <2> HIDE DEF k
    <2> QED BY <1>0, <2>3, <2>4, WithoutOne
  <1> QED BY <1>1, <1>2

(* The uid of a named client finds its interface and no other: USB has uid 0. *)
LEMMA RemoveNamed ==
  ASSUME ServerTypeOK, UidOrder, TableOrder, NEW c \in Named, Named \subseteq Client
  PROVE  LET left == interface_remove(client[c].uid)
         IN /\ Len(left) >= 1 /\ left[1] = USB /\ Distinct(left)
            /\ Members(left) = (Named \ {c}) \cup {USB}
  <1> DEFINE uid == client[c].uid
             same == {i \in 1..Len(interfaces) : UidAt(i) = uid}
             n == CHOOSE i \in same : \A j \in same : i <= j
  <1>0. /\ interfaces \in Seq(Client \cup {USB}) /\ Len(interfaces) \in Nat
        /\ interfaces[1] = USB /\ Distinct(interfaces) /\ Len(interfaces) >= 1
        /\ Members(interfaces) = Named \cup {USB} /\ c \in Client /\ c # USB
    BY ServerAssumption DEF ServerTypeOK, TableOrder
  <1>1. PICK k \in 1..Len(interfaces) : interfaces[k] = c
    BY <1>0 DEF Members
  <1>2. \A i \in 1..Len(interfaces) : UidAt(i) = uid <=> i = k
    <2>1. uid # 0 /\ UidAt(k) = uid
      BY <1>0, <1>1 DEF UidOrder, UidAt, ServerTypeOK
    <2>2. ASSUME NEW i \in 1..Len(interfaces), UidAt(i) = uid PROVE i = k
      <3>1. interfaces[i] # USB
        BY <2>1, <2>2 DEF UidAt
      <3>2. interfaces[i] \in Named /\ client[interfaces[i]].uid = client[c].uid
        BY <1>0, <2>2, <3>1 DEF UidAt, Members
      <3>3. interfaces[i] = c
        BY <3>2 DEF UidOrder
      <3> QED BY <1>0, <1>1, <3>3 DEF Distinct
    <2> QED BY <2>1, <2>2
  <1>3. same = {k} /\ n = k
    <2>1. same = {k}
      BY <1>2
    <2> HIDE DEF same
    <2>2. n \in same
      BY <1>0, <2>1
    <2> QED BY <2>1, <2>2
  <1>4. interface_remove(uid) = Without(interfaces, k)
    BY <1>3 DEF interface_remove
  <1>5. k # 1
    BY <1>0, <1>1
  <1> HIDE DEF uid, same, n
  <1>6. /\ Len(Without(interfaces, k)) = Len(interfaces) - 1
        /\ Without(interfaces, k)[1] = interfaces[1]
        /\ Distinct(Without(interfaces, k))
        /\ Members(Without(interfaces, k)) = Members(interfaces) \ {c}
    <2> DEFINE w == Without(interfaces, k)
    <2>1. /\ Len(w) = Len(interfaces) - 1
          /\ \A i \in 1..(Len(interfaces) - 1) :
               w[i] = IF i < k THEN interfaces[i] ELSE interfaces[i + 1]
          /\ Distinct(interfaces) => /\ Distinct(w)
                                     /\ Members(w) = Members(interfaces) \ {interfaces[k]}
      BY <1>0, <1>1, WithoutOne
    <2>2. 1 \in 1..(Len(interfaces) - 1) /\ 1 < k
      BY <1>0, <1>1, <1>5
    <2> HIDE DEF w
    <2>3. w[1] = interfaces[1]
      BY <2>1, <2>2
    <2> QED BY <1>0, <1>1, <2>1, <2>3 DEF w
  <1> QED BY <1>0, <1>1, <1>4, <1>5, <1>6 DEF uid

-----------------------------------------------------------------------------
(* The parts give the type invariant. *)
LEMMA ControlTypes == Control => ServerTypeOK
  <1> SUFFICES ASSUME Control PROVE ServerTypeOK
    OBVIOUS
  <1>1. pipe \in 0..MaxConnects
    BY ServerAssumption DEF Control, Types, KernelTypes, NewTypes, Wakes
  <1>2. /\ ListTypes /\ KernelTypes /\ LockTypes /\ StopTypes /\ FlagTypes
        /\ PollTypes /\ NewTypes /\ NodeTypes /\ HistoryTypes /\ ProcTypes
        /\ DOMAIN pc = Thread
    BY Zenon DEF Control, Types, Pcs
  <1> QED BY <1>1, <1>2, Zenon DEF ServerTypeOK, ListTypes, KernelTypes, LockTypes,
       StopTypes, FlagTypes, PollTypes, NewTypes, NodeTypes, HistoryTypes, ProcTypes

(* What does not change keeps its type. *)
LEMMA Frames ==
  ASSUME Control
  PROVE  /\ UNCHANGED listVars => ListTypes'
         /\ UNCHANGED kernel => KernelTypes'
         /\ UNCHANGED locks => LockTypes'
         /\ UNCHANGED stopVars => StopTypes'
         /\ UNCHANGED flags => FlagTypes'
         /\ UNCHANGED pollVars => PollTypes'
         /\ UNCHANGED newVars => NewTypes'
         /\ UNCHANGED node => NodeTypes'
         /\ UNCHANGED history => HistoryTypes'
         /\ UNCHANGED proc => ProcTypes'
  <1> USE DEF Control, Types
  <1>1. UNCHANGED listVars => ListTypes'
    BY DEF listVars, ListTypes
  <1>2. UNCHANGED kernel => KernelTypes'
    BY DEF kernel, KernelTypes
  <1>3. UNCHANGED locks => LockTypes'
    BY DEF locks, LockTypes
  <1>4. UNCHANGED stopVars => StopTypes'
    BY DEF stopVars, StopTypes
  <1>5. UNCHANGED flags => FlagTypes'
    BY DEF flags, FlagTypes
  <1>6. UNCHANGED pollVars => PollTypes'
    BY DEF pollVars, PollTypes
  <1>7. UNCHANGED newVars => NewTypes'
    BY DEF newVars, NewTypes
  <1>8. UNCHANGED node => NodeTypes'
    BY DEF NodeTypes
  <1>9. UNCHANGED history => HistoryTypes'
    BY DEF history, HistoryTypes
  <1>10. UNCHANGED proc => ProcTypes'
    BY DEF ProcTypes
  <1> QED BY <1>1, <1>2, <1>3, <1>4, <1>5, <1>6, <1>7, <1>8, <1>9, <1>10, Zenon

(* One thread moves. *)
LEMMA Moves ==
  ASSUME Pcs, NEW t \in Thread, NEW l, l \in PcOf[t], Goto(t, l)
  PROVE  Pcs' /\ pc'[t] = l /\ \A u \in Thread \ {t} : pc'[u] = pc[u]
  BY DEF Pcs, Goto

(* The sets of program points, one by one. *)
LEMMA Points ==
  /\ PcOf["accept"] = AcceptPc /\ PcOf["poll"] = PollPc
  /\ PcOf["dog"] = DogPc /\ PcOf["serial"] = SerialPc /\ PcOf["main"] = MainPc
  /\ "accept" \in Thread /\ "poll" \in Thread /\ "dog" \in Thread
  /\ "serial" \in Thread /\ "main" \in Thread
  BY DEF PcOf, Thread

(* t alone moves *)
Alone(t) == Pcs' /\ \A u \in Thread \ {t} : pc'[u] = pc[u]

(* A step that leaves the list and the client in client_connect alone, and neither
   takes a thread inside nor changes what the threads inside have in hand. *)
Calm ==
  /\ UNCHANGED <<clients, clients_lock, fresh, connects, node>> /\ pipe' <= pipe
  /\ \A t \in Holders : pc'[t] \in Inside => pc[t] \in Inside
  /\ pc'["accept"] \in Connecting <=> pc["accept"] \in Connecting

(* Such a step keeps Control if it keeps the types and Flow. *)
LEMMA CalmControl ==
  ASSUME Control, Types', Pcs', Flow', Calm
  PROVE  Control'
  <1>1. Held'
    BY DEF Control, Held, Calm
  <1>2. InConnect'
    BY DEF Control, InConnect, Calm
  <1>3. Wakes'
    BY DEF Control, Wakes, Calm, Types, KernelTypes, NewTypes
  <1> QED BY <1>1, <1>2, <1>3 DEF Control

(* A step that changes nothing that Orderly is about. *)
Steady ==
  /\ UNCHANGED <<clients, interfaces, fresh, connects, raced>>
  /\ \A c \in Client : /\ client[c].used => client'[c].used
                       /\ client'[c].fd = client[c].fd
                       /\ client'[c].uid = client[c].uid
  /\ \A f \in Fd : sock'[f] = "closed" => sock[f] = "closed"
  /\ \A t \in Holders : pc[t] = "unlist" => pc'[t] = "unlist" /\ node'[t] = node[t]
  /\ \/ pc'["accept"] = pc["accept"]
     \/ pc["accept"] \notin Connecting /\ pc'["accept"] \notin Connecting

(* A step that changes nothing that Expected is about. *)
Undisturbed ==
  /\ UNCHANGED <<fds, todo, reaped>>
  /\ pc'["poll"] \in Inside => pc["poll"] \in Inside /\ node'["poll"] = node["poll"]

(* ... and does not end the process without a cause *)
Harmless == Steady /\ Undisturbed /\ CrashExplained'

(* The list holds clients. *)
LEMMA ListedClients ==
  ASSUME ListTypes
  PROVE  Listed \subseteq Client /\ Named \subseteq Client /\ Named \subseteq Listed
  BY DEF ListTypes, Listed, Named

(* What a steady step keeps. *)
LEMMA SteadyOrder ==
  ASSUME Control, Orderly, Steady
  PROVE  Orderly'
  <1> SUFFICES ASSUME ~raced PROVE (ListOrder /\ FreshOrder /\ UidOrder /\ TableOrder)'
    BY DEF Orderly, Steady
  <1>0. /\ ListOrder /\ FreshOrder /\ UidOrder /\ TableOrder
        /\ Listed \subseteq Client /\ Named \subseteq Client
        /\ fresh \in Client \cup {NoOne}
    BY ListedClients DEF Orderly, Control, Types, NewTypes
  <1>1. Listed' = Listed /\ fresh' = fresh
    BY DEF Steady, Listed
  <1>2. Named' = Named
    BY <1>1 DEF Named, Steady, Connecting
  <1>3. \A c \in Client : Going(c) => Going(c)'
    BY DEF Going, Steady
  <1>4. ListOrder'
    BY <1>0, <1>1, <1>3 DEF ListOrder, Steady, Distinct
  <1>5. FreshOrder'
    <2>1. CASE pc'["accept"] = pc["accept"]
      BY <1>0, <1>1, <1>3, <2>1 DEF FreshOrder, Steady
    <2>2. CASE pc["accept"] \notin Connecting
      BY <1>1, <2>2 DEF FreshOrder, Control, InConnect
    <2> QED BY <2>1, <2>2 DEF Steady
  <1>6. UidOrder'
    BY <1>0, <1>2 DEF UidOrder, Steady, Connecting
  <1>7. TableOrder'
    BY <1>0, <1>2 DEF TableOrder, Steady, Distinct, Members
  <1> QED BY <1>4, <1>5, <1>6, <1>7

(* What an undisturbed step keeps besides. *)
LEMMA UndisturbedExpected ==
  ASSUME Control, Expected, Steady, Undisturbed
  PROVE  Expected'
  <1> SUFFICES ASSUME ~raced, ~reaped
               PROVE  /\ OfListed(fds)' /\ OfListed(TodoFds)'
                      /\ pc'["poll"] \in Inside =>
                           \A i \in 1..Len(todo') : todo'[i][1] # client'[InHand'].fd
    BY DEF Expected, Steady, Undisturbed
  <1>0. /\ OfListed(fds) /\ OfListed(TodoFds) /\ Listed \subseteq Client
        /\ pc["poll"] \in Inside => \A i \in 1..Len(todo) : todo[i][1] # client[InHand].fd
    BY ListedClients DEF Expected, Control, Types
  <1>1. Listed' = Listed /\ TodoFds' = TodoFds /\ fds' = fds
    BY DEF Steady, Undisturbed, Listed, TodoFds
  <1>2. OfListed(fds)' /\ OfListed(TodoFds)'
    BY <1>0, <1>1 DEF OfListed, Steady
  <1>3. ASSUME pc'["poll"] \in Inside
        PROVE  InHand' = InHand /\ InHand \in Client /\ pc["poll"] \in Inside
    <2>1. node["poll"] \in 1..Len(clients) /\ pc["poll"] \in Inside
      BY <1>3 DEF Undisturbed, Control, Held, Holders
    <2>2. node'["poll"] = node["poll"] /\ clients' = clients
      BY <1>3 DEF Undisturbed, Steady
    <2> QED BY <2>1, <2>2 DEF InHand, Control, Types, ListTypes
  <1>4. todo' = todo
    BY DEF Undisturbed
  <1>5. ASSUME pc'["poll"] \in Inside
        PROVE  \A i \in 1..Len(todo') : todo'[i][1] # client'[InHand'].fd
    BY <1>0, <1>3, <1>4, <1>5 DEF Steady
  <1> QED BY <1>2, <1>5

(* The process dies; nothing else happens. *)
LEMMA CrashStep ==
  ASSUME Control, Crash
  PROVE  Control' /\ Steady /\ Undisturbed /\ (CrashCause => CrashExplained')
  <1>1. Types'
    BY Frames DEF Crash, Types, Control, ProcTypes
  <1>2. Pcs' /\ pc' = pc
    BY DEF Crash, Control, Pcs
  <1>3. Flow'
    BY <1>2 DEF Crash, Control, Flow, flags, stopVars, pollVars
  <1>4. Calm
    BY <1>2 DEF Crash, Calm, Control, Types, KernelTypes, listVars, locks, kernel, newVars
  <1>5. CrashCause => CrashCause'
    BY DEF Crash, CrashCause, PeerGone, Sweeps, UidAt, listVars, kernel, history, stopVars
  <1> QED BY <1>1, <1>2, <1>3, <1>4, <1>5, CalmControl
       DEF Crash, Steady, Undisturbed, listVars, newVars, history, kernel, pollVars,
           stopVars, CrashExplained

-----------------------------------------------------------------------------
(* Starting and stopping threads changes no client: the accept thread binds or
   ends, *)
LEMMA AcceptIdle ==
  ASSUME Control, proc = "up", Bind \/ AcceptFails \/ AcceptEnds
  PROVE  Control' /\ Harmless
  <1> USE DEF listVars, kernel, locks, stopVars, flags, pollVars, newVars, history
  <1>0. Pcs /\ Flow
    BY DEF Control
  <1>1. UNCHANGED <<listVars, kernel, locks, queues, pollVars, newVars, history, node, proc>>
    BY DEF Bind, AcceptFails, AcceptEnds
  <1>2. FlagTypes' /\ StopTypes'
    <2>1. FlagTypes'
      BY DEF Bind, AcceptFails, AcceptEnds, Control, Types, FlagTypes
    <2>2. StopTypes'
      BY Points DEF Bind, AcceptFails, AcceptEnds, Control, Types, StopTypes
    <2> QED BY <2>1, <2>2
  <1>3. Types'
    BY <1>1, <1>2, Frames DEF Types, Control
  <1>4. /\ Pcs' /\ pc'["main"] = pc["main"] /\ pc'["dog"] = pc["dog"]
        /\ pc["accept"] \notin Connecting /\ pc'["accept"] \notin Connecting
        /\ \/ pc'["poll"] = pc["poll"] /\ listening' = listening
           \/ pc["poll"] = "off" /\ pc'["poll"] = "snap" /\ listening' = TRUE
        /\ ~server_running' => pc'["accept"] = "off"
    <2>1. CASE /\ pc["accept"] = "bind" /\ Goto("accept", "off")
               /\ server_running' = FALSE /\ listening' = listening
      BY <1>0, <2>1, Moves, Points DEF AcceptPc, Connecting
    <2>2. CASE /\ pc' = [pc EXCEPT !["accept"] = "accept", !["poll"] = "snap"]
               /\ listening' = TRUE /\ ~listening /\ server_running' = server_running
               /\ pc["accept"] = "bind"
      <3>1. pc'["accept"] = "accept" /\ pc'["poll"] = "snap" /\ Pcs'
            /\ pc'["main"] = pc["main"] /\ pc'["dog"] = pc["dog"]
        BY <1>0, <2>2, Points DEF Pcs, AcceptPc, PollPc
      <3> QED BY <1>0, <2>2, <3>1 DEF Flow, Connecting
    <2>3. CASE AcceptFails
      BY <1>0, <2>3, Moves, Points DEF AcceptFails, AcceptPc, Connecting, Flow
    <2>4. CASE AcceptEnds
      BY <1>0, <2>4, Moves, Points DEF AcceptEnds, AcceptPc, Connecting
    <2> QED BY <2>1, <2>2, <2>3, <2>4 DEF Bind
  <1>5. Flow'
    BY <1>0, <1>1, <1>4 DEF Flow
  <1>6. Calm
    BY <1>1, <1>4 DEF Calm, Control, Types, KernelTypes, Holders, Inside
  <1>7. Steady /\ Undisturbed
    BY <1>1, <1>4 DEF Steady, Undisturbed, Holders, Inside
  <1>8. Harmless
    BY <1>1, <1>7 DEF Harmless, CrashExplained
  <1> QED BY <1>3, <1>4, <1>5, <1>6, <1>8, CalmControl


(* the main thread stops the program, *)
LEMMA MainIdle ==
  ASSUME Control, proc = "up", Stop \/ JoinSerial \/ JoinDog \/ JoinAccept \/ JoinPoll
  PROVE  Control' /\ Harmless
  <1> USE DEF listVars, kernel, locks, stopVars, flags, pollVars, newVars, history
  <1>0. Pcs /\ Flow
    BY DEF Control
  <1>1. CASE Crash
    <2>1. JoinAccept
      BY <1>1 DEF Stop, JoinSerial, JoinDog, JoinPoll, Crash
    <2>2. ~queues
      BY <1>0, <2>1 DEF JoinAccept, Flow
    <2> QED BY <1>1, <2>2, CrashStep DEF Harmless, CrashCause
  <1>2. CASE ~Crash
    <2>1. UNCHANGED <<listVars, kernel, locks, flags, pollVars, newVars, history, node>>
      BY <1>2 DEF Stop, JoinSerial, JoinDog, JoinAccept, JoinPoll
    <2>2. StopTypes' /\ ProcTypes'
      <3>1. StopTypes'
        BY <1>2, Points
           DEF Stop, JoinSerial, JoinDog, JoinAccept, JoinPoll, Control, Types, StopTypes
      <3>2. ProcTypes'
        BY <1>2 DEF Stop, JoinSerial, JoinDog, JoinAccept, JoinPoll, Control, Types, ProcTypes
      <3> QED BY <3>1, <3>2
    <2>3. Types'
      BY <2>1, <2>2, Frames DEF Types, Control
    <2>4. /\ Pcs' /\ pc'["accept"] = pc["accept"] /\ pc'["poll"] = pc["poll"]
          /\ pc'["dog"] = pc["dog"]
          /\ pc'["main"] \notin {"run", "serial"} => ~queues'
      <3>1. CASE Stop
        <4>1. PICK l \in SerialPc : pc' = [pc EXCEPT !["main"] = "serial", !["serial"] = l]
          <5>1. pc["serial"] \in SerialPc
            BY <1>0, Points DEF Pcs
          <5> QED BY <3>1, <5>1 DEF Stop, SerialPc
        <4> QED BY <1>0, <4>1, Points DEF Pcs, MainPc
      <3>2. CASE JoinSerial
        BY <1>0, <3>2, Moves, Points DEF JoinSerial, MainPc
      <3>3. CASE JoinDog
        <4>1. CASE pc' = pc
          BY <1>0, <3>3, <4>1 DEF JoinDog, Flow, Pcs
        <4>2. CASE Goto("main", "accept")
          BY <1>0, <3>3, <4>2, Moves, Points DEF JoinDog, MainPc, Flow
        <4> QED BY <3>3, <4>1, <4>2 DEF JoinDog
      <3>4. CASE JoinAccept
        BY <1>0, <1>2, <3>4, Moves, Points DEF JoinAccept, MainPc, Flow
      <3>5. CASE JoinPoll
        BY <1>0, <3>5 DEF JoinPoll, Flow, Pcs
      <3> QED BY <3>1, <3>2, <3>3, <3>4, <3>5
    <2>5. Flow'
      BY <1>0, <2>1, <2>4 DEF Flow
    <2>6. Calm
      BY <2>1, <2>4 DEF Calm, Control, Types, KernelTypes, Holders
    <2>7. Steady /\ Undisturbed
      BY <2>1, <2>4 DEF Steady, Undisturbed, Holders
    <2>8. proc' # "crashed"
      BY <1>2 DEF Stop, JoinSerial, JoinDog, JoinAccept, JoinPoll
    <2>9. Harmless
      BY <2>7, <2>8 DEF Harmless, CrashExplained
    <2> QED BY <2>3, <2>4, <2>5, <2>6, <2>9, CalmControl
  <1> QED BY <1>1, <1>2

(* the threads of serial.c take zejf_lock, send and sleep, *)
LEMMA SerialIdle ==
  ASSUME Control, proc = "up", SerialLocks \/ SerialSends
  PROVE  Control' /\ Harmless
  <1> USE DEF listVars, kernel, locks, stopVars, flags, pollVars, newVars, history
  <1>0. Pcs /\ Flow /\ LockTypes
    BY DEF Control, Types
  <1>1. CASE PeerGone /\ Crash /\ pc["serial"] = "send"
    BY <1>1, CrashStep DEF Harmless, CrashCause
  <1>2. CASE /\ UNCHANGED <<listVars, kernel, stopVars, flags, pollVars, newVars, history,
                            clients_lock, node, proc>>
             /\ zejf_lock' \in {"serial", NoOne} /\ \E l \in SerialPc : Goto("serial", l)
    <2>1. LockTypes'
      BY <1>0, <1>2, Points DEF LockTypes
    <2>2. Types'
      BY <1>2, <2>1, Frames DEF Types, Control
    <2>3. PICK l \in SerialPc : Goto("serial", l)
      BY <1>2
    <2>4. Pcs' /\ \A u \in Thread \ {"serial"} : pc'[u] = pc[u]
      BY <1>0, <2>3, Moves, Points
    <2>5. /\ pc'["accept"] = pc["accept"] /\ pc'["poll"] = pc["poll"]
          /\ pc'["dog"] = pc["dog"] /\ pc'["main"] = pc["main"]
      BY <2>4, Points
    <2>6. Flow'
      BY <1>0, <1>2, <2>5 DEF Flow
    <2>7. Calm
      BY <1>2, <2>5 DEF Calm, Control, Types, KernelTypes, Holders
    <2>8. Harmless
      BY <1>2, <2>5 DEF Harmless, CrashExplained, Steady, Undisturbed, Holders
    <2> QED BY <2>2, <2>4, <2>6, <2>7, <2>8, CalmControl
  <1> QED BY <1>1, <1>2 DEF SerialLocks, SerialSends, Risking, SerialPc

(* the watchdog starts a server or sleeps, *)
LEMMA DogIdle ==
  ASSUME Control, proc = "up", Start \/ Sleep
  PROVE  Control' /\ Harmless
  <1> USE DEF listVars, kernel, locks, stopVars, flags, pollVars, newVars, history
  <1>0. Pcs /\ Flow
    BY DEF Control
  <1>1. UNCHANGED <<listVars, kernel, locks, stopVars, listening, pollVars, newVars, history,
                    node, proc>>
    BY DEF Start, Sleep
  <1>2. FlagTypes'
    BY DEF Start, Sleep, Control, Types, FlagTypes
  <1>3. Types'
    BY <1>1, <1>2, Frames DEF Types, Control
  <1>4. /\ Pcs' /\ pc'["main"] = pc["main"] /\ pc'["poll"] = pc["poll"]
        /\ pc["dog"] \notin Inside /\ pc'["dog"] \notin Inside
        /\ \/ pc'["accept"] = pc["accept"]
           \/ pc["accept"] \notin Connecting /\ pc'["accept"] \notin Connecting
        /\ ~server_running' => pc'["accept"] = "off"
    <2>1. CASE Sleep
      <3>1. PICK l \in {"scan", "start"} : Goto("dog", l)
        BY <2>1 DEF Sleep
      <3> QED BY <1>0, <2>1, <3>1, Moves, Points DEF Sleep, DogPc, Inside, Flow
    <2>2. CASE Start /\ server_running
      <3>1. Goto("dog", "sleep") /\ pc["dog"] = "start" /\ server_running' = TRUE
        BY <2>2 DEF Start, Goto
      <3> QED BY <1>0, <3>1, Moves, Points DEF DogPc, Inside
    <2>3. CASE Start /\ ~server_running
      <3>1. /\ pc' = [pc EXCEPT !["dog"] = "sleep", !["accept"] = "bind"]
            /\ pc["dog"] = "start" /\ server_running' = TRUE /\ pc["accept"] = "off"
        BY <1>0, <2>3 DEF Start, Flow
      <3>2. /\ Pcs' /\ pc'["main"] = pc["main"] /\ pc'["poll"] = pc["poll"]
            /\ pc'["dog"] = "sleep" /\ pc'["accept"] = "bind"
        BY <1>0, <3>1, Points DEF Pcs, AcceptPc, DogPc
      <3> QED BY <3>1, <3>2 DEF Inside, Connecting
    <2> QED BY <2>1, <2>2, <2>3
  <1>5. Flow'
    BY <1>0, <1>1, <1>4 DEF Flow
  <1>6. Calm
    BY <1>1, <1>4 DEF Calm, Control, Types, KernelTypes, Holders
  <1>7. Steady /\ Undisturbed
    BY <1>1, <1>4 DEF Steady, Undisturbed, Holders, Inside
  <1>8. Harmless
    BY <1>1, <1>7 DEF Harmless, CrashExplained
  <1> QED BY <1>3, <1>4, <1>5, <1>6, <1>8, CalmControl

(* a thread is cancelled, whatever it holds, *)
LEMMA DieIdle ==
  ASSUME Control, proc = "up", NEW t \in Thread, Die(t)
  PROVE  Control' /\ Harmless
  <1> USE DEF listVars, kernel, locks, stopVars, flags, pollVars, newVars, history
  <1>0. Pcs /\ Flow
    BY DEF Control
  <1>1. UNCHANGED <<listVars, kernel, locks, stopVars, flags, pollVars, newVars, history,
                    node, proc>>
    BY DEF Die
  <1>2. Types'
    BY <1>1, Frames DEF Types, Control
  <1>3. CancellationPoint(t) /\ Goto(t, "dead") /\ t \in {"accept", "poll", "dog", "serial"}
    BY DEF Die, CancellationPoint, Thread
  <1>4. "dead" \in PcOf[t]
    BY <1>3, Points DEF AcceptPc, PollPc, DogPc, SerialPc
  <1>5. Pcs' /\ pc'[t] = "dead" /\ \A u \in Thread \ {t} : pc'[u] = pc[u]
    BY <1>0, <1>3, <1>4, Moves
  <1>6. /\ pc[t] # "unlist"
        /\ t = "accept" => pc[t] \in {"accept", "join"}
        /\ t = "poll" => pc[t] \notin {"off", "snap"}
    BY <1>3 DEF CancellationPoint
  <1>7. Flow'
    <2>1. CASE t = "accept"
      BY <1>0, <1>1, <1>5, <1>6, <2>1, Points DEF Flow
    <2>2. CASE t = "poll"
      BY <1>0, <1>1, <1>5, <1>6, <2>2, Points DEF Flow
    <2>3. CASE t = "dog"
      BY <1>0, <1>1, <1>5, <1>6, <2>3, Points DEF Flow
    <2>4. CASE t = "serial"
      BY <1>0, <1>1, <1>5, <2>4, Points DEF Flow
    <2> QED BY <1>3, <2>1, <2>2, <2>3, <2>4
  <1>8. Calm
    BY <1>1, <1>3, <1>5, <1>6, Points
       DEF Calm, Control, Types, KernelTypes, Holders, Inside, Connecting
  <1>9. Steady /\ Undisturbed
    <2>1. \A u \in Holders : pc[u] = "unlist" => pc'[u] = "unlist"
      BY <1>5, <1>6, Points DEF Holders
    <2>2. \/ pc'["accept"] = pc["accept"]
          \/ pc["accept"] \notin Connecting /\ pc'["accept"] \notin Connecting
      BY <1>5, <1>6, Points DEF Connecting
    <2>3. pc'["poll"] \in Inside => pc["poll"] \in Inside
      BY <1>5, Points DEF Inside
    <2> QED BY <1>1, <2>1, <2>2, <2>3 DEF Steady, Undisturbed
  <1>10. Harmless
    BY <1>1, <1>9 DEF Harmless, CrashExplained
  <1> QED BY <1>2, <1>5, <1>7, <1>8, <1>10, CalmControl

(* a peer sends or hangs up, *)
LEMMA PeerIdle ==
  ASSUME Control, proc = "up", NEW f \in Fd, PeerSends(f) \/ PeerCloses(f)
  PROVE  Control' /\ Harmless
  <1> USE DEF listVars, kernel, locks, stopVars, flags, pollVars, newVars, history
  <1>0. Pcs /\ Flow /\ sock \in [Fd -> Socket] /\ pipe \in Nat
    BY DEF Control, Types, KernelTypes
  <1>1. UNCHANGED <<listVars, pipe, locks, stopVars, flags, pollVars, newVars, history,
                    pc, node, proc>>
    BY DEF PeerSends, PeerCloses
  <1>2. PICK x \in Socket \ {"closed"} : sock' = [sock EXCEPT ![f] = x]
    BY DEF PeerSends, PeerCloses, Socket
  <1>3. Types'
    BY <1>0, <1>1, <1>2, Frames DEF Types, Control, KernelTypes
  <1>4. Pcs' /\ Flow'
    BY <1>0, <1>1 DEF Pcs, Flow
  <1>5. Calm
    BY <1>0, <1>1 DEF Calm
  <1>6. \A g \in Fd : sock'[g] = "closed" => sock[g] = "closed"
    BY <1>0, <1>2
  <1>7. Harmless
    BY <1>1, <1>6 DEF Harmless, CrashExplained, Steady, Undisturbed
  <1> QED BY <1>3, <1>4, <1>5, <1>7, CalmControl

(* time passes. *)
LEMMA TimeIdle ==
  ASSUME Control, proc = "up", TimePasses
  PROVE  Control' /\ Harmless
  <1> USE DEF listVars, kernel, locks, stopVars, flags, pollVars, newVars, history
  <1>0. Pcs /\ Flow /\ ListTypes /\ pipe \in Nat
    BY DEF Control, Types, KernelTypes
  <1>1. UNCHANGED <<clients, interfaces, kernel, locks, stopVars, flags, fds, todo, again,
                    newVars, history, pc, node, proc>>
    BY DEF TimePasses
  <1>2. client' = [c \in Client |->
                     [client[c] EXCEPT !.late = @ \/ client[c].used \/ c \in Listed]]
    BY DEF TimePasses
  <1>3. ListTypes'
    BY <1>0, <1>1, <1>2 DEF ListTypes
  <1>4. PollTypes'
    BY DEF TimePasses, Control, Types, PollTypes
  <1>5. Types'
    BY <1>1, <1>3, <1>4, Frames DEF Types, Control
  <1>6. Pcs' /\ Flow'
    BY <1>0, <1>1 DEF Pcs, Flow
  <1>7. Calm
    BY <1>0, <1>1 DEF Calm
  <1>8. Harmless
    BY <1>0, <1>1, <1>2 DEF Harmless, CrashExplained, Steady, Undisturbed, ListTypes
  <1> QED BY <1>5, <1>6, <1>7, <1>8, CalmControl

-----------------------------------------------------------------------------
(* Two threads are never inside together, and none while the lock is free. *)
LEMMA OneInside ==
  ASSUME Control
  PROVE  /\ pc["poll"] \in Inside => pc["dog"] \notin Inside /\ clients_lock = "poll"
         /\ pc["dog"] \in Inside => pc["poll"] \notin Inside /\ clients_lock = "dog"
         /\ clients_lock = NoOne => pc["poll"] \notin Inside /\ pc["dog"] \notin Inside
  BY ServerAssumption DEF Control, Held, Holders

(* The poll thread drains the pipe, is done with its events, or locks the library. *)
LEMMA PollIdle ==
  ASSUME Control, proc = "up", Drain \/ NoMore \/ Lock
  PROVE  Control' /\ Harmless
  <1> USE DEF listVars, kernel, locks, stopVars, flags, pollVars, newVars, history
  <1>0. Pcs /\ Flow /\ pipe \in Nat /\ LockTypes /\ DUMMY_READ \in Nat
    BY ServerAssumption DEF Control, Types, KernelTypes
  <1>1. UNCHANGED <<listVars, sock, clients_lock, stopVars, flags, pollVars, newVars,
                    history, node, proc>>
    BY DEF Drain, NoMore, Lock
  <1>2. pipe' \in Nat /\ pipe' <= pipe
    BY <1>0 DEF Drain, NoMore, Lock
  <1>3. KernelTypes' /\ LockTypes'
    <2>1. KernelTypes'
      BY <1>1, <1>2 DEF Control, Types, KernelTypes
    <2>2. zejf_lock' \in Thread \cup {NoOne}
      BY <1>0, Points DEF Drain, NoMore, Lock, LockTypes
    <2>3. LockTypes'
      BY <1>0, <1>1, <2>2 DEF LockTypes
    <2> QED BY <2>1, <2>3
  <1>4. Types'
    BY <1>1, <1>3, Frames DEF Types, Control
  <1>5. /\ Pcs' /\ \A u \in Thread \ {"poll"} : pc'[u] = pc[u]
        /\ \/ pc'["poll"] = "drain" /\ pc["poll"] = "drain"
           \/ pc["poll"] = "drain" /\ pc'["poll"] = "snap"
           \/ pc["poll"] = "next" /\ pc'["poll"] = "snap" /\ todo = << >>
           \/ pc["poll"] = "accept" /\ pc'["poll"] = "handle"
    <2>1. CASE NoMore \/ Lock
      BY <1>0, <2>1, Moves, Points DEF NoMore, Lock, PollPc
    <2>2. CASE Drain /\ pc' = pc
      BY <1>0, <2>2 DEF Drain, Pcs
    <2>3. CASE Drain /\ Goto("poll", "snap")
      BY <1>0, <2>3, Moves, Points DEF Drain, PollPc
    <2> QED BY <2>1, <2>2, <2>3 DEF Drain
  <1>6. pc'["accept"] = pc["accept"] /\ pc'["main"] = pc["main"] /\ pc'["dog"] = pc["dog"]
    BY <1>5, Points
  <1>7. Flow'
    BY <1>0, <1>1, <1>5, <1>6 DEF Flow
  <1>8. Calm
    BY <1>1, <1>2, <1>5, <1>6 DEF Calm, Holders, Inside
  <1>9. Harmless
    BY <1>1, <1>5, <1>6 DEF Harmless, CrashExplained, Steady, Undisturbed, Holders, Inside
  <1> QED BY <1>4, <1>5, <1>7, <1>8, <1>9, CalmControl

(* read_client reads. *)
LEMMA ReadIdle ==
  ASSUME Control, proc = "up", Read
  PROVE  Control' /\ Harmless
  <1> USE DEF listVars, kernel, locks, stopVars, flags, pollVars, newVars, history
  <1> DEFINE f == client[InHand].fd
  <1>0. /\ Pcs /\ Flow /\ ListTypes /\ sock \in [Fd -> Socket] /\ pipe \in Nat
        /\ PollTypes /\ pc["poll"] = "read"
    BY DEF Control, Types, KernelTypes, Read
  <1>1. UNCHANGED <<clients, interfaces, pipe, locks, stopVars, flags, fds, todo, stale,
                    newVars, history, node, proc>>
    BY DEF Read
  <1>2. PICK l \in {"close", "accept"} : Goto("poll", l)
    BY DEF Read
  <1>3. Pcs' /\ pc'["poll"] = l /\ \A u \in Thread \ {"poll"} : pc'[u] = pc[u]
    BY <1>0, <1>2, Moves, Points DEF PollPc
  <1>4. pc'["accept"] = pc["accept"] /\ pc'["main"] = pc["main"] /\ pc'["dog"] = pc["dog"]
    BY <1>3, Points
  <1>5. \/ sock' = sock
        \/ \E x \in {"quiet", "hup"} : sock' = [sock EXCEPT ![f] = x]
    BY DEF Read
  <1>6. KernelTypes' /\ \A g \in Fd : sock'[g] = "closed" => sock[g] = "closed"
    BY <1>0, <1>1, <1>5 DEF KernelTypes, Socket
  <1>7. client' = client \/ client' = [client EXCEPT ![InHand].late = stale]
    BY DEF Read
  <1>8. ListTypes'
    BY <1>0, <1>1, <1>7 DEF ListTypes, PollTypes
  <1>9. PollTypes'
    BY <1>0, <1>1 DEF Read, PollTypes
  <1>10. Types'
    BY <1>1, <1>6, <1>8, <1>9, Frames DEF Types, Control
  <1>11. Flow'
    BY <1>0, <1>1, <1>3, <1>4 DEF Flow
  <1>12. Calm
    BY <1>0, <1>1, <1>3, <1>4 DEF Calm, Holders, Inside
  <1>13. \A c \in Client : /\ client[c].used => client'[c].used
                           /\ client'[c].fd = client[c].fd /\ client'[c].uid = client[c].uid
    <2>1. CASE client' = client
      BY <2>1
    <2>2. CASE client' = [client EXCEPT ![InHand].late = stale]
      <3>1. ASSUME NEW c \in Client
            PROVE  \/ client'[c] = client[c]
                   \/ client'[c] = [client[c] EXCEPT !.late = stale]
        BY <1>0, <2>2 DEF ListTypes
      <3>2. \A c \in Client : client[c] \in [used : BOOLEAN, fd : Fd \cup {BadFd},
                                             uid : 0..MaxConnects, late : BOOLEAN]
        BY <1>0 DEF ListTypes
      <3> QED BY <3>1, <3>2
    <2> QED BY <1>7, <2>1, <2>2
  <1>14. Harmless
    BY <1>0, <1>1, <1>3, <1>4, <1>6, <1>13
       DEF Harmless, CrashExplained, Steady, Undisturbed, Holders, Inside
  <1> QED BY <1>3, <1>10, <1>11, <1>12, <1>14, CalmControl

(* The poll thread is done with a client, or reads again. *)
LEMMA HandleIdle ==
  ASSUME Control, proc = "up", Handle \/ NoLine
  PROVE  Control' /\ Harmless
  <1> USE DEF listVars, kernel, locks, stopVars, flags, pollVars, newVars, history
  <1>0. Pcs /\ Flow /\ LockTypes /\ PollTypes /\ node \in [Thread -> 0..CLIENTS_MAX]
    BY DEF Control, Types, NodeTypes
  <1>1. CASE pc["poll"] = "handle" /\ (PeerGone \/ ~queues) /\ Crash
    BY <1>1, CrashStep DEF Harmless, CrashCause
  <1>2. CASE ReadAgainOrEnd /\ pc["poll"] \in {"accept", "handle"}
             /\ zejf_lock' \in {zejf_lock, NoOne}
    <2>1. UNCHANGED <<listVars, kernel, stopVars, flags, fds, todo, newVars, history, proc>>
      BY <1>2 DEF ReadAgainOrEnd
    <2>2. pc["poll"] \in Inside /\ pc["dog"] \notin Inside /\ CLIENTS_MAX \in Nat
      BY <1>2, OneInside, ServerAssumption DEF Inside
    <2>3. PICK l \in {"read", "next"} :
            /\ Goto("poll", l)
            /\ l = "read" => UNCHANGED <<clients_lock, node, stale>>
            /\ l = "next" => clients_lock' = NoOne /\ node' = [node EXCEPT !["poll"] = 0]
                             /\ stale' = FALSE
      BY <1>2 DEF ReadAgainOrEnd
    <2>4. Pcs' /\ pc'["poll"] = l /\ \A u \in Thread \ {"poll"} : pc'[u] = pc[u]
      BY <1>0, <2>3, Moves, Points DEF PollPc
    <2>5. pc'["accept"] = pc["accept"] /\ pc'["main"] = pc["main"] /\ pc'["dog"] = pc["dog"]
      BY <2>4, Points
    <2>6. LockTypes' /\ NodeTypes' /\ PollTypes'
      <3>1. LockTypes'
        BY <1>0, <1>2, <2>3 DEF LockTypes
      <3>2. NodeTypes'
        BY <1>0, <2>2, <2>3 DEF NodeTypes
      <3>3. PollTypes'
        BY <1>0, <1>2, <2>1 DEF ReadAgainOrEnd, PollTypes
      <3> QED BY <3>1, <3>2, <3>3
    <2>7. Types'
      BY <2>1, <2>6, Frames DEF Types, Control
    <2>8. Flow'
      BY <1>0, <1>2, <2>1, <2>4, <2>5 DEF Flow
    <2>9. Held'
      BY <2>1, <2>2, <2>3, <2>4, <2>5 DEF Control, Held, Holders, Inside
    <2>10. InConnect' /\ Wakes'
      BY <2>1, <2>5 DEF Control, InConnect, Wakes
    <2>11. Control'
      BY <2>4, <2>7, <2>8, <2>9, <2>10 DEF Control
    <2>12. Steady /\ Undisturbed
      BY <1>2, <2>1, <2>2, <2>3, <2>4, <2>5 DEF Steady, Undisturbed, Holders, Inside
    <2> QED BY <2>1, <2>11, <2>12 DEF Harmless, CrashExplained
  <1> QED BY <1>1, <1>2 DEF Handle, NoLine, Risking

(* The watchdog takes the lock for a client that is late. *)
LEMMA ScanIdle ==
  ASSUME Control, proc = "up", Scan
  PROVE  Control' /\ Harmless
  <1> USE DEF listVars, kernel, locks, stopVars, flags, pollVars, newVars, history
  <1>0. /\ Pcs /\ Flow /\ LockTypes /\ node \in [Thread -> 0..CLIENTS_MAX] /\ ListTypes
        /\ Len(clients) \in Nat /\ CLIENTS_MAX \in Nat /\ ServerTypeOK
        /\ pc["dog"] = "scan" /\ clients_lock = NoOne
    BY ControlTypes, ServerAssumption DEF Control, Types, NodeTypes, ListTypes, Scan
  <1>1. UNCHANGED <<listVars, kernel, zejf_lock, stopVars, flags, pollVars, newVars,
                    history, proc>>
    BY DEF Scan
  <1>2. pc["poll"] \notin Inside /\ pc["dog"] \notin Inside
    BY <1>0, OneInside
  <1>3. CASE Late = {}
    <2>1. Goto("dog", "start") /\ UNCHANGED <<clients_lock, node>>
      BY <1>3 DEF Scan
    <2>2. Pcs' /\ pc'["dog"] = "start" /\ \A u \in Thread \ {"dog"} : pc'[u] = pc[u]
      BY <1>0, <2>1, Moves, Points DEF DogPc
    <2>3. pc'["accept"] = pc["accept"] /\ pc'["main"] = pc["main"] /\ pc'["poll"] = pc["poll"]
      BY <2>2, Points
    <2>4. Types'
      BY <1>1, <2>1, Frames DEF Types, Control
    <2>5. Flow'
      BY <1>0, <1>1, <2>3 DEF Flow
    <2>6. Calm
      BY <1>1, <2>1, <2>2, <2>3 DEF Calm, Holders, Inside, Control, Types, KernelTypes
    <2>7. Harmless
      BY <1>0, <1>1, <2>1, <2>2, <2>3 DEF Harmless, CrashExplained, Steady, Undisturbed, Holders
    <2> QED BY <2>2, <2>4, <2>5, <2>6, <2>7, CalmControl
  <1>4. CASE Late # {}
    <2> DEFINE n == FirstNode(Late)
    <2>1. Goto("dog", "close") /\ clients_lock' = "dog" /\ node' = [node EXCEPT !["dog"] = n]
      BY <1>4 DEF Scan
    <2>2. n \in 1..Len(clients)
      BY <1>0, <1>4, FirstNodeIn DEF Late
    <2> HIDE DEF n
    <2>3. Pcs' /\ pc'["dog"] = "close" /\ \A u \in Thread \ {"dog"} : pc'[u] = pc[u]
      BY <1>0, <2>1, Moves, Points DEF DogPc
    <2>4. pc'["accept"] = pc["accept"] /\ pc'["main"] = pc["main"] /\ pc'["poll"] = pc["poll"]
      BY <2>3, Points
    <2>5. node'["dog"] = n /\ node'["poll"] = node["poll"] /\ NodeTypes'
      <3>1. n \in 0..CLIENTS_MAX
        BY <1>0, <2>2 DEF ListTypes
      <3> QED BY <1>0, <2>1, <3>1, Points DEF NodeTypes
    <2>6. LockTypes'
      BY <1>0, <1>1, <2>1, Points DEF LockTypes
    <2>7. Types'
      BY <1>1, <2>5, <2>6, Frames DEF Types, Control
    <2>8. Flow'
      BY <1>0, <1>1, <2>4 DEF Flow
    <2>9. Held'
      BY <1>1, <1>2, <2>1, <2>2, <2>4, <2>5 DEF Held, Holders
    <2>10. InConnect' /\ Wakes'
      BY <1>1, <2>4 DEF Control, InConnect, Wakes
    <2>11. Control'
      BY <2>3, <2>7, <2>8, <2>9, <2>10 DEF Control
    <2>12. Harmless
      BY <1>0, <1>1, <2>3, <2>4, <2>5 DEF Harmless, CrashExplained, Steady, Undisturbed, Holders
    <2> QED BY <2>11, <2>12
  <1> QED BY <1>3, <1>4

-----------------------------------------------------------------------------
(* A round from the head visits each node, and each once. *)
LEMMA VisitsAll ==
  ASSUME Len(clients) \in Nat
  PROVE  /\ \A k \in 1..Len(clients) : Visited(k) \in 1..Len(clients)
         /\ \A i, j \in 1..Len(clients) : Visited(i) = Visited(j) => i = j
         /\ \A n \in 1..Len(clients) : \E k \in 1..Len(clients) : Visited(k) = n
  <1>1. /\ \A k \in 1..Len(clients) : Visited(k) \in 1..Len(clients)
        /\ \A i, j \in 1..Len(clients) : Visited(i) = Visited(j) => i = j
    BY DEF Visited
  <1>2. ASSUME NEW n \in 1..Len(clients)
        PROVE  \E k \in 1..Len(clients) : Visited(k) = n
    <2>1. CASE n = Len(clients)
      <3>1. 1 \in 1..Len(clients) /\ Visited(1) = n
        BY <2>1 DEF Visited
      <3> QED BY <3>1
    <2>2. CASE n # Len(clients)
      <3>1. n + 1 \in 1..Len(clients) /\ Visited(n + 1) = n
        BY <2>2 DEF Visited
      <3> QED BY <3>1
    <2> QED BY <2>1, <2>2
  <1> QED BY <1>1, <1>2

(* prepare_fds takes the file descriptors of the listed clients, each once. *)
LEMMA SnapshotStep ==
  ASSUME Control, Orderly, proc = "up", Snapshot
  PROVE  Control' /\ Steady /\ Expected' /\ CrashExplained'
  <1> USE DEF listVars, kernel, locks, stopVars, flags, newVars
  <1>0. /\ Pcs /\ Flow /\ ListTypes /\ PollTypes /\ Len(clients) \in Nat /\ pipe \in Nat
        /\ pc["poll"] = "snap" /\ todo = << >> /\ clients \in Seq(Client)
    BY DEF Control, Types, ListTypes, KernelTypes, Snapshot, Flow
  <1>1. UNCHANGED <<listVars, kernel, locks, stopVars, flags, newVars, todo, node, again,
                    stale, proc, raced>>
    BY DEF Snapshot
  <1>2. fds' = [k \in 1..Len(clients) |-> client[clients[Visited(k)]].fd] /\ reaped' = FALSE
    BY DEF Snapshot
  <1>3. Pcs' /\ pc'["poll"] = "poll" /\ \A u \in Thread \ {"poll"} : pc'[u] = pc[u]
    BY <1>0, Moves, Points DEF Snapshot, PollPc
  <1>4. pc'["accept"] = pc["accept"] /\ pc'["main"] = pc["main"] /\ pc'["dog"] = pc["dog"]
    BY <1>3, Points
  <1>5. \A k \in 1..Len(clients) : /\ clients[Visited(k)] \in Client
                                     /\ clients[Visited(k)] \in Listed
    BY <1>0, VisitsAll DEF Listed
  <1>6. fds' \in Seq(Fd \cup {BadFd}) /\ Len(fds') = Len(clients)
    BY <1>0, <1>2, <1>5 DEF ListTypes
  <1>7. Types'
    <2>1. PollTypes'
      BY <1>0, <1>1, <1>6 DEF PollTypes
    <2>2. HistoryTypes'
      BY <1>1, <1>2 DEF Control, Types, HistoryTypes
    <2> QED BY <1>1, <2>1, <2>2, Frames DEF Types, Control
  <1>8. Flow'
    BY <1>0, <1>1, <1>3, <1>4 DEF Flow
  <1>9. Calm
    BY <1>0, <1>1, <1>3, <1>4 DEF Calm, Holders, Inside
  <1>10. Control'
    BY <1>3, <1>7, <1>8, <1>9, CalmControl
  <1>11. Steady
    BY <1>0, <1>1, <1>3, <1>4 DEF Steady, Holders
  <1>12. ASSUME ~raced PROVE OfListed(fds)'
    <2>1. /\ \A i, j \in 1..Len(clients) : clients[i] = clients[j] => i = j
          /\ \A c, d \in Listed : client[c].fd = client[d].fd => c = d
      BY <1>12 DEF Orderly, ListOrder, Distinct
    <2>2. Listed' = Listed /\ client' = client
      BY <1>1 DEF Listed
    <2>3. \A i \in 1..Len(fds') : \E c \in Listed : client[c].fd = fds'[i]
      BY <1>2, <1>5, <1>6
    <2>4. \A i, j \in 1..Len(fds') : fds'[i] = fds'[j] => i = j
      <3>1. ASSUME NEW i \in 1..Len(clients), NEW j \in 1..Len(clients), fds'[i] = fds'[j]
            PROVE  i = j
        <4>1. clients[Visited(i)] = clients[Visited(j)]
          BY <1>2, <1>5, <2>1, <3>1
        <4>2. Visited(i) = Visited(j)
          BY <1>0, <2>1, <4>1, VisitsAll
        <4> QED BY <1>0, <4>2, VisitsAll
      <3> QED BY <1>6, <3>1
    <2> QED BY <2>2, <2>3, <2>4 DEF OfListed, Distinct
  <1>13. OfListed(TodoFds)'
    <2>1. todo' = << >> /\ Len(todo') = 0
      BY <1>0, <1>1
    <2>2. TodoFds' = << >> /\ Len(TodoFds') = 0
      BY <2>1 DEF TodoFds
    <2> QED BY <2>2 DEF OfListed, Distinct
  <1>14. Expected'
    BY <1>1, <1>3, <1>12, <1>13 DEF Expected, Inside
  <1> QED BY <1>1, <1>10, <1>11, <1>14 DEF CrashExplained

(* poll returns events of clients of the snapshot, at most one of each. *)
LEMMA PollStepInv ==
  ASSUME Control, Expected, proc = "up", Poll
  PROVE  Control' /\ Steady /\ Expected' /\ CrashExplained'
  <1> USE DEF listVars, kernel, locks, stopVars, flags, newVars, history
  <1>0. /\ Pcs /\ Flow /\ PollTypes /\ pipe \in Nat /\ pc["poll"] = "poll" /\ todo = << >>
        /\ fds \in Seq(Fd \cup {BadFd}) /\ Len(fds) \in Nat
    BY DEF Control, Types, PollTypes, KernelTypes, Poll, Flow
  <1>1. /\ UNCHANGED <<listVars, kernel, locks, stopVars, flags, newVars, history, node,
                       again, stale, proc>>
        /\ fds' = << >>
    BY DEF Poll
  <1>2. PICK l \in {"drain", "next"} : Goto("poll", l) /\ (l = "drain" => todo' = todo)
    BY DEF Poll
  <1>3. Pcs' /\ pc'["poll"] = l /\ \A u \in Thread \ {"poll"} : pc'[u] = pc[u]
    BY <1>0, <1>2, Moves, Points DEF PollPc
  <1>4. pc'["accept"] = pc["accept"] /\ pc'["main"] = pc["main"] /\ pc'["dog"] = pc["dog"]
    BY <1>3, Points
  <1>5. /\ todo' \in Seq(Event)
        /\ \A k \in 1..Len(todo') : \E i \in 1..Len(fds) : todo'[k][1] = fds[i]
        /\ Distinct(fds) =>
             \A k, m \in 1..Len(todo') : todo'[k][1] = todo'[m][1] => k = m
    <2>1. CASE todo' = todo
      BY <1>0, <2>1
    <2>2. CASE pipe = 0
      <3> DEFINE ready == {i \in 1..Len(fds) : Events(fds[i]) # {}}
                 count == Cardinality(ready)
      <3>1. count \in Nat
        <4>1. IsFiniteSet(1..Len(fds))
          BY <1>0, FS_Interval
        <4>2. IsFiniteSet(ready)
          BY <4>1, FS_Subset
        <4> QED BY <4>2, FS_CardinalityType
      <3>0. ~(pipe > 0)
        BY <2>2
      <3>2. PICK at \in [1..count -> ready] :
              /\ \A i, j \in 1..count : i < j => at[i] < at[j]
              /\ todo' \in {s \in [1..count -> Event] :
                   \A i \in 1..count : /\ s[i][1] = fds[at[i]]
                                       /\ s[i][2] \in Events(fds[at[i]])}
        BY <3>0, Zenon DEF Poll
      <3> HIDE DEF count
      <3>3. /\ todo' \in [1..count -> Event]
            /\ \A k \in 1..count : todo'[k][1] = fds[at[k]] /\ at[k] \in 1..Len(fds)
        BY <3>2
      <3>4. todo' \in Seq(Event) /\ Len(todo') = count
        BY <3>1, <3>3
      <3>5. ASSUME Distinct(fds), NEW k \in 1..count, NEW m \in 1..count,
                   todo'[k][1] = todo'[m][1]
            PROVE  k = m
        <4>1. at[k] = at[m] /\ at[k] \in Nat /\ at[m] \in Nat
          BY <1>0, <3>3, <3>5 DEF Distinct
        <4> QED BY <3>1, <3>2, <4>1
      <3> QED BY <3>3, <3>4, <3>5
    <2> QED BY <1>0, <2>1, <2>2 DEF Poll
  <1>6. Types'
    <2>1. PollTypes'
      BY <1>0, <1>1, <1>5 DEF PollTypes
    <2> QED BY <1>1, <2>1, Frames DEF Types, Control
  <1>7. Flow'
    BY <1>0, <1>1, <1>2, <1>3, <1>4 DEF Flow
  <1>8. Calm
    BY <1>0, <1>1, <1>3, <1>4 DEF Calm, Holders, Inside
  <1>9. Control'
    BY <1>3, <1>6, <1>7, <1>8, CalmControl
  <1>10. Steady
    BY <1>0, <1>1, <1>3, <1>4 DEF Steady, Holders
  <1>11. Expected'
    <2> SUFFICES ASSUME ~raced', ~reaped' PROVE OfListed(fds)' /\ OfListed(TodoFds)'
      BY <1>3 DEF Expected, Inside
    <2>1. OfListed(fds) /\ Listed' = Listed /\ client' = client
      BY <1>1 DEF Expected, Listed
    <2>2. OfListed(fds)'
      BY <1>1 DEF OfListed, Distinct
    <2>3. /\ Len(todo') \in Nat /\ TodoFds' = [k \in 1..Len(todo') |-> todo'[k][1]]
      BY <1>5 DEF TodoFds
    <2>4. Len(TodoFds') = Len(todo') /\ \A k \in 1..Len(todo') : TodoFds'[k] = todo'[k][1]
      BY <2>3
    <2>5. OfListed(TodoFds)'
      BY <1>5, <2>1, <2>4 DEF OfListed, Distinct
    <2> QED BY <2>2, <2>5
  <1> QED BY <1>1, <1>9, <1>10, <1>11 DEF CrashExplained

(* An event finds its client, unless the watchdog was faster. *)
LEMMA TakeStep ==
  ASSUME Control, Orderly, Expected, proc = "up", Take
  PROVE  Control' /\ Steady /\ Expected' /\ CrashExplained'
  <1> USE DEF listVars, kernel, stopVars, flags, newVars, history
  <1> DEFINE f == Head(todo)[1]
             found == NodesOf(f)
             event == Head(todo)[2]
  <1>0. /\ Pcs /\ Flow /\ PollTypes /\ pc["poll"] = "next" /\ todo # << >>
        /\ todo \in Seq(Event) /\ Len(todo) \in Nat \ {0} /\ clients_lock = NoOne
        /\ ListTypes /\ Len(clients) \in Nat /\ ServerTypeOK /\ CLIENTS_MAX \in Nat
    BY ControlTypes, ServerAssumption DEF Control, Types, PollTypes, ListTypes, Take
  <1>1. /\ f = todo[1][1] /\ Tail(todo) \in Seq(Event) /\ Len(Tail(todo)) = Len(todo) - 1
        /\ \A i \in 1..(Len(todo) - 1) : Tail(todo)[i] = todo[i + 1]
    BY <1>0
  <1>2. ASSUME ~raced, ~reaped
        PROVE  /\ \E i \in 1..Len(clients) : client[clients[i]].fd = f
               /\ \A i \in 1..Len(Tail(todo)) : Tail(todo)[i][1] # f
    <2>1. /\ \A i \in 1..Len(todo) : TodoFds[i] = todo[i][1]
          /\ Len(TodoFds) = Len(todo) /\ OfListed(TodoFds)
      BY <1>0, <1>2 DEF TodoFds, Expected
    <2>2. 1 \in 1..Len(todo) /\ \A i \in 1..(Len(todo) - 1) : i + 1 \in 1..Len(todo) /\ i + 1 # 1
      BY <1>0
    <2>3. \E c \in Listed : client[c].fd = f
      BY <1>1, <2>1, <2>2 DEF OfListed
    <2>4. ASSUME NEW i \in 1..Len(Tail(todo)) PROVE Tail(todo)[i][1] # f
      BY <1>0, <1>1, <2>1, <2>2 DEF OfListed, Distinct
    <2> QED BY <2>3, <2>4 DEF Listed
  <1> HIDE DEF f
  <1>3. CASE found = {} /\ event = "in"
    <2>1. Crash
      BY <1>3 DEF Take, f
    <2>2. raced \/ reaped
      BY <1>2, <1>3 DEF NodesOf
    <2> QED BY <2>1, <2>2, CrashStep, UndisturbedExpected DEF CrashCause
  <1>4. CASE ~(found = {} /\ event = "in")
    <2>1. /\ todo' = Tail(todo)
          /\ UNCHANGED <<listVars, kernel, stopVars, flags, newVars, history, zejf_lock,
                         fds, again, proc>>
      BY <1>4 DEF Take, f
    <2>2. CrashExplained'
      BY <2>1 DEF CrashExplained
    <2>3. pc["poll"] \notin Inside /\ pc["dog"] \notin Inside
      BY <1>0, OneInside
    <2>4. ASSUME ~raced, ~reaped PROVE OfListed(TodoFds)'
      <3>1. /\ \A i \in 1..Len(todo) : TodoFds[i] = todo[i][1]
            /\ Len(TodoFds) = Len(todo) /\ OfListed(TodoFds)
        BY <1>0, <2>4 DEF TodoFds, Expected
      <3>2. /\ TodoFds' = [i \in 1..(Len(todo) - 1) |-> todo[i + 1][1]]
            /\ Len(TodoFds') = Len(todo) - 1
        BY <1>0, <1>1, <2>1 DEF TodoFds
      <3>3. \A i \in 1..(Len(todo) - 1) : i + 1 \in 1..Len(todo) /\ TodoFds'[i] = TodoFds[i + 1]
        BY <1>0, <3>1, <3>2
      <3>4. Listed' = Listed /\ client' = client
        BY <2>1 DEF Listed
      <3> HIDE DEF found, event
      <3>5. \A i \in 1..Len(TodoFds') : \E c \in Listed : client[c].fd = TodoFds'[i]
        BY <3>1, <3>2, <3>3 DEF OfListed
      <3>6. \A i, j \in 1..Len(TodoFds') : TodoFds'[i] = TodoFds'[j] => i = j
        BY <1>0, <3>1, <3>2, <3>3 DEF OfListed, Distinct
      <3> QED BY <3>4, <3>5, <3>6 DEF OfListed, Distinct
    <2>5. ASSUME ~raced, ~reaped PROVE OfListed(fds)'
      <3>1. OfListed(fds) /\ Listed' = Listed /\ client' = client /\ fds' = fds
        BY <2>1, <2>5 DEF Expected, Listed
      <3> QED BY <3>1 DEF OfListed
    <2>6. CASE found = {}
      <3>1. UNCHANGED <<pc, clients_lock, node, stale>>
        BY <1>4, <2>6 DEF Take, f
      <3>2. PollTypes' /\ LockTypes'
        BY <1>0, <1>1, <2>1, <3>1 DEF PollTypes, LockTypes, Control, Types
      <3>3. Types'
        BY <2>1, <3>1, <3>2, Frames DEF Types, Control
      <3>4. Pcs' /\ Flow'
        BY <1>0, <2>1, <3>1 DEF Pcs, Flow
      <3>5. Calm
        BY <2>1, <3>1 DEF Calm, Control, Types, KernelTypes
      <3>6. Control' /\ Steady
        BY <2>1, <3>1, <3>3, <3>4, <3>5, CalmControl DEF Steady
      <3>7. Expected'
        BY <1>0, <2>1, <2>4, <2>5, <3>1 DEF Expected, Inside
      <3> QED BY <2>2, <3>6, <3>7
    <2>7. CASE found # {}
      <3> DEFINE n == FirstNode(found)
      <3>1. /\ clients_lock' = "poll" /\ node' = [node EXCEPT !["poll"] = n] /\ stale' = FALSE
            /\ \E l \in {"read", "close"} : Goto("poll", l)
        BY <1>4, <2>7 DEF Take, f
      <3>2. n \in 1..Len(clients) /\ client[clients[n]].fd = f
        <4>1. found \subseteq 1..Len(clients)
          BY DEF NodesOf
        <4>2. n \in found /\ n \in 1..Len(clients)
          BY <1>0, <2>7, <4>1, FirstNodeIn
        <4> QED BY <4>2 DEF NodesOf
      <3> HIDE DEF n
      <3>3. PICK l \in {"read", "close"} : Goto("poll", l)
        BY <3>1
      <3>4. Pcs' /\ pc'["poll"] = l /\ \A u \in Thread \ {"poll"} : pc'[u] = pc[u]
        BY <1>0, <3>3, Moves, Points DEF PollPc
      <3>5. pc'["accept"] = pc["accept"] /\ pc'["main"] = pc["main"] /\ pc'["dog"] = pc["dog"]
        BY <3>4, Points
      <3>6. /\ node' = [node EXCEPT !["poll"] = n] /\ n \in 0..CLIENTS_MAX
            /\ node \in [Thread -> 0..CLIENTS_MAX]
        BY <1>0, <3>1, <3>2 DEF ListTypes, Control, Types, NodeTypes
      <3>7. node'["poll"] = n /\ node'["dog"] = node["dog"] /\ NodeTypes'
        BY <3>6, Points DEF NodeTypes
      <3>8. PollTypes' /\ LockTypes'
        BY <1>0, <1>1, <2>1, <3>1, Points DEF PollTypes, LockTypes, Control, Types
      <3>9. Types'
        BY <2>1, <3>7, <3>8, Frames DEF Types, Control
      <3>10. Flow'
        BY <1>0, <2>1, <3>4, <3>5 DEF Flow
      <3>11. Held'
        BY <2>1, <2>3, <3>1, <3>2, <3>5, <3>7 DEF Held, Holders
      <3>12. InConnect' /\ Wakes'
        BY <2>1, <3>5 DEF Control, InConnect, Wakes
      <3>13. Control'
        BY <3>4, <3>9, <3>10, <3>11, <3>12 DEF Control
      <3>14. Steady
        BY <1>0, <2>1, <2>3, <3>4, <3>5, <3>7 DEF Steady, Holders, Inside
      <3>15. ASSUME ~raced, ~reaped
             PROVE  \A i \in 1..Len(todo') : todo'[i][1] # client'[InHand'].fd
        BY <1>2, <2>1, <3>2, <3>7, <3>15 DEF InHand
      <3>16. Expected'
        BY <2>1, <2>4, <2>5, <3>15 DEF Expected
      <3> QED BY <2>2, <3>13, <3>14, <3>16
    <2> QED BY <2>6, <2>7
  <1> QED BY <1>3, <1>4

-----------------------------------------------------------------------------
(* The clients of the snapshot and of the events stay where the listed clients do. *)
LEMMA ExpectedFrame ==
  ASSUME Control, Expected, UNCHANGED <<fds, todo>>, ~raced' /\ ~reaped' => ~raced /\ ~reaped,
         ~raced' /\ ~reaped' =>
           \A c \in Listed : c \in Listed' /\ client'[c].fd = client[c].fd,
         pc'["poll"] \in Inside => pc["poll"] \in Inside /\ InHand' = InHand
  PROVE  Expected'
  <1> SUFFICES ASSUME ~raced', ~reaped'
               PROVE  /\ OfListed(fds)' /\ OfListed(TodoFds)'
                      /\ pc'["poll"] \in Inside =>
                           \A i \in 1..Len(todo') : todo'[i][1] # client'[InHand'].fd
    BY DEF Expected
  <1>1. /\ OfListed(fds) /\ OfListed(TodoFds)
        /\ pc["poll"] \in Inside => \A i \in 1..Len(todo) : todo[i][1] # client[InHand].fd
        /\ \A c \in Listed : c \in Listed' /\ client'[c].fd = client[c].fd
    BY DEF Expected
  <1>2. TodoFds' = TodoFds /\ fds' = fds
    BY DEF TodoFds
  <1>3. OfListed(fds)' /\ OfListed(TodoFds)'
    BY <1>1, <1>2 DEF OfListed
  <1>4. ASSUME pc'["poll"] \in Inside
        PROVE  \A i \in 1..Len(todo') : todo'[i][1] # client'[InHand'].fd
    <2>1. InHand \in Listed
      BY <1>4 DEF Control, Held, Holders, InHand, Listed
    <2> QED BY <1>1, <1>4, <2>1
  <1> QED BY <1>3, <1>4

(* A connection: calloc gives a struct that is not in use, so none of the list, and
   the kernel a file descriptor that is free, so at most that of a client being
   removed. *)
LEMMA AcceptStepInv ==
  ASSUME Control, Orderly, Expected, proc = "up", Accept
  PROVE  Control' /\ Orderly' /\ Expected' /\ CrashExplained'
  <1> USE DEF locks, stopVars, flags, pollVars, history
  <1>0. /\ Pcs /\ Flow /\ ListTypes /\ KernelTypes /\ NewTypes /\ InConnect /\ Wakes
        /\ pc["accept"] = "accept" /\ MaxConnects \in Nat
    BY ServerAssumption DEF Control, Types, Accept
  <1>1. /\ UNCHANGED <<locks, stopVars, flags, pollVars, history, clients, interfaces,
                       pipe, node, proc>>
        /\ connects' = connects + 1 /\ connects < MaxConnects
    BY DEF Accept
  <1>2. PICK f \in Fd, c \in Client :
          /\ LowestFree(f) /\ ~client[c].used
          /\ sock' = [sock EXCEPT ![f] = "quiet"]
          /\ client' = [client EXCEPT ![c] =
                          [used |-> TRUE, fd |-> f, uid |-> 0, late |-> FALSE]]
          /\ fresh' = c
    BY DEF Accept
  <1>3. Pcs' /\ pc'["accept"] = "push" /\ \A u \in Thread \ {"accept"} : pc'[u] = pc[u]
    BY <1>0, Moves, Points DEF Accept, AcceptPc
  <1>4. pc'["poll"] = pc["poll"] /\ pc'["main"] = pc["main"] /\ pc'["dog"] = pc["dog"]
    BY <1>3, Points
  <1>5. Types'
    <2>1. ListTypes'
      BY <1>0, <1>1, <1>2 DEF ListTypes
    <2>2. KernelTypes'
      BY <1>0, <1>1, <1>2 DEF KernelTypes, Socket
    <2>3. NewTypes'
      BY <1>0, <1>1, <1>2 DEF NewTypes
    <2> QED BY <1>1, <2>1, <2>2, <2>3, Frames DEF Types, Control
  <1>6. Flow'
    BY <1>0, <1>1, <1>3, <1>4 DEF Flow
  <1>7. Held'
    BY <1>1, <1>4 DEF Control, Held, Holders
  <1>8. InConnect' /\ Wakes'
    <2>1. c # NoOne
      BY ServerAssumption
    <2> QED BY <1>0, <1>1, <1>2, <1>3, <2>1
         DEF InConnect, Wakes, Connecting, KernelTypes, NewTypes
  <1>9. Control'
    BY <1>3, <1>5, <1>6, <1>7, <1>8 DEF Control
  <1>10. Listed' = Listed /\ Listed \subseteq Client
    BY <1>0, <1>1, ListedClients DEF Listed
  <1>11. ASSUME ~raced PROVE (ListOrder /\ FreshOrder /\ UidOrder /\ TableOrder)'
    <2>0. ListOrder /\ UidOrder /\ TableOrder /\ c \notin Listed
      BY <1>2, <1>11 DEF Orderly, ListOrder
    <2>1. \A d \in Listed : client'[d] = client[d]
      BY <1>0, <1>2, <1>10, <2>0 DEF ListTypes
    <2>2. Named = Listed /\ Named' = Listed
      BY <1>0, <1>3, <1>10 DEF Named
    <2>3. \A d \in Client : Going(d) => Going(d)'
      BY <1>1, <1>4 DEF Going, Holders
    <2>4. sock[f] = "closed" /\ sock'[f] = "quiet"
          /\ \A g \in Fd : sock'[g] = "closed" => sock[g] = "closed"
      BY <1>0, <1>2 DEF LowestFree, KernelTypes
    <2>5. ListOrder'
      BY <1>1, <1>10, <2>0, <2>1, <2>3, <2>4 DEF ListOrder, Distinct
    <2>6. client'[c].used /\ client'[c].fd = f
      BY <1>0, <1>2 DEF ListTypes
    <2>7. \A d \in Listed : client'[d].fd = f => Going(d)'
      BY <1>10, <2>0, <2>1, <2>3, <2>4 DEF ListOrder
    <2>8. FreshOrder'
      BY <1>2, <1>3, <1>10, <2>0, <2>4, <2>6, <2>7 DEF FreshOrder
    <2>9. UidOrder'
      BY <1>0, <1>1, <2>0, <2>1, <2>2 DEF UidOrder, NewTypes
    <2>10. TableOrder'
      BY <1>1, <2>0, <2>2 DEF TableOrder, Distinct, Members
    <2> QED BY <2>5, <2>8, <2>9, <2>10
  <1>12. Orderly'
    BY <1>1, <1>11 DEF Orderly
  <1>13. Expected'
    <2>1. ASSUME ~raced PROVE \A d \in Listed : d \in Listed' /\ client'[d].fd = client[d].fd
      <3>1. c \notin Listed
        BY <1>2, <2>1 DEF Orderly, ListOrder
      <3> QED BY <1>0, <1>2, <1>10, <3>1 DEF ListTypes
    <2>2. InHand' = InHand
      BY <1>1 DEF InHand
    <2> QED BY <1>1, <1>4, <2>1, <2>2, ExpectedFrame
  <1> QED BY <1>1, <1>9, <1>12, <1>13 DEF CrashExplained

(* client_connect pushes: no thread is inside, so the file descriptor is that of no
   listed client. *)
LEMMA PushStepInv ==
  ASSUME Control, Orderly, Expected, proc = "up", Push
  PROVE  Control' /\ Orderly' /\ Expected' /\ CrashExplained'
  <1> USE DEF kernel, locks, stopVars, flags, pollVars, history
  <1>0. /\ Pcs /\ Flow /\ ListTypes /\ KernelTypes /\ NewTypes /\ InConnect /\ Wakes
        /\ pc["accept"] = "push" /\ clients_lock = NoOne /\ clients \in Seq(Client)
        /\ Len(clients) \in Nat /\ CLIENTS_MAX \in Nat
    BY ServerAssumption DEF Control, Types, ListTypes, Push
  <1>1. UNCHANGED <<kernel, locks, stopVars, flags, pollVars, history, interfaces, node,
                    connects, proc>>
    BY DEF Push
  <1>2. fresh \in Client /\ fresh # NoOne
    BY <1>0 DEF InConnect, Connecting, NewTypes
  <1>3. pc["poll"] \notin Inside /\ pc["dog"] \notin Inside
    BY <1>0, OneInside
  <1>4. CASE Len(clients) < CLIENTS_MAX
    <2>1. /\ clients' = Append(clients, fresh) /\ Goto("accept", "add")
          /\ UNCHANGED <<client, fresh>>
      BY <1>4 DEF Push
    <2>2. /\ clients' \in Seq(Client) /\ Len(clients') = Len(clients) + 1
          /\ clients'[Len(clients) + 1] = fresh
          /\ \A i \in 1..Len(clients) : clients'[i] = clients[i]
      BY <1>0, <1>2, <2>1
    <2>3. Listed' = Listed \cup {fresh} /\ Listed \subseteq Client
      BY <1>0, <2>2, ListedClients DEF Listed
    <2>4. Pcs' /\ pc'["accept"] = "add" /\ \A u \in Thread \ {"accept"} : pc'[u] = pc[u]
      BY <1>0, <2>1, Moves, Points DEF AcceptPc
    <2>5. pc'["poll"] = pc["poll"] /\ pc'["main"] = pc["main"] /\ pc'["dog"] = pc["dog"]
      BY <2>4, Points
    <2>6. Types'
      <3>1. ListTypes'
        BY <1>0, <1>1, <1>4, <2>1, <2>2 DEF ListTypes
      <3>2. NewTypes'
        BY <1>0, <1>1, <2>1 DEF NewTypes
      <3> QED BY <1>1, <3>1, <3>2, Frames DEF Types, Control
    <2>7. Flow'
      BY <1>0, <1>1, <2>4, <2>5 DEF Flow
    <2>8. Held'
      BY <1>3, <2>5 DEF Held, Holders
    <2>9. InConnect' /\ Wakes'
      BY <1>0, <1>1, <1>2, <2>1, <2>4 DEF InConnect, Wakes, Connecting
    <2>10. Control'
      BY <2>4, <2>6, <2>7, <2>8, <2>9 DEF Control
    <2>11. ASSUME ~raced PROVE (ListOrder /\ FreshOrder /\ UidOrder /\ TableOrder)'
      <3>0. ListOrder /\ FreshOrder /\ UidOrder /\ TableOrder
        BY <2>11 DEF Orderly
      <3>1. \A c : ~Going(c)
        BY <1>3 DEF Going, Holders, Inside
      <3>2. /\ fresh \notin Listed /\ sock[client[fresh].fd] # "closed"
            /\ client[fresh].used /\ client[fresh].fd \in Fd
            /\ \A c \in Listed : client[c].fd # client[fresh].fd
        BY <1>0, <1>2, <3>0, <3>1 DEF FreshOrder
      <3>3. Distinct(clients')
        <4>1. \A i \in 1..Len(clients) : clients'[i] # fresh
          BY <2>2, <3>2 DEF Listed
        <4>2. \A i, j \in 1..Len(clients) : clients'[i] = clients'[j] => i = j
          BY <2>2, <3>0 DEF ListOrder, Distinct
        <4> QED BY <1>0, <2>2, <4>1, <4>2 DEF Distinct
      <3>4. ListOrder'
        BY <1>1, <2>1, <2>3, <3>0, <3>1, <3>2, <3>3 DEF ListOrder
      <3>5. FreshOrder'
        BY <2>1, <2>3, <2>4, <3>2 DEF FreshOrder
      <3>6. Named' = Listed /\ Named = Listed
        BY <1>0, <2>1, <2>3, <2>4, <3>2 DEF Named
      <3>7. UidOrder'
        BY <1>0, <1>1, <2>1, <3>0, <3>6 DEF UidOrder
      <3>8. TableOrder'
        BY <1>1, <3>0, <3>6 DEF TableOrder, Distinct, Members
      <3> QED BY <3>4, <3>5, <3>7, <3>8
    <2>12. Orderly'
      BY <1>1, <2>11 DEF Orderly
    <2>13. Expected'
      BY <1>1, <1>3, <2>1, <2>3, <2>5, ExpectedFrame
    <2> QED BY <1>1, <2>10, <2>12, <2>13 DEF CrashExplained
  <1>5. CASE ~(Len(clients) < CLIENTS_MAX)
    <2>1. /\ client' = Freed(fresh) /\ fresh' = NoOne /\ Goto("accept", "accept")
          /\ clients' = clients
      BY <1>5 DEF Push
    <2>2. Pcs' /\ pc'["accept"] = "accept" /\ \A u \in Thread \ {"accept"} : pc'[u] = pc[u]
      BY <1>0, <2>1, Moves, Points DEF AcceptPc
    <2>3. pc'["poll"] = pc["poll"] /\ pc'["main"] = pc["main"] /\ pc'["dog"] = pc["dog"]
      BY <2>2, Points
    <2>4. \A c \in Client \ {fresh} : client'[c] = client[c]
      BY <1>0, <2>1 DEF ListTypes, Freed
    <2>5. Types'
      <3>1. ListTypes'
        BY <1>0, <1>1, <1>2, <2>1 DEF ListTypes, Freed, BadFd
      <3>2. NewTypes'
        BY <1>0, <1>1, <2>1 DEF NewTypes
      <3> QED BY <1>1, <3>1, <3>2, Frames DEF Types, Control
    <2>6. Flow'
      BY <1>0, <1>1, <2>2, <2>3 DEF Flow
    <2>7. Held'
      BY <1>3, <2>3 DEF Held, Holders
    <2>8. InConnect' /\ Wakes'
      BY <1>0, <1>1, <2>1, <2>2 DEF InConnect, Wakes, Connecting
    <2>9. Control'
      BY <2>2, <2>5, <2>6, <2>7, <2>8 DEF Control
    <2>10. Listed' = Listed /\ Listed \subseteq Client
      BY <1>0, <2>1, ListedClients DEF Listed
    <2>11. ASSUME ~raced
           PROVE  /\ (ListOrder /\ FreshOrder /\ UidOrder /\ TableOrder)'
                  /\ \A c \in Listed : client'[c] = client[c]
      <3>0. ListOrder /\ FreshOrder /\ UidOrder /\ TableOrder
        BY <2>11 DEF Orderly
      <3>1. fresh \notin Listed
        BY <1>0, <1>2, <3>0 DEF FreshOrder
      <3>2. \A c \in Listed : client'[c] = client[c]
        BY <2>4, <2>10, <3>1
      <3>3. \A c : Going(c) => Going(c)'
        BY <1>1, <2>1, <2>3 DEF Going, Holders
      <3>4. ListOrder'
        BY <1>1, <2>1, <2>10, <3>0, <3>2, <3>3 DEF ListOrder
      <3>5. FreshOrder'
        BY <2>1 DEF FreshOrder
      <3>6. Named' = Listed /\ Named = Listed
        BY <1>0, <2>2, <2>10 DEF Named
      <3>7. UidOrder'
        BY <1>0, <1>1, <2>2, <3>0, <3>2, <3>6 DEF UidOrder
      <3>8. TableOrder'
        BY <1>1, <3>0, <3>6 DEF TableOrder, Distinct, Members
      <3> QED BY <3>2, <3>4, <3>5, <3>7, <3>8
    <2>12. Orderly'
      BY <1>1, <2>11 DEF Orderly
    <2>13. Expected'
      BY <1>1, <1>3, <2>3, <2>10, <2>11, ExpectedFrame
    <2> QED BY <1>1, <2>9, <2>12, <2>13 DEF CrashExplained
  <1> QED BY <1>4, <1>5

(* client_connect adds the interface, with the highest uid so far; at the limit it
   frees a client that the list still holds. *)
LEMMA AddStepInv ==
  ASSUME Control, Orderly, Expected, proc = "up", Add
  PROVE  Control' /\ Orderly' /\ Expected' /\ CrashExplained'
  <1> USE DEF kernel, locks, stopVars, flags, pollVars
  <1>0. /\ Pcs /\ Flow /\ ListTypes /\ KernelTypes /\ NewTypes /\ InConnect /\ Wakes
        /\ pc["accept"] = "add" /\ interfaces \in Seq(Client \cup {USB})
        /\ Len(interfaces) \in Nat /\ INTERFACES_MAX \in Nat
    BY ServerAssumption DEF Control, Types, ListTypes, Add
  <1>1. UNCHANGED <<kernel, locks, stopVars, flags, pollVars, clients, node, connects,
                    reaped>>
    BY DEF Add
  <1>2. fresh \in Client /\ fresh # NoOne /\ fresh # USB /\ connects \in 1..MaxConnects
    BY <1>0, ServerAssumption
       DEF InConnect, Connecting, NewTypes, Wakes, KernelTypes
  <1>3. Listed' = Listed /\ Listed \subseteq Client /\ InHand' = InHand
    BY <1>0, <1>1, ListedClients DEF Listed, InHand
  <1>4. CASE Len(interfaces) < INTERFACES_MAX
    <2>1. /\ interfaces' = Append(interfaces, fresh)
          /\ client' = [client EXCEPT ![fresh].uid = connects]
          /\ Goto("accept", "wake") /\ UNCHANGED <<fresh, raced, proc>>
      BY <1>4 DEF Add
    <2>2. /\ interfaces' \in Seq(Client \cup {USB}) /\ Len(interfaces') = Len(interfaces) + 1
          /\ interfaces'[Len(interfaces) + 1] = fresh
          /\ \A k \in 1..Len(interfaces) : interfaces'[k] = interfaces[k]
      BY <1>0, <1>2, <2>1
    <2>3. Pcs' /\ pc'["accept"] = "wake" /\ \A u \in Thread \ {"accept"} : pc'[u] = pc[u]
      BY <1>0, <2>1, Moves, Points DEF AcceptPc
    <2>4. pc'["poll"] = pc["poll"] /\ pc'["main"] = pc["main"] /\ pc'["dog"] = pc["dog"]
      BY <2>3, Points
    <2>5. /\ \A c \in Client \ {fresh} : client'[c] = client[c]
          /\ client'[fresh].uid = connects
          /\ \A c \in Client : client'[c].fd = client[c].fd /\ (client[c].used => client'[c].used)
      BY <1>0, <1>2, <2>1 DEF ListTypes
    <2>6. Types'
      <3>1. client' \in [Client -> [used : BOOLEAN, fd : Fd \cup {BadFd},
                                    uid : 0..MaxConnects, late : BOOLEAN]]
        <4> DEFINE Struct == [used : BOOLEAN, fd : Fd \cup {BadFd},
                              uid : 0..MaxConnects, late : BOOLEAN]
        <4>1. client \in [Client -> Struct] /\ connects \in 0..MaxConnects
          BY <1>0 DEF ListTypes, NewTypes
        <4>2. [client[fresh] EXCEPT !.uid = connects] \in Struct
          BY <1>2, <4>1
        <4> HIDE DEF Struct
        <4>3. client' = [client EXCEPT ![fresh] = [client[fresh] EXCEPT !.uid = connects]]
          BY <2>1
        <4>4. client' \in [Client -> Struct]
          BY <4>1, <4>2, <4>3
        <4> QED BY <4>4 DEF Struct
      <3>2. ListTypes'
        BY <1>0, <1>1, <1>4, <2>2, <3>1 DEF ListTypes
      <3>3. NewTypes'
        BY <1>0, <1>1, <2>1 DEF NewTypes
      <3>4. HistoryTypes' /\ ProcTypes'
        BY <1>1, <2>1 DEF Control, Types, HistoryTypes, ProcTypes
      <3> QED BY <1>1, <3>2, <3>3, <3>4, Frames DEF Types, Control
    <2>7. Flow'
      BY <1>0, <1>1, <2>3, <2>4 DEF Flow
    <2>8. Held'
      BY <1>1, <2>4 DEF Control, Held, Holders
    <2>9. InConnect' /\ Wakes'
      BY <1>0, <1>1, <1>2, <2>1, <2>3 DEF InConnect, Wakes, Connecting
    <2>10. Control'
      BY <2>3, <2>6, <2>7, <2>8, <2>9 DEF Control
    <2>11. ASSUME ~raced PROVE (ListOrder /\ FreshOrder /\ UidOrder /\ TableOrder)'
      <3>0. ListOrder /\ FreshOrder /\ UidOrder /\ TableOrder
        BY <2>11 DEF Orderly
      <3>1. \A c : Going(c) => Going(c)'
        BY <1>1, <2>4 DEF Going, Holders
      <3>2. ListOrder'
        BY <1>1, <1>3, <2>5, <3>0, <3>1 DEF ListOrder
      <3>3. fresh \in Listed /\ client[fresh].used /\ client[fresh].fd \in Fd
        BY <1>0, <1>2, <3>0 DEF FreshOrder
      <3>4. FreshOrder'
        BY <1>2, <1>3, <2>1, <2>3, <2>5, <3>3 DEF FreshOrder
      <3>5. Named = Listed \ {fresh} /\ Named' = Listed
        BY <1>0, <1>3, <2>3 DEF Named
      <3>6. UidOrder'
        <4>1. \A c \in Listed \ {fresh} : /\ client'[c].uid = client[c].uid
                                          /\ client[c].uid \in 1..connects
                                          /\ client[c].uid < connects
          BY <1>0, <1>3, <2>5, <3>0, <3>5 DEF UidOrder
        <4>2. \A c \in Listed : client'[c].uid \in 1..connects
          BY <1>2, <2>5, <4>1
        <4>3. \A c, d \in Listed : client'[c].uid = client'[d].uid => c = d
          BY <1>2, <2>5, <3>0, <3>5, <4>1 DEF UidOrder
        <4> QED BY <1>1, <2>3, <3>5, <4>2, <4>3 DEF UidOrder
      <3>7. TableOrder'
        <4>1. \A k \in 1..Len(interfaces) : interfaces'[k] # fresh
          BY <1>2, <2>2, <3>0, <3>5 DEF TableOrder, Members
        <4>2. Distinct(interfaces')
          BY <1>0, <2>2, <3>0, <4>1 DEF TableOrder, Distinct
        <4>3. Members(interfaces') = Members(interfaces) \cup {fresh}
          BY <1>0, <2>2 DEF Members
        <4>4. Members(interfaces') = Listed \cup {USB}
          BY <3>0, <3>3, <3>5, <4>3 DEF TableOrder
        <4>5. Len(interfaces') >= 1 /\ interfaces'[1] = USB
          BY <1>0, <2>2, <3>0 DEF TableOrder
        <4> QED BY <3>5, <4>2, <4>4, <4>5 DEF TableOrder
      <3> QED BY <3>2, <3>4, <3>6, <3>7
    <2>12. Orderly'
      BY <2>1, <2>11 DEF Orderly
    <2>13. Expected'
      BY <1>1, <1>3, <2>1, <2>4, <2>5, ExpectedFrame
    <2> QED BY <1>1, <2>1, <2>10, <2>12, <2>13 DEF CrashExplained
  <1>5. CASE ~(Len(interfaces) < INTERFACES_MAX)
    <2>1. /\ client' = Freed(fresh) /\ fresh' = NoOne /\ raced' = TRUE
          /\ Goto("accept", "accept") /\ interfaces' = interfaces
      BY <1>5 DEF Add
    <2>2. Pcs' /\ pc'["accept"] = "accept" /\ \A u \in Thread \ {"accept"} : pc'[u] = pc[u]
      BY <1>0, <2>1, Moves, Points DEF AcceptPc
    <2>3. pc'["poll"] = pc["poll"] /\ pc'["main"] = pc["main"] /\ pc'["dog"] = pc["dog"]
      BY <2>2, Points
    <2>4. Types'
      <3>1. ListTypes'
        BY <1>0, <1>1, <1>2, <2>1 DEF ListTypes, Freed, BadFd
      <3>2. NewTypes'
        BY <1>0, <1>1, <2>1 DEF NewTypes
      <3>3. HistoryTypes'
        BY <1>1, <2>1 DEF Control, Types, HistoryTypes
      <3>4. ProcTypes'
        BY <1>5 DEF Add, Control, Types, ProcTypes
      <3> QED BY <1>1, <3>1, <3>2, <3>3, <3>4, Frames DEF Types, Control
    <2>5. Flow'
      BY <1>0, <1>1, <2>2, <2>3 DEF Flow
    <2>6. Held'
      BY <1>1, <2>3 DEF Control, Held, Holders
    <2>7. InConnect' /\ Wakes'
      BY <1>0, <1>1, <2>1, <2>2 DEF InConnect, Wakes, Connecting
    <2>8. Control'
      BY <2>2, <2>4, <2>5, <2>6, <2>7 DEF Control
    <2> QED BY <2>1, <2>8 DEF Orderly, Expected, CrashExplained, CrashCause
  <1> QED BY <1>4, <1>5

(* client_connect wakes the poll thread and is done. *)
LEMMA WakeStepInv ==
  ASSUME Control, Orderly, Expected, proc = "up", Wake
  PROVE  Control' /\ Orderly' /\ Expected' /\ CrashExplained'
  <1> USE DEF listVars, locks, stopVars, flags, pollVars, history
  <1>0. /\ Pcs /\ Flow /\ KernelTypes /\ NewTypes /\ InConnect /\ Wakes
        /\ pc["accept"] = "wake" /\ ListTypes
    BY DEF Control, Types, Wake
  <1>1. /\ UNCHANGED <<listVars, locks, stopVars, flags, pollVars, history, sock, node,
                       connects, proc>>
        /\ pipe' = pipe + 1 /\ fresh' = NoOne /\ Goto("accept", "accept")
    BY DEF Wake
  <1>2. Pcs' /\ pc'["accept"] = "accept" /\ \A u \in Thread \ {"accept"} : pc'[u] = pc[u]
    BY <1>0, <1>1, Moves, Points DEF AcceptPc
  <1>3. pc'["poll"] = pc["poll"] /\ pc'["main"] = pc["main"] /\ pc'["dog"] = pc["dog"]
    BY <1>2, Points
  <1>4. Types'
    <2>1. KernelTypes'
      BY <1>0, <1>1 DEF KernelTypes
    <2>2. NewTypes'
      BY <1>0, <1>1 DEF NewTypes
    <2> QED BY <1>1, <2>1, <2>2, Frames DEF Types, Control
  <1>5. Flow'
    BY <1>0, <1>1, <1>2, <1>3 DEF Flow
  <1>6. Held'
    BY <1>1, <1>3 DEF Control, Held, Holders
  <1>7. InConnect' /\ Wakes'
    BY <1>0, <1>1, <1>2 DEF InConnect, Wakes, Connecting, KernelTypes, NewTypes
  <1>8. Control'
    BY <1>2, <1>4, <1>5, <1>6, <1>7 DEF Control
  <1>9. Listed' = Listed /\ InHand' = InHand
    BY <1>1 DEF Listed, InHand
  <1>10. ASSUME ~raced PROVE (ListOrder /\ FreshOrder /\ UidOrder /\ TableOrder)'
    <2>0. ListOrder /\ UidOrder /\ TableOrder
      BY <1>10 DEF Orderly
    <2>1. \A c : Going(c) => Going(c)'
      BY <1>1, <1>3 DEF Going, Holders
    <2>2. ListOrder'
      BY <1>1, <1>9, <2>0, <2>1 DEF ListOrder
    <2>3. FreshOrder'
      BY <1>1 DEF FreshOrder
    <2>4. Named' = Listed /\ Named = Listed
      BY <1>0, <1>2, <1>9 DEF Named
    <2>5. UidOrder'
      BY <1>1, <1>2, <2>0, <2>4 DEF UidOrder
    <2>6. TableOrder'
      BY <1>1, <2>0, <2>4 DEF TableOrder, Distinct, Members
    <2> QED BY <2>2, <2>3, <2>5, <2>6
  <1>11. Orderly'
    BY <1>1, <1>10 DEF Orderly
  <1>12. Expected'
    BY <1>1, <1>3, <1>9, ExpectedFrame
  <1> QED BY <1>1, <1>8, <1>11, <1>12 DEF CrashExplained

-----------------------------------------------------------------------------
(* client_remove closes the file descriptor of its client, and of no other. *)
LEMMA CloseStepInv ==
  ASSUME Control, Orderly, Expected, proc = "up", NEW t \in Holders, Close(t)
  PROVE  Control' /\ Orderly' /\ Expected' /\ CrashExplained'
  <1> USE DEF listVars, locks, stopVars, flags, pollVars, newVars, history
  <1> DEFINE c == clients[node[t]]
             f == client[c].fd
  <1>0. /\ Pcs /\ Flow /\ ListTypes /\ KernelTypes /\ InConnect /\ t \in Thread
        /\ pc[t] = "close" /\ pipe \in Nat /\ fresh \in Client \cup {NoOne}
    BY DEF Control, Types, KernelTypes, NewTypes, Close, Holders, Thread
  <1>1. UNCHANGED <<listVars, locks, stopVars, flags, pollVars, newVars, history, pipe,
                    node, proc>>
    BY DEF Close
  <1>2. sock' = sock \/ sock' = [sock EXCEPT ![f] = "closed"]
    BY DEF Close
  <1>3. "unlist" \in PcOf[t]
    BY Points DEF Holders, PollPc, DogPc
  <1>4. Pcs' /\ pc'[t] = "unlist" /\ \A u \in Thread \ {t} : pc'[u] = pc[u]
    BY <1>0, <1>3, Moves DEF Close
  <1>5. pc'["accept"] = pc["accept"] /\ pc'["main"] = pc["main"]
    BY <1>4, Points DEF Holders
  <1>6. \A u \in Holders \ {t} : pc'[u] = pc[u] /\ pc[u] \notin Inside
    BY <1>0, <1>4, OneInside, Points DEF Holders, Inside
  <1>7. node[t] \in 1..Len(clients) /\ c \in Listed /\ c \in Client
    BY <1>0 DEF Control, Held, Inside, Listed, ListTypes
  <1>8. Types'
    <2>1. KernelTypes'
      BY <1>0, <1>1, <1>2 DEF KernelTypes, Socket
    <2> QED BY <1>1, <2>1, Frames DEF Types, Control
  <1>9. Flow'
    <2>1. CASE t = "poll"
      BY <1>0, <1>1, <1>4, <1>5, <2>1 DEF Flow
    <2>2. CASE t = "dog"
      <3>1. pc'["poll"] = pc["poll"]
        BY <1>4, <2>2, Points
      <3> QED BY <1>0, <1>1, <1>5, <3>1 DEF Flow
    <2> QED BY <2>1, <2>2 DEF Holders
  <1>10. Calm
    <2>1. \A u \in Holders : pc'[u] \in Inside => pc[u] \in Inside
      BY <1>0, <1>6 DEF Inside
    <2> QED BY <1>0, <1>1, <1>5, <2>1 DEF Calm
  <1>11. Control'
    BY <1>4, <1>8, <1>9, <1>10, CalmControl
  <1>12. Listed' = Listed /\ Named' = Named /\ InHand' = InHand
    BY <1>1, <1>5 DEF Listed, Named, InHand
  <1> HIDE DEF f
  <1>13. ASSUME ~raced PROVE (ListOrder /\ FreshOrder /\ UidOrder /\ TableOrder)'
    <2>0. ListOrder /\ FreshOrder /\ UidOrder /\ TableOrder
      BY <1>13 DEF Orderly
    <2>1. \A d : ~Going(d)
      BY <1>0, <1>6 DEF Going, Inside
    <2>2. f \in Fd /\ \A d \in Listed : client[d].fd = f => d = c
      BY <1>7, <2>0 DEF ListOrder, f
    <2>3. \A d : d = c => Going(d)'
      BY <1>1, <1>4 DEF Going
    <2>4. \A g \in Fd : g # f => (sock'[g] = "closed" => sock[g] = "closed")
      BY <1>0, <1>2, <2>2 DEF KernelTypes
    <2>5. ListOrder'
      <3>1. ASSUME NEW d \in Listed, sock'[client[d].fd] = "closed" PROVE Going(d)'
        <4>1. client[d].fd \in Fd /\ sock[client[d].fd] # "closed"
          BY <2>0, <2>1 DEF ListOrder
        <4>2. client[d].fd = f
          BY <2>4, <3>1, <4>1
        <4> QED BY <2>2, <2>3, <4>2
      <3> QED BY <1>1, <1>12, <2>0, <3>1 DEF ListOrder
    <2>6. FreshOrder'
      <3> SUFFICES ASSUME fresh # NoOne
                   PROVE  /\ client[fresh].used /\ client[fresh].fd \in Fd
                          /\ pc["accept"] = "push" =>
                               /\ fresh \notin Listed /\ sock'[client[fresh].fd] # "closed"
                               /\ \A d \in Listed : client[d].fd = client[fresh].fd => Going(d)'
                          /\ pc["accept"] \in {"add", "wake"} => fresh \in Listed
        BY <1>1, <1>5, <1>12 DEF FreshOrder
      <3>1. pc["accept"] = "push" => \A d \in Listed : client[d].fd # client[fresh].fd
        BY <2>0, <2>1 DEF FreshOrder
      <3>2. pc["accept"] = "push" => client[fresh].fd # f
        BY <1>7, <3>1 DEF f
      <3>3. pc["accept"] = "push" => sock'[client[fresh].fd] # "closed"
        BY <2>0, <2>4, <3>2 DEF FreshOrder
      <3> QED BY <2>0, <3>1, <3>3 DEF FreshOrder
    <2>7. UidOrder'
      BY <1>1, <1>5, <1>12, <2>0 DEF UidOrder
    <2>8. TableOrder'
      BY <1>1, <1>12, <2>0 DEF TableOrder, Distinct, Members
    <2> QED BY <2>5, <2>6, <2>7, <2>8
  <1>14. Orderly'
    BY <1>1, <1>13 DEF Orderly
  <1>15. pc'["poll"] \in Inside => pc["poll"] \in Inside
    BY <1>10 DEF Calm, Holders
  <1>16. Expected'
    BY <1>1, <1>12, <1>15, ExpectedFrame
  <1> QED BY <1>1, <1>11, <1>14, <1>16 DEF CrashExplained

(* The rest of client_remove: unless it takes a client out of client_connect's hands,
   its uid takes the right interface from the table; the poll thread removes only
   the client in hand, of which no event is left. *)
LEMMA UnlistStepInv ==
  ASSUME Control, Orderly, Expected, proc = "up", NEW t \in Holders, Unlist(t)
  PROVE  Control' /\ Orderly' /\ Expected' /\ CrashExplained'
  <1> USE DEF kernel, stopVars, flags, newVars
  <1> DEFINE n == node[t]
             c == clients[n]
             l == IF t = "dog" THEN "start" ELSE "next"
  <1>0. /\ Pcs /\ Flow /\ ListTypes /\ InConnect /\ Wakes /\ t \in Thread /\ PollTypes
        /\ pc[t] = "unlist" /\ fresh \in Client \cup {NoOne} /\ ServerTypeOK /\ LockTypes
        /\ clients \in Seq(Client) /\ Len(clients) \in Nat /\ CLIENTS_MAX \in Nat
        /\ node \in [Thread -> 0..CLIENTS_MAX] /\ HistoryTypes
        /\ INTERFACES_MAX \in Nat /\ Len(interfaces) \in Nat /\ Len(interfaces) <= INTERFACES_MAX
    BY ControlTypes, ServerAssumption
       DEF Control, Types, ListTypes, NewTypes, NodeTypes, Unlist, Holders, Thread
  <1>1. n \in 1..Len(clients) /\ c \in Listed /\ c \in Client
    BY <1>0 DEF Control, Held, Inside, Listed, ListTypes
  <1>2. CASE Sweeps(c) /\ Crash
    <2>1. CrashCause
      BY <1>0, <1>2 DEF CrashCause, Holders
    <2>2. Control' /\ Steady /\ Undisturbed /\ CrashExplained'
      BY <1>2, <2>1, CrashStep
    <2> QED BY <2>2, SteadyOrder, UndisturbedExpected
  <1>3. CASE ~(Sweeps(c) /\ Crash)
    <2>1. /\ clients' = Without(clients, n) /\ client' = Freed(c)
          /\ interfaces' = interface_remove(client[c].uid)
          /\ node' = [node EXCEPT ![t] = 0] /\ clients_lock' = NoOne /\ Goto(t, l)
          /\ UNCHANGED <<kernel, stopVars, flags, fds, todo, again, newVars, zejf_lock>>
      BY <1>3 DEF Unlist, Risking
    <2>2. /\ raced' = (raced \/ c = fresh) /\ reaped' = (reaped \/ t = "dog")
          /\ stale' = (stale /\ t # "poll")
          /\ proc' = IF client[c].used THEN proc ELSE "crashed"
      BY <1>3 DEF Unlist, Risking
    <2>3. raced' \in BOOLEAN /\ reaped' \in BOOLEAN /\ stale' \in BOOLEAN
      BY <2>2, Zenon
    <2>4. (~raced' => ~raced /\ c # fresh) /\ (~reaped' => ~reaped /\ t = "poll")
      <3>1. (raced \/ c = fresh => raced') /\ (reaped \/ t = "dog" => reaped')
        BY <2>2, Zenon
      <3> QED BY <3>1 DEF Holders
    <2>5. (raced => raced') /\ (reaped => reaped')
      BY <2>2, Zenon
    <2>6. l \in PcOf[t] /\ l \notin Inside
      BY Points DEF Holders, PollPc, DogPc, Inside
    <2> HIDE DEF l
    <2>7. Pcs' /\ pc'[t] = l /\ \A u \in Thread \ {t} : pc'[u] = pc[u]
      BY <1>0, <2>1, <2>6, Moves
    <2>8. pc'["accept"] = pc["accept"] /\ pc'["main"] = pc["main"]
      BY <2>7, Points DEF Holders
    <2>9. \A u \in Holders \ {t} : pc'[u] = pc[u] /\ pc[u] \notin Inside
      BY <1>0, <2>7, OneInside, Points DEF Holders, Inside
    <2>10. /\ Without(clients, n) \in Seq(Client) /\ Len(Without(clients, n)) = Len(clients) - 1
           /\ Distinct(clients) => /\ Distinct(Without(clients, n))
                                   /\ Members(Without(clients, n)) = Members(clients) \ {c}
      <3>1. PICK k \in 1..Len(clients) : k = n
        BY <1>1
      <3>2. clients \in Seq(Client)
        BY <1>0 DEF ListTypes
      <3>3. /\ Without(clients, k) \in Seq(Client)
            /\ Len(Without(clients, k)) = Len(clients) - 1
            /\ Distinct(clients) => /\ Distinct(Without(clients, k))
                                    /\ Members(Without(clients, k))
                                       = Members(clients) \ {clients[k]}
        BY <3>2, WithoutOne
      <3> QED BY <3>1, <3>3
    <2>11. \A d \in Client \ {c} : client'[d] = client[d]
      BY <1>0, <2>1 DEF ListTypes, Freed
    <2>12. Types'
      <3>1. client' \in [Client -> [used : BOOLEAN, fd : Fd \cup {BadFd},
                                    uid : 0..MaxConnects, late : BOOLEAN]]
        BY <1>0, <1>1, <2>1 DEF ListTypes, Freed, BadFd
      <3>2. clients' \in Seq(Client) /\ Len(clients') <= CLIENTS_MAX
        BY <1>0, <2>1, <2>10 DEF ListTypes
      <3>3. interfaces' \in Seq(Client \cup {USB}) /\ Len(interfaces') <= INTERFACES_MAX
        <4>1. /\ interfaces' \in Seq(Client \cup {USB})
              /\ Len(interfaces') <= Len(interfaces)
          BY <1>0, <2>1, RemoveType
        <4>2. Len(interfaces') \in Nat
          BY <4>1
        <4> QED BY <1>0, <4>1, <4>2
      <3>4. ListTypes'
        BY <3>1, <3>2, <3>3 DEF ListTypes
      <3>5. LockTypes'
        BY <1>0, <2>1 DEF LockTypes
      <3>6. NodeTypes'
        BY <1>0, <2>1 DEF NodeTypes
      <3>7. HistoryTypes'
        BY <2>3 DEF HistoryTypes
      <3>8. PollTypes'
        BY <1>0, <2>1, <2>3 DEF PollTypes
      <3>9. ProcTypes'
        BY <2>2 DEF Control, Types, ProcTypes
      <3> QED BY <2>1, <3>4, <3>5, <3>6, <3>7, <3>8, <3>9, Frames DEF Types, Control
    <2>13. Flow'
      <3>1. CASE t = "poll"
        <4>1. pc'["poll"] = "next"
          BY <2>7, <3>1 DEF l
        <4> QED BY <1>0, <2>1, <2>8, <3>1, <4>1 DEF Flow
      <3>2. CASE t = "dog"
        <4>1. pc'["poll"] = pc["poll"]
          BY <2>7, <3>2, Points
        <4> QED BY <1>0, <2>1, <2>8, <4>1 DEF Flow
      <3> QED BY <3>1, <3>2 DEF Holders
    <2>14. \A u \in Holders : pc'[u] \notin Inside
      BY <2>6, <2>7, <2>9
    <2>15. Held' /\ InConnect' /\ Wakes'
      <3>1. Held'
        BY <2>14 DEF Held
      <3>2. InConnect' /\ Wakes'
        BY <1>0, <2>1, <2>8 DEF InConnect, Wakes
      <3> QED BY <3>1, <3>2
    <2>16. Control'
      BY <2>7, <2>12, <2>13, <2>15 DEF Control
    <2>17. \A d : Going(d) => d = c
      <3>1. ASSUME NEW d, Going(d) PROVE d = c
        <4>1. PICK u \in Holders : pc[u] = "unlist" /\ clients[node[u]] = d
          BY <3>1 DEF Going
        <4>2. u = t
          BY <2>9, <4>1 DEF Inside
        <4> QED BY <4>1, <4>2
      <3> QED BY <3>1
    <2>18. ASSUME ~raced' PROVE Listed' = Listed \ {c} /\ Distinct(clients')
      <3>1. Distinct(clients)
        BY <2>4, <2>18 DEF Orderly, ListOrder
      <3>2. Members(clients') = Members(clients) \ {c} /\ Distinct(clients')
        BY <2>1, <2>10, <3>1
      <3> QED BY <3>2 DEF Members, Listed
    <2>19. ASSUME ~raced' PROVE (ListOrder /\ FreshOrder /\ UidOrder /\ TableOrder)'
      <3>0. /\ ListOrder /\ FreshOrder /\ UidOrder /\ TableOrder /\ c # fresh
            /\ Listed' = Listed \ {c} /\ Distinct(clients')
            /\ Listed \subseteq Client /\ Named \subseteq Client /\ Named \subseteq Listed
        BY <1>0, <2>4, <2>18, <2>19, ListedClients DEF Orderly
      <3>1. \A d \in Listed \ {c} : /\ client'[d] = client[d] /\ client[d].fd \in Fd
                                    /\ sock[client[d].fd] # "closed"
        BY <2>11, <2>17, <3>0 DEF ListOrder
      <3>2. ListOrder'
        BY <2>1, <3>0, <3>1 DEF ListOrder
      <3>3. FreshOrder'
        <4> SUFFICES ASSUME fresh # NoOne
                     PROVE  /\ client'[fresh].used /\ client'[fresh].fd \in Fd
                            /\ pc["accept"] = "push" =>
                                 /\ fresh \notin Listed' /\ sock[client'[fresh].fd] # "closed"
                                 /\ \A d \in Listed' : client'[d].fd # client'[fresh].fd
                            /\ pc["accept"] \in {"add", "wake"} => fresh \in Listed'
          BY <2>1, <2>8 DEF FreshOrder
        <4>1. client'[fresh] = client[fresh]
          BY <1>0, <2>11, <3>0
        <4>2. pc["accept"] = "push" =>
                \A d \in Listed \ {c} : client[d].fd # client[fresh].fd
          BY <2>17, <3>0 DEF FreshOrder
        <4> QED BY <3>0, <3>1, <4>1, <4>2 DEF FreshOrder
      <3>4. Named' = Named \ {c} /\ c \in Named
        BY <1>1, <2>1, <2>8, <3>0 DEF Named
      <3>5. UidOrder'
        BY <2>1, <2>8, <3>0, <3>1, <3>4 DEF UidOrder
      <3>6. /\ Len(interfaces') >= 1 /\ interfaces'[1] = USB /\ Distinct(interfaces')
            /\ Members(interfaces') = (Named \ {c}) \cup {USB}
        BY <1>0, <2>1, <3>0, <3>4, RemoveNamed
      <3>7. TableOrder'
        BY <3>4, <3>6 DEF TableOrder
      <3> QED BY <3>2, <3>3, <3>5, <3>7
    <2>20. Orderly'
      BY <2>19 DEF Orderly
    <2>21. Expected'
      <3> SUFFICES ASSUME ~raced', ~reaped' PROVE OfListed(fds)' /\ OfListed(TodoFds)'
        BY <2>14 DEF Expected, Holders
      <3>1. t = "poll" /\ ~raced /\ ~reaped /\ Listed' = Listed \ {c} /\ Listed \subseteq Client
        BY <1>0, <2>4, <2>18, ListedClients
      <3>2. fds' = << >> /\ todo' = todo
        BY <1>0, <2>1, <3>1 DEF Flow
      <3>3. OfListed(fds)'
        BY <3>2 DEF OfListed, Distinct
      <3>4. /\ OfListed(TodoFds) /\ \A i \in 1..Len(todo) : todo[i][1] # client[c].fd
        BY <1>0, <3>1 DEF Expected, Inside, InHand
      <3>5. TodoFds' = TodoFds /\ Len(TodoFds) = Len(todo)
            /\ \A i \in 1..Len(todo) : TodoFds[i] = todo[i][1]
        BY <1>0, <3>2 DEF TodoFds, PollTypes
      <3>6. ASSUME NEW i \in 1..Len(TodoFds)
            PROVE  \E d \in Listed' : client'[d].fd = TodoFds[i]
        <4>1. PICK d \in Listed : client[d].fd = TodoFds[i]
          BY <3>4 DEF OfListed
        <4>2. d # c
          BY <3>4, <3>5, <4>1
        <4> QED BY <2>11, <3>1, <4>1, <4>2
      <3>7. OfListed(TodoFds)'
        BY <3>4, <3>5, <3>6 DEF OfListed
      <3> QED BY <3>3, <3>7
    <2>22. CrashExplained'
      <3> SUFFICES ASSUME ~raced' PROVE proc' # "crashed"
        BY DEF CrashExplained, CrashCause
      <3>1. client[c].used
        BY <1>1, <2>4 DEF Orderly, ListOrder
      <3> QED BY <2>2, <3>1
    <2> QED BY <2>16, <2>20, <2>21, <2>22
  <1> QED BY <1>2, <1>3

-----------------------------------------------------------------------------
(* The server starts with no clients. *)
LEMMA ServerInitInv == ServerInit => ServerInv
  <1> SUFFICES ASSUME ServerInit PROVE ServerInv
    OBVIOUS
  <1>0. clients = << >> /\ Len(clients) = 0 /\ interfaces = <<USB>> /\ Len(interfaces) = 1
        /\ fds = << >> /\ todo = << >> /\ fresh = NoOne
    BY DEF ServerInit
  <1>1. Types
    <2>1. ListTypes
      BY <1>0, ServerAssumption DEF ServerInit, ListTypes, BadFd
    <2>2. KernelTypes /\ LockTypes /\ NewTypes /\ NodeTypes /\ ProcTypes
      BY ServerAssumption DEF ServerInit, KernelTypes, LockTypes, NewTypes, NodeTypes,
         ProcTypes, Socket
    <2>3. StopTypes /\ FlagTypes /\ HistoryTypes
      BY DEF ServerInit, StopTypes, FlagTypes, HistoryTypes
    <2>4. PollTypes
      <3>1. fds \in Seq(Fd \cup {BadFd}) /\ todo \in Seq(Event)
        BY <1>0
      <3>2. again \in BOOLEAN /\ stale \in BOOLEAN
        BY DEF ServerInit
      <3> QED BY <3>1, <3>2 DEF PollTypes
    <2> QED BY <2>1, <2>2, <2>3, <2>4 DEF Types
  <1>2. /\ DOMAIN pc = Thread /\ pc["accept"] = "off" /\ pc["poll"] = "off"
        /\ pc["dog"] = "start" /\ pc["serial"] = "sleep" /\ pc["main"] = "run"
    BY Points DEF ServerInit
  <1>3. Pcs
    BY <1>2, Points DEF Pcs, Thread, AcceptPc, PollPc, DogPc, SerialPc, MainPc
  <1>4. Flow /\ Held /\ InConnect /\ Wakes
    BY <1>0, <1>2 DEF ServerInit, Flow, Held, Holders, Inside, InConnect, Wakes, Connecting
  <1>5. Listed = {} /\ Named = {}
    BY <1>0, <1>2 DEF Listed, Named
  <1>6. ListOrder /\ FreshOrder /\ UidOrder
    BY <1>0, <1>5 DEF ListOrder, FreshOrder, UidOrder, Distinct
  <1>7. TableOrder
    BY <1>0, <1>5 DEF TableOrder, Distinct, Members
  <1>8. Expected
    BY <1>0, <1>2 DEF Expected, OfListed, TodoFds, Distinct, Inside
  <1>9. CrashExplained
    BY DEF ServerInit, CrashExplained
  <1> QED BY <1>1, <1>3, <1>4, <1>6, <1>7, <1>8, <1>9 DEF ServerInv, Control, Orderly

(* A harmless step keeps the invariant. *)
LEMMA HarmlessInv ==
  ASSUME ServerInv, Control', Harmless
  PROVE  ServerInv'
  <1>1. Orderly' /\ Expected'
    BY SteadyOrder, UndisturbedExpected DEF ServerInv, Harmless
  <1> QED BY <1>1 DEF ServerInv, Harmless

(* Every step keeps the invariant. *)
LEMMA ServerNextInv ==
  ASSUME ServerInv, [ServerNext]_serverVars
  PROVE  ServerInv'
  <1>0. Control /\ Orderly /\ Expected /\ CrashExplained
    BY DEF ServerInv
  <1>1. CASE UNCHANGED serverVars
    <2> USE <1>1 DEF serverVars
    <2>1. Types'
      BY <1>0, Frames DEF Control, Types, listVars, kernel, locks, stopVars, flags, pollVars,
         newVars, history
    <2>2. Pcs' /\ Flow'
      BY <1>0 DEF Control, Pcs, Flow
    <2>3. Calm
      BY <1>0 DEF Calm, Control, Types, KernelTypes
    <2>4. Control'
      BY <1>0, <2>1, <2>2, <2>3, CalmControl
    <2>5. CrashExplained'
      BY <1>0 DEF CrashExplained, CrashCause, PeerGone, Sweeps, UidAt
    <2>6. Harmless
      BY <2>5 DEF Harmless, Steady, Undisturbed
    <2> QED BY <2>4, <2>6, HarmlessInv
  <1>2. CASE proc = "up" /\ (Bind \/ AcceptFails \/ AcceptEnds \/ Start \/ Sleep
             \/ Stop \/ JoinSerial \/ JoinDog \/ JoinAccept \/ JoinPoll
             \/ SerialLocks \/ SerialSends)
    BY <1>0, <1>2, AcceptIdle, MainIdle, SerialIdle, DogIdle, HarmlessInv
  <1>3. CASE proc = "up" /\ \E t \in Thread : Die(t)
    BY <1>0, <1>3, DieIdle, HarmlessInv
  <1>4. CASE proc = "up" /\ ((\E f \in Fd : PeerSends(f) \/ PeerCloses(f)) \/ TimePasses)
    BY <1>0, <1>4, PeerIdle, TimeIdle, HarmlessInv
  <1>5. CASE proc = "up" /\ (Drain \/ NoMore \/ Lock \/ Read \/ Handle \/ NoLine \/ Scan)
    BY <1>0, <1>5, PollIdle, ReadIdle, HandleIdle, ScanIdle, HarmlessInv
  <1>6. CASE proc = "up" /\ (Snapshot \/ Poll \/ Take)
    <2>1. Control' /\ Steady /\ Expected' /\ CrashExplained'
      BY <1>0, <1>6, SnapshotStep, PollStepInv, TakeStep
    <2> QED BY <1>0, <2>1, SteadyOrder DEF ServerInv
  <1>7. CASE proc = "up" /\ (Accept \/ Push \/ Add \/ Wake)
    BY <1>0, <1>7, AcceptStepInv, PushStepInv, AddStepInv, WakeStepInv DEF ServerInv
  <1>8. CASE proc = "up" /\ \E t \in {"poll", "dog"} : Close(t) \/ Unlist(t)
    BY <1>0, <1>8, CloseStepInv, UnlistStepInv DEF ServerInv, Holders
  <1> QED BY <1>1, <1>2, <1>3, <1>4, <1>5, <1>6, <1>7, <1>8 DEF ServerNext

(* A step that leaves the sleeping poll thread, the pipe and the client in
   client_connect alone, and lists nobody. *)
LEMMA StaysAwake ==
  ASSUME NoLostWakeup,
         ~raced' /\ pc'["poll"] = "poll" =>
           /\ ~raced /\ pc["poll"] = "poll" /\ UNCHANGED <<fds, fresh>>
           /\ pipe > 0 => pipe' > 0
           /\ \A c \in Listed' : c \in Listed /\ client'[c].fd = client[c].fd
  PROVE  NoLostWakeup'
  BY DEF NoLostWakeup

(* No step puts the poll thread to sleep on a client it does not know. *)
LEMMA WakeupStep ==
  ASSUME ServerInv, ServerInv', NoLostWakeup, ServerNext
  PROVE  NoLostWakeup'
  <1> USE DEF listVars, kernel, locks, stopVars, flags, pollVars, newVars, history
  <1>0. /\ Control /\ Orderly /\ Pcs /\ Flow /\ ListTypes /\ KernelTypes /\ InConnect
        /\ NewTypes /\ Len(clients) \in Nat /\ Listed \subseteq Client
    BY ListedClients DEF ServerInv, Control, Types, ListTypes
  <1> SUFFICES ASSUME ~raced', pc'["poll"] = "poll" PROVE NoLostWakeup'
    BY DEF NoLostWakeup
  <1>1. CASE Snapshot
    <2>1. /\ fds' = [k \in 1..Len(clients) |-> client[clients[Visited(k)]].fd]
          /\ UNCHANGED <<clients, client>>
      BY <1>1 DEF Snapshot
    <2>2. Listed' = Listed /\ Len(fds') = Len(clients)
      BY <1>0, <2>1 DEF Listed
    <2>3. ASSUME NEW c \in Listed PROVE \E k \in 1..Len(fds') : fds'[k] = client'[c].fd
      <3>1. PICK n \in 1..Len(clients) : clients[n] = c
        BY DEF Listed
      <3>2. PICK k \in 1..Len(clients) : Visited(k) = n
        BY <1>0, VisitsAll
      <3> QED BY <2>1, <2>2, <3>1, <3>2
    <2> QED BY <2>2, <2>3 DEF NoLostWakeup
  <1>2. CASE Accept
    <2>1. PICK c \in Client : /\ ~client[c].used
                              /\ \A d \in Client \ {c} : client'[d] = client[d]
      BY <1>0, <1>2 DEF Accept, ListTypes
    <2>2. UNCHANGED <<clients, fds, pipe, raced>> /\ pc'["poll"] = pc["poll"] /\ fresh = NoOne
      BY <1>0, <1>2, Moves, Points DEF Accept, InConnect, Connecting, AcceptPc
    <2>3. Listed' = Listed /\ \A d \in Listed : client'[d].fd = client[d].fd /\ d # fresh
      BY <1>0, <2>1, <2>2, ServerAssumption DEF Orderly, ListOrder, Listed
    <2> QED BY <2>2, <2>3 DEF NoLostWakeup
  <1>3. CASE Push
    <2>1. UNCHANGED <<fds, pipe, raced>> /\ pc'["poll"] = pc["poll"]
      <3>1. PICK l \in {"add", "accept"} : Goto("accept", l)
        BY <1>3 DEF Push
      <3> QED BY <1>0, <1>3, <3>1, Moves, Points DEF Push, AcceptPc
    <2>2. fresh \in Client /\ fresh \notin Listed
      BY <1>0, <1>3, <2>1 DEF Push, Orderly, FreshOrder, InConnect, Connecting, NewTypes
    <2>3. CASE clients' = Append(clients, fresh) /\ UNCHANGED <<client, fresh>>
      <3>1. \A c \in Listed' : c \in Listed \/ c = fresh
        BY <1>0, <2>2, <2>3 DEF Listed, ListTypes
      <3> QED BY <2>1, <2>3, <3>1 DEF NoLostWakeup
    <2>4. CASE clients' = clients /\ client' = Freed(fresh)
      <3>1. Listed' = Listed
        BY <2>4 DEF Listed
      <3>2. \A c \in Listed : client'[c] = client[c] /\ c # fresh
        BY <1>0, <2>2, <2>4 DEF Freed, ListTypes
      <3> QED BY <2>1, <3>1, <3>2 DEF NoLostWakeup
    <2> QED BY <1>3, <2>3, <2>4 DEF Push
  <1>4. CASE Wake
    <2>1. pipe' > 0
      BY <1>0, <1>4 DEF Wake, KernelTypes
    <2> QED BY <2>1 DEF NoLostWakeup
  <1>5. CASE Add
    <2>1. /\ UNCHANGED <<clients, fds, pipe>>
          /\ \E l \in {"wake", "accept"} : Goto("accept", l)
      BY <1>5 DEF Add
    <2>2. PICK l \in {"wake", "accept"} : Goto("accept", l)
      BY <2>1
    <2>3. pc'["poll"] = pc["poll"]
      BY <1>0, <2>2, Moves, Points DEF AcceptPc
    <2>4. UNCHANGED <<fresh, raced>> /\ client' = [client EXCEPT ![fresh].uid = connects]
      BY <1>5 DEF Add
    <2>5. Listed' = Listed /\ \A c \in Client : client'[c].fd = client[c].fd
      BY <1>0, <2>1, <2>4 DEF Listed, ListTypes
    <2> QED BY <1>0, <2>1, <2>3, <2>4, <2>5, StaysAwake
  <1>6. CASE \E t \in {"poll", "dog"} : Close(t) \/ Unlist(t)
    <2>1. PICK t \in Holders : Close(t) \/ Unlist(t)
      BY <1>6 DEF Holders
    <2>2. pc' = pc \/ \E l \in {"unlist", "start", "next"} : pc' = [pc EXCEPT ![t] = l]
      BY <2>1 DEF Close, Unlist, Risking, Crash, Goto
    <2>3. pc'["poll"] = pc["poll"] /\ UNCHANGED <<fds, fresh, pipe>>
      <3>1. pc[t] \in {"close", "unlist"}
        BY <2>1 DEF Close, Unlist
      <3>2. UNCHANGED <<fds, fresh, pipe>>
        BY <2>1 DEF Close, Unlist, Risking, Crash
      <3> QED BY <1>0, <2>2, <3>1, <3>2, Points DEF Holders, Pcs
    <2>4. ~raced
      BY <2>1, Zenon DEF Close, Unlist, Risking, Crash
    <2>5. \A c \in Listed' : c \in Listed /\ client'[c].fd = client[c].fd
      <3>1. CASE UNCHANGED <<clients, client>>
        BY <3>1 DEF Listed
      <3>2. CASE clients' = Without(clients, node[t]) /\ client' = Freed(clients[node[t]])
                 /\ pc[t] = "unlist"
        <4> DEFINE n == node[t]
        <4>1. n \in 1..Len(clients)
          BY <1>0, <3>2 DEF Control, Held, Inside
        <4>2. clients \in Seq(Client) /\ Distinct(clients)
          BY <1>0, <2>4 DEF ListTypes, Orderly, ListOrder
        <4> HIDE DEF n
        <4>3. Members(Without(clients, n)) = Members(clients) \ {clients[n]}
          BY <4>1, <4>2, WithoutOne
        <4>4. Listed' = Listed \ {clients[n]}
          BY <3>2, <4>3 DEF Members, Listed, n
        <4>5. \A c \in Client \ {clients[n]} : client'[c] = client[c]
          BY <1>0, <3>2 DEF Freed, ListTypes, n
        <4> QED BY <1>0, <4>4, <4>5
      <3> QED BY <2>1, <3>1, <3>2 DEF Close, Unlist, Risking, Crash
    <2> QED BY <2>3, <2>4, <2>5, StaysAwake
  <1>7. CASE Poll \/ Drain \/ NoMore \/ Take \/ Read \/ Lock \/ Handle \/ NoLine
    <2>1. CASE \E l \in PollPc \ {"poll"} : Goto("poll", l)
      BY <1>0, <2>1, Moves, Points
    <2>2. CASE pc' = pc /\ pc["poll"] # "poll"
      BY <2>2
    <2> QED BY <1>7, <2>1, <2>2 DEF Poll, Drain, NoMore, Take, Read, Lock, Handle, NoLine,
         ReadAgainOrEnd, Risking, Crash, PollPc
  <1>8. CASE \/ Bind \/ AcceptFails \/ AcceptEnds \/ Start \/ Sleep \/ Scan
             \/ SerialLocks \/ SerialSends
             \/ Stop \/ JoinSerial \/ JoinDog \/ JoinAccept \/ JoinPoll
             \/ (\E t \in Thread : Die(t))
             \/ (\E f \in Fd : PeerSends(f) \/ PeerCloses(f)) \/ TimePasses
    <2>1. Harmless
      BY <1>0, <1>8, AcceptIdle, DogIdle, ScanIdle, SerialIdle, MainIdle, DieIdle, PeerIdle,
         TimeIdle DEF ServerNext
    <2>2. pipe' = pipe
      <3>1. CASE Bind \/ AcceptFails \/ AcceptEnds \/ Start \/ Sleep \/ Scan
        BY <3>1 DEF Bind, AcceptFails, AcceptEnds, Start, Sleep, Scan
      <3>2. CASE SerialLocks \/ SerialSends \/ Stop \/ JoinSerial \/ JoinDog
                 \/ JoinAccept \/ JoinPoll
        BY <3>2 DEF SerialLocks, SerialSends, Stop, JoinSerial, JoinDog, JoinAccept,
           JoinPoll, Risking, Crash
      <3>3. CASE (\E t \in Thread : Die(t)) \/ TimePasses
                 \/ \E f \in Fd : PeerSends(f) \/ PeerCloses(f)
        BY <3>3 DEF Die, TimePasses, PeerSends, PeerCloses
      <3> QED BY <1>8, <3>1, <3>2, <3>3
    <2>3. pc["poll"] = "poll"
      <3>1. pc'["poll"] = pc["poll"] \/ pc'["poll"] \in {"snap", "dead"}
        <4>1. CASE Bind
          BY <1>0, <4>1, Points DEF Bind, Goto, Pcs
        <4>2. CASE \E t \in Thread : Die(t)
          <5>1. PICK t \in Thread : Goto(t, "dead")
            BY <4>2 DEF Die
          <5> QED BY <1>0, <5>1, Points DEF Goto, Pcs
        <4>3. CASE AcceptFails \/ AcceptEnds \/ Start \/ Sleep \/ Scan
          BY <1>0, <4>3, Points DEF AcceptFails, AcceptEnds, Start, Sleep, Scan, Goto, Pcs
        <4>4. CASE SerialLocks \/ SerialSends \/ Stop \/ JoinSerial \/ JoinDog
                   \/ JoinAccept \/ JoinPoll
          BY <1>0, <4>4, Points DEF SerialLocks, SerialSends, Stop, JoinSerial, JoinDog, JoinAccept,
             JoinPoll, Risking, Crash, Goto, Pcs
        <4>5. CASE TimePasses \/ \E f \in Fd : PeerSends(f) \/ PeerCloses(f)
          BY <4>5 DEF TimePasses, PeerSends, PeerCloses
        <4> QED BY <1>8, <4>1, <4>2, <4>3, <4>4, <4>5
      <3> QED BY <3>1
    <2>4. Listed' = Listed /\ \A c \in Listed : client'[c].fd = client[c].fd
      BY <1>0, <2>1 DEF Harmless, Steady, Listed
    <2> QED BY <2>1, <2>2, <2>3, <2>4, StaysAwake DEF Harmless, Steady, Undisturbed
  <1> QED BY <1>1, <1>2, <1>3, <1>4, <1>5, <1>6, <1>7, <1>8 DEF ServerNext

(* The invariant gives the properties of the server. *)
LEMMA ServerInvImplies ==
  ASSUME ServerInv
  PROVE  ServerTypeOK /\ OneClientPerFd /\ TableMatchesClients /\ CrashExplained
  <1>0. Control /\ Orderly /\ CrashExplained
    BY DEF ServerInv
  <1>1. ServerTypeOK
    BY <1>0, ControlTypes
  <1>2. OneClientPerFd
    <2> SUFFICES ASSUME ~raced
                 PROVE  /\ \A c, d \in Listed : client[c].fd = client[d].fd => c = d
                        /\ \A c \in Listed :
                             \/ sock[client[c].fd] # "closed"
                             \/ \E t \in {"poll", "dog"} : /\ clients_lock = t
                                  /\ pc[t] = "unlist" /\ clients[node[t]] = c
      BY DEF OneClientPerFd
    <2>1. ListOrder
      BY <1>0 DEF Orderly
    <2>2. \A t \in Holders : pc[t] = "unlist" => clients_lock = t
      BY <1>0 DEF Control, Held, Inside
    <2> QED BY <2>1, <2>2 DEF ListOrder, Going, Holders
  <1>3. TableMatchesClients
    <2> SUFFICES ASSUME ~raced
                 PROVE  /\ interfaces[1] = USB
                        /\ \A i, j \in 1..Len(interfaces) : i # j => interfaces[i] # interfaces[j]
                        /\ {interfaces[i] : i \in 2..Len(interfaces)} = Named
                        /\ \A c \in Listed : client[c].used
      BY DEF TableMatchesClients, Named
    <2>1. ListOrder /\ TableOrder /\ Named \subseteq Client /\ Len(interfaces) \in Nat
      BY <1>0, ListedClients DEF Orderly, Control, Types, ListTypes
    <2>2. USB \notin Named
      BY <2>1, ServerAssumption
    <2>3. ASSUME NEW x \in {interfaces[i] : i \in 2..Len(interfaces)} PROVE x \in Named
      <3>1. PICK i \in 2..Len(interfaces) : x = interfaces[i]
        BY <2>3
      <3>2. x # USB /\ x \in Members(interfaces)
        BY <2>1, <3>1 DEF TableOrder, Distinct, Members
      <3> QED BY <2>1, <3>2 DEF TableOrder
    <2>4. ASSUME NEW x \in Named PROVE x \in {interfaces[i] : i \in 2..Len(interfaces)}
      <3>1. PICK i \in 1..Len(interfaces) : x = interfaces[i]
        BY <2>1, <2>4 DEF TableOrder, Members
      <3>2. i # 1
        BY <2>1, <2>2, <3>1 DEF TableOrder
      <3> QED BY <2>1, <3>1, <3>2
    <2> QED BY <2>1, <2>3, <2>4 DEF ListOrder, TableOrder, Distinct
  <1> QED BY <1>0, <1>1, <1>2, <1>3

(* For any number of clients, descriptors, interfaces and connections the state of
   the server has its type: the lists keep their limits, and the pipe never holds
   more bytes than there were connections. *)
THEOREM ServerTypeSafety == ServerSpec => []ServerTypeOK
  <1>1. ServerInv => ServerTypeOK
    BY ServerInvImplies
  <1> QED BY <1>1, ServerInitInv, ServerNextInv, PTL DEF ServerSpec

(* For any number of clients and descriptors, client_get finds one client by its
   descriptor and client_remove closes that of no other, although the kernel
   reuses a number while its former owner is still listed. *)
THEOREM FdsAreDistinct == ServerSpec => []OneClientPerFd
  <1>1. ServerInv => OneClientPerFd
    BY ServerInvImplies
  <1> QED BY <1>1, ServerInitInv, ServerNextInv, PTL DEF ServerSpec

(* For any limits, the table of interfaces is USB and the listed clients, each once,
   until a client is removed in the hands of client_connect. *)
THEOREM TableIsList == ServerSpec => []TableMatchesClients
  <1>1. ServerInv => TableMatchesClients
    BY ServerInvImplies
  <1> QED BY <1>1, ServerInitInv, ServerNextInv, PTL DEF ServerSpec

(* For any limits, the process crashes only for one of the causes that
   CrashExplained names; in particular no client is freed twice as long as none is
   removed in the hands of client_connect. *)
THEOREM CrashesExplained == ServerSpec => []CrashExplained
  <1>1. ServerInv => CrashExplained
    BY ServerInvImplies
  <1> QED BY <1>1, ServerInitInv, ServerNextInv, PTL DEF ServerSpec

(* For any number of clients and connections the poll thread never sleeps on a
   snapshot without a listed client unless it is about to be woken, although one
   read_dummy may take the bytes of many connections. *)
THEOREM NoWakeupLost == ServerSpec => []NoLostWakeup
  <1>1. ServerInit => NoLostWakeup
    BY DEF ServerInit, NoLostWakeup, Listed
  <1>2. ASSUME ServerInv, ServerInv', NoLostWakeup, [ServerNext]_serverVars
        PROVE  NoLostWakeup'
    <2>1. CASE UNCHANGED serverVars
      BY <1>2, <2>1 DEF serverVars, NoLostWakeup, Listed
    <2> QED BY <1>2, <2>1, WakeupStep
  <1> QED BY <1>1, <1>2, ServerInitInv, ServerNextInv, PTL DEF ServerSpec

=============================================================================
