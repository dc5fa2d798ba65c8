----------------------------- MODULE TcpServer -----------------------------
(***************************************************************************)
(* server.c, interface_manager.c and the shutdown of zejf_meteo.c: the     *)
(* accept thread (server_run), the poll thread (poll_run), the watchdog    *)
(* (watchdog_run), the threads of serial.c and the main thread share the   *)
(* list of clients, the table of interfaces, clients_lock and zejf_lock.   *)
(* The three threads of serial.c are one thread here, "serial": each       *)
(* sleeps, takes zejf_lock, sends to the interfaces and sleeps again.      *)
(*                                                                         *)
(* A Client is the address of a struct.  free leaves a pointer to it in    *)
(* whatever still holds one and overwrites the first fields, fd among      *)
(* them; calloc may return the address again.  A second free of the same   *)
(* address, or a use of NULL, ends the process.  File descriptors are      *)
(* reused like those of a kernel: the lowest free one.  Time is one bit    *)
(* per client: late says that last_seen is more than 10 s ago.             *)
(***************************************************************************)
EXTENDS Naturals, Sequences, FiniteSets, SeqOps

CONSTANTS Client,           \* addresses of Client structs
          MaxFd,            \* file descriptors 1 .. MaxFd
          CLIENTS_MAX,      \* capacity of the list, 64
          INTERFACES_MAX,   \* 32
          DUMMY_READ,       \* bytes read_dummy asks for, 16
          MaxConnects,      \* bound: connections ever made
          USB, NoOne

ASSUME ServerAssumption ==
  /\ USB \notin Client /\ NoOne \notin Client
  /\ NoOne \notin {"accept", "poll", "dog", "serial", "main"}
  /\ MaxFd \in Nat /\ CLIENTS_MAX \in Nat \ {0}
  /\ INTERFACES_MAX \in Nat \ {0} /\ MaxConnects \in Nat
  /\ DUMMY_READ \in Nat \ {0}

VARIABLES clients,         \* the list, oldest first: its head is the last
          client,          \* the structs
          interfaces,      \* all_interfaces[0 .. interface_count - 1]
          sock,            \* what the kernel has for each file descriptor
          pipe,            \* bytes in pipe_fds
          pc, clients_lock, zejf_lock,
          cancelled,       \* threads that pthread_cancel was called for
          server_running, listening,
          fds,             \* poll thread: the snapshot of the clients' fds
          todo,            \* poll thread: events still to be handled
          node,            \* per thread: position of the node in hand
          again, stale,    \* read_client: rv = n_bytes; its millis is old
          fresh,           \* accept thread: the client in client_connect
          connects,        \* connections so far; next_uid is one more
          queues,          \* the queues of the library exist
          proc,            \* "up", "ended" or "crashed"
          raced, reaped    \* history, see TableMatchesClients and TodoListed

serverVars == <<clients, client, interfaces, sock, pipe, pc, clients_lock,
                zejf_lock, cancelled, server_running, listening, fds, todo,
                node, again, stale, fresh, connects, queues, proc, raced,
                reaped>>

listVars == <<clients, client, interfaces>>
kernel == <<sock, pipe>>
locks == <<clients_lock, zejf_lock>>
stopVars == <<cancelled, queues>>
flags == <<server_running, listening>>
pollVars == <<fds, todo, again, stale>>
newVars == <<fresh, connects>>
history == <<raced, reaped>>

Thread == {"accept", "poll", "dog", "serial", "main"}
Fd == 1..MaxFd
BadFd == 0                    \* what is left of fd in a freed struct

(* closed; no data; less than n_bytes of data; n_bytes of it; some data, after
   which the peer has hung up; the peer has hung up *)
Socket == {"closed", "quiet", "data", "full", "last", "hup"}

ServerInit ==
  /\ clients = << >> /\ interfaces = <<USB>>
  /\ client = [c \in Client |->
                 [used |-> FALSE, fd |-> BadFd, uid |-> 0, late |-> FALSE]]
  /\ sock = [f \in Fd |-> "closed"] /\ pipe = 0
  /\ pc = [t \in Thread |-> CASE t = "dog" -> "start"
                              [] t = "serial" -> "sleep"
                              [] t = "main" -> "run"
                              [] OTHER -> "off"]
  /\ clients_lock = NoOne /\ zejf_lock = NoOne /\ cancelled = {}
  /\ server_running = FALSE /\ listening = FALSE
  /\ fds = << >> /\ todo = << >> /\ node = [t \in Thread |-> 0]
  /\ again = FALSE /\ stale = FALSE /\ fresh = NoOne /\ connects = 0
  /\ queues = TRUE /\ proc = "up" /\ raced = FALSE /\ reaped = FALSE

Goto(t, label) == pc' = [pc EXCEPT ![t] = label]

(* the process dies *)
Crash == proc' = "crashed" /\ UNCHANGED <<listVars, kernel, locks, stopVars,
                                          flags, pollVars, newVars, history,
                                          pc, node>>

(* A step that may end the process, or get away with it *)
Risking(danger, step) == (danger /\ Crash) \/ step

(* Under zejf_lock a packet is written to the socket of an interface.  The write
   blocks while the peer does not read; if the peer has hung up it may raise
   SIGPIPE, which nothing handles. *)
PeerGone ==
  \E i \in 1..Len(interfaces) :
    /\ interfaces[i] # USB
    /\ client[interfaces[i]].fd # BadFd
    /\ sock[client[interfaces[i]].fd] \in {"last", "hup"}

-----------------------------------------------------------------------------
(* The accept thread, server_run.  bind succeeds at most once: the listening
   socket of an earlier server_run is never closed. *)
Bind ==
  /\ pc["accept"] = "bind"
  /\ \/ /\ ~listening /\ listening' = TRUE
        /\ pc' = [pc EXCEPT !["accept"] = "accept", !["poll"] = "snap"]
        /\ UNCHANGED server_running
     \/ /\ server_running' = FALSE
        /\ Goto("accept", "off")
        /\ UNCHANGED listening
  /\ UNCHANGED <<listVars, kernel, locks, stopVars, pollVars, newVars,
                 history, node, proc>>

LowestFree(f) == /\ sock[f] = "closed"
                 /\ \A g \in 1..(f - 1) : sock[g] # "closed"

(* accept returned a connection; client_create.  From here to the end of
   client_connect the thread cannot be cancelled. *)
Accept ==
  /\ pc["accept"] = "accept" /\ "accept" \notin cancelled
  /\ connects < MaxConnects /\ connects' = connects + 1
  /\ \E f \in Fd, c \in Client :
       /\ LowestFree(f) /\ ~client[c].used
       /\ sock' = [sock EXCEPT ![f] = "quiet"]
       /\ client' = [client EXCEPT ![c] =
                       [used |-> TRUE, fd |-> f, uid |-> 0, late |-> FALSE]]
       /\ fresh' = c
  /\ Goto("accept", "push")
  /\ UNCHANGED <<locks, stopVars, flags, pollVars, history, clients,
                 interfaces, pipe, node, proc>>

Freed(c) == [client EXCEPT ![c] = [@ EXCEPT !.used = FALSE, !.fd = BadFd,
                                           !.late = FALSE]]

(* list_push under clients_lock; at the limit the client is freed (its socket
   stays open) *)
Push_unlocked ==
  /\ pc["accept"] = "push"
  /\ clients' = Append(clients, fresh)
  /\ Goto("accept", "add")
  /\ UNCHANGED <<kernel, locks, stopVars, flags, pollVars, newVars, history,
                 client, interfaces, node, proc>>

Push ==
  /\ pc["accept"] = "push" /\ clients_lock = NoOne
  /\ IF Len(clients) < CLIENTS_MAX
       THEN /\ clients' = Append(clients, fresh)
            /\ Goto("accept", "add")
            /\ UNCHANGED <<client, fresh>>
       ELSE /\ client' = Freed(fresh) /\ fresh' = NoOne
            /\ Goto("accept", "accept")
            /\ UNCHANGED clients
  /\ UNCHANGED <<kernel, locks, stopVars, flags, pollVars, history,
                 interfaces, node, connects, proc>>

(* interface_add, with no lock but zejf_lock: the client may have been removed
   meanwhile.  At the limit it is freed although the list still holds it. *)
Add ==
  /\ pc["accept"] = "add" /\ zejf_lock = NoOne
  /\ IF Len(interfaces) < INTERFACES_MAX
       THEN /\ interfaces' = Append(interfaces, fresh)
            /\ client' = [client EXCEPT ![fresh].uid = connects]
            /\ Goto("accept", "wake")
            /\ UNCHANGED <<fresh, raced, proc>>
       ELSE /\ client' = Freed(fresh) /\ fresh' = NoOne
            /\ proc' = IF client[fresh].used THEN proc ELSE "crashed"
            /\ raced' = TRUE
            /\ Goto("accept", "accept")
            /\ UNCHANGED interfaces
  /\ UNCHANGED <<kernel, locks, stopVars, flags, pollVars, clients, node,
                 connects, reaped>>

(* the byte that makes poll return *)
Wake_not == /\ pc["accept"] = "wake" /\ fresh' = NoOne /\ Goto("accept", "accept")
            /\ UNCHANGED <<listVars, kernel, locks, stopVars, flags, pollVars,
                           history, node, connects, proc>>

Wake_wide == /\ pc["accept"] = "wake"
             /\ pipe' = pipe + 4 /\ fresh' = NoOne /\ Goto("accept", "accept")
             /\ UNCHANGED <<listVars, sock, locks, stopVars, flags, pollVars,
                            connects, history, node, proc>>

Wake == /\ pc["accept"] = "wake"
        /\ pipe' = pipe + 1 /\ fresh' = NoOne
        /\ Goto("accept", "accept")
        /\ UNCHANGED <<listVars, locks, stopVars, flags, pollVars, history,
                       sock, node, connects, proc>>

(* listen or accept failed: the poll thread is cancelled and joined *)
AcceptFails ==
  /\ pc["accept"] = "accept"
  /\ cancelled' = cancelled \cup {"poll"}
  /\ Goto("accept", "join")
  /\ UNCHANGED <<listVars, kernel, locks, flags, pollVars, newVars, history,
                 node, queues, proc>>

AcceptEnds ==
  /\ pc["accept"] = "join" /\ pc["poll"] = "dead"
  /\ server_running' = FALSE
  /\ Goto("accept", "off")
  /\ UNCHANGED <<listVars, kernel, locks, stopVars, pollVars, newVars,
                 history, listening, node, proc>>

-----------------------------------------------------------------------------
(* client_remove(node of t), called with clients_lock held: close ... *)
Close(t) ==
  /\ pc[t] = "close"
  /\ LET f == client[clients[node[t]]].fd IN
     sock' = IF f = BadFd THEN sock ELSE [sock EXCEPT ![f] = "closed"]
  /\ Goto(t, "unlist")
  /\ UNCHANGED <<listVars, locks, stopVars, flags, pollVars, newVars, history,
                 pipe, node, proc>>

UidAt(i) == IF interfaces[i] = USB THEN 0 ELSE client[interfaces[i]].uid

(* interface_remove(uid): the first interface with that uid *)
interface_remove_last(uid) ==
  IF \A i \in 1..Len(interfaces) : UidAt(i) # uid THEN interfaces
  ELSE SubSeq(interfaces, 1, Len(interfaces) - 1)

interface_remove(uid) ==
  LET same == {i \in 1..Len(interfaces) : UidAt(i) = uid}
  IN IF same = {} THEN interfaces
     ELSE Without(interfaces, CHOOSE i \in same : \A j \in same : i <= j)

(* interface_remove finds an interface to remove: interface_removed then goes
   through tx_queue, and may use a node that it has freed (SweepFreed in Network)
   or that zejf_destroy has. *)
Sweeps(c) == \E i \in 1..Len(interfaces) : UidAt(i) = client[c].uid

(* ... list_remove, then interface_remove and free under zejf_lock; the caller
   unlocks clients_lock. *)
Unlist_still_locked(t) ==
  /\ pc[t] = "unlist" /\ zejf_lock = NoOne
  /\ LET c == clients[node[t]] IN
     Risking(Sweeps(c),
       /\ clients' = Without(clients, node[t])
       /\ interfaces' = interface_remove(client[c].uid)
       /\ client' = Freed(c)
       /\ proc' = IF client[c].used THEN proc ELSE "crashed"
       /\ raced' = (raced \/ c = fresh)
       /\ reaped' = (reaped \/ t = "dog")
       /\ node' = [node EXCEPT ![t] = 0]
       /\ stale' = (stale /\ t # "poll")
       /\ UNCHANGED clients_lock
       /\ Goto(t, IF t = "dog" THEN "start" ELSE "next")
       /\ UNCHANGED <<kernel, stopVars, flags, fds, todo, again, newVars, zejf_lock>>)

Unlist(t) ==
  /\ pc[t] = "unlist" /\ zejf_lock = NoOne
  /\ LET c == clients[node[t]] IN
     Risking(Sweeps(c),
       /\ clients' = Without(clients, node[t])
       /\ interfaces' = interface_remove(client[c].uid)
       /\ client' = Freed(c)
       /\ proc' = IF client[c].used THEN proc ELSE "crashed"
       /\ raced' = (raced \/ c = fresh)
       /\ reaped' = (reaped \/ t = "dog")
       /\ node' = [node EXCEPT ![t] = 0]
       /\ stale' = (stale /\ t # "poll")
       /\ clients_lock' = NoOne
       /\ Goto(t, IF t = "dog" THEN "start" ELSE "next")
       /\ UNCHANGED <<kernel, stopVars, flags, fds, todo, again, newVars, zejf_lock>>)

(* The order in which client_get, prepare_fds and the watchdog visit the nodes:
   from the head, whose next is the tail. *)
Visited(k) == IF k = 1 THEN Len(clients) ELSE k - 1

VisitedBefore(i, j) == i = Len(clients) \/ (j # Len(clients) /\ i < j)

FirstNode(N) == CHOOSE i \in N : \A j \in N : i = j \/ VisitedBefore(i, j)

(* client_get *)
NodesOf(f) == {i \in 1..Len(clients) : client[clients[i]].fd = f}

-----------------------------------------------------------------------------
(* The poll thread, poll_run.  prepare_fds under the read lock *)
Snapshot_short ==
  /\ pc["poll"] = "snap" /\ clients_lock = NoOne
  /\ fds' = [k \in 1..(Len(clients) - 1) |-> client[clients[Visited(k)]].fd]
  /\ reaped' = FALSE
  /\ Goto("poll", "poll")
  /\ UNCHANGED <<listVars, kernel, locks, stopVars, flags, newVars, todo,
                 node, again, stale, proc, raced>>

Snapshot ==
  /\ pc["poll"] = "snap" /\ clients_lock = NoOne
  /\ fds' = [k \in 1..Len(clients) |-> client[clients[Visited(k)]].fd]
  /\ reaped' = FALSE
  /\ Goto("poll", "poll")
  /\ UNCHANGED <<listVars, kernel, locks, stopVars, flags, newVars, todo,
                 node, again, stale, proc, raced>>

Event == (Fd \cup {BadFd}) \X {"in", "err"}

(* POLLIN; POLLERR, POLLHUP or POLLNVAL without it *)
Events(f) == IF f = BadFd \/ sock[f] = "closed" THEN {"err"}
             ELSE CASE sock[f] = "quiet" -> {}
                    [] sock[f] = "hup" -> {"in", "err"}
                    [] OTHER -> {"in"}

(* poll returned with events of clients; with a byte in the pipe they are left
   for the next call *)
Poll ==
  /\ pc["poll"] = "poll" /\ "poll" \notin cancelled
  /\ pipe > 0 \/ \E i \in 1..Len(fds) : Events(fds[i]) # {}
  /\ fds' = << >>
  /\ IF pipe > 0 THEN Goto("poll", "drain") /\ UNCHANGED todo
     ELSE LET ready == {i \in 1..Len(fds) : Events(fds[i]) # {}}
              count == Cardinality(ready)
          IN /\ \E at \in [1..count -> ready] :
                  /\ \A i, j \in 1..count : i < j => at[i] < at[j]
                  /\ todo' \in {s \in [1..count -> Event] :
                       \A i \in 1..count : /\ s[i][1] = fds[at[i]]
                                          /\ s[i][2] \in Events(fds[at[i]])}
             /\ Goto("poll", "next")
  /\ UNCHANGED <<listVars, kernel, locks, stopVars, flags, newVars, history,
                 node, again, stale, proc>>

(* one read of read_dummy: it blocks on an empty pipe, and reads again after
   exactly DUMMY_READ bytes *)
Drain ==
  /\ pc["poll"] = "drain" /\ "poll" \notin cancelled /\ pipe > 0
  /\ IF pipe < DUMMY_READ
       THEN pipe' = 0 /\ Goto("poll", "snap")
       ELSE pipe' = pipe - DUMMY_READ /\ UNCHANGED pc
  /\ UNCHANGED <<listVars, locks, stopVars, flags, pollVars, newVars, history,
                 sock, node, proc>>

(* the loop over the events is done *)
NoMore ==
  /\ pc["poll"] = "next" /\ todo = << >>
  /\ Goto("poll", "snap")
  /\ UNCHANGED <<listVars, kernel, locks, stopVars, flags, pollVars, newVars,
                 history, node, proc>>

(* An event is handled under clients_lock.  Its client may be gone: client_remove
   accepts that, read_client uses the NULL it got. *)
Take_repeat ==
  /\ pc["poll"] = "next" /\ todo # << >> /\ clients_lock = NoOne
  /\ LET found == NodesOf(Head(todo)[1])
         event == Head(todo)[2]
     IN IF found = {} /\ event = "in" THEN Crash
        ELSE /\ UNCHANGED todo
             /\ IF found = {} THEN UNCHANGED <<pc, clients_lock, node, stale>>
                ELSE /\ clients_lock' = "poll"
                     /\ node' = [node EXCEPT !["poll"] = FirstNode(found)]
                     /\ stale' = FALSE
                     /\ Goto("poll", IF event = "in" THEN "read" ELSE "close")
             /\ UNCHANGED <<listVars, kernel, stopVars, flags, newVars,
                            history, zejf_lock, fds, again, proc>>

Take ==
  /\ pc["poll"] = "next" /\ todo # << >> /\ clients_lock = NoOne
  /\ LET found == NodesOf(Head(todo)[1])
         event == Head(todo)[2]
     IN IF found = {} /\ event = "in" THEN Crash
        ELSE /\ todo' = Tail(todo)
             /\ IF found = {} THEN UNCHANGED <<pc, clients_lock, node, stale>>
                ELSE /\ clients_lock' = "poll"
                     /\ node' = [node EXCEPT !["poll"] = FirstNode(found)]
                     /\ stale' = FALSE
                     /\ Goto("poll", IF event = "in" THEN "read" ELSE "close")
             /\ UNCHANGED <<listVars, kernel, stopVars, flags, newVars,
                            history, zejf_lock, fds, again, proc>>

InHand == clients[node["poll"]]

(* read in read_client: it blocks, with clients_lock held, while there is
   nothing to read; nothing more to come or an error removes the client *)
Read ==
  /\ pc["poll"] = "read" /\ "poll" \notin cancelled
  /\ LET f == client[InHand].fd
         s == IF f = BadFd THEN "closed" ELSE sock[f]
     IN /\ s # "quiet"
        /\ IF s \in {"hup", "closed"}
             THEN /\ Goto("poll", "close")
                  /\ UNCHANGED <<sock, client, again>>
             ELSE /\ sock' = [sock EXCEPT ![f] = IF s = "last" THEN "hup" ELSE "quiet"]
                  /\ client' = [client EXCEPT ![InHand].late = stale]
                  /\ again' \in {b \in BOOLEAN : s # "last" => b = (s = "full")}
                  /\ Goto("poll", "accept")
  /\ UNCHANGED <<locks, stopVars, flags, newVars, history, clients,
                 interfaces, pipe, fds, todo, node, stale, proc>>

(* network_accept for the lines that are complete, under zejf_lock *)
Lock ==
  /\ pc["poll"] = "accept" /\ zejf_lock = NoOne
  /\ zejf_lock' = "poll"
  /\ Goto("poll", "handle")
  /\ UNCHANGED <<listVars, kernel, stopVars, flags, pollVars, newVars,
                 history, clients_lock, node, proc>>

(* the end of the loop body: read again if the buffer was filled *)
ReadAgainOrEnd ==
  /\ again' = FALSE
  /\ IF again
       THEN Goto("poll", "read") /\ UNCHANGED <<clients_lock, node, stale>>
       ELSE /\ clients_lock' = NoOne
            /\ node' = [node EXCEPT !["poll"] = 0]
            /\ stale' = FALSE
            /\ Goto("poll", "next")
  /\ UNCHANGED <<listVars, kernel, stopVars, flags, newVars, history, fds,
                 todo, proc>>

(* ... network_accept may answer, with a write, or use the queues after
   zejf_destroy; unlock *)
Handle ==
  /\ pc["poll"] = "handle"
  /\ Risking(PeerGone \/ ~queues, zejf_lock' = NoOne /\ ReadAgainOrEnd)

(* no line is complete yet *)
NoLine == pc["poll"] = "accept" /\ ReadAgainOrEnd /\ UNCHANGED zejf_lock

-----------------------------------------------------------------------------
(* The watchdog, watchdog_run: starts a server if none is running, sleeps *)
Start ==
  /\ pc["dog"] = "start"
  /\ server_running' = TRUE
  /\ pc' = IF server_running THEN [pc EXCEPT !["dog"] = "sleep"]
           ELSE [pc EXCEPT !["dog"] = "sleep", !["accept"] = "bind"]
  /\ UNCHANGED <<listVars, kernel, locks, stopVars, pollVars, newVars,
                 history, listening, node, proc>>

Sleep ==
  /\ pc["dog"] = "sleep" /\ "dog" \notin cancelled
  /\ Goto("dog", IF server_running THEN "scan" ELSE "start")
  /\ UNCHANGED <<listVars, kernel, locks, stopVars, flags, pollVars, newVars,
                 history, node, proc>>

Late_reversed == {i \in 1..Len(clients) : ~client[clients[i]].late}

Late == {i \in 1..Len(clients) : client[clients[i]].late}

(* The scan under clients_lock ends with the first client it removes: node is
   then the head, which is where the loop stops. *)
Scan ==
  /\ pc["dog"] = "scan" /\ clients_lock = NoOne
  /\ IF Late = {} THEN Goto("dog", "start") /\ UNCHANGED <<clients_lock, node>>
     ELSE /\ clients_lock' = "dog"
          /\ node' = [node EXCEPT !["dog"] = FirstNode(Late)]
          /\ Goto("dog", "close")
  /\ UNCHANGED <<listVars, kernel, stopVars, flags, pollVars, newVars,
                 history, zejf_lock, proc>>

-----------------------------------------------------------------------------
(* The threads of serial.c (run_timer, packet_sender_start, run_reader).  As long
   as none is cancelled it makes no difference whether one sleeps or waits for
   zejf_lock; Stop decides which. *)
SerialLocks ==
  /\ \/ pc["serial"] = "sleep" /\ "serial" \notin cancelled
     \/ pc["serial"] = "lock"
  /\ zejf_lock = NoOne
  /\ zejf_lock' = "serial"
  /\ Goto("serial", "send")
  /\ UNCHANGED <<listVars, kernel, stopVars, flags, pollVars, newVars,
                 history, clients_lock, node, proc>>

SerialSends ==
  /\ pc["serial"] = "send"
  /\ Risking(PeerGone,
       /\ zejf_lock' = NoOne
       /\ Goto("serial", "sleep")
       /\ UNCHANGED <<listVars, kernel, stopVars, flags, pollVars, newVars,
                      history, clients_lock, node, proc>>)

-----------------------------------------------------------------------------
(* The main thread, meteo_stop: the threads of serial.c are cancelled and joined
   (stop_serial) and zejf_destroy frees the queues, then the watchdog, the server
   and the poll thread are cancelled and joined in turn. *)
Stop ==
  /\ pc["main"] = "run"
  /\ cancelled' = cancelled \cup {"serial"}
  /\ \E p \in IF pc["serial"] = "sleep" THEN {"sleep", "lock"} ELSE {pc["serial"]} :
       pc' = [pc EXCEPT !["main"] = "serial", !["serial"] = p]
  /\ UNCHANGED <<listVars, kernel, locks, flags, pollVars, newVars, history,
                 node, queues, proc>>

JoinSerial ==
  /\ pc["main"] = "serial" /\ pc["serial"] = "dead"
  /\ queues' = FALSE
  /\ cancelled' = cancelled \cup {"dog"}
  /\ Goto("main", "dog")
  /\ UNCHANGED <<listVars, kernel, locks, flags, pollVars, newVars, history,
                 node, proc>>

Ended(t) == pc[t] \in {"off", "dead"}

JoinDog ==
  /\ pc["main"] = "dog" /\ Ended("dog")
  /\ IF server_running
       THEN /\ cancelled' = cancelled \cup {"accept"}
            /\ Goto("main", "accept")
            /\ UNCHANGED proc
       ELSE /\ proc' = "ended"
            /\ UNCHANGED <<pc, cancelled>>
  /\ UNCHANGED <<listVars, kernel, locks, flags, pollVars, newVars, history,
                 node, queues>>

(* pthread_cancel of a poll thread that was never created *)
JoinAccept ==
  /\ pc["main"] = "accept" /\ Ended("accept")
  /\ \/ pc["poll"] = "off" /\ Crash
     \/ /\ cancelled' = cancelled \cup {"poll"}
        /\ Goto("main", "poll")
        /\ UNCHANGED <<listVars, kernel, locks, flags, pollVars, newVars,
                       history, node, queues, proc>>

JoinPoll ==
  /\ pc["main"] = "poll" /\ Ended("poll")
  /\ proc' = "ended"
  /\ UNCHANGED <<listVars, kernel, locks, stopVars, flags, pollVars, newVars,
                 history, pc, node>>

(* A cancelled thread ends at a cancellation point, whatever locks it holds:
   accept, pthread_join; poll, read, close and the write in network_send_via;
   sleep, close; sleep.  Waiting for a lock is none, and the threads of serial.c
   disable cancellation while they have it. *)
CancellationPoint(t) ==
  pc[t] \in CASE t = "accept" -> {"accept", "join"}
              [] t = "poll" -> {"poll", "drain", "read", "close", "handle"}
              [] t = "dog" -> {"sleep", "close"}
              [] t = "serial" -> {"sleep"}
              [] OTHER -> {}

Die(t) ==
  /\ t \in cancelled /\ CancellationPoint(t)
  /\ Goto(t, "dead")
  /\ UNCHANGED <<listVars, kernel, locks, stopVars, flags, pollVars, newVars,
                 history, node, proc>>

-----------------------------------------------------------------------------
(* The peers: one sends, or hangs up *)
PeerSends(f) ==
  /\ sock[f] = "quiet"
  /\ \E s \in {"data", "full"} : sock' = [sock EXCEPT ![f] = s]
  /\ UNCHANGED <<listVars, locks, stopVars, flags, pollVars, newVars, history,
                 pipe, pc, node, proc>>

PeerCloses(f) ==
  /\ sock[f] \in {"quiet", "data", "full"}
  /\ sock' = [sock EXCEPT ![f] = IF sock[f] = "quiet" THEN "hup" ELSE "last"]
  /\ UNCHANGED <<listVars, locks, stopVars, flags, pollVars, newVars, history,
                 pipe, pc, node, proc>>

Listed == {clients[i] : i \in 1..Len(clients)}

(* More than 10 s pass. *)
TimePasses ==
  /\ client' = [c \in Client |-> [client[c] EXCEPT !.late = @ \/ client[c].used \/ c \in Listed]]
  /\ stale' = (node["poll"] # 0)
  /\ UNCHANGED <<kernel, locks, stopVars, flags, newVars, history, clients,
                 interfaces, pc, fds, todo, node, again, proc>>

PollStep == Snapshot \/ Poll \/ Drain \/ NoMore \/ Take \/ Read \/ Lock \/ NoLine
            \/ Close("poll") \/ Unlist("poll")
DogStep == Start \/ Sleep \/ Scan \/ Close("dog") \/ Unlist("dog")
JoinStep == JoinSerial \/ JoinDog \/ JoinAccept \/ JoinPoll

ServerNext ==
  /\ proc = "up"
  /\ \/ Bind \/ Accept \/ Push \/ Add \/ Wake \/ AcceptFails \/ AcceptEnds
     \/ Snapshot \/ Poll \/ Drain \/ NoMore \/ Take \/ Read \/ Lock \/ Handle
     \/ NoLine \/ Start \/ Sleep \/ Scan
     \/ \E t \in {"poll", "dog"} : Close(t) \/ Unlist(t)
     \/ SerialLocks \/ SerialSends
     \/ Stop \/ JoinSerial \/ JoinDog \/ JoinAccept \/ JoinPoll
     \/ \E t \in Thread : Die(t)
     \/ \E f \in Fd : PeerSends(f) \/ PeerCloses(f)
     \/ TimePasses

ServerSpec == ServerInit /\ [][ServerNext]_serverVars

(* the peer the poll thread is reading from sends less than n_bytes, or hangs up *)
PeerShort ==
  \E f \in Fd : /\ node["poll"] # 0 /\ client[InHand].fd = f
                /\ PeerCloses(f) \/ (PeerSends(f) /\ sock'[f] = "data")

(* What is assumed of the peers, and nothing in the code sees to it.  They read
   what they are sent: a write to a socket, under zejf_lock and perhaps
   clients_lock, returns.  And a peer that is being read from some time sends
   less than the whole buffer or hangs up (devices send their RIP packets as long
   as they live). *)
PeersBehave == /\ WF_serverVars(proc = "up" /\ (Handle \/ SerialSends))
               /\ SF_serverVars(proc = "up" /\ PeerShort)

(* The threads are scheduled, and a lock that is free again and again is some
   time got.  Nothing is assumed of the accept thread, of failures and of the
   passing of time, nor that the threads of serial.c have anything to send. *)
Scheduled ==
  /\ WF_serverVars(proc = "up" /\ PollStep) /\ WF_serverVars(proc = "up" /\ DogStep)
  /\ WF_serverVars(proc = "up" /\ (JoinStep \/ \E t \in Thread : Die(t)))
  /\ SF_serverVars(proc = "up" /\ (Snapshot \/ Take \/ Lock \/ Unlist("poll")))
  /\ SF_serverVars(proc = "up" /\ (Scan \/ Unlist("dog")))
  /\ SF_serverVars(proc = "up" /\ pc["serial"] = "lock" /\ SerialLocks)

(* The server once every client of Client has connected, in the order of their
   uids, while the poll thread still sleeps with the empty snapshot it took at
   first: each connection has left a byte in the pipe. *)
ConnectedInit ==
  /\ clients = CHOOSE s \in [1..MaxConnects -> Client] :
                  \A i, j \in 1..MaxConnects : s[i] = s[j] => i = j
  /\ interfaces = <<USB>> \o clients
  /\ client = [c \in Client |-> LET i == CHOOSE i \in 1..MaxConnects : clients[i] = c
                                IN [used |-> TRUE, fd |-> i, uid |-> i, late |-> FALSE]]
  /\ sock = [f \in Fd |-> IF f <= MaxConnects THEN "quiet" ELSE "closed"]
  /\ pc = [t \in Thread |-> CASE t = "main" -> "run" [] t = "accept" -> "accept"
                              [] t = "poll" -> "poll" [] OTHER -> "sleep"]
  /\ clients_lock = NoOne /\ zejf_lock = NoOne /\ cancelled = {}
  /\ server_running = TRUE /\ listening = TRUE
  /\ fds = << >> /\ todo = << >> /\ node = [t \in Thread |-> 0]
  /\ again = FALSE /\ stale = FALSE /\ fresh = NoOne
  /\ connects = MaxConnects /\ pipe = MaxConnects
  /\ queues = TRUE /\ proc = "up" /\ raced = FALSE /\ reaped = FALSE

(* From there on, with listen and accept not failing *)
FairConnected ==
  /\ ConnectedInit /\ [][ServerNext /\ pc'["accept"] # "join"]_serverVars
  /\ Scheduled /\ PeersBehave

-----------------------------------------------------------------------------
(* Type invariant of the server. *)
ServerTypeOK ==
  /\ clients \in Seq(Client) /\ Len(clients) <= CLIENTS_MAX
  /\ client \in [Client -> [used : BOOLEAN, fd : Fd \cup {BadFd},
                            uid : 0..MaxConnects, late : BOOLEAN]]
  /\ interfaces \in Seq(Client \cup {USB}) /\ Len(interfaces) <= INTERFACES_MAX
  /\ sock \in [Fd -> Socket] /\ pipe \in 0..MaxConnects
  /\ DOMAIN pc = Thread
  /\ clients_lock \in Thread \cup {NoOne} /\ zejf_lock \in Thread \cup {NoOne}
  /\ cancelled \subseteq Thread
  /\ server_running \in BOOLEAN /\ listening \in BOOLEAN
  /\ fds \in Seq(Fd \cup {BadFd})
  /\ todo \in Seq(Event)
  /\ node \in [Thread -> 0..CLIENTS_MAX]
  /\ again \in BOOLEAN /\ stale \in BOOLEAN
  /\ fresh \in Client \cup {NoOne} /\ connects \in 0..MaxConnects
  /\ queues \in BOOLEAN /\ proc \in {"up", "ended", "crashed"}
  /\ raced \in BOOLEAN /\ reaped \in BOOLEAN

(* client_get identifies a client by its fd, and client_remove closes that fd:
   no two listed clients have the same one, and a listed client's is open unless
   the thread that holds clients_lock has just closed it.  close comes before
   list_remove, so the accept thread can be given the number of a client that
   is still in the list; clients_lock keeps it out until that one is gone.
   (raced: see TableMatchesClients.) *)
OneClientPerFd ==
  ~raced =>
    /\ \A c, d \in Listed : client[c].fd = client[d].fd => c = d
    /\ \A c \in Listed :
         \/ sock[client[c].fd] # "closed"
         \/ \E t \in {"poll", "dog"} :
              clients_lock = t /\ pc[t] = "unlist" /\ clients[node[t]] = c

(* all_interfaces holds the USB interface and the interface of every listed
   client, each once, and no pointer to a freed one - unless a client was
   removed while client_connect was still at work on it, or was one too many
   for the table (raced).  Then interface_remove is given the uid 0 of a struct
   that has none yet, which is that of the USB interface, and interface_add or
   the list keep a pointer to freed memory. *)
TableMatchesClients ==
  ~raced =>
    /\ interfaces[1] = USB
    /\ \A i, j \in 1..Len(interfaces) : i # j => interfaces[i] # interfaces[j]
    /\ {interfaces[i] : i \in 2..Len(interfaces)} =
         IF pc["accept"] = "add" THEN Listed \ {fresh} ELSE Listed
    /\ \A c \in Listed : client[c].used

(* The poll thread never sleeps in poll on a snapshot that lacks a listed client,
   unless a byte in the pipe is about to wake it, or client_connect is still to
   write that byte: read_dummy takes the bytes of several connections at once, and
   the snapshot that follows knows all of these clients. *)
NoLostWakeup ==
  ~raced /\ pc["poll"] = "poll" =>
    \A c \in Listed : \/ \E i \in 1..Len(fds) : fds[i] = client[c].fd
                      \/ pipe > 0
                      \/ c = fresh

(* what CrashExplained names *)
CrashCause ==
  \/ raced \/ reaped \/ ~queues
  \/ PeerGone /\ (pc["poll"] = "handle" \/ pc["serial"] = "send")
  \/ \E t \in {"poll", "dog"} : pc[t] = "unlist" /\ Sweeps(clients[node[t]])

(* The process crashes only if a client was removed in client_connect's hands
   (raced), or by the watchdog between the poll thread's snapshot and its use
   (reaped: read_client takes the item of a NULL node before it checks), or if
   the queues are freed because the program is being stopped, or in a write to a
   peer that has hung up, or in the sweep of tx_queue for an interface that goes.
   The poll thread's own removals never pull a client from under its list of
   events, and no client is freed twice. *)
CrashExplained == proc = "crashed" => CrashCause

Serving == /\ proc = "up" /\ pc["main"] = "run"
           /\ "poll" \notin cancelled

(* a listed client has sent something that is not read yet *)
Pending(c) == /\ c \in Listed /\ client[c].used /\ client[c].fd # BadFd
              /\ sock[client[c].fd] \in {"data", "full", "last"}

(* What a client sends is read: its socket does not stay readable while the
   server runs, although the poll thread may be asleep in poll with a snapshot
   that does not know the client yet, or has it in a list of events that
   another client's holds up. *)
ClientServed == \A c \in Client : Pending(c) ~> (~Pending(c) \/ ~Serving)

(* A client that has been silent for more than 10 s is removed or heard again,
   although the watchdog removes one client per round and the poll thread may
   be blocked in read with clients_lock held. *)
LateClientGoes ==
  \A c \in Client :
    (c \in Listed /\ client[c].late)
      ~> (c \notin Listed \/ ~client[c].late \/ ~Serving)

(* a thread ended with a lock in its hands *)
Orphaned == \E t \in Thread : pc[t] = "dead" /\ t \in {clients_lock, zejf_lock}

(* The program ends once it is told to, unless a thread was cancelled while it
   held a lock: then the others wait for that lock where they cannot be
   cancelled, and the main thread waits for them. *)
ShutdownEnds == pc["main"] # "run" ~> (proc # "up" \/ Orphaned)

=============================================================================
