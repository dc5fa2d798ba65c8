# A verification development for ZejfMeteo

ZejfMeteo is a small weather network. Sensor devices (Raspberry Pi Picos)
measure, a Linux server (`core/devices/ZejfMeteo`) stores, and a Java viewer
displays. All C programs share one library, `core/api/zejf_api`: a packet
network with routing, and a store of measurements in hours. This directory holds
TLA+ specifications of that library, of the threads of the server and of the
measuring loop of a sensor device, TLC configurations that check them on small
instances, and proofs checked by TLAPS for all instances. Paths below are
relative to `src/core` unless they name `viewer`.

Contents: [inventory](#1-inventory) - [modules](#2-modules) -
[runs](#3-runs-and-what-they-show) - [bounds](#4-bounds) -
[fairness](#5-fairness) - [proofs](#6-proofs) - [findings](#7-findings) -
[limits](#8-what-is-not-modelled) - [plan](#9-plan).

## 1. Inventory

### The library `api/zejf_api/src`

| Part | State | Operations | Depends on |
|---|---|---|---|
| `linked_list.c` | circular doubly linked list with `head`, `tail`, `item_count`, `capacity` | `list_push`, `list_remove`, `list_pop`, `list_prioritise`, `list_destroy` | malloc |
| `zejf_routing.c` | `routing_table[]`, `routing_table_top`, `next_free_id` | `routing_table_update`, `routing_table_check`, `interface_removed`, `network_send_routing_info`, `routing_find_free_id`, provided and demanded variables of an entry | interfaces of the platform |
| `zejf_network.c` | `rx_queue`, `tx_queue` (lists), `next_packet` (a cursor into `tx_queue`) | `network_accept`, `network_send_packet`, `network_process_rx`, `network_send_tx`, `network_interface_removed` | list, routing, `network_send_via` of the platform |
| `zejf_data.c` | `data_queue`, a list that caches hours | `data_log`, `data_get_val`, `datahour_get`, `data_save`, `hour_serialize`, `hour_deserialize` | list, `hour_load` and `hour_save` of the platform |
| `data_check.c` | none of its own | `run_data_check` sends the number of samples per hour, `data_check_receive` compares it and requests what is missing | store, network |
| `data_request.c` | `data_requests_queue` | `data_request_add`, `data_requests_process`: the oldest request, one log at a time | list, store, network |
| `data_info.c` | provided and demanded variables | provide, demand, subscribe; which logs go where | routing, network |
| `zejf_protocol.c` | none | packet to text and back, checksum | - |
| `zejf_api.c` | none | start and stop of all of these | all |

### The server `devices/ZejfMeteo/src`

`server.c` accepts TCP clients (an accept thread, a poll thread, a watchdog),
`interface_manager.c` keeps the table of interfaces (the serial port and one per
client), `serial.c` reads the serial port, runs the timers (`run_timer`: routing
table check, RIP packets, data save) and the sender (`packet_sender_start`),
`zejf_data_loader.c` writes and reads one file per hour, `zejf_meteo.c` starts
and stops all of it and reads commands. One mutex, `zejf_lock`, covers the
library; `clients_lock` covers the client list.

### Devices and viewer

`devices/ZejfWind`, `ZejfOutside` and `ZejfPress` are Picos. The first two share
`libs/zejf_pico_utils`: a timer interrupt measures and queues finished logs, the
main loop writes them and runs the network, with a TCP client over lwIP
(`libs/tcp_handler`, polled by the main loop) and an SD card. On ZejfPress a timer
interrupt calls the library while the main loop is inside it. The viewer keeps
its own cache of hours, asks the server for an id, subscribes, and sends data
checks.

### What is hard here

* `next_packet` points into `tx_queue` between calls, and packets disappear in
  four ways. Interfaces are freed while packets and routes point to them.
* Two loops of `zejf_network.c` and two of `zejf_routing.c` modify the structure
  they walk.
* Everything may be lost, late or repeated: packets, RIP announcements, sends
  that fail at once or for a while.
* Hours exist twice, cached and in files; a save may fail, noticed or not, or be
  cut off by a crash after the file was truncated.
* 16-bit ids and 32-bit times wrap.
* Threads on the server that share a list, a table and two locks, use clients that
  others free, and are cancelled; interrupts on the Picos.

`PROJECT.json` lists each hazard at its line with the properties that cover it,
or the reason why none does.

### What makes each part correct

* List: the pointers always form one ring over the allocated nodes; it is a
  bounded sequence, first in, first out.
* Routing: one route per device; a route is the shortest path that was heard, is
  lost only for a reason, and goes away when nobody offers that path any more.
* Ids: an answer names an id nobody has.
* Network: the cursor never dangles; a packet is lost only for a reason; a
  broadcast reaches all known devices or stays queued; every packet is
  eventually gone.
* Store: the cache is transparent; what is logged reaches its file; after
  failures and crashes a value may be missing, or an older one, but never one that
  was not logged for that hour and sample.
* Data exchange: the consumer never has what the provider has not, keeps the
  values it has, and gets what it lacks as long as it asks.
* Server threads: the interface table and the client list agree; no client is
  overlooked, every client is served, every silent one removed; the program can
  be stopped.
* Pico: every tip of the rain gauge is logged once, in one slot, or dropped for a
  reason.

## 2. Modules

| Module | Models | |
|---|---|---|
| `SeqOps` | - | three operators on sequences |
| `LinkedList` | `linked_list.c` | pointers: `next`, `previous`, `item` as functions on node addresses |
| `ListCalls` | - | `LinkedList` under any calls, with what each returned |
| `BoundedRing` | - | what a list promises: a FIFO sequence with a capacity |
| `Routing` | `zejf_routing.c`, `interface_manager.c` | `routing_table` as a sequence of entries, `interfaces` as the set of live addresses |
| `RouteHistory` | - | `Routing` with a record of what was heard of one device |
| `DeviceIds` | `routing_find_free_id`, `process_id_request` | the id counter with its wrap-around |
| `Network` | `zejf_network.c` | extends `LinkedList` (as `tx_queue`) and `Routing` |
| `HourStore` | `zejf_data.c`, `zejf_data_loader.c`, `calculate_data_check` | cache and files |
| `SampleStore` | - | what the store promises: one cell per hour and sample |
| `DataSync` | `data_check.c`, `data_request.c`, `data_info.c`, data checks of the viewer | a provider, a consumer and the packets between them |
| `Replica` | - | what the exchange promises: a source and its copy |
| `TcpServer` | `server.c`, `interface_manager.c`, threads of `serial.c`, `meteo_stop` | five threads, the client list, the interface table, two locks |
| `PicoRuntime` | `zejf_runtime.cpp`, `zejf_pico_data.h`, `time_engine.cpp`, rain gauge of ZejfOutside | main loop and two interrupts |
| `MCNetwork`, `MCHourStore`, `MCDataSync`, `MCTcpServer` | - | messages, symmetry, hours and bounds for TLC |
| `*Proofs` | - | theorems about the module they extend |

How state and actions correspond to the code:

* **LinkedList.** A node is an address; `next[a] = NULL` means that it is not
  allocated, so freeing a node makes every remaining pointer to it visible as an
  error. One action per function; `list_push` refuses a full list, as in the
  code. `order` is a history variable, the nodes from tail to head, which the
  pointers determine. Only `list_destroy` reads it, for the nodes it frees on its
  way around the ring. `ListCalls` adds `call`, the last call and its result:
  that `list_pop` returns the item it removed is part of the refinement.
* **Routing.** Times are ages (`time - last_seen`), counted up to the first value
  that is too old. The scan loops of `routing_table_check` and
  `interface_removed` increment their index even after they moved the rest of
  the table down, so `RemovedByScan` removes an entry only if its predecessor was
  not removed. `interface_removed` compares the uids behind pointers; behind an
  entry whose interface was freed before, any result is possible
  (`RoutesOverRemoved`). `malloc` may give a new client the address of a freed
  interface, so an address can leave and rejoin `interfaces`. `RouteHistory` keeps,
  for one device, how long ago each distance was last heard over each interface;
  it changes nothing in the table.
* **Network.** Functions that run under `zejf_lock` are one step. The loops of
  `process_broadcast_packet` and `network_interface_removed` take one step per
  iteration, during which `pc` keeps all other steps out. `wire` holds what the
  last step handed to `network_send_via`, which is external and returns any of its
  three results; a packet that `packet_to_string` cannot format stays queued unsent
  (`TxUnformatted`). When `network_interface_removed` removes the only packet it
  goes on with a freed node (`SweepFreed`): undefined behaviour, modelled as the
  death and restart of the process.
* **HourStore.** `data_queue` is the sequence that `LinkedList` is shown to
  implement. `hour_add` evicts and saves the tail, `datahour_get` moves an hour
  to the tail, loads or creates it, and refuses one whose file is unreadable.
  `data_log` may reject a log after that, for its number, its sample rate or want
  of memory: the hour it created stays cached, unflagged and without a file
  (`data_log_rejected`), and may lack the variable (`MayLackVariable`).
  `hour_save` has four outcomes: it works; it fails before the file is touched;
  it fails after the file was truncated; or it fails in `fclose`, which nobody
  notices. `hour_load` may fail to read a file, or take it for missing: every
  failure of `access()` is reported as "does not exist", and a new hour then
  replaces the file. `logged` is a history variable.
* **DeviceIds.** `present` is the set of ids in the table, `given` the history of
  answers.
* **DataSync.** One variable, one provider, one consumer; `link` says whether
  these are a device and the server ("hub") or the server and the viewer
  ("viewer"), whose code differs: what is counted, which end of an hour is asked
  for, who marks what was not measured. A sample is nothing, a marker or a value.
  `wire` is a set of packets: they are lost, overtake each other, and a packet may
  arrive long after it was sent. `known` are the hours the consumer has:
  `run_data_check`, called for one hour or for 36 (`Windows`), returns at the first
  it has not, and it returns for all variables and devices together, so that what
  another one lacks may end the round at any hour (`last`). The viewer forgets
  hours it has not shown for a while (`removeOld`). The provider keeps its samples:
  one that loses some is not modelled. A routing entry, and with it
  what was demanded or provided, comes and goes. An iteration of
  `data_requests_process` is one of `PopRequest`, `RequestFails`, `SendRequested`.
* **TcpServer.** A client is an address; a freed struct keeps its uid and loses
  its descriptor, and its address can be reused. Each lock, system call that can
  block, and access outside a lock is a step of its own. The rwlock is modelled as
  exclusive: its only reader copies descriptors in one step. `late` says that
  `last_seen` is more than 10 s ago. Cancellation takes effect at the system
  calls, with locks held. The three threads of `serial.c` are alike here, they
  take `zejf_lock` and write to sockets, and one stands for all. A write to a peer
  that has hung up may raise SIGPIPE, which nobody handles (`PeerGone`);
  `interface_remove` ends in the sweep of `tx_queue`, which uses a freed node when
  the only packet there concerns the interface (`Sweeps`; the queue itself is
  `Network`'s). Either may kill the process or not (`Risking`). Two history
  variables name the races that the code has: `raced` (a client is removed while
  `client_connect` still works on it, or is one too many for the interface table)
  and `reaped` (the watchdog removed a client after the poll thread's snapshot).
* **PicoRuntime.** Interrupts are atomic and come between any two steps of the
  main loop. `rr_c` counts modulo `CountSize`. Of the logs the rain gauge's is
  modelled, where a sum must be right; time is the clock of the device, in
  seconds, and can be set back and forth. While `rtc_set_datetime` has it stopped,
  the timer interrupt reads an uninitialised struct: any time (`SecondStopped`).
  The stop is shorter than a second, so at most one interrupt comes in it. `tips`,
  `written` and `lost` are history.

`PROJECT.json` ("map") gives the lines for every definition. A definition with a
suffix (`list_is_full_late`, `Modified_not_tail`) is not part of the
specification: it is a plausible mistake, used to show that the property it
belongs to would notice it.

## 3. Runs and what they show

Run with `tlc -config X.cfg M`. The run marked * is expected to find a violation
([findings](#7-findings)).

| Run | Configuration, module | Properties |
|---|---|---|
| `linked_list` | `LinkedList.cfg`, `ListCalls` | `ListTypeOK`, `RingOK`, `ImplementsRing` |
| `routing` | `Routing.cfg`, `RouteHistory` | `RoutingTypeOK`, `RoutesUnique`, `RouteAsHeard`, `RouteLossJustified`, `NoRouteLeftBehind`, `SilentRouteGoes` |
| `device_ids` | `DeviceIds.cfg`, `DeviceIds` | `IdTypeOK`, `FreshUntilWrap` |
| `network` | `Network.cfg`, `MCNetwork` | `CursorLive`, `BroadcastComplete`, `PacketLossJustified` |
| `network_drain` | `NetworkDrain.cfg`, `MCNetwork` | `NetTypeOK`, `TxForeign`, `QueueDrains` |
| `network_sweep_finding` * | `NetworkSweep.cfg`, `MCNetwork` | `SweepDestroysAll` |
| `hour_store` | `HourStore.cfg`, `MCHourStore` | `StoreTypeOK`, `ImplementsStore`, `LogBecomesDurable` |
| `hour_store_faults` | `HourStoreFaults.cfg`, `MCHourStore` | `NoDuplicateHours`, `CleanHourOnDisk`, `ValueProvenance` |
| `data_sync` | `DataSync.cfg`, `MCDataSync` | `SyncTypeOK`, `ConsumerBehind`, `ImplementsReplica`, `RequestLeaves`, `ChecksRepair` |
| `tcp_server` | `TcpServer.cfg`, `MCTcpServer` | `ServerTypeOK`, `OneClientPerFd`, `TableMatchesClients`, `NoLostWakeup`, `CrashExplained` |
| `tcp_server_live` | `TcpServerLive.cfg`, `TcpServer` | `ClientServed`, `LateClientGoes`, `ShutdownEnds` |
| `pico` | `PicoRuntime.cfg`, `PicoRuntime` | `PicoTypeOK`, `RainConserved`, `DropJustified`, `SlotLoggedOnce` |

* `linked_list`: after any sequence of operations the pointers are one ring with
  `head` and `tail` where they belong, the count is right, and the contents
  change as a bounded sequence would: `list_push` adds at one end, `list_pop` takes
  and returns the item at the other, the oldest, `list_remove` the given one;
  `list_prioritise` is a rotation.
* `routing`: the removal loops never drop a neighbour of the entry they mean,
  never duplicate one, and although a call may miss an entry, a silent device
  loses its route in the end. `RouteAsHeard` compares an entry with everything that
  was heard of its device: it has the shortest distance offered since it exists,
  over a link that offered it, and its age is the time since any link offered that
  distance. So an entry outlives its link only while another link offers the same
  distance (the code refreshes `last_seen` whichever interface the packet came
  over), and longer paths never keep it. `NoRouteLeftBehind` states how far
  `interface_removed` can be relied on: it clears a route over the interface
  unless the entry before it in the table goes as well, or has a dangling
  interface pointer and so may go.
* `device_ids`: two clients that ask before either has announced itself get
  different ids, until the counter overflows.
* `network`: `tx_queue` at pointer level under RIP packets, broadcasts, failing
  and blocked sends, time-outs, routes that vanish, and interfaces that are
  removed while packets are queued for them. The room that is checked before a
  broadcast is expanded suffices to the last copy, since the lock is held.
* `network_drain`: every kind of packet into `network_accept`. Nothing for this
  device enters `tx_queue`. When nothing new comes and interfaces stay as they
  are, the queue empties, even if every send is refused: the delete time-out gets
  rid of what cannot be sent, and the cursor reaches every packet.
* `hour_store`: with a working disk no interleaving of logging, rejected logs,
  reading, checking, eviction and saving can be told from one array of cells, and
  each measurement reaches its file.
* `hour_store_faults`: with every kind of failing save and load and with crashes
  between and inside saves. Measurements can be lost (an eviction ignores the
  result of its save), so `ImplementsStore` does not hold here; what holds is
  that the measurements of a clean hour are on disk, and that no value shows up in
  an hour or sample it was not logged for. A value can be an old one: after an
  eviction whose save failed the file of before is loaded again.
* `data_sync`: packets are lost, late and out of order, routes vanish. No sample
  is invented or moved, no value at the consumer goes away again, no request
  blocks the queue for ever. Nothing is assumed of the checks: `ChecksRepair` says
  that, once routes stay, a hole remains only if the checks of its hour cease (the
  hour has left the window, the round ends before it each time, the viewer forgot
  the hour) or find the queue of requests full; it never happens that checks keep
  coming and what they ask for does not. The repair comes to an end on the hub
  link. What is deliberately not promised is what the code does not do: a value
  that replaces a marker after the check, and whose announcement is lost, never
  reaches the hub, since both sides count the same; and with the viewer the
  exchange never ends where there are markers, because it counts values only.
* `tcp_server`: all interleavings of the five threads with two clients, reused
  addresses and descriptors, failures of `accept`, restarts and shutdown. The table
  and the list agree, a descriptor belongs to one client, the poll thread never
  sleeps on a snapshot that lacks a client without a byte in the pipe to wake it
  (`NoLostWakeup`), and the process dies only in the ways that `CrashExplained`
  lists: a client removed or refused inside `client_connect`, a client that the
  watchdog takes from under the poll thread, a thread that uses the library after
  `zejf_destroy`, a write to a peer that has hung up, or the sweep of `tx_queue`
  for an interface that goes. List and table do not overflow here: that branch
  is covered by the theorems, which hold for all limits.
* `tcp_server_live`: starts when two clients have connected and the poll thread
  still sleeps without knowing them (`ConnectedInit`). What either sends is read,
  although the other may hold up the poll thread; the watchdog removes one client
  per round and yet every silent one in the end; `meteo_stop` ends unless a thread
  was cancelled with a lock in its hands. That exception is real: `close` and
  `read` are cancellation points and are called under `clients_lock`. All this
  depends on peers that behave ([fairness](#5-fairness)).
* `pico`: every tip is in exactly one place at any time, whatever interrupts come
  inside the main loop, across the wrap of the counter and a reboot. A tip is
  dropped only before the clock is set, as the first after boot, while the clock
  is being set or right after, by a reboot, or when the main loop holds the queue
  for a whole interval; the end of an hour drops nothing, and no slot is logged
  twice unless the clock was set in between, not even by an interrupt that finds
  the clock stopped: a log is finished only for the interval after the one it was
  begun in.

## 4. Bounds

* `LinkedList`: five addresses, capacity four. Four nodes give a node that is
  neither head, tail, nor next to the one removed; the fifth address makes the
  choice of a fresh node real when the list is full but one.
* `Routing`: four other devices and a table of three, so that inserts are refused
  at the limit; two interfaces; distances of at most two hops; one of the devices is
  watched (`RouteHistory`). Three slots are the least in which
  a scan meets a removed entry, a skipped one and a third one.
  `ROUTING_ENTRY_TIMEOUT` is 0 units of age: the code only
  tells "too old" from "not too old", and a tick is a separate step.
* `Network`: this device and two more, two interfaces, a `tx_queue` of three (one
  interface and two for the run that varies messages and checks liveness) and an
  `rx_queue` of one, so that both fill up and a broadcast to two devices fits only
  into an otherwise empty queue. Node addresses and interfaces are symmetric: they
  are compared only for equality, in initial states, actions and properties.
  `network_drain`, which checks a liveness property, uses no symmetry.
* `HourStore`: three hours and a cache of two, so that eviction, reload and
  re-creation occur; one sample, since samples of an hour are independent except
  in `calculate_data_check`, which treats each alike; two values where overwriting
  matters, one value in the fault run.
* `DeviceIds`: 8 ids in place of 65536, 3 reserved, a table of 3. The counter
  wraps with devices present.
* `DataSync`: two samples per hour, so that a check can leave out or mark one;
  two hours on the hub link, where it matters which hours the checks reach, and
  windows of one and two hours in place of 1 and 36; one hour on the viewer's; two
  packets in flight on either, so that checks and logs cross and overtake each
  other (`MCHorizon`, `MCMaxWire`). One error in place of 50, a queue of one
  request, so a check that finds it full is common.
* `TcpServer`: two addresses, descriptors, list slots and connections, an
  interface table of three with the USB interface in it, so that neither
  overflows. The liveness run has both clients connected from the start and no
  further connections. The addresses are symmetric in the safety run. 16 bytes in
  the pipe are never reached (`DUMMY_READ` is the code's).
* `PicoRuntime`: two seconds per log and two logs per hour, 13 seconds, so that
  hours end and a log is missed for want of the lock; a counter modulo 3 and 5
  tips, so that it wraps; two times to set the clock to, one reboot.

All state spaces are finite without state constraints.

## 5. Fairness

* `FairRouting`: weak fairness of `routing_table_check`. `run_timer` (server) and
  `zejf_pico_run` (Picos) call it every ten seconds as long as the program runs.
* `FairNet`: weak fairness of `network_send_tx` and `network_process_rx`, which
  `packet_sender_start` calls for as long as packets are queued (the main loop on
  the Picos); of the two loops that hold `zejf_lock`, which run to their end; and
  of time passing. Nothing is assumed of arrivals, interfaces or the results of
  sending. `QueueDrains` is conditional: with arrivals that never stop, the code
  gives no bound, since new packets go in ahead of the cursor.
* `FairStore`: weak fairness of `data_save`, which `run_timer` calls every 30
  seconds. `LogBecomesDurable` is checked with saves that work and no crash; with
  a save that may fail for ever it cannot hold.
* `FairConnected` has two parts. `Scheduled`: weak fairness of each thread, strong
  fairness of its waits for a lock, since a lock that is released again and again
  is some time got. `PeersBehave` is an assumption about the peers that nothing in
  the code ensures: they read what they are sent, so that a blocking `write` under
  `zejf_lock` returns; and the peer that the poll thread is reading from some time
  sends less than a whole buffer, or hangs up. `read` blocks with `clients_lock`
  held, so without the latter the server stands still; devices send RIP packets
  every 5 s as long as they live. Nothing is assumed of time, of failures, nor that
  the threads of `serial.c` have anything to send.
* `SyncFairness`: the sender thread works off the requests (strong, since a route
  may come and go), a packet in flight arrives or is lost, and a log that is sent
  again and again gets through (strong fairness per sample). Nothing is assumed of
  data checks: `run_data_check` has a window and ends early, and the viewer forgets
  hours, so no check recurs for ever. `ChecksRepair` assumes on top of it that
  routes stay from some time on; `RequestLeaves` does not.

## 6. Proofs

Check with `tlapm X.tla`. The theorems hold for every value of the constants that
satisfies the named assumptions of the modules (`ListAssumption`,
`RoutingAssumption`, `IdAssumption`, `NetworkAssumption`, `StoreAssumption`,
`FileMarkers`, `SyncAssumption`, `ServerAssumption`, `PicoAssumption`), which TLC
evaluates for the instances of the runs. One theorem, `CacheTransparent`, has a
hypothesis of its own (`Working`), which the instance of the run `hour_store`
satisfies. Every safety property that a passing run checks is a theorem here,
action properties and the three refinements included.

* **LinkedListProofs.** `ListSafety`: `ListTypeOK` and `RingOK` always hold
  (`ListTypeSafety`: the first alone);
  `ListImplementsRing`: the list implements `BoundedRing`. A ring of pointers has
  no inductive description in terms of the pointers alone without reachability;
  the history variable `order` supplies it. `ListInv` adds to `RingOK` that
  `order` lists exactly the allocated nodes. For a removal the proof computes
  predecessor and successor in `order` and shows that the two redirected links
  are those of the shortened sequence.
* **RoutingProofs.** `RoutingSafety`, `RoutingTypeSafety`, `LossJustified`,
  `RoutesSwept`, `RoutesAsHeard`.
  Both removal loops are `RemoveEntries`, and the lemma `Compaction` gives what
  it does once: the new table is the old one through a strictly increasing map
  that covers exactly the indices kept. The rest follows from that map. For
  `RoutesSwept` one must know which indices the scan really removes:
  `RemovedByScan` is a recursive function, and `ScanRemoves` shows by induction
  that an entry meant to go, whose predecessor is not, does go. `RoutesAsHeard` is
  about `RouteHistory`, whose steps are those of `Routing`; it needs that there is
  one entry per device, since an update touches one entry only.
* **DeviceIdsProofs.** `IdTypeSafety`, `IdsFresh`. The strengthening is that
  until the wrap every id handed out is below `next_free_id`.
* **NetworkProofs.** `NetSafety`: the type invariant (`NetTypeSafety` states it on
  its own), `RingOK` and `CursorLive`. `NetInv` conjoins `ListInv`, `RoutingInv`,
  that each queued node holds a packet, and that the loops' own pointers are where
  they should be. Each step uses the lemmas of the two components through frame
  lemmas (`PushFrame`, `RemoveFrame`: a push or removal leaves the other nodes
  alone), so no pointer reasoning is repeated. `TxQueueForeign` needs more than
  `NetInv`: `TxInv` says of each queued packet that it satisfies what
  `network_send_packet` tested. It is inductive because no step changes the
  addresses of a queued packet (`OnlyQueueable`), so the tests need not be made
  again when it is sent. `BroadcastsComplete` is inductive together with `NetInv`:
  each iteration uses up one free place and one entry of the routing table, and
  pushes disturb no earlier copy. `PacketsLostForAReason` goes through the ways in
  which a node is freed and shows for each that it is the node of `next_packet` or
  of the loop, and why that packet could go.
* **HourStoreProofs.** `StoreWellFormed`, `StoreTypeSafety`, `CleanHoursDurable`,
  `ValuesComeFromLog`, with every outcome of a save or load and with crashes; and
  `CacheTransparent`, the refinement of `SampleStore`. The invariant `StoreInv`
  says of each cached hour that it is cached once, that its measurements were
  logged, and that they are in its file unless it is flagged; an hour created for
  a log that was rejected has none; and of each file that it belongs to its name.
  `ValueProvenance` and `CleanHourOnDisk` each need the other parts: a reload is
  only right because files are in place, and an eviction because there is one copy
  of an hour. Its parts are stated for any queue and any disk, because
  `datahour_get` evicts, then loads, then the caller changes the hour.
  `CacheTransparent` assumes `Working` (saves and loads succeed, no crash:
  otherwise it is false). It follows `Shown`, what a reader of an hour sees with a
  given cache and disk, through `datahour_get` (`GetShows`: nothing changes, since
  an evicted hour is written, modified or not, and no two hours share a file), and
  then through the change that the caller makes (`ReplaceShows`). The invariant
  needs one more part, that no file is torn.
* **DataSyncProofs.** `SyncTypeSafety`, `SyncSafety`, `SyncImplementsReplica`, for
  any number of hours, samples, packets and errors. The inductive invariant is the
  conjunction of the type invariant and `ConsumerBehind`; its second half, about
  packets in flight, is what makes the first inductive, because a log arrives long
  after it was sent. Every action except `process_data_log` leaves the consumer
  alone and only adds to the provider (`Grows`), which is a step of `Replica`'s
  source or none; `process_data_log` is one arrival.
* **TcpServerProofs.** `ServerTypeSafety`, `FdsAreDistinct`, `TableIsList`,
  `NoWakeupLost`, `CrashesExplained`, for any number of clients, descriptors,
  connections and any limits. None of the five is inductive. `ServerInv` says what
  each thread may rely on at each of its program points, in three layers, since
  the code gives up some of it in a race. `Control` holds always: who is inside
  `clients_lock` has a node of the list in hand; a client is in `client_connect`'s
  hands exactly at its three points; the pipe has room for the byte to come.
  `Orderly` holds until `raced`: listed clients are distinct and in use, their
  descriptors distinct and open unless the client is on its way out; the
  descriptor of the client about to be pushed belongs to nobody but one that is on
  its way out, whom `clients_lock` lets leave first; uids grow with the
  connections, so `interface_remove` finds one interface and never the USB
  interface's 0; the table is the USB interface and the listed clients that
  `interface_add` was called for. `Expected` holds until `reaped` too: snapshot
  and events name listed clients, each once, and never the one in hand, so the
  poll thread's own removals do not hurt its later events. `CrashExplained` then
  follows at each use of a client, where the step is not one of the two that may
  kill the process by itself (`Risking`). `NoWakeupLost` rests on the rest of it:
  the snapshot visits every listed client (`VisitsAll`), and after it only
  `client_connect` makes the list longer, which writes its byte later than it
  pushes. Most steps leave most of this alone; the lemmas `SteadyOrder` and
  `UndisturbedExpected` carry it over once for all of them.
* **PicoRuntimeProofs.** `DropsExplained` and `SlotsOnce`, for every interval
  length and any times the clock is set to. Neither is inductive alone: `InStep`
  says that the current log belongs to the interval of the last interrupt that
  found the queue unlocked (unless the clock was set or the lock lasted a whole
  interval), `Labelled` that the newest log is not ahead of the current one nor
  that of the clock; an interrupt with the clock stopped breaks both until the
  clock is set, and `Stopped` says that what it drops is excused. The lemma
  `Intervals` (intervals grow with the time, by at most one within the length of
  one) then excludes a jump over an interval. `RainKept` and `PicoTypeSafety`: the
  sum over the queue, `CountOf`, is a recursive function of prefix sums; the
  lemmas about it (of an empty queue, an appended log, a removed first log) are
  proved by induction. `TipInv` adds to the sum that the lock is held exactly
  while the main loop is in the queue, so that no interrupt appends between the
  write of the oldest log and its removal, and modular arithmetic (`OneMore`,
  `AllRead`) shows that the counter's wrap-around loses nothing. That a count is
  bounded, and so `PicoTypeOK`, follows from the conservation.

Induction. The library's induction theorems take an operator as a parameter, which
the provers do not instantiate. `NatSetInduction` states induction for a set of
numbers instead, and is proved from `WFMin` and the well-foundedness of `<`; the
step that defines a recursive function is proved by exhibiting a function that
satisfies its equations. This covers the recursive functions of `Routing` and
`PicoRuntime`.

Only model-checked: liveness (`SilentRouteGoes`, `QueueDrains`,
`LogBecomesDurable`, `ClientServed`, `LateClientGoes`, `ShutdownEnds`,
`RequestLeaves`, `ChecksRepair`). All of them rest on fairness, hence on
ENABLED, which is out of reach of the prover.

## 7. Findings

`network_interface_removed` (`zejf_network.c:92`) ends too early. After the tail
was removed, the next node is the new tail, which is the loop's end mark. Packets
of the removed interface stay queued with a pointer to it
(`network_sweep_finding`). If the tail was the only packet, the loop goes on with
the freed node.

Behaviours that the properties are worded around, each at its line under
"hazards" in `PROJECT.json`:

* `routing_table_check` and `interface_removed` miss the entry after a removed one
  (`zejf_routing.c:184`). The first is repeated and gets it later
  (`SilentRouteGoes`); the second is not, and leaves a route to a freed interface
  (`NoRouteLeftBehind` says when it does not).
* `routing_find_free_id` resets `id` in place of `next_free_id` when the counter
  overflows (`zejf_routing.c:285`), hence *until the wrap* in `FreshUntilWrap`.
* A packet of the right distance refreshes a route whichever link it came over
  (`zejf_routing.c:168`), so the route may point to a dead link while another one
  offers the same distance (`RouteAsHeard`).
* The races `raced` and `reaped` of the server, the writes that may raise SIGPIPE or
  block under `zejf_lock` (`serial.c:84`), and threads cancelled with a lock
  held ([runs](#3-runs-and-what-they-show), `tcp_server`).
* An interrupt of a Pico that reads the clock while it is being set
  (`zejf_measure.cpp:205`) drops the current log or begins it at a wrong time, which
  the next interrupt puts right.
* What data checks do not repair ([runs](#3-runs-and-what-they-show), `data_sync`).

## 8. What is not modelled

* Text of packets, checksums, log messages; file names beyond their being
  distinct. `zejf_day_path` uses local time, so the hour that the end of daylight
  saving repeats shares a file with its neighbour: `StoreAssumption` excludes it.
* A server clock that is set back: ages only grow.
* `malloc` returning NULL where a queue is not full.
* More than one variable per hour or link: logging, saving and loading treat them
  alike. `run_data_check` does not, it returns for all of them at the first one it
  has nothing of; `DataSync` has that as an end of the round at any hour.
  `provide_ptr` and `demand_ptr`, which take turns between variables, are left out.
  `data_request_receive`: nothing in the repository sends DATA_REQUEST.
* A provider that loses samples it had, for instance with its SD card.
* The commands of the server's operator; one of them, `dummy`, logs without
  `zejf_lock`.
* The TCP client of the Picos (`tcp_handler.c`): callbacks whose order lwIP
  decides; that library is not in the repository. Its line splitting loses what a
  segment leaves over, which is a lost packet in `DataSync`.
* ZejfPress: an interrupt inside a list operation needs the library at the level
  of single assignments.
* SD card handler: its outcomes are among those that `HourStore` gives to
  `hour_save` and `hour_load`; mounting is input and output.
* The viewer beyond its data checks: files, computations, reconnecting, drawing.
* Third-party code in `libs`: FatFs with its Unicode tables, the SD driver and the
  sensor drivers. They are about two thirds of all lines under `src` and none of
  the program's own logic, so a share of all lines says little about how much of
  the program is covered here.

## 9. Plan

1. `TcpClient`: the connection of the Picos, with the rules of lwIP's callbacks as
   an external part.
2. `PressIrq`: list operations as single assignments under an interrupt.
3. `RipMesh`: several instances of the routing rules over changing links; routes
   converge once the links stay.
4. `Framing`: `zejf_protocol.c` and the line splitting of `serial.c`,
   `server.c` and `tcp_handler.c` as functions over small inputs.
