------------------------------ MODULE DataSync ------------------------------
(***************************************************************************)
(* How the samples of one variable get from a provider to a consumer:      *)
(* data_check.c, data_request.c and data_info.c on both sides.  The        *)
(* provider announces each sample once.  What got lost is found by data    *)
(* checks, in which the consumer says how many samples it has; a provider  *)
(* with more of them queues a data request and works it off.  Packets are  *)
(* lost and overtake each other.                                           *)
(*                                                                         *)
(* There are two such links, and Init picks one.  "hub": a device provides *)
(* and the server consumes (run_data_check).  "viewer": the server         *)
(* provides and the viewer consumes; the viewer counts values only, asks   *)
(* for one log more than there is (sendDataCheck), and the server, which   *)
(* does not measure itself, marks nothing.                                 *)
(***************************************************************************)
EXTENDS Integers, Sequences, FiniteSets

CONSTANTS Hours,                     \* bound: hours 1 .. Hours
          Horizon,                   \* bound: the last hour of each link
          SPH,                       \* samples_per_hour
          DATA_CHECK_DELAY, MAX_ERRORS, DATA_REQUEST_QUEUE_SIZE,
          Windows,                   \* hours that run_data_check is called with
          MaxWire,                   \* bound: packets in flight on each link
          Links                      \* subset of {"hub", "viewer"}

ASSUME SyncAssumption ==
  /\ Hours \in Nat \ {0} /\ SPH \in Nat \ {0}
  /\ Horizon \in [Links -> 1..Hours]
  /\ DATA_CHECK_DELAY \in Nat /\ MAX_ERRORS \in Nat
  /\ DATA_REQUEST_QUEUE_SIZE \in Nat /\ MaxWire \in [Links -> Nat]
  /\ Windows \subseteq Nat \ {0}
  /\ Links \subseteq {"hub", "viewer"}

Hour == 1..Hours
Log == 0..(SPH - 1)
Slot == Hour \X Log

(* VALUE_EMPTY, VALUE_NOT_MEASURED, a measured value *)
EMPTY == 0
NOT_MEASURED == 1
MEASURED == 2
Sample == {EMPTY, NOT_MEASURED, MEASURED}

VARIABLES link,
          hour_num, log_num,   \* the clock
          provided,            \* the provider's samples
          held,                \* the consumer's samples
          known,               \* hours that exist at the consumer
          entry,               \* the consumer in the provider's routing table
          offered,             \* the consumer knows the provider's variable
          requests,            \* data_requests_queue of the provider
          wire                 \* packets in flight

syncVars == <<link, hour_num, log_num, provided, held, known, entry, offered,
              requests, wire>>

LogPacket == [type : {"DATA_LOG"}, slot : Slot, value : Sample]
CheckPacket == [type : {"DATA_CHECK"}, hour : Hour, end : 0..SPH, count : 0..SPH]
Request == [hour : Hour, current_log : 0..(SPH + 1), end_log : 0..SPH,
            errors : 0..(MAX_ERRORS + 1)]

SyncInit ==
  /\ link \in Links
  /\ hour_num = 1 /\ log_num = 0
  /\ provided = [s \in Slot |-> EMPTY]
  /\ held = [s \in Slot |-> EMPTY]
  /\ known = {} /\ entry = "none" /\ offered = FALSE
  /\ requests = << >> /\ wire = {}

clock == <<hour_num, log_num>>
routes == <<entry, offered>>

-----------------------------------------------------------------------------
Past(s) == s[1] < hour_num \/ (s[1] = hour_num /\ s[2] <= log_num)

(* data_log at the provider, of a sample or (at the server) of a marker that
   a device sent, at or after its time.  network_announce_log sends it to a
   consumer that demanded it, network_broadcast_log to one that subscribed. *)
Measure(s, v) ==
  /\ Past(s)
  /\ v > provided[s]
  /\ link = "hub" => v = MEASURED
  /\ provided' = [provided EXCEPT ![s] = v]
  /\ IF entry = "wants" /\ Cardinality(wire) < MaxWire[link]
       THEN wire' = wire \cup {[type |-> "DATA_LOG", slot |-> s, value |-> v]}
       ELSE UNCHANGED wire
  /\ UNCHANGED <<link, clock, held, known, routes, requests>>

(* the next sample is due *)
Tick ==
  /\ IF log_num < SPH - 1 THEN log_num' = log_num + 1 /\ UNCHANGED hour_num
     ELSE hour_num < Horizon[link] /\ hour_num' = hour_num + 1 /\ log_num' = 0
  /\ UNCHANGED <<link, provided, held, known, routes, requests, wire>>

(* The provider's entry for the consumer: a RIP packet makes it, DATA_DEMAND
   or DATA_SUBSCRIBE completes it, and what it knew is lost with it. *)
RouteUp ==
  /\ entry = "none" /\ entry' = "plain"
  /\ UNCHANGED <<link, clock, provided, held, known, offered, requests, wire>>

process_data_demand ==
  /\ entry = "plain" /\ entry' = "wants"
  /\ UNCHANGED <<link, clock, provided, held, known, offered, requests, wire>>

RouteDown ==
  /\ entry # "none" /\ entry' = "none"
  /\ UNCHANGED <<link, clock, provided, held, known, offered, requests, wire>>

(* the same at the consumer: DATA_PROVIDE names the variable *)
process_data_provide ==
  /\ link = "hub" /\ ~offered /\ offered' = TRUE
  /\ UNCHANGED <<link, clock, provided, held, known, entry, requests, wire>>

ProviderLost ==
  /\ offered /\ offered' = FALSE
  /\ UNCHANGED <<link, clock, provided, held, known, entry, requests, wire>>

-----------------------------------------------------------------------------
(* calculate_data_check: the samples of hour h up to end *)
Count(data, h, end, counted) ==
  Cardinality({n \in Log : n <= end /\ data[<<h, n>>] \in counted})

Check(h, end, counted) ==
  [type |-> "DATA_CHECK", hour |-> h, end |-> end,
   count |-> Count(held, h, end, counted)]

(* current_log_num of run_data_check, which scales the time of the hour by one
   sample less than there are: it is log_num, or lags by one. *)
CurrentLogs == {n \in Log : n \in {log_num - 1, log_num} /\ (n < SPH - 1 \/ n = 0)}

(* In the current hour DATA_CHECK_DELAY logs are left out, at its beginning the
   whole hour. *)
TooEarly(h, now) == h = hour_num /\ now < DATA_CHECK_DELAY

EndOf(h, now) == IF h = hour_num THEN now - DATA_CHECK_DELAY ELSE SPH - 1

(* run_data_check of the hub goes back from the current hour, as far as the window
   it was called with, and returns at the first hour it has nothing of. *)
Reached(h, now) == \A g \in h..hour_num : g \in known \/ TooEarly(g, now)

(* The hours it asks about, if it gets as far as last: those on its way that are
   not complete. *)
Asked(now, window, last) ==
  {h \in last..hour_num :
     /\ h > hour_num - window /\ ~TooEarly(h, now) /\ Reached(h, now)
     /\ Count(held, h, EndOf(h, now), {NOT_MEASURED, MEASURED}) < SPH}

(* Another variable, of this device or of another, that the hub has nothing of in
   hour last ends the checks of all of them; so does a check that cannot be queued. *)
run_data_check(now, window, last) ==
  /\ link = "hub" /\ offered
  /\ LET sent == {Check(h, EndOf(h, now), {NOT_MEASURED, MEASURED}) :
                    h \in Asked(now, window, last)}
     IN /\ sent # {} /\ Cardinality(wire \cup sent) <= MaxWire[link]
        /\ wire' = wire \cup sent
  /\ UNCHANGED <<link, clock, provided, held, known, routes, requests>>

(* the viewer, for one hour: runDataChecks, sendDataCheck *)
sendDataCheck(h) ==
  /\ link = "viewer" /\ h \in known
  /\ Count(held, h, SPH, {MEASURED}) < SPH
  /\ Cardinality(wire) < MaxWire[link]
  /\ wire' = wire \cup {Check(h, SPH, {MEASURED})}
  /\ UNCHANGED <<link, clock, provided, held, known, routes, requests>>

(* removeOld: an hour not used for 15 minutes is written to its file and no longer
   checked, until it is used again *)
removeOld(h) ==
  /\ link = "viewer" /\ h \in known
  /\ known' = known \ {h}
  /\ UNCHANGED <<link, clock, provided, held, routes, requests, wire>>

(* VARIABLES_REQUEST and its VARIABLE_INFO: the viewer learns that the server
   has the variable in an hour the viewer has not loaded *)
variables_request(h) ==
  /\ link = "viewer" /\ h \notin known
  /\ \E n \in Log : provided[<<h, n>>] # EMPTY
  /\ known' = known \cup {h}
  /\ UNCHANGED <<link, clock, provided, held, routes, requests, wire>>

(* data_check_receive.  Where the provider measures itself, what it has not
   measured by now it never will: calculate_data_check marks it. *)
MarkMissing(h, end) ==
  IF link = "viewer" THEN provided
  ELSE [s \in Slot |-> IF s[1] = h /\ s[2] <= end /\ provided[s] = EMPTY
                         THEN NOT_MEASURED ELSE provided[s]]

(* data_request_add *)
data_request_add_always(h, end) ==
  Append(requests, [hour |-> h, current_log |-> 0, end_log |-> end, errors |-> 0])

data_request_add(h, end) ==
  IF \/ \E i \in 1..Len(requests) : requests[i].hour = h
     \/ Len(requests) >= DATA_REQUEST_QUEUE_SIZE
    THEN requests
    ELSE Append(requests, [hour |-> h, current_log |-> 0, end_log |-> end,
                           errors |-> 0])

(* the consumer says it has fewer samples than there are *)
Lacking_two(ours, theirs) == ours > theirs + 1

Lacking(ours, theirs) == ours > theirs

data_check_receive(m) ==
  /\ m.type = "DATA_CHECK"
  /\ wire' = wire \ {m}
  /\ IF \E n \in Log : provided[<<m.hour, n>>] # EMPTY
       THEN /\ provided' = MarkMissing(m.hour, m.end)
            /\ requests' =
                 IF Lacking(Count(provided', m.hour, m.end, {NOT_MEASURED, MEASURED}),
                            m.count)
                   THEN data_request_add(m.hour, m.end) ELSE requests
       ELSE UNCHANGED <<provided, requests>>
  /\ UNCHANGED <<link, clock, held, known, routes>>

(* One iteration of data_requests_process, for the oldest request: finished or
   given up; failed, for want of a route or because there is no such log; or
   one more log is sent. *)
RequestOver(r) == r.current_log > r.end_log \/ r.errors > MAX_ERRORS

PopRequest ==
  /\ requests # << >> /\ RequestOver(Head(requests))
  /\ requests' = Tail(requests)
  /\ UNCHANGED <<link, clock, provided, held, known, routes, wire>>

Failed_uncounted(r) == r

Failed(r) == [r EXCEPT !.errors = @ + 1]

RequestFails ==
  /\ requests # << >> /\ ~RequestOver(Head(requests))
  /\ entry = "none" \/ Head(requests).current_log \notin Log
  /\ requests' = [requests EXCEPT ![1] = Failed(@)]
  /\ UNCHANGED <<link, clock, provided, held, known, routes, wire>>

(* data_send_log of the log that request r is at *)
NextLog_shifted(r) ==
  [type |-> "DATA_LOG", slot |-> <<r.hour, (r.current_log + 1) % SPH>>,
   value |-> provided[<<r.hour, r.current_log>>]]

NextLog(r) == [type |-> "DATA_LOG", slot |-> <<r.hour, r.current_log>>,
               value |-> provided[<<r.hour, r.current_log>>]]

SendRequested ==
  /\ requests # << >> /\ ~RequestOver(Head(requests))
  /\ entry # "none" /\ Head(requests).current_log \in Log
  /\ Cardinality(wire) < MaxWire[link]
  /\ wire' = wire \cup {NextLog(Head(requests))}
  /\ requests' = [requests EXCEPT ![1].current_log = @ + 1]
  /\ UNCHANGED <<link, clock, provided, held, known, routes>>

(* process_data_log: data_log at the consumer, which does not let a marker or
   nothing replace a value *)
Accepted_any(old, new) == TRUE

Accepted(old, new) == old = MEASURED => new = MEASURED

process_data_log(m) ==
  /\ m.type = "DATA_LOG"
  /\ wire' = wire \ {m}
  /\ known' = known \cup {m.slot[1]}
  /\ held' = IF Accepted(held[m.slot], m.value)
               THEN [held EXCEPT ![m.slot] = m.value] ELSE held
  /\ UNCHANGED <<link, clock, provided, routes, requests>>

Lose(m) ==
  /\ wire' = wire \ {m}
  /\ UNCHANGED <<link, clock, provided, held, known, routes, requests>>

SyncNext ==
  \/ \E s \in Slot, v \in Sample : Measure(s, v)
  \/ Tick
  \/ RouteUp \/ process_data_demand \/ RouteDown
  \/ process_data_provide \/ ProviderLost
  \/ \E now \in CurrentLogs, window \in Windows, last \in Hour :
       run_data_check(now, window, last)
  \/ \E h \in Hour : sendDataCheck(h) \/ variables_request(h) \/ removeOld(h)
  \/ PopRequest \/ RequestFails \/ SendRequested
  \/ \E m \in wire : data_check_receive(m) \/ process_data_log(m) \/ Lose(m)

SyncSpec == SyncInit /\ [][SyncNext]_syncVars

CheckArrives(h) ==
  \E m \in wire : m.type = "DATA_CHECK" /\ m.hour = h /\ data_check_receive(m)

LogArrives(n) ==
  \E m \in wire : m.type = "DATA_LOG" /\ m.slot[2] = n /\ process_data_log(m)

(* packet_sender works off the requests, a packet arrives or is lost, and a log that
   is sent again and again gets through.  Nothing is assumed of the checks. *)
SyncFairness ==
  /\ SF_syncVars(PopRequest \/ RequestFails \/ SendRequested)
  /\ WF_syncVars(\E m \in wire : data_check_receive(m) \/ process_data_log(m) \/ Lose(m))
  /\ \A n \in Log : SF_syncVars(LogArrives(n))

FairSync == SyncSpec /\ SyncFairness

-----------------------------------------------------------------------------
(* Type invariant: the queue of requests never exceeds its size, a request
   stays within its hour and its error count within its limit. *)
SyncTypeOK ==
  /\ link \in Links /\ hour_num \in Hour /\ log_num \in Log
  /\ provided \in [Slot -> Sample] /\ held \in [Slot -> Sample]
  /\ known \subseteq Hour
  /\ entry \in {"none", "plain", "wants"} /\ offered \in BOOLEAN
  /\ requests \in Seq(Request) /\ Len(requests) <= DATA_REQUEST_QUEUE_SIZE
  /\ wire \subseteq LogPacket \cup CheckPacket

(* The consumer never has more than the provider, in any slot, nor is more on
   its way: whatever is lost, repeated or late, no sample is invented and none
   ends up at another time. *)
ConsumerBehind ==
  /\ \A s \in Slot : held[s] <= provided[s]
  /\ \A m \in wire : m.type = "DATA_LOG" => m.value <= provided[m.slot]

(* The two stores behave like a source and its copy: a value that the consumer
   has is never replaced by a marker or by nothing, although old packets arrive
   late. *)
Rep == INSTANCE Replica WITH source <- provided, copy <- held
ImplementsReplica == Rep!Spec

(* A request that cannot be worked off does not block the queue of requests for
   ever: without a route, or asking for a log past the end of the hour, it is
   given up.  Routes may come and go meanwhile. *)
RequestLeaves == []<>(requests = << >> \/ RequestOver(Head(requests)))

RoutesStay == <>[][entry' # "none"]_syncVars

(* a hole: on the hub link a slot of a past hour of which the hub has nothing; at the
   viewer a value that it has not *)
Missing(s) ==
  CASE link = "hub" -> s[1] < hour_num /\ held[s] = EMPTY /\ provided[s] # EMPTY
    [] link = "viewer" -> held[s] # MEASURED /\ provided[s] = MEASURED

(* a check of hour h reaches the provider while there is room for its request *)
CheckHeeded(h) ==
  /\ CheckArrives(h)
  /\ \/ Len(requests) < DATA_REQUEST_QUEUE_SIZE
     \/ \E i \in 1..Len(requests) : requests[i].hour = h

(* Checks repair losses: once routes stay, a hole remains only if the checks of its
   hour cease - because the hour leaves the window of run_data_check, or this never
   gets that far, or the viewer forgets the hour - or find the queue of requests
   full.  It is never for ever that checks come and what they ask for does not,
   although checks and logs cross each other.  And the repair comes to an end on the
   hub link: no request is left or made. *)
ChecksRepair ==
  RoutesStay =>
    /\ \A s \in Slot : <>[]Missing(s) => <>[][~CheckHeeded(s[1])]_syncVars
    /\ link = "hub" => <>[](requests = << >>)

=============================================================================
