-------------------------- MODULE DataSyncProofs --------------------------
(***************************************************************************)
(* Proofs about the exchange of samples, for any number of hours and       *)
(* samples, any queue size, any number of packets in flight and both       *)
(* links: the types, that the consumer never has more than the provider,   *)
(* and that the two stores are a source and its copy.                      *)
(***************************************************************************)
EXTENDS DataSync, TLAPS, FiniteSetTheorems

SyncInv == SyncTypeOK /\ ConsumerBehind

(* A count of samples of an hour is at most the number of samples per hour. *)
LEMMA CountBound ==
  ASSUME NEW data, NEW h, NEW end, NEW counted
  PROVE  Count(data, h, end, counted) \in 0..SPH
  <1> DEFINE S == {n \in Log : n <= end /\ data[<<h, n>>] \in counted}
  <1>1. /\ IsFiniteSet(Log) /\ Cardinality(Log) = SPH
    BY FS_Interval, SyncAssumption DEF Log
  <1>2. S \in SUBSET Log
    OBVIOUS
  <1>3. IsFiniteSet(S) /\ Cardinality(S) <= Cardinality(Log)
    BY ONLY <1>1, <1>2, FS_Subset
  <1>4. Cardinality(S) \in Nat
    BY <1>3, FS_CardinalityType
  <1>5. Cardinality(S) \in 0..SPH
    BY <1>1, <1>3, <1>4, SyncAssumption
  <1> QED BY <1>5 DEF Count

(* The initial state satisfies the invariant. *)
LEMMA SyncInitInv == SyncInit => SyncInv
  <1> SUFFICES ASSUME SyncInit PROVE SyncInv
    OBVIOUS
  <1>1. SyncTypeOK
    <2>1. requests \in Seq(Request) /\ Len(requests) <= DATA_REQUEST_QUEUE_SIZE
      BY SyncAssumption DEF SyncInit
    <2>2. hour_num \in Hour /\ log_num \in Log
      BY SyncAssumption DEF SyncInit, Hour, Log
    <2>3. provided \in [Slot -> Sample] /\ held \in [Slot -> Sample]
      BY DEF SyncInit, Sample
    <2> QED BY <2>1, <2>2, <2>3 DEF SyncInit, SyncTypeOK
  <1>2. ConsumerBehind
    BY DEF SyncInit, ConsumerBehind, EMPTY
  <1> QED BY <1>1, <1>2 DEF SyncInv

(* No sample of the provider is taken back. *)
Grows == \A s \in Slot : provided[s] <= provided'[s]

(* If the provider's samples only grow, the consumer stays behind, provided that
   it gets nothing and that new packets carry no more than the provider has. *)
LEMMA GrowthKeepsBehind ==
  ASSUME SyncInv, Grows, UNCHANGED held, provided' \in [Slot -> Sample],
         \A m \in wire' : m.type = "DATA_LOG" =>
           m \in wire \/ m.value <= provided'[m.slot]
  PROVE  ConsumerBehind'
  <1>1. provided \in [Slot -> Sample] /\ held \in [Slot -> Sample]
    BY DEF SyncInv, SyncTypeOK
  <1>2. \A s \in Slot : held'[s] <= provided'[s]
    <2> TAKE s \in Slot
    <2>1. held[s] <= provided[s] /\ provided[s] <= provided'[s]
      BY DEF SyncInv, ConsumerBehind, Grows
    <2>2. held[s] \in Sample /\ provided[s] \in Sample /\ provided'[s] \in Sample
      BY <1>1
    <2> QED BY <2>1, <2>2 DEF Sample, EMPTY, NOT_MEASURED, MEASURED
  <1>3. ASSUME NEW m \in wire', m.type = "DATA_LOG" PROVE m.value <= provided'[m.slot]
    <2>1. CASE m \in wire
      <3>1. m.value <= provided[m.slot]
        BY <1>3, <2>1 DEF SyncInv, ConsumerBehind
      <3>2. m \in LogPacket
        BY <1>3, <2>1 DEF SyncInv, SyncTypeOK, LogPacket, CheckPacket
      <3>3. m.slot \in Slot /\ m.value \in Sample
        BY <3>2 DEF LogPacket
      <3>4. provided[m.slot] <= provided'[m.slot]
        BY <3>3 DEF Grows
      <3>5. provided[m.slot] \in Sample /\ provided'[m.slot] \in Sample
        BY <3>3, <1>1
      <3> QED BY <3>1, <3>3, <3>4, <3>5 DEF Sample, EMPTY, NOT_MEASURED, MEASURED
    <2> QED BY <1>3, <2>1
  <1> QED BY <1>2, <1>3 DEF ConsumerBehind

(* data_log at the provider adds to the samples and announces what it added. *)
LEMMA MeasureStep ==
  ASSUME SyncInv, NEW s \in Slot, NEW v \in Sample, Measure(s, v)
  PROVE  SyncInv' /\ Grows /\ UNCHANGED held
  <1> DEFINE m == [type |-> "DATA_LOG", slot |-> s, value |-> v]
  <1>1. /\ provided' = [provided EXCEPT ![s] = v] /\ v > provided[s]
        /\ wire' \subseteq wire \cup {m}
        /\ UNCHANGED <<link, hour_num, log_num, held, known, entry, offered, requests>>
    BY DEF Measure, clock, routes
  <1>2. provided \in [Slot -> Sample]
    BY DEF SyncInv, SyncTypeOK
  <1>3. Grows
    BY <1>1, <1>2 DEF Grows, Sample, EMPTY, NOT_MEASURED, MEASURED
  <1>4. provided' \in [Slot -> Sample]
    BY <1>1, <1>2
  <1>5. m \in LogPacket
    BY DEF LogPacket
  <1>6. SyncTypeOK'
    BY <1>1, <1>4, <1>5 DEF SyncInv, SyncTypeOK
  <1>7. m.value <= provided'[m.slot]
    BY <1>1, <1>2 DEF Sample, EMPTY, NOT_MEASURED, MEASURED
  <1>8. ConsumerBehind'
    BY <1>1, <1>3, <1>4, <1>7, GrowthKeepsBehind
  <1> QED BY <1>1, <1>3, <1>6, <1>8 DEF SyncInv

(* A check of a known kind of end is a packet. *)
LEMMA CheckType ==
  ASSUME NEW h \in Hour, NEW end \in 0..SPH, NEW counted
  PROVE  Check(h, end, counted) \in CheckPacket
  BY CountBound DEF Check, CheckPacket

(* run_data_check asks about past hours only, up to a log of theirs. *)
LEMMA HubCheckType ==
  ASSUME SyncInv, NEW now \in CurrentLogs, NEW window \in Windows, NEW last \in Hour,
         NEW h \in Asked(now, window, last)
  PROVE  Check(h, EndOf(h, now), {NOT_MEASURED, MEASURED}) \in CheckPacket
  <1>1. hour_num \in Hour /\ now \in Log /\ h \in last..hour_num /\ ~TooEarly(h, now)
    BY DEF SyncInv, SyncTypeOK, CurrentLogs, Asked
  <1>2. h \in Hour
    BY <1>1, SyncAssumption DEF Hour
  <1>3. EndOf(h, now) \in 0..SPH
    BY <1>1, SyncAssumption DEF EndOf, TooEarly, Log
  <1> QED BY <1>2, <1>3, CheckType

(* A step that leaves both stores and the requests alone and puts no log on the
   wire keeps the invariant. *)
LEMMA NoLogStep ==
  ASSUME SyncInv, UNCHANGED <<link, provided, held, requests>>,
         hour_num' \in Hour, log_num' \in Log, known' \subseteq Hour,
         entry' \in {"none", "plain", "wants"}, offered' \in BOOLEAN,
         NEW sent \in SUBSET CheckPacket, wire' \subseteq wire \cup sent
  PROVE  SyncInv' /\ Grows
  <1>1. provided \in [Slot -> Sample]
    BY DEF SyncInv, SyncTypeOK
  <1>2. Grows
    BY <1>1 DEF Grows, Sample, EMPTY, NOT_MEASURED, MEASURED
  <1>3. SyncTypeOK'
    BY DEF SyncInv, SyncTypeOK
  <1>4. \A m \in wire' : m.type = "DATA_LOG" => m \in wire
    BY DEF CheckPacket
  <1>5. ConsumerBehind'
    BY <1>1, <1>2, <1>4, GrowthKeepsBehind
  <1> QED BY <1>2, <1>3, <1>5 DEF SyncInv

QuietSteps ==
  \/ Tick \/ RouteUp \/ process_data_demand \/ RouteDown
  \/ process_data_provide \/ ProviderLost
  \/ \E now \in CurrentLogs, window \in Windows, last \in Hour :
       run_data_check(now, window, last)
  \/ \E h \in Hour : sendDataCheck(h) \/ variables_request(h) \/ removeOld(h)
  \/ \E m \in wire : Lose(m)

(* The clock, the routes, checks and losses keep the invariant. *)
LEMMA QuietStep ==
  ASSUME SyncInv, QuietSteps
  PROVE  SyncInv' /\ Grows /\ UNCHANGED held
  <1> USE DEF clock, routes
  <1>0. SyncTypeOK
    BY DEF SyncInv
  <1>1. CASE Tick
    <2>1. hour_num' \in Hour /\ log_num' \in Log
      BY <1>0, <1>1, SyncAssumption DEF Tick, SyncTypeOK, Hour, Log
    <2>2. UNCHANGED <<link, provided, held, requests, known, entry, offered, wire>>
      BY <1>1 DEF Tick
    <2> QED BY <1>0, <2>1, <2>2, NoLogStep DEF SyncTypeOK
  <1>2. CASE RouteUp \/ process_data_demand \/ RouteDown
    <2>1. /\ UNCHANGED <<link, hour_num, log_num, provided, held, requests, known,
                         offered, wire>>
          /\ entry' \in {"none", "plain", "wants"}
      BY <1>2 DEF RouteUp, process_data_demand, RouteDown
    <2> QED BY <1>0, <2>1, NoLogStep DEF SyncTypeOK
  <1>3. CASE process_data_provide \/ ProviderLost
    <2>1. /\ UNCHANGED <<link, hour_num, log_num, provided, held, requests, known,
                         entry, wire>>
          /\ offered' \in BOOLEAN
      BY <1>3 DEF process_data_provide, ProviderLost
    <2> QED BY <1>0, <2>1, NoLogStep DEF SyncTypeOK
  <1>4. ASSUME NEW now \in CurrentLogs, NEW window \in Windows, NEW last \in Hour,
               run_data_check(now, window, last)
        PROVE  SyncInv' /\ Grows /\ UNCHANGED held
    <2> DEFINE sent == {Check(h, EndOf(h, now), {NOT_MEASURED, MEASURED}) :
                          h \in Asked(now, window, last)}
    <2>1. /\ UNCHANGED <<link, hour_num, log_num, provided, held, requests, known,
                         entry, offered>>
          /\ wire' = wire \cup sent
      BY <1>4 DEF run_data_check
    <2>2. sent \in SUBSET CheckPacket
      BY HubCheckType
    <2> QED BY <1>0, <2>1, <2>2, NoLogStep DEF SyncTypeOK
  <1>5. ASSUME NEW h \in Hour, sendDataCheck(h)
        PROVE  SyncInv' /\ Grows /\ UNCHANGED held
    <2>1. /\ UNCHANGED <<link, hour_num, log_num, provided, held, requests, known,
                         entry, offered>>
          /\ wire' = wire \cup {Check(h, SPH, {MEASURED})}
      BY <1>5 DEF sendDataCheck
    <2>2. {Check(h, SPH, {MEASURED})} \in SUBSET CheckPacket
      BY CheckType, SyncAssumption
    <2> QED BY <1>0, <2>1, <2>2, NoLogStep DEF SyncTypeOK
  <1>6. ASSUME NEW h \in Hour, variables_request(h) \/ removeOld(h)
        PROVE  SyncInv' /\ Grows /\ UNCHANGED held
    <2>1. /\ UNCHANGED <<link, hour_num, log_num, provided, held, requests, entry,
                         offered, wire>>
          /\ known' \subseteq known \cup {h}
      BY <1>6 DEF variables_request, removeOld
    <2> QED BY <1>0, <2>1, NoLogStep DEF SyncTypeOK
  <1>7. ASSUME NEW m \in wire, Lose(m)
        PROVE  SyncInv' /\ Grows /\ UNCHANGED held
    <2>1. /\ UNCHANGED <<link, hour_num, log_num, provided, held, requests, known,
                         entry, offered>>
          /\ wire' \subseteq wire
      BY <1>7 DEF Lose
    <2> QED BY <1>0, <2>1, NoLogStep DEF SyncTypeOK
  <1> QED BY <1>1, <1>2, <1>3, <1>4, <1>5, <1>6, <1>7 DEF QuietSteps

(* data_request_add keeps the queue within its size. *)
LEMMA RequestAddType ==
  ASSUME SyncTypeOK, NEW h \in Hour, NEW end \in 0..SPH
  PROVE  /\ data_request_add(h, end) \in Seq(Request)
         /\ Len(data_request_add(h, end)) <= DATA_REQUEST_QUEUE_SIZE
  <1> DEFINE r == [hour |-> h, current_log |-> 0, end_log |-> end, errors |-> 0]
  <1>1. r \in Request
    BY SyncAssumption DEF Request
  <1>2. requests \in Seq(Request) /\ Len(requests) <= DATA_REQUEST_QUEUE_SIZE
    BY DEF SyncTypeOK
  <1>3. Append(requests, r) \in Seq(Request) /\ Len(Append(requests, r)) = Len(requests) + 1
    BY <1>1, <1>2
  <1> QED BY <1>2, <1>3, SyncAssumption DEF data_request_add

(* data_check_receive marks what was not measured, which only adds samples. *)
LEMMA CheckStep ==
  ASSUME SyncInv, NEW m \in wire, data_check_receive(m)
  PROVE  SyncInv' /\ Grows /\ UNCHANGED held
  <1> USE DEF clock, routes
  <1>0. SyncTypeOK /\ provided \in [Slot -> Sample]
    BY DEF SyncInv, SyncTypeOK
  <1>1. /\ UNCHANGED <<link, hour_num, log_num, held, known, entry, offered>>
        /\ wire' \subseteq wire /\ m.type = "DATA_CHECK"
        /\ provided' \in {provided, MarkMissing(m.hour, m.end)}
        /\ requests' \in {requests, data_request_add(m.hour, m.end)}
    BY DEF data_check_receive
  <1>2. m \in CheckPacket
    BY <1>0, <1>1 DEF SyncTypeOK, LogPacket
  <1>3. m.hour \in Hour /\ m.end \in 0..SPH
    BY <1>2 DEF CheckPacket
  <1>4. requests' \in Seq(Request) /\ Len(requests') <= DATA_REQUEST_QUEUE_SIZE
    BY <1>0, <1>1, <1>3, RequestAddType DEF SyncTypeOK
  <1>5. provided' \in [Slot -> Sample] /\ Grows
    <2>1. CASE provided' = provided
      BY <1>0, <2>1 DEF Grows, Sample, EMPTY, NOT_MEASURED, MEASURED
    <2>2. CASE provided' = MarkMissing(m.hour, m.end)
      BY <1>0, <2>1, <2>2 DEF MarkMissing, Grows, Sample, EMPTY, NOT_MEASURED, MEASURED
    <2> QED BY <1>1, <2>1, <2>2
  <1>6. SyncTypeOK'
    BY <1>0, <1>1, <1>4, <1>5 DEF SyncTypeOK
  <1>7. ConsumerBehind'
    BY <1>1, <1>5, GrowthKeepsBehind
  <1> QED BY <1>1, <1>5, <1>6, <1>7 DEF SyncInv

(* One iteration of data_requests_process. *)
LEMMA RequestStep ==
  ASSUME SyncInv, PopRequest \/ RequestFails \/ SendRequested
  PROVE  SyncInv' /\ Grows /\ UNCHANGED held
  <1> USE DEF clock, routes
  <1> DEFINE r == Head(requests)
  <1>0. /\ SyncTypeOK /\ provided \in [Slot -> Sample]
        /\ requests \in Seq(Request) /\ Len(requests) <= DATA_REQUEST_QUEUE_SIZE
        /\ requests # << >>
    BY DEF SyncInv, SyncTypeOK, PopRequest, RequestFails, SendRequested
  <1>1. /\ UNCHANGED <<link, hour_num, log_num, provided, held, known, entry, offered>>
        /\ Grows
    <2>1. UNCHANGED <<link, hour_num, log_num, provided, held, known, entry, offered>>
      BY DEF PopRequest, RequestFails, SendRequested
    <2> QED BY <1>0, <2>1 DEF Grows, Sample, EMPTY, NOT_MEASURED, MEASURED
  <1>2. /\ r \in Request /\ r = requests[1] /\ 1 \in 1..Len(requests)
    BY <1>0
  <1>3. /\ requests' \in Seq(Request) /\ Len(requests') <= DATA_REQUEST_QUEUE_SIZE
    <2>1. CASE PopRequest
      BY <1>0, <2>1, SyncAssumption DEF PopRequest
    <2>2. CASE RequestFails
      <3>1. Failed(r) \in Request
        <4>1. /\ ~(r.errors > MAX_ERRORS) /\ r.errors \in 0..(MAX_ERRORS + 1)
          BY <1>2, <2>2 DEF RequestFails, RequestOver, Request
        <4>2. r.errors + 1 \in 0..(MAX_ERRORS + 1)
          BY <4>1, SyncAssumption
        <4> HIDE DEF r
        <4> QED BY <1>2, <4>2 DEF Failed, Request
      <3>2. requests' = [requests EXCEPT ![1] = Failed(r)]
        BY <1>2, <2>2 DEF RequestFails
      <3> QED BY <1>0, <1>2, <3>1, <3>2
    <2>3. CASE SendRequested
      <3>1. [r EXCEPT !.current_log = @ + 1] \in Request
        <4>1. /\ r.current_log \in Log
          BY <2>3 DEF SendRequested
        <4>2. r.current_log + 1 \in 0..(SPH + 1)
          BY <4>1, SyncAssumption DEF Log
        <4> HIDE DEF r
        <4> QED BY <1>2, <4>2 DEF Request
      <3>2. requests' = [requests EXCEPT ![1] = [r EXCEPT !.current_log = @ + 1]]
        BY <1>2, <2>3 DEF SendRequested
      <3> QED BY <1>0, <1>2, <3>1, <3>2
    <2> QED BY <2>1, <2>2, <2>3
  <1>4. CASE PopRequest \/ RequestFails
    <2>1. UNCHANGED wire
      BY <1>4 DEF PopRequest, RequestFails
    <2>2. SyncTypeOK'
      BY <1>0, <1>1, <1>3, <2>1 DEF SyncTypeOK
    <2>3. ConsumerBehind'
      BY <1>0, <1>1, <2>1, GrowthKeepsBehind
    <2> QED BY <1>1, <2>2, <2>3 DEF SyncInv
  <1>5. CASE SendRequested
    <2> DEFINE p == NextLog(r)
    <2>1. /\ wire' = wire \cup {p} /\ r.current_log \in Log
      BY <1>5 DEF SendRequested
    <2>2. <<r.hour, r.current_log>> \in Slot
      BY <1>2, <2>1 DEF Request, Slot
    <2>3. p \in LogPacket /\ p.slot = <<r.hour, r.current_log>> /\ p.value = provided[p.slot]
      BY <1>0, <2>2 DEF NextLog, LogPacket
    <2>4. p.value <= provided'[p.slot]
      BY <1>0, <1>1, <2>2, <2>3 DEF Sample, EMPTY, NOT_MEASURED, MEASURED
    <2>5. SyncTypeOK'
      BY <1>0, <1>1, <1>3, <2>1, <2>3 DEF SyncTypeOK
    <2>6. ConsumerBehind'
      BY <1>0, <1>1, <2>1, <2>4, GrowthKeepsBehind
    <2> QED BY <1>1, <2>5, <2>6 DEF SyncInv
  <1> QED BY <1>4, <1>5

(* process_data_log puts a packet's value into its own slot, unless it would
   replace a value; a packet carries no more than the provider has. *)
LEMMA DataLogStep ==
  ASSUME SyncInv, NEW m \in wire, process_data_log(m)
  PROVE  /\ SyncInv' /\ UNCHANGED provided
         /\ UNCHANGED held \/ \E s \in Slot : Rep!Arrive(s)
  <1> USE DEF clock, routes
  <1>0. /\ SyncTypeOK
        /\ provided \in [Slot -> Sample] /\ held \in [Slot -> Sample]
    BY DEF SyncInv, SyncTypeOK
  <1>1. /\ UNCHANGED <<link, hour_num, log_num, provided, entry, offered, requests>>
        /\ wire' \subseteq wire /\ m.type = "DATA_LOG"
        /\ known' = known \cup {m.slot[1]}
        /\ \/ UNCHANGED held
           \/ /\ held' = [held EXCEPT ![m.slot] = m.value]
              /\ held[m.slot] = MEASURED => m.value = MEASURED
    BY DEF process_data_log, Accepted
  <1>2. m \in LogPacket
    BY <1>0, <1>1 DEF SyncTypeOK, CheckPacket
  <1>3. m.slot \in Slot /\ m.value \in Sample /\ m.slot[1] \in Hour
    BY <1>2 DEF LogPacket, Slot
  <1>4. m.value <= provided[m.slot]
    BY <1>1 DEF SyncInv, ConsumerBehind
  <1>5. held' \in [Slot -> Sample]
    BY <1>0, <1>1, <1>3
  <1>6. SyncTypeOK'
    BY <1>0, <1>1, <1>3, <1>5 DEF SyncTypeOK
  <1>7. ConsumerBehind'
    <2>1. \A s \in Slot : held'[s] <= provided'[s]
      <3> TAKE s \in Slot
      <3>1. held[s] <= provided[s]
        BY DEF SyncInv, ConsumerBehind
      <3> QED BY <1>0, <1>1, <1>3, <1>4, <3>1
    <2>2. \A p \in wire' : p.type = "DATA_LOG" => p.value <= provided'[p.slot]
      BY <1>1 DEF SyncInv, ConsumerBehind
    <2> QED BY <2>1, <2>2 DEF ConsumerBehind
  <1>8. UNCHANGED held \/ Rep!Arrive(m.slot)
    <2> SUFFICES ASSUME held' # held PROVE Rep!Arrive(m.slot)
      OBVIOUS
    <2>1. /\ held' = [held EXCEPT ![m.slot] = m.value]
          /\ held[m.slot] = MEASURED => m.value = MEASURED
      BY <1>1
    <2>2. held[m.slot] # MEASURED
      BY <1>0, <1>3, <2>1
    <2>3. \E v \in {Rep!Nothing, Rep!Marker, Rep!Value} :
            v <= provided[m.slot] /\ held' = [held EXCEPT ![m.slot] = v]
      BY <1>3, <1>4, <2>1
         DEF Sample, EMPTY, NOT_MEASURED, MEASURED, Rep!Nothing, Rep!Marker, Rep!Value
    <2> QED BY <1>1, <2>2, <2>3 DEF Rep!Arrive, Rep!Value, MEASURED
  <1> QED BY <1>1, <1>3, <1>6, <1>7, <1>8 DEF SyncInv

(* A step in which the provider gains and the consumer gets nothing is one of the
   source, or none. *)
LEMMA GrowthFills ==
  ASSUME SyncInv', Grows, UNCHANGED held
  PROVE  Rep!Fill
  <1>1. provided' \in [Slot -> Sample]
    BY DEF SyncInv, SyncTypeOK
  <1> QED BY <1>1 DEF Grows, Rep!Fill, Sample, EMPTY, NOT_MEASURED, MEASURED,
                    Rep!Nothing, Rep!Marker, Rep!Value

(* Every step keeps the invariant, and is a step of the source or of the copy. *)
LEMMA SyncStep ==
  ASSUME SyncInv, [SyncNext]_syncVars
  PROVE  /\ SyncInv'
         /\ [Rep!Fill \/ \E s \in Slot : Rep!Arrive(s)]_<<provided, held>>
  <1>1. CASE UNCHANGED syncVars
    <2>1. SyncTypeOK'
      BY <1>1 DEF syncVars, SyncInv, SyncTypeOK
    <2>2. ConsumerBehind'
      BY <1>1 DEF syncVars, SyncInv, ConsumerBehind
    <2> QED BY <1>1, <2>1, <2>2 DEF syncVars, SyncInv
  <1>2. CASE SyncNext
    <2>1. ASSUME NEW m \in wire, process_data_log(m)
          PROVE  /\ SyncInv'
                 /\ [Rep!Fill \/ \E s \in Slot : Rep!Arrive(s)]_<<provided, held>>
      BY <2>1, DataLogStep
    <2>2. ASSUME SyncInv', Grows, UNCHANGED held
          PROVE  /\ SyncInv'
                 /\ [Rep!Fill \/ \E s \in Slot : Rep!Arrive(s)]_<<provided, held>>
      BY <2>2, GrowthFills
    <2>3. ASSUME NEW s \in Slot, NEW v \in Sample, Measure(s, v)
          PROVE  SyncInv' /\ Grows /\ UNCHANGED held
      BY <2>3, MeasureStep
    <2>4. CASE QuietSteps
      BY <2>2, <2>4, QuietStep
    <2>5. ASSUME NEW m \in wire, data_check_receive(m)
          PROVE  SyncInv' /\ Grows /\ UNCHANGED held
      BY <2>5, CheckStep
    <2>6. CASE PopRequest \/ RequestFails \/ SendRequested
      BY <2>2, <2>6, RequestStep
    <2> QED BY <1>2, <2>1, <2>2, <2>3, <2>4, <2>5, <2>6 DEF SyncNext, QuietSteps
  <1> QED BY <1>1, <1>2

(* Whatever is lost, repeated, late or given up, and however many hours, samples
   and packets there are: the queue of requests keeps within its size, a request
   within its hour and its errors within their limit. *)
THEOREM SyncTypeSafety == SyncSpec => []SyncTypeOK
  <1>1. SyncInit => SyncInv
    BY SyncInitInv
  <1>2. SyncInv /\ [SyncNext]_syncVars => SyncInv'
    BY SyncStep
  <1>3. SyncInv => SyncTypeOK
    BY DEF SyncInv
  <1> QED BY <1>1, <1>2, <1>3, PTL DEF SyncSpec

(* The consumer never holds more than the provider in any slot, and no packet
   carries more: data checks, requests and late logs invent nothing. *)
THEOREM SyncSafety == SyncSpec => []ConsumerBehind
  <1>1. SyncInit => SyncInv
    BY SyncInitInv
  <1>2. SyncInv /\ [SyncNext]_syncVars => SyncInv'
    BY SyncStep
  <1>3. SyncInv => ConsumerBehind
    BY DEF SyncInv
  <1> QED BY <1>1, <1>2, <1>3, PTL DEF SyncSpec

(* The exchange of samples implements a source and its copy: what a provider has
   is never taken back, a value at the consumer never overwritten, and every
   change at the consumer is the arrival of one slot of the provider. *)
THEOREM SyncImplementsReplica == SyncSpec => ImplementsReplica
  <1>1. SyncInit => SyncInv
    BY SyncInitInv
  <1>2. SyncInit => Rep!Init
    BY DEF SyncInit, Rep!Init, EMPTY, Rep!Nothing
  <1>3. SyncInv /\ [SyncNext]_syncVars =>
          /\ SyncInv'
          /\ [Rep!Fill \/ \E s \in Slot : Rep!Arrive(s)]_<<provided, held>>
    BY SyncStep
  <1> QED BY <1>1, <1>2, <1>3, PTL DEF SyncSpec, ImplementsReplica, Rep!Spec

=============================================================================
