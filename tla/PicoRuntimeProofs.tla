------------------------- MODULE PicoRuntimeProofs -------------------------
(***************************************************************************)
(* Proofs about the logs of a Pico, for every length of an interval, every *)
(* number of logs per hour and any times that the clock is set to: tips of *)
(* the gauge are dropped only for the reasons that DropJustified lists, no *)
(* slot is logged twice while the clock is left alone, and every tip is    *)
(* in one place (RainConserved).                                           *)
(***************************************************************************)
EXTENDS PicoRuntime, WellFoundedInduction, TLAPS

(* What the first two rest on, besides types.  In step: unless the clock was set or the
   queue was locked for a whole interval, the current log belongs to the interval
   of the last interrupt that could look at it.  Labelled: the newest log is not
   ahead of the current one, which is not ahead of the clock.  An interrupt that
   reads the clock while it is stopped breaks both until the clock is set. *)
ClockTypes ==
  /\ rtc \in Nat /\ time_set \in BOOLEAN /\ rr_first \in BOOLEAN
  /\ rr_c \in 0..(CountSize - 1) /\ rr_c_last \in 0..(CountSize - 1)
  /\ last_log_num \in Nat /\ log_count \in Nat
  /\ logs_queue \in Seq([label : Int \X Int, count : Nat])
  /\ pc = "pop" => logs_queue # << >>
  /\ skipped \in Nat /\ moved \in BOOLEAN /\ last_label \in Int
  /\ reboots \in Nat

InStep ==
  (pc # "read" /\ time_set /\ ~moved /\ skipped < SecondsPerLog) =>
    skipped <= rtc /\ last_log_num = get_log_num_abs(rtc - skipped)

Labelled ==
  \/ pc = "read" \/ last_label = -1
  \/ last_label <= last_log_num /\ last_log_num <= get_log_num_abs(rtc)

Stopped == pc = "stopped" => moved

PicoInv == ClockTypes /\ InStep /\ Labelled /\ Stopped

(* Numbers of intervals are natural numbers that grow with the time, by at most
   one within the length of an interval. *)
LEMMA Intervals ==
  ASSUME NEW a \in Nat, NEW b \in Nat, a <= b
  PROVE  /\ get_log_num_abs(a) \in Nat
         /\ get_log_num_abs(a) <= get_log_num_abs(b)
         /\ b <= a + SecondsPerLog => get_log_num_abs(b) <= get_log_num_abs(a) + 1
  <1> DEFINE S == SecondsPerLog
  <1> DEFINE p == a \div S
  <1> DEFINE q == b \div S
  <1>0. S \in Nat \ {0}
    BY PicoAssumption
  <1> HIDE DEF S
  <1>1. p \in Int /\ S * p <= a /\ a < S * p + S
    BY <1>0
  <1>2. q \in Int /\ S * q <= b /\ b < S * q + S
    BY <1>0
  <1> HIDE DEF p, q
  <1>3. p >= 0
    <2>1. S * (p + 1) > 0
      BY <1>0, <1>1
    <2> QED BY <2>1, <1>0, <1>1
  <1>4. p <= q
    <2>1. S * (q - p) > S * (-1)
      BY <1>0, <1>1, <1>2
    <2> QED BY <2>1, <1>0, <1>1, <1>2
  <1>5. ASSUME b <= a + S PROVE q <= p + 1
    <2>1. S * (q - p) < S * 2
      BY <1>0, <1>1, <1>2, <1>5
    <2> QED BY <2>1, <1>0, <1>1, <1>2
  <1> QED BY <1>1, <1>3, <1>4, <1>5 DEF get_log_num_abs, p, q, S

(* Tips not counted yet are a natural number, in spite of the wrap-around. *)
LEMMA UncountedType ==
  ASSUME ClockTypes
  PROVE  Uncounted \in Nat
  BY PicoAssumption DEF ClockTypes, Uncounted

(* The state after boot satisfies the invariant. *)
LEMMA PicoInitInv == PicoInit => PicoInv
  <1> SUFFICES ASSUME PicoInit PROVE PicoInv
    OBVIOUS
  <1>1. rtc \in Nat
    BY PicoAssumption DEF PicoInit
  <1>2. rr_c \in 0..(CountSize - 1) /\ rr_c_last \in 0..(CountSize - 1)
    BY PicoAssumption DEF PicoInit
  <1>3. /\ logs_queue \in Seq([label : Int \X Int, count : Nat])
        /\ pc = "pop" => logs_queue # << >>
    BY DEF PicoInit
  <1>4. last_log_num \in Nat /\ log_count \in Nat /\ skipped \in Nat
        /\ last_label \in Int /\ reboots \in Nat
    BY DEF PicoInit
  <1>5. time_set \in BOOLEAN /\ rr_first \in BOOLEAN /\ moved \in BOOLEAN
    BY Zenon DEF PicoInit
  <1>6. ClockTypes
    BY <1>1, <1>2, <1>3, <1>4, <1>5, Zenon DEF ClockTypes
  <1> QED BY <1>6 DEF PicoInit, PicoInv, InStep, Labelled, Stopped

(* What a step other than the timer interrupt has to leave alone. *)
LEMMA FrameStep ==
  ASSUME PicoInv, ClockTypes', pc' = pc \/ (pc # "read" /\ pc' # "stopped"),
         UNCHANGED <<rtc, time_set, last_log_num, skipped, moved, last_label>>
  PROVE  PicoInv'
  <1>1. InStep'
    BY DEF PicoInv, InStep, get_log_num_abs
  <1>2. Labelled'
    BY DEF PicoInv, Labelled, get_log_num_abs
  <1>3. Stopped'
    BY DEF PicoInv, Stopped
  <1> QED BY <1>1, <1>2, <1>3 DEF PicoInv

(* A tip of the gauge is dropped only as the first one. *)
LEMMA TipStep ==
  ASSUME PicoInv, rr_callback
  PROVE  PicoInv' /\ UNCHANGED logs_queue /\ (lost' # lost => ~rr_first)
  <1> USE DEF current
  <1>1. ClockTypes'
    BY PicoAssumption DEF PicoInv, ClockTypes, rr_callback
  <1>2. PicoInv'
    BY <1>1, FrameStep DEF rr_callback
  <1> QED BY <1>2 DEF rr_callback

(* The steps of the main loop drop nothing, and the queue only gets shorter. *)
LEMMA LoopStep ==
  ASSUME PicoInv, LockQueue \/ log_data \/ PopLog \/ UnlockQueue \/ LoopEnds
  PROVE  PicoInv' /\ Len(logs_queue') <= Len(logs_queue) /\ UNCHANGED lost
  <1> USE DEF current, gauge, history
  <1>0. ClockTypes
    BY DEF PicoInv
  <1>1. /\ UNCHANGED <<rtc, time_set, rr_first, rr_c, rr_c_last, last_log_num, log_count,
                       skipped, moved, last_label, reboots, lost>>
        /\ pc # "read" /\ pc' # "stopped"
    BY DEF LockQueue, log_data, PopLog, UnlockQueue, LoopEnds
  <1>2. /\ logs_queue' \in Seq([label : Int \X Int, count : Nat])
        /\ pc' = "pop" => logs_queue' # << >>
        /\ Len(logs_queue') <= Len(logs_queue)
    <2>1. CASE PopLog
      BY <1>0, <2>1 DEF PopLog, ClockTypes
    <2>2. CASE ~PopLog
      BY <1>0, <2>2 DEF LockQueue, log_data, UnlockQueue, LoopEnds, ClockTypes
    <2> QED BY <2>1, <2>2
  <1>3. ClockTypes'
    BY <1>0, <1>1, <1>2 DEF ClockTypes
  <1> QED BY <1>1, <1>2, <1>3, FrameStep

(* Nothing is in step any more once the clock is stopped. *)
LEMMA StopStep ==
  ASSUME PicoInv, StopClock
  PROVE  PicoInv' /\ UNCHANGED <<logs_queue, lost>>
  <1> USE DEF current, gauge
  <1>1. /\ UNCHANGED <<rtc, time_set, rr_first, rr_c, rr_c_last, last_log_num, log_count,
                       logs_queue, lost, skipped, last_label, reboots>>
        /\ pc = "network" /\ pc' = "stopped" /\ moved' = TRUE
    BY DEF StopClock
  <1>2. ClockTypes'
    BY <1>1 DEF PicoInv, ClockTypes
  <1>3. Labelled'
    BY <1>1 DEF PicoInv, Labelled, get_log_num_abs
  <1> QED BY <1>1, <1>2, <1>3 DEF PicoInv, InStep, Stopped

(* Setting the clock and rebooting begin anew. *)
LEMMA AnewStep ==
  ASSUME PicoInv, (\E t \in Clocks : receive_time(t)) \/ Reboot
  PROVE  /\ PicoInv' /\ Len(logs_queue') <= Len(logs_queue)
         /\ lost' # lost => reboots' > reboots
  <1> USE DEF current, gauge
  <1>0. ClockTypes
    BY DEF PicoInv
  <1>1. moved' = TRUE /\ last_label' = -1 /\ rtc' \in Nat
    <2>1. moved' = TRUE /\ last_label' = -1 /\ rtc' \in Clocks
      BY Zenon DEF receive_time, Reboot
    <2> QED BY <2>1, PicoAssumption
  <1>2. CASE \E t \in Clocks : receive_time(t)
    <2>1. ClockTypes'
      BY <1>0, <1>1, <1>2 DEF receive_time, ClockTypes
    <2> QED BY <1>0, <1>1, <1>2, <2>1 DEF receive_time, PicoInv, InStep, Labelled, Stopped, ClockTypes
  <1>3. CASE Reboot
    <2>1. ClockTypes'
      <3>1. rr_c' \in 0..(CountSize - 1) /\ rr_c_last' \in 0..(CountSize - 1)
        BY <1>3, PicoAssumption DEF Reboot
      <3>2. /\ logs_queue' \in Seq([label : Int \X Int, count : Nat])
            /\ pc' = "pop" => logs_queue' # << >>
        BY <1>3 DEF Reboot
      <3>3. last_log_num' \in Nat /\ log_count' \in Nat /\ skipped' \in Nat
            /\ last_label' \in Int /\ reboots' \in Nat
        BY <1>0, <1>3 DEF Reboot, ClockTypes
      <3>4. time_set' \in BOOLEAN /\ rr_first' \in BOOLEAN /\ moved' \in BOOLEAN
        BY <1>3, Zenon DEF Reboot
      <3> QED BY <1>1, <3>1, <3>2, <3>3, <3>4, Zenon DEF ClockTypes
    <2>2. Len(logs_queue') <= Len(logs_queue) /\ reboots' > reboots
      BY <1>0, <1>3 DEF Reboot, ClockTypes
    <2> QED BY <1>1, <2>1, <2>2 DEF PicoInv, InStep, Labelled, Stopped
  <1> QED BY <1>2, <1>3

(* The timer interrupt.  A log that is finished is for the interval after the one
   it was begun in, and one is dropped only if it was out of step before. *)
LEMMA SecondStep ==
  ASSUME PicoInv, Second
  PROVE  /\ PicoInv'
         /\ Len(logs_queue') > Len(logs_queue) => last_label' > last_label
         /\ lost' # lost => ~time_set \/ moved \/ skipped >= SecondsPerLog
  <1> USE DEF current
  <1> DEFINE t == rtc + 1
  <1> DEFINE n == get_log_num_abs(t)
  <1> DEFINE c == log_count + Uncounted
  <1>0. ClockTypes /\ SecondsPerLog \in Nat \ {0} /\ t \in Nat /\ rtc' = t
    BY PicoAssumption DEF PicoInv, ClockTypes, Second
  <1>1. n \in Nat /\ get_log_num_abs(rtc) <= n /\ get_log_num_abs(rtc) \in Nat
    <2>1. rtc \in Nat /\ t \in Nat /\ rtc <= t /\ t <= t
      BY <1>0 DEF ClockTypes
    <2> HIDE DEF t
    <2> QED BY <2>1, Intervals
  <1>2. c \in Nat
    BY <1>0, UncountedType DEF ClockTypes
  <1>3. Label(t) \in Int \X Int
    BY <1>1, PicoAssumption DEF Label
  <1>4. /\ process_measurements(t)
        /\ UNCHANGED <<time_set, rr_first, rr_c, pc, reboots>>
        /\ rr_c_last' = rr_c /\ pc # "read" /\ pc # "stopped"
    BY DEF Second, process_measurements
  <1>5. get_log_num_abs(rtc') = n
    BY <1>0
  <1>9. Stopped'
    BY <1>4 DEF Stopped
  <1> USE <1>9
  <1> HIDE DEF t, n, c
  <1>6. CASE ~time_set
    <2>1. UNCHANGED <<last_log_num, log_count, logs_queue, skipped, moved, last_label>>
      BY <1>4, <1>6 DEF process_measurements
    <2>2. ClockTypes'
      BY <1>0, <1>4, <2>1 DEF ClockTypes
    <2>3. Labelled'
      BY <1>0, <1>1, <1>4, <1>5, <2>1 DEF PicoInv, Labelled, ClockTypes
    <2>4. InStep'
      BY <1>4, <1>6 DEF InStep
    <2> QED BY <1>0, <1>6, <2>1, <2>2, <2>3, <2>4 DEF PicoInv, ClockTypes
  <1>7. CASE time_set /\ queue_lock
    <2>1. /\ UNCHANGED <<last_log_num, logs_queue, lost, moved, last_label>>
          /\ log_count' = c /\ skipped' = Counted(skipped)
      BY <1>4, <1>7 DEF process_measurements, c
    <2>2. ClockTypes'
      BY <1>0, <1>2, <1>4, <2>1 DEF ClockTypes, Counted
    <2>3. Labelled'
      BY <1>0, <1>1, <1>4, <1>5, <2>1 DEF PicoInv, Labelled, ClockTypes
    <2>4. InStep'
      <3> SUFFICES ASSUME time_set', ~moved', skipped' < SecondsPerLog
                   PROVE  skipped' <= rtc' /\ last_log_num' = get_log_num_abs(rtc' - skipped')
        BY DEF InStep, get_log_num_abs
      <3>1. skipped < SecondsPerLog /\ skipped' = skipped + 1
        BY <1>0, <2>1 DEF Counted, ClockTypes
      <3>2. skipped <= rtc /\ last_log_num = get_log_num_abs(rtc - skipped)
        BY <1>4, <2>1, <3>1 DEF PicoInv, InStep
      <3>3. skipped' <= rtc' /\ rtc' - skipped' = rtc - skipped
        BY <1>0, <3>1, <3>2 DEF ClockTypes, t
      <3> QED BY <2>1, <3>2, <3>3
    <2> QED BY <1>0, <2>1, <2>2, <2>3, <2>4 DEF PicoInv, ClockTypes
  <1>8. CASE time_set /\ ~queue_lock
    <2>1. /\ Finish(t, c) /\ last_log_num' = n
          /\ skipped' = 0 /\ moved' = FALSE
      BY <1>4, <1>8 DEF process_measurements, n, c
    <2>2. InStep'
      BY <1>0, <1>5, <2>1 DEF InStep, get_log_num_abs, ClockTypes, n, t
    <2>3. CASE is_ready(t)
      <3>1. /\ logs_queue' = Append(logs_queue, [label |-> Label(t), count |-> c])
            /\ log_count' = 0 /\ last_label' = n /\ UNCHANGED lost
        BY <2>1, <2>3 DEF Finish, n
      <3>2. n = last_log_num + 1
        BY <1>0, <1>1, <2>3 DEF is_ready, ClockTypes, n
      <3>3. [label |-> Label(t), count |-> c] \in [label : Int \X Int, count : Nat]
        BY <1>2, <1>3 DEF t
      <3>4. /\ logs_queue' \in Seq([label : Int \X Int, count : Nat])
            /\ logs_queue' # << >>
        BY <1>0, <3>1, <3>3 DEF ClockTypes
      <3>5. ClockTypes'
        <4>1. /\ rtc' \in Nat /\ last_log_num' \in Nat /\ log_count' \in Nat
              /\ skipped' \in Nat /\ last_label' \in Int /\ reboots' \in Nat
          BY <1>0, <1>1, <1>4, <2>1, <3>1 DEF ClockTypes
        <4>2. /\ time_set' \in BOOLEAN /\ rr_first' \in BOOLEAN /\ moved' \in BOOLEAN
              /\ rr_c' \in 0..(CountSize - 1) /\ rr_c_last' \in 0..(CountSize - 1)
          BY <1>0, <1>4, <2>1, Zenon DEF ClockTypes
        <4> QED BY <3>4, <4>1, <4>2, Zenon DEF ClockTypes
      <3>6. last_label' > last_label
        BY <1>0, <1>1, <1>4, <3>1, <3>2 DEF PicoInv, Labelled, ClockTypes
      <3>7. Labelled'
        BY <1>1, <1>5, <2>1, <3>1 DEF Labelled
      <3> QED BY <2>2, <3>1, <3>5, <3>6, <3>7 DEF PicoInv
    <2>4. CASE ~is_ready(t)
      <3>1. /\ UNCHANGED <<logs_queue, last_label>> /\ log_count' \in Nat
            /\ lost' # lost => n # last_log_num
        BY <1>2, <2>1, <2>4 DEF Finish, n
      <3>2. ClockTypes'
        BY <1>0, <1>1, <1>4, <2>1, <3>1 DEF ClockTypes
      <3>3. Labelled'
        BY <1>0, <1>1, <1>4, <1>5, <2>1, <3>1 DEF PicoInv, Labelled, ClockTypes
      <3>4. ASSUME lost' # lost, ~moved, skipped < SecondsPerLog PROVE FALSE
        <4>1. skipped <= rtc /\ last_log_num = get_log_num_abs(rtc - skipped)
          BY <1>4, <1>8, <3>4 DEF PicoInv, InStep
        <4>2. /\ rtc - skipped \in Nat /\ rtc - skipped <= t
              /\ t <= (rtc - skipped) + SecondsPerLog
          BY <1>0, <3>4, <4>1 DEF ClockTypes, t
        <4>3. last_log_num <= n /\ n <= last_log_num + 1
          BY <1>0, <4>1, <4>2, Intervals DEF n
        <4>4. n - last_log_num # 1
          BY <2>4 DEF is_ready, n
        <4> QED BY <1>0, <1>1, <3>1, <3>4, <4>3, <4>4 DEF ClockTypes
      <3>5. ~(Len(logs_queue') > Len(logs_queue))
        BY <1>0, <3>1 DEF ClockTypes
      <3>6. lost' # lost => moved \/ skipped >= SecondsPerLog
        BY <1>0, <3>4 DEF ClockTypes
      <3> QED BY <2>2, <3>2, <3>3, <3>5, <3>6, Zenon DEF PicoInv
    <2> QED BY <2>3, <2>4
  <1> QED BY <1>0, <1>6, <1>7, <1>8 DEF ClockTypes

(* The same while the clock is stopped: whatever time the interrupt takes it to be,
   a log that is finished is for the interval after the one it was begun in. *)
LEMMA StoppedStep ==
  ASSUME PicoInv, NEW t \in 0..MaxTime, SecondStopped(t)
  PROVE  /\ PicoInv' /\ pc = "stopped"
         /\ Len(logs_queue') > Len(logs_queue) => last_label' > last_label
  <1> USE DEF current
  <1> DEFINE n == get_log_num_abs(t)
  <1> DEFINE c == log_count + Uncounted
  <1>0. ClockTypes /\ t \in Nat
    BY PicoAssumption DEF PicoInv
  <1>1. n \in Nat
    BY <1>0, Intervals
  <1>2. c \in Nat
    BY <1>0, UncountedType DEF ClockTypes
  <1>3. Label(t) \in Int \X Int
    BY <1>1, PicoAssumption DEF Label
  <1>4. /\ process_measurements(t)
        /\ UNCHANGED <<rtc, time_set, rr_first, rr_c, reboots>>
        /\ rr_c_last' = rr_c /\ pc' = "read"
    BY DEF SecondStopped, process_measurements
  <1> HIDE DEF n, c
  <1>5. InStep' /\ Labelled' /\ Stopped' /\ pc = "stopped"
    BY <1>4 DEF InStep, Labelled, Stopped, SecondStopped
  <1>6. CASE ~(time_set /\ ~queue_lock)
    <2>1. /\ UNCHANGED <<last_log_num, logs_queue, moved, last_label>>
          /\ log_count' \in {log_count, c} /\ skipped' \in {skipped, Counted(skipped)}
      BY <1>4, <1>6 DEF process_measurements, c
    <2>2. ClockTypes'
      BY <1>0, <1>2, <1>4, <2>1 DEF ClockTypes, Counted
    <2> QED BY <1>0, <1>5, <2>1, <2>2 DEF PicoInv, ClockTypes
  <1>7. CASE time_set /\ ~queue_lock
    <2>1. /\ Finish(t, c) /\ last_log_num' = n
          /\ skipped' = 0 /\ moved' = FALSE
      BY <1>4, <1>7 DEF process_measurements, n, c
    <2>2. CASE is_ready(t)
      <3>1. /\ logs_queue' = Append(logs_queue, [label |-> Label(t), count |-> c])
            /\ log_count' = 0 /\ last_label' = n
        BY <2>1, <2>2 DEF Finish, n
      <3>2. n = last_log_num + 1
        BY <1>0, <1>1, <2>2 DEF is_ready, ClockTypes, n
      <3>3. [label |-> Label(t), count |-> c] \in [label : Int \X Int, count : Nat]
        BY <1>2, <1>3
      <3>4. logs_queue' \in Seq([label : Int \X Int, count : Nat])
        BY <1>0, <3>1, <3>3 DEF ClockTypes
      <3>5. ClockTypes'
        <4>1. /\ rtc' \in Nat /\ last_log_num' \in Nat /\ log_count' \in Nat
              /\ skipped' \in Nat /\ last_label' \in Int /\ reboots' \in Nat
              /\ pc' # "pop"
          BY <1>0, <1>1, <1>4, <2>1, <3>1 DEF ClockTypes
        <4>2. /\ time_set' \in BOOLEAN /\ rr_first' \in BOOLEAN /\ moved' \in BOOLEAN
              /\ rr_c' \in 0..(CountSize - 1) /\ rr_c_last' \in 0..(CountSize - 1)
          BY <1>0, <1>4, <2>1, Zenon DEF ClockTypes
        <4> QED BY <3>4, <4>1, <4>2, Zenon DEF ClockTypes
      <3>6. last_label' > last_label
        BY <1>0, <1>1, <1>5, <3>1, <3>2 DEF PicoInv, Labelled, ClockTypes
      <3> QED BY <1>5, <3>5, <3>6 DEF PicoInv
    <2>3. CASE ~is_ready(t)
      <3>1. UNCHANGED <<logs_queue, last_label>> /\ log_count' \in Nat
        BY <1>2, <2>1, <2>3 DEF Finish
      <3>2. ClockTypes'
        BY <1>0, <1>1, <1>4, <2>1, <3>1 DEF ClockTypes
      <3> QED BY <1>0, <1>5, <3>1, <3>2 DEF PicoInv, ClockTypes
    <2> QED BY <2>2, <2>3
  <1> QED BY <1>6, <1>7

(* What may be dropped, and what a new label is, in one step. *)
DropReason == \/ ~time_set \/ moved \/ ~rr_first \/ reboots' > reboots
              \/ skipped >= SecondsPerLog

(* Every step keeps the invariant, drops tips for a reason only, and labels a new
   log later than the one before. *)
LEMMA PicoStep ==
  ASSUME PicoInv, [PicoNext]_picoVars
  PROVE  /\ PicoInv'
         /\ lost' # lost => DropReason
         /\ Len(logs_queue') > Len(logs_queue) => last_label' > last_label
  <1>0. Len(logs_queue) \in Nat
    BY DEF PicoInv, ClockTypes
  <1>1. CASE UNCHANGED picoVars
    <2>1. ClockTypes'
      BY <1>1 DEF picoVars, gauge, current, history, PicoInv, ClockTypes
    <2> QED BY <1>0, <1>1, <2>1, FrameStep DEF picoVars, gauge, current, history
  <1>2. CASE rr_callback
    BY <1>0, <1>2, TipStep DEF DropReason
  <1>3. CASE LockQueue \/ log_data \/ PopLog \/ UnlockQueue \/ LoopEnds
    <2>1. PicoInv' /\ Len(logs_queue') <= Len(logs_queue) /\ UNCHANGED lost
      BY <1>3, LoopStep
    <2>2. Len(logs_queue') \in Nat
      BY <2>1 DEF PicoInv, ClockTypes
    <2> QED BY <1>0, <2>1, <2>2
  <1>4. CASE (\E t \in Clocks : receive_time(t)) \/ Reboot
    <2>1. /\ PicoInv' /\ Len(logs_queue') <= Len(logs_queue)
          /\ lost' # lost => reboots' > reboots
      BY <1>4, AnewStep
    <2>2. Len(logs_queue') \in Nat
      BY <2>1 DEF PicoInv, ClockTypes
    <2> QED BY <1>0, <2>1, <2>2 DEF DropReason
  <1>5. CASE Second
    BY <1>5, SecondStep DEF DropReason
  <1>6. CASE StopClock
    BY <1>0, <1>6, StopStep
  <1>7. CASE \E t \in 0..MaxTime : SecondStopped(t)
    <2>1. /\ PicoInv' /\ pc = "stopped"
          /\ Len(logs_queue') > Len(logs_queue) => last_label' > last_label
      BY <1>7, StoppedStep
    <2>2. moved
      BY <2>1 DEF PicoInv, Stopped
    <2> QED BY <2>1, <2>2 DEF DropReason
  <1> QED BY <1>1, <1>2, <1>3, <1>4, <1>5, <1>6, <1>7 DEF PicoNext

(* For every sample rate and every way in which the clock is set, interrupts come
   and the main loop holds the queue: tips are dropped only before the time is
   set, at a change of the clock, as the first after boot, by a reboot, or after
   an interval with the queue locked. *)
THEOREM DropsExplained == PicoSpec => DropJustified
  <1>1. PicoInit => PicoInv
    BY PicoInitInv
  <1>2. PicoInv /\ [PicoNext]_picoVars =>
          /\ PicoInv'
          /\ [lost' # lost => \/ ~time_set \/ moved \/ ~rr_first \/ reboots' > reboots
                              \/ skipped >= SecondsPerLog]_picoVars
    BY PicoStep DEF DropReason
  <1> QED BY <1>1, <1>2, PTL DEF PicoSpec, DropJustified

(* For every sample rate, no slot is logged twice unless the clock was set in
   between: each log that the timer interrupt queues has a later label than the
   one before. *)
THEOREM SlotsOnce == PicoSpec => SlotLoggedOnce
  <1>1. PicoInit => PicoInv
    BY PicoInitInv
  <1>2. PicoInv /\ [PicoNext]_picoVars =>
          /\ PicoInv'
          /\ [Len(logs_queue') > Len(logs_queue) => last_label' > last_label]_picoVars
    BY PicoStep
  <1> QED BY <1>1, <1>2, PTL DEF PicoSpec, SlotLoggedOnce

-----------------------------------------------------------------------------
(* Induction, for a set of numbers: the form of it that the provers can use. *)
LEMMA NatSetInduction ==
  ASSUME NEW S, 0 \in S, \A k \in Nat : k \in S => k + 1 \in S
  PROVE  Nat \subseteq S
  <1> DEFINE T == Nat \ S
  <1> SUFFICES ASSUME T # {} PROVE FALSE
    OBVIOUS
  <1>1. IsWellFoundedOn(OpToRel(<,Nat), Nat)
    BY NatLessThanWellFounded, Zenon
  <1>2. PICK x \in T : \A y \in T : ~(<<y, x>> \in OpToRel(<,Nat))
    BY <1>1, WFMin, Zenon
  <1>3. x # 0 /\ x - 1 \in Nat
    OBVIOUS
  <1>4. x - 1 \in T
    BY <1>3
  <1>5. <<x - 1, x>> \in OpToRel(<,Nat)
    BY <1>3, SMT DEF OpToRel
  <1> QED BY <1>2, <1>4, <1>5, Zenon

Log == [label : Int \X Int, count : Nat]

(* T holds the sums of the first logs *)
Sums(T, logs, n) ==
  /\ T \in [0..n -> Nat] /\ T[0] = 0
  /\ \A i \in 1..n : T[i] = T[i - 1] + logs[i].count

(* There are such sums, *)
LEMMA SumsExist ==
  ASSUME NEW logs \in Seq(Log)
  PROVE  \E T : Sums(T, logs, Len(logs))
  <1> DEFINE S == {k \in Nat : k <= Len(logs) => \E T : Sums(T, logs, k)}
  <1>1. 0 \in S
    <2>1. Sums([i \in 0..0 |-> 0], logs, 0)
      BY DEF Sums
    <2> QED BY <2>1
  <1>2. ASSUME NEW k \in Nat, k \in S PROVE k + 1 \in S
    <2> SUFFICES ASSUME k + 1 <= Len(logs)
                 PROVE  \E T : Sums(T, logs, k + 1)
      OBVIOUS
    <2>1. Len(logs) \in Nat /\ k <= Len(logs) /\ k + 1 \in 1..Len(logs)
      OBVIOUS
    <2>2. PICK T : Sums(T, logs, k)
      BY <1>2, <2>1
    <2>3. logs[k + 1] \in Log
      BY <2>1
    <2>4. logs[k + 1].count \in Nat
      BY <2>3 DEF Log
    <2> DEFINE U == [i \in 0..(k + 1) |->
                       IF i = k + 1 THEN T[k] + logs[k + 1].count ELSE T[i]]
    <2>5. U \in [0..(k + 1) -> Nat] /\ U[0] = 0
      BY <2>2, <2>4 DEF Sums
    <2>6. ASSUME NEW i \in 1..(k + 1) PROVE U[i] = U[i - 1] + logs[i].count
      BY <2>2 DEF Sums
    <2> HIDE DEF U
    <2>7. Sums(U, logs, k + 1)
      BY <2>5, <2>6 DEF Sums
    <2> QED BY <2>7
  <1> HIDE DEF S
  <1>3. Len(logs) \in S
    BY <1>1, <1>2, NatSetInduction
  <1> QED BY <1>3 DEF S

(* and CountOf is the last of them. *)
LEMMA CountIsSum ==
  ASSUME NEW logs \in Seq(Log), NEW T, Sums(T, logs, Len(logs))
  PROVE  CountOf(logs) = T[Len(logs)]
  <1> DEFINE n == Len(logs)
             F(f) == [i \in 0..n |-> IF i = 0 THEN 0 ELSE f[i - 1] + logs[i].count]
             total == CHOOSE f : f = F(f)
  <1>0. n \in Nat
    OBVIOUS
  <1>1. T = F(T)
    <2>1. \A i \in 0..n : T[i] = IF i = 0 THEN 0 ELSE T[i - 1] + logs[i].count
      BY <1>0 DEF Sums
    <2>2. T \in [0..n -> Nat]
      BY DEF Sums
    <2> QED BY <2>1, <2>2
  <1>2. total = F(total)
    <2> HIDE DEF F
    <2> QED BY <1>1, Zenon
  <1> HIDE DEF total
  <1> DEFINE S == {k \in Nat : k <= n => total[k] = T[k]}
  <1>3. 0 \in S
    BY <1>0, <1>2 DEF Sums
  <1>4. ASSUME NEW k \in Nat, k \in S PROVE k + 1 \in S
    <2> SUFFICES ASSUME k + 1 <= n PROVE total[k + 1] = T[k + 1]
      OBVIOUS
    <2>1. k \in 0..n /\ k + 1 \in 1..n /\ (k + 1) - 1 = k /\ total[k] = T[k]
      BY <1>0, <1>4
    <2>2. total[k + 1] = total[k] + logs[k + 1].count
      BY <1>0, <1>2, <2>1
    <2>3. T[k + 1] = T[k] + logs[k + 1].count
      BY <2>1 DEF Sums
    <2> QED BY <2>1, <2>2, <2>3
  <1> HIDE DEF S
  <1>5. n \in S
    BY <1>0, <1>3, <1>4, NatSetInduction
  <1>6. total[n] = T[n]
    BY <1>0, <1>5 DEF S
  <1> QED BY <1>6, Zenon DEF CountOf, total

(* Sums grow. *)
LEMMA SumsGrow ==
  ASSUME NEW logs \in Seq(Log), NEW T, Sums(T, logs, Len(logs)),
         NEW i \in 1..Len(logs), NEW l \in i..Len(logs)
  PROVE  T[i] <= T[l]
  <1> DEFINE n == Len(logs)
             S == {k \in Nat : i + k <= n => T[i] <= T[i + k]}
  <1>0. n \in Nat /\ i \in 1..n /\ T \in [0..n -> Nat]
    BY DEF Sums
  <1>1. 0 \in S
    BY <1>0
  <1>2. ASSUME NEW k \in Nat, k \in S PROVE k + 1 \in S
    <2> SUFFICES ASSUME i + (k + 1) <= n PROVE T[i] <= T[i + (k + 1)]
      OBVIOUS
    <2> DEFINE j == i + (k + 1)
    <2>1. j \in 1..n /\ j - 1 = i + k /\ j - 1 \in 0..n /\ i \in 0..n /\ j \in 0..n
      BY <1>0
    <2>2. T[i] <= T[j - 1]
      BY <1>0, <1>2, <2>1
    <2>3. T[j] = T[j - 1] + logs[j].count
      BY <2>1 DEF Sums
    <2>4. logs[j] \in Log
      BY <2>1
    <2> HIDE DEF j
    <2>5. logs[j].count \in Nat /\ T[i] \in Nat /\ T[j] \in Nat /\ T[j - 1] \in Nat
      BY <1>0, <2>1, <2>4 DEF Log
    <2>6. T[i] <= T[j]
      BY <2>2, <2>3, <2>5
    <2> QED BY <2>6 DEF j
  <1> HIDE DEF S
  <1>3. l - i \in S /\ i + (l - i) = l /\ l <= n
    BY <1>0, <1>1, <1>2, NatSetInduction
  <1> QED BY <1>3 DEF S

(* No logs have no tips. *)
LEMMA CountEmpty == CountOf(<< >>) = 0
  <1>1. << >> \in Seq(Log) /\ Len(<< >>) = 0
    OBVIOUS
  <1>2. PICK T : Sums(T, << >>, Len(<< >>))
    BY <1>1, SumsExist
  <1>3. CountOf(<< >>) = T[Len(<< >>)]
    BY <1>1, <1>2, CountIsSum
  <1> QED BY <1>1, <1>2, <1>3 DEF Sums

(* CountOf is a number, and no log has more tips than all together. *)
LEMMA CountType ==
  ASSUME NEW logs \in Seq(Log)
  PROVE  /\ CountOf(logs) \in Nat
         /\ \A i \in 1..Len(logs) : logs[i].count <= CountOf(logs)
  <1> DEFINE n == Len(logs)
  <1>1. PICK T : Sums(T, logs, n)
    BY SumsExist
  <1>2. CountOf(logs) = T[n]
    BY <1>1, CountIsSum
  <1>3. n \in Nat /\ T[n] \in Nat
    BY <1>1 DEF Sums
  <1>4. ASSUME NEW i \in 1..n PROVE logs[i].count <= T[n]
    <2>1. T[i] <= T[n]
      BY <1>1, <1>3, SumsGrow
    <2>2. T[i] = T[i - 1] + logs[i].count /\ T[i] \in Nat /\ T[i - 1] \in Nat
      BY <1>1, <1>3 DEF Sums
    <2>3. logs[i] \in Log
      OBVIOUS
    <2>4. logs[i].count \in Nat
      BY <2>3 DEF Log
    <2> QED BY <1>3, <2>1, <2>2, <2>4
  <1> QED BY <1>2, <1>3, <1>4

(* A log that is queued adds its tips. *)
LEMMA CountAppend ==
  ASSUME NEW logs \in Seq(Log), NEW e \in Log
  PROVE  CountOf(Append(logs, e)) = CountOf(logs) + e.count
  <1> DEFINE n == Len(logs)
             more == Append(logs, e)
  <1>1. PICK T : Sums(T, more, Len(more))
    <2>1. more \in Seq(Log)
      OBVIOUS
    <2> QED BY <2>1, SumsExist
  <1>2. more \in Seq(Log) /\ Len(more) = n + 1 /\ n \in Nat
        /\ more[n + 1] = e /\ \A i \in 1..n : more[i] = logs[i]
    OBVIOUS
  <1> DEFINE U == [i \in 0..n |-> T[i]]
  <1> HIDE DEF more
  <1>3. Sums(U, logs, n)
    BY <1>1, <1>2 DEF Sums
  <1>4. U[n] = T[n] /\ T[n + 1] = T[n] + e.count
    BY <1>1, <1>2 DEF Sums
  <1> HIDE DEF U
  <1>5. CountOf(logs) = U[n] /\ CountOf(more) = T[n + 1]
    BY <1>1, <1>2, <1>3, CountIsSum
  <1> QED BY <1>4, <1>5 DEF more

(* The oldest log takes its tips away. *)
LEMMA CountTail ==
  ASSUME NEW logs \in Seq(Log), logs # << >>
  PROVE  CountOf(logs) = CountOf(Tail(logs)) + Head(logs).count
  <1> DEFINE n == Len(logs)
             rest == Tail(logs)
  <1>1. /\ rest \in Seq(Log) /\ n \in Nat \ {0} /\ Len(rest) = n - 1
        /\ Head(logs) = logs[1] /\ \A i \in 1..(n - 1) : rest[i] = logs[i + 1]
    OBVIOUS
  <1>2. PICK T : Sums(T, logs, n)
    BY SumsExist
  <1>3. CountOf(logs) = T[n]
    BY <1>2, CountIsSum
  <1> HIDE DEF rest
  <1> DEFINE U == [i \in 0..(n - 1) |-> T[i + 1] - T[1]]
  <1>4. \A i \in 1..n : T[i] \in Nat /\ T[1] <= T[i]
    <2>1. T \in [0..n -> Nat]
      BY <1>2 DEF Sums
    <2>2. ASSUME NEW i \in 1..n PROVE T[1] <= T[i]
      <3>1. 1 \in 1..n /\ i \in 1..n
        BY <1>1
      <3> QED BY <1>2, <3>1, SumsGrow
    <2> QED BY <1>1, <2>1, <2>2
  <1>5. U \in [0..(n - 1) -> Nat] /\ U[0] = 0
    BY <1>1, <1>4
  <1>6. ASSUME NEW i \in 1..(n - 1) PROVE U[i] = U[i - 1] + rest[i].count
    <2>1. i + 1 \in 1..n /\ (i + 1) - 1 = i /\ i - 1 \in 0..(n - 1) /\ i \in 0..(n - 1)
          /\ (i - 1) + 1 = i /\ i \in 1..n /\ 1 \in 1..n
      BY <1>1
    <2>2. T[i + 1] = T[i] + rest[i].count
      BY <1>1, <1>2, <2>1 DEF Sums
    <2>3. logs[i + 1] \in Log /\ rest[i] = logs[i + 1]
      BY <1>1, <2>1
    <2>4. rest[i].count \in Nat
      BY <2>3 DEF Log
    <2>5. U[i] = T[i + 1] - T[1] /\ U[i - 1] = T[i] - T[1]
      BY <2>1
    <2> HIDE DEF U
    <2> QED BY <1>4, <2>1, <2>2, <2>4, <2>5
  <1> HIDE DEF U
  <1>7. Sums(U, rest, Len(rest))
    BY <1>1, <1>5, <1>6 DEF Sums
  <1>8. CountOf(rest) = U[n - 1]
    BY <1>1, <1>7, CountIsSum
  <1>9. U[n - 1] = T[n] - T[1] /\ T[1] = 0 + logs[1].count /\ 1 \in 1..n
    BY <1>1, <1>2 DEF U, Sums
  <1>10. logs[1].count \in Nat
    <2>1. logs[1] \in Log
      BY <1>1
    <2> QED BY <2>1 DEF Log
  <1> QED BY <1>1, <1>3, <1>4, <1>8, <1>9, <1>10 DEF rest

-----------------------------------------------------------------------------
(* The remainder of a number less than one modulus away from the range. *)
LEMMA Remainder ==
  ASSUME NEW N \in Nat \ {0}, NEW a \in Int, NEW k \in Int,
         0 <= a - N * k, a - N * k < N
  PROVE  a % N = a - N * k
  <1> DEFINE q == a \div N
             r == a % N
  <1>1. q \in Int /\ r \in Int /\ a = N * q + r /\ 0 <= r /\ r < N
    OBVIOUS
  <1> HIDE DEF q, r
  <1>2. q = k
    <2>1. N * (q - k) < N * 1 /\ N * (q - k) > N * (-1)
      BY <1>1
    <2>2. q - k < 1 /\ q - k > -1
      BY <1>1, <2>1
    <2> QED BY <1>1, <2>2
  <1>3. a = N * k + r
    BY <1>1, <1>2, Zenon
  <1>4. r = a - N * k
    BY <1>1, <1>3
  <1> QED BY <1>4 DEF r

(* How many tips are uncounted, whether the counter has wrapped around or not. *)
LEMMA Distance ==
  ASSUME NEW x \in 0..(CountSize - 1), NEW y \in 0..(CountSize - 1)
  PROVE  (x - y) % CountSize = IF x >= y THEN x - y ELSE x - y + CountSize
  <1> DEFINE N == CountSize
             a == x - y
  <1>1. N \in Nat \ {0} /\ x \in 0..(N - 1) /\ y \in 0..(N - 1)
    BY PicoAssumption
  <1>2. a \in Int /\ 0 \in Int /\ -1 \in Int
    BY <1>1
  <1>3. ASSUME x >= y PROVE a % N = a - N * 0
    <2>1. 0 <= a - N * 0 /\ a - N * 0 < N
      BY <1>1, <1>3
    <2> HIDE DEF a, N
    <2> QED BY <1>1, <1>2, <2>1, Remainder
  <1>4. ASSUME ~(x >= y) PROVE a % N = a - N * (-1)
    <2>1. 0 <= a - N * (-1) /\ a - N * (-1) < N
      BY <1>1, <1>4
    <2> HIDE DEF a, N
    <2> QED BY <1>1, <1>2, <2>1, Remainder
  <1>5. a - N * 0 = a /\ a - N * (-1) = a + N
    BY <1>1, <1>2
  <1> QED BY <1>3, <1>4, <1>5

(* The counter after one more tip. *)
LEMMA CounterNext ==
  ASSUME NEW x \in 0..(CountSize - 1)
  PROVE  (x + 1) % CountSize = IF x = CountSize - 1 THEN 0 ELSE x + 1
  <1> DEFINE N == CountSize
             a == x + 1
  <1>1. N \in Nat \ {0} /\ x \in 0..(N - 1)
    BY PicoAssumption
  <1>2. a \in Int /\ 0 \in Int /\ 1 \in Int
    BY <1>1
  <1>3. ASSUME x = N - 1 PROVE a % N = a - N * 1
    <2>1. 0 <= a - N * 1 /\ a - N * 1 < N
      BY <1>1, <1>3
    <2> HIDE DEF a, N
    <2> QED BY <1>1, <1>2, <2>1, Remainder
  <1>4. ASSUME x # N - 1 PROVE a % N = a - N * 0
    <2>1. 0 <= a - N * 0 /\ a - N * 0 < N
      BY <1>1, <1>4
    <2> HIDE DEF a, N
    <2> QED BY <1>1, <1>2, <2>1, Remainder
  <1>5. x = N - 1 => a - N * 1 = 0
    BY <1>1, <1>2
  <1>6. a - N * 0 = a
    BY <1>1, <1>2
  <1> QED BY <1>3, <1>4, <1>5, <1>6

(* One tip that is counted makes one more uncounted tip, also where the counter
   wraps around. *)
LEMMA OneMore ==
  ASSUME ClockTypes, ClockTypes', Uncounted < CountSize - 1, rr_c_last' = rr_c_last,
         rr_c' = (rr_c + 1) % CountSize
  PROVE  Uncounted' = Uncounted + 1
  <1>0. /\ CountSize \in Nat \ {0, 1}
        /\ rr_c \in 0..(CountSize - 1) /\ rr_c_last \in 0..(CountSize - 1)
    BY PicoAssumption DEF ClockTypes
  <1>1. rr_c' = IF rr_c = CountSize - 1 THEN 0 ELSE rr_c + 1
    BY <1>0, CounterNext
  <1>2. rr_c' \in 0..(CountSize - 1) /\ rr_c_last' \in 0..(CountSize - 1)
    BY DEF ClockTypes
  <1>3. Uncounted = IF rr_c >= rr_c_last THEN rr_c - rr_c_last
                    ELSE rr_c - rr_c_last + CountSize
    BY <1>0, Distance DEF Uncounted
  <1>4. Uncounted' = IF rr_c' >= rr_c_last' THEN rr_c' - rr_c_last'
                     ELSE rr_c' - rr_c_last' + CountSize
    BY <1>2, Distance DEF Uncounted
  <1> QED BY <1>0, <1>1, <1>3, <1>4

(* Nothing is uncounted right after the counter was read. *)
LEMMA AllRead ==
  ASSUME ClockTypes', rr_c_last' = rr_c'
  PROVE  Uncounted' = 0
  <1>1. rr_c' \in 0..(CountSize - 1)
    BY DEF ClockTypes
  <1> QED BY <1>1, Distance DEF Uncounted

-----------------------------------------------------------------------------
(* What conservation rests on: the lock is held exactly while the main loop is in
   the queue, so that the interrupt never appends to a queue whose oldest log is
   written already. *)
Locked ==
  /\ pc \in {"poll", "drain", "pop", "network", "stopped", "read"}
  /\ queue_lock = (pc \in {"drain", "pop"})

Amounts == tips \in Nat /\ written \in Nat /\ lost \in Nat

TipInv == PicoInv /\ Locked /\ Amounts /\ RainConserved

(* A Boolean that is true exactly in a set is that membership. *)
LEMMA SameTruth ==
  ASSUME NEW a \in BOOLEAN, NEW x, NEW S, a <=> x \in S
  PROVE  a = (x \in S)
  BY Zenon

(* Queued logs that are not written yet are logs. *)
LEMMA UnwrittenType ==
  ASSUME ClockTypes
  PROVE  Unwritten \in Seq(Log) /\ CountOf(Unwritten) \in Nat
  <1>1. Unwritten \in Seq(Log)
    BY DEF ClockTypes, Unwritten, Log
  <1> QED BY <1>1, CountType

(* Tips are counted, and the lock is free, after boot. *)
LEMMA TipInitInv == PicoInit => TipInv
  <1> SUFFICES ASSUME PicoInit PROVE TipInv
    OBVIOUS
  <1>1. PicoInv
    BY PicoInitInv
  <1>2. Uncounted = 0
    <2>1. 0 \in 0..(CountSize - 1) /\ rr_c = 0 /\ rr_c_last = 0
      BY PicoAssumption DEF PicoInit
    <2> QED BY <2>1, Distance DEF Uncounted
  <1>3. Unwritten = << >>
    BY DEF PicoInit, Unwritten
  <1>4. CountOf(Unwritten) = 0
    BY <1>3, CountEmpty, Zenon
  <1>5. Locked
    <2>1. /\ queue_lock \in BOOLEAN /\ (queue_lock <=> pc \in {"drain", "pop"})
          /\ pc = "poll"
      BY DEF PicoInit
    <2>2. queue_lock = (pc \in {"drain", "pop"})
      BY <2>1, SameTruth
    <2> QED BY <2>1, <2>2, Zenon DEF Locked
  <1>6. Amounts /\ tips = 0 /\ log_count = 0 /\ written = 0 /\ lost = 0
    BY DEF PicoInit, Amounts
  <1>7. RainConserved
    BY <1>2, <1>4, <1>6 DEF RainConserved
  <1> QED BY <1>1, <1>5, <1>6, <1>7 DEF TipInv

(* A tip is uncounted, or it is the first one. *)
LEMMA TipKept ==
  ASSUME TipInv, rr_callback
  PROVE  Locked' /\ Amounts' /\ RainConserved'
  <1> USE DEF current
  <1>0. ClockTypes /\ ClockTypes' /\ Uncounted \in Nat
    BY TipStep, UncountedType DEF TipInv, PicoInv
  <1>1. CountOf(Unwritten) \in Nat /\ Unwritten' = Unwritten
    BY <1>0, UnwrittenType DEF rr_callback, Unwritten
  <1>2. CountOf(Unwritten') = CountOf(Unwritten)
    BY <1>1
  <1>3. Locked'
    BY DEF TipInv, Locked, rr_callback
  <1>4. /\ tips \in Nat /\ written \in Nat /\ lost \in Nat /\ log_count \in Nat
        /\ tips = Uncounted + log_count + CountOf(Unwritten) + written + lost
    BY <1>0 DEF TipInv, Amounts, RainConserved, ClockTypes
  <1>5. /\ tips' = tips + 1 /\ written' = written /\ log_count' = log_count
        /\ lost' \in Nat
    BY <1>4 DEF rr_callback
  <1>6. Amounts'
    BY <1>4, <1>5 DEF Amounts
  <1>7. Uncounted' + lost' = Uncounted + lost + 1 /\ Uncounted' \in Nat
    <2>1. CASE rr_first
      <3>1. Uncounted' = Uncounted + 1
        BY <1>0, <2>1, OneMore DEF rr_callback
      <3> QED BY <1>0, <1>4, <2>1, <3>1 DEF rr_callback
    <2>2. CASE ~rr_first
      <3>1. lost' = lost + 1 /\ Uncounted' = Uncounted
        BY <2>2 DEF rr_callback, Uncounted
      <3> QED BY <1>0, <1>4, <3>1
    <2> QED BY <2>1, <2>2
  <1>8. RainConserved'
    <2>1. CountOf(Unwritten) \in Nat /\ lost \in Nat /\ written \in Nat /\ log_count \in Nat
      BY <1>1, <1>4
    <2>2. Uncounted \in Nat /\ Uncounted' \in Nat /\ lost' \in Nat
      BY <1>0, <1>5, <1>7
    <2>3. Uncounted' + lost' = Uncounted + lost + 1
      BY <1>7
    <2>4. (Uncounted + log_count + CountOf(Unwritten) + written + lost) + 1
            = Uncounted' + log_count + CountOf(Unwritten) + written + lost'
      <3>1. PICK k \in Nat : k = CountOf(Unwritten)
        BY <2>1
      <3>2. PICK u \in Nat : u = Uncounted
        BY <2>2
      <3>3. PICK v \in Nat : v = Uncounted'
        BY <2>2
      <3>4. PICK m \in Nat : m = lost'
        BY <2>2
      <3>5. v + m = u + lost + 1
        BY <2>3, <3>2, <3>3, <3>4
      <3>6. (u + log_count + k + written + lost) + 1 = v + log_count + k + written + m
        BY <2>1, <3>5
      <3> QED BY <3>1, <3>2, <3>3, <3>4, <3>6
    <2>5. tips' = Uncounted' + log_count' + CountOf(Unwritten') + written' + lost'
      BY <1>2, <1>4, <1>5, <2>4
    <2> QED BY <2>5 DEF RainConserved
  <1> QED BY <1>3, <1>6, <1>8

(* The main loop moves the tips of the oldest log from the queue to data_log. *)
LEMMA LoopKept ==
  ASSUME TipInv, LockQueue \/ log_data \/ PopLog \/ UnlockQueue \/ LoopEnds
  PROVE  Locked' /\ Amounts' /\ RainConserved'
  <1> USE DEF current, gauge, history
  <1>0. ClockTypes /\ Uncounted \in Nat /\ Amounts
    BY UncountedType DEF TipInv, PicoInv
  <1>1. UNCHANGED <<rr_c, rr_c_last, log_count, tips, lost>>
    BY DEF LockQueue, log_data, PopLog, UnlockQueue, LoopEnds
  <1>2. Uncounted' = Uncounted
    BY <1>1 DEF Uncounted
  <1>3. Locked'
    <2>1. CASE log_data \/ PopLog \/ LoopEnds
      BY <2>1 DEF TipInv, Locked, log_data, PopLog, LoopEnds
    <2>2. CASE LockQueue \/ UnlockQueue
      <3>1. /\ pc' \in {"poll", "drain", "pop", "network", "stopped", "read"}
            /\ \/ queue_lock' = TRUE /\ pc' \in {"drain", "pop"}
               \/ queue_lock' = FALSE /\ ~(pc' \in {"drain", "pop"})
        BY <2>2 DEF LockQueue, UnlockQueue
      <3>2. queue_lock' \in BOOLEAN /\ (queue_lock' <=> pc' \in {"drain", "pop"})
        BY <3>1, Zenon
      <3>3. queue_lock' = (pc' \in {"drain", "pop"})
        BY <3>2, SameTruth
      <3> QED BY <3>1, <3>3, Zenon DEF Locked
    <2> QED BY <2>1, <2>2
  <1>4. /\ written' \in Nat
        /\ CountOf(Unwritten') + written' = CountOf(Unwritten) + written
        /\ CountOf(Unwritten') \in Nat /\ CountOf(Unwritten) \in Nat
    <2>0. CountOf(Unwritten) \in Nat
      BY <1>0, UnwrittenType
    <2>1. CASE log_data
      <3>1. /\ Unwritten = logs_queue /\ Unwritten' = Tail(logs_queue)
            /\ logs_queue \in Seq(Log) /\ logs_queue # << >>
            /\ written' = written + Head(logs_queue).count
        BY <1>0, <2>1 DEF log_data, Unwritten, ClockTypes, Log
      <3>2. Head(logs_queue) \in Log /\ Tail(logs_queue) \in Seq(Log)
        BY <3>1
      <3>3. Head(logs_queue).count \in Nat
        BY <3>2 DEF Log
      <3>4. CountOf(logs_queue) = CountOf(Tail(logs_queue)) + Head(logs_queue).count
        BY <3>1, CountTail
      <3>5. CountOf(Tail(logs_queue)) \in Nat
        BY <3>2, CountType
      <3>6. CountOf(Unwritten') = CountOf(Tail(logs_queue))
            /\ CountOf(Unwritten) = CountOf(logs_queue)
        BY <3>1
      <3> HIDE DEF current, gauge, history
      <3> QED BY <1>0, <2>0, <3>1, <3>3, <3>4, <3>5, <3>6 DEF Amounts
    <2>2. CASE LockQueue \/ PopLog \/ UnlockQueue \/ LoopEnds
      <3>1. Unwritten' = Unwritten /\ written' = written
        BY <2>2 DEF LockQueue, PopLog, UnlockQueue, LoopEnds, Unwritten
      <3> QED BY <1>0, <2>0, <3>1 DEF Amounts
    <2> QED BY <2>1, <2>2
  <1>5. Amounts'
    BY <1>0, <1>1, <1>4 DEF Amounts
  <1>6. CountOf(Unwritten)' = CountOf(Unwritten')
    OBVIOUS
  <1>7. log_count \in Nat
    BY <1>0 DEF ClockTypes
  <1> HIDE DEF current, gauge, history
  <1>8. RainConserved'
    BY <1>0, <1>1, <1>2, <1>4, <1>6, <1>7 DEF TipInv, RainConserved, Amounts
  <1> QED BY <1>3, <1>5, <1>8

(* Setting the clock touches no tip; what a reboot forgets is lost. *)
LEMMA AnewKept ==
  ASSUME TipInv, StopClock \/ (\E t \in Clocks : receive_time(t)) \/ Reboot
  PROVE  Locked' /\ Amounts' /\ RainConserved'
  <1> USE DEF current, gauge
  <1>0. ClockTypes /\ ClockTypes' /\ Uncounted \in Nat /\ CountOf(Unwritten) \in Nat
    BY UncountedType, UnwrittenType, AnewStep, StopStep DEF TipInv, PicoInv
  <1>1. CASE StopClock \/ \E t \in Clocks : receive_time(t)
    <2>1. /\ UNCHANGED <<rr_c, rr_c_last, log_count, tips, written, lost, queue_lock>>
          /\ pc \in {"network", "stopped", "read"} /\ pc' \in {"poll", "stopped"}
          /\ Unwritten' = Unwritten
      BY <1>1 DEF StopClock, receive_time, Unwritten
    <2>2. Uncounted' = Uncounted
      BY <2>1 DEF Uncounted
    <2>3. CountOf(Unwritten') = CountOf(Unwritten)
      BY <2>1
    <2>4. RainConserved'
      BY <2>1, <2>2, <2>3 DEF TipInv, RainConserved
    <2>5. Locked'
      BY <2>1 DEF TipInv, Locked
    <2> QED BY <2>1, <2>4, <2>5 DEF TipInv, Amounts
  <1>2. CASE Reboot
    <2>1. /\ rr_c' = 0 /\ rr_c_last' = 0 /\ log_count' = 0 /\ logs_queue' = << >>
          /\ queue_lock' = FALSE /\ pc' = "poll" /\ tips' = tips /\ written' = written
          /\ lost' = lost + Uncounted + log_count + CountOf(Unwritten)
      BY <1>2 DEF Reboot
    <2>2. Uncounted' = 0
      BY <1>0, <2>1, AllRead
    <2>3. Unwritten' = << >>
      BY <2>1 DEF Unwritten
    <2>4. CountOf(Unwritten') = 0
      BY <2>3, CountEmpty
    <2>5. /\ tips \in Nat /\ written \in Nat /\ lost \in Nat /\ log_count \in Nat
          /\ tips = Uncounted + log_count + CountOf(Unwritten) + written + lost
      BY <1>0 DEF TipInv, Amounts, RainConserved, ClockTypes
    <2>6. lost' \in Nat /\ tips = written + lost'
      <3>1. PICK k \in Nat : k = CountOf(Unwritten)
        BY <1>0
      <3>2. PICK u \in Nat : u = Uncounted
        BY <1>0
      <3>3. lost' = lost + u + log_count + k /\ tips = u + log_count + k + written + lost
        BY <2>1, <2>5, <3>1, <3>2
      <3> QED BY <2>5, <3>3
    <2>7. RainConserved'
      BY <2>1, <2>2, <2>4, <2>5, <2>6 DEF RainConserved
    <2>8. Locked'
      <3>1. queue_lock' \in BOOLEAN /\ (queue_lock' <=> pc' \in {"drain", "pop"})
        BY <2>1
      <3>2. queue_lock' = (pc' \in {"drain", "pop"})
        BY <3>1, SameTruth
      <3> QED BY <2>1, <3>2, Zenon DEF Locked
    <2> QED BY <2>1, <2>5, <2>6, <2>7, <2>8 DEF Amounts
  <1> QED BY <1>1, <1>2

(* The timer interrupt puts the uncounted tips into the current log, which stays,
   is queued, or is dropped. *)
LEMMA SecondKept ==
  ASSUME TipInv, Second \/ \E dt \in 0..MaxTime : SecondStopped(dt)
  PROVE  Locked' /\ Amounts' /\ RainConserved'
  <1> USE DEF current
  <1>0. ClockTypes /\ ClockTypes' /\ Uncounted \in Nat /\ CountOf(Unwritten) \in Nat
    BY UncountedType, UnwrittenType, SecondStep, StoppedStep DEF TipInv, PicoInv
  <1>1. PICK t \in Nat :
          /\ process_measurements(t) /\ rr_c_last' = rr_c
          /\ UNCHANGED <<time_set, rr_c, queue_lock, tips, written>>
          /\ pc' = pc \/ (pc = "stopped" /\ pc' = "read")
    <2>1. rtc + 1 \in Nat /\ 0..MaxTime \subseteq Nat
      BY <1>0, PicoAssumption DEF ClockTypes
    <2> QED BY <2>1 DEF Second, SecondStopped, process_measurements
  <1>2. Uncounted' = 0
    BY <1>0, <1>1, AllRead
  <1>3. Locked'
    BY <1>1 DEF TipInv, Locked
  <1>4. /\ tips \in Nat /\ written \in Nat /\ lost \in Nat /\ log_count \in Nat
        /\ tips = Uncounted + log_count + CountOf(Unwritten) + written + lost
    BY <1>0 DEF TipInv, Amounts, RainConserved, ClockTypes
  <1>5. PICK k \in Nat : k = CountOf(Unwritten)
    BY <1>0
  <1>6. PICK u \in Nat : u = Uncounted
    BY <1>0
  <1>7. tips = u + log_count + k + written + lost
    BY <1>4, <1>5, <1>6
  <1>8. \E l \in Nat : /\ l = CountOf(Unwritten')
                       /\ log_count' \in Nat /\ lost' \in Nat
                       /\ log_count' + l + lost' = u + log_count + k + lost
    <2>1. CASE ~time_set
      <3>1. lost' = lost + u /\ UNCHANGED <<log_count, logs_queue>>
        BY <1>1, <1>6, <2>1 DEF process_measurements
      <3>2. Unwritten' = Unwritten
        BY <1>1, <3>1 DEF Unwritten
      <3>3. CountOf(Unwritten') = k
        BY <1>5, <3>2
      <3> QED BY <1>4, <3>1, <3>3
    <2>2. CASE time_set /\ queue_lock
      <3>1. log_count' = log_count + u /\ UNCHANGED <<logs_queue, lost>>
        BY <1>1, <1>6, <2>2 DEF process_measurements
      <3>2. Unwritten' = Unwritten
        BY <1>1, <3>1 DEF Unwritten
      <3>3. CountOf(Unwritten') = k
        BY <1>5, <3>2
      <3> QED BY <1>4, <3>1, <3>3
    <2>3. CASE time_set /\ ~queue_lock
      <3>1. Finish(t, log_count + u)
        BY <1>1, <1>6, <2>3 DEF process_measurements
      <3>2. pc # "pop"
        BY <2>3, Zenon DEF TipInv, Locked
      <3>3. Unwritten = logs_queue /\ Unwritten' = logs_queue'
        BY <1>1, <3>2 DEF Unwritten
      <3>4. CASE is_ready(t)
        <4> DEFINE e == [label |-> Label(t), count |-> log_count + u]
        <4>1. logs_queue' = Append(logs_queue, e) /\ log_count' = 0 /\ lost' = lost
          BY <3>1, <3>4 DEF Finish
        <4>2. logs_queue \in Seq(Log) /\ logs_queue' \in Seq(Log)
          BY <1>0 DEF ClockTypes, Log
        <4>3. Len(logs_queue') = Len(logs_queue) + 1 /\ logs_queue'[Len(logs_queue) + 1] = e
          BY <4>1, <4>2
        <4>4. e \in Log
          <5>1. Len(logs_queue) + 1 \in 1..Len(logs_queue')
            BY <4>2, <4>3
          <5> HIDE DEF e
          <5> QED BY <4>2, <4>3, <5>1
        <4>5. e.count = log_count + u
          OBVIOUS
        <4> HIDE DEF e
        <4>6. CountOf(logs_queue') = CountOf(logs_queue) + e.count
          BY <4>1, <4>2, <4>4, CountAppend
        <4>7. CountOf(Unwritten') = k + (log_count + u)
          BY <1>5, <3>3, <4>5, <4>6
        <4> QED BY <1>4, <4>1, <4>7
      <3>5. CASE ~is_ready(t)
        <4>1. /\ logs_queue' = logs_queue
              /\ \/ log_count' = 0 /\ lost' = lost + (log_count + u)
                 \/ log_count' = log_count + u /\ lost' = lost
          BY <3>1, <3>5 DEF Finish
        <4>2. CountOf(Unwritten') = k
          BY <1>5, <3>3, <4>1
        <4> QED BY <1>4, <4>1, <4>2
      <3> QED BY <3>4, <3>5
    <2> QED BY <1>0, <2>1, <2>2, <2>3 DEF ClockTypes
  <1>9. PICK l \in Nat : /\ l = CountOf(Unwritten')
                         /\ log_count' \in Nat /\ lost' \in Nat
                         /\ log_count' + l + lost' = u + log_count + k + lost
    BY <1>8
  <1>10. Amounts'
    BY <1>1, <1>4, <1>9 DEF Amounts
  <1>11. tips' = 0 + log_count' + l + written' + lost'
    <2>1. PICK m \in Nat, n \in Nat : m = lost' /\ n = log_count'
      BY <1>9
    <2>2. n + l + m = u + log_count + k + lost
      BY <1>9, <2>1
    <2>3. tips = 0 + n + l + written + m
      BY <1>4, <1>7, <2>2
    <2> QED BY <1>1, <2>1, <2>3
  <1>12. RainConserved'
    BY <1>2, <1>9, <1>11 DEF RainConserved
  <1> QED BY <1>3, <1>10, <1>12

(* Every step keeps all of it. *)
LEMMA TipNextInv ==
  ASSUME TipInv, [PicoNext]_picoVars
  PROVE  TipInv'
  <1>1. PicoInv'
    BY PicoStep DEF TipInv
  <1>2. Locked' /\ Amounts' /\ RainConserved'
    <2>1. CASE UNCHANGED picoVars
      <3> USE DEF picoVars, gauge, current, history
      <3>1. Locked' /\ Amounts'
        BY <2>1 DEF TipInv, Locked, Amounts
      <3>2. Uncounted' = Uncounted /\ Unwritten' = Unwritten
        BY <2>1 DEF Uncounted, Unwritten
      <3>3. CountOf(Unwritten') = CountOf(Unwritten)
        BY <3>2
      <3>4. RainConserved'
        BY <2>1, <3>2, <3>3 DEF TipInv, RainConserved
      <3> QED BY <3>1, <3>4
    <2> QED BY <2>1, TipKept, LoopKept, AnewKept, SecondKept DEF PicoNext
  <1> QED BY <1>1, <1>2 DEF TipInv

(* Every tip of the gauge is in one place, for every size of the counter, length of
   an interval, number of logs per hour and number of tips: not counted yet, in
   the current log, in the queue, written or dropped, whatever the interrupts,
   the main loop, the clock and the watchdog do in whatever order. *)
THEOREM RainKept == PicoSpec => []RainConserved
  <1>1. TipInv => RainConserved
    BY DEF TipInv
  <1> QED BY <1>1, TipInitInv, TipNextInv, PTL DEF PicoSpec

-----------------------------------------------------------------------------
(* The bounds of PicoTypeOK.  The tips of a log are bounded because all tips are. *)
QueuedLog == [label : Nat \X (0..(LogsPerHour - 1)), count : 0..MaxTips]

Bounded ==
  /\ rtc <= MaxTime /\ last_log_num <= MaxTime /\ tips <= MaxTips
  /\ logs_queue \in Seq(QueuedLog)

(* An interval has a number not above the time, and a slot in its hour. *)
LEMMA LabelType ==
  ASSUME NEW x \in Nat
  PROVE  /\ get_log_num_abs(x) \in Nat /\ get_log_num_abs(x) <= x
         /\ Label(x) \in Nat \X (0..(LogsPerHour - 1))
  <1> DEFINE S == SecondsPerLog
             H == LogsPerHour
             n == x \div S
             q == n \div H
  <1>0. S \in Nat \ {0} /\ H \in Nat \ {0}
    BY PicoAssumption
  <1>1. n \in Nat
    BY <1>0, Intervals DEF get_log_num_abs
  <1> HIDE DEF S, H
  <1>2. S * n <= x
    BY <1>0
  <1> HIDE DEF n
  <1>3. n <= x
    <2>1. S * n = n + (S - 1) * n /\ (S - 1) * n >= 0
      BY <1>0, <1>1
    <2>2. S * n \in Int /\ (S - 1) * n \in Int
      BY <1>0, <1>1
    <2> QED BY <1>1, <1>2, <2>1, <2>2
  <1>4. q \in Int /\ n < H * q + H
    BY <1>0, <1>1
  <1>5. n % H \in 0..(H - 1)
    BY <1>0, <1>1
  <1> HIDE DEF q
  <1>6. q \in Nat
    <2>1. H * (q + 1) > 0
      BY <1>0, <1>1, <1>4
    <2> QED BY <1>0, <1>4, <2>1
  <1> QED BY <1>1, <1>3, <1>5, <1>6 DEF Label, get_log_num_abs, n, q, S, H

(* The bounds hold after boot. *)
LEMMA BoundedInit == PicoInit => Bounded
  BY PicoAssumption DEF PicoInit, Bounded

(* Every step keeps them. *)
LEMMA BoundedNext ==
  ASSUME TipInv, Bounded, [PicoNext]_picoVars
  PROVE  Bounded'
  <1> USE DEF current, gauge
  <1>0. ClockTypes /\ tips \in Nat /\ MaxTime \in Nat /\ MaxTips \in Nat
    BY PicoAssumption DEF TipInv, PicoInv, Amounts
  <1>1. CASE \/ UNCHANGED picoVars \/ StopClock
            \/ LockQueue \/ log_data \/ UnlockQueue \/ LoopEnds
    BY <1>1 DEF Bounded, picoVars, history, LockQueue, log_data, UnlockQueue, LoopEnds,
                StopClock
  <1>2. CASE rr_callback
    BY <1>0, <1>2 DEF Bounded, rr_callback
  <1>3. CASE PopLog
    <2>1. logs_queue # << >>
      BY <1>0, <1>3 DEF ClockTypes, PopLog
    <2> QED BY <1>3, <2>1 DEF Bounded, PopLog, history
  <1>4. CASE (\E t \in Clocks : receive_time(t)) \/ Reboot
    <2>1. /\ rtc' \in Clocks /\ last_log_num' \in {0, last_log_num}
          /\ logs_queue' = << >> \/ logs_queue' = logs_queue
          /\ tips' = tips
      BY <1>4 DEF receive_time, Reboot
    <2>2. rtc' <= MaxTime
      BY <2>1, PicoAssumption
    <2>3. last_log_num' <= MaxTime /\ tips' <= MaxTips
      BY <1>0, <2>1 DEF Bounded
    <2>4. logs_queue' \in Seq(QueuedLog)
      <3>1. << >> \in Seq(QueuedLog) /\ logs_queue \in Seq(QueuedLog)
        BY DEF Bounded
      <3> QED BY <2>1, <3>1, Zenon
    <2> QED BY <2>2, <2>3, <2>4 DEF Bounded
  <1>5. CASE Second \/ \E dt \in 0..MaxTime : SecondStopped(dt)
    <2>1. PICK t \in Nat : /\ t <= MaxTime /\ rtc' <= MaxTime
                            /\ tips' = tips /\ process_measurements(t)
      <3>1. CASE Second
        <4>1. rtc + 1 \in Nat /\ rtc + 1 <= MaxTime
          BY <1>0, <3>1 DEF Second, ClockTypes
        <4> QED BY <3>1, <4>1 DEF Second
      <3>2. CASE \E dt \in 0..MaxTime : SecondStopped(dt)
        <4>1. PICK dt \in 0..MaxTime : SecondStopped(dt)
          BY <3>2
        <4>2. dt \in Nat /\ dt <= MaxTime
          BY <1>0
        <4> QED BY <4>1, <4>2 DEF SecondStopped, Bounded
      <3> QED BY <1>5, <3>1, <3>2
    <2>2. /\ get_log_num_abs(t) \in Nat /\ get_log_num_abs(t) <= t
          /\ Label(t) \in Nat \X (0..(LogsPerHour - 1))
      BY <2>1, LabelType
    <2>3. last_log_num' <= MaxTime
      BY <1>0, <2>1, <2>2 DEF process_measurements, Bounded
    <2>4. logs_queue' \in Seq(QueuedLog)
      <3>1. \/ logs_queue' = logs_queue
            \/ logs_queue' = Append(logs_queue, [label |-> Label(t),
                                                count |-> log_count + Uncounted])
        BY <2>1 DEF process_measurements, Finish
      <3>2. log_count + Uncounted \in 0..MaxTips
        <4>1. Uncounted \in Nat /\ CountOf(Unwritten) \in Nat /\ log_count \in Nat
          BY <1>0, UncountedType, UnwrittenType DEF ClockTypes
        <4>2. /\ written \in Nat /\ lost \in Nat /\ tips <= MaxTips
              /\ tips = Uncounted + log_count + CountOf(Unwritten) + written + lost
          BY DEF TipInv, Amounts, RainConserved, Bounded
        <4> QED BY <1>0, <4>1, <4>2
      <3>3. [label |-> Label(t), count |-> log_count + Uncounted] \in QueuedLog
        BY <2>2, <3>2 DEF QueuedLog
      <3> QED BY <3>1, <3>3 DEF Bounded
    <2> QED BY <2>1, <2>3, <2>4 DEF Bounded
  <1> QED BY <1>1, <1>2, <1>3, <1>4, <1>5 DEF PicoNext

(* For every value of the constants the state has its type: in particular the lock
   is held exactly while the main loop is in the queue, the oldest log is there
   whenever it is to be removed, slots stay within their hour, and no count
   exceeds the tips there were. *)
THEOREM PicoTypeSafety == PicoSpec => []PicoTypeOK
  <1>1. TipInv /\ Bounded => PicoTypeOK
    <2> SUFFICES ASSUME TipInv, Bounded PROVE PicoTypeOK
      OBVIOUS
    <2>0. /\ ClockTypes /\ Uncounted \in Nat /\ MaxTips \in Nat /\ MaxTime \in Nat
          /\ Unwritten \in Seq(Log) /\ CountOf(Unwritten) \in Nat
      BY UncountedType, UnwrittenType, PicoAssumption DEF TipInv, PicoInv
    <2>1. /\ tips \in Nat /\ written \in Nat /\ lost \in Nat /\ log_count \in Nat
          /\ tips = Uncounted + log_count + CountOf(Unwritten) + written + lost
          /\ tips <= MaxTips
      BY <2>0 DEF TipInv, Amounts, RainConserved, ClockTypes, Bounded
    <2>2. log_count \in 0..MaxTips /\ CountOf(Unwritten) <= MaxTips
      BY <2>0, <2>1
    <2>3. rtc \in 0..MaxTime /\ last_log_num \in 0..MaxTime
      BY <2>0 DEF Bounded, ClockTypes
    <2>4. /\ logs_queue \in Seq([label : Nat \X (0..(LogsPerHour - 1)), count : 0..MaxTips])
          /\ pc = "pop" => logs_queue # << >>
          /\ time_set \in BOOLEAN /\ rr_first \in BOOLEAN
          /\ rr_c \in 0..(CountSize - 1) /\ rr_c_last \in 0..(CountSize - 1)
      BY <2>0 DEF ClockTypes, Bounded, QueuedLog
    <2>5. /\ queue_lock = (pc \in {"drain", "pop"})
          /\ pc \in {"poll", "drain", "pop", "network", "stopped", "read"}
      BY Zenon DEF TipInv, Locked
    <2> QED BY <2>2, <2>3, <2>4, <2>5, Zenon DEF PicoTypeOK
  <1> QED BY <1>1, TipInitInv, TipNextInv, BoundedInit, BoundedNext, PTL DEF PicoSpec

=============================================================================
