---------------------------- MODULE PicoRuntime ----------------------------
(***************************************************************************)
(* A Pico that measures rain (zejf_pico_utils, ZejfOutside).  One          *)
(* interrupt counts the tips of the gauge.  A second one, once per second, *)
(* adds them to the current log and, when the interval of the log is over, *)
(* queues it for the main loop, which writes it with data_log.  The        *)
(* interrupt leaves the queue alone while the main loop holds queue_lock.  *)
(* The clock may be set, and the watchdog may reboot the device.           *)
(*                                                                         *)
(* The other logs (voltages, temperature, wind, pressure) take the same    *)
(* way; the rain gauge is the one where a tip must be counted exactly      *)
(* once.                                                                   *)
(***************************************************************************)
EXTENDS Integers, Sequences, FiniteSets

CONSTANTS SecondsPerLog,   \* an hour divided by sample_rate
          LogsPerHour,     \* sample_rate
          CountSize,       \* rr_c and rr_c_last count modulo CountSize (2^16)
          Clocks,          \* times that receive_time and the DS3231 may give
          MaxTime,         \* bound: the last second
          MaxTips,         \* bound: tips of the gauge
          MaxReboots       \* bound

ASSUME PicoAssumption ==
  /\ SecondsPerLog \in Nat \ {0} /\ LogsPerHour \in Nat \ {0}
  /\ CountSize \in Nat \ {0, 1} /\ MaxTime \in Nat
  /\ MaxTips \in Nat /\ MaxReboots \in Nat /\ Clocks \subseteq 0..MaxTime

VARIABLES rtc,             \* the clock, in seconds
          time_set,
          rr_first,        \* the gauge has tipped since boot
          rr_c, rr_c_last, \* the counter of tips, and where it was last read
          last_log_num,    \* of the current log: the interval it was begun in
          log_count,       \* of the current log: its tips
          logs_queue, queue_lock,
          pc,              \* where zejf_pico_run is
          tips,            \* history: tips since the beginning
          written, lost,   \* history: tips that data_log got, tips that were dropped
          skipped,         \* history: interrupts in a row that found the queue locked
          moved,           \* history: the clock was set since the queue was last unlocked
          last_label,      \* history: label of the newest log since the clock was set
          reboots

gauge == <<rr_first, rr_c, rr_c_last>>
current == <<last_log_num, log_count>>
history == <<tips, written, lost, skipped, moved, last_label, reboots>>
picoVars == <<rtc, time_set, gauge, current, logs_queue, queue_lock, pc, history>>

(* get_log_num_abs, and get_hour_num with get_log_num *)
get_log_num_abs(t) == t \div SecondsPerLog
Label(t) == <<get_log_num_abs(t) \div LogsPerHour, get_log_num_abs(t) % LogsPerHour>>

(* main: time_engine_init takes the time of the DS3231, if it answers *)
PicoInit ==
  /\ rtc \in Clocks /\ time_set \in BOOLEAN
  /\ rr_first = FALSE /\ rr_c = 0 /\ rr_c_last = 0
  /\ last_log_num = 0 /\ log_count = 0
  /\ logs_queue = << >> /\ queue_lock = FALSE /\ pc = "poll"
  /\ tips = 0 /\ written = 0 /\ lost = 0 /\ skipped = 0 /\ moved = TRUE
  /\ last_label = -1 /\ reboots = 0

-----------------------------------------------------------------------------
Uncounted == (rr_c - rr_c_last) % CountSize

(* rr_callback, the interrupt of the gauge.  The first tip after boot is not
   counted; there are fewer than CountSize tips in a second. *)
rr_callback ==
  /\ tips < MaxTips /\ tips' = tips + 1
  /\ Uncounted < CountSize - 1
  /\ rr_first' = TRUE
  /\ rr_c' = IF rr_first THEN (rr_c + 1) % CountSize ELSE rr_c
  /\ lost' = IF rr_first THEN lost ELSE lost + 1
  /\ UNCHANGED <<rtc, time_set, rr_c_last, current, logs_queue, queue_lock, pc,
                 written, skipped, moved, last_label, reboots>>

(* is_ready: the interval after the one of the current log has begun; after any
   other change of the interval the current log is dropped. *)
is_ready_in_hour(t) ==
  (get_log_num_abs(t) % LogsPerHour) - (last_log_num % LogsPerHour) = 1

is_ready_at_most(t) == get_log_num_abs(t) - last_log_num <= 1

is_ready(t) == get_log_num_abs(t) - last_log_num = 1

(* a log that is_ready makes ready is cloned into the queue and begun anew *)
Finish(t, count) ==
  IF is_ready(t)
    THEN /\ logs_queue' = Append(logs_queue, [label |-> Label(t), count |-> count])
         /\ log_count' = 0
         /\ last_label' = get_log_num_abs(t)
         /\ UNCHANGED lost
  ELSE IF get_log_num_abs(t) # last_log_num
    THEN /\ log_count' = 0 /\ lost' = lost + count
         /\ UNCHANGED <<logs_queue, last_label>>
  ELSE /\ log_count' = count
       /\ UNCHANGED <<logs_queue, last_label, lost>>

(* up to the value that matters *)
Counted(n) == IF n < SecondsPerLog THEN n + 1 ELSE n

(* process_measurements at second t: the new tips are not used before the time
   is set; with the queue locked they are added to the current log, and whether
   that is finished is left for later. *)
process_measurements_lock_first(t) ==
  /\ rr_c_last' = rr_c
  /\ IF ~time_set
       THEN /\ lost' = lost + Uncounted
            /\ UNCHANGED <<current, logs_queue, skipped, moved, last_label>>
     ELSE IF queue_lock
       THEN /\ skipped' = Counted(skipped)
            /\ UNCHANGED <<current, logs_queue, lost, moved, last_label>>
     ELSE /\ Finish(t, log_count + Uncounted)
          /\ last_log_num' = get_log_num_abs(t)
          /\ skipped' = 0 /\ moved' = FALSE

process_measurements(t) ==
  /\ rr_c_last' = rr_c
  /\ IF ~time_set
       THEN /\ lost' = lost + Uncounted
            /\ UNCHANGED <<current, logs_queue, skipped, moved, last_label>>
     ELSE IF queue_lock
       THEN /\ log_count' = log_count + Uncounted
            /\ skipped' = Counted(skipped)
            /\ UNCHANGED <<last_log_num, logs_queue, lost, moved, last_label>>
     ELSE /\ Finish(t, log_count + Uncounted)
          /\ last_log_num' = get_log_num_abs(t)
          /\ skipped' = 0 /\ moved' = FALSE

(* the timer interrupt, once per second *)
Second ==
  /\ pc \notin {"stopped", "read"}
  /\ rtc < MaxTime
  /\ rtc' = rtc + 1
  /\ process_measurements(rtc + 1)
  /\ UNCHANGED <<time_set, rr_first, rr_c, queue_lock, pc, tips, written, reboots>>

-----------------------------------------------------------------------------
(* zejf_pico_run.  The main loop locks the queue and empties it; between any two
   of these steps interrupts may come. *)
LockQueue_no ==
  /\ pc = "poll" /\ pc' = "drain"
  /\ UNCHANGED <<rtc, time_set, gauge, current, logs_queue, queue_lock, history>>

LockQueue ==
  /\ pc = "poll" /\ pc' = "drain"
  /\ queue_lock' = TRUE
  /\ UNCHANGED <<rtc, time_set, gauge, current, logs_queue, history>>

log_data ==
  /\ pc = "drain" /\ logs_queue # << >> /\ pc' = "pop"
  /\ written' = written + Head(logs_queue).count
  /\ UNCHANGED <<rtc, time_set, gauge, current, logs_queue, queue_lock,
                 tips, lost, skipped, moved, last_label, reboots>>

PopLog ==
  /\ pc = "pop" /\ pc' = "drain"
  /\ logs_queue' = Tail(logs_queue)
  /\ UNCHANGED <<rtc, time_set, gauge, current, queue_lock, history>>

UnlockQueue ==
  /\ pc = "drain" /\ logs_queue = << >> /\ pc' = "network"
  /\ queue_lock' = FALSE
  /\ UNCHANGED <<rtc, time_set, gauge, current, logs_queue, history>>

(* The rest of the loop.  receive_time, when the answer to a TIME_REQUEST is
   among the packets, sets the clock.  rtc_set_datetime stops it for an instant;
   rtc_get_datetime then fails, which the timer interrupt ignores, so that one
   that comes in this instant measures at whatever time dt happened to hold. *)
LoopEnds ==
  /\ pc = "network" /\ pc' = "poll"
  /\ UNCHANGED <<rtc, time_set, gauge, current, logs_queue, queue_lock, history>>

StopClock ==
  /\ pc = "network" /\ pc' = "stopped"
  /\ moved' = TRUE
  /\ UNCHANGED <<rtc, time_set, gauge, current, logs_queue, queue_lock, tips, written,
                 lost, skipped, last_label, reboots>>

SecondStopped(dt) ==
  /\ pc = "stopped" /\ pc' = "read"
  /\ process_measurements(dt)
  /\ UNCHANGED <<rtc, time_set, rr_first, rr_c, queue_lock, tips, written, reboots>>

receive_time(t) ==
  /\ pc \in {"stopped", "read"} /\ pc' = "poll"
  /\ rtc' = t /\ time_set' = TRUE
  /\ moved' = TRUE /\ last_label' = -1
  /\ UNCHANGED <<gauge, current, logs_queue, queue_lock, tips, written, lost,
                 skipped, reboots>>

(* the tips of some logs together *)
CountOf(logs) ==
  LET total[i \in 0..Len(logs)] ==
        IF i = 0 THEN 0 ELSE total[i - 1] + logs[i].count
  IN total[Len(logs)]

(* logs in the queue that data_log has not got yet *)
Unwritten == IF pc = "pop" THEN Tail(logs_queue) ELSE logs_queue

(* The watchdog, or a power cut: all of this is in memory only. *)
Reboot ==
  /\ reboots < MaxReboots /\ reboots' = reboots + 1
  /\ rtc' \in Clocks /\ time_set' \in BOOLEAN
  /\ rr_first' = FALSE /\ rr_c' = 0 /\ rr_c_last' = 0
  /\ last_log_num' = 0 /\ log_count' = 0
  /\ logs_queue' = << >> /\ queue_lock' = FALSE /\ pc' = "poll"
  /\ lost' = lost + Uncounted + log_count + CountOf(Unwritten)
  /\ skipped' = 0 /\ moved' = TRUE /\ last_label' = -1
  /\ UNCHANGED <<tips, written>>

PicoNext ==
  \/ rr_callback \/ Second
  \/ LockQueue \/ log_data \/ PopLog \/ UnlockQueue \/ LoopEnds \/ StopClock
  \/ \E dt \in 0..MaxTime : SecondStopped(dt)
  \/ \E t \in Clocks : receive_time(t)
  \/ Reboot

PicoSpec == PicoInit /\ [][PicoNext]_picoVars

-----------------------------------------------------------------------------
(* Type invariant; the lock is held exactly while the main loop is in the
   queue. *)
PicoTypeOK ==
  /\ rtc \in 0..MaxTime /\ time_set \in BOOLEAN /\ rr_first \in BOOLEAN
  /\ rr_c \in 0..(CountSize - 1) /\ rr_c_last \in 0..(CountSize - 1)
  /\ last_log_num \in 0..MaxTime /\ log_count \in 0..MaxTips
  /\ logs_queue \in Seq([label : Nat \X (0..(LogsPerHour - 1)), count : 0..MaxTips])
  /\ queue_lock = (pc \in {"drain", "pop"})
  /\ pc \in {"poll", "drain", "pop", "network", "stopped", "read"}
  /\ pc = "pop" => logs_queue # << >>

(* Every tip of the gauge is in one place: not counted yet, in the current log,
   in a queued log, written, or dropped.  Locking, interrupts inside the main
   loop, the wrap-around of the counter and reboots neither lose nor double
   one. *)
RainConserved ==
  tips = Uncounted + log_count + CountOf(Unwritten) + written + lost

(* Tips are dropped only before the time is set, by a reboot, as the first one
   after boot, by an interrupt while the clock is being set, at the first one
   after that (or after boot), or when the main loop held the queue for a whole interval.  In particular the
   end of an hour drops nothing. *)
DropJustified ==
  [][lost' # lost => \/ ~time_set \/ moved \/ ~rr_first \/ reboots' > reboots
                     \/ skipped >= SecondsPerLog]_picoVars

(* Unless the clock was set in between, each log is for a later slot than the
   one before: no slot is logged twice, not even by an interrupt that reads the
   clock while it is stopped. *)
SlotLoggedOnce ==
  [][Len(logs_queue') > Len(logs_queue) =>
       last_label' > last_label]_picoVars

=============================================================================
