----------------------------- MODULE HourStore -----------------------------
(***************************************************************************)
(* The data store: zejf_data.c (a cache of hours, the LinkedList           *)
(* data_queue) over the files of zejf_data_loader.c.  data_queue is the    *)
(* bounded sequence that LinkedList implements: index 1 is the tail, the   *)
(* next hour to be evicted, the last index is the head, where hours are    *)
(* added.  Every operation runs under zejf_lock and is one step.           *)
(*                                                                         *)
(* An hour holds the samples of one variable.  A file holds an hour as     *)
(* hour_serialize wrote it; TORN is a file whose bytes hour_deserialize    *)
(* rejects (empty, cut short, wrong checksum).                             *)
(***************************************************************************)
EXTENDS SeqOps, FiniteSets

CONSTANTS Hour,                 \* hour numbers
          Sample,               \* sample numbers: a set 0..n
          Value, EMPTY, NOT_MEASURED,
          HOUR_BUFFER_SIZE,     \* capacity of data_queue
          Path, PathOf,         \* file names, and zejf_day_path
          ABSENT, TORN,         \* no file; an unreadable one
          IsProvided,           \* is_provided(variable): this device measures it
          SaveOutcome,          \* what hour_save may do: see FileAfterSave
          LoadOutcome,          \* what hour_load may do: see hour_load
          MayCrash              \* whether the process may die and be restarted

Outcome == {"ok", "open_failed", "write_failed", "close_failed"}

(* zejf_day_path names a file after local time; the hours considered do not
   include the one that the end of daylight saving repeats, so no two share a
   file. *)
ASSUME StoreAssumption ==
  /\ HOUR_BUFFER_SIZE \in Nat \ {0}
  /\ Sample \subseteq Nat
  /\ EMPTY \notin Value /\ NOT_MEASURED \notin Value /\ EMPTY # NOT_MEASURED
  /\ PathOf \in [Hour -> Path]
  /\ \A g, h \in Hour : PathOf[g] = PathOf[h] => g = h
  /\ IsProvided \in BOOLEAN /\ MayCrash \in BOOLEAN
  /\ SaveOutcome \subseteq Outcome
  /\ LoadOutcome \subseteq {"ok", "access_failed", "read_failed"}

VARIABLES data_queue,   \* the cached hours
          disk,         \* what each file holds
          logged        \* history: the measurements data_log has accepted

storeVars == <<data_queue, disk, logged>>

Cell == Value \cup {EMPTY, NOT_MEASURED}
Samples == [Sample -> Cell]
DataHour == [hour_id : Hour, data : Samples, modified : BOOLEAN]
File == [hour_id : Hour, data : Samples]

ASSUME FileMarkers == ABSENT \notin File /\ TORN \notin File /\ ABSENT # TORN

StoreInit == /\ data_queue = << >>
             /\ disk = [p \in Path |-> ABSENT]
             /\ logged = {}

-----------------------------------------------------------------------------
(* hour_create and hour_add_variable *)
hour_create(h) ==
  [hour_id |-> h, data |-> [s \in Sample |-> EMPTY], modified |-> FALSE]

(* hour_serialize: what is written for an hour *)
hour_serialize(hour) == [hour_id |-> hour.hour_id, data |-> hour.data]

(* hour_deserialize of a good file; datahour_get clears the flags *)
hour_deserialize(file) ==
  [hour_id |-> file.hour_id, data |-> file.data, modified |-> FALSE]

(* hour_save: fopen "wb" truncates the file, fwrite fills it, and the result of
   fclose is not looked at.  Before fopen nothing is touched (open_failed
   includes mkpath failing). *)
FileAfterSave(o, old, hour) ==
  CASE o = "ok" -> hour_serialize(hour)
    [] o = "open_failed" -> old
    [] o \in {"write_failed", "close_failed"} -> TORN

(* hour_save returned ZEJF_OK *)
SaveReportsOK(o) == o \in {"ok", "close_failed"}

(* hour_find: the positions of an hour.  NoDuplicateHours says there is at most
   one, so that the direction of the search does not matter. *)
hour_find_tail_only(h) ==
  {i \in 1..Len(data_queue) : i = 1 /\ data_queue[i].hour_id = h}

hour_find_later(h) == {i \in 1..Len(data_queue) : data_queue[i].hour_id >= h}

hour_find(h) == {i \in 1..Len(data_queue) : data_queue[i].hour_id = h}

(* hour_add: a full queue pops its tail, saves it whether modified or not and
   whether the save works or not, and forgets it.  The outcomes are the
   possible data_queue and disk, and where the hour is. *)
hour_add_discard(hour) ==
  IF Len(data_queue) < HOUR_BUFFER_SIZE
    THEN {[queue |-> Append(data_queue, hour), disk |-> disk,
           at |-> Len(data_queue) + 1]}
    ELSE {[queue |-> Append(Tail(data_queue), hour), disk |-> disk,
           at |-> Len(data_queue)]}

hour_add_unbounded(hour) ==
  {[queue |-> Append(data_queue, hour), disk |-> disk,
    at |-> Len(data_queue) + 1]}

hour_add(hour) ==
  IF Len(data_queue) < HOUR_BUFFER_SIZE
    THEN {[queue |-> Append(data_queue, hour), disk |-> disk,
           at |-> Len(data_queue) + 1]}
    ELSE LET old == data_queue[1]
             p == PathOf[old.hour_id]
         IN {[queue |-> Append(Tail(data_queue), hour),
              disk |-> [disk EXCEPT ![p] = FileAfterSave(o, disk[p], old)],
              at |-> Len(data_queue)] : o \in SaveOutcome}

(* hour_load, and hour_deserialize of what it read: ABSENT stands for
   ZEJF_ERR_FILE_DOESNT_EXIST, which any failure of access() becomes, TORN for
   every other error. *)
hour_load(o, file) ==
  CASE o = "ok" -> file
    [] o = "access_failed" -> ABSENT
    [] o = "read_failed" -> IF file = ABSENT THEN ABSENT ELSE TORN

(* datahour_get(h, true, create): at = 0 stands for NULL.  An hour that is
   cached is moved to the tail (list_prioritise); one whose file exists but
   cannot be read is refused, even when create is set. *)
datahour_load(h, create, file) ==
  IF file = TORN \/ (file = ABSENT /\ ~create)
    THEN {[queue |-> data_queue, disk |-> disk, at |-> 0]}
  ELSE IF file = ABSENT THEN hour_add(hour_create(h))
  ELSE hour_add(hour_deserialize(file))

datahour_get(h, create) ==
  IF hour_find(h) # {}
    THEN {[queue |-> Rotated(data_queue, i), disk |-> disk, at |-> 1] :
            i \in hour_find(h)}
    ELSE UNION {datahour_load(h, create, hour_load(o, disk[PathOf[h]])) :
                  o \in LoadOutcome}

-----------------------------------------------------------------------------
(* data_log: a measurement is never replaced by a marker (ZEJF_ERR_VALUE). *)
Accepts(cell, v) == cell \in Value => v \in Value

LoggedHour(hour, s, v) == [hour EXCEPT !.data[s] = v, !.modified = TRUE]

data_log(h, s, v) ==
  \E got \in datahour_get(h, TRUE) :
    /\ disk' = got.disk
    /\ IF got.at # 0 /\ Accepts(got.queue[got.at].data[s], v)
         THEN /\ data_queue' = [got.queue EXCEPT ![got.at] = LoggedHour(@, s, v)]
              /\ logged' = logged \cup ({<<h, s>>} \X (Value \cap {v}))
         ELSE /\ data_queue' = got.queue
              /\ UNCHANGED logged

(* data_log returns an error after datahour_get: hour_add_variable finds no
   memory, the hour has the variable with another sample rate, or the sample
   number is out of range.  An hour that was created for it stays in the cache,
   empty and without FLAG_MODIFIED. *)
data_log_rejected(h) ==
  \E got \in datahour_get(h, TRUE) :
    /\ disk' = got.disk
    /\ data_queue' = got.queue
    /\ UNCHANGED logged

(* data_get_val, variables_request_process: only datahour_get has an effect *)
data_get_val(h) ==
  \E got \in datahour_get(h, FALSE) :
    /\ disk' = got.disk
    /\ data_queue' = got.queue
    /\ UNCHANGED logged

(* calculate_data_check(variable, h, log_num): the provider marks the empty
   samples up to log_num, without setting FLAG_MODIFIED.  An hour in which all
   is empty may lack the variable (data_log_rejected): nothing is marked then. *)
Checked(hour, log_num) ==
  [hour EXCEPT !.data = [s \in Sample |->
     IF IsProvided /\ s <= log_num /\ @[s] = EMPTY THEN NOT_MEASURED ELSE @[s]]]

MayLackVariable(hour) == \A s \in Sample : hour.data[s] = EMPTY

calculate_data_check(h, log_num) ==
  \E got \in datahour_get(h, FALSE) :
    /\ disk' = got.disk
    /\ \/ /\ got.at # 0 => MayLackVariable(got.queue[got.at])
          /\ data_queue' = got.queue
       \/ /\ got.at # 0
          /\ data_queue' = [got.queue EXCEPT ![got.at] = Checked(@, log_num)]
    /\ UNCHANGED logged

(* data_save: every modified hour is written, from head to tail; the flag is
   cleared when the write reports success *)
Modified_not_tail == {i \in 2..Len(data_queue) : data_queue[i].modified}

Modified == {i \in 1..Len(data_queue) : data_queue[i].modified}

SavedDisk(idx, o) ==
  [p \in Path |->
     IF \E i \in idx : PathOf[data_queue[i].hour_id] = p
       THEN LET i == CHOOSE i \in idx : PathOf[data_queue[i].hour_id] = p
            IN FileAfterSave(o[i], disk[p], data_queue[i])
       ELSE disk[p]]

FlagAfterSave_cleared(hour, o) == [hour EXCEPT !.modified = FALSE]

FlagAfterSave(hour, o) ==
  IF SaveReportsOK(o) THEN [hour EXCEPT !.modified = FALSE] ELSE hour

data_save ==
  /\ Modified # {}
  /\ \E o \in [Modified -> SaveOutcome] :
       /\ disk' = SavedDisk(Modified, o)
       /\ data_queue' = [i \in 1..Len(data_queue) |->
                           IF i \in Modified THEN FlagAfterSave(data_queue[i], o[i])
                                             ELSE data_queue[i]]
  /\ UNCHANGED logged

-----------------------------------------------------------------------------
(* The process dies and is started again: the cache is lost. *)
Crash == /\ MayCrash /\ data_queue # << >>
         /\ data_queue' = << >>
         /\ UNCHANGED <<disk, logged>>

(* It dies inside data_save, while hour k is being written: the modified hours
   before it (nearer the head) are saved, its own file is torn. *)
CrashInSave ==
  /\ MayCrash
  /\ \E k \in Modified :
       disk' = SavedDisk({i \in Modified : i >= k},
                         [i \in Modified |-> IF i = k THEN "write_failed" ELSE "ok"])
  /\ data_queue' = << >>
  /\ UNCHANGED logged

(* It dies inside hour_add, while the evicted hour is being written. *)
CrashInEviction ==
  /\ MayCrash
  /\ Len(data_queue) = HOUR_BUFFER_SIZE
  /\ disk' = [disk EXCEPT ![PathOf[data_queue[1].hour_id]] = TORN]
  /\ data_queue' = << >>
  /\ UNCHANGED logged

StoreNext ==
  \/ \E h \in Hour, s \in Sample, v \in Cell : data_log(h, s, v)
  \/ \E h \in Hour : data_log_rejected(h) \/ data_get_val(h)
  \/ \E h \in Hour, n \in Sample : calculate_data_check(h, n)
  \/ data_save
  \/ Crash \/ CrashInSave \/ CrashInEviction

StoreSpec == StoreInit /\ [][StoreNext]_storeVars

(* run_timer calls data_save every 30 seconds while the program runs *)
FairStore == StoreSpec /\ WF_storeVars(data_save)

-----------------------------------------------------------------------------
(* Type invariant: the cache never exceeds HOUR_BUFFER_SIZE, and files hold
   whole hours or are recognisably torn. *)
StoreTypeOK ==
  /\ data_queue \in Seq(DataHour)
  /\ Len(data_queue) <= HOUR_BUFFER_SIZE
  /\ disk \in [Path -> File \cup {ABSENT, TORN}]
  /\ logged \subseteq (Hour \X Sample) \X Value

(* An hour is cached at most once: data_log, data_save and eviction would
   otherwise work on different copies and the last one saved would win. *)
NoDuplicateHours ==
  \A i, j \in 1..Len(data_queue) :
    data_queue[i].hour_id = data_queue[j].hour_id => i = j

(* A file holds the hour it is named after. *)
FilesInPlace ==
  \A h \in Hour : disk[PathOf[h]] \in File => disk[PathOf[h]].hour_id = h

(* An hour without FLAG_MODIFIED has nothing to lose: every measurement of the
   cached copy is in its file, so skipping it in data_save, or losing the cache,
   does no harm.  An hour that a rejected log created has no file and no
   measurement; markers of calculate_data_check are not covered, the next check
   makes them again.  The one exception is the error that hour_save does not
   see, of fclose: it may leave the file torn, but never an old version of the
   hour that would be read as the current one. *)
CleanHourOnDisk ==
  \A i \in 1..Len(data_queue) : ~data_queue[i].modified =>
    LET file == disk[PathOf[data_queue[i].hour_id]] IN
    \/ file = TORN /\ "close_failed" \in SaveOutcome
    \/ \A s \in Sample : data_queue[i].data[s] \in Value =>
         file \in File /\ file.data[s] = data_queue[i].data[s]

(* No measurement comes from nowhere: every value in the cache or in a readable
   file was logged for that very hour and sample, through any history of
   evictions, failed saves, torn files and restarts. *)
ValueProvenance ==
  /\ \A i \in 1..Len(data_queue), s \in Sample :
       data_queue[i].data[s] \in Value =>
         <<<<data_queue[i].hour_id, s>>, data_queue[i].data[s]>> \in logged
  /\ \A h \in Hour, s \in Sample :
       (disk[PathOf[h]] \in File /\ disk[PathOf[h]].data[s] \in Value) =>
         <<<<h, s>>, disk[PathOf[h]].data[s]>> \in logged

(* What a reader of hour h sees: the cached copy, else the file. *)
Visible(h) ==
  IF hour_find(h) # {} THEN data_queue[CHOOSE i \in hour_find(h) : TRUE].data
  ELSE IF disk[PathOf[h]] \in File THEN disk[PathOf[h]].data
  ELSE [s \in Sample |-> EMPTY]

(* With a disk that works and no crash the cache is transparent: eviction,
   saving and loading never change what is read, a measurement is never
   replaced by a marker, and nothing but data_log and calculate_data_check
   changes a sample. *)
Store == INSTANCE SampleStore WITH store <- [h \in Hour |-> Visible(h)]
ImplementsStore == Store!StoreSpec

(* Every accepted measurement reaches its file, unless it is logged over. *)
LogBecomesDurable ==
  \A h \in Hour, s \in Sample, v \in Value :
    (Visible(h)[s] = v) ~> \/ Visible(h)[s] # v
                           \/ /\ disk[PathOf[h]] \in File
                              /\ disk[PathOf[h]].data[s] = v

=============================================================================
