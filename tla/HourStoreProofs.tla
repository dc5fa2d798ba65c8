-------------------------- MODULE HourStoreProofs --------------------------
(***************************************************************************)
(* Proofs about the data store of HourStore, for every number of hours and *)
(* samples, every cache size, every way a save may fail and with crashes.  *)
(*                                                                         *)
(* The inductive invariant StoreInv says of every cached hour that it is   *)
(* cached once, that its measurements were logged and that they are on     *)
(* disk unless it is flagged; and of every file that it is in its place    *)
(* and holds logged measurements.  Its parts are stated for any queue and  *)
(* any disk, because datahour_get passes through intermediate ones.        *)
(*                                                                         *)
(* The second half shows that on a working disk the store implements       *)
(* SampleStore: what a reader sees is followed through every operation.    *)
(***************************************************************************)
EXTENDS HourStore, TLAPS

Content == File \cup {ABSENT, TORN}

NoDup(q) == \A i, j \in 1..Len(q) : q[i].hour_id = q[j].hour_id => i = j

(* every measurement of data was logged for hour h *)
FromLog(h, data) ==
  \A s \in Sample : data[s] \in Value => <<<<h, s>>, data[s]>> \in logged

QueueOK(q) == /\ q \in Seq(DataHour)
              /\ Len(q) <= HOUR_BUFFER_SIZE
              /\ NoDup(q)
              /\ \A i \in 1..Len(q) : FromLog(q[i].hour_id, q[i].data)

(* what the file of hour h may be *)
FileOK(h, file) == /\ file \in Content
                   /\ file \in File => file.hour_id = h /\ FromLog(h, file.data)

DiskOK(dk) == /\ dk \in [Path -> Content]
              /\ \A h \in Hour : FileOK(h, dk[PathOf[h]])

(* the measurements of hour are in its file *)
Holds(file, hour) ==
  \/ file = TORN /\ "close_failed" \in SaveOutcome
  \/ \A s \in Sample : hour.data[s] \in Value =>
       file \in File /\ file.data[s] = hour.data[s]

Clean(hour, dk) == ~hour.modified => Holds(dk[PathOf[hour.hour_id]], hour)

StoreInv == /\ QueueOK(data_queue)
            /\ DiskOK(disk)
            /\ \A i \in 1..Len(data_queue) : Clean(data_queue[i], disk)
            /\ logged \subseteq (Hour \X Sample) \X Value

(* The four invariants the runs check are parts of StoreInv. *)
LEMMA InvImplies ==
  StoreInv => StoreTypeOK /\ NoDuplicateHours /\ CleanHourOnDisk /\ ValueProvenance
<1> SUFFICES ASSUME StoreInv
             PROVE StoreTypeOK /\ NoDuplicateHours /\ CleanHourOnDisk /\ ValueProvenance
  OBVIOUS
<1>1. StoreTypeOK
  BY DEF StoreInv, QueueOK, DiskOK, Content, StoreTypeOK
<1>2. NoDuplicateHours
  BY DEF StoreInv, QueueOK, NoDup, NoDuplicateHours
<1>3. CleanHourOnDisk
  BY DEF StoreInv, Clean, Holds, CleanHourOnDisk
<1>4. ValueProvenance
  BY DEF StoreInv, QueueOK, DiskOK, FileOK, FromLog, ValueProvenance
<1> QED  BY <1>1, <1>2, <1>3, <1>4

(* hour_save writes the hour, leaves the old file or tears it. *)
LEMMA SaveFile ==
  ASSUME NEW hour \in DataHour, FromLog(hour.hour_id, hour.data),
         NEW old, FileOK(hour.hour_id, old), NEW o \in Outcome
  PROVE  /\ FileOK(hour.hour_id, FileAfterSave(o, old, hour))
         /\ o = "ok" => Holds(FileAfterSave(o, old, hour), hour)
<1>1. hour_serialize(hour) \in File
  BY DEF hour_serialize, DataHour, File
<1>2. /\ hour_serialize(hour).hour_id = hour.hour_id
      /\ hour_serialize(hour).data = hour.data
  BY DEF hour_serialize
<1>3. FileOK(hour.hour_id, hour_serialize(hour))
  BY <1>1, <1>2 DEF FileOK, Content
<1>4. Holds(hour_serialize(hour), hour)
  BY <1>1, <1>2 DEF Holds
<1>5. FileOK(hour.hour_id, TORN)
  BY FileMarkers DEF FileOK, Content
<1>6. CASE o = "ok"
  BY <1>3, <1>4, <1>6 DEF FileAfterSave
<1>7. CASE o = "open_failed"
  BY <1>7 DEF FileAfterSave
<1>8. CASE o = "write_failed" \/ o = "close_failed"
  BY <1>5, <1>8 DEF FileAfterSave
<1> QED  BY <1>6, <1>7, <1>8 DEF Outcome

(* No two hours share a file, so writing one leaves the others alone. *)
LEMMA WriteOne ==
  ASSUME NEW dk, DiskOK(dk), NEW g \in Hour, NEW file, FileOK(g, file)
  PROVE  /\ DiskOK([dk EXCEPT ![PathOf[g]] = file])
         /\ \A h \in Hour \ {g} :
              [dk EXCEPT ![PathOf[g]] = file][PathOf[h]] = dk[PathOf[h]]
<1>1. /\ PathOf[g] \in Path
      /\ \A h \in Hour : PathOf[h] \in Path
      /\ \A h \in Hour \ {g} : PathOf[h] # PathOf[g]
  BY StoreAssumption
<1>2. file \in Content /\ dk \in [Path -> Content]
  BY DEF FileOK, DiskOK
<1>3. /\ [dk EXCEPT ![PathOf[g]] = file] \in [Path -> Content]
      /\ [dk EXCEPT ![PathOf[g]] = file][PathOf[g]] = file
      /\ \A h \in Hour \ {g} :
           [dk EXCEPT ![PathOf[g]] = file][PathOf[h]] = dk[PathOf[h]]
  BY <1>1, <1>2
<1> QED  BY <1>3 DEF DiskOK

-----------------------------------------------------------------------------
(* What datahour_get leaves: the queue and the disk are in order, the hour it
   returns is hour h, and every hour is clean, one just created too: it has no
   measurement yet. *)
GetOK(r, h) ==
  /\ QueueOK(r.queue) /\ DiskOK(r.disk)
  /\ r.at \in 0..Len(r.queue)
  /\ r.at # 0 => r.queue[r.at].hour_id = h
  /\ \A i \in 1..Len(r.queue) : Clean(r.queue[i], r.disk)

(* hour_add of an hour that is not cached: an evicted hour is written, and that
   touches neither the file of the new hour nor those of the others. *)
LEMMA HourAdd ==
  ASSUME StoreInv, NEW hour \in DataHour, hour_find(hour.hour_id) = {},
         FromLog(hour.hour_id, hour.data),
         Clean(hour, disk), NEW r \in hour_add(hour)
  PROVE  GetOK(r, hour.hour_id)
<1> DEFINE q == data_queue
           n == Len(data_queue)
<1>1. /\ q \in Seq(DataHour) /\ n \in Nat /\ n <= HOUR_BUFFER_SIZE
      /\ HOUR_BUFFER_SIZE \in Nat \ {0}
      /\ hour.hour_id \in Hour
  BY StoreAssumption DEF StoreInv, QueueOK, DataHour
<1>2. \A i \in 1..n : /\ q[i] \in DataHour /\ q[i].hour_id \in Hour
                      /\ q[i].hour_id # hour.hour_id
                      /\ FromLog(q[i].hour_id, q[i].data)
                      /\ Clean(q[i], disk)
  <2>1. \A i \in 1..n : q[i] \in DataHour
    BY <1>1
  <2>2. \A i \in 1..n : q[i].hour_id \in Hour
    BY <2>1 DEF DataHour
  <2>3. \A i \in 1..n : q[i].hour_id # hour.hour_id
    BY DEF hour_find
  <2>4. \A i \in 1..n : FromLog(q[i].hour_id, q[i].data) /\ Clean(q[i], disk)
    BY DEF StoreInv, QueueOK
  <2> QED  BY <2>1, <2>2, <2>3, <2>4
<1>3. CASE n < HOUR_BUFFER_SIZE
  <2>1. /\ r.queue = Append(q, hour) /\ r.disk = disk /\ r.at = n + 1
    BY <1>3 DEF hour_add
  <2>2. /\ r.queue \in Seq(DataHour) /\ Len(r.queue) = n + 1
        /\ \A i \in 1..n : r.queue[i] = q[i]
        /\ r.queue[n + 1] = hour
    BY <1>1, <2>1
  <2>3. \A i \in 1..(n + 1) : i \in 1..n \/ i = n + 1
    BY <1>1
  <2>4. NoDup(r.queue)
    BY <1>2, <2>2, <2>3 DEF StoreInv, QueueOK, NoDup
  <2>5. QueueOK(r.queue)
    BY <1>1, <1>2, <1>3, <2>2, <2>3, <2>4 DEF QueueOK
  <2>6. \A i \in 1..Len(r.queue) : Clean(r.queue[i], r.disk)
    BY <1>2, <2>1, <2>2, <2>3
  <2>7. DiskOK(r.disk)
    BY <2>1 DEF StoreInv
  <2>8. r.at \in 0..Len(r.queue) /\ r.at # 0
    BY <1>1, <2>1, <2>2
  <2> QED  BY <2>1, <2>2, <2>5, <2>6, <2>7, <2>8 DEF GetOK
<1>4. CASE ~(n < HOUR_BUFFER_SIZE)
  <2> DEFINE old == data_queue[1]
             p == PathOf[old.hour_id]
  <2>0. 1 \in 1..n
    BY <1>1, <1>4
  <2>1. PICK o \in SaveOutcome :
          /\ r.queue = Append(Tail(q), hour) /\ r.at = n
          /\ r.disk = [disk EXCEPT ![p] = FileAfterSave(o, disk[p], old)]
    BY <1>4 DEF hour_add
  <2>2. /\ r.queue \in Seq(DataHour) /\ Len(r.queue) = n
        /\ \A i \in 1..(n - 1) : r.queue[i] = q[i + 1]
        /\ r.queue[n] = hour
    BY <1>1, <2>0, <2>1
  <2>3. \A i \in 1..n : (i \in 1..(n - 1) /\ i + 1 \in 1..n /\ i + 1 # 1) \/ i = n
    BY <1>1
  <2>4. NoDup(q)
    BY DEF StoreInv, QueueOK
  <2>5. NoDup(r.queue)
    <3> SUFFICES ASSUME NEW i \in 1..n, NEW j \in 1..n,
                        r.queue[i].hour_id = r.queue[j].hour_id
                 PROVE  i = j
      BY <2>2 DEF NoDup
    <3>1. CASE i = n \/ j = n
      BY <1>2, <2>2, <2>3, <3>1
    <3>2. CASE i # n /\ j # n
      <4>1. q[i + 1].hour_id = q[j + 1].hour_id
        BY <2>2, <2>3, <3>2
      <4>2. i + 1 = j + 1
        BY <2>3, <2>4, <3>2, <4>1 DEF NoDup
      <4> QED  BY <1>1, <4>2
    <3> QED  BY <3>1, <3>2
  <2>6. QueueOK(r.queue)
    BY <1>1, <1>2, <2>2, <2>3, <2>5 DEF QueueOK
  <2>7. /\ DiskOK(r.disk)
        /\ \A h \in Hour \ {old.hour_id} : r.disk[PathOf[h]] = disk[PathOf[h]]
    <3>1. FileOK(old.hour_id, FileAfterSave(o, disk[p], old))
      <4>1. o \in Outcome
        BY StoreAssumption
      <4>2. FileOK(old.hour_id, disk[p])
        BY <1>2, <2>0 DEF StoreInv, DiskOK
      <4> QED  BY <1>2, <2>0, <4>1, <4>2, SaveFile
    <3> QED  BY <1>2, <2>0, <2>1, <3>1, WriteOne DEF StoreInv
  <2>8. r.disk[PathOf[hour.hour_id]] = disk[PathOf[hour.hour_id]]
    BY <1>1, <1>2, <2>0, <2>7
  <2>9. Clean(hour, r.disk)
    BY <2>8 DEF Clean
  <2>10. \A i \in 1..(n - 1) : Clean(r.queue[i], r.disk)
    <3> SUFFICES ASSUME NEW i \in 1..(n - 1) PROVE Clean(q[i + 1], r.disk)
      BY <2>2
    <3>1. i + 1 \in 1..n /\ i + 1 # 1
      BY <1>1
    <3>2. q[i + 1].hour_id # old.hour_id
      BY <2>0, <2>4, <3>1 DEF NoDup
    <3>3. r.disk[PathOf[q[i + 1].hour_id]] = disk[PathOf[q[i + 1].hour_id]]
      BY <1>2, <2>7, <3>1, <3>2
    <3> QED  BY <1>2, <3>1, <3>3 DEF Clean
  <2>11. \A i \in 1..Len(r.queue) : Clean(r.queue[i], r.disk)
    BY <2>2, <2>3, <2>9, <2>10
  <2>12. r.at \in 0..Len(r.queue) /\ r.at # 0 /\ r.queue[r.at] = hour
    BY <1>1, <2>0, <2>1, <2>2
  <2> QED  BY <2>6, <2>7, <2>9, <2>11, <2>12 DEF GetOK
<1> QED  BY <1>3, <1>4

(* list_prioritise rotates the queue. *)
LEMMA Rotation ==
  ASSUME NEW q, QueueOK(q), NEW i \in 1..Len(q)
  PROVE  /\ QueueOK(Rotated(q, i))
         /\ Len(Rotated(q, i)) = Len(q)
         /\ Rotated(q, i)[1] = q[i]
         /\ \A j \in 1..Len(q) : \E k \in 1..Len(q) : Rotated(q, i)[j] = q[k]
         /\ \A k \in 1..Len(q) : \E j \in 1..Len(q) : Rotated(q, i)[j] = q[k]
<1> DEFINE n == Len(q)
           at(j) == IF j + i - 1 <= n THEN j + i - 1 ELSE j + i - 1 - n
           to(k) == IF k >= i THEN k - i + 1 ELSE k - i + 1 + n
<1>1. q \in Seq(DataHour) /\ n \in Nat
  BY DEF QueueOK
<1>2. \A j \in 1..n : at(j) \in 1..n
  BY <1>1
<1>3. \A j, k \in 1..n : at(j) = at(k) => j = k
  BY <1>1
<1>4. /\ Len(Rotated(q, i)) = n /\ Rotated(q, i) \in Seq(DataHour)
      /\ \A j \in 1..n : Rotated(q, i)[j] = q[at(j)]
  <2>1. Rotated(q, i) = [j \in 1..n |-> q[at(j)]]
    BY <1>1 DEF Rotated
  <2>2. \A j \in 1..n : q[at(j)] \in DataHour
    BY <1>1, <1>2
  <2> HIDE DEF at
  <2>3. [j \in 1..n |-> q[at(j)]] \in [1..n -> DataHour]
    BY <2>2
  <2> QED  BY <1>1, <2>1, <2>3
<1>5. at(1) = i /\ 1 \in 1..n
  BY <1>1
<1>8. \A k \in 1..n : to(k) \in 1..n /\ at(to(k)) = k
  BY <1>1
<1> HIDE DEF at, to
<1>6. NoDup(Rotated(q, i))
  <2> SUFFICES ASSUME NEW j \in 1..n, NEW k \in 1..n,
                      Rotated(q, i)[j].hour_id = Rotated(q, i)[k].hour_id
               PROVE  j = k
    BY <1>4 DEF NoDup
  <2>1. at(j) = at(k)
    BY <1>2, <1>4 DEF QueueOK, NoDup
  <2> QED  BY <1>3, <2>1
<1>7. QueueOK(Rotated(q, i))
  BY <1>2, <1>4, <1>6 DEF QueueOK
<1> QED  BY <1>2, <1>4, <1>5, <1>7, <1>8

(* datahour_get: a cached hour comes to the tail, a file is loaded, an unknown
   hour is created if the caller wants that. *)
LEMMA Get ==
  ASSUME StoreInv, NEW h \in Hour, NEW create \in BOOLEAN,
         NEW r \in datahour_get(h, create)
  PROVE  GetOK(r, h)
<1>1. CASE hour_find(h) # {}
  <2>1. PICK i \in hour_find(h) :
          r = [queue |-> Rotated(data_queue, i), disk |-> disk, at |-> 1]
    BY <1>1 DEF datahour_get
  <2>2. i \in 1..Len(data_queue) /\ data_queue[i].hour_id = h
    BY DEF hour_find
  <2>3. /\ QueueOK(r.queue) /\ Len(r.queue) = Len(data_queue)
        /\ r.queue[1] = data_queue[i]
        /\ \A j \in 1..Len(r.queue) : \E k \in 1..Len(data_queue) :
              r.queue[j] = data_queue[k]
    <3>1. r.queue = Rotated(data_queue, i)
      BY <2>1
    <3>2. QueueOK(data_queue)
      BY DEF StoreInv
    <3>3. /\ QueueOK(Rotated(data_queue, i))
          /\ Len(Rotated(data_queue, i)) = Len(data_queue)
          /\ Rotated(data_queue, i)[1] = data_queue[i]
          /\ \A j \in 1..Len(data_queue) : \E k \in 1..Len(data_queue) :
                Rotated(data_queue, i)[j] = data_queue[k]
      BY <2>2, <3>2, Rotation
    <3> QED  BY <3>1, <3>3
  <2>4. \A j \in 1..Len(r.queue) : Clean(r.queue[j], r.disk)
    BY <2>1, <2>3 DEF StoreInv
  <2>5. r.at = 1 /\ r.at \in 0..Len(r.queue) /\ r.disk = disk
    BY <2>1, <2>2, <2>3 DEF QueueOK
  <2> QED  BY <2>2, <2>3, <2>4, <2>5 DEF GetOK, StoreInv
<1>2. CASE hour_find(h) = {}
  <2>1. PICK o \in LoadOutcome :
          r \in datahour_load(h, create, hour_load(o, disk[PathOf[h]]))
    BY <1>2 DEF datahour_get
  <2>2. PICK file : file = hour_load(o, disk[PathOf[h]])
    OBVIOUS
  <2>3. /\ file \in {ABSENT, TORN, disk[PathOf[h]]}
        /\ FileOK(h, disk[PathOf[h]])
        /\ r \in datahour_load(h, create, file)
    BY <2>1, <2>2, StoreAssumption DEF hour_load, StoreInv, DiskOK
  <2>4. CASE file = TORN \/ (file = ABSENT /\ ~create)
    <3>1. r = [queue |-> data_queue, disk |-> disk, at |-> 0]
      BY <2>3, <2>4 DEF datahour_load
    <3>2. 0 \in 0..Len(data_queue)
      BY DEF StoreInv, QueueOK
    <3> QED  BY <3>1, <3>2 DEF GetOK, StoreInv
  <2>5. CASE file = ABSENT /\ create
    <3>1. r \in hour_add(hour_create(h))
      BY <2>3, <2>5, FileMarkers DEF datahour_load
    <3>2. /\ hour_create(h) \in DataHour /\ hour_create(h).hour_id = h
          /\ FromLog(h, hour_create(h).data)
      BY StoreAssumption DEF hour_create, DataHour, Samples, Cell, FromLog
    <3>3. Clean(hour_create(h), disk)
      BY StoreAssumption DEF hour_create, Clean, Holds
    <3> QED  BY <1>2, <3>1, <3>2, <3>3, HourAdd
  <2>6. CASE file # ABSENT /\ file # TORN
    <3> DEFINE hour == hour_deserialize(file)
    <3>1. r \in hour_add(hour)
      BY <2>3, <2>6 DEF datahour_load
    <3>2. /\ file = disk[PathOf[h]] /\ file \in File /\ file.hour_id = h
          /\ FromLog(h, file.data)
      BY <2>3, <2>6 DEF FileOK, Content
    <3>3. /\ hour \in DataHour /\ hour.hour_id = h /\ hour.data = file.data
          /\ hour.modified = FALSE
      BY <3>2 DEF hour_deserialize, DataHour, File
    <3>4. Clean(hour, disk)
      BY <3>2, <3>3 DEF Clean, Holds
    <3> HIDE DEF hour
    <3> QED  BY <1>2, <3>1, <3>2, <3>3, <3>4, HourAdd
  <2> QED  BY <2>4, <2>5, <2>6
<1> QED  BY <1>1, <1>2

-----------------------------------------------------------------------------
(* data_save, completed or interrupted: the files of the hours of idx are
   written, the others stay. *)
LEMMA SaveSome ==
  ASSUME StoreInv, NEW idx \in SUBSET (1..Len(data_queue)),
         NEW o, \A i \in idx : o[i] \in Outcome
  PROVE  /\ DiskOK(SavedDisk(idx, o))
         /\ \A i \in idx :
              SavedDisk(idx, o)[PathOf[data_queue[i].hour_id]]
                = FileAfterSave(o[i], disk[PathOf[data_queue[i].hour_id]],
                                data_queue[i])
         /\ \A h \in Hour : (\A i \in idx : data_queue[i].hour_id # h)
              => SavedDisk(idx, o)[PathOf[h]] = disk[PathOf[h]]
<1> DEFINE q == data_queue
           at(i) == PathOf[data_queue[i].hour_id]
           new(i) == FileAfterSave(o[i], disk[at(i)], data_queue[i])
<1>1. \A i \in idx : q[i] \in DataHour /\ q[i].hour_id \in Hour /\ at(i) \in Path
  <2>1. \A i \in idx : q[i] \in DataHour
    BY DEF StoreInv, QueueOK
  <2>2. \A i \in idx : q[i].hour_id \in Hour
    BY <2>1 DEF DataHour
  <2> QED  BY <2>1, <2>2, StoreAssumption
<1>2. \A i, j \in idx : at(i) = at(j) => i = j
  BY <1>1, StoreAssumption DEF StoreInv, QueueOK, NoDup
<1>3. \A i \in idx : FileOK(q[i].hour_id, new(i))
  <2> SUFFICES ASSUME NEW i \in idx PROVE FileOK(q[i].hour_id, new(i))
    OBVIOUS
  <2>1. FromLog(q[i].hour_id, q[i].data) /\ FileOK(q[i].hour_id, disk[at(i)])
    BY <1>1 DEF StoreInv, QueueOK, DiskOK
  <2> QED  BY <1>1, <2>1, SaveFile
<1>4. \A i \in idx : SavedDisk(idx, o)[at(i)] = new(i)
  <2> SUFFICES ASSUME NEW i \in idx PROVE SavedDisk(idx, o)[at(i)] = new(i)
    OBVIOUS
  <2>1. (CHOOSE k \in idx : at(k) = at(i)) = i
    BY <1>2
  <2> QED  BY <1>1, <2>1 DEF SavedDisk
<1>5. \A p \in Path : (\A i \in idx : at(i) # p) => SavedDisk(idx, o)[p] = disk[p]
  BY DEF SavedDisk
<1>6. \A h \in Hour : (\A i \in idx : q[i].hour_id # h)
        => SavedDisk(idx, o)[PathOf[h]] = disk[PathOf[h]]
  BY <1>1, <1>5, StoreAssumption
<1>7. SavedDisk(idx, o) \in [Path -> Content]
  <2>1. \A p \in Path : SavedDisk(idx, o)[p] \in Content
    <3> SUFFICES ASSUME NEW p \in Path PROVE SavedDisk(idx, o)[p] \in Content
      OBVIOUS
    <3>1. CASE \E i \in idx : at(i) = p
      BY <1>3, <1>4, <3>1 DEF FileOK
    <3>2. CASE ~\E i \in idx : at(i) = p
      BY <1>5, <3>2 DEF StoreInv, DiskOK
    <3> QED  BY <3>1, <3>2
  <2>2. SavedDisk(idx, o) = [p \in Path |-> SavedDisk(idx, o)[p]]
    BY DEF SavedDisk
  <2> QED  BY <2>1, <2>2
<1>8. \A h \in Hour : FileOK(h, SavedDisk(idx, o)[PathOf[h]])
  BY <1>3, <1>4, <1>6 DEF StoreInv, DiskOK
<1> QED  BY <1>4, <1>6, <1>7, <1>8 DEF DiskOK

(* Marking samples as not measured touches no measurement. *)
LEMMA CheckedHour ==
  ASSUME NEW hour \in DataHour, NEW log_num \in Sample
  PROVE  /\ Checked(hour, log_num) \in DataHour
         /\ Checked(hour, log_num).hour_id = hour.hour_id
         /\ Checked(hour, log_num).modified = hour.modified
         /\ \A s \in Sample : Checked(hour, log_num).data[s] \in Value =>
               Checked(hour, log_num).data[s] = hour.data[s]
         /\ \A s \in Sample : Checked(hour, log_num).data[s] # hour.data[s] =>
               /\ hour.data[s] = EMPTY
               /\ Checked(hour, log_num).data[s] = NOT_MEASURED
<1> DEFINE data == [s \in Sample |->
                     IF IsProvided /\ s <= log_num /\ hour.data[s] = EMPTY
                       THEN NOT_MEASURED ELSE hour.data[s]]
<1>1. hour.data \in [Sample -> Cell]
  BY DEF DataHour, Samples
<1>2. data \in [Sample -> Cell]
  BY <1>1 DEF Cell
<1>3. \A s \in Sample :
        /\ data[s] \in Value => data[s] = hour.data[s]
        /\ data[s] # hour.data[s] => hour.data[s] = EMPTY /\ data[s] = NOT_MEASURED
  BY StoreAssumption
<1>4. Checked(hour, log_num) = [hour EXCEPT !.data = data]
  BY DEF Checked, DataHour
<1> HIDE DEF data
<1> QED  BY <1>2, <1>3, <1>4 DEF DataHour, Samples

(* The program starts with an empty cache; files are not there yet. *)
LEMMA StoreInitInv == StoreInit => StoreInv
<1> SUFFICES ASSUME StoreInit PROVE StoreInv
  OBVIOUS
<1>1. QueueOK(data_queue) /\ Len(data_queue) = 0
  BY StoreAssumption DEF StoreInit, QueueOK, NoDup
<1>2. DiskOK(disk)
  BY StoreAssumption, FileMarkers DEF StoreInit, DiskOK, FileOK, Content
<1> QED  BY <1>1, <1>2 DEF StoreInv, StoreInit

(* What was logged stays logged. *)
LEMMA LogGrows ==
  ASSUME logged \subseteq logged'
  PROVE  /\ \A h, data : FromLog(h, data) => FromLog(h, data)'
         /\ \A q : QueueOK(q) => QueueOK(q)'
         /\ \A dk : DiskOK(dk) => DiskOK(dk)'
<1>1. \A h, data : FromLog(h, data) => FromLog(h, data)'
  BY DEF FromLog
<1> QED  BY <1>1 DEF QueueOK, DiskOK, FileOK

(* One cached hour is replaced by a version of the same hour. *)
LEMMA ReplaceHour ==
  ASSUME NEW q, QueueOK(q), logged \subseteq logged', NEW at \in 1..Len(q),
         NEW hour \in DataHour, hour.hour_id = q[at].hour_id,
         FromLog(hour.hour_id, hour.data)'
  PROVE  /\ QueueOK([q EXCEPT ![at] = hour])'
         /\ Len([q EXCEPT ![at] = hour]) = Len(q)
         /\ [q EXCEPT ![at] = hour][at] = hour
         /\ \A i \in 1..Len(q) : i # at => [q EXCEPT ![at] = hour][i] = q[i]
<1> DEFINE n == [q EXCEPT ![at] = hour]
<1>1. /\ q \in Seq(DataHour) /\ n \in Seq(DataHour) /\ Len(n) = Len(q)
      /\ n[at] = hour /\ \A i \in 1..Len(q) : i # at => n[i] = q[i]
  BY DEF QueueOK
<1> HIDE DEF n
<1>2. \A i \in 1..Len(q) : n[i].hour_id = q[i].hour_id
  BY <1>1
<1>3. NoDup(n)
  BY <1>1, <1>2 DEF QueueOK, NoDup
<1>4. \A i \in 1..Len(q) : FromLog(n[i].hour_id, n[i].data)'
  <2>1. \A i \in 1..Len(q) : FromLog(q[i].hour_id, q[i].data)'
    BY LogGrows DEF QueueOK
  <2> QED  BY <1>1, <2>1
<1>5. QueueOK(n)'
  BY <1>1, <1>3, <1>4 DEF QueueOK
<1> QED  BY <1>1, <1>5 DEF n

(* data_log: the sample is set and the hour is flagged. *)
LEMMA LogInv ==
  ASSUME StoreInv, NEW h \in Hour, NEW s \in Sample, NEW v \in Cell,
         data_log(h, s, v)
  PROVE  StoreInv'
<1>1. PICK got \in datahour_get(h, TRUE) :
        /\ disk' = got.disk
        /\ IF got.at # 0 /\ Accepts(got.queue[got.at].data[s], v)
             THEN /\ data_queue' = [got.queue EXCEPT ![got.at] = LoggedHour(@, s, v)]
                  /\ logged' = logged \cup ({<<h, s>>} \X (Value \cap {v}))
             ELSE /\ data_queue' = got.queue
                  /\ UNCHANGED logged
  BY DEF data_log
<1>2. GetOK(got, h)
  BY Get
<1>3. got.at \in 0..Len(got.queue) /\ got.queue \in Seq(DataHour)
  BY <1>2 DEF GetOK, QueueOK
<1>4. CASE got.at # 0 /\ Accepts(got.queue[got.at].data[s], v)
  <2> DEFINE hour == got.queue[got.at]
             new == LoggedHour(hour, s, v)
  <2>1. got.at \in 1..Len(got.queue) /\ hour \in DataHour /\ hour.hour_id = h
    BY <1>2, <1>3, <1>4 DEF GetOK
  <2>2. /\ data_queue' = [got.queue EXCEPT ![got.at] = new]
        /\ logged' = logged \cup ({<<h, s>>} \X (Value \cap {v}))
    BY <1>1, <1>3, <1>4, <2>1
  <2>3. /\ new \in DataHour /\ new.hour_id = h /\ new.modified = TRUE
        /\ new.data[s] = v
        /\ \A t \in Sample : t # s => new.data[t] = hour.data[t]
    BY <2>1 DEF LoggedHour, DataHour, Samples
  <2>4. /\ logged \subseteq logged'
        /\ v \in Value => <<<<h, s>>, v>> \in logged'
        /\ logged' \subseteq (Hour \X Sample) \X Value
    BY <2>2 DEF StoreInv
  <2> HIDE DEF new
  <2>5. FromLog(h, new.data)'
    <3>1. FromLog(h, hour.data)
      BY <1>2, <2>1 DEF GetOK, QueueOK
    <3> QED  BY <2>3, <2>4, <3>1 DEF FromLog
  <2>6. /\ QueueOK(data_queue)'
        /\ Len(data_queue') = Len(got.queue)
        /\ data_queue'[got.at] = new
        /\ \A i \in 1..Len(got.queue) : i # got.at => data_queue'[i] = got.queue[i]
    <3>1. QueueOK(got.queue)
      BY <1>2 DEF GetOK
    <3> QED  BY <2>1, <2>2, <2>3, <2>4, <2>5, <3>1, ReplaceHour
  <2>7. \A i \in 1..Len(data_queue') : Clean(data_queue'[i], disk')
    <3>1. Clean(new, disk')
      BY <2>3 DEF Clean
    <3> QED  BY <1>1, <1>2, <2>6, <3>1 DEF GetOK
  <2>8. DiskOK(disk)'
    BY <1>1, <1>2, <2>4, LogGrows DEF GetOK
  <2>9. (\A i \in 1..Len(data_queue) : Clean(data_queue[i], disk))'
    BY <2>7
  <2> QED  BY <2>4, <2>6, <2>8, <2>9 DEF StoreInv
<1>5. CASE ~(got.at # 0 /\ Accepts(got.queue[got.at].data[s], v))
  <2>1. data_queue' = got.queue /\ logged' = logged
    BY <1>1, <1>5
  <2>2. \A i \in 1..Len(got.queue) : Clean(got.queue[i], got.disk)
    BY <1>2 DEF GetOK
  <2>3. QueueOK(data_queue)' /\ DiskOK(disk)'
    BY <1>1, <1>2, <2>1, LogGrows DEF GetOK
  <2>4. (\A i \in 1..Len(data_queue) : Clean(data_queue[i], disk))'
    BY <1>1, <2>1, <2>2
  <2> QED  BY <2>1, <2>3, <2>4 DEF StoreInv
<1> QED  BY <1>4, <1>5

(* Reading an hour, or a log that is rejected: only datahour_get has an
   effect. *)
LEMMA ReadInv ==
  ASSUME StoreInv, NEW h \in Hour, data_get_val(h) \/ data_log_rejected(h)
  PROVE  StoreInv'
<1>0. PICK create \in BOOLEAN : \E got \in datahour_get(h, create) :
        disk' = got.disk /\ data_queue' = got.queue /\ logged' = logged
  BY DEF data_get_val, data_log_rejected
<1>1. PICK got \in datahour_get(h, create) :
        disk' = got.disk /\ data_queue' = got.queue /\ logged' = logged
  BY <1>0
<1>2. GetOK(got, h)
  BY Get
<1>3. QueueOK(data_queue)' /\ DiskOK(disk)'
  BY <1>1, <1>2, LogGrows DEF GetOK
<1>4. (\A i \in 1..Len(data_queue) : Clean(data_queue[i], disk))'
  BY <1>1, <1>2 DEF GetOK
<1> QED  BY <1>1, <1>3, <1>4 DEF StoreInv

(* A data check: markers are set without a flag, measurements stay. *)
LEMMA CheckInv ==
  ASSUME StoreInv, NEW h \in Hour, NEW log_num \in Sample,
         calculate_data_check(h, log_num)
  PROVE  StoreInv'
<1>1. PICK got \in datahour_get(h, FALSE) :
        /\ disk' = got.disk /\ logged' = logged
        /\ \/ data_queue' = got.queue
           \/ /\ got.at # 0
              /\ data_queue' = [got.queue EXCEPT ![got.at] = Checked(@, log_num)]
  BY DEF calculate_data_check
<1>2. /\ GetOK(got, h)
      /\ \A i \in 1..Len(got.queue) : Clean(got.queue[i], got.disk)
  BY Get DEF GetOK
<1>3. /\ got.at \in 0..Len(got.queue) /\ got.queue \in Seq(DataHour)
      /\ QueueOK(got.queue) /\ DiskOK(got.disk)
  BY <1>2 DEF GetOK, QueueOK
<1>4. DiskOK(disk)'
  BY <1>1, <1>3, LogGrows
<1>5. CASE data_queue' = got.queue
  <2>1. QueueOK(data_queue)'
    BY <1>1, <1>3, <1>5, LogGrows
  <2>2. (\A i \in 1..Len(data_queue) : Clean(data_queue[i], disk))'
    BY <1>1, <1>2, <1>5
  <2> QED  BY <1>1, <1>4, <2>1, <2>2 DEF StoreInv
<1>6. CASE /\ got.at # 0
           /\ data_queue' = [got.queue EXCEPT ![got.at] = Checked(@, log_num)]
  <2> DEFINE hour == got.queue[got.at]
             new == Checked(hour, log_num)
  <2>1. got.at \in 1..Len(got.queue) /\ hour \in DataHour
    BY <1>3, <1>6
  <2>2. data_queue' = [got.queue EXCEPT ![got.at] = new]
    BY <1>1, <1>6, <2>1
  <2>3. /\ new \in DataHour /\ new.hour_id = hour.hour_id
        /\ new.modified = hour.modified
        /\ \A t \in Sample : new.data[t] \in Value => new.data[t] = hour.data[t]
    BY <2>1, CheckedHour
  <2> HIDE DEF new
  <2>4. FromLog(new.hour_id, new.data)'
    <3>1. FromLog(hour.hour_id, hour.data)
      BY <1>3, <2>1 DEF QueueOK
    <3> QED  BY <1>1, <2>3, <3>1 DEF FromLog
  <2>5. /\ QueueOK(data_queue)'
        /\ Len(data_queue') = Len(got.queue)
        /\ data_queue'[got.at] = new
        /\ \A i \in 1..Len(got.queue) : i # got.at => data_queue'[i] = got.queue[i]
    BY <1>1, <1>3, <2>1, <2>2, <2>3, <2>4, ReplaceHour
  <2>6. Clean(new, got.disk)
    BY <1>2, <2>1, <2>3 DEF Clean, Holds
  <2>7. (\A i \in 1..Len(data_queue) : Clean(data_queue[i], disk))'
    BY <1>1, <1>2, <2>5, <2>6
  <2> QED  BY <1>1, <1>4, <2>5, <2>7 DEF StoreInv
<1> QED  BY <1>1, <1>5, <1>6

(* data_save: an hour whose save reported success is in its file (or the file is
   torn, if fclose failed); the others keep their flag. *)
LEMMA SaveInv == StoreInv /\ data_save => StoreInv'
<1> SUFFICES ASSUME StoreInv, data_save PROVE StoreInv'
  OBVIOUS
<1> DEFINE q == data_queue
           n == Len(data_queue)
<1>1. PICK o \in [Modified -> SaveOutcome] :
        /\ disk' = SavedDisk(Modified, o)
        /\ data_queue' = [i \in 1..n |->
                            IF i \in Modified THEN FlagAfterSave(q[i], o[i]) ELSE q[i]]
        /\ logged' = logged
  BY DEF data_save
<1>2. Modified \in SUBSET (1..n) /\ \A i \in Modified : o[i] \in Outcome
  BY StoreAssumption DEF Modified
<1>3. /\ DiskOK(disk')
      /\ \A i \in Modified :
           disk'[PathOf[q[i].hour_id]]
             = FileAfterSave(o[i], disk[PathOf[q[i].hour_id]], q[i])
      /\ \A h \in Hour : (\A i \in Modified : q[i].hour_id # h)
           => disk'[PathOf[h]] = disk[PathOf[h]]
  BY <1>1, <1>2, SaveSome
<1>4. q \in Seq(DataHour) /\ n \in Nat /\ NoDup(q)
      /\ \A i \in 1..n : /\ q[i] \in DataHour
                         /\ FromLog(q[i].hour_id, q[i].data)
                         /\ Clean(q[i], disk)
  BY DEF StoreInv, QueueOK
<1>5. \A i \in 1..n :
        /\ data_queue'[i] \in DataHour
        /\ data_queue'[i].hour_id = q[i].hour_id
        /\ data_queue'[i].data = q[i].data
        /\ i \notin Modified => data_queue'[i] = q[i]
        /\ i \in Modified => data_queue'[i] = FlagAfterSave(q[i], o[i])
  BY <1>1, <1>4 DEF FlagAfterSave, DataHour
<1>6. Len(data_queue') = n /\ data_queue' \in Seq(DataHour)
  <2>1. data_queue' \in [1..n -> DataHour]
    BY <1>1, <1>5
  <2> QED  BY <1>4, <2>1
<1>7. QueueOK(data_queue')
  <2>1. NoDup(data_queue')
    BY <1>4, <1>5, <1>6 DEF NoDup
  <2> QED  BY <1>4, <1>5, <1>6, <2>1 DEF StoreInv, QueueOK
<1>8. \A i \in 1..n : Clean(data_queue'[i], disk')
  <2> SUFFICES ASSUME NEW i \in 1..n, ~data_queue'[i].modified
               PROVE  Holds(disk'[PathOf[q[i].hour_id]], data_queue'[i])
    BY <1>5 DEF Clean
  <2>1. q[i].hour_id \in Hour
    BY <1>4 DEF DataHour
  <2>2. CASE i \in Modified
    <3>1. q[i].modified
      BY <2>2 DEF Modified
    <3>2. SaveReportsOK(o[i])
      BY <1>5, <2>2, <3>1 DEF FlagAfterSave
    <3>3. CASE o[i] = "ok"
      <4>1. FileOK(q[i].hour_id, disk[PathOf[q[i].hour_id]])
        BY <2>1 DEF StoreInv, DiskOK
      <4>2. Holds(disk'[PathOf[q[i].hour_id]], q[i])
        BY <1>2, <1>3, <1>4, <2>2, <3>3, <4>1, SaveFile
      <4> QED  BY <1>5, <4>2 DEF Holds
    <3>4. CASE o[i] = "close_failed"
      <4>1. disk'[PathOf[q[i].hour_id]] = TORN
        BY <1>3, <2>2, <3>4 DEF FileAfterSave
      <4>2. "close_failed" \in SaveOutcome
        BY <1>1, <2>2, <3>4
      <4> QED  BY <4>1, <4>2 DEF Holds
    <3> QED  BY <3>2, <3>3, <3>4 DEF SaveReportsOK
  <2>3. CASE i \notin Modified
    <3>1. \A j \in Modified : q[j].hour_id # q[i].hour_id
      BY <1>2, <1>4, <2>3 DEF NoDup
    <3>2. disk'[PathOf[q[i].hour_id]] = disk[PathOf[q[i].hour_id]]
      BY <1>3, <2>1, <3>1
    <3> QED  BY <1>4, <1>5, <2>3, <3>2 DEF Clean
  <2> QED  BY <2>2, <2>3
<1>9. QueueOK(data_queue)' /\ DiskOK(disk)'
  <2>1. logged' = logged
    BY <1>1
  <2>2. QueueOK(data_queue)'
    BY <1>7, <2>1 DEF QueueOK, FromLog
  <2>3. DiskOK(disk)'
    BY <1>3, <2>1 DEF DiskOK, FileOK, FromLog
  <2> QED  BY <2>2, <2>3
<1>10. (\A i \in 1..Len(data_queue) : Clean(data_queue[i], disk))'
  BY <1>6, <1>8
<1> QED  BY <1>1, <1>9, <1>10 DEF StoreInv

(* After a crash the cache is empty; the files are whole, old or torn. *)
LEMMA CrashInv ==
  StoreInv /\ (Crash \/ CrashInSave \/ CrashInEviction) => StoreInv'
<1> SUFFICES ASSUME StoreInv, Crash \/ CrashInSave \/ CrashInEviction
             PROVE  StoreInv'
  OBVIOUS
<1>1. data_queue' = << >> /\ logged' = logged
  BY DEF Crash, CrashInSave, CrashInEviction
<1>2. QueueOK(data_queue') /\ Len(data_queue') = 0
  BY <1>1, StoreAssumption DEF QueueOK, NoDup
<1>3. DiskOK(disk')
  <2>1. CASE Crash
    BY <2>1 DEF Crash, StoreInv
  <2>2. CASE CrashInSave
    <3> DEFINE o(k) == [i \in Modified |-> IF i = k THEN "write_failed" ELSE "ok"]
               idx(k) == {i \in Modified : i >= k}
    <3>1. PICK k \in Modified : disk' = SavedDisk(idx(k), o(k))
      BY <2>2 DEF CrashInSave
    <3>2. idx(k) \in SUBSET (1..Len(data_queue))
      BY DEF Modified
    <3>3. \A i \in idx(k) : o(k)[i] \in Outcome
      BY DEF Outcome
    <3> HIDE DEF idx, o
    <3> QED  BY <3>1, <3>2, <3>3, SaveSome
  <2>3. CASE CrashInEviction
    <3>1. 1 \in 1..Len(data_queue)
      BY <2>3, StoreAssumption DEF CrashInEviction, StoreInv, QueueOK
    <3>2. data_queue[1] \in DataHour
      BY <3>1 DEF StoreInv, QueueOK
    <3>3. data_queue[1].hour_id \in Hour
      BY <3>2 DEF DataHour
    <3>4. FileOK(data_queue[1].hour_id, TORN)
      BY FileMarkers DEF FileOK, Content
    <3> QED  BY <2>3, <3>3, <3>4, WriteOne DEF CrashInEviction, StoreInv
  <2> QED  BY <2>1, <2>2, <2>3
<1>4. QueueOK(data_queue)' /\ DiskOK(disk)'
  BY <1>1, <1>2, <1>3 DEF QueueOK, DiskOK, FileOK, FromLog
<1>5. (\A i \in 1..Len(data_queue) : Clean(data_queue[i], disk))'
  BY <1>2
<1> QED  BY <1>1, <1>4, <1>5 DEF StoreInv

(* No operation of the store, and no crash, breaks the invariant. *)
LEMMA StoreStep == StoreInv /\ [StoreNext]_storeVars => StoreInv'
<1> SUFFICES ASSUME StoreInv, [StoreNext]_storeVars PROVE StoreInv'
  OBVIOUS
<1>1. ASSUME NEW h \in Hour, NEW s \in Sample, NEW v \in Cell, data_log(h, s, v)
      PROVE  StoreInv'
  BY <1>1, LogInv
<1>2. ASSUME NEW h \in Hour, data_get_val(h) \/ data_log_rejected(h)
      PROVE  StoreInv'
  BY <1>2, ReadInv
<1>3. ASSUME NEW h \in Hour, NEW n \in Sample, calculate_data_check(h, n)
      PROVE  StoreInv'
  BY <1>3, CheckInv
<1>4. CASE data_save
  BY <1>4, SaveInv
<1>5. CASE Crash \/ CrashInSave \/ CrashInEviction
  BY <1>5, CrashInv
<1>6. CASE UNCHANGED storeVars
  BY <1>6 DEF storeVars, StoreInv, QueueOK, DiskOK, FileOK, FromLog, Clean
<1> QED  BY <1>1, <1>2, <1>3, <1>4, <1>5, <1>6 DEF StoreNext

(* The cache of hours stays within its size and never holds an hour twice, so
   that data_log, data_save and eviction always work on the same copy. *)
THEOREM StoreWellFormed == StoreSpec => [](StoreTypeOK /\ NoDuplicateHours)
<1>1. StoreInv => StoreTypeOK /\ NoDuplicateHours
  BY InvImplies
<1> QED  BY <1>1, StoreInitInv, StoreStep, PTL DEF StoreSpec

(* The type invariant of the store, on its own: the cache never exceeds its
   size, and files hold hours. *)
THEOREM StoreTypeSafety == StoreSpec => []StoreTypeOK
<1>1. StoreTypeOK /\ NoDuplicateHours => StoreTypeOK
  OBVIOUS
<1> QED  BY <1>1, StoreWellFormed, PTL

(* What data_save skips needs no saving: an hour without FLAG_MODIFIED has all
   its measurements in its file, whatever failed before, an hour that a rejected
   log left in the cache included - except that a failing fclose may have torn
   the file. *)
THEOREM CleanHoursDurable == StoreSpec => []CleanHourOnDisk
<1>1. StoreInv => CleanHourOnDisk
  BY InvImplies
<1> QED  BY <1>1, StoreInitInv, StoreStep, PTL DEF StoreSpec

(* No measurement is ever invented or put in another place, through evictions,
   failed saves, torn files and crashes. *)
THEOREM ValuesComeFromLog == StoreSpec => []ValueProvenance
<1>1. StoreInv => ValueProvenance
  BY InvImplies
<1> QED  BY <1>1, StoreInitInv, StoreStep, PTL DEF StoreSpec

-----------------------------------------------------------------------------
(* The disk works and the process is not interrupted. *)
Working == SaveOutcome = {"ok"} /\ LoadOutcome = {"ok"} /\ ~MayCrash

NoTorn(dk) == \A h \in Hour : dk[PathOf[h]] # TORN

Blank == [s \in Sample |-> EMPTY]

Stored(file) == IF file \in File THEN file.data ELSE Blank

(* What a reader of hour h sees with the cache q and the disk dk: Visible for
   any queue and disk, since datahour_get passes through intermediate ones. *)
Shown(q, dk, h) ==
  IF \E i \in 1..Len(q) : q[i].hour_id = h
    THEN q[CHOOSE i \in 1..Len(q) : q[i].hour_id = h].data
    ELSE Stored(dk[PathOf[h]])

(* A cached hour is read from the cache, any other from its file. *)
LEMMA ShownIs ==
  ASSUME NEW q, NoDup(q), NEW dk
  PROVE  /\ \A i \in 1..Len(q) : Shown(q, dk, q[i].hour_id) = q[i].data
         /\ \A h : (\A i \in 1..Len(q) : q[i].hour_id # h)
              => Shown(q, dk, h) = Stored(dk[PathOf[h]])
<1>1. ASSUME NEW i \in 1..Len(q) PROVE Shown(q, dk, q[i].hour_id) = q[i].data
  <2>1. (CHOOSE k \in 1..Len(q) : q[k].hour_id = q[i].hour_id) = i
    BY DEF NoDup
  <2> QED  BY <2>1 DEF Shown
<1>2. ASSUME NEW h, \A i \in 1..Len(q) : q[i].hour_id # h
      PROVE  Shown(q, dk, h) = Stored(dk[PathOf[h]])
  BY <1>2 DEF Shown
<1> QED  BY <1>1, <1>2

(* Visible is what the current cache and disk show, before and after a step. *)
LEMMA VisibleIs ==
  ASSUME NEW h \in Hour
  PROVE  /\ NoDup(data_queue) => Visible(h) = Shown(data_queue, disk, h)
         /\ NoDup(data_queue') => Visible(h)' = Shown(data_queue', disk', h)
<1>1. ASSUME NoDup(data_queue) PROVE Visible(h) = Shown(data_queue, disk, h)
  <2>1. CASE hour_find(h) # {}
    <3>1. PICK i : i = CHOOSE k \in hour_find(h) : TRUE
      OBVIOUS
    <3>2. i \in 1..Len(data_queue) /\ data_queue[i].hour_id = h
      BY <2>1, <3>1 DEF hour_find
    <3>3. Visible(h) = data_queue[i].data
      BY <2>1, <3>1 DEF Visible
    <3> QED  BY <1>1, <3>2, <3>3, ShownIs
  <2>2. CASE hour_find(h) = {}
    <3>1. \A i \in 1..Len(data_queue) : data_queue[i].hour_id # h
      BY <2>2 DEF hour_find
    <3> QED  BY <2>2, <3>1 DEF Visible, Shown, Stored, Blank
  <2> QED  BY <2>1, <2>2
<1>2. ASSUME NoDup(data_queue') PROVE Visible(h)' = Shown(data_queue', disk', h)
  <2>1. CASE hour_find(h)' # {}
    <3>1. PICK i : i = CHOOSE k \in hour_find(h)' : TRUE
      OBVIOUS
    <3>2. i \in 1..Len(data_queue') /\ data_queue'[i].hour_id = h
      BY <2>1, <3>1 DEF hour_find
    <3>3. Visible(h)' = data_queue'[i].data
      BY <2>1, <3>1 DEF Visible
    <3> QED  BY <1>2, <3>2, <3>3, ShownIs
  <2>2. CASE hour_find(h)' = {}
    <3>1. \A i \in 1..Len(data_queue') : data_queue'[i].hour_id # h
      BY <2>2 DEF hour_find
    <3> QED  BY <2>2, <3>1 DEF Visible, Shown, Stored, Blank
  <2> QED  BY <2>1, <2>2
<1> QED  BY <1>1, <1>2

(* hour_add changes nothing a reader sees, if the hour is added as its file has
   it: a working save leaves the evicted hour in its file. *)
LEMMA AddShows ==
  ASSUME StoreInv, Working, NoTorn(disk), NEW hour \in DataHour,
         hour_find(hour.hour_id) = {},
         hour.data = Stored(disk[PathOf[hour.hour_id]]),
         NEW r \in hour_add(hour), QueueOK(r.queue)
  PROVE  /\ NoTorn(r.disk)
         /\ \A h \in Hour : Shown(r.queue, r.disk, h) = Shown(data_queue, disk, h)
<1> DEFINE q == data_queue
           n == Len(data_queue)
<1>1. /\ q \in Seq(DataHour) /\ n \in Nat /\ n <= HOUR_BUFFER_SIZE
      /\ HOUR_BUFFER_SIZE \in Nat \ {0}
      /\ hour.hour_id \in Hour /\ NoDup(q) /\ NoDup(r.queue)
      /\ \A i \in 1..n : q[i].hour_id # hour.hour_id
  BY StoreAssumption DEF StoreInv, QueueOK, DataHour, hour_find
<1>2. CASE n < HOUR_BUFFER_SIZE
  <2>1. r.queue = Append(q, hour) /\ r.disk = disk
    BY <1>2 DEF hour_add
  <2>2. /\ Len(r.queue) = n + 1 /\ r.queue[n + 1] = hour
        /\ \A i \in 1..n : r.queue[i] = q[i] /\ i \in 1..(n + 1)
        /\ n + 1 \in 1..(n + 1)
        /\ \A i \in 1..(n + 1) : i \in 1..n \/ i = n + 1
    BY <1>1, <2>1
  <2>3. ASSUME NEW h \in Hour PROVE Shown(r.queue, disk, h) = Shown(q, disk, h)
    <3>1. CASE \E i \in 1..n : q[i].hour_id = h
      BY <1>1, <2>2, <3>1, ShownIs
    <3>2. CASE h = hour.hour_id
      <4>1. Shown(q, disk, h) = hour.data
        BY <1>1, <3>2, ShownIs
      <4>2. Shown(r.queue, disk, h) = hour.data
        BY <1>1, <2>2, <3>2, ShownIs
      <4> QED  BY <4>1, <4>2
    <3>3. CASE h # hour.hour_id /\ \A i \in 1..n : q[i].hour_id # h
      <4>1. \A i \in 1..(n + 1) : r.queue[i].hour_id # h
        BY <2>2, <3>3
      <4> QED  BY <1>1, <2>2, <3>3, <4>1, ShownIs
    <3> QED  BY <3>1, <3>2, <3>3
  <2> QED  BY <2>1, <2>3
<1>3. CASE ~(n < HOUR_BUFFER_SIZE)
  <2> DEFINE old == data_queue[1]
             p == PathOf[old.hour_id]
  <2>0. 1 \in 1..n /\ old \in DataHour /\ old.hour_id \in Hour
    <3>1. 1 \in 1..n
      BY <1>1, <1>3
    <3>2. old \in DataHour
      BY <1>1, <3>1
    <3> QED  BY <3>1, <3>2 DEF DataHour
  <2>1. /\ r.queue = Append(Tail(q), hour)
        /\ r.disk = [disk EXCEPT ![p] = hour_serialize(old)]
    BY <1>3 DEF hour_add, Working, FileAfterSave
  <2>2. /\ Len(r.queue) = n /\ r.queue[n] = hour /\ n \in 1..n
        /\ \A i \in 1..(n - 1) : r.queue[i] = q[i + 1]
        /\ \A i \in 1..n : i # n => i \in 1..(n - 1) /\ i + 1 \in 1..n /\ i + 1 # 1
        /\ \A i \in 1..n : i # 1 => i - 1 \in 1..(n - 1) /\ i - 1 \in 1..n /\ i - 1 + 1 = i
    BY <1>1, <2>0, <2>1
  <2>3. /\ r.disk[p] = hour_serialize(old)
        /\ \A h \in Hour : h # old.hour_id => r.disk[PathOf[h]] = disk[PathOf[h]]
    <3>1. disk \in [Path -> Content] /\ p \in Path /\ \A h \in Hour : PathOf[h] \in Path
      BY <2>0, StoreAssumption DEF StoreInv, DiskOK
    <3>2. \A h \in Hour : h # old.hour_id => PathOf[h] # p
      BY <2>0, StoreAssumption
    <3> QED  BY <2>1, <3>1, <3>2
  <2>4. /\ hour_serialize(old) \in File /\ hour_serialize(old).data = old.data
        /\ hour_serialize(old) # TORN
    BY <2>0, FileMarkers DEF hour_serialize, DataHour, File
  <2>5. NoTorn(r.disk)
    BY <2>3, <2>4 DEF NoTorn
  <2>6. ASSUME NEW h \in Hour
        PROVE  Shown(r.queue, r.disk, h) = Shown(q, disk, h)
    <3>1. CASE h = old.hour_id
      <4>1. Shown(q, disk, h) = old.data
        BY <1>1, <2>0, <3>1, ShownIs
      <4>2. \A i \in 1..n : r.queue[i].hour_id # h
        BY <1>1, <2>0, <2>2, <3>1 DEF NoDup
      <4>3. Shown(r.queue, r.disk, h) = Stored(r.disk[p])
        BY <1>1, <2>2, <3>1, <4>2, ShownIs
      <4> QED  BY <2>3, <2>4, <4>1, <4>3 DEF Stored
    <3>2. CASE h # old.hour_id /\ \E i \in 1..n : q[i].hour_id = h
      <4>1. PICK i \in 1..n : q[i].hour_id = h /\ i # 1
        BY <3>2
      <4>2. PICK j \in 1..n : r.queue[j] = q[i]
        BY <2>2, <4>1
      <4>3. j \in 1..Len(r.queue)
        BY <2>2
      <4>4. Shown(r.queue, r.disk, r.queue[j].hour_id) = r.queue[j].data
        BY <1>1, <4>3, ShownIs
      <4>5. Shown(q, disk, q[i].hour_id) = q[i].data
        BY <1>1, ShownIs
      <4> QED  BY <4>1, <4>2, <4>4, <4>5
    <3>3. CASE h # old.hour_id /\ h = hour.hour_id
      <4>1. Shown(q, disk, h) = hour.data
        BY <1>1, <3>3, ShownIs
      <4>2. Shown(r.queue, r.disk, h) = hour.data
        <5>1. n \in 1..Len(r.queue)
          BY <2>2
        <5>2. Shown(r.queue, r.disk, r.queue[n].hour_id) = r.queue[n].data
          BY <1>1, <5>1, ShownIs
        <5> QED  BY <2>2, <3>3, <5>2
      <4> QED  BY <4>1, <4>2
    <3>4. CASE h # old.hour_id /\ h # hour.hour_id /\ \A i \in 1..n : q[i].hour_id # h
      <4>1. \A i \in 1..n : r.queue[i].hour_id # h
        BY <2>2, <3>4
      <4>2. Shown(r.queue, r.disk, h) = Stored(r.disk[PathOf[h]])
        <5>1. \A i \in 1..Len(r.queue) : r.queue[i].hour_id # h
          BY <2>2, <4>1
        <5> QED  BY <5>1 DEF Shown
      <4>3. Shown(q, disk, h) = Stored(disk[PathOf[h]])
        BY <1>1, <3>4, ShownIs
      <4> QED  BY <2>3, <3>4, <4>2, <4>3
    <3> QED  BY <3>1, <3>2, <3>3, <3>4
  <2> QED  BY <2>5, <2>6
<1> QED  BY <1>2, <1>3

(* Getting an hour, from the cache, from its file or as a new one, changes
   nothing a reader sees. *)
LEMMA GetShows ==
  ASSUME StoreInv, Working, NoTorn(disk), NEW h \in Hour, NEW create \in BOOLEAN,
         NEW r \in datahour_get(h, create)
  PROVE  /\ NoTorn(r.disk)
         /\ \A g \in Hour : Shown(r.queue, r.disk, g) = Shown(data_queue, disk, g)
<1> DEFINE q == data_queue
<1>0. QueueOK(q) /\ NoDup(q) /\ GetOK(r, h) /\ QueueOK(r.queue) /\ NoDup(r.queue)
  BY Get DEF StoreInv, GetOK, QueueOK
<1>1. CASE hour_find(h) # {}
  <2>1. PICK i \in hour_find(h) : r.queue = Rotated(q, i) /\ r.disk = disk
    BY <1>1 DEF datahour_get
  <2>2. i \in 1..Len(q)
    BY DEF hour_find
  <2>3. /\ Len(r.queue) = Len(q)
        /\ \A j \in 1..Len(q) : \E k \in 1..Len(q) : r.queue[j] = q[k]
        /\ \A k \in 1..Len(q) : \E j \in 1..Len(q) : r.queue[j] = q[k]
    <3> HIDE DEF q
    <3>1. /\ Len(Rotated(q, i)) = Len(q)
          /\ \A j \in 1..Len(q) : \E k \in 1..Len(q) : Rotated(q, i)[j] = q[k]
          /\ \A k \in 1..Len(q) : \E j \in 1..Len(q) : Rotated(q, i)[j] = q[k]
      BY <1>0, <2>2, Rotation
    <3> QED  BY <2>1, <3>1
  <2>4. ASSUME NEW g \in Hour PROVE Shown(r.queue, disk, g) = Shown(q, disk, g)
    <3>1. CASE \E k \in 1..Len(q) : q[k].hour_id = g
      <4>1. PICK k \in 1..Len(q) : q[k].hour_id = g
        BY <3>1
      <4>2. PICK j \in 1..Len(q) : r.queue[j] = q[k]
        BY <2>3
      <4>3. Shown(r.queue, disk, r.queue[j].hour_id) = r.queue[j].data
        <5>1. j \in 1..Len(r.queue)
          BY <2>3
        <5> QED  BY <1>0, <5>1, ShownIs
      <4>4. Shown(q, disk, q[k].hour_id) = q[k].data
        BY <1>0, ShownIs
      <4> QED  BY <4>1, <4>2, <4>3, <4>4
    <3>2. CASE \A k \in 1..Len(q) : q[k].hour_id # g
      <4>1. \A j \in 1..Len(q) : r.queue[j].hour_id # g
        BY <2>3, <3>2
      <4>2. \A j \in 1..Len(r.queue) : r.queue[j].hour_id # g
        BY <2>3, <4>1
      <4>3. Shown(r.queue, disk, g) = Stored(disk[PathOf[g]])
        BY <1>0, <4>2, ShownIs
      <4>4. Shown(q, disk, g) = Stored(disk[PathOf[g]])
        BY <1>0, <3>2, ShownIs
      <4> QED  BY <4>3, <4>4
    <3> QED  BY <3>1, <3>2
  <2> QED  BY <2>1, <2>4
<1>2. CASE hour_find(h) = {}
  <2> DEFINE file == disk[PathOf[h]]
  <2>1. r \in datahour_load(h, create, file)
    BY <1>2 DEF datahour_get, Working, hour_load
  <2>2. FileOK(h, file) /\ file # TORN
    BY DEF StoreInv, DiskOK, NoTorn
  <2>3. CASE file = ABSENT /\ ~create
    <3>1. r = [queue |-> data_queue, disk |-> disk, at |-> 0]
      BY <2>1, <2>3 DEF datahour_load
    <3> QED  BY <3>1
  <2>4. CASE file = ABSENT /\ create
    <3>1. r \in hour_add(hour_create(h))
      BY <2>1, <2>4, FileMarkers DEF datahour_load
    <3>2. hour_create(h) \in DataHour /\ hour_create(h).hour_id = h
      BY StoreAssumption DEF hour_create, DataHour, Samples, Cell
    <3>3. hour_create(h).data = Stored(file)
      BY <2>4, FileMarkers DEF hour_create, Stored, Blank
    <3> QED  BY <1>0, <1>2, <3>1, <3>2, <3>3, AddShows
  <2>5. CASE file # ABSENT
    <3>1. r \in hour_add(hour_deserialize(file))
      BY <2>1, <2>2, <2>5 DEF datahour_load
    <3>2. file \in File /\ file.hour_id = h
      BY <2>2, <2>5 DEF FileOK, Content
    <3>3. /\ hour_deserialize(file) \in DataHour
          /\ hour_deserialize(file).hour_id = h
          /\ hour_deserialize(file).data = Stored(file)
      BY <3>2 DEF hour_deserialize, DataHour, File, Stored
    <3> QED  BY <1>0, <1>2, <3>1, <3>3, AddShows
  <2> QED  BY <2>3, <2>4, <2>5
<1> QED  BY <1>1, <1>2

(* A changed copy of a cached hour is seen, and changes no other hour. *)
LEMMA ReplaceShows ==
  ASSUME NEW q \in Seq(DataHour), NoDup(q), NEW dk, NEW at \in 1..Len(q),
         NEW hour \in DataHour, hour.hour_id = q[at].hour_id
  PROVE  /\ Shown([q EXCEPT ![at] = hour], dk, hour.hour_id) = hour.data
         /\ \A g : g # hour.hour_id =>
              Shown([q EXCEPT ![at] = hour], dk, g) = Shown(q, dk, g)
<1> DEFINE n == [q EXCEPT ![at] = hour]
<1>1. /\ Len(n) = Len(q) /\ n[at] = hour
      /\ \A i \in 1..Len(q) : i # at => n[i] = q[i]
  OBVIOUS
<1> HIDE DEF n
<1>2. \A i \in 1..Len(q) : n[i].hour_id = q[i].hour_id
  BY <1>1
<1>3. NoDup(n)
  BY <1>1, <1>2 DEF NoDup
<1>4. Shown(n, dk, hour.hour_id) = hour.data
  BY <1>1, <1>3, ShownIs
<1>5. ASSUME NEW g, g # hour.hour_id PROVE Shown(n, dk, g) = Shown(q, dk, g)
  <2>1. CASE \E i \in 1..Len(q) : q[i].hour_id = g
    <3>1. PICK i \in 1..Len(q) : q[i].hour_id = g
      BY <2>1
    <3>2. n[i] = q[i]
      BY <1>1, <1>5, <3>1
    <3>3. Shown(n, dk, n[i].hour_id) = n[i].data
      BY <1>1, <1>3, ShownIs
    <3>4. Shown(q, dk, q[i].hour_id) = q[i].data
      BY ShownIs
    <3> QED  BY <3>1, <3>2, <3>3, <3>4
  <2>2. CASE \A i \in 1..Len(q) : q[i].hour_id # g
    <3>1. \A i \in 1..Len(n) : n[i].hour_id # g
      BY <1>1, <1>2, <2>2
    <3>2. Shown(n, dk, g) = Stored(dk[PathOf[g]])
      BY <1>3, <3>1, ShownIs
    <3>3. Shown(q, dk, g) = Stored(dk[PathOf[g]])
      BY <2>2, ShownIs
    <3> QED  BY <3>2, <3>3
  <2> QED  BY <2>1, <2>2
<1> QED  BY <1>4, <1>5 DEF n

-----------------------------------------------------------------------------
(* The store as a reader sees it. *)
Cells == [h \in Hour |-> Visible(h)]

WorkInv == StoreInv /\ NoTorn(disk)

(* In every step of the invariant the cells are what cache and disk show. *)
LEMMA CellsAre ==
  ASSUME StoreInv, StoreInv'
  PROVE  /\ Cells = [h \in Hour |-> Shown(data_queue, disk, h)]
         /\ Cells' = [h \in Hour |-> Shown(data_queue', disk', h)]
         /\ Cells \in [Hour -> Samples] /\ Cells' \in [Hour -> Samples]
<1>1. /\ NoDup(data_queue) /\ NoDup(data_queue')
      /\ data_queue \in Seq(DataHour) /\ data_queue' \in Seq(DataHour)
      /\ \A h \in Hour : disk[PathOf[h]] \in Content /\ disk'[PathOf[h]] \in Content
  BY DEF StoreInv, QueueOK, DiskOK, FileOK, NoDup
<1>2. /\ Cells = [h \in Hour |-> Shown(data_queue, disk, h)]
      /\ Cells' = [h \in Hour |-> Shown(data_queue', disk', h)]
  BY <1>1, VisibleIs DEF Cells
<1>3. ASSUME NEW q \in Seq(DataHour), NoDup(q), NEW dk, NEW h \in Hour,
             dk[PathOf[h]] \in Content
      PROVE  Shown(q, dk, h) \in Samples
  <2>1. CASE \E i \in 1..Len(q) : q[i].hour_id = h
    <3>1. PICK i \in 1..Len(q) : q[i].hour_id = h
      BY <2>1
    <3>2. Shown(q, dk, h) = q[i].data
      BY <1>3, <3>1, ShownIs
    <3>3. q[i] \in DataHour
      OBVIOUS
    <3> QED  BY <3>2, <3>3 DEF DataHour
  <2>2. CASE \A i \in 1..Len(q) : q[i].hour_id # h
    <3>1. Shown(q, dk, h) = Stored(dk[PathOf[h]])
      BY <1>3, <2>2, ShownIs
    <3>2. Blank \in Samples
      BY DEF Blank, Samples, Cell
    <3> QED  BY <3>1, <3>2 DEF Stored, File
  <2> QED  BY <2>1, <2>2
<1>4. \A h \in Hour : /\ Shown(data_queue, disk, h) \in Samples
                      /\ Shown(data_queue', disk', h) \in Samples
  BY <1>1, <1>3
<1> QED  BY <1>2, <1>4

(* A step after which every hour shows what it showed is a stutter. *)
LEMMA SameCells ==
  ASSUME StoreInv, StoreInv',
         \A h \in Hour : Shown(data_queue', disk', h) = Shown(data_queue, disk, h)
  PROVE  Cells' = Cells
BY CellsAre

(* data_log sets one cell, keeps a measurement from a marker, or does nothing. *)
LEMMA LogShows ==
  ASSUME WorkInv, Working, StoreInv', NEW h \in Hour, NEW s \in Sample, NEW v \in Cell,
         data_log(h, s, v)
  PROVE  NoTorn(disk') /\ (Store!Log(h, s, v) \/ Cells' = Cells)
<1>1. PICK got \in datahour_get(h, TRUE) :
        /\ disk' = got.disk
        /\ IF got.at # 0 /\ Accepts(got.queue[got.at].data[s], v)
             THEN /\ data_queue' = [got.queue EXCEPT ![got.at] = LoggedHour(@, s, v)]
                  /\ logged' = logged \cup ({<<h, s>>} \X (Value \cap {v}))
             ELSE /\ data_queue' = got.queue
                  /\ UNCHANGED logged
  BY DEF data_log
<1>2. /\ GetOK(got, h) /\ NoTorn(got.disk)
      /\ \A g \in Hour : Shown(got.queue, got.disk, g) = Shown(data_queue, disk, g)
  BY Get, GetShows DEF WorkInv
<1>3. /\ got.at \in 0..Len(got.queue) /\ got.queue \in Seq(DataHour)
      /\ NoDup(got.queue)
  BY <1>2 DEF GetOK, QueueOK
<1>4. CASE got.at # 0 /\ Accepts(got.queue[got.at].data[s], v)
  <2> DEFINE hour == got.queue[got.at]
             new == LoggedHour(hour, s, v)
  <2>1. got.at \in 1..Len(got.queue) /\ hour \in DataHour /\ hour.hour_id = h
    BY <1>2, <1>3, <1>4 DEF GetOK
  <2>2. data_queue' = [got.queue EXCEPT ![got.at] = new]
    BY <1>1, <1>3, <1>4, <2>1
  <2>3. new \in DataHour /\ new.hour_id = h /\ new.data = [hour.data EXCEPT ![s] = v]
    BY <2>1 DEF LoggedHour, DataHour, Samples
  <2>4. Shown(got.queue, got.disk, hour.hour_id) = hour.data
    BY <1>3, <2>1, ShownIs
  <2> HIDE DEF new
  <2>5. /\ Shown(data_queue', disk', h) = new.data
        /\ \A g : g # h => Shown(data_queue', disk', g) = Shown(got.queue, got.disk, g)
    <3>1. /\ new \in DataHour /\ new.hour_id = got.queue[got.at].hour_id
          /\ got.at \in 1..Len(got.queue)
      BY <2>1, <2>3
    <3>2. /\ Shown([got.queue EXCEPT ![got.at] = new], got.disk, new.hour_id) = new.data
          /\ \A g : g # new.hour_id =>
               Shown([got.queue EXCEPT ![got.at] = new], got.disk, g)
                 = Shown(got.queue, got.disk, g)
      BY <1>3, <3>1, ReplaceShows
    <3> QED  BY <1>1, <2>2, <2>3, <3>2
  <2>6. Cells[h] = hour.data /\ Cells[h][s] = hour.data[s]
    BY <1>2, <2>1, <2>4, CellsAre DEF WorkInv
  <2>7. Cells' = [Cells EXCEPT ![h] = [Cells[h] EXCEPT ![s] = v]]
    <3>1. Cells'[h] = [Cells[h] EXCEPT ![s] = v]
      BY <2>3, <2>5, <2>6, CellsAre DEF WorkInv
    <3>2. \A g \in Hour : g # h => Cells'[g] = Cells[g]
      BY <1>2, <2>5, CellsAre DEF WorkInv
    <3>3. Cells \in [Hour -> Samples] /\ Cells' \in [Hour -> Samples]
      BY CellsAre DEF WorkInv
    <3> HIDE DEF Cells
    <3> QED  BY <3>1, <3>2, <3>3
  <2>8. Cells[h][s] \in Value => v \in Value
    BY <1>4, <2>6 DEF Accepts
  <2> QED  BY <1>1, <1>2, <2>7, <2>8 DEF Store!Log, Cells
<1>5. CASE ~(got.at # 0 /\ Accepts(got.queue[got.at].data[s], v))
  <2>1. data_queue' = got.queue
    BY <1>1, <1>5
  <2> QED  BY <1>1, <1>2, <2>1, SameCells DEF WorkInv
<1> QED  BY <1>4, <1>5

(* Reading, and a log that is rejected, move hours between cache and disk and
   change no cell. *)
LEMMA ReadShows ==
  ASSUME WorkInv, Working, StoreInv', NEW h \in Hour,
         data_get_val(h) \/ data_log_rejected(h)
  PROVE  NoTorn(disk') /\ Cells' = Cells
<1>0. PICK create \in BOOLEAN : \E got \in datahour_get(h, create) :
        disk' = got.disk /\ data_queue' = got.queue
  BY DEF data_get_val, data_log_rejected
<1>1. PICK got \in datahour_get(h, create) :
        disk' = got.disk /\ data_queue' = got.queue
  BY <1>0
<1>2. /\ NoTorn(got.disk)
      /\ \A g \in Hour : Shown(got.queue, got.disk, g) = Shown(data_queue, disk, g)
  BY GetShows DEF WorkInv
<1> QED  BY <1>1, <1>2, SameCells DEF WorkInv

(* A data check marks empty cells of its hour and touches nothing else, though
   it does not flag the hour: eviction writes it all the same. *)
LEMMA CheckShows ==
  ASSUME WorkInv, Working, StoreInv', NEW h \in Hour, NEW log_num \in Sample,
         calculate_data_check(h, log_num)
  PROVE  NoTorn(disk') /\ (Store!MarkMissing(h) \/ Cells' = Cells)
<1>1. PICK got \in datahour_get(h, FALSE) :
        /\ disk' = got.disk
        /\ \/ data_queue' = got.queue
           \/ /\ got.at # 0
              /\ data_queue' = [got.queue EXCEPT ![got.at] = Checked(@, log_num)]
  BY DEF calculate_data_check
<1>2. /\ GetOK(got, h) /\ NoTorn(got.disk)
      /\ \A g \in Hour : Shown(got.queue, got.disk, g) = Shown(data_queue, disk, g)
  BY Get, GetShows DEF WorkInv
<1>3. /\ got.at \in 0..Len(got.queue) /\ got.queue \in Seq(DataHour)
      /\ NoDup(got.queue)
  BY <1>2 DEF GetOK, QueueOK
<1>4. CASE data_queue' = got.queue
  BY <1>1, <1>2, <1>4, SameCells DEF WorkInv
<1>5. CASE /\ got.at # 0
           /\ data_queue' = [got.queue EXCEPT ![got.at] = Checked(@, log_num)]
  <2> DEFINE hour == got.queue[got.at]
             new == Checked(hour, log_num)
  <2>1. got.at \in 1..Len(got.queue) /\ hour \in DataHour /\ hour.hour_id = h
    BY <1>2, <1>3, <1>5 DEF GetOK
  <2>2. data_queue' = [got.queue EXCEPT ![got.at] = new]
    BY <1>1, <1>5, <2>1
  <2>3. /\ new \in DataHour /\ new.hour_id = h
        /\ \A t \in Sample : new.data[t] # hour.data[t] =>
              hour.data[t] = EMPTY /\ new.data[t] = NOT_MEASURED
    BY <2>1, CheckedHour
  <2>4. Shown(got.queue, got.disk, hour.hour_id) = hour.data
    BY <1>3, <2>1, ShownIs
  <2> HIDE DEF new
  <2>5. /\ Shown(data_queue', disk', h) = new.data
        /\ \A g : g # h => Shown(data_queue', disk', g) = Shown(got.queue, got.disk, g)
    <3>1. /\ new \in DataHour /\ new.hour_id = got.queue[got.at].hour_id
          /\ got.at \in 1..Len(got.queue)
      BY <2>1, <2>3
    <3>2. /\ Shown([got.queue EXCEPT ![got.at] = new], got.disk, new.hour_id) = new.data
          /\ \A g : g # new.hour_id =>
               Shown([got.queue EXCEPT ![got.at] = new], got.disk, g)
                 = Shown(got.queue, got.disk, g)
      BY <1>3, <3>1, ReplaceShows
    <3> QED  BY <1>1, <2>2, <2>3, <3>2
  <2>6. Cells[h] = hour.data /\ Cells'[h] = new.data
    BY <1>2, <2>1, <2>4, <2>5, CellsAre DEF WorkInv
  <2>7. \A g \in Hour : g # h => Cells'[g] = Cells[g]
    BY <1>2, <2>5, CellsAre DEF WorkInv
  <2>8. \A g \in Hour, t \in Sample : Cells'[g][t] # Cells[g][t] =>
          g = h /\ Cells[g][t] = EMPTY /\ Cells'[g][t] = NOT_MEASURED
    BY <2>3, <2>6, <2>7
  <2>9. Cells' \in [Hour -> [Sample -> Value \cup {EMPTY, NOT_MEASURED}]]
    BY CellsAre DEF WorkInv, Samples, Cell
  <2>10. Store!MarkMissing(h)
    BY <2>8, <2>9 DEF Store!MarkMissing, Cells
  <2> QED  BY <1>1, <1>2, <2>10
<1> QED  BY <1>1, <1>4, <1>5

(* Saving writes what is shown anyway. *)
LEMMA SaveShows ==
  ASSUME WorkInv, Working, StoreInv', data_save
  PROVE  NoTorn(disk') /\ Cells' = Cells
<1> DEFINE q == data_queue
           n == Len(data_queue)
<1>1. PICK o \in [Modified -> SaveOutcome] :
        /\ disk' = SavedDisk(Modified, o)
        /\ data_queue' = [i \in 1..n |->
                            IF i \in Modified THEN FlagAfterSave(q[i], o[i]) ELSE q[i]]
  BY DEF data_save
<1>2. /\ Modified \in SUBSET (1..n)
      /\ \A i \in Modified : o[i] = "ok" /\ o[i] \in Outcome
  BY DEF Modified, Working, Outcome
<1>3. /\ \A i \in Modified : disk'[PathOf[q[i].hour_id]] = hour_serialize(q[i])
      /\ \A h \in Hour : (\A i \in Modified : q[i].hour_id # h)
           => disk'[PathOf[h]] = disk[PathOf[h]]
  <2>1. StoreInv
    BY DEF WorkInv
  <2>2. PICK idx \in SUBSET (1..n) : idx = Modified
    BY <1>2
  <2>3. \A i \in idx : o[i] \in Outcome
    BY <1>2, <2>2
  <2>4. /\ \A i \in idx :
             SavedDisk(idx, o)[PathOf[data_queue[i].hour_id]]
               = FileAfterSave(o[i], disk[PathOf[data_queue[i].hour_id]],
                               data_queue[i])
        /\ \A h \in Hour : (\A i \in idx : data_queue[i].hour_id # h)
             => SavedDisk(idx, o)[PathOf[h]] = disk[PathOf[h]]
    BY <2>1, <2>3, SaveSome
  <2>5. disk' = SavedDisk(idx, o) /\ \A i \in idx : o[i] = "ok"
    BY <1>1, <1>2, <2>2
  <2> QED  BY <2>2, <2>4, <2>5 DEF FileAfterSave
<1>4. /\ q \in Seq(DataHour) /\ n \in Nat /\ NoDup(q)
      /\ \A i \in 1..n : q[i] \in DataHour
  BY DEF WorkInv, StoreInv, QueueOK
<1>5. \A i \in 1..n : hour_serialize(q[i]) # TORN
  BY <1>4, FileMarkers DEF hour_serialize, DataHour, File
<1>6. NoTorn(disk')
  BY <1>2, <1>3, <1>5 DEF NoTorn, WorkInv
<1>7. /\ Len(data_queue') = n
      /\ \A i \in 1..n : /\ data_queue'[i].hour_id = q[i].hour_id
                         /\ data_queue'[i].data = q[i].data
  <2>1. \A i \in 1..n : /\ data_queue'[i].hour_id = q[i].hour_id
                        /\ data_queue'[i].data = q[i].data
    BY <1>1, <1>4 DEF FlagAfterSave, DataHour
  <2>2. DOMAIN data_queue' = 1..n /\ data_queue' \in Seq(DataHour)
    BY <1>1 DEF StoreInv, QueueOK
  <2> QED  BY <1>4, <2>1, <2>2
<1>8. NoDup(data_queue')
  BY <1>4, <1>7 DEF NoDup
<1>9. ASSUME NEW h \in Hour PROVE Shown(data_queue', disk', h) = Shown(q, disk, h)
  <2>1. CASE \E i \in 1..n : q[i].hour_id = h
    <3>1. PICK i \in 1..n : q[i].hour_id = h
      BY <2>1
    <3>2. Shown(data_queue', disk', data_queue'[i].hour_id) = data_queue'[i].data
      <4>1. i \in 1..Len(data_queue')
        BY <1>7
      <4> QED  BY <1>8, <4>1, ShownIs
    <3>3. Shown(q, disk, q[i].hour_id) = q[i].data
      BY <1>4, ShownIs
    <3> QED  BY <1>7, <3>1, <3>2, <3>3
  <2>2. CASE \A i \in 1..n : q[i].hour_id # h
    <3>1. disk'[PathOf[h]] = disk[PathOf[h]]
      BY <1>2, <1>3, <2>2
    <3>2. Shown(q, disk, h) = Stored(disk[PathOf[h]])
      BY <2>2 DEF Shown
    <3>3. Shown(data_queue', disk', h) = Stored(disk'[PathOf[h]])
      BY <1>7, <2>2 DEF Shown
    <3> QED  BY <3>1, <3>2, <3>3
  <2> QED  BY <2>1, <2>2
<1> QED  BY <1>6, <1>9, SameCells DEF WorkInv

(* Every step of a store on a working disk is a step of the abstract store. *)
LEMMA StoreRefines ==
  ASSUME Working, WorkInv, [StoreNext]_storeVars
  PROVE  WorkInv' /\ [Store!StoreNext]_Cells
<1>0. StoreInv'
  BY StoreStep DEF WorkInv
<1>1. ASSUME NEW h \in Hour, NEW s \in Sample, NEW v \in Cell, data_log(h, s, v)
      PROVE  NoTorn(disk') /\ [Store!StoreNext]_Cells
  BY <1>0, <1>1, LogShows DEF Store!StoreNext, Cell
<1>2. ASSUME NEW h \in Hour, data_get_val(h) \/ data_log_rejected(h)
      PROVE  NoTorn(disk') /\ [Store!StoreNext]_Cells
  BY <1>0, <1>2, ReadShows
<1>3. ASSUME NEW h \in Hour, NEW k \in Sample, calculate_data_check(h, k)
      PROVE  NoTorn(disk') /\ [Store!StoreNext]_Cells
  BY <1>0, <1>3, CheckShows DEF Store!StoreNext
<1>4. CASE data_save
  <2>1. NoTorn(disk') /\ Cells' = Cells
    BY <1>0, <1>4, SaveShows
  <2> QED  BY <1>0, <2>1 DEF WorkInv
<1>5. CASE Crash \/ CrashInSave \/ CrashInEviction
  BY <1>5 DEF Working, Crash, CrashInSave, CrashInEviction
<1>6. CASE UNCHANGED storeVars
  <2>1. data_queue' = data_queue /\ disk' = disk
    BY <1>6 DEF storeVars
  <2> QED  BY <1>0, <2>1, SameCells DEF WorkInv
<1> QED  BY <1>0, <1>1, <1>2, <1>3, <1>4, <1>5, <1>6 DEF StoreNext, WorkInv

(* With a disk that works and no crash the cache is transparent, for every cache
   size and however hours are evicted, loaded, created and saved: a cell changes
   only by data_log, which never puts a marker over a measurement, and by the
   markers of calculate_data_check, which are lost by no eviction. *)
THEOREM CacheTransparent ==
  ASSUME Working
  PROVE  StoreSpec => ImplementsStore
<1>1. StoreInit => WorkInv /\ Store!StoreInit
  <2> SUFFICES ASSUME StoreInit PROVE WorkInv /\ Store!StoreInit
    OBVIOUS
  <2>1. /\ data_queue = << >> /\ Len(data_queue) = 0
        /\ \A h \in Hour : disk[PathOf[h]] = ABSENT
    BY StoreAssumption DEF StoreInit
  <2>2. WorkInv
    BY <2>1, StoreInitInv, FileMarkers DEF WorkInv, NoTorn
  <2>3. \A h \in Hour : Visible(h) = [s \in Sample |-> EMPTY]
    BY <2>1, FileMarkers DEF Visible, hour_find
  <2> QED  BY <2>2, <2>3 DEF Store!StoreInit
<1>2. WorkInv /\ [StoreNext]_storeVars => WorkInv' /\ [Store!StoreNext]_Cells
  BY StoreRefines
<1> QED  BY <1>1, <1>2, PTL DEF StoreSpec, ImplementsStore, Store!StoreSpec, Cells

=============================================================================
