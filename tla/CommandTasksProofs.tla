------------------------- MODULE CommandTasksProofs -------------------------
(***************************************************************************)
(* Proofs about CommandTasks, for every number of devices, commands, tasks *)
(* and faults.  MemoryInv holds for any number of instances of the store;  *)
(* so does OwnersOK.  DiskInv, and with it execution at most once, needs   *)
(* that only one instance writes the file (NInst = 1); SyncInv, on which   *)
(* the refinement of TaskQueue rests, that no save or read has failed.     *)
(* The last part is about PluginFlags, which plugins a task may execute.   *)
(***************************************************************************)
EXTENDS CommandTasks, FiniteSetTheorems, FunctionTheorems, TLAPS

IsQueued(r) == r # NoRec /\ r.status = "queued"

(* What an instance not yet ready, its executor and its thread hold.       *)
ExecutorOK(i) ==
    /\ ~Ready(i) => queue[i] = <<>> /\ worker[i] = "idle"
    /\ \A n \in 1..Len(queue[i]) : IsQueued(records[i][queue[i][n]])
    /\ \A m, n \in 1..Len(queue[i]) : queue[i][m] = queue[i][n] => m = n
    /\ worker[i] # "idle" =>
          records[i][cur[i]] # NoRec /\ records[i][cur[i]].status # "queued"
    /\ worker[i] = "executing" => records[i][cur[i]].status = "running"

(* What the handler holds between its two steps.                           *)
HandlerOK ==
    pending # NoTask =>
        /\ Ready(Serving)
        /\ IsQueued(records[Serving][pending])
        /\ \A n \in 1..Len(queue[Serving]) : queue[Serving][n] # pending

(* Ids that were not handed out yet are used nowhere.                      *)
FreshOK ==
    \A c \in Ids : nextId <= c =>
        /\ disk[c] = NoRec
        /\ \A i \in Instances : records[i][c] = NoRec
        /\ starts[c] = 0

(* One unfinished task per command in a dictionary of records.             *)
Unique(recs) == \A c, d \in Live(recs) : recs[c].cmd = recs[d].cmd => c = d

MemoryInv ==
    /\ TypeOK
    /\ \A i \in Instances : ExecutorOK(i)
    /\ HandlerOK
    /\ FreshOK
    /\ Unique(disk)
    /\ \A i \in Instances : Unique(records[i])

-----------------------------------------------------------------------------
(* The instance that answers HTTP is one of the instances.                 *)
LEMMA ServingIsInstance == Serving \in Instances
BY ConstantsAssumption DEF Serving, Instances

(* The operators on dictionaries of records keep their type and never make *)
(* a finished task unfinished.                                             *)
LEMMA RecoveredType ==
    ASSUME NEW recs \in Records
    PROVE  /\ Recovered(recs) \in Records
           /\ \A c \in Ids : Recovered(recs)[c] = NoRec <=> recs[c] = NoRec
           /\ Live(Recovered(recs)) = Queued(recs)
           /\ \A c \in Queued(recs) : Recovered(recs)[c] = recs[c]
BY ConstantsAssumption DEF Recovered, Records, TaskRecord, Live, Queued, Status, Terminal, ErrorCodes

(* _purge_expired drops finished tasks and leaves the unfinished ones      *)
(* alone.                                                                  *)
LEMMA PurgedType ==
    ASSUME NEW recs \in Records
    PROVE  /\ Purged(recs) \in Records
           /\ \A c \in Ids : recs[c] = NoRec => Purged(recs)[c] = NoRec
           /\ Live(Purged(recs)) = Live(recs)
           /\ \A c \in Live(recs) : Purged(recs)[c] = recs[c]
BY ConstantsAssumption DEF Purged, Records, TaskRecord, Live, Ended, Status, Terminal

(* An update gives one task a status and keeps its command, as every other *)
(* task.                                                                   *)
LEMMA UpdatedType ==
    ASSUME TypeOK, NEW i \in Instances, NEW c \in Ids, records[i][c] # NoRec,
           NEW status \in Status, NEW error \in ErrorCodes
    PROVE  /\ Updated(i, c, status, error) \in Records
           /\ Updated(i, c, status, error)[c] \in TaskRecord
           /\ Updated(i, c, status, error)[c].status = status
           /\ Updated(i, c, status, error)[c].cmd = records[i][c].cmd
           /\ \A d \in Ids \ {c} : Updated(i, c, status, error)[d] = records[i][d]
<1> DEFINE new == [owner |-> records[i][c].owner, cmd |-> records[i][c].cmd,
                   status |-> status, error |-> error]
<1>1. records[i] \in Records /\ records[i][c] \in TaskRecord
  BY DEF TypeOK, Records
<1>2. new \in TaskRecord /\ new.status = status /\ new.cmd = records[i][c].cmd
  BY <1>1 DEF TaskRecord
<1>3. Updated(i, c, status, error) = [records[i] EXCEPT ![c] = new]
  BY DEF Updated
<1> HIDE DEF new
<1> QED
  BY <1>1, <1>2, <1>3 DEF Records

(* An update that does not revive a finished task keeps commands distinct. *)
LEMMA UpdatedUnique ==
    ASSUME TypeOK, NEW i \in Instances, NEW c \in Ids, records[i][c] # NoRec,
           NEW status \in Status, NEW error \in ErrorCodes,
           Unique(records[i]),
           records[i][c].status \notin Terminal \/ status \in Terminal
    PROVE  Unique(Updated(i, c, status, error))
BY UpdatedType, ConstantsAssumption DEF Unique, Live

(* A set of ids in the order of creation lists each of them exactly once.  *)
LEMMA InOrderType ==
    ASSUME NEW S \in SUBSET Ids, NEW q \in InOrder(S)
    PROVE  /\ q \in Seq(Ids)
           /\ Len(q) = Cardinality(S)
           /\ \A n \in 1..Len(q) : q[n] \in S
           /\ \A m, n \in 1..Len(q) : q[m] = q[n] => m = n
<1>1. IsFiniteSet(S) /\ Cardinality(S) \in Nat
  <2>1. MaxTasks \in Int /\ IsFiniteSet(1..MaxTasks)
    BY FS_Interval, ConstantsAssumption
  <2>2. S \subseteq 1..MaxTasks
    BY DEF Ids
  <2> QED
    BY <2>1, <2>2, FS_Subset, FS_CardinalityType
<1>2. q \in [1..Cardinality(S) -> S] /\ \A m, n \in 1..Cardinality(S) : m < n => q[m] < q[n]
  BY DEF InOrder
<1>3. q \in Seq(Ids) /\ Len(q) = Cardinality(S)
  BY <1>1, <1>2
<1>4. ASSUME NEW m \in 1..Len(q), NEW n \in 1..Len(q), q[m] = q[n]
      PROVE  m = n
  <2>1. q[m] \in Int /\ q[n] \in Int
    <3>1. m \in 1..Cardinality(S) /\ n \in 1..Cardinality(S)
      BY <1>3
    <3>2. q[m] \in S /\ q[n] \in S
      BY <1>2, <3>1
    <3>3. \A x \in Ids : x \in Int
      BY ConstantsAssumption DEF Ids
    <3> QED
      BY <3>2, <3>3
  <2>2. ~(m < n) /\ ~(n < m)
    BY <2>1, <1>2, <1>3, <1>4
  <2> QED
    BY <2>2, <1>1, <1>3
<1> QED
  BY <1>2, <1>3, <1>4

-----------------------------------------------------------------------------
(* The initial state satisfies the invariant.                              *)
LEMMA MemoryInit == Init => MemoryInv
<1> SUFFICES ASSUME Init PROVE MemoryInv
  OBVIOUS
<1> USE ConstantsAssumption DEF Init
<1>1. NoRecords \in Records /\ Live(NoRecords) = {}
  BY DEF NoRecords, Records, Live
<1>2. TypeOK
  BY <1>1 DEF TypeOK, NoTask, Ids
<1>3. \A i \in Instances : ExecutorOK(i)
  BY DEF ExecutorOK, Ready
<1>4. HandlerOK /\ FreshOK
  BY DEF HandlerOK, FreshOK, NoRecords
<1>5. Unique(disk) /\ \A i \in Instances : Unique(records[i])
  BY <1>1 DEF Unique
<1> QED
  BY <1>2, <1>3, <1>4, <1>5 DEF MemoryInv

(* The end of the process leaves nothing to the executors and handler.     *)
LEMMA DownPreserves ==
    ASSUME MemoryInv, ProcessDown, disk' = disk, nextId' = nextId, starts' = starts, TypeOK'
    PROVE  MemoryInv'
<1> USE ConstantsAssumption DEF MemoryInv, ProcessDown
<1>1. Live(NoRecords) = {}
  BY DEF NoRecords, Live
<1>2. (\A i \in Instances : ExecutorOK(i))'
  BY DEF ExecutorOK, Ready
<1>3. HandlerOK'
  BY DEF HandlerOK
<1>4. FreshOK'
  BY DEF FreshOK, NoRecords
<1>5. Unique(disk)' /\ (\A i \in Instances : Unique(records[i]))'
  BY <1>1 DEF Unique, Live
<1> QED
  BY <1>2, <1>3, <1>4, <1>5

(* _load copies the file, and commands stay as distinct as they were       *)
(* there.                                                                  *)
LEMMA LoadPreserves ==
    ASSUME MemoryInv, NEW i \in Instances, Load(i)
    PROVE  MemoryInv'
<1> USE DEF MemoryInv
<1>1. NoRecords \in Records /\ Live(NoRecords) = {} /\ \A c \in Ids : NoRecords[c] = NoRec
  BY DEF NoRecords, Records, Live
<1>2. PICK recs \in {disk, NoRecords} : records' = [records EXCEPT ![i] = recs]
  BY DEF Load
<1>3. recs \in Records /\ Unique(recs)
  BY <1>1 DEF TypeOK, Unique
<1>4. TypeOK'
  <2>1. readFaults' \in 0..MaxReadFaults
    BY ConstantsAssumption DEF Load, TypeOK
  <2> QED
    BY <1>2, <1>3, <2>1 DEF Load, TypeOK, histVars
<1>5. queue[i] = <<>> /\ worker[i] = "idle"
  BY DEF Load, ExecutorOK, Ready
<1>6. (\A j \in Instances : ExecutorOK(j))'
  BY <1>2, <1>5 DEF Load, ExecutorOK, Ready, TypeOK
<1>7. HandlerOK'
  <2>1. pending # NoTask => i # Serving
    BY DEF Load, HandlerOK, Ready
  <2> QED
    BY <1>2, <2>1, ServingIsInstance DEF Load, HandlerOK, Ready, TypeOK
<1>8. FreshOK'
  BY <1>1, <1>2 DEF Load, FreshOK, TypeOK, histVars
<1>9. Unique(disk)' /\ (\A j \in Instances : Unique(records[j]))'
  <2>1. disk' = disk /\ \A j \in Instances : records'[j] = recs \/ records'[j] = records[j]
    BY <1>2 DEF Load, TypeOK
  <2> QED
    BY <1>3, <2>1 DEF Unique, Live
<1> QED
  BY <1>4, <1>6, <1>7, <1>8, <1>9

(* Recover and PurgeExpired: an instance that is not ready replaces its    *)
(* dictionary by one with the same or fewer unfinished tasks.              *)
LEMMA ConstructorWrites ==
    ASSUME MemoryInv, NEW i \in Instances, ~Ready(i),
           NEW recs \in Records,
           \A c \in Ids : records[i][c] = NoRec => recs[c] = NoRec,
           Live(recs) \subseteq Live(records[i]),
           \A c \in Live(recs) : recs[c] = records[i][c],
           records' = [records EXCEPT ![i] = recs],
           disk' \in {disk, recs},
           NEW b, b # "ready", boot' = [boot EXCEPT ![i] = b],
           UNCHANGED <<queue, worker, cur, pending, nextId, starts>>,
           TypeOK'
    PROVE  MemoryInv'
<1> USE DEF MemoryInv
<1>1. \A j \in Instances : records'[j] = recs \/ records'[j] = records[j]
  BY DEF TypeOK
<1>2. Unique(recs)
  BY DEF Unique
<1>3. (\A j \in Instances : ExecutorOK(j))'
  <2> SUFFICES ASSUME NEW j \in Instances PROVE ExecutorOK(j)'
    OBVIOUS
  <2>1. CASE j = i
    <3>1. queue'[i] = <<>> /\ worker'[i] = "idle"
      BY DEF ExecutorOK
    <3> QED
      BY <2>1, <3>1 DEF ExecutorOK
  <2>2. CASE j # i
    <3>1. boot'[j] = boot[j] /\ records'[j] = records[j]
      BY <2>2 DEF TypeOK
    <3> QED
      BY <3>1 DEF ExecutorOK, Ready
  <2> QED
    BY <2>1, <2>2
<1>4. HandlerOK'
  <2>1. pending # NoTask => i # Serving
    BY DEF HandlerOK
  <2> QED
    BY <2>1, ServingIsInstance DEF HandlerOK, Ready, TypeOK
<1>5. FreshOK'
  <2> SUFFICES ASSUME NEW c \in Ids, nextId <= c
               PROVE  /\ disk'[c] = NoRec
                      /\ \A j \in Instances : records'[j][c] = NoRec
                      /\ starts'[c] = 0
    BY DEF FreshOK
  <2> QED
    BY <1>1 DEF FreshOK
<1>6. Unique(disk)' /\ (\A j \in Instances : Unique(records[j]))'
  BY <1>1, <1>2 DEF Unique, Live
<1> QED
  BY <1>3, <1>4, <1>5, <1>6

(* _recover, whether or not its save succeeds.                             *)
LEMMA RecoverPreserves ==
    ASSUME MemoryInv, NEW i \in Instances, Recover(i)
    PROVE  MemoryInv'
<1> DEFINE recs == Recovered(records[i])
<1>1. TypeOK /\ records[i] \in Records
  BY DEF MemoryInv, TypeOK
<1>2. /\ recs \in Records
      /\ \A c \in Ids : records[i][c] = NoRec => recs[c] = NoRec
      /\ Live(recs) \subseteq Live(records[i])
      /\ \A c \in Live(recs) : recs[c] = records[i][c]
  BY <1>1, RecoveredType DEF Live, Queued, Terminal
<1>3. records' = [records EXCEPT ![i] = recs] /\ disk' = recs
  BY DEF Recover, SaveOk
<1> HIDE DEF recs
<1>4. TypeOK'
  BY <1>1, <1>2, <1>3 DEF Recover, SaveOk, TypeOK, histVars
<1>5. ~Ready(i) /\ boot' = [boot EXCEPT ![i] = "recovered"]
  BY DEF Recover, Ready
<1> QED
  BY <1>2, <1>3, <1>4, <1>5, ConstructorWrites DEF Recover, histVars

(* The _purge_expired of the constructor, whether or not its save          *)
(* succeeds.                                                               *)
LEMMA PurgeExpiredPreserves ==
    ASSUME MemoryInv, NEW i \in Instances, PurgeExpired(i)
    PROVE  MemoryInv'
<1> DEFINE recs == Purged(records[i])
<1>1. TypeOK /\ records[i] \in Records
  BY DEF MemoryInv, TypeOK
<1>2. /\ recs \in Records
      /\ \A c \in Ids : records[i][c] = NoRec => recs[c] = NoRec
      /\ Live(recs) \subseteq Live(records[i])
      /\ \A c \in Live(recs) : recs[c] = records[i][c]
  BY <1>1, PurgedType
<1>3. records' = [records EXCEPT ![i] = recs] /\ disk' \in {disk, recs} /\ saveFaults' = saveFaults
  BY DEF PurgeExpired, SaveOk
<1> HIDE DEF recs
<1>4. TypeOK'
  BY <1>1, <1>2, <1>3 DEF PurgeExpired, TypeOK, histVars
<1>5. ~Ready(i) /\ boot' = [boot EXCEPT ![i] = "purged"]
  BY DEF PurgeExpired, Ready
<1> QED
  BY <1>2, <1>3, <1>4, <1>5, ConstructorWrites DEF PurgeExpired, histVars

(* A process that went down left well-typed variables.                     *)
LEMMA DownIsTyped ==
    ASSUME TypeOK, ProcessDown, disk' = disk,
           nextId' = nextId, aged' = aged, readFaults' = readFaults,
           crashes' \in 0..MaxCrashes, saveFaults' \in 0..MaxSaveFaults,
           UNCHANGED histVars
    PROVE  TypeOK'
<1>1. NoRecords \in Records
  BY DEF NoRecords, Records
<1> QED
  BY <1>1 DEF ProcessDown, TypeOK, histVars, NoTask

(* A save that raises in the constructor ends the process.                 *)
LEMMA BootFailsPreserves ==
    ASSUME MemoryInv, NEW i \in Instances, BootFails(i)
    PROVE  MemoryInv'
<1>1. TypeOK'
  <2>1. saveFaults' \in 0..MaxSaveFaults
    BY ConstantsAssumption DEF BootFails, SaveRaises, MemoryInv, TypeOK
  <2> QED
    BY <2>1, DownIsTyped DEF BootFails, SaveRaises, MemoryInv, TypeOK
<1> QED
  BY <1>1, DownPreserves DEF BootFails, SaveRaises, histVars

(* A crash empties every memory and leaves the file.                       *)
LEMMA CrashPreserves ==
    ASSUME MemoryInv, Crash
    PROVE  MemoryInv'
<1>1. TypeOK'
  <2>1. crashes' \in 0..MaxCrashes
    BY ConstantsAssumption DEF Crash, MemoryInv, TypeOK
  <2> QED
    BY <2>1, DownIsTyped DEF Crash, MemoryInv, TypeOK
<1> QED
  BY <1>1, DownPreserves DEF Crash, histVars

(* The constructor hands the queued tasks to an idle executor.             *)
LEMMA EnqueueQueuedPreserves ==
    ASSUME MemoryInv, NEW i \in Instances, EnqueueQueued(i)
    PROVE  MemoryInv'
<1> USE DEF MemoryInv
<1> DEFINE S == Queued(records[i])
<1>1. PICK q \in InOrder(S) : queue' = [queue EXCEPT ![i] = q]
  BY DEF EnqueueQueued
<1>2. S \in SUBSET Ids
  BY DEF Queued
<1>3. q \in Seq(Ids) /\ (\A n \in 1..Len(q) : q[n] \in S)
      /\ \A m, n \in 1..Len(q) : q[m] = q[n] => m = n
  BY <1>2, InOrderType
<1>4. \A n \in 1..Len(q) : IsQueued(records[i][q[n]])
  BY <1>3 DEF IsQueued, Queued
<1> HIDE DEF S
<1>5. ~Ready(i) /\ worker[i] = "idle"
  BY DEF EnqueueQueued, Ready, ExecutorOK
<1>6. TypeOK'
  BY <1>1, <1>3 DEF EnqueueQueued, TypeOK, faultVars, histVars
<1>7. (\A j \in Instances : ExecutorOK(j))'
  <2> SUFFICES ASSUME NEW j \in Instances PROVE ExecutorOK(j)'
    OBVIOUS
  <2>1. CASE j = i
    BY <2>1, <1>1, <1>3, <1>4, <1>5 DEF EnqueueQueued, ExecutorOK, Ready, TypeOK
  <2>2. CASE j # i
    BY <2>2, <1>1 DEF EnqueueQueued, ExecutorOK, Ready, TypeOK
  <2> QED
    BY <2>1, <2>2
<1>8. HandlerOK'
  <2>1. pending # NoTask => i # Serving
    BY <1>5 DEF HandlerOK
  <2> QED
    BY <1>1, <2>1, ServingIsInstance DEF EnqueueQueued, HandlerOK, Ready, TypeOK
<1>9. FreshOK' /\ Unique(disk)' /\ (\A j \in Instances : Unique(records[j]))'
  BY DEF EnqueueQueued, FreshOK, Unique, Live, histVars
<1> QED
  BY <1>6, <1>7, <1>8, <1>9

(* The steps of POST /api/command.                                         *)
LEMMA SubmitDuplicatePreserves ==
    ASSUME MemoryInv, NEW owner \in Owners, NEW cmd \in Commands, SubmitDuplicate(owner, cmd)
    PROVE  MemoryInv'
<1> USE DEF MemoryInv
<1>1. TypeOK'
  <2>1. accepted' \subseteq Owners \X Ids
    BY DEF SubmitDuplicate, Duplicates, Live, TypeOK
  <2> QED
    BY <2>1 DEF SubmitDuplicate, TypeOK, instVars, faultVars
<1> QED
  BY <1>1 DEF SubmitDuplicate, instVars, ExecutorOK, Ready, HandlerOK, FreshOK, Unique, Live

(* submit under the lock: a fresh id for a command with no unfinished      *)
(* task.                                                                   *)
LEMMA SubmitNewPreserves ==
    ASSUME MemoryInv, NEW owner \in Owners, NEW cmd \in Commands, SubmitNew(owner, cmd)
    PROVE  MemoryInv'
<1> USE DEF MemoryInv
<1> DEFINE new == NewRecord(owner, cmd)
           recs == [records[Serving] EXCEPT ![nextId] = new]
<1>1. new \in TaskRecord /\ IsQueued(new) /\ new.cmd = cmd
  BY ConstantsAssumption DEF NewRecord, TaskRecord, Status, ErrorCodes, IsQueued
<1>2. /\ nextId \in Ids /\ Ready(Serving)
      /\ records' = [records EXCEPT ![Serving] = recs]
      /\ disk' \in {disk, recs}
      /\ pending' \in {NoTask, nextId}
      /\ nextId' = nextId + 1
  BY DEF SubmitNew, SaveOk, SaveRaises
<1> HIDE DEF new
<1>3. recs \in Records /\ recs[nextId] = new /\ \A c \in Ids \ {nextId} : recs[c] = records[Serving][c]
  BY <1>1, <1>2, ServingIsInstance DEF TypeOK, Records
<1> HIDE DEF recs
<1>4. \A j \in Instances : records'[j] = IF j = Serving THEN recs ELSE records[j]
  BY <1>2 DEF TypeOK
<1>5. records[Serving][nextId] = NoRec
  BY <1>2, ServingIsInstance, ConstantsAssumption DEF FreshOK, Ids
<1>6. TypeOK'
  <2>1. nextId' \in 1..(MaxTasks + 1) /\ pending' \in Ids \cup {NoTask}
    BY <1>2, ConstantsAssumption DEF Ids
  <2>2. saveFaults' \in 0..MaxSaveFaults
    BY ConstantsAssumption DEF SubmitNew, SaveOk, SaveRaises, TypeOK
  <2>3. disk' \in Records /\ records' \in [Instances -> Records]
    BY <1>2, <1>3, ServingIsInstance DEF TypeOK
  <2> QED
    BY <2>1, <2>2, <2>3 DEF SubmitNew, TypeOK, histVars
<1>7. (\A j \in Instances : ExecutorOK(j))'
  <2> SUFFICES ASSUME NEW j \in Instances PROVE ExecutorOK(j)'
    OBVIOUS
  <2>1. UNCHANGED <<boot, queue, worker, cur>>
    BY DEF SubmitNew
  <2>2. \A n \in 1..Len(queue[j]) : records'[j][queue[j][n]] = records[j][queue[j][n]]
    <3> SUFFICES ASSUME NEW n \in 1..Len(queue[j])
                 PROVE  records'[j][queue[j][n]] = records[j][queue[j][n]]
      OBVIOUS
    <3>1. queue[j][n] \in Ids /\ records[j][queue[j][n]] # NoRec
      BY DEF TypeOK, ExecutorOK, IsQueued
    <3> QED
      BY <3>1, <1>3, <1>4, <1>5
  <2>3. worker[j] # "idle" => records'[j][cur[j]] = records[j][cur[j]]
    <3>1. worker[j] # "idle" => cur[j] \in Ids /\ records[j][cur[j]] # NoRec
      BY DEF TypeOK, ExecutorOK
    <3> QED
      BY <3>1, <1>3, <1>4, <1>5
  <2> QED
    BY <2>1, <2>2, <2>3 DEF ExecutorOK, Ready
<1>8. HandlerOK'
  <2>1. IsQueued(records'[Serving][nextId])
    BY <1>1, <1>3, <1>4, ServingIsInstance
  <2>2. \A n \in 1..Len(queue[Serving]) : queue[Serving][n] # nextId
    BY <1>5, ServingIsInstance DEF ExecutorOK, IsQueued
  <2>3. UNCHANGED <<boot, queue>>
    BY DEF SubmitNew
  <2> QED
    BY <1>2, <2>1, <2>2, <2>3 DEF HandlerOK, Ready
<1>9. FreshOK'
  <2> SUFFICES ASSUME NEW c \in Ids, nextId + 1 <= c
               PROVE  /\ disk'[c] = NoRec
                      /\ \A j \in Instances : records'[j][c] = NoRec
                      /\ starts'[c] = 0
    BY <1>2 DEF FreshOK
  <2>1. nextId <= c /\ c # nextId
    BY <1>2, ConstantsAssumption DEF Ids
  <2>2. starts' = starts
    BY DEF SubmitNew, histVars
  <2> QED
    BY <1>2, <1>3, <1>4, <2>1, <2>2, ServingIsInstance DEF FreshOK
<1>10. Unique(recs)
  <2> SUFFICES ASSUME NEW c \in Live(recs), NEW d \in Live(recs), recs[c].cmd = recs[d].cmd
               PROVE  c = d
    BY DEF Unique
  <2>1. \A e \in Live(records[Serving]) : records[Serving][e].cmd # cmd
    BY DEF SubmitNew, Duplicates
  <2>2. \A e \in Live(recs) \ {nextId} : e \in Live(records[Serving])
    BY <1>3 DEF Live
  <2> QED
    BY <1>1, <1>3, <2>1, <2>2, ServingIsInstance DEF Unique, Live
<1>11. Unique(disk)' /\ (\A j \in Instances : Unique(records[j]))'
  BY <1>2, <1>4, <1>10 DEF Unique, Live
<1> QED
  BY <1>6, <1>7, <1>8, <1>9, <1>11

(* submit after the lock: the executor receives the task just created.     *)
LEMMA EnqueuePreserves ==
    ASSUME MemoryInv, Enqueue
    PROVE  MemoryInv'
<1> USE DEF MemoryInv
<1> DEFINE q == queue[Serving]
<1>1. /\ pending \in Ids /\ q \in Seq(Ids)
      /\ queue' = [queue EXCEPT ![Serving] = Append(q, pending)]
  BY ServingIsInstance DEF Enqueue, TypeOK
<1>2. /\ Append(q, pending) \in Seq(Ids)
      /\ Len(Append(q, pending)) = Len(q) + 1
      /\ \A n \in 1..Len(q) : Append(q, pending)[n] = q[n]
      /\ Append(q, pending)[Len(q) + 1] = pending
      /\ Len(q) \in Nat
  BY <1>1
<1>3. /\ Ready(Serving) /\ IsQueued(records[Serving][pending])
      /\ \A n \in 1..Len(q) : q[n] # pending
  BY DEF Enqueue, HandlerOK
<1>4. TypeOK'
  <2>1. records[Serving][pending] \in TaskRecord
    BY <1>1, <1>3, ServingIsInstance DEF TypeOK, Records, IsQueued
  <2>2. accepted' \subseteq Owners \X Ids
    BY <1>1, <2>1 DEF Enqueue, TypeOK, TaskRecord
  <2>3. queue' \in [Instances -> Seq(Ids)]
    BY <1>1, <1>2, ServingIsInstance DEF TypeOK
  <2> QED
    BY <2>2, <2>3 DEF Enqueue, TypeOK, faultVars
<1>5. (\A j \in Instances : ExecutorOK(j))'
  <2> SUFFICES ASSUME NEW j \in Instances PROVE ExecutorOK(j)'
    OBVIOUS
  <2>1. UNCHANGED <<boot, records, worker, cur>>
    BY DEF Enqueue
  <2>2. CASE j # Serving
    BY <1>1, <2>1, <2>2 DEF ExecutorOK, Ready, TypeOK
  <2>3. CASE j = Serving
    <3>1. queue'[j] = Append(q, pending)
      BY <1>1, <2>3, ServingIsInstance DEF TypeOK
    <3>2. ASSUME NEW n \in 1..(Len(q) + 1)
          PROVE  n \in 1..Len(q) \/ n = Len(q) + 1
      BY <1>2
    <3>3. \A n \in 1..Len(queue'[j]) : IsQueued(records[j][queue'[j][n]])
      BY <1>2, <1>3, <2>3, <3>1, <3>2 DEF ExecutorOK
    <3>4. \A m, n \in 1..Len(queue'[j]) : queue'[j][m] = queue'[j][n] => m = n
      BY <1>2, <1>3, <2>3, <3>1, <3>2 DEF ExecutorOK
    <3> QED
      BY <1>3, <2>1, <2>3, <3>3, <3>4 DEF ExecutorOK, Ready
  <2> QED
    BY <2>2, <2>3
<1>6. HandlerOK'
  BY DEF Enqueue, HandlerOK
<1>7. FreshOK' /\ Unique(disk)' /\ (\A j \in Instances : Unique(records[j]))'
  BY DEF Enqueue, FreshOK, Unique, Live
<1> QED
  BY <1>4, <1>5, <1>6, <1>7

(* The thread of an executor changes the record of one task c of its own   *)
(* instance, which nothing else there refers to.                           *)
LEMMA ThreadWrites ==
    ASSUME MemoryInv, NEW i \in Instances, Ready(i), NEW c \in Ids,
           records[i][c] # NoRec,
           NEW status \in Status \ {"queued"}, NEW error \in ErrorCodes,
           records[i][c].status \notin Terminal \/ status \in Terminal,
           records' = [records EXCEPT ![i] = Updated(i, c, status, error)],
           disk' \in {disk, Updated(i, c, status, error)},
           NEW q \in Seq(Ids), queue' = [queue EXCEPT ![i] = q],
           \A n \in 1..Len(q) : q[n] # c /\ IsQueued(records[i][q[n]]),
           \A m, n \in 1..Len(q) : q[m] = q[n] => m = n,
           \A x \in Ids : (\A n \in 1..Len(queue[i]) : queue[i][n] # x)
                        => \A n \in 1..Len(q) : q[n] # x,
           pending # c \/ i # Serving,
           NEW w \in {"idle", "executing", "failing"}, worker' = [worker EXCEPT ![i] = w],
           cur' = [cur EXCEPT ![i] = IF w = "idle" THEN NoTask ELSE c],
           w = "executing" => status = "running",
           starts' \in [Ids -> Nat], \A x \in Ids \ {c} : starts'[x] = starts[x],
           saveFaults' \in 0..MaxSaveFaults, aged' \subseteq Ids,
           UNCHANGED <<boot, pending, nextId, crashes, readFaults, accepted>>
    PROVE  MemoryInv'
<1> USE DEF MemoryInv
<1> DEFINE recs == Updated(i, c, status, error)
<1>1. /\ recs \in Records /\ recs[c] # NoRec /\ recs[c].status = status
      /\ \A d \in Ids \ {c} : recs[d] = records[i][d]
      /\ Unique(recs)
  BY UpdatedType, UpdatedUnique, ConstantsAssumption DEF Records
<1> HIDE DEF recs
<1>2. /\ \A j \in Instances : records'[j] = IF j = i THEN recs ELSE records[j]
      /\ \A j \in Instances : queue'[j] = IF j = i THEN q ELSE queue[j]
      /\ \A j \in Instances : worker'[j] = IF j = i THEN w ELSE worker[j]
      /\ cur'[i] = IF w = "idle" THEN NoTask ELSE c
      /\ \A j \in Instances \ {i} : cur'[j] = cur[j]
  BY DEF TypeOK, recs
<1>3. TypeOK'
  <2>1. records' \in [Instances -> Records] /\ disk' \in Records
    BY <1>1 DEF TypeOK, recs
  <2>2. /\ queue' \in [Instances -> Seq(Ids)]
        /\ worker' \in [Instances -> {"idle", "executing", "failing"}]
        /\ cur' \in [Instances -> Ids \cup {NoTask}]
    BY DEF TypeOK
  <2>3. c # NoTask
    BY ConstantsAssumption DEF Ids, NoTask
  <2>4. \A j \in Instances : worker'[j] = "idle" <=> cur'[j] = NoTask
    BY <1>2, <2>3 DEF TypeOK
  <2> QED
    BY <2>1, <2>2, <2>4 DEF TypeOK
<1>4. (\A j \in Instances : ExecutorOK(j))'
  <2> SUFFICES ASSUME NEW j \in Instances PROVE ExecutorOK(j)'
    OBVIOUS
  <2>1. CASE j # i
    BY <1>2, <2>1 DEF ExecutorOK, Ready
  <2>2. CASE j = i
    <3>1. \A n \in 1..Len(q) : IsQueued(recs[q[n]])
      <4> SUFFICES ASSUME NEW n \in 1..Len(q) PROVE IsQueued(recs[q[n]])
        OBVIOUS
      <4>1. q[n] \in Ids \ {c}
        OBVIOUS
      <4> QED
        BY <4>1, <1>1
    <3>2. w # "idle" => recs[cur'[i]] # NoRec /\ recs[cur'[i]].status # "queued"
      BY <1>1, <1>2
    <3>3. w = "executing" => recs[cur'[i]].status = "running"
      BY <1>1, <1>2
    <3> QED
      BY <1>2, <2>2, <3>1, <3>2, <3>3 DEF ExecutorOK, Ready
  <2> QED
    BY <2>1, <2>2
<1>5. HandlerOK'
  <2>1. CASE i # Serving
    BY <1>2, <2>1, ServingIsInstance DEF HandlerOK, Ready
  <2>2. CASE i = Serving /\ pending # NoTask
    <3>1. pending \in Ids \ {c}
      BY <2>2 DEF TypeOK
    <3>2. IsQueued(records'[Serving][pending])
      BY <1>1, <1>2, <2>2, <3>1 DEF HandlerOK
    <3>3. \A n \in 1..Len(q) : q[n] # pending
      BY <2>2, <3>1 DEF HandlerOK
    <3> QED
      BY <1>2, <2>2, <3>2, <3>3 DEF HandlerOK, Ready
  <2>3. CASE pending = NoTask
    BY <2>3 DEF HandlerOK
  <2> QED
    BY <2>1, <2>2, <2>3
<1>6. FreshOK'
  <2> SUFFICES ASSUME NEW x \in Ids, nextId <= x
               PROVE  /\ disk'[x] = NoRec
                      /\ \A j \in Instances : records'[j][x] = NoRec
                      /\ starts'[x] = 0
    BY DEF FreshOK
  <2>1. x # c
    BY DEF FreshOK
  <2> QED
    BY <1>1, <1>2, <2>1 DEF FreshOK, recs
<1>7. Unique(disk)' /\ (\A j \in Instances : Unique(records[j]))'
  BY <1>1, <1>2 DEF Unique, Live, recs
<1> QED
  BY <1>3, <1>4, <1>5, <1>6, <1>7

(* _run takes the head of the queue and marks it running.                  *)
LEMMA RunStartPreserves ==
    ASSUME MemoryInv, NEW i \in Instances, RunStart(i)
    PROVE  MemoryInv'
<1> USE DEF MemoryInv
<1> DEFINE c == Head(queue[i])
           q == Tail(queue[i])
           e == records[i][c].error
<1>1. queue[i] \in Seq(Ids) /\ queue[i] # <<>> /\ Len(queue[i]) \in Nat
  BY DEF RunStart, TypeOK
<1>2. /\ c \in Ids /\ c = queue[i][1] /\ 1 \in 1..Len(queue[i])
      /\ q \in Seq(Ids) /\ Len(q) = Len(queue[i]) - 1
      /\ \A n \in 1..Len(q) : q[n] = queue[i][n + 1] /\ n + 1 \in 1..Len(queue[i])
  BY <1>1
<1>3. IsQueued(records[i][c])
  BY <1>2 DEF ExecutorOK
<1>4. \A n \in 1..Len(q) : q[n] # c /\ IsQueued(records[i][q[n]])
  <2> SUFFICES ASSUME NEW n \in 1..Len(q) PROVE q[n] # c /\ IsQueued(records[i][q[n]])
    OBVIOUS
  <2>1. n + 1 \in 1..Len(queue[i]) /\ n + 1 # 1 /\ q[n] = queue[i][n + 1]
    BY <1>1, <1>2
  <2> QED
    BY <1>2, <2>1 DEF ExecutorOK
<1>5. \A m, n \in 1..Len(q) : q[m] = q[n] => m = n
  <2> SUFFICES ASSUME NEW m \in 1..Len(q), NEW n \in 1..Len(q), q[m] = q[n]
               PROVE  m = n
    OBVIOUS
  <2>1. m + 1 = n + 1
    BY <1>2 DEF ExecutorOK
  <2> QED
    BY <2>1
<1>6. \A x \in Ids : (\A n \in 1..Len(queue[i]) : queue[i][n] # x)
                     => \A n \in 1..Len(q) : q[n] # x
  BY <1>2
<1>7. pending # c \/ i # Serving
  <2> SUFFICES ASSUME pending = c, i = Serving PROVE FALSE
    OBVIOUS
  <2>1. pending # NoTask
    BY <1>2, ConstantsAssumption DEF Ids, NoTask
  <2> QED
    BY <1>2, <2>1 DEF HandlerOK
<1>8. e \in ErrorCodes /\ "running" \in Status \ {"queued"} /\ records[i][c].status \notin Terminal
  BY <1>2, <1>3 DEF TypeOK, Records, TaskRecord, IsQueued, Status, Terminal
<1>9. PICK w \in {"executing", "failing"} : worker' = [worker EXCEPT ![i] = w]
  BY DEF RunStart
<1>10. disk' \in {disk, Updated(i, c, "running", e)} /\ saveFaults' \in 0..MaxSaveFaults
  BY ConstantsAssumption DEF RunStart, SaveOk, SaveRaises, TypeOK
<1>11. starts' \in [Ids -> Nat] /\ \A x \in Ids \ {c} : starts'[x] = starts[x]
  BY <1>2 DEF RunStart, TypeOK
<1>12. /\ Ready(i)
       /\ records' = [records EXCEPT ![i] = Updated(i, c, "running", e)]
       /\ queue' = [queue EXCEPT ![i] = q]
       /\ cur' = [cur EXCEPT ![i] = IF w = "idle" THEN NoTask ELSE c]
       /\ aged' \subseteq Ids
       /\ UNCHANGED <<boot, pending, nextId, crashes, readFaults, accepted>>
  BY <1>9 DEF RunStart, TypeOK
<1>13. records[i][c] # NoRec
  BY <1>3 DEF IsQueued
<1> HIDE DEF c, q, e
<1> QED
  BY <1>2, <1>4, <1>5, <1>6, <1>7, <1>8, <1>9, <1>10, <1>11, <1>12, <1>13, ThreadWrites

(* What holds of a thread that is working on a task.                       *)
LEMMA BusyThread ==
    ASSUME MemoryInv, NEW i \in Instances, worker[i] # "idle"
    PROVE  /\ Ready(i) /\ cur[i] \in Ids /\ records[i][cur[i]] # NoRec
           /\ queue[i] \in Seq(Ids) /\ queue = [queue EXCEPT ![i] = queue[i]]
           /\ \A n \in 1..Len(queue[i]) :
                 queue[i][n] # cur[i] /\ IsQueued(records[i][queue[i][n]])
           /\ \A m, n \in 1..Len(queue[i]) : queue[i][m] = queue[i][n] => m = n
           /\ pending # cur[i] \/ i # Serving
<1> USE DEF MemoryInv
<1>1. Ready(i) /\ cur[i] \in Ids /\ records[i][cur[i]] # NoRec /\ records[i][cur[i]].status # "queued"
  BY DEF ExecutorOK, TypeOK
<1>2. queue[i] \in Seq(Ids) /\ queue = [queue EXCEPT ![i] = queue[i]]
  BY DEF TypeOK
<1>3. cur[i] # NoTask
  BY <1>1, ConstantsAssumption DEF Ids, NoTask
<1> QED
  BY <1>1, <1>2, <1>3 DEF ExecutorOK, HandlerOK, IsQueued

(* A thread that gives its task a terminal status keeps the queue.         *)
LEMMA ThreadEnds ==
    ASSUME MemoryInv, NEW i \in Instances, worker[i] # "idle",
           NEW status \in Terminal, NEW error \in ErrorCodes,
           records' = [records EXCEPT ![i] = Updated(i, cur[i], status, error)],
           disk' \in {disk, Updated(i, cur[i], status, error)},
           NEW w \in {"idle", "failing"}, worker' = [worker EXCEPT ![i] = w],
           cur' = [cur EXCEPT ![i] = IF w = "idle" THEN NoTask ELSE cur[i]],
           saveFaults' \in 0..MaxSaveFaults, aged' \subseteq Ids,
           UNCHANGED <<boot, queue, pending, nextId, crashes, readFaults, histVars>>
    PROVE  MemoryInv'
<1> DEFINE c == cur[i]
           q == queue[i]
<1>1. /\ Ready(i) /\ c \in Ids /\ records[i][c] # NoRec /\ q \in Seq(Ids)
      /\ queue' = [queue EXCEPT ![i] = q]
      /\ \A n \in 1..Len(q) : q[n] # c /\ IsQueued(records[i][q[n]])
      /\ \A m, n \in 1..Len(q) : q[m] = q[n] => m = n
      /\ pending # c \/ i # Serving
  BY BusyThread
<1>2. \A x \in Ids : (\A n \in 1..Len(queue[i]) : queue[i][n] # x)
                     => \A n \in 1..Len(q) : q[n] # x
  OBVIOUS
<1>3. status \in Status \ {"queued"} /\ w \in {"idle", "executing", "failing"} /\ w # "executing"
  BY DEF Status, Terminal
<1>4. /\ starts' \in [Ids -> Nat] /\ \A x \in Ids \ {c} : starts'[x] = starts[x]
      /\ UNCHANGED <<boot, pending, nextId, crashes, readFaults, accepted>>
  BY DEF histVars, MemoryInv, TypeOK
<1>5. /\ records' = [records EXCEPT ![i] = Updated(i, c, status, error)]
      /\ disk' \in {disk, Updated(i, c, status, error)}
      /\ cur' = [cur EXCEPT ![i] = IF w = "idle" THEN NoTask ELSE c]
  OBVIOUS
<1> HIDE DEF c, q
<1> QED
  BY <1>1, <1>2, <1>3, <1>4, <1>5, ThreadWrites

(* _run after an execution that returned.                                  *)
LEMMA RunFinishPreserves ==
    ASSUME MemoryInv, NEW i \in Instances, RunFinish(i)
    PROVE  MemoryInv'
<1> USE DEF MemoryInv
<1>1. worker[i] # "idle"
  BY DEF RunFinish
<1>2. PICK end \in {<<"succeeded", "none">>, <<"failed", "command_failed">>} :
         LET recs == Updated(i, cur[i], end[1], end[2]) IN
           /\ records' = [records EXCEPT ![i] = recs]
           /\ \/ /\ SaveOk(recs)
                 /\ worker' = [worker EXCEPT ![i] = "idle"]
                 /\ cur' = [cur EXCEPT ![i] = NoTask]
              \/ /\ SaveRaises
                 /\ worker' = [worker EXCEPT ![i] = "failing"]
                 /\ UNCHANGED cur
  BY DEF RunFinish
<1>3. end[1] \in Terminal /\ end[2] \in ErrorCodes
  BY DEF Terminal, Status, ErrorCodes
<1>4. PICK w \in {"idle", "failing"} :
         /\ worker' = [worker EXCEPT ![i] = w]
         /\ cur' = [cur EXCEPT ![i] = IF w = "idle" THEN NoTask ELSE cur[i]]
  BY <1>2 DEF TypeOK
<1>5. disk' \in {disk, Updated(i, cur[i], end[1], end[2])} /\ saveFaults' \in 0..MaxSaveFaults
  BY <1>2, ConstantsAssumption DEF SaveOk, SaveRaises, TypeOK
<1>6. /\ aged' \subseteq Ids
      /\ UNCHANGED <<boot, queue, pending, nextId, crashes, readFaults, histVars>>
  BY DEF RunFinish, TypeOK
<1> QED
  BY <1>1, <1>2, <1>3, <1>4, <1>5, <1>6, ThreadEnds

(* _run after an execution that raised.                                    *)
LEMMA RunFailPreserves ==
    ASSUME MemoryInv, NEW i \in Instances, RunFail(i)
    PROVE  MemoryInv'
<1> USE DEF MemoryInv
<1>1. worker[i] # "idle"
  BY DEF RunFail
<1>2. "failed" \in Terminal /\ "command_exception" \in ErrorCodes
  BY DEF Terminal, Status, ErrorCodes
<1>3. disk' \in {disk, Updated(i, cur[i], "failed", "command_exception")}
      /\ saveFaults' \in 0..MaxSaveFaults
  BY ConstantsAssumption DEF RunFail, Save, SaveOk, SaveRaises, TypeOK
<1>4. /\ records' = [records EXCEPT ![i] = Updated(i, cur[i], "failed", "command_exception")]
      /\ worker' = [worker EXCEPT ![i] = "idle"]
      /\ cur' = [cur EXCEPT ![i] = IF "idle" = "idle" THEN NoTask ELSE cur[i]]
      /\ aged' \subseteq Ids
      /\ UNCHANGED <<boot, queue, pending, nextId, crashes, readFaults, histVars>>
  BY DEF RunFail, TypeOK
<1> QED
  BY <1>1, <1>2, <1>3, <1>4, ThreadEnds

(* A save that raises in _run sends the thread to the error path.          *)
LEMMA RunRaisesPreserves ==
    ASSUME MemoryInv, NEW i \in Instances, RunRaises(i)
    PROVE  MemoryInv'
<1> USE DEF MemoryInv, RunRaises, faultVars, histVars
<1>1. TypeOK'
  BY DEF TypeOK
<1>2. (\A j \in Instances : ExecutorOK(j))'
  BY DEF ExecutorOK, Ready, TypeOK
<1>3. HandlerOK' /\ FreshOK' /\ Unique(disk)' /\ (\A j \in Instances : Unique(records[j]))'
  BY DEF HandlerOK, Ready, FreshOK, Unique, Live
<1> QED
  BY <1>1, <1>2, <1>3

(* The passing of the retention time.                                      *)
LEMMA AgePreserves ==
    ASSUME MemoryInv, NEW c \in Ids, Age(c)
    PROVE  MemoryInv'
<1> USE DEF MemoryInv, Age, instVars, faultVars, histVars
<1>1. TypeOK'
  BY DEF TypeOK
<1>2. (\A j \in Instances : ExecutorOK(j))' /\ HandlerOK' /\ FreshOK'
  BY DEF ExecutorOK, HandlerOK, Ready, FreshOK
<1>3. Unique(disk)' /\ (\A j \in Instances : Unique(records[j]))'
  BY DEF Unique, Live
<1> QED
  BY <1>1, <1>2, <1>3

(* Steps of other components.                                              *)
LEMMA StutterPreserves ==
    ASSUME MemoryInv, UNCHANGED vars
    PROVE  MemoryInv'
BY DEF MemoryInv, vars, instVars, faultVars, histVars, TypeOK, ExecutorOK, HandlerOK,
       Ready, FreshOK, Unique, Live

(* Every step preserves MemoryInv.                                         *)
LEMMA MemoryNext == MemoryInv /\ [Next]_vars => MemoryInv'
<1> SUFFICES ASSUME MemoryInv, [Next]_vars PROVE MemoryInv'
  OBVIOUS
<1>1. ASSUME NEW i \in Instances, Load(i) PROVE MemoryInv'
  BY <1>1, LoadPreserves
<1>2. ASSUME NEW i \in Instances, Construct(i) PROVE MemoryInv'
  BY <1>2, RecoverPreserves, PurgeExpiredPreserves, BootFailsPreserves, EnqueueQueuedPreserves
     DEF Construct
<1>3. ASSUME NEW i \in Instances, Run(i) PROVE MemoryInv'
  BY <1>3, RunStartPreserves, RunFinishPreserves, RunRaisesPreserves, RunFailPreserves DEF Run
<1>4. ASSUME NEW o \in Owners, NEW cmd \in Commands,
             SubmitDuplicate(o, cmd) \/ SubmitNew(o, cmd)
      PROVE  MemoryInv'
  BY <1>4, SubmitDuplicatePreserves, SubmitNewPreserves
<1> QED
  BY <1>1, <1>2, <1>3, <1>4, EnqueuePreserves, AgePreserves, CrashPreserves, StutterPreserves
     DEF Next

(* Memory, executor, handler and file agree in every behaviour             *)
(* (MemoryInv).                                                            *)
THEOREM MemoryInvariant == Spec => []MemoryInv
BY MemoryInit, MemoryNext, PTL DEF Spec

(* The variables keep their types in every behaviour (TypeOK).             *)
THEOREM TypeCorrect == Spec => []TypeOK
<1>1. MemoryInv => TypeOK
  BY DEF MemoryInv
<1> QED
  BY <1>1, MemoryInvariant, PTL

(* No store ever holds two unfinished tasks of one command, however many   *)
(* instances, devices, crashes and failing saves there are.                *)
THEOREM DuplicatesConverge == Spec => []OneLivePerCommand
<1>1. MemoryInv => OneLivePerCommand
  BY DEF MemoryInv, Unique, OneLivePerCommand
<1> QED
  BY <1>1, MemoryInvariant, PTL

-----------------------------------------------------------------------------
(* With one instance the file tells what was started: a started task is    *)
(* queued neither in the file nor in memory, so nothing starts it again.   *)
StartedOK ==
    \A c \in Ids :
        /\ starts[c] <= 1
        /\ starts[c] # 0 => ~IsQueued(disk[c]) /\ \A i \in Instances : ~IsQueued(records[i][c])

(* While the constructor runs, what it will enqueue is queued in the file. *)
BootOK ==
    \A i \in Instances : boot[i] \in {"recovered", "purged"} =>
        \A c \in Ids : IsQueued(records[i][c]) => IsQueued(disk[c])

DiskInv == MemoryInv /\ StartedOK /\ BootOK /\ WorkIsDurable

(* With NInst = 1 the serving instance is the only one.                    *)
LEMMA OnlyInstance ==
    ASSUME NInst = 1
    PROVE  Instances = {1} /\ Serving = 1
BY DEF Instances, Serving

(* While the constructor runs nothing is held by executor or handler.      *)
LEMMA QuietConstructor ==
    ASSUME MemoryInv, NInst = 1, ~Ready(1)
    PROVE  queue[1] = <<>> /\ worker[1] = "idle" /\ pending = NoTask
BY OnlyInstance DEF MemoryInv, ExecutorOK, HandlerOK

(* What WorkIsDurable says of queue, thread and handler of one instance.   *)
LEMMA DurableParts ==
    ASSUME NInst = 1, WorkIsDurable
    PROVE  /\ \A n \in 1..Len(queue[1]) : IsQueued(disk[queue[1][n]])
           /\ worker[1] = "executing" => OnDisk(cur[1], "running")
           /\ pending # NoTask => IsQueued(disk[pending])
BY OnlyInstance DEF WorkIsDurable, OnDisk, IsQueued

(* What it takes to establish WorkIsDurable in the next state.             *)
LEMMA NowDurable ==
    ASSUME NInst = 1,
           \A n \in 1..Len(queue'[1]) : IsQueued(disk'[queue'[1][n]]),
           worker'[1] = "executing" => OnDisk(cur[1], "running")',
           pending' # NoTask => IsQueued(disk'[pending'])
    PROVE  WorkIsDurable'
BY OnlyInstance DEF WorkIsDurable, OnDisk, IsQueued

(* An instance that holds nothing has nothing to lose.                     *)
LEMMA QuietIsDurable ==
    ASSUME NInst = 1, queue'[1] = <<>>, worker'[1] = "idle", pending' = NoTask
    PROVE  WorkIsDurable'
BY NowDurable

(* The initial state: nothing was ever started.                            *)
LEMMA DiskInit == NInst = 1 /\ Init => DiskInv
<1> SUFFICES ASSUME NInst = 1, Init PROVE DiskInv
  OBVIOUS
<1>1. WorkIsDurable
  BY OnlyInstance DEF Init, WorkIsDurable
<1>2. StartedOK /\ BootOK
  BY DEF Init, StartedOK, BootOK
<1> QED
  BY <1>1, <1>2, MemoryInit DEF DiskInv

(* Steps of the constructor.                                               *)
LEMMA DiskLoad ==
    ASSUME NInst = 1, DiskInv, MemoryInv', Load(1)
    PROVE  DiskInv'
<1> USE OnlyInstance DEF DiskInv
<1>1. PICK recs \in {disk, NoRecords} : records' = [records EXCEPT ![1] = recs]
  BY DEF Load
<1>2. records'[1] = recs /\ boot'[1] = "loaded" /\ disk' = disk /\ starts' = starts
  BY <1>1 DEF Load, MemoryInv, TypeOK, histVars
<1>3. \A c \in Ids : IsQueued(recs[c]) => IsQueued(disk[c])
  BY DEF NoRecords, IsQueued
<1>4. ~Ready(1) /\ UNCHANGED <<queue, worker, pending>>
  BY DEF Load, Ready
<1>5. WorkIsDurable'
  BY <1>4, QuietConstructor, QuietIsDurable
<1>6. StartedOK' /\ BootOK'
  BY <1>2, <1>3 DEF StartedOK, BootOK
<1> QED
  BY <1>5, <1>6

(* _recover and _purge_expired: a task interrupted while it ran is not     *)
(* queued.                                                                 *)
LEMMA DiskConstructor ==
    ASSUME NInst = 1, DiskInv, MemoryInv', Recover(1) \/ PurgeExpired(1)
    PROVE  DiskInv'
<1> USE OnlyInstance DEF DiskInv
<1>1. PICK recs \in Records :
         /\ records' = [records EXCEPT ![1] = recs]
         /\ \A c \in Ids : IsQueued(recs[c]) => IsQueued(records[1][c])
         /\ disk' = recs \/ (disk' = disk /\ recs = records[1] /\ boot[1] = "recovered")
  <2>1. records[1] \in Records
    BY DEF MemoryInv, TypeOK
  <2>2. CASE Recover(1)
    <3>1. /\ Recovered(records[1]) \in Records
          /\ \A c \in Ids : IsQueued(Recovered(records[1])[c]) => IsQueued(records[1][c])
      BY <2>1, RecoveredType DEF Live, Queued, IsQueued, Terminal
    <3> DEFINE r == Recovered(records[1])
    <3>2. records' = [records EXCEPT ![1] = r]
      BY <2>2 DEF Recover
    <3>3. disk' = r
      BY <2>2 DEF Recover, SaveOk
    <3>4. r \in Records /\ \A c \in Ids : IsQueued(r[c]) => IsQueued(records[1][c])
      BY <3>1
    <3> HIDE DEF r
    <3> QED
      BY <3>2, <3>3, <3>4
  <2>3. CASE PurgeExpired(1)
    <3>1. /\ Purged(records[1]) \in Records
          /\ \A c \in Ids : IsQueued(Purged(records[1])[c]) => IsQueued(records[1][c])
      BY <2>1, PurgedType DEF Live, IsQueued, Terminal
    <3> DEFINE r == Purged(records[1])
    <3>2. records' = [records EXCEPT ![1] = r]
      BY <2>3 DEF PurgeExpired
    <3>3. disk' = r \/ (disk' = disk /\ r = records[1] /\ boot[1] = "recovered")
      BY <2>3 DEF PurgeExpired, SaveOk
    <3>4. r \in Records /\ \A c \in Ids : IsQueued(r[c]) => IsQueued(records[1][c])
      BY <3>1
    <3> HIDE DEF r
    <3> QED
      BY <3>2, <3>3, <3>4
  <2> QED
    BY <2>2, <2>3
<1>2. records'[1] = recs /\ starts' = starts
  BY <1>1 DEF Recover, PurgeExpired, MemoryInv, TypeOK, histVars
<1>3. ~Ready(1) /\ UNCHANGED <<queue, worker, pending>>
  BY DEF Recover, PurgeExpired, Ready
<1>4. WorkIsDurable'
  BY <1>3, QuietConstructor, QuietIsDurable
<1>5. StartedOK' /\ BootOK'
  BY <1>1, <1>2 DEF StartedOK, BootOK
<1> QED
  BY <1>4, <1>5

(* Every task the constructor hands out is queued in the file.             *)
LEMMA DiskEnqueueQueued ==
    ASSUME NInst = 1, DiskInv, MemoryInv', EnqueueQueued(1)
    PROVE  DiskInv'
<1> USE OnlyInstance DEF DiskInv
<1>1. worker'[1] = "idle" /\ pending' = NoTask /\ UNCHANGED <<disk, records, starts>>
  BY QuietConstructor DEF EnqueueQueued, Ready, histVars
<1>2. \A n \in 1..Len(queue'[1]) : IsQueued(disk[queue'[1][n]])
  <2> SUFFICES ASSUME NEW n \in 1..Len(queue'[1]) PROVE IsQueued(disk[queue'[1][n]])
    OBVIOUS
  <2>1. queue'[1][n] \in Ids /\ IsQueued(records[1][queue'[1][n]])
    BY <1>1 DEF MemoryInv, TypeOK, ExecutorOK
  <2> QED
    BY <2>1 DEF EnqueueQueued, BootOK
<1>3. WorkIsDurable'
  BY <1>1, <1>2, NowDurable
<1>4. boot'[1] = "ready"
  BY DEF EnqueueQueued, MemoryInv, TypeOK
<1>5. StartedOK' /\ BootOK'
  BY <1>1, <1>4 DEF StartedOK, BootOK
<1> QED
  BY <1>3, <1>5

(* A crash or a failed constructor leaves the file and forgets the rest.   *)
LEMMA DiskDown ==
    ASSUME NInst = 1, DiskInv, MemoryInv', BootFails(1) \/ Crash
    PROVE  DiskInv'
<1> USE OnlyInstance DEF DiskInv
<1>1. ProcessDown /\ disk' = disk /\ starts' = starts
  BY DEF BootFails, SaveRaises, Crash, histVars
<1>2. WorkIsDurable'
  <2>1. queue'[1] = <<>> /\ worker'[1] = "idle" /\ pending' = NoTask
    BY <1>1 DEF ProcessDown
  <2> QED
    BY <2>1, QuietIsDurable
<1>3. \A c \in Ids : ~IsQueued(NoRecords[c])
  BY DEF NoRecords, IsQueued
<1>4. StartedOK' /\ BootOK'
  BY <1>1, <1>3 DEF StartedOK, BootOK, ProcessDown
<1> QED
  BY <1>2, <1>4

(* Steps of the handler.                                                   *)
LEMMA DiskSubmitNew ==
    ASSUME NInst = 1, DiskInv, MemoryInv', NEW owner \in Owners, NEW cmd \in Commands,
           SubmitNew(owner, cmd)
    PROVE  DiskInv'
<1> USE OnlyInstance DEF DiskInv
<1> DEFINE recs == [records[1] EXCEPT ![nextId] = NewRecord(owner, cmd)]
<1>1. /\ nextId \in Ids /\ records[1] \in Records /\ boot[1] = "ready" /\ pending = NoTask
      /\ UNCHANGED <<boot, queue, worker, cur, starts>>
      /\ records'[1] = recs
      /\ \/ disk' = recs /\ pending' = nextId
         \/ disk' = disk /\ pending' = NoTask
  BY DEF SubmitNew, SaveOk, SaveRaises, MemoryInv, TypeOK, Ready, histVars
<1>2. records[1][nextId] = NoRec /\ starts[nextId] = 0
  BY <1>1, ConstantsAssumption DEF MemoryInv, FreshOK, Ids
<1>3. /\ \A c \in Ids \ {nextId} : recs[c] = records[1][c]
      /\ IsQueued(recs[nextId])
  <2>1. NewRecord(owner, cmd) # NoRec
    BY ConstantsAssumption DEF NewRecord, TaskRecord, Status, ErrorCodes
  <2> QED
    BY <1>1, <2>1 DEF Records, NewRecord, IsQueued
<1> HIDE DEF recs
<1>4. StartedOK'
  BY <1>1, <1>2, <1>3 DEF StartedOK
<1>5. BootOK'
  BY <1>1 DEF BootOK
<1>6. WorkIsDurable'
  <2>1. CASE disk' = recs
    <3>1. \A n \in 1..Len(queue[1]) : IsQueued(recs[queue[1][n]])
      BY <1>1 DEF MemoryInv, ExecutorOK
    <3>2. worker[1] = "executing" => recs[cur[1]] # NoRec /\ recs[cur[1]].status = "running"
      BY <1>1 DEF MemoryInv, ExecutorOK
    <3> QED
      BY <1>1, <1>3, <2>1, <3>1, <3>2, NowDurable DEF OnDisk
  <2>2. CASE disk' = disk /\ pending' = NoTask
    BY <1>1, <2>2, DurableParts, NowDurable DEF OnDisk
  <2> QED
    BY <1>1, <1>3, <2>1, <2>2
<1> QED
  BY <1>4, <1>5, <1>6

(* The task the handler hands out was saved as queued.                     *)
LEMMA DiskEnqueue ==
    ASSUME NInst = 1, DiskInv, MemoryInv', Enqueue
    PROVE  DiskInv'
<1> USE OnlyInstance DEF DiskInv
<1>1. /\ queue[1] \in Seq(Ids) /\ pending \in Ids
      /\ queue'[1] = Append(queue[1], pending) /\ pending' = NoTask
      /\ UNCHANGED <<disk, boot, records, worker, cur, starts>>
  BY DEF Enqueue, MemoryInv, TypeOK
<1>2. \A n \in 1..Len(queue'[1]) :
         queue'[1][n] = pending \/ \E m \in 1..Len(queue[1]) : queue'[1][n] = queue[1][m]
  <2>1. Len(queue[1]) \in Nat /\ Len(queue'[1]) = Len(queue[1]) + 1
    BY <1>1
  <2> SUFFICES ASSUME NEW n \in 1..Len(queue'[1])
               PROVE  queue'[1][n] = pending
                      \/ \E m \in 1..Len(queue[1]) : queue'[1][n] = queue[1][m]
    OBVIOUS
  <2>2. n \in 1..Len(queue[1]) \/ n = Len(queue[1]) + 1
    BY <2>1
  <2> QED
    BY <1>1, <2>1, <2>2
<1>3. WorkIsDurable'
  BY <1>1, <1>2, DurableParts, NowDurable DEF OnDisk, Enqueue
<1>4. StartedOK' /\ BootOK'
  BY <1>1 DEF StartedOK, BootOK
<1> QED
  BY <1>3, <1>4

(* Steps of the thread.                                                    *)
LEMMA DiskRunStart ==
    ASSUME NInst = 1, DiskInv, MemoryInv', RunStart(1)
    PROVE  DiskInv'
<1> USE OnlyInstance DEF DiskInv
<1> DEFINE c == Head(queue[1])
           recs == Updated(1, c, "running", records[1][c].error)
<1>1. queue[1] \in Seq(Ids) /\ queue[1] # <<>> /\ Len(queue[1]) \in Nat
  BY DEF RunStart, MemoryInv, TypeOK
<1>2. /\ c \in Ids /\ c = queue[1][1] /\ 1 \in 1..Len(queue[1])
      /\ \A n \in 1..Len(Tail(queue[1])) :
            Tail(queue[1])[n] = queue[1][n + 1] /\ n + 1 \in 1..Len(queue[1])
  BY <1>1
<1>3. IsQueued(records[1][c]) /\ starts[c] = 0
  BY <1>2 DEF MemoryInv, ExecutorOK, StartedOK
<1>4. /\ records'[1] = recs /\ queue'[1] = Tail(queue[1]) /\ boot'[1] = "ready"
      /\ cur'[1] = c /\ pending' = pending
      /\ \/ disk' = recs /\ starts' = [starts EXCEPT ![c] = @ + 1]
         \/ disk' = disk /\ worker'[1] = "failing" /\ starts' = starts
  BY DEF RunStart, SaveOk, SaveRaises, MemoryInv, TypeOK, Ready
<1>5. /\ recs[c] # NoRec /\ recs[c].status = "running"
      /\ \A d \in Ids \ {c} : recs[d] = records[1][d]
  <2>1. records[1][c] # NoRec /\ "running" \in Status /\ records[1][c].error \in ErrorCodes
    BY <1>2, <1>3 DEF IsQueued, Status, MemoryInv, TypeOK, Records, TaskRecord
  <2> QED
    BY <1>2, <2>1, UpdatedType, ConstantsAssumption DEF MemoryInv
<1> HIDE DEF c, recs
<1>6. StartedOK'
  <2> SUFFICES ASSUME NEW d \in Ids
               PROVE  /\ starts'[d] <= 1
                      /\ starts'[d] # 0 => ~IsQueued(disk'[d]) /\ ~IsQueued(records'[1][d])
    BY DEF StartedOK
  <2>1. CASE d = c
    <3>1. starts \in [Ids -> Nat]
      BY DEF MemoryInv, TypeOK
    <3> QED
      BY <1>3, <1>4, <1>5, <2>1, <3>1 DEF IsQueued
  <2>2. CASE d # c
    <3>1. starts'[d] = starts[d] /\ records'[1][d] = records[1][d]
          /\ disk'[d] \in {disk[d], records[1][d]}
      BY <1>2, <1>4, <1>5, <2>2 DEF MemoryInv, TypeOK
    <3> QED
      BY <3>1 DEF StartedOK
  <2> QED
    BY <2>1, <2>2
<1>7. BootOK'
  BY <1>4 DEF BootOK
<1>8. WorkIsDurable'
  <2>1. \A n \in 1..Len(queue'[1]) : IsQueued(records'[1][queue'[1][n]])
    BY DEF MemoryInv, ExecutorOK
  <2>2. pending' # NoTask => IsQueued(records'[1][pending'])
    BY DEF MemoryInv, HandlerOK
  <2>3. CASE disk' = recs
    BY <1>4, <1>5, <2>1, <2>2, <2>3, NowDurable DEF OnDisk
  <2>4. CASE disk' = disk /\ worker'[1] = "failing"
    <3>1. \A n \in 1..Len(queue'[1]) : IsQueued(disk'[queue'[1][n]])
      BY <1>2, <1>4, <2>4, DurableParts
    <3>2. pending' # NoTask => IsQueued(disk'[pending'])
      BY <1>4, <2>4, DurableParts
    <3> QED
      BY <2>4, <3>1, <3>2, NowDurable
  <2> QED
    BY <1>4, <2>3, <2>4
<1> QED
  BY <1>6, <1>7, <1>8

(* A task that ended was started before, and is not queued again.          *)
LEMMA DiskRunEnds ==
    ASSUME NInst = 1, DiskInv, MemoryInv', RunFinish(1) \/ RunFail(1)
    PROVE  DiskInv'
<1> USE OnlyInstance DEF DiskInv
<1>1. PICK status \in Terminal, error \in ErrorCodes :
         /\ records' = [records EXCEPT ![1] = Updated(1, cur[1], status, error)]
         /\ disk' \in {disk, Updated(1, cur[1], status, error)}
  <2>1. CASE RunFinish(1)
    <3>1. PICK end \in {<<"succeeded", "none">>, <<"failed", "command_failed">>} :
             /\ records' = [records EXCEPT ![1] = Updated(1, cur[1], end[1], end[2])]
             /\ disk' \in {disk, Updated(1, cur[1], end[1], end[2])}
      BY <2>1 DEF RunFinish, SaveOk, SaveRaises
    <3>2. end[1] \in Terminal /\ end[2] \in ErrorCodes
      BY DEF Terminal, ErrorCodes
    <3> QED
      BY <3>1, <3>2
  <2>2. CASE RunFail(1)
    <3>1. "failed" \in Terminal /\ "command_exception" \in ErrorCodes
      BY DEF Terminal, ErrorCodes
    <3> QED
      BY <2>2, <3>1 DEF RunFail, Save, SaveOk, SaveRaises
  <2> QED
    BY <2>1, <2>2
<1>2. /\ worker[1] # "idle" /\ worker'[1] # "executing"
      /\ UNCHANGED <<boot, queue, pending, starts>>
  BY DEF RunFinish, RunFail, MemoryInv, TypeOK, histVars
<1> DEFINE recs == Updated(1, cur[1], status, error)
<1>3. /\ cur[1] \in Ids /\ recs[cur[1]].status \in Terminal
      /\ \A d \in Ids \ {cur[1]} : recs[d] = records[1][d]
  BY <1>2, BusyThread, UpdatedType DEF MemoryInv, Status, Terminal
<1>4. records'[1] = recs /\ disk' \in {disk, recs} /\ boot[1] = "ready"
  BY <1>1, <1>2, BusyThread DEF MemoryInv, TypeOK, Ready
<1> HIDE DEF recs
<1>5. \A d \in Ids : IsQueued(recs[d]) => IsQueued(records[1][d])
  BY <1>3 DEF IsQueued, Terminal
<1>6. StartedOK'
  BY <1>2, <1>4, <1>5 DEF StartedOK
<1>7. BootOK'
  BY <1>2, <1>4 DEF BootOK
<1>8. WorkIsDurable'
  <2>1. \A n \in 1..Len(queue'[1]) : IsQueued(records'[1][queue'[1][n]])
    BY DEF MemoryInv, ExecutorOK
  <2>2. pending' # NoTask => IsQueued(records'[1][pending'])
    BY DEF MemoryInv, HandlerOK
  <2>3. CASE disk' = recs
    BY <1>2, <1>4, <2>1, <2>2, <2>3, NowDurable
  <2>4. CASE disk' = disk
    BY <1>2, <2>4, DurableParts, NowDurable
  <2> QED
    BY <1>4, <2>3, <2>4
<1> QED
  BY <1>6, <1>7, <1>8

(* Steps that write neither the file nor the records.                      *)
LEMMA DiskUnwritten ==
    ASSUME NInst = 1, DiskInv, MemoryInv',
           UNCHANGED <<disk, boot, records, queue, cur, pending, starts>>,
           worker'[1] = "executing" => worker[1] = "executing"
    PROVE  DiskInv'
<1> USE OnlyInstance DEF DiskInv
<1>1. WorkIsDurable'
  BY DEF WorkIsDurable, OnDisk
<1>2. StartedOK' /\ BootOK'
  BY DEF StartedOK, BootOK
<1> QED
  BY <1>1, <1>2

(* Every step preserves DiskInv.                                           *)
LEMMA DiskNext == NInst = 1 /\ DiskInv /\ [Next]_vars => DiskInv'
<1> SUFFICES ASSUME NInst = 1, DiskInv, [Next]_vars PROVE DiskInv'
  OBVIOUS
<1>1. MemoryInv' /\ Instances = {1}
  BY MemoryNext, OnlyInstance DEF DiskInv
<1>2. ASSUME Load(1) \/ Construct(1) PROVE DiskInv'
  BY <1>1, <1>2, DiskLoad, DiskConstructor, DiskEnqueueQueued, DiskDown DEF Construct
<1>3. ASSUME Run(1) PROVE DiskInv'
  <2>1. CASE RunRaises(1)
    <3>1. worker'[1] = "failing" /\ UNCHANGED <<disk, boot, records, queue, cur, pending, starts>>
      BY <1>1, <2>1 DEF RunRaises, histVars, DiskInv, MemoryInv, TypeOK
    <3> QED
      BY <1>1, <3>1, DiskUnwritten
  <2> QED
    BY <1>1, <1>3, <2>1, DiskRunStart, DiskRunEnds DEF Run
<1>4. ASSUME NEW o \in Owners, NEW cmd \in Commands, SubmitDuplicate(o, cmd) PROVE DiskInv'
  BY <1>1, <1>4, DiskUnwritten DEF SubmitDuplicate, instVars
<1>5. ASSUME NEW c \in Ids, Age(c) PROVE DiskInv'
  BY <1>1, <1>5, DiskUnwritten DEF Age, instVars, histVars
<1>6. CASE UNCHANGED vars
  BY <1>1, <1>6, DiskUnwritten DEF vars, instVars, histVars
<1> QED
  BY <1>1, <1>2, <1>3, <1>4, <1>5, <1>6, DiskSubmitNew, DiskEnqueue, DiskDown DEF Next

(* With one instance memory never promises what the file does not          *)
(* (DiskInv).                                                              *)
THEOREM DiskInvariant == NInst = 1 /\ Spec => []DiskInv
<1>1. CASE NInst = 1
  <2>1. Init => DiskInv
    BY <1>1, DiskInit
  <2>2. DiskInv /\ [Next]_vars => DiskInv'
    BY <1>1, DiskNext
  <2> QED
    BY <2>1, <2>2, PTL DEF Spec
<1> QED
  BY <1>1

(* With one instance of the store the file always shows what handler and   *)
(* executor hold, whatever crashes and whichever saves and loads fail.     *)
THEOREM HeldWorkIsDurable == NInst = 1 /\ Spec => []WorkIsDurable
<1>1. DiskInv => WorkIsDurable
  BY DEF DiskInv
<1> QED
  BY <1>1, DiskInvariant, PTL

(* With one instance of the store no command is ever executed twice.       *)
THEOREM ExecutedAtMostOnce == NInst = 1 /\ Spec => []AtMostOnce
<1>1. DiskInv => AtMostOnce
  BY DEF DiskInv, StartedOK, AtMostOnce
<1> QED
  BY <1>1, DiskInvariant, PTL

-----------------------------------------------------------------------------
(* The facts about InOrder that the queue of the executor needs: a set of  *)
(* ids has at most one enumeration in the order of creation, a new id goes *)
(* to its end and the oldest is taken from its head.                       *)
LEMMA IdsAreFinite ==
    ASSUME NEW S \in SUBSET Ids
    PROVE  IsFiniteSet(S) /\ Cardinality(S) \in Nat /\ \A c \in S : c \in Int
<1>1. MaxTasks \in Int /\ IsFiniteSet(1..MaxTasks)
  BY FS_Interval, ConstantsAssumption
<1>2. S \in SUBSET (1..MaxTasks) /\ \A c \in S : c \in Int
  BY ConstantsAssumption DEF Ids
<1>3. IsFiniteSet(S)
  BY <1>1, <1>2, FS_Subset
<1> QED
  BY <1>2, <1>3, FS_CardinalityType

(* No id of the set is missing from the enumeration.                       *)
LEMMA InOrderOnto ==
    ASSUME NEW S \in SUBSET Ids, NEW q \in InOrder(S), NEW c \in S
    PROVE  \E n \in 1..Cardinality(S) : q[n] = c
<1> DEFINE N == Cardinality(S)
<1>1. IsFiniteSet(S) /\ N \in Nat
  BY IdsAreFinite
<1>2. q \in [1..N -> S] /\ Len(q) = N
  BY InOrderType DEF InOrder
<1>3. \A m, n \in 1..N : q[m] = q[n] => m = n
  BY <1>2, InOrderType
<1>4. q \in Injection(1..N, S)
  BY <1>2, <1>3, Fun_IsInj
<1>5. IsFiniteSet(1..N) /\ Cardinality(1..N) = N
  BY <1>1, FS_Interval
<1>6. q \in Surjection(1..N, S)
  BY <1>1, <1>4, <1>5, FS_Injection
<1> HIDE DEF N
<1>7. \A x \in S : \E n \in 1..N : q[n] = x
  BY <1>6 DEF Surjection
<1> QED
  BY <1>7 DEF N

(* The position of an id is the number of smaller ids.                     *)
LEMMA InOrderPosition ==
    ASSUME NEW S \in SUBSET Ids, NEW q \in InOrder(S), NEW k \in 1..Cardinality(S)
    PROVE  Cardinality({c \in S : c < q[k]}) = k - 1
<1> DEFINE N == Cardinality(S)
           B == {c \in S : c < q[k]}
           g == [j \in 1..(k-1) |-> q[j]]
<1>1. N \in Nat /\ \A c \in S : c \in Int
  BY IdsAreFinite
<1>2. q \in [1..N -> S] /\ \A m, n \in 1..N : m < n => q[m] < q[n]
  BY DEF InOrder
<1>3. \A j \in 1..(k-1) : j \in 1..N /\ j < k
  BY <1>1
<1>4. g \in [1..(k-1) -> B]
  BY <1>2, <1>3
<1>5. \A a, b \in 1..(k-1) : g[a] = g[b] => a = b
  <2> SUFFICES ASSUME NEW a \in 1..(k-1), NEW b \in 1..(k-1), g[a] = g[b] PROVE a = b
    OBVIOUS
  <2>1. a \in 1..N /\ b \in 1..N /\ q[a] = q[b] /\ q[a] \in Int
    BY <1>1, <1>2, <1>3
  <2>2. ~(a < b) /\ ~(b < a)
    BY <1>2, <2>1
  <2> QED
    BY <2>2
<1>6. \A c \in B : \E j \in 1..(k-1) : g[j] = c
  <2> SUFFICES ASSUME NEW c \in B PROVE \E j \in 1..(k-1) : g[j] = c
    OBVIOUS
  <2>1. PICK j \in 1..N : q[j] = c
    BY InOrderOnto
  <2>2. q[j] < q[k] /\ q[j] \in Int /\ q[k] \in Int
    BY <1>1, <1>2, <2>1
  <2>3. j < k
    BY <1>2, <2>2
  <2> QED
    BY <1>1, <2>1, <2>3
<1>7. g \in Bijection(1..(k-1), B)
  <2> HIDE DEF g, B
  <2> QED
    BY <1>4, <1>5, <1>6, Fun_IsBij
<1>8. ExistsBijection(1..(k-1), B)
  <2> HIDE DEF g, B
  <2> QED
    BY <1>7, Fun_ExistsBij
<1> HIDE DEF B
<1>9. k - 1 \in Nat
  BY <1>1
<1>10. Cardinality(B) = k - 1
  BY <1>8, <1>9, FS_CountingElements
<1> QED
  BY <1>10 DEF B

(* There is only one enumeration.                                          *)
LEMMA InOrderUnique ==
    ASSUME NEW S \in SUBSET Ids, NEW p \in InOrder(S), NEW q \in InOrder(S)
    PROVE  p = q
<1> DEFINE N == Cardinality(S)
<1>1. N \in Nat /\ p \in [1..N -> S] /\ q \in [1..N -> S]
  BY IdsAreFinite DEF InOrder
<1>2. ASSUME NEW k \in 1..N PROVE p[k] = q[k]
  <2>1. PICK m \in 1..N : q[m] = p[k]
    BY <1>1, <1>2, InOrderOnto
  <2>2. Cardinality({c \in S : c < p[k]}) = k - 1
    BY <1>2, InOrderPosition
  <2>3. Cardinality({c \in S : c < q[m]}) = m - 1
    BY InOrderPosition
  <2>4. k - 1 = m - 1
    BY <2>1, <2>2, <2>3
  <2> QED
    BY <1>1, <2>1, <2>4
<1> QED
  BY <1>1, <1>2

(* A younger id is appended.                                               *)
LEMMA InOrderAppend ==
    ASSUME NEW S \in SUBSET Ids, NEW q \in InOrder(S), NEW c \in Ids,
           \A d \in S : d < c
    PROVE  Append(q, c) \in InOrder(S \cup {c})
<1> DEFINE N == Cardinality(S)
           p == Append(q, c)
<1>1. IsFiniteSet(S) /\ N \in Nat /\ (\A d \in S : d \in Int) /\ c \in Int
  BY IdsAreFinite, ConstantsAssumption DEF Ids
<1>2. c \notin S
  BY <1>1
<1>3. Cardinality(S \cup {c}) = N + 1
  BY <1>1, <1>2, FS_AddElement
<1>4. q \in Seq(Ids) /\ Len(q) = N /\ q \in [1..N -> S]
      /\ \A m, n \in 1..N : m < n => q[m] < q[n]
  BY InOrderType DEF InOrder
<1>5. /\ p \in Seq(Ids) /\ Len(p) = N + 1 /\ p[N + 1] = c
      /\ \A n \in 1..N : p[n] = q[n]
  BY <1>1, <1>4
<1> HIDE DEF p, N
<1>6. \A n \in 1..(N+1) : n \in 1..N \/ n = N + 1
  BY <1>1
<1>7. p \in [1..(N+1) -> S \cup {c}]
  <2>1. DOMAIN p = 1..(N+1) /\ p = [n \in 1..(N+1) |-> p[n]]
    BY <1>1, <1>5
  <2>2. \A n \in 1..(N+1) : p[n] \in S \cup {c}
    BY <1>4, <1>5, <1>6
  <2> QED
    BY <2>1, <2>2
<1>8. ASSUME NEW m \in 1..(N+1), NEW n \in 1..(N+1), m < n PROVE p[m] < p[n]
  <2>1. m \in 1..N
    BY <1>1, <1>8
  <2> QED
    BY <1>4, <1>5, <1>6, <1>8, <2>1
<1>9. p \in InOrder(S \cup {c})
  BY <1>3, <1>7, <1>8 DEF InOrder
<1> QED
  BY <1>9 DEF p

(* The oldest id leaves.                                                   *)
LEMMA InOrderTail ==
    ASSUME NEW S \in SUBSET Ids, NEW q \in InOrder(S), q # <<>>
    PROVE  Head(q) \in S /\ Tail(q) \in InOrder(S \ {Head(q)})
<1> DEFINE N == Cardinality(S)
           h == Head(q)
           p == Tail(q)
<1>1. IsFiniteSet(S) /\ N \in Nat /\ \A d \in S : d \in Int
  BY IdsAreFinite
<1>2. q \in Seq(Ids) /\ Len(q) = N /\ q \in [1..N -> S]
      /\ \A m, n \in 1..N : m < n => q[m] < q[n]
  BY InOrderType DEF InOrder
<1>3. N # 0
  BY <1>2
<1>4. h = q[1] /\ h \in S /\ p \in Seq(Ids) /\ Len(p) = N - 1
      /\ \A n \in 1..(N-1) : p[n] = q[n + 1]
  BY <1>1, <1>2, <1>3
<1>5. Cardinality(S \ {h}) = N - 1
  BY <1>1, <1>4, FS_RemoveElement
<1> HIDE DEF p, h, N
<1>6. \A n \in 1..(N-1) : n + 1 \in 1..N /\ 1 \in 1..N /\ 1 < n + 1
  BY <1>1
<1>7. p \in [1..(N-1) -> S \ {h}]
  <2>1. DOMAIN p = 1..(N-1) /\ p = [n \in 1..(N-1) |-> p[n]]
    BY <1>1, <1>3, <1>4
  <2>2. ASSUME NEW n \in 1..(N-1) PROVE p[n] \in S \ {h}
    <3>1. p[n] \in S /\ q[1] < q[n + 1]
      BY <1>2, <1>4, <1>6
    <3> QED
      BY <1>1, <1>4, <3>1
  <2> QED
    BY <2>1, <2>2
<1>8. ASSUME NEW m \in 1..(N-1), NEW n \in 1..(N-1), m < n PROVE p[m] < p[n]
  <2>1. m + 1 < n + 1
    BY <1>1, <1>8
  <2> QED
    BY <1>2, <1>4, <1>6, <2>1
<1>9. p \in InOrder(S \ {h})
  BY <1>5, <1>7, <1>8 DEF InOrder
<1> QED
  BY <1>4, <1>9 DEF p, h

(* Nothing to enumerate.                                                   *)
LEMMA InOrderEmpty == InOrder({}) = {<<>>}
<1>1. Cardinality({}) = 0
  BY FS_EmptySet
<1>2. <<>> \in InOrder({})
  BY <1>1 DEF InOrder
<1> QED
  BY <1>2, InOrderUnique

-----------------------------------------------------------------------------
(* Every copy of a task, in the file or in memory, has one owner, and so   *)
(* does every 202 that carries its id.                                     *)
Copies(c) == ({disk[c]} \cup {records[i][c] : i \in Instances}) \ {NoRec}

OwnersOK ==
    /\ \A c \in Ids : \A r, s \in Copies(c) : r.owner = s.owner
    /\ \A a \in accepted : a[2] < nextId /\ \A r \in Copies(a[2]) : r.owner = a[1]

(* No operator on dictionaries of records changes the owner of a task.     *)
LEMMA OwnerKept ==
    ASSUME NEW recs \in Records, NEW c \in Ids
    PROVE  /\ Recovered(recs)[c] # NoRec =>
                 recs[c] # NoRec /\ Recovered(recs)[c].owner = recs[c].owner
           /\ Purged(recs)[c] # NoRec =>
                 recs[c] # NoRec /\ Purged(recs)[c].owner = recs[c].owner
<1>1. recs[c] \in TaskRecord \cup {NoRec}
  BY DEF Records
<1>2. recs[c] \in TaskRecord =>
         [recs[c] EXCEPT !.status = "failed", !.error = "service_restarted"].owner = recs[c].owner
  BY DEF TaskRecord
<1>3. c \in Live(recs) => recs[c] # NoRec
  BY DEF Live
<1> QED
  BY <1>1, <1>2, <1>3 DEF Recovered, Purged

(* Steps that store in an instance, and perhaps in the file, records whose *)
(* owners are those of copies there were.                                  *)
LEMMA OwnersWrite ==
    ASSUME MemoryInv, OwnersOK, NEW i \in Instances, NEW recs \in Records,
           \A c \in Ids : recs[c] # NoRec => \E s \in Copies(c) : recs[c].owner = s.owner,
           records' = [records EXCEPT ![i] = recs], disk' \in {disk, recs},
           accepted' = accepted, nextId' = nextId
    PROVE  OwnersOK'
<1>1. \A j \in Instances : records'[j] \in {records[j], recs}
  BY DEF MemoryInv, TypeOK
<1>2. \A c \in Ids : \A r \in Copies(c)' : (r = recs[c] /\ r # NoRec) \/ r \in Copies(c)
  BY <1>1 DEF Copies
<1>3. \A c \in Ids : \A r \in Copies(c)' : \E s \in Copies(c) : r.owner = s.owner
  BY <1>2
<1>4. \A a \in accepted : a[2] \in Ids
  BY DEF MemoryInv, TypeOK
<1> HIDE DEF Copies
<1> QED
  BY <1>3, <1>4 DEF OwnersOK

(* A 202 that was given before, or names the owner of a copy there is.     *)
KnownAnswer(a) ==
    \/ a \in accepted
    \/ a[2] \in Ids /\ a[2] < nextId /\ \E r \in Copies(a[2]) : r.owner = a[1]

(* Steps that keep the copies or lose some.                                *)
LEMMA OwnersShrink ==
    ASSUME MemoryInv, OwnersOK,
           disk' = disk, \A i \in Instances : records'[i] \in {records[i], NoRecords},
           nextId' = nextId,
           \A a \in accepted' : KnownAnswer(a)
    PROVE  OwnersOK'
<1>1. \A c \in Ids : NoRecords[c] = NoRec
  BY DEF NoRecords
<1>2. \A c \in Ids : \A r \in Copies(c)' : r \in Copies(c)
  BY <1>1 DEF Copies
<1>3. \A a \in accepted : a[2] \in Ids
  BY DEF MemoryInv, TypeOK
<1> QED
  BY <1>2, <1>3 DEF OwnersOK, KnownAnswer

(* Steps that answer nobody and keep the copies or lose some.              *)
LEMMA OwnersUntouched ==
    ASSUME MemoryInv, OwnersOK,
           disk' = disk, \A i \in Instances : records'[i] \in {records[i], NoRecords},
           nextId' = nextId, accepted' = accepted
    PROVE  OwnersOK'
<1>1. ASSUME NEW a \in accepted'
      PROVE  KnownAnswer(a)
  BY <1>1 DEF KnownAnswer
<1> QED
  BY <1>1, OwnersShrink

(* Nothing is stored or answered before the first request.                 *)
LEMMA OwnersInit == Init => OwnersOK
BY DEF Init, OwnersOK, Copies, NoRecords

(* _load, recover and purge_expired.                                       *)
LEMMA OwnersBoot ==
    ASSUME MemoryInv, OwnersOK, NEW i \in Instances,
           Load(i) \/ Recover(i) \/ PurgeExpired(i)
    PROVE  OwnersOK'
<1> USE DEF MemoryInv
<1>1. records[i] \in Records /\ disk \in Records /\ NoRecords \in Records
  BY DEF TypeOK, NoRecords, Records
<1>2. PICK recs \in Records :
         /\ records' = [records EXCEPT ![i] = recs]
         /\ disk' \in {disk, recs}
         /\ \A c \in Ids : recs[c] # NoRec =>
               \/ disk[c] # NoRec /\ recs[c].owner = disk[c].owner
               \/ records[i][c] # NoRec /\ recs[c].owner = records[i][c].owner
  <2>1. CASE Load(i)
    <3>1. PICK r \in {disk, NoRecords} : records' = [records EXCEPT ![i] = r]
      BY <2>1 DEF Load
    <3>2. disk' = disk /\ r \in Records
      BY <1>1, <2>1 DEF Load
    <3>3. \A c \in Ids : r[c] # NoRec => disk[c] # NoRec /\ r[c].owner = disk[c].owner
      BY DEF NoRecords
    <3> QED
      BY <3>1, <3>2, <3>3
  <2>2. CASE Recover(i)
    <3> DEFINE r == Recovered(records[i])
    <3>1. records' = [records EXCEPT ![i] = r] /\ disk' = r
      BY <2>2 DEF Recover, SaveOk
    <3>2. r \in Records
      BY <1>1, RecoveredType
    <3>3. \A c \in Ids : r[c] # NoRec =>
             records[i][c] # NoRec /\ r[c].owner = records[i][c].owner
      BY <1>1, OwnerKept
    <3> HIDE DEF r
    <3> QED
      BY <3>1, <3>2, <3>3
  <2>3. CASE PurgeExpired(i)
    <3> DEFINE r == Purged(records[i])
    <3>1. records' = [records EXCEPT ![i] = r] /\ disk' \in {disk, r}
      BY <2>3 DEF PurgeExpired, SaveOk
    <3>2. r \in Records
      BY <1>1, PurgedType
    <3>3. \A c \in Ids : r[c] # NoRec =>
             records[i][c] # NoRec /\ r[c].owner = records[i][c].owner
      BY <1>1, OwnerKept
    <3> HIDE DEF r
    <3> QED
      BY <3>1, <3>2, <3>3
  <2> QED
    BY <2>1, <2>2, <2>3
<1>3. \A c \in Ids : recs[c] # NoRec => \E s \in Copies(c) : recs[c].owner = s.owner
  BY <1>2 DEF Copies
<1>4. accepted' = accepted /\ nextId' = nextId
  BY DEF Load, Recover, PurgeExpired, histVars
<1> QED
  BY <1>2, <1>3, <1>4, OwnersWrite

(* A new task: its id was nowhere before.                                  *)
LEMMA OwnersSubmitNew ==
    ASSUME MemoryInv, OwnersOK, NEW o \in Owners, NEW cmd \in Commands, SubmitNew(o, cmd)
    PROVE  OwnersOK'
<1> USE DEF MemoryInv
<1>0. PICK id \in Ids : id = nextId
  BY DEF SubmitNew
<1> DEFINE recs == [records[Serving] EXCEPT ![id] = NewRecord(o, cmd)]
<1>1. /\ nextId = id /\ nextId' = id + 1 /\ accepted' = accepted
      /\ disk' \in {disk, recs} /\ records' = [records EXCEPT ![Serving] = recs]
      /\ id \in Int
  BY <1>0, ConstantsAssumption DEF Ids, SubmitNew, SaveOk, SaveRaises, histVars, TypeOK
<1>2. \A c \in Ids : c # id => recs[c] = records[Serving][c]
  BY ServingIsInstance DEF TypeOK, Records
<1>3. recs[id] = NewRecord(o, cmd)
  BY <1>1, ServingIsInstance DEF TypeOK, Records
<1>4. Copies(id) = {}
  BY <1>1 DEF FreshOK, Copies
<1> HIDE DEF recs
<1>5. \A j \in Instances : records'[j] \in {records[j], recs}
  BY <1>1 DEF TypeOK
<1>6. \A c \in Ids : c # id => \A r \in Copies(c)' : r \in Copies(c)
  BY <1>1, <1>2, <1>5, ServingIsInstance DEF Copies
<1>7. \A r \in Copies(id)' : r = NewRecord(o, cmd)
  BY <1>1, <1>3, <1>4, <1>5 DEF Copies
<1>8. \A a \in accepted : a[2] \in Ids /\ a[2] \in Int
  BY ConstantsAssumption DEF TypeOK, Ids
<1>9. \A c \in Ids : \A r, s \in Copies(c)' : r.owner = s.owner
  BY <1>6, <1>7 DEF OwnersOK
<1>10. \A a \in accepted' : a[2] < nextId' /\ \A r \in Copies(a[2])' : r.owner = a[1]
  <2> SUFFICES ASSUME NEW a \in accepted
               PROVE  a[2] < nextId' /\ \A r \in Copies(a[2])' : r.owner = a[1]
    BY <1>1
  <2>1. a[2] < nextId /\ \A r \in Copies(a[2]) : r.owner = a[1]
    BY DEF OwnersOK
  <2>2. a[2] # nextId /\ a[2] < nextId'
    BY <1>1, <1>8, <2>1
  <2> QED
    BY <1>1, <1>6, <1>8, <2>1, <2>2
<1> QED
  BY <1>9, <1>10 DEF OwnersOK

(* The two steps that answer 202.                                          *)
LEMMA OwnersAccepted ==
    ASSUME MemoryInv, OwnersOK,
           Enqueue \/ \E o \in Owners, cmd \in Commands : SubmitDuplicate(o, cmd)
    PROVE  OwnersOK'
<1> USE DEF MemoryInv
<1>1. disk' = disk /\ records' = records /\ nextId' = nextId
  BY DEF Enqueue, SubmitDuplicate, instVars
<1>2. \A c \in Ids : records[Serving][c] # NoRec =>
         c < nextId /\ records[Serving][c] \in Copies(c)
  <2>1. \A c \in Ids : c \in Int /\ nextId \in Int
    BY ConstantsAssumption DEF TypeOK, Ids
  <2> QED
    BY <2>1, ServingIsInstance DEF FreshOK, Copies
<1>3. PICK c \in Ids, o \in Owners :
         /\ records[Serving][c] # NoRec
         /\ accepted' \in {accepted, accepted \cup {<<o, c>>}}
         /\ accepted' # accepted => o = records[Serving][c].owner
  <2>1. CASE Enqueue
    <3>1. pending \in Ids /\ records[Serving][pending] # NoRec
      BY <2>1 DEF Enqueue, HandlerOK, IsQueued, TypeOK
    <3>2. records[Serving][pending].owner \in Owners
      BY <3>1, ServingIsInstance DEF TypeOK, Records, TaskRecord
    <3> QED
      BY <2>1, <3>1, <3>2 DEF Enqueue
  <2>2. ASSUME NEW o \in Owners, NEW cmd \in Commands, SubmitDuplicate(o, cmd)
        PROVE  \E c \in Ids, p \in Owners :
                  /\ records[Serving][c] # NoRec
                  /\ accepted' \in {accepted, accepted \cup {<<p, c>>}}
                  /\ accepted' # accepted => p = records[Serving][c].owner
    BY <2>2 DEF SubmitDuplicate, Duplicates, Live, Answers202
  <2> QED
    BY <2>1, <2>2
<1>4. \A a \in accepted' : KnownAnswer(a)
  <2> SUFFICES ASSUME NEW a \in accepted'
               PROVE  KnownAnswer(a)
    OBVIOUS
  <2>1. a \in accepted \/ (a = <<o, c>> /\ o = records[Serving][c].owner)
    BY <1>3
  <2>2. a \in accepted \/ (a[1] = o /\ a[2] = c)
    BY <2>1
  <2>3. c < nextId /\ records[Serving][c] \in Copies(c)
    BY <1>2, <1>3
  <2> QED
    BY <2>1, <2>2, <2>3 DEF KnownAnswer
<1> QED
  BY <1>1, <1>4, OwnersShrink

(* Steps of the thread.                                                    *)
LEMMA OwnersRun ==
    ASSUME MemoryInv, OwnersOK, NEW i \in Instances,
           RunStart(i) \/ RunFinish(i) \/ RunFail(i)
    PROVE  OwnersOK'
<1> USE DEF MemoryInv
<1>1. PICK c \in Ids, status \in Status, error \in ErrorCodes :
         /\ records[i][c] # NoRec
         /\ records' = [records EXCEPT ![i] = Updated(i, c, status, error)]
         /\ disk' \in {disk, Updated(i, c, status, error)}
  <2>1. CASE RunStart(i)
    <3>1. queue[i] \in Seq(Ids) /\ queue[i] # <<>>
      BY <2>1 DEF RunStart, TypeOK
    <3>2. Head(queue[i]) \in Ids /\ Head(queue[i]) = queue[i][1] /\ 1 \in 1..Len(queue[i])
      BY <3>1
    <3>3. records[i][Head(queue[i])] # NoRec
      BY <3>2 DEF ExecutorOK, IsQueued
    <3>4. "running" \in Status /\ records[i][Head(queue[i])].error \in ErrorCodes
      BY <3>2, <3>3 DEF Status, TypeOK, Records, TaskRecord
    <3> QED
      BY <2>1, <3>2, <3>3, <3>4 DEF RunStart, SaveOk, SaveRaises
  <2>2. CASE RunFinish(i)
    <3>1. cur[i] \in Ids /\ records[i][cur[i]] # NoRec
      BY <2>2, BusyThread DEF RunFinish
    <3>2. PICK end \in {<<"succeeded", "none">>, <<"failed", "command_failed">>} :
             /\ records' = [records EXCEPT ![i] = Updated(i, cur[i], end[1], end[2])]
             /\ disk' \in {disk, Updated(i, cur[i], end[1], end[2])}
      BY <2>2 DEF RunFinish, SaveOk, SaveRaises
    <3>3. end[1] \in Status /\ end[2] \in ErrorCodes
      BY DEF Status, Terminal, ErrorCodes
    <3> QED
      BY <3>1, <3>2, <3>3
  <2>3. CASE RunFail(i)
    <3>1. cur[i] \in Ids /\ records[i][cur[i]] # NoRec
      BY <2>3, BusyThread DEF RunFail
    <3>2. "failed" \in Status /\ "command_exception" \in ErrorCodes
      BY DEF Status, Terminal, ErrorCodes
    <3> QED
      BY <2>3, <3>1, <3>2 DEF RunFail, Save, SaveOk, SaveRaises
  <2> QED
    BY <2>1, <2>2, <2>3
<1> DEFINE recs == Updated(i, c, status, error)
<1>2. recs \in Records /\ recs[c].owner = records[i][c].owner
      /\ \A d \in Ids \ {c} : recs[d] = records[i][d]
  <2>1. records[i] \in Records
    BY DEF TypeOK
  <2>2. recs[c].owner = records[i][c].owner
    BY <2>1 DEF Updated, Records
  <2> QED
    BY <1>1, <2>2, UpdatedType
<1> HIDE DEF recs
<1>3. \A d \in Ids : recs[d] # NoRec => \E s \in Copies(d) : recs[d].owner = s.owner
  BY <1>1, <1>2 DEF Copies
<1>4. accepted' = accepted /\ nextId' = nextId
  BY DEF RunStart, RunFinish, RunFail, histVars
<1>5. records' = [records EXCEPT ![i] = recs] /\ disk' \in {disk, recs}
  BY <1>1 DEF recs
<1> QED
  BY <1>2, <1>3, <1>4, <1>5, OwnersWrite

(* Every step keeps the owners.                                            *)
LEMMA OwnersNext == MemoryInv /\ OwnersOK /\ [Next]_vars => OwnersOK'
<1> SUFFICES ASSUME MemoryInv, OwnersOK, [Next]_vars PROVE OwnersOK'
  OBVIOUS
<1>1. ASSUME NEW i \in Instances, Load(i) \/ Recover(i) \/ PurgeExpired(i) PROVE OwnersOK'
  BY <1>1, OwnersBoot
<1>2. ASSUME NEW i \in Instances, RunStart(i) \/ RunFinish(i) \/ RunFail(i) PROVE OwnersOK'
  BY <1>2, OwnersRun
<1>3. ASSUME NEW i \in Instances, EnqueueQueued(i) \/ RunRaises(i) PROVE OwnersOK'
  BY <1>3, OwnersUntouched DEF EnqueueQueued, RunRaises, histVars
<1>4. ASSUME NEW i \in Instances, BootFails(i) PROVE OwnersOK'
  BY <1>4, OwnersUntouched DEF BootFails, SaveRaises, ProcessDown, histVars
<1>5. CASE Crash
  BY <1>5, OwnersUntouched DEF Crash, ProcessDown, histVars
<1>6. ASSUME NEW c \in Ids, Age(c) PROVE OwnersOK'
  BY <1>6, OwnersUntouched DEF Age, instVars, histVars
<1>7. CASE UNCHANGED vars
  BY <1>7, OwnersUntouched DEF vars, instVars, histVars
<1> QED
  BY <1>1, <1>2, <1>3, <1>4, <1>5, <1>6, <1>7, OwnersAccepted, OwnersSubmitNew
     DEF Next, Construct, Run

(* A 202 with a task's id is only ever given to the device that owns the   *)
(* task in every store, for any number of instances and whatever fails.    *)
THEOREM AcceptedByOwner == Spec => []AcceptedIsOwned
<1>1. MemoryInv /\ OwnersOK => AcceptedIsOwned
  <2>1. \A c, i : i \in Instances /\ records[i][c] # NoRec => records[i][c] \in Copies(c)
    BY DEF Copies
  <2> QED
    BY <2>1 DEF OwnersOK, AcceptedIsOwned
<1> QED
  BY <1>1, OwnersInit, OwnersNext, MemoryInvariant, PTL DEF Spec

-----------------------------------------------------------------------------
(* While no save and no read has failed, memory and file agree: the only   *)
(* task that is running is the one the thread holds, and the queue with    *)
(* the task the handler is about to add to it lists the queued tasks in    *)
(* the order of their ids.                                                 *)
Steady == saveFaults = 0 /\ readFaults = 0

Waiting == IF pending = NoTask THEN queue[1] ELSE Append(queue[1], pending)

AcceptedKept == \A a \in accepted : a[2] \notin aged => disk[a[2]] # NoRec

SyncOK ==
    /\ boot[1] # "down" => records[1] = disk
    /\ boot[1] \in {"recovered", "purged"} => Running = {}
    /\ Ready(1) => Running = {cur[1]} \ {NoTask}
    /\ \A c, d \in Running : c = d
    /\ Ready(1) => Waiting \in InOrder(Queued(disk))
    /\ AcceptedKept

SyncInv == Steady => SyncOK

(* Faults are counted: before a step that ends in a steady state nothing   *)
(* had failed, and nothing fails in it.                                    *)
LEMMA SteadyBefore ==
    ASSUME MemoryInv, [Next]_vars, Steady'
    PROVE  Steady /\ ~SaveRaises /\ saveFaults' = saveFaults /\ readFaults' = readFaults
<1> DEFINE s == saveFaults
           r == readFaults
<1>1. s \in Nat /\ r \in Nat
  BY ConstantsAssumption DEF MemoryInv, TypeOK
<1>2. saveFaults' \in {s, s + 1} /\ readFaults' \in {r, r + 1}
  <2>1. ASSUME NEW i \in Instances, Load(i)
        PROVE  saveFaults' \in {s, s + 1} /\ readFaults' \in {r, r + 1}
    BY <2>1 DEF Load
  <2>2. ASSUME NEW i \in Instances, Construct(i)
        PROVE  saveFaults' \in {s, s + 1} /\ readFaults' \in {r, r + 1}
    BY <2>2 DEF Construct, Recover, PurgeExpired, BootFails, EnqueueQueued, SaveOk, SaveRaises,
                faultVars
  <2>3. ASSUME NEW i \in Instances, Run(i)
        PROVE  saveFaults' \in {s, s + 1} /\ readFaults' \in {r, r + 1}
    BY <2>3 DEF Run, RunStart, RunFinish, RunRaises, RunFail, Save, SaveOk, SaveRaises, faultVars
  <2>4. ASSUME NEW o \in Owners, NEW cmd \in Commands,
               SubmitDuplicate(o, cmd) \/ SubmitNew(o, cmd)
        PROVE  saveFaults' \in {s, s + 1} /\ readFaults' \in {r, r + 1}
    BY <2>4 DEF SubmitDuplicate, SubmitNew, SaveOk, SaveRaises, faultVars
  <2>5. CASE Enqueue \/ Crash \/ \E c \in Ids : Age(c)
    BY <2>5 DEF Enqueue, Crash, Age, faultVars
  <2>6. CASE UNCHANGED vars
    BY <2>6 DEF vars, faultVars
  <2> QED
    BY <2>1, <2>2, <2>3, <2>4, <2>5, <2>6 DEF Next
<1>3. s = 0 /\ r = 0 /\ saveFaults' = s /\ readFaults' = r
  BY <1>1, <1>2 DEF Steady
<1> QED
  BY <1>1, <1>3 DEF Steady, SaveRaises

(* What a step has to establish once its file and memory are known.        *)
LEMMA NowSynced ==
    ASSUME boot'[1] # "down" => records'[1] = disk',
           boot'[1] \in {"recovered", "purged"} => Running' = {},
           boot'[1] = "ready" => Running' = {cur'[1]} \ {NoTask},
           \A c, d \in Running' : c = d,
           boot'[1] = "ready" => Waiting' \in InOrder(Queued(disk)'),
           AcceptedKept'
    PROVE  SyncOK'
BY DEF SyncOK, Ready

(* Steps that keep file and records, and either change nothing else that   *)
(* matters here or end the process.                                        *)
LEMMA SyncSameFile ==
    ASSUME NInst = 1, SyncOK, disk' = disk,
           boot'[1] # "down" => UNCHANGED <<boot, records, cur>> /\ Waiting' = Waiting,
           AcceptedKept'
    PROVE  SyncOK'
<1>1. Running' = Running /\ Queued(disk)' = Queued(disk)
  BY DEF Running, OnDisk, Queued
<1> QED
  BY <1>1, NowSynced DEF SyncOK, Ready

(* No task is running or queued before the first request.                  *)
LEMMA SyncInit == NInst = 1 /\ Init => SyncOK
<1> SUFFICES ASSUME NInst = 1, Init PROVE SyncOK
  OBVIOUS
<1>1. boot[1] = "down" /\ Running = {} /\ accepted = {}
  BY OnlyInstance DEF Init, Running, OnDisk, NoRecords
<1> QED
  BY <1>1 DEF SyncOK, AcceptedKept, Ready

(* _load copies the file.                                                  *)
LEMMA SyncLoad ==
    ASSUME NInst = 1, MemoryInv, SyncOK, readFaults' = readFaults, Load(1)
    PROVE  SyncOK'
<1> USE OnlyInstance DEF MemoryInv
<1>1. records' = [records EXCEPT ![1] = disk]
  BY ConstantsAssumption DEF Load, TypeOK
<1>2. records'[1] = disk /\ boot'[1] = "loaded"
  BY <1>1 DEF Load, TypeOK
<1>3. Running' = Running /\ AcceptedKept' /\ disk' = disk
  BY DEF Load, Running, OnDisk, SyncOK, AcceptedKept, histVars
<1> QED
  BY <1>2, <1>3, NowSynced DEF SyncOK

(* After recover no task is running.                                       *)
LEMMA SyncRecover ==
    ASSUME NInst = 1, MemoryInv, SyncOK, Recover(1)
    PROVE  SyncOK'
<1> USE OnlyInstance DEF MemoryInv
<1> DEFINE recs == Recovered(records[1])
<1>1. records[1] = disk /\ disk \in Records
  BY DEF Recover, SyncOK, TypeOK
<1>2. disk' = recs /\ records'[1] = recs /\ boot'[1] = "recovered"
      /\ aged' = aged \ (Live(records[1]) \ Queued(records[1])) /\ accepted' = accepted
  BY DEF Recover, SaveOk, TypeOK, histVars
<1>3. /\ recs \in Records
      /\ \A c \in Ids : recs[c] = NoRec <=> disk[c] = NoRec
      /\ Live(recs) = Queued(disk)
      /\ \A c \in Queued(disk) : recs[c] = disk[c]
  BY <1>1, RecoveredType
<1>4. \A c \in Live(disk) : disk[c] # NoRec
  BY DEF Live
<1> HIDE DEF recs
<1>5. Running' = {}
  <2>1. \A c \in Ids : disk'[c] # NoRec /\ disk'[c].status = "running" => c \in Live(recs)
    BY <1>2 DEF Live, Terminal
  <2>2. \A c \in Live(recs) : disk'[c].status = "queued"
    BY <1>2, <1>3 DEF Queued
  <2> QED
    BY <2>1, <2>2 DEF Running, OnDisk
<1>6. AcceptedKept'
  <2> SUFFICES ASSUME NEW a \in accepted, a[2] \notin aged' PROVE disk'[a[2]] # NoRec
    BY <1>2 DEF AcceptedKept
  <2>1. a[2] \in Ids
    BY DEF TypeOK
  <2>2. disk[a[2]] # NoRec
    BY <1>1, <1>2, <1>4 DEF SyncOK, AcceptedKept
  <2> QED
    BY <1>2, <1>3, <2>1, <2>2
<1> QED
  BY <1>2, <1>5, <1>6, NowSynced

(* purge_expired takes only tasks nobody can see any more.                 *)
LEMMA SyncPurge ==
    ASSUME NInst = 1, MemoryInv, SyncOK, PurgeExpired(1)
    PROVE  SyncOK'
<1> USE OnlyInstance DEF MemoryInv
<1> DEFINE recs == Purged(records[1])
<1>1. records[1] = disk /\ disk \in Records /\ Running = {}
  BY DEF PurgeExpired, SyncOK, TypeOK
<1>2. disk' = recs /\ records'[1] = recs /\ boot'[1] = "purged"
      /\ aged' = aged /\ accepted' = accepted
  BY <1>1 DEF PurgeExpired, SaveOk, TypeOK, histVars
<1>3. /\ \A c \in Ids : disk[c] = NoRec => recs[c] = NoRec
      /\ Live(recs) = Live(disk)
      /\ \A c \in Live(disk) : recs[c] = disk[c]
  BY <1>1, PurgedType
<1>4. \A c \in Ids \ aged : recs[c] = disk[c]
  BY <1>1 DEF Purged
<1> HIDE DEF recs
<1>5. Running' = {}
  <2>1. \A c \in Ids : disk'[c] # NoRec /\ disk'[c].status = "running" => c \in Live(recs)
    BY <1>2 DEF Live, Terminal
  <2>2. \A c \in Ids : OnDisk(c, "running")' => OnDisk(c, "running")
    BY <1>2, <1>3, <2>1 DEF OnDisk
  <2> QED
    BY <1>1, <2>2 DEF Running
<1>6. AcceptedKept'
  <2> SUFFICES ASSUME NEW a \in accepted, a[2] \notin aged PROVE disk'[a[2]] # NoRec
    BY <1>2 DEF AcceptedKept
  <2>1. a[2] \in Ids /\ disk[a[2]] # NoRec
    BY DEF TypeOK, SyncOK, AcceptedKept
  <2> QED
    BY <1>2, <1>4, <2>1
<1> QED
  BY <1>2, <1>5, <1>6, NowSynced

(* The recovered tasks are queued in the order of their ids.               *)
LEMMA SyncEnqueueQueued ==
    ASSUME NInst = 1, MemoryInv, SyncOK, EnqueueQueued(1)
    PROVE  SyncOK'
<1> USE OnlyInstance DEF MemoryInv
<1>1. records[1] = disk /\ Running = {} /\ boot[1] = "purged"
  BY DEF EnqueueQueued, SyncOK
<1>2. worker[1] = "idle" /\ pending = NoTask /\ cur[1] = NoTask
  BY <1>1, QuietConstructor DEF Ready, TypeOK
<1>3. /\ boot'[1] = "ready" /\ UNCHANGED <<disk, records, cur, pending, aged, accepted>>
      /\ queue'[1] \in InOrder(Queued(disk))
  BY <1>1 DEF EnqueueQueued, TypeOK, histVars
<1>4. Running' = {} /\ Queued(disk)' = Queued(disk)
  BY <1>1, <1>3 DEF Running, OnDisk, Queued
<1>5. AcceptedKept'
  BY <1>3 DEF SyncOK, AcceptedKept
<1>6. Waiting' = queue'[1]
  BY <1>2, <1>3 DEF Waiting
<1> QED
  BY <1>1, <1>2, <1>3, <1>4, <1>5, <1>6, NowSynced

(* What a submitted task does to the file: its id is the youngest.         *)
LEMMA SubmitWrites ==
    ASSUME NInst = 1, MemoryInv, SyncOK, NEW o \in Owners, NEW cmd \in Commands,
           ~SaveRaises, SubmitNew(o, cmd), NEW id \in Ids, id = nextId
    PROVE  /\ boot[1] = "ready" /\ pending = NoTask /\ pending' = id
           /\ UNCHANGED <<boot, queue, cur, aged, accepted>>
           /\ disk' = [disk EXCEPT ![id] = NewRecord(o, cmd)] /\ records'[1] = disk'
           /\ disk[id] = NoRec /\ disk \in Records
           /\ \A c \in Ids : disk[c] # NoRec => c < id
           /\ Running' = Running /\ id \notin Running
           /\ Queued(disk') = Queued(disk) \cup {id} /\ id \notin Queued(disk)
<1> USE OnlyInstance DEF MemoryInv
<1> DEFINE recs == [disk EXCEPT ![id] = NewRecord(o, cmd)]
<1>1. boot[1] = "ready" /\ records[1] = disk /\ disk \in Records
  BY DEF SubmitNew, Ready, SyncOK, TypeOK
<1>2. /\ pending = NoTask /\ pending' = id /\ UNCHANGED <<boot, queue, cur, aged, accepted>>
      /\ disk' = recs /\ records' = [records EXCEPT ![1] = recs]
  BY <1>1 DEF SubmitNew, SaveOk, histVars
<1>3. records'[1] = recs
  BY <1>2 DEF TypeOK
<1>4. disk[id] = NoRec /\ \A c \in Ids : disk[c] # NoRec => c < id
  <2>1. \A c \in Ids : c \in Int /\ id \in Int
    BY ConstantsAssumption DEF Ids
  <2> QED
    BY <2>1 DEF FreshOK
<1>5. recs[id] = NewRecord(o, cmd) /\ \A c \in Ids : c # id => recs[c] = disk[c]
  BY <1>1 DEF Records
<1>6. NewRecord(o, cmd) # NoRec /\ NewRecord(o, cmd).status = "queued"
  BY ConstantsAssumption DEF NewRecord, TaskRecord, Status, ErrorCodes
<1> HIDE DEF recs
<1>7. Queued(disk') = Queued(disk) \cup {id} /\ id \notin Queued(disk)
  BY <1>2, <1>4, <1>5, <1>6 DEF Queued
<1>8. Running' = Running /\ id \notin Running
  BY <1>2, <1>4, <1>5, <1>6 DEF Running, OnDisk
<1> QED
  BY <1>1, <1>2, <1>3, <1>4, <1>7, <1>8 DEF recs

LEMMA SyncSubmitNew ==
    ASSUME NInst = 1, MemoryInv, SyncOK, NEW o \in Owners, NEW cmd \in Commands,
           ~SaveRaises, SubmitNew(o, cmd)
    PROVE  SyncOK'
<1>1. PICK id \in Ids : id = nextId
  BY DEF SubmitNew
<1>2. /\ boot[1] = "ready" /\ pending = NoTask /\ pending' = id
      /\ UNCHANGED <<boot, queue, cur, aged, accepted>>
      /\ disk' = [disk EXCEPT ![id] = NewRecord(o, cmd)] /\ records'[1] = disk'
      /\ disk[id] = NoRec /\ disk \in Records
      /\ \A c \in Ids : disk[c] # NoRec => c < id
      /\ Running' = Running /\ id \notin Running
      /\ Queued(disk') = Queued(disk) \cup {id} /\ id \notin Queued(disk)
  BY <1>1, SubmitWrites
<1>3. queue[1] \in InOrder(Queued(disk))
  BY <1>2 DEF SyncOK, Ready, Waiting
<1>4. Queued(disk) \in SUBSET Ids /\ \A d \in Queued(disk) : d < id
  BY <1>2 DEF Queued
<1>5. Append(queue[1], id) \in InOrder(Queued(disk'))
  BY <1>2, <1>3, <1>4, InOrderAppend
<1>6. Waiting' = Append(queue[1], id)
  BY <1>2, ConstantsAssumption DEF Waiting, NoTask, Ids
<1>7. AcceptedKept'
  <2>1. \A a \in accepted : a[2] \in Ids
    BY DEF MemoryInv, TypeOK
  <2>2. \A c \in Ids : disk[c] # NoRec => disk'[c] # NoRec
    BY <1>2 DEF Records
  <2> QED
    BY <1>2, <2>1, <2>2 DEF SyncOK, AcceptedKept
<1> QED
  BY <1>2, <1>5, <1>6, <1>7, NowSynced DEF SyncOK, Ready

(* The two steps that answer 202 name a task that is in the file.          *)
LEMMA SyncAccepted ==
    ASSUME NInst = 1, MemoryInv, SyncOK,
           Enqueue \/ \E o \in Owners, cmd \in Commands : SubmitDuplicate(o, cmd)
    PROVE  SyncOK'
<1> USE OnlyInstance DEF MemoryInv
<1>1. boot[1] = "ready" /\ records[1] = disk
  BY DEF Enqueue, HandlerOK, SubmitDuplicate, SyncOK, Ready
<1>2. disk' = disk /\ UNCHANGED <<boot, records, cur, aged>>
  BY DEF Enqueue, SubmitDuplicate, instVars
<1>3. PICK c \in Ids : disk[c] # NoRec /\ \A a \in accepted' : a \in accepted \/ a[2] = c
  <2>1. CASE Enqueue
    <3>1. pending \in Ids /\ disk[pending] # NoRec
      BY <1>1, <2>1 DEF Enqueue, HandlerOK, IsQueued, TypeOK
    <3>2. \A a \in accepted' : a \in accepted \/ a[2] = pending
      BY <2>1 DEF Enqueue
    <3> QED
      BY <3>1, <3>2
  <2>2. ASSUME NEW o \in Owners, NEW cmd \in Commands, SubmitDuplicate(o, cmd)
        PROVE  \E c \in Ids : disk[c] # NoRec /\ \A a \in accepted' : a \in accepted \/ a[2] = c
    BY <1>1, <2>2 DEF SubmitDuplicate, Duplicates, Live
  <2> QED
    BY <2>1, <2>2
<1>4. AcceptedKept'
  BY <1>2, <1>3 DEF SyncOK, AcceptedKept
<1>5. Waiting' = Waiting
  <2>1. CASE Enqueue
    BY <2>1 DEF Enqueue, Waiting, TypeOK
  <2>2. CASE UNCHANGED <<queue, pending>>
    BY <2>2 DEF Waiting
  <2> QED
    BY <2>1, <2>2 DEF SubmitDuplicate, instVars
<1> QED
  BY <1>2, <1>4, <1>5, SyncSameFile

(* What the thread does to the file when it takes the oldest task.         *)
LEMMA StartWrites ==
    ASSUME NInst = 1, MemoryInv, SyncOK, ~SaveRaises, RunStart(1),
           NEW c, c = Head(queue[1])
    PROVE  /\ boot[1] = "ready" /\ Running = {} /\ queue[1] # <<>>
           /\ UNCHANGED <<boot, pending, aged, accepted>>
           /\ c \in Ids /\ cur'[1] = c /\ queue'[1] = Tail(queue[1])
           /\ records'[1] = disk'
           /\ IsQueued(disk[c]) /\ disk' \in Records
           /\ disk'[c] # NoRec /\ disk'[c].status = "running"
           /\ \A d \in Ids \ {c} : disk'[d] = disk[d]
           /\ Running' = {c} /\ Queued(disk') = Queued(disk) \ {c}
<1> USE OnlyInstance DEF MemoryInv
<1> DEFINE recs == Updated(1, c, "running", records[1][c].error)
<1>1. boot[1] = "ready" /\ records[1] = disk /\ cur[1] = NoTask /\ queue[1] \in Seq(Ids)
      /\ queue[1] # <<>> /\ Running = {}
  BY DEF RunStart, Ready, SyncOK, TypeOK
<1>2. c \in Ids /\ c = queue[1][1] /\ 1 \in 1..Len(queue[1])
  BY <1>1
<1>3. IsQueued(disk[c])
  BY <1>1, <1>2 DEF ExecutorOK
<1>4. /\ UNCHANGED <<boot, pending, aged, accepted>>
      /\ cur'[1] = c /\ queue'[1] = Tail(queue[1])
      /\ disk' = recs /\ records'[1] = recs
  BY <1>1, <1>2 DEF RunStart, SaveOk, TypeOK
<1>5. /\ recs \in Records /\ recs[c] # NoRec /\ recs[c].status = "running"
      /\ \A d \in Ids \ {c} : recs[d] = disk[d]
  <2>1. records[1][c] # NoRec /\ "running" \in Status /\ records[1][c].error \in ErrorCodes
    BY <1>1, <1>2, <1>3 DEF IsQueued, Status, TypeOK, Records, TaskRecord
  <2> QED
    BY <1>1, <1>2, <2>1, UpdatedType, ConstantsAssumption
<1> HIDE DEF recs
<1>6. Running' = {c}
  BY <1>1, <1>2, <1>4, <1>5 DEF Running, OnDisk
<1>7. Queued(disk') = Queued(disk) \ {c}
  BY <1>2, <1>4, <1>5 DEF Queued
<1> QED
  BY <1>1, <1>2, <1>3, <1>4, <1>5, <1>6, <1>7

(* Where the queue begins, with or without a task in the handler.          *)
LEMMA WaitingHead ==
    ASSUME NInst = 1, MemoryInv, queue[1] # <<>>
    PROVE  /\ Waiting # <<>> /\ Head(Waiting) = Head(queue[1])
           /\ (queue'[1] = Tail(queue[1]) /\ pending' = pending) => Waiting' = Tail(Waiting)
<1>1. queue[1] \in Seq(Ids) /\ pending \in Ids \cup {NoTask}
  BY OnlyInstance DEF MemoryInv, TypeOK
<1>2. CASE pending = NoTask
  BY <1>2 DEF Waiting
<1>3. CASE pending # NoTask
  <2>1. pending \in Ids /\ Waiting = Append(queue[1], pending)
    BY <1>1, <1>3 DEF Waiting
  <2>2. Tail(Append(queue[1], pending)) = Append(Tail(queue[1]), pending)
    BY <1>1, <2>1
  <2>3. Append(queue[1], pending) # <<>> /\ Head(Append(queue[1], pending)) = Head(queue[1])
    BY <1>1, <2>1
  <2> QED
    BY <1>3, <2>1, <2>2, <2>3 DEF Waiting
<1> QED
  BY <1>2, <1>3

LEMMA SyncRunStart ==
    ASSUME NInst = 1, MemoryInv, SyncOK, ~SaveRaises, RunStart(1)
    PROVE  SyncOK'
<1> DEFINE c == Head(queue[1])
<1>1. /\ boot[1] = "ready" /\ queue[1] # <<>>
      /\ UNCHANGED <<boot, pending, aged, accepted>>
      /\ c \in Ids /\ cur'[1] = c /\ queue'[1] = Tail(queue[1])
      /\ records'[1] = disk' /\ disk'[c] # NoRec
      /\ \A d \in Ids \ {c} : disk'[d] = disk[d]
      /\ Running' = {c} /\ Queued(disk') = Queued(disk) \ {c}
  BY StartWrites
<1>2. Waiting # <<>> /\ Head(Waiting) = c /\ Waiting' = Tail(Waiting)
  BY <1>1, WaitingHead
<1>3. Waiting \in InOrder(Queued(disk)) /\ Queued(disk) \in SUBSET Ids
  BY <1>1 DEF SyncOK, Ready, Queued
<1> HIDE DEF c
<1>4. Waiting' \in InOrder(Queued(disk'))
  BY <1>1, <1>2, <1>3, InOrderTail
<1>5. AcceptedKept'
  <2>1. \A a \in accepted : a[2] \in Ids
    BY DEF MemoryInv, TypeOK
  <2> QED
    BY <1>1, <2>1 DEF SyncOK, AcceptedKept
<1>6. c # NoTask
  BY <1>1, ConstantsAssumption DEF Ids, NoTask
<1> QED
  BY <1>1, <1>4, <1>5, <1>6, NowSynced

(* What the thread does to the file when it ends its task.                 *)
LEMMA EndWrites ==
    ASSUME NInst = 1, DiskInv, SyncOK, ~SaveRaises, RunFinish(1) \/ RunFail(1)
    PROVE  /\ boot[1] = "ready" /\ cur[1] \in Ids /\ Running = {cur[1]}
           /\ UNCHANGED <<boot, queue, pending, accepted>> /\ aged' = aged \ {cur[1]}
           /\ cur'[1] = NoTask /\ records'[1] = disk'
           /\ disk'[cur[1]] # NoRec
           /\ disk'[cur[1]].status \in Terminal
           /\ disk'[cur[1]].status = "succeeded"
              \/ disk'[cur[1]].error \in {"command_failed", "command_exception"}
           /\ \A d \in Ids \ {cur[1]} : disk'[d] = disk[d]
           /\ Running' = {} /\ Queued(disk') = Queued(disk)
<1> USE OnlyInstance DEF DiskInv, MemoryInv
<1> DEFINE c == cur[1]
<1>1. worker[1] # "idle"
  BY DEF RunFinish, RunFail
<1>2. Ready(1) /\ c \in Ids /\ records[1][c] # NoRec /\ c # NoTask
  BY <1>1, BusyThread, ConstantsAssumption DEF Ids, NoTask
<1>3. boot[1] = "ready" /\ records[1] = disk /\ Running = {c}
  BY <1>2 DEF SyncOK, Ready
<1>4. PICK end \in {<<"succeeded", "none">>, <<"failed", "command_failed">>,
                    <<"failed", "command_exception">>} :
         disk' = Updated(1, c, end[1], end[2])
         /\ records' = [records EXCEPT ![1] = Updated(1, c, end[1], end[2])]
         /\ cur' = [cur EXCEPT ![1] = NoTask]
  BY DEF RunFinish, RunFail, Save, SaveOk
<1> DEFINE recs == Updated(1, c, end[1], end[2])
<1>5. end[1] \in Status /\ end[2] \in ErrorCodes
  BY DEF Status, Terminal, ErrorCodes
<1>6. /\ recs \in Records /\ recs[c] \in TaskRecord /\ recs[c].status = end[1]
      /\ \A d \in Ids \ {c} : recs[d] = disk[d]
  BY <1>2, <1>3, <1>5, UpdatedType
<1>7. recs[c].error = end[2]
  <2>1. records[1] \in Records
    BY DEF TypeOK
  <2> QED
    BY <1>2, <2>1 DEF Updated, Records
<1>8. /\ UNCHANGED <<boot, queue, pending, accepted>> /\ aged' = aged \ {c}
      /\ cur'[1] = NoTask /\ records'[1] = recs /\ disk' = recs
  BY <1>4 DEF RunFinish, RunFail, TypeOK, histVars
<1>9. disk'[c] # NoRec /\ disk'[c].status = end[1] /\ disk'[c].error = end[2]
      /\ \A d \in Ids \ {c} : disk'[d] = disk[d]
  BY <1>6, <1>7, <1>8, ConstantsAssumption
<1>10. disk[c] # NoRec /\ disk[c].status = "running"
  BY <1>3 DEF Running, OnDisk
<1> HIDE DEF recs, c
<1>11. end[1] \in Terminal /\ (end[1] = "succeeded" \/ end[2] \in {"command_failed", "command_exception"})
  BY DEF Terminal
<1>12. Running' = {}
  BY <1>3, <1>9, <1>11 DEF Running, OnDisk, Terminal
<1>13. Queued(disk') = Queued(disk)
  BY <1>2, <1>9, <1>10, <1>11 DEF Queued, Terminal
<1>14. records'[1] = disk'
  BY <1>8
<1> QED
  BY <1>2, <1>3, <1>8, <1>9, <1>11, <1>12, <1>13, <1>14 DEF c

LEMMA SyncRunEnds ==
    ASSUME NInst = 1, DiskInv, SyncOK, ~SaveRaises, RunFinish(1) \/ RunFail(1)
    PROVE  SyncOK'
<1>1. /\ boot[1] = "ready" /\ cur[1] \in Ids
      /\ UNCHANGED <<boot, queue, pending, accepted>> /\ aged' = aged \ {cur[1]}
      /\ cur'[1] = NoTask /\ records'[1] = disk'
      /\ disk'[cur[1]] # NoRec
      /\ \A d \in Ids \ {cur[1]} : disk'[d] = disk[d]
      /\ Running' = {} /\ Queued(disk') = Queued(disk)
  BY EndWrites
<1>2. Waiting' = Waiting
  BY <1>1 DEF Waiting
<1>3. AcceptedKept'
  <2>1. \A a \in accepted : a[2] \in Ids
    BY DEF DiskInv, MemoryInv, TypeOK
  <2> QED
    BY <1>1, <2>1 DEF SyncOK, AcceptedKept
<1> QED
  BY <1>1, <1>2, <1>3, NowSynced DEF SyncOK, Ready

(* Every step that fails nothing keeps memory and file in agreement.       *)
LEMMA SyncNext ==
    ASSUME NInst = 1, DiskInv, SyncInv, [Next]_vars
    PROVE  SyncInv'
<1> SUFFICES ASSUME Steady' PROVE SyncOK'
  BY DEF SyncInv
<1> USE OnlyInstance
<1>1. MemoryInv /\ SyncOK /\ ~SaveRaises /\ saveFaults' = saveFaults /\ readFaults' = readFaults
  BY SteadyBefore DEF SyncInv, DiskInv
<1>2. ASSUME Construct(1) PROVE SyncOK'
  BY <1>1, <1>2, SyncRecover, SyncPurge, SyncEnqueueQueued DEF Construct, BootFails
<1>3. CASE RunRaises(1)
  BY <1>1, <1>3, SyncSameFile DEF RunRaises, faultVars, histVars, Waiting, AcceptedKept, SyncOK
<1>4. ASSUME Run(1) PROVE SyncOK'
  BY <1>1, <1>3, <1>4, SyncRunStart, SyncRunEnds DEF Run
<1>5. ASSUME NEW c \in Ids, Age(c) PROVE SyncOK'
  BY <1>1, <1>5, SyncSameFile DEF Age, instVars, histVars, Waiting, AcceptedKept, SyncOK
<1>6. CASE Crash
  BY <1>1, <1>6, SyncSameFile DEF Crash, ProcessDown, histVars, AcceptedKept, SyncOK
<1>7. CASE UNCHANGED vars
  BY <1>1, <1>7, SyncSameFile DEF vars, instVars, histVars, Waiting, AcceptedKept, SyncOK
<1> QED
  BY <1>1, <1>2, <1>4, <1>5, <1>6, <1>7, SyncLoad, SyncSubmitNew, SyncAccepted DEF Next

(* With one instance, memory and file agree until a save or a read fails   *)
(* (SyncInv).                                                              *)
THEOREM SyncInvariant == NInst = 1 /\ Spec => []SyncInv
<1>1. CASE NInst = 1
  <2>1. Init => SyncInv
    BY <1>1, SyncInit DEF SyncInv
  <2>2. DiskInv /\ SyncInv /\ [Next]_vars => SyncInv'
    BY <1>1, SyncNext
  <2>3. Spec => []DiskInv
    BY <1>1, DiskInvariant
  <2> QED
    BY <2>1, <2>2, <2>3, PTL DEF Spec
<1> QED
  BY <1>1

(* With one instance and until a save or a read fails, a device that was   *)
(* answered 202 sees its task until it expires, across any number of       *)
(* crashes, and no other device sees it.                                   *)
THEOREM AcceptedStaysVisible == NInst = 1 /\ Spec => [](Steady => AcceptedVisible)
<1>1. MemoryInv /\ OwnersOK /\ SyncInv /\ NInst = 1 => (Steady => AcceptedVisible)
  <2> SUFFICES ASSUME MemoryInv, OwnersOK, SyncOK, NInst = 1, Ready(1), NEW a \in accepted
               PROVE  /\ a[2] \notin aged => GetForOwner(1, a[2], a[1]) # NoRec
                      /\ \A o \in Owners \ {a[1]} : GetForOwner(1, a[2], o) = NoRec
    BY OnlyInstance DEF SyncInv, AcceptedVisible
  <2>1. records[1] = disk
    BY DEF SyncOK, Ready
  <2>2. a[2] \notin aged => disk[a[2]] # NoRec
    BY DEF SyncOK, AcceptedKept
  <2>3. disk[a[2]] # NoRec => disk[a[2]].owner = a[1]
    BY DEF OwnersOK, Copies
  <2> QED
    BY <2>1, <2>2, <2>3 DEF GetForOwner
<1>2. Spec => []OwnersOK
  BY OwnersInit, OwnersNext, MemoryInvariant, PTL DEF Spec
<1>3. CASE NInst = 1
  <2>1. Spec => []SyncInv
    BY <1>3, SyncInvariant
  <2>2. MemoryInv /\ OwnersOK /\ SyncInv => (Steady => AcceptedVisible)
    BY <1>1, <1>3
  <2> QED
    BY <1>2, <2>1, <2>2, MemoryInvariant, PTL
<1> QED
  BY <1>3

-----------------------------------------------------------------------------
(* The refinement: the three variables of TaskQueue are functions of the   *)
(* file, so only steps that write it can be steps of the queue.            *)
QueueOf(S) == CHOOSE q \in InOrder(S) : TRUE

ActiveOf(R) == IF R = {} THEN NoTask ELSE CHOOSE c \in R : TRUE

Results(recs) == [c \in Ids |-> ResultOf(recs[c])]

(* A ready store shows the queue of its executor and handler.              *)
LEMMA QueueShown ==
    ASSUME NEW S \in SUBSET Ids, NEW q \in InOrder(S)
    PROVE  QueueOf(S) = q
<1>1. QueueOf(S) \in InOrder(S)
  BY DEF QueueOf
<1> QED
  BY <1>1, InOrderUnique

LEMMA ActiveShown ==
    /\ ActiveOf({}) = NoTask
    /\ \A c \in Ids : ActiveOf({c}) = c
BY DEF ActiveOf

(* A step of the queue, in terms of the file.                              *)
QueueStep ==
    \/ \E j \in Ids :
         /\ j # ActiveOf(Running) /\ ResultOf(disk[j]) = "none"
         /\ \A n \in 1..Len(QueueOf(Queued(disk))) : QueueOf(Queued(disk))[n] # j
         /\ QueueOf(Queued(disk')) = Append(QueueOf(Queued(disk)), j)
         /\ ActiveOf(Running') = ActiveOf(Running) /\ Results(disk') = Results(disk)
    \/ /\ ActiveOf(Running) = NoTask /\ QueueOf(Queued(disk)) # <<>>
       /\ ActiveOf(Running') = Head(QueueOf(Queued(disk)))
       /\ QueueOf(Queued(disk')) = Tail(QueueOf(Queued(disk)))
       /\ Results(disk') = Results(disk)
    \/ \E r \in {"succeeded", "service_restarted", "command_failed", "command_exception"} :
         /\ ActiveOf(Running) # NoTask
         /\ Results(disk') = [Results(disk) EXCEPT ![ActiveOf(Running)] = r]
         /\ ActiveOf(Running') = NoTask
         /\ QueueOf(Queued(disk')) = QueueOf(Queued(disk))
    \/ \E S \in SUBSET Ids :
         /\ Results(disk') = [c \in Ids |-> IF c \in S THEN "none" ELSE Results(disk)[c]]
         /\ QueueOf(Queued(disk')) = QueueOf(Queued(disk)) /\ ActiveOf(Running') = ActiveOf(Running)

QueueStutter ==
    /\ QueueOf(Queued(disk')) = QueueOf(Queued(disk))
    /\ ActiveOf(Running') = ActiveOf(Running)
    /\ Results(disk') = Results(disk)

(* Steps that leave the file alone.                                        *)
LEMMA SameFileStutters ==
    ASSUME disk' = disk
    PROVE  QueueStutter
BY DEF QueueStutter, Running, OnDisk

(* recover ends the task that was running when the process died, if there  *)
(* is one.                                                                 *)
LEMMA RecoverEnds ==
    ASSUME NInst = 1, MemoryInv, SyncOK, Recover(1)
    PROVE  QueueStep \/ QueueStutter
<1> USE OnlyInstance DEF MemoryInv
<1>1. records[1] = disk /\ disk \in Records /\ disk' = Recovered(disk)
  BY DEF Recover, SaveOk, SyncOK, TypeOK
<1>2. /\ Live(disk') = Queued(disk)
      /\ \A c \in Queued(disk) : disk'[c] = disk[c]
  BY <1>1, RecoveredType
<1>3. Live(disk) \ Queued(disk) = Running
  BY <1>1 DEF Live, Queued, Running, OnDisk, Records, TaskRecord, Status, Terminal
<1>4. Queued(disk') = Queued(disk)
  BY <1>2 DEF Queued, Live, Terminal
<1>5. Running' = {}
  BY <1>2, <1>4 DEF Running, OnDisk, Live, Queued, Terminal
<1>6. CASE Running = {}
  <2>1. disk' = disk
    BY <1>1, <1>3, <1>6 DEF Recovered, Records
  <2> QED
    BY <2>1, SameFileStutters
<1>7. CASE Running # {}
  <2>1. PICK c \in Ids : Running = {c}
    BY <1>7 DEF SyncOK, Running
  <2>2. \A d \in Ids \ {c} : disk'[d] = disk[d]
    BY <1>1, <1>3, <2>1 DEF Recovered
  <2>3. disk'[c] # NoRec /\ disk'[c].status = "failed" /\ disk'[c].error = "service_restarted"
    <3>1. disk[c] \in TaskRecord
      BY <1>1, <2>1 DEF Running, OnDisk, Records
    <3>2. disk'[c] = [disk[c] EXCEPT !.status = "failed", !.error = "service_restarted"]
      BY <1>1, <1>3, <2>1 DEF Recovered
    <3>3. disk'[c] \in TaskRecord
      BY <3>1, <3>2 DEF TaskRecord, Status, Terminal, ErrorCodes
    <3> QED
      BY <3>1, <3>2, <3>3, ConstantsAssumption DEF TaskRecord
  <2>4. ResultOf(disk'[c]) = "service_restarted"
    BY <2>3 DEF ResultOf, Terminal
  <2>5. Results(disk') = [Results(disk) EXCEPT ![c] = "service_restarted"]
    BY <2>2, <2>4 DEF Results
  <2>6. ActiveOf(Running) = c /\ c # NoTask /\ ActiveOf(Running') = NoTask
    BY <1>5, <2>1, ActiveShown, ConstantsAssumption DEF Ids, NoTask
  <2> QED
    BY <1>4, <2>5, <2>6 DEF QueueStep
<1> QED
  BY <1>6, <1>7

(* purge_expired forgets results.                                          *)
LEMMA PurgeForgets ==
    ASSUME NInst = 1, MemoryInv, SyncOK, PurgeExpired(1)
    PROVE  QueueStep \/ QueueStutter
<1> USE OnlyInstance DEF MemoryInv
<1>1. records[1] = disk /\ disk \in Records /\ disk' = Purged(disk)
  BY DEF PurgeExpired, SaveOk, SyncOK, TypeOK
<1>2. Live(disk') = Live(disk) /\ \A c \in Live(disk) : disk'[c] = disk[c]
  BY <1>1, PurgedType
<1>3. Queued(disk') = Queued(disk) /\ Running' = Running
  BY <1>2 DEF Queued, Running, OnDisk, Live, Terminal
<1> DEFINE S == Ended(disk) \cap aged
<1>4. \A c \in Ids : disk'[c] = IF c \in S THEN NoRec ELSE disk[c]
  BY <1>1 DEF Purged
<1>5. S \in SUBSET Ids
  BY DEF Ended
<1> HIDE DEF S
<1>6. ResultOf(NoRec) = "none"
  BY DEF ResultOf
<1>7. Results(disk') = [c \in Ids |-> IF c \in S THEN "none" ELSE Results(disk)[c]]
  BY <1>4, <1>6 DEF Results
<1> QED
  BY <1>3, <1>5, <1>7 DEF QueueStep

(* A new task joins the queue at its end.                                  *)
LEMMA SubmitJoins ==
    ASSUME NInst = 1, MemoryInv, MemoryInv', SyncOK, SyncOK', ~SaveRaises,
           NEW o \in Owners, NEW cmd \in Commands, SubmitNew(o, cmd)
    PROVE  QueueStep
<1>1. PICK id \in Ids : id = nextId
  BY DEF SubmitNew
<1>2. /\ boot[1] = "ready" /\ boot'[1] = "ready" /\ pending = NoTask /\ pending' = id
      /\ UNCHANGED queue
      /\ disk' = [disk EXCEPT ![id] = NewRecord(o, cmd)]
      /\ disk[id] = NoRec /\ disk \in Records
      /\ Running' = Running /\ id \notin Running /\ id \notin Queued(disk)
  BY <1>1, SubmitWrites
<1>3. queue[1] \in InOrder(Queued(disk)) /\ Waiting' \in InOrder(Queued(disk'))
  BY <1>2 DEF SyncOK, Ready, Waiting
<1>4. Waiting' = Append(queue[1], id)
  BY <1>2, ConstantsAssumption DEF Waiting, NoTask, Ids
<1>5. Queued(disk) \in SUBSET Ids /\ Queued(disk') \in SUBSET Ids
  BY DEF Queued
<1>6. QueueOf(Queued(disk)) = queue[1] /\ QueueOf(Queued(disk')) = Append(queue[1], id)
  BY <1>3, <1>4, <1>5, QueueShown
<1>7. \A n \in 1..Len(queue[1]) : queue[1][n] # id
  BY <1>2, <1>3, <1>5, InOrderType
<1>8. id # ActiveOf(Running)
  <2>1. Running = {} \/ \E c \in Ids : Running = {c}
    BY DEF SyncOK, Running
  <2>2. id # NoTask
    BY ConstantsAssumption DEF Ids, NoTask
  <2> QED
    BY <1>2, <2>1, <2>2, ActiveShown
<1>9. ResultOf(NoRec) = "none" /\ ResultOf(NewRecord(o, cmd)) = "none"
  BY DEF ResultOf, NewRecord, Terminal
<1>10. Results(disk') = Results(disk)
  BY <1>2, <1>9 DEF Results, Records
<1> QED
  BY <1>2, <1>6, <1>7, <1>8, <1>9, <1>10 DEF QueueStep

(* The thread takes the oldest task and only that one is active.           *)
LEMMA StartTakesOldest ==
    ASSUME NInst = 1, MemoryInv, SyncOK, SyncOK', ~SaveRaises, RunStart(1)
    PROVE  QueueStep
<1> DEFINE c == Head(queue[1])
<1>1. /\ boot[1] = "ready" /\ boot'[1] = "ready" /\ Running = {} /\ queue[1] # <<>>
      /\ pending' = pending /\ c \in Ids /\ queue'[1] = Tail(queue[1])
      /\ IsQueued(disk[c]) /\ disk'[c] # NoRec /\ disk'[c].status = "running"
      /\ \A d \in Ids \ {c} : disk'[d] = disk[d]
      /\ Running' = {c}
  BY StartWrites
<1>2. Waiting # <<>> /\ Head(Waiting) = c /\ Waiting' = Tail(Waiting)
  BY <1>1, WaitingHead
<1> HIDE DEF c
<1>3. Waiting \in InOrder(Queued(disk)) /\ Waiting' \in InOrder(Queued(disk'))
  BY <1>1 DEF SyncOK, Ready
<1>4. Queued(disk) \in SUBSET Ids /\ Queued(disk') \in SUBSET Ids
  BY DEF Queued
<1>5. QueueOf(Queued(disk)) = Waiting /\ QueueOf(Queued(disk')) = Tail(Waiting)
  BY <1>2, <1>3, <1>4, QueueShown
<1>6. ActiveOf(Running) = NoTask /\ ActiveOf(Running') = c
  BY <1>1, ActiveShown
<1>7. ResultOf(disk[c]) = "none" /\ ResultOf(disk'[c]) = "none"
  BY <1>1 DEF ResultOf, IsQueued, Terminal
<1>8. Results(disk') = Results(disk)
  BY <1>1, <1>7 DEF Results
<1> QED
  BY <1>2, <1>5, <1>6, <1>8 DEF QueueStep

(* The thread ends the active task.                                        *)
LEMMA EndGivesResult ==
    ASSUME NInst = 1, DiskInv, SyncOK, ~SaveRaises, RunFinish(1) \/ RunFail(1)
    PROVE  QueueStep
<1> DEFINE c == cur[1]
<1>1. /\ c \in Ids /\ Running = {c}
      /\ disk'[c] # NoRec /\ disk'[c].status \in Terminal
      /\ disk'[c].status = "succeeded"
         \/ disk'[c].error \in {"command_failed", "command_exception"}
      /\ \A d \in Ids \ {c} : disk'[d] = disk[d]
      /\ Running' = {} /\ Queued(disk') = Queued(disk)
  BY EndWrites
<1> HIDE DEF c
<1>2. ActiveOf(Running) = c /\ c # NoTask /\ ActiveOf(Running') = NoTask
  BY <1>1, ActiveShown, ConstantsAssumption DEF Ids, NoTask
<1>3. ResultOf(disk'[c]) \in {"succeeded", "command_failed", "command_exception"}
  BY <1>1 DEF ResultOf
<1>4. Results(disk') = [Results(disk) EXCEPT ![c] = ResultOf(disk'[c])]
  BY <1>1 DEF Results
<1> QED
  BY <1>1, <1>2, <1>3, <1>4 DEF QueueStep

(* Every step that fails nothing is a step of the queue or none.           *)
LEMMA EveryStepMaps ==
    ASSUME NInst = 1, DiskInv, DiskInv', SyncInv, SyncInv', Steady', [Next]_vars
    PROVE  QueueStep \/ QueueStutter
<1> USE OnlyInstance
<1>1. MemoryInv /\ SyncOK /\ SyncOK' /\ ~SaveRaises /\ MemoryInv'
  BY SteadyBefore DEF SyncInv, DiskInv
<1>2. ASSUME Construct(1) PROVE QueueStep \/ QueueStutter
  BY <1>1, <1>2, RecoverEnds, PurgeForgets, SameFileStutters DEF Construct, BootFails, EnqueueQueued
<1>3. ASSUME Run(1) PROVE QueueStep \/ QueueStutter
  BY <1>1, <1>3, StartTakesOldest, EndGivesResult, SameFileStutters DEF Run, RunRaises
<1>4. ASSUME NEW o \in Owners, NEW cmd \in Commands, SubmitDuplicate(o, cmd) \/ SubmitNew(o, cmd)
      PROVE  QueueStep \/ QueueStutter
  BY <1>1, <1>4, SubmitJoins, SameFileStutters DEF SubmitDuplicate
<1>5. CASE Load(1) \/ Enqueue \/ Crash \/ (\E c \in Ids : Age(c)) \/ UNCHANGED vars
  BY <1>5, SameFileStutters DEF Load, Enqueue, Crash, Age, vars
<1> QED
  BY <1>2, <1>3, <1>4, <1>5 DEF Next

(* QueueStep is the next-state relation of TaskQueue.                      *)
LEMMA QueueStepIsNext ==
    ASSUME QueueStep \/ QueueStutter
    PROVE  [Persistent!QNext]_Persistent!qvars
BY DEF QueueStep, QueueStutter, QueueOf, ActiveOf, Results, Persistent!QNext, Persistent!QSubmit,
       Persistent!QStart, Persistent!QEnd, Persistent!QForget, Persistent!qvars

LEMMA QueueInit == Init => Persistent!QInit
<1> SUFFICES ASSUME Init PROVE Persistent!QInit
  OBVIOUS
<1>1. disk = NoRecords /\ Queued(disk) = {} /\ Running = {}
  BY DEF Init, Queued, Running, OnDisk, NoRecords
<1>2. QueueOf(Queued(disk)) = <<>> /\ ActiveOf(Running) = NoTask
  BY <1>1, InOrderEmpty, ActiveShown DEF QueueOf
<1>3. Results(disk) = [c \in Ids |-> "none"]
  BY <1>1 DEF Results, ResultOf, NoRecords
<1> QED
  BY <1>2, <1>3 DEF QueueOf, ActiveOf, Results, Persistent!QInit

(* With one instance and no failing save or read, the tasks implement the  *)
(* persistent queue, however often the process crashes: what the file says *)
(* starts as an empty queue and changes only by the queue's own steps.     *)
THEOREM TasksAreAQueue ==
    NInst = 1 /\ MaxSaveFaults = 0 /\ MaxReadFaults = 0 /\ Spec => Persistent!QSafety
<1>1. CASE NInst = 1 /\ MaxSaveFaults = 0 /\ MaxReadFaults = 0
  <2>1. DiskInv => Steady
    BY <1>1 DEF DiskInv, MemoryInv, TypeOK, Steady
  <2>2. DiskInv /\ DiskInv' /\ SyncInv /\ SyncInv' /\ Steady' /\ [Next]_vars
        => [Persistent!QNext]_Persistent!qvars
    BY <1>1, EveryStepMaps, QueueStepIsNext
  <2>3. Spec => []DiskInv
    BY <1>1, DiskInvariant
  <2>4. Spec => []SyncInv
    BY <1>1, SyncInvariant
  <2> QED
    BY <2>1, <2>2, <2>3, <2>4, QueueInit, PTL DEF Spec, Persistent!QSafety
<1> QED
  BY <1>1

-----------------------------------------------------------------------------
(* What one step may do to a task that has ended: nothing, or forget it    *)
(* after its retention time.                                               *)
EndedKept ==
    \A c \in Ended(disk) : disk'[c] = disk[c] \/ (c \in aged /\ disk'[c] = NoRec)

LEMMA EveryStepKeepsEnded ==
    ASSUME NInst = 1, DiskInv, SyncInv, Steady', [Next]_vars
    PROVE  EndedKept
<1> USE OnlyInstance DEF DiskInv
<1>1. MemoryInv /\ SyncOK /\ ~SaveRaises
  BY SteadyBefore DEF SyncInv
<1>2. disk \in Records /\ \A c \in Ended(disk) : c \in Ids /\ disk[c].status \in {"succeeded", "failed"}
  BY <1>1 DEF MemoryInv, TypeOK, Ended, Terminal
<1>3. CASE disk' = disk
  BY <1>3 DEF EndedKept
<1>4. CASE Recover(1)
  <2>1. disk' = Recovered(disk)
    BY <1>1, <1>4 DEF Recover, SaveOk, SyncOK
  <2>2. \A c \in Ended(disk) : c \notin Live(disk)
    BY DEF Ended, Live
  <2> QED
    BY <1>2, <2>1, <2>2 DEF EndedKept, Recovered
<1>5. CASE PurgeExpired(1)
  <2>1. disk' = Purged(disk)
    BY <1>1, <1>5 DEF PurgeExpired, SaveOk, SyncOK
  <2> QED
    BY <1>2, <2>1 DEF EndedKept, Purged
<1>6. ASSUME NEW o \in Owners, NEW cmd \in Commands, SubmitNew(o, cmd) PROVE EndedKept
  <2>1. PICK id \in Ids : id = nextId
    BY <1>6 DEF SubmitNew
  <2>2. disk' = [disk EXCEPT ![id] = NewRecord(o, cmd)] /\ disk[id] = NoRec
    BY <1>1, <1>6, <2>1, SubmitWrites
  <2>3. id \notin Ended(disk)
    BY <2>2 DEF Ended
  <2> QED
    BY <1>2, <2>2, <2>3 DEF EndedKept, Records
<1>7. CASE RunStart(1)
  <2> DEFINE c == Head(queue[1])
  <2>1. IsQueued(disk[c]) /\ \A d \in Ids \ {c} : disk'[d] = disk[d]
    BY <1>1, <1>7, StartWrites
  <2> HIDE DEF c
  <2>2. c \notin Ended(disk)
    BY <1>2, <2>1 DEF IsQueued
  <2> QED
    BY <1>2, <2>1, <2>2 DEF EndedKept
<1>8. CASE RunFinish(1) \/ RunFail(1)
  <2> DEFINE c == cur[1]
  <2>1. Running = {c} /\ \A d \in Ids \ {c} : disk'[d] = disk[d]
    BY <1>1, <1>8, EndWrites
  <2> HIDE DEF c
  <2>2. c \notin Ended(disk)
    BY <1>2, <2>1 DEF Running, OnDisk
  <2> QED
    BY <1>2, <2>1, <2>2 DEF EndedKept
<1>9. ASSUME Load(1) \/ EnqueueQueued(1) \/ BootFails(1) \/ RunRaises(1) \/ Enqueue \/ Crash
             \/ (\E c \in Ids : Age(c)) \/ UNCHANGED vars
             \/ (\E o \in Owners, cmd \in Commands : SubmitDuplicate(o, cmd))
      PROVE  disk' = disk
  BY <1>9 DEF Load, EnqueueQueued, BootFails, SaveRaises, RunRaises, Enqueue, Crash, Age, vars,
              SubmitDuplicate
<1> QED
  BY <1>3, <1>4, <1>5, <1>6, <1>7, <1>8, <1>9 DEF Next, Construct, Run

(* With one instance and no failing save or read, the result of a task is  *)
(* never changed before it expires, by no step and no restart.             *)
THEOREM ResultsAreFinal ==
    NInst = 1 /\ MaxSaveFaults = 0 /\ MaxReadFaults = 0 /\ Spec => ResultIsFinal
<1>1. CASE NInst = 1 /\ MaxSaveFaults = 0 /\ MaxReadFaults = 0
  <2>1. DiskInv => Steady
    BY <1>1 DEF DiskInv, MemoryInv, TypeOK, Steady
  <2>2. DiskInv /\ SyncInv /\ Steady' /\ [Next]_vars
        => [\A c \in Ended(disk) :
               disk'[c] = disk[c] \/ (c \in aged /\ disk'[c] = NoRec)]_vars
    BY <1>1, EveryStepKeepsEnded DEF EndedKept
  <2>3. Spec => []DiskInv
    BY <1>1, DiskInvariant
  <2>4. Spec => []SyncInv
    BY <1>1, SyncInvariant
  <2> QED
    BY <2>1, <2>2, <2>3, <2>4, PTL DEF Spec, ResultIsFinal
<1> QED
  BY <1>1

(* A task starts only when no older task is queued.                        *)
StartedOldest ==
    \A c \in Ids : starts'[c] # starts[c] =>
        \A i \in Instances : \A d \in Queued(records[i]) : c <= d

LEMMA EveryStepStartsOldest ==
    ASSUME NInst = 1, DiskInv, SyncInv, Steady', [Next]_vars
    PROVE  StartedOldest
<1> USE OnlyInstance DEF DiskInv
<1>1. MemoryInv /\ SyncOK /\ ~SaveRaises
  BY SteadyBefore DEF SyncInv
<1>2. CASE starts' = starts
  BY <1>2 DEF StartedOldest
<1>3. CASE RunStart(1)
  <2> DEFINE h == Head(queue[1])
             S == Queued(disk)
  <2>1. boot[1] = "ready" /\ queue[1] # <<>> /\ h \in Ids
    BY <1>1, <1>3, StartWrites
  <2>2. records[1] = disk /\ Waiting \in InOrder(S) /\ S \in SUBSET Ids
    BY <1>1, <2>1 DEF SyncOK, Ready, Queued
  <2>3. Waiting # <<>> /\ Head(Waiting) = h
    BY <1>1, <2>1, WaitingHead
  <2>4. starts' = [starts EXCEPT ![h] = @ + 1]
    BY <1>1, <1>3 DEF RunStart
  <2> HIDE DEF h, S
  <2>5. ASSUME NEW d \in S PROVE h <= d
    <3>1. PICK n \in 1..Cardinality(S) : Waiting[n] = d
      BY <2>2, InOrderOnto
    <3>2. Waiting \in Seq(Ids) /\ Len(Waiting) = Cardinality(S)
      BY <2>2, InOrderType
    <3>3. Waiting[1] = h /\ 1 \in 1..Cardinality(S)
      BY <2>3, <3>2
    <3>4. \A m, k \in 1..Cardinality(S) : m < k => Waiting[m] < Waiting[k]
      BY <2>2 DEF InOrder
    <3>5. h \in Int /\ d \in Int
      BY <2>1, <2>2, ConstantsAssumption DEF Ids
    <3>6. n = 1 \/ 1 < n
      BY <3>2
    <3> QED
      BY <3>1, <3>3, <3>4, <3>5, <3>6
  <2>6. \A c \in Ids : starts'[c] # starts[c] => c = h
    BY <1>1, <2>4 DEF MemoryInv, TypeOK
  <2> QED
    BY <2>2, <2>5, <2>6 DEF StartedOldest, S
<1>4. ASSUME Load(1) \/ Construct(1) \/ RunFinish(1) \/ RunRaises(1) \/ RunFail(1)
      PROVE  starts' = starts
  BY <1>4 DEF Load, Construct, Recover, PurgeExpired, BootFails, EnqueueQueued, RunFinish,
              RunRaises, RunFail, histVars
<1>5. ASSUME NEW o \in Owners, NEW cmd \in Commands, SubmitDuplicate(o, cmd) \/ SubmitNew(o, cmd)
      PROVE  starts' = starts
  BY <1>5 DEF SubmitDuplicate, SubmitNew, histVars
<1>6. ASSUME Enqueue \/ Crash \/ (\E c \in Ids : Age(c)) \/ UNCHANGED vars PROVE starts' = starts
  BY <1>6 DEF Enqueue, Crash, Age, vars, histVars
<1> QED
  BY <1>2, <1>3, <1>4, <1>5, <1>6 DEF Next, Run

(* With one instance and no failing save or read, tasks begin in the order *)
(* in which they were submitted, across any number of restarts.            *)
THEOREM StartsAreInOrder ==
    NInst = 1 /\ MaxSaveFaults = 0 /\ MaxReadFaults = 0 /\ Spec => StartsInOrder
<1>1. CASE NInst = 1 /\ MaxSaveFaults = 0 /\ MaxReadFaults = 0
  <2>1. DiskInv => Steady
    BY <1>1 DEF DiskInv, MemoryInv, TypeOK, Steady
  <2>2. DiskInv /\ SyncInv /\ Steady' /\ [Next]_vars
        => [\A c \in Ids : starts'[c] # starts[c] =>
               \A i \in Instances : \A d \in Queued(records[i]) : c <= d]_vars
    BY <1>1, EveryStepStartsOldest DEF StartedOldest
  <2>3. Spec => []DiskInv
    BY <1>1, DiskInvariant
  <2>4. Spec => []SyncInv
    BY <1>1, SyncInvariant
  <2> QED
    BY <2>1, <2>2, <2>3, <2>4, PTL DEF Spec, StartsInOrder
<1> QED
  BY <1>1

-----------------------------------------------------------------------------
(* Which plugins a task may execute (PluginFlags), on an installation with *)
(* any plugins: for any number of changes, restarts, failing writes and    *)
(* plugins that do not load.                                               *)
CONSTANTS Names, Builtin, NoFile, Torn, MaxSets, MaxStarts, MaxFaults, MaxBroken
VARIABLES file, up, flags, table, shared, loaded, wanted, changed,
          sets, launches, faults, broken

Plugins == INSTANCE PluginFlags WITH starts <- launches

PluginConstants ==
    /\ IsFiniteSet(Names)
    /\ {MaxSets, MaxStarts, MaxFaults, MaxBroken} \subseteq Nat

\* Nothing was acknowledged by a process that is not there.
DownOK == ~up => changed = {}

\* As long as every plugin was loaded and every write succeeded, the file has a flag
\* for every plugin, which is the one that was acknowledged, and memory is the file.
SavedOK ==
    broken = 0 /\ faults = 0 =>
        /\ file \in [Names -> BOOLEAN] /\ wanted = file
        /\ up => /\ loaded = Names /\ flags = file /\ table = file
                 /\ shared \/ Names = {}

FlagsInv == Plugins!TypeOK /\ DownOK /\ Plugins!ChangeHolds

\* The cardinality of the instance is the one of the library's theorems.
LEMMA SameCardinality == \A S : Plugins!Cardinality(S) = Cardinality(S)
BY DEF Plugins!Cardinality, Cardinality

\* A table of flags, and what a change makes of it.
LEMMA TableShape ==
    ASSUME NEW t \in Plugins!Tables
    PROVE  t \in [DOMAIN t -> BOOLEAN] /\ DOMAIN t \subseteq Names
BY DEF Plugins!Tables

LEMMA TableChanged ==
    ASSUME NEW t \in Plugins!Tables, NEW n \in Names, NEW e \in BOOLEAN
    PROVE  /\ Plugins!With(t, n, e) \in Plugins!Tables
           /\ Plugins!Flag(Plugins!With(t, n, e), n) = e
           /\ \A m \in Names \ {n} :
                 Plugins!Flag(Plugins!With(t, n, e), m) = Plugins!Flag(t, m)
<1>1. Plugins!With(t, n, e) \in [DOMAIN t \cup {n} -> BOOLEAN]
    BY TableShape DEF Plugins!With
<1>2. DOMAIN t \cup {n} \in SUBSET Names
    BY TableShape
<1>3. Plugins!With(t, n, e) \in Plugins!Tables
    BY <1>1, <1>2 DEF Plugins!Tables
<1> QED BY <1>3 DEF Plugins!With, Plugins!Flag

LEMMA FlagType ==
    ASSUME NEW t \in Plugins!Tables, NEW n
    PROVE  Plugins!Flag(t, n) \in BOOLEAN
BY TableShape DEF Plugins!Flag

LEMMA ReadType == Plugins!Read \in Plugins!Tables /\ Plugins!NoFlags \in Plugins!Tables
<1>1. Plugins!NoFlags \in [{} -> BOOLEAN]
    BY DEF Plugins!NoFlags
<1>2. Plugins!NoFlags \in Plugins!Tables
    BY <1>1 DEF Plugins!Tables
<1> QED BY <1>2 DEF Plugins!Read

LEMMA FlagsInit == PluginConstants /\ Plugins!Init => FlagsInv
<1> SUFFICES ASSUME PluginConstants, Plugins!Init PROVE FlagsInv
    OBVIOUS
<1>1. file \in Plugins!Files
    BY DEF Plugins!Init, Plugins!Files, Plugins!Tables
<1>2. \A n \in Names : Plugins!Flag(Plugins!Read, n) \in BOOLEAN
    BY ReadType, FlagType
<1>3. wanted \in [Names -> BOOLEAN]
    BY <1>2 DEF Plugins!Init
<1>4. {sets, launches, faults, broken} = {0} /\ \A n \in Nat : 0 \in 0..n
    BY DEF Plugins!Init
<1>5. /\ sets \in 0..MaxSets /\ launches \in 0..MaxStarts
      /\ faults \in 0..MaxFaults /\ broken \in 0..MaxBroken
    BY <1>4 DEF PluginConstants
<1>6. Plugins!TypeOK
    BY <1>1, <1>3, <1>5, ReadType DEF Plugins!Init, Plugins!TypeOK
<1> QED BY <1>6 DEF Plugins!Init, FlagsInv, DownOK, Plugins!ChangeHolds

LEMMA FlagsStart == PluginConstants /\ FlagsInv /\ Plugins!Start => FlagsInv'
<1> SUFFICES ASSUME PluginConstants, FlagsInv, Plugins!Start PROVE FlagsInv'
    OBVIOUS
<1>1. PICK fails \in SUBSET (Names \ Builtin) :
          /\ broken + Cardinality(fails) <= MaxBroken
          /\ broken' = broken + Cardinality(fails)
          /\ loaded' = Names \ fails
    BY SameCardinality DEF Plugins!Start
<1>2. Cardinality(fails) \in Nat
    BY FS_Subset, FS_CardinalityType DEF PluginConstants
<1>3. broken' \in 0..MaxBroken
    BY <1>1, <1>2 DEF PluginConstants, FlagsInv, Plugins!TypeOK
<1>4. Plugins!TypeOK'
    BY <1>1, <1>3, ReadType DEF Plugins!Start, PluginConstants, FlagsInv, Plugins!TypeOK,
                                Plugins!Files
<1>5. changed' = {} /\ up'
    BY DEF Plugins!Start, FlagsInv, DownOK
<1> QED BY <1>4, <1>5 DEF FlagsInv, DownOK, Plugins!ChangeHolds

LEMMA FlagsSet ==
    ASSUME PluginConstants, FlagsInv, NEW n \in Names, NEW e \in BOOLEAN, Plugins!SetEnabled(n, e)
    PROVE  FlagsInv'
<1>1. flags \in Plugins!Tables /\ table \in Plugins!Tables
    BY DEF FlagsInv, Plugins!TypeOK
<1>2. /\ table' = Plugins!With(table, n, e)
      /\ flags' = IF shared THEN Plugins!With(flags, n, e) ELSE flags
      /\ UNCHANGED <<up, shared, loaded, launches, broken>>
    BY DEF Plugins!SetEnabled, Plugins!Set
<1>3. flags' \in Plugins!Tables /\ table' \in Plugins!Tables /\ (shared' => flags' = table')
    BY <1>1, <1>2, TableChanged DEF FlagsInv, Plugins!TypeOK
<1>4. file' \in Plugins!Files
    <2>1. CASE file' = Plugins!Saved(flags')
        <3>1. \A m \in loaded : Plugins!Flag(flags', m) \in BOOLEAN
            BY <1>3, FlagType
        <3>2. file' \in [loaded -> BOOLEAN]
            BY <2>1, <3>1 DEF Plugins!Saved
        <3> QED BY <3>2 DEF FlagsInv, Plugins!TypeOK, Plugins!Files, Plugins!Tables
    <2>2. CASE file' \in {file, Torn}
        BY <2>2 DEF FlagsInv, Plugins!TypeOK, Plugins!Files
    <2> QED BY <2>1, <2>2 DEF Plugins!SetEnabled
<1>5. Plugins!TypeOK'
    BY <1>2, <1>3, <1>4 DEF FlagsInv, Plugins!TypeOK, Plugins!SetEnabled, PluginConstants
<1>6. ASSUME NEW m \in changed' PROVE Plugins!Executable(m)' = wanted'[m]
    <2>1. /\ m \in Names /\ (m = n \/ m \in changed) /\ n \in loaded
          /\ wanted'[m] = IF m = n THEN e ELSE wanted[m]
        BY <1>6 DEF Plugins!SetEnabled, FlagsInv, Plugins!TypeOK
    <2>2. Plugins!Flag(table', m) = IF m = n THEN e ELSE Plugins!Flag(table, m)
        BY <1>1, <1>2, <2>1, TableChanged
    <2> QED BY <1>2, <2>1, <2>2 DEF Plugins!Executable, FlagsInv, Plugins!ChangeHolds
<1>7. DownOK'
    BY <1>2 DEF Plugins!SetEnabled, DownOK
<1> QED BY <1>5, <1>6, <1>7 DEF FlagsInv, Plugins!ChangeHolds

LEMMA FlagsDown == PluginConstants /\ FlagsInv /\ Plugins!Down => FlagsInv'
<1> SUFFICES ASSUME PluginConstants, FlagsInv, Plugins!Down PROVE FlagsInv'
    OBVIOUS
<1>1. /\ file' \in Plugins!Files /\ sets' \in 0..MaxSets /\ faults' \in 0..MaxFaults
      /\ UNCHANGED <<wanted, launches, broken>>
    BY DEF FlagsInv, Plugins!TypeOK, Plugins!Down, Plugins!Files, PluginConstants
<1>2. /\ flags' = Plugins!NoFlags /\ table' = Plugins!NoFlags /\ loaded' = {} /\ changed' = {}
      /\ up' = FALSE /\ shared' = FALSE
    BY DEF Plugins!Down
<1>3. Plugins!TypeOK'
    BY <1>1, <1>2, ReadType DEF FlagsInv, Plugins!TypeOK
<1> QED BY <1>2, <1>3 DEF FlagsInv, DownOK, Plugins!ChangeHolds

LEMMA FlagsNext == PluginConstants /\ FlagsInv /\ [Plugins!Next]_(Plugins!vars) => FlagsInv'
<1> SUFFICES ASSUME PluginConstants, FlagsInv, [Plugins!Next]_(Plugins!vars) PROVE FlagsInv'
    OBVIOUS
<1>1. CASE UNCHANGED Plugins!vars
    BY <1>1 DEF Plugins!vars, Plugins!bounds, FlagsInv, Plugins!TypeOK, DownOK,
                Plugins!ChangeHolds, Plugins!Executable
<1> QED BY <1>1, FlagsStart, FlagsSet, FlagsDown DEF Plugins!Next

\* A change of a flag that was acknowledged holds until the Server ends, whatever
\* became of the file and whichever plugins failed to load (set_enabled, execute).
THEOREM FlagChangesHold ==
    ASSUME PluginConstants PROVE Plugins!Spec => []Plugins!ChangeHolds
<1>1. FlagsInv => Plugins!ChangeHolds
    BY DEF FlagsInv
<1> QED BY <1>1, FlagsInit, FlagsNext, PTL DEF Plugins!Spec

LEMMA SavedInit == Plugins!Init /\ file # NoFile => SavedOK
<1> SUFFICES ASSUME Plugins!Init, file # NoFile PROVE SavedOK
    OBVIOUS
<1>1. file \in [Names -> BOOLEAN] /\ up = FALSE
    BY DEF Plugins!Init
<1>2. Plugins!Read = file
    BY <1>1 DEF Plugins!Read, Plugins!Tables
<1>3. wanted = file
    BY <1>1, <1>2 DEF Plugins!Init, Plugins!Flag
<1> QED BY <1>1, <1>3 DEF SavedOK

LEMMA SavedNext ==
    PluginConstants /\ FlagsInv /\ SavedOK /\ [Plugins!Next]_(Plugins!vars) => SavedOK'
<1> SUFFICES ASSUME PluginConstants, FlagsInv, SavedOK, [Plugins!Next]_(Plugins!vars),
                    broken' = 0, faults' = 0
             PROVE  /\ file' \in [Names -> BOOLEAN] /\ wanted' = file'
                    /\ up' => /\ loaded' = Names /\ flags' = file' /\ table' = file'
                              /\ shared' \/ Names = {}
    BY DEF SavedOK
<1>1. broken \in Nat /\ faults \in Nat
    BY DEF FlagsInv, Plugins!TypeOK
<1>2. CASE Plugins!Start
    <2>1. PICK fails \in SUBSET (Names \ Builtin) :
              broken' = broken + Cardinality(fails) /\ loaded' = Names \ fails
        BY <1>2, SameCardinality DEF Plugins!Start
    <2>2. IsFiniteSet(fails) /\ Cardinality(fails) \in Nat
        BY FS_Subset, FS_CardinalityType DEF PluginConstants
    <2>3. broken = 0 /\ Cardinality(fails) = 0
        BY <1>1, <2>1, <2>2
    <2>4. fails = {}
        BY <2>2, <2>3, FS_EmptySet
    <2>5. file \in [Names -> BOOLEAN] /\ wanted = file
        BY <1>2, <2>3 DEF SavedOK, Plugins!Start
    <2>6. Plugins!Read = file
        BY <2>5 DEF Plugins!Read, Plugins!Tables
    <2> QED BY <1>2, <2>1, <2>4, <2>5, <2>6 DEF Plugins!Start
<1>3. ASSUME NEW n \in Names, NEW e \in BOOLEAN, Plugins!SetEnabled(n, e)
      PROVE  /\ file' \in [Names -> BOOLEAN] /\ wanted' = file'
             /\ up' => /\ loaded' = Names /\ flags' = file' /\ table' = file'
                       /\ shared' \/ Names = {}
    <2>1. faults = 0 /\ broken = 0 /\ file' = Plugins!Saved(flags') /\ up
        BY <1>1, <1>3 DEF Plugins!SetEnabled
    <2>2. /\ file \in [Names -> BOOLEAN] /\ wanted = file
          /\ loaded = Names /\ flags = file /\ table = file /\ shared
        BY <2>1 DEF SavedOK
    <2>3. flags' = Plugins!With(file, n, e) /\ table' = Plugins!With(file, n, e)
        BY <1>3, <2>2 DEF Plugins!SetEnabled, Plugins!Set
    <2>4. Plugins!With(file, n, e) = [file EXCEPT ![n] = e]
        BY <2>2 DEF Plugins!With
    <2>5. file' = [file EXCEPT ![n] = e]
        BY <2>1, <2>2, <2>3, <2>4 DEF Plugins!Saved, Plugins!Flag
    <2> QED BY <1>3, <2>2, <2>3, <2>4, <2>5 DEF Plugins!SetEnabled
<1>4. CASE Plugins!Down
    <2>1. faults = 0 /\ broken = 0 /\ UNCHANGED <<file, wanted>> /\ ~up'
        BY <1>1, <1>4 DEF Plugins!Down
    <2> QED BY <2>1 DEF SavedOK
<1>5. CASE UNCHANGED Plugins!vars
    BY <1>5 DEF Plugins!vars, Plugins!bounds, SavedOK
<1> QED BY <1>2, <1>3, <1>4, <1>5 DEF Plugins!Next

\* On an installation with a plugins.json, what was acknowledged outlives any number
\* of restarts, until a write fails or a plugin does not load (_save_enabled_state).
THEOREM SavedFlagsKept ==
    ASSUME PluginConstants
    PROVE  Plugins!SavedSpec => [](broken = 0 /\ faults = 0 => Plugins!FlagsKept)
<1>1. FlagsInv /\ SavedOK => (broken = 0 /\ faults = 0 => Plugins!FlagsKept)
    <2> SUFFICES ASSUME FlagsInv, SavedOK, broken = 0, faults = 0, up, NEW n \in loaded
                 PROVE  Plugins!Executable(n) = wanted[n]
        BY DEF Plugins!FlagsKept
    <2>1. /\ file \in [Names -> BOOLEAN] /\ wanted = file /\ table = file /\ n \in Names
        BY DEF FlagsInv, Plugins!TypeOK, SavedOK
    <2> QED BY <2>1 DEF Plugins!Executable, Plugins!Flag
<1> QED BY <1>1, FlagsInit, FlagsNext, SavedInit, SavedNext, PTL DEF Plugins!SavedSpec
=============================================================================
