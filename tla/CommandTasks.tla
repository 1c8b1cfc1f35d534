---------------------------- MODULE CommandTasks ----------------------------
(***************************************************************************)
(* The asynchronous command tasks of the Server:                           *)
(* EzWinCommand-server/agent/command_tasks.py (CommandTaskStore and        *)
(* AsyncCommandService), the POST /api/command branch of agent/api.py that *)
(* feeds it, and the instances of both that app.py creates.                *)
(*                                                                         *)
(* A task is submitted by a device, written to a JSON file, queued to a    *)
(* ThreadPoolExecutor with one worker, executed by the dispatcher and      *)
(* driven to a terminal status.  The process may crash between any two     *)
(* steps; a write or a read of the file may fail.                          *)
(*                                                                         *)
(* app.py calls create_app once when it is imported and once more in       *)
(* main, so a running Server holds NInst = 2 stores over one file, of      *)
(* which only the last answers requests; NInst = 1 is the application a    *)
(* test or an ASGI server builds by calling create_app once.               *)
(***************************************************************************)
EXTENDS Integers, Sequences, FiniteSets

CONSTANTS
    Owners,          \* device digests
    Commands,        \* <<action, sub_action>> pairs
    MaxTasks,        \* bound: task ids handed out in a behaviour
    NInst,           \* instances create_app makes over the same file
    MaxCrashes,      \* bound: process crashes
    MaxSaveFaults,   \* bound: failing _save calls
    MaxReadFaults,   \* bound: failing _load calls
    NoRec            \* the absence of a record

Ids == 1..MaxTasks
NoTask == 0
Instances == 1..NInst
Serving == NInst     \* runtime_app is the last one created

Terminal == {"succeeded", "failed"}
Status == {"queued", "running"} \cup Terminal

(* TaskRecord: the parameters, messages and timestamps are left out; the   *)
(* error code is kept.  Passing of expires_at is the variable aged.        *)
ErrorCodes == {"none", "service_restarted", "command_failed", "command_exception"}
TaskRecord == [owner : Owners, cmd : Commands, status : Status, error : ErrorCodes]
Records == [Ids -> TaskRecord \cup {NoRec}]
NoRecords == [c \in Ids |-> NoRec]

ASSUME ConstantsAssumption ==
    /\ MaxTasks \in Nat
    /\ NInst \in Nat \ {0}
    /\ MaxCrashes \in Nat
    /\ MaxSaveFaults \in Nat
    /\ MaxReadFaults \in Nat
    /\ NoRec \notin TaskRecord

VARIABLES
    disk,        \* command_tasks.json
    boot,        \* how far each instance's constructor got
    records,     \* CommandTaskStore._records of each instance
    queue,       \* work items waiting in each executor
    worker,      \* what each executor's only thread is doing
    cur,         \* the task the thread is doing it to
    pending,     \* task stored by the handler, not yet given to the executor
    nextId,      \* ids not used yet (uuid4: never reused)
    aged,        \* terminal tasks whose expires_at has passed
    crashes, saveFaults, readFaults,   \* how much of each bound is used
    accepted,    \* <<owner, id>> answered with 202
    starts       \* how often the dispatcher began to execute each task

instVars == <<boot, records, queue, worker, cur>>
faultVars == <<crashes, saveFaults, readFaults>>
histVars == <<accepted, starts>>
vars == <<disk, instVars, pending, nextId, aged, faultVars, histVars>>

Live(recs) == {c \in Ids : recs[c] # NoRec /\ recs[c].status \notin Terminal}
Ended(recs) == {c \in Ids : recs[c] # NoRec /\ recs[c].status \in Terminal}
(* Mutant of Queued: finished tasks are enqueued again after a restart.    *)
QueuedOrEnded(recs) == {c \in Ids : recs[c] # NoRec /\ recs[c].status # "running"}
Queued(recs) == {c \in Ids : recs[c] # NoRec /\ recs[c].status = "queued"}

Ready(i) == boot[i] = "ready"

Init ==
    /\ disk = NoRecords
    /\ boot = [i \in Instances |-> "down"]
    /\ records = [i \in Instances |-> NoRecords]
    /\ queue = [i \in Instances |-> <<>>]
    /\ worker = [i \in Instances |-> "idle"]
    /\ cur = [i \in Instances |-> NoTask]
    /\ pending = NoTask
    /\ nextId = 1
    /\ aged = {}
    /\ crashes = 0 /\ saveFaults = 0 /\ readFaults = 0
    /\ accepted = {}
    /\ starts = [c \in Ids |-> 0]

-----------------------------------------------------------------------------
(* _save writes the whole dictionary and replaces the file atomically, or  *)
(* raises and leaves the file as it was.                                   *)
SaveOk(recs) ==
    /\ disk' = recs
    /\ UNCHANGED saveFaults

SaveRaises ==
    /\ saveFaults < MaxSaveFaults
    /\ saveFaults' = saveFaults + 1
    /\ UNCHANGED disk

Save(recs) == SaveOk(recs) \/ SaveRaises

(* The process ends: memory, queues and threads go, the file stays.        *)
ProcessDown ==
    /\ boot' = [i \in Instances |-> "down"]
    /\ records' = [i \in Instances |-> NoRecords]
    /\ queue' = [i \in Instances |-> <<>>]
    /\ worker' = [i \in Instances |-> "idle"]
    /\ cur' = [i \in Instances |-> NoTask]
    /\ pending' = NoTask

-----------------------------------------------------------------------------
(* CommandTaskStore.__init__ and AsyncCommandService.__init__.             *)

(* _load: the file's records, or none when it cannot be read.              *)
Load(i) ==
    /\ boot[i] = "down"
    /\ \A j \in Instances : j < i => Ready(j)
    /\ boot' = [boot EXCEPT ![i] = "loaded"]
    /\ \/ /\ records' = [records EXCEPT ![i] = disk]
          /\ UNCHANGED readFaults
       \/ /\ readFaults < MaxReadFaults
          /\ readFaults' = readFaults + 1
          /\ records' = [records EXCEPT ![i] = NoRecords]
    /\ UNCHANGED <<disk, queue, worker, cur, pending, nextId, aged,
                   crashes, saveFaults, histVars>>

(* Mutant of Recovered: a task that was running is queued again.           *)
RecoveredRequeues(recs) ==
    [c \in Ids |-> IF c \in Live(recs) THEN [recs[c] EXCEPT !.status = "queued"] ELSE recs[c]]

(* What recover makes of the loaded records: a running task has failed,    *)
(* a queued one is left alone.                                             *)
Recovered(recs) ==
    [c \in Ids |->
        IF c \in Live(recs) \ Queued(recs)
        THEN [recs[c] EXCEPT !.status = "failed", !.error = "service_restarted"]
        ELSE recs[c]]

Recover(i) ==
    /\ boot[i] = "loaded"
    /\ LET recs == Recovered(records[i]) IN
         /\ SaveOk(recs)
         /\ records' = [records EXCEPT ![i] = recs]
         /\ aged' = aged \ (Live(records[i]) \ Queued(records[i]))
    /\ boot' = [boot EXCEPT ![i] = "recovered"]
    /\ UNCHANGED <<queue, worker, cur, pending, nextId, crashes, readFaults, histVars>>

(* What purge_expired keeps.                                               *)
Purged(recs) ==
    [c \in Ids |-> IF c \in Ended(recs) \cap aged THEN NoRec ELSE recs[c]]

(* purge_expired saves only when it removed something.                     *)
PurgeExpired(i) ==
    /\ boot[i] = "recovered"
    /\ LET recs == Purged(records[i]) IN
         /\ records' = [records EXCEPT ![i] = recs]
         /\ IF recs # records[i] THEN SaveOk(recs) ELSE UNCHANGED <<disk, saveFaults>>
    /\ boot' = [boot EXCEPT ![i] = "purged"]
    /\ UNCHANGED <<queue, worker, cur, pending, nextId, aged, crashes, readFaults, histVars>>

(* A save that raises in the constructor ends the process: create_app runs *)
(* at import and in main, and neither catches the exception.               *)
BootFails(i) ==
    /\ \/ boot[i] = "loaded"
       \/ boot[i] = "recovered" /\ Purged(records[i]) # records[i]
    /\ SaveRaises
    /\ ProcessDown
    /\ UNCHANGED <<nextId, aged, crashes, readFaults, histVars>>

(* _enqueue_queued, in the order of the dictionary: the order in which the *)
(* tasks were submitted.  Its mutant: nothing at all.                      *)
Nothing(S) == {<<>>}
InOrder(S) == {q \in [1..Cardinality(S) -> S] : \A m, n \in DOMAIN q : m < n => q[m] < q[n]}

EnqueueQueued(i) ==
    /\ boot[i] = "purged"
    /\ \E q \in InOrder(Queued(records[i])) : queue' = [queue EXCEPT ![i] = q]
    /\ boot' = [boot EXCEPT ![i] = "ready"]
    /\ UNCHANGED <<disk, records, worker, cur, pending, nextId, aged, faultVars, histVars>>

-----------------------------------------------------------------------------
(* POST /api/command: one coroutine without an await, so one request at a  *)
(* time; the worker threads run in between its two steps.                  *)

(* Mutant of Duplicates: a running task is not taken for a duplicate.      *)
QueuedDuplicates(i, cmd) == {c \in Queued(records[i]) : records[i][c].cmd = cmd}

(* Records that make CommandTaskStore.submit return an existing task.      *)
Duplicates(i, cmd) == {c \in Live(records[i]) : records[i][c].cmd = cmd}

NewRecord(owner, cmd) ==
    [owner |-> owner, cmd |-> cmd, status |-> "queued", error |-> "none"]

(* The handler answers 409 instead of 202 to a device that does not own    *)
(* the task.  Its mutant answers every device.                             *)
AnswersAll(r, owner) == TRUE
Answers202(r, owner) == r.owner = owner

(* An equal unfinished task exists: 202 with its id for its owner, 409 for *)
(* anyone else.                                                            *)
SubmitDuplicate(owner, cmd) ==
    /\ Ready(Serving) /\ pending = NoTask
    /\ \E c \in Duplicates(Serving, cmd) :
         accepted' = IF Answers202(records[Serving][c], owner)
                     THEN accepted \cup {<<owner, c>>}
                     ELSE accepted
    /\ UNCHANGED <<disk, instVars, pending, nextId, aged, faultVars, starts>>

(* CommandTaskStore.submit creates the record, puts it in _records and     *)
(* saves.  When the save raises the request ends with an error and the     *)
(* record stays in memory.                                                 *)
SubmitNew(owner, cmd) ==
    /\ Ready(Serving) /\ pending = NoTask
    /\ nextId \in Ids
    /\ Duplicates(Serving, cmd) = {}
    /\ LET recs == [records[Serving] EXCEPT ![nextId] = NewRecord(owner, cmd)] IN
         /\ records' = [records EXCEPT ![Serving] = recs]
         /\ \/ SaveOk(recs) /\ pending' = nextId
            \/ SaveRaises /\ UNCHANGED pending
    /\ nextId' = nextId + 1
    /\ UNCHANGED <<boot, queue, worker, cur, aged, crashes, readFaults, histVars>>

(* AsyncCommandService.submit hands the new task to the executor and the   *)
(* handler answers 202.                                                    *)
Enqueue ==
    /\ pending # NoTask
    /\ queue' = [queue EXCEPT ![Serving] = Append(@, pending)]
    /\ accepted' = accepted \cup {<<records[Serving][pending].owner, pending>>}
    /\ pending' = NoTask
    /\ UNCHANGED <<disk, boot, records, worker, cur, nextId, aged, faultVars, starts>>

(* GET /api/commands/{id}: what get_for_owner lets an owner see.           *)
GetForOwner(i, c, owner) ==
    LET r == records[i][c] IN
      IF r # NoRec /\ r.owner = owner /\ (r.status \notin Terminal \/ c \notin aged)
      THEN r ELSE NoRec

-----------------------------------------------------------------------------
(* AsyncCommandService._run on the only thread of an executor.             *)

(* Mutant of Updated: status and error code swapped.                       *)
UpdatedSwapped(i, c, status, error) ==
    [records[i] EXCEPT ![c] =
        [owner |-> @.owner, cmd |-> @.cmd, status |-> error, error |-> status]]

(* update changes the record in memory first and saves after that.         *)
Updated(i, c, status, error) ==
    [records[i] EXCEPT ![c] =
        [owner |-> @.owner, cmd |-> @.cmd, status |-> status, error |-> error]]

(* The thread takes the next work item and marks the task running; only    *)
(* when that is saved does the dispatcher execute it.                      *)
RunStart(i) ==
    /\ Ready(i) /\ worker[i] = "idle" /\ queue[i] # <<>>
    /\ LET c == Head(queue[i])
           recs == Updated(i, c, "running", records[i][c].error) IN
         /\ records' = [records EXCEPT ![i] = recs]
         /\ cur' = [cur EXCEPT ![i] = c]
         /\ \/ /\ SaveOk(recs)
               /\ worker' = [worker EXCEPT ![i] = "executing"]
               /\ starts' = [starts EXCEPT ![c] = @ + 1]
            \/ /\ SaveRaises
               /\ worker' = [worker EXCEPT ![i] = "failing"]
               /\ UNCHANGED starts
    /\ queue' = [queue EXCEPT ![i] = Tail(@)]
    /\ UNCHANGED <<boot, pending, nextId, aged, crashes, readFaults, accepted>>

(* The dispatcher returned: its result becomes the terminal status.  When  *)
(* that save raises, control goes to the exception handler.                *)
RunFinish(i) ==
    /\ worker[i] = "executing"
    /\ \E end \in {<<"succeeded", "none">>, <<"failed", "command_failed">>} :
         LET recs == Updated(i, cur[i], end[1], end[2]) IN
           /\ records' = [records EXCEPT ![i] = recs]
           /\ \/ /\ SaveOk(recs)
                 /\ worker' = [worker EXCEPT ![i] = "idle"]
                 /\ cur' = [cur EXCEPT ![i] = NoTask]
              \/ /\ SaveRaises
                 /\ worker' = [worker EXCEPT ![i] = "failing"]
                 /\ UNCHANGED cur
    /\ aged' = aged \ {cur[i]}
    /\ UNCHANGED <<boot, queue, pending, nextId, crashes, readFaults, histVars>>

(* The dispatcher raised.                                                  *)
RunRaises(i) ==
    /\ worker[i] = "executing"
    /\ worker' = [worker EXCEPT ![i] = "failing"]
    /\ UNCHANGED <<disk, boot, records, queue, cur, pending, nextId, aged,
                   faultVars, histVars>>

(* The exception handler of _run; a save that raises here is kept by the   *)
(* future, which nobody reads.                                             *)
RunFail(i) ==
    /\ worker[i] = "failing"
    /\ LET recs == Updated(i, cur[i], "failed", "command_exception") IN
         /\ records' = [records EXCEPT ![i] = recs]
         /\ Save(recs)
    /\ worker' = [worker EXCEPT ![i] = "idle"]
    /\ cur' = [cur EXCEPT ![i] = NoTask]
    /\ aged' = aged \ {cur[i]}
    /\ UNCHANGED <<boot, queue, pending, nextId, crashes, readFaults, histVars>>

-----------------------------------------------------------------------------
(* ttl_seconds pass after a task reached a terminal status.                *)
Age(c) ==
    /\ c \notin aged
    /\ c \in Ended(disk) \/ \E i \in Instances : c \in Ended(records[i])
    /\ aged' = aged \cup {c}
    /\ UNCHANGED <<disk, instVars, pending, nextId, faultVars, histVars>>

Crash ==
    /\ crashes < MaxCrashes
    /\ \E i \in Instances : boot[i] # "down"
    /\ crashes' = crashes + 1
    /\ ProcessDown
    /\ UNCHANGED <<disk, nextId, aged, saveFaults, readFaults, histVars>>

Construct(i) == Recover(i) \/ PurgeExpired(i) \/ BootFails(i) \/ EnqueueQueued(i)
Run(i) == RunStart(i) \/ RunFinish(i) \/ RunRaises(i) \/ RunFail(i)

Next ==
    \/ \E i \in Instances : Load(i) \/ Construct(i) \/ Run(i)
    \/ \E o \in Owners, cmd \in Commands : SubmitDuplicate(o, cmd) \/ SubmitNew(o, cmd)
    \/ Enqueue
    \/ \E c \in Ids : Age(c)
    \/ Crash

Spec == Init /\ [][Next]_vars

(* Fairness.  Construct, Run and Enqueue are steps of running threads.     *)
(* Load(i) is the start of the process (or, for i > 1, the second          *)
(* create_app): the autostart entry of startup.py brings the Server back.  *)
Fairness ==
    /\ \A i \in Instances : WF_vars(Load(i)) /\ WF_vars(Construct(i)) /\ WF_vars(Run(i))
    /\ WF_vars(Enqueue)

FairSpec == Spec /\ Fairness

-----------------------------------------------------------------------------
(* The types of the variables: records of _records and of the file, the    *)
(* executor's queue and its thread, the handler, and the history.          *)
TypeOK ==
    /\ disk \in Records
    /\ boot \in [Instances -> {"down", "loaded", "recovered", "purged", "ready"}]
    /\ records \in [Instances -> Records]
    /\ queue \in [Instances -> Seq(Ids)]
    /\ worker \in [Instances -> {"idle", "executing", "failing"}]
    /\ cur \in [Instances -> Ids \cup {NoTask}]
    /\ \A i \in Instances : worker[i] = "idle" <=> cur[i] = NoTask
    /\ pending \in Ids \cup {NoTask}
    /\ nextId \in 1..(MaxTasks + 1)
    /\ aged \subseteq Ids
    /\ crashes \in 0..MaxCrashes
    /\ saveFaults \in 0..MaxSaveFaults
    /\ readFaults \in 0..MaxReadFaults
    /\ accepted \subseteq Owners \X Ids
    /\ starts \in [Ids -> Nat]

(* Equal submissions converge: no store ever holds two unfinished tasks of *)
(* one command, not after failing saves and not after a restart that       *)
(* reloads the file (CommandTaskStore.submit, _load, recover).             *)
OneLivePerCommand ==
    \A i \in Instances : \A c, d \in Live(records[i]) :
        records[i][c].cmd = records[i][d].cmd => c = d

(* What the handler and the executor hold is in the file, in the status    *)
(* that lets a restart treat it rightly: queued tasks would be queued      *)
(* again, the one being executed would fail.  So a task is never executed  *)
(* before "running" is on disk (CommandTaskStore.update before             *)
(* dispatcher.execute in AsyncCommandService._run).                        *)
OnDisk(c, status) == disk[c] # NoRec /\ disk[c].status = status

WorkIsDurable ==
    \A i \in Instances :
        /\ \A n \in 1..Len(queue[i]) : OnDisk(queue[i][n], "queued")
        /\ worker[i] = "executing" => OnDisk(cur[i], "running")
        /\ pending # NoTask => OnDisk(pending, "queued")

(* A command is executed at most once, however often the Server crashes    *)
(* and whichever saves and loads fail: recover never lets a task run       *)
(* again that had begun to run.                                            *)
AtMostOnce == \A c \in Ids : starts[c] <= 1

(* The only worker: two command executions never overlap.                  *)
SingleWorker ==
    \A i, j \in Instances :
        worker[i] = "executing" /\ worker[j] = "executing" => i = j

(* A device that was answered 202 keeps seeing its task until it expires,  *)
(* across restarts, and no other device sees it (get_for_owner; the 409 of *)
(* the handler).                                                           *)
AcceptedVisible ==
    Ready(Serving) =>
        \A a \in accepted :
            /\ a[2] \notin aged => GetForOwner(Serving, a[2], a[1]) # NoRec
            /\ \A o \in Owners \ {a[1]} : GetForOwner(Serving, a[2], o) = NoRec

(* Owner isolation alone, which holds whatever fails: a 202 with a task's  *)
(* id is only ever given to the device that owns the task in every store.  *)
AcceptedIsOwned ==
    \A a \in accepted : \A i \in Instances :
        records[i][a[2]] # NoRec => records[i][a[2]].owner = a[1]

(* A result, once a device could read it, is final: later steps, restarts  *)
(* included, keep the status and the error code until the task expires.    *)
ResultIsFinal ==
    [][\A c \in Ended(disk) :
          disk'[c] = disk[c] \/ (c \in aged /\ disk'[c] = NoRec)]_vars

(* Tasks begin in the order in which they were accepted, across restarts:  *)
(* leaving a mode that was entered first is not executed before entering.  *)
StartsInOrder ==
    [][\A c \in Ids : starts'[c] # starts[c] =>
          \A i \in Instances : \A d \in Queued(records[i]) : c <= d]_vars

(* Every accepted task ends: after the 202 there is a time at which the    *)
(* running Server has a result for it or has forgotten it.                 *)
Settled(c) == Ready(Serving) /\ c \notin Live(records[Serving])

AcceptedEnds == \A c \in Ids : (\E o \in Owners : <<o, c>> \in accepted) ~> Settled(c)

(* The tasks implement the persistent queue of TaskQueue: what the file    *)
(* says is the state of the queue, crashes are stuttering steps.           *)
Running == {c \in Ids : OnDisk(c, "running")}

ResultOf(r) ==
    IF r = NoRec \/ r.status \notin Terminal THEN "none"
    ELSE IF r.status = "succeeded" THEN "succeeded" ELSE r.error

Persistent == INSTANCE TaskQueue WITH
    Jobs <- Ids,
    NoJob <- NoTask,
    Results <- {"succeeded", "service_restarted", "command_failed", "command_exception"},
    waiting <- CHOOSE q \in InOrder(Queued(disk)) : TRUE,
    active <- IF Running = {} THEN NoTask ELSE CHOOSE c \in Running : TRUE,
    result <- [c \in Ids |-> ResultOf(disk[c])]

ImplementsTaskQueue == Persistent!QSpec
=============================================================================
