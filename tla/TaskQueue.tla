------------------------------ MODULE TaskQueue ------------------------------
(***************************************************************************)
(* What the asynchronous command tasks of agent/command_tasks.py promise   *)
(* to whoever submits one: a first-in first-out queue of jobs with one     *)
(* worker, which a crash of the Server does not change, except that the    *)
(* active job ends with the result "service_restarted".  There is neither  *)
(* a process nor a file here; CommandTasks implements this module.         *)
(***************************************************************************)
EXTENDS Integers, Sequences

CONSTANTS Jobs, NoJob, Results

VARIABLES
    waiting,   \* submitted jobs, oldest first
    active,    \* the job being executed, or NoJob
    result     \* the result of each job that has one and is still remembered

qvars == <<waiting, active, result>>

QInit ==
    /\ waiting = <<>>
    /\ active = NoJob
    /\ result = [j \in Jobs |-> "none"]

QSubmit(j) ==
    /\ j # active /\ result[j] = "none"
    /\ \A n \in 1..Len(waiting) : waiting[n] # j
    /\ waiting' = Append(waiting, j)
    /\ UNCHANGED <<active, result>>

QStart ==
    /\ active = NoJob /\ waiting # <<>>
    /\ active' = Head(waiting)
    /\ waiting' = Tail(waiting)
    /\ UNCHANGED result

QEnd(r) ==
    /\ active # NoJob
    /\ result' = [result EXCEPT ![active] = r]
    /\ active' = NoJob
    /\ UNCHANGED waiting

(* Results are forgotten some time after the job ended.                    *)
QForget(S) ==
    /\ result' = [j \in Jobs |-> IF j \in S THEN "none" ELSE result[j]]
    /\ UNCHANGED <<waiting, active>>

QNext ==
    \/ \E j \in Jobs : QSubmit(j)
    \/ QStart
    \/ \E r \in Results : QEnd(r)
    \/ \E S \in SUBSET Jobs : QForget(S)

QSafety == QInit /\ [][QNext]_qvars

(* Every waiting job is started and every started job ends.                *)
QSpec ==
    /\ QSafety
    /\ WF_qvars(QStart)
    /\ WF_qvars(\E r \in Results : QEnd(r))
=============================================================================
