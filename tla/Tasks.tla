-------------------------------- MODULE Tasks --------------------------------
(***************************************************************************)
(* A task from its creation to its removal.                                *)
(*                                                                         *)
(* A CFTask becomes a TaskWorkload, a TaskWorkload a Job, and the outcome  *)
(* of the Job travels back the same way.  The task controller and the job  *)
(* task runner run in one process and read through its cache, which lags   *)
(* behind the API server: a reconciler may see an object as it was before  *)
(* its own last write.  Status patches carry the whole list of conditions  *)
(* and no resource version.  Users cancel a task at any time, and what is  *)
(* finished is removed after a time to live.                               *)
(***************************************************************************)
EXTENDS Naturals

CONSTANTS
    Lagging,        \* the kinds of which the cache may lag behind
    MaxFaults       \* bound on failing calls and restarts

ASSUME LaggingAssumption == Lagging \subseteq {"task", "tw", "job"}
ASSUME FaultsAssumption == MaxFaults \in Nat

VARIABLES
    task,       \* the CFTask
    tw,         \* the TaskWorkload of the same name
    job,        \* the Job of the same name
    seen,       \* the three objects as the cache has them
    queue,      \* the work queues, "task" and "tw"
    timer,      \* is the task in its queue for the time it expires?
    overdue,    \* has the time to live of the completed task passed?
    taskC,      \* the worker of the task controller
    twC,        \* the worker of the task workload controller
    history,    \* was a pod started, or more than one, and how did they end?
    faults

vars == <<task, tw, job, seen, queue, timer, overdue, taskC, twC, history, faults>>

-----------------------------------------------------------------------------
(* State.                                                                  *)

\* conds are the conditions that are true; none is ever set to false, and
\* Initialized is the first.
Conditions(types) == {c \in SUBSET ({"Initialized"} \cup types) : c = {} \/ "Initialized" \in c}
CFTask ==
    [phase : {"absent", "live", "gone"}, canceled : BOOLEAN,
     conds : Conditions({"Started", "Succeeded", "Failed", "Canceled"})]
TaskWorkload ==
    [phase : {"absent", "live", "gone"},
     conds : Conditions({"Started", "Succeeded", "Failed"})]
Job ==
    [exists : BOOLEAN, state : {"new", "running", "succeeded", "failed"}, owned : BOOLEAN]

NoTask == [phase |-> "absent", canceled |-> FALSE, conds |-> {}]
NoWorkload == [phase |-> "absent", conds |-> {}]
NoJob == [exists |-> FALSE, state |-> "new", owned |-> FALSE]

\* What is left of an object that was deleted.
TaskGone == [NoTask EXCEPT !.phase = "gone"]
WorkloadGone == [NoWorkload EXCEPT !.phase = "gone"]

Idle == [pc |-> "idle"]

Fault == faults < MaxFaults /\ faults' = faults + 1
NoFault == faults' = faults

\* What the API shows.
ToRecordState(t) ==
    CASE "Succeeded" \in t.conds -> "SUCCEEDED"
      [] "Succeeded" \notin t.conds /\ "Failed" \in t.conds -> "FAILED"
      [] t.conds \cap {"Succeeded", "Failed"} = {} /\ "Canceled" \in t.conds -> "CANCELING"
      [] t.conds \cap {"Succeeded", "Failed", "Canceled"} = {} ->
            IF "Started" \in t.conds THEN "RUNNING" ELSE "PENDING"

-----------------------------------------------------------------------------
(* The cache.  An object that arrives there wakes its own controller and   *)
(* the controller that owns it.                                            *)

SeeTask ==
    /\ seen.task # task
    /\ seen' = [seen EXCEPT !.task = task]
    /\ queue' = queue \cup {"task"}
    /\ UNCHANGED <<task, tw, job, timer, overdue, taskC, twC, history, faults>>

SeeWorkload ==
    /\ seen.tw # tw
    /\ seen' = [seen EXCEPT !.tw = tw]
    /\ queue' = queue \cup {"tw", "task"}
    /\ UNCHANGED <<task, tw, job, timer, overdue, taskC, twC, history, faults>>

SeeJob ==
    /\ seen.job # job
    /\ seen' = [seen EXCEPT !.job = job]
    /\ queue' = queue \cup {"tw"}
    /\ UNCHANGED <<task, tw, job, timer, overdue, taskC, twC, history, faults>>

\* Every ten hours the cache hands out again what it has.  That matters only
\* when nothing else does.
Resync ==
    /\ seen.task.phase = "live" /\ overdue
    /\ taskC = Idle /\ queue = {} /\ ~timer
    /\ queue' = queue \cup {"task"}
    /\ UNCHANGED <<task, tw, job, seen, timer, overdue, taskC, twC, history, faults>>

-----------------------------------------------------------------------------
(* Users.                                                                  *)

CreateTask ==
    /\ task.phase = "absent"
    /\ task' = [NoTask EXCEPT !.phase = "live"]
    /\ UNCHANGED <<tw, job, seen, queue, timer, overdue, taskC, twC, history, faults>>

\* The webhook: what has ended cannot be cancelled.
ValidateUpdate(t) == t.canceled \/ t.conds \cap {"Succeeded", "Failed"} = {}

\* Only a task that is initialized is found.
CancelTask ==
    /\ task.phase = "live"
    /\ "Initialized" \in task.conds
    /\ ValidateUpdate(task)
    /\ task' = [task EXCEPT !.canceled = TRUE]
    /\ UNCHANGED <<tw, job, seen, queue, timer, overdue, taskC, twC, history, faults>>

-----------------------------------------------------------------------------
(* The task controller.                                                    *)

\* Mutant: only success completes a task.
IsCompletedSucceeded(conds) == "Succeeded" \in conds

\* getCompletionTime finds a time
IsCompleted(conds) == conds \cap {"Succeeded", "Failed"} # {}

AlreadyExpired(t) == IsCompleted(t.conds) /\ overdue

\* Taking the task out of the queue takes its timer out too.
ReadTask ==
    /\ taskC = Idle
    /\ "task" \in queue
    /\ queue' = queue \ {"task"}
    /\ timer' = FALSE
    /\ taskC' = IF seen.task.phase = "live" THEN [pc |-> "read", old |-> seen.task] ELSE Idle
    /\ UNCHANGED <<task, tw, job, seen, overdue, twC, history, faults>>

\* The rest is the patch: conds are the conditions it will write.  A task that
\* is complete comes back when it expires, if that is still to come.
ReturnTask(conds, failed) ==
    taskC' = [pc |-> "patch", old |-> taskC.old, conds |-> conds, failed |-> failed,
              requeueAfter |-> ~failed /\ IsCompleted(conds) /\ ~overdue]

\* The deleted task is patched with nothing, or in vain.
DeleteExpiredTask ==
    /\ taskC.pc = "read"
    /\ AlreadyExpired(taskC.old)
    /\ \/ task' = TaskGone /\ overdue' = FALSE /\ taskC' = Idle /\ NoFault
       \/ ReturnTask(taskC.old.conds, TRUE) /\ Fault /\ UNCHANGED <<task, overdue>>
    /\ UNCHANGED <<tw, job, seen, queue, timer, twC, history>>

\* Mutant: the workload is left to the garbage collector.
DeleteTaskWorkloadLater == tw

\* Whether the workload is there or not.
DeleteTaskWorkload == IF tw.phase = "live" THEN WorkloadGone ELSE tw

HandleCancelation ==
    /\ taskC.pc = "read"
    /\ ~AlreadyExpired(taskC.old) /\ taskC.old.canceled
    /\ LET conds == taskC.old.conds IN
       \/ /\ NoFault
          /\ tw' = DeleteTaskWorkload
          /\ ReturnTask(conds \cup {"Canceled"}
                              \cup (IF "Succeeded" \in conds THEN {} ELSE {"Failed"}), FALSE)
       \/ /\ Fault
          /\ tw' = tw
          /\ ReturnTask(conds, TRUE)
    /\ UNCHANGED <<task, job, seen, queue, timer, overdue, twC, history>>

Uncanceled == taskC.pc = "read" /\ ~AlreadyExpired(taskC.old) /\ ~taskC.old.canceled

\* Mutant: what the workload says is thought to be enough.
InitializeStatusForgotten(conds) == conds

InitializeStatus(conds) == conds \cup {"Initialized"}

\* The app, its droplet, its web process or its environment cannot be had; the
\* status is initialized in between.
TaskAssetsFail ==
    /\ Uncanceled
    /\ Fault
    /\ \E conds \in {taskC.old.conds, InitializeStatus(taskC.old.conds)} : ReturnTask(conds, TRUE)
    /\ UNCHANGED <<task, tw, job, seen, queue, timer, overdue, twC, history>>

SetTaskStatus(conds) == conds \cap {"Started", "Succeeded", "Failed"}

\* The workload is created unless the cache has it; to create one that exists
\* is an error.
CreateOrPatchTaskWorkload ==
    /\ Uncanceled
    /\ LET conds == InitializeStatus(taskC.old.conds) IN
       \/ /\ seen.tw.phase = "live"
          /\ tw' = tw
          /\ ReturnTask(conds \cup SetTaskStatus(seen.tw.conds), FALSE)
       \/ /\ seen.tw.phase # "live" /\ tw.phase = "live"
          /\ tw' = tw
          /\ ReturnTask(conds, TRUE)
       \/ /\ seen.tw.phase # "live" /\ tw.phase # "live"
          /\ tw' = [phase |-> "live", conds |-> {}]
          /\ ReturnTask(conds, FALSE)
    /\ UNCHANGED <<task, job, seen, queue, timer, overdue, twC, history, faults>>

\* A merge patch without a resource version: conditions that changed are
\* written as a list, over whatever the API server has by now.
MergePatch(current, old, new) == IF new = old THEN current ELSE new

\* The completion time is the one of the condition that is written.
PatchTask ==
    /\ taskC.pc = "patch"
    /\ taskC' = Idle
    /\ \/ /\ task.phase = "live" /\ NoFault
          /\ LET conds == MergePatch(task.conds, taskC.old.conds, taskC.conds) IN
             /\ task' = [task EXCEPT !.conds = conds]
             /\ overdue' = (overdue /\ IsCompleted(conds)
                              /\ ("Succeeded" \in conds <=> "Succeeded" \in task.conds))
          /\ queue' = IF taskC.failed THEN queue \cup {"task"} ELSE queue
          /\ timer' = (timer \/ taskC.requeueAfter)
       \/ /\ \/ task.phase # "live" /\ NoFault
             \/ task.phase = "live" /\ Fault
          /\ queue' = queue \cup {"task"}
          /\ UNCHANGED <<task, overdue, timer>>
    /\ UNCHANGED <<tw, job, seen, twC, history>>

TimerFires ==
    /\ timer /\ overdue
    /\ timer' = FALSE
    /\ queue' = queue \cup {"task"}
    /\ UNCHANGED <<task, tw, job, seen, overdue, taskC, twC, history, faults>>

-----------------------------------------------------------------------------
(* The job task runner.                                                    *)

ReadWorkload ==
    /\ twC = Idle
    /\ "tw" \in queue
    /\ queue' = queue \ {"tw"}
    /\ twC' = IF seen.tw.phase = "live" THEN [pc |-> "read", old |-> seen.tw] ELSE Idle
    /\ UNCHANGED <<task, tw, job, seen, timer, overdue, taskC, history, faults>>

ReturnWorkload(conds, failed) ==
    twC' = [pc |-> "patch", old |-> twC.old, conds |-> twC.old.conds \cup conds,
            failed |-> failed]

\* Mutant: a job that is complete has succeeded.
GetStatusConditionsOfAnyEnd(state) ==
    CASE state = "new" -> {"Initialized"}
      [] state = "running" -> {"Initialized", "Started"}
      [] state = "succeeded" -> {"Initialized", "Started", "Succeeded"}
      [] state = "failed" -> {"Initialized", "Started", "Succeeded", "Failed"}

GetStatusConditions(state) ==
    CASE state = "new" -> {"Initialized"}
      [] state = "running" -> {"Initialized", "Started"}
      [] state = "succeeded" -> {"Initialized", "Started", "Succeeded"}
      [] state = "failed" -> {"Initialized", "Started", "Failed"}

\* The pod of a failed job is asked why.
UpdateTaskWorkloadStatus ==
    /\ twC.pc = "read" /\ seen.job.exists
    /\ \/ ReturnWorkload(GetStatusConditions(seen.job.state), FALSE) /\ NoFault
       \/ seen.job.state = "failed" /\ ReturnWorkload({}, TRUE) /\ Fault
    /\ UNCHANGED <<task, tw, job, seen, queue, timer, overdue, taskC, history>>

\* Mutant: a job that is not there was never created.
MayCreateJobAlways(w) == TRUE

\* A job that is gone is not created again.
MayCreateJob(w) == "Initialized" \notin w.conds

\* Mutant: the job is not owned by the workload.
WorkloadToJobUnowned == [exists |-> TRUE, state |-> "new", owned |-> FALSE]

WorkloadToJob == [exists |-> TRUE, state |-> "new", owned |-> TRUE]

CreateJob ==
    /\ twC.pc = "read" /\ ~seen.job.exists
    /\ \/ /\ ~MayCreateJob(twC.old)
          /\ ReturnWorkload({}, FALSE) /\ job' = job
          /\ NoFault
       \/ /\ MayCreateJob(twC.old) /\ ~job.exists
          /\ job' = WorkloadToJob
          /\ ReturnWorkload(GetStatusConditions("new"), FALSE)
          /\ NoFault
       \/ /\ MayCreateJob(twC.old)
          /\ job.exists => NoFault
          /\ ~job.exists => Fault
          /\ ReturnWorkload({}, TRUE) /\ job' = job
    /\ UNCHANGED <<task, tw, seen, queue, timer, overdue, taskC, history>>

PatchWorkload ==
    /\ twC.pc = "patch"
    /\ twC' = Idle
    /\ \/ /\ tw.phase = "live" /\ NoFault
          /\ tw' = [tw EXCEPT !.conds = MergePatch(tw.conds, twC.old.conds, twC.conds)]
          /\ queue' = IF twC.failed THEN queue \cup {"tw"} ELSE queue
       \/ /\ \/ tw.phase # "live" /\ NoFault
             \/ tw.phase = "live" /\ Fault
          /\ tw' = tw
          /\ queue' = queue \cup {"tw"}
    /\ UNCHANGED <<task, job, seen, timer, overdue, taskC, history>>

-----------------------------------------------------------------------------
(* Kubernetes, time and failures.                                          *)

JobStarts ==
    /\ job.exists /\ job.state = "new"
    /\ job' = [job EXCEPT !.state = "running"]
    /\ history' = [history EXCEPT !.runs = IF @ = 0 THEN 1 ELSE 2]
    /\ UNCHANGED <<task, tw, seen, queue, timer, overdue, taskC, twC, faults>>

JobEnds ==
    /\ job.exists /\ job.state = "running"
    /\ \E state \in {"succeeded", "failed"} :
          /\ job' = [job EXCEPT !.state = state]
          /\ history' = [history EXCEPT !.ends = @ \cup {state}]
    /\ UNCHANGED <<task, tw, seen, queue, timer, overdue, taskC, twC, faults>>

\* The time to live of a job, a day, is longer than the runner takes to record
\* how the job ended.
JobExpires ==
    /\ job.exists /\ tw.phase = "live" /\ tw.conds \cap {"Succeeded", "Failed"} # {}
    /\ seen.tw = tw /\ twC = Idle
    /\ job' = NoJob
    /\ UNCHANGED <<task, tw, seen, queue, timer, overdue, taskC, twC, history, faults>>

\* The owner of a task is its app.
AppDeleted ==
    /\ task.phase = "live" /\ "Initialized" \in task.conds
    /\ task' = TaskGone /\ overdue' = FALSE
    /\ UNCHANGED <<tw, job, seen, queue, timer, taskC, twC, history, faults>>

CollectWorkload ==
    /\ task.phase = "gone" /\ tw.phase = "live"
    /\ tw' = WorkloadGone
    /\ UNCHANGED <<task, job, seen, queue, timer, overdue, taskC, twC, history, faults>>

CollectJob ==
    /\ tw.phase # "live" /\ job.exists /\ job.owned
    /\ job' = NoJob
    /\ UNCHANGED <<task, tw, seen, queue, timer, overdue, taskC, twC, history, faults>>

TaskTTL ==
    /\ IsCompleted(task.conds) /\ ~overdue
    /\ overdue' = TRUE
    /\ UNCHANGED <<task, tw, job, seen, queue, timer, taskC, twC, history, faults>>

\* The process restarts and lists everything anew.
Crash ==
    /\ Fault
    /\ taskC' = Idle /\ twC' = Idle /\ timer' = FALSE
    /\ seen' = [task |-> task, tw |-> tw, job |-> job]
    /\ queue' = {"task", "tw"}
    /\ UNCHANGED <<task, tw, job, overdue, history>>

-----------------------------------------------------------------------------
Init ==
    /\ task = NoTask /\ tw = NoWorkload /\ job = NoJob
    /\ seen = [task |-> task, tw |-> tw, job |-> job]
    /\ queue = {}
    /\ timer = FALSE /\ overdue = FALSE
    /\ taskC = Idle /\ twC = Idle
    /\ history = [runs |-> 0, ends |-> {}]
    /\ faults = 0

TaskController ==
    \/ ReadTask \/ DeleteExpiredTask \/ HandleCancelation \/ TaskAssetsFail
    \/ CreateOrPatchTaskWorkload \/ PatchTask
WorkloadController ==
    \/ ReadWorkload \/ UpdateTaskWorkloadStatus \/ CreateJob \/ PatchWorkload

Cluster ==
    \/ AppDeleted \/ Resync \/ TimerFires \/ TaskTTL \/ Crash
    \/ JobStarts \/ JobEnds \/ JobExpires \/ CollectWorkload \/ CollectJob

\* Nothing happens before the kinds that do not lag have arrived in the cache.
UpToDate ==
    LET current == [task |-> task, tw |-> tw, job |-> job]
    IN  \A kind \in {"task", "tw", "job"} \ Lagging : seen[kind] = current[kind]

Next ==
    \/ SeeTask \/ SeeWorkload \/ SeeJob
    \/ UpToDate /\ (CreateTask \/ CancelTask \/ TaskController \/ WorkloadController \/ Cluster)

Spec == Init /\ [][Next]_vars

\* The controllers keep working, the cache catches up, pods run and end, and
\* time passes.
Fairness ==
    /\ WF_vars(SeeTask) /\ WF_vars(SeeWorkload) /\ WF_vars(SeeJob)
    /\ WF_vars(UpToDate /\ TaskController) /\ WF_vars(UpToDate /\ WorkloadController)
    /\ WF_vars(UpToDate /\ Resync) /\ WF_vars(UpToDate /\ TimerFires)
    /\ WF_vars(UpToDate /\ TaskTTL)
    /\ WF_vars(UpToDate /\ JobStarts) /\ WF_vars(UpToDate /\ JobEnds)
    /\ WF_vars(UpToDate /\ CollectWorkload) /\ WF_vars(UpToDate /\ CollectJob)
FairSpec == Spec /\ Fairness

-----------------------------------------------------------------------------
(* Properties.                                                             *)

\* The objects and the cache keep their types.
TypeOK ==
    /\ task \in CFTask /\ tw \in TaskWorkload /\ job \in Job
    /\ seen \in [task : CFTask, tw : TaskWorkload, job : Job]
    /\ queue \subseteq {"task", "tw"}
    /\ timer \in BOOLEAN /\ overdue \in BOOLEAN
    /\ taskC.pc \in {"idle", "read", "patch"} /\ twC.pc \in {"idle", "read", "patch"}
    /\ faults \in 0..MaxFaults

\* The command of a task is started at most once, although workloads and jobs
\* are created from a cache that may not have them yet and jobs are removed
\* while their workloads stay (getOrCreateJob).  A task that is cancelled or
\* deleted is left out: the runner may create a job from a workload that is
\* gone already, until the garbage collector finds it.
RunsOnce == task.phase = "live" /\ ~task.canceled => history.runs <= 1

\* What is shown is what happened: a task is SUCCEEDED only if a pod was, and
\* FAILED only if a pod was or it was cancelled.
OutcomeIsTrue ==
    LET state == ToRecordState(task) IN
    /\ state = "SUCCEEDED" => "succeeded" \in history.ends
    /\ state = "FAILED" /\ "Canceled" \notin task.conds => "failed" \in history.ends

\* A task that is shown as cancelled has no workload any more and never gets
\* another one (handleCancelation deletes it before the condition is set).
CanceledHasNoWorkload ==
    task.phase = "live" /\ "Canceled" \in task.conds => tw.phase # "live"

\* Cancelling or deleting a task stops it: workload and job go for good, also
\* when the job is created after its workload is gone.
CancelStopsTheJob ==
    <>[](task.canceled \/ task.phase = "gone" => tw.phase # "live" /\ ~job.exists)

\* Every task ends and is shown to have ended, whatever fails a bounded number
\* of times and however the cache lags.
TaskEnds ==
    task.phase = "live" ~>
        task.phase = "gone" \/ ToRecordState(task) \in {"SUCCEEDED", "FAILED"}

\* A task that has ended is removed when its time to live has passed.
ExpiredIsDeleted ==
    ToRecordState(task) \in {"SUCCEEDED", "FAILED"} ~> task.phase = "gone"

\* A task ends and then goes: no state in between is one it stays in (the
\* conditions of task and workload, the requeue for the time to live).
TaskEndsAndExpires == TaskEnds /\ ExpiredIsDeleted
=============================================================================
