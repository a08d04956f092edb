----------------------------- MODULE TasksProofs -----------------------------
(***************************************************************************)
(* Proofs about Tasks, for every lag of the cache and any number of        *)
(* failing calls and restarts.                                             *)
(***************************************************************************)
EXTENDS Tasks, TLAPS

-----------------------------------------------------------------------------
(* Types.                                                                  *)

TaskTypes == {"Started", "Succeeded", "Failed", "Canceled"}
WorkloadTypes == {"Started", "Succeeded", "Failed"}

TaskRead == [pc : {"read"}, old : CFTask]
TaskPatch ==
    [pc : {"patch"}, old : CFTask, conds : Conditions(TaskTypes), failed : BOOLEAN,
     requeueAfter : BOOLEAN]
WorkloadRead == [pc : {"read"}, old : TaskWorkload]
WorkloadPatch ==
    [pc : {"patch"}, old : TaskWorkload, conds : Conditions(WorkloadTypes), failed : BOOLEAN]

\* Only a task that has been initialized can have been cancelled.
Sound(t) == t.canceled => t.phase = "live" /\ "Initialized" \in t.conds

TaskCInv ==
    /\ taskC.pc \in {"idle", "read", "patch"}
    /\ taskC.pc = "idle" => taskC = Idle
    /\ taskC.pc = "read" => taskC \in TaskRead
    /\ taskC.pc = "patch" => /\ taskC \in TaskPatch
                             /\ taskC.conds # taskC.old.conds => "Initialized" \in taskC.conds
    /\ taskC.pc # "idle" => Sound(taskC.old) /\ taskC.old.phase = "live"

WorkloadCInv ==
    /\ twC.pc \in {"idle", "read", "patch"}
    /\ twC.pc = "idle" => twC = Idle
    /\ twC.pc = "read" => twC \in WorkloadRead
    /\ twC.pc = "patch" => twC \in WorkloadPatch /\ twC.old.conds \subseteq twC.conds

ObjectsInv ==
    /\ task \in CFTask /\ Sound(task)
    /\ tw \in TaskWorkload /\ job \in Job

SeenInv ==
    /\ seen \in [task : CFTask, tw : TaskWorkload, job : Job]
    /\ Sound(seen.task)

RestInv ==
    /\ queue \subseteq {"task", "tw"}
    /\ timer \in BOOLEAN /\ overdue \in BOOLEAN
    /\ faults \in 0..MaxFaults
    /\ history \in [runs : 0..2, ends : SUBSET {"succeeded", "failed"}]

TypeInv == ObjectsInv /\ SeenInv /\ RestInv /\ TaskCInv /\ WorkloadCInv

\* It gives the type invariant of the module.
LEMMA TypeSuffices ==
    ASSUME TypeInv
    PROVE  TypeOK
BY DEF TypeInv, ObjectsInv, SeenInv, RestInv, TaskCInv, WorkloadCInv, TypeOK

\* Unions of conditions are conditions.
LEMMA TaskConditions ==
    ASSUME NEW c \in Conditions(TaskTypes), NEW d \in SUBSET ({"Initialized"} \cup TaskTypes),
           "Initialized" \in c \cup d
    PROVE  c \cup d \in Conditions(TaskTypes)
BY DEF Conditions

\* The same for the conditions of workloads.
LEMMA WorkloadConditions ==
    ASSUME NEW c \in Conditions(WorkloadTypes), NEW d \in SUBSET ({"Initialized"} \cup WorkloadTypes),
           "Initialized" \in c \cup d \/ d = {}
    PROVE  c \cup d \in Conditions(WorkloadTypes)
BY DEF Conditions

\* The parts of the objects.
LEMMA ObjectFields ==
    /\ \A t \in CFTask : /\ t.phase \in {"absent", "live", "gone"} /\ t.canceled \in BOOLEAN
                         /\ t.conds \in Conditions(TaskTypes)
    /\ \A w \in TaskWorkload : /\ w.phase \in {"absent", "live", "gone"}
                               /\ w.conds \in Conditions(WorkloadTypes)
    /\ \A j \in Job : /\ j.exists \in BOOLEAN /\ j.owned \in BOOLEAN
                      /\ j.state \in {"new", "running", "succeeded", "failed"}
BY DEF CFTask, TaskWorkload, Job, TaskTypes, WorkloadTypes

\* The empty objects, and those that are new.
LEMMA NoObjects ==
    /\ NoTask \in CFTask /\ ~NoTask.canceled
    /\ TaskGone \in CFTask /\ ~TaskGone.canceled /\ TaskGone.phase = "gone" /\ TaskGone.conds = {}
    /\ NoWorkload \in TaskWorkload
    /\ WorkloadGone \in TaskWorkload /\ WorkloadGone.phase = "gone" /\ WorkloadGone.conds = {}
    /\ NoJob \in Job /\ ~NoJob.exists /\ NoJob.state = "new"
    /\ LET new == [NoTask EXCEPT !.phase = "live"]
       IN  new \in CFTask /\ new.phase = "live" /\ ~new.canceled /\ new.conds = {}
    /\ [phase |-> "live", conds |-> {}] \in TaskWorkload
    /\ WorkloadToJob \in Job
<1>1. {} \in Conditions({"Started", "Succeeded", "Failed", "Canceled"})
      /\ {} \in Conditions({"Started", "Succeeded", "Failed"})
  BY DEF Conditions
<1>2. NoTask \in CFTask /\ ~NoTask.canceled /\ NoTask.conds = {}
  BY <1>1 DEF NoTask, CFTask
<1>3. ASSUME NEW phase \in {"live", "gone"}, NEW t, t = [NoTask EXCEPT !.phase = phase]
      PROVE  t \in CFTask /\ t.phase = phase /\ ~t.canceled /\ t.conds = {}
  BY <1>2, <1>3 DEF CFTask
<1>4. /\ TaskGone \in CFTask /\ ~TaskGone.canceled
      /\ TaskGone.phase = "gone" /\ TaskGone.conds = {}
  BY <1>3 DEF TaskGone
<1>5. /\ NoWorkload \in TaskWorkload /\ [phase |-> "live", conds |-> {}] \in TaskWorkload
      /\ WorkloadGone = [phase |-> "gone", conds |-> {}]
  BY <1>1 DEF NoWorkload, WorkloadGone, TaskWorkload
<1>6. WorkloadGone \in TaskWorkload /\ WorkloadGone.phase = "gone" /\ WorkloadGone.conds = {}
  BY <1>1, <1>5 DEF TaskWorkload
<1>7. NoJob \in Job /\ ~NoJob.exists /\ NoJob.state = "new" /\ WorkloadToJob \in Job
  BY DEF NoJob, WorkloadToJob, Job
<1> QED
  BY <1>2, <1>3, <1>4, <1>5, <1>6, <1>7

\* The initial state is well typed.
LEMMA InitType ==
    ASSUME Init
    PROVE  TypeInv
<1>1. /\ task = NoTask /\ tw = NoWorkload /\ job = NoJob
      /\ seen = [task |-> task, tw |-> tw, job |-> job]
  BY DEF Init
<1>2. ObjectsInv
  BY <1>1, NoObjects DEF ObjectsInv, Sound
<1>3. SeenInv
  BY <1>1, <1>2 DEF ObjectsInv, SeenInv
<1>4. RestInv
  <2>1. history \in [runs : 0..2, ends : SUBSET {"succeeded", "failed"}]
    BY DEF Init
  <2>2. timer \in BOOLEAN /\ overdue \in BOOLEAN
    BY DEF Init
  <2> QED
    BY <2>1, <2>2, FaultsAssumption DEF Init, RestInv
<1>5. TaskCInv /\ WorkloadCInv
  BY DEF Init, TaskCInv, WorkloadCInv, Idle
<1> QED
  BY <1>2, <1>3, <1>4, <1>5 DEF TypeInv

\* Failures are counted within their bound.
LEMMA FaultType ==
    ASSUME RestInv, Fault \/ NoFault \/ UNCHANGED faults
    PROVE  faults' \in 0..MaxFaults
BY FaultsAssumption DEF RestInv, Fault, NoFault

\* What the task controller returns is a patch.
LEMMA ReturnTaskType ==
    ASSUME TaskCInv, overdue \in BOOLEAN, taskC.pc = "read",
           NEW conds \in Conditions(TaskTypes), NEW failed \in BOOLEAN,
           conds # taskC.old.conds => "Initialized" \in conds,
           ReturnTask(conds, failed)
    PROVE  /\ TaskCInv' /\ taskC'.pc = "patch"
           /\ taskC'.old = taskC.old /\ taskC'.conds = conds /\ taskC'.failed = failed
<1>1. taskC.old \in CFTask
  BY DEF TaskCInv, TaskRead
<1>2. (~failed /\ IsCompleted(conds) /\ ~overdue) \in BOOLEAN
  OBVIOUS
<1>3. taskC' \in TaskPatch
  BY <1>1, <1>2 DEF ReturnTask, TaskPatch
<1> QED
  BY <1>3 DEF ReturnTask, TaskCInv

\* What the workload controller returns is a patch.
LEMMA ReturnWorkloadType ==
    ASSUME WorkloadCInv, twC.pc = "read",
           NEW conds \in SUBSET ({"Initialized"} \cup WorkloadTypes), NEW failed \in BOOLEAN,
           "Initialized" \in conds \/ conds = {},
           ReturnWorkload(conds, failed)
    PROVE  /\ WorkloadCInv' /\ twC'.pc = "patch"
           /\ twC'.old = twC.old /\ twC'.conds = twC.old.conds \cup conds
<1>1. twC.old \in TaskWorkload
  BY DEF WorkloadCInv, WorkloadRead
<1>2. twC.old.conds \cup conds \in Conditions(WorkloadTypes)
  BY <1>1, ObjectFields, WorkloadConditions
<1>3. twC' \in WorkloadPatch
  BY <1>1, <1>2 DEF ReturnWorkload, WorkloadPatch
<1> QED
  BY <1>3 DEF ReturnWorkload, WorkloadCInv

\* The conditions of a job, one for each state it may be in.
LEMMA JobConditions ==
    ASSUME NEW state \in {"new", "running", "succeeded", "failed"}
    PROVE  /\ GetStatusConditions(state) \in SUBSET ({"Initialized"} \cup WorkloadTypes)
           /\ "Initialized" \in GetStatusConditions(state)
           /\ "Succeeded" \in GetStatusConditions(state) => state = "succeeded"
           /\ "Failed" \in GetStatusConditions(state) => state = "failed"
BY DEF GetStatusConditions, WorkloadTypes

\* The cache and the users.
LEMMA UsersType ==
    ASSUME TypeInv, SeeTask \/ SeeWorkload \/ SeeJob \/ CreateTask \/ CancelTask
    PROVE  TypeInv'
<1> USE DEF TypeInv
<1>1. UNCHANGED <<taskC, twC, timer, overdue, faults, history, tw, job>>
  BY DEF SeeTask, SeeWorkload, SeeJob, CreateTask, CancelTask
<1>2. TaskCInv' /\ WorkloadCInv'
  BY <1>1 DEF TaskCInv, WorkloadCInv
<1>3. RestInv'
  BY <1>1 DEF SeeTask, SeeWorkload, SeeJob, CreateTask, CancelTask, RestInv
<1>4. ObjectsInv'
  <2>1. CASE CreateTask
    BY <1>1, <2>1, NoObjects DEF CreateTask, ObjectsInv, Sound
  <2>2. CASE CancelTask
    BY <1>1, <2>2 DEF CancelTask, ObjectsInv, Sound, CFTask
  <2>3. CASE UNCHANGED task
    BY <1>1, <2>3 DEF ObjectsInv, Sound
  <2> QED
    BY <2>1, <2>2, <2>3 DEF SeeTask, SeeWorkload, SeeJob
<1>5. SeenInv'
  <2>1. CASE SeeTask
    BY <2>1 DEF SeeTask, SeenInv, ObjectsInv, Sound
  <2>2. CASE SeeWorkload
    BY <2>2 DEF SeeWorkload, SeenInv, ObjectsInv, Sound
  <2>3. CASE SeeJob
    BY <2>3 DEF SeeJob, SeenInv, ObjectsInv, Sound
  <2>4. CASE CreateTask \/ CancelTask
    BY <2>4 DEF CreateTask, CancelTask, SeenInv, Sound
  <2> QED
    BY <2>1, <2>2, <2>3, <2>4
<1> QED
  BY <1>2, <1>3, <1>4, <1>5

\* The task controller.
LEMMA TaskControllerType ==
    ASSUME TypeInv, TaskController
    PROVE  TypeInv'
<1> USE DEF TypeInv
<1>1. UNCHANGED <<job, seen, twC, history>>
  BY DEF TaskController, ReadTask, DeleteExpiredTask, HandleCancelation, TaskAssetsFail,
         CreateOrPatchTaskWorkload, PatchTask
<1>2. WorkloadCInv' /\ SeenInv'
  BY <1>1 DEF WorkloadCInv, SeenInv, Sound
<1>3. faults' \in 0..MaxFaults
  BY FaultType DEF TaskController, ReadTask, DeleteExpiredTask, HandleCancelation, TaskAssetsFail,
         CreateOrPatchTaskWorkload, PatchTask
<1>4. CASE ReadTask
  <2>1. TaskCInv'
    BY <1>4 DEF ReadTask, TaskCInv, SeenInv, TaskRead, Idle, Sound
  <2>2. ObjectsInv' /\ RestInv'
    BY <1>1, <1>3, <1>4 DEF ReadTask, ObjectsInv, Sound, RestInv
  <2> QED
    BY <1>2, <2>1, <2>2
<1>5. taskC.pc = "read" => taskC.old \in CFTask /\ Sound(taskC.old) /\ overdue \in BOOLEAN
  BY DEF TaskCInv, TaskRead, RestInv
<1>6. CASE DeleteExpiredTask
  <2>1. taskC.pc = "read" /\ UNCHANGED <<tw, queue, timer>>
    BY <1>6 DEF DeleteExpiredTask
  <2>2. CASE task' = TaskGone /\ overdue' = FALSE /\ taskC' = Idle
    BY <1>1, <1>2, <1>3, <2>1, <2>2, NoObjects DEF ObjectsInv, Sound, RestInv, TaskCInv, Idle
  <2>3. CASE ReturnTask(taskC.old.conds, TRUE) /\ UNCHANGED <<task, overdue>>
    <3>1. TaskCInv'
      BY <1>5, <2>1, <2>3, ObjectFields, ReturnTaskType
    <3> QED
      BY <1>1, <1>2, <1>3, <2>1, <2>3, <3>1 DEF ObjectsInv, Sound, RestInv
  <2> QED
    BY <1>6, <2>2, <2>3 DEF DeleteExpiredTask
<1>7. CASE HandleCancelation
  <2>1. taskC.pc = "read" /\ taskC.old.canceled /\ UNCHANGED <<task, queue, timer, overdue>>
    BY <1>7 DEF HandleCancelation
  <2>2. ObjectsInv' /\ RestInv'
    BY <1>1, <1>3, <1>7, <2>1, NoObjects DEF HandleCancelation, DeleteTaskWorkload, ObjectsInv, Sound, RestInv
  <2>3. PICK conds \in SUBSET ({"Initialized"} \cup TaskTypes), failed \in BOOLEAN :
           ReturnTask(taskC.old.conds \cup conds, failed)
    <3>1. CASE ReturnTask(taskC.old.conds, TRUE)
      <4>1. taskC.old.conds = taskC.old.conds \cup {}
        OBVIOUS
      <4> QED
        BY <3>1, <4>1
    <3>2. CASE ReturnTask(taskC.old.conds \cup {"Canceled"}
                            \cup (IF "Succeeded" \in taskC.old.conds THEN {} ELSE {"Failed"}), FALSE)
      <4> DEFINE d == {"Canceled"} \cup (IF "Succeeded" \in taskC.old.conds THEN {} ELSE {"Failed"})
      <4>1. d \in SUBSET ({"Initialized"} \cup TaskTypes)
        BY DEF TaskTypes
      <4>2. taskC.old.conds \cup {"Canceled"}
              \cup (IF "Succeeded" \in taskC.old.conds THEN {} ELSE {"Failed"}) = taskC.old.conds \cup d
        OBVIOUS
      <4> QED
        BY <3>2, <4>1, <4>2
    <3> QED
      BY <1>7, <3>1, <3>2 DEF HandleCancelation
  <2>4. "Initialized" \in taskC.old.conds
    BY <1>5, <2>1 DEF Sound
  <2>5. taskC.old.conds \cup conds \in Conditions(TaskTypes)
    BY <1>5, <2>1, <2>4, ObjectFields, TaskConditions
  <2>6. TaskCInv'
    BY <1>5, <2>1, <2>3, <2>4, <2>5, ReturnTaskType
  <2> QED
    BY <1>2, <2>2, <2>6
<1>8. CASE TaskAssetsFail \/ CreateOrPatchTaskWorkload
  <2>1. taskC.pc = "read" /\ UNCHANGED <<task, queue, timer, overdue>>
    BY <1>8 DEF TaskAssetsFail, CreateOrPatchTaskWorkload, Uncanceled
  <2>2. ObjectsInv' /\ RestInv'
    BY <1>1, <1>3, <1>8, <2>1, NoObjects DEF TaskAssetsFail, CreateOrPatchTaskWorkload, ObjectsInv, Sound, RestInv
  <2>3. PICK conds \in SUBSET ({"Initialized"} \cup TaskTypes), failed \in BOOLEAN :
           /\ ReturnTask(taskC.old.conds \cup conds, failed)
           /\ "Initialized" \in conds \/ conds = {}
    <3>1. CASE TaskAssetsFail
      <4>1. PICK c \in {taskC.old.conds, InitializeStatus(taskC.old.conds)} : ReturnTask(c, TRUE)
        BY <3>1 DEF TaskAssetsFail
      <4>2. c = taskC.old.conds \cup {} \/ c = taskC.old.conds \cup {"Initialized"}
        BY DEF InitializeStatus
      <4> QED
        BY <4>1, <4>2
    <3>2. CASE CreateOrPatchTaskWorkload
      <4>1. \/ ReturnTask(InitializeStatus(taskC.old.conds) \cup SetTaskStatus(seen.tw.conds), FALSE)
            \/ ReturnTask(InitializeStatus(taskC.old.conds), FALSE)
            \/ ReturnTask(InitializeStatus(taskC.old.conds), TRUE)
        BY <3>2 DEF CreateOrPatchTaskWorkload
      <4> DEFINE d == {"Initialized"} \cup SetTaskStatus(seen.tw.conds)
      <4>2. /\ InitializeStatus(taskC.old.conds) = taskC.old.conds \cup {"Initialized"}
            /\ InitializeStatus(taskC.old.conds) \cup SetTaskStatus(seen.tw.conds) = taskC.old.conds \cup d
            /\ d \in SUBSET ({"Initialized"} \cup TaskTypes)
        BY DEF InitializeStatus, SetTaskStatus, TaskTypes
      <4> QED
        BY <4>1, <4>2
    <3> QED
      BY <1>8, <3>1, <3>2
  <2>4. taskC.old.conds \in Conditions(TaskTypes)
    BY <1>5, <2>1, ObjectFields
  <2>5. taskC.old.conds \cup conds \in Conditions(TaskTypes)
    <3>1. CASE "Initialized" \in conds
      BY <2>4, <3>1, TaskConditions
    <3>2. CASE conds = {}
      <4>1. taskC.old.conds \cup conds = taskC.old.conds
        BY <3>2
      <4> QED
        BY <2>4, <4>1
    <3> QED
      BY <2>3, <3>1, <3>2
  <2>6. taskC.old.conds \cup conds # taskC.old.conds => "Initialized" \in taskC.old.conds \cup conds
    BY <2>3
  <2>7. TaskCInv'
    BY <1>5, <2>1, <2>3, <2>5, <2>6, ReturnTaskType
  <2> QED
    BY <1>2, <2>2, <2>7
<1>9. CASE PatchTask
  <2>1. taskC.pc = "patch" /\ taskC' = Idle /\ UNCHANGED tw
    BY <1>9 DEF PatchTask
  <2>2. TaskCInv'
    BY <2>1 DEF TaskCInv, Idle
  <2>3. ASSUME task.phase = "live",
               task' = [task EXCEPT !.conds = MergePatch(task.conds, taskC.old.conds, taskC.conds)]
        PROVE  ObjectsInv'
    <3>1. /\ MergePatch(task.conds, taskC.old.conds, taskC.conds) \in Conditions(TaskTypes)
          /\ "Initialized" \in task.conds =>
               "Initialized" \in MergePatch(task.conds, taskC.old.conds, taskC.conds)
      BY <2>1, ObjectFields DEF ObjectsInv, TaskCInv, TaskPatch, MergePatch
    <3> QED
      BY <1>1, <2>1, <2>3, <3>1 DEF ObjectsInv, Sound, CFTask, TaskTypes
  <2>4. ASSUME UNCHANGED task
        PROVE  ObjectsInv'
    BY <1>1, <2>1, <2>4 DEF ObjectsInv, Sound
  <2>5. ObjectsInv'
    BY <1>9, <2>3, <2>4 DEF PatchTask
  <2>6. timer' \in BOOLEAN /\ overdue' \in BOOLEAN
    <3>1. taskC.requeueAfter \in BOOLEAN /\ timer \in BOOLEAN /\ overdue \in BOOLEAN
      BY <2>1 DEF TaskCInv, TaskPatch, RestInv
    <3> QED
      BY <1>9, <3>1 DEF PatchTask
  <2>7. queue' \subseteq {"task", "tw"}
    BY <1>9 DEF PatchTask, RestInv
  <2>8. RestInv'
    BY <1>1, <1>3, <2>6, <2>7 DEF RestInv
  <2> QED
    BY <1>2, <2>2, <2>5, <2>8
<1> QED
  BY <1>4, <1>6, <1>7, <1>8, <1>9 DEF TaskController

\* The job task runner.
LEMMA WorkloadControllerType ==
    ASSUME TypeInv, WorkloadController
    PROVE  TypeInv'
<1> USE DEF TypeInv
<1>1. UNCHANGED <<task, seen, timer, overdue, taskC, history>>
  BY DEF WorkloadController, ReadWorkload, UpdateTaskWorkloadStatus, CreateJob, PatchWorkload
<1>2. TaskCInv' /\ SeenInv'
  BY <1>1 DEF TaskCInv, SeenInv, Sound
<1>3. faults' \in 0..MaxFaults
  BY FaultType DEF WorkloadController, ReadWorkload, UpdateTaskWorkloadStatus, CreateJob, PatchWorkload
<1>4. RestInv'
  <2>1. queue' \subseteq {"task", "tw"}
    BY DEF RestInv, WorkloadController, ReadWorkload, UpdateTaskWorkloadStatus, CreateJob, PatchWorkload
  <2> QED
    BY <1>1, <1>3, <2>1 DEF RestInv
<1>5. CASE ReadWorkload
  <2>1. WorkloadCInv'
    BY <1>5 DEF ReadWorkload, WorkloadCInv, SeenInv, WorkloadRead, Idle
  <2>2. ObjectsInv'
    BY <1>5 DEF ReadWorkload, ObjectsInv, Sound
  <2> QED
    BY <1>2, <1>4, <2>1, <2>2
<1>6. CASE UpdateTaskWorkloadStatus
  <2>1. WorkloadCInv'
    <3>1. seen.job.state \in {"new", "running", "succeeded", "failed"}
      BY ObjectFields DEF SeenInv
    <3> QED
      BY <1>6, <3>1, JobConditions, ReturnWorkloadType DEF UpdateTaskWorkloadStatus
  <2>2. ObjectsInv'
    BY <1>6 DEF UpdateTaskWorkloadStatus, ObjectsInv, Sound
  <2> QED
    BY <1>2, <1>4, <2>1, <2>2
<1>7. CASE CreateJob
  <2>1. WorkloadCInv'
    BY <1>7, JobConditions, ReturnWorkloadType DEF CreateJob
  <2>2. ObjectsInv'
    BY <1>7, NoObjects DEF CreateJob, ObjectsInv, Sound
  <2> QED
    BY <1>2, <1>4, <2>1, <2>2
<1>8. CASE PatchWorkload
  <2>1. WorkloadCInv'
    BY <1>8 DEF PatchWorkload, WorkloadCInv, Idle
  <2>2. ObjectsInv'
    <3>1. MergePatch(tw.conds, twC.old.conds, twC.conds) \in Conditions(WorkloadTypes)
      BY <1>8, ObjectFields DEF PatchWorkload, ObjectsInv, WorkloadCInv, WorkloadPatch, MergePatch
    <3> QED
      BY <1>8, <3>1 DEF PatchWorkload, ObjectsInv, Sound, TaskWorkload, WorkloadTypes
  <2> QED
    BY <1>2, <1>4, <2>1, <2>2
<1> QED
  BY <1>5, <1>6, <1>7, <1>8 DEF WorkloadController

\* Kubernetes, time and failures.
LEMMA ClusterType ==
    ASSUME TypeInv, Cluster
    PROVE  TypeInv'
<1> USE DEF TypeInv
<1>1. CASE Crash
  <2>1. ObjectsInv' /\ SeenInv'
    BY <1>1 DEF Crash, ObjectsInv, SeenInv, Sound
  <2>2. TaskCInv' /\ WorkloadCInv'
    BY <1>1 DEF Crash, TaskCInv, WorkloadCInv, Idle
  <2>3. RestInv'
    <3>1. faults' \in 0..MaxFaults
      BY <1>1, FaultType DEF Crash
    <3> QED
      BY <1>1, <3>1 DEF Crash, RestInv
  <2> QED
    BY <2>1, <2>2, <2>3
<1>2. CASE ~Crash
  <2>1. UNCHANGED <<seen, taskC, twC, faults>>
    BY <1>2 DEF Cluster, AppDeleted, Resync, TimerFires, TaskTTL, JobStarts, JobEnds, JobExpires,
                CollectWorkload, CollectJob
  <2>2. SeenInv' /\ TaskCInv' /\ WorkloadCInv'
    BY <2>1 DEF SeenInv, TaskCInv, WorkloadCInv, Sound
  <2>3. ObjectsInv'
    <3>1. CASE AppDeleted \/ CollectWorkload \/ CollectJob \/ JobExpires
      BY <3>1, NoObjects DEF AppDeleted, CollectWorkload, CollectJob, JobExpires, ObjectsInv, Sound
    <3>2. CASE JobStarts \/ JobEnds
      BY <3>2 DEF JobStarts, JobEnds, ObjectsInv, Sound, Job
    <3>3. CASE Resync \/ TimerFires \/ TaskTTL
      BY <3>3 DEF Resync, TimerFires, TaskTTL, ObjectsInv, Sound
    <3> QED
      BY <1>2, <3>1, <3>2, <3>3 DEF Cluster
  <2>4. RestInv'
    <3>1. CASE AppDeleted \/ CollectWorkload \/ CollectJob \/ JobExpires \/ Resync \/ TimerFires \/ TaskTTL
      BY <2>1, <3>1 DEF AppDeleted, CollectWorkload, CollectJob, JobExpires, Resync, TimerFires,
                        TaskTTL, RestInv
    <3>2. CASE JobStarts \/ JobEnds
      BY <2>1, <3>2 DEF JobStarts, JobEnds, RestInv
    <3> QED
      BY <1>2, <3>1, <3>2 DEF Cluster
  <2> QED
    BY <2>2, <2>3, <2>4
<1> QED
  BY <1>1, <1>2

\* Every step keeps the types.
LEMMA NextType ==
    ASSUME TypeInv, [Next]_vars
    PROVE  TypeInv'
<1>1. CASE UNCHANGED vars
  BY <1>1 DEF vars, TypeInv, ObjectsInv, SeenInv, RestInv, TaskCInv, WorkloadCInv, Sound
<1> QED
  BY <1>1, UsersType, TaskControllerType, WorkloadControllerType, ClusterType DEF Next

\* The task, its workload, its job and what the cache and the workers hold of
\* them are well typed, however the cache lags and whatever fails.
THEOREM TypeCorrect == Spec => []TypeOK
<1>1. Init => TypeInv
  BY InitType
<1>2. TypeInv /\ [Next]_vars => TypeInv'
  BY NextType
<1>3. TypeInv => TypeOK
  BY TypeSuffices
<1> QED
  BY <1>1, <1>2, <1>3, PTL DEF Spec

-----------------------------------------------------------------------------
(* Outcomes.                                                               *)

\* Conditions that say what happened to pods that ended so.
Happened(conds, ends) ==
    /\ "Succeeded" \in conds => "succeeded" \in ends
    /\ "Failed" \in conds => "failed" \in ends \/ "Canceled" \in conds

OutcomeInv ==
    /\ job.state \in {"succeeded", "failed"} => job.state \in history.ends
    /\ seen.job.state \in {"succeeded", "failed"} => seen.job.state \in history.ends
    /\ Happened(tw.conds, history.ends) /\ Happened(seen.tw.conds, history.ends)
    /\ Happened(task.conds, history.ends) /\ Happened(seen.task.conds, history.ends)
    /\ taskC.pc # "idle" => Happened(taskC.old.conds, history.ends)
    /\ taskC.pc = "patch" => Happened(taskC.conds, history.ends)
    /\ twC.pc # "idle" => Happened(twC.old.conds, history.ends)
    /\ twC.pc = "patch" => Happened(twC.conds, history.ends)

\* It gives the property of outcomes.
LEMMA OutcomeSuffices ==
    ASSUME OutcomeInv
    PROVE  OutcomeIsTrue
BY DEF OutcomeInv, Happened, OutcomeIsTrue, ToRecordState

\* A task that takes over the conditions of its workload tells no more than
\* the two of them.
LEMMA HappenedUnion ==
    ASSUME NEW c, NEW d, NEW ends, Happened(c, ends), Happened(d, ends), "Canceled" \notin d
    PROVE  /\ Happened(c \cup d, ends) /\ Happened(c \cup SetTaskStatus(d), ends)
           /\ Happened(InitializeStatus(c) \cup SetTaskStatus(d), ends)
           /\ Happened(InitializeStatus(c), ends)
BY DEF Happened, SetTaskStatus, InitializeStatus

\* The task controller.
LEMMA TaskControllerOutcome ==
    ASSUME TypeInv, OutcomeInv, TaskController
    PROVE  OutcomeInv'
<1>1. UNCHANGED <<job, seen, twC, history>>
  BY DEF TaskController, ReadTask, DeleteExpiredTask, HandleCancelation, TaskAssetsFail,
         CreateOrPatchTaskWorkload, PatchTask
<1>2. Happened({}, history.ends)
  BY DEF Happened
<1>3. Happened(tw'.conds, history.ends)
  <2>1. tw' = tw \/ tw' = WorkloadGone \/ tw' = [phase |-> "live", conds |-> {}]
    BY DEF TaskController, ReadTask, DeleteExpiredTask, HandleCancelation, TaskAssetsFail,
           CreateOrPatchTaskWorkload, PatchTask, DeleteTaskWorkload
  <2>2. tw'.conds = tw.conds \/ tw'.conds = {}
    BY <2>1, NoObjects
  <2> QED
    BY <1>2, <2>2 DEF OutcomeInv
<1>4. Happened(task'.conds, history.ends)
  <2>1. CASE PatchTask
    <3>1. taskC.pc = "patch" /\ task \in CFTask
      BY <2>1 DEF PatchTask, TypeInv, ObjectsInv
    <3> QED
      BY <2>1, <3>1 DEF PatchTask, MergePatch, OutcomeInv, CFTask
  <2>2. CASE ~PatchTask
    BY <1>2, <2>2, NoObjects
       DEF OutcomeInv, TaskController, ReadTask, DeleteExpiredTask, HandleCancelation, TaskAssetsFail,
           CreateOrPatchTaskWorkload
  <2> QED
    BY <2>1, <2>2
<1>5. /\ taskC'.pc # "idle" => Happened(taskC'.old.conds, history.ends)
      /\ taskC'.pc = "patch" => Happened(taskC'.conds, history.ends)
  <2>1. CASE ReadTask
    BY <2>1 DEF ReadTask, OutcomeInv, Idle
  <2>2. CASE taskC' = Idle
    BY <2>2 DEF Idle
  <2>3. ASSUME taskC.pc = "read", NEW c, NEW failed, ReturnTask(c, failed), Happened(c, history.ends)
        PROVE  /\ taskC'.pc # "idle" => Happened(taskC'.old.conds, history.ends)
               /\ taskC'.pc = "patch" => Happened(taskC'.conds, history.ends)
    BY <2>3 DEF ReturnTask, OutcomeInv
  <2>4. CASE DeleteExpiredTask
    BY <2>2, <2>3, <2>4 DEF DeleteExpiredTask, OutcomeInv
  <2>5. CASE HandleCancelation
    <3>1. /\ taskC.pc = "read" /\ Happened(taskC.old.conds, history.ends)
          /\ \E failed : \/ ReturnTask(taskC.old.conds, failed)
                         \/ ReturnTask(taskC.old.conds \cup {"Canceled"}
                                \cup (IF "Succeeded" \in taskC.old.conds THEN {} ELSE {"Failed"}), failed)
      BY <2>5 DEF HandleCancelation, OutcomeInv
    <3>2. Happened(taskC.old.conds \cup {"Canceled"}
                     \cup (IF "Succeeded" \in taskC.old.conds THEN {} ELSE {"Failed"}), history.ends)
      BY <3>1 DEF Happened
    <3> QED
      BY <2>3, <3>1, <3>2
  <2>6. CASE TaskAssetsFail \/ CreateOrPatchTaskWorkload
    <3>1. /\ taskC.pc = "read" /\ Happened(taskC.old.conds, history.ends)
          /\ \E failed : \/ ReturnTask(taskC.old.conds, failed)
                         \/ ReturnTask(InitializeStatus(taskC.old.conds), failed)
                         \/ ReturnTask(InitializeStatus(taskC.old.conds)
                                         \cup SetTaskStatus(seen.tw.conds), failed)
      BY <2>6 DEF TaskAssetsFail, CreateOrPatchTaskWorkload, Uncanceled, OutcomeInv
    <3>2. "Canceled" \notin seen.tw.conds /\ Happened(seen.tw.conds, history.ends)
      BY ObjectFields DEF TypeInv, SeenInv, Conditions, WorkloadTypes, OutcomeInv
    <3> QED
      BY <2>3, <3>1, <3>2, HappenedUnion
  <2> QED
    BY <2>1, <2>2, <2>4, <2>5, <2>6 DEF TaskController, PatchTask
<1> QED
  BY <1>1, <1>3, <1>4, <1>5 DEF OutcomeInv

\* The job task runner.
LEMMA WorkloadControllerOutcome ==
    ASSUME TypeInv, OutcomeInv, WorkloadController
    PROVE  OutcomeInv'
<1>1. UNCHANGED <<task, seen, taskC, history>>
  BY DEF WorkloadController, ReadWorkload, UpdateTaskWorkloadStatus, CreateJob, PatchWorkload
<1>2. job'.state \in {"succeeded", "failed"} => job'.state \in history.ends
  <2>1. job' = job \/ job' = WorkloadToJob
    BY DEF WorkloadController, ReadWorkload, UpdateTaskWorkloadStatus, CreateJob, PatchWorkload
  <2> QED
    BY <2>1 DEF OutcomeInv, WorkloadToJob
<1>3. Happened(tw'.conds, history.ends)
  <2>1. CASE PatchWorkload
    <3>1. twC.pc = "patch" /\ tw \in TaskWorkload
      BY <2>1 DEF PatchWorkload, TypeInv, ObjectsInv
    <3> QED
      BY <2>1, <3>1 DEF PatchWorkload, MergePatch, OutcomeInv, TaskWorkload
  <2>2. CASE ~PatchWorkload
    BY <2>2 DEF OutcomeInv, WorkloadController, ReadWorkload, UpdateTaskWorkloadStatus, CreateJob
  <2> QED
    BY <2>1, <2>2
<1>4. /\ twC'.pc # "idle" => Happened(twC'.old.conds, history.ends)
      /\ twC'.pc = "patch" => Happened(twC'.conds, history.ends)
  <2>1. CASE ReadWorkload
    BY <2>1 DEF ReadWorkload, OutcomeInv, Idle
  <2>2. CASE PatchWorkload
    BY <2>2 DEF PatchWorkload, Idle
  <2>3. ASSUME twC.pc = "read", NEW c, NEW failed, ReturnWorkload(c, failed),
               "Succeeded" \in c => "succeeded" \in history.ends,
               "Failed" \in c => "failed" \in history.ends
        PROVE  /\ twC'.pc # "idle" => Happened(twC'.old.conds, history.ends)
               /\ twC'.pc = "patch" => Happened(twC'.conds, history.ends)
    BY <2>3 DEF ReturnWorkload, OutcomeInv, Happened
  <2>4. CASE UpdateTaskWorkloadStatus
    <3>1. seen.job.state \in {"new", "running", "succeeded", "failed"}
      BY ObjectFields DEF TypeInv, SeenInv
    <3>2. /\ "Succeeded" \in GetStatusConditions(seen.job.state) => "succeeded" \in history.ends
          /\ "Failed" \in GetStatusConditions(seen.job.state) => "failed" \in history.ends
      BY <3>1, JobConditions DEF OutcomeInv
    <3> QED
      BY <2>3, <2>4, <3>2 DEF UpdateTaskWorkloadStatus
  <2>5. CASE CreateJob
    <3>1. /\ "Succeeded" \notin GetStatusConditions("new")
          /\ "Failed" \notin GetStatusConditions("new")
      BY JobConditions
    <3> QED
      BY <2>3, <2>5, <3>1 DEF CreateJob
  <2> QED
    BY <2>1, <2>2, <2>4, <2>5 DEF WorkloadController
<1> QED
  BY <1>1, <1>2, <1>3, <1>4 DEF OutcomeInv

\* Every step keeps the outcomes true.
LEMMA NextOutcome ==
    ASSUME TypeInv, OutcomeInv, [Next]_vars
    PROVE  OutcomeInv'
<1>1. Happened({}, history.ends)
  BY DEF Happened
<1>2. CASE \/ SeeTask \/ SeeWorkload \/ SeeJob \/ Resync \/ TimerFires \/ TaskTTL \/ UNCHANGED vars
  <2>1. UNCHANGED <<task, tw, job, taskC, twC, history>>
    BY <1>2 DEF SeeTask, SeeWorkload, SeeJob, Resync, TimerFires, TaskTTL, vars
  <2>2. /\ seen'.task \in {task, seen.task} /\ seen'.tw \in {tw, seen.tw}
        /\ seen'.job \in {job, seen.job}
    BY <1>2 DEF SeeTask, SeeWorkload, SeeJob, Resync, TimerFires, TaskTTL, vars, TypeInv, SeenInv
  <2> QED
    BY <2>1, <2>2 DEF OutcomeInv
<1>3. CASE CreateTask \/ CancelTask \/ AppDeleted \/ CollectWorkload
  <2>1. UNCHANGED <<job, seen, taskC, twC, history>>
    BY <1>3 DEF CreateTask, CancelTask, AppDeleted, CollectWorkload
  <2>2. task'.conds \in {task.conds, {}} /\ tw'.conds \in {tw.conds, {}}
    BY <1>3, NoObjects DEF CreateTask, CancelTask, AppDeleted, CollectWorkload, TypeInv, ObjectsInv, CFTask
  <2> QED
    BY <1>1, <2>1, <2>2 DEF OutcomeInv
<1>4. CASE JobStarts \/ JobExpires \/ CollectJob
  <2>1. UNCHANGED <<task, tw, seen, taskC, twC>>
    BY <1>4 DEF JobStarts, JobExpires, CollectJob
  <2>2. history'.ends = history.ends /\ job'.state \notin {"succeeded", "failed"}
    BY <1>4, NoObjects DEF JobStarts, JobExpires, CollectJob, TypeInv, ObjectsInv, RestInv, Job
  <2> QED
    BY <2>1, <2>2 DEF OutcomeInv
<1>5. CASE JobEnds
  <2>1. UNCHANGED <<task, tw, seen, taskC, twC>>
    BY <1>5 DEF JobEnds
  <2>2. history.ends \subseteq history'.ends /\ job'.state \in history'.ends
    BY <1>5 DEF JobEnds, TypeInv, ObjectsInv, RestInv, Job
  <2>3. \A c : Happened(c, history.ends) => Happened(c, history'.ends)
    BY <2>2 DEF Happened
  <2> QED
    BY <2>1, <2>2, <2>3 DEF OutcomeInv
<1>6. CASE Crash
  BY <1>6 DEF Crash, OutcomeInv, Idle
<1> QED
  BY <1>2, <1>3, <1>4, <1>5, <1>6, TaskControllerOutcome, WorkloadControllerOutcome DEF Next, Cluster

\* Whatever the cache shows to the controllers and whatever fails, a task is
\* SUCCEEDED only if a pod was, and FAILED only if one was or the task was
\* cancelled.
THEOREM OutcomesAreTrue == Spec => []OutcomeIsTrue
<1>1. Init => TypeInv /\ OutcomeInv
  <2>1. Init => OutcomeInv
    BY DEF Init, OutcomeInv, Happened, NoTask, NoWorkload, NoJob, Idle
  <2> QED
    BY <2>1, InitType
<1>2. TypeInv /\ OutcomeInv /\ [Next]_vars => (TypeInv /\ OutcomeInv)'
  BY NextType, NextOutcome
<1>3. OutcomeInv => OutcomeIsTrue
  BY OutcomeSuffices
<1> QED
  BY <1>1, <1>2, <1>3, PTL DEF Spec

-----------------------------------------------------------------------------
(* Cancellation.                                                           *)

\* No reconciliation of the task will create a workload any more.
Stopped(t) == t.phase = "gone" \/ (t.phase = "live" /\ t.canceled)
Done ==
    /\ tw.phase # "live"
    /\ Stopped(task) /\ Stopped(seen.task)
    /\ taskC.pc = "read" => taskC.old.canceled

CancelInv ==
    /\ Stopped(seen.task) => Stopped(task)
    /\ taskC.pc # "idle" /\ taskC.old.canceled => Stopped(seen.task)
    /\ "Canceled" \in task.conds \cup seen.task.conds => Done
    /\ taskC.pc # "idle" /\ "Canceled" \in taskC.old.conds => Done
    /\ taskC.pc = "patch" /\ "Canceled" \in taskC.conds => Done

\* It gives the property of cancelled tasks.
LEMMA CancelSuffices ==
    ASSUME CancelInv
    PROVE  CanceledHasNoWorkload
BY DEF CancelInv, Done, CanceledHasNoWorkload

\* A task that is stopped stays so.
LEMMA StoppedStays ==
    ASSUME TypeInv, [Next]_vars, Stopped(task)
    PROVE  Stopped(task')
<1>1. task \in CFTask
  BY DEF TypeInv, ObjectsInv
<1>2. CASE CancelTask \/ PatchTask
  BY <1>1, <1>2 DEF CancelTask, PatchTask, Stopped, CFTask
<1>3. CASE task' = task \/ task' = TaskGone
  BY <1>3, NoObjects DEF Stopped
<1>4. CASE CreateTask
  BY <1>4 DEF CreateTask, Stopped
<1> QED
  BY <1>2, <1>3, <1>4
     DEF Next, vars, SeeTask, SeeWorkload, SeeJob, TaskController, WorkloadController, Cluster, ReadTask,
         DeleteExpiredTask, HandleCancelation, TaskAssetsFail, CreateOrPatchTaskWorkload, ReadWorkload,
         UpdateTaskWorkloadStatus, CreateJob, PatchWorkload, AppDeleted, Resync, TimerFires, TaskTTL,
         Crash, JobStarts, JobEnds, JobExpires, CollectWorkload, CollectJob

\* The cache shows the task as it was or as it is.
LEMMA SeenTask ==
    ASSUME TypeInv, [Next]_vars
    PROVE  seen'.task = seen.task \/ (seen'.task = task /\ task' = task)
<1>1. CASE SeeTask \/ SeeWorkload \/ SeeJob \/ Crash
  BY <1>1 DEF SeeTask, SeeWorkload, SeeJob, Crash, TypeInv, SeenInv
<1>2. CASE UNCHANGED seen
  BY <1>2
<1> QED
  BY <1>1, <1>2
     DEF Next, vars, CreateTask, CancelTask, TaskController, WorkloadController, Cluster, ReadTask, PatchTask,
         DeleteExpiredTask, HandleCancelation, TaskAssetsFail, CreateOrPatchTaskWorkload, ReadWorkload,
         UpdateTaskWorkloadStatus, CreateJob, PatchWorkload, AppDeleted, Resync, TimerFires, TaskTTL,
         JobStarts, JobEnds, JobExpires, CollectWorkload, CollectJob

\* What the worker of the task controller does in a step.
LEMMA TaskWorker ==
    ASSUME TypeInv, [Next]_vars
    PROVE  \/ taskC' = taskC
           \/ taskC'.pc = "idle"
           \/ ReadTask /\ taskC' = [pc |-> "read", old |-> seen.task]
           \/ /\ taskC.pc = "read" /\ taskC'.pc = "patch" /\ taskC'.old = taskC.old
              /\ "Canceled" \in taskC'.conds => "Canceled" \in taskC.old.conds \/ HandleCancelation
<1>1. CASE ReadTask \/ PatchTask \/ Crash
  BY <1>1 DEF ReadTask, PatchTask, Crash, Idle
<1>2. CASE DeleteExpiredTask \/ TaskAssetsFail \/ CreateOrPatchTaskWorkload
  <2>1. \/ taskC' = Idle
        \/ /\ taskC.pc = "read"
           /\ \E failed : \/ ReturnTask(taskC.old.conds, failed)
                          \/ ReturnTask(InitializeStatus(taskC.old.conds), failed)
                          \/ ReturnTask(InitializeStatus(taskC.old.conds)
                                          \cup SetTaskStatus(seen.tw.conds), failed)
    BY <1>2 DEF DeleteExpiredTask, TaskAssetsFail, CreateOrPatchTaskWorkload, Uncanceled
  <2>2. \A c, failed : ReturnTask(c, failed) =>
           taskC'.pc = "patch" /\ taskC'.old = taskC.old /\ taskC'.conds = c
    BY DEF ReturnTask
  <2>3. \A c, d : "Canceled" \in InitializeStatus(c) \cup SetTaskStatus(d) => "Canceled" \in c
    BY DEF InitializeStatus, SetTaskStatus
  <2>4. \A c : "Canceled" \in InitializeStatus(c) => "Canceled" \in c
    BY DEF InitializeStatus
  <2> QED
    BY <2>1, <2>2, <2>3, <2>4 DEF Idle
<1>3. CASE HandleCancelation
  BY <1>3 DEF HandleCancelation, ReturnTask
<1>4. CASE UNCHANGED taskC
  BY <1>4
<1> QED
  BY <1>1, <1>2, <1>3, <1>4
     DEF Next, vars, SeeTask, SeeWorkload, SeeJob, CreateTask, CancelTask, TaskController, WorkloadController,
         Cluster, ReadWorkload, UpdateTaskWorkloadStatus, CreateJob, PatchWorkload, AppDeleted, Resync,
         TimerFires, TaskTTL, JobStarts, JobEnds, JobExpires, CollectWorkload, CollectJob

\* A workload comes to life only when a task is reconciled that was not
\* cancelled when it was read.
LEMMA WorkloadCreated ==
    ASSUME TypeInv, [Next]_vars, tw.phase # "live", tw'.phase = "live"
    PROVE  /\ CreateOrPatchTaskWorkload /\ tw' = [phase |-> "live", conds |-> {}]
           /\ taskC.pc = "read" /\ ~taskC.old.canceled
<1>1. CASE HandleCancelation \/ CollectWorkload
  BY <1>1, NoObjects DEF HandleCancelation, CollectWorkload, DeleteTaskWorkload
<1>2. CASE CreateOrPatchTaskWorkload
  BY <1>2 DEF CreateOrPatchTaskWorkload, Uncanceled
<1>3. CASE PatchWorkload
  BY <1>3 DEF PatchWorkload
<1>4. CASE UNCHANGED tw
  BY <1>4
<1> QED
  BY <1>1, <1>2, <1>3, <1>4
     DEF Next, vars, SeeTask, SeeWorkload, SeeJob, CreateTask, CancelTask, TaskController, WorkloadController,
         Cluster, ReadTask, PatchTask, DeleteExpiredTask, TaskAssetsFail, ReadWorkload,
         UpdateTaskWorkloadStatus, CreateJob, AppDeleted, Resync,
         TimerFires, TaskTTL, JobStarts, JobEnds, JobExpires, CollectJob, Crash

\* Once the workload is given up, it stays so.
LEMMA DoneStays ==
    ASSUME TypeInv, [Next]_vars, Done
    PROVE  Done'
<1>1. Stopped(task') /\ Stopped(seen'.task)
  BY StoppedStays, SeenTask DEF Done
<1>2. tw'.phase # "live"
  BY WorkloadCreated DEF Done
<1>3. taskC'.pc = "read" => taskC'.old.canceled
  <2>1. CASE ReadTask /\ taskC' = [pc |-> "read", old |-> seen.task]
    BY <2>1, NoObjects DEF Done, Stopped, ReadTask, Idle
  <2> QED
    BY <2>1, TaskWorker DEF Done
<1> QED
  BY <1>1, <1>2, <1>3 DEF Done

\* Every step keeps what is known of cancelled tasks.
LEMMA NextCancel ==
    ASSUME TypeInv, CancelInv, [Next]_vars
    PROVE  CancelInv'
<1>1. Stopped(seen'.task) => Stopped(task')
  BY StoppedStays, SeenTask DEF CancelInv
<1>2. taskC'.pc # "idle" /\ taskC'.old.canceled => Stopped(seen'.task)
  <2>1. CASE ReadTask /\ taskC' = [pc |-> "read", old |-> seen.task]
    BY <2>1 DEF ReadTask, Stopped, TypeInv, SeenInv, Sound
  <2>2. CASE taskC'.pc # "idle" /\ taskC.pc # "idle" /\ taskC'.old = taskC.old
    BY <2>2, StoppedStays, SeenTask DEF CancelInv
  <2> QED
    BY <2>1, <2>2, TaskWorker
<1>3. ASSUME HandleCancelation
      PROVE  "Canceled" \in taskC'.conds => Done'
  <2>1. Stopped(task') /\ Stopped(seen'.task)
    BY <1>3, StoppedStays, SeenTask DEF HandleCancelation, CancelInv
  <2>2. taskC'.pc = "patch"
    BY <1>3 DEF HandleCancelation, ReturnTask
  <2>3. CASE tw' = DeleteTaskWorkload
    BY <2>1, <2>2, <2>3, NoObjects DEF DeleteTaskWorkload, Done
  <2>4. CASE ReturnTask(taskC.old.conds, TRUE)
    BY <1>3, <2>4, DoneStays DEF ReturnTask, CancelInv, HandleCancelation
  <2> QED
    BY <1>3, <2>3, <2>4 DEF HandleCancelation
<1>4. "Canceled" \in task'.conds => Done'
  <2>1. CASE PatchTask
    <3>1. task \in CFTask
      BY DEF TypeInv, ObjectsInv
    <3> QED
      BY <2>1, <3>1, DoneStays DEF PatchTask, MergePatch, CancelInv, CFTask
  <2>2. CASE ~PatchTask
    <3>1. task'.conds = task.conds \/ task'.conds = {}
      BY <2>2, NoObjects
         DEF Next, vars, SeeTask, SeeWorkload, SeeJob, CreateTask, CancelTask, TaskController,
             WorkloadController, Cluster, ReadTask, DeleteExpiredTask, HandleCancelation, TaskAssetsFail,
             CreateOrPatchTaskWorkload, ReadWorkload, UpdateTaskWorkloadStatus, CreateJob, PatchWorkload,
             AppDeleted, Resync, TimerFires, TaskTTL, Crash, JobStarts, JobEnds, JobExpires,
             CollectWorkload, CollectJob, TypeInv, ObjectsInv, CFTask
    <3> QED
      BY <3>1, DoneStays DEF CancelInv
  <2> QED
    BY <2>1, <2>2
<1>5. "Canceled" \in seen'.task.conds => Done'
  BY SeenTask, DoneStays DEF CancelInv
<1>6. taskC'.pc # "idle" /\ "Canceled" \in taskC'.old.conds => Done'
  BY TaskWorker, DoneStays DEF CancelInv
<1>7. taskC'.pc = "patch" /\ "Canceled" \in taskC'.conds => Done'
  BY <1>3, TaskWorker, DoneStays DEF CancelInv
<1> QED
  BY <1>1, <1>2, <1>4, <1>5, <1>6, <1>7 DEF CancelInv

\* A task that is shown as cancelled has no workload and gets none: the worker
\* that could create one has read the task before the cancellation, and it is
\* the same worker that sets the condition.
THEOREM CanceledStaysStopped == Spec => []CanceledHasNoWorkload
<1>1. Init => TypeInv /\ CancelInv
  <2>1. Init => CancelInv
    BY DEF Init, CancelInv, Stopped, NoTask, NoWorkload, NoJob, Idle
  <2> QED
    BY <2>1, InitType
<1>2. TypeInv /\ CancelInv /\ [Next]_vars => (TypeInv /\ CancelInv)'
  BY NextType, NextCancel
<1>3. CancelInv => CanceledHasNoWorkload
  BY CancelSuffices
<1> QED
  BY <1>1, <1>2, <1>3, PTL DEF Spec

-----------------------------------------------------------------------------
(* Runs.                                                                   *)

\* The runner knows that it has created the job.
NoMore ==
    /\ "Initialized" \in tw.conds /\ "Initialized" \in seen.tw.conds
    /\ twC.pc # "idle" => "Initialized" \in twC.old.conds

RunsInv ==
    ~Stopped(task) =>
        /\ tw.phase # "gone"
        /\ tw.phase = "absent" => /\ ~job.exists /\ seen.tw.phase = "absent"
                                  /\ twC.pc = "idle" /\ history.runs = 0
        /\ history.runs # 0 => /\ history.runs = 1
                               /\ job.exists => job.state # "new"
                               /\ ~job.exists => NoMore

\* It gives the property of runs.
LEMMA RunsSuffices ==
    ASSUME TypeInv, RunsInv
    PROVE  RunsOnce
<1>1. history.runs \in 0..2
  BY DEF TypeInv, RestInv
<1> QED
  BY <1>1 DEF RunsInv, RunsOnce, Stopped

\* The parts of it, for a task that goes on.
LEMMA RunsParts ==
    ASSUME RunsInv, ~Stopped(task)
    PROVE  /\ tw.phase # "gone"
           /\ tw.phase = "absent" => /\ ~job.exists /\ seen.tw.phase = "absent"
                                     /\ twC.pc = "idle" /\ history.runs = 0
           /\ history.runs # 0 => /\ history.runs = 1
                                  /\ job.exists => job.state # "new"
                                  /\ ~job.exists => NoMore
BY DEF RunsInv

\* Steps of the job task runner.
LEMMA WorkloadControllerRuns ==
    ASSUME TypeInv, RunsInv, ~Stopped(task), WorkloadController
    PROVE  RunsInv'
<1>1. UNCHANGED <<task, seen, history>>
  BY DEF WorkloadController, ReadWorkload, UpdateTaskWorkloadStatus, CreateJob, PatchWorkload
<1>2. CASE ReadWorkload
  <2>1. UNCHANGED <<tw, job>> /\ (twC'.pc = "idle" \/ (twC'.old = seen.tw /\ seen.tw.phase = "live"))
    BY <1>2 DEF ReadWorkload, Idle
  <2> QED
    BY <1>1, <2>1, RunsParts DEF RunsInv, NoMore
<1>3. CASE UpdateTaskWorkloadStatus \/ CreateJob
  <2>1. /\ twC.pc = "read" /\ twC'.old = twC.old /\ UNCHANGED tw
        /\ \/ UNCHANGED job
           \/ job' = WorkloadToJob /\ ~job.exists /\ "Initialized" \notin twC.old.conds
    BY <1>3 DEF UpdateTaskWorkloadStatus, CreateJob, ReturnWorkload, MayCreateJob
  <2>2. CASE UNCHANGED job
    BY <1>1, <2>1, <2>2, RunsParts DEF RunsInv, NoMore
  <2>3. CASE job' = WorkloadToJob /\ ~job.exists /\ "Initialized" \notin twC.old.conds
    <3>1. history.runs = 0 /\ tw.phase # "absent"
      BY <2>1, <2>3, RunsParts DEF NoMore
    <3> QED
      BY <1>1, <2>1, <3>1, RunsParts DEF RunsInv
  <2> QED
    BY <2>1, <2>2, <2>3
<1>4. CASE PatchWorkload
  <2>1. twC.pc = "patch" /\ twC'.pc = "idle" /\ UNCHANGED job
    BY <1>4 DEF PatchWorkload, Idle
  <2>2. tw'.phase = tw.phase /\ tw'.conds \in {tw.conds, twC.conds}
    BY <1>4 DEF PatchWorkload, MergePatch, TypeInv, ObjectsInv, TaskWorkload
  <2>3. twC.old.conds \subseteq twC.conds
    BY <2>1 DEF TypeInv, WorkloadCInv
  <2>4. NoMore => NoMore'
    BY <1>1, <2>1, <2>2, <2>3 DEF NoMore
  <2> QED
    BY <1>1, <2>1, <2>2, <2>4, RunsParts DEF RunsInv
<1> QED
  BY <1>2, <1>3, <1>4 DEF WorkloadController

\* Every step keeps what is known of runs.
LEMMA NextRuns ==
    ASSUME TypeInv, CancelInv, RunsInv, [Next]_vars
    PROVE  RunsInv'
<1> SUFFICES ASSUME ~Stopped(task')
             PROVE  RunsInv'
  BY DEF RunsInv
<1>1. ~Stopped(task)
  BY StoppedStays
<1>2. CASE SeeTask \/ SeeWorkload \/ SeeJob \/ Crash
  <2>1. UNCHANGED <<tw, job, history>> /\ (twC' = twC \/ twC'.pc = "idle")
    BY <1>2 DEF SeeTask, SeeWorkload, SeeJob, Crash, Idle
  <2>2. seen'.tw \in {seen.tw, tw}
    BY <1>2 DEF SeeTask, SeeWorkload, SeeJob, Crash, TypeInv, SeenInv
  <2> QED
    BY <1>1, <2>1, <2>2, RunsParts DEF RunsInv, NoMore
<1>3. CASE UNCHANGED <<tw, job, seen, twC, history>>
  BY <1>1, <1>3, RunsParts DEF RunsInv, NoMore
<1>4. CASE CreateOrPatchTaskWorkload
  <2>1. /\ UNCHANGED <<job, seen, twC, history>>
        /\ \/ UNCHANGED tw
           \/ tw.phase # "live" /\ tw' = [phase |-> "live", conds |-> {}]
    BY <1>4 DEF CreateOrPatchTaskWorkload
  <2>2. tw.phase # "live" => tw.phase = "absent"
    BY <1>1, RunsParts, ObjectFields DEF TypeInv, ObjectsInv
  <2>3. CASE tw.phase # "live" /\ tw' = [phase |-> "live", conds |-> {}]
    BY <1>1, <2>1, <2>2, <2>3, RunsParts DEF RunsInv
  <2> QED
    BY <1>3, <2>1, <2>3
<1>5. CASE HandleCancelation
  BY <1>1, <1>5 DEF HandleCancelation, CancelInv
<1>6. CASE JobStarts \/ JobEnds
  <2>1. /\ UNCHANGED <<tw, seen, twC>> /\ job.exists
        /\ job'.exists = job.exists /\ job'.state # "new"
        /\ JobStarts => job.state = "new" /\ history'.runs = IF history.runs = 0 THEN 1 ELSE 2
        /\ JobEnds => history'.runs = history.runs
    BY <1>6 DEF JobStarts, JobEnds, TypeInv, ObjectsInv, RestInv, Job
  <2> QED
    BY <1>1, <1>6, <2>1, RunsParts DEF RunsInv
<1>7. CASE JobExpires
  <2>1. /\ UNCHANGED <<tw, seen, twC, history>> /\ tw.phase = "live" /\ twC.pc = "idle"
        /\ seen.tw = tw /\ tw.conds # {} /\ ~job'.exists
    BY <1>7, NoObjects DEF JobExpires, Idle
  <2>2. "Initialized" \in tw.conds
    BY <2>1, ObjectFields DEF TypeInv, ObjectsInv, Conditions
  <2> QED
    BY <1>1, <2>1, <2>2, RunsParts DEF RunsInv, NoMore
<1>8. CASE CollectWorkload \/ CollectJob
  <2>1. tw.phase # "live" => tw.phase = "absent"
    BY <1>1, RunsParts, ObjectFields DEF TypeInv, ObjectsInv
  <2> QED
    BY <1>1, <1>8, <2>1, RunsParts DEF CollectWorkload, CollectJob, Stopped
<1> QED
  BY <1>1, <1>2, <1>3, <1>4, <1>5, <1>6, <1>7, <1>8, WorkloadControllerRuns
     DEF Next, vars, CreateTask, CancelTask, TaskController, Cluster, ReadTask, PatchTask, DeleteExpiredTask,
         TaskAssetsFail, AppDeleted, Resync, TimerFires, TaskTTL

\* The command of a task that is neither cancelled nor deleted is started at
\* most once, for every lag of the cache and any number of failures and
\* restarts: a job that is gone left its condition at the workload, which the
\* runner has seen before it looks for the job again.
THEOREM TaskRunsOnce == Spec => []RunsOnce
<1>1. Init => TypeInv /\ CancelInv /\ RunsInv
  <2>1. Init => CancelInv
    BY DEF Init, CancelInv, Stopped, NoTask, NoWorkload, NoJob, Idle
  <2>2. Init => RunsInv
    BY DEF Init, RunsInv, NoTask, NoWorkload, NoJob, Idle
  <2> QED
    BY <2>1, <2>2, InitType
<1>2. TypeInv /\ CancelInv /\ RunsInv /\ [Next]_vars => (TypeInv /\ CancelInv /\ RunsInv)'
  BY NextType, NextCancel, NextRuns
<1>3. TypeInv /\ RunsInv => RunsOnce
  BY RunsSuffices
<1> QED
  BY <1>1, <1>2, <1>3, PTL DEF Spec

-----------------------------------------------------------------------------
(***************************************************************************)
(* No wake-up is lost.  This is what remains of TaskEnds without fairness: *)
(* when cache, queues and workers have come to rest, the task shows what   *)
(* became of its job.  Workers decide on what the cache had when they read *)
(* it, and their patches overwrite what was written meanwhile; whatever    *)
(* they miss arrives in the cache later and queues the object again.       *)
(***************************************************************************)

\* The cache has caught up, and no controller has anything to do.
Quiet ==
    /\ seen = [task |-> task, tw |-> tw, job |-> job]
    /\ queue = {} /\ taskC = Idle /\ twC = Idle

\* Then a cancelled task is shown as cancelled and completed, and any other
\* has a workload and the conditions of its job, or is completed when the job
\* is gone (SetupWithManager of both controllers, ReconcileResource).
RestShowsTheJob ==
    Quiet /\ task.phase = "live" =>
        IF task.canceled THEN "Canceled" \in task.conds /\ IsCompleted(task.conds)
        ELSE /\ tw.phase = "live"
             /\ job.exists => GetStatusConditions(job.state) \subseteq task.conds
             /\ ~job.exists => IsCompleted(task.conds)

\* The conditions of a task that is reconciled with what the cache has.
TaskDone(conds) ==
    IF seen.task.canceled THEN "Canceled" \in conds /\ IsCompleted(conds)
    ELSE ~Stopped(task) =>
           /\ "Initialized" \in conds /\ tw.phase = "live"
           /\ seen.tw.phase = "live" => SetTaskStatus(seen.tw.conds) \subseteq conds

\* Unless the task is queued again, its worker is at the copy the cache has
\* and will write what that asks for; and at rest it is written.
TaskWake ==
    "task" \notin queue =>
        /\ taskC.pc # "idle" => taskC.old = seen.task
        /\ taskC.pc = "patch" /\ ~taskC.failed => TaskDone(taskC.conds)
        /\ taskC.pc = "idle" /\ task.phase = "live" /\ seen.task = task => TaskDone(task.conds)

\* The cache has no task that was never created.
TaskPresent == seen.task.phase = "live" => task.phase # "absent"

\* The same for the workload and what the cache has of the job.
WorkloadDone(conds) ==
    /\ "Initialized" \in conds
    /\ seen.job.exists => GetStatusConditions(seen.job.state) \subseteq conds
WorkloadWake ==
    ~Stopped(task) /\ "tw" \notin queue =>
        /\ twC.pc # "idle" => twC.old = seen.tw
        /\ twC.pc = "patch" /\ ~twC.failed => WorkloadDone(twC.conds)
        /\ twC.pc = "idle" /\ tw.phase = "live" /\ seen.tw = tw => WorkloadDone(tw.conds)

\* A job that is not there was not created yet, or how it ended was recorded
\* before it went.
Unstarted ==
    /\ "Initialized" \notin tw.conds /\ "Initialized" \notin seen.tw.conds
    /\ twC.pc # "idle" => "Initialized" \notin twC.old.conds
    /\ twC.pc = "patch" => "Initialized" \notin twC.conds
    /\ ~seen.job.exists
Ended ==
    /\ tw.phase = "live" /\ IsCompleted(tw.conds) /\ IsCompleted(seen.tw.conds)
    /\ twC.pc # "idle" => IsCompleted(twC.old.conds)
    /\ twC.pc = "patch" => IsCompleted(twC.conds)
JobKept == ~Stopped(task) /\ ~job.exists => Unstarted \/ Ended

\* Steps that leave the task, its worker and what that has read alone.
LEMMA TaskWakeFrame ==
    ASSUME TaskWake, UNCHANGED <<task, taskC>>, "task" \in queue => "task" \in queue',
           seen'.task = seen.task, seen'.tw = seen.tw,
           tw.phase = "live" => tw'.phase = "live" \/ Stopped(task)
    PROVE  TaskWake'
BY DEF TaskWake, TaskDone, Stopped

\* The cache has the task only when there is one, and no step but its creation
\* ends its absence.
LEMMA NextPresent ==
    ASSUME TypeInv, TaskPresent, [Next]_vars
    PROVE  TaskPresent'
<1>1. task.phase # "absent" => task'.phase # "absent"
  <2>1. task \in CFTask
    BY DEF TypeInv, ObjectsInv
  <2>2. CASE CreateTask \/ CancelTask \/ PatchTask
    BY <2>1, <2>2 DEF CreateTask, CancelTask, PatchTask, CFTask
  <2>3. CASE task' = task \/ task' = TaskGone
    BY <2>3, NoObjects
  <2> QED
    BY <2>2, <2>3
       DEF Next, vars, SeeTask, SeeWorkload, SeeJob, TaskController, WorkloadController, Cluster, ReadTask,
           DeleteExpiredTask, HandleCancelation, TaskAssetsFail, CreateOrPatchTaskWorkload, ReadWorkload,
           UpdateTaskWorkloadStatus, CreateJob, PatchWorkload, AppDeleted, Resync, TimerFires, TaskTTL,
           Crash, JobStarts, JobEnds, JobExpires, CollectWorkload, CollectJob
<1> QED
  BY <1>1, SeenTask DEF TaskPresent

\* A merge patch that leaves the object as the cache has it has written what
\* the worker decided on.
LEMMA PatchedAsSeen ==
    ASSUME NEW current, NEW old, NEW new, MergePatch(current, old, new) = old
    PROVE  new = old
BY DEF MergePatch

\* The task controller.
LEMMA TaskControllerWake ==
    ASSUME TypeInv, CancelInv, RunsInv, TaskWake, TaskController
    PROVE  TaskWake'
<1>1. UNCHANGED seen
  BY DEF TaskController, ReadTask, DeleteExpiredTask, HandleCancelation, TaskAssetsFail,
         CreateOrPatchTaskWorkload, PatchTask
<1>2. \A c, f : ReturnTask(c, f) =>
         taskC'.pc = "patch" /\ taskC'.old = taskC.old /\ taskC'.conds = c /\ taskC'.failed = f
  BY DEF ReturnTask
<1>3. CASE ReadTask
  <2>1. /\ UNCHANGED <<task, tw>> /\ taskC = Idle
        /\ taskC' = IF seen.task.phase = "live" THEN [pc |-> "read", old |-> seen.task] ELSE Idle
    BY <1>3 DEF ReadTask
  <2>2. CASE seen.task.phase = "live"
    BY <1>1, <2>1, <2>2 DEF TaskWake
  <2>3. CASE seen.task.phase # "live"
    BY <1>1, <2>1, <2>3 DEF TaskWake, Idle
  <2> QED
    BY <2>2, <2>3
<1>4. CASE DeleteExpiredTask
  <2>1. /\ taskC.pc = "read" /\ queue' = queue
        /\ \/ task' = TaskGone /\ taskC' = Idle
           \/ ReturnTask(taskC.old.conds, TRUE) /\ task' = task
    BY <1>4 DEF DeleteExpiredTask
  <2>2. CASE task' = TaskGone /\ taskC' = Idle
    BY <2>2, NoObjects DEF TaskWake, Idle
  <2>3. CASE ReturnTask(taskC.old.conds, TRUE) /\ task' = task
    BY <1>1, <1>2, <2>1, <2>3 DEF TaskWake
  <2> QED
    BY <2>1, <2>2, <2>3
<1>5. CASE HandleCancelation
  <2> DEFINE done == taskC.old.conds \cup {"Canceled"}
                       \cup (IF "Succeeded" \in taskC.old.conds THEN {} ELSE {"Failed"})
  <2>1. /\ taskC.pc = "read" /\ queue' = queue /\ taskC.old.canceled
        /\ ReturnTask(done, FALSE) \/ ReturnTask(taskC.old.conds, TRUE)
    BY <1>5 DEF HandleCancelation
  <2>2. "Canceled" \in done /\ IsCompleted(done)
    BY DEF IsCompleted
  <2> HIDE DEF done
  <2>3. "task" \notin queue => taskC.old = seen.task
    BY <2>1 DEF TaskWake
  <2> QED
    BY <1>1, <1>2, <2>1, <2>2, <2>3 DEF TaskWake, TaskDone
<1>6. CASE TaskAssetsFail
  <2>1. /\ taskC.pc = "read" /\ queue' = queue
        /\ \E c : ReturnTask(c, TRUE)
    BY <1>6 DEF TaskAssetsFail, Uncanceled
  <2> QED
    BY <1>1, <1>2, <2>1 DEF TaskWake
<1>7. CASE CreateOrPatchTaskWorkload
  <2> DEFINE conds == InitializeStatus(taskC.old.conds)
  <2>1. /\ taskC.pc = "read" /\ ~taskC.old.canceled /\ UNCHANGED <<task, queue>>
        /\ \/ /\ seen.tw.phase = "live" /\ tw' = tw
              /\ ReturnTask(conds \cup SetTaskStatus(seen.tw.conds), FALSE)
           \/ ReturnTask(conds, TRUE)
           \/ /\ seen.tw.phase # "live" /\ tw' = [phase |-> "live", conds |-> {}]
              /\ ReturnTask(conds, FALSE)
    BY <1>7 DEF CreateOrPatchTaskWorkload, Uncanceled
  <2>2. "Initialized" \in conds
    BY DEF InitializeStatus
  <2> HIDE DEF conds
  <2>3. "task" \notin queue => taskC.old = seen.task
    BY <2>1 DEF TaskWake
  <2>4. ~Stopped(task) /\ seen.tw.phase = "live" => tw.phase = "live"
    BY RunsParts, ObjectFields DEF TypeInv, ObjectsInv
  <2>5. CASE /\ seen.tw.phase = "live" /\ tw' = tw
             /\ ReturnTask(conds \cup SetTaskStatus(seen.tw.conds), FALSE)
    <3>1. /\ taskC'.pc = "patch" /\ taskC'.old = taskC.old
          /\ taskC'.conds = conds \cup SetTaskStatus(seen.tw.conds)
      BY <1>2, <2>5
    <3>2. "task" \notin queue => TaskDone(taskC.conds)'
      BY <1>1, <2>1, <2>2, <2>3, <2>4, <2>5, <3>1 DEF TaskDone
    <3> QED
      BY <1>1, <2>1, <2>3, <3>1, <3>2 DEF TaskWake
  <2>6. CASE ReturnTask(conds, TRUE)
    BY <1>1, <1>2, <2>1, <2>6 DEF TaskWake
  <2>7. CASE /\ seen.tw.phase # "live" /\ tw' = [phase |-> "live", conds |-> {}]
             /\ ReturnTask(conds, FALSE)
    <3>1. taskC'.pc = "patch" /\ taskC'.old = taskC.old /\ taskC'.conds = conds
      BY <1>2, <2>7
    <3>2. "task" \notin queue => TaskDone(taskC.conds)'
      BY <1>1, <2>1, <2>2, <2>3, <2>7, <3>1 DEF TaskDone
    <3> QED
      BY <1>1, <2>1, <2>3, <3>1, <3>2 DEF TaskWake
  <2> QED
    BY <2>1, <2>5, <2>6, <2>7
<1>8. CASE PatchTask
  <2> DEFINE conds == MergePatch(task.conds, taskC.old.conds, taskC.conds)
  <2>1. taskC.pc = "patch" /\ taskC' = Idle /\ tw' = tw /\ taskC'.pc = "idle"
    BY <1>8 DEF PatchTask, Idle
  <2>2. \/ "task" \in queue'
        \/ /\ task.phase = "live" /\ ~taskC.failed /\ queue' = queue
           /\ task' = [task EXCEPT !.conds = conds]
    BY <1>8 DEF PatchTask
  <2>3. CASE "task" \in queue'
    BY <2>3 DEF TaskWake
  <2>4. CASE /\ task.phase = "live" /\ ~taskC.failed /\ queue' = queue
             /\ task' = [task EXCEPT !.conds = conds]
    <3> SUFFICES ASSUME "task" \notin queue, seen'.task = task'
                 PROVE  TaskDone(task.conds)'
      BY <2>1, <2>4 DEF TaskWake
    <3>1. taskC.old = seen.task /\ TaskDone(taskC.conds)
      BY <2>1, <2>4 DEF TaskWake
    <3>2. task \in CFTask /\ task'.conds = conds /\ task'.phase = task.phase
          /\ task'.canceled = task.canceled
      BY <2>4 DEF TypeInv, ObjectsInv, CFTask
    <3>3. conds = taskC.old.conds
      BY <1>1, <3>1, <3>2
    <3>4. task'.conds = taskC.conds
      BY <3>2, <3>3, PatchedAsSeen
    <3> QED
      BY <1>1, <2>1, <3>1, <3>2, <3>4 DEF TaskDone, Stopped
  <2> QED
    BY <2>2, <2>3, <2>4
<1> QED
  BY <1>3, <1>4, <1>5, <1>6, <1>7, <1>8 DEF TaskController

\* Every step keeps the task queued as long as something is left to do.
LEMMA NextTaskWake ==
    ASSUME TypeInv, CancelInv, RunsInv, TaskPresent, TaskWake, [Next]_vars
    PROVE  TaskWake'
<1>1. CASE SeeTask \/ SeeWorkload \/ Resync \/ TimerFires \/ Crash
  <2>1. "task" \in queue'
    BY <1>1 DEF SeeTask, SeeWorkload, Resync, TimerFires, Crash
  <2> QED
    BY <2>1 DEF TaskWake
<1>2. CASE \/ SeeJob \/ WorkloadController \/ TaskTTL \/ JobStarts \/ JobEnds \/ JobExpires
           \/ CollectWorkload \/ CollectJob \/ UNCHANGED vars
  <2>1. UNCHANGED <<task, taskC>> /\ ("task" \in queue => "task" \in queue')
    BY <1>2 DEF SeeJob, WorkloadController, ReadWorkload, UpdateTaskWorkloadStatus, CreateJob,
                PatchWorkload, TaskTTL, JobStarts, JobEnds, JobExpires, CollectWorkload,
                CollectJob, vars
  <2>2. seen'.task = seen.task /\ seen'.tw = seen.tw
    BY <1>2 DEF SeeJob, WorkloadController, ReadWorkload, UpdateTaskWorkloadStatus, CreateJob,
                PatchWorkload, TaskTTL, JobStarts, JobEnds, JobExpires, CollectWorkload,
                CollectJob, vars, TypeInv, SeenInv
  <2>3. tw.phase = "live" => tw'.phase = "live" \/ Stopped(task)
    <3>1. CASE PatchWorkload
      BY <3>1 DEF PatchWorkload, TypeInv, ObjectsInv, TaskWorkload
    <3>2. CASE CollectWorkload
      BY <3>2 DEF CollectWorkload, Stopped
    <3>3. CASE UNCHANGED tw
      BY <3>3
    <3> QED
      BY <1>2, <3>1, <3>2, <3>3
         DEF SeeJob, WorkloadController, ReadWorkload, UpdateTaskWorkloadStatus, CreateJob,
             TaskTTL, JobStarts, JobEnds, JobExpires, CollectJob, vars
  <2> QED
    BY <2>1, <2>2, <2>3, TaskWakeFrame
<1>3. CASE AppDeleted
  <2>1. UNCHANGED <<tw, seen, queue, taskC>> /\ task'.phase = "gone"
    BY <1>3, NoObjects DEF AppDeleted
  <2> QED
    BY <2>1 DEF TaskWake, TaskDone, Stopped
<1>4. CASE CreateTask
  <2>1. /\ UNCHANGED <<tw, seen, queue, taskC>> /\ task.phase = "absent" /\ task'.phase = "live"
    BY <1>4, NoObjects DEF CreateTask
  <2>2. seen'.task # task'
    BY <2>1 DEF TaskPresent
  <2> QED
    BY <2>1, <2>2 DEF TaskWake, TaskDone, Stopped
<1>5. CASE CancelTask
  <2>1. /\ UNCHANGED <<tw, seen, queue, taskC>> /\ task.phase = "live"
        /\ task' = [task EXCEPT !.canceled = TRUE]
    BY <1>5 DEF CancelTask
  <2>2. Stopped(task') /\ task' = [task EXCEPT !.canceled = TRUE] /\ task \in CFTask
        /\ task'.conds = task.conds /\ task'.canceled /\ task'.phase = "live"
    BY <2>1 DEF Stopped, TypeInv, ObjectsInv, CFTask
  <2>3. seen'.task = task' => task.canceled
    BY <2>1, <2>2 DEF CancelInv, Stopped
  <2>4. task.canceled => task' = task
    BY <2>2 DEF CFTask
  <2> QED
    BY <2>1, <2>2, <2>3, <2>4 DEF TaskWake, TaskDone
<1> QED
  BY <1>1, <1>2, <1>3, <1>4, <1>5, TaskControllerWake DEF Next, Cluster

\* What the job task runner returns adds conditions to those it has read.
LEMMA WorkloadReturns ==
    ASSUME NEW conds, NEW failed, ReturnWorkload(conds, failed)
    PROVE  /\ twC'.pc = "patch" /\ twC'.old = twC.old /\ twC'.failed = failed
           /\ twC'.conds = twC.old.conds \cup conds
BY DEF ReturnWorkload

\* The conditions of a job begin with the first, and all of them are those of
\* a task, too.
LEMMA JobShows ==
    ASSUME NEW state \in {"new", "running", "succeeded", "failed"}
    PROVE  /\ "Initialized" \in GetStatusConditions(state)
           /\ GetStatusConditions(state) \subseteq {"Initialized", "Started", "Succeeded", "Failed"}
BY DEF GetStatusConditions

\* The job task runner wakes up for the workload.
LEMMA WorkloadControllerWake ==
    ASSUME TypeInv, ~Stopped(task), WorkloadWake, WorkloadController
    PROVE  WorkloadWake'
<1>1. UNCHANGED <<task, seen>>
  BY DEF WorkloadController, ReadWorkload, UpdateTaskWorkloadStatus, CreateJob, PatchWorkload
<1>2. seen.job.state \in {"new", "running", "succeeded", "failed"}
  BY ObjectFields DEF TypeInv, SeenInv
<1>3. CASE ReadWorkload
  <2>1. /\ tw' = tw /\ twC = Idle
        /\ twC' = IF seen.tw.phase = "live" THEN [pc |-> "read", old |-> seen.tw] ELSE Idle
    BY <1>3 DEF ReadWorkload
  <2>2. CASE seen.tw.phase = "live"
    BY <1>1, <2>1, <2>2 DEF WorkloadWake
  <2>3. CASE seen.tw.phase # "live"
    BY <1>1, <2>1, <2>3 DEF WorkloadWake, Idle
  <2> QED
    BY <2>2, <2>3
<1>4. CASE UpdateTaskWorkloadStatus \/ CreateJob
  <2>1. /\ twC.pc = "read" /\ queue' = queue
        /\ \/ seen.job.exists /\ ReturnWorkload(GetStatusConditions(seen.job.state), FALSE)
           \/ ReturnWorkload({}, TRUE)
           \/ /\ ~seen.job.exists /\ "Initialized" \in twC.old.conds
              /\ ReturnWorkload({}, FALSE)
           \/ ~seen.job.exists /\ ReturnWorkload(GetStatusConditions("new"), FALSE)
    BY <1>4 DEF UpdateTaskWorkloadStatus, CreateJob, MayCreateJob
  <2>2. "tw" \notin queue => twC.old = seen.tw
    BY <2>1 DEF WorkloadWake
  <2>3. CASE seen.job.exists /\ ReturnWorkload(GetStatusConditions(seen.job.state), FALSE)
    <3>1. /\ twC'.pc = "patch" /\ twC'.old = twC.old
          /\ twC'.conds = twC.old.conds \cup GetStatusConditions(seen.job.state)
      BY <2>3, WorkloadReturns
    <3>2. "Initialized" \in twC'.conds /\ GetStatusConditions(seen.job.state) \subseteq twC'.conds
      BY <1>2, <3>1, JobShows
    <3> QED
      BY <1>1, <2>1, <2>2, <3>1, <3>2 DEF WorkloadWake, WorkloadDone
  <2>4. CASE ReturnWorkload({}, TRUE)
    BY <1>1, <2>1, <2>2, <2>4, WorkloadReturns DEF WorkloadWake
  <2>5. CASE \/ /\ ~seen.job.exists /\ "Initialized" \in twC.old.conds
                /\ ReturnWorkload({}, FALSE)
             \/ ~seen.job.exists /\ ReturnWorkload(GetStatusConditions("new"), FALSE)
    <3>0. "Initialized" \in GetStatusConditions("new")
      BY DEF GetStatusConditions
    <3>1. /\ twC'.pc = "patch" /\ twC'.old = twC.old /\ ~seen.job.exists
          /\ "Initialized" \in twC'.conds
      <4>1. CASE "Initialized" \in twC.old.conds /\ ReturnWorkload({}, FALSE)
        BY <2>5, <4>1, WorkloadReturns
      <4>2. CASE ReturnWorkload(GetStatusConditions("new"), FALSE)
        BY <2>5, <3>0, <4>2, WorkloadReturns
      <4> QED
        BY <2>5, <4>1, <4>2
    <3> QED
      BY <1>1, <2>1, <2>2, <3>1 DEF WorkloadWake, WorkloadDone
  <2> QED
    BY <2>1, <2>3, <2>4, <2>5
<1>5. CASE PatchWorkload
  <2> DEFINE conds == MergePatch(tw.conds, twC.old.conds, twC.conds)
  <2>1. twC.pc = "patch" /\ twC'.pc = "idle"
    BY <1>5 DEF PatchWorkload, Idle
  <2>2. \/ "tw" \in queue'
        \/ /\ tw.phase = "live" /\ ~twC.failed /\ queue' = queue
           /\ tw' = [tw EXCEPT !.conds = conds]
    BY <1>5 DEF PatchWorkload
  <2>3. CASE "tw" \in queue'
    BY <2>3 DEF WorkloadWake
  <2>4. CASE /\ tw.phase = "live" /\ ~twC.failed /\ queue' = queue
             /\ tw' = [tw EXCEPT !.conds = conds]
    <3> SUFFICES ASSUME "tw" \notin queue, seen'.tw = tw'
                 PROVE  WorkloadDone(tw.conds)'
      BY <2>1, <2>4 DEF WorkloadWake
    <3>1. twC.old = seen.tw /\ WorkloadDone(twC.conds)
      BY <2>1, <2>4 DEF WorkloadWake
    <3>2. tw'.conds = conds
      BY <2>4 DEF TypeInv, ObjectsInv, TaskWorkload
    <3>3. conds = twC.old.conds
      BY <1>1, <3>1, <3>2
    <3>4. tw'.conds = twC.conds
      BY <3>2, <3>3, PatchedAsSeen
    <3> QED
      BY <1>1, <3>1, <3>4 DEF WorkloadDone
  <2> QED
    BY <2>2, <2>3, <2>4
<1> QED
  BY <1>3, <1>4, <1>5 DEF WorkloadController

\* Every step keeps the workload of a task that goes on queued as long as
\* something is left to do.
LEMMA NextWorkloadWake ==
    ASSUME TypeInv, CancelInv, RunsInv, WorkloadWake, [Next]_vars
    PROVE  WorkloadWake'
<1> SUFFICES ASSUME ~Stopped(task')
             PROVE  WorkloadWake'
  BY DEF WorkloadWake
<1>1. ~Stopped(task)
  BY StoppedStays
<1>2. CASE SeeWorkload \/ SeeJob \/ Crash
  <2>1. "tw" \in queue'
    BY <1>2 DEF SeeWorkload, SeeJob, Crash
  <2> QED
    BY <2>1 DEF WorkloadWake
<1>3. CASE /\ UNCHANGED <<tw, twC>> /\ seen'.tw = seen.tw /\ seen'.job = seen.job
           /\ "tw" \in queue => "tw" \in queue'
  BY <1>1, <1>3 DEF WorkloadWake, WorkloadDone
<1>4. CASE CreateOrPatchTaskWorkload
  <2>1. /\ UNCHANGED <<seen, queue, twC>>
        /\ \/ tw' = tw
           \/ tw.phase # "live" /\ tw' = [phase |-> "live", conds |-> {}]
    BY <1>4 DEF CreateOrPatchTaskWorkload
  <2>2. CASE tw.phase # "live" /\ tw' = [phase |-> "live", conds |-> {}]
    <3>1. tw.phase = "absent" /\ seen.tw.phase = "absent" /\ twC.pc = "idle"
      BY <1>1, <2>2, RunsParts, ObjectFields DEF TypeInv, ObjectsInv
    <3>2. seen'.tw # tw'
      BY <2>1, <2>2, <3>1
    <3> QED
      BY <2>1, <3>1, <3>2 DEF WorkloadWake
  <2> QED
    BY <1>3, <2>1, <2>2
<1>5. CASE HandleCancelation
  BY <1>1, <1>5 DEF HandleCancelation, CancelInv
<1>6. CASE CollectWorkload
  BY <1>1, <1>6 DEF CollectWorkload, Stopped
<1>7. CASE SeeTask
  BY <1>3, <1>7 DEF SeeTask, TypeInv, SeenInv
<1>8. CASE \/ CreateTask \/ CancelTask \/ ReadTask \/ DeleteExpiredTask \/ TaskAssetsFail
           \/ PatchTask \/ AppDeleted \/ Resync \/ TimerFires \/ TaskTTL \/ JobStarts
           \/ JobEnds \/ JobExpires \/ CollectJob \/ UNCHANGED vars
  BY <1>3, <1>8 DEF CreateTask, CancelTask, ReadTask, DeleteExpiredTask, TaskAssetsFail,
                    PatchTask, AppDeleted, Resync, TimerFires, TaskTTL, JobStarts, JobEnds,
                    JobExpires, CollectJob, vars
<1> QED
  BY <1>1, <1>2, <1>4, <1>5, <1>6, <1>7, <1>8, WorkloadControllerWake
     DEF Next, TaskController, Cluster

\* How the job ended stays with the workload, and with what was read of it.
LEMMA EndedStays ==
    ASSUME TypeInv, Ended, ~Stopped(task), WorkloadController
    PROVE  Ended'
<1>1. UNCHANGED seen
  BY DEF WorkloadController, ReadWorkload, UpdateTaskWorkloadStatus, CreateJob, PatchWorkload
<1>2. CASE ReadWorkload
  <2>1. tw' = tw /\ (twC' = Idle \/ twC' = [pc |-> "read", old |-> seen.tw])
    BY <1>2 DEF ReadWorkload
  <2> QED
    BY <1>1, <2>1 DEF Ended, Idle
<1>3. CASE UpdateTaskWorkloadStatus \/ CreateJob
  <2>1. twC.pc = "read" /\ tw' = tw /\ \E c, f : ReturnWorkload(c, f)
    BY <1>3 DEF UpdateTaskWorkloadStatus, CreateJob
  <2>2. /\ twC'.pc = "patch" /\ twC'.old = twC.old /\ twC.old.conds \subseteq twC'.conds
    BY <2>1, WorkloadReturns
  <2> QED
    BY <1>1, <2>1, <2>2 DEF Ended, IsCompleted
<1>4. CASE PatchWorkload
  <2>1. twC.pc = "patch" /\ twC'.pc = "idle"
    BY <1>4 DEF PatchWorkload, Idle
  <2>2. tw'.phase = tw.phase /\ tw'.conds \in {tw.conds, twC.conds}
    BY <1>4 DEF PatchWorkload, MergePatch, TypeInv, ObjectsInv, TaskWorkload
  <2> QED
    BY <1>1, <2>1, <2>2 DEF Ended
<1> QED
  BY <1>2, <1>3, <1>4 DEF WorkloadController

\* A job that never was leaves no trace.
LEMMA UnstartedStays ==
    ASSUME TypeInv, Unstarted, WorkloadController, ~job'.exists
    PROVE  Unstarted'
<1>1. UNCHANGED seen
  BY DEF WorkloadController, ReadWorkload, UpdateTaskWorkloadStatus, CreateJob, PatchWorkload
<1>2. CASE ReadWorkload
  <2>1. tw' = tw /\ (twC' = Idle \/ twC' = [pc |-> "read", old |-> seen.tw])
    BY <1>2 DEF ReadWorkload
  <2> QED
    BY <1>1, <2>1 DEF Unstarted, Idle
<1>3. CASE UpdateTaskWorkloadStatus
  BY <1>3 DEF UpdateTaskWorkloadStatus, Unstarted
<1>4. CASE CreateJob
  <2>0. job' # WorkloadToJob
    BY DEF WorkloadToJob
  <2>1. twC.pc = "read" /\ tw' = tw /\ (ReturnWorkload({}, FALSE) \/ ReturnWorkload({}, TRUE))
    BY <1>4, <2>0 DEF CreateJob
  <2>2. twC'.old = twC.old /\ twC'.conds = twC.old.conds
    BY <2>1, WorkloadReturns
  <2>3. "Initialized" \notin twC'.old.conds /\ "Initialized" \notin twC'.conds
    BY <2>1, <2>2 DEF Unstarted
  <2> QED
    BY <1>1, <2>1, <2>3 DEF Unstarted
<1>5. CASE PatchWorkload
  <2>1. twC.pc = "patch" /\ twC'.pc = "idle"
    BY <1>5 DEF PatchWorkload, Idle
  <2>2. tw'.conds \in {tw.conds, twC.conds}
    BY <1>5 DEF PatchWorkload, MergePatch, TypeInv, ObjectsInv, TaskWorkload
  <2> QED
    BY <1>1, <2>1, <2>2 DEF Unstarted
<1> QED
  BY <1>2, <1>3, <1>4, <1>5 DEF WorkloadController

\* Every step keeps the job, or what became of it.
LEMMA NextJobKept ==
    ASSUME TypeInv, CancelInv, RunsInv, JobKept, [Next]_vars
    PROVE  JobKept'
<1> SUFFICES ASSUME ~Stopped(task'), ~job'.exists
             PROVE  Unstarted' \/ Ended'
  BY DEF JobKept
<1>1. ~Stopped(task)
  BY StoppedStays
<1>2. CASE JobExpires
  <2>1. /\ UNCHANGED <<tw, seen, twC>> /\ tw.phase = "live" /\ seen.tw = tw /\ twC.pc = "idle"
        /\ IsCompleted(tw.conds)
    BY <1>2 DEF JobExpires, IsCompleted, Idle
  <2> QED
    BY <2>1 DEF Ended
<1>3. CASE CollectJob
  <2>1. tw.phase # "live" => tw.phase = "absent"
    BY <1>1, RunsParts, ObjectFields DEF TypeInv, ObjectsInv
  <2> QED
    BY <1>1, <1>3, <2>1, RunsParts DEF CollectJob
<1>4. CASE JobStarts \/ JobEnds
  BY <1>4 DEF JobStarts, JobEnds, TypeInv, ObjectsInv, Job
<1>5. CASE WorkloadController
  <2>1. ~job.exists
    <3>1. job' = job \/ job' = WorkloadToJob
      BY <1>5 DEF WorkloadController, ReadWorkload, UpdateTaskWorkloadStatus, CreateJob, PatchWorkload
    <3> QED
      BY <3>1 DEF WorkloadToJob
  <2> QED
    BY <1>1, <1>5, <2>1, EndedStays, UnstartedStays DEF JobKept
<1>6. CASE job' = job /\ ~WorkloadController
  <2>1. Unstarted \/ Ended
    BY <1>1, <1>6 DEF JobKept
  <2>2. CASE SeeTask \/ SeeWorkload \/ SeeJob \/ Crash
    <3>1. tw' = tw /\ (twC' = twC \/ twC'.pc = "idle")
      BY <2>2 DEF SeeTask, SeeWorkload, SeeJob, Crash, Idle
    <3>2. seen'.tw \in {seen.tw, tw} /\ seen'.job \in {seen.job, job}
      BY <2>2 DEF SeeTask, SeeWorkload, SeeJob, Crash, TypeInv, SeenInv
    <3> QED
      BY <1>6, <2>1, <3>1, <3>2 DEF Unstarted, Ended
  <2>3. CASE UNCHANGED <<tw, seen, twC>>
    BY <2>1, <2>3 DEF Unstarted, Ended
  <2>4. CASE CreateOrPatchTaskWorkload
    <3>1. /\ UNCHANGED <<seen, twC>>
          /\ \/ tw' = tw
             \/ tw.phase # "live" /\ tw' = [phase |-> "live", conds |-> {}]
      BY <2>4 DEF CreateOrPatchTaskWorkload
    <3> QED
      BY <2>1, <2>3, <3>1 DEF Unstarted, Ended
  <2>5. CASE HandleCancelation
    BY <1>1, <2>5 DEF HandleCancelation, CancelInv
  <2>6. CASE CollectWorkload
    BY <1>1, <2>6 DEF CollectWorkload, Stopped
  <2> QED
    BY <1>6, <2>2, <2>3, <2>4, <2>5, <2>6
       DEF Next, vars, CreateTask, CancelTask, TaskController, Cluster, ReadTask, PatchTask,
           DeleteExpiredTask, TaskAssetsFail, AppDeleted, Resync, TimerFires, TaskTTL, JobStarts,
           JobEnds, JobExpires, CollectJob
<1> QED
  BY <1>2, <1>3, <1>4, <1>5, <1>6
     DEF Next, vars, SeeTask, SeeWorkload, SeeJob, CreateTask, CancelTask, TaskController, Cluster,
         ReadTask, PatchTask, DeleteExpiredTask, HandleCancelation, TaskAssetsFail,
         CreateOrPatchTaskWorkload, AppDeleted, Resync, TimerFires, TaskTTL, Crash, CollectWorkload

\* What was decided on the cache is what is, once the cache has caught up.
LEMMA RestSuffices ==
    ASSUME TypeInv, TaskWake, WorkloadWake, JobKept
    PROVE  RestShowsTheJob
<1> SUFFICES ASSUME Quiet, task.phase = "live"
             PROVE  IF task.canceled THEN "Canceled" \in task.conds /\ IsCompleted(task.conds)
                    ELSE /\ tw.phase = "live"
                         /\ job.exists => GetStatusConditions(job.state) \subseteq task.conds
                         /\ ~job.exists => IsCompleted(task.conds)
  BY DEF RestShowsTheJob
<1>1. /\ seen.task = task /\ seen.tw = tw /\ seen.job = job /\ queue = {}
      /\ taskC.pc = "idle" /\ twC.pc = "idle"
  BY DEF Quiet, Idle
<1>2. TaskDone(task.conds)
  BY <1>1 DEF TaskWake
<1>3. CASE task.canceled
  BY <1>1, <1>2, <1>3 DEF TaskDone
<1>4. CASE ~task.canceled
  <2>1. ~Stopped(task)
    BY <1>4 DEF Stopped
  <2>2. /\ tw.phase = "live" /\ "Initialized" \in task.conds
        /\ SetTaskStatus(tw.conds) \subseteq task.conds
    BY <1>1, <1>2, <1>4, <2>1 DEF TaskDone
  <2>3. /\ "Initialized" \in tw.conds
        /\ job.exists => GetStatusConditions(job.state) \subseteq tw.conds
    BY <1>1, <2>1, <2>2 DEF WorkloadWake, WorkloadDone
  <2>4. job.state \in {"new", "running", "succeeded", "failed"}
    BY ObjectFields DEF TypeInv, ObjectsInv
  <2>5. job.exists => GetStatusConditions(job.state) \subseteq task.conds
    BY <2>2, <2>3, <2>4, JobShows DEF SetTaskStatus
  <2>6. ~job.exists => IsCompleted(task.conds)
    BY <2>1, <2>2, <2>3 DEF JobKept, Unstarted, Ended, IsCompleted, SetTaskStatus
  <2> QED
    BY <1>4, <2>2, <2>5, <2>6
<1> QED
  BY <1>3, <1>4

\* No outcome is lost, however the cache lags, whichever patch overwrites
\* another and however often calls fail and controllers restart: when nothing
\* is left to do, a task shows what its job shows, and one without a job is
\* completed.
THEOREM TaskShowsItsJob == Spec => []RestShowsTheJob
<1> DEFINE Inv == /\ TypeInv /\ CancelInv /\ RunsInv
                  /\ TaskPresent /\ TaskWake /\ WorkloadWake /\ JobKept
<1>1. Init => Inv
  <2>1. Init => CancelInv
    BY DEF Init, CancelInv, Stopped, NoTask, NoWorkload, NoJob, Idle
  <2>2. Init => RunsInv
    BY DEF Init, RunsInv, NoTask, NoWorkload, NoJob, Idle
  <2>3. Init => TaskPresent /\ TaskWake /\ WorkloadWake /\ JobKept
    BY DEF Init, TaskPresent, TaskWake, WorkloadWake, JobKept, Unstarted, NoTask, NoWorkload,
           NoJob, Idle
  <2> QED
    BY <2>1, <2>2, <2>3, InitType
<1>2. Inv /\ [Next]_vars => Inv'
  BY NextType, NextCancel, NextRuns, NextPresent, NextTaskWake, NextWorkloadWake, NextJobKept
<1>3. Inv => RestShowsTheJob
  BY RestSuffices
<1> QED
  BY <1>1, <1>2, <1>3, PTL DEF Spec

=============================================================================
