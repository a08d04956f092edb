---------------------------- MODULE AppRestProofs ----------------------------
(***************************************************************************)
(* What AppLifecycle leaves behind when nobody has anything left to do.    *)
(*                                                                         *)
(* A request that is not in a work queue is a promise: nothing it watches  *)
(* has changed since it was last handled, so what was seen then is still   *)
(* true.  The inductive invariant says so once for each of the three       *)
(* controllers, for the worker that has read an object, for the one that   *)
(* has half written it, and for the object nobody works on.  Put together  *)
(* at rest, the three promises say that the app is where it was asked to   *)
(* be.                                                                     *)
(***************************************************************************)
EXTENDS AppLifecycleProofs

\* A process that does not exist has left nothing, unless the app is gone.
Unmade == app.phase # "gone" /\ ~proc.exists => Workloads = {} /\ procC = Idle

\* A workload, its StatefulSets and the worker of the runner carry names made
\* from the same stop.
HashInv ==
    /\ \A k \in Workloads : Hash[wls[k].lastStop] = k
    /\ \A v \in LiveSets : Hash[v] = sts[v].workload
    /\ wlC.pc = "read" => Hash[wlC.read.lastStop] = wlC.name

\* The runner: the StatefulSet of the workload is made from it, and the
\* workload reports its pods.
Reported(k) ==
    LET w == wls[k]
        s == sts[w.lastStop]
    IN /\ ~w.deleting /\ w.ready /\ w.actual = s.readyPods
       /\ s.live /\ s.workload = k
       /\ s.version = w.version /\ s.image = w.image
       /\ s.replicas = w.instances /\ s.pdb = (w.instances > 1)
WorksOn(k) == wlC.pc = "read" /\ wlC.name = k
RunnerFresh(k) ==
    /\ WorksOn(k) => wls[k] = wlC.read
    /\ ~WorksOn(k) /\ wls[k].exists => Reported(k)

\* The process controller: there is the workload the app asks for, the
\* others are being deleted, and the process reports what they report.
Needed == app.desired = "STARTED" /\ proc.instances > 0
Made(k) ==
    LET w == wls[k] IN
    /\ w.exists
    /\ w.version = app.rev /\ w.lastStop = LastStopRevision(app)
    /\ w.instances = proc.instances /\ w.image = app.droplet
Desired ==
    /\ app.phase # "gone"
    /\ Needed => app.droplet # None /\ Made(DesiredWorkloadName(app))
Cleaned ==
    /\ \A k \in Workloads :
        /\ wls[k].ready
        /\ ~Needed \/ k # DesiredWorkloadName(app) => wls[k].deleting
    /\ proc.actual = Cardinality(ReportedInstances)
Snapshot ==
    [phase |-> app.phase, desired |-> app.desired, droplet |-> app.droplet,
     rev |-> app.rev, lastStop |-> app.lastStop, outdated |-> app.gen # app.observed]
ProcFresh ==
    /\ procC.pc = "read" => procC.instances = proc.instances /\ procC.app = Snapshot
    /\ procC.pc = "applied" =>
        /\ procC.desired = app.desired /\ procC.instances = proc.instances
        /\ procC.name = DesiredWorkloadName(app)
        /\ Desired
    /\ procC.pc = "idle" => Desired /\ Cleaned

\* The app controller: the status is, or is about to be, that of this spec
\* and of the process as it is.
Shown(actual, ready) ==
    /\ app.phase = "live"
    /\ app.lastStop # None
    /\ app.droplet = None => actual = "STOPPED"
    /\ app.droplet # None => /\ proc.exists /\ ready
                             /\ actual = app.desired /\ actual = ActualState(proc)
AppFresh ==
    /\ appC.pc = "read" => appC.read = app
    /\ appC.pc = "status" =>
        appC.requeue \/ Shown(Value(appC.patch, "actual", app.actual),
                              Value(appC.patch, "ready", app.ready))
    /\ appC.pc = "idle" => app.phase = "gone" \/ Shown(app.actual, app.ready)

AppInv == ~queue.app => AppFresh
ProcInv == ~queue.proc /\ proc.exists => ProcFresh
RunnerInv == \A k \in Names \ queue.wls : RunnerFresh(k)
RestInv == Unmade /\ HashInv /\ AppInv /\ ProcInv /\ RunnerInv

-----------------------------------------------------------------------------
(* Events.                                                                 *)

\* What has not been woken by a step was not waiting before it, and nothing
\* it watches has changed.
LEMMA NotWoken ==
    ASSUME NEW base, Enqueue(base)
    PROVE  /\ ~queue'.app => ~base.app /\ UNCHANGED <<app, proc, bound>>
           /\ ~queue'.proc => /\ ~base.proc /\ UNCHANGED <<proc, wls>>
                              /\ proc.exists => app' = app
           /\ \A k \in Names \ queue'.wls :
                /\ k \notin base.wls /\ wls'[k] = wls[k]
                /\ \A v \in Revs : sts[v].workload = k \/ sts'[v].workload = k
                                        => sts'[v] = sts[v]
<1> DEFINE A == base.app \/ app' # app \/ proc' # proc \/ bound' # bound
           P == base.proc \/ proc' # proc \/ wls' # wls \/ (app' # app /\ proc.exists)
           W == base.wls \cup ChangedWorkloads
<1>1. queue' = [app |-> A, proc |-> P, wls |-> W]
  BY DEF Enqueue
<1>2. (queue'.app <=> A) /\ (queue'.proc <=> P) /\ queue'.wls = W
  <2> HIDE DEF A, P, W
  <2> QED
    BY <1>1
<1>3. ASSUME NEW k \in Names, k \notin W
      PROVE  /\ k \notin base.wls /\ wls'[k] = wls[k]
             /\ \A v \in Revs : sts[v].workload = k \/ sts'[v].workload = k => sts'[v] = sts[v]
  <2> DEFINE V == {u \in Revs : sts'[u] # sts[u]}
             L == UNION {{sts[v].workload, sts'[v].workload} : v \in V}
             K == {j \in Names : wls'[j] # wls[j]}
  <2>1. ChangedWorkloads = K \cup (L \ {None})
    BY Zenon DEF ChangedWorkloads
  <2>2. ASSUME NEW v \in Revs, sts'[v] # sts[v]
        PROVE  sts[v].workload \in L /\ sts'[v].workload \in L
    <3>1. v \in V
      BY <2>2
    <3> HIDE DEF V
    <3> QED
      BY <3>1, Zenon
  <2>3. k # None
    BY NoneAssumption
  <2> HIDE DEF L
  <2> QED
    BY <1>3, <2>1, <2>2, <2>3
<1> QED
  BY <1>2, <1>3

\* A step that leaves a worker alone keeps what is claimed of its object, or
\* wakes it.
LEMMA AppFrame ==
    ASSUME AppInv, appC' = appC,
           ~queue'.app => ~queue.app /\ UNCHANGED <<app, proc>>
    PROVE  AppInv'
BY DEF AppInv, AppFresh, Shown, ActualState

LEMMA ProcFrame ==
    ASSUME ProcInv, procC' = procC,
           ~queue'.proc => /\ ~queue.proc /\ UNCHANGED <<proc, wls>>
                           /\ proc.exists => app' = app
    PROVE  ProcInv'
<1>1. SUFFICES ASSUME ~queue'.proc, proc'.exists
               PROVE  ProcFresh'
  BY DEF ProcInv
<1>2. ProcFresh /\ UNCHANGED <<app, proc, wls, procC>>
  BY <1>1 DEF ProcInv
<1>3. Snapshot' = Snapshot /\ DesiredWorkloadName(app)' = DesiredWorkloadName(app)
  BY <1>2 DEF Snapshot, DesiredWorkloadName, LastStopRevision
<1>4. Desired => Desired'
  BY <1>2 DEF Desired, Needed, Made, DesiredWorkloadName, LastStopRevision
<1>5. Cleaned => Cleaned'
  BY <1>2 DEF Cleaned, Needed, Workloads, ReportedInstances, DesiredWorkloadName,
     LastStopRevision
<1> QED
  BY <1>2, <1>3, <1>4, <1>5 DEF ProcFresh

LEMMA RunnerFrame ==
    ASSUME TypeInv, RunnerInv, NEW k \in Names, k \notin queue'.wls, k \notin queue.wls,
           wls'[k] = wls[k],
           \A v \in Revs : sts[v].workload = k => sts'[v] = sts[v],
           WorksOn(k)' <=> WorksOn(k), WorksOn(k) => wlC' = wlC
    PROVE  RunnerFresh(k)'
<1>1. RunnerFresh(k)
  BY DEF RunnerInv
<1>2. CASE WorksOn(k)
  BY <1>1, <1>2 DEF RunnerFresh
<1>3. CASE ~WorksOn(k)
  <2> SUFFICES ASSUME wls[k].exists
               PROVE  Reported(k)'
    BY <1>3 DEF RunnerFresh
  <2>1. Reported(k)
    BY <1>1, <1>3 DEF RunnerFresh
  <2>2. wls[k].lastStop \in Revs
    BY WorkloadNumber DEF Workloads
  <2>3. sts'[wls[k].lastStop] = sts[wls[k].lastStop]
    BY <2>1, <2>2 DEF Reported
  <2> QED
    BY <2>1, <2>3 DEF Reported
<1> QED
  BY <1>2, <1>3

\* Steps of the API, of Kubernetes and of other workers.
LEMMA RunnerUntouched ==
    ASSUME TypeInv, RunnerInv, wlC' = wlC,
           \A k \in Names \ queue'.wls :
                /\ k \notin queue.wls /\ wls'[k] = wls[k]
                /\ \A v \in Revs : sts[v].workload = k => sts'[v] = sts[v]
    PROVE  RunnerInv'
<1>1. ASSUME NEW k \in Names \ queue'.wls
      PROVE  RunnerFresh(k)'
  <2>1. WorksOn(k)' <=> WorksOn(k)
    BY DEF WorksOn
  <2> QED
    BY <1>1, <2>1, RunnerFrame
<1> QED
  BY <1>1 DEF RunnerInv

-----------------------------------------------------------------------------
(* The app controller.                                                     *)

\* What a patch makes of a field is what the reconciler wanted, if the app is
\* still what it has read.
LEMMA ValueFrom ==
    ASSUME NEW a, IsApp(a), NEW b, IsApp(b), NEW f \in Fields, NEW p, p = MergeFrom(a, b)
    PROVE  Value(p, f, a[f]) = b[f]
<1>1. DOMAIN p = {g \in Fields : b[g] # a[g]} /\ \A g \in DOMAIN p : p[g] = b[g]
  BY DEF IsApp, MergeFrom
<1> QED
  BY <1>1 DEF Value

\* A reconciliation that wakes nobody has found the app as it should be, or
\* asks to be called again.
LEMMA ReconcileFresh ==
    ASSUME TypeInv, ReconcileCFApp, appC.read = app, UNCHANGED <<app, proc>>
    PROVE  AppFresh'
<1>1. /\ app \in CFApp /\ app.phase = "live" /\ appC'.pc = "status"
      /\ app.lastStop # None
  <2>1. /\ app \in CFApp /\ app.phase = "live" /\ appC'.pc = "status"
        /\ app'.lastStop = IF app.lastStop = None THEN app.rev ELSE app.lastStop
    BY ReconcileEffect DEF TypeInv, WorkersOK
  <2>2. app.rev # None
    BY AppElim, BoundsAssumption, NoneAssumption DEF TypeInv, Revs
  <2> QED
    BY <2>1, <2>2
<1>2. IsApp(app)
  BY <1>1, AppElim
<1> DEFINE a == [Observed(app) EXCEPT !.lastStop = LastStopRevision(app)]
           unready == [a EXCEPT !.ready = FALSE]
           p == ReconcileProcesses
           ready == ActualState(p) = a.desired /\ p.ready
           done == [a EXCEPT !.actual = ActualState(p), !.ready = ready]
<1>3. /\ IsApp(a) /\ a.desired = app.desired /\ a.droplet = app.droplet
  BY <1>2 DEF Observed, IsApp, Fields
<1>4. /\ IsApp(unready) /\ unready.actual = "STOPPED"
      /\ IsApp(done) /\ done.actual = ActualState(p) /\ done.ready = ready
  BY <1>2 DEF Observed, IsApp, Fields
<1>5. \/ PatchCFApp(unready, TRUE)
      \/ app.droplet = None /\ PatchCFApp(unready, FALSE)
      \/ app.droplet # None /\ proc' = p /\ PatchCFApp(done, ~ready)
  BY <1>3 DEF ReconcileCFApp
<1> HIDE DEF a, unready, done
<1>6. CASE PatchCFApp(unready, TRUE)
  BY <1>1, <1>6 DEF PatchCFApp, AppFresh
<1>7. CASE app.droplet = None /\ PatchCFApp(unready, FALSE)
  <2>1. PICK q : /\ q = MergeFrom(app, unready)
                 /\ appC' = [pc |-> "status", patch |-> q, requeue |-> FALSE]
    BY <1>7 DEF PatchCFApp
  <2>2. Value(q, "actual", app.actual) = "STOPPED"
    BY <1>2, <1>4, <2>1, ValueFrom DEF Fields
  <2> QED
    BY <1>1, <1>7, <2>1, <2>2 DEF AppFresh, Shown
<1>8. CASE app.droplet # None /\ proc' = p /\ PatchCFApp(done, ~ready)
  <2>1. PICK q : /\ q = MergeFrom(app, done)
                 /\ appC' = [pc |-> "status", patch |-> q, requeue |-> ~ready]
    BY <1>8 DEF PatchCFApp
  <2>2. Value(q, "actual", app.actual) = ActualState(p) /\ Value(q, "ready", app.ready) = ready
    BY <1>2, <1>4, <2>1, ValueFrom DEF Fields
  <2>3. p.exists /\ p = proc
    BY <1>8 DEF ReconcileProcesses, NewCFProcess
  <2>4. ready => ActualState(p) = app.desired
    BY <1>3
  <2> HIDE DEF ready, p
  <2>5. CASE ready
    BY <1>1, <1>8, <2>1, <2>2, <2>3, <2>4, <2>5 DEF AppFresh, Shown, ActualState
  <2>6. CASE ~ready
    BY <1>1, <2>1, <2>6 DEF AppFresh
  <2> QED
    BY <2>5, <2>6
<1> QED
  BY <1>5, <1>6, <1>7, <1>8

-----------------------------------------------------------------------------
(* Who wakes whom.                                                         *)

\* Requests, Kubernetes and steps of nothing leave the workers alone.
LEMMA OutsideEvents ==
    ASSUME API \/ Kubernetes \/ UNCHANGED vars
    PROVE  /\ UNCHANGED <<appC, procC, wlC>>
           /\ Enqueue(queue) \/ UNCHANGED <<app, proc, bound, wls, sts, queue>>
<1>1. CASE API
  BY <1>1 DEF API, StartApp, StopApp, SetCurrentDroplet, CreateDeployment, ReadApp, PatchApp,
     ScaleProcess, DeleteApp, CreateBinding, objects
<1>2. CASE Kubernetes
  BY <1>2 DEF Kubernetes, RollOut, PodsReady, CollectPods, ChangeSet, CollectAppWorkload,
     CollectCFProcess, BindingStep
<1>3. CASE UNCHANGED vars
  BY <1>3 DEF vars, objects
<1> QED
  BY <1>1, <1>2, <1>3

\* A controller takes requests from its own queue only.
LEMMA AppControllerEvents ==
    ASSUME TypeInv, AppController
    PROVE  /\ UNCHANGED <<procC, wlC>>
           /\ \E base : /\ Enqueue(base) /\ base.proc = queue.proc /\ base.wls = queue.wls
<1>1. ASSUME NEW b
      PROVE  LET base == [queue EXCEPT !.app = b]
             IN  base.proc = queue.proc /\ base.wls = queue.wls
  BY DEF TypeInv, QueueOK
<1>2. UNCHANGED <<procC, wlC>>
  BY DEF AppController, ReadCFApp, FinalizeCFApp, ReconcileCFApp, PatchCFAppStatus
<1>3. \/ Enqueue(queue)
      \/ \E b : Enqueue([queue EXCEPT !.app = b])
  BY Zenon DEF AppController, ReadCFApp, FinalizeCFApp, ReconcileCFApp, PatchCFAppStatus
<1> QED
  BY <1>1, <1>2, <1>3

LEMMA ProcessControllerEvents ==
    ASSUME TypeInv, ProcessController
    PROVE  /\ UNCHANGED <<appC, wlC>>
           /\ \E base : /\ Enqueue(base) /\ base.app = queue.app /\ base.wls = queue.wls
<1>1. ASSUME NEW b
      PROVE  LET base == [queue EXCEPT !.proc = b]
             IN  base.app = queue.app /\ base.wls = queue.wls
  BY DEF TypeInv, QueueOK
<1>2. UNCHANGED <<appC, wlC>>
  BY DEF ProcessController, ReadCFProcess, FailCFProcess, ApplyCFProcess, CleanUpAppWorkloads
<1>3. \/ Enqueue(queue)
      \/ \E b : Enqueue([queue EXCEPT !.proc = b])
  BY Zenon DEF ProcessController, ReadCFProcess, FailCFProcess, ApplyCFProcess,
     CleanUpAppWorkloads
<1> QED
  BY <1>1, <1>2, <1>3

LEMMA RunnerEvents ==
    ASSUME TypeInv, Runner
    PROVE  /\ UNCHANGED <<appC, procC>>
           /\ \E base : /\ Enqueue(base) /\ base.app = queue.app /\ base.proc = queue.proc
<1>1. ASSUME NEW b
      PROVE  LET base == [queue EXCEPT !.wls = b]
             IN  base.app = queue.app /\ base.proc = queue.proc
  BY DEF TypeInv, QueueOK
<1>2. UNCHANGED <<appC, procC>>
  BY DEF Runner, ReadAppWorkload, ApplyAppWorkload, FinalizeAppWorkload
<1>3. \/ Enqueue(queue)
      \/ \E b : Enqueue([queue EXCEPT !.wls = b])
  BY Zenon DEF Runner, ReadAppWorkload, ApplyAppWorkload, FinalizeAppWorkload
<1> QED
  BY <1>1, <1>2, <1>3

\* A restart puts everything back into the queues of its manager.
LEMMA CrashRunnerEvents ==
    ASSUME TypeInv, CrashRunner
    PROVE  /\ UNCHANGED <<app, proc, wls, sts, appC, procC>> /\ wlC' = Idle
           /\ ~queue'.app => ~queue.app
           /\ ~queue'.proc => ~queue.proc
           /\ \A k \in Names \ queue'.wls : ~wls[k].exists
<1> DEFINE base == [queue EXCEPT !.wls = Workloads]
<1>1. base.app = queue.app /\ base.proc = queue.proc /\ base.wls = Workloads
  BY DEF TypeInv, QueueOK
<1>2. Enqueue(base) /\ UNCHANGED <<app, proc, wls, sts, appC, procC>> /\ wlC' = Idle
  BY DEF CrashRunner, objects
<1> HIDE DEF base
<1>3. /\ ~queue'.app => ~queue.app
      /\ ~queue'.proc => ~queue.proc
      /\ \A k \in Names \ queue'.wls : k \notin Workloads
  BY <1>1, <1>2, NotWoken
<1> QED
  BY <1>2, <1>3 DEF Workloads

LEMMA CrashControllersEvents ==
    ASSUME TypeInv, CrashControllers
    PROVE  /\ UNCHANGED <<app, proc, wls, sts, wlC>> /\ appC' = Idle /\ procC' = Idle
           /\ queue'.app /\ queue'.proc
           /\ \A k \in Names \ queue'.wls : k \notin queue.wls
<1> DEFINE base == [queue EXCEPT !.app = TRUE, !.proc = TRUE]
<1>1. base.app /\ base.proc /\ base.wls = queue.wls
  BY DEF TypeInv, QueueOK
<1>2. Enqueue(base) /\ UNCHANGED <<app, proc, wls, sts, wlC>> /\ appC' = Idle /\ procC' = Idle
  BY DEF CrashControllers, objects
<1> HIDE DEF base
<1>3. /\ queue'.app /\ queue'.proc
      /\ \A k \in Names \ queue'.wls : k \notin queue.wls
  BY <1>1, <1>2, NotWoken
<1> QED
  BY <1>2, <1>3

\* The promise of the app controller is inductive.
LEMMA NextApp ==
    ASSUME TypeInv, AppInv, [Next]_vars
    PROVE  AppInv'
<1>1. CASE API \/ Kubernetes \/ UNCHANGED vars
  BY <1>1, OutsideEvents, NotWoken, AppFrame
<1>2. CASE ProcessController
  BY <1>2, ProcessControllerEvents, NotWoken, AppFrame
<1>3. CASE Runner
  BY <1>3, RunnerEvents, NotWoken, AppFrame
<1>4. CASE Crash
  <2>1. CASE CrashRunner
    BY <2>1, CrashRunnerEvents, AppFrame
  <2>2. CASE CrashControllers
    BY <2>2, CrashControllersEvents DEF AppInv
  <2> QED
    BY <1>4, <2>1, <2>2 DEF Crash
<1>5. CASE ReadCFApp
  <2>1. /\ UNCHANGED <<app, proc>>
        /\ appC' = IF app.phase = "gone" THEN Idle ELSE [pc |-> "read", read |-> app]
    BY <1>5 DEF ReadCFApp, objects
  <2> QED
    BY <2>1 DEF AppInv, AppFresh, Idle
<1>6. CASE FinalizeCFApp
  <2>1. CASE bound # "none"
    <3>1. appC'.pc = "status" /\ appC'.requeue
      BY <1>6, <2>1 DEF FinalizeCFApp, PatchCFApp
    <3> QED
      BY <3>1 DEF AppInv, AppFresh
  <2>2. CASE bound = "none"
    <3>1. app' = [app EXCEPT !.phase = "gone"] /\ appC' = Idle
      BY <1>6, <2>2 DEF FinalizeCFApp
    <3>2. app'.phase = "gone"
      BY <3>1 DEF TypeInv, CFApp
    <3> QED
      BY <3>1, <3>2 DEF AppInv, AppFresh, Idle
  <2> QED
    BY <2>1, <2>2
<1>7. CASE ReconcileCFApp
  <2>1. SUFFICES ASSUME ~queue'.app
                 PROVE  AppFresh'
    BY DEF AppInv
  <2>2. ~queue.app /\ UNCHANGED <<app, proc>> /\ appC.pc = "read"
    BY <1>7, <2>1, NotWoken DEF ReconcileCFApp
  <2>3. appC.read = app
    BY <2>2 DEF AppInv, AppFresh
  <2> QED
    BY <1>7, <2>2, <2>3, ReconcileFresh
<1>8. CASE PatchCFAppStatus
  <2>1. SUFFICES ASSUME ~queue'.app
                 PROVE  AppFresh'
    BY DEF AppInv
  <2> DEFINE base == [queue EXCEPT !.app = @ \/ appC.requeue]
  <2>2. base.app = (queue.app \/ appC.requeue)
    BY DEF TypeInv, QueueOK
  <2>3. Enqueue(base) /\ appC.pc = "status" /\ appC' = Idle
    BY <1>8 DEF PatchCFAppStatus
  <2> HIDE DEF base
  <2>4. ~queue.app /\ ~appC.requeue /\ UNCHANGED <<app, proc>>
    BY <2>1, <2>2, <2>3, NotWoken
  <2>5. Shown(Value(appC.patch, "actual", app.actual), Value(appC.patch, "ready", app.ready))
    BY <2>3, <2>4 DEF AppInv, AppFresh
  <2>6. app' = PatchStatus(appC.patch)
    BY <1>8, <2>5 DEF PatchCFAppStatus, Shown
  <2>7. IsApp(app)
    BY AppElim DEF TypeInv
  <2>8. /\ app.actual = Value(appC.patch, "actual", app.actual)
        /\ app.ready = Value(appC.patch, "ready", app.ready)
    BY <2>4, <2>6, <2>7, PatchStatusEffect
  <2>9. Shown(app.actual, app.ready)
    BY <2>5, <2>8
  <2> QED
    BY <2>3, <2>4, <2>9 DEF AppFresh, Shown, ActualState, Idle
<1> QED
  BY <1>1, <1>2, <1>3, <1>4, <1>5, <1>6, <1>7, <1>8 DEF Next, AppController

-----------------------------------------------------------------------------
(* The process controller.                                                 *)

\* What it applies to the workload it needs.
LEMMA ApplyMade ==
    ASSUME TypeInv, ApplyCFProcess, NeedsAppWorkload
    PROVE  LET a == procC.app
               w == wls'[DesiredWorkloadName(a)]
           IN  /\ a.droplet # None /\ w.exists
               /\ w.version = a.rev /\ w.lastStop = LastStopRevision(a)
               /\ w.instances = procC.instances /\ w.image = a.droplet
<1>1. DesiredWorkloadName(procC.app) \in Names
  BY ApplyEffect
<1>2. CreateOrPatchAppWorkload /\ procC.app.droplet # None
  BY DEF ApplyCFProcess, ReconcileFails
<1> QED
  BY <1>1, <1>2 DEF CreateOrPatchAppWorkload, TypeInv, WlsOK

\* The workloads a clean-up has nothing to change about are being deleted, or
\* wanted.
LEMMA CleanUpFinds ==
    ASSUME TypeInv, CleanUpAppWorkloads, UNCHANGED wls, NEW k \in Workloads, NeedsToDelete(k)
    PROVE  wls[k].deleting
<1>1. k \in Names /\ wls[k].exists /\ wls[k] \in AppWorkload
  BY WorkloadNumber DEF Workloads
<1>2. wls'[k] = [wls[k] EXCEPT !.deleting = TRUE]
  BY <1>1 DEF CleanUpAppWorkloads
<1> QED
  BY <1>1, <1>2 DEF AppWorkload

\* The promise of the process controller is inductive.
LEMMA NextProc ==
    ASSUME TypeInv, ProcInv, [Next]_vars
    PROVE  ProcInv'
<1>1. CASE API \/ Kubernetes \/ UNCHANGED vars
  BY <1>1, OutsideEvents, NotWoken, ProcFrame
<1>2. CASE AppController
  BY <1>2, AppControllerEvents, NotWoken, ProcFrame
<1>3. CASE Runner
  BY <1>3, RunnerEvents, NotWoken, ProcFrame
<1>4. CASE Crash
  <2>1. CASE CrashRunner
    BY <2>1, CrashRunnerEvents, ProcFrame
  <2>2. CASE CrashControllers
    BY <2>2, CrashControllersEvents DEF ProcInv
  <2> QED
    BY <1>4, <2>1, <2>2 DEF Crash
<1>5. CASE ReadCFProcess
  <2>1. /\ UNCHANGED <<app, proc, wls>>
        /\ proc.exists => procC' = [pc |-> "read", instances |-> proc.instances, app |-> Snapshot]
    BY <1>5 DEF ReadCFProcess, Snapshot, objects
  <2> QED
    BY <2>1 DEF ProcInv, ProcFresh, Snapshot
<1>6. CASE FailCFProcess
  <2> DEFINE base == [queue EXCEPT !.proc = TRUE]
  <2>1. base.proc
    BY DEF TypeInv, QueueOK
  <2>2. Enqueue(base)
    BY <1>6 DEF FailCFProcess
  <2> HIDE DEF base
  <2>3. queue'.proc
    BY <2>1, <2>2, NotWoken
  <2> QED
    BY <2>3 DEF ProcInv
<1>7. CASE ApplyCFProcess
  <2>1. SUFFICES ASSUME ~queue'.proc, proc'.exists
                 PROVE  ProcFresh'
    BY DEF ProcInv
  <2>2. /\ procC.pc = "read" /\ ~ReconcileFails /\ UNCHANGED <<app, proc>>
        /\ procC' = [pc |-> "applied", desired |-> procC.app.desired,
                     instances |-> procC.instances, name |-> DesiredWorkloadName(procC.app)]
        /\ Enqueue(queue)
    BY <1>7 DEF ApplyCFProcess
  <2>3. ~queue.proc /\ UNCHANGED wls
    BY <2>1, <2>2, NotWoken
  <2>4. procC.instances = proc.instances /\ procC.app = Snapshot
    BY <2>1, <2>2, <2>3 DEF ProcInv, ProcFresh
  <2>5. /\ procC.app.phase = app.phase /\ procC.app.desired = app.desired
        /\ procC.app.droplet = app.droplet /\ procC.app.rev = app.rev
        /\ LastStopRevision(procC.app) = LastStopRevision(app)
        /\ DesiredWorkloadName(procC.app) = DesiredWorkloadName(app)
    BY <2>4 DEF Snapshot, LastStopRevision, DesiredWorkloadName
  <2>6. app.phase # "gone"
    BY <2>2, <2>5 DEF ReconcileFails
  <2>7. Needed => app.droplet # None /\ Made(DesiredWorkloadName(app))
    BY <1>7, <2>3, <2>4, <2>5, ApplyMade DEF Needed, NeedsAppWorkload, Made
  <2>8. Desired
    BY <2>6, <2>7 DEF Desired
  <2>9. Desired'
    BY <2>2, <2>3, <2>8 DEF Desired, Needed, Made, LastStopRevision, DesiredWorkloadName
  <2> QED
    BY <2>2, <2>4, <2>5, <2>9 DEF ProcFresh, LastStopRevision, DesiredWorkloadName
<1>8. CASE CleanUpAppWorkloads
  <2>1. SUFFICES ASSUME ~queue'.proc, proc'.exists
                 PROVE  ProcFresh'
    BY DEF ProcInv
  <2> DEFINE base == [queue EXCEPT !.proc = @ \/ ~AllWorkloadsReady]
  <2>2. base.proc = (queue.proc \/ ~AllWorkloadsReady)
    BY DEF TypeInv, QueueOK
  <2>3. Enqueue(base) /\ procC.pc = "applied" /\ procC' = Idle /\ UNCHANGED app
    BY <1>8 DEF CleanUpAppWorkloads
  <2> HIDE DEF base
  <2>4. ~queue.proc /\ AllWorkloadsReady /\ UNCHANGED <<proc, wls>>
    BY <2>1, <2>2, <2>3, NotWoken
  <2>5. /\ procC.desired = app.desired /\ procC.instances = proc.instances
        /\ procC.name = DesiredWorkloadName(app)
        /\ Desired
    BY <2>1, <2>3, <2>4 DEF ProcInv, ProcFresh
  <2>6. proc.actual = Cardinality(ReportedInstances)
    <3> DEFINE r == AllWorkloadsReady
               n == Cardinality(ReportedInstances)
    <3>1. proc = [proc EXCEPT !.ready = r, !.actual = n]
      BY <1>8, <2>1, <2>4 DEF CleanUpAppWorkloads
    <3> HIDE DEF r, n
    <3>2. proc.actual = n
      BY <3>1 DEF TypeInv, CFProcess
    <3> QED
      BY <3>2 DEF n
  <2>7. ASSUME NEW k \in Workloads
        PROVE  /\ wls[k].ready
               /\ ~Needed \/ k # DesiredWorkloadName(app) => wls[k].deleting
    <3>1. wls[k].ready
      BY <2>4 DEF AllWorkloadsReady
    <3>2. app.desired \in States /\ proc.instances \in Nat
      BY AppElim DEF TypeInv, CFProcess
    <3>3. ~Needed \/ k # DesiredWorkloadName(app) => NeedsToDelete(k)
      BY <2>5, <3>2 DEF Needed, NeedsToDelete, States
    <3> QED
      BY <1>8, <2>4, <3>1, <3>3, CleanUpFinds
  <2>8. Desired /\ Cleaned
    BY <2>5, <2>6, <2>7 DEF Cleaned
  <2>9. (Desired /\ Cleaned)'
    BY <2>3, <2>4, <2>8 DEF Desired, Cleaned, Needed, Made, LastStopRevision,
       DesiredWorkloadName, Workloads, ReportedInstances
  <2> QED
    BY <2>3, <2>9 DEF ProcFresh, Idle
<1> QED
  BY <1>1, <1>2, <1>3, <1>4, <1>5, <1>6, <1>7, <1>8 DEF Next, ProcessController

-----------------------------------------------------------------------------
(* The runner.                                                             *)

\* What it makes of the StatefulSet and of the status of the workload.
LEMMA RunnerApplies ==
    ASSUME TypeInv, SetsInv, ApplyAppWorkload
    PROVE  LET n == wlC.name
               w == wlC.read
               s == sts'[w.lastStop]
           IN  /\ n \in Names /\ wls[n].exists /\ w \in AppWorkload /\ ~w.deleting
               /\ wls'[n].ready /\ wls'[n].actual = s.readyPods
               /\ s.live /\ s.workload = n
               /\ s.version = w.version /\ s.image = w.image
               /\ s.replicas = w.instances /\ s.pdb = (w.instances > 1)
               /\ \A j \in Names : j # n => wls'[j] = wls[j]
               /\ \A u \in Revs : u # w.lastStop => sts'[u] = sts[u]
<1> DEFINE w == wlC.read
           n == wlC.name
           v == w.lastStop
           old == sts[v]
           readyPods == IF old.live THEN old.readyPods ELSE 0
           pdb == w.instances > 1
           new == [old EXCEPT !.live = TRUE, !.workload = n,
                              !.version = w.version, !.image = w.image,
                              !.replicas = w.instances, !.pdb = pdb,
                              !.readyPods = readyPods]
<1>1. wlC.pc = "read" /\ n \in Names /\ w \in AppWorkload /\ ~w.deleting
  BY DEF TypeInv, WorkersOK, RunnerWorker, ApplyAppWorkload, Idle
<1>2. wls[n].exists /\ wls[n] \in AppWorkload
  BY <1>1, WorkloadElim DEF SetsInv, TypeInv
<1>3. v \in Revs /\ old \in StatefulSet
  BY <1>1 DEF AppWorkload, TypeInv, StsOK
<1>4. /\ sts' = [sts EXCEPT ![v] = new]
      /\ wls' = [wls EXCEPT ![n].actual = readyPods, ![n].ready = TRUE]
  BY DEF ApplyAppWorkload
<1> HIDE DEF readyPods, pdb
<1>5. /\ new.live /\ new.workload = n /\ new.version = w.version /\ new.image = w.image
      /\ new.replicas = w.instances /\ new.pdb = pdb /\ new.readyPods = readyPods
  BY <1>3 DEF StatefulSet
<1> HIDE DEF new
<1>6. sts'[v] = new /\ \A u \in Revs : u # v => sts'[u] = sts[u]
  BY <1>3, <1>4 DEF TypeInv, StsOK
<1>7. /\ wls'[n].ready /\ wls'[n].actual = readyPods
      /\ \A j \in Names : j # n => wls'[j] = wls[j]
  BY <1>1, <1>2, <1>4 DEF TypeInv, WlsOK, AppWorkload
<1> QED
  BY <1>1, <1>2, <1>5, <1>6, <1>7 DEF pdb

\* The promise of the runner is inductive.
LEMMA NextRunner ==
    ASSUME TypeInv, SetsInv, RunnerInv, [Next]_vars
    PROVE  RunnerInv'
<1>1. CASE API \/ Kubernetes \/ UNCHANGED vars
  BY <1>1, OutsideEvents, NotWoken, RunnerUntouched
<1>2. CASE AppController
  BY <1>2, AppControllerEvents, NotWoken, RunnerUntouched
<1>3. CASE ProcessController
  BY <1>3, ProcessControllerEvents, NotWoken, RunnerUntouched
<1>4. CASE Crash
  <2>1. CASE CrashRunner
    BY <2>1, CrashRunnerEvents DEF RunnerInv, RunnerFresh, WorksOn, Idle
  <2>2. CASE CrashControllers
    BY <2>2, CrashControllersEvents, RunnerUntouched
  <2> QED
    BY <1>4, <2>1, <2>2 DEF Crash
<1>5. ASSUME NEW j \in Names, ReadAppWorkload(j), NEW k \in Names, k \notin queue'.wls
      PROVE  RunnerFresh(k)'
  <2> DEFINE base == [queue EXCEPT !.wls = @ \ {j}]
  <2>1. base.wls = queue.wls \ {j}
    BY DEF TypeInv, QueueOK
  <2>2. /\ Enqueue(base) /\ wlC = Idle /\ UNCHANGED <<wls, sts>>
        /\ wlC' = IF wls[j].exists THEN [pc |-> "read", name |-> j, read |-> wls[j]] ELSE Idle
    BY <1>5 DEF ReadAppWorkload, objects
  <2> HIDE DEF base
  <2>3. k = j \/ k \notin queue.wls
    BY <1>5, <2>1, <2>2, NotWoken
  <2>4. CASE k = j
    BY <2>2, <2>4 DEF RunnerFresh, WorksOn, Idle
  <2>5. CASE k # j
    BY <1>5, <2>2, <2>3, <2>5, RunnerFrame DEF WorksOn, Idle
  <2> QED
    BY <2>4, <2>5
<1>6. ASSUME ApplyAppWorkload, NEW k \in Names, k \notin queue'.wls
      PROVE  RunnerFresh(k)'
  <2>1. wlC.pc = "read" /\ wlC' = Idle /\ Enqueue(queue)
    BY <1>6 DEF ApplyAppWorkload
  <2>2. /\ k \notin queue.wls /\ wls'[k] = wls[k]
        /\ \A v \in Revs : sts[v].workload = k => sts'[v] = sts[v]
    BY <1>6, <2>1, NotWoken
  <2>3. CASE k # wlC.name
    BY <1>6, <2>1, <2>2, <2>3, RunnerFrame DEF WorksOn, Idle
  <2>4. CASE k = wlC.name
    <3>1. wls[k] = wlC.read
      BY <2>1, <2>2, <2>4 DEF RunnerInv, RunnerFresh, WorksOn
    <3>2. Reported(k)'
      BY <1>6, <2>2, <2>4, <3>1, RunnerApplies DEF Reported
    <3> QED
      BY <2>1, <3>2 DEF RunnerFresh, WorksOn, Idle
  <2> QED
    BY <2>3, <2>4
<1>7. ASSUME NEW stale \in BOOLEAN, FinalizeAppWorkload(stale), NEW k \in Names, k \notin queue'.wls
      PROVE  RunnerFresh(k)'
  <2> DEFINE base == [queue EXCEPT !.wls = @ \cup {j \in {wlC.name} : stale}]
  <2>1. base.wls = queue.wls \cup {j \in {wlC.name} : stale}
    BY DEF TypeInv, QueueOK
  <2>2. wlC.pc = "read" /\ wlC' = Idle /\ Enqueue(base)
    BY <1>7 DEF FinalizeAppWorkload
  <2> HIDE DEF base
  <2>3. /\ k \notin queue.wls /\ ~(stale /\ k = wlC.name) /\ wls'[k] = wls[k]
        /\ \A v \in Revs : sts[v].workload = k => sts'[v] = sts[v]
    BY <1>7, <2>1, <2>2, NotWoken
  <2>4. CASE k # wlC.name
    BY <1>7, <2>2, <2>3, <2>4, RunnerFrame DEF WorksOn, Idle
  <2>5. CASE k = wlC.name
    <3>1. wls'[k] = NoWorkload
      BY <1>7, <2>3, <2>5 DEF FinalizeAppWorkload, TypeInv, WlsOK
    <3> QED
      BY <2>2, <3>1 DEF RunnerFresh, WorksOn, Idle, NoWorkload
  <2> QED
    BY <2>4, <2>5
<1>8. CASE Runner
  BY <1>5, <1>6, <1>7, <1>8 DEF Runner, RunnerInv
<1> QED
  BY <1>1, <1>2, <1>3, <1>4, <1>8 DEF Next

-----------------------------------------------------------------------------
(* Names, and what comes before the first process.                         *)

\* Steps that make neither a workload nor a StatefulSet, nor read one.
LEMMA HashFrame ==
    ASSUME HashInv, wlC' = wlC \/ wlC' = Idle,
           \A k \in Names : wls'[k].exists => wls[k].exists /\ wls'[k].lastStop = wls[k].lastStop,
           \A v \in Revs : sts'[v].live => sts[v].live /\ sts'[v].workload = sts[v].workload
    PROVE  HashInv'
BY DEF HashInv, Workloads, LiveSets, Idle

\* Kubernetes and the finalizer make nothing.
LEMMA KubernetesMakes ==
    ASSUME TypeInv, Kubernetes
    PROVE  /\ UNCHANGED wlC
           /\ \A k \in Names : /\ wls'[k].exists = wls[k].exists
                               /\ wls[k].exists => wls'[k].lastStop = wls[k].lastStop
           /\ \A v \in Revs : sts'[v].live => sts[v].live /\ sts'[v].workload = sts[v].workload
<1>1. ASSUME NEW v \in Revs, RollOut(v) \/ PodsReady(v) \/ CollectPods(v)
      PROVE  /\ UNCHANGED <<wls, wlC>>
             /\ \A u \in Revs : sts'[u].live => sts[u].live /\ sts'[u].workload = sts[u].workload
  BY <1>1, SetEffect
<1>2. ASSUME NEW k \in Names, CollectAppWorkload(k)
      PROVE  /\ UNCHANGED <<sts, wlC>>
             /\ \A j \in Names : /\ wls'[j].exists = wls[j].exists
                                 /\ wls[j].exists => wls'[j].lastStop = wls[j].lastStop
  BY <1>2, CollectEffect
<1>3. CASE CollectCFProcess \/ BindingStep
  BY <1>3 DEF CollectCFProcess, BindingStep
<1> QED
  BY <1>1, <1>2, <1>3 DEF Kubernetes

\* The names are inductive.
LEMMA NextHash ==
    ASSUME TypeInv, SetsInv, HashInv, [Next]_vars
    PROVE  HashInv'
<1>1. CASE API \/ AppController \/ ReadCFProcess \/ FailCFProcess \/ Crash \/ UNCHANGED vars
  <2>1. UNCHANGED <<wls, sts>> /\ (wlC' = wlC \/ wlC' = Idle)
    <3>1. CASE API
      BY <3>1 DEF API, StartApp, StopApp, SetCurrentDroplet, CreateDeployment, ReadApp,
         PatchApp, ScaleProcess, DeleteApp, CreateBinding, objects
    <3>2. CASE AppController
      BY <3>2 DEF AppController, ReadCFApp, FinalizeCFApp, ReconcileCFApp, PatchCFAppStatus,
         objects
    <3>3. CASE ReadCFProcess \/ FailCFProcess \/ Crash \/ UNCHANGED vars
      BY <3>3 DEF ReadCFProcess, FailCFProcess, Crash, CrashControllers, CrashRunner, vars, objects
    <3> QED
      BY <1>1, <3>1, <3>2, <3>3
  <2> QED
    BY <2>1, HashFrame
<1>2. CASE ApplyCFProcess
  <2>1. UNCHANGED <<sts, wlC>>
    BY <1>2 DEF ApplyCFProcess
  <2>2. CASE UNCHANGED wls
    BY <2>1, <2>2, HashFrame
  <2>3. CASE wls' # wls
    <3> DEFINE last == LastStopRevision(procC.app)
               n == DesiredWorkloadName(procC.app)
    <3>1. /\ wls'[n].lastStop = last
          /\ \A k \in Names : k # n => wls'[k] = wls[k]
      BY <1>2, <2>3, ApplyEffect
    <3>2. n = Hash[last]
      BY DEF DesiredWorkloadName
    <3> HIDE DEF n, last
    <3>3. \A k \in Workloads' : Hash[wls'[k].lastStop] = k
      BY <3>1, <3>2 DEF HashInv, Workloads
    <3> QED
      BY <2>1, <3>3 DEF HashInv, LiveSets
  <2> QED
    BY <2>2, <2>3
<1>3. CASE CleanUpAppWorkloads
  BY <1>3, CleanUpEffect, HashFrame DEF CleanUpAppWorkloads
<1>4. ASSUME NEW k \in Names, ReadAppWorkload(k)
      PROVE  HashInv'
  <2>1. /\ UNCHANGED <<wls, sts>>
        /\ wlC' = IF wls[k].exists THEN [pc |-> "read", name |-> k, read |-> wls[k]] ELSE Idle
    BY <1>4 DEF ReadAppWorkload, objects
  <2> QED
    BY <2>1 DEF HashInv, Workloads, LiveSets, Idle
<1>5. CASE ApplyAppWorkload
  <2>1. /\ wlC' = Idle /\ Hash[wlC.read.lastStop] = wlC.name
    BY <1>5 DEF ApplyAppWorkload, HashInv
  <2>2. \A v \in LiveSets' : Hash[v] = sts'[v].workload
    BY <1>5, <2>1, RunnerApplies DEF HashInv, LiveSets
  <2>3. \A k \in Workloads' : Hash[wls'[k].lastStop] = k
    BY <1>5, RunnerApplyEffect DEF HashInv, Workloads, SameWorkload
  <2> QED
    BY <2>1, <2>2, <2>3 DEF HashInv, Idle
<1>6. ASSUME NEW stale \in BOOLEAN, FinalizeAppWorkload(stale)
      PROVE  HashInv'
  <2>1. wlC' = Idle
    BY <1>6 DEF FinalizeAppWorkload
  <2>2. \A k \in Names : wls'[k].exists => wls[k].exists /\ wls'[k].lastStop = wls[k].lastStop
    BY <1>6, RunnerFinalizeEffect DEF SameWorkload, NoWorkload
  <2>3. \A v \in Revs : sts'[v].live => sts[v].live /\ sts'[v].workload = sts[v].workload
    BY <1>6, RunnerFinalizeEffect
  <2> QED
    BY <2>1, <2>2, <2>3, HashFrame
<1>7. CASE Kubernetes
  BY <1>7, KubernetesMakes, HashFrame
<1> QED
  BY <1>1, <1>2, <1>3, <1>4, <1>5, <1>6, <1>7 DEF Next, ProcessController, Runner

\* An app that is gone stays gone, and its process is collected only then.
LEMMA OnlyGoneLoses ==
    ASSUME TypeInv, [Next]_vars
    PROVE  /\ app.phase = "gone" => app'.phase = "gone"
           /\ proc.exists /\ ~proc'.exists => app.phase = "gone"
<1>1. app \in CFApp /\ proc \in CFProcess /\ AppWorkerOK /\ BoundOK
  BY DEF TypeInv, WorkersOK
<1>2. CASE API
  <2>1. ASSUME NEW r \in Requests, PatchApp(r)
        PROVE  app.phase = "gone" => app'.phase = "gone"
    BY <2>1 DEF PatchApp
  <2>2. CASE DeleteApp
    BY <2>2 DEF DeleteApp
  <2>3. proc'.exists = proc.exists
    BY <1>1, <1>2 DEF API, StartApp, StopApp, SetCurrentDroplet, CreateDeployment, ReadApp,
       PatchApp, ScaleProcess, DeleteApp, CreateBinding, objects, CFProcess
  <2> QED
    BY <1>2, <2>1, <2>2, <2>3 DEF API, StartApp, StopApp, SetCurrentDroplet, CreateDeployment,
       ReadApp, ScaleProcess, CreateBinding, objects
<1>3. CASE ReadCFApp \/ PatchCFAppStatus
  BY <1>3 DEF ReadCFApp, PatchCFAppStatus, objects
<1>4. CASE FinalizeCFApp
  BY <1>1, <1>4, FinalizeEffect DEF FinalizeCFApp
<1>5. CASE ReconcileCFApp
  BY <1>1, <1>5, ReconcileEffect DEF NewCFProcess
<1>6. CASE ProcessController
  <2>1. proc'.exists = proc.exists
    BY <1>1, <1>6 DEF ProcessController, ReadCFProcess, FailCFProcess, ApplyCFProcess,
       CleanUpAppWorkloads, objects, CFProcess
  <2> QED
    BY <1>6, <2>1 DEF ProcessController, ReadCFProcess, FailCFProcess, ApplyCFProcess,
       CleanUpAppWorkloads, objects
<1>7. CASE Runner
  BY <1>7 DEF Runner, ReadAppWorkload, ApplyAppWorkload, FinalizeAppWorkload, objects
<1>8. CASE Kubernetes
  BY <1>8 DEF Kubernetes, RollOut, PodsReady, CollectPods, ChangeSet, CollectAppWorkload,
     CollectCFProcess, BindingStep
<1>9. CASE Crash \/ UNCHANGED vars
  BY <1>9 DEF Crash, CrashControllers, CrashRunner, vars, objects
<1> QED
  BY <1>2, <1>3, <1>4, <1>5, <1>6, <1>7, <1>8, <1>9 DEF Next, AppController

\* Nothing is made for an app before its process.
LEMMA NextUnmade ==
    ASSUME TypeInv, SetsInv, Unmade, [Next]_vars
    PROVE  Unmade'
<1>1. SUFFICES ASSUME app'.phase # "gone", ~proc'.exists
               PROVE  Workloads' = {} /\ procC' = Idle
  BY DEF Unmade
<1>2. Workloads = {} /\ procC = Idle /\ ~proc.exists
  BY <1>1, OnlyGoneLoses DEF Unmade
<1>3. procC' = Idle
  <2>1. CASE API \/ Kubernetes \/ UNCHANGED vars
    BY <1>2, <2>1, OutsideEvents
  <2>2. CASE AppController \/ Runner
    BY <1>2, <2>2, AppControllerEvents, RunnerEvents
  <2>3. CASE ProcessController
    BY <1>2, <2>3 DEF ProcessController, ReadCFProcess, FailCFProcess, ApplyCFProcess,
       CleanUpAppWorkloads, Idle
  <2>4. CASE Crash
    BY <1>2, <2>4 DEF Crash, CrashControllers, CrashRunner
  <2> QED
    BY <2>1, <2>2, <2>3, <2>4 DEF Next
<1>4. \A k \in Names : ~wls'[k].exists
  <2>1. \A k \in Names : ~wls[k].exists
    BY <1>2 DEF Workloads
  <2>2. wlC.pc # "read"
    BY <2>1 DEF SetsInv, TypeInv, WorkersOK, RunnerWorker, Idle
  <2>3. CASE API \/ AppController \/ Crash \/ UNCHANGED vars
    <3>1. UNCHANGED wls
      <4>1. CASE API
        BY <4>1 DEF API, StartApp, StopApp, SetCurrentDroplet, CreateDeployment, ReadApp,
           PatchApp, ScaleProcess, DeleteApp, CreateBinding, objects
      <4>2. CASE AppController
        BY <4>2 DEF AppController, ReadCFApp, FinalizeCFApp, ReconcileCFApp, PatchCFAppStatus,
           objects
      <4>3. CASE Crash \/ UNCHANGED vars
        BY <4>3 DEF Crash, CrashControllers, CrashRunner, vars, objects
      <4> QED
        BY <2>3, <4>1, <4>2, <4>3
    <3> QED
      BY <2>1, <3>1
  <2>4. CASE ProcessController
    <3>1. UNCHANGED wls
      BY <1>2, <2>4 DEF ProcessController, ReadCFProcess, FailCFProcess, ApplyCFProcess,
         CleanUpAppWorkloads, Idle, objects
    <3> QED
      BY <2>1, <3>1
  <2>5. CASE Runner
    <3>1. UNCHANGED wls
      BY <2>2, <2>5 DEF Runner, ReadAppWorkload, ApplyAppWorkload, FinalizeAppWorkload, objects
    <3> QED
      BY <2>1, <3>1
  <2>6. CASE Kubernetes
    BY <2>1, <2>6, KubernetesMakes
  <2> QED
    BY <2>3, <2>4, <2>5, <2>6 DEF Next
<1> QED
  BY <1>3, <1>4 DEF Workloads

-----------------------------------------------------------------------------
(* Rest.                                                                   *)

LEMMA InitRest ==
    ASSUME Init
    PROVE  RestInv
<1>1. /\ \A k \in Names : wls[k] = NoWorkload
      /\ \A v \in Revs : sts[v] = NoStatefulSet
      /\ ~proc.exists /\ procC = Idle /\ wlC = Idle
      /\ queue.app
  BY DEF Init
<1> QED
  BY <1>1 DEF RestInv, Unmade, HashInv, AppInv, ProcInv, RunnerInv, RunnerFresh, WorksOn,
     Workloads, LiveSets, NoWorkload, NoStatefulSet, Idle

LEMMA NextRest ==
    ASSUME TypeInv, SetsInv, RestInv, [Next]_vars
    PROVE  RestInv'
BY NextUnmade, NextHash, NextApp, NextProc, NextRunner DEF RestInv

\* At rest a workload that exists is reported, and is not being deleted.
LEMMA WorkloadsAtRest ==
    ASSUME RestInv, AtRest, NEW k \in Workloads
    PROVE  Reported(k)
BY DEF RestInv, AtRest, RunnerInv, RunnerFresh, WorksOn, Workloads, Idle

\* Without workloads there is no trace of a StatefulSet either.
LEMMA NothingLeft ==
    ASSUME SetsInv, KubernetesRests, Workloads = {}
    PROVE  \A v \in Revs : sts[v] = NoStatefulSet
BY DEF SetsInv, SetsHaveWorkload, KubernetesRests, Workloads, LiveSets

\* A process that exists reports what its workloads report, and at rest these
\* are the one it needs or none.
LEMMA ProcessAtRest ==
    ASSUME RestInv, AtRest, proc.exists
    PROVE  /\ Desired
           /\ Workloads \subseteq {k \in Names : Needed /\ k = DesiredWorkloadName(app)}
           /\ proc.actual = Cardinality(ReportedInstances)
<1>1. Desired /\ Cleaned
  BY DEF RestInv, AtRest, ProcInv, ProcFresh, Idle
<1>2. ASSUME NEW k \in Workloads
      PROVE  Needed /\ k = DesiredWorkloadName(app)
  BY <1>1, <1>2, WorkloadsAtRest DEF Cleaned, Reported
<1> QED
  BY <1>1, <1>2 DEF Cleaned, Workloads

\* The three promises together.
LEMMA RestSuffices ==
    ASSUME NoCollisions, TypeInv, SetsInv, RestInv
    PROVE  RestIsSettled
<1>1. SUFFICES ASSUME AtRest, KubernetesRests
               PROVE  /\ Running => RunningIsSettled
                      /\ Stopped => StoppedIsSettled
                      /\ app.phase # "live" => DeletedIsSettled
  BY DEF RestIsSettled
<1>2. app \in CFApp /\ (app.phase = "gone" \/ Shown(app.actual, app.ready))
  BY <1>1 DEF RestInv, AtRest, AppInv, AppFresh, Idle, TypeInv
<1>3. Running => RunningIsSettled
  <2>1. SUFFICES ASSUME Running
                 PROVE  RunningIsSettled
    OBVIOUS
  <2> DEFINE v == LastStopRevision(app)
             k == DesiredWorkloadName(app)
             s == sts[v]
  <2>2. /\ app.desired = "STARTED" /\ app.droplet # None /\ Needed
        /\ proc.exists /\ app.ready /\ app.actual = "STARTED"
    BY <1>2, <2>1 DEF Running, Shown, Needed
  <2>3. Made(k) /\ Workloads \subseteq {k}
    BY <1>1, <2>2, ProcessAtRest DEF Desired
  <2>4. v \in Revs /\ k \in Names /\ k = Hash[v]
    BY AppElim, HashAssumption DEF TypeInv, LastStopRevision, DesiredWorkloadName
  <2>5. Workloads = {k}
    BY <2>3, <2>4 DEF Made, Workloads
  <2>6. Reported(k)
    BY <1>1, <2>5, WorkloadsAtRest
  <2>7. /\ wls[k].version = app.rev /\ wls[k].lastStop = v
        /\ wls[k].instances = proc.instances /\ wls[k].image = app.droplet
    BY <2>3 DEF Made
  <2>8. /\ s.live /\ s.version = app.rev /\ s.image = app.droplet
        /\ s.replicas = proc.instances /\ s.pdb = (proc.instances > 1)
        /\ ~wls[k].deleting
    BY <2>6, <2>7 DEF Reported
  <2>9. ASSUME NEW u \in LiveSets
        PROVE  u = v
    <3>1. u \in Revs /\ Hash[u] = sts[u].workload /\ sts[u].workload \in Workloads
      BY DEF RestInv, HashInv, SetsInv, SetsHaveWorkload, LiveSets, Workloads
    <3> QED
      BY <2>4, <2>5, <3>1 DEF NoCollisions
  <2>10. LiveSets = {v}
    BY <2>4, <2>8, <2>9 DEF LiveSets
  <2>11. s.pods = s.replicas /\ s.podVersion = s.version /\ s.readyPods = s.pods
    BY <1>1, <2>10 DEF KubernetesRests
  <2> QED
    BY <2>2, <2>5, <2>8, <2>10, <2>11 DEF RunningIsSettled, Settled
<1>4. Stopped => StoppedIsSettled
  <2>1. SUFFICES ASSUME Stopped
                 PROVE  StoppedIsSettled
    OBVIOUS
  <2>2. app.desired = "STOPPED" /\ app.phase = "live" /\ Shown(app.actual, app.ready)
    BY <1>2, <2>1 DEF Stopped
  <2>3. Workloads = {}
    <3>1. CASE proc.exists
      BY <1>1, <2>2, <3>1, ProcessAtRest DEF Needed
    <3>2. CASE ~proc.exists
      BY <2>2, <3>2 DEF RestInv, Unmade
    <3> QED
      BY <3>1, <3>2
  <2>4. app.droplet # None => app.actual = "STOPPED" /\ app.ready
    BY <2>2 DEF Shown
  <2> QED
    BY <1>1, <2>2, <2>3, <2>4, NothingLeft DEF StoppedIsSettled, Shown
<1>5. app.phase # "live" => DeletedIsSettled
  <2>1. SUFFICES ASSUME app.phase # "live"
                 PROVE  DeletedIsSettled
    OBVIOUS
  <2>2. app.phase = "gone"
    BY <1>2, <2>1 DEF Shown
  <2>3. ~proc.exists /\ \A k \in Workloads : wls[k].deleting
    BY <1>1, <2>2 DEF KubernetesRests
  <2>4. Workloads = {}
    BY <1>1, <2>3, WorkloadsAtRest DEF Reported
  <2> QED
    BY <1>1, <2>2, <2>3, <2>4, NothingLeft DEF DeletedIsSettled
<1> QED
  BY <1>3, <1>4, <1>5

\* No wake-up is lost, for any number of API calls, overlapping requests and
\* restarts: when every queue is empty, every worker idle and Kubernetes done,
\* a started app has exactly its StatefulSet, a stopped app nothing, and of a
\* deleted app nothing is left.  Names of workloads must not collide: with a
\* collision two StatefulSets share one workload.
THEOREM RestSettles == ASSUME NoCollisions PROVE Spec => []RestIsSettled
<1>1. Init => TypeInv /\ SetsInv /\ RestInv
  <2>1. Init => SetsInv
    BY DEF Init, SetsInv, SetsHaveWorkload, LiveSets, NoStatefulSet, Idle
  <2> QED
    BY <2>1, InitType, InitRest
<1>2. TypeInv /\ SetsInv /\ RestInv /\ [Next]_vars => (TypeInv /\ SetsInv /\ RestInv)'
  BY NextType, NextSets, NextRest
<1>3. TypeInv /\ SetsInv /\ RestInv => RestIsSettled
  BY RestSuffices
<1> QED
  BY <1>1, <1>2, <1>3, PTL DEF Spec
=============================================================================
