---------------------------- MODULE AppLifecycle ----------------------------
(***************************************************************************)
(* Starting, stopping, rolling, scaling and deleting an app.               *)
(*                                                                         *)
(* A chain of three controllers turns the desired state of a CFApp into    *)
(* pods: the CFApp controller creates a CFProcess and reports the state of *)
(* the app, the CFProcess controller keeps one AppWorkload, and the        *)
(* AppWorkload controller of the statefulset runner keeps one StatefulSet. *)
(* They share nothing but the objects in etcd, which the API server's      *)
(* requests, the mutating webhooks and the controllers all write with      *)
(* merge patches that carry no resource version.  The module describes one *)
(* app with one process of type web.                                       *)
(*                                                                         *)
(* A reconciler reads its object, works on what it has read, and writes a  *)
(* main patch and then a status patch.  Each of these is a step, so other  *)
(* writers come in between.  A controller runs only when an event of an    *)
(* object it watches, or its own requeueing, has put a request into its    *)
(* work queue, and each controller has a single worker.                    *)
(***************************************************************************)
EXTENDS Integers, FiniteSets

CONSTANTS
    Droplets,   \* staged builds that can become the app's current droplet
    Created,    \* desired states and droplets an app may be created with
    Scales,     \* instance counts a user may ask for
    Names,      \* the suffixes of AppWorkload names, 4 hex digits in the code
    Hash,       \* the suffix made from a last-stop revision
    Requests,   \* slots for concurrent API requests that patch the app
    Kinds,      \* what the API is asked to do
    MaxOps,     \* bound on the number of API calls
    MaxCrashes, \* bound on restarts of a controller manager
    None

Revs == 0..MaxOps
AllKinds == {"start", "stop", "droplet", "deploy", "scale", "delete", "bind"}

ASSUME BoundsAssumption == MaxOps \in Nat /\ MaxCrashes \in Nat
ASSUME CreatedAssumption ==
    Created \subseteq {"STARTED", "STOPPED"} \X (Droplets \cup {None})
ASSUME ScalesAssumption == Scales \subseteq Nat
ASSUME NamesAssumption == IsFiniteSet(Names)
ASSUME HashAssumption == Hash \in [Revs -> Names]
ASSUME KindsAssumption == Kinds \subseteq AllKinds
ASSUME NoneAssumption ==
    None \notin Droplets /\ None \notin Names /\ None \notin Int /\ None \notin STRING

VARIABLES
    app,        \* the CFApp
    proc,       \* the CFProcess
    wls,        \* the AppWorkloads, by name
    sts,        \* the StatefulSets, by the last-stop revision in their name
    bound,      \* the CFServiceBinding of the app
    reqs,       \* API requests between their read and their patch
    appC,       \* the worker of the CFApp controller
    procC,      \* the worker of the CFProcess controller
    wlC,        \* the worker of the AppWorkload controller
    queue,      \* the work queues of the three controllers
    ops,        \* API calls made
    crashes     \* controller managers restarted

objects == <<app, proc, wls, sts, bound>>
vars == <<objects, reqs, appC, procC, wlC, queue, ops, crashes>>

-----------------------------------------------------------------------------
(* State.                                                                  *)

States == {"STARTED", "STOPPED"}

CFApp ==
    [phase : {"live", "deleting", "gone"},
     desired : States, droplet : Droplets \cup {None},
     gen : Nat,                             \* metadata.generation
     rev : Revs, lastStop : Revs \cup {None},   \* the two annotations
     observed : Nat, actual : States \cup {None}, ready : BOOLEAN, \* status
     label : {"ACTIVE", "FINALIZED"}]       \* the deployment status label

CFProcess ==
    [exists : BOOLEAN, instances : Nat, actual : Nat, ready : BOOLEAN]

NoWorkload == [exists |-> FALSE]
AppWorkload ==
    [exists : {TRUE}, deleting : BOOLEAN, version : Revs, lastStop : Revs,
     instances : Nat, image : Droplets, actual : Nat, ready : BOOLEAN]

\* workload is the label that names the AppWorkload, pods and readyPods the
\* status, podVersion the version its pods run.  pods of a StatefulSet that
\* is not live are waiting for the garbage collector.
StatefulSet ==
    [live : BOOLEAN, workload : Names \cup {None}, version : Revs \cup {None},
     image : Droplets \cup {None}, replicas : Nat, pdb : BOOLEAN,
     pods : Nat, readyPods : Nat, podVersion : Revs \cup {None}]
NoStatefulSet ==
    [live |-> FALSE, workload |-> None, version |-> None, image |-> None,
     replicas |-> 0, pdb |-> FALSE, pods |-> 0, readyPods |-> 0,
     podVersion |-> None]

Idle == [pc |-> "idle"]

\* The name of the workload for a version of the app (getRevision,
\* getLastStopRevision, getDesiredAppWorkloadName).
LastStopRevision(a) == IF a.lastStop = None THEN a.rev ELSE a.lastStop

\* Mutant: the workload is named after every revision, not only the stops.
DesiredWorkloadNameByRevision(a) == Hash[a.rev]

DesiredWorkloadName(a) == Hash[LastStopRevision(a)]

Workloads == {k \in Names : wls[k].exists}
LiveSets == {v \in Revs : sts[v].live}
SetsOf(k) == {v \in LiveSets : sts[v].workload = k}

-----------------------------------------------------------------------------
(* Events.  base is the queues after the running step has taken or put     *)
(* back its own request; a write that changes an object wakes everyone who *)
(* watches it.                                                             *)

ChangedWorkloads ==
    {k \in Names : wls'[k] # wls[k]}
        \cup ((UNION {{sts[v].workload, sts'[v].workload} :
                        v \in {u \in Revs : sts'[u] # sts[u]}}) \ {None})

\* Mutant: the CFProcess controller does not own AppWorkloads.
EnqueueWithoutOwnedWorkloads(base) ==
    queue' =
        [app  |-> base.app \/ app' # app \/ proc' # proc \/ bound' # bound,
         proc |-> base.proc \/ proc' # proc
                            \/ (app' # app /\ proc.exists),
         wls  |-> base.wls \cup ChangedWorkloads]

Enqueue(base) ==
    queue' =
        [app  |-> base.app \/ app' # app \/ proc' # proc \/ bound' # bound,
         proc |-> base.proc \/ proc' # proc \/ wls' # wls
                            \/ (app' # app /\ proc.exists),
         wls  |-> base.wls \cup ChangedWorkloads]

-----------------------------------------------------------------------------
(* Writing the CFApp.                                                      *)

\* A JSON merge patch is the difference between what was read and what it
\* was changed to; it overwrites those fields and no others.
MergeFrom(read, modified) ==
    [f \in {g \in DOMAIN read : modified[g] # read[g]} |-> modified[f]]
Merge(current, patch) ==
    [f \in DOMAIN current |-> IF f \in DOMAIN patch THEN patch[f] ELSE current[f]]

\* Mutant: a stop bumps app-rev but leaves last-stop-app-rev alone.
AppRevWebhookKeepsLastStop(old, new) ==
    IF new.desired = "STOPPED" /\ old.desired = "STARTED"
    THEN [new EXCEPT !.rev = @ + 1]
    ELSE new

\* The mutating webhooks of a write to the main resource.
AppRevWebhook(old, new) ==
    IF new.desired = "STOPPED" /\ old.desired = "STARTED"
    THEN [new EXCEPT !.rev = @ + 1, !.lastStop = new.rev + 1]
    ELSE new

\* The label indexer sees the status that the patch carries, although the
\* API server then drops it.
DeploymentStatusLabel(new) ==
    [new EXCEPT !.label = IF new.ready THEN "FINALIZED" ELSE "ACTIVE"]

\* metadata.generation counts the changes of the spec.
CountGeneration(old, new) ==
    [new EXCEPT !.gen =
        IF <<new.desired, new.droplet>> = <<old.desired, old.droplet>>
        THEN @ ELSE @ + 1]

KeepStatus(old, new) ==
    [new EXCEPT !.observed = old.observed, !.actual = old.actual,
                !.ready = old.ready]

PatchMain(patch) ==
    LET admitted == DeploymentStatusLabel(AppRevWebhook(app, Merge(app, patch)))
    IN KeepStatus(app, CountGeneration(app, admitted))

PatchStatus(patch) == KeepStatus(Merge(app, patch), app)

-----------------------------------------------------------------------------
(* API requests.                                                           *)

Count == ops < MaxOps /\ ops' = ops + 1

ModifiedApp(a, kind, droplet) ==
    CASE kind = "start" -> [a EXCEPT !.desired = "STARTED"]
      [] kind = "stop" -> [a EXCEPT !.desired = "STOPPED"]
      [] kind = "droplet" -> [a EXCEPT !.droplet = droplet]
      [] kind = "deploy" ->
            [a EXCEPT !.droplet = IF droplet = None THEN @ ELSE droplet,
                      !.rev = @ + 1, !.desired = "STARTED"]

\* SetAppDesiredState, SetCurrentDroplet and CreateDeployment get the app,
\* then patch what they have read.  startApp insists on a droplet.
ReadApp(r, kind, droplet) ==
    /\ Count
    /\ reqs[r] = None
    /\ app.phase # "gone"
    /\ kind = "start" => app.droplet # None
    /\ reqs' = [reqs EXCEPT ![r] = MergeFrom(app, ModifiedApp(app, kind, droplet))]
    /\ UNCHANGED <<objects, appC, procC, wlC, queue, crashes>>

StartApp(r) == "start" \in Kinds /\ ReadApp(r, "start", None)
StopApp(r) == "stop" \in Kinds /\ ReadApp(r, "stop", None)
SetCurrentDroplet(r, d) == "droplet" \in Kinds /\ ReadApp(r, "droplet", d)
CreateDeployment(r, d) == "deploy" \in Kinds /\ ReadApp(r, "deploy", d)

PatchApp(r) ==
    /\ reqs[r] # None
    /\ app' = IF app.phase = "gone" THEN app
              ELSE PatchMain(reqs[r])
    /\ reqs' = [reqs EXCEPT ![r] = None]
    /\ UNCHANGED <<proc, wls, sts, bound, appC, procC, wlC, ops, crashes>>
    /\ Enqueue(queue)

ScaleProcess(n) ==
    /\ "scale" \in Kinds
    /\ proc.exists
    /\ Count
    /\ proc' = [proc EXCEPT !.instances = n]
    /\ UNCHANGED <<app, wls, sts, bound, reqs, appC, procC, wlC, crashes>>
    /\ Enqueue(queue)

\* The finalizer keeps the app; the API server counts a generation.
DeleteApp ==
    /\ "delete" \in Kinds
    /\ app.phase = "live"
    /\ Count
    /\ app' = [app EXCEPT !.phase = "deleting", !.gen = @ + 1]
    /\ UNCHANGED <<proc, wls, sts, bound, reqs, appC, procC, wlC, crashes>>
    /\ Enqueue(queue)

CreateBinding ==
    /\ "bind" \in Kinds
    /\ bound = "none"
    /\ Count
    /\ bound' = "pending"
    /\ UNCHANGED <<app, proc, wls, sts, reqs, appC, procC, wlC, crashes>>
    /\ Enqueue(queue)

\* The CFServiceBinding controller makes a binding ready, or finalizes it.
BindingStep ==
    /\ \/ bound = "pending" /\ bound' = "ready"
       \/ bound = "deleting" /\ bound' = "none"
    /\ UNCHANGED <<app, proc, wls, sts, reqs, appC, procC, wlC, ops, crashes>>
    /\ Enqueue(queue)

-----------------------------------------------------------------------------
(* The CFApp controller (PatchingReconciler around the app Reconciler).    *)

ReadCFApp ==
    /\ queue.app
    /\ appC = Idle
    /\ appC' = IF app.phase = "gone" THEN Idle
               ELSE [pc |-> "read", read |-> app]
    /\ UNCHANGED <<objects, reqs, procC, wlC, ops, crashes>>
    /\ Enqueue([queue EXCEPT !.app = FALSE])

\* What the reconciler writes into the app before anything can fail.
Observed(a) == [a EXCEPT !.observed = a.gen, !.actual = "STOPPED"]

PatchCFApp(modified, requeue) ==
    /\ app' = IF modified = appC.read THEN app
              ELSE PatchMain(MergeFrom(appC.read, modified))
    /\ appC' = [pc |-> "status", patch |-> MergeFrom(appC.read, modified),
                requeue |-> requeue]

\* finalizeCFApp: bindings first, then the finalizer.
FinalizeCFApp ==
    /\ appC.pc = "read"
    /\ appC.read.phase = "deleting"
    /\ IF bound # "none"
       THEN /\ bound' = "deleting"
            /\ PatchCFApp([Observed(appC.read) EXCEPT !.ready = TRUE], TRUE)
       ELSE /\ bound' = bound
            /\ app' = [app EXCEPT !.phase = "gone"]
            /\ appC' = Idle
    /\ UNCHANGED <<proc, wls, sts, reqs, procC, wlC, ops, crashes>>
    /\ Enqueue(queue)

\* Mutant: the defaulting webhook is not there.
NewCFProcessNoDefault == [exists |-> TRUE, instances |-> None, actual |-> 0, ready |-> FALSE]

\* createCFProcess, with the defaults of the CFProcess webhook.
NewCFProcess == [exists |-> TRUE, instances |-> 1, actual |-> 0, ready |-> FALSE]

ReconcileProcesses == IF proc.exists THEN proc ELSE NewCFProcess

ActualState(p) == IF p.actual = 0 THEN "STOPPED" ELSE "STARTED"

ReconcileCFApp ==
    /\ appC.pc = "read"
    /\ appC.read.phase = "live"
    /\ LET a == [Observed(appC.read) EXCEPT !.lastStop = LastStopRevision(appC.read)]
           unready == [a EXCEPT !.ready = FALSE]
           p == ReconcileProcesses
           actual == ActualState(p)
       IN \/ /\ bound = "pending"
             /\ PatchCFApp(unready, TRUE)
             /\ proc' = proc
          \/ /\ bound # "pending" /\ a.droplet = None
             /\ PatchCFApp(unready, FALSE)
             /\ proc' = proc
          \/ /\ bound # "pending" /\ a.droplet # None
             /\ proc' = p
             /\ LET ready == actual = a.desired /\ p.ready
                IN PatchCFApp([a EXCEPT !.actual = actual, !.ready = ready], ~ready)
    /\ UNCHANGED <<wls, sts, bound, reqs, procC, wlC, ops, crashes>>
    /\ Enqueue(queue)

PatchCFAppStatus ==
    /\ appC.pc = "status"
    /\ app' = IF app.phase = "gone" THEN app
              ELSE PatchStatus(appC.patch)
    /\ appC' = Idle
    /\ UNCHANGED <<proc, wls, sts, bound, reqs, procC, wlC, ops, crashes>>
    /\ Enqueue([queue EXCEPT !.app = @ \/ appC.requeue])

-----------------------------------------------------------------------------
(* The CFProcess controller.                                               *)

ReadCFProcess ==
    /\ queue.proc
    /\ procC = Idle
    /\ procC' = IF proc.exists
                THEN [pc |-> "read", instances |-> proc.instances,
                      app |-> [phase |-> app.phase, desired |-> app.desired,
                               droplet |-> app.droplet, rev |-> app.rev,
                               lastStop |-> app.lastStop,
                               outdated |-> app.gen # app.observed]]
                ELSE Idle
    /\ UNCHANGED <<objects, reqs, appC, wlC, ops, crashes>>
    /\ Enqueue([queue EXCEPT !.proc = FALSE])

NeedsAppWorkload == procC.app.desired = "STARTED" /\ procC.instances > 0

\* The app status is older than its spec: status.serviceBindings and the
\* VCAP secrets may not be those of this generation.
OutdatedCFAppStatus == procC.app.outdated

ReconcileFails ==
    \/ procC.app.phase = "gone"
    \/ NeedsAppWorkload /\ (OutdatedCFAppStatus \/ procC.app.droplet = None)

\* The error is written to the Ready condition and the request is put back.
FailCFProcess ==
    /\ procC.pc = "read"
    /\ ReconcileFails
    /\ proc' = IF proc.exists THEN [proc EXCEPT !.ready = FALSE] ELSE proc
    /\ procC' = Idle
    /\ UNCHANGED <<app, wls, sts, bound, reqs, appC, wlC, ops, crashes>>
    /\ Enqueue([queue EXCEPT !.proc = TRUE])

\* createOrPatchAppWorkload.
CreateOrPatchAppWorkload ==
    LET a == procC.app
        k == DesiredWorkloadName(a)
        found == wls[k].exists
    IN wls' = [wls EXCEPT ![k] =
        [exists |-> TRUE, version |-> a.rev, lastStop |-> LastStopRevision(a),
         instances |-> procC.instances, image |-> a.droplet,
         deleting |-> found /\ wls[k].deleting,
         actual |-> IF found THEN wls[k].actual ELSE 0,
         ready |-> found /\ wls[k].ready]]

ApplyCFProcess ==
    /\ procC.pc = "read"
    /\ ~ReconcileFails
    /\ IF NeedsAppWorkload THEN CreateOrPatchAppWorkload ELSE wls' = wls
    /\ procC' = [pc |-> "applied", desired |-> procC.app.desired,
                 instances |-> procC.instances,
                 name |-> DesiredWorkloadName(procC.app)]
    /\ UNCHANGED <<app, proc, sts, bound, reqs, appC, wlC, ops, crashes>>
    /\ Enqueue(queue)

NeedsToDelete(k) ==
    procC.desired = "STOPPED" \/ procC.instances = 0 \/ k # procC.name

AllWorkloadsReady == \A k \in Workloads : wls[k].ready

\* The instances the workloads report, each a workload and an index.
ReportedInstances == UNION {{k} \X (1..wls[k].actual) : k \in Workloads}

\* cleanUpAppWorkloads, then the status from the workloads that are left;
\* the finalizer keeps what was deleted.
CleanUpAppWorkloads ==
    /\ procC.pc = "applied"
    /\ wls' = [k \in Names |->
            IF wls[k].exists /\ NeedsToDelete(k)
            THEN [wls[k] EXCEPT !.deleting = TRUE] ELSE wls[k]]
    /\ proc' = IF ~proc.exists THEN proc
               ELSE [proc EXCEPT !.ready = AllWorkloadsReady,
                        !.actual = Cardinality(ReportedInstances)]
    /\ procC' = Idle
    /\ UNCHANGED <<app, sts, bound, reqs, appC, wlC, ops, crashes>>
    /\ Enqueue([queue EXCEPT !.proc = @ \/ ~AllWorkloadsReady])

-----------------------------------------------------------------------------
(* The AppWorkload controller of the statefulset runner.                   *)

ReadAppWorkload(k) ==
    /\ k \in queue.wls
    /\ wlC = Idle
    /\ wlC' = IF wls[k].exists THEN [pc |-> "read", name |-> k, read |-> wls[k]] ELSE Idle
    /\ UNCHANGED <<objects, reqs, appC, procC, ops, crashes>>
    /\ Enqueue([queue EXCEPT !.wls = @ \ {k}])

\* CreateOrPatch of the StatefulSet, its PodDisruptionBudget, and the status.
\* The reconciler returns no error, so the workload is Ready from now on.
ApplyAppWorkload ==
    /\ wlC.pc = "read"
    /\ ~wlC.read.deleting
    /\ LET w == wlC.read
           old == sts[w.lastStop]
           readyPods == IF old.live THEN old.readyPods ELSE 0
       IN /\ sts' = [sts EXCEPT ![w.lastStop] =
                [old EXCEPT !.live = TRUE, !.workload = wlC.name,
                            !.version = w.version, !.image = w.image,
                            !.replicas = w.instances, !.pdb = w.instances > 1,
                            !.readyPods = readyPods]]
          /\ wls' = [wls EXCEPT ![wlC.name].actual = readyPods,
                                ![wlC.name].ready = TRUE]
    /\ wlC' = Idle
    /\ UNCHANGED <<app, proc, bound, reqs, appC, procC, ops, crashes>>
    /\ Enqueue(queue)

\* Mutant: the finalizer is dropped and the StatefulSets are left alone.
DeleteSetsForgotten(vs) == sts' = sts

\* DeleteAllOf with the default propagation: the objects go, their pods wait
\* for the garbage collector.
DeleteSets(vs) ==
    sts' = [v \in Revs |->
        IF v \notin vs THEN sts[v]
        ELSE IF sts[v].pods = 0 THEN NoStatefulSet
        ELSE [sts[v] EXCEPT !.live = FALSE, !.pdb = FALSE]]

Pods(vs) == UNION {{v} \X (1..sts[v].pods) : v \in vs}

\* finalize.  The list that follows the deletion is read from the informer
\* cache, which may still show the StatefulSets.
FinalizeAppWorkload(stale) ==
    /\ wlC.pc = "read"
    /\ wlC.read.deleting
    /\ LET k == wlC.name
           mine == SetsOf(k)
       IN /\ stale => mine # {}
          /\ DeleteSets(mine)
          /\ wls' = [wls EXCEPT ![k] =
                IF stale
                THEN [wls[k] EXCEPT !.ready = FALSE,
                        !.actual = Cardinality(Pods(mine))]
                ELSE NoWorkload]
    /\ wlC' = Idle
    /\ UNCHANGED <<app, proc, bound, reqs, appC, procC, ops, crashes>>
    /\ Enqueue([queue EXCEPT !.wls = @ \cup {k \in {wlC.name} : stale}])

-----------------------------------------------------------------------------
(* Kubernetes, as far as the controllers see it.                           *)

ChangeSet(v, new) ==
    /\ sts' = [sts EXCEPT ![v] = new]
    /\ UNCHANGED <<app, proc, wls, bound, reqs, appC, procC, wlC, ops, crashes>>
    /\ Enqueue(queue)

\* The StatefulSet controller replaces the pods of another version.
RollOut(v) ==
    LET s == sts[v] IN
    /\ s.live
    /\ s.pods # s.replicas \/ s.podVersion # s.version
    /\ ChangeSet(v, [s EXCEPT !.pods = s.replicas, !.podVersion = s.version,
            !.readyPods = IF s.podVersion # s.version THEN 0
                          ELSE IF @ > s.replicas THEN s.replicas ELSE @])

PodsReady(v) ==
    LET s == sts[v] IN
    /\ s.live
    /\ s.pods = s.replicas /\ s.podVersion = s.version
    /\ s.readyPods # s.pods
    /\ ChangeSet(v, [s EXCEPT !.readyPods = s.pods])

\* The garbage collector follows owner references.
CollectPods(v) ==
    /\ ~sts[v].live
    /\ sts[v] # NoStatefulSet
    /\ ChangeSet(v, NoStatefulSet)

CollectCFProcess ==
    /\ app.phase = "gone"
    /\ proc.exists
    /\ proc' = [proc EXCEPT !.exists = FALSE, !.instances = 0, !.actual = 0, !.ready = FALSE]
    /\ UNCHANGED <<app, wls, sts, bound, reqs, appC, procC, wlC, ops, crashes>>
    /\ Enqueue(queue)

CollectAppWorkload(k) ==
    /\ app.phase = "gone" /\ ~proc.exists
    /\ wls[k].exists /\ ~wls[k].deleting
    /\ wls' = [wls EXCEPT ![k].deleting = TRUE]
    /\ UNCHANGED <<app, proc, sts, bound, reqs, appC, procC, wlC, ops, crashes>>
    /\ Enqueue(queue)

\* A manager restarts: its workers forget what they were doing and its
\* informers deliver every object again.
CrashControllers ==
    /\ crashes < MaxCrashes
    /\ crashes' = crashes + 1
    /\ appC' = Idle /\ procC' = Idle
    /\ UNCHANGED <<objects, reqs, wlC, ops>>
    /\ Enqueue([queue EXCEPT !.app = TRUE, !.proc = TRUE])

CrashRunner ==
    /\ crashes < MaxCrashes
    /\ crashes' = crashes + 1
    /\ wlC' = Idle
    /\ UNCHANGED <<objects, reqs, appC, procC, ops>>
    /\ Enqueue([queue EXCEPT !.wls = Workloads])

-----------------------------------------------------------------------------
Init ==
    /\ \E c \in Created : app =
             [phase |-> "live", desired |-> c[1], droplet |-> c[2], gen |-> 1,
              rev |-> 0, lastStop |-> None,
              observed |-> 0, actual |-> None, ready |-> FALSE,
              label |-> "ACTIVE"]
    /\ proc = [exists |-> FALSE, instances |-> 0, actual |-> 0, ready |-> FALSE]
    /\ wls = [k \in Names |-> NoWorkload]
    /\ sts = [v \in Revs |-> NoStatefulSet]
    /\ bound = "none"
    /\ reqs = [r \in Requests |-> None]
    /\ appC = Idle /\ procC = Idle /\ wlC = Idle
    /\ queue = [app |-> TRUE, proc |-> FALSE, wls |-> {}]
    /\ ops = 0 /\ crashes = 0

API ==
    \/ \E r \in Requests : StartApp(r) \/ StopApp(r) \/ PatchApp(r)
    \/ \E r \in Requests, d \in Droplets : SetCurrentDroplet(r, d)
    \/ \E r \in Requests, d \in Droplets \cup {None} : CreateDeployment(r, d)
    \/ \E n \in Scales : ScaleProcess(n)
    \/ DeleteApp
    \/ CreateBinding

AppController == ReadCFApp \/ FinalizeCFApp \/ ReconcileCFApp \/ PatchCFAppStatus
ProcessController ==
    ReadCFProcess \/ FailCFProcess \/ ApplyCFProcess \/ CleanUpAppWorkloads
Runner ==
    \/ \E k \in Names : ReadAppWorkload(k)
    \/ ApplyAppWorkload
    \/ \E stale \in BOOLEAN : FinalizeAppWorkload(stale)
Kubernetes ==
    \/ \E v \in Revs : RollOut(v) \/ PodsReady(v) \/ CollectPods(v)
    \/ \E k \in Names : CollectAppWorkload(k)
    \/ CollectCFProcess
    \/ BindingStep
Crash == CrashControllers \/ CrashRunner

Next == API \/ AppController \/ ProcessController \/ Runner \/ Kubernetes \/ Crash

Spec == Init /\ [][Next]_vars

\* Every worker keeps taking requests from its queue, in whatever order, and
\* the controllers of Kubernetes keep working.
Fairness ==
    /\ WF_vars(AppController)
    /\ WF_vars(ProcessController)
    /\ WF_vars(Runner)
    /\ WF_vars(Kubernetes)
FairSpec == Spec /\ Fairness

-----------------------------------------------------------------------------
(* Properties.                                                             *)

\* Every object and every worker keeps its type; a process has a number of
\* instances as soon as it exists, and no more pods are ready than exist.
TypeOK ==
    /\ app \in CFApp
    /\ proc \in CFProcess
    /\ wls \in [Names -> AppWorkload \cup {NoWorkload}]
    /\ sts \in [Revs -> StatefulSet]
    /\ \A v \in Revs : sts[v].readyPods <= sts[v].pods
    /\ bound \in {"none", "pending", "ready", "deleting"}
    /\ queue \in [app : BOOLEAN, proc : BOOLEAN, wls : SUBSET Names]
    /\ appC.pc \in {"idle", "read", "status"}
    /\ procC.pc \in {"idle", "read", "applied"}
    /\ wlC.pc \in {"idle", "read"}

\* Every stop gives the app a workload name it does not use yet: while the
\* app is stopped there is no AppWorkload of the name the next start will
\* use, however slowly the controllers follow (AppRevWebhook, and the
\* single worker of the CFProcess controller).
StopRenamesWorkload ==
    app.phase = "live" /\ app.desired = "STOPPED" /\ app.lastStop # None
        => ~wls[DesiredWorkloadName(app)].exists

\* The workload of the current start is deleted only after a stop, for a
\* process that was scaled to zero, or with the app: rolling deployments,
\* droplet changes and restarts of the controllers leave it alone
\* (needsToDeleteAppWorkload; ADR 0017).
DeletedOnlyAfterStop ==
    [][\A k \in Names :
        (wls[k].exists /\ ~wls[k].deleting /\ wls'[k].exists /\ wls'[k].deleting)
            => \/ app.phase # "live" \/ app.desired = "STOPPED"
               \/ procC.pc = "applied" /\ procC.instances = 0
               \/ k # Hash[LastStopRevision(app)]]_vars

\* StatefulSets carry no owner reference: only the finalizer of the
\* AppWorkload removes them, so no workload may go before its StatefulSets
\* (finalize), whatever restarts or recreations come in between.
SetsHaveWorkload ==
    \A v \in LiveSets : wls[sts[v].workload].exists

Settled(k, v) ==
    /\ Workloads = {k} /\ ~wls[k].deleting
    /\ LiveSets = {v}
    /\ LET s == sts[v] IN
        /\ s.version = app.rev /\ s.podVersion = app.rev /\ s.image = app.droplet
        /\ s.replicas = proc.instances /\ s.readyPods = proc.instances
        /\ s.pdb = (proc.instances > 1)

Running == app.phase = "live" /\ app.desired = "STARTED"
               /\ app.droplet # None /\ proc.instances > 0
Stopped == app.phase = "live" /\ app.desired = "STOPPED"

\* Exactly one StatefulSet, of the app's revision, droplet and scale, with
\* its PodDisruptionBudget, and the app says so.
RunningIsSettled ==
    /\ Settled(DesiredWorkloadName(app), LastStopRevision(app))
    /\ app.ready /\ app.actual = "STARTED"

\* No workload, no StatefulSet and no pod, and the app says so.
StoppedIsSettled ==
    /\ Workloads = {}
    /\ \A v \in Revs : sts[v] = NoStatefulSet
    /\ app.actual = "STOPPED"
    /\ app.droplet # None => app.ready

\* Nothing is left of the app.
DeletedIsSettled ==
    /\ app.phase = "gone" /\ ~proc.exists
    /\ Workloads = {}
    /\ \A v \in Revs : sts[v] = NoStatefulSet

AtRest ==
    /\ queue = [app |-> FALSE, proc |-> FALSE, wls |-> {}]
    /\ appC = Idle /\ procC = Idle /\ wlC = Idle
    /\ \A r \in Requests : reqs[r] = None

\* Kubernetes has nothing left to do: no action of Kubernetes is enabled.
KubernetesRests ==
    /\ \A v \in LiveSets : /\ sts[v].pods = sts[v].replicas
                           /\ sts[v].podVersion = sts[v].version
                           /\ sts[v].readyPods = sts[v].pods
    /\ \A v \in Revs \ LiveSets : sts[v] = NoStatefulSet
    /\ app.phase = "gone" => ~proc.exists /\ \A k \in Workloads : wls[k].deleting
    /\ bound \in {"none", "ready"}

\* No wake-up is lost: when every queue is empty, every worker idle and
\* Kubernetes has nothing left to do, the app is where it was asked to be.
\* The watches and requeues of the three controllers must suffice for it.
RestIsSettled ==
    (AtRest /\ KubernetesRests)
        => /\ Running => RunningIsSettled
           /\ Stopped => StoppedIsSettled
           /\ app.phase # "live" => DeletedIsSettled

\* The number of API calls is bounded, so that the spec of the app is stable
\* from some point on; the convergence property is about what follows.

\* An app that stays started or stopped gets there, and stays there; deleting
\* it removes everything that was made for it, also what the controllers were
\* still making when it was deleted.
AppConverges ==
    <>[](/\ Running /\ bound # "pending" => RunningIsSettled
         /\ Stopped /\ bound # "pending" => StoppedIsSettled
         /\ app.phase # "live" => DeletedIsSettled)
=============================================================================
