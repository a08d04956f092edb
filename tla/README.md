# Korifi in TLA+

Korifi implements the Cloud Foundry API on Kubernetes. An API server turns
requests into custom resources; webhooks admit them; controllers reconcile them
into Kubernetes objects and report back in their status. Nothing is shared but
the objects in etcd, nobody holds a lock across two of them, and every step may
fail or be repeated. This directory models the parts of Korifi where that is
hard to get right, checks them with TLC and proves their safety with TLAPS.

## Inventory

| Component | State | Operations | Interacts through | What is hard |
|---|---|---|---|---|
| name registry (`controllers/coordination`, `webhooks/validation`) | one Lease per unique name | register, lock, unlock, deregister, check owner; validation of create, update and delete | admission requests of all named resources | requests of several objects interleave between the calls of one rename; admission is retried, dry-run, lost |
| app lifecycle (`controllers/workloads/{apps,processes}`, `webhooks/workloads/apps`, app and deployment repositories) | CFApp, CFProcess, AppWorkload | start, stop, restart, droplet, deployment, scale, delete; three reconcilers | watches, owner references, generation and revision annotations | patches without a resource version from four writers; two patches per reconciliation; restarts |
| statefulset runner | StatefulSet, PodDisruptionBudget | apply and finalize an AppWorkload | watches; a finalizer, because StatefulSets have no owner reference | the finalizer lists from a cache |
| service instances and bindings (`controllers/services`) | CFServiceInstance, CFServiceBinding, secrets, and what the broker has | create, delete, purge; provision, bind, poll, unbind, deprovision | HTTP calls to the broker; instance deletes its bindings | lost answers, asynchronous operations, restarts between a call and the status |
| service brokers (`services/brokers`) | CFServiceBroker, offerings, plans | fetch and apply the catalog, show and hide plans, delete and purge an offering | watches on secrets; the visibility decides on instances | the catalog is applied object by object, from reads that requests overtake; a purge is many deletions |
| tasks and job-task-runner | CFTask, TaskWorkload, Job | create, cancel, expire | watches, time to live of jobs | a job that is gone is not a job that never was |
| builds, packages, kpack-image-builder | CFPackage, CFBuild, BuildWorkload, kpack Image and Builds | upload, stage, choose a droplet, clean up old builds and packages | watches; one kpack Image for all builds of an app | builds share an Image whose generations kpack may skip; the cleaner against the choice of a droplet |
| orgs, spaces, roles (`workloads/k8sns`) | CFOrg, CFSpace, Namespace, role bindings, service accounts, secrets | create, grant, revoke, propagate, delete | propagation from parent to child namespace | propagation from a list read earlier; deletion order, timeouts |
| routes and domains | CFRoute, CFDomain, HTTPRoute, Service | create, map, unmap, delete | watches on apps; finalizers of apps, domains and namespaces | three objects patched in turn; destinations of apps that go, routes of domains that go |
| API: handlers, repositories, Kubernetes client, waiting, manifests, jobs | none of its own | each request | reads and patches of the above | a request is several calls; it waits for a status that may be old |
| authentication and authorization | identity cache | identify, filter | Kubernetes RBAC | a cached identity |
| label indexer, finalizer, version webhooks | labels, finalizers | mutate on write | every write | what a write computes from may change without a write |
| reconcile engine (`tools/k8s`) | none | get, delegate, two patches, requeue | every controller | what is requeued, what is not |

`PROJECT.json` lists the same components with their sources and status, and,
under `hazards`, what in this code is hard to test, line by line, with the
properties that cover it.

## Modules

| Module | What it is |
|---|---|
| `NameService` | what the name registry promises: an abstract specification |
| `NameRegistry` | the registry, the validator and the API server that calls it; implements `NameService` |
| `AppLifecycle` | one app: API requests, webhooks, three controllers, Kubernetes |
| `Services` | one service instance with its bindings: API, two controllers, broker |
| `Catalog` | one service broker, the offering and plans of its catalog, who may see them, and the purge of the offering |
| `Tasks` | one task: API, webhook, two controllers behind a cache that lags, Job |
| `BuildPromise` | what staging promises the users of an app: an abstract specification |
| `Staging` | the packages and builds of one app: API, four controllers, cleaners, kpack; implements `BuildPromise` |
| `Tenancy` | an org, its spaces, their namespaces, roles and service accounts |
| `Routes` | a domain, routes, destinations, Services and HTTPRoutes, and the apps they lead to |
| `Platform` | `Tenancy` and `Routes` composed: they share spaces, namespaces and apps |
| `NameRegistryProofs`, `AppLifecycleProofs`, `ServicesProofs`, `CatalogProofs`, `TasksProofs`, `StagingProofs`, `PlatformProofs` | theorems about the modules of these names |
| `AppRestProofs` | the theorem about what `AppLifecycle` leaves behind at rest |
| `MCNameRegistry`, `MCAppLifecycle`, `MCServices`, `MCCatalog`, `MCTasks`, `MCStaging`, `MCPlatform` | values for TLC |

Definitions named `...` with a comment that begins with *Mutant* are wrong on
purpose. Each changes one definition the way a plausible bug would, and the
property listed with it in `PROJECT.json` is violated when it takes its place.
No specification uses them.

### NameRegistry

`lease` is the set of Lease objects, by name: no lease, or an owner and a holder
identity (`none`, `locked`). `store` is what etcd has of the named objects;
`req` holds the admission requests in flight, each between two calls of the
registry. `RegisterName`, `DeregisterName`, `TryLockName`, `UnlockName` and
`CheckNameOwnership` are the methods of `coordination.NameRegistry`, with their
outcomes; one action per call is a step of `DuplicateValidator`
(`ValidateCreate`, `LockOldName` ... `DeregisterOldName`, `ValidateDelete`).
`Persist`, `Conflict`, `Abandon` are the API server's part: it writes what was
admitted, admits it again when the object has changed, or never writes it.

`Env` says which disturbances happen: a registry call that fails, a webhook that
dies between two calls, a create that was admitted and is never written, another
writer (`touch`), a write of an update or delete that is lost (`abandon`),
concurrent requests for one object (`parallel`), a second DELETE of an object
that is terminating (`redelete`). `SafeFaults` are those under which names stay
unique: all but the last four. The last four are real as well, and under them
the registry does lose claims; `names_redelete` shows the worst of it.

`NameService` knows neither locks nor requests: an object claims a free name,
shows a name it has claimed, gives up the claim on the name it shows, and then
shows another or none. The refinement (`Service`) takes the owner of a lease for
the claim, the name a live object has in etcd for the shown name, and the objects
with an admitted rename or delete still to be written for the leaving ones.
`ServesNames` says that `NameRegistry` implements it under `SafeFaults`.

### AppLifecycle

`app`, `proc`, `wls`, `sts`, `bound` are the objects in etcd: the CFApp with
generation, the two revision annotations, its status and the deployment status
label; the web CFProcess; AppWorkloads by the hash in their name; StatefulSets by
last-stop revision; the app's service binding. `appC`, `procC` and `wlC` are the
single workers of the three controllers with what they have read, `queue` their
work queues and `reqs` the API requests between their read and their patch.

An API request reads (`ReadApp`) and patches (`StartApp`, `StopApp`,
`SetCurrentDroplet`, `CreateDeployment`...). Each patch is a merge of what
changed since the read (`Merge`), goes through the `AppRevWebhook` and the label
indexer, and increments the generation when the spec changes. A reconciler reads
(`ReadCFApp`), acts, and writes the main object (`PatchCFApp`) and the status
(`PatchCFAppStatus`) in two steps; a patch that would change nothing is not sent.
`Enqueue` wakes the controllers that watch what a step has written.
`CrashControllers` and `CrashRunner` lose the workers and list everything again.

### Services

`si` and `sb` are the instance and its bindings, `plan` the visibility of the
plan, `broker` what the broker has of both (`none`, `creating`, `present`,
`createFailed`, `deleting`, `deleteFailed`). `siC`, `sbC` and `queue` are the
controllers. A reconciliation reads, asks the broker (`ProvisionInstance`,
`Bind`, `Unbind`, `DeprovisionInstance`), polls if the answer was 202
(`PollInstance`, `PollBinding`), and patches; these are separate steps, so that
users, the other controller, the broker and restarts come in between. `Call`
lets every request succeed, be refused, fail, or take effect although its answer
is lost.

### Catalog

`broker` is the CFServiceBroker (names are numbered, so its name is its
generation too), `secret` its credentials, `remote` the plans the broker serves;
`offering` and `plan` are what was made of them, with the label that lists are
filtered by and the visibility. `ctl` is the worker of the broker controller: it
reads the broker (`ReadBroker`), fetches the catalog (`GetCatalog`, `NoCatalog`),
and reads and patches offering and plans in turn (`GetOffering`,
`PatchOffering`, `GetPlan`, `PatchPlan`), each patch being what differs from its
own read (`MergeFrom`). `ModifiedPlan` is what it makes of a plan. `req` is a
request between two of its calls: a visibility (`ReadPlan`, `PatchVisibility`) or
a purge (`ListServicePlans`, `DeleteServicePlan`, `FetchServiceInstances`,
`ReleaseBinding`, `ReleaseInstance`, `DeleteReleased`, `PurgeOffering`), which may
break off at any of them (`RequestFails`). `applied` remembers the plans of the
catalog applied last, for the properties only.

### Tasks

`task`, `tw` and `job` are the three objects of one name as the API server has
them, `seen` as the cache has them. An object that arrives in the cache
(`SeeTask`, `SeeWorkload`, `SeeJob`) wakes its own controller and its owner's.
A reconciler reads the cache (`ReadTask`, `ReadWorkload`), acts
(`DeleteExpiredTask`, `HandleCancelation`, `CreateOrPatchTaskWorkload`;
`CreateJob`, `UpdateTaskWorkloadStatus`) and patches (`PatchTask`,
`PatchWorkload`) what it has computed from that read: `MergePatch` writes the
whole list of conditions if it changed, whatever is there by then. `timer` and
`overdue` are the time to live of the task: it is in the queue until it expires,
and taking it out for another reason takes the timer out as well, as in the
priority queue of controller-runtime. `history` records what the pods did.

### BuildPromise and Staging

`BuildPromise` knows a build by what the API shows of it: `STAGING`, `STAGED`,
`FAILED`, gone. Outcomes are final, a droplet is made from the package of its
build, and what is removed is neither the current droplet nor one of the newest
`Retained` others. `Staging!Promise` instantiates it with the state
`cfBuildToBuildRecord` shows, and `KeepsPromise` says that every behaviour of
`Staging` is one of `BuildPromise`.

In `Staging`, `pkg`, `build` and `wl` are the CFPackages, CFBuilds and
BuildWorkloads, `image` and `kbuilds` the kpack Image of the app and its Builds,
`kpack` what kpack reports of the Image, and `worker` the worker of the build
controller, whose cleaner lists builds (`ReconcileBuild`) and then deletes them
one by one (`CleanBuild`, `CleanBuildFails`, `FinishCleaned`). `Outcomes` is the
rest of that reconciliation. A workload begins by patching the Image, its own
label and its status (`BeginImageBuild`; the process may end after each write),
then follows the Builds of its generation (`ContinueImageBuild`), asks for one
that kpack has left out (`BuildCreationHasBeenSkipped`) and fails older workloads
that were skipped (`FailSkipped`). `FinalizeWorkload` takes the Builds of a
generation along with the last workload of it. The actions named `Kpack...` are
kpack, as far as the image builder relies on it.

### Tenancy, Routes and Platform

`org` and `space` are the CFOrg and the CFSpaces, `ns` their namespaces,
`bindings` and `accounts` what the namespaces hold. `BeginReconcile` is a
reconciliation up to the list of role bindings in the parent namespace,
`CompleteReconcile` the rest, `FailReconcile` one that stops half-way: users and
the controller of the parent come in between. `Watchers` is what a change of a
role binding queues. `DeleteApps`, `TimeOut`, `DeleteNamespace` and
`ReleaseObject` are the two finalizers; the namespace controller of Kubernetes
(`EmptyOrgNamespace`, `EmptySpaceNamespace`, `RemoveNamespace`) is external.

`route` holds each CFRoute with its destinations, the effective destinations in
its status and whether it is queued; `services` and `httpRoute` are what was made
of it. A reconciliation makes Services and HTTPRoute from the status it finds and
then computes the next status (`ReconcileRoute`), so a change takes two of them.
`InsertDestinations` and `CommitInsert`, `ListUnmapped` and `DeleteUnmapped` are
requests that read first and write later. `domain = "emptied"` and
`app = "unmapped"` are the points between a finalizer's last look at the routes
and the removal of the finalizer; `late` remembers the routes that were created
or mapped there. `Platform` composes both modules, adds what the deletion of apps
and namespaces does to routes, and the restart of the controllers.

## Runs

Every passing run has a mutant for each of its properties.

| Run | Instance | What it shows |
|---|---|---|
| `names_safe` | 3 objects, 2 names, 2 requests, safe faults, dry runs | `UniqueNames`, `ServesNames` (refinement), `LeakedClaimStays` |
| `names_retry` | 1 object, 2 names, another writer, lost creates; fair | `TypeOK`, `RetryKeepsClaim`: the ownership check makes a repeated rename succeed; `LockReleased` |
| `names_redelete` | 3 objects, 2 names, redelete only | **violation** of `UniqueNamesAtRest` |
| `app_safe` | started app, any 2 of start, stop, deploy, scale, bind, delete, overlapping the controllers; 1 restart | `TypeOK`, `StopRenamesWorkload`, `DeletedOnlyAfterStop`, `SetsHaveWorkload`, `RestIsSettled` |
| `app_live` | app created empty, staged or started, any one operation; fair | `AppConverges` |
| `services` | instance and binding of either type, 2 faults of any kind; fair | `TypeOK`, `NoOrphans`, `NoBindingOutlivesInstance`, `ReadyIsProvisioned`, `UnboundBeforeDeprovisioned`, `DeletionEnds`, `ServicesSettle` |
| `catalog` | a broker with one plan, one instance, 1 rename, any 2 of failures, restarts, deletions and purges; fair | `TypeOK`, `VisibilityTypeKept`, `ReadyMeansApplied`, `CatalogSettles` |
| `catalog_purge` | the same without a rename | **violation** of `PurgeSparesOthers` |
| `task_safe` | all three kinds lagging in the cache, 1 fault | `TypeOK`, `RunsOnce`, `OutcomeIsTrue`, `CanceledHasNoWorkload` |
| `task_live` | jobs lagging, 1 fault; fair | `CancelStopsTheJob`, `TaskEndsAndExpires` |
| `staging` | an app pushed once, 2 more builds, 2 packages, 1 retained, 1 fault; fair | `TypeOK`, `DropletOfOwnPackage`, `StagedHasImage`, `KeepsPromise` (refinement), `BuildEnds` |
| `platform` | an org, 2 spaces, a domain, 2 routes, any 3 requests or 2 and a fault; fair | `TypeOK`, `NamespaceHasOwner`, `StaleIsQueued` (access and routes), `RoutesIntact` (domains and destinations), `BackendsServed`, `PlatformSettles` (deletions end, the rest settles) |

### Bounds

*Names.* Two requests suffice for any race over one lease; the third object is
there for the name that two have fought over; two names make renames in both
directions possible. The proofs do away with these bounds.

*Apps.* `MaxOps` counts API calls. A stop needs a start to be interesting, and a
second call to overlap with it; revisions grow by one per call, so `Revs` is
`0..MaxOps`. Two scales, zero and two, are the ones that the code tells apart
(no workload at zero; a disruption budget from two). `Hash` is injective in the
runs (`Distinct`); the code cuts a hash to 16 bits, and with a hash that collides
TLC refutes `StopRenamesWorkload` (revisions 161 and 244 collide, for instance).
`app_safe` has one API request at a time. With two, and four calls, TLC refutes
`StopRenamesWorkload`: `CreateDeployment` writes the revision it has read plus
one, over whatever the webhook has made of it.

*Services.* `MaxFaults` counts refusals, failures, lost answers, restarts and the
hiding of the plan together. Two faults are a lost answer and a restart, or any
other pair. `LateBinding` is FALSE in the passing run: a binding may be
created until the instance is deleted and not after. The code has no such
restriction; with `LateBinding` TRUE, TLC refutes `NoBindingOutlivesInstance`.

*Catalog.* One plan, one organization and one instance, of this offering or of
another, suffice for the races between a reconciliation and a request, and for a
purge that reaches too far. `MaxFaults`, two, counts failing calls, restarts, deletions of a
plan or the offering, and purges: a purge that breaks off and is repeated is
reached one fault later, and with two plans the state space is out of reach of
the liveness check.

*Tasks.* Tasks do not share anything, so one is enough. `Lagging` names the kinds
of object that may be old in the cache; the others arrive before anything else
happens. `task_safe` lets all of them lag. In `task_live` only jobs do, which
keeps the state space small enough for liveness. `MaxFaults` counts failing calls
and restarts. `history` counts starts up to two.

*Staging.* Three builds, one of them there from the start, are what it takes for
the cleaner to have a victim, a survivor and a current droplet; two packages make
builds that share a generation and builds that do not. `MaxFaults` counts a
process that ends between two writes, a failing cleaner, a missing builder,
invalid buildpacks, a package of the wrong type or without bits, and a new stack.
`Races` names interleavings that may happen, and is empty in the run: the code
does not guard against them, and each refutes a property.

- `"droplet"`: the droplet is chosen while the cleaner deletes what it has
  listed. `KeepsPromise` fails; `README.helm.md` says of
  `maxRetainedBuildsPerApp` that the builds kept are those beside the current
  droplet.
- `"cache"`: the Image that a workload compares with is the one before the last
  patch, so its own patch is empty and it takes a generation with the source of
  another. `DropletOfOwnPackage` fails.
- `"order"` (with `Pushed = FALSE`): a workload begins before an older one that a
  missing secret holds up. `StagedHasImage` fails. With four builds `BuildEnds`
  can fail as well: a build waits for a Build of a generation whose Builds went
  with older builds, and kpack makes no other, as the last Build it has is of the
  same source.

*Platform.* `MaxEvents` counts requests, failing calls and restarts together, up
to three; `MaxFaults` of them, one, are failures. Every run begins either with
nothing or with a settled org, space, app and route, so that three requests reach
deletions that overlap with creations on every level. Two routes are one that is
there and one that comes; two GUIDs are what one route needs for a destination
that replaces another. With four events, one space and one route the safety
properties hold in a million states. Nothing is left out of the interleavings:
`late` says which routes a race has hit, and three properties exempt them.

### Fairness

`app_live` assumes weak fairness of each controller and of Kubernetes (the
StatefulSet controller and the garbage collector): controller-runtime keeps
running a worker while its queue is not empty. `services` assumes it of each
controller and of the broker, and strong fairness of taking a given binding from
the queue, since the queue is first in, first out. `catalog` assumes it of the broker controller. `names_retry` assumes it of
the webhook and API server for each request. `task_live` assumes it of both
controllers, of each kind arriving in the cache, of pods (they start and end), of
the garbage collector, of time, and of the resync of the cache every ten hours,
which controller-runtime does by default. `staging` assumes it of the
reconciliation of each package, build and workload, which requeues and the resync
repeat, of kpack and of the garbage collector; `platform` of every controller for
each object it has queued, of the namespace controller, and of requests that have
begun. API calls are under no fairness:
users need not do anything. Therefore convergence is stated as `<>[](P => Q)`:
calls are bounded, and what holds for good after the last of them is the point.
`CHECK_DEADLOCK` is off for all but names: these systems come to rest when there is
nothing to do. For apps, `RestIsSettled` says what must hold there; for the others the liveness
properties do, and most of the theorems below that state no property of a run.

## Findings

- `names_redelete`: `ValidateDelete` deregisters a name for each DELETE it is
  asked about, also of an object that is terminating, whose name has been given
  to another since. `DeregisterName` does not look at the owner. Two live
  objects can end up with one name.
- `catalog_purge`: the purge of an offering lists instances by the plans it has
  just deleted, with a list option for which no plans are no condition. If there
  are none, because the offering never had any or an earlier purge broke off after
  the plans, it deletes every service instance the user can see, without the
  broker.

Some things are not the subject of a run but worth knowing.

*Apps.* The deployment status label is computed from the Ready condition when the
main resource is written, not when the status is: a patch of the app between the
two patches of a reconciliation leaves a ready app `ACTIVE`, against ADR 0017
(`AppLifecycle` has the label, and TLC finds this behaviour in a few steps when
asked). `DEPLOYED` does not mean rolled
out: an AppWorkload is ready as soon as its StatefulSet has been patched. And a
key binding never gets a mount secret, is never reconciled in the sense of
`isReconciled`, and is bound again at the broker whenever it is reconciled.

*Services.* A binding created while its instance is deleted can outlive it. Its
reconciler then fails to read the instance for good, and its finalizer is never
removed. Bindings that a purge of the offering has released stay, without an
instance.

*Tasks.* A task cancelled while its success is being written is shown as
succeeded and then, for good, as failed: the reconciliation that follows reads it
from the cache without the success, and its patch replaces the list of
conditions. When the pod of a failed job is gone its exit code cannot be read,
and the task is shown as running for good once the job is gone too.

*Staging.* `BuildEnds` has exceptions, and they are the code's (`Abandoned`): a
build stays in `STAGING` for good if the package cleaner removes its package
first, if its package is of the wrong type (the condition is set, the state is
not), if the package had no bits, or if kpack skipped it and nobody noticed.
`failSkippedEarlierWorkloads` gives up at any workload that has no generation
yet, and a workload that ended as `BuilderNotReady` looks for nobody. Failed
builds are never cleaned. `CreatePackage` leaves behind a package of the wrong
type that it has refused.

*Orgs and roles.* Creating a role is two writes. After a failure between them the
user has the role but is no `cf_user`, and the retry is refused because the role
exists. Deleting an org role takes away neither the roles in its spaces nor
`cf_user`.

*Routes.* A route created between the last look of the domain's finalizer and its
removal outlives the domain; then neither it nor the list of routes can be read.
A destination added between the last unmapping and the removal of an app dangles,
and the validator refuses every later change of that route. Adding a destination
writes back the whole list as it was read: a destination removed meanwhile comes
back, and default ports become explicit. `DeleteUnmappedRoutes` deletes a route
that was mapped after it listed it. A failure after the Services are patched
leaves an HTTPRoute with the old port until the retry.

*Brokers.* Each reconciliation of a broker writes only the type of the
visibility of its plans, so organizations enabled before are lost; the test of
the controller ("keeps the updated value") looks at the type only, and so does
`VisibilityTypeKept`. Plans that vanish from the
catalog stay as they are, also with a former name of the broker, and deleting a
broker leaves its offerings and plans.

## Proofs

Each of the modules named `...Proofs` extends the module it is about and nothing
that a run replaces. The theorems hold for every value of the constants: for
instance for any number of objects and requests, builds and packages, bindings,
spaces and routes, and for any bound on API calls, faults and restarts. The
assumptions on constants are those the modules state (`None` is not an object, a
bound is a natural number) and TLC evaluates in the runs. A theorem that needs
more says so as a hypothesis. It excludes something the code does not, described
under *NameRegistry* and *Bounds*, and none can be left out: TLC refutes each
property without its hypothesis. Two of the counterexamples are not
obvious. With `redelete` among the safe faults, a name whose creation was
admitted and lost is freed by the second DELETE of another, terminating object of
that name, against `LeakedClaimStays`. With two overlapping API requests and no
collision, a deployment that has read revision 0 writes revision 1 after three
later stops; the next stop sets the last-stop revision to 2 once more, for which
there is a workload, and the process controller, which has read the app before,
deletes that workload: against `DeletedOnlyAfterStop`.

| Module | Theorem | States | Hypotheses |
|---|---|---|---|
| `NameRegistryProofs` | `TypeCorrect` | `TypeOK` | |
| | `NamesAreUnique` | `UniqueNames` | `Env \subseteq SafeFaults` |
| | `OnlyOwnerFreesName` | a lease goes only for the object that owns it (`LeaseRemovedByOwner`) | `Env \subseteq SafeFaults` |
| | `RegistryServesNames` | `ServesNames`, the refinement | `Env \subseteq SafeFaults` |
| | `LeaksAreForever` | `LeakedClaimStays` | `Env \subseteq SafeFaults` |
| | `RetriesKeepClaim` | `RetryKeepsClaim` | one object; no failing call, crash, lost write or parallel request |
| `AppLifecycleProofs` | `TypeCorrect` | `TypeOK` | |
| | `SetsKeepWorkload` | `SetsHaveWorkload` | |
| | `StopsRename` | `StopRenamesWorkload` | one API request at a time, no collision of hashes |
| | `CurrentIsKept` | `DeletedOnlyAfterStop` | the same |
| `AppRestProofs` | `RestSettles` | `RestIsSettled` | no collision of hashes |
| `ServicesProofs` | `TypeCorrect` | `TypeOK` | |
| | `NothingForgotten` | `NoOrphans` | |
| | `ReadyIsThere` | `ReadyIsProvisioned` | |
| | `BindingsGoFirst` | `NoBindingOutlivesInstance` | `~LateBinding` |
| | `BrokerUnboundFirst` | `UnboundBeforeDeprovisioned` | `~LateBinding` |
| | `NoWorkForgotten` | what is not done is queued (`WorkIsQueued`) | |
| `CatalogProofs` | `CatalogTypeOK` | `TypeOK` | |
| | `TypeOfVisibilityKept` | `VisibilityTypeKept` | |
| | `ReadyIsApplied` | `ReadyMeansApplied` | |
| | `BrokerNeverForgotten` | a broker that is not ready is queued (`BrokerIsQueued`) | |
| `TasksProofs` | `TypeCorrect` | `TypeOK` | |
| | `TaskRunsOnce` | `RunsOnce` | |
| | `OutcomesAreTrue` | `OutcomeIsTrue` | |
| | `CanceledStaysStopped` | `CanceledHasNoWorkload` | |
| | `TaskShowsItsJob` | at rest a task shows what its job shows (`RestShowsTheJob`) | |
| `StagingProofs` | `TypeCorrect` | `TypeOK` | |
| | `OwnPackageStaged` | `DropletOfOwnPackage` | `"cache" \notin Races` |
| | `ImagesStay` | `StagedHasImage` | `"order" \notin Races` |
| | `StagingKeepsPromise` | `KeepsPromise`, the refinement | `"cache"`, `"droplet"` not in `Races` |
| | `BuildsEndedAtRest` | at rest only an abandoned build is in `STAGING` (`EndedAtRest`) | `"order" \notin Races` |
| `PlatformProofs` | `TypeCorrect` | `TypeOK` | |
| | `NamespacesOwned` | `NamespaceHasOwner` | |
| | `StaleStaysQueued` | `StaleIsQueued` | |
| | `RoutesStayIntact` | `RoutesIntact` | |
| | `BackendsStayServed` | `BackendsServed` | |

Every proof has the same shape: an invariant that holds initially, that each
action keeps (one step per action), and that implies the property. Hardly any of
the properties is inductive, and usually typing is not either, because a worker
or a request carries what it has read: its type depends on the step it is at. Each
strengthening was an invariant of TLC before it was proved.

Five theorems state no property of a run: `OnlyOwnerFreesName`, which
`ServesNames` implies, and four that are what a liveness property of a run needs
of every single state (`WorkIsQueued` of `DeletionEnds` and `ServicesSettle`,
`BrokerIsQueued` of `CatalogSettles`, `RestShowsTheJob` of `TaskEndsAndExpires`,
`EndedAtRest` of `BuildEnds`).
A controller of this system never waits for anything but its queue; so it gets
stuck only if a wake-up is lost, and that none is lost is an invariant, which is
proved for any number of objects, failures and restarts. `RestIsSettled`
and `StaleIsQueued` say the same of apps and of routes and roles. The argument is
always that a worker which has read old data, or has failed, leaves its object in
the queue.

*Names.* `Persist` of an update writes the object it finds, so typing needs that
a request which is not stale agrees with etcd on whether its object exists
(`RequestOK`). `SafeInv` adds that requests for one object do not overlap
(`Serial`), that a request which has passed a step owns what the step has given
it (`SafeRequest`), and that a live object holds the lease on its name unless its
admitted rename or delete is about to be written (`LiveHolds`). Uniqueness
follows, since a lease has one owner; alone it is not inductive, for an object
that lacks its lease could lose its name to another. A leaked name stays claimed
because its owner is never again live under it: the owner would have to register
the name first, and it is taken (`StuckWith`). `RetryInv` follows the claim through a rename that is admitted
again: at the lock the object has the old name or the new one, and the step after
tells which. A second object could claim the old name in between, and the retry
would then lock the lease of that object; hence the hypothesis.
For the refinement, most steps show nothing (`Service` sees neither locks nor
requests), and the others are read off the step: `RegisterName` is a claim,
`DeregisterName` gives one up, by an object whose admitted write is still to come
because nothing else requests that object, and `Persist` takes the name
`SafeRequest` says is claimed, or leaves.

*Apps.* A deployment writes the revision it has read plus one, and a stop
increments the one it finds; `RevInv` says that each is paid for by an API call,
also one that is still to be written. `SetsInv`: the workload the runner is
working on exists, as nobody else removes workloads. `NamesInv` has three parts.
The app gets its first last-stop revision with the step that makes the process
(`FirstInv`); a deployment under way has read the current revision and the last
stop is not later than the revision (`CounterInv`); and every workload belongs to
an earlier stop than the one an app is at while it is stopped, also the one that
the process controller has read and not yet written (`NameInv`). The check of
the observed generation in the process controller is not needed for it; the
single worker is.

`RestInv` is about all three controllers. For each it says what is true of an
object that is not queued: if a worker has read it, the copy is current; if it is
half written, what is still to be written fits it; otherwise it was handled as it
is now (`AppInv`, `ProcInv`, `RunnerInv`). What each controller promises is in
terms of the objects it watches, so every step of somebody else either leaves
these alone or enqueues (`NotWoken`). A status patch that would change nothing is
not sent and wakes nobody, and an app whose generation was not the observed one
when the process controller read it must be looked at again; these are where a
lost wake-up was to be feared. Two parts say that names of workloads fit their
stops (`HashInv`, for which hashes must not collide) and that an app without a
process has no workload (`Unmade`). It holds with any number of overlapping API
requests, unlike the theorems above it.

*Services.* `InstanceInv` and `BindingInv` relate the objects, what a worker has
computed between its call and its patch, and the broker: a finalizer is about to
be removed only if the broker has nothing, a status about to be written as ready
belongs to something that is present. `UnboundInv` says that from the time the
instance controller has found no binding there is none, at the broker either.
For `WorkIsQueued` (`InstanceWake`, `BindingWake`) a worker that is going to
leave its object alone must have found it as it still is: users, the other
controller and the plan change it in between, and every such change queues it.
A patch is a merge, so the object that is written is the computed one only as far as
nothing else has changed since the read (`InstanceKept`, `BindingKept`).

*Catalog.* `PlanRead`: a plan that was read as missing is still missing when it
is patched, as nobody else creates plans, so that the default visibility is never
written over one that was given. `Progress`: what a reconciliation has gone through carries the name it
has read, also when the broker has another one by now. `WakeInv`: a
rename is queued, so a worker that is going to report the broker ready has read
the name it has now.

*Tasks.* The objects in the cache and those a worker has read are old versions,
so the invariants say what every version satisfies (`Sound`, `OutcomeInv`), and
which fact no old version can undo: after the condition `Canceled` no copy
without the cancellation is left that could create a workload (`Done`), and once
the job has run it is still there, or every copy of the workload says that it was
created (`RunsInv`). At rest the cache is current, but what the workers wrote was
computed from older copies. `TaskWake` and `WorkloadWake` say that a worker whose
object is not queued again has the copy that the cache has and computes from it
what the job asks for; a merge patch that leaves the object as that copy is has
then written what was computed (`PatchedAsSeen`). `JobKept` is the argument for
jobs that have gone: of a job that is not there, no copy says that it was ever
initialized, or all say how it ended, since the runner removes it only then.

*Staging.* A generation of the Image has one source, the one of its workloads and
Builds (`GenerationInv`), and therefore droplets are of the right package
(`DropletInv`). Workloads begin in the order of their builds (`OrderInv`) and a
build is removed only when a newer staged one stays (`NewerInv`), so that what is
deleted is of a generation no workload will have again (`ImageInv`). For the
refinement, `VictimInv` says that what the cleaner has listed may still go: since
the list, `Retained` newer builds besides the current droplet have stayed. Then
every step of `Staging` is a step of `BuildPromise` or changes nothing it shows
(`PromiseUser`, `PromiseWorker`, `PromiseCleaner`, `BuildsFrame`).

Builds are not woken but looked at again and again, so for `EndedAtRest` the
question is who looks. `Rests` says that a reconciliation would change nothing and
that kpack has done what the Image asks for. kpack leaves out generations that
are superseded while it builds. A workload asks for a Build only if its own
generation is later than the last one built, and what is earlier is failed by a
workload of a later one. So there must always be a later one that is still
waiting: for the generation kpack has not built yet (`HolderInv`), and for every
one it has left out (`SkippedInv`). Such a workload stops waiting only with an
outcome of its Build, and then fails the others, unless one without a generation
makes it give up, which is one of the exceptions of `Abandoned` (`NoticeKept`).
That the Builds of the last generation built stay for those that wait for them
(`LatestInv`) rests on `ImageInv`; here the order in which workloads begin is needed.

*Platform.* `RouteInv` is about single routes: the domain of a route that no late
write has hit is not one a finalizer has found empty (`IntactRoute`), Services
are there before an HTTPRoute names them and as long as it does (`ServedRoute`),
and a route that is not queued has in its status what it should have
(`SettledRoute`). `OwnerInv` says that only what is deleted has a terminating
namespace. `AccessInv` is the argument against lost wake-ups: a reconciliation
under way has listed what is granted, or is queued again.

The proofs have changed the models in small ways. In `Catalog` two cases of
`CreateOrPatch` overlapped, which TLC resolves by taking the first and a proof
cannot. The last operation of `Services` is a record, and the sums of instances
and pods in `AppLifecycle` are cardinalities of sets of pairs, because the provers
know more about these. A union of a set minus an element was parenthesized.
`RestIsSettled` was stated with `ENABLED`; `KubernetesRests` now spells out when
no action of Kubernetes is enabled. And two assumptions came to light that TLC had
never needed, as model values are distinct: `None` is not the name of a workload,
and `Instance` is not a binding.

Only checked by TLC, not proved:

- liveness (`LockReleased`, `AppConverges`, `DeletionEnds`, `ServicesSettle`,
  `CatalogSettles`, `CancelStopsTheJob`, `TaskEndsAndExpires`, `BuildEnds`,
  `PlatformSettles`), which is out of the reach of the prover; of most of them
  the half that is about states is proved, see above;
- that `UniqueNamesAtRest` and `PurgeSparesOthers` are violated: a
  counterexample needs no proof.

## Abstractions

- Data are abstracted to what decisions depend on. Names, droplets, bindings and
  plans are model values; secrets exist or do not; reasons, messages and
  timestamps are left out.
- An API server call is atomic. Reads are of the latest state, except where the
  code's use of a cache matters: the finalizer of the runner may miss
  StatefulSets in its list, and in Tasks every read is of the cache. In Services
  the list of bindings is current.
- AppLifecycle has one app with one web process. The CFProcess controller reads
  process and app in one step; an API handler's look at the app and the read of
  its patch are one step. Waiting requests, environment secrets, route
  destinations and processes of other types are not modelled.
- Services patches main object and status in one step, and a list of bindings
  and the call that follows it are one step when the list is empty. Conditions
  that are only written (`UnbindingFailed`, `DeprovisioningFailed`), updates of
  user-provided credentials and maintenance info are left out. The broker
  follows the OSB API: repeating a request changes nothing, an operation in
  progress is answered with 202 or 422, accepted operations end.

- Catalog has one broker with one offering, and instances with at most one
  binding each, whose own lifecycle is that of Services. The instances and the
  bindings of a purge are listed in one step. Metadata and the contents of the
  catalog other than which plans there are are left out.

- Tasks patches main object and status in one step; what goes wrong before the
  workload is created is one fault (app, droplet, process, environment). The time
  to live of a job is longer than the runner takes to record how it ended: a
  controller that is down for a day could otherwise miss the end of a job and
  show its task as running for good, or start it again if it had not yet recorded
  the first start. Commands end. Labels, sequence numbers and limits are left out.

- Staging has one app and one worker for builds. Packages and builds are numbered
  in the order of their creation, and a source is the number of its package.
  Objects may be reconciled at any time, which requeues, watches and the resync
  allow. Workloads read current objects but for the Image (`Races`).
- Tenancy has one org, one user and one admin; a role names its binding. Secrets
  and metadata are left out. The garbage collector and the namespace controller
  empty a namespace in one step.
- Routes has one domain and one app per space, so a destination is a GUID and a
  port; a route keeps its host and path. `RemoveDestination` reads and writes in
  one step, and one request at a time is between read and write. The GUID of a new
  destination is one the route does not use, as with random GUIDs.
- In Platform `"unmapped"` stands for the last pass of the finalizer of the app;
  what else that pass waits for (service bindings, processes) is in AppLifecycle
  and Services.

## Not modelled

- Waiting for conditions, jobs and info, log and statistics endpoints change
  nothing: they are functions of what they read.
- Payloads, presenters, filters, ordering and paging, the environment of apps and
  the normalisation of manifests are functions of one request or document. They
  make up most of the API's code and have no interleavings.
- Manifests are applied as a sequence of requests that the modules have one by
  one. Reading them has shown that a push is not always repeatable. `CreateApp`
  writes the app and then its environment secret; if it breaks off in between,
  every later push fails when it patches the secret, which nothing creates. A
  push with `random-route` that breaks off between a route and its destination
  leaves the route, and the next push makes another. The service instances of a
  manifest are looked up by name in all spaces the user can see, but bound in the
  space of the app. And a binding whose instance was purged makes the collection of
  the app's state fail.
- Security groups are records that no controller acts on.
- Authentication and authorization are decided by Kubernetes.
- Secrets that are propagated to spaces, BuilderInfo and
  RunnerInfo: controllers of their own, not modelled yet.
- Generated code: deep copies and fakes are more than two fifths of the Go code
  that is not a test.

## Plan

1. `NameRegistry` with proofs, `AppLifecycle`, `Services`, `Tasks`: done.
2. `Staging` with `BuildPromise`, `Tenancy`, `Routes` and `Platform`, `Catalog`: done.
3. Proofs of the safety properties of all of them, and of the refinement of
   `BuildPromise`: done.
4. `NameService`, and the proof that NameRegistry implements it under
   `SafeFaults`: done. An abstract app (desired and actual state) for AppLifecycle
   is left.
5. What holds at rest, without `ENABLED`, and that no wake-up is lost: done for
   apps, services, brokers, tasks, builds, routes and roles.
6. Propagated secrets, BuilderInfo and RunnerInfo: left.
