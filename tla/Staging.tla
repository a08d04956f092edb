------------------------------- MODULE Staging -------------------------------
(***************************************************************************)
(* The packages and builds of one app.                                     *)
(*                                                                         *)
(* A CFBuild of a buildpack app becomes a BuildWorkload.  All the          *)
(* workloads of an app share one kpack Image: each of them patches the     *)
(* Image with its own source and remembers the generation the Image then   *)
(* has.  kpack makes Builds of the Image, each labelled with the           *)
(* generation it is made for, and a workload takes the outcome of the      *)
(* Builds of its generation.  kpack does not build every generation, so a  *)
(* workload may be skipped.  Cleaners remove old builds and packages.      *)
(*                                                                         *)
(* A reconciliation may run at any time: objects are reconciled when they  *)
(* change, when a requeue is due, and by the resync of the cache.          *)
(***************************************************************************)
EXTENDS Naturals, FiniteSets, FiniteSetsExt

CONSTANTS
    MaxBuilds,          \* bound on the builds
    MaxPackages,        \* bound on the packages
    Retained,           \* maxRetainedBuildsPerApp
    RetainedPackages,   \* maxRetainedPackagesPerApp
    MaxFaults,          \* bound on failing calls, restarts, bad requests and
                        \* updates of the stack
    Races,              \* the races that may happen
    Pushed              \* has the app been pushed once already?

ASSUME StagingBounds ==
    /\ MaxBuilds \in Nat /\ MaxPackages \in Nat /\ MaxFaults \in Nat
    /\ Retained \in Nat \ {0} /\ RetainedPackages \in Nat \ {0}
    /\ Races \subseteq {"droplet", "order", "cache"}
    /\ Pushed \in BOOLEAN /\ (Pushed => MaxBuilds > 0 /\ MaxPackages > 0)

VARIABLES
    app,        \* lifecycle type and current droplet of the CFApp
    pkg,        \* the CFPackages
    build,      \* the CFBuilds
    wl,         \* the BuildWorkloads, named as their builds
    image,      \* the kpack Image of the app
    kbuilds,    \* the kpack Builds of the Image
    kpack,      \* what kpack reports in the status of the Image
    worker,     \* the worker of the build controller
    faults

vars == <<app, pkg, build, wl, image, kbuilds, kpack, worker, faults>>

\* Both are numbered in the order they are created.
Builds == 1 .. MaxBuilds
Packages == 1 .. MaxPackages

-----------------------------------------------------------------------------
(* State.  The source of a package is its number, 0 before the bits are    *)
(* uploaded.                                                               *)

Lifecycles == {"buildpack", "docker"}
Sources == 0 .. MaxPackages
Droplet == [src : Sources, num : Nat]

CFPackage ==
    [phase : {"none", "live", "deleting", "gone"}, type : Lifecycles, src : Sources, ready : BOOLEAN]
CFBuild ==
    [phase : {"none", "live", "gone"}, package : 0 .. MaxPackages, validBuildpacks : BOOLEAN,
     staging : {"none", "True", "False"}, succeeded : {"none", "True", "False"},
     state : {"", "STAGING", "STAGED", "FAILED"}, droplet : Droplet]
BuildWorkload ==
    [phase : {"none", "live", "deleting", "gone"}, src : Sources, generation : Nat,
     succeeded : {"none", "Unknown", "True", "False"}, reason : {"", "BuilderNotReady"}, droplet : Droplet]
KpackBuild ==
    [num : Nat, generation : Nat, src : Sources, succeeded : {"Unknown", "True", "False"}, deleting : BOOLEAN]

NoDroplet == [src |-> 0, num |-> 0]
NoPackage == [phase |-> "none", type |-> "buildpack", src |-> 0, ready |-> FALSE]
NoBuild ==
    [phase |-> "none", package |-> 0, validBuildpacks |-> TRUE, staging |-> "none",
     succeeded |-> "none", state |-> "", droplet |-> NoDroplet]
NoWorkload ==
    [phase |-> "none", src |-> 0, generation |-> 0, succeeded |-> "none", reason |-> "", droplet |-> NoDroplet]
NoImage == [generation |-> 0, src |-> 0, before |-> 0]
Idle == [pc |-> "idle", build |-> 0, victims |-> {}]

\* What the API shows of a build.
RecordState(b) ==
    CASE build[b].phase # "live" -> build[b].phase
      [] build[b].phase = "live" -> IF build[b].state = "" THEN "STAGING" ELSE build[b].state

\* The members of s that are not among its n newest.
Beyond(s, n) == {x \in s : Cardinality({y \in s : y > x}) >= n}

Faulty(n) == faults + n <= MaxFaults /\ faults' = faults + n

-----------------------------------------------------------------------------
(* Users.                                                                  *)

\* The package is created before its type is compared with the app's.
CreatePackage(p) ==
    /\ pkg[p].phase = "none"
    /\ \A q \in Packages : q < p => pkg[q].phase # "none"
    /\ \E type \in Lifecycles :
        /\ pkg' = [pkg EXCEPT ![p] =
                    [phase |-> "live", type |-> type, src |-> IF type = "docker" THEN p ELSE 0, ready |-> FALSE]]
        /\ Faulty(IF type = app.lifecycle THEN 0 ELSE 1)
    /\ UNCHANGED <<app, build, wl, image, kbuilds, kpack, worker>>

\* upload, for a package that waits for its bits.
Upload(p) ==
    /\ pkg[p].phase = "live" /\ pkg[p].type = "buildpack" /\ pkg[p].src = 0
    /\ pkg' = [pkg EXCEPT ![p].src = p]
    /\ UNCHANGED <<app, build, wl, image, kbuilds, kpack, worker, faults>>

\* Nothing is asked of the package but that it exists.
CreateBuild(b) ==
    /\ build[b].phase = "none"
    /\ \A c \in Builds : c < b => build[c].phase # "none"
    /\ \E p \in Packages, valid \in BOOLEAN :
        /\ pkg[p].phase \in {"live", "deleting"}
        /\ build' = [build EXCEPT ![b] =
                        [NoBuild EXCEPT !.phase = "live", !.package = p, !.validBuildpacks = valid]]
        /\ Faulty(IF valid /\ pkg[p].src # 0 THEN 0 ELSE 1)
    /\ UNCHANGED <<app, pkg, wl, image, kbuilds, kpack, worker>>

\* GetDroplet finds staged builds only.  The race "droplet": it is set while
\* the cleaner deletes what it has listed.
SetCurrentDroplet(b) ==
    /\ RecordState(b) = "STAGED"
    /\ app.current # b
    /\ worker.pc = "clean" => "droplet" \in Races
    /\ app' = [app EXCEPT !.current = b]
    /\ UNCHANGED <<pkg, build, wl, image, kbuilds, kpack, worker, faults>>

-----------------------------------------------------------------------------
(* Packages.                                                               *)

\* PackageCleaner.Clean.  It gives up when the build of the current droplet
\* is missing.
PackageVictims ==
    IF app.current # 0 /\ build[app.current].phase # "live"
    THEN {}
    ELSE LET currentPackage == IF app.current = 0 THEN 0 ELSE build[app.current].package
             deletable == {p \in Packages \ {currentPackage} : pkg[p].phase \in {"live", "deleting"} /\ pkg[p].ready}
         IN Beyond(deletable, RetainedPackages)

\* The conditions are patched after the cleaner has run.
ReconcilePackage(p) ==
    /\ pkg[p].phase = "live"
    /\ pkg' = [q \in Packages |->
                [pkg[q] EXCEPT !.phase = IF q \in PackageVictims THEN "deleting" ELSE @,
                               !.ready = IF q = p THEN pkg[p].src # 0 ELSE @]]
    /\ UNCHANGED <<app, build, wl, image, kbuilds, kpack, worker, faults>>

\* finalize deletes the source image, and does not mind when that fails.
FinalizePackage(p) ==
    /\ pkg[p].phase = "deleting"
    /\ pkg' = [pkg EXCEPT ![p].phase = "gone"]
    /\ UNCHANGED <<app, build, wl, image, kbuilds, kpack, worker, faults>>

-----------------------------------------------------------------------------
(* Builds.                                                                 *)

\* Mutant: the current droplet is not spared.
BuildVictimsAny ==
    Beyond({b \in Builds : build[b].phase = "live" /\ build[b].succeeded = "True"}, Retained)

\* BuildCleaner.Clean, up to the deletions.
BuildVictims ==
    Beyond({b \in Builds \ {app.current} : build[b].phase = "live" /\ build[b].succeeded = "True"}, Retained)

\* Mutant: the condition takes the name of the state.
EndedByState(B, how) == [B EXCEPT !.staging = "False", !.state = how, !.succeeded = how]

Ended(B, how) ==
    [B EXCEPT !.staging = "False", !.state = how, !.succeeded = IF how = "STAGED" THEN "True" ELSE "False"]

\* What follows is sets of outcomes: the record of the build, the record of
\* its workload, and the number of faults.

\* docker: the image cannot be fetched or runs as root, or it is fine.
DockerOutcomes(B, W, package) ==
    {<<Ended(B, "FAILED"), W, 0>>,
     <<[Ended(B, "STAGED") EXCEPT !.droplet = [src |-> package.src, num |-> 0]], W, 0>>}

\* buildpack, first time: create the workload unless it is there, then patch
\* the build, unless the process ends in between.
StartOutcomes(B, W, package) ==
    LET started == IF W.phase = "none" THEN [NoWorkload EXCEPT !.phase = "live", !.src = package.src] ELSE W
    IN {<<[B EXCEPT !.staging = "True", !.state = "STAGING"], started, 0>>, <<B, started, 1>>}

\* buildpack, later: take what the workload has come to.
FinishOutcomes(B, W) ==
    CASE W.succeeded = "False" -> {<<Ended(B, "FAILED"), W, 0>>}
      [] W.succeeded = "True" -> {<<[Ended(B, "STAGED") EXCEPT !.droplet = W.droplet], W, 0>>}
      [] OTHER -> {<<B, W, 0>>}

\* ReconcileResource after the cleaner.  A mismatch of types ends the build,
\* but its state is not set.
Outcomes(b) ==
    LET B == build[b]
        W == wl[b]
        package == pkg[B.package]
    IN CASE B.phase # "live" \/ B.succeeded # "none" \/ package.phase = "gone" -> {<<B, W, 0>>}
         [] OTHER ->
            CASE package.type # app.lifecycle ->
                    {<<[B EXCEPT !.succeeded = "False", !.staging = "False"], W, 0>>}
              [] package.type = app.lifecycle /\ app.lifecycle = "docker" -> DockerOutcomes(B, W, package)
              [] package.type = app.lifecycle /\ app.lifecycle = "buildpack" ->
                    IF B.staging = "none" THEN StartOutcomes(B, W, package) ELSE FinishOutcomes(B, W)

FinishReconcile(b) ==
    \E o \in Outcomes(b) :
        /\ build' = [build EXCEPT ![b] = o[1]]
        /\ wl' = [wl EXCEPT ![b] = o[2]]
        /\ Faulty(o[3])
        /\ worker' = Idle

\* The reconciliation starts with the cleaner, which lists what to delete.
ReconcileBuild(b) ==
    /\ worker = Idle
    /\ build[b].phase = "live"
    /\ IF BuildVictims = {}
       THEN FinishReconcile(b)
       ELSE /\ worker' = [pc |-> "clean", build |-> b, victims |-> BuildVictims]
            /\ UNCHANGED <<build, wl, faults>>
    /\ UNCHANGED <<app, pkg, image, kbuilds, kpack>>

\* Newest first.  A build has no finalizer.
CleanBuild ==
    /\ worker.pc = "clean"
    /\ LET v == Max(worker.victims)
       IN /\ build' = [build EXCEPT ![v].phase = "gone"]
          /\ worker' = [worker EXCEPT !.victims = @ \ {v}, !.pc = IF worker.victims = {v} THEN "rest" ELSE @]
    /\ UNCHANGED <<app, pkg, wl, image, kbuilds, kpack, faults>>

\* An error of the cleaner is only logged.
CleanBuildFails ==
    /\ worker.pc = "clean"
    /\ Faulty(1)
    /\ worker' = [worker EXCEPT !.pc = "rest", !.victims = {}]
    /\ UNCHANGED <<app, pkg, build, wl, image, kbuilds, kpack>>

FinishCleaned ==
    /\ worker.pc = "rest"
    /\ FinishReconcile(worker.build)
    /\ UNCHANGED <<app, pkg, image, kbuilds, kpack>>

-----------------------------------------------------------------------------
(* Build workloads.                                                        *)

Listed == {b \in Builds : wl[b].phase \in {"live", "deleting"}}
OfGeneration(g) == {k \in kbuilds : k.generation = g}
HasCompleted(w) == w.succeeded \in {"True", "False"}

\* The buildpacks are checked before anything is done about the Image.
InvalidBuildpacks(b) ==
    /\ wl[b].phase = "live" /\ wl[b].succeeded = "none" /\ ~build[b].validBuildpacks
    /\ wl' = [wl EXCEPT ![b].succeeded = "False"]
    /\ UNCHANGED <<app, pkg, build, image, kbuilds, kpack, worker, faults>>

\* The Image after CreateOrPatch: the patch has what differs from the cached
\* Image, and the API server counts the generations of the spec.  kpack takes
\* no Image without a source.
PatchedImage(b, cached) ==
    LET src == IF cached = wl[b].src THEN image.src ELSE wl[b].src
    IN IF src = image.src
       THEN image
       ELSE [generation |-> image.generation + 1, src |-> src, before |-> IF "cache" \in Races THEN image.src ELSE 0]

\* A build whose workload can still begin.
CanBegin(b) ==
    /\ build[b].phase = "live" /\ build[b].succeeded = "none" /\ build[b].validBuildpacks
    /\ IF wl[b].phase = "none"
       THEN pkg[build[b].package].phase # "gone"
       ELSE wl[b].phase = "live" /\ wl[b].succeeded = "none" /\ wl[b].src # 0

\* The race "order": a workload begins before an older one, which is held up
\* by a missing secret or by the registry.
MayBegin(b) ==
    /\ wl[b].phase = "live"
    /\ CanBegin(b)
    /\ \A c \in Builds : c < b /\ CanBegin(c) => "order" \in Races

\* The Image in the cache.  The race "cache": it is the one before the last
\* patch.
CachedSources == {image.src} \cup (IF "cache" \in Races THEN {image.before} ELSE {})

\* Mutant: the generation the Image had before the patch is remembered.
BeginImageBuildOld(b) ==
    /\ MayBegin(b)
    /\ \E cached \in CachedSources, writes \in 1 .. 3 :
        /\ image' = PatchedImage(b, cached)
        /\ wl' = [wl EXCEPT ![b].generation = IF writes > 1 THEN image.generation ELSE @,
                            ![b].succeeded = IF writes > 2 THEN "Unknown" ELSE @]
        /\ Faulty(IF writes = 3 THEN 0 ELSE 1)
    /\ UNCHANGED <<app, pkg, build, kbuilds, kpack, worker>>

\* Patch the Image, then the label of the workload, then its status.  The
\* process may end after any of these writes.
BeginImageBuild(b) ==
    /\ MayBegin(b)
    /\ \E cached \in CachedSources, writes \in 1 .. 3 :
        /\ image' = PatchedImage(b, cached)
        /\ wl' = [wl EXCEPT ![b].generation = IF writes > 1 THEN image'.generation ELSE @,
                            ![b].succeeded = IF writes > 2 THEN "Unknown" ELSE @]
        /\ Faulty(IF writes = 3 THEN 0 ELSE 1)
    /\ UNCHANGED <<app, pkg, build, kbuilds, kpack, worker>>

\* Mutant: it is the observed generation that is compared.
NotYetObserved(b) == kpack.ready /\ kpack.observed < wl[b].generation

\* recoverIfBuildCreationHasBeenSkipped
BuildCreationHasBeenSkipped(b) ==
    /\ kpack.ready
    /\ kpack.observed >= wl[b].generation
    /\ kpack.latest < wl[b].generation

\* The workloads a later one of generation g reports as skipped.
SkippedBefore(g) ==
    {c \in Listed : /\ wl[c].generation < g
                    /\ wl[c].succeeded = "Unknown"
                    /\ OfGeneration(wl[c].generation) = {}}

\* failSkippedEarlierWorkloads goes through the workloads in any order, and
\* stops at one that has no generation yet.
FailSkipped(g) ==
    IF \E c \in Listed : wl[c].generation = 0 THEN SUBSET SkippedBefore(g) ELSE {SkippedBefore(g)}

\* What the latest Build of its generation makes of a workload.
TakeOutcome(w, k) ==
    CASE k.succeeded = "Unknown" -> w
      [] k.succeeded = "False" -> [w EXCEPT !.succeeded = "False"]
      [] k.succeeded = "True" -> [w EXCEPT !.succeeded = "True", !.droplet = [src |-> k.src, num |-> k.num]]

Latest(s) == CHOOSE k \in s : \A l \in s : l.num <= k.num

\* A workload that has begun.
ContinueImageBuild(b) ==
    /\ wl[b].phase = "live" /\ wl[b].succeeded = "Unknown"
    /\ kpack' = [kpack EXCEPT !.requested = @ \/ BuildCreationHasBeenSkipped(b)]
    /\ LET own == OfGeneration(wl[b].generation)
       IN IF own = {}
          THEN wl' = wl
          ELSE \E skipped \in FailSkipped(wl[b].generation) :
                wl' = [c \in Builds |->
                        CASE c \in skipped -> [wl[c] EXCEPT !.succeeded = "False"]
                          [] c = b -> TakeOutcome(wl[b], Latest(own))
                          [] OTHER -> wl[c]]
    /\ UNCHANGED <<app, pkg, build, image, kbuilds, worker, faults>>

\* The builder is missing, or not ready for too long.
BuilderNotReady(b) ==
    /\ wl[b].phase = "live" /\ wl[b].succeeded = "Unknown"
    /\ kpack' = [kpack EXCEPT !.requested = @ \/ BuildCreationHasBeenSkipped(b)]
    /\ wl' = [wl EXCEPT ![b].succeeded = "False", ![b].reason = "BuilderNotReady"]
    /\ Faulty(1)
    /\ UNCHANGED <<app, pkg, build, image, kbuilds, worker>>

\* The workload is owned by the build.
CollectWorkload(b) ==
    /\ build[b].phase = "gone" /\ wl[b].phase = "live"
    /\ wl' = [wl EXCEPT ![b].phase = "deleting"]
    /\ UNCHANGED <<app, pkg, build, image, kbuilds, kpack, worker, faults>>

\* Mutant: the Builds go with the first workload of their generation.
AlwaysLast(b) == TRUE

IsLastBuildWorkload(b) == {c \in Listed : wl[c].generation = wl[b].generation} = {b}

\* finalize: the last workload of a generation takes the Builds along.
FinalizeWorkload(b) ==
    /\ wl[b].phase = "deleting"
    /\ LET own == OfGeneration(wl[b].generation)
       IN IF IsLastBuildWorkload(b) /\ own # {}
          THEN /\ kbuilds' = (kbuilds \ own) \cup {[k EXCEPT !.deleting = TRUE] : k \in own}
               /\ wl' = wl
          ELSE /\ kbuilds' = kbuilds
               /\ wl' = [wl EXCEPT ![b].phase = "gone"]
    /\ UNCHANGED <<app, pkg, build, image, kpack, worker, faults>>

\* The kpack build controller deletes the image of the droplet, and does not
\* mind when that fails.
FinalizeKpackBuild ==
    /\ \E k \in kbuilds : k.deleting /\ kbuilds' = kbuilds \ {k}
    /\ UNCHANGED <<app, pkg, build, wl, image, kpack, worker, faults>>

-----------------------------------------------------------------------------
(* kpack: it runs one Build of an Image at a time, of the generation it    *)
(* finds when it looks, and only when the source is not the one it last    *)
(* built or a Build is asked for.                                          *)

Running == \E k \in kbuilds : k.succeeded = "Unknown"
Needed == kbuilds # {} /\ ~kpack.requested => Latest(kbuilds).src # image.src

KpackBuilds ==
    /\ kbuilds' = kbuilds \cup
                    {[num |-> kpack.count + 1, generation |-> image.generation, src |-> image.src,
                      succeeded |-> "Unknown", deleting |-> FALSE]}
    /\ kpack' = [kpack EXCEPT !.observed = image.generation, !.latest = image.generation,
                              !.ready = FALSE, !.requested = FALSE, !.count = @ + 1]
    /\ UNCHANGED <<app, pkg, build, wl, image, worker, faults>>

KpackSchedules == image.generation > 0 /\ ~Running /\ Needed /\ KpackBuilds

\* The stack or a buildpack has a new version.
KpackRebuilds ==
    /\ image.generation > 0 /\ ~Running /\ ~Needed
    /\ kbuilds' = kbuilds \cup
                    {[num |-> kpack.count + 1, generation |-> image.generation, src |-> image.src,
                      succeeded |-> "Unknown", deleting |-> FALSE]}
    /\ kpack' = [kpack EXCEPT !.observed = image.generation, !.latest = image.generation,
                              !.ready = FALSE, !.count = @ + 1]
    /\ Faulty(1)
    /\ UNCHANGED <<app, pkg, build, wl, image, worker>>

KpackSettles ==
    /\ image.generation > 0 /\ ~Running /\ ~Needed
    /\ kpack' = [kpack EXCEPT !.observed = image.generation, !.ready = TRUE]
    /\ UNCHANGED <<app, pkg, build, wl, image, kbuilds, worker, faults>>

KpackFinishes ==
    /\ \E k \in kbuilds, how \in {"True", "False"} :
        /\ k.succeeded = "Unknown"
        /\ kbuilds' = (kbuilds \ {k}) \cup {[k EXCEPT !.succeeded = how]}
    /\ UNCHANGED <<app, pkg, build, wl, image, kpack, worker, faults>>

-----------------------------------------------------------------------------
\* What the first push has left behind.
FirstPackage == [phase |-> "live", type |-> app.lifecycle, src |-> 1, ready |-> TRUE]
FirstDroplet == [src |-> 1, num |-> IF app.lifecycle = "buildpack" THEN 1 ELSE 0]
FirstBuild ==
    [NoBuild EXCEPT !.phase = "live", !.package = 1, !.staging = "False", !.succeeded = "True",
                    !.state = "STAGED", !.droplet = FirstDroplet]
FirstWorkload ==
    [NoWorkload EXCEPT !.phase = "live", !.src = 1, !.generation = 1, !.succeeded = "True",
                       !.droplet = FirstDroplet]
FirstKpackBuild == [num |-> 1, generation |-> 1, src |-> 1, succeeded |-> "True", deleting |-> FALSE]

Init ==
    /\ app \in [lifecycle : Lifecycles, current : IF Pushed THEN {0, 1} ELSE {0}]
    /\ LET built == Pushed /\ app.lifecycle = "buildpack"
           first == IF built THEN 1 ELSE 0
       IN /\ pkg = [p \in Packages |-> IF Pushed /\ p = 1 THEN FirstPackage ELSE NoPackage]
          /\ build = [b \in Builds |-> IF Pushed /\ b = 1 THEN FirstBuild ELSE NoBuild]
          /\ wl = [b \in Builds |-> IF built /\ b = 1 THEN FirstWorkload ELSE NoWorkload]
          /\ image = [NoImage EXCEPT !.generation = first, !.src = first]
          /\ kbuilds = IF built THEN {FirstKpackBuild} ELSE {}
          /\ kpack = [observed |-> first, latest |-> first, ready |-> built, requested |-> FALSE, count |-> first]
    /\ worker = Idle
    /\ faults = 0

PackageStep == \E p \in Packages : CreatePackage(p) \/ Upload(p) \/ ReconcilePackage(p) \/ FinalizePackage(p)

WorkloadStep(b) ==
    \/ InvalidBuildpacks(b) \/ BeginImageBuild(b) \/ ContinueImageBuild(b)
    \/ CollectWorkload(b) \/ FinalizeWorkload(b)

KpackStep == FinalizeKpackBuild \/ KpackSchedules \/ KpackSettles \/ KpackFinishes

Next ==
    \/ PackageStep
    \/ \E b \in Builds :
        \/ CreateBuild(b) \/ SetCurrentDroplet(b) \/ ReconcileBuild(b)
        \/ WorkloadStep(b) \/ BuilderNotReady(b)
    \/ CleanBuild \/ CleanBuildFails \/ FinishCleaned
    \/ KpackStep \/ KpackRebuilds

\* Every object is reconciled again and again, by requeues and by the resync
\* of the caches, and kpack and the garbage collector do their work.  Users
\* need not do anything, and nothing need fail.
Fairness ==
    /\ \A p \in Packages : WF_vars(ReconcilePackage(p) \/ FinalizePackage(p))
    /\ \A b \in Builds : WF_vars(ReconcileBuild(b)) /\ WF_vars(WorkloadStep(b))
    /\ WF_vars(CleanBuild \/ FinishCleaned)
    /\ WF_vars(KpackStep)

Spec == Init /\ [][Next]_vars /\ Fairness

-----------------------------------------------------------------------------
(* Properties.                                                             *)

TypeOK ==
    /\ app \in [lifecycle : Lifecycles, current : 0 .. MaxBuilds]
    /\ pkg \in [Packages -> CFPackage]
    /\ build \in [Builds -> CFBuild]
    /\ wl \in [Builds -> BuildWorkload]
    /\ image \in [generation : Nat, src : Sources, before : Sources]
    /\ kbuilds \subseteq KpackBuild
    /\ kpack \in [observed : Nat, latest : Nat, ready : BOOLEAN, requested : BOOLEAN, count : Nat]
    /\ worker \in [pc : {"idle", "clean", "rest"}, build : 0 .. MaxBuilds, victims : SUBSET Builds]
    /\ faults \in 0 .. MaxFaults

\* A droplet is made from the package of its build: although all builds of an
\* app share one kpack Image, no build takes the outcome of another source.
DropletOfOwnPackage ==
    \A b \in Builds : RecordState(b) = "STAGED" => build[b].droplet.src = build[b].package

\* The image of every staged build of a buildpack app stays in the registry
\* while the build exists, however builds share generations and old ones are
\* removed.
StagedHasImage ==
    \A b \in Builds :
        RecordState(b) = "STAGED" /\ app.lifecycle = "buildpack" =>
            \E k \in kbuilds : k.num = build[b].droplet.num /\ ~k.deleting

\* The app as its users see it is one that BuildPromise allows.
Promise ==
    INSTANCE BuildPromise WITH
        state <- [b \in Builds |-> RecordState(b)],
        package <- [b \in Builds |-> build[b].package],
        droplet <- [b \in Builds |-> build[b].droplet.src],
        current <- app.current

\* Staging keeps its promise: outcomes are final, droplets are made from the
\* right package, and the cleaner spares the current droplet and the newest
\* builds.
KeepsPromise == Promise!Spec

\* Why a build may stay in the state STAGING for ever: its package is of the
\* wrong type, was removed, or had no bits when the workload was made; or
\* kpack skipped it, and nobody noticed: there is a workload without a
\* generation, or the one kpack built instead had ended for want of a builder.
Abandoned(b) ==
    \/ build[b].succeeded = "False"
    \/ pkg[build[b].package].phase = "gone"
    \/ wl[b].phase # "none" /\ wl[b].src = 0
    \/ \E c \in Listed \ {b} : wl[c].generation = 0 \/ wl[c].reason = "BuilderNotReady"

\* Every other build comes to an end: the controllers ask kpack for Builds it
\* left out, and fail what it has skipped.
BuildEnds == <>[](\A b \in Builds : RecordState(b) = "STAGING" => Abandoned(b))
=============================================================================
