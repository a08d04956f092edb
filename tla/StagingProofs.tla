--------------------------- MODULE StagingProofs ---------------------------
(***************************************************************************)
(* Proofs about Staging, for any number of builds, packages and failures.  *)
(* The races a theorem excludes are hypotheses of the theorem.             *)
(***************************************************************************)
EXTENDS Staging, TLAPS, WellFoundedInduction, FiniteSetTheorems

-----------------------------------------------------------------------------
(* The invariants.                                                         *)

Staged(b) == build[b].phase = "live" /\ build[b].succeeded = "True"

\* What the types need: the worker names builds, and numbers are bounded.
WorkerInv ==
    /\ worker.pc # "idle" => worker.build \in Builds
    /\ worker.pc = "clean" => worker.victims # {} /\ \A v \in worker.victims : Staged(v)

NumberInv ==
    /\ \A b \in Builds : build[b].phase # "none" => build[b].package \in Packages
    /\ \A k \in kbuilds : k.num <= kpack.count

TypeInv == TypeOK /\ WorkerInv /\ NumberInv

\* A package has the source it was made with.
PackageInv ==
    \A p \in Packages :
        /\ pkg[p].src \in {0, p}
        /\ pkg[p].type = "docker" => pkg[p].src = p

\* State and condition of a build go together; what is removed was staged.
BuildShape(B) ==
    /\ B.phase = "none" => B.package = 0 /\ B.droplet.src = 0 /\ B.state = "" /\ B.succeeded = "none"
    /\ B.succeeded = "none" => B.state \in {"", "STAGING"}
    /\ B.succeeded = "True" <=> B.state = "STAGED"
    /\ B.phase = "gone" => B.succeeded = "True"
BuildInv == \A b \in Builds : BuildShape(build[b])

\* A workload is made for its build, from its package, and stays with it.
WorkloadShape(W, B, lifecycle) ==
    /\ W.phase = "none" => W.generation = 0 /\ W.succeeded = "none"
    /\ W.phase # "none" => B.phase # "none" /\ lifecycle = "buildpack"
    /\ W.phase \in {"deleting", "gone"} => B.phase = "gone"
    /\ W.src \in {0, B.package}
    /\ W.succeeded \in {"Unknown", "True"} \/ W.generation > 0 => W.src # 0
    /\ B.succeeded = "True" /\ lifecycle = "buildpack" =>
          W.succeeded = "True" /\ W.droplet = B.droplet
WorkloadInv == \A b \in Builds : WorkloadShape(wl[b], build[b], app.lifecycle)

\* A generation of the Image has one source, that of the workloads and of the
\* Builds of the generation.
GenerationInv ==
    /\ \A k \in kbuilds :
          /\ k.generation > 0 /\ k.generation <= image.generation
          /\ k.generation = image.generation => k.src = image.src
    /\ \A b \in Builds :
          /\ wl[b].generation <= image.generation
          /\ wl[b].generation > 0 /\ wl[b].generation = image.generation => wl[b].src = image.src
    /\ \A b \in Builds, k \in kbuilds : k.generation = wl[b].generation => k.src = wl[b].src

\* Hence droplets are made from the right package.
DropletInv ==
    \A b \in Builds :
        /\ wl[b].succeeded = "True" => wl[b].droplet.src = wl[b].src
        /\ build[b].succeeded = "True" => build[b].droplet.src = build[b].package

\* Workloads begin in the order of their builds.
OrderInv ==
    /\ \A b \in Builds : wl[b].generation <= image.generation
    /\ \A b, c \in Builds : b < c /\ build[c].phase # "none" => build[b].phase # "none"
    /\ \A b, c \in Builds :
          b < c /\ wl[c].generation > 0 => ~CanBegin(b) /\ wl[b].generation <= wl[c].generation

\* A build that is removed leaves a newer one behind.
NewerInv ==
    /\ \A c \in Builds : build[c].phase = "gone" => \E d \in Builds : d > c /\ Staged(d)
    /\ worker.pc = "clean" => \E e \in Builds : Staged(e) /\ \A v \in worker.victims : e > v

\* The Build a workload has taken stays, and what is deleted is of a
\* generation that no workload has and none will get.
ImageInv ==
    /\ \A k \in kbuilds : k.generation > 0
    /\ \A b \in Builds :
          wl[b].phase = "live" /\ wl[b].succeeded = "True" =>
             \E k \in kbuilds : /\ k.num = wl[b].droplet.num /\ k.generation = wl[b].generation
                                /\ ~k.deleting
    /\ \A k \in kbuilds :
          k.deleting =>
             /\ k.generation < image.generation
             /\ \A b \in Builds : wl[b].phase = "live" => wl[b].generation # k.generation

\* What the cleaner has listed may go: Retained staged builds will be left.
Kept(v) == {c \in Builds \ ({app.current} \cup worker.victims) : Staged(c) /\ c > v}
VictimInv ==
    worker.pc = "clean" =>
        \A v \in worker.victims : v # app.current /\ Cardinality(Kept(v)) >= Retained

-----------------------------------------------------------------------------
(* Numbers.                                                                *)

\* A set of natural numbers has a least member.
LEMMA HasLeast ==
    ASSUME NEW S \in SUBSET Nat, S # {}
    PROVE  \E x \in S : \A y \in S : x <= y
<1>1. PICK x \in S : \A y \in S : ~(<<y, x>> \in OpToRel(<, Nat))
  BY WFMin, NatLessThanWellFounded
<1>2. \A y \in S : ~(y < x)
  BY <1>1 DEF OpToRel
<1>3. \A y \in S : y \in Nat
  OBVIOUS
<1>4. \A y \in S : x <= y
  BY <1>2, <1>3
<1> QED
  BY <1>4

\* A bounded one has a greatest.
LEMMA HasGreatest ==
    ASSUME NEW S \in SUBSET Nat, S # {}, NEW n \in Nat, \A s \in S : s <= n
    PROVE  \E x \in S : \A y \in S : x >= y
<1> DEFINE T == {n - s : s \in S}
<1>1. T \in SUBSET Nat /\ T # {}
  <2>1. \A s \in S : n - s \in Nat
    OBVIOUS
  <2>2. PICK s \in S : TRUE
    OBVIOUS
  <2>3. n - s \in T
    OBVIOUS
  <2> QED
    BY <2>1, <2>3
<1>2. PICK x \in T : \A y \in T : x <= y
  BY <1>1, HasLeast
<1>3. PICK s \in S : x = n - s
  BY <1>2
<1>4. \A y \in S : s >= y
  BY <1>2, <1>3
<1> QED
  BY <1>4

\* So the greatest of a set of builds is one of them.
LEMMA MaxBuild ==
    ASSUME NEW S \in SUBSET Builds, S # {}
    PROVE  Max(S) \in S /\ \A y \in S : Max(S) >= y
<1>1. S \in SUBSET Nat /\ MaxBuilds \in Nat /\ \A x \in S : x <= MaxBuilds
  BY StagingBounds DEF Builds
<1>2. \E x \in S : \A y \in S : x >= y
  BY <1>1, HasGreatest
<1> QED
  BY <1>2 DEF Max

\* And the latest of a set of Builds is one of them.
LEMMA LatestIn ==
    ASSUME TypeInv, NEW S \in SUBSET kbuilds, S # {}
    PROVE  Latest(S) \in S
<1> DEFINE T == {k.num : k \in S}
<1>1. \A k \in S : k.num \in Nat /\ k.num <= kpack.count
  BY DEF TypeInv, TypeOK, NumberInv, KpackBuild
<1>2. kpack.count \in Nat
  BY DEF TypeInv, TypeOK
<1>3. T \in SUBSET Nat /\ T # {} /\ \A n \in T : n <= kpack.count
  BY <1>1
<1> HIDE DEF T
<1>4. PICK n \in T : \A m \in T : n >= m
  BY <1>2, <1>3, HasGreatest
<1>5. PICK k \in S : k.num = n
  BY <1>4 DEF T
<1>6. \A l \in S : l.num <= k.num
  BY <1>1, <1>4, <1>5 DEF T
<1> QED
  BY <1>6 DEF Latest

-----------------------------------------------------------------------------
(* What the steps do.                                                      *)

\* A build that ends.
LEMMA EndedType ==
    ASSUME NEW B \in CFBuild, NEW how \in {"STAGED", "FAILED"}
    PROVE  /\ Ended(B, how) \in CFBuild
           /\ Ended(B, how).phase = B.phase /\ Ended(B, how).package = B.package
           /\ Ended(B, how).validBuildpacks = B.validBuildpacks /\ Ended(B, how).droplet = B.droplet
           /\ Ended(B, how).state = how
           /\ Ended(B, how).succeeded = IF how = "STAGED" THEN "True" ELSE "False"
BY DEF Ended, CFBuild

\* A build that gets a droplet.
LEMMA WithDroplet ==
    ASSUME NEW B \in CFBuild, NEW d \in Droplet
    PROVE  LET E == [B EXCEPT !.droplet = d]
           IN  /\ E \in CFBuild /\ E.phase = B.phase /\ E.package = B.package
               /\ E.validBuildpacks = B.validBuildpacks /\ E.state = B.state
               /\ E.succeeded = B.succeeded /\ E.droplet = d
BY DEF CFBuild

\* What a reconciliation may make of a build and its workload.
Finished(b, B, W) ==
    \/ B = build[b] /\ W = wl[b]
    \/ /\ build[b].phase = "live" /\ build[b].succeeded = "none"
       /\ \/ /\ B.succeeded = "False" /\ B.state \in {build[b].state, "FAILED"}
             /\ B.droplet = build[b].droplet /\ W = wl[b]
          \/ /\ app.lifecycle = "docker" /\ pkg[B.package].type = "docker"
             /\ B.succeeded = "True" /\ B.state = "STAGED"
             /\ B.droplet.src = pkg[B.package].src /\ W = wl[b]
          \/ /\ app.lifecycle = "buildpack" /\ pkg[B.package].phase # "gone"
             /\ B.succeeded = "none" /\ B.state \in {build[b].state, "STAGING"}
             /\ B.droplet = build[b].droplet
             /\ \/ W = wl[b] /\ wl[b].phase # "none"
                \/ /\ wl[b].phase = "none" /\ W.phase = "live" /\ W.src = pkg[B.package].src
                   /\ W.generation = 0 /\ W.succeeded = "none"
          \/ /\ app.lifecycle = "buildpack" /\ wl[b].succeeded = "True"
             /\ B.succeeded = "True" /\ B.state = "STAGED"
             /\ B.droplet = wl[b].droplet /\ W = wl[b]

\* The end of a reconciliation of a build.
LEMMA OutcomeEffect ==
    ASSUME TypeInv, NEW b \in Builds, NEW o \in Outcomes(b)
    PROVE  /\ o[1] \in CFBuild /\ o[2] \in BuildWorkload /\ o[3] \in {0, 1}
           /\ o[1].phase = build[b].phase /\ o[1].package = build[b].package
           /\ o[1].validBuildpacks = build[b].validBuildpacks
           /\ Finished(b, o[1], o[2])
<1> DEFINE B == build[b]
           W == wl[b]
           package == pkg[B.package]
<1>1. B \in CFBuild /\ W \in BuildWorkload
  BY DEF TypeInv, TypeOK
<1>2. CASE B.phase # "live" \/ B.succeeded # "none" \/ package.phase = "gone"
  <2>1. o = <<B, W, 0>>
    BY <1>2 DEF Outcomes
  <2> QED
    BY <1>1, <2>1 DEF Finished
<1>3. CASE ~(B.phase # "live" \/ B.succeeded # "none" \/ package.phase = "gone")
  <2>1. B.phase = "live" /\ B.succeeded = "none" /\ package.phase # "gone"
    BY <1>3
  <2>2. package \in CFPackage /\ app.lifecycle \in Lifecycles
    BY <2>1 DEF TypeInv, TypeOK, NumberInv
  <2>3. package.src \in Sources /\ W.droplet \in Droplet
    BY <1>1, <2>2 DEF CFPackage, BuildWorkload
  <2>4. o \in CASE package.type # app.lifecycle ->
                    {<<[B EXCEPT !.succeeded = "False", !.staging = "False"], W, 0>>}
              [] package.type = app.lifecycle /\ app.lifecycle = "docker" -> DockerOutcomes(B, W, package)
              [] package.type = app.lifecycle /\ app.lifecycle = "buildpack" ->
                    IF B.staging = "none" THEN StartOutcomes(B, W, package) ELSE FinishOutcomes(B, W)
    BY <1>3 DEF Outcomes
  <2> HIDE DEF B, W, package
  <2>5. CASE package.type # app.lifecycle
    <3> DEFINE E == [B EXCEPT !.succeeded = "False", !.staging = "False"]
    <3>1. o = <<E, W, 0>>
      BY <2>4, <2>5
    <3>2. /\ E \in CFBuild /\ E.phase = B.phase /\ E.package = B.package
          /\ E.validBuildpacks = B.validBuildpacks /\ E.state = B.state
          /\ E.succeeded = "False" /\ E.droplet = B.droplet
      BY <1>1 DEF CFBuild
    <3> HIDE DEF E
    <3>3. /\ o[1] = E /\ o[2] = W /\ o[3] = 0
      BY <3>1
    <3>4. Finished(b, E, W)
      BY <2>1, <3>2 DEF Finished, B, W
    <3> QED
      BY <1>1, <3>2, <3>3, <3>4 DEF B
  <2>6. CASE package.type = app.lifecycle /\ app.lifecycle = "docker"
    <3> DEFINE F == Ended(B, "FAILED")
               D == [src |-> package.src, num |-> 0]
               S == Ended(B, "STAGED")
               E == [S EXCEPT !.droplet = D]
    <3>1. o = <<F, W, 0>> \/ o = <<E, W, 0>>
      BY <2>4, <2>6 DEF DockerOutcomes
    <3>2. D \in Droplet /\ D.src = package.src
      BY <2>3 DEF Droplet
    <3>3. /\ F \in CFBuild /\ F.phase = B.phase /\ F.package = B.package
          /\ F.validBuildpacks = B.validBuildpacks /\ F.state = "FAILED"
          /\ F.succeeded = "False" /\ F.droplet = B.droplet
      BY <1>1, EndedType
    <3>4. /\ S \in CFBuild /\ S.phase = B.phase /\ S.package = B.package
          /\ S.validBuildpacks = B.validBuildpacks /\ S.state = "STAGED" /\ S.succeeded = "True"
      BY <1>1, EndedType
    <3> HIDE DEF S, D
    <3>5. /\ E \in CFBuild /\ E.phase = B.phase /\ E.package = B.package
          /\ E.validBuildpacks = B.validBuildpacks /\ E.state = "STAGED"
          /\ E.succeeded = "True" /\ E.droplet = D
      BY <3>2, <3>4, WithDroplet
    <3> HIDE DEF E, F
    <3>6. Finished(b, F, W)
      BY <2>1, <3>3 DEF Finished, B, W
    <3>7. Finished(b, E, W)
      BY <2>1, <2>6, <3>2, <3>5 DEF Finished, B, W, package
    <3>8. o[2] = W /\ o[3] = 0 /\ (o[1] = E \/ o[1] = F)
      BY <3>1
    <3> QED
      BY <1>1, <3>3, <3>5, <3>6, <3>7, <3>8 DEF B
  <2>7. CASE package.type = app.lifecycle /\ app.lifecycle = "buildpack" /\ B.staging = "none"
    <3> DEFINE N == [NoWorkload EXCEPT !.phase = "live", !.src = package.src]
               V == IF W.phase = "none" THEN N ELSE W
               E == [B EXCEPT !.staging = "True", !.state = "STAGING"]
    <3>1. o = <<E, V, 0>> \/ o = <<B, V, 1>>
      BY <2>4, <2>7 DEF StartOutcomes
    <3>2. NoWorkload \in BuildWorkload /\ NoWorkload.generation = 0 /\ NoWorkload.succeeded = "none"
      BY StagingBounds DEF NoWorkload, BuildWorkload, Droplet, NoDroplet, Sources
    <3>3. /\ N \in BuildWorkload /\ N.phase = "live" /\ N.src = package.src
          /\ N.generation = 0 /\ N.succeeded = "none"
      BY <2>3, <3>2 DEF BuildWorkload
    <3>4. /\ E \in CFBuild /\ E.phase = B.phase /\ E.package = B.package
          /\ E.validBuildpacks = B.validBuildpacks /\ E.state = "STAGING"
          /\ E.succeeded = B.succeeded /\ E.droplet = B.droplet
      BY <1>1 DEF CFBuild
    <3> HIDE DEF N, E
    <3>5. V \in BuildWorkload /\ ((V = W /\ W.phase # "none") \/ (V = N /\ W.phase = "none"))
      BY <1>1, <3>3
    <3> HIDE DEF V
    <3>6. Finished(b, E, V)
      BY <2>1, <2>7, <3>3, <3>4, <3>5 DEF Finished, B, W, package
    <3>7. Finished(b, B, V)
      BY <2>1, <2>7, <3>3, <3>5 DEF Finished, B, W, package
    <3>8. o[2] = V /\ o[3] \in {0, 1} /\ (o[1] = E \/ o[1] = B)
      BY <3>1
    <3> QED
      BY <1>1, <3>4, <3>5, <3>6, <3>7, <3>8 DEF B
  <2>8. CASE package.type = app.lifecycle /\ app.lifecycle = "buildpack" /\ B.staging # "none"
    <3> DEFINE F == Ended(B, "FAILED")
               S == Ended(B, "STAGED")
               E == [S EXCEPT !.droplet = W.droplet]
    <3>1. o \in FinishOutcomes(B, W)
      BY <2>4, <2>8
    <3>2. /\ F \in CFBuild /\ F.phase = B.phase /\ F.package = B.package
          /\ F.validBuildpacks = B.validBuildpacks /\ F.state = "FAILED"
          /\ F.succeeded = "False" /\ F.droplet = B.droplet
      BY <1>1, EndedType
    <3>3. /\ S \in CFBuild /\ S.phase = B.phase /\ S.package = B.package
          /\ S.validBuildpacks = B.validBuildpacks /\ S.state = "STAGED" /\ S.succeeded = "True"
      BY <1>1, EndedType
    <3>4. \/ o = <<F, W, 0>>
          \/ o = <<E, W, 0>> /\ W.succeeded = "True"
          \/ o = <<B, W, 0>>
      BY <3>1 DEF FinishOutcomes
    <3> HIDE DEF S
    <3>5. /\ E \in CFBuild /\ E.phase = B.phase /\ E.package = B.package
          /\ E.validBuildpacks = B.validBuildpacks /\ E.state = "STAGED"
          /\ E.succeeded = "True" /\ E.droplet = W.droplet
      BY <2>3, <3>3, WithDroplet
    <3> HIDE DEF E, F
    <3>6. Finished(b, F, W)
      BY <2>1, <3>2 DEF Finished, B, W
    <3>7. W.succeeded = "True" => Finished(b, E, W)
      BY <2>1, <2>8, <3>5 DEF Finished, B, W, package
    <3>8. Finished(b, B, W)
      BY DEF Finished, B, W
    <3>9. /\ o[2] = W /\ o[3] = 0
          /\ o[1] = F \/ (o[1] = E /\ W.succeeded = "True") \/ o[1] = B
      BY <3>4
    <3> QED
      BY <1>1, <3>2, <3>5, <3>6, <3>7, <3>8, <3>9 DEF B
  <2> QED
    BY <2>2, <2>5, <2>6, <2>7, <2>8 DEF Lifecycles
<1> QED
  BY <1>2, <1>3

\* The same for the step.
LEMMA FinishEffect ==
    ASSUME TypeInv, NEW b \in Builds, FinishReconcile(b)
    PROVE  /\ worker' = Idle /\ faults' \in 0 .. MaxFaults
           /\ \E B \in CFBuild, W \in BuildWorkload :
                 /\ build' = [build EXCEPT ![b] = B] /\ wl' = [wl EXCEPT ![b] = W]
                 /\ B.phase = build[b].phase /\ B.package = build[b].package
                 /\ B.validBuildpacks = build[b].validBuildpacks
                 /\ Finished(b, B, W)
<1>1. PICK o \in Outcomes(b) :
        /\ build' = [build EXCEPT ![b] = o[1]] /\ wl' = [wl EXCEPT ![b] = o[2]]
        /\ Faulty(o[3]) /\ worker' = Idle
  BY DEF FinishReconcile
<1>2. /\ o[1] \in CFBuild /\ o[2] \in BuildWorkload /\ o[3] \in {0, 1}
      /\ o[1].phase = build[b].phase /\ o[1].package = build[b].package
      /\ o[1].validBuildpacks = build[b].validBuildpacks
      /\ Finished(b, o[1], o[2])
  BY OutcomeEffect
<1>3. faults' \in 0 .. MaxFaults
  BY <1>1, <1>2, StagingBounds DEF Faulty, TypeInv, TypeOK
<1> QED
  BY <1>1, <1>2, <1>3

\* A workload begins: the Image has its source, and it the generation.
LEMMA BeginEffect ==
    ASSUME TypeInv, NEW b \in Builds, BeginImageBuild(b)
    PROVE  /\ UNCHANGED <<app, pkg, build, kbuilds, kpack, worker>> /\ faults' \in 0 .. MaxFaults
           /\ MayBegin(b) /\ wl[b].phase = "live" /\ wl[b].succeeded = "none" /\ wl[b].src # 0
           /\ image' \in [generation : Nat, src : Sources, before : Sources]
           /\ image' = image \/ image'.generation = image.generation + 1
           /\ "cache" \notin Races => image'.src = wl[b].src
           /\ \E W \in BuildWorkload :
                 /\ wl' = [wl EXCEPT ![b] = W]
                 /\ W.phase = "live" /\ W.src = wl[b].src /\ W.droplet = wl[b].droplet
                 /\ W.generation \in {wl[b].generation, image'.generation}
                 /\ W.succeeded \in {"none", "Unknown"}
<1>1. /\ MayBegin(b) /\ UNCHANGED <<app, pkg, build, kbuilds, kpack, worker>>
      /\ wl[b].phase = "live" /\ wl[b].succeeded = "none" /\ wl[b].src # 0
  BY DEF BeginImageBuild, MayBegin, CanBegin
<1>2. PICK cached \in CachedSources, writes \in 1 .. 3 :
        /\ image' = PatchedImage(b, cached)
        /\ wl' = [wl EXCEPT ![b].generation = IF writes > 1 THEN image'.generation ELSE @,
                            ![b].succeeded = IF writes > 2 THEN "Unknown" ELSE @]
        /\ Faulty(IF writes = 3 THEN 0 ELSE 1)
  BY DEF BeginImageBuild
<1>3. /\ wl[b] \in BuildWorkload /\ wl[b].src \in Sources
      /\ image \in [generation : Nat, src : Sources, before : Sources]
  BY DEF TypeInv, TypeOK, BuildWorkload
<1>4. /\ image' \in [generation : Nat, src : Sources, before : Sources]
      /\ image' = image \/ image'.generation = image.generation + 1
      /\ "cache" \notin Races => image'.src = wl[b].src
  <2> DEFINE src == IF cached = wl[b].src THEN image.src ELSE wl[b].src
             before == IF "cache" \in Races THEN image.src ELSE 0
  <2>1. src \in Sources /\ before \in Sources
    BY <1>3, StagingBounds DEF Sources
  <2>2. "cache" \notin Races => src = wl[b].src
    BY <1>2 DEF CachedSources
  <2>3. image' = IF src = image.src THEN image
                 ELSE [generation |-> image.generation + 1, src |-> src, before |-> before]
    BY <1>2 DEF PatchedImage
  <2> HIDE DEF src, before
  <2> QED
    BY <1>3, <2>1, <2>2, <2>3
<1>5. image'.generation \in Nat
  BY <1>4
<1> DEFINE W == [wl[b] EXCEPT !.generation = IF writes > 1 THEN image'.generation ELSE @,
                              !.succeeded = IF writes > 2 THEN "Unknown" ELSE @]
<1>6. wl' = [wl EXCEPT ![b] = W]
  BY <1>2
<1>7. /\ W \in BuildWorkload /\ W.phase = "live" /\ W.src = wl[b].src /\ W.droplet = wl[b].droplet
      /\ W.generation \in {wl[b].generation, image'.generation}
      /\ W.succeeded \in {"none", "Unknown"}
  BY <1>1, <1>3, <1>5 DEF BuildWorkload
<1> HIDE DEF W
<1>8. faults' \in 0 .. MaxFaults
  BY <1>2, StagingBounds DEF Faulty, TypeInv, TypeOK
<1> QED
  BY <1>1, <1>4, <1>6, <1>7, <1>8

\* A workload fails, is failed by a later one, or takes the droplet of a Build
\* of its generation.
WorkloadChange(c) ==
    /\ wl'[c] \in BuildWorkload
    /\ wl'[c].phase = wl[c].phase /\ wl'[c].src = wl[c].src /\ wl'[c].generation = wl[c].generation
    /\ \/ wl'[c].succeeded = wl[c].succeeded /\ wl'[c].droplet = wl[c].droplet
       \/ wl[c].phase # "none" /\ wl[c].succeeded \in {"none", "Unknown"} /\ wl'[c].succeeded = "False"
       \/ /\ wl[c].phase = "live" /\ wl[c].succeeded = "Unknown" /\ wl'[c].succeeded = "True"
          /\ \E k \in kbuilds : /\ k.generation = wl[c].generation
                                /\ wl'[c].droplet.src = k.src /\ wl'[c].droplet.num = k.num

\* What the latest Build makes of a workload.
LEMMA TakeEffect ==
    ASSUME NEW w \in BuildWorkload, NEW k \in KpackBuild
    PROVE  LET t == TakeOutcome(w, k)
           IN  /\ t \in BuildWorkload
               /\ t.phase = w.phase /\ t.src = w.src /\ t.generation = w.generation
               /\ \/ t = w
                  \/ t.succeeded = "False"
                  \/ t.succeeded = "True" /\ t.droplet.src = k.src /\ t.droplet.num = k.num
<1> DEFINE d == [src |-> k.src, num |-> k.num]
<1>1. d \in Droplet /\ d.src = k.src /\ d.num = k.num /\ k.succeeded \in {"Unknown", "True", "False"}
  BY DEF Droplet, KpackBuild
<1>2. TakeOutcome(w, k) = CASE k.succeeded = "Unknown" -> w
                            [] k.succeeded = "False" -> [w EXCEPT !.succeeded = "False"]
                            [] k.succeeded = "True" -> [w EXCEPT !.succeeded = "True", !.droplet = d]
  BY DEF TakeOutcome
<1> HIDE DEF d
<1>3. CASE k.succeeded = "Unknown"
  BY <1>2, <1>3
<1>4. CASE k.succeeded = "False"
  BY <1>2, <1>4 DEF BuildWorkload
<1>5. CASE k.succeeded = "True"
  BY <1>1, <1>2, <1>5 DEF BuildWorkload
<1> QED
  BY <1>1, <1>3, <1>4, <1>5

\* What it comes to when it fails.
LEMMA FailEffect ==
    ASSUME NEW w \in BuildWorkload, NEW t,
           \/ t = [w EXCEPT !.succeeded = "False"]
           \/ t = [w EXCEPT !.succeeded = "False", !.reason = "BuilderNotReady"]
    PROVE  /\ t \in BuildWorkload /\ t.succeeded = "False"
           /\ t.phase = w.phase /\ t.src = w.src /\ t.generation = w.generation
BY DEF BuildWorkload

\* Steps of workloads that have begun, or have no valid buildpack.
LEMMA WorkloadEffect ==
    ASSUME TypeInv, NEW b \in Builds, InvalidBuildpacks(b) \/ ContinueImageBuild(b) \/ BuilderNotReady(b)
    PROVE  /\ UNCHANGED <<app, pkg, build, image, kbuilds, worker>> /\ faults' \in 0 .. MaxFaults
           /\ kpack' \in [observed : Nat, latest : Nat, ready : BOOLEAN, requested : BOOLEAN, count : Nat]
           /\ kpack'.count = kpack.count
           /\ wl' \in [Builds -> BuildWorkload]
           /\ \A c \in Builds : WorkloadChange(c)
<1>1. UNCHANGED <<app, pkg, build, image, kbuilds, worker>>
  BY DEF InvalidBuildpacks, ContinueImageBuild, BuilderNotReady
<1>2. faults' \in 0 .. MaxFaults
  BY StagingBounds DEF InvalidBuildpacks, ContinueImageBuild, BuilderNotReady, Faulty, TypeInv, TypeOK
<1>3. /\ kpack' \in [observed : Nat, latest : Nat, ready : BOOLEAN, requested : BOOLEAN, count : Nat]
      /\ kpack'.count = kpack.count
  <2>1. kpack \in [observed : Nat, latest : Nat, ready : BOOLEAN, requested : BOOLEAN, count : Nat]
    BY DEF TypeInv, TypeOK
  <2>2. \/ kpack' = kpack
        \/ kpack' = [kpack EXCEPT !.requested = kpack.requested \/ BuildCreationHasBeenSkipped(b)]
    BY DEF InvalidBuildpacks, ContinueImageBuild, BuilderNotReady
  <2>3. (kpack.requested \/ BuildCreationHasBeenSkipped(b)) \in BOOLEAN
    OBVIOUS
  <2> DEFINE r == kpack.requested \/ BuildCreationHasBeenSkipped(b)
  <2> HIDE DEF r
  <2>4. r \in BOOLEAN
    BY <2>3 DEF r
  <2>5. kpack' = kpack \/ kpack' = [kpack EXCEPT !.requested = r]
    BY <2>2 DEF r
  <2> QED
    BY <2>1, <2>4, <2>5
<1>4. wl \in [Builds -> BuildWorkload] /\ \A c \in Builds : wl[c] \in BuildWorkload
  BY DEF TypeInv, TypeOK
<1>5. CASE InvalidBuildpacks(b) \/ BuilderNotReady(b)
  <2>1. PICK t : /\ wl' = [wl EXCEPT ![b] = t]
                 /\ \/ t = [wl[b] EXCEPT !.succeeded = "False"]
                    \/ t = [wl[b] EXCEPT !.succeeded = "False", !.reason = "BuilderNotReady"]
                 /\ wl[b].phase = "live" /\ wl[b].succeeded \in {"none", "Unknown"}
    BY <1>5 DEF InvalidBuildpacks, BuilderNotReady
  <2>2. /\ t \in BuildWorkload /\ t.succeeded = "False"
        /\ t.phase = wl[b].phase /\ t.src = wl[b].src /\ t.generation = wl[b].generation
    BY <1>4, <2>1, FailEffect
  <2>3. wl' \in [Builds -> BuildWorkload]
    BY <1>4, <2>2, <2>1
  <2>4. \A c \in Builds : WorkloadChange(c)
    <3> TAKE c \in Builds
    <3>1. CASE c # b
      BY <1>4, <2>1, <3>1 DEF WorkloadChange
    <3>2. CASE c = b
      BY <1>4, <2>2, <2>1, <3>2 DEF WorkloadChange
    <3> QED
      BY <3>1, <3>2
  <2> QED
    BY <1>1, <1>2, <1>3, <2>3, <2>4
<1>6. CASE ContinueImageBuild(b)
  <2> DEFINE own == OfGeneration(wl[b].generation)
  <2>1. wl[b].phase = "live" /\ wl[b].succeeded = "Unknown"
    BY <1>6 DEF ContinueImageBuild
  <2>2. CASE own = {}
    <3>1. wl' = wl
      BY <1>6, <2>2 DEF ContinueImageBuild
    <3> QED
      BY <1>1, <1>2, <1>3, <1>4, <3>1 DEF WorkloadChange
  <2>3. CASE own # {}
    <3>1. PICK skipped \in FailSkipped(wl[b].generation) :
            wl' = [c \in Builds |->
                     CASE c \in skipped -> [wl[c] EXCEPT !.succeeded = "False"]
                       [] c = b -> TakeOutcome(wl[b], Latest(own))
                       [] OTHER -> wl[c]]
      BY <1>6, <2>3 DEF ContinueImageBuild
    <3>2. skipped \subseteq SkippedBefore(wl[b].generation)
      BY DEF FailSkipped
    <3>3. \A c \in skipped : c \in Builds /\ wl[c].phase # "none" /\ wl[c].succeeded = "Unknown" /\ c # b
      <4>1. \A c \in skipped : c \in Listed /\ wl[c].generation < wl[b].generation /\ wl[c].succeeded = "Unknown"
        BY <3>2 DEF SkippedBefore
      <4>2. wl[b].generation \in Nat
        BY <1>4 DEF BuildWorkload
      <4> QED
        BY <4>1, <4>2 DEF Listed
    <3> DEFINE k == Latest(own)
               t == TakeOutcome(wl[b], k)
    <3>4. own \in SUBSET kbuilds
      BY DEF OfGeneration
    <3>5. k \in own
      BY <2>3, <3>4, LatestIn
    <3>6. k \in kbuilds /\ k \in KpackBuild /\ k.generation = wl[b].generation
      BY <3>5 DEF OfGeneration, TypeInv, TypeOK
    <3> HIDE DEF k, own
    <3>7. /\ t \in BuildWorkload
          /\ t.phase = wl[b].phase /\ t.src = wl[b].src /\ t.generation = wl[b].generation
          /\ \/ t = wl[b]
             \/ t.succeeded = "False"
             \/ t.succeeded = "True" /\ t.droplet.src = k.src /\ t.droplet.num = k.num
      BY <1>4, <3>6, TakeEffect
    <3>8. \A c \in Builds : /\ c \in skipped => wl'[c] = [wl[c] EXCEPT !.succeeded = "False"]
                            /\ c = b => wl'[c] = t
                            /\ c \notin skipped /\ c # b => wl'[c] = wl[c]
      BY <3>1, <3>3 DEF k
    <3> HIDE DEF t
    <3>9. \A c \in Builds : WorkloadChange(c)
      <4> TAKE c \in Builds
      <4>1. CASE c \in skipped
        <5>1. wl'[c] = [wl[c] EXCEPT !.succeeded = "False"] /\ wl[c] \in BuildWorkload
          BY <1>4, <3>8, <4>1
        <5>2. /\ wl'[c] \in BuildWorkload /\ wl'[c].succeeded = "False"
              /\ wl'[c].phase = wl[c].phase /\ wl'[c].src = wl[c].src
              /\ wl'[c].generation = wl[c].generation
          BY <5>1, FailEffect
        <5> QED
          BY <3>3, <4>1, <5>2 DEF WorkloadChange
      <4>2. CASE c = b
        BY <1>4, <2>1, <3>6, <3>7, <3>8, <4>2 DEF WorkloadChange
      <4>3. CASE c \notin skipped /\ c # b
        BY <1>4, <3>8, <4>3 DEF WorkloadChange
      <4> QED
        BY <4>1, <4>2, <4>3
    <3>10. wl' \in [Builds -> BuildWorkload]
      BY <3>1, <3>9 DEF WorkloadChange
    <3> QED
      BY <1>1, <1>2, <1>3, <3>9, <3>10
  <2> QED
    BY <2>2, <2>3
<1> QED
  BY <1>5, <1>6

\* What happens to packages: they are created, get their bits, become ready
\* and go, but never come back.
PackageChange(p) ==
    /\ pkg'[p] \in CFPackage
    /\ pkg[p].phase = "gone" => pkg'[p].phase = "gone"
    /\ \/ pkg'[p].type = pkg[p].type /\ pkg'[p].src \in {pkg[p].src, p}
       \/ pkg'[p].src \in {0, p} /\ (pkg'[p].type = "docker" => pkg'[p].src = p)

\* Steps of packages.
LEMMA PackageEffect ==
    ASSUME TypeInv, PackageStep
    PROVE  /\ UNCHANGED <<app, build, wl, image, kbuilds, kpack, worker>>
           /\ faults' \in 0 .. MaxFaults
           /\ pkg' \in [Packages -> CFPackage]
           /\ \A q \in Packages : PackageChange(q)
<1>1. PICK p \in Packages : CreatePackage(p) \/ Upload(p) \/ ReconcilePackage(p) \/ FinalizePackage(p)
  BY DEF PackageStep
<1>2. UNCHANGED <<app, build, wl, image, kbuilds, kpack, worker>>
  BY <1>1 DEF CreatePackage, Upload, ReconcilePackage, FinalizePackage
<1>3. faults' \in 0 .. MaxFaults
  <2>1. faults \in 0 .. MaxFaults
    BY DEF TypeInv, TypeOK
  <2>2. CASE CreatePackage(p)
    <3>1. Faulty(0) \/ Faulty(1)
      BY <2>2 DEF CreatePackage
    <3> QED
      BY <2>1, <3>1, StagingBounds DEF Faulty
  <2>3. CASE UNCHANGED faults
    BY <2>1, <2>3
  <2> QED
    BY <1>1, <2>2, <2>3 DEF Upload, ReconcilePackage, FinalizePackage
<1>4. pkg \in [Packages -> CFPackage] /\ \A q \in Packages : pkg[q] \in CFPackage /\ q \in Sources
  BY StagingBounds DEF TypeInv, TypeOK, Packages, Sources
<1>5. CASE CreatePackage(p)
  <2>1. PICK type \in Lifecycles :
          pkg' = [pkg EXCEPT ![p] = [phase |-> "live", type |-> type,
                                     src |-> IF type = "docker" THEN p ELSE 0, ready |-> FALSE]]
    BY <1>5 DEF CreatePackage
  <2> DEFINE N == [phase |-> "live", type |-> type, src |-> IF type = "docker" THEN p ELSE 0, ready |-> FALSE]
  <2>2. /\ N \in CFPackage /\ N.phase = "live"
        /\ N.src \in {0, p} /\ (N.type = "docker" => N.src = p)
    BY <1>4, StagingBounds DEF CFPackage, Sources
  <2>3. pkg' = [pkg EXCEPT ![p] = N] /\ pkg[p].phase = "none"
    BY <1>5, <2>1 DEF CreatePackage
  <2> HIDE DEF N
  <2>4. pkg' \in [Packages -> CFPackage]
    BY <1>4, <2>2, <2>3
  <2>5. \A q \in Packages : PackageChange(q)
    BY <1>4, <2>2, <2>3 DEF PackageChange
  <2> QED
    BY <1>2, <1>3, <2>4, <2>5
<1>6. CASE Upload(p) \/ FinalizePackage(p)
  <2>1. PICK N : /\ pkg' = [pkg EXCEPT ![p] = N]
                 /\ \/ N = [pkg[p] EXCEPT !.src = p] /\ pkg[p].phase = "live"
                    \/ N = [pkg[p] EXCEPT !.phase = "gone"]
    BY <1>6 DEF Upload, FinalizePackage
  <2>2. /\ N \in CFPackage /\ N.type = pkg[p].type /\ N.src \in {pkg[p].src, p}
        /\ pkg[p].phase = "gone" => N.phase = "gone"
    BY <1>4, <2>1 DEF CFPackage
  <2>3. pkg' \in [Packages -> CFPackage]
    BY <1>4, <2>1, <2>2
  <2>4. \A q \in Packages : PackageChange(q)
    BY <1>4, <2>1, <2>2 DEF PackageChange
  <2> QED
    BY <1>2, <1>3, <2>3, <2>4
<1>7. CASE ReconcilePackage(p)
  <2>1. \A q \in PackageVictims : q \in Packages /\ pkg[q].phase \in {"live", "deleting"}
    BY DEF PackageVictims, Beyond
  <2> DEFINE ready(q) == IF q = p THEN pkg[p].src # 0 ELSE pkg[q].ready
             phase(q) == IF q \in PackageVictims THEN "deleting" ELSE pkg[q].phase
  <2>2. \A q \in Packages : ready(q) \in BOOLEAN
    <3>1. (pkg[p].src # 0) \in BOOLEAN
      OBVIOUS
    <3>2. \A q \in Packages : pkg[q].ready \in BOOLEAN
      BY <1>4 DEF CFPackage
    <3> QED
      BY <3>1, <3>2
  <2>3. pkg' = [q \in Packages |-> [pkg[q] EXCEPT !.phase = phase(q), !.ready = ready(q)]]
    BY <1>7 DEF ReconcilePackage
  <2>4. \A q \in Packages : /\ phase(q) \in {"none", "live", "deleting", "gone"}
                            /\ pkg[q].phase = "gone" => phase(q) = "gone"
    BY <1>4, <2>1 DEF CFPackage
  <2> HIDE DEF ready, phase
  <2>5. ASSUME NEW q \in Packages
        PROVE  PackageChange(q)
    <3>1. pkg'[q] = [pkg[q] EXCEPT !.phase = phase(q), !.ready = ready(q)]
      BY <2>3
    <3>2. /\ pkg'[q] \in CFPackage /\ pkg'[q].type = pkg[q].type /\ pkg'[q].src = pkg[q].src
          /\ pkg'[q].phase = phase(q)
      BY <1>4, <2>2, <2>4, <3>1 DEF CFPackage
    <3> QED
      BY <2>4, <3>2 DEF PackageChange
  <2>6. pkg' \in [Packages -> CFPackage]
    BY <2>3, <2>5 DEF PackageChange
  <2> QED
    BY <1>2, <1>3, <2>5, <2>6
<1> QED
  BY <1>1, <1>5, <1>6, <1>7

\* A build is created.
LEMMA CreateBuildEffect ==
    ASSUME TypeInv, NEW b \in Builds, CreateBuild(b)
    PROVE  /\ UNCHANGED <<app, pkg, wl, image, kbuilds, kpack, worker>> /\ faults' \in 0 .. MaxFaults
           /\ build[b].phase = "none"
           /\ \A c \in Builds : c < b => build[c].phase # "none"
           /\ \E B \in CFBuild :
                 /\ build' = [build EXCEPT ![b] = B]
                 /\ B.phase = "live" /\ B.package \in Packages /\ B.droplet.src = 0
                 /\ B.state = "" /\ B.succeeded = "none"
<1>1. PICK p \in Packages, valid \in BOOLEAN :
        /\ build' = [build EXCEPT ![b] = [NoBuild EXCEPT !.phase = "live", !.package = p,
                                                         !.validBuildpacks = valid]]
        /\ Faulty(IF valid /\ pkg[p].src # 0 THEN 0 ELSE 1)
  BY DEF CreateBuild
<1>2. NoBuild \in CFBuild /\ NoBuild.droplet.src = 0 /\ NoBuild.state = "" /\ NoBuild.succeeded = "none"
  BY StagingBounds DEF NoBuild, CFBuild, NoDroplet, Droplet, Sources
<1> DEFINE B == [NoBuild EXCEPT !.phase = "live", !.package = p, !.validBuildpacks = valid]
<1>3. /\ B \in CFBuild /\ B.phase = "live" /\ B.package = p /\ B.droplet.src = 0
      /\ B.state = "" /\ B.succeeded = "none"
  <2>1. p \in 0 .. MaxPackages
    BY StagingBounds DEF Packages
  <2> QED
    BY <1>2, <2>1 DEF CFBuild
<1>4. build' = [build EXCEPT ![b] = B]
  BY <1>1
<1> HIDE DEF B
<1>5. faults' \in 0 .. MaxFaults
  BY <1>1, StagingBounds DEF Faulty, TypeInv, TypeOK
<1> QED
  BY <1>3, <1>4, <1>5 DEF CreateBuild

\* The cleaner removes the newest of what it has listed.
LEMMA CleanEffect ==
    ASSUME TypeInv, CleanBuild
    PROVE  /\ UNCHANGED <<app, pkg, wl, image, kbuilds, kpack, faults>> /\ worker.pc = "clean"
           /\ \E v \in worker.victims, B \in CFBuild :
                 /\ v \in Builds /\ build' = [build EXCEPT ![v] = B]
                 /\ B.phase = "gone" /\ B.package = build[v].package /\ B.droplet = build[v].droplet
                 /\ B.state = build[v].state /\ B.succeeded = build[v].succeeded
                 /\ worker' \in [pc : {"clean", "rest"}, build : Builds, victims : SUBSET Builds]
                 /\ worker'.victims = worker.victims \ {v}
                 /\ worker'.pc = "clean" => worker'.victims # {}
<1> DEFINE v == Max(worker.victims)
<1>1. /\ worker.pc = "clean" /\ UNCHANGED <<app, pkg, wl, image, kbuilds, kpack, faults>>
      /\ build' = [build EXCEPT ![v].phase = "gone"]
      /\ worker' = [worker EXCEPT !.victims = @ \ {v}, !.pc = IF worker.victims = {v} THEN "rest" ELSE @]
  BY DEF CleanBuild
<1>2. /\ worker \in [pc : {"idle", "clean", "rest"}, build : 0 .. MaxBuilds, victims : SUBSET Builds]
      /\ worker.victims # {} /\ worker.build \in Builds
  BY <1>1 DEF TypeInv, TypeOK, WorkerInv
<1>3. v \in worker.victims
  BY <1>2, MaxBuild
<1> HIDE DEF v
<1>4. v \in Builds /\ build[v] \in CFBuild
  BY <1>2, <1>3 DEF TypeInv, TypeOK
<1> DEFINE B == [build[v] EXCEPT !.phase = "gone"]
<1>5. /\ B \in CFBuild /\ B.phase = "gone" /\ B.package = build[v].package
      /\ B.droplet = build[v].droplet /\ B.state = build[v].state /\ B.succeeded = build[v].succeeded
  BY <1>4 DEF CFBuild
<1>6. build' = [build EXCEPT ![v] = B]
  BY <1>1
<1> HIDE DEF B
<1>7. /\ worker' \in [pc : {"clean", "rest"}, build : Builds, victims : SUBSET Builds]
      /\ worker'.victims = worker.victims \ {v}
      /\ worker'.pc = "clean" => worker.victims # {v}
  BY <1>1, <1>2
<1>8. worker'.pc = "clean" => worker'.victims # {}
  BY <1>2, <1>3, <1>7
<1> QED
  BY <1>1, <1>3, <1>4, <1>5, <1>6, <1>7, <1>8

\* Steps that finish, delete or remove Builds leave what a Build is made of.
SameBuild(k, l) == l \in KpackBuild /\ l.num = k.num /\ l.generation = k.generation /\ l.src = k.src

\* The last workload of a generation deletes its Builds, then it goes.
LEMMA FinalizeWorkloadEffect ==
    ASSUME TypeInv, NEW b \in Builds, FinalizeWorkload(b)
    PROVE  /\ UNCHANGED <<app, pkg, build, image, kpack, worker, faults>> /\ wl[b].phase = "deleting"
           /\ \A l \in kbuilds' :
                 \E k \in kbuilds :
                    /\ SameBuild(k, l)
                    /\ l.deleting => k.deleting \/ (IsLastBuildWorkload(b) /\ k.generation = wl[b].generation)
           /\ \A k \in kbuilds :
                 k \in kbuilds' \/ (IsLastBuildWorkload(b) /\ k.generation = wl[b].generation)
           /\ \E W \in BuildWorkload :
                 /\ wl' = [wl EXCEPT ![b] = W]
                 /\ W.phase \in {"deleting", "gone"} /\ W.src = wl[b].src /\ W.droplet = wl[b].droplet
                 /\ W.generation = wl[b].generation /\ W.succeeded = wl[b].succeeded
<1>1. wl[b].phase = "deleting" /\ UNCHANGED <<app, pkg, build, image, kpack, worker, faults>>
  BY DEF FinalizeWorkload
<1>2. /\ wl \in [Builds -> BuildWorkload] /\ wl[b] \in BuildWorkload
      /\ \A k \in kbuilds : k \in KpackBuild
  BY DEF TypeInv, TypeOK
<1> DEFINE own == OfGeneration(wl[b].generation)
<1>3. CASE IsLastBuildWorkload(b) /\ own # {}
  <2>1. kbuilds' = (kbuilds \ own) \cup {[k EXCEPT !.deleting = TRUE] : k \in own} /\ wl' = wl
    BY <1>3 DEF FinalizeWorkload
  <2>2. \A k \in own : k \in kbuilds /\ k.generation = wl[b].generation
    BY DEF OfGeneration
  <2>3. \A k \in kbuilds : k.generation = wl[b].generation => k \in own
    BY DEF OfGeneration
  <2> HIDE DEF own
  <2>4. \A k \in own : SameBuild(k, [k EXCEPT !.deleting = TRUE])
    BY <1>2, <2>2 DEF SameBuild, KpackBuild
  <2>5. \A l \in kbuilds' :
           \E k \in kbuilds :
              /\ SameBuild(k, l)
              /\ l.deleting => k.deleting \/ (IsLastBuildWorkload(b) /\ k.generation = wl[b].generation)
    <3> TAKE l \in kbuilds'
    <3>1. CASE l \in kbuilds
      BY <1>2, <3>1 DEF SameBuild
    <3>2. CASE l \notin kbuilds
      <4>1. PICK k \in own : l = [k EXCEPT !.deleting = TRUE]
        BY <2>1, <3>2
      <4> QED
        BY <1>3, <2>2, <2>4, <4>1
    <3> QED
      BY <3>1, <3>2
  <2>6. wl' = [wl EXCEPT ![b] = wl[b]]
    BY <1>2, <2>1
  <2> QED
    BY <1>1, <1>2, <1>3, <2>1, <2>2, <2>5, <2>6
<1>4. CASE ~(IsLastBuildWorkload(b) /\ own # {})
  <2>1. kbuilds' = kbuilds /\ wl' = [wl EXCEPT ![b].phase = "gone"]
    BY <1>4 DEF FinalizeWorkload
  <2> DEFINE W == [wl[b] EXCEPT !.phase = "gone"]
  <2>2. /\ W \in BuildWorkload /\ W.phase = "gone" /\ W.src = wl[b].src /\ W.droplet = wl[b].droplet
        /\ W.generation = wl[b].generation /\ W.succeeded = wl[b].succeeded
    BY <1>2 DEF BuildWorkload
  <2>3. wl' = [wl EXCEPT ![b] = W]
    BY <2>1
  <2> HIDE DEF W
  <2>4. \A k \in kbuilds : SameBuild(k, k)
    BY <1>2 DEF SameBuild
  <2> QED
    BY <1>1, <2>1, <2>2, <2>3, <2>4
<1> QED
  BY <1>3, <1>4

\* Builds finish, and those that are deleted go.
LEMMA KpackEffect ==
    ASSUME TypeInv, FinalizeKpackBuild \/ KpackFinishes
    PROVE  /\ UNCHANGED <<app, pkg, build, wl, image, kpack, worker, faults>>
           /\ \A l \in kbuilds' : \E k \in kbuilds : SameBuild(k, l) /\ l.deleting = k.deleting
           /\ \A k \in kbuilds : k.deleting \/ \E l \in kbuilds' : SameBuild(k, l) /\ l.deleting = k.deleting
<1>1. UNCHANGED <<app, pkg, build, wl, image, kpack, worker, faults>>
  BY DEF FinalizeKpackBuild, KpackFinishes
<1>2. \A k \in kbuilds : k \in KpackBuild
  BY DEF TypeInv, TypeOK
<1>3. \A k \in kbuilds : SameBuild(k, k)
  BY <1>2 DEF SameBuild
<1>4. CASE FinalizeKpackBuild
  BY <1>1, <1>3, <1>4 DEF FinalizeKpackBuild
<1>5. CASE KpackFinishes
  <2>1. PICK k \in kbuilds, how \in {"True", "False"} :
          kbuilds' = (kbuilds \ {k}) \cup {[k EXCEPT !.succeeded = how]}
    BY <1>5 DEF KpackFinishes
  <2> DEFINE f == [k EXCEPT !.succeeded = how]
  <2>2. SameBuild(k, f) /\ f.deleting = k.deleting
    BY <1>2 DEF SameBuild, KpackBuild
  <2>3. kbuilds' = (kbuilds \ {k}) \cup {f}
    BY <2>1
  <2> HIDE DEF f
  <2> QED
    BY <1>1, <1>3, <2>2, <2>3
<1> QED
  BY <1>4, <1>5

\* kpack makes a Build of the Image as it is.
LEMMA BuildsEffect ==
    ASSUME TypeInv, KpackSchedules \/ KpackRebuilds
    PROVE  /\ UNCHANGED <<app, pkg, build, wl, image, worker>> /\ faults' \in 0 .. MaxFaults
           /\ kpack' \in [observed : Nat, latest : Nat, ready : BOOLEAN, requested : BOOLEAN, count : Nat]
           /\ kpack'.count = kpack.count + 1
           /\ \E k \in KpackBuild :
                 /\ kbuilds' = kbuilds \cup {k}
                 /\ k.num = kpack.count + 1 /\ k.generation = image.generation /\ k.generation > 0
                 /\ k.src = image.src /\ ~k.deleting
<1>1. UNCHANGED <<app, pkg, build, wl, image, worker>> /\ image.generation > 0
  BY DEF KpackSchedules, KpackRebuilds, KpackBuilds
<1>2. faults' \in 0 .. MaxFaults
  BY StagingBounds DEF KpackSchedules, KpackRebuilds, KpackBuilds, Faulty, TypeInv, TypeOK
<1>3. /\ image \in [generation : Nat, src : Sources, before : Sources]
      /\ kpack \in [observed : Nat, latest : Nat, ready : BOOLEAN, requested : BOOLEAN, count : Nat]
  BY DEF TypeInv, TypeOK
<1>4. \/ kpack' = [kpack EXCEPT !.observed = image.generation, !.latest = image.generation,
                                !.ready = FALSE, !.requested = FALSE, !.count = @ + 1]
      \/ kpack' = [kpack EXCEPT !.observed = image.generation, !.latest = image.generation,
                                !.ready = FALSE, !.count = @ + 1]
  BY DEF KpackSchedules, KpackRebuilds, KpackBuilds
<1>5. /\ kpack' \in [observed : Nat, latest : Nat, ready : BOOLEAN, requested : BOOLEAN, count : Nat]
      /\ kpack'.count = kpack.count + 1
  <2>1. PICK g \in Nat : g = image.generation
    BY <1>3
  <2>2. PICK n \in Nat : n = kpack.count + 1
    BY <1>3
  <2>3. CASE kpack' = [kpack EXCEPT !.observed = g, !.latest = g, !.ready = FALSE,
                                    !.requested = FALSE, !.count = n]
    BY <1>3, <2>2, <2>3
  <2>4. CASE kpack' = [kpack EXCEPT !.observed = g, !.latest = g, !.ready = FALSE, !.count = n]
    BY <1>3, <2>2, <2>4
  <2> QED
    BY <1>4, <2>1, <2>2, <2>3, <2>4
<1> DEFINE k == [num |-> kpack.count + 1, generation |-> image.generation, src |-> image.src,
                 succeeded |-> "Unknown", deleting |-> FALSE]
<1>6. /\ k \in KpackBuild /\ k.num = kpack.count + 1 /\ k.generation = image.generation
      /\ k.src = image.src /\ ~k.deleting
  BY <1>3 DEF KpackBuild
<1>7. kbuilds' = kbuilds \cup {k}
  BY DEF KpackSchedules, KpackRebuilds, KpackBuilds
<1> HIDE DEF k
<1> QED
  BY <1>1, <1>2, <1>5, <1>6, <1>7

\* A workload whose build is gone is deleted.
LEMMA CollectEffect ==
    ASSUME TypeInv, NEW b \in Builds, CollectWorkload(b)
    PROVE  /\ UNCHANGED <<app, pkg, build, image, kbuilds, kpack, worker, faults>>
           /\ build[b].phase = "gone" /\ wl[b].phase = "live"
           /\ \E W \in BuildWorkload :
                 /\ wl' = [wl EXCEPT ![b] = W]
                 /\ W.phase = "deleting" /\ W.src = wl[b].src /\ W.droplet = wl[b].droplet
                 /\ W.generation = wl[b].generation /\ W.succeeded = wl[b].succeeded
<1>1. wl[b] \in BuildWorkload
  BY DEF TypeInv, TypeOK
<1> DEFINE W == [wl[b] EXCEPT !.phase = "deleting"]
<1>2. /\ W \in BuildWorkload /\ W.phase = "deleting" /\ W.src = wl[b].src /\ W.droplet = wl[b].droplet
      /\ W.generation = wl[b].generation /\ W.succeeded = wl[b].succeeded
  BY <1>1 DEF BuildWorkload
<1>3. wl' = [wl EXCEPT ![b] = W]
  BY DEF CollectWorkload
<1> HIDE DEF W
<1> QED
  BY <1>2, <1>3 DEF CollectWorkload

\* A reconciliation of a build ends, or lists what to remove first.
Lists(b) ==
    /\ worker = Idle /\ BuildVictims # {} /\ UNCHANGED <<build, wl, faults>>
    /\ worker' = [pc |-> "clean", build |-> b, victims |-> BuildVictims]

\* The steps of the worker of the build controller.
LEMMA WorkerEffect ==
    ASSUME TypeInv, (\E b \in Builds : ReconcileBuild(b)) \/ FinishCleaned
    PROVE  /\ UNCHANGED <<app, pkg, image, kbuilds, kpack>> /\ worker.pc # "clean"
           /\ \E b \in Builds : FinishReconcile(b) \/ Lists(b)
<1>1. CASE \E b \in Builds : ReconcileBuild(b)
  BY <1>1 DEF ReconcileBuild, Lists, Idle
<1>2. CASE FinishCleaned
  <2>1. worker.pc = "rest" /\ FinishReconcile(worker.build) /\ UNCHANGED <<app, pkg, image, kbuilds, kpack>>
    BY <1>2 DEF FinishCleaned
  <2>2. worker.build \in Builds
    BY <2>1 DEF TypeInv, WorkerInv
  <2> QED
    BY <2>1, <2>2
<1> QED
  BY <1>1, <1>2

\* The steps of the specification, by what they change.
BuildsMade == KpackSchedules \/ KpackRebuilds
BuildsGo == FinalizeKpackBuild \/ KpackFinishes
WorkerRuns == (\E b \in Builds : ReconcileBuild(b)) \/ FinishCleaned
WorkloadsChange == \E b \in Builds : InvalidBuildpacks(b) \/ ContinueImageBuild(b) \/ BuilderNotReady(b)

\* There are no others.
LEMMA Steps ==
    ASSUME [Next]_vars
    PROVE  \/ PackageStep \/ (\E b \in Builds : CreateBuild(b)) \/ (\E b \in Builds : SetCurrentDroplet(b))
           \/ WorkerRuns \/ CleanBuild \/ CleanBuildFails
           \/ WorkloadsChange \/ (\E b \in Builds : BeginImageBuild(b))
           \/ (\E b \in Builds : CollectWorkload(b)) \/ (\E b \in Builds : FinalizeWorkload(b))
           \/ BuildsGo \/ BuildsMade \/ KpackSettles \/ UNCHANGED vars
BY DEF Next, WorkloadStep, KpackStep, BuildsMade, BuildsGo, WorkerRuns, WorkloadsChange

-----------------------------------------------------------------------------
(* Types.                                                                  *)

\* What the cleaner lists are builds.
LEMMA VictimsAreBuilds ==
    /\ BuildVictims \subseteq Builds
    /\ \A v \in BuildVictims : v # app.current /\ Staged(v)
BY DEF BuildVictims, Beyond, Staged

\* The initial state is well typed.
LEMMA InitType ==
    ASSUME Init
    PROVE  TypeInv
<1>1. app.lifecycle \in Lifecycles /\ app \in [lifecycle : Lifecycles, current : 0 .. MaxBuilds]
  BY StagingBounds DEF Init
<1>2. NoDroplet \in Droplet /\ NoPackage \in CFPackage
  BY StagingBounds DEF NoDroplet, Droplet, NoPackage, CFPackage, Lifecycles, Sources
<1>3. NoBuild \in CFBuild /\ NoBuild.phase = "none" /\ NoWorkload \in BuildWorkload
  BY <1>2, StagingBounds DEF NoBuild, CFBuild, NoWorkload, BuildWorkload, Sources
<1>4. Pushed => /\ 1 \in Packages /\ 1 \in Builds /\ 1 \in Sources /\ 1 \in 0 .. MaxPackages
                /\ FirstDroplet \in Droplet
  BY StagingBounds DEF Packages, Builds, Sources, FirstDroplet, Droplet
<1>5. Pushed => /\ FirstPackage \in CFPackage /\ FirstKpackBuild \in KpackBuild
                /\ FirstBuild \in CFBuild /\ FirstBuild.package = 1
                /\ FirstWorkload \in BuildWorkload
  <2>1. Pushed => FirstPackage \in CFPackage /\ FirstKpackBuild \in KpackBuild
    BY <1>1, <1>4 DEF FirstPackage, CFPackage, FirstKpackBuild, KpackBuild
  <2>2. Pushed => FirstBuild \in CFBuild /\ FirstBuild.package = 1
    BY <1>3, <1>4 DEF FirstBuild, CFBuild
  <2>3. Pushed => FirstWorkload \in BuildWorkload
    BY <1>3, <1>4 DEF FirstWorkload, BuildWorkload
  <2> QED
    BY <2>1, <2>2, <2>3
<1> DEFINE built == Pushed /\ app.lifecycle = "buildpack"
           first == IF built THEN 1 ELSE 0
<1>6. /\ pkg = [p \in Packages |-> IF Pushed /\ p = 1 THEN FirstPackage ELSE NoPackage]
      /\ build = [b \in Builds |-> IF Pushed /\ b = 1 THEN FirstBuild ELSE NoBuild]
      /\ wl = [b \in Builds |-> IF built /\ b = 1 THEN FirstWorkload ELSE NoWorkload]
      /\ image = [NoImage EXCEPT !.generation = first, !.src = first]
      /\ kbuilds = IF built THEN {FirstKpackBuild} ELSE {}
      /\ kpack = [observed |-> first, latest |-> first, ready |-> built, requested |-> FALSE, count |-> first]
      /\ worker = Idle /\ faults = 0
  BY DEF Init
<1>7. /\ pkg \in [Packages -> CFPackage] /\ build \in [Builds -> CFBuild]
      /\ wl \in [Builds -> BuildWorkload] /\ kbuilds \subseteq KpackBuild
  BY <1>2, <1>3, <1>5, <1>6
<1>8. first \in Nat /\ first \in Sources /\ 0 \in Sources
  BY <1>4, StagingBounds DEF Sources
<1>9. built \in BOOLEAN
  OBVIOUS
<1>10. kpack \in [observed : Nat, latest : Nat, ready : BOOLEAN, requested : BOOLEAN, count : Nat]
  <2> HIDE DEF built, first
  <2> QED
    BY <1>6, <1>8, <1>9
<1>11. image \in [generation : Nat, src : Sources, before : Sources]
  <2>1. image = [generation |-> first, src |-> first, before |-> 0]
    BY <1>6 DEF NoImage
  <2> HIDE DEF first
  <2> QED
    BY <1>8, <2>1
<1>12. /\ worker \in [pc : {"idle", "clean", "rest"}, build : 0 .. MaxBuilds, victims : SUBSET Builds]
       /\ faults \in 0 .. MaxFaults /\ WorkerInv
  BY <1>6, StagingBounds DEF Idle, WorkerInv
<1>13. NumberInv
  <2>1. \A b \in Builds : build[b].phase # "none" => build[b].package \in Packages
    BY <1>3, <1>4, <1>5, <1>6
  <2>2. \A k \in kbuilds : k.num <= kpack.count
    BY <1>6 DEF FirstKpackBuild
  <2> QED
    BY <2>1, <2>2 DEF NumberInv
<1> QED
  BY <1>1, <1>7, <1>10, <1>11, <1>12, <1>13 DEF TypeInv, TypeOK

\* Every step keeps the types.
LEMMA NextType ==
    ASSUME TypeInv, [Next]_vars
    PROVE  TypeInv'
<1> USE DEF TypeInv
<1>1. CASE PackageStep
  BY <1>1, PackageEffect DEF TypeOK, WorkerInv, NumberInv, Staged
<1>2. CASE \E b \in Builds : CreateBuild(b)
  <2>1. PICK b \in Builds, B \in CFBuild :
          /\ build' = [build EXCEPT ![b] = B] /\ B.package \in Packages /\ build[b].phase = "none"
          /\ UNCHANGED <<app, pkg, wl, image, kbuilds, kpack, worker>> /\ faults' \in 0 .. MaxFaults
    BY <1>2, CreateBuildEffect
  <2> QED
    BY <2>1 DEF TypeOK, WorkerInv, NumberInv, Staged
<1>3. CASE \E b \in Builds : SetCurrentDroplet(b)
  <2>1. PICK b \in Builds : app' = [app EXCEPT !.current = b]
    BY <1>3 DEF SetCurrentDroplet
  <2>2. UNCHANGED <<pkg, build, wl, image, kbuilds, kpack, worker, faults>>
    BY <1>3 DEF SetCurrentDroplet
  <2>3. app' \in [lifecycle : Lifecycles, current : 0 .. MaxBuilds]
    <3>1. b \in 0 .. MaxBuilds
      BY StagingBounds DEF Builds
    <3> QED
      BY <2>1, <3>1 DEF TypeOK
  <2> QED
    BY <2>2, <2>3 DEF TypeOK, WorkerInv, NumberInv, Staged
<1>4. CASE WorkerRuns
  <2>1. UNCHANGED <<app, pkg, image, kbuilds, kpack>> /\ \E b \in Builds : FinishReconcile(b) \/ Lists(b)
    BY <1>4, WorkerEffect DEF WorkerRuns
  <2>2. PICK b \in Builds : FinishReconcile(b) \/ Lists(b)
    BY <2>1
  <2>3. CASE FinishReconcile(b)
    <3>1. PICK B \in CFBuild, W \in BuildWorkload :
            /\ build' = [build EXCEPT ![b] = B] /\ wl' = [wl EXCEPT ![b] = W]
            /\ B.phase = build[b].phase /\ B.package = build[b].package
      BY <2>3, FinishEffect
    <3>2. worker' = Idle /\ faults' \in 0 .. MaxFaults
      BY <2>3, FinishEffect
    <3>3. WorkerInv' /\ worker' \in [pc : {"idle", "clean", "rest"}, build : 0 .. MaxBuilds, victims : SUBSET Builds]
      BY <3>2, StagingBounds DEF WorkerInv, Idle
    <3> QED
      BY <2>1, <3>1, <3>2, <3>3 DEF TypeOK, NumberInv
  <2>4. CASE Lists(b)
    <3>1. UNCHANGED <<build, wl, faults>> /\ BuildVictims # {}
      BY <2>4 DEF Lists
    <3>2. /\ WorkerInv'
          /\ worker' \in [pc : {"idle", "clean", "rest"}, build : 0 .. MaxBuilds, victims : SUBSET Builds]
      <4>1. Builds \subseteq 0 .. MaxBuilds
        BY StagingBounds DEF Builds
      <4>2. worker' = [pc |-> "clean", build |-> b, victims |-> BuildVictims] /\ UNCHANGED build
        BY <2>4 DEF Lists
      <4>3. \A v \in BuildVictims : v \in Builds /\ Staged(v)'
        BY <4>2, VictimsAreBuilds DEF Staged
      <4> QED
        BY <3>1, <4>1, <4>2, <4>3 DEF WorkerInv
    <3> QED
      BY <2>1, <3>1, <3>2 DEF TypeOK, NumberInv
  <2> QED
    BY <2>2, <2>3, <2>4
<1>5. CASE CleanBuild
  <2>1. PICK v \in Builds, B \in CFBuild :
          /\ build' = [build EXCEPT ![v] = B] /\ B.package = build[v].package
          /\ v \in worker.victims /\ worker'.victims = worker.victims \ {v}
          /\ worker' \in [pc : {"clean", "rest"}, build : Builds, victims : SUBSET Builds]
          /\ worker'.pc = "clean" => worker'.victims # {}
    BY <1>5, CleanEffect
  <2>2. UNCHANGED <<app, pkg, wl, image, kbuilds, kpack, faults>> /\ worker.pc = "clean"
    BY <1>5, CleanEffect
  <2>3. /\ WorkerInv'
        /\ worker' \in [pc : {"idle", "clean", "rest"}, build : 0 .. MaxBuilds, victims : SUBSET Builds]
    <3>1. Builds \subseteq 0 .. MaxBuilds
      BY StagingBounds DEF Builds
    <3>2. \A w \in worker'.victims : w \in Builds /\ w \in worker.victims /\ w # v /\ Staged(w)
      BY <2>1, <2>2 DEF WorkerInv
    <3>3. \A w \in worker'.victims : Staged(w)'
      BY <2>1, <3>2 DEF Staged, TypeOK
    <3> QED
      BY <2>1, <3>1, <3>3 DEF WorkerInv
  <2>4. build' \in [Builds -> CFBuild]
    BY <2>1 DEF TypeOK
  <2>5. NumberInv'
    <3>1. \A b \in Builds : build'[b].phase # "none" => build'[b].package \in Packages
      <4>1. build[v].phase # "none"
        BY <2>1, <2>2 DEF WorkerInv, Staged
      <4> QED
        BY <2>1, <4>1 DEF NumberInv, TypeOK
    <3> QED
      BY <2>2, <3>1 DEF NumberInv
  <2> QED
    BY <2>2, <2>3, <2>4, <2>5 DEF TypeOK
<1>6. CASE CleanBuildFails
  <2>1. /\ worker.pc = "clean" /\ worker' = [worker EXCEPT !.pc = "rest", !.victims = {}]
        /\ Faulty(1) /\ UNCHANGED <<app, pkg, build, wl, image, kbuilds, kpack>>
    BY <1>6 DEF CleanBuildFails
  <2>2. faults' \in 0 .. MaxFaults
    BY <2>1, StagingBounds DEF Faulty, TypeOK
  <2> QED
    BY <2>1, <2>2 DEF TypeOK, WorkerInv, NumberInv, Staged
<1>7. CASE WorkloadsChange
  BY <1>7, WorkloadEffect DEF WorkloadsChange, TypeOK, WorkerInv, NumberInv, Staged
<1>8. CASE \E b \in Builds : BeginImageBuild(b)
  <2>1. PICK b \in Builds : BeginImageBuild(b)
    BY <1>8
  <2>2. PICK W \in BuildWorkload : wl' = [wl EXCEPT ![b] = W]
    BY <2>1, BeginEffect
  <2>3. /\ UNCHANGED <<app, pkg, build, kbuilds, kpack, worker>> /\ faults' \in 0 .. MaxFaults
        /\ image' \in [generation : Nat, src : Sources, before : Sources]
    BY <2>1, BeginEffect
  <2> QED
    BY <2>2, <2>3 DEF TypeOK, WorkerInv, NumberInv, Staged
<1>9. CASE \E b \in Builds : CollectWorkload(b)
  BY <1>9, CollectEffect DEF TypeOK, WorkerInv, NumberInv, Staged
<1>10. CASE \E b \in Builds : FinalizeWorkload(b)
  <2>1. PICK b \in Builds : FinalizeWorkload(b)
    BY <1>10
  <2>2. PICK W \in BuildWorkload : wl' = [wl EXCEPT ![b] = W]
    BY <2>1, FinalizeWorkloadEffect
  <2>3. /\ UNCHANGED <<app, pkg, build, image, kpack, worker, faults>>
        /\ \A l \in kbuilds' : \E k \in kbuilds : SameBuild(k, l)
    BY <2>1, FinalizeWorkloadEffect
  <2> QED
    BY <2>2, <2>3 DEF TypeOK, WorkerInv, NumberInv, Staged, SameBuild
<1>11. CASE BuildsGo
  <2>1. /\ UNCHANGED <<app, pkg, build, wl, image, kpack, worker, faults>>
        /\ \A l \in kbuilds' : \E k \in kbuilds : SameBuild(k, l)
    BY <1>11, KpackEffect DEF BuildsGo
  <2> QED
    BY <2>1 DEF TypeOK, WorkerInv, NumberInv, Staged, SameBuild
<1>12. CASE BuildsMade
  <2>1. /\ UNCHANGED <<app, pkg, build, wl, image, worker>> /\ faults' \in 0 .. MaxFaults
        /\ kpack' \in [observed : Nat, latest : Nat, ready : BOOLEAN, requested : BOOLEAN, count : Nat]
        /\ kpack'.count = kpack.count + 1
    BY <1>12, BuildsEffect DEF BuildsMade
  <2>2. PICK k \in KpackBuild : kbuilds' = kbuilds \cup {k} /\ k.num = kpack.count + 1
    BY <1>12, BuildsEffect DEF BuildsMade
  <2>3. \A l \in kbuilds : l.num \in Nat /\ l.num <= kpack.count /\ kpack.count \in Nat
    BY DEF TypeOK, KpackBuild, NumberInv
  <2>4. \A l \in kbuilds' : l.num <= kpack'.count
    BY <2>1, <2>2, <2>3 DEF TypeOK
  <2> QED
    BY <2>1, <2>2, <2>4 DEF TypeOK, WorkerInv, NumberInv, Staged
<1>13. CASE KpackSettles
  <2>1. /\ UNCHANGED <<app, pkg, build, wl, image, kbuilds, worker, faults>>
        /\ kpack' = [kpack EXCEPT !.observed = image.generation, !.ready = TRUE]
    BY <1>13 DEF KpackSettles
  <2>2. /\ kpack' \in [observed : Nat, latest : Nat, ready : BOOLEAN, requested : BOOLEAN, count : Nat]
        /\ kpack'.count = kpack.count
    BY <2>1 DEF TypeOK
  <2> QED
    BY <2>1, <2>2 DEF TypeOK, WorkerInv, NumberInv, Staged
<1>14. CASE UNCHANGED vars
  BY <1>14 DEF vars, TypeOK, WorkerInv, NumberInv, Staged
<1> QED
  BY <1>1, <1>2, <1>3, <1>4, <1>5, <1>6, <1>7, <1>8, <1>9, <1>10, <1>11, <1>12, <1>13, <1>14, Steps

\* App, packages, builds, workloads, Image and worker keep their types, for
\* any number of them, whatever races and fails.
THEOREM TypeCorrect == Spec => []TypeOK
<1>1. Init => TypeInv
  BY InitType
<1>2. TypeInv /\ [Next]_vars => TypeInv'
  BY NextType
<1>3. TypeInv => TypeOK
  BY DEF TypeInv
<1> QED
  BY <1>1, <1>2, <1>3, PTL DEF Spec

-----------------------------------------------------------------------------
(* Packages, builds and workloads.                                         *)

ShapeInv == PackageInv /\ BuildInv /\ WorkloadInv

\* Which steps change the builds, which the workloads.
LEMMA BuildsFrame ==
    ASSUME [Next]_vars
    PROVE  /\ UNCHANGED app \/ \E b \in Builds : SetCurrentDroplet(b)
           /\ UNCHANGED pkg \/ PackageStep
           /\ \/ UNCHANGED build \/ (\E b \in Builds : CreateBuild(b)) \/ WorkerRuns \/ CleanBuild
           /\ \/ UNCHANGED wl \/ WorkerRuns \/ WorkloadsChange
              \/ (\E b \in Builds : BeginImageBuild(b)) \/ (\E b \in Builds : CollectWorkload(b))
              \/ (\E b \in Builds : FinalizeWorkload(b))
<1>1. CASE PackageStep
  BY <1>1 DEF PackageStep, CreatePackage, Upload, ReconcilePackage, FinalizePackage
<1>2. CASE (\E b \in Builds : CreateBuild(b)) \/ (\E b \in Builds : SetCurrentDroplet(b))
  BY <1>2 DEF CreateBuild, SetCurrentDroplet
<1>3. CASE WorkerRuns
  BY <1>3 DEF WorkerRuns, ReconcileBuild, FinishCleaned
<1>4. CASE CleanBuild \/ CleanBuildFails
  BY <1>4 DEF CleanBuild, CleanBuildFails
<1>5. CASE WorkloadsChange
  BY <1>5 DEF WorkloadsChange, InvalidBuildpacks, ContinueImageBuild, BuilderNotReady
<1>6. CASE \/ \E b \in Builds : BeginImageBuild(b)
           \/ \E b \in Builds : CollectWorkload(b)
           \/ \E b \in Builds : FinalizeWorkload(b)
  BY <1>6 DEF BeginImageBuild, CollectWorkload, FinalizeWorkload
<1>7. CASE BuildsGo \/ BuildsMade \/ KpackSettles
  BY <1>7 DEF BuildsGo, BuildsMade, FinalizeKpackBuild, KpackFinishes, KpackSchedules, KpackRebuilds,
              KpackBuilds, KpackSettles
<1>8. CASE UNCHANGED vars
  BY <1>8 DEF vars
<1> QED
  BY <1>1, <1>2, <1>3, <1>4, <1>5, <1>6, <1>7, <1>8, Steps

\* Every step keeps what is known of packages.
LEMMA NextPackages ==
    ASSUME TypeInv, PackageInv, [Next]_vars
    PROVE  PackageInv'
<1>1. CASE UNCHANGED pkg
  BY <1>1 DEF PackageInv
<1>2. CASE PackageStep
  BY <1>2, PackageEffect DEF PackageInv, PackageChange
<1> QED
  BY <1>1, <1>2, BuildsFrame

\* A reconciliation keeps the shapes of the build and its workload.
LEMMA FinishedShapes ==
    ASSUME NEW b \in Builds, TypeInv, ShapeInv, NEW B \in CFBuild, NEW W \in BuildWorkload,
           B.phase = build[b].phase, B.package = build[b].package, Finished(b, B, W)
    PROVE  BuildShape(B) /\ WorkloadShape(W, B, app.lifecycle)
<1>1. BuildShape(build[b]) /\ WorkloadShape(wl[b], build[b], app.lifecycle)
  BY DEF ShapeInv, BuildInv, WorkloadInv
<1>2. CASE B = build[b] /\ W = wl[b]
  BY <1>1, <1>2
<1>3. CASE ~(B = build[b] /\ W = wl[b])
  <2>1. build[b].phase = "live" /\ build[b].succeeded = "none" /\ B.package \in Packages
    BY <1>3 DEF Finished, TypeInv, NumberInv
  <2>2. pkg[B.package].src \in {0, B.package}
    BY <2>1 DEF ShapeInv, PackageInv
  <2>3. BuildShape(B)
    BY <1>1, <1>3, <2>1 DEF Finished, BuildShape
  <2>4. wl[b].phase \notin {"deleting", "gone"}
    BY <1>1, <2>1 DEF WorkloadShape
  <2>5. WorkloadShape(W, B, app.lifecycle)
    BY <1>1, <1>3, <2>1, <2>2, <2>4 DEF Finished, WorkloadShape
  <2> QED
    BY <2>3, <2>5
<1> QED
  BY <1>2, <1>3

\* A step of the worker keeps them.
LEMMA WorkerShapes ==
    ASSUME TypeInv, ShapeInv, WorkerRuns
    PROVE  BuildInv' /\ WorkloadInv'
<1>1. UNCHANGED app
  BY WorkerEffect DEF WorkerRuns
<1>2. PICK b \in Builds : FinishReconcile(b) \/ Lists(b)
  BY WorkerEffect DEF WorkerRuns
<1>3. CASE Lists(b)
  BY <1>1, <1>3 DEF Lists, ShapeInv, BuildInv, WorkloadInv
<1>4. CASE FinishReconcile(b)
  <2>1. PICK B \in CFBuild, W \in BuildWorkload :
          /\ build' = [build EXCEPT ![b] = B] /\ wl' = [wl EXCEPT ![b] = W]
          /\ B.phase = build[b].phase /\ B.package = build[b].package
          /\ Finished(b, B, W)
    BY <1>4, FinishEffect
  <2>2. BuildShape(B) /\ WorkloadShape(W, B, app.lifecycle)
    BY <2>1, FinishedShapes
  <2>3. \A c \in Builds : /\ build'[c] = IF c = b THEN B ELSE build[c]
                          /\ wl'[c] = IF c = b THEN W ELSE wl[c]
    BY <2>1 DEF TypeInv, TypeOK
  <2> QED
    BY <1>1, <2>2, <2>3 DEF ShapeInv, BuildInv, WorkloadInv
<1> QED
  BY <1>2, <1>3, <1>4

\* So do the creation and the removal of a build.
LEMMA BuildShapes ==
    ASSUME TypeInv, ShapeInv, (\E b \in Builds : CreateBuild(b)) \/ CleanBuild
    PROVE  BuildInv' /\ WorkloadInv'
<1>1. CASE \E b \in Builds : CreateBuild(b)
  <2>1. PICK b \in Builds, B \in CFBuild :
          /\ build' = [build EXCEPT ![b] = B]
          /\ B.phase = "live" /\ B.droplet.src = 0 /\ B.state = "" /\ B.succeeded = "none"
          /\ UNCHANGED <<app, wl>> /\ build[b].phase = "none"
    BY <1>1, CreateBuildEffect
  <2>2. BuildShape(build[b]) /\ WorkloadShape(wl[b], build[b], app.lifecycle)
    BY DEF ShapeInv, BuildInv, WorkloadInv
  <2>3. BuildShape(B)
    BY <2>1 DEF BuildShape
  <2>4. WorkloadShape(wl[b], B, app.lifecycle)
    BY <2>1, <2>2 DEF BuildShape, WorkloadShape
  <2>5. \A c \in Builds : build'[c] = IF c = b THEN B ELSE build[c]
    BY <2>1 DEF TypeInv, TypeOK
  <2> QED
    BY <2>1, <2>3, <2>4, <2>5 DEF ShapeInv, BuildInv, WorkloadInv
<1>2. CASE CleanBuild
  <2>1. PICK b \in Builds, B \in CFBuild :
          /\ build' = [build EXCEPT ![b] = B] /\ b \in worker.victims
          /\ B.phase = "gone" /\ B.package = build[b].package /\ B.droplet = build[b].droplet
          /\ B.state = build[b].state /\ B.succeeded = build[b].succeeded
    BY <1>2, CleanEffect
  <2>2. BuildShape(build[b]) /\ WorkloadShape(wl[b], build[b], app.lifecycle)
    BY DEF ShapeInv, BuildInv, WorkloadInv
  <2>3. Staged(b) /\ UNCHANGED <<app, wl>>
    BY <1>2, <2>1, CleanEffect DEF TypeInv, WorkerInv
  <2>4. BuildShape(B)
    BY <2>1, <2>2, <2>3 DEF BuildShape, Staged
  <2>5. WorkloadShape(wl[b], B, app.lifecycle)
    BY <2>1, <2>2, <2>3 DEF WorkloadShape, Staged
  <2>6. \A c \in Builds : build'[c] = IF c = b THEN B ELSE build[c]
    BY <2>1 DEF TypeInv, TypeOK
  <2> QED
    BY <2>3, <2>4, <2>5, <2>6 DEF ShapeInv, BuildInv, WorkloadInv
<1> QED
  BY <1>1, <1>2

\* And the steps of the workloads.
LEMMA WorkloadShapes ==
    ASSUME TypeInv, ShapeInv,
           \/ WorkloadsChange \/ (\E b \in Builds : BeginImageBuild(b))
           \/ (\E b \in Builds : CollectWorkload(b)) \/ (\E b \in Builds : FinalizeWorkload(b))
    PROVE  WorkloadInv' /\ UNCHANGED <<build, app>>
<1>1. \A c \in Builds : WorkloadShape(wl[c], build[c], app.lifecycle)
  BY DEF ShapeInv, WorkloadInv
<1>2. CASE WorkloadsChange
  <2>1. UNCHANGED <<build, app>> /\ \A c \in Builds : WorkloadChange(c)
    BY <1>2, WorkloadEffect DEF WorkloadsChange
  <2>2. ASSUME NEW c \in Builds
        PROVE  WorkloadShape(wl'[c], build[c], app.lifecycle)
    <3>1. WorkloadShape(wl[c], build[c], app.lifecycle) /\ WorkloadChange(c)
      BY <1>1, <2>1
    <3>2. CASE wl'[c].succeeded = wl[c].succeeded /\ wl'[c].droplet = wl[c].droplet
      BY <3>1, <3>2 DEF WorkloadShape, WorkloadChange
    <3>3. CASE /\ wl[c].phase # "none" /\ wl[c].succeeded \in {"none", "Unknown"}
               /\ wl'[c].succeeded \in {"True", "False"}
      <4>1. wl'[c].succeeded = "True" => wl[c].succeeded = "Unknown"
        BY <3>1, <3>3 DEF WorkloadChange
      <4> QED
        BY <3>1, <3>3, <4>1 DEF WorkloadShape, WorkloadChange
    <3> QED
      BY <3>1, <3>2, <3>3 DEF WorkloadChange
  <2> QED
    BY <2>1, <2>2 DEF WorkloadInv
<1>3. CASE \/ \E b \in Builds : BeginImageBuild(b)
           \/ \E b \in Builds : CollectWorkload(b)
           \/ \E b \in Builds : FinalizeWorkload(b)
  <2>1. PICK b \in Builds : BeginImageBuild(b) \/ CollectWorkload(b) \/ FinalizeWorkload(b)
    BY <1>3
  <2>2. UNCHANGED <<build, app>>
    BY <2>1, BeginEffect, CollectEffect, FinalizeWorkloadEffect
  <2>3. PICK W \in BuildWorkload :
          /\ wl' = [wl EXCEPT ![b] = W] /\ W.src = wl[b].src /\ W.droplet = wl[b].droplet
          /\ \/ /\ W.phase = "live" /\ wl[b].phase = "live" /\ wl[b].src # 0 /\ wl[b].succeeded = "none"
                /\ W.succeeded \in {"none", "Unknown"}
             \/ /\ W.phase \in {"deleting", "gone"} /\ W.succeeded = wl[b].succeeded
                /\ W.generation = wl[b].generation
                /\ wl[b].phase # "none" /\ (build[b].phase = "gone" \/ wl[b].phase = "deleting")
    BY <2>1, BeginEffect, CollectEffect, FinalizeWorkloadEffect
  <2>4. WorkloadShape(wl[b], build[b], app.lifecycle)
    BY <1>1
  <2>5. WorkloadShape(W, build[b], app.lifecycle)
    BY <2>3, <2>4 DEF WorkloadShape
  <2>6. \A c \in Builds : wl'[c] = IF c = b THEN W ELSE wl[c]
    BY <2>3 DEF TypeInv, TypeOK
  <2> QED
    BY <1>1, <2>2, <2>5, <2>6 DEF WorkloadInv
<1> QED
  BY <1>2, <1>3

\* Every step keeps the shapes.
LEMMA NextShapes ==
    ASSUME TypeInv, ShapeInv, [Next]_vars
    PROVE  ShapeInv'
<1>1. PackageInv'
  BY NextPackages DEF ShapeInv
<1>2. app'.lifecycle = app.lifecycle
  <2>1. CASE \E b \in Builds : SetCurrentDroplet(b)
    BY <2>1 DEF SetCurrentDroplet, TypeInv, TypeOK
  <2> QED
    BY <2>1, BuildsFrame
<1>3. CASE UNCHANGED <<build, wl>>
  BY <1>1, <1>2, <1>3 DEF ShapeInv, BuildInv, WorkloadInv
<1>4. CASE WorkerRuns
  BY <1>1, <1>4, WorkerShapes DEF ShapeInv
<1>5. CASE (\E b \in Builds : CreateBuild(b)) \/ CleanBuild
  BY <1>1, <1>5, BuildShapes DEF ShapeInv
<1>6. CASE \/ WorkloadsChange \/ (\E b \in Builds : BeginImageBuild(b))
           \/ (\E b \in Builds : CollectWorkload(b)) \/ (\E b \in Builds : FinalizeWorkload(b))
  <2>1. WorkloadInv' /\ UNCHANGED build
    BY <1>6, WorkloadShapes
  <2> QED
    BY <1>1, <2>1 DEF ShapeInv, BuildInv
<1> QED
  BY <1>3, <1>4, <1>5, <1>6, BuildsFrame

-----------------------------------------------------------------------------
(* The initial state.                                                      *)

\* A build that was not asked for, and the one the first push has left.
NotAsked(b) ==
    /\ build[b].phase = "none" /\ build[b].package = 0 /\ build[b].droplet.src = 0
    /\ build[b].state = "" /\ build[b].succeeded = "none"
    /\ wl[b].phase = "none" /\ wl[b].src = 0 /\ wl[b].generation = 0 /\ wl[b].succeeded = "none"
PushedOnce(b) ==
    /\ b = 1 /\ Pushed /\ build[b].phase = "live" /\ build[b].package = 1
    /\ build[b].state = "STAGED" /\ build[b].succeeded = "True" /\ build[b].droplet.src = 1
    /\ \/ /\ app.lifecycle = "docker"
          /\ wl[b].phase = "none" /\ wl[b].src = 0 /\ wl[b].generation = 0 /\ wl[b].succeeded = "none"
       \/ /\ app.lifecycle = "buildpack" /\ image.generation = 1 /\ image.src = 1
          /\ wl[b].phase = "live" /\ wl[b].src = 1 /\ wl[b].generation = 1 /\ wl[b].succeeded = "True"
          /\ wl[b].droplet = build[b].droplet /\ build[b].droplet.num = 1
          /\ kbuilds = {FirstKpackBuild}

\* There are no others.
LEMMA InitEffect ==
    ASSUME Init
    PROVE  /\ \A b \in Builds : NotAsked(b) \/ PushedOnce(b)
           /\ \A p \in Packages : \/ pkg[p].src = 0 /\ pkg[p].type = "buildpack"
                                  \/ pkg[p].src = 1 /\ p = 1
           /\ \/ kbuilds = {}
              \/ /\ 1 \in Builds /\ PushedOnce(1) /\ app.lifecycle = "buildpack"
                 /\ kbuilds = {FirstKpackBuild}
           /\ image.generation \in {0, 1} /\ worker = Idle
           /\ app.current # 0 => app.current \in Builds /\ PushedOnce(app.current)
<1>1. app.lifecycle \in Lifecycles /\ app.current \in {0, 1} /\ (app.current # 0 => app.current = 1 /\ Pushed)
  BY DEF Init
<1> DEFINE built == Pushed /\ app.lifecycle = "buildpack"
           first == IF built THEN 1 ELSE 0
<1>2. /\ pkg = [p \in Packages |-> IF Pushed /\ p = 1 THEN FirstPackage ELSE NoPackage]
      /\ build = [b \in Builds |-> IF Pushed /\ b = 1 THEN FirstBuild ELSE NoBuild]
      /\ wl = [b \in Builds |-> IF built /\ b = 1 THEN FirstWorkload ELSE NoWorkload]
      /\ image = [NoImage EXCEPT !.generation = first, !.src = first]
      /\ kbuilds = IF built THEN {FirstKpackBuild} ELSE {}
      /\ worker = Idle
  BY DEF Init
<1>3. image.generation = first /\ image.src = first
  BY <1>2 DEF NoImage
<1>4. Pushed => 1 \in Builds
  BY StagingBounds DEF Builds
<1>5. /\ NoBuild.phase = "none" /\ NoBuild.package = 0 /\ NoBuild.droplet.src = 0
      /\ NoBuild.state = "" /\ NoBuild.succeeded = "none"
      /\ NoWorkload.phase = "none" /\ NoWorkload.src = 0 /\ NoWorkload.generation = 0
      /\ NoWorkload.succeeded = "none"
  BY DEF NoBuild, NoDroplet, NoWorkload
<1>6. /\ FirstBuild.phase = "live" /\ FirstBuild.package = 1 /\ FirstBuild.droplet = FirstDroplet
      /\ FirstBuild.state = "STAGED" /\ FirstBuild.succeeded = "True"
      /\ FirstWorkload.phase = "live" /\ FirstWorkload.src = 1 /\ FirstWorkload.generation = 1
      /\ FirstWorkload.succeeded = "True" /\ FirstWorkload.droplet = FirstDroplet
  BY DEF FirstBuild, FirstWorkload, NoBuild, NoWorkload
<1>7. FirstDroplet.src = 1 /\ (app.lifecycle = "buildpack" => FirstDroplet.num = 1)
  BY DEF FirstDroplet
<1>8. ASSUME NEW b \in Builds
      PROVE  NotAsked(b) \/ PushedOnce(b)
  <2>1. CASE Pushed /\ b = 1
    <3>1. build[b] = FirstBuild /\ wl[b] = IF built THEN FirstWorkload ELSE NoWorkload
      BY <1>2, <2>1
    <3>2. CASE built
      BY <1>2, <1>3, <1>6, <1>7, <2>1, <3>1, <3>2 DEF PushedOnce
    <3>3. CASE ~built
      BY <1>1, <1>5, <1>6, <1>7, <2>1, <3>1, <3>3 DEF PushedOnce, Lifecycles
    <3> QED
      BY <3>2, <3>3
  <2>2. CASE ~(Pushed /\ b = 1)
    <3>1. build[b] = NoBuild /\ wl[b] = NoWorkload
      BY <1>2, <2>2
    <3> QED
      BY <1>5, <3>1 DEF NotAsked
  <2> QED
    BY <2>1, <2>2
<1>9. Pushed => PushedOnce(1)
  <2>1. Pushed => build[1].phase = "live"
    BY <1>2, <1>4, <1>6
  <2> QED
    BY <1>4, <1>8, <2>1 DEF NotAsked
<1>10. \A p \in Packages : \/ pkg[p].src = 0 /\ pkg[p].type = "buildpack"
                           \/ pkg[p].src = 1 /\ p = 1
  BY <1>2 DEF FirstPackage, NoPackage
<1> QED
  BY <1>1, <1>2, <1>3, <1>4, <1>8, <1>9, <1>10

\* It satisfies every invariant.
LEMMA InitInv ==
    ASSUME Init
    PROVE  /\ TypeInv /\ ShapeInv /\ GenerationInv /\ DropletInv
           /\ OrderInv /\ NewerInv /\ ImageInv /\ VictimInv
<1>1. TypeInv
  BY InitType
<1>2. /\ \A b \in Builds : NotAsked(b) \/ PushedOnce(b)
      /\ image.generation \in {0, 1} /\ worker.pc = "idle"
  BY InitEffect DEF Idle
<1>3. \A b \in Builds : b \in Nat /\ b >= 1
  BY DEF Builds
<1>4. PackageInv
  BY InitEffect DEF PackageInv
<1>5. BuildInv
  BY <1>2 DEF BuildInv, BuildShape, NotAsked, PushedOnce
<1>6. WorkloadInv
  <2>1. ASSUME NEW b \in Builds, NotAsked(b)
        PROVE  WorkloadShape(wl[b], build[b], app.lifecycle)
    <3>1. wl[b].generation \in {0} /\ wl[b].phase = "none" /\ wl[b].succeeded = "none" /\ wl[b].src \in {0}
      BY <2>1 DEF NotAsked
    <3>2. build[b].succeeded = "none"
      BY <2>1 DEF NotAsked
    <3> QED
      BY <3>1, <3>2 DEF WorkloadShape
  <2>2. ASSUME NEW b \in Builds, PushedOnce(b)
        PROVE  WorkloadShape(wl[b], build[b], app.lifecycle)
    <3>1. CASE app.lifecycle = "docker"
      BY <2>2, <3>1 DEF WorkloadShape, PushedOnce
    <3>2. CASE app.lifecycle = "buildpack"
      BY <2>2, <3>2 DEF WorkloadShape, PushedOnce
    <3> QED
      BY <2>2, <3>1, <3>2 DEF PushedOnce
  <2> QED
    BY <1>2, <2>1, <2>2 DEF WorkloadInv
<1>7. \A k \in kbuilds : /\ k.num = 1 /\ k.generation = 1 /\ k.src = 1 /\ ~k.deleting
                         /\ image.generation = 1 /\ image.src = 1
  BY InitEffect DEF FirstKpackBuild, PushedOnce
<1>8. \A b \in Builds : /\ wl[b].generation \in {0, 1} /\ wl[b].generation <= image.generation
                        /\ wl[b].generation > 0 => b = 1 /\ wl[b].src = 1 /\ image.src = 1
  <2> TAKE b \in Builds
  <2>1. CASE NotAsked(b)
    <3>1. wl[b].generation \in {0}
      BY <2>1 DEF NotAsked
    <3> QED
      BY <1>2, <3>1
  <2>2. CASE PushedOnce(b)
    BY <1>2, <2>2 DEF PushedOnce
  <2> QED
    BY <1>2, <2>1, <2>2
<1>9. GenerationInv
  BY <1>7, <1>8 DEF GenerationInv
<1>10. DropletInv
  <2>1. ASSUME NEW b \in Builds, NotAsked(b)
        PROVE  wl[b].succeeded # "True" /\ build[b].succeeded # "True"
    BY <2>1 DEF NotAsked
  <2>2. ASSUME NEW b \in Builds, PushedOnce(b)
        PROVE  /\ wl[b].succeeded = "True" => wl[b].droplet.src = wl[b].src
               /\ build[b].droplet.src = build[b].package
    BY <2>2 DEF PushedOnce
  <2> QED
    BY <1>2, <2>1, <2>2 DEF DropletInv
<1>11. OrderInv
  <2>1. \A b, c \in Builds : b < c => c # 1
    BY <1>3
  <2>2. \A c \in Builds : c # 1 => build[c].phase = "none" /\ wl[c].generation = 0
    BY <1>2 DEF NotAsked, PushedOnce
  <2> QED
    BY <1>8, <2>1, <2>2 DEF OrderInv
<1>12. NewerInv /\ VictimInv
  BY <1>2 DEF NewerInv, VictimInv, NotAsked, PushedOnce
<1>13. ImageInv
  <2>1. ASSUME NEW b \in Builds, wl[b].phase = "live"
        PROVE  \E k \in kbuilds : /\ k.num = wl[b].droplet.num /\ k.generation = wl[b].generation
                                  /\ ~k.deleting
    <3>1. wl[b].generation = 1 /\ wl[b].droplet.num = 1 /\ FirstKpackBuild \in kbuilds
      BY <1>2, <2>1 DEF NotAsked, PushedOnce
    <3> QED
      BY <1>7, <3>1
  <2> QED
    BY <1>7, <2>1 DEF ImageInv
<1> QED
  BY <1>1, <1>4, <1>5, <1>6, <1>9, <1>10, <1>11, <1>12, <1>13 DEF ShapeInv

-----------------------------------------------------------------------------
(* Generations and droplets.                                               *)

\* A step that leaves the Image alone and makes no Build.
Calm ==
    /\ image' = image
    /\ \A c \in Builds : \/ wl'[c].generation = wl[c].generation /\ wl'[c].src = wl[c].src
                         \/ wl'[c].generation = 0
    /\ \A l \in kbuilds' : \E k \in kbuilds : SameBuild(k, l)

\* Such are all steps but two.
LEMMA CalmSteps ==
    ASSUME TypeInv, [Next]_vars
    PROVE  Calm \/ (\E b \in Builds : BeginImageBuild(b)) \/ BuildsMade
<1>1. \A k \in kbuilds : SameBuild(k, k)
  BY DEF SameBuild, TypeInv, TypeOK
<1>2. CASE UNCHANGED <<wl, image, kbuilds>>
  BY <1>1, <1>2 DEF Calm
<1>3. CASE WorkerRuns
  <2>1. UNCHANGED <<image, kbuilds>>
    BY <1>3, WorkerEffect DEF WorkerRuns
  <2>2. PICK b \in Builds : FinishReconcile(b) \/ Lists(b)
    BY <1>3, WorkerEffect DEF WorkerRuns
  <2>3. CASE Lists(b)
    BY <1>1, <2>1, <2>3 DEF Lists, Calm
  <2>4. CASE FinishReconcile(b)
    <3>1. PICK B \in CFBuild, W \in BuildWorkload : wl' = [wl EXCEPT ![b] = W] /\ Finished(b, B, W)
      BY <2>4, FinishEffect
    <3>2. W = wl[b] \/ W.generation = 0
      BY <3>1 DEF Finished
    <3> QED
      BY <1>1, <2>1, <3>1, <3>2 DEF Calm, TypeInv, TypeOK
  <2> QED
    BY <2>2, <2>3, <2>4
<1>4. CASE WorkloadsChange
  BY <1>1, <1>4, WorkloadEffect DEF WorkloadsChange, WorkloadChange, Calm
<1>5. CASE \E b \in Builds : CollectWorkload(b)
  <2>1. PICK b \in Builds, W \in BuildWorkload :
          /\ UNCHANGED <<image, kbuilds>>
          /\ wl' = [wl EXCEPT ![b] = W] /\ W.generation = wl[b].generation /\ W.src = wl[b].src
    BY <1>5, CollectEffect
  <2> QED
    BY <1>1, <2>1 DEF Calm, TypeInv, TypeOK
<1>6. CASE \E b \in Builds : FinalizeWorkload(b)
  <2>1. PICK b \in Builds : FinalizeWorkload(b)
    BY <1>6
  <2>2. PICK W \in BuildWorkload :
          wl' = [wl EXCEPT ![b] = W] /\ W.generation = wl[b].generation /\ W.src = wl[b].src
    BY <2>1, FinalizeWorkloadEffect
  <2>3. UNCHANGED image /\ \A l \in kbuilds' : \E k \in kbuilds : SameBuild(k, l)
    BY <2>1, FinalizeWorkloadEffect
  <2> QED
    BY <2>2, <2>3 DEF Calm, TypeInv, TypeOK
<1>7. CASE BuildsGo
  BY <1>7, KpackEffect DEF BuildsGo, Calm
<1>8. CASE PackageStep \/ (\E b \in Builds : CreateBuild(b)) \/ CleanBuild
  BY <1>2, <1>8, PackageEffect, CreateBuildEffect, CleanEffect
<1>9. CASE (\E b \in Builds : SetCurrentDroplet(b)) \/ CleanBuildFails \/ KpackSettles \/ UNCHANGED vars
  BY <1>2, <1>9 DEF SetCurrentDroplet, CleanBuildFails, KpackSettles, vars
<1> QED
  BY <1>3, <1>4, <1>5, <1>6, <1>7, <1>8, <1>9, Steps

\* While the cached Image is not stale, a generation keeps its source.
LEMMA NextGenerations ==
    ASSUME "cache" \notin Races, TypeInv, GenerationInv, [Next]_vars
    PROVE  GenerationInv'
<1>1. /\ \A b \in Builds : wl[b] \in BuildWorkload /\ wl[b].generation \in Nat
      /\ \A k \in kbuilds : k.generation \in Nat
      /\ image.generation \in Nat
  BY DEF TypeInv, TypeOK, BuildWorkload, KpackBuild
<1>2. CASE Calm
  <2>1. ASSUME NEW l \in kbuilds'
        PROVE  /\ l.generation > 0 /\ l.generation <= image'.generation
               /\ l.generation = image'.generation => l.src = image'.src
    <3>1. PICK k \in kbuilds : SameBuild(k, l)
      BY <1>2, <2>1 DEF Calm
    <3> QED
      BY <1>2, <3>1 DEF Calm, SameBuild, GenerationInv
  <2>2. ASSUME NEW c \in Builds
        PROVE  /\ wl'[c].generation <= image'.generation
               /\ wl'[c].generation > 0 /\ wl'[c].generation = image'.generation => wl'[c].src = image'.src
    BY <1>1, <1>2 DEF Calm, GenerationInv
  <2>3. ASSUME NEW c \in Builds, NEW l \in kbuilds', l.generation = wl'[c].generation
        PROVE  l.src = wl'[c].src
    <3>1. PICK k \in kbuilds : SameBuild(k, l)
      BY <1>2 DEF Calm
    <3>2. wl'[c].generation # 0
      BY <1>1, <2>1, <2>3
    <3>3. wl'[c].generation = wl[c].generation /\ wl'[c].src = wl[c].src
      BY <1>2, <3>2 DEF Calm
    <3> QED
      BY <2>3, <3>1, <3>3 DEF SameBuild, GenerationInv
  <2> QED
    BY <2>1, <2>2, <2>3 DEF GenerationInv
<1>3. CASE \E b \in Builds : BeginImageBuild(b)
  <2>1. PICK b \in Builds : BeginImageBuild(b)
    BY <1>3
  <2>2. /\ UNCHANGED kbuilds /\ image'.src = wl[b].src /\ image'.generation \in Nat
        /\ image' = image \/ image'.generation = image.generation + 1
    BY <2>1, BeginEffect
  <2>3. PICK W \in BuildWorkload :
          /\ wl' = [wl EXCEPT ![b] = W] /\ W.src = wl[b].src
          /\ W.generation \in {wl[b].generation, image'.generation}
    BY <2>1, BeginEffect
  <2>4. \A c \in Builds : wl'[c] = IF c = b THEN W ELSE wl[c]
    BY <2>3 DEF TypeInv, TypeOK
  <2>5. ASSUME NEW k \in kbuilds
        PROVE  /\ k.generation > 0 /\ k.generation <= image'.generation
               /\ k.generation = image'.generation => k.src = image'.src
    BY <1>1, <2>2 DEF GenerationInv
  <2>6. ASSUME NEW c \in Builds
        PROVE  /\ wl[c].generation <= image'.generation
               /\ wl[c].generation > 0 /\ wl[c].generation = image'.generation => wl[c].src = image'.src
    BY <1>1, <2>2 DEF GenerationInv
  <2>7. W.generation <= image'.generation
    BY <2>2, <2>3, <2>6
  <2>8. ASSUME NEW k \in kbuilds, k.generation = W.generation
        PROVE  k.src = W.src
    <3>1. CASE W.generation = image'.generation
      BY <2>2, <2>3, <2>5, <2>8, <3>1
    <3>2. CASE W.generation = wl[b].generation
      BY <2>3, <2>8, <3>2 DEF GenerationInv
    <3> QED
      BY <2>3, <3>1, <3>2
  <2> QED
    <3>1. \A c \in Builds : /\ wl'[c].generation <= image'.generation
                            /\ wl'[c].generation > 0 /\ wl'[c].generation = image'.generation
                                  => wl'[c].src = image'.src
      BY <2>2, <2>3, <2>4, <2>6, <2>7
    <3>2. \A c \in Builds, k \in kbuilds : k.generation = wl'[c].generation => k.src = wl'[c].src
      BY <2>4, <2>8 DEF GenerationInv
    <3> QED
      BY <2>2, <2>5, <3>1, <3>2 DEF GenerationInv
<1>4. CASE BuildsMade
  <2>1. UNCHANGED <<wl, image>>
    BY <1>4, BuildsEffect DEF BuildsMade
  <2>2. PICK k \in KpackBuild :
          /\ kbuilds' = kbuilds \cup {k}
          /\ k.generation = image.generation /\ k.generation > 0 /\ k.src = image.src
    BY <1>4, BuildsEffect DEF BuildsMade
  <2>3. \A b \in Builds : k.generation = wl[b].generation => k.src = wl[b].src
    BY <2>2 DEF GenerationInv
  <2>4. k.generation <= image.generation
    BY <1>1, <2>2
  <2> QED
    BY <2>1, <2>2, <2>3, <2>4 DEF GenerationInv
<1> QED
  BY <1>2, <1>3, <1>4, CalmSteps

\* A step of the worker takes droplets over from workloads and packages.
LEMMA WorkerDroplets ==
    ASSUME TypeInv, ShapeInv, DropletInv, WorkerRuns
    PROVE  DropletInv'
<1>1. PICK b \in Builds : FinishReconcile(b) \/ Lists(b)
  BY WorkerEffect DEF WorkerRuns
<1>2. CASE Lists(b)
  BY <1>2 DEF Lists, DropletInv
<1>3. CASE FinishReconcile(b)
  <2>1. PICK B \in CFBuild, W \in BuildWorkload :
          /\ build' = [build EXCEPT ![b] = B] /\ wl' = [wl EXCEPT ![b] = W]
          /\ B.phase = build[b].phase /\ B.package = build[b].package
          /\ Finished(b, B, W)
    BY <1>3, FinishEffect
  <2>2. \A c \in Builds : /\ build'[c] = IF c = b THEN B ELSE build[c]
                          /\ wl'[c] = IF c = b THEN W ELSE wl[c]
    BY <2>1 DEF TypeInv, TypeOK
  <2>3. /\ wl[b].succeeded = "True" => wl[b].droplet.src = wl[b].src
        /\ build[b].succeeded = "True" => build[b].droplet.src = build[b].package
    BY DEF DropletInv
  <2>4. W.succeeded = "True" => W.droplet.src = W.src
    BY <2>1, <2>3 DEF Finished
  <2>5. B.succeeded = "True" => B.droplet.src = B.package
    <3>1. CASE B = build[b] /\ W = wl[b]
      BY <2>3, <3>1
    <3>2. CASE B.succeeded # "True"
      BY <3>2
    <3>3. CASE build[b].phase = "live" /\ pkg[B.package].type = "docker" /\ B.droplet.src = pkg[B.package].src
      <4>1. B.package \in Packages
        BY <2>1, <3>3 DEF TypeInv, NumberInv
      <4> QED
        BY <3>3, <4>1 DEF ShapeInv, PackageInv
    <3>4. CASE wl[b].succeeded = "True" /\ B.droplet = wl[b].droplet
      <4>1. wl[b].src \in {0, build[b].package} /\ wl[b].src # 0
        BY <3>4 DEF ShapeInv, WorkloadInv, WorkloadShape
      <4> QED
        BY <2>1, <2>3, <3>4, <4>1
    <3> QED
      BY <2>1, <3>1, <3>2, <3>3, <3>4 DEF Finished
  <2> QED
    BY <2>2, <2>4, <2>5 DEF DropletInv
<1> QED
  BY <1>1, <1>2, <1>3

\* A workload takes the droplet of its generation.
LEMMA WorkloadDroplets ==
    ASSUME TypeInv, GenerationInv, DropletInv,
           \/ WorkloadsChange \/ (\E b \in Builds : BeginImageBuild(b))
           \/ (\E b \in Builds : CollectWorkload(b)) \/ (\E b \in Builds : FinalizeWorkload(b))
    PROVE  DropletInv'
<1>1. CASE WorkloadsChange
  <2>1. UNCHANGED build /\ \A c \in Builds : WorkloadChange(c)
    BY <1>1, WorkloadEffect DEF WorkloadsChange
  <2>2. ASSUME NEW c \in Builds, wl'[c].succeeded = "True"
        PROVE  wl'[c].droplet.src = wl'[c].src
    <3>1. WorkloadChange(c) /\ wl'[c].src = wl[c].src
      BY <2>1 DEF WorkloadChange
    <3>2. CASE wl'[c].succeeded = wl[c].succeeded /\ wl'[c].droplet = wl[c].droplet
      BY <2>2, <3>1, <3>2 DEF DropletInv
    <3>3. CASE \E k \in kbuilds : k.generation = wl[c].generation /\ wl'[c].droplet.src = k.src
      BY <3>1, <3>3 DEF GenerationInv
    <3> QED
      BY <2>2, <3>1, <3>2, <3>3 DEF WorkloadChange
  <2> QED
    BY <2>1, <2>2 DEF DropletInv
<1>2. CASE \/ \E b \in Builds : BeginImageBuild(b)
           \/ \E b \in Builds : CollectWorkload(b)
           \/ \E b \in Builds : FinalizeWorkload(b)
  <2>1. PICK b \in Builds : BeginImageBuild(b) \/ CollectWorkload(b) \/ FinalizeWorkload(b)
    BY <1>2
  <2>2. UNCHANGED build
    BY <2>1, BeginEffect, CollectEffect, FinalizeWorkloadEffect
  <2>3. PICK W \in BuildWorkload :
          /\ wl' = [wl EXCEPT ![b] = W] /\ W.src = wl[b].src /\ W.droplet = wl[b].droplet
          /\ W.succeeded \in {"none", "Unknown", wl[b].succeeded}
    BY <2>1, BeginEffect, CollectEffect, FinalizeWorkloadEffect
  <2>4. \A c \in Builds : wl'[c] = IF c = b THEN W ELSE wl[c]
    BY <2>3 DEF TypeInv, TypeOK
  <2> QED
    BY <2>2, <2>3, <2>4 DEF DropletInv
<1> QED
  BY <1>1, <1>2

\* Every step keeps the droplets.
LEMMA NextDroplets ==
    ASSUME TypeInv, ShapeInv, GenerationInv, DropletInv, [Next]_vars
    PROVE  DropletInv'
<1>1. CASE UNCHANGED <<build, wl>>
  BY <1>1 DEF DropletInv
<1>2. CASE \E b \in Builds : CreateBuild(b)
  <2>1. PICK b \in Builds, B \in CFBuild :
          build' = [build EXCEPT ![b] = B] /\ B.succeeded = "none" /\ UNCHANGED wl
    BY <1>2, CreateBuildEffect
  <2>2. \A c \in Builds : build'[c] = IF c = b THEN B ELSE build[c]
    BY <2>1 DEF TypeInv, TypeOK
  <2> QED
    BY <2>1, <2>2 DEF DropletInv
<1>3. CASE CleanBuild
  <2>1. PICK b \in Builds, B \in CFBuild :
          /\ build' = [build EXCEPT ![b] = B] /\ UNCHANGED wl
          /\ B.package = build[b].package /\ B.droplet = build[b].droplet
          /\ B.succeeded = build[b].succeeded
    BY <1>3, CleanEffect
  <2>2. \A c \in Builds : build'[c] = IF c = b THEN B ELSE build[c]
    BY <2>1 DEF TypeInv, TypeOK
  <2> QED
    BY <2>1, <2>2 DEF DropletInv
<1> QED
  BY <1>1, <1>2, <1>3, WorkerDroplets, WorkloadDroplets, BuildsFrame

\* A droplet is made from the package of its build, for any number of builds
\* that share the Image, in whatever order their workloads begin: a generation
\* of the Image has one source, and a workload takes no other generation's
\* Build.  Only a stale cached Image is excluded: a patch made from one may
\* leave the source of another build in the Image.
THEOREM OwnPackageStaged ==
    ASSUME "cache" \notin Races
    PROVE  Spec => []DropletOfOwnPackage
<1> DEFINE Inv == TypeInv /\ ShapeInv /\ GenerationInv /\ DropletInv
<1>1. Init => Inv
  BY InitInv
<1>2. Inv /\ [Next]_vars => Inv'
  BY NextType, NextShapes, NextGenerations, NextDroplets
<1>3. Inv => DropletOfOwnPackage
  <2> SUFFICES ASSUME Inv, NEW b \in Builds, RecordState(b) = "STAGED"
               PROVE  build[b].droplet.src = build[b].package
    BY DEF DropletOfOwnPackage
  <2>1. build[b].state = "STAGED"
    BY DEF RecordState, TypeInv, TypeOK, CFBuild
  <2>2. build[b].succeeded = "True"
    BY <2>1 DEF ShapeInv, BuildInv, BuildShape
  <2> QED
    BY <2>2 DEF DropletInv
<1> QED
  BY <1>1, <1>2, <1>3, PTL DEF Spec

-----------------------------------------------------------------------------
(* What the cleaner leaves.                                                *)

\* The staged builds that are newer than all the cleaner lists.
Spared == {c \in Builds \ {app.current} : Staged(c) /\ \A v \in BuildVictims : c > v}

\* There are Retained of them, at least.
LEMMA SparedAreEnough ==
    ASSUME TypeInv, BuildVictims # {}
    PROVE  Spared # {} /\ IsFiniteSet(Spared) /\ Cardinality(Spared) >= Retained
<1> DEFINE S == {b \in Builds \ {app.current} : build[b].phase = "live" /\ build[b].succeeded = "True"}
           M == Max(BuildVictims)
           N == {y \in S : y > M}
<1>1. M \in BuildVictims /\ \A v \in BuildVictims : M >= v
  BY VictimsAreBuilds, MaxBuild
<1>2. BuildVictims = {x \in S : Cardinality({y \in S : y > x}) >= Retained}
  BY DEF BuildVictims, Beyond
<1>3. Cardinality(N) >= Retained
  BY <1>1, <1>2
<1>4. \A v \in BuildVictims : v \in Nat
  BY VictimsAreBuilds DEF Builds
<1>5. \A y \in Builds : y \in Nat
  BY DEF Builds
<1> HIDE DEF M
<1>6. N = Spared
  BY <1>1, <1>4, <1>5 DEF Spared, Staged
<1>7. IsFiniteSet(Builds)
  BY FS_Interval, StagingBounds DEF Builds
<1>8. IsFiniteSet(Spared)
  BY <1>7, FS_Subset DEF Spared
<1>9. Spared # {}
  <2>1. Cardinality({}) = 0
    BY FS_EmptySet
  <2> QED
    BY <1>3, <1>6, <2>1, StagingBounds
<1> QED
  BY <1>3, <1>6, <1>8, <1>9

\* Only the cleaner takes a staged build away.
LEMMA StagedStays ==
    ASSUME TypeInv, [Next]_vars, NEW c \in Builds,
           CleanBuild => worker.pc = "clean" /\ build'[c] = build[c]
    PROVE  /\ Staged(c) => Staged(c)'
           /\ build'[c].phase = "gone" => build[c].phase = "gone"
<1>1. CASE build'[c] = build[c]
  BY <1>1 DEF Staged
<1>2. CASE \E b \in Builds : CreateBuild(b)
  <2>1. PICK b \in Builds, B \in CFBuild :
          build' = [build EXCEPT ![b] = B] /\ B.phase = "live" /\ build[b].phase = "none"
    BY <1>2, CreateBuildEffect
  <2>2. build'[c] = IF c = b THEN B ELSE build[c]
    BY <2>1 DEF TypeInv, TypeOK
  <2> QED
    BY <2>1, <2>2 DEF Staged
<1>3. CASE WorkerRuns
  <2>1. PICK b \in Builds : FinishReconcile(b) \/ Lists(b)
    BY <1>3, WorkerEffect DEF WorkerRuns
  <2>2. CASE Lists(b)
    BY <1>1, <2>2 DEF Lists
  <2>3. CASE FinishReconcile(b)
    <3>1. PICK B \in CFBuild, W \in BuildWorkload :
            build' = [build EXCEPT ![b] = B] /\ B.phase = build[b].phase /\ Finished(b, B, W)
      BY <2>3, FinishEffect
    <3>2. build'[c] = IF c = b THEN B ELSE build[c]
      BY <3>1 DEF TypeInv, TypeOK
    <3>3. Staged(b) => B = build[b]
      BY <3>1 DEF Finished, Staged
    <3> QED
      BY <3>1, <3>2, <3>3 DEF Staged
  <2> QED
    BY <2>1, <2>2, <2>3
<1> QED
  BY <1>1, <1>2, <1>3, BuildsFrame

\* The cleaner starts when the worker lists what is to go.
LEMMA CleanStarts ==
    ASSUME TypeInv, [Next]_vars, worker'.pc = "clean"
    PROVE  \/ UNCHANGED worker
           \/ CleanBuild
           \/ UNCHANGED <<app, build>> /\ BuildVictims # {} /\ worker'.victims = BuildVictims
<1>1. CASE WorkerRuns
  <2>1. PICK b \in Builds : FinishReconcile(b) \/ Lists(b)
    BY <1>1, WorkerEffect DEF WorkerRuns
  <2>2. UNCHANGED app
    BY <1>1, WorkerEffect DEF WorkerRuns
  <2>3. CASE Lists(b)
    BY <2>2, <2>3 DEF Lists
  <2>4. CASE FinishReconcile(b)
    BY <2>4 DEF FinishReconcile, Idle
  <2> QED
    BY <2>1, <2>3, <2>4
<1>2. CASE CleanBuildFails
  <2>1. worker'.pc = "rest"
    BY <1>2 DEF CleanBuildFails, TypeInv, TypeOK
  <2> QED
    BY <2>1
<1>3. CASE PackageStep \/ (\E b \in Builds : CreateBuild(b))
  BY <1>3, PackageEffect, CreateBuildEffect
<1>4. CASE WorkloadsChange \/ \E b \in Builds : BeginImageBuild(b) \/ CollectWorkload(b) \/ FinalizeWorkload(b)
  BY <1>4, WorkloadEffect, BeginEffect, CollectEffect, FinalizeWorkloadEffect DEF WorkloadsChange
<1>5. CASE BuildsGo \/ BuildsMade
  BY <1>5, KpackEffect, BuildsEffect DEF BuildsGo, BuildsMade
<1>6. CASE (\E b \in Builds : SetCurrentDroplet(b)) \/ KpackSettles \/ UNCHANGED vars
  BY <1>6 DEF SetCurrentDroplet, KpackSettles, vars
<1> QED
  BY <1>1, <1>2, <1>3, <1>4, <1>5, <1>6, Steps

\* Every removed build leaves a newer one behind.
LEMMA NextNewer ==
    ASSUME TypeInv, NewerInv, [Next]_vars
    PROVE  NewerInv'
<1>1. \A b \in Builds : b \in Nat
  BY DEF Builds
<1>2. CASE CleanBuild
  <2>1. worker.pc = "clean"
    BY <1>2, CleanEffect
  <2>2. PICK v \in worker.victims, B \in CFBuild :
          /\ v \in Builds /\ build' = [build EXCEPT ![v] = B] /\ worker'.victims = worker.victims \ {v}
          /\ B.phase = "gone"
    BY <1>2, CleanEffect
  <2>3. PICK e \in Builds : Staged(e) /\ \A w \in worker.victims : e > w
    BY <2>1 DEF NewerInv
  <2>4. e > v /\ e # v
    BY <1>1, <2>2, <2>3
  <2>5. \A c \in Builds : c # v => build'[c] = build[c]
    BY <2>2 DEF TypeInv, TypeOK
  <2>6. Staged(e)'
    BY <2>3, <2>4, <2>5 DEF Staged
  <2>7. ASSUME NEW c \in Builds, build'[c].phase = "gone"
        PROVE  \E d \in Builds : d > c /\ Staged(d)'
    <3>1. CASE c = v
      BY <2>4, <2>6, <3>1
    <3>2. CASE c # v
      <4>1. PICK d \in Builds : d > c /\ Staged(d)
        BY <2>5, <2>7, <3>2 DEF NewerInv
      <4>2. CASE d = v
        <5>1. e > c
          BY <1>1, <2>4, <4>1, <4>2
        <5> QED
          BY <2>6, <5>1
      <4>3. CASE d # v
        BY <2>5, <4>1, <4>3 DEF Staged
      <4> QED
        BY <4>2, <4>3
    <3> QED
      BY <3>1, <3>2
  <2>8. \A w \in worker'.victims : e > w
    BY <2>2, <2>3
  <2> QED
    BY <2>6, <2>7, <2>8 DEF NewerInv
<1>3. CASE ~CleanBuild
  <2>1. \A c \in Builds : /\ Staged(c) => Staged(c)'
                          /\ build'[c].phase = "gone" => build[c].phase = "gone"
    BY <1>3, StagedStays
  <2>2. ASSUME NEW c \in Builds, build'[c].phase = "gone"
        PROVE  \E d \in Builds : d > c /\ Staged(d)'
    BY <2>1, <2>2 DEF NewerInv
  <2>3. ASSUME worker'.pc = "clean"
        PROVE  \E e \in Builds : Staged(e)' /\ \A v \in worker'.victims : e > v
    <3>1. CASE UNCHANGED worker
      BY <2>1, <2>3, <3>1 DEF NewerInv
    <3>2. CASE BuildVictims # {} /\ worker'.victims = BuildVictims
      <4>1. PICK e \in Spared : TRUE
        BY <3>2, SparedAreEnough
      <4> QED
        BY <2>1, <3>2, <4>1 DEF Spared
    <3> QED
      BY <1>3, <2>3, <3>1, <3>2, CleanStarts
  <2> QED
    BY <2>2, <2>3 DEF NewerInv
<1> QED
  BY <1>2, <1>3

-----------------------------------------------------------------------------
(* The order of workloads.                                                 *)

\* A step of the worker lets no workload begin that could not before.
LEMMA WorkerBegins ==
    ASSUME TypeInv, WorkerRuns, NEW b \in Builds, CanBegin(b)'
    PROVE  CanBegin(b)
<1>1. UNCHANGED pkg
  BY WorkerEffect DEF WorkerRuns
<1>2. PICK c \in Builds : FinishReconcile(c) \/ Lists(c)
  BY WorkerEffect DEF WorkerRuns
<1>3. CASE Lists(c)
  BY <1>1, <1>3 DEF Lists, CanBegin
<1>4. CASE FinishReconcile(c)
  <2>1. PICK B \in CFBuild, W \in BuildWorkload :
          /\ build' = [build EXCEPT ![c] = B] /\ wl' = [wl EXCEPT ![c] = W]
          /\ B.phase = build[c].phase /\ B.package = build[c].package
          /\ B.validBuildpacks = build[c].validBuildpacks
          /\ Finished(c, B, W)
    BY <1>4, FinishEffect
  <2>2. /\ build'[b] = IF b = c THEN B ELSE build[b]
        /\ wl'[b] = IF b = c THEN W ELSE wl[b]
    BY <2>1 DEF TypeInv, TypeOK
  <2>3. CASE b # c
    BY <1>1, <2>2, <2>3 DEF CanBegin
  <2>4. CASE b = c
    <3>1. B.phase = "live" /\ B.succeeded = "none" /\ B.validBuildpacks
      BY <2>2, <2>4 DEF CanBegin
    <3>2. CASE W = wl[c] /\ B = build[c]
      BY <1>1, <2>2, <2>4, <3>2 DEF CanBegin
    <3>3. CASE /\ build[c].succeeded = "none" /\ pkg[B.package].phase # "gone"
               /\ W = wl[c] /\ wl[c].phase # "none"
      <4>1. wl[c].phase = "live" /\ wl[c].succeeded = "none" /\ wl[c].src # 0
        BY <2>2, <2>4, <3>3 DEF CanBegin
      <4> QED
        BY <2>1, <2>4, <3>1, <3>3, <4>1 DEF CanBegin
    <3>4. CASE build[c].succeeded = "none" /\ pkg[B.package].phase # "gone" /\ wl[c].phase = "none"
      BY <2>1, <2>4, <3>1, <3>4 DEF CanBegin
    <3> QED
      BY <2>1, <3>1, <3>2, <3>3, <3>4 DEF Finished
  <2> QED
    BY <2>3, <2>4
<1> QED
  BY <1>2, <1>3, <1>4

\* Nor does any other: what can begin was created just now, or could begin.
LEMMA NeverAgain ==
    ASSUME TypeInv, [Next]_vars, NEW b \in Builds, build[b].phase # "none", CanBegin(b)'
    PROVE  CanBegin(b)
<1>1. CASE PackageStep
  <2>1. UNCHANGED <<build, wl>> /\ \A p \in Packages : PackageChange(p)
    BY <1>1, PackageEffect
  <2>2. build[b].package \in Packages
    BY DEF TypeInv, NumberInv
  <2>3. pkg[build[b].package].phase = "gone" => pkg'[build[b].package].phase = "gone"
    BY <2>1, <2>2 DEF PackageChange
  <2> QED
    BY <2>1, <2>3 DEF CanBegin
<1>2. CASE \E c \in Builds : CreateBuild(c)
  <2>1. PICK c \in Builds, B \in CFBuild :
          build' = [build EXCEPT ![c] = B] /\ build[c].phase = "none" /\ UNCHANGED <<pkg, wl>>
    BY <1>2, CreateBuildEffect
  <2>2. build'[b] = build[b]
    BY <2>1
  <2> QED
    BY <2>1, <2>2 DEF CanBegin
<1>3. CASE CleanBuild
  <2>1. PICK v \in Builds, B \in CFBuild :
          build' = [build EXCEPT ![v] = B] /\ B.phase = "gone" /\ UNCHANGED <<pkg, wl>>
    BY <1>3, CleanEffect
  <2>2. build'[b] = IF b = v THEN B ELSE build[b]
    BY <2>1 DEF TypeInv, TypeOK
  <2>3. build'[b] = build[b]
    BY <2>1, <2>2 DEF CanBegin
  <2> QED
    BY <2>1, <2>3 DEF CanBegin
<1>4. CASE WorkloadsChange
  <2>1. UNCHANGED <<pkg, build>> /\ WorkloadChange(b)
    BY <1>4, WorkloadEffect DEF WorkloadsChange
  <2> QED
    BY <2>1 DEF CanBegin, WorkloadChange
<1>5. CASE \/ \E c \in Builds : BeginImageBuild(c)
           \/ \E c \in Builds : CollectWorkload(c)
           \/ \E c \in Builds : FinalizeWorkload(c)
  <2>1. PICK c \in Builds : BeginImageBuild(c) \/ CollectWorkload(c) \/ FinalizeWorkload(c)
    BY <1>5
  <2>2. UNCHANGED <<pkg, build>>
    BY <2>1, BeginEffect, CollectEffect, FinalizeWorkloadEffect
  <2>3. PICK W \in BuildWorkload :
          /\ wl' = [wl EXCEPT ![c] = W]
          /\ MayBegin(c) \/ W.phase \in {"deleting", "gone"}
    BY <2>1, BeginEffect, CollectEffect, FinalizeWorkloadEffect
  <2>4. wl'[b] = IF b = c THEN W ELSE wl[b]
    BY <2>3 DEF TypeInv, TypeOK
  <2>5. CASE b # c
    BY <2>2, <2>4, <2>5 DEF CanBegin
  <2>6. CASE b = c
    BY <2>3, <2>4, <2>6 DEF CanBegin, MayBegin
  <2> QED
    BY <2>5, <2>6
<1>6. CASE UNCHANGED <<pkg, build, wl>>
  BY <1>6 DEF CanBegin
<1> QED
  BY <1>1, <1>2, <1>3, <1>4, <1>5, <1>6, WorkerBegins, BuildsFrame

\* Builds are not forgotten, and are created in order.
LEMMA NextCreated ==
    ASSUME TypeInv, [Next]_vars, NEW c \in Builds
    PROVE  /\ build[c].phase # "none" => build'[c].phase # "none"
           /\ build[c].phase = "none" /\ build'[c].phase # "none" =>
                 \A b \in Builds : b < c => build[b].phase # "none"
<1>1. CASE \E b \in Builds : CreateBuild(b)
  <2>1. PICK b \in Builds, B \in CFBuild :
          /\ build' = [build EXCEPT ![b] = B] /\ B.phase = "live"
          /\ \A d \in Builds : d < b => build[d].phase # "none"
    BY <1>1, CreateBuildEffect
  <2>2. build'[c] = IF c = b THEN B ELSE build[c]
    BY <2>1 DEF TypeInv, TypeOK
  <2> QED
    BY <2>1, <2>2
<1>2. CASE CleanBuild
  <2>1. PICK v \in worker.victims, B \in CFBuild :
          v \in Builds /\ build' = [build EXCEPT ![v] = B] /\ B.phase = "gone"
    BY <1>2, CleanEffect
  <2>2. build'[c] = IF c = v THEN B ELSE build[c]
    BY <2>1 DEF TypeInv, TypeOK
  <2>3. build[v].phase = "live"
    BY <1>2, <2>1, CleanEffect DEF TypeInv, WorkerInv, Staged
  <2> QED
    BY <2>1, <2>2, <2>3
<1>3. CASE WorkerRuns
  <2>1. PICK b \in Builds : FinishReconcile(b) \/ Lists(b)
    BY <1>3, WorkerEffect DEF WorkerRuns
  <2>2. CASE Lists(b)
    BY <2>2 DEF Lists
  <2>3. CASE FinishReconcile(b)
    <3>1. PICK B \in CFBuild : build' = [build EXCEPT ![b] = B] /\ B.phase = build[b].phase
      BY <2>3, FinishEffect
    <3>2. build'[c] = IF c = b THEN B ELSE build[c]
      BY <3>1 DEF TypeInv, TypeOK
    <3> QED
      BY <3>1, <3>2
  <2> QED
    BY <2>1, <2>2, <2>3
<1> QED
  BY <1>1, <1>2, <1>3, BuildsFrame

\* A workload that has a generation has a build.
LEMMA GenerationHasBuild ==
    ASSUME TypeInv, ShapeInv, NEW c \in Builds, wl[c].generation > 0
    PROVE  build[c].phase # "none"
<1>1. WorkloadShape(wl[c], build[c], app.lifecycle)
  BY DEF ShapeInv, WorkloadInv
<1>2. wl[c].generation # 0
  <2>1. wl[c].generation \in Nat
    BY DEF TypeInv, TypeOK, BuildWorkload
  <2> QED
    BY <2>1
<1> QED
  BY <1>1, <1>2 DEF WorkloadShape

\* While no workload overtakes an older one that can still begin, their
\* generations follow the order of the builds.
LEMMA NextOrder ==
    ASSUME "order" \notin Races, TypeInv, ShapeInv, OrderInv, [Next]_vars
    PROVE  OrderInv'
<1>1. /\ \A b \in Builds : b \in Nat /\ wl[b].generation \in Nat
      /\ image.generation \in Nat
  <2>1. \A b \in Builds : b \in Nat
    BY DEF Builds
  <2> QED
    BY <2>1 DEF TypeInv, TypeOK, BuildWorkload
<1>2. ASSUME NEW b \in Builds, NEW c \in Builds, b < c, build'[c].phase # "none"
      PROVE  build'[b].phase # "none"
  <2>1. build[b].phase # "none"
    <3>1. CASE build[c].phase = "none"
      BY <1>2, <3>1, NextCreated
    <3>2. CASE build[c].phase # "none"
      BY <1>2, <3>2 DEF OrderInv
    <3> QED
      BY <3>1, <3>2
  <2> QED
    BY <2>1, NextCreated
<1>3. ASSUME NEW b \in Builds, NEW c \in Builds, b < c, wl[c].generation > 0
      PROVE  /\ ~CanBegin(b) /\ ~CanBegin(b)' /\ wl[b].generation <= wl[c].generation
  <2>1. build[c].phase # "none"
    BY <1>3, GenerationHasBuild
  <2>2. build[b].phase # "none"
    BY <1>3, <2>1 DEF OrderInv
  <2>3. ~CanBegin(b) /\ wl[b].generation <= wl[c].generation
    BY <1>3 DEF OrderInv
  <2> QED
    BY <2>2, <2>3, NeverAgain
<1>4. CASE Calm \/ BuildsMade
  <2>1. /\ image' = image
        /\ \A c \in Builds : wl'[c].generation \in {0, wl[c].generation}
    <3>1. CASE BuildsMade
      BY <3>1, BuildsEffect DEF BuildsMade
    <3> QED
      BY <1>4, <3>1 DEF Calm
  <2>2. \A b \in Builds : wl'[b].generation <= image'.generation
    BY <1>1, <2>1 DEF OrderInv
  <2>3. ASSUME NEW b \in Builds, NEW c \in Builds, b < c, wl'[c].generation > 0
        PROVE  ~CanBegin(b)' /\ wl'[b].generation <= wl'[c].generation
    <3>1. wl[c].generation > 0 /\ wl'[c].generation = wl[c].generation
      BY <1>1, <2>1, <2>3
    <3>2. wl'[b].generation \in {0, wl[b].generation}
      BY <2>1
    <3> QED
      BY <1>1, <1>3, <2>3, <3>1, <3>2
  <2> QED
    BY <1>2, <2>2, <2>3 DEF OrderInv
<1>5. CASE \E x \in Builds : BeginImageBuild(x)
  <2>1. PICK x \in Builds : BeginImageBuild(x)
    BY <1>5
  <2>2. /\ MayBegin(x) /\ image'.generation \in Nat /\ image'.generation >= image.generation
    BY <1>1, <2>1, BeginEffect
  <2>3. PICK W \in BuildWorkload :
          wl' = [wl EXCEPT ![x] = W] /\ W.generation \in {wl[x].generation, image'.generation}
    BY <2>1, BeginEffect
  <2>4. \A c \in Builds : wl'[c] = IF c = x THEN W ELSE wl[c]
    BY <2>3 DEF TypeInv, TypeOK
  <2>5. \A c \in Builds : wl[c].generation <= image'.generation
    BY <1>1, <2>2 DEF OrderInv
  <2>6. \A c \in Builds : wl'[c].generation <= image'.generation
    BY <2>2, <2>3, <2>4, <2>5
  <2>7. CanBegin(x) /\ build[x].phase = "live"
    BY <2>2 DEF MayBegin, CanBegin
  <2>8. ASSUME NEW b \in Builds, NEW c \in Builds, b < c, wl'[c].generation > 0
        PROVE  ~CanBegin(b)' /\ wl'[b].generation <= wl'[c].generation
    <3>1. CASE c = x
      <4>1. b # x /\ wl'[b] = wl[b] /\ wl'[c] = W
        BY <1>1, <2>4, <2>8, <3>1
      <4>2. ~CanBegin(b)
        BY <2>2, <2>8, <3>1 DEF MayBegin
      <4>3. build[b].phase # "none"
        BY <2>7, <2>8, <3>1 DEF OrderInv
      <4>4. ~CanBegin(b)'
        BY <4>2, <4>3, NeverAgain
      <4>5. CASE W.generation = image'.generation
        BY <2>5, <4>1, <4>4, <4>5
      <4>6. CASE W.generation = wl[x].generation
        BY <1>3, <2>8, <3>1, <4>1, <4>6
      <4> QED
        BY <2>3, <4>5, <4>6
    <3>2. CASE c # x
      <4>1. wl'[c] = wl[c]
        BY <2>4, <3>2
      <4>2. ~CanBegin(b) /\ ~CanBegin(b)' /\ wl[b].generation <= wl[c].generation
        BY <1>3, <2>8, <4>1
      <4>3. b # x
        BY <2>7, <4>2
      <4> QED
        BY <2>4, <4>1, <4>2, <4>3
    <3> QED
      BY <3>1, <3>2
  <2> QED
    BY <1>2, <2>6, <2>8 DEF OrderInv
<1> QED
  BY <1>4, <1>5, CalmSteps

-----------------------------------------------------------------------------
(* The images of droplets.                                                 *)

\* The workload of a staged build is there, and has succeeded.
LEMMA StagedWorkload ==
    ASSUME TypeInv, ShapeInv, NEW b \in Builds, Staged(b), app.lifecycle = "buildpack"
    PROVE  wl[b].phase = "live" /\ wl[b].succeeded = "True" /\ wl[b].droplet = build[b].droplet
<1>1. WorkloadShape(wl[b], build[b], app.lifecycle) /\ wl[b] \in BuildWorkload
  BY DEF ShapeInv, WorkloadInv, TypeInv, TypeOK
<1>2. wl[b].phase \in {"none", "live", "deleting", "gone"}
  BY <1>1 DEF BuildWorkload
<1> QED
  BY <1>1, <1>2 DEF WorkloadShape, Staged

\* When the last workload of a generation goes, newer ones have left that
\* generation behind.
LEMMA LastIsOld ==
    ASSUME TypeInv, ShapeInv, OrderInv, NewerInv, ImageInv,
           NEW x \in Builds, wl[x].phase = "deleting", IsLastBuildWorkload(x)
    PROVE  /\ wl[x].generation < image.generation
           /\ \A b \in Builds : wl[b].phase = "live" => wl[b].generation # wl[x].generation
<1>1. \A b \in Builds : b \in Nat
  BY DEF Builds
<1>2. /\ \A b \in Builds : wl[b].generation \in Nat
      /\ image.generation \in Nat
  BY DEF TypeInv, TypeOK, BuildWorkload
<1>3. ASSUME NEW b \in Builds, wl[b].phase = "live"
      PROVE  wl[b].generation # wl[x].generation
  <2>1. b \in Listed /\ b # x
    BY <1>3 DEF Listed
  <2> QED
    BY <2>1 DEF IsLastBuildWorkload
<1>4. WorkloadShape(wl[x], build[x], app.lifecycle)
  BY DEF ShapeInv, WorkloadInv
<1>5. build[x].phase = "gone" /\ app.lifecycle = "buildpack"
  BY <1>4 DEF WorkloadShape
<1>6. PICK d \in Builds : d > x /\ Staged(d)
  BY <1>5 DEF NewerInv
<1>7. wl[d].phase = "live" /\ wl[d].succeeded = "True"
  BY <1>5, <1>6, StagedWorkload
<1>8. wl[d].generation > 0
  BY <1>7 DEF ImageInv
<1>9. wl[x].generation <= wl[d].generation /\ wl[d].generation <= image.generation
  BY <1>1, <1>6, <1>8 DEF OrderInv
<1>10. wl[d].generation # wl[x].generation
  BY <1>3, <1>7
<1> QED
  BY <1>2, <1>3, <1>9, <1>10

\* Steps of the worker and of workloads keep the Builds that were taken.
LEMMA WorkloadImages ==
    ASSUME TypeInv, ImageInv, UNCHANGED kbuilds, image'.generation >= image.generation,
           image'.generation \in Nat,
           \A c \in Builds :
              /\ \/ wl'[c].phase # "live"
                 \/ wl'[c].phase = wl[c].phase /\ wl'[c].generation = wl[c].generation
                 \/ wl'[c].generation \in {0, image'.generation}
              /\ \/ wl'[c].phase # "live" \/ wl'[c].succeeded # "True"
                 \/ /\ wl[c].phase = "live" /\ wl[c].succeeded = "True"
                    /\ wl'[c].generation = wl[c].generation /\ wl'[c].droplet = wl[c].droplet
                 \/ /\ wl[c].phase = "live" /\ wl'[c].generation = wl[c].generation
                    /\ \E k \in kbuilds : k.generation = wl[c].generation /\ wl'[c].droplet.num = k.num
    PROVE  ImageInv'
<1>1. \A k \in kbuilds : k.generation \in Nat /\ k.generation > 0
  BY DEF ImageInv, TypeInv, TypeOK, KpackBuild
<1>2. image.generation \in Nat
  BY DEF TypeInv, TypeOK
<1>3. ASSUME NEW c \in Builds, wl'[c].phase = "live", wl'[c].succeeded = "True"
      PROVE  \E k \in kbuilds : /\ k.num = wl'[c].droplet.num /\ k.generation = wl'[c].generation
                                /\ ~k.deleting
  <2>1. CASE /\ wl[c].phase = "live" /\ wl[c].succeeded = "True"
             /\ wl'[c].generation = wl[c].generation /\ wl'[c].droplet = wl[c].droplet
    BY <2>1 DEF ImageInv
  <2>2. CASE /\ wl[c].phase = "live" /\ wl'[c].generation = wl[c].generation
             /\ \E k \in kbuilds : k.generation = wl[c].generation /\ wl'[c].droplet.num = k.num
    BY <2>2 DEF ImageInv
  <2> QED
    BY <1>3, <2>1, <2>2
<1>4. ASSUME NEW k \in kbuilds, k.deleting
      PROVE  /\ k.generation < image'.generation
             /\ \A c \in Builds : wl'[c].phase = "live" => wl'[c].generation # k.generation
  <2>1. k.generation < image.generation
    BY <1>4 DEF ImageInv
  <2>2. k.generation < image'.generation
    BY <1>1, <1>2, <2>1
  <2>3. ASSUME NEW c \in Builds, wl'[c].phase = "live"
        PROVE  wl'[c].generation # k.generation
    <3>1. CASE wl'[c].phase = wl[c].phase /\ wl'[c].generation = wl[c].generation
      BY <1>4, <2>3, <3>1 DEF ImageInv
    <3>2. CASE wl'[c].generation \in {0, image'.generation}
      BY <1>1, <2>2, <3>2
    <3> QED
      BY <2>3, <3>1, <3>2
  <2> QED
    BY <2>2, <2>3
<1> QED
  BY <1>1, <1>3, <1>4 DEF ImageInv

\* Every step keeps them, while no workload overtakes an older one.
LEMMA NextImages ==
    ASSUME TypeInv, ShapeInv, OrderInv, NewerInv, ImageInv, [Next]_vars
    PROVE  ImageInv'
<1>1. image.generation \in Nat /\ \A k \in kbuilds : k.generation \in Nat
  BY DEF TypeInv, TypeOK, KpackBuild
<1>2. CASE UNCHANGED <<wl, image, kbuilds>>
  BY <1>2 DEF ImageInv
<1>3. CASE WorkerRuns
  <2>1. UNCHANGED <<image, kbuilds>>
    BY <1>3, WorkerEffect DEF WorkerRuns
  <2>2. PICK b \in Builds : FinishReconcile(b) \/ Lists(b)
    BY <1>3, WorkerEffect DEF WorkerRuns
  <2>3. CASE Lists(b)
    BY <1>2, <2>1, <2>3 DEF Lists
  <2>4. CASE FinishReconcile(b)
    <3>1. PICK B \in CFBuild, W \in BuildWorkload : wl' = [wl EXCEPT ![b] = W] /\ Finished(b, B, W)
      BY <2>4, FinishEffect
    <3>2. W = wl[b] \/ (W.generation = 0 /\ W.succeeded = "none")
      BY <3>1 DEF Finished
    <3>3. \A c \in Builds : wl'[c] = wl[c] \/ (wl'[c].generation = 0 /\ wl'[c].succeeded = "none")
      BY <3>1, <3>2 DEF TypeInv, TypeOK
    <3> QED
      BY <1>1, <2>1, <3>3, WorkloadImages
  <2> QED
    BY <2>2, <2>3, <2>4
<1>4. CASE WorkloadsChange
  <2>1. UNCHANGED <<image, kbuilds>> /\ \A c \in Builds : WorkloadChange(c)
    BY <1>4, WorkloadEffect DEF WorkloadsChange
  <2> QED
    BY <1>1, <2>1, WorkloadImages DEF WorkloadChange
<1>5. CASE \E b \in Builds : BeginImageBuild(b)
  <2>1. PICK b \in Builds : BeginImageBuild(b)
    BY <1>5
  <2>2. /\ UNCHANGED kbuilds /\ image'.generation \in Nat /\ image'.generation >= image.generation
        /\ wl[b].phase = "live"
    BY <1>1, <2>1, BeginEffect
  <2>3. PICK W \in BuildWorkload :
          /\ wl' = [wl EXCEPT ![b] = W] /\ W.phase = "live" /\ W.succeeded # "True"
          /\ W.generation \in {wl[b].generation, image'.generation}
    BY <2>1, BeginEffect
  <2>4. \A c \in Builds : wl'[c] = IF c = b THEN W ELSE wl[c]
    BY <2>3 DEF TypeInv, TypeOK
  <2> QED
    BY <2>2, <2>3, <2>4, WorkloadImages
<1>6. CASE \E b \in Builds : CollectWorkload(b)
  <2>1. PICK b \in Builds, W \in BuildWorkload :
          UNCHANGED <<image, kbuilds>> /\ wl' = [wl EXCEPT ![b] = W] /\ W.phase = "deleting"
    BY <1>6, CollectEffect
  <2>2. \A c \in Builds : wl'[c] = wl[c] \/ wl'[c].phase # "live"
    BY <2>1 DEF TypeInv, TypeOK
  <2> QED
    BY <1>1, <2>1, <2>2, WorkloadImages
<1>7. CASE \E b \in Builds : FinalizeWorkload(b)
  <2>1. PICK x \in Builds : FinalizeWorkload(x)
    BY <1>7
  <2>2. /\ UNCHANGED image /\ wl[x].phase = "deleting"
        /\ \A l \in kbuilds' :
              \E k \in kbuilds :
                 /\ SameBuild(k, l)
                 /\ l.deleting => k.deleting \/ (IsLastBuildWorkload(x) /\ k.generation = wl[x].generation)
        /\ \A k \in kbuilds :
              k \in kbuilds' \/ (IsLastBuildWorkload(x) /\ k.generation = wl[x].generation)
    BY <2>1, FinalizeWorkloadEffect
  <2>3. PICK W \in BuildWorkload : wl' = [wl EXCEPT ![x] = W] /\ W.phase \in {"deleting", "gone"}
    BY <2>1, FinalizeWorkloadEffect
  <2>4. \A c \in Builds : wl'[c].phase = "live" => wl'[c] = wl[c]
    BY <2>3 DEF TypeInv, TypeOK
  <2>5. IsLastBuildWorkload(x) =>
          /\ wl[x].generation < image.generation
          /\ \A b \in Builds : wl[b].phase = "live" => wl[b].generation # wl[x].generation
    BY <2>2, LastIsOld
  <2>6. ASSUME NEW l \in kbuilds'
        PROVE  /\ l.generation > 0
               /\ l.deleting =>
                    /\ l.generation < image'.generation
                    /\ \A b \in Builds : wl'[b].phase = "live" => wl'[b].generation # l.generation
    <3>1. PICK k \in kbuilds :
            /\ SameBuild(k, l)
            /\ l.deleting => k.deleting \/ (IsLastBuildWorkload(x) /\ k.generation = wl[x].generation)
      BY <2>2
    <3>2. l.generation = k.generation /\ l.generation > 0
      BY <3>1 DEF SameBuild, ImageInv
    <3>3. CASE k.deleting
      BY <2>2, <2>4, <3>2, <3>3 DEF ImageInv
    <3>4. CASE IsLastBuildWorkload(x) /\ k.generation = wl[x].generation
      BY <2>2, <2>4, <2>5, <3>2, <3>4
    <3> QED
      BY <3>1, <3>2, <3>3, <3>4
  <2>7. ASSUME NEW b \in Builds, wl'[b].phase = "live", wl'[b].succeeded = "True"
        PROVE  \E k \in kbuilds' : /\ k.num = wl'[b].droplet.num /\ k.generation = wl'[b].generation
                                   /\ ~k.deleting
    <3>1. wl'[b] = wl[b]
      BY <2>4, <2>7
    <3>2. PICK k \in kbuilds : /\ k.num = wl[b].droplet.num /\ k.generation = wl[b].generation
                               /\ ~k.deleting
      BY <2>7, <3>1 DEF ImageInv
    <3>3. k \in kbuilds'
      BY <2>2, <2>5, <2>7, <3>1, <3>2
    <3> QED
      BY <3>1, <3>2, <3>3
  <2> QED
    BY <2>6, <2>7 DEF ImageInv
<1>8. CASE BuildsGo
  <2>1. /\ UNCHANGED <<wl, image>>
        /\ \A l \in kbuilds' : \E k \in kbuilds : SameBuild(k, l) /\ l.deleting = k.deleting
        /\ \A k \in kbuilds : k.deleting \/ \E l \in kbuilds' : SameBuild(k, l) /\ l.deleting = k.deleting
    BY <1>8, KpackEffect DEF BuildsGo
  <2>2. ASSUME NEW l \in kbuilds'
        PROVE  /\ l.generation > 0
               /\ l.deleting =>
                    /\ l.generation < image.generation
                    /\ \A b \in Builds : wl[b].phase = "live" => wl[b].generation # l.generation
    <3>1. PICK k \in kbuilds : SameBuild(k, l) /\ l.deleting = k.deleting
      BY <2>1
    <3> QED
      BY <3>1 DEF SameBuild, ImageInv
  <2>3. ASSUME NEW b \in Builds, wl[b].phase = "live", wl[b].succeeded = "True"
        PROVE  \E k \in kbuilds' : /\ k.num = wl[b].droplet.num /\ k.generation = wl[b].generation
                                   /\ ~k.deleting
    <3>1. PICK k \in kbuilds : /\ k.num = wl[b].droplet.num /\ k.generation = wl[b].generation
                               /\ ~k.deleting
      BY <2>3 DEF ImageInv
    <3>2. PICK l \in kbuilds' : SameBuild(k, l) /\ l.deleting = k.deleting
      BY <2>1, <3>1
    <3> QED
      BY <3>1, <3>2 DEF SameBuild
  <2> QED
    BY <2>1, <2>2, <2>3 DEF ImageInv
<1>9. CASE BuildsMade
  <2>1. UNCHANGED <<wl, image>>
    BY <1>9, BuildsEffect DEF BuildsMade
  <2>2. PICK k \in KpackBuild : kbuilds' = kbuilds \cup {k} /\ k.generation > 0 /\ ~k.deleting
    BY <1>9, BuildsEffect DEF BuildsMade
  <2> QED
    BY <2>1, <2>2 DEF ImageInv
<1>10. CASE PackageStep \/ (\E b \in Builds : CreateBuild(b)) \/ CleanBuild
  BY <1>2, <1>10, PackageEffect, CreateBuildEffect, CleanEffect
<1>11. CASE (\E b \in Builds : SetCurrentDroplet(b)) \/ CleanBuildFails \/ KpackSettles \/ UNCHANGED vars
  BY <1>2, <1>11 DEF SetCurrentDroplet, CleanBuildFails, KpackSettles, vars
<1> QED
  BY <1>3, <1>4, <1>5, <1>6, <1>7, <1>8, <1>9, <1>10, <1>11, Steps

\* The image of a staged build stays in the registry as long as the build,
\* although the workloads of a generation share their Builds and the last of
\* them takes the Builds along.  Only workloads that overtake older ones are
\* excluded: an older build can then have the younger generation.
THEOREM ImagesStay ==
    ASSUME "order" \notin Races
    PROVE  Spec => []StagedHasImage
<1> DEFINE Inv == TypeInv /\ ShapeInv /\ OrderInv /\ NewerInv /\ ImageInv
<1>1. Init => Inv
  BY InitInv
<1>2. Inv /\ [Next]_vars => Inv'
  BY NextType, NextShapes, NextOrder, NextNewer, NextImages
<1>3. Inv => StagedHasImage
  <2> SUFFICES ASSUME Inv, NEW b \in Builds, RecordState(b) = "STAGED", app.lifecycle = "buildpack"
               PROVE  \E k \in kbuilds : k.num = build[b].droplet.num /\ ~k.deleting
    BY DEF StagedHasImage
  <2>1. build[b].phase = "live" /\ build[b].state = "STAGED"
    BY DEF RecordState, TypeInv, TypeOK, CFBuild
  <2>2. Staged(b)
    BY <2>1 DEF ShapeInv, BuildInv, BuildShape, Staged
  <2>3. wl[b].phase = "live" /\ wl[b].succeeded = "True" /\ wl[b].droplet = build[b].droplet
    BY <2>2, StagedWorkload
  <2> QED
    BY <2>3 DEF ImageInv
<1> QED
  BY <1>1, <1>2, <1>3, PTL DEF Spec

-----------------------------------------------------------------------------
(* The promise.                                                            *)

\* A set of builds is finite, and a larger one has not fewer members.
LEMMA MoreBuilds ==
    ASSUME NEW S \in SUBSET Builds, NEW T \in SUBSET S, Cardinality(T) >= Retained
    PROVE  Cardinality(S) >= Retained
<1>1. IsFiniteSet(Builds)
  BY FS_Interval, StagingBounds DEF Builds
<1>2. IsFiniteSet(S)
  BY <1>1, FS_Subset
<1>3. IsFiniteSet(T) /\ Cardinality(T) <= Cardinality(S)
  BY <1>2, FS_Subset
<1>4. Cardinality(S) \in Nat /\ Cardinality(T) \in Nat
  BY <1>2, <1>3, FS_CardinalityType
<1> QED
  BY <1>3, <1>4, StagingBounds

\* What is listed may go, whatever happens before it goes, unless a droplet
\* is set meanwhile.
LEMMA NextVictims ==
    ASSUME "droplet" \notin Races, TypeInv, VictimInv, [Next]_vars
    PROVE  VictimInv'
<1> SUFFICES ASSUME worker'.pc = "clean", NEW v \in worker'.victims
             PROVE  v # app'.current /\ Cardinality(Kept(v)') >= Retained
  BY DEF VictimInv
<1>1. TypeInv'
  BY NextType
<1>2. v \in Builds
  BY <1>1 DEF TypeInv, TypeOK
<1>3. Kept(v)' \subseteq Builds
  BY DEF Kept
<1>4. CASE worker.pc = "clean" /\ v \in worker.victims /\ worker'.victims \subseteq worker.victims
  <2>1. UNCHANGED app
    <3>1. CASE \E b \in Builds : SetCurrentDroplet(b)
      BY <1>4, <3>1 DEF SetCurrentDroplet
    <3> QED
      BY <3>1, BuildsFrame
  <2>2. v # app.current /\ Cardinality(Kept(v)) >= Retained
    BY <1>4 DEF VictimInv
  <2>3. ASSUME NEW c \in Kept(v)
        PROVE  c \in Kept(v)'
    <3>1. c \in Builds /\ c # app.current /\ c \notin worker.victims /\ Staged(c) /\ c > v
      BY <2>3 DEF Kept
    <3>2. CleanBuild => build'[c] = build[c]
      <4>1. SUFFICES ASSUME CleanBuild
                     PROVE  build'[c] = build[c]
        OBVIOUS
      <4>2. PICK w \in worker.victims, B \in CFBuild : build' = [build EXCEPT ![w] = B]
        BY <4>1, CleanEffect
      <4> QED
        BY <3>1, <4>2 DEF TypeInv, TypeOK
    <3>3. Staged(c)'
      BY <1>4, <3>1, <3>2, StagedStays
    <3> QED
      BY <1>4, <2>1, <3>1, <3>3 DEF Kept
  <2>4. Kept(v) \subseteq Kept(v)'
    BY <2>3
  <2> HIDE DEF Kept
  <2> QED
    BY <1>3, <2>1, <2>2, <2>4, MoreBuilds
<1>5. CASE UNCHANGED <<app, build>> /\ BuildVictims # {} /\ worker'.victims = BuildVictims
  <2>1. v # app.current
    BY <1>5, VictimsAreBuilds
  <2>2. Cardinality(Spared) >= Retained
    BY <1>5, SparedAreEnough
  <2>3. ASSUME NEW c \in Spared
        PROVE  c \in Kept(v)'
    <3>1. c \in Builds /\ c # app.current /\ Staged(c) /\ \A w \in BuildVictims : c > w
      BY <2>3 DEF Spared
    <3>2. c \notin BuildVictims /\ c > v
      BY <1>5, <3>1 DEF Builds
    <3> QED
      BY <1>5, <3>1, <3>2 DEF Kept, Staged
  <2>4. Spared \subseteq Kept(v)'
    BY <2>3
  <2> HIDE DEF Kept, Spared
  <2> QED
    BY <1>3, <1>5, <2>1, <2>2, <2>4, MoreBuilds
<1>6. CASE CleanBuild
  <2>1. worker.pc = "clean" /\ \E w \in worker.victims : worker'.victims = worker.victims \ {w}
    BY <1>6, CleanEffect
  <2> QED
    BY <1>4, <2>1
<1> QED
  BY <1>4, <1>5, <1>6, CleanStarts

\* What the API shows of a build depends on the build alone.
Shown(B) == IF B.phase # "live" THEN B.phase ELSE IF B.state = "" THEN "STAGING" ELSE B.state

LEMMA ShownState ==
    ASSUME NEW b \in Builds
    PROVE  RecordState(b) = Shown(build[b]) /\ RecordState(b)' = Shown(build'[b])
<1>1. RecordState(b) = Shown(build[b])
  BY DEF RecordState, Shown
<1>2. RecordState(b)' = Shown(build'[b])
  BY DEF RecordState, Shown
<1> QED
  BY <1>1, <1>2

\* What the API shows of the builds, as the promise sees it.
States == [b \in Builds |-> RecordState(b)]
PackagesOf == [b \in Builds |-> build[b].package]
DropletsOf == [b \in Builds |-> build[b].droplet.src]

\* One build changes.
LEMMA OneChanges ==
    ASSUME TypeInv, NEW b \in Builds, NEW B \in CFBuild, build' = [build EXCEPT ![b] = B]
    PROVE  /\ States' = [States EXCEPT ![b] = Shown(B)]
           /\ PackagesOf' = [PackagesOf EXCEPT ![b] = B.package]
           /\ DropletsOf' = [DropletsOf EXCEPT ![b] = B.droplet.src]
           /\ States[b] = Shown(build[b])
           /\ Shown(B) = Shown(build[b]) => UNCHANGED States
           /\ B.package = build[b].package => UNCHANGED PackagesOf
           /\ B.droplet.src = build[b].droplet.src => UNCHANGED DropletsOf
<1>1. \A c \in Builds : build'[c] = IF c = b THEN B ELSE build[c]
  BY DEF TypeInv, TypeOK
<1>2. \A c \in Builds : RecordState(c) = Shown(build[c]) /\ RecordState(c)' = Shown(build'[c])
  BY ShownState
<1>3. \A c \in Builds : RecordState(c)' = IF c = b THEN Shown(B) ELSE RecordState(c)
  BY <1>1, <1>2
<1>4. States' = [States EXCEPT ![b] = Shown(B)]
  BY <1>3 DEF States
<1>5. PackagesOf' = [PackagesOf EXCEPT ![b] = B.package]
  <2>1. \A c \in Builds : build'[c].package = IF c = b THEN B.package ELSE build[c].package
    BY <1>1
  <2> QED
    BY <2>1 DEF PackagesOf
<1>6. DropletsOf' = [DropletsOf EXCEPT ![b] = B.droplet.src]
  <2>1. \A c \in Builds : build'[c].droplet.src = IF c = b THEN B.droplet.src ELSE build[c].droplet.src
    BY <1>1
  <2> QED
    BY <2>1 DEF DropletsOf
<1>7. Shown(B) = Shown(build[b]) => UNCHANGED States
  BY <1>2, <1>3 DEF States
<1>8. B.package = build[b].package => UNCHANGED PackagesOf
  BY <1>1 DEF PackagesOf
<1>9. B.droplet.src = build[b].droplet.src => UNCHANGED DropletsOf
  BY <1>1 DEF DropletsOf
<1>10. States[b] = Shown(build[b])
  BY <1>2 DEF States
<1> QED
  BY <1>4, <1>5, <1>6, <1>7, <1>8, <1>9, <1>10

\* What a state must satisfy for every step to keep the promise.
PromiseInv == TypeInv /\ ShapeInv /\ GenerationInv /\ DropletInv /\ VictimInv

\* The app as it was pushed is one that BuildPromise starts with.
LEMMA PromiseInit ==
    ASSUME Init
    PROVE  Promise!Init
<1>1. /\ \A b \in Builds : NotAsked(b) \/ PushedOnce(b)
      /\ app.current # 0 => app.current \in Builds /\ PushedOnce(app.current)
  BY InitEffect
<1>2. \A b \in Builds : /\ NotAsked(b) => RecordState(b) = "none"
                        /\ PushedOnce(b) => RecordState(b) = "STAGED"
  BY ShownState DEF Shown, NotAsked, PushedOnce
<1>3. ASSUME NEW b \in Builds
      PROVE  build[b].droplet.src = build[b].package
  <2>1. CASE NotAsked(b)
    BY <2>1 DEF NotAsked
  <2>2. CASE PushedOnce(b)
    BY <2>2 DEF PushedOnce
  <2> QED
    BY <1>1, <2>1, <2>2
<1>4. \A b \in Builds : RecordState(b) = "none" => build[b].package = 0
  BY <1>1, <1>2 DEF NotAsked
<1> QED
  BY <1>1, <1>2, <1>3, <1>4 DEF Promise!Init

\* A step of a user.
LEMMA PromiseUser ==
    ASSUME PromiseInv,
           (\E b \in Builds : CreateBuild(b)) \/ (\E b \in Builds : SetCurrentDroplet(b))
    PROVE  Promise!Next
<1>1. TypeInv
  BY DEF PromiseInv
<1>2. CASE \E b \in Builds : CreateBuild(b)
  <2>1. PICK b \in Builds, B \in CFBuild :
          /\ build' = [build EXCEPT ![b] = B] /\ UNCHANGED app /\ build[b].phase = "none"
          /\ B.phase = "live" /\ B.package \in Packages /\ B.droplet.src = 0 /\ B.state = ""
    BY <1>1, <1>2, CreateBuildEffect
  <2>2. build[b].droplet.src = 0
    BY <2>1 DEF PromiseInv, ShapeInv, BuildInv, BuildShape
  <2>3. Shown(B) = "STAGING" /\ Shown(build[b]) = "none"
    BY <2>1 DEF Shown
  <2>4. /\ States' = [States EXCEPT ![b] = "STAGING"] /\ States[b] = "none"
        /\ PackagesOf' = [PackagesOf EXCEPT ![b] = B.package]
        /\ UNCHANGED DropletsOf
    <3>1. build' = [build EXCEPT ![b] = B] /\ B.droplet.src = build[b].droplet.src
      BY <2>1, <2>2
    <3>2. /\ States' = [States EXCEPT ![b] = Shown(B)] /\ States[b] = Shown(build[b])
          /\ PackagesOf' = [PackagesOf EXCEPT ![b] = B.package]
          /\ B.droplet.src = build[b].droplet.src => UNCHANGED DropletsOf
      BY <1>1, <3>1, OneChanges
    <3> QED
      BY <2>3, <3>1, <3>2
  <2>5. Promise!Create(b)
    BY <2>1, <2>4 DEF Promise!Create, States, PackagesOf, DropletsOf
  <2> QED
    BY <2>5 DEF Promise!Next
<1>3. CASE \E b \in Builds : SetCurrentDroplet(b)
  <2>1. PICK b \in Builds : SetCurrentDroplet(b)
    BY <1>3
  <2>2. /\ RecordState(b) = "STAGED" /\ UNCHANGED build /\ app'.current = b
    BY <1>1, <2>1 DEF SetCurrentDroplet, TypeInv, TypeOK
  <2>3. \A c \in Builds : RecordState(c)' = RecordState(c)
    BY <2>2, ShownState
  <2>4. Promise!SetCurrent(b)
    BY <2>2, <2>3 DEF Promise!SetCurrent
  <2> QED
    BY <2>4 DEF Promise!Next
<1> QED
  BY <1>2, <1>3

\* A step of the worker stages a build, fails it or shows nothing.
LEMMA PromiseWorker ==
    ASSUME PromiseInv, DropletInv', WorkerRuns
    PROVE  Promise!Next \/ UNCHANGED Promise!promised
<1>1. TypeInv
  BY DEF PromiseInv
<1>2. UNCHANGED app
  BY <1>1, WorkerEffect DEF WorkerRuns
<1>3. PICK b \in Builds : FinishReconcile(b) \/ Lists(b)
  BY <1>1, WorkerEffect DEF WorkerRuns
<1>4. ASSUME UNCHANGED <<States, PackagesOf, DropletsOf>>
      PROVE  UNCHANGED Promise!promised
  BY <1>2, <1>4 DEF Promise!promised, States, PackagesOf, DropletsOf
<1>5. CASE Lists(b)
  <2>1. UNCHANGED build
    BY <1>5 DEF Lists
  <2> QED
    BY <1>4, <2>1, ShownState DEF States, PackagesOf, DropletsOf
<1>6. CASE FinishReconcile(b)
  <2>1. PICK B \in CFBuild, W \in BuildWorkload :
          /\ build' = [build EXCEPT ![b] = B] /\ B.phase = build[b].phase /\ B.package = build[b].package
          /\ Finished(b, B, W)
    BY <1>1, <1>6, FinishEffect
  <2>2. /\ States' = [States EXCEPT ![b] = Shown(B)]
        /\ DropletsOf' = [DropletsOf EXCEPT ![b] = B.droplet.src]
        /\ States[b] = Shown(build[b])
        /\ Shown(B) = Shown(build[b]) => UNCHANGED States
        /\ UNCHANGED PackagesOf
        /\ B.droplet.src = build[b].droplet.src => UNCHANGED DropletsOf
    BY <1>1, <2>1, OneChanges
  <2>3. BuildShape(build[b])
    BY DEF PromiseInv, ShapeInv, BuildInv
  <2>4. CASE B = build[b]
    BY <1>4, <2>2, <2>4
  <2>5. CASE B # build[b]
    <3>1. build[b].phase = "live" /\ build[b].succeeded = "none" /\ B.phase = "live"
      BY <2>1, <2>5 DEF Finished
    <3>2. Shown(build[b]) = "STAGING"
      BY <2>3, <3>1 DEF BuildShape, Shown
    <3>3. CASE B.state \in {build[b].state, "STAGING"} /\ B.droplet = build[b].droplet
      <4>1. Shown(B) = "STAGING"
        BY <3>1, <3>2, <3>3 DEF Shown
      <4> QED
        BY <1>4, <2>2, <3>2, <3>3, <4>1
    <3>4. CASE B.state = "FAILED" /\ B.droplet = build[b].droplet
      <4>1. Shown(B) = "FAILED"
        BY <3>1, <3>4 DEF Shown
      <4>2. Promise!Fail(b)
        BY <1>2, <2>2, <3>2, <3>4, <4>1 DEF Promise!Fail, States, PackagesOf, DropletsOf
      <4> QED
        BY <4>2 DEF Promise!Next
    <3>5. CASE B.state = "STAGED" /\ B.succeeded = "True"
      <4>1. Shown(B) = "STAGED"
        BY <3>1, <3>5 DEF Shown
      <4>2. build'[b] = B
        BY <1>1, <2>1 DEF TypeInv, TypeOK
      <4>3. B.droplet.src = B.package
        BY <3>5, <4>2 DEF DropletInv
      <4>4. DropletsOf' = [DropletsOf EXCEPT ![b] = PackagesOf[b]]
        BY <2>1, <2>2, <4>3 DEF PackagesOf
      <4>5. Promise!Stage(b)
        BY <1>2, <2>2, <3>2, <4>1, <4>4 DEF Promise!Stage, States, PackagesOf, DropletsOf
      <4> QED
        BY <4>5 DEF Promise!Next
    <3> QED
      BY <2>1, <2>5, <3>3, <3>4, <3>5 DEF Finished
  <2> QED
    BY <2>4, <2>5
<1> QED
  BY <1>3, <1>5, <1>6

\* A step of the cleaner removes a build the promise lets go.
LEMMA PromiseCleaner ==
    ASSUME PromiseInv, CleanBuild
    PROVE  Promise!Next
<1>1. TypeInv
  BY DEF PromiseInv
<1>2. worker.pc = "clean" /\ UNCHANGED app
  BY <1>1, CleanEffect
<1>3. PICK v \in worker.victims, B \in CFBuild :
        /\ v \in Builds /\ build' = [build EXCEPT ![v] = B]
        /\ B.phase = "gone" /\ B.package = build[v].package /\ B.droplet = build[v].droplet
  BY <1>1, CleanEffect
<1>4. Staged(v) /\ v # app.current /\ Cardinality(Kept(v)) >= Retained
  BY <1>2, <1>3 DEF PromiseInv, TypeInv, WorkerInv, VictimInv
<1>5. \A c \in Builds : Staged(c) => RecordState(c) = "STAGED"
  <2> TAKE c \in Builds
  <2> HAVE Staged(c)
  <2>1. build[c].phase = "live" /\ build[c].state = "STAGED"
    BY DEF Staged, PromiseInv, ShapeInv, BuildInv, BuildShape
  <2> QED
    BY <2>1, ShownState DEF Shown
<1>6. /\ States' = [States EXCEPT ![v] = "gone"] /\ UNCHANGED <<PackagesOf, DropletsOf>>
  <2>1. Shown(B) = "gone"
    BY <1>3 DEF Shown
  <2>2. /\ States' = [States EXCEPT ![v] = Shown(B)]
        /\ B.package = build[v].package => UNCHANGED PackagesOf
        /\ B.droplet.src = build[v].droplet.src => UNCHANGED DropletsOf
    BY <1>1, <1>3, OneChanges
  <2> QED
    BY <1>3, <2>1, <2>2
<1>7. Cardinality(Promise!Newer(v)) >= Retained
  <2>1. Promise!Newer(v) \subseteq Builds
    BY DEF Promise!Newer
  <2>2. Kept(v) \subseteq Promise!Newer(v)
    BY <1>5 DEF Promise!Newer, Kept
  <2> HIDE DEF Promise!Newer, Kept
  <2> QED
    BY <1>4, <2>1, <2>2, MoreBuilds
<1>8. Promise!Remove(v)
  <2>1. States[v] = "STAGED"
    BY <1>3, <1>4, <1>5 DEF States
  <2>2. /\ [b \in Builds |-> RecordState(b)][v] = "STAGED"
        /\ [b \in Builds |-> RecordState(b)]' = [[b \in Builds |-> RecordState(b)] EXCEPT ![v] = "gone"]
        /\ UNCHANGED [b \in Builds |-> build[b].package]
        /\ UNCHANGED [b \in Builds |-> build[b].droplet.src]
    BY <1>6, <2>1 DEF States, PackagesOf, DropletsOf
  <2>3. v # app.current /\ UNCHANGED app.current
    BY <1>2, <1>4
  <2>4. Promise!Cardinality(Promise!Newer(v)) = Cardinality(Promise!Newer(v))
    BY DEF Promise!Cardinality, Cardinality
  <2> QED
    BY <1>7, <2>2, <2>3, <2>4 DEF Promise!Remove
<1> QED
  BY <1>3, <1>8 DEF Promise!Next

\* Every step keeps the promise.
LEMMA PromiseNext ==
    ASSUME PromiseInv, PromiseInv', [Next]_vars
    PROVE  Promise!Next \/ UNCHANGED Promise!promised
<1>1. CASE UNCHANGED <<app, build>>
  <2>1. \A b \in Builds : RecordState(b)' = RecordState(b)
    BY <1>1, ShownState
  <2> QED
    BY <1>1, <2>1 DEF Promise!promised
<1>2. DropletInv'
  BY DEF PromiseInv
<1> QED
  BY <1>1, <1>2, PromiseUser, PromiseWorker, PromiseCleaner, BuildsFrame

\* Staging implements BuildPromise, for any number of builds and packages:
\* outcomes are final, droplets are made from the right package, and the
\* cleaner spares the current droplet and the newest builds, although it
\* deletes what it has listed one by one while everything else goes on.  Two
\* races are excluded: a stale cached Image, and a droplet set meanwhile.
THEOREM StagingKeepsPromise ==
    ASSUME "cache" \notin Races, "droplet" \notin Races
    PROVE  Spec => KeepsPromise
<1>1. Init => PromiseInv
  BY InitInv DEF PromiseInv
<1>2. PromiseInv /\ [Next]_vars => PromiseInv'
  BY NextType, NextShapes, NextGenerations, NextDroplets, NextVictims DEF PromiseInv
<1>3. Init => Promise!Init
  BY PromiseInit
<1>4. PromiseInv /\ PromiseInv' /\ [Next]_vars => [Promise!Next]_(Promise!promised)
  BY PromiseNext
<1> QED
  BY <1>1, <1>2, <1>3, <1>4, PTL DEF Spec, KeepsPromise, Promise!Spec

-----------------------------------------------------------------------------
(* At rest.                                                                *)

\* Nobody has anything left to do for a build: a reconciliation would change
\* neither the build nor its workload, the cleaner has nothing to remove, and
\* kpack has done what the Image asks for.
BuilderRests ==
    /\ worker = Idle /\ BuildVictims = {}
    /\ \A b \in Builds : \A o \in Outcomes(b) : o[3] = 0 => o[1] = build[b] /\ o[2] = wl[b]
WorkloadRests(b) ==
    /\ wl[b].phase = "live" /\ wl[b].succeeded = "none" => build[b].validBuildpacks
    /\ ~MayBegin(b)
    /\ wl[b].phase = "live" /\ wl[b].succeeded = "Unknown" =>
          /\ BuildCreationHasBeenSkipped(b) => kpack.requested
          /\ \A k \in OfGeneration(wl[b].generation) : k.succeeded = "Unknown"
KpackRests ==
    image.generation > 0 => ~Running /\ ~Needed /\ kpack.ready /\ kpack.observed = image.generation
Rests == BuilderRests /\ KpackRests /\ \A b \in Builds : WorkloadRests(b)

\* Then only builds whose end the code is not able to notice are not ended
\* (ReconcileResource of the build and of the build workload controller).
EndedAtRest == Rests => \A b \in Builds : RecordState(b) = "STAGING" => Abandoned(b)

\* How far a build and its workload have come.
StartShape(W, B, package) ==
    /\ W.generation > 0 => B.validBuildpacks
    /\ W.generation = 0 => W.succeeded \in {"none", "False"}
    /\ W.reason = "BuilderNotReady" => W.succeeded = "False"
    /\ B.phase # "none" => package.phase # "none"
    /\ W.phase # "none" => package.type = "buildpack"
    /\ W.phase = "live" /\ W.succeeded \in {"none", "Unknown"} => B.succeeded = "none"
    /\ B.staging # "none" /\ B.succeeded = "none" => W.phase # "none"
StartInv ==
    /\ image.generation = 0 => image.src = 0 /\ image.before = 0
    /\ kpack.latest <= image.generation
    /\ \A k \in kbuilds : k.generation <= kpack.latest
    /\ \A b \in Builds : StartShape(wl[b], build[b], pkg[build[b].package])

\* The Builds of the generation kpack has built last are there as long as a
\* workload may want them.
Begun(b) == wl[b].phase = "live" /\ wl[b].succeeded = "Unknown"
LatestInv ==
    kpack.latest > 0 /\ (\/ image.generation = kpack.latest
                         \/ \E b \in Builds : Begun(b) /\ wl[b].generation = kpack.latest)
        => OfGeneration(kpack.latest) # {}

\* A workload that will ask for Builds of generation g or a later one, or
\* keeps the others from being noticed.
Notices(c, g) ==
    /\ c \in Listed
    /\ \/ wl[c].generation = 0 \/ wl[c].reason = "BuilderNotReady"
       \/ wl[c].phase = "live" /\ wl[c].succeeded = "none"
       \/ Begun(c) /\ wl[c].generation >= g

\* There is one for a generation kpack has not built yet; and when it builds
\* that, there is one to notice what was left out.
HolderInv == image.generation > kpack.latest => \E c \in Builds : Notices(c, image.generation)
LeftOut(b) == Begun(b) /\ OfGeneration(wl[b].generation) = {} /\ wl[b].generation <= kpack.latest
SkippedInv == \A b \in Builds : LeftOut(b) => \E c \in Builds \ {b} : Notices(c, kpack.latest)

\* Packages keep their type.
LEMMA PackageKept ==
    ASSUME TypeInv, PackageStep, NEW q \in Packages, pkg[q].phase # "none"
    PROVE  pkg'[q].phase # "none" /\ pkg'[q].type = pkg[q].type
<1>1. PICK p \in Packages : CreatePackage(p) \/ Upload(p) \/ ReconcilePackage(p) \/ FinalizePackage(p)
  BY DEF PackageStep
<1>2. pkg \in [Packages -> CFPackage] /\ pkg[q] \in CFPackage
  BY DEF TypeInv, TypeOK
<1>3. CASE CreatePackage(p)
  <2>1. p # q
    BY <1>3 DEF CreatePackage
  <2> QED
    BY <1>2, <1>3, <2>1 DEF CreatePackage
<1>4. CASE Upload(p)
  BY <1>2, <1>4 DEF Upload, CFPackage
<1>5. CASE ReconcilePackage(p)
  <2>1. pkg'[q] = [pkg[q] EXCEPT !.phase = IF q \in PackageVictims THEN "deleting" ELSE pkg[q].phase,
                                 !.ready = IF q = p THEN pkg[p].src # 0 ELSE pkg[q].ready]
    BY <1>5 DEF ReconcilePackage
  <2> QED
    BY <1>2, <2>1 DEF CFPackage
<1>6. CASE FinalizePackage(p)
  BY <1>2, <1>6 DEF FinalizePackage, CFPackage
<1> QED
  BY <1>1, <1>3, <1>4, <1>5, <1>6

\* A reconciliation that ends keeps the start.
LEMMA OutcomeStart ==
    ASSUME TypeInv, ShapeInv, StartInv, NEW b \in Builds, NEW o \in Outcomes(b)
    PROVE  StartShape(o[2], o[1], pkg[build[b].package])
<1> DEFINE B == build[b]
           W == wl[b]
           package == pkg[B.package]
<1>1. B \in CFBuild /\ W \in BuildWorkload
  BY DEF TypeInv, TypeOK
<1>2. StartShape(W, B, package) /\ WorkloadShape(W, B, app.lifecycle)
  BY DEF StartInv, ShapeInv, WorkloadInv
<1>3. CASE B.phase # "live" \/ B.succeeded # "none" \/ package.phase = "gone"
  <2>1. o = <<B, W, 0>>
    BY <1>3 DEF Outcomes
  <2> QED
    BY <1>2, <2>1
<1>4. CASE B.phase = "live" /\ B.succeeded = "none" /\ package.phase # "gone"
  <2>1. o \in CASE package.type # app.lifecycle ->
                    {<<[B EXCEPT !.succeeded = "False", !.staging = "False"], W, 0>>}
              [] package.type = app.lifecycle /\ app.lifecycle = "docker" -> DockerOutcomes(B, W, package)
              [] package.type = app.lifecycle /\ app.lifecycle = "buildpack" ->
                    IF B.staging = "none" THEN StartOutcomes(B, W, package) ELSE FinishOutcomes(B, W)
    BY <1>4 DEF Outcomes
  <2>2. app.lifecycle \in {"buildpack", "docker"}
    BY DEF TypeInv, TypeOK, Lifecycles
  <2>3. CASE package.type # app.lifecycle \/ app.lifecycle = "docker"
    <3>1. W.phase = "none" /\ W.generation = 0 /\ W.succeeded = "none"
      BY <1>2, <2>3 DEF WorkloadShape, StartShape
    <3>2. o[2] = W /\ o[1].phase = B.phase /\ o[1].succeeded # "none" /\ o[1].validBuildpacks = B.validBuildpacks
      <4>1. CASE package.type # app.lifecycle
        <5>1. o = <<[B EXCEPT !.succeeded = "False", !.staging = "False"], W, 0>>
          BY <2>1, <4>1
        <5> QED
          BY <1>1, <5>1 DEF CFBuild
      <4>2. CASE package.type = app.lifecycle /\ app.lifecycle = "docker"
        <5>1. o \in DockerOutcomes(B, W, package)
          BY <2>1, <4>2
        <5>2. o = <<Ended(B, "FAILED"), W, 0>>
              \/ o = <<[Ended(B, "STAGED") EXCEPT !.droplet = [src |-> package.src, num |-> 0]], W, 0>>
          BY <5>1 DEF DockerOutcomes
        <5>3. \A how \in {"STAGED", "FAILED"} :
                /\ Ended(B, how) \in CFBuild /\ Ended(B, how).phase = B.phase
                /\ Ended(B, how).succeeded \in {"True", "False"}
                /\ Ended(B, how).validBuildpacks = B.validBuildpacks
          BY <1>1, EndedType
        <5> QED
          <6> DEFINE E == Ended(B, "STAGED")
                     D == [E EXCEPT !.droplet = [src |-> package.src, num |-> 0]]
          <6>1. E \in CFBuild /\ E.phase = B.phase /\ E.succeeded # "none"
                /\ E.validBuildpacks = B.validBuildpacks
            BY <5>3
          <6>2. D.phase = E.phase /\ D.succeeded = E.succeeded /\ D.validBuildpacks = E.validBuildpacks
            BY <6>1 DEF CFBuild
          <6>3. o = <<Ended(B, "FAILED"), W, 0>> \/ o = <<D, W, 0>>
            BY <5>2
          <6> HIDE DEF D, E
          <6> QED
            BY <5>3, <6>1, <6>2, <6>3
      <4> QED
        BY <2>3, <4>1, <4>2
    <3> QED
      BY <1>2, <3>1, <3>2 DEF StartShape
  <2>4. CASE package.type = app.lifecycle /\ app.lifecycle = "buildpack" /\ B.staging = "none"
    <3> DEFINE started == IF W.phase = "none" THEN [NoWorkload EXCEPT !.phase = "live", !.src = package.src] ELSE W
    <3>1. o = <<[B EXCEPT !.staging = "True", !.state = "STAGING"], started, 0>> \/ o = <<B, started, 1>>
      BY <2>1, <2>4 DEF StartOutcomes
    <3>2. /\ o[2] = started /\ o[1].phase = B.phase /\ o[1].succeeded = "none"
          /\ o[1].validBuildpacks = B.validBuildpacks
      <4> DEFINE E == [B EXCEPT !.staging = "True", !.state = "STAGING"]
      <4>1. E.phase = B.phase /\ E.succeeded = B.succeeded /\ E.validBuildpacks = B.validBuildpacks
        BY <1>1 DEF CFBuild
      <4>2. o = <<E, started, 0>> \/ o = <<B, started, 1>>
        BY <3>1
      <4> HIDE DEF started, E
      <4> QED
        BY <1>4, <4>1, <4>2
    <3>3. CASE W.phase = "none"
      <4>1. /\ started.phase = "live" /\ started.generation = 0 /\ started.succeeded = "none"
            /\ started.reason # "BuilderNotReady"
        BY <3>3 DEF NoWorkload
      <4>2. package.phase # "none"
        BY <1>2, <1>4 DEF StartShape
      <4>3. /\ o[2].phase = "live" /\ o[2].generation = 0 /\ o[2].succeeded = "none"
            /\ o[2].reason # "BuilderNotReady"
        BY <3>2, <4>1
      <4> HIDE DEF started
      <4> QED
        BY <2>4, <3>2, <4>2, <4>3 DEF StartShape
    <3>4. CASE W.phase # "none"
      BY <1>2, <1>4, <2>4, <3>2, <3>4 DEF StartShape
    <3> QED
      BY <3>3, <3>4
  <2>5. CASE package.type = app.lifecycle /\ app.lifecycle = "buildpack" /\ B.staging # "none"
    <3>1. W.phase # "none" /\ o \in FinishOutcomes(B, W)
      BY <1>2, <1>4, <2>1, <2>5 DEF StartShape
    <3>2. CASE W.succeeded \in {"none", "Unknown"}
      <4>1. o = <<B, W, 0>>
        BY <3>1, <3>2 DEF FinishOutcomes
      <4> QED
        BY <1>2, <4>1
    <3>3. CASE W.succeeded = "False"
      <4>1. o = <<Ended(B, "FAILED"), W, 0>>
        BY <3>1, <3>3 DEF FinishOutcomes
      <4>2. /\ Ended(B, "FAILED").phase = B.phase /\ Ended(B, "FAILED").succeeded = "False"
            /\ Ended(B, "FAILED").validBuildpacks = B.validBuildpacks
        BY <1>1, EndedType
      <4> QED
        BY <1>2, <3>3, <4>1, <4>2 DEF StartShape
    <3>4. CASE W.succeeded = "True"
      <4> DEFINE E == [Ended(B, "STAGED") EXCEPT !.droplet = W.droplet]
      <4>1. o = <<E, W, 0>>
        BY <3>1, <3>4 DEF FinishOutcomes
      <4>2. /\ E.phase = B.phase /\ E.succeeded = "True" /\ E.validBuildpacks = B.validBuildpacks
        <5>1. W.droplet \in Droplet
          BY <1>1 DEF BuildWorkload
        <5>2. /\ Ended(B, "STAGED") \in CFBuild /\ Ended(B, "STAGED").succeeded = "True"
              /\ Ended(B, "STAGED").phase = B.phase /\ Ended(B, "STAGED").validBuildpacks = B.validBuildpacks
          BY <1>1, EndedType
        <5> QED
          BY <5>1, <5>2, WithDroplet
      <4> HIDE DEF E
      <4> QED
        BY <1>2, <3>4, <4>1, <4>2 DEF StartShape
    <3> QED
      BY <1>1, <3>2, <3>3, <3>4 DEF BuildWorkload
  <2> QED
    BY <2>2, <2>3, <2>4, <2>5
<1> QED
  BY <1>3, <1>4

\* What a step may make of a workload: it is created, begins, fails, takes the
\* droplet of its Build, or is collected.
Moves(d) == ContinueImageBuild(d) /\ OfGeneration(wl[d].generation) # {}
Renewed(c) ==
    /\ WorkerRuns /\ wl[c].phase = "none" /\ wl'[c].phase = "live"
    /\ wl'[c].generation = 0 /\ wl'[c].succeeded = "none"
Begins(c) ==
    /\ BeginImageBuild(c) /\ wl'[c].phase = "live" /\ wl'[c].reason = wl[c].reason
    /\ wl'[c].generation \in {wl[c].generation, image'.generation}
    /\ \/ wl'[c].succeeded = "none"
       \/ wl'[c].succeeded = "Unknown" /\ wl'[c].generation = image'.generation
Fails(c) ==
    /\ wl[c].phase \in {"live", "deleting"} /\ wl'[c].phase = wl[c].phase
    /\ wl'[c].generation = wl[c].generation /\ wl'[c].succeeded = "False"
    /\ \/ wl[c].succeeded = "none" /\ ~build[c].validBuildpacks
       \/ Begun(c) /\ wl'[c].reason = "BuilderNotReady"
       \/ Begun(c) /\ Moves(c)
       \/ /\ wl[c].succeeded = "Unknown"
          /\ \E d \in Builds : Moves(d) /\ wl[c].generation < wl[d].generation
Takes(c) ==
    /\ Begun(c) /\ Moves(c)
    /\ wl'[c].phase = wl[c].phase /\ wl'[c].generation = wl[c].generation
    /\ wl'[c].reason = wl[c].reason /\ wl'[c].succeeded = "True"
Leaves(c) ==
    /\ \/ wl[c].phase = "live" /\ build[c].phase = "gone"
       \/ wl[c].phase = "deleting"
    /\ wl'[c].phase \in {"deleting", "gone"} /\ wl'[c].generation = wl[c].generation
    /\ wl'[c].reason = wl[c].reason /\ wl'[c].succeeded = wl[c].succeeded

\* The outcome of a Build leaves the rest of the record alone.
LEMMA TakeDetail ==
    ASSUME NEW w \in BuildWorkload, NEW k \in KpackBuild
    PROVE  LET t == TakeOutcome(w, k)
           IN  \/ t = w
               \/ /\ t.phase = w.phase /\ t.generation = w.generation /\ t.reason = w.reason
                  /\ t.succeeded \in {"True", "False"}
<1> DEFINE d == [src |-> k.src, num |-> k.num]
<1>1. k.succeeded \in {"Unknown", "True", "False"}
  BY DEF KpackBuild
<1>2. TakeOutcome(w, k) = CASE k.succeeded = "Unknown" -> w
                            [] k.succeeded = "False" -> [w EXCEPT !.succeeded = "False"]
                            [] k.succeeded = "True" -> [w EXCEPT !.succeeded = "True", !.droplet = d]
  BY DEF TakeOutcome
<1> HIDE DEF d
<1>3. CASE k.succeeded = "Unknown"
  BY <1>2, <1>3
<1>4. CASE k.succeeded = "False"
  BY <1>2, <1>4 DEF BuildWorkload
<1>5. CASE k.succeeded = "True"
  BY <1>2, <1>5 DEF BuildWorkload
<1> QED
  BY <1>1, <1>3, <1>4, <1>5

\* A workload that has begun goes on.
LEMMA ContinueDetail ==
    ASSUME TypeInv, NEW b \in Builds, ContinueImageBuild(b), wl' # wl
    PROVE  /\ Begun(b) /\ Moves(b)
           /\ \E skipped \in FailSkipped(wl[b].generation) :
                \A c \in Builds :
                   \/ c \in skipped /\ Fails(c)
                   \/ c \notin skipped /\ (wl'[c] = wl[c] \/ Fails(c) \/ Takes(c))
<1> DEFINE own == OfGeneration(wl[b].generation)
<1>1. wl \in [Builds -> BuildWorkload] /\ \A c \in Builds : wl[c] \in BuildWorkload
  BY DEF TypeInv, TypeOK
<1>2. Begun(b)
  BY DEF ContinueImageBuild, Begun
<1>3. own # {}
  BY DEF ContinueImageBuild
<1>4. Moves(b)
  BY <1>3 DEF Moves
<1>5. PICK skipped \in FailSkipped(wl[b].generation) :
        wl' = [c \in Builds |->
                 CASE c \in skipped -> [wl[c] EXCEPT !.succeeded = "False"]
                   [] c = b -> TakeOutcome(wl[b], Latest(own))
                   [] OTHER -> wl[c]]
  BY <1>3 DEF ContinueImageBuild
<1>6. skipped \subseteq SkippedBefore(wl[b].generation)
  BY DEF FailSkipped
<1>7. \A c \in skipped : /\ c \in Builds /\ wl[c].phase \in {"live", "deleting"} /\ wl[c].succeeded = "Unknown"
                         /\ wl[c].generation < wl[b].generation
  BY <1>6 DEF SkippedBefore, Listed
<1>8. b \notin skipped
  <2>1. wl[b].generation \in Nat
    BY <1>1 DEF BuildWorkload
  <2> QED
    BY <1>7, <2>1
<1> DEFINE k == Latest(own)
           t == TakeOutcome(wl[b], k)
<1>9. own \in SUBSET kbuilds
  BY DEF OfGeneration
<1>10. k \in own
  BY <1>3, <1>9, LatestIn
<1>11. k \in KpackBuild
  BY <1>10 DEF OfGeneration, TypeInv, TypeOK
<1> HIDE DEF k, own
<1>12. \/ t = wl[b]
       \/ /\ t.phase = wl[b].phase /\ t.generation = wl[b].generation /\ t.reason = wl[b].reason
          /\ t.succeeded \in {"True", "False"}
  BY <1>1, <1>11, TakeDetail
<1>13. \A c \in Builds : /\ c \in skipped => wl'[c] = [wl[c] EXCEPT !.succeeded = "False"]
                         /\ c = b => wl'[c] = t
                         /\ c \notin skipped /\ c # b => wl'[c] = wl[c]
  BY <1>5, <1>8 DEF k
<1> HIDE DEF t
<1>14. ASSUME NEW c \in Builds, c \in skipped
       PROVE  Fails(c)
  <2>1. wl'[c].phase = wl[c].phase /\ wl'[c].generation = wl[c].generation /\ wl'[c].succeeded = "False"
    <3>1. wl'[c] = [wl[c] EXCEPT !.succeeded = "False"] /\ wl[c] \in BuildWorkload
      BY <1>1, <1>13, <1>14
    <3> QED
      BY <3>1, FailEffect
  <2> QED
    BY <1>4, <1>7, <1>14, <2>1 DEF Fails
<1>15. wl'[b] = wl[b] \/ Fails(b) \/ Takes(b)
  BY <1>2, <1>4, <1>12, <1>13 DEF Fails, Takes, Begun
<1> QED
  BY <1>2, <1>4, <1>8, <1>13, <1>14, <1>15

\* Every step makes nothing else of it.
LEMMA WorkloadSteps ==
    ASSUME TypeInv, [Next]_vars, NEW c \in Builds
    PROVE  wl'[c] = wl[c] \/ Renewed(c) \/ Begins(c) \/ Fails(c) \/ Takes(c) \/ Leaves(c)
<1>1. wl \in [Builds -> BuildWorkload] /\ \A b \in Builds : wl[b] \in BuildWorkload
  BY DEF TypeInv, TypeOK
<1>2. CASE WorkerRuns
  <2>1. PICK b \in Builds : FinishReconcile(b) \/ Lists(b)
    BY <1>2, WorkerEffect DEF WorkerRuns
  <2>2. CASE Lists(b)
    BY <2>2 DEF Lists
  <2>3. CASE FinishReconcile(b)
    <3>1. PICK B \in CFBuild, W \in BuildWorkload : wl' = [wl EXCEPT ![b] = W] /\ Finished(b, B, W)
      BY <2>3, FinishEffect
    <3>2. W = wl[b] \/ (wl[b].phase = "none" /\ W.phase = "live" /\ W.generation = 0 /\ W.succeeded = "none")
      BY <3>1 DEF Finished
    <3>3. wl'[c] = IF c = b THEN W ELSE wl[c]
      BY <1>1, <3>1
    <3> QED
      BY <1>2, <3>2, <3>3 DEF Renewed
  <2> QED
    BY <2>1, <2>2, <2>3
<1>3. ASSUME NEW b \in Builds, InvalidBuildpacks(b) \/ BuilderNotReady(b)
      PROVE  wl'[c] = wl[c] \/ Fails(c)
  <2> DEFINE t == IF InvalidBuildpacks(b) THEN [wl[b] EXCEPT !.succeeded = "False"]
                  ELSE [wl[b] EXCEPT !.succeeded = "False", !.reason = "BuilderNotReady"]
  <2>1. /\ wl' = [wl EXCEPT ![b] = t] /\ wl[b].phase = "live"
        /\ \/ /\ t = [wl[b] EXCEPT !.succeeded = "False"]
              /\ wl[b].succeeded = "none" /\ ~build[b].validBuildpacks
           \/ /\ t = [wl[b] EXCEPT !.succeeded = "False", !.reason = "BuilderNotReady"]
              /\ wl[b].succeeded = "Unknown"
    <3>1. CASE InvalidBuildpacks(b)
      BY <1>1, <3>1 DEF InvalidBuildpacks
    <3>2. CASE ~InvalidBuildpacks(b)
      BY <1>1, <1>3, <3>2 DEF BuilderNotReady
    <3> QED
      BY <3>1, <3>2
  <2> HIDE DEF t
  <2>2. t.succeeded = "False" /\ t.phase = wl[b].phase /\ t.generation = wl[b].generation
    <3>1. wl[b] \in BuildWorkload
      BY <1>1
    <3>2. \/ t = [wl[b] EXCEPT !.succeeded = "False"]
          \/ t = [wl[b] EXCEPT !.succeeded = "False", !.reason = "BuilderNotReady"]
      BY <2>1
    <3> QED
      BY <3>1, <3>2, FailEffect
  <2>3. wl[b].succeeded = "Unknown" => t.reason = "BuilderNotReady"
    BY <1>1, <2>1 DEF BuildWorkload
  <2>4. wl'[c] = IF c = b THEN t ELSE wl[c]
    BY <1>1, <2>1
  <2> QED
    BY <2>1, <2>2, <2>3, <2>4 DEF Fails, Begun
<1>4. ASSUME NEW b \in Builds, ContinueImageBuild(b)
      PROVE  wl'[c] = wl[c] \/ Fails(c) \/ Takes(c)
  BY <1>4, ContinueDetail
<1>5. ASSUME NEW b \in Builds, BeginImageBuild(b)
      PROVE  wl'[c] = wl[c] \/ Begins(c)
  <2>1. PICK writes \in 1 .. 3 :
          wl' = [wl EXCEPT ![b].generation = IF writes > 1 THEN image'.generation ELSE wl[b].generation,
                           ![b].succeeded = IF writes > 2 THEN "Unknown" ELSE wl[b].succeeded]
    BY <1>1, <1>5 DEF BeginImageBuild
  <2> DEFINE g == IF writes > 1 THEN image'.generation ELSE wl[b].generation
             s == IF writes > 2 THEN "Unknown" ELSE wl[b].succeeded
             W == [wl[b] EXCEPT !.generation = g, !.succeeded = s]
  <2>2. wl[b].phase = "live" /\ wl[b].succeeded = "none"
    BY <1>5 DEF BeginImageBuild, MayBegin, CanBegin
  <2>3. /\ g \in {wl[b].generation, image'.generation}
        /\ s = "none" \/ (s = "Unknown" /\ g = image'.generation)
    BY <2>1, <2>2
  <2>4. wl' = [wl EXCEPT ![b] = W]
    BY <1>1, <2>1
  <2> HIDE DEF g, s
  <2>5. /\ W.phase = wl[b].phase /\ W.reason = wl[b].reason
        /\ W.generation = g /\ W.succeeded = s
    BY <1>1 DEF BuildWorkload
  <2> HIDE DEF W
  <2>6. wl'[c] = IF c = b THEN W ELSE wl[c]
    BY <1>1, <2>4
  <2> QED
    BY <1>5, <2>2, <2>3, <2>5, <2>6 DEF Begins
<1>6. ASSUME NEW b \in Builds, CollectWorkload(b) \/ FinalizeWorkload(b)
      PROVE  wl'[c] = wl[c] \/ Leaves(c)
  <2>1. PICK phase \in {"deleting", "gone"} : wl' = wl \/ wl' = [wl EXCEPT ![b].phase = phase]
    BY <1>6 DEF CollectWorkload, FinalizeWorkload
  <2>2. \/ wl[b].phase = "live" /\ build[b].phase = "gone"
        \/ wl[b].phase = "deleting"
    BY <1>6 DEF CollectWorkload, FinalizeWorkload
  <2>3. CASE wl' # wl
    <3> DEFINE W == [wl[b] EXCEPT !.phase = phase]
    <3>1. wl' = [wl EXCEPT ![b] = W]
      BY <2>1, <2>3
    <3>2. /\ W.phase = phase /\ W.reason = wl[b].reason
          /\ W.generation = wl[b].generation /\ W.succeeded = wl[b].succeeded
      BY <1>1 DEF BuildWorkload
    <3> HIDE DEF W
    <3>3. wl'[c] = IF c = b THEN W ELSE wl[c]
      BY <1>1, <3>1
    <3> QED
      BY <2>2, <3>2, <3>3 DEF Leaves
  <2> QED
    BY <2>3
<1> QED
  BY <1>2, <1>3, <1>4, <1>5, <1>6, BuildsFrame DEF WorkloadsChange

\* What kpack has built last changes when it builds.
LEMMA LatestSteps ==
    ASSUME TypeInv, [Next]_vars
    PROVE  /\ BuildsMade => kpack'.latest = image.generation
           /\ ~BuildsMade => kpack'.latest = kpack.latest
<1>1. kpack \in [observed : Nat, latest : Nat, ready : BOOLEAN, requested : BOOLEAN, count : Nat]
  BY DEF TypeInv, TypeOK
<1>2. CASE BuildsMade
  <2>1. \/ kpack' = [kpack EXCEPT !.observed = image.generation, !.latest = image.generation,
                                  !.ready = FALSE, !.requested = FALSE, !.count = @ + 1]
        \/ kpack' = [kpack EXCEPT !.observed = image.generation, !.latest = image.generation,
                                  !.ready = FALSE, !.count = @ + 1]
    BY <1>2 DEF BuildsMade, KpackSchedules, KpackRebuilds, KpackBuilds
  <2> QED
    BY <1>1, <1>2, <2>1
<1>3. SUFFICES ASSUME ~BuildsMade
               PROVE  kpack'.latest = kpack.latest
  BY <1>2
<1>4. CASE KpackSettles
  BY <1>1, <1>4 DEF KpackSettles
<1>5. CASE WorkloadsChange
  <2>1. PICK b \in Builds : \/ kpack' = kpack
                            \/ kpack' = [kpack EXCEPT !.requested = kpack.requested \/ BuildCreationHasBeenSkipped(b)]
    BY <1>5 DEF WorkloadsChange, InvalidBuildpacks, ContinueImageBuild, BuilderNotReady
  <2> DEFINE r == kpack.requested \/ BuildCreationHasBeenSkipped(b)
  <2>2. kpack' = kpack \/ kpack' = [kpack EXCEPT !.requested = r]
    BY <2>1
  <2> HIDE DEF r
  <2> QED
    BY <1>1, <2>2
<1>6. CASE PackageStep \/ (\E b \in Builds : CreateBuild(b)) \/ (\E b \in Builds : SetCurrentDroplet(b))
           \/ WorkerRuns \/ CleanBuild \/ CleanBuildFails
  BY <1>6, PackageEffect, CreateBuildEffect, WorkerEffect, CleanEffect
     DEF SetCurrentDroplet, WorkerRuns, CleanBuildFails
<1>7. CASE \/ \E b \in Builds : BeginImageBuild(b)
           \/ \E b \in Builds : CollectWorkload(b)
           \/ \E b \in Builds : FinalizeWorkload(b)
  BY <1>7, BeginEffect, CollectEffect, FinalizeWorkloadEffect
<1>8. CASE BuildsGo \/ UNCHANGED vars
  BY <1>8, KpackEffect DEF BuildsGo, vars
<1> QED
  BY <1>3, <1>4, <1>5, <1>6, <1>7, <1>8, Steps

\* The Image of a workload that begins has a generation.
LEMMA BeginGeneration ==
    ASSUME TypeInv, StartInv, NEW b \in Builds, BeginImageBuild(b)
    PROVE  image'.generation > 0
<1>1. image'.generation \in Nat /\ image.generation \in Nat
  BY BeginEffect DEF TypeInv, TypeOK
<1>2. CASE image'.generation = image.generation + 1
  BY <1>1, <1>2
<1>3. CASE image' = image /\ image.generation = 0
  <2>1. image.src = 0 /\ image.before = 0 /\ wl[b].src # 0
    BY <1>3, BeginEffect DEF StartInv
  <2>2. PICK cached \in CachedSources : image' = PatchedImage(b, cached)
    BY DEF BeginImageBuild
  <2>3. cached = 0
    BY <2>1 DEF CachedSources
  <2>4. PatchedImage(b, cached).generation = image.generation + 1
    BY <2>1, <2>3 DEF PatchedImage
  <2> QED
    BY <1>1, <1>3, <2>2, <2>4
<1> QED
  BY <1>1, <1>2, <1>3, BeginEffect

\* Every step keeps the shapes of the start.
LEMMA NextStartShape ==
    ASSUME TypeInv, ShapeInv, StartInv, [Next]_vars, NEW b \in Builds
    PROVE  StartShape(wl'[b], build'[b], pkg'[build'[b].package])
<1>1. /\ build \in [Builds -> CFBuild] /\ build[b] \in CFBuild /\ wl[b].generation \in Nat
      /\ wl \in [Builds -> BuildWorkload]
  BY DEF TypeInv, TypeOK, BuildWorkload
<1>2. StartShape(wl[b], build[b], pkg[build[b].package])
  BY DEF StartInv
<1>3. WorkloadShape(wl[b], build[b], app.lifecycle)
  BY DEF ShapeInv, WorkloadInv
<1>4. CASE WorkerRuns
  <2>1. UNCHANGED pkg
    BY <1>4, WorkerEffect DEF WorkerRuns
  <2>2. PICK c \in Builds : FinishReconcile(c) \/ Lists(c)
    BY <1>4, WorkerEffect DEF WorkerRuns
  <2>3. CASE Lists(c)
    BY <1>2, <2>1, <2>3 DEF Lists
  <2>4. CASE FinishReconcile(c)
    <3>1. PICK o \in Outcomes(c) : build' = [build EXCEPT ![c] = o[1]] /\ wl' = [wl EXCEPT ![c] = o[2]]
      BY <2>4 DEF FinishReconcile
    <3>2. StartShape(o[2], o[1], pkg[build[c].package]) /\ o[1].package = build[c].package
      BY OutcomeStart, OutcomeEffect
    <3>3. /\ build'[b] = IF b = c THEN o[1] ELSE build[b]
          /\ wl'[b] = IF b = c THEN o[2] ELSE wl[b]
      BY <1>1, <3>1
    <3> QED
      BY <1>2, <2>1, <3>2, <3>3
  <2> QED
    BY <2>2, <2>3, <2>4
<1>5. CASE \E c \in Builds : CreateBuild(c)
  <2> PICK c \in Builds : CreateBuild(c)
    BY <1>5
  <2> PICK p \in Packages, valid \in BOOLEAN :
          /\ pkg[p].phase \in {"live", "deleting"}
          /\ build' = [build EXCEPT ![c] = [NoBuild EXCEPT !.phase = "live", !.package = p,
                                                           !.validBuildpacks = valid]]
    BY Zenon DEF CreateBuild
  <2>1. /\ build[c].phase = "none" /\ UNCHANGED <<pkg, wl>>
        /\ pkg[p].phase \in {"live", "deleting"}
        /\ build' = [build EXCEPT ![c] = [NoBuild EXCEPT !.phase = "live", !.package = p,
                                                         !.validBuildpacks = valid]]
    BY DEF CreateBuild
  <2> DEFINE B == [NoBuild EXCEPT !.phase = "live", !.package = p, !.validBuildpacks = valid]
  <2>2. B.package = p /\ B.staging = "none" /\ B.succeeded = "none"
    BY DEF NoBuild
  <2>3. build' = [build EXCEPT ![c] = B]
    BY <2>1
  <2> HIDE DEF B
  <2>4. CASE b = c
    <3>1. wl[b].phase = "none" /\ wl[b].generation = 0 /\ wl[b].succeeded = "none"
      BY <1>3, <2>1, <2>4 DEF WorkloadShape
    <3>2. build'[b] = B /\ wl'[b] = wl[b]
      BY <1>1, <2>1, <2>3, <2>4
    <3>3. pkg'[build'[b].package].phase # "none"
      BY <2>1, <2>2, <3>2
    <3>4. wl[b].reason # "BuilderNotReady"
      BY <1>2, <3>1 DEF StartShape
    <3>5. StartShape(wl[b], B, pkg'[build'[b].package])
      BY <2>2, <3>1, <3>3, <3>4 DEF StartShape
    <3> QED
      BY <3>2, <3>5
  <2>5. CASE b # c
    BY <1>2, <2>1, <2>3, <2>5
  <2> QED
    BY <2>4, <2>5
<1>6. CASE CleanBuild
  <2>1. UNCHANGED <<pkg, wl>> /\ worker.victims \in SUBSET Builds
    BY <1>6, CleanEffect DEF TypeInv, TypeOK
  <2> DEFINE v == Max(worker.victims)
  <2>2. v \in worker.victims /\ Staged(v) /\ build' = [build EXCEPT ![v].phase = "gone"]
    <3>1. worker.victims # {} /\ \A x \in worker.victims : Staged(x)
      BY <1>6 DEF CleanBuild, TypeInv, WorkerInv
    <3>2. v \in worker.victims
      BY <2>1, <3>1, MaxBuild
    <3> QED
      BY <1>6, <3>1, <3>2 DEF CleanBuild
  <2> HIDE DEF v
  <2>3. CASE b = v
    <3>1. build' = [build EXCEPT ![b] = [build[b] EXCEPT !.phase = "gone"]]
      BY <2>2, <2>3
    <3> DEFINE B == [build[b] EXCEPT !.phase = "gone"]
    <3>2. /\ B.package = build[b].package /\ B.staging = build[b].staging
          /\ B.succeeded = build[b].succeeded /\ B.validBuildpacks = build[b].validBuildpacks
      BY <1>1 DEF CFBuild
    <3>3. build'[b] = B
      BY <1>1, <3>1
    <3>4. build[b].phase = "live"
      BY <2>2, <2>3 DEF Staged
    <3> HIDE DEF B
    <3> QED
      BY <1>2, <2>1, <3>2, <3>3, <3>4 DEF StartShape
  <2>4. CASE b # v
    BY <1>1, <1>2, <2>1, <2>2, <2>4
  <2> QED
    BY <2>3, <2>4
<1>7. CASE PackageStep
  <2>1. UNCHANGED <<build, wl>>
    BY <1>7, PackageEffect
  <2>2. CASE build[b].phase = "none"
    <3>1. wl[b].phase = "none"
      BY <1>3, <2>2 DEF WorkloadShape
    <3> QED
      BY <1>2, <2>1, <2>2, <3>1 DEF StartShape
  <2>3. CASE build[b].phase # "none"
    <3>1. build[b].package \in Packages
      BY <2>3 DEF TypeInv, NumberInv
    <3>2. pkg[build[b].package].phase # "none"
      BY <1>2, <2>3 DEF StartShape
    <3>3. /\ pkg'[build[b].package].phase # "none"
          /\ pkg'[build[b].package].type = pkg[build[b].package].type
      BY <1>7, <3>1, <3>2, PackageKept
    <3> QED
      BY <1>2, <2>1, <3>3 DEF StartShape
  <2> QED
    BY <2>2, <2>3
<1>8. CASE UNCHANGED <<build, pkg>> /\ ~WorkerRuns
  <2>1. CASE wl'[b] = wl[b]
    BY <1>2, <1>8, <2>1
  <2>2. CASE Begins(b)
    <3>1. wl[b].succeeded = "none" /\ build[b].validBuildpacks /\ build[b].succeeded = "none"
          /\ wl[b].phase = "live"
      BY <2>2 DEF Begins, BeginImageBuild, MayBegin, CanBegin
    <3>2. image'.generation # 0
      BY <2>2, BeginGeneration, BeginEffect DEF Begins
    <3>3. wl[b].reason # "BuilderNotReady"
      BY <1>2, <3>1 DEF StartShape
    <3> QED
      BY <1>2, <1>8, <2>2, <3>1, <3>2, <3>3 DEF StartShape, Begins
  <2>3. CASE Fails(b)
    BY <1>2, <1>8, <2>3 DEF StartShape, Fails
  <2>4. CASE Takes(b)
    BY <1>2, <1>8, <2>4 DEF StartShape, Takes, Begun
  <2>5. CASE Leaves(b)
    BY <1>2, <1>8, <2>5 DEF StartShape, Leaves
  <2> QED
    BY <1>8, <2>1, <2>2, <2>3, <2>4, <2>5, WorkloadSteps DEF Renewed
<1> QED
  BY <1>4, <1>5, <1>6, <1>7, <1>8, BuildsFrame

\* The Image is not taken back.
LEMMA ImageGrows ==
    ASSUME TypeInv, [Next]_vars
    PROVE  /\ image.generation \in Nat /\ image'.generation \in Nat
           /\ image' = image \/ image'.generation = image.generation + 1
           /\ image' # image => \E b \in Builds : BeginImageBuild(b)
           /\ BuildsMade => image' = image
<1>1. image.generation \in Nat
  BY DEF TypeInv, TypeOK
<1>2. CASE \E b \in Builds : BeginImageBuild(b)
  <2>1. ~BuildsMade \/ image' = image
    BY BuildsEffect DEF BuildsMade
  <2> QED
    BY <1>1, <1>2, <2>1, BeginEffect
<1> QED
  BY <1>1, <1>2, CalmSteps, BuildsEffect DEF Calm, BuildsMade

\* Every step keeps the start.
LEMMA NextStart ==
    ASSUME TypeInv, ShapeInv, StartInv, [Next]_vars
    PROVE  StartInv'
<1>1. /\ \A k \in kbuilds : k.generation \in Nat
      /\ kpack.latest \in Nat /\ image.generation \in Nat /\ image'.generation \in Nat
  BY ImageGrows DEF TypeInv, TypeOK, KpackBuild
<1>2. image'.generation = 0 => image'.src = 0 /\ image'.before = 0
  BY <1>1, ImageGrows DEF StartInv
<1>3. kpack'.latest <= image'.generation /\ kpack.latest <= kpack'.latest
  BY <1>1, ImageGrows, LatestSteps DEF StartInv
<1>4. ASSUME NEW l \in kbuilds'
      PROVE  l.generation <= kpack'.latest
  <2>1. kpack'.latest \in Nat
    BY <1>1, LatestSteps
  <2>2. CASE \E k \in kbuilds : l.generation = k.generation
    BY <1>1, <1>3, <2>1, <2>2 DEF StartInv
  <2>3. CASE BuildsMade
    <3>1. PICK k \in KpackBuild : kbuilds' = kbuilds \cup {k} /\ k.generation = image.generation
      BY <2>3, BuildsEffect DEF BuildsMade
    <3>2. l = k \/ l \in kbuilds
      BY <1>4, <3>1
    <3> QED
      BY <1>1, <2>2, <2>3, <3>1, <3>2, LatestSteps
  <2>4. CASE Calm
    BY <1>4, <2>2, <2>4 DEF Calm, SameBuild
  <2>5. CASE \E b \in Builds : BeginImageBuild(b)
    BY <1>4, <2>2, <2>5, BeginEffect
  <2> QED
    BY <2>3, <2>4, <2>5, CalmSteps
<1>5. \A b \in Builds : StartShape(wl'[b], build'[b], pkg'[build'[b].package])
  BY NextStartShape
<1> QED
  BY <1>2, <1>3, <1>4, <1>5 DEF StartInv

-----------------------------------------------------------------------------
(* Who notices that kpack has left out a generation.                       *)

\* The Builds of a generation stay while it is the one of the Image, or a
\* workload that is not deleted has it.
LEMMA GenerationKept ==
    ASSUME TypeInv, ImageInv, [Next]_vars, NEW g \in Nat, NEW k \in kbuilds, k.generation = g,
           g >= image.generation \/ \E b \in Builds : wl[b].phase = "live" /\ wl[b].generation = g
    PROVE  \E l \in kbuilds' : l.generation = g
<1>1. image.generation \in Nat /\ k \in KpackBuild
  BY DEF TypeInv, TypeOK
<1>2. ~k.deleting
  BY <1>1 DEF ImageInv
<1>3. CASE UNCHANGED kbuilds
  BY <1>3
<1>4. CASE BuildsMade
  BY <1>4, BuildsEffect DEF BuildsMade
<1>5. CASE BuildsGo
  <2>1. PICK l \in kbuilds' : SameBuild(k, l)
    BY <1>2, <1>5, KpackEffect DEF BuildsGo
  <2> QED
    BY <2>1 DEF SameBuild
<1>6. CASE \E b \in Builds : FinalizeWorkload(b)
  <2>1. PICK own \in SUBSET kbuilds :
          kbuilds' = kbuilds \/ kbuilds' = (kbuilds \ own) \cup {[l EXCEPT !.deleting = TRUE] : l \in own}
    BY <1>6 DEF FinalizeWorkload, OfGeneration
  <2> DEFINE l == [k EXCEPT !.deleting = TRUE]
  <2>2. k \in kbuilds' \/ l \in kbuilds'
    BY <2>1
  <2>3. l.generation = g
    BY <1>1 DEF KpackBuild
  <2> QED
    BY <2>2, <2>3
<1>7. CASE PackageStep \/ (\E b \in Builds : CreateBuild(b)) \/ (\E b \in Builds : SetCurrentDroplet(b))
           \/ WorkerRuns \/ CleanBuild \/ CleanBuildFails
  BY <1>3, <1>7, PackageEffect, CreateBuildEffect, WorkerEffect, CleanEffect
     DEF SetCurrentDroplet, WorkerRuns, CleanBuildFails
<1>8. CASE WorkloadsChange \/ (\E b \in Builds : BeginImageBuild(b)) \/ (\E b \in Builds : CollectWorkload(b))
           \/ KpackSettles \/ UNCHANGED vars
  BY <1>3, <1>8, WorkloadEffect, BeginEffect, CollectEffect DEF WorkloadsChange, KpackSettles, vars
<1> QED
  BY <1>4, <1>5, <1>6, <1>7, <1>8, Steps

\* The workload is still one that notices after the step.
StillNotices(c, g) ==
    /\ wl'[c].phase \in {"live", "deleting"}
    /\ \/ wl'[c].generation = 0 \/ wl'[c].reason = "BuilderNotReady"
       \/ wl'[c].phase = "live" /\ wl'[c].succeeded = "none"
       \/ wl'[c].phase = "live" /\ wl'[c].succeeded = "Unknown" /\ wl'[c].generation >= g

\* A workload that waits for its Build is not removed.
LEMMA WaitingStays ==
    ASSUME ShapeInv, NEW c \in Builds, wl[c].succeeded # "True"
    PROVE  /\ wl[c].phase = "live" => build[c].phase \notin {"none", "gone"}
           /\ wl[c].phase \notin {"deleting", "gone"}
<1>1. BuildShape(build[c]) /\ WorkloadShape(wl[c], build[c], app.lifecycle)
  BY DEF ShapeInv, BuildInv, WorkloadInv
<1> QED
  BY <1>1 DEF BuildShape, WorkloadShape

\* A workload notices until it takes the outcome of a Build, or is skipped
\* itself.
LEMMA NoticeKept ==
    ASSUME TypeInv, ShapeInv, StartInv, [Next]_vars, NEW c \in Builds,
           NEW g \in Nat, g <= image.generation, Notices(c, g)
    PROVE  \/ StillNotices(c, g)
           \/ /\ wl[c].generation >= g
              /\ \E d \in Builds : Moves(d) /\ wl[d].generation >= wl[c].generation
<1>1. /\ \A d \in Builds : wl[d].generation \in Nat
      /\ image.generation \in Nat /\ image'.generation \in Nat /\ image'.generation >= image.generation
  <2>1. /\ image.generation \in Nat /\ image'.generation \in Nat
        /\ image' = image \/ image'.generation = image.generation + 1
    BY ImageGrows
  <2>2. image'.generation >= image.generation
    BY <2>1
  <2> QED
    BY <2>1, <2>2 DEF TypeInv, TypeOK, BuildWorkload
<1>2. StartShape(wl[c], build[c], pkg[build[c].package])
  BY DEF StartInv
<1>3. c \in Listed /\ wl[c].phase \in {"live", "deleting"}
  BY DEF Notices, Listed
<1>4. wl[c].succeeded # "True"
  BY <1>2 DEF Notices, Begun, StartShape
<1>5. CASE wl'[c] = wl[c]
  BY <1>3, <1>5 DEF Notices, StillNotices, Begun
<1>6. CASE Begins(c)
  <2>1. g <= image'.generation
    BY <1>1
  <2> QED
    BY <1>6, <2>1 DEF Begins, StillNotices
<1>7. CASE wl[c].succeeded = "Unknown"
           /\ \E d \in Builds : Moves(d) /\ wl[d].generation >= wl[c].generation
  BY <1>2, <1>7 DEF Notices, Begun, StartShape
<1>8. CASE Fails(c)
  <2>1. CASE wl[c].succeeded = "none" /\ ~build[c].validBuildpacks
    <3>1. wl'[c].generation = 0
      BY <1>1, <1>2, <1>8, <2>1 DEF StartShape, Fails
    <3> QED
      BY <1>3, <1>8, <3>1 DEF Fails, StillNotices
  <2>2. CASE wl'[c].reason = "BuilderNotReady"
    BY <1>3, <1>8, <2>2 DEF Fails, StillNotices
  <2>3. CASE Begun(c) /\ Moves(c)
    BY <1>1, <1>7, <2>3 DEF Begun
  <2>4. CASE wl[c].succeeded = "Unknown" /\ \E d \in Builds : Moves(d) /\ wl[c].generation < wl[d].generation
    BY <1>1, <1>7, <2>4
  <2> QED
    BY <1>8, <2>1, <2>2, <2>3, <2>4 DEF Fails
<1>9. CASE Takes(c)
  BY <1>1, <1>7, <1>9 DEF Takes, Begun
<1>10. ~Leaves(c) /\ ~Renewed(c)
  BY <1>3, <1>4, WaitingStays DEF Leaves, Renewed
<1> QED
  BY <1>5, <1>6, <1>8, <1>9, <1>10, WorkloadSteps

\* A workload that moves has a generation kpack has built.
LEMMA MovesBuilt ==
    ASSUME StartInv, NEW d \in Builds, Moves(d)
    PROVE  \E k \in kbuilds : k.generation = wl[d].generation /\ wl[d].generation <= kpack.latest
BY DEF Moves, OfGeneration, StartInv

\* A workload that begins waits for a Build of the Image it has patched.
LEMMA BegunWas ==
    ASSUME TypeInv, [Next]_vars, NEW b \in Builds, wl'[b].phase = "live", wl'[b].succeeded = "Unknown"
    PROVE  \/ Begun(b) /\ wl'[b] = wl[b]
           \/ BeginImageBuild(b) /\ wl'[b].generation = image'.generation
BY WorkloadSteps DEF Renewed, Begins, Fails, Takes, Leaves, Begun

\* The Builds kpack has made last are there as long as they are wanted.
LEMMA NextLatest ==
    ASSUME TypeInv, StartInv, ImageInv, LatestInv, [Next]_vars
    PROVE  LatestInv'
<1>1. kpack.latest \in Nat /\ image.generation \in Nat /\ image'.generation \in Nat
  BY ImageGrows DEF TypeInv, TypeOK
<1>2. CASE BuildsMade
  <2>1. PICK k \in kbuilds' : k.generation = image.generation
    BY <1>2, BuildsEffect DEF BuildsMade
  <2>2. k.generation = kpack'.latest
    BY <1>2, <2>1, LatestSteps
  <2> QED
    BY <2>2 DEF LatestInv, OfGeneration
<1>3. CASE ~BuildsMade
  <2>1. kpack'.latest = kpack.latest
    BY <1>3, LatestSteps
  <2>2. SUFFICES ASSUME kpack.latest > 0,
                        \/ image'.generation = kpack.latest
                        \/ \E b \in Builds : /\ wl'[b].phase = "live" /\ wl'[b].succeeded = "Unknown"
                                             /\ wl'[b].generation = kpack.latest
                 PROVE  \E l \in kbuilds' : l.generation = kpack.latest
    BY <2>1 DEF LatestInv, OfGeneration, Begun
  <2>3. image'.generation = kpack.latest => image.generation = kpack.latest
    BY <1>1, ImageGrows DEF StartInv
  <2>4. \/ image.generation = kpack.latest
        \/ \E b \in Builds : Begun(b) /\ wl[b].generation = kpack.latest
    BY <2>2, <2>3, BegunWas
  <2>5. PICK k \in kbuilds : k.generation = kpack.latest
    BY <2>2, <2>4 DEF LatestInv, OfGeneration
  <2>6. \/ kpack.latest >= image.generation
        \/ \E b \in Builds : wl[b].phase = "live" /\ wl[b].generation = kpack.latest
    BY <1>1, <2>4 DEF Begun
  <2> QED
    BY <1>1, <2>5, <2>6, GenerationKept
<1> QED
  BY <1>2, <1>3

\* There is a workload to notice the generation kpack has not built yet.
LEMMA NextHolder ==
    ASSUME TypeInv, ShapeInv, StartInv, HolderInv, [Next]_vars
    PROVE  HolderInv'
<1>1. /\ kpack.latest \in Nat /\ image.generation \in Nat /\ image'.generation \in Nat
      /\ wl \in [Builds -> BuildWorkload]
      /\ \A d \in Builds : wl[d].generation \in Nat
  BY ImageGrows DEF TypeInv, TypeOK, BuildWorkload
<1>2. SUFFICES ASSUME image'.generation > kpack'.latest
               PROVE  \E c \in Builds : StillNotices(c, image'.generation)
  BY DEF HolderInv, Notices, StillNotices, Listed, Begun
<1>3. ~BuildsMade /\ kpack'.latest = kpack.latest
  <2>1. ~BuildsMade
    <3>1. SUFFICES ASSUME BuildsMade
                   PROVE  FALSE
      OBVIOUS
    <3>2. image'.generation = image.generation /\ kpack'.latest = image.generation
      BY <3>1, ImageGrows, LatestSteps
    <3> QED
      BY <1>1, <1>2, <3>2
  <2> QED
    BY <2>1, LatestSteps
<1>4. CASE image' = image
  <2>1. PICK c \in Builds : Notices(c, image.generation)
    BY <1>1, <1>2, <1>3, <1>4 DEF HolderInv
  <2>2. ~\E d \in Builds : Moves(d) /\ wl[d].generation >= wl[c].generation /\ wl[c].generation >= image.generation
    <3>1. SUFFICES ASSUME NEW d \in Builds, Moves(d), wl[d].generation >= wl[c].generation,
                          wl[c].generation >= image.generation
                   PROVE  FALSE
      OBVIOUS
    <3>2. wl[d].generation <= kpack.latest
      BY <3>1, MovesBuilt
    <3> QED
      BY <1>1, <1>2, <1>3, <1>4, <3>1, <3>2
  <2>3. image.generation <= image.generation
    BY <1>1
  <2>4. StillNotices(c, image.generation)
    BY <1>1, <2>1, <2>2, <2>3, NoticeKept
  <2> QED
    BY <1>4, <2>4
<1>5. CASE image' # image
  <2>1. PICK b \in Builds : BeginImageBuild(b)
    BY <1>5, ImageGrows
  <2>2. PICK W \in BuildWorkload :
          wl' = [wl EXCEPT ![b] = W] /\ W.phase = "live" /\ W.succeeded \in {"none", "Unknown"}
    BY <2>1, BeginEffect
  <2>3. wl'[b].phase = "live" /\ wl'[b].succeeded \in {"none", "Unknown"} /\ wl[b].succeeded = "none"
    BY <1>1, <2>1, <2>2, BeginEffect
  <2>4. wl'[b].succeeded = "Unknown" => wl'[b].generation = image'.generation
    BY <2>3, BegunWas DEF Begun
  <2>5. StillNotices(b, image'.generation)
    BY <1>1, <2>3, <2>4 DEF StillNotices
  <2> QED
    BY <2>5
<1> QED
  BY <1>4, <1>5

\* And one to notice what kpack has left out.
LEMMA NextSkipped ==
    ASSUME TypeInv, ShapeInv, StartInv, ImageInv, LatestInv, HolderInv, SkippedInv, [Next]_vars
    PROVE  SkippedInv'
<1>1. /\ kpack.latest \in Nat /\ image.generation \in Nat /\ image'.generation \in Nat
      /\ kpack.latest <= image.generation
      /\ \A d \in Builds : wl[d].generation \in Nat
  BY ImageGrows DEF TypeInv, TypeOK, BuildWorkload, StartInv
<1>2. SUFFICES ASSUME NEW b \in Builds, wl'[b].phase = "live", wl'[b].succeeded = "Unknown",
                      \A l \in kbuilds' : l.generation # wl'[b].generation,
                      wl'[b].generation <= kpack'.latest
               PROVE  \E c \in Builds \ {b} : StillNotices(c, kpack'.latest)
  BY DEF SkippedInv, LeftOut, OfGeneration, Notices, StillNotices, Listed, Begun
<1>3. \A d \in Builds : Begun(d) => wl[d].generation > 0 /\ wl[d].reason # "BuilderNotReady"
  <2> TAKE d \in Builds
  <2>1. StartShape(wl[d], build[d], pkg[build[d].package])
    BY DEF StartInv
  <2> QED
    BY <1>1, <2>1 DEF StartShape, Begun
<1>4. CASE BuildsMade
  <2>1. UNCHANGED wl /\ kpack'.latest = image.generation
    BY <1>4, BuildsEffect, LatestSteps DEF BuildsMade
  <2>2. PICK k \in KpackBuild : kbuilds' = kbuilds \cup {k} /\ k.generation = image.generation
    BY <1>4, BuildsEffect DEF BuildsMade
  <2>3. /\ Begun(b) /\ OfGeneration(wl[b].generation) = {}
        /\ wl[b].generation < image.generation
    BY <1>1, <1>2, <2>1, <2>2 DEF Begun, OfGeneration
  <2>4. \E c \in Builds \ {b} : Notices(c, image.generation)
    <3>1. CASE image.generation > kpack.latest
      <4>1. PICK c \in Builds : Notices(c, image.generation)
        BY <3>1 DEF HolderInv
      <4>2. c # b
        BY <1>1, <1>3, <2>3, <4>1 DEF Notices, Begun
      <4> QED
        BY <4>1, <4>2
    <3>2. CASE image.generation = kpack.latest
      <4>1. LeftOut(b)
        BY <1>1, <2>3, <3>2 DEF LeftOut
      <4> QED
        BY <3>2, <4>1 DEF SkippedInv
    <3> QED
      BY <1>1, <3>1, <3>2
  <2> QED
    BY <2>1, <2>4 DEF Notices, StillNotices, Listed, Begun
<1>5. CASE ~BuildsMade /\ Begun(b) /\ wl'[b] = wl[b]
  <2>1. kpack'.latest = kpack.latest /\ wl[b].generation <= kpack.latest
    BY <1>2, <1>5, LatestSteps
  <2>2. \A k \in kbuilds : k.generation # wl[b].generation
    BY <1>1, <1>2, <1>5, GenerationKept DEF Begun
  <2>3. LeftOut(b)
    BY <1>5, <2>1, <2>2 DEF LeftOut, OfGeneration
  <2>4. PICK c \in Builds \ {b} : Notices(c, kpack.latest)
    BY <2>3 DEF SkippedInv
  <2>5. CASE StillNotices(c, kpack.latest)
    BY <2>1, <2>4, <2>5
  <2>6. CASE ~StillNotices(c, kpack.latest)
    <3>1. PICK d \in Builds : /\ Moves(d) /\ wl[d].generation >= wl[c].generation
                              /\ wl[c].generation >= kpack.latest
      BY <1>1, <2>4, <2>6, NoticeKept
    <3>2. PICK k \in kbuilds : k.generation = wl[d].generation /\ wl[d].generation <= kpack.latest
      BY <3>1, MovesBuilt
    <3>3. wl[b].generation < wl[d].generation
      BY <1>1, <2>1, <2>2, <3>1, <3>2
    <3>4. b \in SkippedBefore(wl[d].generation)
      BY <1>5, <2>3, <3>3 DEF SkippedBefore, Listed, LeftOut, Begun
    <3>5. wl' # wl
      BY <2>4, <2>6 DEF Notices, StillNotices, Listed, Begun
    <3>6. PICK skipped \in FailSkipped(wl[d].generation) : b \in skipped => Fails(b)
      BY <3>1, <3>5, ContinueDetail DEF Moves
    <3>7. b \notin skipped
      BY <1>2, <3>6 DEF Fails
    <3>8. PICK e \in Listed : wl[e].generation = 0
      BY <3>4, <3>6, <3>7 DEF FailSkipped
    <3>9. e \in Builds /\ e # b /\ Notices(e, kpack.latest)
      BY <1>1, <1>3, <1>5, <3>8 DEF Notices, Listed
    <3>10. ~(wl[e].generation >= kpack.latest)
      BY <1>1, <1>3, <1>5, <2>1, <3>8
    <3>11. StillNotices(e, kpack.latest)
      BY <1>1, <3>9, <3>10, NoticeKept
    <3> QED
      BY <2>1, <3>9, <3>11
  <2> QED
    BY <2>5, <2>6
<1>6. ~(~BuildsMade /\ BeginImageBuild(b) /\ wl'[b].generation = image'.generation)
  <2>1. SUFFICES ASSUME ~BuildsMade, BeginImageBuild(b), wl'[b].generation = image'.generation
                 PROVE  FALSE
    OBVIOUS
  <2>2. kpack'.latest = kpack.latest /\ UNCHANGED kbuilds
    BY <2>1, BeginEffect, LatestSteps
  <2>3. image'.generation = kpack.latest /\ image.generation = kpack.latest
    BY <1>1, <1>2, <2>1, <2>2, ImageGrows
  <2>4. kpack.latest > 0
    BY <2>1, <2>3, BeginGeneration
  <2>5. OfGeneration(kpack.latest) # {}
    BY <2>3, <2>4 DEF LatestInv
  <2> QED
    BY <1>2, <2>1, <2>2, <2>3, <2>5 DEF OfGeneration
<1> QED
  BY <1>2, <1>4, <1>5, <1>6, BegunWas

\* The app as it was pushed has nothing left out.
LEMMA RestInit ==
    ASSUME Init
    PROVE  StartInv /\ LatestInv /\ HolderInv /\ SkippedInv
<1>1. app.lifecycle \in {"buildpack", "docker"}
  BY DEF Init, Lifecycles
<1> DEFINE built == Pushed /\ app.lifecycle = "buildpack"
           first == IF built THEN 1 ELSE 0
<1>2. /\ pkg = [p \in Packages |-> IF Pushed /\ p = 1 THEN FirstPackage ELSE NoPackage]
      /\ build = [b \in Builds |-> IF Pushed /\ b = 1 THEN FirstBuild ELSE NoBuild]
      /\ wl = [b \in Builds |-> IF built /\ b = 1 THEN FirstWorkload ELSE NoWorkload]
      /\ image = [NoImage EXCEPT !.generation = first, !.src = first]
      /\ kbuilds = IF built THEN {FirstKpackBuild} ELSE {}
      /\ kpack = [observed |-> first, latest |-> first, ready |-> built, requested |-> FALSE, count |-> first]
  BY DEF Init
<1>3. image.generation = first /\ image.src = first /\ image.before = 0 /\ kpack.latest = first
  BY <1>2 DEF NoImage
<1>4. /\ \A k \in kbuilds : k.generation = 1 /\ built
      /\ built => \E k \in kbuilds : k.generation = 1
  <2>1. FirstKpackBuild.generation = 1
    BY DEF FirstKpackBuild
  <2> QED
    BY <1>2, <2>1
<1>5. \A b \in Builds : ~Begun(b)
  BY InitEffect DEF NotAsked, PushedOnce, Begun
<1>6. ASSUME NEW b \in Builds
      PROVE  StartShape(wl[b], build[b], pkg[build[b].package])
  <2>1. wl[b].reason # "BuilderNotReady"
    <3>1. FirstWorkload.reason = NoWorkload.reason /\ NoWorkload.reason # "BuilderNotReady"
      BY Zenon DEF FirstWorkload, NoWorkload
    <3> QED
      BY <1>2, <3>1, Zenon
  <2>2. CASE Pushed /\ b = 1
    <3>1. build[b] = FirstBuild
      BY <1>2, <2>2
    <3>2. /\ build[b].phase = "live" /\ build[b].package = 1 /\ build[b].validBuildpacks
          /\ build[b].succeeded = "True"
      BY <3>1 DEF FirstBuild, NoBuild
    <3>3. pkg[1].phase = "live" /\ pkg[1].type = app.lifecycle
      BY <1>2, <2>2, StagingBounds DEF FirstPackage, Packages
    <3>4. /\ wl[b].generation = 0 => wl[b].succeeded = "none"
          /\ wl[b].phase # "none" => app.lifecycle = "buildpack"
          /\ wl[b].succeeded \in {"none", "True"}
          /\ wl[b].phase = "live" => wl[b].succeeded = "True"
      <4>1. CASE NotAsked(b)
        BY <4>1 DEF NotAsked
      <4>2. CASE PushedOnce(b)
        BY <4>2 DEF PushedOnce
      <4> QED
        BY <4>1, <4>2, InitEffect
    <3> QED
      BY <2>1, <3>2, <3>3, <3>4 DEF StartShape
  <2>3. CASE ~(Pushed /\ b = 1)
    <3>1. build[b] = NoBuild /\ wl[b] = NoWorkload
      BY <1>2, <2>3
    <3>2. NoBuild.phase = "none" /\ NoBuild.staging = "none"
      BY DEF NoBuild
    <3>3. NoWorkload.phase = "none" /\ NoWorkload.generation = 0 /\ NoWorkload.succeeded = "none"
      BY DEF NoWorkload
    <3> QED
      BY <2>1, <3>1, <3>2, <3>3 DEF StartShape
  <2> QED
    BY <2>2, <2>3
<1>7. StartInv
  <2>1. image.generation = 0 => image.src = 0 /\ image.before = 0
    BY <1>3
  <2>2. kpack.latest <= image.generation /\ \A k \in kbuilds : k.generation <= kpack.latest
    BY <1>3, <1>4
  <2> QED
    BY <1>6, <2>1, <2>2 DEF StartInv
<1>8. LatestInv
  BY <1>3, <1>4, <1>5 DEF LatestInv, OfGeneration
<1>9. HolderInv /\ SkippedInv
  BY <1>3, <1>5 DEF HolderInv, SkippedInv, LeftOut
<1> QED
  BY <1>7, <1>8, <1>9

\* A build that is not ended and that a reconciliation does not change waits
\* for its workload.
LEMMA OutcomeRests ==
    ASSUME TypeInv, NEW b \in Builds, build[b].phase = "live", build[b].succeeded = "none",
           pkg[build[b].package].phase # "gone",
           \A o \in Outcomes(b) : o[3] = 0 => o[1] = build[b] /\ o[2] = wl[b]
    PROVE  /\ app.lifecycle = "buildpack" /\ build[b].staging # "none"
           /\ wl[b].succeeded \notin {"True", "False"}
<1> DEFINE B == build[b]
           W == wl[b]
           package == pkg[B.package]
<1>1. B \in CFBuild /\ W \in BuildWorkload /\ app.lifecycle \in {"buildpack", "docker"}
  BY DEF TypeInv, TypeOK, Lifecycles
<1>2. Outcomes(b) =
        CASE package.type # app.lifecycle ->
                {<<[B EXCEPT !.succeeded = "False", !.staging = "False"], W, 0>>}
          [] package.type = app.lifecycle /\ app.lifecycle = "docker" -> DockerOutcomes(B, W, package)
          [] package.type = app.lifecycle /\ app.lifecycle = "buildpack" ->
                IF B.staging = "none" THEN StartOutcomes(B, W, package) ELSE FinishOutcomes(B, W)
  BY DEF Outcomes
<1>3. \A E, V : <<E, V, 0>> \in Outcomes(b) => E = B
  OBVIOUS
<1>4. /\ Ended(B, "FAILED").succeeded = "False"
      /\ Ended(B, "STAGED").succeeded = "True" /\ Ended(B, "STAGED") \in CFBuild
  BY <1>1, EndedType
<1>5. package.type = app.lifecycle
  <2>1. SUFFICES ASSUME package.type # app.lifecycle
                 PROVE  FALSE
    OBVIOUS
  <2> DEFINE E == [B EXCEPT !.succeeded = "False", !.staging = "False"]
  <2>2. E.succeeded = "False"
    BY <1>1 DEF CFBuild
  <2>3. <<E, W, 0>> \in Outcomes(b)
    BY <1>2, <2>1
  <2> HIDE DEF E
  <2> QED
    BY <1>3, <2>2, <2>3
<1>6. app.lifecycle # "docker"
  <2>1. SUFFICES ASSUME app.lifecycle = "docker"
                 PROVE  FALSE
    OBVIOUS
  <2>2. Outcomes(b) = DockerOutcomes(B, W, package)
    BY <1>2, <1>5, <2>1
  <2>3. <<Ended(B, "FAILED"), W, 0>> \in Outcomes(b)
    BY <2>2 DEF DockerOutcomes
  <2> QED
    BY <1>3, <1>4, <2>3
<1>7. app.lifecycle = "buildpack"
  BY <1>1, <1>6
<1>8. B.staging # "none"
  <2>1. SUFFICES ASSUME B.staging = "none"
                 PROVE  FALSE
    OBVIOUS
  <2>2. Outcomes(b) = StartOutcomes(B, W, package)
    BY <1>2, <1>5, <1>7, <2>1
  <2> DEFINE E == [B EXCEPT !.staging = "True", !.state = "STAGING"]
             started == IF W.phase = "none" THEN [NoWorkload EXCEPT !.phase = "live", !.src = package.src] ELSE W
  <2>3. E.staging = "True"
    BY <1>1 DEF CFBuild
  <2>4. <<E, started, 0>> \in Outcomes(b)
    BY <2>2, Zenon DEF StartOutcomes
  <2> HIDE DEF E, started
  <2> QED
    BY <1>3, <2>1, <2>3, <2>4
<1>9. W.succeeded \notin {"True", "False"}
  <2>1. Outcomes(b) = FinishOutcomes(B, W)
    BY <1>2, <1>5, <1>7, <1>8
  <2>2. W.succeeded # "False"
    <3>1. SUFFICES ASSUME W.succeeded = "False"
                   PROVE  FALSE
      OBVIOUS
    <3>2. <<Ended(B, "FAILED"), W, 0>> \in Outcomes(b)
      BY <2>1, <3>1 DEF FinishOutcomes
    <3> QED
      BY <1>3, <1>4, <3>2
  <2>3. W.succeeded # "True"
    <3>1. SUFFICES ASSUME W.succeeded = "True"
                   PROVE  FALSE
      OBVIOUS
    <3> DEFINE E == [Ended(B, "STAGED") EXCEPT !.droplet = W.droplet]
    <3>2. E.succeeded = "True"
      <4>1. W.droplet \in Droplet
        BY <1>1 DEF BuildWorkload
      <4> QED
        BY <1>4, <4>1, WithDroplet
    <3>3. <<E, W, 0>> \in Outcomes(b)
      BY <2>1, <3>1 DEF FinishOutcomes
    <3> HIDE DEF E
    <3> QED
      BY <1>3, <3>2, <3>3
  <2> QED
    BY <2>2, <2>3
<1> QED
  BY <1>7, <1>8, <1>9

\* Nobody is left to begin.
LEMMA NoneBegins ==
    ASSUME "order" \notin Races, TypeInv, StartInv, Rests, NEW b \in Builds
    PROVE  ~CanBegin(b)
<1> DEFINE S == {c \in Builds : CanBegin(c)}
<1>1. S \in SUBSET Nat /\ \A c \in Builds : c \in Nat
  BY DEF Builds
<1>2. SUFFICES ASSUME S # {}
               PROVE  FALSE
  OBVIOUS
<1>3. PICK c \in S : \A x \in S : c <= x
  BY <1>1, <1>2, HasLeast
<1>4. c \in Builds /\ CanBegin(c) /\ \A x \in Builds : x < c => ~CanBegin(x)
  BY <1>1, <1>3
<1>5. ~MayBegin(c)
  BY <1>4 DEF Rests, WorkloadRests
<1>6. wl[c].phase # "live"
  BY <1>4, <1>5 DEF MayBegin
<1>7. /\ wl[c].phase = "none" /\ build[c].phase = "live" /\ build[c].succeeded = "none"
      /\ pkg[build[c].package].phase # "gone"
  BY <1>4, <1>6 DEF CanBegin
<1>8. build[c].staging # "none"
  BY <1>4, <1>7, OutcomeRests DEF Rests, BuilderRests
<1> QED
  BY <1>4, <1>7, <1>8 DEF StartInv, StartShape

\* A workload that waits is one kpack has left out.
LEMMA WaitsInVain ==
    ASSUME TypeInv, OrderInv, StartInv, Rests, NEW b \in Builds, Begun(b)
    PROVE  LeftOut(b) /\ wl[b].generation > 0
<1>1. /\ wl[b].generation \in Nat /\ image.generation \in Nat /\ kpack.latest \in Nat
      /\ wl[b].generation <= image.generation
  BY DEF TypeInv, TypeOK, BuildWorkload, OrderInv
<1>2. wl[b].generation > 0
  <2>1. StartShape(wl[b], build[b], pkg[build[b].package])
    BY DEF StartInv
  <2> QED
    BY <1>1, <2>1 DEF StartShape, Begun
<1>3. ~Running /\ kpack.ready /\ kpack.observed = image.generation /\ ~kpack.requested
  BY <1>1, <1>2 DEF Rests, KpackRests, Needed
<1>4. OfGeneration(wl[b].generation) = {}
  BY <1>3 DEF Rests, WorkloadRests, Begun, Running, OfGeneration
<1>5. wl[b].generation <= kpack.latest
  BY <1>1, <1>3 DEF Rests, WorkloadRests, Begun, BuildCreationHasBeenSkipped
<1> QED
  BY <1>2, <1>4, <1>5 DEF LeftOut

\* Hence a build that is not ended is one whose end nobody can notice.
LEMMA RestSuffices ==
    ASSUME "order" \notin Races, TypeInv, ShapeInv, OrderInv, StartInv, LatestInv, SkippedInv
    PROVE  EndedAtRest
<1>1. SUFFICES ASSUME Rests, NEW b \in Builds, RecordState(b) = "STAGING", ~Abandoned(b)
               PROVE  FALSE
  BY DEF EndedAtRest
<1>2. build[b].phase = "live" /\ build[b].state # "STAGED"
  BY <1>1 DEF RecordState, TypeInv, TypeOK, CFBuild
<1>3. build[b].succeeded = "none"
  <2>1. build[b].succeeded \in {"none", "True", "False"}
    BY DEF TypeInv, TypeOK, CFBuild
  <2> QED
    BY <1>1, <1>2, <2>1 DEF ShapeInv, BuildInv, BuildShape, Abandoned
<1>4. pkg[build[b].package].phase # "gone"
  BY <1>1 DEF Abandoned
<1>5. build[b].staging # "none" /\ wl[b].succeeded \notin {"True", "False"}
  BY <1>1, <1>2, <1>3, <1>4, OutcomeRests DEF Rests, BuilderRests
<1>6. wl[b].phase = "live" /\ wl[b].src # 0
  <2>1. wl[b].phase # "none"
    BY <1>3, <1>5 DEF StartInv, StartShape
  <2>2. wl[b].phase \in {"none", "live", "deleting", "gone"}
    BY DEF TypeInv, TypeOK, BuildWorkload
  <2> QED
    BY <1>1, <1>5, <2>1, <2>2, WaitingStays DEF Abandoned
<1>7. ASSUME NEW c \in Builds, wl[c].phase = "live", wl[c].succeeded = "none", wl[c].src # 0
      PROVE  FALSE
  <2>1. build[c].phase = "live" /\ build[c].succeeded = "none"
    <3>1. build[c].phase \in {"none", "live", "gone"}
      BY DEF TypeInv, TypeOK, CFBuild
    <3> QED
      BY <1>7, <3>1, WaitingStays DEF StartInv, StartShape
  <2>2. build[c].validBuildpacks
    BY <1>1, <1>7 DEF Rests, WorkloadRests
  <2>3. CanBegin(c)
    BY <1>7, <2>1, <2>2 DEF CanBegin
  <2> QED
    BY <1>1, <2>3, NoneBegins
<1>8. Begun(b)
  <2>1. wl[b].succeeded \in {"none", "Unknown", "True", "False"}
    BY DEF TypeInv, TypeOK, BuildWorkload
  <2> QED
    BY <1>5, <1>6, <1>7, <2>1 DEF Begun
<1>9. PICK c \in Builds \ {b} : Notices(c, kpack.latest)
  BY <1>1, <1>8, WaitsInVain DEF SkippedInv
<1>10. wl[c].generation # 0 /\ wl[c].reason # "BuilderNotReady"
  BY <1>1, <1>9 DEF Abandoned, Notices
<1>11. CASE wl[c].phase = "live" /\ wl[c].succeeded = "none"
  <2>1. wl[c].generation \in Nat /\ WorkloadShape(wl[c], build[c], app.lifecycle)
    BY DEF TypeInv, TypeOK, BuildWorkload, ShapeInv, WorkloadInv
  <2>2. wl[c].src # 0
    BY <1>10, <2>1 DEF WorkloadShape
  <2> QED
    BY <1>7, <1>11, <2>2
<1>12. CASE Begun(c) /\ wl[c].generation >= kpack.latest
  <2>1. LeftOut(c) /\ wl[c].generation > 0
    BY <1>1, <1>12, WaitsInVain
  <2>2. wl[c].generation \in Nat /\ kpack.latest \in Nat
    BY DEF TypeInv, TypeOK, BuildWorkload
  <2>3. wl[c].generation = kpack.latest /\ kpack.latest > 0
    BY <1>12, <2>1, <2>2 DEF LeftOut
  <2>4. OfGeneration(kpack.latest) # {}
    BY <1>12, <2>3 DEF LatestInv
  <2> QED
    BY <2>1, <2>3, <2>4 DEF LeftOut
<1> QED
  BY <1>9, <1>10, <1>11, <1>12 DEF Notices

\* When everything rests, only builds whose end the code is not able to
\* notice are not ended, whatever failed before: a generation that kpack has
\* left out is asked for again, or the workload that has it is failed by a
\* later one, although each of them looks at the Builds of its own generation
\* only.  Workloads that overtake older ones are excluded: kpack may then
\* build nothing for a source it has built before, whose Builds are gone.
THEOREM BuildsEndedAtRest ==
    ASSUME "order" \notin Races
    PROVE  Spec => []EndedAtRest
<1> DEFINE Inv == /\ TypeInv /\ ShapeInv /\ OrderInv /\ NewerInv /\ ImageInv
                  /\ StartInv /\ LatestInv /\ HolderInv /\ SkippedInv
<1>1. Init => Inv
  BY InitInv, RestInit
<1>2. Inv /\ [Next]_vars => Inv'
  BY NextType, NextShapes, NextOrder, NextNewer, NextImages, NextStart, NextLatest, NextHolder, NextSkipped
<1>3. Inv => EndedAtRest
  BY RestSuffices
<1> QED
  BY <1>1, <1>2, <1>3, PTL DEF Spec

=============================================================================
