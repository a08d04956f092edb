------------------------- MODULE AppLifecycleProofs -------------------------
(***************************************************************************)
(* Theorems about AppLifecycle.                                            *)
(*                                                                         *)
(* Typing needs a bound on the revision of the app: a deployment writes    *)
(* the revision it has read plus one, a stop increments the one it finds,  *)
(* and each costs an API call.  What is claimed of workloads rests on two  *)
(* more facts: only the worker of the runner removes a workload, so the    *)
(* one it works on is there; and, while API requests do not overlap, the   *)
(* last stop of a live app only grows, so that every workload belongs to   *)
(* an earlier stop than the next one.                                      *)
(***************************************************************************)
EXTENDS AppLifecycle, FiniteSetTheorems, TLAPS

-----------------------------------------------------------------------------
(* Typing.                                                                 *)

Pending == {r \in Requests : reqs[r] # None}

\* What an API request writes.
RequestPatch(p) ==
    /\ p = [f \in DOMAIN p |-> p[f]]
    /\ DOMAIN p \subseteq {"desired", "droplet", "rev"}
    /\ "desired" \in DOMAIN p => p["desired"] \in States
    /\ "droplet" \in DOMAIN p => p["droplet"] \in Droplets \cup {None}
    /\ "rev" \in DOMAIN p => /\ p["rev"] \in Nat
                             /\ "desired" \in DOMAIN p => p["desired"] = "STARTED"

\* What the app controller writes.
ControllerPatch(p) ==
    /\ p = [f \in DOMAIN p |-> p[f]]
    /\ DOMAIN p \subseteq {"lastStop", "observed", "actual", "ready"}
    /\ "lastStop" \in DOMAIN p => p["lastStop"] \in Revs
    /\ "observed" \in DOMAIN p => p["observed"] \in Nat
    /\ "actual" \in DOMAIN p => p["actual"] \in States
    /\ "ready" \in DOMAIN p => p["ready"] \in BOOLEAN

ReqsOK == \A r \in Requests : reqs[r] # None => RequestPatch(reqs[r])

\* The revision is paid for by API calls, and so is that of a deployment
\* that has been read and not yet written.
RevInv ==
    /\ DOMAIN reqs = Requests
    /\ ops \in 0..MaxOps
    /\ IsFiniteSet(Pending)
    /\ app.rev + Cardinality(Pending) <= ops
    /\ \A r \in Pending : "rev" \in DOMAIN reqs[r]
            => reqs[r]["rev"] + Cardinality(Pending) <= ops + 1

AppWorkerOK ==
    \/ appC = Idle
    \/ appC \in [pc : {"read"}, read : CFApp]
    \/ /\ appC = [pc |-> "status", patch |-> appC.patch, requeue |-> appC.requeue]
       /\ ControllerPatch(appC.patch)
       /\ appC.requeue \in BOOLEAN

SeenApp ==
    [phase : {"live", "deleting", "gone"}, desired : States,
     droplet : Droplets \cup {None}, rev : Revs, lastStop : Revs \cup {None},
     outdated : BOOLEAN]
ProcessWorker ==
    {Idle} \cup [pc : {"read"}, instances : Nat, app : SeenApp]
           \cup [pc : {"applied"}, desired : States, instances : Nat, name : Names]
RunnerWorker ==
    {Idle} \cup [pc : {"read"}, name : Names, read : AppWorkload]

WorkersOK == AppWorkerOK /\ procC \in ProcessWorker /\ wlC \in RunnerWorker

WlsOK == wls \in [Names -> AppWorkload \cup {NoWorkload}]
StsOK == /\ sts \in [Revs -> StatefulSet]
         /\ \A v \in Revs : sts[v].readyPods <= sts[v].pods
QueueOK == queue \in [app : BOOLEAN, proc : BOOLEAN, wls : SUBSET Names]
BoundOK == bound \in {"none", "pending", "ready", "deleting"}

TypeInv ==
    /\ app \in CFApp /\ proc \in CFProcess
    /\ WlsOK /\ StsOK /\ BoundOK /\ QueueOK
    /\ ReqsOK /\ RevInv /\ WorkersOK

\* It gives the type invariant of the module.
LEMMA TypeSuffices ==
    ASSUME TypeInv
    PROVE  TypeOK
<1>1. appC.pc \in {"idle", "read", "status"}
  BY DEF TypeInv, WorkersOK, AppWorkerOK, Idle
<1>2. procC.pc \in {"idle", "read", "applied"} /\ wlC.pc \in {"idle", "read"}
  BY DEF TypeInv, WorkersOK, ProcessWorker, RunnerWorker, Idle
<1> QED
  BY <1>1, <1>2 DEF TypeInv, TypeOK, WlsOK, StsOK, BoundOK, QueueOK

-----------------------------------------------------------------------------
(* The operators that write the app.                                       *)

Fields ==
    {"phase", "desired", "droplet", "gen", "rev", "lastStop", "observed", "actual",
     "ready", "label"}

\* The value of a field after a patch.
Value(p, f, x) == IF f \in DOMAIN p THEN p[f] ELSE x

IsApp(a) == a = [f \in Fields |-> a[f]]

\* A record with the fields of an app, each of its type, is an app.
LEMMA AppIntro ==
    ASSUME NEW a, IsApp(a),
           a.phase \in {"live", "deleting", "gone"}, a.desired \in States,
           a.droplet \in Droplets \cup {None}, a.gen \in Nat, a.rev \in Revs,
           a.lastStop \in Revs \cup {None}, a.observed \in Nat,
           a.actual \in States \cup {None}, a.ready \in BOOLEAN,
           a.label \in {"ACTIVE", "FINALIZED"}
    PROVE  a \in CFApp
BY DEF IsApp, Fields, CFApp

\* The fields of an app.
LEMMA AppElim ==
    ASSUME NEW a \in CFApp
    PROVE  /\ IsApp(a)
           /\ a.phase \in {"live", "deleting", "gone"} /\ a.desired \in States
           /\ a.droplet \in Droplets \cup {None} /\ a.gen \in Nat /\ a.rev \in Revs
           /\ a.lastStop \in Revs \cup {None} /\ a.observed \in Nat
           /\ a.actual \in States \cup {None} /\ a.ready \in BOOLEAN
           /\ a.label \in {"ACTIVE", "FINALIZED"}
BY DEF IsApp, Fields, CFApp

\* Changing a field of an app changes nothing else.
LEMMA AppExcept ==
    ASSUME NEW a, IsApp(a), NEW f \in Fields, NEW x, NEW b, b = [a EXCEPT ![f] = x]
    PROVE  IsApp(b) /\ b[f] = x /\ \A g \in Fields : g # f => b[g] = a[g]
BY DEF IsApp

\* Merge takes the fields of the patch from the patch, the others as they are.
LEMMA MergeEffect ==
    ASSUME NEW a, IsApp(a), NEW p, NEW m, m = Merge(a, p)
    PROVE  IsApp(m) /\ \A f \in Fields : m[f] = Value(p, f, a[f])
BY DEF IsApp, Merge, Value

\* MergeFrom contains what was changed.
LEMMA MergeFromEffect ==
    ASSUME NEW a, IsApp(a), NEW b, IsApp(b), NEW p, p = MergeFrom(a, b)
    PROVE  /\ DOMAIN p = {f \in Fields : b[f] # a[f]}
           /\ p = [f \in DOMAIN p |-> p[f]]
           /\ \A f \in DOMAIN p : p[f] = b[f]
BY DEF IsApp, MergeFrom

\* The change that makes the webhook count a stop.
Stops(old, new) == new.desired = "STOPPED" /\ old.desired = "STARTED"

\* What a patch of the main resource leaves behind: the fields of the patch
\* but for the status, and a new last stop if it stops the app.
LEMMA PatchMainEffect ==
    ASSUME IsApp(app), NEW p, "phase" \notin DOMAIN p, "gen" \notin DOMAIN p,
           NEW a, a = PatchMain(p)
    PROVE  /\ IsApp(a)
           /\ a.phase = app.phase
           /\ a.desired = Value(p, "desired", app.desired)
           /\ a.droplet = Value(p, "droplet", app.droplet)
           /\ a.gen = IF a.desired = app.desired /\ a.droplet = app.droplet
                      THEN app.gen ELSE app.gen + 1
           /\ a.observed = app.observed /\ a.actual = app.actual /\ a.ready = app.ready
           /\ a.label \in {"ACTIVE", "FINALIZED"}
           /\ Stops(app, a) => /\ a.rev = Value(p, "rev", app.rev) + 1
                               /\ a.lastStop = a.rev
           /\ ~Stops(app, a) => /\ a.rev = Value(p, "rev", app.rev)
                                /\ a.lastStop = Value(p, "lastStop", app.lastStop)
<1> DEFINE m == Merge(app, p)
           w == AppRevWebhook(app, m)
           d == DeploymentStatusLabel(w)
           c == CountGeneration(app, d)
<1>1. /\ IsApp(m) /\ m.phase = app.phase /\ m.gen = app.gen
      /\ m.desired = Value(p, "desired", app.desired)
      /\ m.droplet = Value(p, "droplet", app.droplet)
      /\ m.rev = Value(p, "rev", app.rev)
      /\ m.lastStop = Value(p, "lastStop", app.lastStop)
  <2>1. IsApp(m) /\ \A f \in Fields : m[f] = Value(p, f, app[f])
    BY MergeEffect
  <2> QED
    BY <2>1 DEF Fields, Value
<1> HIDE DEF m
<1>2. /\ IsApp(w) /\ w.phase = m.phase /\ w.gen = m.gen
      /\ w.desired = m.desired /\ w.droplet = m.droplet
      /\ Stops(app, m) => w.rev = m.rev + 1 /\ w.lastStop = m.rev + 1
      /\ ~Stops(app, m) => w.rev = m.rev /\ w.lastStop = m.lastStop
  BY <1>1 DEF AppRevWebhook, Stops, IsApp, Fields
<1> HIDE DEF w
<1>3. /\ IsApp(d) /\ d.phase = w.phase /\ d.gen = w.gen
      /\ d.desired = w.desired /\ d.droplet = w.droplet
      /\ d.rev = w.rev /\ d.lastStop = w.lastStop
      /\ d.label \in {"ACTIVE", "FINALIZED"}
  BY <1>2 DEF DeploymentStatusLabel, IsApp, Fields
<1> HIDE DEF d
<1>4. /\ IsApp(c) /\ c.phase = d.phase
      /\ c.gen = IF d.desired = app.desired /\ d.droplet = app.droplet
                 THEN d.gen ELSE d.gen + 1
      /\ c.desired = d.desired /\ c.droplet = d.droplet
      /\ c.rev = d.rev /\ c.lastStop = d.lastStop
      /\ c.label = d.label
  BY <1>3 DEF CountGeneration, IsApp, Fields
<1> HIDE DEF c
<1>5. a = KeepStatus(app, c)
  BY DEF PatchMain, c, d, w, m
<1>6. /\ IsApp(a) /\ a.phase = c.phase /\ a.gen = c.gen
      /\ a.desired = c.desired /\ a.droplet = c.droplet
      /\ a.rev = c.rev /\ a.lastStop = c.lastStop /\ a.label = c.label
      /\ a.observed = app.observed /\ a.actual = app.actual /\ a.ready = app.ready
  BY <1>4, <1>5 DEF KeepStatus, IsApp, Fields
<1> QED
  BY <1>1, <1>2, <1>3, <1>4, <1>6 DEF Stops

\* What a patch of the status leaves behind.
LEMMA PatchStatusEffect ==
    ASSUME IsApp(app), NEW p, NEW a, a = PatchStatus(p)
    PROVE  /\ IsApp(a)
           /\ a.phase = app.phase /\ a.desired = app.desired /\ a.droplet = app.droplet
           /\ a.gen = app.gen /\ a.rev = app.rev /\ a.lastStop = app.lastStop
           /\ a.label = app.label
           /\ a.observed = Value(p, "observed", app.observed)
           /\ a.actual = Value(p, "actual", app.actual)
           /\ a.ready = Value(p, "ready", app.ready)
<1> DEFINE m == Merge(app, p)
<1>1. IsApp(m) /\ \A f \in Fields : m[f] = Value(p, f, app[f])
  BY MergeEffect
<1> HIDE DEF m
<1>2. a = KeepStatus(m, app)
  BY DEF PatchStatus, m
<1> QED
  BY <1>1, <1>2 DEF KeepStatus, IsApp, Fields

\* A request changes the spec and the revision; only a stop sets the last stop.
LEMMA RequestWrites ==
    ASSUME app \in CFApp, NEW p, RequestPatch(p), app.rev < MaxOps,
           "rev" \in DOMAIN p => p["rev"] <= MaxOps,
           NEW a, a = PatchMain(p)
    PROVE  /\ a \in CFApp /\ a.phase = app.phase
           /\ \/ /\ ~Stops(app, a)
                 /\ a.rev = Value(p, "rev", app.rev) /\ a.lastStop = app.lastStop
              \/ /\ Stops(app, a)
                 /\ a.rev = app.rev + 1 /\ a.lastStop = a.rev
<1>1. "phase" \notin DOMAIN p /\ "gen" \notin DOMAIN p /\ "lastStop" \notin DOMAIN p
  BY DEF RequestPatch
<1>2. IsApp(app)
  BY AppElim
<1> DEFINE v == Value(p, "rev", app.rev)
<1>3. /\ IsApp(a) /\ a.phase = app.phase
      /\ a.desired = Value(p, "desired", app.desired)
      /\ a.droplet = Value(p, "droplet", app.droplet)
      /\ a.gen = IF a.desired = app.desired /\ a.droplet = app.droplet
                 THEN app.gen ELSE app.gen + 1
      /\ a.observed = app.observed /\ a.actual = app.actual /\ a.ready = app.ready
      /\ a.label \in {"ACTIVE", "FINALIZED"}
      /\ Stops(app, a) => a.rev = v + 1 /\ a.lastStop = a.rev
      /\ ~Stops(app, a) => a.rev = v /\ a.lastStop = Value(p, "lastStop", app.lastStop)
  BY <1>1, <1>2, PatchMainEffect
<1>4. Value(p, "lastStop", app.lastStop) = app.lastStop
  BY <1>1 DEF Value
<1>5. Stops(app, a) => v = app.rev
  BY <1>3 DEF Stops, Value, RequestPatch
<1>6. v \in Revs
  BY BoundsAssumption, AppElim DEF RequestPatch, Value, Revs
<1> HIDE DEF v
<1>7. a.desired \in States /\ a.droplet \in Droplets \cup {None} /\ a.gen \in Nat
  BY <1>3, AppElim DEF RequestPatch, Value
<1>8. a.rev \in Revs /\ a.lastStop \in Revs \cup {None}
  BY <1>3, <1>4, <1>5, <1>6, AppElim, BoundsAssumption DEF Revs
<1>9. a \in CFApp
  BY <1>3, <1>7, <1>8, AppIntro, AppElim
<1> QED
  BY <1>3, <1>4, <1>5, <1>9 DEF v

\* The controller changes the last stop, and leaves spec and revision alone.
LEMMA ControllerWrites ==
    ASSUME app \in CFApp, NEW p, ControllerPatch(p), NEW a, a = PatchMain(p)
    PROVE  /\ a \in CFApp
           /\ a.phase = app.phase /\ a.desired = app.desired /\ a.droplet = app.droplet
           /\ a.rev = app.rev /\ a.lastStop = Value(p, "lastStop", app.lastStop)
<1>1. /\ "phase" \notin DOMAIN p /\ "gen" \notin DOMAIN p /\ "desired" \notin DOMAIN p
      /\ "droplet" \notin DOMAIN p /\ "rev" \notin DOMAIN p
  BY DEF ControllerPatch
<1>2. IsApp(app)
  BY AppElim
<1>3. /\ IsApp(a) /\ a.phase = app.phase
      /\ a.desired = Value(p, "desired", app.desired)
      /\ a.droplet = Value(p, "droplet", app.droplet)
      /\ a.gen = IF a.desired = app.desired /\ a.droplet = app.droplet
                 THEN app.gen ELSE app.gen + 1
      /\ a.observed = app.observed /\ a.actual = app.actual /\ a.ready = app.ready
      /\ a.label \in {"ACTIVE", "FINALIZED"}
      /\ ~Stops(app, a) => /\ a.rev = Value(p, "rev", app.rev)
                           /\ a.lastStop = Value(p, "lastStop", app.lastStop)
  BY <1>1, <1>2, PatchMainEffect
<1>4. a.desired = app.desired /\ a.droplet = app.droplet /\ a.gen = app.gen /\ ~Stops(app, a)
  BY <1>1, <1>3 DEF Value, Stops
<1>5. a.rev = app.rev /\ a.lastStop = Value(p, "lastStop", app.lastStop)
  BY <1>1, <1>3, <1>4 DEF Value
<1>6. a.lastStop \in Revs \cup {None}
  BY <1>5, AppElim DEF Value, ControllerPatch
<1> QED
  BY <1>3, <1>4, <1>5, <1>6, AppIntro, AppElim

\* The status patch changes the status only.
LEMMA StatusWrites ==
    ASSUME app \in CFApp, NEW p, ControllerPatch(p), NEW a, a = PatchStatus(p)
    PROVE  /\ a \in CFApp
           /\ a.phase = app.phase /\ a.desired = app.desired /\ a.droplet = app.droplet
           /\ a.rev = app.rev /\ a.lastStop = app.lastStop
<1>1. IsApp(app)
  BY AppElim
<1>2. /\ IsApp(a)
      /\ a.phase = app.phase /\ a.desired = app.desired /\ a.droplet = app.droplet
      /\ a.gen = app.gen /\ a.rev = app.rev /\ a.lastStop = app.lastStop
      /\ a.label = app.label
      /\ a.observed = Value(p, "observed", app.observed)
      /\ a.actual = Value(p, "actual", app.actual)
      /\ a.ready = Value(p, "ready", app.ready)
  BY <1>1, PatchStatusEffect
<1>3. a.observed \in Nat /\ a.actual \in States \cup {None} /\ a.ready \in BOOLEAN
  BY <1>2, AppElim DEF Value, ControllerPatch
<1> QED
  BY <1>2, <1>3, AppIntro, AppElim

\* What a reconciliation makes of the app it has read: its spec, and the
\* revision, stay.
Reconciled(read, a) ==
    /\ a \in CFApp /\ a.actual \in States
    /\ a.phase = read.phase /\ a.desired = read.desired /\ a.droplet = read.droplet
    /\ a.gen = read.gen /\ a.rev = read.rev /\ a.label = read.label
    /\ a.lastStop # read.lastStop => a.lastStop = LastStopRevision(read)

\* The main patch of a reconciliation, and what the worker keeps for the
\* status patch.
LEMMA PatchCFAppEffect ==
    ASSUME app \in CFApp, appC.read \in CFApp, NEW a, Reconciled(appC.read, a),
           NEW q \in BOOLEAN, PatchCFApp(a, q)
    PROVE  /\ app' \in CFApp
           /\ app'.phase = app.phase /\ app'.desired = app.desired
           /\ app'.droplet = app.droplet /\ app'.rev = app.rev
           /\ app'.lastStop = IF a.lastStop = appC.read.lastStop
                              THEN app.lastStop ELSE a.lastStop
           /\ AppWorkerOK' /\ appC'.pc = "status"
<1> DEFINE read == appC.read
           p == MergeFrom(read, a)
<1>1. IsApp(a) /\ IsApp(read)
  BY AppElim DEF Reconciled
<1>2. /\ p = MergeFrom(read, a)
      /\ app' = IF a = appC.read THEN app ELSE PatchMain(p)
      /\ appC' = [pc |-> "status", patch |-> p, requeue |-> q]
  BY DEF PatchCFApp
<1>3. LastStopRevision(read) \in Revs
  BY AppElim DEF LastStopRevision
<1> HIDE DEF p, read
<1>4. /\ DOMAIN p = {f \in Fields : a[f] # read[f]}
      /\ p = [f \in DOMAIN p |-> p[f]]
      /\ \A f \in DOMAIN p : p[f] = a[f]
  BY <1>1, <1>2 DEF IsApp, MergeFrom
<1> USE DEF read
<1>5. ControllerPatch(p)
  <2>1. DOMAIN p \subseteq {"lastStop", "observed", "actual", "ready"}
    BY <1>4 DEF Reconciled, Fields
  <2>2. "lastStop" \in DOMAIN p => p["lastStop"] \in Revs
    BY <1>4, <1>3 DEF Reconciled, Fields
  <2>3. /\ "observed" \in DOMAIN p => p["observed"] \in Nat
        /\ "actual" \in DOMAIN p => p["actual"] \in States
        /\ "ready" \in DOMAIN p => p["ready"] \in BOOLEAN
    BY <1>4, AppElim DEF Reconciled
  <2> QED
    BY <1>4, <2>1, <2>2, <2>3 DEF ControllerPatch
<1>6. Value(p, "lastStop", app.lastStop) = IF a.lastStop = read.lastStop
                                           THEN app.lastStop ELSE a.lastStop
  BY <1>4 DEF Value, Fields
<1>7. AppWorkerOK' /\ appC'.pc = "status"
  BY <1>2, <1>5 DEF AppWorkerOK, ControllerPatch
<1>8. CASE a = read
  BY <1>2, <1>7, <1>8
<1>9. CASE a # read
  BY <1>2, <1>5, <1>6, <1>7, <1>9, ControllerWrites
<1> QED
  BY <1>8, <1>9

\* A request changes no more than it was asked to, and a deployment writes
\* the revision it has read plus one.
LEMMA ReadAppPatch ==
    ASSUME app \in CFApp, NEW kind \in {"start", "stop", "droplet", "deploy"},
           NEW d \in Droplets \cup {None},
           NEW p, p = MergeFrom(app, ModifiedApp(app, kind, d))
    PROVE  /\ RequestPatch(p)
           /\ "rev" \in DOMAIN p => p["rev"] = app.rev + 1
<1>1. IsApp(app) /\ app.rev \in Nat /\ app.desired \in States /\ app.droplet \in Droplets \cup {None}
  BY AppElim, BoundsAssumption DEF Revs
<1> DEFINE m == ModifiedApp(app, kind, d)
<1>2. /\ IsApp(m)
      /\ \A f \in Fields \ {"desired", "droplet", "rev"} : m[f] = app[f]
      /\ m.desired \in States /\ m.droplet \in Droplets \cup {None}
      /\ m.rev # app.rev => m.rev = app.rev + 1 /\ m.desired = "STARTED"
  <2>1. CASE kind = "start"
    BY <1>1, <2>1 DEF ModifiedApp, IsApp, Fields, States
  <2>2. CASE kind = "stop"
    BY <1>1, <2>2 DEF ModifiedApp, IsApp, Fields, States
  <2>3. CASE kind = "droplet"
    BY <1>1, <2>3 DEF ModifiedApp, IsApp, Fields, States
  <2>4. CASE kind = "deploy"
    BY <1>1, <2>4 DEF ModifiedApp, IsApp, Fields, States
  <2> QED
    BY <2>1, <2>2, <2>3, <2>4
<1> HIDE DEF m
<1>3. /\ DOMAIN p = {f \in Fields : m[f] # app[f]}
      /\ p = [f \in DOMAIN p |-> p[f]]
      /\ \A f \in DOMAIN p : p[f] = m[f]
  <2>1. p = MergeFrom(app, m)
    BY DEF m
  <2> QED
    BY <1>1, <1>2, <2>1, MergeFromEffect
<1>4. DOMAIN p \subseteq {"desired", "droplet", "rev"}
  BY <1>2, <1>3
<1> QED
  BY <1>1, <1>2, <1>3, <1>4 DEF RequestPatch, Fields

\* A reconciliation of a live app: its last stop is set if it had none, and
\* the process is created in the step that does so.
LEMMA ReconcileEffect ==
    ASSUME app \in CFApp, proc \in CFProcess, AppWorkerOK, ReconcileCFApp
    PROVE  /\ appC.read \in CFApp /\ appC.read.phase = "live"
           /\ app' \in CFApp
           /\ app'.phase = app.phase /\ app'.desired = app.desired
           /\ app'.droplet = app.droplet /\ app'.rev = app.rev
           /\ app'.lastStop = IF appC.read.lastStop = None
                              THEN appC.read.rev ELSE app.lastStop
           /\ AppWorkerOK' /\ appC'.pc = "status"
           /\ proc' = proc \/ proc' = NewCFProcess
<1>1. appC.read \in CFApp /\ appC.read.phase = "live"
  BY DEF AppWorkerOK, ReconcileCFApp, Idle
<1> DEFINE r == appC.read
           last == LastStopRevision(r)
           a == [Observed(r) EXCEPT !.lastStop = last]
<1>2. /\ IsApp(r) /\ r.gen \in Nat /\ last \in Revs /\ r.rev \in Revs
      /\ r.rev # None
      /\ last = IF r.lastStop = None THEN r.rev ELSE r.lastStop
  BY <1>1, AppElim, NoneAssumption, BoundsAssumption DEF LastStopRevision, Revs
<1>3. ASSUME NEW s \in States, NEW ready \in BOOLEAN, NEW b,
             b = [a EXCEPT !.actual = s, !.ready = ready]
      PROVE  Reconciled(r, b) /\ b.lastStop = last
  <2>1. /\ IsApp(b) /\ b.phase = r.phase /\ b.desired = r.desired /\ b.droplet = r.droplet
        /\ b.gen = r.gen /\ b.rev = r.rev /\ b.label = r.label /\ b.lastStop = last
        /\ b.observed = r.gen /\ b.actual = s /\ b.ready = ready
    BY <1>2, <1>3 DEF Observed, IsApp, Fields
  <2>2. b \in CFApp
    BY <1>1, <1>2, <2>1, AppIntro, AppElim
  <2> QED
    BY <2>1, <2>2 DEF Reconciled
<1>4. [a EXCEPT !.ready = FALSE] = [a EXCEPT !.actual = "STOPPED", !.ready = FALSE]
  BY <1>2 DEF Observed, IsApp, Fields
<1>5. "STOPPED" \in States /\ ActualState(ReconcileProcesses) \in States
  BY DEF States, ActualState
<1> DEFINE unready == [a EXCEPT !.ready = FALSE]
           done == [a EXCEPT !.actual = ActualState(ReconcileProcesses),
                             !.ready = ActualState(ReconcileProcesses) = a.desired
                                          /\ ReconcileProcesses.ready]
<1>6. /\ Reconciled(r, unready) /\ unready.lastStop = last
  BY <1>3, <1>4, <1>5
<1>7. ReconcileProcesses.ready \in BOOLEAN
  BY DEF ReconcileProcesses, CFProcess, NewCFProcess
<1>8. (ActualState(ReconcileProcesses) = a.desired /\ ReconcileProcesses.ready) \in BOOLEAN
  BY <1>7
<1>9. /\ Reconciled(r, done) /\ done.lastStop = last
  BY <1>3, <1>5, <1>8
<1>10. \/ PatchCFApp(unready, TRUE) /\ proc' = proc
       \/ PatchCFApp(unready, FALSE) /\ proc' = proc
       \/ \E q \in BOOLEAN : PatchCFApp(done, q) /\ proc' = ReconcileProcesses
  <2> SUFFICES ASSUME NEW ready, ready = (ActualState(ReconcileProcesses) = a.desired
                                          /\ ReconcileProcesses.ready)
               PROVE  (~ready) \in BOOLEAN
    BY <1>8 DEF ReconcileCFApp
  <2> QED
    BY <1>8
<1> HIDE DEF unready, done, a, last
<1>11. \E b : \E q \in BOOLEAN : /\ Reconciled(r, b) /\ b.lastStop = last
                                 /\ PatchCFApp(b, q)
                                 /\ proc' \in {proc, ReconcileProcesses}
  BY <1>6, <1>9, <1>10
<1>12. PICK b, q : /\ q \in BOOLEAN
                   /\ Reconciled(r, b) /\ b.lastStop = last
                   /\ PatchCFApp(b, q)
                   /\ proc' \in {proc, ReconcileProcesses}
  BY <1>11
<1>13. /\ app' \in CFApp
       /\ app'.phase = app.phase /\ app'.desired = app.desired
       /\ app'.droplet = app.droplet /\ app'.rev = app.rev
       /\ app'.lastStop = IF b.lastStop = r.lastStop THEN app.lastStop ELSE b.lastStop
       /\ AppWorkerOK' /\ appC'.pc = "status"
  BY <1>1, <1>12, PatchCFAppEffect
<1> QED
  BY <1>1, <1>2, <1>12, <1>13 DEF ReconcileProcesses

\* A finalization: the app that was read is being deleted, and the app goes
\* or only its status is about to change.
LEMMA FinalizeEffect ==
    ASSUME app \in CFApp, BoundOK, AppWorkerOK, FinalizeCFApp
    PROVE  /\ appC.read \in CFApp /\ appC.read.phase = "deleting"
           /\ app' \in CFApp
           /\ app'.phase \in {app.phase, "gone"} /\ app'.desired = app.desired
           /\ app'.droplet = app.droplet /\ app'.rev = app.rev
           /\ app'.lastStop = app.lastStop
           /\ AppWorkerOK' /\ appC'.pc # "read"
           /\ BoundOK'
<1>1. appC.read \in CFApp /\ appC.read.phase = "deleting"
  BY DEF AppWorkerOK, FinalizeCFApp, Idle
<1>2. CASE bound # "none"
  <2> DEFINE r == appC.read
             b == [Observed(r) EXCEPT !.ready = TRUE]
  <2>1. IsApp(r) /\ r.gen \in Nat
    BY <1>1, AppElim
  <2>2. /\ IsApp(b) /\ b.phase = r.phase /\ b.desired = r.desired /\ b.droplet = r.droplet
        /\ b.gen = r.gen /\ b.rev = r.rev /\ b.label = r.label /\ b.lastStop = r.lastStop
        /\ b.observed = r.gen /\ b.actual = "STOPPED" /\ b.ready = TRUE
    BY <2>1 DEF Observed, IsApp, Fields
  <2>3. PatchCFApp(b, TRUE) /\ bound' = "deleting"
    BY <1>2 DEF FinalizeCFApp
  <2> HIDE DEF b
  <2>4. b \in CFApp /\ Reconciled(r, b)
    <3>1. "STOPPED" \in States
      BY DEF States
    <3>2. b \in CFApp
      BY <1>1, <2>1, <2>2, <3>1, AppIntro, AppElim, ZenonT(30)
    <3> QED
      BY <2>2, <3>1, <3>2 DEF Reconciled
  <2>5. /\ app' \in CFApp
        /\ app'.phase = app.phase /\ app'.desired = app.desired
        /\ app'.droplet = app.droplet /\ app'.rev = app.rev
        /\ app'.lastStop = IF b.lastStop = r.lastStop THEN app.lastStop ELSE b.lastStop
        /\ AppWorkerOK' /\ appC'.pc = "status"
    BY <1>1, <2>3, <2>4, PatchCFAppEffect
  <2> QED
    BY <1>1, <2>2, <2>3, <2>5 DEF BoundOK
<1>3. CASE bound = "none"
  <2>1. app' = [app EXCEPT !.phase = "gone"] /\ appC' = Idle /\ bound' = bound
    BY <1>3 DEF FinalizeCFApp
  <2>2. AppWorkerOK' /\ appC'.pc # "read"
    BY <2>1 DEF AppWorkerOK, Idle
  <2> QED
    BY <1>1, <2>1, <2>2 DEF CFApp, BoundOK
<1> QED
  BY <1>2, <1>3

\* Events keep the queues well typed.
LEMMA EnqueueType ==
    ASSUME NEW base \in [app : BOOLEAN, proc : BOOLEAN, wls : SUBSET Names],
           StsOK, StsOK', Enqueue(base)
    PROVE  QueueOK'
<1>1. \A v \in Revs : /\ sts[v].workload \in Names \cup {None}
                      /\ sts'[v].workload \in Names \cup {None}
  BY DEF StsOK, StatefulSet
<1>2. ChangedWorkloads \subseteq Names
  <2> SUFFICES ASSUME NEW n \in ChangedWorkloads
               PROVE  n \in Names
    OBVIOUS
  <2>2. CASE n # None /\ \E v \in Revs : n \in {sts[v].workload, sts'[v].workload}
    BY <1>1, <2>2
  <2> DEFINE V == {u \in Revs : sts'[u] # sts[u]}
             W == UNION {{sts[v].workload, sts'[v].workload} : v \in V}
             K == {k \in Names : wls'[k] # wls[k]}
  <2>3. ChangedWorkloads = K \cup (W \ {None})
    BY Zenon DEF ChangedWorkloads
  <2>4. V \subseteq Revs
    OBVIOUS
  <2> HIDE DEF V
  <2>5. n \in W => \E v \in V : n \in {sts[v].workload, sts'[v].workload}
    BY Zenon
  <2>6. n \in K => n \in Names
    OBVIOUS
  <2> HIDE DEF W, K
  <2> QED
    BY <2>2, <2>3, <2>4, <2>5, <2>6
<1> DEFINE A == base.app \/ app' # app \/ proc' # proc \/ bound' # bound
           P == base.proc \/ proc' # proc \/ wls' # wls \/ (app' # app /\ proc.exists)
           W == base.wls \cup ChangedWorkloads
<1>3. A \in BOOLEAN /\ P \in BOOLEAN
  OBVIOUS
<1>4. W \in SUBSET Names
  BY <1>2
<1>5. queue' = [app |-> A, proc |-> P, wls |-> W]
  BY DEF Enqueue
<1> HIDE DEF A, P, W
<1> QED
  BY <1>3, <1>4, <1>5 DEF QueueOK

\* A finite family of finite sets has a finite union.
LEMMA FamilyFinite ==
    ASSUME NEW I, IsFiniteSet(I), NEW f, f = [i \in I |-> f[i]],
           \A i \in I : IsFiniteSet(f[i])
    PROVE  IsFiniteSet(UNION {f[i] : i \in I})
<1> DEFINE S == {f[i] : i \in I}
<1>1. f \in Surjection(I, S)
  BY DEF Surjection
<1>2. IsFiniteSet(S)
  <2> HIDE DEF S
  <2> QED
    BY <1>1, FS_Surjection
<1>3. \A T \in S : IsFiniteSet(T)
  OBVIOUS
<1> HIDE DEF S
<1>4. IsFiniteSet(UNION S)
  BY <1>2, <1>3, FS_UNION
<1> QED
  BY <1>4 DEF S

\* So do the indices 1 to n, paired with one element.
LEMMA PairsFinite ==
    ASSUME NEW x, NEW n \in Nat
    PROVE  IsFiniteSet({x} \X (1..n))
<1>1. 1 \in Int /\ n \in Int
  OBVIOUS
<1>2. IsFiniteSet(1..n)
  BY <1>1, FS_Interval
<1> QED
  BY <1>2, FS_Singleton, FS_Product

\* A workload that exists has all fields of a workload.
LEMMA WorkloadElim ==
    ASSUME WlsOK, NEW k \in Names
    PROVE  /\ wls[k].exists \in BOOLEAN
           /\ wls[k].exists => wls[k] \in AppWorkload
           /\ ~wls[k].exists => wls[k] = NoWorkload
<1>1. CASE wls[k] \in AppWorkload
  BY <1>1 DEF AppWorkload
<1>2. CASE wls[k] = NoWorkload
  BY <1>2 DEF NoWorkload
<1> QED
  BY <1>1, <1>2 DEF WlsOK

\* Its last stop is a number.
LEMMA WorkloadNumber ==
    ASSUME TypeInv, NEW k \in Workloads
    PROVE  k \in Names /\ wls[k] \in AppWorkload /\ wls[k].lastStop \in Revs /\ wls[k].lastStop \in Nat
<1>1. k \in Names /\ wls[k].exists
  BY DEF Workloads
<1>2. wls[k] \in AppWorkload
  BY <1>1, WorkloadElim DEF TypeInv
<1>3. wls[k].lastStop \in Revs
  BY <1>2 DEF AppWorkload
<1> QED
  BY <1>1, <1>2, <1>3, BoundsAssumption DEF Revs

\* The number of instances that workloads report is a number.
LEMMA ReportedIsNat ==
    ASSUME WlsOK
    PROVE  Cardinality(ReportedInstances) \in Nat
<1> DEFINE f == [k \in Workloads |-> {k} \X (1..wls[k].actual)]
<1>1. IsFiniteSet(Workloads)
  BY NamesAssumption, FS_Subset DEF Workloads
<1>2. ASSUME NEW k \in Workloads
      PROVE  IsFiniteSet(f[k])
  <2>1. wls[k].actual \in Nat
    BY WorkloadElim DEF Workloads, AppWorkload
  <2> QED
    BY <2>1, PairsFinite
<1>3. f = [k \in Workloads |-> f[k]]
  OBVIOUS
<1>4. ReportedInstances = UNION {f[k] : k \in Workloads}
  BY DEF ReportedInstances
<1> HIDE DEF f
<1>5. IsFiniteSet(ReportedInstances)
  BY <1>1, <1>2, <1>3, <1>4, FamilyFinite
<1> QED
  BY <1>5, FS_CardinalityType

\* So is the number of the pods of some StatefulSets.
LEMMA PodsIsNat ==
    ASSUME StsOK, NEW vs \in SUBSET Revs
    PROVE  Cardinality(Pods(vs)) \in Nat
<1> DEFINE f == [v \in vs |-> {v} \X (1..sts[v].pods)]
<1>1. IsFiniteSet(vs)
  <2>1. 0 \in Int /\ MaxOps \in Int
    BY BoundsAssumption
  <2>2. IsFiniteSet(0..MaxOps)
    BY <2>1, FS_Interval
  <2> QED
    BY <2>2, FS_Subset DEF Revs
<1>2. ASSUME NEW v \in vs
      PROVE  IsFiniteSet(f[v])
  <2>1. sts[v].pods \in Nat
    BY DEF StsOK, StatefulSet
  <2> QED
    BY <2>1, PairsFinite
<1>3. f = [v \in vs |-> f[v]]
  OBVIOUS
<1>4. Pods(vs) = UNION {f[v] : v \in vs}
  BY DEF Pods
<1> HIDE DEF f
<1>5. IsFiniteSet(Pods(vs))
  BY <1>1, <1>2, <1>3, <1>4, FamilyFinite
<1> QED
  BY <1>5, FS_CardinalityType

-----------------------------------------------------------------------------
(* Typing is inductive.                                                    *)

\* Actions that leave requests and revision alone keep the bound.
LEMMA RevFrame ==
    ASSUME ReqsOK, RevInv, app.rev \in Nat, reqs' = reqs, app'.rev = app.rev,
           ops' = ops \/ Count
    PROVE  ReqsOK' /\ RevInv'
<1>1. Pending' = Pending
  BY DEF Pending
<1>2. ops \in 0..MaxOps /\ ops' \in 0..MaxOps /\ ops <= ops'
  BY BoundsAssumption DEF RevInv, Count
<1>3. Cardinality(Pending) \in Nat
  BY FS_CardinalityType DEF RevInv
<1>4. ReqsOK'
  BY DEF ReqsOK, RequestPatch
<1>5. app'.rev + Cardinality(Pending') <= ops'
  BY <1>1, <1>2, <1>3 DEF RevInv
<1>6. ASSUME NEW r \in Pending', "rev" \in DOMAIN reqs'[r]
      PROVE  reqs'[r]["rev"] + Cardinality(Pending') <= ops' + 1
  <2>1. r \in Requests /\ r \in Pending /\ reqs[r] # None
    BY <1>1, <1>6 DEF Pending
  <2>2. reqs[r]["rev"] \in Nat
    BY <1>6, <2>1 DEF ReqsOK, RequestPatch
  <2>3. reqs[r]["rev"] + Cardinality(Pending) <= ops + 1
    BY <1>6, <2>1 DEF RevInv
  <2> QED
    BY <1>1, <1>2, <1>3, <2>2, <2>3
<1> QED
  BY <1>1, <1>2, <1>4, <1>5, <1>6 DEF RevInv

\* A request that has read the app is paid for by its call.
LEMMA ReadAppType ==
    ASSUME TypeInv, NEW r \in Requests, NEW d \in Droplets \cup {None},
           NEW kind \in {"start", "stop", "droplet", "deploy"}, ReadApp(r, kind, d)
    PROVE  TypeInv'
<1> DEFINE p == MergeFrom(app, ModifiedApp(app, kind, d))
<1>1. /\ reqs' = [reqs EXCEPT ![r] = p] /\ reqs[r] = None
      /\ ops < MaxOps /\ ops' = ops + 1
      /\ UNCHANGED <<app, proc, wls, sts, bound, appC, procC, wlC, queue>>
  BY DEF ReadApp, Count, objects
<1>2. RequestPatch(p) /\ ("rev" \in DOMAIN p => p["rev"] = app.rev + 1)
  BY ReadAppPatch DEF TypeInv
<1> HIDE DEF p
<1>3. app.rev \in Nat /\ ops \in Nat /\ ops' \in 0..MaxOps
  BY <1>1, AppElim, BoundsAssumption DEF TypeInv, Revs, RevInv
<1>4. ReqsOK'
  BY <1>1, <1>2 DEF TypeInv, ReqsOK, RevInv
<1>5. DOMAIN reqs = Requests /\ DOMAIN reqs' = Requests /\ r \notin Pending
  BY <1>1 DEF TypeInv, RevInv, Pending
<1>6. IsFiniteSet(Pending) /\ Cardinality(Pending) \in Nat
  BY FS_CardinalityType DEF TypeInv, RevInv
<1>7. /\ IsFiniteSet(Pending \cup {r})
      /\ Cardinality(Pending \cup {r}) = Cardinality(Pending) + 1
  BY <1>5, <1>6, FS_AddElement
<1>8. Pending' = Pending \/ Pending' = Pending \cup {r}
  BY <1>1, <1>5 DEF Pending
<1>9. /\ IsFiniteSet(Pending') /\ Cardinality(Pending') \in Nat
      /\ Cardinality(Pending') <= Cardinality(Pending) + 1
  <2>1. CASE Pending' = Pending
    BY <1>6, <2>1
  <2>2. CASE Pending' = Pending \cup {r}
    BY <1>6, <1>7, <2>2
  <2> QED
    BY <1>8, <2>1, <2>2
<1>10. app.rev + Cardinality(Pending) <= ops
  BY DEF TypeInv, RevInv
<1>11. app'.rev + Cardinality(Pending') <= ops'
  BY <1>1, <1>3, <1>6, <1>9, <1>10
<1>12. ASSUME NEW q \in Pending', "rev" \in DOMAIN reqs'[q]
       PROVE  reqs'[q]["rev"] + Cardinality(Pending') <= ops' + 1
  <2>1. CASE q = r
    <3>1. reqs'[q]["rev"] = app.rev + 1
      BY <1>1, <1>2, <1>5, <1>12, <2>1
    <3> QED
      BY <1>1, <1>3, <1>6, <1>9, <1>10, <3>1
  <2>2. CASE q # r
    <3>1. q \in Pending /\ q \in Requests /\ reqs'[q] = reqs[q] /\ reqs[q] # None
      BY <1>1, <1>5, <1>8, <2>2 DEF Pending
    <3>2. reqs[q]["rev"] + Cardinality(Pending) <= ops + 1 /\ reqs[q]["rev"] \in Nat
      BY <1>12, <3>1 DEF TypeInv, RevInv, ReqsOK, RequestPatch
    <3> QED
      BY <1>1, <1>3, <1>6, <1>9, <3>1, <3>2
  <2> QED
    BY <2>1, <2>2
<1>13. RevInv'
  BY <1>3, <1>5, <1>9, <1>11, <1>12 DEF RevInv
<1> QED
  BY <1>1, <1>4, <1>13 DEF TypeInv, WlsOK, StsOK, BoundOK, QueueOK, WorkersOK, AppWorkerOK,
     ControllerPatch

\* A request that writes the app pays with its slot for the revision.
LEMMA PatchAppType ==
    ASSUME TypeInv, NEW r \in Requests, PatchApp(r)
    PROVE  TypeInv'
<1> DEFINE p == reqs[r]
<1>1. /\ p # None /\ reqs' = [reqs EXCEPT ![r] = None]
      /\ app' = IF app.phase = "gone" THEN app ELSE PatchMain(p)
      /\ UNCHANGED <<proc, wls, sts, bound, appC, procC, wlC, ops>>
      /\ Enqueue(queue)
  BY DEF PatchApp
<1>2. RequestPatch(p) /\ DOMAIN reqs = Requests /\ r \in Pending
  BY <1>1 DEF TypeInv, ReqsOK, RevInv, Pending
<1>3. app.rev \in Nat /\ ops \in 0..MaxOps /\ app \in CFApp
  BY AppElim, BoundsAssumption DEF TypeInv, Revs, RevInv
<1>4. IsFiniteSet(Pending) /\ Cardinality(Pending) \in Nat
  BY FS_CardinalityType DEF TypeInv, RevInv
<1>5. /\ IsFiniteSet(Pending \ {r})
      /\ Cardinality(Pending \ {r}) = Cardinality(Pending) - 1
  BY <1>2, <1>4, FS_RemoveElement
<1>6. Pending' = Pending \ {r}
  BY <1>1, <1>2 DEF Pending
<1>7. /\ Cardinality(Pending) \in Nat \ {0}
      /\ IsFiniteSet(Pending') /\ Cardinality(Pending') = Cardinality(Pending) - 1
  <2>1. Cardinality(Pending') \in Nat
    BY <1>5, <1>6, FS_CardinalityType
  <2> QED
    BY <1>4, <1>5, <1>6, <2>1
<1>8. app.rev + Cardinality(Pending) <= ops
  BY DEF TypeInv, RevInv
<1>9. "rev" \in DOMAIN p => p["rev"] \in Nat /\ p["rev"] + Cardinality(Pending) <= ops + 1
  BY <1>2 DEF TypeInv, RevInv, RequestPatch
<1>10. app.rev < MaxOps /\ ("rev" \in DOMAIN p => p["rev"] <= MaxOps)
  BY <1>3, <1>7, <1>8, <1>9, BoundsAssumption
<1>11. app' \in CFApp /\ (app'.rev <= app.rev + 1 \/ ("rev" \in DOMAIN p /\ app'.rev = p["rev"]))
  <2>1. CASE app.phase = "gone"
    BY <1>1, <1>3, <2>1
  <2>2. CASE app.phase # "gone"
    <3>1. app' = PatchMain(p)
      BY <1>1, <2>2
    <3> HIDE DEF p
    <3>2. /\ app' \in CFApp
          /\ app'.rev = Value(p, "rev", app.rev) \/ app'.rev = app.rev + 1
      BY <1>2, <1>3, <1>10, <3>1, RequestWrites
    <3> QED
      BY <1>3, <3>2 DEF Value
  <2> QED
    BY <2>1, <2>2
<1>12. app'.rev \in Nat
  BY <1>11, AppElim, BoundsAssumption DEF Revs
<1>13. app'.rev + Cardinality(Pending') <= ops'
  BY <1>1, <1>3, <1>7, <1>8, <1>9, <1>11, <1>12
<1>14. ASSUME NEW q \in Pending', "rev" \in DOMAIN reqs'[q]
       PROVE  reqs'[q]["rev"] + Cardinality(Pending') <= ops' + 1
  <2>1. q \in Pending /\ q \in Requests /\ reqs'[q] = reqs[q] /\ reqs[q] # None
    BY <1>1, <1>2, <1>6 DEF Pending
  <2>2. reqs[q]["rev"] + Cardinality(Pending) <= ops + 1 /\ reqs[q]["rev"] \in Nat
    BY <1>14, <2>1 DEF TypeInv, RevInv, ReqsOK, RequestPatch
  <2> QED
    BY <1>1, <1>3, <1>7, <2>1, <2>2
<1>15. RevInv'
  BY <1>1, <1>2, <1>3, <1>7, <1>13, <1>14 DEF RevInv
<1>16. ReqsOK'
  BY <1>1, <1>2 DEF TypeInv, ReqsOK
<1>17. StsOK' /\ QueueOK'
  BY <1>1, EnqueueType DEF TypeInv, StsOK, QueueOK
<1> QED
  BY <1>1, <1>11, <1>15, <1>16, <1>17 DEF TypeInv, WlsOK, BoundOK, WorkersOK, AppWorkerOK,
     ControllerPatch

\* Actions that change only process or binding, or delete the app.
LEMMA SimpleAPIType ==
    ASSUME TypeInv, (\E n \in Scales : ScaleProcess(n)) \/ DeleteApp \/ CreateBinding
    PROVE  TypeInv'
<1>1. app \in CFApp /\ app.rev \in Nat
  BY AppElim, BoundsAssumption DEF TypeInv, Revs
<1>2. /\ UNCHANGED <<wls, sts, reqs, appC, procC, wlC>> /\ Count /\ Enqueue(queue)
  BY DEF ScaleProcess, DeleteApp, CreateBinding
<1>3. app' \in CFApp /\ app'.rev = app.rev
  <2>1. CASE app' = app
    BY <1>1, <2>1
  <2>2. CASE app' = [app EXCEPT !.phase = "deleting", !.gen = @ + 1]
    <3>1. IsApp(app) /\ app.gen \in Nat
      BY <1>1, AppElim
    <3>2. /\ IsApp(app') /\ app'.phase = "deleting" /\ app'.gen = app.gen + 1
          /\ app'.desired = app.desired /\ app'.droplet = app.droplet
          /\ app'.rev = app.rev /\ app'.lastStop = app.lastStop
          /\ app'.observed = app.observed /\ app'.actual = app.actual
          /\ app'.ready = app.ready /\ app'.label = app.label
      BY <2>2, <3>1 DEF IsApp, Fields
    <3> QED
      BY <1>1, <3>1, <3>2, AppElim, AppIntro
  <2> QED
    BY <2>1, <2>2 DEF ScaleProcess, DeleteApp, CreateBinding
<1>4. proc' \in CFProcess
  BY ScalesAssumption DEF ScaleProcess, DeleteApp, CreateBinding, TypeInv, CFProcess
<1>5. BoundOK'
  BY DEF ScaleProcess, DeleteApp, CreateBinding, TypeInv, BoundOK
<1>6. ReqsOK' /\ RevInv'
  BY <1>1, <1>2, <1>3, RevFrame DEF TypeInv
<1>7. StsOK' /\ QueueOK'
  BY <1>2, EnqueueType DEF TypeInv, StsOK, QueueOK
<1> QED
  BY <1>2, <1>3, <1>4, <1>5, <1>6, <1>7 DEF TypeInv, WlsOK, WorkersOK, AppWorkerOK, ControllerPatch

\* The app controller.
LEMMA AppControllerType ==
    ASSUME TypeInv, AppController
    PROVE  TypeInv'
<1>1. app \in CFApp /\ app.rev \in Nat /\ QueueOK /\ StsOK /\ WorkersOK
  BY AppElim, BoundsAssumption DEF TypeInv, Revs
<1>2. /\ UNCHANGED <<wls, sts, reqs, procC, wlC, ops>>
      /\ \E base \in [app : BOOLEAN, proc : BOOLEAN, wls : SUBSET Names] : Enqueue(base)
  <2>1. CASE ReadCFApp
    <3>1. [queue EXCEPT !.app = FALSE] \in [app : BOOLEAN, proc : BOOLEAN, wls : SUBSET Names]
      BY <1>1 DEF QueueOK
    <3> QED
      BY <2>1, <3>1 DEF ReadCFApp, objects
  <2>2. CASE FinalizeCFApp \/ ReconcileCFApp
    <3>1. Enqueue(queue) /\ UNCHANGED <<wls, sts, reqs, procC, wlC, ops>>
      BY <2>2 DEF FinalizeCFApp, ReconcileCFApp
    <3> QED
      BY <1>1, <3>1 DEF QueueOK
  <2>3. CASE PatchCFAppStatus
    <3>1. (queue.app \/ appC.requeue) \in BOOLEAN
      OBVIOUS
    <3> DEFINE b == [queue EXCEPT !.app = @ \/ appC.requeue]
    <3>2. b \in [app : BOOLEAN, proc : BOOLEAN, wls : SUBSET Names]
      BY <1>1, <3>1 DEF QueueOK
    <3>3. Enqueue(b) /\ UNCHANGED <<wls, sts, reqs, procC, wlC, ops>>
      BY <2>3 DEF PatchCFAppStatus
    <3> QED
      BY <3>2, <3>3
  <2> QED
    BY <2>1, <2>2, <2>3 DEF AppController
<1>3. /\ app' \in CFApp /\ app'.rev = app.rev
      /\ proc' \in CFProcess /\ BoundOK' /\ AppWorkerOK'
  <2>1. CASE ReadCFApp
    <3>1. UNCHANGED <<app, proc, bound>> /\ (appC' = Idle \/ appC' = [pc |-> "read", read |-> app])
      BY <2>1 DEF ReadCFApp, objects
    <3>2. AppWorkerOK'
      BY <1>1, <3>1 DEF AppWorkerOK
    <3> QED
      BY <3>1, <3>2 DEF TypeInv, BoundOK
  <2>2. CASE FinalizeCFApp
    <3>1. proc' = proc
      BY <2>2 DEF FinalizeCFApp
    <3>2. app' \in CFApp /\ app'.rev = app.rev /\ AppWorkerOK' /\ BoundOK'
      BY <2>2, FinalizeEffect DEF TypeInv, WorkersOK
    <3> QED
      BY <3>1, <3>2 DEF TypeInv
  <2>3. CASE ReconcileCFApp
    <3>1. /\ app' \in CFApp /\ app'.rev = app.rev /\ AppWorkerOK'
          /\ proc' = proc \/ proc' = NewCFProcess
      BY <2>3, ReconcileEffect DEF TypeInv, WorkersOK
    <3>2. NewCFProcess \in CFProcess
      BY DEF NewCFProcess, CFProcess
    <3>3. bound' = bound
      BY <2>3 DEF ReconcileCFApp
    <3> QED
      BY <3>1, <3>2, <3>3 DEF TypeInv, BoundOK
  <2>4. CASE PatchCFAppStatus
    <3>1. /\ appC.pc = "status" /\ UNCHANGED <<proc, bound>> /\ appC' = Idle
          /\ app' = IF app.phase = "gone" THEN app ELSE PatchStatus(appC.patch)
      BY <2>4 DEF PatchCFAppStatus
    <3>2. ControllerPatch(appC.patch)
      BY <1>1, <3>1 DEF WorkersOK, AppWorkerOK, Idle
    <3>3. app' \in CFApp /\ app'.rev = app.rev
      BY <1>1, <3>1, <3>2, StatusWrites
    <3>4. AppWorkerOK'
      BY <3>1 DEF AppWorkerOK
    <3> QED
      BY <3>1, <3>3, <3>4 DEF TypeInv, BoundOK
  <2> QED
    BY <2>1, <2>2, <2>3, <2>4 DEF AppController
<1>4. ReqsOK' /\ RevInv'
  BY <1>1, <1>2, <1>3, RevFrame DEF TypeInv
<1>5. StsOK' /\ QueueOK'
  BY <1>1, <1>2, EnqueueType DEF StsOK
<1> QED
  BY <1>2, <1>3, <1>4, <1>5 DEF TypeInv, WlsOK, WorkersOK

\* A workload with the fields that its controllers do not write left as they
\* are.
SameWorkload(k) ==
    /\ wls'[k].exists = wls[k].exists
    /\ wls[k].exists => wls'[k].deleting = wls[k].deleting /\ wls'[k].lastStop = wls[k].lastStop

\* A status leaves the rest of a workload alone, and so does its deletion.
LEMMA WorkloadApplied ==
    ASSUME NEW w \in AppWorkload, NEW n \in Nat, NEW x,
           x = [w EXCEPT !.actual = n, !.ready = TRUE]
    PROVE  /\ x \in AppWorkload
           /\ x.exists = w.exists /\ x.deleting = w.deleting /\ x.lastStop = w.lastStop
BY DEF AppWorkload

LEMMA WorkloadFinalized ==
    ASSUME NEW w \in AppWorkload, NEW n \in Nat, NEW x,
           x = [w EXCEPT !.ready = FALSE, !.actual = n]
    PROVE  /\ x \in AppWorkload
           /\ x.exists = w.exists /\ x.deleting = w.deleting /\ x.lastStop = w.lastStop
BY DEF AppWorkload

LEMMA WorkloadDeleted ==
    ASSUME NEW w \in AppWorkload, NEW x, x = [w EXCEPT !.deleting = TRUE]
    PROVE  x \in AppWorkload /\ x.exists = w.exists /\ x.lastStop = w.lastStop
BY DEF AppWorkload

\* What the process controller applies: nothing, or the workload named after
\* the last stop it has read.
LEMMA ApplyEffect ==
    ASSUME TypeInv, ApplyCFProcess
    PROVE  /\ procC \in [pc : {"read"}, instances : Nat, app : SeenApp]
           /\ procC' = [pc |-> "applied", desired |-> procC.app.desired,
                        instances |-> procC.instances,
                        name |-> DesiredWorkloadName(procC.app)]
           /\ LastStopRevision(procC.app) \in Revs /\ DesiredWorkloadName(procC.app) \in Names
           /\ WlsOK'
           /\ \A k \in Names : k # DesiredWorkloadName(procC.app) => wls'[k] = wls[k]
           /\ \/ wls' = wls
              \/ LET k == DesiredWorkloadName(procC.app)
                 IN  /\ procC.app.desired = "STARTED"
                     /\ wls'[k].exists /\ wls'[k].lastStop = LastStopRevision(procC.app)
                     /\ wls'[k].deleting = (wls[k].exists /\ wls[k].deleting)
<1> DEFINE a == procC.app
           k == DesiredWorkloadName(a)
<1>1. procC \in [pc : {"read"}, instances : Nat, app : SeenApp]
  BY DEF TypeInv, WorkersOK, ProcessWorker, ApplyCFProcess, Idle
<1>2. a \in SeenApp /\ procC.instances \in Nat
  BY <1>1
<1>3. LastStopRevision(a) \in Revs
  BY <1>2 DEF LastStopRevision, SeenApp
<1>4. k \in Names
  BY <1>3, HashAssumption DEF DesiredWorkloadName
<1>5. CASE ~NeedsAppWorkload
  <2>1. wls' = wls
    BY <1>5 DEF ApplyCFProcess
  <2> QED
    BY <1>1, <1>3, <1>4, <2>1 DEF ApplyCFProcess, TypeInv, WlsOK
<1>6. CASE NeedsAppWorkload
  <2>1. CreateOrPatchAppWorkload /\ ~ReconcileFails
    BY <1>6 DEF ApplyCFProcess
  <2>2. a.desired = "STARTED" /\ a.droplet \in Droplets
    BY <1>2, <1>6, <2>1 DEF NeedsAppWorkload, ReconcileFails, SeenApp
  <2> DEFINE found == wls[k].exists
             w == [exists |-> TRUE, version |-> a.rev, lastStop |-> LastStopRevision(a),
                   instances |-> procC.instances, image |-> a.droplet,
                   deleting |-> found /\ wls[k].deleting,
                   actual |-> IF found THEN wls[k].actual ELSE 0,
                   ready |-> found /\ wls[k].ready]
  <2>3. wls' = [wls EXCEPT ![k] = w]
    BY <2>1 DEF CreateOrPatchAppWorkload
  <2>4. /\ (found /\ wls[k].deleting) \in BOOLEAN /\ (found /\ wls[k].ready) \in BOOLEAN
        /\ (IF found THEN wls[k].actual ELSE 0) \in Nat
    BY <1>4, WorkloadElim DEF TypeInv, AppWorkload
  <2>5. w \in AppWorkload
    BY <1>2, <1>3, <2>2, <2>4 DEF AppWorkload, SeenApp
  <2>6. /\ w.exists /\ w.lastStop = LastStopRevision(a)
        /\ w.deleting = (wls[k].exists /\ wls[k].deleting)
    OBVIOUS
  <2> HIDE DEF w, k
  <2>7. WlsOK' /\ wls'[k] = w /\ \A j \in Names : j # k => wls'[j] = wls[j]
    BY <1>4, <2>3, <2>5 DEF TypeInv, WlsOK
  <2> QED
    BY <1>1, <1>3, <1>4, <2>2, <2>6, <2>7 DEF ApplyCFProcess, k
<1> QED
  BY <1>5, <1>6

\* What the process controller deletes: workloads are marked, none is gone.
LEMMA CleanUpEffect ==
    ASSUME TypeInv, CleanUpAppWorkloads
    PROVE  /\ procC \in [pc : {"applied"}, desired : States, instances : Nat, name : Names]
           /\ WlsOK'
           /\ \A k \in Names :
                /\ wls'[k].exists = wls[k].exists
                /\ wls[k].exists => wls'[k].lastStop = wls[k].lastStop
                /\ wls[k].exists /\ ~NeedsToDelete(k) => wls'[k].deleting = wls[k].deleting
<1>1. procC \in [pc : {"applied"}, desired : States, instances : Nat, name : Names]
  BY DEF TypeInv, WorkersOK, ProcessWorker, CleanUpAppWorkloads, Idle
<1>2. wls' = [k \in Names |-> IF wls[k].exists /\ NeedsToDelete(k)
                              THEN [wls[k] EXCEPT !.deleting = TRUE] ELSE wls[k]]
  BY DEF CleanUpAppWorkloads
<1>3. ASSUME NEW k \in Names
      PROVE  /\ wls'[k] \in AppWorkload \cup {NoWorkload}
             /\ wls'[k].exists = wls[k].exists
             /\ wls[k].exists => wls'[k].lastStop = wls[k].lastStop
             /\ wls[k].exists /\ ~NeedsToDelete(k) => wls'[k].deleting = wls[k].deleting
  <2>1. CASE wls[k].exists /\ NeedsToDelete(k)
    <3>1. wls[k] \in AppWorkload
      BY <2>1, WorkloadElim DEF TypeInv
    <3>2. wls'[k] = [wls[k] EXCEPT !.deleting = TRUE]
      BY <1>2, <2>1
    <3>3. /\ wls'[k] \in AppWorkload
          /\ wls'[k].exists = wls[k].exists /\ wls'[k].lastStop = wls[k].lastStop
      BY <3>1, <3>2, WorkloadDeleted
    <3> QED
      BY <2>1, <3>3
  <2>2. CASE ~(wls[k].exists /\ NeedsToDelete(k))
    <3>1. wls'[k] = wls[k]
      BY <1>2, <2>2
    <3> QED
      BY <3>1 DEF TypeInv, WlsOK
  <2> QED
    BY <2>1, <2>2
<1>4. WlsOK'
  BY <1>2, <1>3 DEF WlsOK
<1> QED
  BY <1>1, <1>3, <1>4

\* The process controller.
LEMMA ProcessControllerType ==
    ASSUME TypeInv, ProcessController
    PROVE  TypeInv'
<1>1. app \in CFApp /\ app.rev \in Nat /\ QueueOK /\ StsOK /\ WorkersOK
  BY AppElim, BoundsAssumption DEF TypeInv, Revs
<1>2. /\ UNCHANGED <<app, sts, bound, reqs, appC, wlC, ops>>
      /\ \E base \in [app : BOOLEAN, proc : BOOLEAN, wls : SUBSET Names] : Enqueue(base)
  <2>1. ASSUME NEW b \in BOOLEAN
        PROVE  [queue EXCEPT !.proc = b] \in [app : BOOLEAN, proc : BOOLEAN, wls : SUBSET Names]
    BY <1>1 DEF QueueOK
  <2>2. CASE ReadCFProcess
    BY <2>1, <2>2 DEF ReadCFProcess, objects
  <2>3. CASE FailCFProcess
    BY <2>1, <2>3 DEF FailCFProcess
  <2>4. CASE ApplyCFProcess
    <3>1. Enqueue(queue) /\ UNCHANGED <<app, sts, bound, reqs, appC, wlC, ops>>
      BY <2>4 DEF ApplyCFProcess
    <3> QED
      BY <1>1, <3>1 DEF QueueOK
  <2>5. CASE CleanUpAppWorkloads
    <3>1. (queue.proc \/ ~AllWorkloadsReady) \in BOOLEAN
      OBVIOUS
    <3>2. /\ Enqueue([queue EXCEPT !.proc = @ \/ ~AllWorkloadsReady])
          /\ UNCHANGED <<app, sts, bound, reqs, appC, wlC, ops>>
      BY <2>5 DEF CleanUpAppWorkloads
    <3>3. [queue EXCEPT !.proc = @ \/ ~AllWorkloadsReady]
              = [queue EXCEPT !.proc = queue.proc \/ ~AllWorkloadsReady]
      BY <1>1 DEF QueueOK
    <3> QED
      BY <2>1, <3>1, <3>2, <3>3
  <2> QED
    BY <2>2, <2>3, <2>4, <2>5 DEF ProcessController
<1>3. proc' \in CFProcess /\ WlsOK' /\ procC' \in ProcessWorker
  <2>1. CASE ReadCFProcess
    <3>1. UNCHANGED <<proc, wls>>
      BY <2>1 DEF ReadCFProcess, objects
    <3>2. (app.gen # app.observed) \in BOOLEAN
      OBVIOUS
    <3>3. [phase |-> app.phase, desired |-> app.desired, droplet |-> app.droplet,
           rev |-> app.rev, lastStop |-> app.lastStop,
           outdated |-> app.gen # app.observed] \in SeenApp
      BY <1>1, <3>2, AppElim DEF SeenApp
    <3>4. proc.instances \in Nat
      BY DEF TypeInv, CFProcess
    <3>5. procC' \in ProcessWorker
      BY <2>1, <3>3, <3>4 DEF ReadCFProcess, ProcessWorker
    <3> QED
      BY <3>1, <3>5 DEF TypeInv, WlsOK
  <2>2. CASE FailCFProcess
    <3>1. proc' \in CFProcess
      BY <2>2 DEF FailCFProcess, TypeInv, CFProcess
    <3> QED
      BY <2>2, <3>1 DEF FailCFProcess, TypeInv, WlsOK, ProcessWorker
  <2>3. CASE ApplyCFProcess
    <3>1. procC'.pc = "applied" /\ procC' \in ProcessWorker
      BY <2>3, ApplyEffect DEF ProcessWorker, SeenApp
    <3>2. WlsOK' /\ proc' = proc
      BY <2>3, ApplyEffect DEF ApplyCFProcess
    <3> QED
      BY <3>1, <3>2 DEF TypeInv
  <2>4. CASE CleanUpAppWorkloads
    <3>1. AllWorkloadsReady \in BOOLEAN
      BY DEF AllWorkloadsReady
    <3>2. Cardinality(ReportedInstances) \in Nat
      BY ReportedIsNat DEF TypeInv
    <3>3. proc' \in CFProcess
      BY <2>4, <3>1, <3>2 DEF CleanUpAppWorkloads, TypeInv, CFProcess
    <3> QED
      BY <2>4, <3>3, CleanUpEffect DEF CleanUpAppWorkloads, ProcessWorker
  <2> QED
    BY <2>1, <2>2, <2>3, <2>4 DEF ProcessController
<1>4. ReqsOK' /\ RevInv'
  BY <1>1, <1>2, RevFrame DEF TypeInv
<1>5. StsOK' /\ QueueOK'
  BY <1>1, <1>2, EnqueueType DEF StsOK
<1> QED
  BY <1>1, <1>2, <1>3, <1>4, <1>5 DEF TypeInv, WorkersOK, AppWorkerOK, ControllerPatch, BoundOK

\* What the runner applies: one StatefulSet, live and of its workload, and
\* the status of the workload.
LEMMA RunnerApplyEffect ==
    ASSUME TypeInv, ApplyAppWorkload
    PROVE  /\ wlC.pc = "read" /\ wlC.name \in Names
           /\ WlsOK' /\ StsOK'
           /\ \A k \in Names : SameWorkload(k)
           /\ \E v \in Revs : /\ sts'[v].workload = wlC.name
                              /\ \A u \in Revs : u # v => sts'[u] = sts[u]
<1> DEFINE w == wlC.read
           n == wlC.name
           v == w.lastStop
           old == sts[v]
           readyPods == IF old.live THEN old.readyPods ELSE 0
           new == [old EXCEPT !.live = TRUE, !.workload = n,
                              !.version = w.version, !.image = w.image,
                              !.replicas = w.instances, !.pdb = w.instances > 1,
                              !.readyPods = readyPods]
<1>1. wlC.pc = "read" /\ n \in Names /\ w \in AppWorkload
  BY DEF TypeInv, WorkersOK, RunnerWorker, ApplyAppWorkload, Idle
<1>2. v \in Revs /\ old \in StatefulSet /\ old.readyPods <= old.pods
  BY <1>1 DEF AppWorkload, TypeInv, StsOK
<1>3. /\ sts' = [sts EXCEPT ![v] = new]
      /\ wls' = [wls EXCEPT ![n].actual = readyPods, ![n].ready = TRUE]
  BY DEF ApplyAppWorkload
<1>4. readyPods \in Nat /\ readyPods <= old.pods /\ old.pods \in Nat
  BY <1>2 DEF StatefulSet
<1>5. (w.instances > 1) \in BOOLEAN /\ w.instances \in Nat /\ w.version \in Revs /\ w.image \in Droplets
  <2>1. w.instances \in Nat /\ w.version \in Revs /\ w.image \in Droplets
    BY <1>1 DEF AppWorkload
  <2>2. (w.instances > 1) \in BOOLEAN
    BY <2>1
  <2> QED
    BY <2>1, <2>2
<1> HIDE DEF readyPods
<1>6. /\ new \in StatefulSet /\ new.readyPods = readyPods /\ new.pods = old.pods
      /\ new.workload = n
  BY <1>1, <1>2, <1>4, <1>5 DEF StatefulSet
<1> HIDE DEF new
<1>7. StsOK' /\ sts'[v] = new /\ \A u \in Revs : u # v => sts'[u] = sts[u]
  <2>1. sts \in [Revs -> StatefulSet] /\ \A u \in Revs : sts[u].readyPods <= sts[u].pods
    BY DEF TypeInv, StsOK
  <2>2. sts'[v] = new /\ \A u \in Revs : u # v => sts'[u] = sts[u]
    BY <1>2, <1>3, <2>1
  <2>3. sts' \in [Revs -> StatefulSet]
    BY <1>2, <1>3, <1>6, <2>1
  <2>4. ASSUME NEW u \in Revs
        PROVE  sts'[u].readyPods <= sts'[u].pods
    <3>1. CASE u = v
      BY <1>4, <1>6, <2>2, <3>1
    <3>2. CASE u # v
      BY <2>1, <2>2, <3>2
    <3> QED
      BY <3>1, <3>2
  <2> QED
    BY <2>2, <2>3, <2>4 DEF StsOK
<1>8. ASSUME NEW k \in Names
      PROVE  wls'[k] \in AppWorkload \cup {NoWorkload} /\ SameWorkload(k)
  <2>1. CASE k # n
    <3>1. wls'[k] = wls[k]
      BY <1>3, <2>1 DEF TypeInv, WlsOK
    <3> QED
      BY <3>1 DEF TypeInv, WlsOK, SameWorkload
  <2>2. CASE k = n
    <3>1. wls'[k] = [wls[k] EXCEPT !.actual = readyPods, !.ready = TRUE]
      BY <1>1, <1>3, <2>2 DEF TypeInv, WlsOK
    <3>2. CASE wls[k] \in AppWorkload
      <4>1. /\ wls'[k] \in AppWorkload
            /\ wls'[k].exists = wls[k].exists /\ wls'[k].deleting = wls[k].deleting
            /\ wls'[k].lastStop = wls[k].lastStop
        <5>1. PICK m \in Nat : m = readyPods
          BY <1>4
        <5>2. PICK u \in AppWorkload : u = wls[k]
          BY <3>2
        <5>3. PICK x : x = [u EXCEPT !.actual = m, !.ready = TRUE]
          OBVIOUS
        <5>4. wls'[k] = x
          BY <3>1, <5>1, <5>2, <5>3
        <5>5. /\ x \in AppWorkload
              /\ x.exists = u.exists /\ x.deleting = u.deleting /\ x.lastStop = u.lastStop
          BY <5>3, WorkloadApplied
        <5> QED
          BY <5>2, <5>4, <5>5
      <4> QED
        BY <4>1 DEF SameWorkload
    <3>3. CASE wls[k] = NoWorkload
      <4>1. wls'[k] = NoWorkload
        BY <3>1, <3>3 DEF NoWorkload
      <4> QED
        BY <3>3, <4>1 DEF SameWorkload, NoWorkload
    <3> QED
      BY <3>2, <3>3 DEF TypeInv, WlsOK
  <2> QED
    BY <2>1, <2>2
<1>9. WlsOK'
  <2>1. wls' = [k \in Names |-> wls'[k]]
    BY <1>3 DEF TypeInv, WlsOK
  <2> QED
    BY <1>8, <2>1 DEF WlsOK
<1> QED
  BY <1>1, <1>2, <1>6, <1>7, <1>8, <1>9

\* What the runner finalizes: its workload goes only with its StatefulSets.
LEMMA RunnerFinalizeEffect ==
    ASSUME TypeInv, NEW stale \in BOOLEAN, FinalizeAppWorkload(stale)
    PROVE  /\ wlC.pc = "read" /\ wlC.name \in Names
           /\ WlsOK' /\ StsOK'
           /\ \A k \in Names : k # wlC.name => wls'[k] = wls[k]
           /\ wls'[wlC.name] # NoWorkload => SameWorkload(wlC.name)
           /\ \A v \in Revs : sts'[v].live => /\ sts'[v] = sts[v]
                                              /\ sts[v].workload # wlC.name
<1> DEFINE n == wlC.name
           mine == SetsOf(n)
           total == Cardinality(Pods(mine))
<1>1. wlC.pc = "read" /\ n \in Names
  BY DEF TypeInv, WorkersOK, RunnerWorker, FinalizeAppWorkload, Idle
<1>2. mine \in SUBSET Revs /\ \A v \in Revs : v \in mine <=> (sts[v].live /\ sts[v].workload = n)
  BY DEF SetsOf, LiveSets
<1>3. total \in Nat
  BY <1>2, PodsIsNat DEF TypeInv
<1>4. /\ DeleteSets(mine)
      /\ wls' = [wls EXCEPT ![n] = IF stale
                                   THEN [wls[n] EXCEPT !.ready = FALSE, !.actual = total]
                                   ELSE NoWorkload]
  BY DEF FinalizeAppWorkload
<1> HIDE DEF total, mine
<1>5. ASSUME NEW v \in Revs
      PROVE  /\ sts'[v] \in StatefulSet /\ sts'[v].readyPods <= sts'[v].pods
             /\ sts'[v].live => sts'[v] = sts[v] /\ sts[v].workload # n
  <2>1. sts[v] \in StatefulSet /\ sts[v].readyPods <= sts[v].pods
    BY DEF TypeInv, StsOK
  <2>2. sts'[v] = IF v \notin mine THEN sts[v]
                  ELSE IF sts[v].pods = 0 THEN NoStatefulSet
                  ELSE [sts[v] EXCEPT !.live = FALSE, !.pdb = FALSE]
    BY <1>4 DEF DeleteSets
  <2>3. /\ NoStatefulSet \in StatefulSet /\ ~NoStatefulSet.live
        /\ NoStatefulSet.readyPods <= NoStatefulSet.pods
    BY DEF NoStatefulSet, StatefulSet
  <2>4. LET s == [sts[v] EXCEPT !.live = FALSE, !.pdb = FALSE]
        IN  s \in StatefulSet /\ ~s.live /\ s.readyPods <= s.pods
    BY <2>1 DEF StatefulSet
  <2> QED
    BY <1>2, <2>1, <2>2, <2>3, <2>4
<1>6. StsOK'
  <2>1. sts' = [v \in Revs |-> sts'[v]]
    BY <1>4 DEF DeleteSets
  <2> QED
    BY <1>5, <2>1 DEF StsOK
<1>7. \A k \in Names : k # n => wls'[k] = wls[k]
  BY <1>4 DEF TypeInv, WlsOK
<1>8. /\ wls'[n] \in AppWorkload \cup {NoWorkload}
      /\ wls'[n] # NoWorkload => SameWorkload(n)
  <2>1. CASE ~stale
    BY <1>1, <1>4, <2>1 DEF TypeInv, WlsOK
  <2>2. CASE stale
    <3>1. wls'[n] = [wls[n] EXCEPT !.ready = FALSE, !.actual = total]
      BY <1>1, <1>4, <2>2 DEF TypeInv, WlsOK
    <3>2. CASE wls[n] \in AppWorkload
      <4>1. /\ wls'[n] \in AppWorkload
            /\ wls'[n].exists = wls[n].exists /\ wls'[n].deleting = wls[n].deleting
            /\ wls'[n].lastStop = wls[n].lastStop
        <5>1. PICK m \in Nat : m = total
          BY <1>3
        <5>2. PICK u \in AppWorkload : u = wls[n]
          BY <3>2
        <5>3. PICK x : x = [u EXCEPT !.ready = FALSE, !.actual = m]
          OBVIOUS
        <5>4. wls'[n] = x
          BY <3>1, <5>1, <5>2, <5>3
        <5>5. /\ x \in AppWorkload
              /\ x.exists = u.exists /\ x.deleting = u.deleting /\ x.lastStop = u.lastStop
          BY <5>3, WorkloadFinalized
        <5> QED
          BY <5>2, <5>4, <5>5
      <4> QED
        BY <4>1 DEF SameWorkload
    <3>3. CASE wls[n] = NoWorkload
      BY <3>1, <3>3 DEF NoWorkload
    <3> QED
      BY <1>1, <3>2, <3>3 DEF TypeInv, WlsOK
  <2> QED
    BY <2>1, <2>2
<1>9. WlsOK'
  BY <1>4, <1>7, <1>8 DEF TypeInv, WlsOK
<1> QED
  BY <1>1, <1>5, <1>6, <1>7, <1>8, <1>9

\* The AppWorkload controller.
LEMMA RunnerType ==
    ASSUME TypeInv, Runner
    PROVE  TypeInv'
<1>1. app \in CFApp /\ app.rev \in Nat /\ QueueOK /\ StsOK /\ WorkersOK
  BY AppElim, BoundsAssumption DEF TypeInv, Revs
<1> DEFINE Typed ==
        /\ UNCHANGED <<app, proc, bound, reqs, appC, procC, ops>>
        /\ \E base \in [app : BOOLEAN, proc : BOOLEAN, wls : SUBSET Names] : Enqueue(base)
        /\ WlsOK' /\ StsOK' /\ wlC' \in RunnerWorker
<1>2. Typed
  <2>1. ASSUME NEW k \in Names, ReadAppWorkload(k)
        PROVE  Typed
    <3>1. [queue EXCEPT !.wls = @ \ {k}] \in [app : BOOLEAN, proc : BOOLEAN, wls : SUBSET Names]
      BY <1>1 DEF QueueOK
    <3>2. wlC' \in RunnerWorker
      <4>1. CASE wls[k].exists
        <5>1. wlC' = [pc |-> "read", name |-> k, read |-> wls[k]] /\ wls[k] \in AppWorkload
          BY <2>1, <4>1, WorkloadElim DEF ReadAppWorkload, TypeInv
        <5> QED
          BY <5>1 DEF RunnerWorker
      <4>2. CASE ~wls[k].exists
        BY <2>1, <4>2 DEF ReadAppWorkload, RunnerWorker
      <4> QED
        BY <4>1, <4>2
    <3>3. /\ UNCHANGED <<app, proc, bound, reqs, appC, procC, ops, wls, sts>>
          /\ Enqueue([queue EXCEPT !.wls = @ \ {k}])
      BY <2>1 DEF ReadAppWorkload, objects
    <3> QED
      BY <1>1, <3>1, <3>2, <3>3 DEF TypeInv, WlsOK, StsOK
  <2>2. ASSUME ApplyAppWorkload
        PROVE  Typed
    <3>1. /\ UNCHANGED <<app, proc, bound, reqs, appC, procC, ops>>
          /\ Enqueue(queue) /\ wlC' = Idle
      BY <2>2 DEF ApplyAppWorkload
    <3> QED
      BY <1>1, <2>2, <3>1, RunnerApplyEffect DEF QueueOK, RunnerWorker
  <2>3. ASSUME NEW stale \in BOOLEAN, FinalizeAppWorkload(stale)
        PROVE  Typed
    <3> DEFINE b == [queue EXCEPT !.wls = @ \cup {k \in {wlC.name} : stale}]
    <3>1. /\ UNCHANGED <<app, proc, bound, reqs, appC, procC, ops>>
          /\ Enqueue(b) /\ wlC' = Idle
      BY <2>3 DEF FinalizeAppWorkload
    <3>2. wlC.name \in Names /\ WlsOK' /\ StsOK'
      BY <2>3, RunnerFinalizeEffect
    <3>3. b \in [app : BOOLEAN, proc : BOOLEAN, wls : SUBSET Names]
      BY <1>1, <3>2 DEF QueueOK
    <3> QED
      BY <3>1, <3>2, <3>3 DEF RunnerWorker
  <2> QED
    BY <2>1, <2>2, <2>3 DEF Runner
<1>3. ReqsOK' /\ RevInv'
  BY <1>1, <1>2, RevFrame DEF TypeInv
<1>4. QueueOK'
  BY <1>1, <1>2, EnqueueType
<1> QED
  BY <1>1, <1>2, <1>3, <1>4 DEF TypeInv, WorkersOK, AppWorkerOK, ControllerPatch, BoundOK

\* Kubernetes changes StatefulSets one at a time and keeps whose they are.
LEMMA SetEffect ==
    ASSUME TypeInv, NEW v \in Revs, RollOut(v) \/ PodsReady(v) \/ CollectPods(v)
    PROVE  /\ StsOK' /\ UNCHANGED <<app, proc, wls, bound, reqs, appC, procC, wlC, ops>>
           /\ Enqueue(queue)
           /\ \A u \in Revs : /\ sts'[u].live = sts[u].live
                              /\ sts[u].live => sts'[u].workload = sts[u].workload
<1> DEFINE s == sts[v]
<1>1. s \in StatefulSet /\ s.readyPods <= s.pods
  BY DEF TypeInv, StsOK
<1>2. s.replicas \in Nat /\ s.readyPods \in Nat /\ s.pods \in Nat
  BY <1>1 DEF StatefulSet
<1>3. ASSUME NEW new \in StatefulSet, new.readyPods <= new.pods, new.live = s.live,
             s.live => new.workload = s.workload, ChangeSet(v, new)
      PROVE  /\ StsOK' /\ UNCHANGED <<app, proc, wls, bound, reqs, appC, procC, wlC, ops>>
             /\ Enqueue(queue)
             /\ \A u \in Revs : /\ sts'[u].live = sts[u].live
                                /\ sts[u].live => sts'[u].workload = sts[u].workload
  <2>1. /\ sts' = [sts EXCEPT ![v] = new] /\ Enqueue(queue)
        /\ UNCHANGED <<app, proc, wls, bound, reqs, appC, procC, wlC, ops>>
    BY <1>3 DEF ChangeSet
  <2>2. sts' \in [Revs -> StatefulSet] /\ \A u \in Revs : sts'[u] = IF u = v THEN new ELSE sts[u]
    BY <2>1 DEF TypeInv, StsOK
  <2> QED
    BY <1>3, <2>1, <2>2 DEF TypeInv, StsOK
<1>4. CASE RollOut(v)
  <2> DEFINE ready == IF s.podVersion # s.version THEN 0
                      ELSE IF s.readyPods > s.replicas THEN s.replicas ELSE s.readyPods
             new == [s EXCEPT !.pods = s.replicas, !.podVersion = s.version,
                              !.readyPods = ready]
  <2>1. ChangeSet(v, new) /\ s.live
    BY <1>1, <1>4 DEF RollOut, StatefulSet
  <2>2. ready \in Nat /\ ready <= s.replicas
    BY <1>2
  <2> HIDE DEF ready
  <2>3. /\ new \in StatefulSet /\ new.readyPods <= new.pods /\ new.live = s.live
        /\ new.workload = s.workload
    BY <1>1, <1>2, <2>2 DEF StatefulSet
  <2> QED
    BY <1>3, <2>1, <2>3
<1>5. CASE PodsReady(v)
  <2> DEFINE new == [s EXCEPT !.readyPods = s.pods]
  <2>1. ChangeSet(v, new)
    BY <1>5 DEF PodsReady
  <2>2. /\ new \in StatefulSet /\ new.readyPods <= new.pods /\ new.live = s.live
        /\ new.workload = s.workload
    BY <1>1, <1>2 DEF StatefulSet
  <2> QED
    BY <1>3, <2>1, <2>2
<1>6. CASE CollectPods(v)
  <2>1. ChangeSet(v, NoStatefulSet) /\ ~s.live
    BY <1>6 DEF CollectPods
  <2>2. /\ NoStatefulSet \in StatefulSet /\ NoStatefulSet.readyPods <= NoStatefulSet.pods
        /\ NoStatefulSet.live = FALSE
    BY DEF NoStatefulSet, StatefulSet
  <2>3. s.live \in BOOLEAN
    BY <1>1 DEF StatefulSet
  <2>4. NoStatefulSet.live = s.live
    BY <2>1, <2>2, <2>3
  <2> QED
    BY <1>3, <2>1, <2>2, <2>4
<1> QED
  BY <1>4, <1>5, <1>6

\* The garbage collector marks a workload of an app that is gone.
LEMMA CollectEffect ==
    ASSUME TypeInv, NEW k \in Names, CollectAppWorkload(k)
    PROVE  /\ app.phase = "gone" /\ WlsOK'
           /\ UNCHANGED <<app, proc, sts, bound, reqs, appC, procC, wlC, ops>>
           /\ Enqueue(queue)
           /\ \A j \in Names : /\ wls'[j].exists = wls[j].exists
                               /\ wls[j].exists => wls'[j].lastStop = wls[j].lastStop
<1>1. /\ app.phase = "gone" /\ wls[k].exists
      /\ UNCHANGED <<app, proc, sts, bound, reqs, appC, procC, wlC, ops>>
      /\ Enqueue(queue)
      /\ wls' = [wls EXCEPT ![k].deleting = TRUE]
  BY DEF CollectAppWorkload
<1>2. wls[k] \in AppWorkload
  BY <1>1, WorkloadElim DEF TypeInv
<1>3. wls' = [wls EXCEPT ![k] = [wls[k] EXCEPT !.deleting = TRUE]]
  BY <1>1 DEF TypeInv, WlsOK
<1> DEFINE w == [wls[k] EXCEPT !.deleting = TRUE]
<1>4. w \in AppWorkload /\ w.exists = wls[k].exists /\ w.lastStop = wls[k].lastStop
  BY <1>2 DEF AppWorkload
<1> HIDE DEF w
<1>5. WlsOK' /\ \A j \in Names : wls'[j] = IF j = k THEN w ELSE wls[j]
  BY <1>3, <1>4 DEF TypeInv, WlsOK, w
<1> QED
  BY <1>1, <1>4, <1>5

\* Kubernetes, and restarts.
LEMMA KubernetesType ==
    ASSUME TypeInv, Kubernetes \/ Crash
    PROVE  TypeInv'
<1>1. app \in CFApp /\ app.rev \in Nat /\ QueueOK /\ StsOK /\ WorkersOK
  BY AppElim, BoundsAssumption DEF TypeInv, Revs
<1> DEFINE Typed ==
        /\ UNCHANGED <<app, reqs, ops>>
        /\ \E base \in [app : BOOLEAN, proc : BOOLEAN, wls : SUBSET Names] : Enqueue(base)
        /\ proc' \in CFProcess /\ WlsOK' /\ StsOK' /\ BoundOK' /\ WorkersOK'
<1>2. Typed
  <2>1. ASSUME NEW v \in Revs, RollOut(v) \/ PodsReady(v) \/ CollectPods(v)
        PROVE  Typed
    BY <1>1, <2>1, SetEffect
       DEF TypeInv, WlsOK, BoundOK, QueueOK, WorkersOK, AppWorkerOK, ControllerPatch
  <2>2. ASSUME NEW k \in Names, CollectAppWorkload(k)
        PROVE  Typed
    BY <1>1, <2>2, CollectEffect
       DEF TypeInv, StsOK, BoundOK, QueueOK, WorkersOK, AppWorkerOK, ControllerPatch
  <2>3. CASE CollectCFProcess \/ BindingStep
    <3>1. proc' \in CFProcess /\ BoundOK'
      <4>1. CASE CollectCFProcess
        BY <4>1 DEF CollectCFProcess, TypeInv, CFProcess, BoundOK
      <4>2. CASE BindingStep
        BY <4>2 DEF BindingStep, TypeInv, BoundOK
      <4> QED
        BY <2>3, <4>1, <4>2
    <3>2. UNCHANGED <<app, wls, sts, reqs, appC, procC, wlC, ops>> /\ Enqueue(queue)
      BY <2>3 DEF CollectCFProcess, BindingStep
    <3> QED
      BY <1>1, <3>1, <3>2 DEF TypeInv, WlsOK, StsOK, QueueOK, WorkersOK, AppWorkerOK, ControllerPatch
  <2>4. CASE CrashControllers
    <3>1. [queue EXCEPT !.app = TRUE, !.proc = TRUE]
             \in [app : BOOLEAN, proc : BOOLEAN, wls : SUBSET Names]
      BY <1>1 DEF QueueOK
    <3>2. /\ UNCHANGED <<app, proc, wls, sts, bound, reqs, wlC, ops>>
          /\ appC' = Idle /\ procC' = Idle
          /\ Enqueue([queue EXCEPT !.app = TRUE, !.proc = TRUE])
      BY <2>4 DEF CrashControllers, objects
    <3> QED
      BY <1>1, <3>1, <3>2 DEF TypeInv, WlsOK, StsOK, BoundOK, WorkersOK, AppWorkerOK, ProcessWorker
  <2>5. CASE CrashRunner
    <3>1. Workloads \in SUBSET Names
      BY DEF Workloads
    <3>2. [queue EXCEPT !.wls = Workloads] \in [app : BOOLEAN, proc : BOOLEAN, wls : SUBSET Names]
      BY <1>1, <3>1 DEF QueueOK
    <3>3. /\ UNCHANGED <<app, proc, wls, sts, bound, reqs, appC, procC, ops>>
          /\ wlC' = Idle /\ Enqueue([queue EXCEPT !.wls = Workloads])
      BY <2>5 DEF CrashRunner, objects
    <3> QED
      BY <1>1, <3>2, <3>3
         DEF TypeInv, WlsOK, StsOK, BoundOK, WorkersOK, AppWorkerOK, ControllerPatch, RunnerWorker
  <2> QED
    BY <2>1, <2>2, <2>3, <2>4, <2>5 DEF Kubernetes, Crash
<1>3. ReqsOK' /\ RevInv'
  BY <1>1, <1>2, RevFrame DEF TypeInv
<1>4. QueueOK'
  BY <1>1, <1>2, EnqueueType
<1> QED
  BY <1>1, <1>2, <1>3, <1>4 DEF TypeInv

\* The initial state is well typed.
LEMMA InitType ==
    ASSUME Init
    PROVE  TypeInv
<1>1. PICK c \in Created : app =
             [phase |-> "live", desired |-> c[1], droplet |-> c[2], gen |-> 1,
              rev |-> 0, lastStop |-> None,
              observed |-> 0, actual |-> None, ready |-> FALSE,
              label |-> "ACTIVE"]
  BY DEF Init
<1>2. c[1] \in States /\ c[2] \in Droplets \cup {None} /\ 0 \in Revs
  BY CreatedAssumption, BoundsAssumption DEF States, Revs
<1>3. app \in CFApp /\ app.rev = 0
  BY <1>1, <1>2 DEF CFApp
<1>4. NoStatefulSet \in StatefulSet /\ NoStatefulSet.readyPods <= NoStatefulSet.pods
  BY DEF NoStatefulSet, StatefulSet
<1>5. proc \in CFProcess /\ WlsOK /\ StsOK /\ BoundOK /\ QueueOK
  BY <1>4 DEF Init, CFProcess, WlsOK, StsOK, BoundOK, QueueOK
<1>6. ReqsOK /\ DOMAIN reqs = Requests /\ Pending = {}
  BY DEF Init, ReqsOK, Pending
<1>7. RevInv
  <2>1. IsFiniteSet(Pending) /\ Cardinality(Pending) = 0
    BY <1>6, FS_EmptySet
  <2> QED
    BY <1>3, <1>6, <2>1, BoundsAssumption DEF RevInv, Init
<1>8. WorkersOK
  BY DEF Init, WorkersOK, AppWorkerOK, ProcessWorker, RunnerWorker
<1> QED
  BY <1>3, <1>5, <1>6, <1>7, <1>8 DEF TypeInv

\* Typing is inductive.
LEMMA NextType ==
    ASSUME TypeInv, [Next]_vars
    PROVE  TypeInv'
<1>1. CASE API
  <2>1. ASSUME NEW r \in Requests, StartApp(r) \/ StopApp(r)
        PROVE  TypeInv'
    BY <2>1, ReadAppType DEF StartApp, StopApp
  <2>2. ASSUME NEW r \in Requests, NEW d \in Droplets, SetCurrentDroplet(r, d)
        PROVE  TypeInv'
    BY <2>2, ReadAppType DEF SetCurrentDroplet
  <2>3. ASSUME NEW r \in Requests, NEW d \in Droplets \cup {None}, CreateDeployment(r, d)
        PROVE  TypeInv'
    BY <2>3, ReadAppType DEF CreateDeployment
  <2> QED
    BY <1>1, <2>1, <2>2, <2>3, PatchAppType, SimpleAPIType DEF API
<1>2. CASE UNCHANGED vars
  BY <1>2 DEF vars, objects, TypeInv, WlsOK, StsOK, BoundOK, QueueOK, ReqsOK, RevInv, Pending,
     WorkersOK, AppWorkerOK, ControllerPatch, RequestPatch
<1> QED
  BY <1>1, <1>2, AppControllerType, ProcessControllerType, RunnerType, KubernetesType DEF Next

\* Every object and every worker keeps its type, for any number of API calls,
\* restarts and overlapping requests: in particular the revisions that the
\* webhook and deployments write stay within the calls that were made.
THEOREM TypeCorrect == Spec => []TypeOK
<1>1. Init => TypeInv
  BY InitType
<1>2. TypeInv /\ [Next]_vars => TypeInv'
  BY NextType
<1>3. TypeInv => TypeOK
  BY TypeSuffices
<1> QED
  BY <1>1, <1>2, <1>3, PTL DEF Spec

-----------------------------------------------------------------------------
(* StatefulSets and workloads.                                             *)

\* A live StatefulSet names a workload, and the one the runner works on is
\* there: nobody else removes workloads.
SetsInv ==
    /\ SetsHaveWorkload
    /\ \A v \in Revs : sts[v].live => sts[v].workload \in Names
    /\ wlC.pc = "read" => wls[wlC.name].exists

\* Steps that make no StatefulSet and remove no workload.
LEMMA SetsFrame ==
    ASSUME SetsInv, TypeInv,
           \A v \in Revs : sts'[v].live => sts[v].live /\ sts'[v].workload = sts[v].workload,
           \A k \in Names : wls[k].exists => wls'[k].exists,
           wlC' = wlC \/ wlC' = Idle
    PROVE  SetsInv'
<1>1. \A v \in Revs : sts'[v].live => /\ sts'[v].workload \in Names
                                      /\ wls'[sts'[v].workload].exists
  BY DEF SetsInv, SetsHaveWorkload, LiveSets
<1>2. wlC'.pc = "read" => wlC' = wlC
  BY DEF Idle
<1>3. wlC.pc = "read" => wlC.name \in Names
  BY DEF TypeInv, WorkersOK, RunnerWorker, Idle
<1>4. wlC'.pc = "read" => wls'[wlC'.name].exists
  BY <1>2, <1>3 DEF SetsInv
<1> QED
  BY <1>1, <1>4 DEF SetsInv, SetsHaveWorkload, LiveSets

\* The claim about StatefulSets is inductive.
LEMMA NextSets ==
    ASSUME TypeInv, SetsInv, [Next]_vars
    PROVE  SetsInv'
<1>1. CASE ApplyCFProcess
  <2>1. UNCHANGED <<sts, wlC>>
    BY <1>1 DEF ApplyCFProcess
  <2>2. \A k \in Names : wls[k].exists => wls'[k].exists
    BY <1>1, ApplyEffect
  <2> QED
    BY <2>1, <2>2, SetsFrame
<1>2. CASE CleanUpAppWorkloads
  <2>1. UNCHANGED <<sts, wlC>>
    BY <1>2 DEF CleanUpAppWorkloads
  <2>2. \A k \in Names : wls[k].exists => wls'[k].exists
    BY <1>2, CleanUpEffect
  <2> QED
    BY <2>1, <2>2, SetsFrame
<1>3. ASSUME NEW k \in Names, ReadAppWorkload(k)
      PROVE  SetsInv'
  <2>1. UNCHANGED <<sts, wls>>
    BY <1>3 DEF ReadAppWorkload, objects
  <2>2. wlC' = IF wls[k].exists THEN [pc |-> "read", name |-> k, read |-> wls[k]] ELSE Idle
    BY <1>3 DEF ReadAppWorkload
  <2>3. wlC'.pc = "read" => wls'[wlC'.name].exists
    BY <2>1, <2>2 DEF Idle
  <2> QED
    BY <2>1, <2>3 DEF SetsInv, SetsHaveWorkload, LiveSets
<1>4. CASE ApplyAppWorkload
  <2>1. wlC' = Idle /\ wlC.pc = "read" /\ wlC.name \in Names
    BY <1>4, RunnerApplyEffect DEF ApplyAppWorkload
  <2>2. \A k \in Names : wls'[k].exists = wls[k].exists
    BY <1>4, RunnerApplyEffect DEF SameWorkload
  <2>3. PICK v \in Revs : /\ sts'[v].workload = wlC.name
                          /\ \A u \in Revs : u # v => sts'[u] = sts[u]
    BY <1>4, RunnerApplyEffect
  <2>4. wls'[wlC.name].exists
    BY <2>1, <2>2 DEF SetsInv
  <2>5. \A u \in Revs : sts'[u].live => /\ sts'[u].workload \in Names
                                        /\ wls'[sts'[u].workload].exists
    BY <2>1, <2>2, <2>3, <2>4 DEF SetsInv, SetsHaveWorkload, LiveSets
  <2> QED
    BY <2>1, <2>5 DEF SetsInv, SetsHaveWorkload, LiveSets, Idle
<1>5. ASSUME NEW stale \in BOOLEAN, FinalizeAppWorkload(stale)
      PROVE  SetsInv'
  <2>1. wlC' = Idle
    BY <1>5 DEF FinalizeAppWorkload
  <2>2. /\ \A k \in Names : k # wlC.name => wls'[k] = wls[k]
        /\ \A v \in Revs : sts'[v].live => sts'[v] = sts[v] /\ sts[v].workload # wlC.name
    BY <1>5, RunnerFinalizeEffect
  <2>3. \A v \in Revs : sts'[v].live => /\ sts'[v].workload \in Names
                                        /\ wls'[sts'[v].workload].exists
    BY <2>2 DEF SetsInv, SetsHaveWorkload, LiveSets
  <2> QED
    BY <2>1, <2>3 DEF SetsInv, SetsHaveWorkload, LiveSets, Idle
<1>6. ASSUME NEW v \in Revs, RollOut(v) \/ PodsReady(v) \/ CollectPods(v)
      PROVE  SetsInv'
  <2>1. /\ UNCHANGED <<wls, wlC>>
        /\ \A u \in Revs : /\ sts'[u].live = sts[u].live
                           /\ sts[u].live => sts'[u].workload = sts[u].workload
    BY <1>6, SetEffect
  <2> QED
    BY <2>1, SetsFrame
<1>7. ASSUME NEW k \in Names, CollectAppWorkload(k)
      PROVE  SetsInv'
  <2>1. UNCHANGED <<sts, wlC>> /\ \A j \in Names : wls'[j].exists = wls[j].exists
    BY <1>7, CollectEffect
  <2> QED
    BY <2>1, SetsFrame
<1>8. CASE UNCHANGED <<wls, sts>> /\ (wlC' = wlC \/ wlC' = Idle)
  BY <1>8, SetsFrame
<1>9. CASE API \/ AppController \/ ReadCFProcess \/ FailCFProcess \/ CollectCFProcess
           \/ BindingStep \/ Crash \/ UNCHANGED vars
  <2>1. CASE API
    BY <1>8, <2>1 DEF API, StartApp, StopApp, SetCurrentDroplet, CreateDeployment, ReadApp,
       PatchApp, ScaleProcess, DeleteApp, CreateBinding, objects
  <2>2. CASE AppController
    BY <1>8, <2>2 DEF AppController, ReadCFApp, FinalizeCFApp, ReconcileCFApp, PatchCFAppStatus,
       objects
  <2>3. CASE ReadCFProcess \/ FailCFProcess \/ CollectCFProcess \/ BindingStep
    BY <1>8, <2>3 DEF ReadCFProcess, FailCFProcess, CollectCFProcess, BindingStep, objects
  <2>4. CASE Crash
    BY <1>8, <2>4 DEF Crash, CrashControllers, CrashRunner, objects
  <2>5. CASE UNCHANGED vars
    BY <1>8, <2>5 DEF vars, objects
  <2> QED
    BY <1>9, <2>1, <2>2, <2>3, <2>4, <2>5
<1> QED
  BY <1>1, <1>2, <1>3, <1>4, <1>5, <1>6, <1>7, <1>9
     DEF Next, ProcessController, Runner, Kubernetes

\* No workload goes before its StatefulSets, for any number of API calls,
\* overlapping requests and restarts, whatever the names of workloads collide
\* with, and also when the list of the finalizer is old.
THEOREM SetsKeepWorkload == Spec => []SetsHaveWorkload
<1>1. Init => SetsInv
  BY DEF Init, SetsInv, SetsHaveWorkload, LiveSets, NoStatefulSet, Idle
<1>2. TypeInv /\ SetsInv /\ [Next]_vars => SetsInv'
  BY NextSets
<1>3. SetsInv => SetsHaveWorkload
  BY DEF SetsInv
<1>4. Init => TypeInv
  BY InitType
<1>5. TypeInv /\ [Next]_vars => TypeInv'
  BY NextType
<1> QED
  BY <1>1, <1>2, <1>3, <1>4, <1>5, PTL DEF Spec

-----------------------------------------------------------------------------
(* Names of workloads.                                                     *)

\* API requests do not overlap, and the hash has no collisions.
OneRequest == \A r, s \in Requests : r = s
NoCollisions == \A u, v \in Revs : Hash[u] = Hash[v] => u = v

\* Nothing has been made for the app yet.
Pristine ==
    /\ ~proc.exists
    /\ Workloads = {}
    /\ procC = Idle

\* The controller gives the app its first last-stop revision with the step
\* that creates the process, and no process is made without.
FirstInv ==
    /\ app.lastStop = None => Pristine
    /\ appC.pc = "read" /\ appC.read.lastStop = None => Pristine
    /\ appC.pc = "read" /\ appC.read.lastStop # None => app.lastStop # None
    /\ procC.pc = "read" => procC.app.lastStop # None

\* A deployment under way has read the current revision, and a stop is never
\* later than the revision.
CounterInv ==
    /\ \A r \in Pending : "rev" \in DOMAIN reqs[r] => reqs[r]["rev"] = app.rev + 1
    /\ app.lastStop # None => app.lastStop <= app.rev
    /\ appC.pc = "read" => LastStopRevision(appC.read) <= app.rev

\* No workload belongs to the current start.
NoneCurrent == \A k \in Workloads : wls[k].lastStop < app.lastStop

\* What the process controller is about to do belongs to the current start,
\* or to an earlier one.
CurrentRead == procC.app.desired = "STARTED" /\ procC.app.lastStop = app.lastStop
CurrentApplied == procC.desired = "STARTED" /\ procC.name = Hash[app.lastStop]

NameInv ==
    /\ \A k \in Workloads : k = Hash[wls[k].lastStop]
    /\ app.phase = "live" /\ app.lastStop # None =>
        /\ \A k \in Workloads : wls[k].lastStop <= app.lastStop
        /\ app.desired = "STOPPED" => NoneCurrent
        /\ procC.pc = "read" =>
            /\ procC.app.lastStop <= app.lastStop
            /\ app.desired = "STOPPED" /\ procC.app.desired = "STARTED"
                   => procC.app.lastStop < app.lastStop
            /\ CurrentRead \/ NoneCurrent
        /\ procC.pc = "applied" => CurrentApplied \/ NoneCurrent

NamesInv == FirstInv /\ CounterInv /\ NameInv

\* Steps that touch neither revisions nor requests, start nothing and make no
\* workload.
Quiet ==
    /\ app'.lastStop = app.lastStop /\ app'.rev = app.rev
    /\ app'.phase = "live" => app.phase = "live"
    /\ app'.desired = "STOPPED" => app.desired = "STOPPED"
    /\ proc'.exists => proc.exists
    /\ \A k \in Names : wls'[k].exists => wls[k].exists /\ wls'[k].lastStop = wls[k].lastStop
    /\ procC' = procC \/ procC' = Idle
    /\ appC' = appC \/ appC'.pc # "read"
    /\ reqs' = reqs

\* They keep the invariant.
LEMMA QuietKeeps ==
    ASSUME TypeInv, NamesInv, Quiet
    PROVE  NamesInv'
<1>1. Workloads' \subseteq Workloads /\ \A k \in Workloads' : wls'[k].lastStop = wls[k].lastStop
  BY DEF Quiet, Workloads
<1>2. procC'.pc # "idle" => procC' = procC
  BY DEF Quiet, Idle
<1>3. Pristine => Pristine'
  BY <1>1 DEF Quiet, Pristine
<1>4. FirstInv'
  BY <1>2, <1>3 DEF NamesInv, FirstInv, Quiet
<1>5. CounterInv'
  BY DEF NamesInv, CounterInv, Quiet, Pending
<1>6. NoneCurrent => NoneCurrent'
  BY <1>1 DEF NoneCurrent, Quiet
<1>7. \A k \in Workloads' : k = Hash[wls'[k].lastStop]
  BY <1>1 DEF NamesInv, NameInv
<1>8. ASSUME app'.phase = "live", app'.lastStop # None
      PROVE  /\ \A k \in Workloads' : wls'[k].lastStop <= app'.lastStop
             /\ app'.desired = "STOPPED" => NoneCurrent'
             /\ procC'.pc = "read" =>
                  /\ procC'.app.lastStop <= app'.lastStop
                  /\ app'.desired = "STOPPED" /\ procC'.app.desired = "STARTED"
                         => procC'.app.lastStop < app'.lastStop
                  /\ CurrentRead' \/ NoneCurrent'
             /\ procC'.pc = "applied" => CurrentApplied' \/ NoneCurrent'
  <2>1. /\ app.phase = "live" /\ app.lastStop # None /\ app'.lastStop = app.lastStop
        /\ app'.desired = "STOPPED" => app.desired = "STOPPED"
    BY <1>8 DEF Quiet
  <2>2. /\ \A k \in Workloads : wls[k].lastStop <= app.lastStop
        /\ app.desired = "STOPPED" => NoneCurrent
        /\ procC.pc = "read" =>
             /\ procC.app.lastStop <= app.lastStop
             /\ app.desired = "STOPPED" /\ procC.app.desired = "STARTED"
                    => procC.app.lastStop < app.lastStop
             /\ CurrentRead \/ NoneCurrent
        /\ procC.pc = "applied" => CurrentApplied \/ NoneCurrent
    BY <2>1 DEF NamesInv, NameInv
  <2>3. \A k \in Workloads' : wls'[k].lastStop <= app'.lastStop
    BY <1>1, <2>1, <2>2
  <2>4. procC' = procC => (CurrentRead => CurrentRead') /\ (CurrentApplied => CurrentApplied')
    BY <2>1 DEF CurrentRead, CurrentApplied
  <2> HIDE DEF CurrentRead, CurrentApplied, NoneCurrent
  <2> QED
    BY <1>2, <1>6, <2>1, <2>2, <2>3, <2>4
<1> QED
  BY <1>4, <1>5, <1>7, <1>8 DEF NamesInv, NameInv

\* Most actions are of this kind.
LEMMA QuietSteps ==
    ASSUME TypeInv,
           \/ \E n \in Scales : ScaleProcess(n)
           \/ DeleteApp \/ CreateBinding
           \/ FinalizeCFApp \/ PatchCFAppStatus
           \/ FailCFProcess \/ CleanUpAppWorkloads
           \/ Runner \/ Kubernetes \/ Crash
           \/ UNCHANGED vars
    PROVE  Quiet
<1>1. app \in CFApp /\ proc \in CFProcess /\ WorkersOK /\ BoundOK
  BY DEF TypeInv
<1> DEFINE Same == \A k \in Names : wls'[k].exists => /\ wls[k].exists
                                                      /\ wls'[k].lastStop = wls[k].lastStop
<1>2. CASE (\E n \in Scales : ScaleProcess(n)) \/ CreateBinding \/ FailCFProcess
  <2>1. /\ UNCHANGED <<app, wls, reqs, appC>> /\ (procC' = procC \/ procC' = Idle)
    BY <1>2 DEF ScaleProcess, CreateBinding, FailCFProcess
  <2>2. proc'.exists = proc.exists
    BY <1>1, <1>2 DEF ScaleProcess, CreateBinding, FailCFProcess, CFProcess
  <2> QED
    BY <2>1, <2>2 DEF Quiet
<1>3. CASE DeleteApp
  BY <1>1, <1>3 DEF DeleteApp, Quiet, CFApp
<1>4. CASE FinalizeCFApp
  <2>1. UNCHANGED <<proc, wls, reqs, procC>>
    BY <1>4 DEF FinalizeCFApp
  <2>2. /\ app'.phase \in {app.phase, "gone"} /\ app'.desired = app.desired
        /\ app'.rev = app.rev /\ app'.lastStop = app.lastStop /\ appC'.pc # "read"
    BY <1>1, <1>4, FinalizeEffect DEF WorkersOK
  <2> QED
    BY <2>1, <2>2 DEF Quiet
<1>5. CASE PatchCFAppStatus
  <2>1. /\ appC.pc = "status" /\ UNCHANGED <<proc, wls, reqs, procC>> /\ appC' = Idle
        /\ app' = IF app.phase = "gone" THEN app ELSE PatchStatus(appC.patch)
    BY <1>5 DEF PatchCFAppStatus
  <2>2. ControllerPatch(appC.patch)
    BY <1>1, <2>1 DEF WorkersOK, AppWorkerOK, Idle
  <2>3. /\ app'.phase = app.phase /\ app'.desired = app.desired
        /\ app'.rev = app.rev /\ app'.lastStop = app.lastStop
    BY <1>1, <2>1, <2>2, StatusWrites
  <2> QED
    BY <2>1, <2>3 DEF Quiet, Idle
<1>6. CASE CleanUpAppWorkloads
  <2>1. UNCHANGED <<app, reqs, appC>> /\ procC' = Idle
    BY <1>6 DEF CleanUpAppWorkloads
  <2>2. proc'.exists = proc.exists
    BY <1>1, <1>6 DEF CleanUpAppWorkloads, CFProcess
  <2>3. Same
    BY <1>6, CleanUpEffect
  <2> QED
    BY <2>1, <2>2, <2>3 DEF Quiet
<1>7. CASE Runner
  <2>1. UNCHANGED <<app, proc, reqs, appC, procC>>
    BY <1>7 DEF Runner, ReadAppWorkload, ApplyAppWorkload, FinalizeAppWorkload, objects
  <2>2. ASSUME NEW k \in Names, ReadAppWorkload(k)
        PROVE  Same
    BY <2>2 DEF ReadAppWorkload, objects
  <2>3. ASSUME ApplyAppWorkload
        PROVE  Same
    BY <2>3, RunnerApplyEffect DEF SameWorkload
  <2>4. ASSUME NEW stale \in BOOLEAN, FinalizeAppWorkload(stale)
        PROVE  Same
    <3>1. ~NoWorkload.exists
      BY DEF NoWorkload
    <3> QED
      BY <2>4, <3>1, RunnerFinalizeEffect DEF SameWorkload
  <2> QED
    BY <1>7, <2>1, <2>2, <2>3, <2>4 DEF Runner, Quiet
<1>8. CASE Kubernetes
  <2>1. ASSUME NEW v \in Revs, RollOut(v) \/ PodsReady(v) \/ CollectPods(v)
        PROVE  Quiet
    BY <2>1, SetEffect DEF Quiet
  <2>2. ASSUME NEW k \in Names, CollectAppWorkload(k)
        PROVE  Quiet
    BY <2>2, CollectEffect DEF Quiet
  <2>3. CASE CollectCFProcess \/ BindingStep
    <3>1. UNCHANGED <<app, wls, reqs, appC, procC>>
      BY <2>3 DEF CollectCFProcess, BindingStep
    <3>2. proc'.exists => proc.exists
      BY <2>3 DEF CollectCFProcess, BindingStep
    <3> QED
      BY <3>1, <3>2 DEF Quiet
  <2> QED
    BY <1>8, <2>1, <2>2, <2>3 DEF Kubernetes
<1>9. CASE Crash
  BY <1>9 DEF Crash, CrashControllers, CrashRunner, objects, Quiet, Idle
<1>10. CASE UNCHANGED vars
  BY <1>10 DEF vars, objects, Quiet
<1> QED
  BY <1>2, <1>3, <1>4, <1>5, <1>6, <1>7, <1>8, <1>9, <1>10

\* A request that reads the app is the only one, and a deployment among them
\* is about to write the next revision.
LEMMA ReadAppNames ==
    ASSUME OneRequest, TypeInv, NamesInv, NEW r \in Requests, NEW d \in Droplets \cup {None},
           NEW kind \in {"start", "stop", "droplet", "deploy"}, ReadApp(r, kind, d)
    PROVE  NamesInv'
<1> DEFINE p == MergeFrom(app, ModifiedApp(app, kind, d))
<1>1. /\ reqs' = [reqs EXCEPT ![r] = p]
      /\ UNCHANGED <<app, proc, wls, sts, bound, appC, procC, wlC>>
  BY DEF ReadApp, objects
<1>2. "rev" \in DOMAIN p => p["rev"] = app.rev + 1
  BY ReadAppPatch DEF TypeInv
<1> HIDE DEF p
<1>3. \A q \in Pending' : "rev" \in DOMAIN reqs'[q] => reqs'[q]["rev"] = app.rev + 1
  BY <1>1, <1>2 DEF OneRequest, Pending, TypeInv, RevInv
<1>4. CounterInv'
  BY <1>1, <1>3 DEF NamesInv, CounterInv
<1>5. FirstInv' /\ NameInv'
  BY <1>1 DEF NamesInv, FirstInv, NameInv, Pristine, Workloads, NoneCurrent, CurrentRead,
     CurrentApplied
<1> QED
  BY <1>4, <1>5 DEF NamesInv

\* A request that writes the app: the revision never goes back, and a stop
\* takes a revision later than that of every workload.
LEMMA PatchAppNames ==
    ASSUME OneRequest, TypeInv, TypeInv', NamesInv, NEW r \in Requests, PatchApp(r)
    PROVE  NamesInv'
<1> DEFINE p == reqs[r]
<1>1. /\ p # None /\ reqs' = [reqs EXCEPT ![r] = None]
      /\ app' = IF app.phase = "gone" THEN app ELSE PatchMain(p)
      /\ UNCHANGED <<proc, wls, sts, bound, appC, procC, wlC, ops>>
  BY DEF PatchApp
<1>2. Pending' = {}
  BY <1>1 DEF OneRequest, Pending, TypeInv, RevInv
<1>3. /\ app \in CFApp /\ app.rev \in Nat /\ RequestPatch(p)
      /\ app.lastStop \in Revs \cup {None} /\ app'.rev \in Nat
      /\ app.desired \in States
  BY <1>1, AppElim, BoundsAssumption DEF TypeInv, Revs, ReqsOK
<1>4. "rev" \in DOMAIN p => p["rev"] = app.rev + 1
  BY <1>1 DEF NamesInv, CounterInv, Pending
<1>5. app.rev < MaxOps
  <2>1. /\ IsFiniteSet(Pending) /\ r \in Pending /\ ops \in 0..MaxOps
        /\ app.rev + Cardinality(Pending) <= ops
    BY <1>1 DEF TypeInv, RevInv, Pending
  <2>2. Cardinality(Pending) \in Nat \ {0}
    BY <2>1, FS_EmptySet, FS_CardinalityType
  <2> QED
    BY <1>3, <2>1, <2>2, BoundsAssumption
<1>6. /\ app'.phase = app.phase
      /\ \/ /\ ~Stops(app, app')
            /\ app'.rev \in {app.rev, app.rev + 1} /\ app'.lastStop = app.lastStop
         \/ /\ Stops(app, app') /\ app'.rev = app.rev + 1 /\ app'.lastStop = app'.rev
  <2>1. CASE app.phase = "gone"
    BY <1>1, <2>1 DEF Stops
  <2>2. CASE app.phase # "gone"
    <3>1. app' = PatchMain(p)
      BY <1>1, <2>2
    <3>2. "rev" \in DOMAIN p => p["rev"] <= MaxOps
      BY <1>3, <1>4, <1>5, BoundsAssumption
    <3> HIDE DEF p
    <3>3. /\ app'.phase = app.phase
          /\ \/ /\ ~Stops(app, app')
                /\ app'.rev = Value(p, "rev", app.rev) /\ app'.lastStop = app.lastStop
             \/ /\ Stops(app, app')
                /\ app'.rev = app.rev + 1 /\ app'.lastStop = app'.rev
      BY <1>3, <1>5, <3>1, <3>2, RequestWrites
    <3> QED
      BY <1>4, <3>3 DEF Value
  <2> QED
    BY <2>1, <2>2
<1> HIDE DEF p
<1>7. app.lastStop # None => app.lastStop \in Nat /\ app.lastStop <= app.rev
  BY <1>3, BoundsAssumption DEF NamesInv, CounterInv, Revs
<1>8. app'.lastStop = None => app.lastStop = None
  BY <1>3, <1>6, NoneAssumption
<1>9. FirstInv'
  <2>1. Pristine => Pristine'
    BY <1>1 DEF Pristine, Workloads
  <2>2. app.lastStop # None => app'.lastStop # None
    BY <1>8
  <2> QED
    BY <1>1, <1>8, <2>1, <2>2 DEF NamesInv, FirstInv
<1>10. CounterInv'
  <2>1. app'.lastStop # None => app'.lastStop <= app'.rev
    BY <1>3, <1>6, <1>7
  <2>2. appC'.pc = "read" => LastStopRevision(appC'.read) <= app'.rev
    <3> SUFFICES ASSUME appC.pc = "read"
                 PROVE  LastStopRevision(appC.read) <= app'.rev
      BY <1>1 DEF LastStopRevision
    <3>1. appC.read \in CFApp
      BY DEF TypeInv, WorkersOK, AppWorkerOK, Idle
    <3>2. LastStopRevision(appC.read) \in Nat
      BY <3>1, AppElim, BoundsAssumption DEF LastStopRevision, Revs
    <3>3. LastStopRevision(appC.read) <= app.rev
      BY DEF NamesInv, CounterInv
    <3> QED
      BY <1>3, <1>6, <3>2, <3>3
  <2> QED
    BY <1>2, <2>1, <2>2 DEF CounterInv
<1>11. NameInv'
  <2>1. CASE ~Stops(app, app')
    <3>1. app'.lastStop = app.lastStop
      BY <1>3, <1>6, <2>1
    <3>2. app'.desired = "STOPPED" => app.desired = "STOPPED"
      BY <1>3, <2>1 DEF Stops, States
    <3> QED
      BY <1>1, <1>6, <3>1, <3>2 DEF NamesInv, NameInv, Workloads, NoneCurrent, CurrentRead,
         CurrentApplied
  <2>2. CASE Stops(app, app')
    <3>1. app'.lastStop = app.rev + 1
      BY <1>6, <2>2
    <3>2. \A k \in Workloads : k = Hash[wls[k].lastStop]
      BY DEF NamesInv, NameInv
    <3>3. CASE app.lastStop = None
      <4>1. Workloads' = {} /\ procC' = Idle
        BY <1>1, <3>3 DEF NamesInv, FirstInv, Pristine, Workloads
      <4> QED
        BY <4>1 DEF NameInv, NoneCurrent, Idle
    <3>4. CASE app.lastStop # None /\ app'.phase = "live"
      <4>1. \A k \in Workloads : wls[k].lastStop \in Nat /\ wls[k].lastStop <= app.lastStop
        BY <1>6, <3>4, WorkloadNumber DEF NamesInv, NameInv
      <4>2. NoneCurrent' /\ \A k \in Workloads' : wls'[k].lastStop <= app'.lastStop
        BY <1>1, <1>3, <1>7, <3>1, <3>4, <4>1 DEF NoneCurrent, Workloads
      <4>3. procC'.pc = "read" => procC'.app.lastStop < app'.lastStop
                                    /\ procC'.app.lastStop <= app'.lastStop
        <5> SUFFICES ASSUME procC.pc = "read"
                     PROVE  procC.app.lastStop < app.rev + 1 /\ procC.app.lastStop <= app.rev + 1
          BY <1>1, <3>1
        <5>1. procC.app.lastStop \in Nat
          BY NoneAssumption, BoundsAssumption DEF NamesInv, FirstInv, TypeInv, WorkersOK,
             ProcessWorker, Idle, SeenApp, Revs
        <5>2. procC.app.lastStop <= app.lastStop
          BY <1>6, <3>4 DEF NamesInv, NameInv
        <5> QED
          BY <1>3, <1>7, <3>4, <5>1, <5>2
      <4>4. \A k \in Workloads' : k = Hash[wls'[k].lastStop]
        BY <1>1, <3>2 DEF Workloads
      <4> QED
        BY <4>2, <4>3, <4>4 DEF NameInv
    <3>5. CASE app'.phase # "live"
      BY <1>1, <3>2, <3>5 DEF NameInv, Workloads
    <3> QED
      BY <3>3, <3>4, <3>5
  <2> QED
    BY <2>1, <2>2
<1> QED
  BY <1>9, <1>10, <1>11 DEF NamesInv

\* The controllers: what they read is the current start, what they apply is
\* named after what they have read, and the first last stop comes before the
\* first process.
LEMMA ControllerNames ==
    ASSUME TypeInv, NamesInv,
           ReadCFApp \/ ReconcileCFApp \/ ReadCFProcess \/ ApplyCFProcess
    PROVE  NamesInv'
<1>1. /\ app \in CFApp /\ proc \in CFProcess /\ WorkersOK /\ app.rev \in Nat
      /\ app.lastStop \in Revs \cup {None} /\ app.desired \in States
  BY AppElim, BoundsAssumption DEF TypeInv, Revs
<1>2. CASE ReadCFApp
  <2>1. /\ UNCHANGED <<app, proc, wls, reqs, procC>>
        /\ appC' = Idle \/ appC' = [pc |-> "read", read |-> app]
    BY <1>2 DEF ReadCFApp, objects
  <2>2. FirstInv'
    BY <2>1 DEF NamesInv, FirstInv, Pristine, Workloads, Idle
  <2>3. LastStopRevision(app) <= app.rev
    BY <1>1 DEF LastStopRevision, NamesInv, CounterInv
  <2>4. CounterInv'
    <3>1. appC'.pc = "read" => LastStopRevision(appC'.read) <= app'.rev
      BY <2>1, <2>3 DEF Idle, LastStopRevision
    <3> QED
      BY <2>1, <3>1 DEF NamesInv, CounterInv, Pending
  <2>5. NameInv'
    BY <2>1 DEF NamesInv, NameInv, Workloads, NoneCurrent, CurrentRead, CurrentApplied
  <2> QED
    BY <2>2, <2>4, <2>5 DEF NamesInv
<1>3. CASE ReconcileCFApp
  <2>1. UNCHANGED <<wls, reqs, procC>> /\ appC.pc = "read"
    BY <1>3 DEF ReconcileCFApp
  <2>2. /\ appC.read \in CFApp
        /\ app'.phase = app.phase /\ app'.desired = app.desired /\ app'.rev = app.rev
        /\ app'.lastStop = IF appC.read.lastStop = None THEN appC.read.rev ELSE app.lastStop
        /\ appC'.pc = "status"
    BY <1>1, <1>3, ReconcileEffect DEF WorkersOK
  <2>3. appC.read.rev \in Nat /\ appC.read.rev # None
    BY <2>2, AppElim, BoundsAssumption, NoneAssumption DEF Revs
  <2>4. app'.lastStop # None
    BY <2>1, <2>2, <2>3 DEF NamesInv, FirstInv
  <2>5. FirstInv'
    BY <2>1, <2>2, <2>4 DEF NamesInv, FirstInv
  <2>6. CounterInv'
    <3>1. appC.read.lastStop = None => appC.read.rev <= app.rev
      BY <2>1 DEF NamesInv, CounterInv, LastStopRevision
    <3>2. app'.lastStop <= app'.rev
      BY <2>2, <2>4, <3>1 DEF NamesInv, CounterInv
    <3> QED
      BY <2>1, <2>2, <3>2 DEF NamesInv, CounterInv, Pending
  <2>7. NameInv'
    <3>1. CASE appC.read.lastStop = None
      <4>1. Workloads' = {} /\ procC' = Idle
        BY <2>1, <3>1 DEF NamesInv, FirstInv, Pristine, Workloads
      <4> QED
        BY <4>1 DEF NameInv, NoneCurrent, Idle
    <3>2. CASE appC.read.lastStop # None
      <4>1. app'.lastStop = app.lastStop
        BY <2>2, <3>2
      <4> QED
        BY <2>1, <2>2, <4>1 DEF NamesInv, NameInv, Workloads, NoneCurrent, CurrentRead,
           CurrentApplied
    <3> QED
      BY <3>1, <3>2
  <2> QED
    BY <2>5, <2>6, <2>7 DEF NamesInv
<1>4. CASE ReadCFProcess
  <2>1. UNCHANGED <<app, proc, wls, reqs, appC>> /\ procC = Idle
    BY <1>4 DEF ReadCFProcess, objects
  <2>2. CounterInv'
    BY <2>1 DEF NamesInv, CounterInv, Pending, LastStopRevision
  <2>3. CASE ~proc.exists
    <3>1. procC' = procC
      BY <1>4, <2>1, <2>3 DEF ReadCFProcess
    <3>2. FirstInv' /\ NameInv'
      BY <2>1, <3>1 DEF NamesInv, FirstInv, NameInv, Pristine, Workloads, NoneCurrent,
         CurrentRead, CurrentApplied
    <3> QED
      BY <2>2, <3>2 DEF NamesInv
  <2>4. CASE proc.exists
    <3>1. /\ procC'.pc = "read" /\ procC'.app.desired = app.desired
          /\ procC'.app.lastStop = app.lastStop
      BY <1>4, <2>4 DEF ReadCFProcess
    <3>2. app.lastStop # None /\ app.lastStop \in Nat
      BY <1>1, <2>4, BoundsAssumption DEF NamesInv, FirstInv, Pristine, Revs
    <3>3. FirstInv'
      BY <2>1, <2>4, <3>1, <3>2 DEF NamesInv, FirstInv, Pristine
    <3>4. NoneCurrent => NoneCurrent'
      BY <2>1 DEF NoneCurrent, Workloads
    <3>5. app.desired = "STARTED" => CurrentRead'
      BY <2>1, <3>1 DEF CurrentRead
    <3>6. app.phase = "live" /\ app.desired = "STOPPED" => NoneCurrent
      BY <3>2 DEF NamesInv, NameInv
    <3>7. \A k \in Workloads' : k = Hash[wls'[k].lastStop]
      BY <2>1 DEF NamesInv, NameInv, Workloads
    <3>8. app.phase = "live" => \A k \in Workloads' : wls'[k].lastStop <= app'.lastStop
      BY <2>1, <3>2 DEF NamesInv, NameInv, Workloads
    <3> HIDE DEF NoneCurrent, CurrentRead, CurrentApplied
    <3>9. NameInv'
      BY <1>1, <2>1, <3>1, <3>2, <3>4, <3>5, <3>6, <3>7, <3>8 DEF NameInv, States
    <3> QED
      BY <2>2, <3>3, <3>9 DEF NamesInv
  <2> QED
    BY <2>3, <2>4
<1>5. CASE ApplyCFProcess
  <2>1. UNCHANGED <<app, proc, reqs, appC>>
    BY <1>5 DEF ApplyCFProcess
  <2> DEFINE L == procC.app.lastStop
             n == Hash[L]
  <2>2. procC.pc = "read" /\ L # None /\ L \in Revs /\ L \in Nat
    BY <1>5, ApplyEffect, BoundsAssumption DEF NamesInv, FirstInv, SeenApp, Revs
  <2>3. LastStopRevision(procC.app) = L /\ DesiredWorkloadName(procC.app) = n
    BY <2>2 DEF LastStopRevision, DesiredWorkloadName
  <2>4. /\ procC'.pc = "applied" /\ procC'.desired = procC.app.desired /\ procC'.name = n
        /\ n \in Names
        /\ \A k \in Names : k # n => wls'[k] = wls[k]
        /\ \/ wls' = wls
           \/ /\ procC.app.desired = "STARTED"
              /\ wls'[n].exists /\ wls'[n].lastStop = L
    BY <1>5, <2>3, ApplyEffect
  <2>5. ~Pristine
    BY <2>2 DEF Pristine, Idle
  <2>6. FirstInv'
    BY <2>1, <2>4, <2>5 DEF NamesInv, FirstInv
  <2>7. CounterInv'
    BY <2>1 DEF NamesInv, CounterInv, Pending, LastStopRevision
  <2>8. \A k \in Workloads' : \/ k \in Workloads /\ wls'[k].lastStop = wls[k].lastStop
                              \/ k = n /\ wls'[k].lastStop = L /\ procC.app.desired = "STARTED"
    BY <2>4 DEF Workloads
  <2>9. \A k \in Workloads' : k = Hash[wls'[k].lastStop]
    BY <2>8 DEF NamesInv, NameInv
  <2>10. CASE app.phase = "live"
    <3>1. app.lastStop # None /\ app.lastStop \in Nat
      BY <1>1, <2>5, BoundsAssumption DEF NamesInv, FirstInv, Revs
    <3>2. /\ \A k \in Workloads : wls[k].lastStop <= app.lastStop
          /\ app.desired = "STOPPED" => NoneCurrent
          /\ L <= app.lastStop
          /\ app.desired = "STOPPED" /\ procC.app.desired = "STARTED" => L < app.lastStop
          /\ CurrentRead \/ NoneCurrent
      BY <2>2, <2>10, <3>1 DEF NamesInv, NameInv
    <3>3. \A k \in Workloads' : wls'[k].lastStop <= app'.lastStop
      BY <2>1, <2>8, <3>2
    <3>4. app.desired = "STOPPED" => NoneCurrent'
      BY <2>1, <2>8, <3>2 DEF NoneCurrent
    <3>5. L = app.lastStop /\ procC.app.desired = "STARTED" => CurrentApplied'
      BY <2>1, <2>4 DEF CurrentApplied
    <3>6. CurrentApplied' \/ NoneCurrent'
      <4>1. CASE CurrentRead
        BY <3>5, <4>1 DEF CurrentRead
      <4>2. CASE NoneCurrent /\ (L # app.lastStop \/ procC.app.desired # "STARTED")
        <5>1. L # app.lastStop => L < app.lastStop
          BY <2>2, <3>1, <3>2
        <5> QED
          BY <2>1, <2>8, <4>2, <5>1 DEF NoneCurrent
      <4> QED
        BY <3>2, <3>5, <4>1, <4>2
    <3> HIDE DEF NoneCurrent, CurrentApplied
    <3>7. NameInv'
      BY <2>1, <2>4, <2>9, <3>3, <3>4, <3>6 DEF NameInv
    <3> QED
      BY <2>6, <2>7, <3>7 DEF NamesInv
  <2>11. CASE app.phase # "live"
    <3>1. NameInv'
      BY <2>1, <2>9, <2>11 DEF NameInv
    <3> QED
      BY <2>6, <2>7, <3>1 DEF NamesInv
  <2> QED
    BY <2>10, <2>11
<1> QED
  BY <1>2, <1>3, <1>4, <1>5

\* The invariant about names holds initially.
LEMMA InitNames ==
    ASSUME Init
    PROVE  NamesInv
<1>1. app.lastStop = None
  BY DEF Init
<1>2. Workloads = {} /\ procC = Idle /\ ~proc.exists /\ appC = Idle /\ Pending = {}
  BY DEF Init, Workloads, NoWorkload, Pending
<1>3. FirstInv
  BY <1>2 DEF FirstInv, Pristine, Idle
<1>4. CounterInv
  BY <1>1, <1>2 DEF CounterInv, Idle
<1>5. NameInv
  BY <1>1, <1>2 DEF NameInv
<1> QED
  BY <1>3, <1>4, <1>5 DEF NamesInv

\* It is inductive while API requests do not overlap.
LEMMA NextNames ==
    ASSUME OneRequest, TypeInv, TypeInv', NamesInv, [Next]_vars
    PROVE  NamesInv'
<1>1. ASSUME NEW r \in Requests, StartApp(r) \/ StopApp(r)
      PROVE  NamesInv'
  BY <1>1, ReadAppNames DEF StartApp, StopApp
<1>2. ASSUME NEW r \in Requests, NEW d \in Droplets, SetCurrentDroplet(r, d)
      PROVE  NamesInv'
  BY <1>2, ReadAppNames DEF SetCurrentDroplet
<1>3. ASSUME NEW r \in Requests, NEW d \in Droplets \cup {None}, CreateDeployment(r, d)
      PROVE  NamesInv'
  BY <1>3, ReadAppNames DEF CreateDeployment
<1>4. ASSUME NEW r \in Requests, PatchApp(r)
      PROVE  NamesInv'
  BY <1>4, PatchAppNames
<1>5. CASE ReadCFApp \/ ReconcileCFApp \/ ReadCFProcess \/ ApplyCFProcess
  BY <1>5, ControllerNames
<1>6. CASE \/ \E n \in Scales : ScaleProcess(n)
           \/ DeleteApp \/ CreateBinding
           \/ FinalizeCFApp \/ PatchCFAppStatus
           \/ FailCFProcess \/ CleanUpAppWorkloads
           \/ Runner \/ Kubernetes \/ Crash
           \/ UNCHANGED vars
  BY <1>6, QuietSteps, QuietKeeps
<1> QED
  BY <1>1, <1>2, <1>3, <1>4, <1>5, <1>6 DEF Next, API, AppController, ProcessController

\* A workload of the current start is not one of an earlier start.
LEMMA NotCurrent ==
    ASSUME NoCollisions, TypeInv, NamesInv, app.lastStop # None, NoneCurrent,
           NEW k \in Workloads
    PROVE  k # Hash[app.lastStop]
<1>1. wls[k].lastStop \in Revs /\ wls[k].lastStop \in Nat
  BY WorkloadNumber
<1>2. app.lastStop \in Revs /\ app.lastStop \in Nat
  BY AppElim, BoundsAssumption DEF TypeInv, Revs
<1>3. wls[k].lastStop < app.lastStop /\ k = Hash[wls[k].lastStop]
  BY DEF NoneCurrent, NamesInv, NameInv
<1> QED
  BY <1>1, <1>2, <1>3 DEF NoCollisions

\* While API requests do not overlap and the hash has no collisions, a stop
\* renames the workload: for any number of starts, stops, deployments and
\* restarts, and however far the controllers lag.
THEOREM StopsRename ==
    ASSUME OneRequest, NoCollisions
    PROVE  Spec => []StopRenamesWorkload
<1>1. Init => TypeInv /\ NamesInv
  BY InitType, InitNames
<1>2. TypeInv /\ NamesInv /\ [Next]_vars => TypeInv' /\ NamesInv'
  BY NextType, NextNames
<1>3. TypeInv /\ NamesInv => StopRenamesWorkload
  <2> SUFFICES ASSUME TypeInv, NamesInv, app.phase = "live", app.desired = "STOPPED",
                      app.lastStop # None
               PROVE  ~wls[DesiredWorkloadName(app)].exists
    BY DEF StopRenamesWorkload
  <2>1. NoneCurrent
    BY DEF NamesInv, NameInv
  <2>2. DesiredWorkloadName(app) = Hash[app.lastStop] /\ Hash[app.lastStop] \in Names
    BY AppElim, HashAssumption DEF TypeInv, DesiredWorkloadName, LastStopRevision
  <2>3. Hash[app.lastStop] \notin Workloads
    BY <2>1, NotCurrent
  <2> QED
    BY <2>2, <2>3 DEF Workloads
<1> QED
  BY <1>1, <1>2, <1>3, PTL DEF Spec

\* Under the same assumptions the workload of the current start is deleted
\* only after a stop, for a process scaled to zero, or with the app.
THEOREM CurrentIsKept ==
    ASSUME OneRequest, NoCollisions
    PROVE  Spec => DeletedOnlyAfterStop
<1> DEFINE Kept == \A k \in Names :
              (wls[k].exists /\ ~wls[k].deleting /\ wls'[k].exists /\ wls'[k].deleting)
                  => \/ app.phase # "live" \/ app.desired = "STOPPED"
                     \/ procC.pc = "applied" /\ procC.instances = 0
                     \/ k # Hash[LastStopRevision(app)]
<1>1. Init => TypeInv /\ NamesInv
  BY InitType, InitNames
<1>2. TypeInv /\ NamesInv /\ [Next]_vars => TypeInv' /\ NamesInv'
  BY NextType, NextNames
<1>3. TypeInv /\ NamesInv /\ [Next]_vars => [Kept]_vars
  <2> SUFFICES ASSUME TypeInv, NamesInv, Next, NEW k \in Names,
                      wls[k].exists, ~wls[k].deleting, wls'[k].exists, wls'[k].deleting,
                      app.phase = "live", app.desired # "STOPPED",
                      ~(procC.pc = "applied" /\ procC.instances = 0),
                      k = Hash[LastStopRevision(app)]
               PROVE  FALSE
    OBVIOUS
  <2>1. wls'[k] # wls[k]
    OBVIOUS
  <2>2. CASE CleanUpAppWorkloads
    <3>1. procC.pc = "applied" /\ NeedsToDelete(k) /\ procC.desired \in States
      BY <2>2, CleanUpEffect
    <3>2. app.lastStop # None
      BY <3>1 DEF NamesInv, FirstInv, Pristine, Idle
    <3>3. k = Hash[app.lastStop] /\ k \in Workloads
      BY <3>2 DEF LastStopRevision, Workloads
    <3>4. CurrentApplied \/ NoneCurrent
      BY <3>1, <3>2 DEF NamesInv, NameInv
    <3>5. CurrentApplied
      BY <3>2, <3>3, <3>4, NotCurrent
    <3> QED
      BY <3>1, <3>3, <3>5 DEF CurrentApplied, NeedsToDelete
  <2>3. CASE ApplyCFProcess
    <3>1. k # DesiredWorkloadName(procC.app) => wls'[k] = wls[k]
      BY <2>3, ApplyEffect
    <3>2. \/ wls' = wls
          \/ /\ k = DesiredWorkloadName(procC.app)
             /\ wls'[k].deleting = (wls[k].exists /\ wls[k].deleting)
      BY <2>1, <2>3, <3>1, ApplyEffect
    <3> QED
      BY <2>1, <3>2
  <2>4. CASE ApplyAppWorkload
    BY <2>4, RunnerApplyEffect DEF SameWorkload
  <2>5. ASSUME NEW stale \in BOOLEAN, FinalizeAppWorkload(stale)
        PROVE  FALSE
    <3>1. wls'[k] # NoWorkload
      BY DEF NoWorkload
    <3> QED
      BY <2>1, <2>5, <3>1, RunnerFinalizeEffect DEF SameWorkload
  <2>6. ASSUME NEW j \in Names, CollectAppWorkload(j)
        PROVE  FALSE
    BY <2>6, CollectEffect
  <2>7. CASE wls' = wls
    BY <2>1, <2>7
  <2>8. CASE API \/ AppController \/ Crash
    BY <2>7, <2>8 DEF API, StartApp, StopApp, SetCurrentDroplet, CreateDeployment, ReadApp,
       PatchApp, ScaleProcess, DeleteApp, CreateBinding, AppController, ReadCFApp, FinalizeCFApp,
       ReconcileCFApp, PatchCFAppStatus, Crash, CrashControllers, CrashRunner, objects
  <2>9. CASE ReadCFProcess \/ FailCFProcess \/ CollectCFProcess \/ BindingStep
    BY <2>7, <2>9 DEF ReadCFProcess, FailCFProcess, CollectCFProcess, BindingStep, objects
  <2>10. ASSUME NEW j \in Names, ReadAppWorkload(j)
         PROVE  FALSE
    BY <2>7, <2>10 DEF ReadAppWorkload, objects
  <2>11. ASSUME NEW v \in Revs, RollOut(v) \/ PodsReady(v) \/ CollectPods(v)
         PROVE  FALSE
    BY <2>7, <2>11, SetEffect
  <2> QED
    BY <2>2, <2>3, <2>4, <2>5, <2>6, <2>8, <2>9, <2>10, <2>11
       DEF Next, ProcessController, Runner, Kubernetes
<1>4. (Spec => [][Kept]_vars) => (Spec => DeletedOnlyAfterStop)
  BY DEF DeletedOnlyAfterStop
<1> QED
  BY <1>1, <1>2, <1>3, <1>4, PTL DEF Spec
=============================================================================
